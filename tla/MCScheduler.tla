---------------------------- MODULE MCScheduler ----------------------------
(***************************************************************************)
(* Small instances of Scheduler: backoff sequences, and the permutations   *)
(* of the interchangeable runners.                                         *)
(***************************************************************************)
EXTENDS Scheduler, TLC

ShortBackoff == <<1>>
LongBackoff == <<2, 4>>
Interchangeable == Permutations(Runner)
=============================================================================
