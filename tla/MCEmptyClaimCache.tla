------------------------- MODULE MCEmptyClaimCache -------------------------
(***************************************************************************)
(* Small instances of EmptyClaimCache.  Tasks and claim requests are       *)
(* interchangeable, so the safety runs use their permutations.             *)
(***************************************************************************)
EXTENDS EmptyClaimCache, TLC

Interchangeable == Permutations(Task) \cup Permutations(Poller)
=============================================================================
