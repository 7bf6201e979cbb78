----------------------------- MODULE FencedLease -----------------------------
(***************************************************************************)
(* What the execution table promises to job handlers, without clocks,      *)
(* backoff or planning: leases on a plan are granted one after the other,  *)
(* each with a higher number; a runner may go on working under a lease     *)
(* that was taken from it, but only the report of the newest lease is      *)
(* recorded, and a recorded success is final.                              *)
(***************************************************************************)
EXTENDS Integers

CONSTANTS Plan, Runner, MaxAttempts, NoLease

VARIABLES
    status,      \* per plan: "ABSENT", "RUNNING", "SUCCESS" or "FAILED"
    attempt,     \* per plan: number of the newest lease
    lease,       \* per runner: the lease <<p, a>> it works under, or NoLease
    succeeded    \* leases under which the work was completed

vars == <<status, attempt, lease, succeeded>>

Init ==
    /\ status = [p \in Plan |-> "ABSENT"]
    /\ attempt = [p \in Plan |-> 0]
    /\ lease = [r \in Runner |-> NoLease]
    /\ succeeded = {}

Grant(r, p) ==
    /\ lease[r] = NoLease
    /\ status[p] # "SUCCESS"
    /\ attempt[p] < MaxAttempts
    /\ status' = [status EXCEPT ![p] = "RUNNING"]
    /\ attempt' = [attempt EXCEPT ![p] = @ + 1]
    /\ lease' = [lease EXCEPT ![r] = <<p, attempt[p] + 1>>]
    /\ UNCHANGED succeeded

Work(r) ==
    /\ lease[r] # NoLease
    /\ succeeded' = succeeded \cup {lease[r]}
    /\ UNCHANGED <<status, attempt, lease>>

Report(r, p, s) ==
    /\ lease[r] = <<p, attempt[p]>>
    /\ status[p] = "RUNNING"
    /\ s = "SUCCESS" => lease[r] \in succeeded
    /\ status' = [status EXCEPT ![p] = s]
    /\ lease' = [lease EXCEPT ![r] = NoLease]
    /\ UNCHANGED <<attempt, succeeded>>

\* A crash, or a report that is refused.
Drop(r) ==
    /\ lease' = [lease EXCEPT ![r] = NoLease]
    /\ UNCHANGED <<status, attempt, succeeded>>

Expire(S) ==
    /\ \A p \in S : status[p] = "RUNNING"
    /\ status' = [p \in Plan |-> IF p \in S THEN "FAILED" ELSE status[p]]
    /\ UNCHANGED <<attempt, lease, succeeded>>

Next ==
    \/ \E r \in Runner : Work(r) \/ Drop(r)
    \/ \E r \in Runner, p \in Plan : Grant(r, p) \/ \E s \in {"SUCCESS", "FAILED"} : Report(r, p, s)
    \/ \E S \in SUBSET Plan : Expire(S)

Spec == Init /\ [][Next]_vars
=============================================================================
