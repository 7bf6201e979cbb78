--------------------------- MODULE SchedulerProofs ---------------------------
(***************************************************************************)
(* Theorems about Scheduler for every set of runners, clock bound, catch-up *)
(* mode, cadence, timeout, attempt budget and backoff sequence.            *)
(***************************************************************************)
EXTENDS Scheduler, TLAPS

\* A plan without a row has not been attempted.
AbsentIsNew == \A p \in Plan : status[p] = "ABSENT" => attempt[p] = 0

\* A handler that is about to report success has returned without an error.
SuccessWasReturned == \A r \in Runner : pc[r] = "succeeded" => lease[r] \in succeeded

TypeInv == TypeOK /\ AbsentIsNew

WorkInv == TypeInv /\ SuccessWasReturned

LeaseInv == WorkInv /\ LeasesDistinct /\ SuccessIsReal

-----------------------------------------------------------------------------
\* Facts about the operators

\* plan_times are times.
LEMMA PlanType == Plan \subseteq Nat
BY JobSpecAssumption DEF Plan, Time

\* A tick plans plan_times only, in every mode.
LEMMA PlansForTickType == \A t : PlansForTick(t) \subseteq Plan
BY JobSpecAssumption DEF PlansForTick, EveryPlan, AutopilotPlans

\* retryDelay is defined for every attempt, also past the end of the list.
LEMMA RetryDelayType == \A a \in Nat \ {0} : RetryDelay(a) \in Nat
BY JobSpecAssumption DEF RetryDelay

\* The guard of the terminal writes names the row's current attempt.
LEMMA OwnsGivesAttempt ==
    ASSUME TypeOK, NEW r \in Runner, NEW p \in Plan, Owns(r, p)
    PROVE  attempt[p] \in 1..MaxAttempts /\ lease[r] # NoLease
<1>1. <<p, attempt[p]>> \in Plan \X Nat
  BY JobSpecAssumption DEF TypeOK
<1>2. lease[r] # NoLease
  BY <1>1, NoLeaseAssumption DEF Owns
<1>3. <<p, attempt[p]>> \in Plan \X (1..MaxAttempts)
  BY <1>2 DEF TypeOK, Owns
<1>4. QED
  BY <1>2, <1>3

\* A row that can be claimed has an attempt left and is not a success.
LEMMA ClaimableHasBudget ==
    ASSUME TypeInv, NEW p \in Plan, NEW t, Claimable(p, t)
    PROVE  attempt[p] < MaxAttempts /\ attempt[p] + 1 \in 1..MaxAttempts /\ status[p] # "SUCCESS"
BY JobSpecAssumption DEF TypeInv, TypeOK, AbsentIsNew, Claimable, Stealable

-----------------------------------------------------------------------------
\* Types

\* An empty table and idle runners.
LEMMA InitTypeInv == Init => TypeInv
BY JobSpecAssumption DEF Init, TypeInv, TypeOK, AbsentIsNew, Time, NULL

\* No step breaks a type or gives an absent row an attempt.
LEMMA NextTypeInv == TypeInv /\ [Next]_vars => TypeInv'
<1> SUFFICES ASSUME TypeInv, [Next]_vars PROVE TypeInv'
  OBVIOUS
<1> USE DEF TypeInv
<1>1. ASSUME NEW r \in Runner, RunOnce(r) PROVE TypeInv'
  BY <1>1 DEF RunOnce, Goto, columns, TypeOK, AbsentIsNew
<1>2. ASSUME NEW r \in Runner, MarkStaleAsFailed(r) PROVE TypeInv'
  BY <1>2 DEF MarkStaleAsFailed, Stale, Goto, TypeOK, AbsentIsNew
<1>3. ASSUME NEW r \in Runner, PlanTick(r) PROVE TypeInv'
  BY <1>3, PlansForTickType DEF PlanTick, Goto, columns, TypeOK, AbsentIsNew
<1>4. ASSUME NEW r \in Runner, HandlerSucceeds(r) PROVE TypeInv'
  BY <1>4 DEF HandlerSucceeds, Goto, columns, TypeOK, AbsentIsNew
<1>5. ASSUME NEW r \in Runner, HandlerFails(r) PROVE TypeInv'
  BY <1>5 DEF HandlerFails, Goto, columns, TypeOK, AbsentIsNew
<1>6. ASSUME NEW r \in Runner, FinishIgnored(r) PROVE TypeInv'
  BY <1>6 DEF FinishIgnored, Release, Goto, columns, TypeOK, AbsentIsNew
<1>7. ASSUME NEW r \in Runner, NEW p \in Plan, TryClaim(r, p) PROVE TypeInv'
  <2>1. /\ attempt[p] + 1 \in 1..MaxAttempts
        /\ tick[r] + StaleTimeout \in Nat
        /\ <<p, attempt[p] + 1>> \in Plan \X (1..MaxAttempts)
        /\ <<p, attempt[p] + 1>> # NoLease
    <3>1. attempt[p] + 1 \in 1..MaxAttempts
      BY <1>7, ClaimableHasBudget DEF TryClaim
    <3>2. tick[r] + StaleTimeout \in Nat
      BY JobSpecAssumption DEF TypeOK, Time
    <3>3. <<p, attempt[p] + 1>> \in Plan \X Nat
      BY <3>1
    <3>4. QED
      BY <3>1, <3>2, <3>3, NoLeaseAssumption
  <2>2. /\ now' \in Time
        /\ status' \in [Plan -> {"ABSENT", "RUNNING", "SUCCESS", "FAILED"}]
        /\ attempt' \in [Plan -> 0..MaxAttempts]
        /\ staleAfter' \in [Plan -> Nat]
        /\ nextRetry' \in [Plan -> Nat]
        /\ errorCode' \in [Plan -> {"none", "stale_timeout", "handler_error"}]
    BY <1>7, <2>1 DEF TryClaim, TypeOK, NULL
  <2>3. /\ pc' \in [Runner -> {"loop", "sweep", "plan", "run", "succeeded", "failed"}]
        /\ tick' \in [Runner -> Time]
        /\ todo' \in [Runner -> SUBSET Plan]
        /\ lease' \in [Runner -> (Plan \X (1..MaxAttempts)) \cup {NoLease}]
        /\ succeeded' \in SUBSET (Plan \X (1..MaxAttempts))
    BY <1>7, <2>1 DEF TryClaim, Goto, TypeOK
  <2>4. \A s \in Runner : lease'[s] # NoLease <=> pc'[s] \in {"run", "succeeded", "failed"}
    BY <1>7, <2>1 DEF TryClaim, Goto, TypeOK
  <2>5. AbsentIsNew'
    BY <1>7 DEF TryClaim, TypeOK, AbsentIsNew
  <2>6. QED
    BY <2>2, <2>3, <2>4, <2>5 DEF TypeOK
<1>8. ASSUME NEW r \in Runner, NEW p \in Plan, ClaimConflicted(r, p) PROVE TypeInv'
  BY <1>8 DEF ClaimConflicted, columns, TypeOK, AbsentIsNew
<1>9. ASSUME NEW r \in Runner, NEW p \in Plan, FinishSuccess(r, p) PROVE TypeInv'
  BY <1>9 DEF FinishSuccess, Release, Goto, TypeOK, AbsentIsNew
<1>10. ASSUME NEW r \in Runner, NEW p \in Plan, FinishFailure(r, p) PROVE TypeInv'
  <2>1. RetryDelay(attempt[p]) \in Nat
    BY <1>10, OwnsGivesAttempt, RetryDelayType, JobSpecAssumption DEF FinishFailure
  <2>2. now + RetryDelay(attempt[p]) \in Nat
    BY <2>1, JobSpecAssumption DEF TypeOK, Time
  <2>3. QED
    BY <1>10, <2>2 DEF FinishFailure, Release, Goto, TypeOK, AbsentIsNew, NULL
<1>11. ASSUME NEW r \in Runner, DbError(r) PROVE TypeInv'
  BY <1>11 DEF DbError, Release, Goto, columns, TypeOK, AbsentIsNew
<1>12. ASSUME NEW r \in Runner, Crash(r) PROVE TypeInv'
  BY <1>12 DEF Crash, Release, Goto, columns, TypeOK, AbsentIsNew
<1>13. ASSUME NEW r \in Runner, NEW p \in Plan, Heartbeat(r, p) PROVE TypeInv'
  <2>1. now + StaleTimeout \in Nat
    BY JobSpecAssumption DEF TypeOK, Time
  <2>2. QED
    BY <1>13, <2>1 DEF Heartbeat, TypeOK, AbsentIsNew
<1>14. CASE Advance
  <2>1. now' \in Time
    BY <1>14, JobSpecAssumption DEF Advance, TypeOK, Time
  <2>2. QED
    BY <1>14, <2>1 DEF Advance, columns, TypeOK, AbsentIsNew
<1>15. CASE UNCHANGED vars
  BY <1>15 DEF vars, TypeOK, AbsentIsNew
<1>16. QED
  BY <1>1, <1>2, <1>3, <1>4, <1>5, <1>6, <1>7, <1>8, <1>9, <1>10, <1>11, <1>12, <1>13, <1>14, <1>15
  DEF Next, Step

\* The scheduler's state keeps its types; in particular no plan is attempted
\* more often than max_attempts allows (tryClaim).
THEOREM SchedulerTypeCorrect == Spec => []TypeOK
<1>1. Spec => []TypeInv
  BY InitTypeInv, NextTypeInv, PTL DEF Spec
<1>2. TypeInv => TypeOK
  BY DEF TypeInv
<1>3. QED
  BY <1>1, <1>2, PTL

-----------------------------------------------------------------------------
\* Refinement: every step grants, works, reports, drops or expires a lease, or
\* leaves the table and the leases alone.

\* Nobody is about to report anything.
LEMMA InitWorkInv == Init => WorkInv
<1>1. Init => TypeInv
  BY InitTypeInv
<1>2. Init => SuccessWasReturned
  BY DEF Init, SuccessWasReturned
<1>3. QED
  BY <1>1, <1>2 DEF WorkInv

\* A runner that will report success has a handler that returned without error.
LEMMA NextWorkInv == WorkInv /\ [Next]_vars => WorkInv'
<1> SUFFICES ASSUME WorkInv, [Next]_vars PROVE WorkInv'
  OBVIOUS
<1>1. TypeInv'
  BY NextTypeInv DEF WorkInv
<1>2. SuccessWasReturned'
  BY DEF WorkInv, TypeInv, TypeOK, SuccessWasReturned, Next, Step, RunOnce, MarkStaleAsFailed, PlanTick,
         HandlerSucceeds, HandlerFails, FinishIgnored, TryClaim, ClaimConflicted, FinishSuccess,
         FinishFailure, DbError, Crash, Heartbeat, Advance, Release, Goto, vars
<1>3. QED
  BY <1>1, <1>2 DEF WorkInv

\* Every step of the scheduler is a step of FencedLease or leaves its state alone.
LEMMA StepRefines == WorkInv /\ [Next]_vars => [Fenced!Next]_(Fenced!vars)
<1> SUFFICES ASSUME WorkInv, [Next]_vars
             PROVE  Fenced!Next \/ UNCHANGED <<status, attempt, lease, succeeded>>
  BY DEF Fenced!vars
<1> USE DEF WorkInv, TypeInv
<1>1. ASSUME NEW r \in Runner, MarkStaleAsFailed(r) PROVE \E S \in SUBSET Plan : Fenced!Expire(S)
  <2>1. Fenced!Expire(Stale(tick[r]))
    BY <1>1 DEF MarkStaleAsFailed, Fenced!Expire, Stale
  <2>2. QED
    BY <2>1 DEF Stale
<1>2. ASSUME NEW r \in Runner, HandlerSucceeds(r) PROVE Fenced!Work(r)
  BY <1>2 DEF HandlerSucceeds, Fenced!Work, columns, TypeOK
<1>3. ASSUME NEW r \in Runner, Release(r), UNCHANGED <<status, attempt, succeeded>> PROVE Fenced!Drop(r)
  BY <1>3 DEF Release, Fenced!Drop
<1>4. ASSUME NEW r \in Runner, NEW p \in Plan, TryClaim(r, p) PROVE Fenced!Grant(r, p)
  <2>1. lease[r] = NoLease
    BY <1>4 DEF TryClaim, TypeOK
  <2>2. attempt[p] < MaxAttempts /\ status[p] # "SUCCESS"
    BY <1>4, ClaimableHasBudget DEF TryClaim
  <2>3. QED
    BY <1>4, <2>1, <2>2 DEF TryClaim, Fenced!Grant
<1>5. ASSUME NEW r \in Runner, NEW p \in Plan, FinishSuccess(r, p) PROVE Fenced!Report(r, p, "SUCCESS")
  BY <1>5 DEF FinishSuccess, Owns, Release, SuccessWasReturned, Fenced!Report
<1>6. ASSUME NEW r \in Runner, NEW p \in Plan, FinishFailure(r, p) PROVE Fenced!Report(r, p, "FAILED")
  BY <1>6 DEF FinishFailure, Owns, Release, Fenced!Report
<1>7. ASSUME NEW r \in Runner, DbError(r)
      PROVE  Fenced!Drop(r) \/ UNCHANGED <<status, attempt, lease, succeeded>>
  BY <1>7, <1>3 DEF DbError, columns
<1>8. ASSUME NEW r \in Runner, FinishIgnored(r) \/ Crash(r) PROVE Fenced!Drop(r)
  BY <1>8, <1>3 DEF FinishIgnored, Crash, columns
<1>9. ASSUME NEW r \in Runner, RunOnce(r) \/ PlanTick(r) \/ HandlerFails(r)
      PROVE  UNCHANGED <<status, attempt, lease, succeeded>>
  BY <1>9 DEF RunOnce, PlanTick, HandlerFails, columns
<1>10. ASSUME NEW r \in Runner, NEW p \in Plan, ClaimConflicted(r, p) \/ Heartbeat(r, p)
       PROVE  UNCHANGED <<status, attempt, lease, succeeded>>
  BY <1>10 DEF ClaimConflicted, Heartbeat, columns
<1>11. ASSUME Advance \/ UNCHANGED vars PROVE UNCHANGED <<status, attempt, lease, succeeded>>
  BY <1>11 DEF Advance, vars, columns
<1>12. QED
  BY <1>1, <1>2, <1>4, <1>5, <1>6, <1>7, <1>8, <1>9, <1>10, <1>11 DEF Next, Step, Fenced!Next

\* The scheduler implements FencedLease: whatever runners crash, stall, tick with
\* an old clock or lose statements, leases on a plan are numbered, only the
\* newest one's report is recorded, and a recorded success is final.
THEOREM SchedulerFencesLeases == Spec => ImplementsFencedLease
<1>1. Init => Fenced!Init
  BY DEF Init, Fenced!Init
<1>2. Spec => []WorkInv
  BY InitWorkInv, NextWorkInv, PTL DEF Spec
<1>3. QED
  BY <1>1, <1>2, StepRefines, PTL DEF Spec, ImplementsFencedLease, Fenced!Spec

-----------------------------------------------------------------------------
\* Invariants of the abstract steps

\* The abstract steps keep leases distinct and recorded successes real.
LEMMA FencedStepKeeps ==
    ASSUME TypeOK, TypeOK', LeasesDistinct, SuccessIsReal, [Fenced!Next]_(Fenced!vars)
    PROVE  LeasesDistinct' /\ SuccessIsReal'
<1>1. ASSUME NEW r \in Runner, Fenced!Work(r) PROVE LeasesDistinct' /\ SuccessIsReal'
  BY <1>1 DEF Fenced!Work, LeasesDistinct, SuccessIsReal
<1>2. ASSUME NEW r \in Runner, Fenced!Drop(r) PROVE LeasesDistinct' /\ SuccessIsReal'
  <2>1. \A s \in Runner : lease'[s] = IF s = r THEN NoLease ELSE lease[s]
    BY <1>2 DEF Fenced!Drop, TypeOK
  <2>2. \A p \in Plan, a \in 1..MaxAttempts : <<p, a>> # NoLease
    BY NoLeaseAssumption
  <2>3. QED
    BY <1>2, <2>1, <2>2 DEF Fenced!Drop, LeasesDistinct, SuccessIsReal
<1>3. ASSUME NEW r \in Runner, NEW p \in Plan, Fenced!Grant(r, p) PROVE LeasesDistinct' /\ SuccessIsReal'
  <2>1. \A s \in Runner : lease'[s] = IF s = r THEN <<p, attempt[p] + 1>> ELSE lease[s]
    BY <1>3 DEF Fenced!Grant, TypeOK
  <2>2. \A q \in Plan : attempt'[q] = IF q = p THEN attempt[p] + 1 ELSE attempt[q]
    BY <1>3 DEF Fenced!Grant, TypeOK
  <2>3. \A s \in Runner : lease[s] # <<p, attempt[p] + 1>>
    <3>1. attempt[p] \in Nat /\ attempt[p] + 1 \in 1..MaxAttempts
      BY <1>3, JobSpecAssumption DEF Fenced!Grant, TypeOK
    <3>2. \A s \in Runner : lease[s] = <<p, attempt[p] + 1>> => attempt[p] + 1 <= attempt[p]
      BY <3>1 DEF LeasesDistinct
    <3>3. QED
      BY <3>1, <3>2
  <2>4. LeasesDistinct'
    <3>1. \A s, u \in Runner : (lease'[s] # NoLease /\ lease'[s] = lease'[u]) => s = u
      BY <2>1, <2>3 DEF LeasesDistinct
    <3>2. ASSUME NEW s \in Runner, NEW q \in Plan, NEW a \in 1..MaxAttempts, lease'[s] = <<q, a>>
          PROVE  a <= attempt'[q]
      <4>1. CASE s = r
        <5>1. q = p /\ a = attempt[p] + 1
          BY <3>2, <2>1, <4>1
        <5>2. QED
          BY <5>1, <2>2
      <4>2. CASE s # r
        <5>1. a <= attempt[q]
          BY <3>2, <2>1, <4>2 DEF LeasesDistinct
        <5>2. attempt[q] \in Nat /\ attempt[p] \in Nat
          BY JobSpecAssumption DEF TypeOK
        <5>3. QED
          BY <5>1, <5>2, <2>2
      <4>3. QED
        BY <4>1, <4>2
    <3>3. QED
      BY <3>1, <3>2 DEF LeasesDistinct
  <2>5. SuccessIsReal'
    BY <1>3, <2>2 DEF Fenced!Grant, SuccessIsReal, TypeOK
  <2>6. QED
    BY <2>4, <2>5
<1>4. ASSUME NEW r \in Runner, NEW p \in Plan, NEW s \in {"SUCCESS", "FAILED"}, Fenced!Report(r, p, s)
      PROVE  LeasesDistinct' /\ SuccessIsReal'
  <2>1. \A q \in Runner : lease'[q] = IF q = r THEN NoLease ELSE lease[q]
    BY <1>4 DEF Fenced!Report, TypeOK
  <2>2. \A q \in Plan, a \in 1..MaxAttempts : <<q, a>> # NoLease
    BY NoLeaseAssumption
  <2>3. LeasesDistinct'
    BY <1>4, <2>1, <2>2 DEF Fenced!Report, LeasesDistinct
  <2>4. SuccessIsReal'
    <3>1. /\ \A q \in Plan : status'[q] = IF q = p THEN s ELSE status[q]
          /\ attempt' = attempt /\ succeeded' = succeeded
          /\ s = "SUCCESS" => <<p, attempt[p]>> \in succeeded
      BY <1>4 DEF Fenced!Report, TypeOK
    <3>2. QED
      BY <3>1 DEF SuccessIsReal
  <2>5. QED
    BY <2>3, <2>4
<1>5. ASSUME NEW S \in SUBSET Plan, Fenced!Expire(S) PROVE LeasesDistinct' /\ SuccessIsReal'
  BY <1>5 DEF Fenced!Expire, LeasesDistinct, SuccessIsReal, TypeOK
<1>6. CASE UNCHANGED Fenced!vars
  BY <1>6 DEF Fenced!vars, LeasesDistinct, SuccessIsReal
<1>7. QED
  BY <1>1, <1>2, <1>3, <1>4, <1>5, <1>6 DEF Fenced!Next

\* The inductive invariant behind both lease properties.
LEMMA SpecLeaseInv == Spec => []LeaseInv
<1>1. Init => LeaseInv
  <2>1. Init => LeasesDistinct /\ SuccessIsReal
    BY NoLeaseAssumption DEF Init, LeasesDistinct, SuccessIsReal
  <2>2. QED
    BY <2>1, InitWorkInv DEF LeaseInv
<1>2. LeaseInv /\ [Next]_vars => LeaseInv'
  <2> SUFFICES ASSUME LeaseInv, [Next]_vars PROVE LeaseInv'
    OBVIOUS
  <2>1. WorkInv' /\ [Fenced!Next]_(Fenced!vars)
    BY NextWorkInv, StepRefines DEF LeaseInv
  <2>2. TypeOK /\ TypeOK'
    BY <2>1 DEF LeaseInv, WorkInv, TypeInv
  <2>3. LeasesDistinct' /\ SuccessIsReal'
    BY <2>1, <2>2, FencedStepKeeps DEF LeaseInv
  <2>4. QED
    BY <2>1, <2>3 DEF LeaseInv
<1>3. QED
  BY <1>1, <1>2, PTL DEF Spec

\* No two runners ever work under the same lease, and none under a lease the
\* table has not granted, even while a stolen lease's old holder still runs.
THEOREM LeasesNeverShared == Spec => []LeasesDistinct
<1>1. LeaseInv => LeasesDistinct
  BY DEF LeaseInv
<1>2. QED
  BY <1>1, SpecLeaseInv, PTL

\* A SUCCESS row always stands for a handler of that very attempt that returned
\* without an error: the lease_token guard of the terminal writes is enough.
THEOREM RecordedSuccessIsReal == Spec => []SuccessIsReal
<1>1. LeaseInv => SuccessIsReal
  BY DEF LeaseInv
<1>2. QED
  BY <1>1, SpecLeaseInv, PTL
=============================================================================
