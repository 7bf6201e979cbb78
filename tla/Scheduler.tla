------------------------------ MODULE Scheduler ------------------------------
(***************************************************************************)
(* The execution-record scheduler (internal/scheduler) for one job and one *)
(* scope: every server instance (a runner) ticks, closes stale leases,     *)
(* decides which plan_times are due, claims them one after the other in    *)
(* sys_cron_executions and runs the handler under the lease it won.        *)
(*                                                                         *)
(* One step is one SQL statement or one return of a handler.  Time is the  *)
(* database clock in abstract units and passes between any two steps; a    *)
(* runner reads it once per tick and uses that value for the whole tick.   *)
(* lease_token is rotated exactly when attempt is incremented, so the pair *)
(* <<plan_time, attempt>> stands for the token.                            *)
(***************************************************************************)
EXTENDS Integers, Sequences

CONSTANTS
    Runner,
    MaxTime,            \* bound: the clock stops here
    FaultHorizon,       \* bound: no crash and no database error after this time
    Mode,               \* "latest_only", "every_plan", or "hook" for PlansForScope
    Cadence,
    ScheduleDelay,
    CatchUpWindow,
    MaxPlansPerTick,
    MaxLateness,        \* maxAutopilotScheduleLateness
    StaleTimeout,
    AllowStaleReentry,
    MaxAttempts,
    RetryBackoff,       \* sequence of delays
    NoLease

ASSUME JobSpecAssumption ==
    /\ MaxTime \in Nat /\ FaultHorizon \in Nat
    /\ Mode \in {"latest_only", "every_plan", "hook"}
    /\ Cadence \in Nat \ {0}
    /\ ScheduleDelay \in Nat /\ CatchUpWindow \in Nat /\ MaxLateness \in Nat
    /\ MaxPlansPerTick \in Nat \ {0}
    /\ StaleTimeout \in Nat \ {0}
    /\ AllowStaleReentry \in BOOLEAN
    /\ MaxAttempts \in Nat \ {0}
    /\ RetryBackoff \in Seq(Nat)

Time == 0..MaxTime

\* The plan_times: the cadence grid, or the occurrences of the cron expression.
Plan == {t \in Time : t % Cadence = 0}

NULL == 0   \* as next_retry_at: due at once

ASSUME NoLeaseAssumption == NoLease \notin Plan \X Nat

VARIABLES
    now,         \* the database clock
    status,      \* per plan: "ABSENT" when there is no row
    attempt,
    staleAfter,  \* stale_after
    nextRetry,   \* next_retry_at
    errorCode,   \* "none", "stale_timeout" or "handler_error"
    pc,          \* per runner: where it is in its tick
    tick,        \* per runner: the time RunOnce read
    todo,        \* per runner: plans of this tick it has not reached
    lease,       \* per runner: <<plan_time, attempt>> while its handler runs
    succeeded    \* history: leases whose handler returned without an error

vars == <<now, status, attempt, staleAfter, nextRetry, errorCode, pc, tick, todo, lease, succeeded>>

columns == <<status, attempt, staleAfter, nextRetry, errorCode>>

Init ==
    /\ now = 0
    /\ status = [p \in Plan |-> "ABSENT"]
    /\ attempt = [p \in Plan |-> 0]
    /\ staleAfter = [p \in Plan |-> 0]
    /\ nextRetry = [p \in Plan |-> NULL]
    /\ errorCode = [p \in Plan |-> "none"]
    /\ pc = [r \in Runner |-> "loop"]
    /\ tick = [r \in Runner |-> 0]
    /\ todo = [r \in Runner |-> {}]
    /\ lease = [r \in Runner |-> NoLease]
    /\ succeeded = {}

Goto(r, l) == pc' = [pc EXCEPT ![r] = l]

-----------------------------------------------------------------------------
\* A tick: RunOnce and runJob

RunOnce(r) ==
    /\ pc[r] = "loop"
    /\ todo[r] = {}
    /\ tick' = [tick EXCEPT ![r] = now]
    /\ Goto(r, "sweep")
    /\ UNCHANGED <<now, columns, todo, lease, succeeded>>

Stale(t) == {p \in Plan : status[p] = "RUNNING" /\ staleAfter[p] < t}

\* Fault: only jobs that are not reentrant have their abandoned leases closed.
MarkStaleUnlessReentrant(r) ==
    /\ pc[r] = "sweep"
    /\ status' = [p \in Plan |-> IF p \in Stale(tick[r]) /\ ~ AllowStaleReentry THEN "FAILED" ELSE status[p]]
    /\ errorCode' = [p \in Plan |-> IF p \in Stale(tick[r]) THEN "stale_timeout" ELSE errorCode[p]]
    /\ Goto(r, "plan")
    /\ UNCHANGED <<now, attempt, staleAfter, nextRetry, tick, todo, lease, succeeded>>

\* Fault: the sweep looks at the lease's age only.
MarkExpiredAsFailed(r) ==
    LET old == {p \in Plan : status[p] # "ABSENT" /\ staleAfter[p] < tick[r]} IN
    /\ pc[r] = "sweep"
    /\ status' = [p \in Plan |-> IF p \in old THEN "FAILED" ELSE status[p]]
    /\ errorCode' = [p \in Plan |-> IF p \in old THEN "stale_timeout" ELSE errorCode[p]]
    /\ Goto(r, "plan")
    /\ UNCHANGED <<now, attempt, staleAfter, nextRetry, tick, todo, lease, succeeded>>

MarkStaleAsFailed(r) ==
    /\ pc[r] = "sweep"
    /\ status' = [p \in Plan |-> IF p \in Stale(tick[r]) THEN "FAILED" ELSE status[p]]
    /\ errorCode' = [p \in Plan |-> IF p \in Stale(tick[r]) THEN "stale_timeout" ELSE errorCode[p]]
    /\ Goto(r, "plan")
    /\ UNCHANGED <<now, attempt, staleAfter, nextRetry, tick, todo, lease, succeeded>>

-----------------------------------------------------------------------------
\* plansForTick, for a tick that read time t

FloorPlan(t) == (t \div Cadence) * Cadence

Recorded == {p \in Plan : status[p] # "ABSENT"}

\* The newest row (latestPlan).
IsLatestPlan(p) == p \in Recorded /\ \A q \in Recorded : q <= p

RetryEligible(p, t) ==
    /\ status[p] = "FAILED"
    /\ attempt[p] < MaxAttempts
    /\ nextRetry[p] <= t

\* Where every_plan starts: at the newest row while its retry is due, else
\* after it, and never before the catch-up window.
Cursor(t, latest) ==
    LET start == IF Recorded = {} THEN latest
                 ELSE LET p == CHOOSE q \in Recorded : IsLatestPlan(q) IN
                      IF RetryEligible(p, t) THEN p ELSE p + Cadence
        oldest == IF CatchUpWindow = 0 THEN latest ELSE t - CatchUpWindow IN
    IF start >= oldest THEN start
    ELSE IF FloorPlan(oldest) < oldest THEN FloorPlan(oldest) + Cadence ELSE FloorPlan(oldest)

EveryPlan(t, latest) ==
    LET start == Cursor(t, latest) IN
    {p \in Plan : start <= p /\ p <= latest /\ p < start + MaxPlansPerTick * Cadence}

\* autopilotPlansForScope: the newest row while its retry is due, else the
\* newest occurrence since, unless it is too late to fire.
AutopilotPlans(t) ==
    {p \in Plan :
        \/ IsLatestPlan(p) /\ RetryEligible(p, t)
        \/ /\ \A q \in Recorded : q < p /\ (IsLatestPlan(q) => ~ RetryEligible(q, t))
           /\ p = FloorPlan(t)
           /\ t - p <= MaxLateness}

PlansForTick(t) ==
    LET latest == FloorPlan(t - ScheduleDelay) IN
    CASE Mode = "latest_only" -> {latest} \cap Plan
      [] Mode = "every_plan"  -> EveryPlan(t, latest)
      [] Mode = "hook"        -> AutopilotPlans(t)

PlanTick(r) ==
    /\ pc[r] = "plan"
    /\ todo' = [todo EXCEPT ![r] = PlansForTick(tick[r])]
    /\ Goto(r, "loop")
    /\ UNCHANGED <<now, columns, tick, lease, succeeded>>

-----------------------------------------------------------------------------
\* processPlan: claim, run the handler, write the terminal status

NextPlan(r, p) == p \in todo[r] /\ \A q \in todo[r] : p <= q

\* Fault: the attempt budget is not part of the steal's condition.
StealableForever(p, t) ==
    \/ status[p] = "FAILED" /\ nextRetry[p] <= t
    \/ status[p] = "RUNNING" /\ staleAfter[p] < t /\ AllowStaleReentry

\* The WHERE clause of the conflict path: a due retry, or a stale lease.
Stealable(p, t) ==
    /\ attempt[p] < MaxAttempts
    /\ \/ status[p] = "FAILED" /\ nextRetry[p] <= t
       \/ status[p] = "RUNNING" /\ staleAfter[p] < t /\ AllowStaleReentry

Claimable(p, t) == status[p] = "ABSENT" \/ Stealable(p, t)

\* Fault: a steal keeps the token of the lease it takes over.
StealWithoutRotation(r, p) ==
    /\ pc[r] = "loop"
    /\ NextPlan(r, p)
    /\ Claimable(p, tick[r])
    /\ status' = [status EXCEPT ![p] = "RUNNING"]
    /\ attempt' = [attempt EXCEPT ![p] = IF @ = 0 THEN 1 ELSE @]
    /\ staleAfter' = [staleAfter EXCEPT ![p] = tick[r] + StaleTimeout]
    /\ nextRetry' = [nextRetry EXCEPT ![p] = NULL]
    /\ errorCode' = [errorCode EXCEPT ![p] = "none"]
    /\ todo' = [todo EXCEPT ![r] = @ \ {p}]
    /\ lease' = [lease EXCEPT ![r] = <<p, IF attempt[p] = 0 THEN 1 ELSE attempt[p]>>]
    /\ Goto(r, "run")
    /\ UNCHANGED <<now, tick, succeeded>>

TryClaim(r, p) ==
    /\ pc[r] = "loop"
    /\ NextPlan(r, p)
    /\ Claimable(p, tick[r])
    /\ status' = [status EXCEPT ![p] = "RUNNING"]
    /\ attempt' = [attempt EXCEPT ![p] = @ + 1]
    /\ staleAfter' = [staleAfter EXCEPT ![p] = tick[r] + StaleTimeout]
    /\ nextRetry' = [nextRetry EXCEPT ![p] = NULL]
    /\ errorCode' = [errorCode EXCEPT ![p] = "none"]
    /\ todo' = [todo EXCEPT ![r] = @ \ {p}]
    /\ lease' = [lease EXCEPT ![r] = <<p, attempt[p] + 1>>]
    /\ Goto(r, "run")
    /\ UNCHANGED <<now, tick, succeeded>>

\* Another runner owns the plan, or it is not to be attempted (again).
ClaimConflicted(r, p) ==
    /\ pc[r] = "loop"
    /\ NextPlan(r, p)
    /\ ~ Claimable(p, tick[r])
    /\ todo' = [todo EXCEPT ![r] = @ \ {p}]
    /\ UNCHANGED <<now, columns, pc, tick, lease, succeeded>>

\* Fault: the terminal write is not guarded by the lease token.
OwnsAnyLease(r, p) == lease[r] # NoLease /\ lease[r][1] = p /\ status[p] = "RUNNING"

\* "id = $1 AND lease_token = $2 AND status = 'RUNNING'"
Owns(r, p) == lease[r] = <<p, attempt[p]>> /\ status[p] = "RUNNING"

\* A heartbeat that finds the lease lost stops the renewals, not the handler.
Heartbeat(r, p) ==
    /\ pc[r] = "run"
    /\ Owns(r, p)
    /\ staleAfter' = [staleAfter EXCEPT ![p] = now + StaleTimeout]
    /\ UNCHANGED <<now, status, attempt, nextRetry, errorCode, pc, tick, todo, lease, succeeded>>

HandlerSucceeds(r) ==
    /\ pc[r] = "run"
    /\ succeeded' = succeeded \cup {lease[r]}
    /\ Goto(r, "succeeded")
    /\ UNCHANGED <<now, columns, tick, todo, lease>>

\* An error, a panic or the run timeout.
HandlerFails(r) ==
    /\ pc[r] = "run"
    /\ Goto(r, "failed")
    /\ UNCHANGED <<now, columns, tick, todo, lease, succeeded>>

Release(r) ==
    /\ lease' = [lease EXCEPT ![r] = NoLease]
    /\ Goto(r, "loop")

FinishSuccess(r, p) ==
    /\ pc[r] = "succeeded"
    /\ Owns(r, p)
    /\ status' = [status EXCEPT ![p] = "SUCCESS"]
    /\ errorCode' = [errorCode EXCEPT ![p] = "none"]
    /\ Release(r)
    /\ UNCHANGED <<now, attempt, staleAfter, nextRetry, tick, todo, succeeded>>

RetryDelay(a) ==
    IF RetryBackoff = << >> THEN 0
    ELSE RetryBackoff[IF a > Len(RetryBackoff) THEN Len(RetryBackoff) ELSE a]

FinishFailure(r, p) ==
    /\ pc[r] = "failed"
    /\ Owns(r, p)
    /\ status' = [status EXCEPT ![p] = "FAILED"]
    /\ errorCode' = [errorCode EXCEPT ![p] = "handler_error"]
    /\ nextRetry' = [nextRetry EXCEPT ![p] =
                        IF attempt[p] < MaxAttempts THEN now + RetryDelay(attempt[p]) ELSE NULL]
    /\ Release(r)
    /\ UNCHANGED <<now, attempt, staleAfter, tick, todo, succeeded>>

\* ErrLeaseLost: the terminal status is not written.
FinishIgnored(r) ==
    /\ pc[r] \in {"succeeded", "failed"}
    /\ ~ \E p \in Plan : Owns(r, p)
    /\ Release(r)
    /\ UNCHANGED <<now, columns, tick, todo, succeeded>>

-----------------------------------------------------------------------------
\* Faults and time

\* A failing statement is logged and the tick goes on.
DbError(r) ==
    /\ now <= FaultHorizon
    /\ \/ pc[r] = "sweep" /\ Goto(r, "plan") /\ UNCHANGED <<todo, lease>>
       \/ pc[r] = "plan" /\ Goto(r, "loop") /\ UNCHANGED <<todo, lease>>
       \/ /\ pc[r] = "loop"
          /\ \E p \in todo[r] : NextPlan(r, p) /\ todo' = [todo EXCEPT ![r] = @ \ {p}]
          /\ UNCHANGED <<pc, lease>>
       \/ pc[r] \in {"succeeded", "failed"} /\ Release(r) /\ UNCHANGED todo
    /\ UNCHANGED <<now, columns, tick, succeeded>>

\* The instance dies and comes back; what it held is forgotten.
Crash(r) ==
    /\ now <= FaultHorizon
    /\ pc[r] # "loop" \/ todo[r] # {}
    /\ todo' = [todo EXCEPT ![r] = {}]
    /\ Release(r)
    /\ UNCHANGED <<now, columns, tick, succeeded>>

Advance ==
    /\ now < MaxTime
    /\ now' = now + 1
    /\ UNCHANGED <<columns, pc, tick, todo, lease, succeeded>>

\* What a runner does by itself.
Step(r) ==
    \/ RunOnce(r) \/ MarkStaleAsFailed(r) \/ PlanTick(r)
    \/ HandlerSucceeds(r) \/ HandlerFails(r) \/ FinishIgnored(r)
    \/ \E p \in Plan : TryClaim(r, p) \/ ClaimConflicted(r, p) \/ FinishSuccess(r, p) \/ FinishFailure(r, p)

Next ==
    \/ \E r \in Runner : Step(r) \/ DbError(r) \/ Crash(r) \/ \E p \in Plan : Heartbeat(r, p)
    \/ Advance

Spec == Init /\ [][Next]_vars

\* Instances tick for ever, handlers return (RunTimeout), time passes.
LiveSpec == Spec /\ (\A r \in Runner : WF_vars(Step(r))) /\ WF_vars(Advance)

-----------------------------------------------------------------------------
\* Properties

TypeOK ==
    /\ now \in Time
    /\ status \in [Plan -> {"ABSENT", "RUNNING", "SUCCESS", "FAILED"}]
    /\ attempt \in [Plan -> 0..MaxAttempts]
    /\ staleAfter \in [Plan -> Nat]
    /\ nextRetry \in [Plan -> Nat]
    /\ errorCode \in [Plan -> {"none", "stale_timeout", "handler_error"}]
    /\ pc \in [Runner -> {"loop", "sweep", "plan", "run", "succeeded", "failed"}]
    /\ tick \in [Runner -> Time]
    /\ todo \in [Runner -> SUBSET Plan]
    /\ lease \in [Runner -> (Plan \X (1..MaxAttempts)) \cup {NoLease}]
    /\ succeeded \in SUBSET (Plan \X (1..MaxAttempts))
    /\ \A r \in Runner : lease[r] # NoLease <=> pc[r] \in {"run", "succeeded", "failed"}

\* No two runners ever work under the same lease, and none works under a lease
\* the table has not granted: a steal rotates the token even while the previous
\* holder is still running (tryClaim).
LeasesDistinct ==
    /\ \A r, s \in Runner : (lease[r] # NoLease /\ lease[r] = lease[s]) => r = s
    /\ \A r \in Runner, p \in Plan, a \in 1..MaxAttempts : lease[r] = <<p, a>> => a <= attempt[p]

\* A row says SUCCESS only if the handler of that very attempt returned without
\* an error; an attempt whose lease was taken cannot mark its successor as done
\* (finishSuccess, lease_token guard).
SuccessIsReal ==
    \A p \in Plan : status[p] = "SUCCESS" => <<p, attempt[p]>> \in succeeded

\* The scheduler keeps the promise of FencedLease whatever runners crash, stall,
\* tick with an old clock or lose statements.
Fenced == INSTANCE FencedLease WITH
    status <- status, attempt <- attempt, lease <- lease, succeeded <- succeeded
ImplementsFencedLease == Fenced!Spec

\* A lease whose runner died does not stay RUNNING for ever, in any catch-up
\* mode (runJob: a stuck row "would otherwise sit in the table forever").
AbandonedLeaseClosed ==
    \A p \in Plan : \A a \in 1..MaxAttempts :
        (status[p] = "RUNNING" /\ attempt[p] = a) ~> ~ (status[p] = "RUNNING" /\ attempt[p] = a)
=============================================================================
