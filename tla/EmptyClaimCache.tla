--------------------------- MODULE EmptyClaimCache ---------------------------
(***************************************************************************)
(* The empty-claim cache of one runtime: two Redis keys, a version counter *)
(* and an "empty" verdict tagged with a version, read by claim requests    *)
(* before they look at the task table and invalidated by whoever makes a   *)
(* row claimable.                                                          *)
(*                                                                         *)
(* One step is one Redis call or one SQL statement, so claim requests,     *)
(* enqueues and expiring keys interleave between any two of them.  Rows    *)
(* are only queued or not; which row a claim may take (priorities, keys,   *)
(* capacity) is the subject of TaskQueue.                                  *)
(***************************************************************************)
EXTENDS Integers

CONSTANTS
    Task,
    Poller,     \* claim requests of this runtime that may overlap
    MaxGen,     \* bound: how often one task is published
    SpineOn,    \* MOLECULE_SPINE=1
    MayFail     \* Redis calls may fail, the process may die before a Bump

ASSUME CacheAssumption ==
    /\ MaxGen \in Nat
    /\ SpineOn \in BOOLEAN
    /\ MayFail \in BOOLEAN

NoVerdict == -1

VARIABLES
    task,      \* per task: "new", "queued", "claimed" or "finished"
    blocked,   \* tasks whose issue has is_blocked set
    gen,       \* per task, how many of its transitions have been published
    bumping,   \* published transitions <<t, g>> whose Bump is still to run
    lost,      \* published transitions whose Bump never reached Redis
    version,   \* emptyClaimVersionKey, 0 when the key is missing
    verdict,   \* emptyClaimCacheKey, NoVerdict when the key is missing
    pc,        \* where each claim request is
    seen       \* preSelectVersion of each claim request

vars == <<task, blocked, gen, bumping, lost, version, verdict, pc, seen>>

rows  == <<task, gen, bumping>>
cache == <<version, verdict>>

Init ==
    /\ task = [t \in Task |-> "new"]
    /\ blocked = {}
    /\ gen = [t \in Task |-> 0]
    /\ bumping = {} /\ lost = {}
    /\ version = 0 /\ verdict = NoVerdict
    /\ pc = [p \in Poller |-> "idle"]
    /\ seen = [p \in Poller |-> 0]

Queued == {t \in Task : task[t] = "queued"}

\* What ListQueuedClaimCandidatesByRuntime returns.
ListQueuedClaimCandidates == {t \in Queued : ~ (SpineOn /\ t \in blocked)}

\* IsEmpty: the verdict carries the current version.
IsEmpty == verdict = version

-----------------------------------------------------------------------------
\* Transitions of rows.  The row is written first, then the runtime is notified.

Publish(t) ==
    /\ gen[t] < MaxGen
    /\ gen' = [gen EXCEPT ![t] = @ + 1]
    /\ bumping' = bumping \cup {<<t, gen[t] + 1>>}

\* An insert, a retry's insert, or the promotion of a deferred row.
NotifyTaskEnqueued(t) ==
    /\ task[t] = "new"
    /\ task' = [task EXCEPT ![t] = "queued"]
    /\ Publish(t)
    /\ UNCHANGED <<blocked, lost, cache, pc, seen>>

\* Fault: the requeued row is not announced.
RequeueWithoutNotify(t) ==
    /\ task[t] = "claimed"
    /\ task' = [task EXCEPT ![t] = "queued"]
    /\ gen[t] < MaxGen
    /\ gen' = [gen EXCEPT ![t] = @ + 1]
    /\ UNCHANGED <<bumping, blocked, lost, cache, pc, seen>>

RequeueTaskAfterClaimFailure(t) ==
    /\ task[t] = "claimed"
    /\ task' = [task EXCEPT ![t] = "queued"]
    /\ Publish(t)
    /\ UNCHANGED <<blocked, lost, cache, pc, seen>>

\* Completion, failure and cancellation announce that work may have unblocked.
NotifyTaskFinished(t) ==
    /\ task[t] \in {"queued", "claimed"}
    /\ task' = [task EXCEPT ![t] = "finished"]
    /\ Publish(t)
    /\ UNCHANGED <<blocked, lost, cache, pc, seen>>

Bump(x) ==
    /\ x \in bumping
    /\ version' = version + 1
    /\ bumping' = bumping \ {x}
    /\ UNCHANGED <<task, blocked, gen, lost, verdict, pc, seen>>

\* The error is logged and swallowed, or the process dies after its commit.
BumpLost(x) ==
    /\ MayFail
    /\ x \in bumping
    /\ bumping' = bumping \ {x}
    /\ lost' = lost \cup {x}
    /\ UNCHANGED <<task, blocked, gen, cache, pc, seen>>

\* RecomputeWorkspaceBlocked after a dependency edge is added or removed, or
\* after a task of another runtime completed: this runtime is not notified.
RecomputeWorkspaceBlocked(B) ==
    /\ SpineOn
    /\ B # blocked
    /\ blocked' = B
    /\ UNCHANGED <<rows, lost, cache, pc, seen>>

-----------------------------------------------------------------------------
\* A claim request, after it has promoted and reclaimed

Goto(p, l) == pc' = [pc EXCEPT ![p] = l]

\* The cache misses.  On a hit the request returns and nothing has changed.
CheckIsEmpty(p) ==
    /\ pc[p] = "idle"
    /\ ~ IsEmpty
    /\ Goto(p, "sample")
    /\ UNCHANGED <<rows, blocked, lost, cache, seen>>

\* A failing MGET counts as a miss.
CheckFails(p) ==
    /\ MayFail
    /\ pc[p] = "idle"
    /\ Goto(p, "sample")
    /\ UNCHANGED <<rows, blocked, lost, cache, seen>>

\* Fault: a failing GET reads as an "unknown" marker below every version.
CurrentVersionUnknown(p) ==
    /\ pc[p] = "sample"
    /\ \E v \in {version} \cup (IF MayFail THEN {-1} ELSE {}) : seen' = [seen EXCEPT ![p] = v]
    /\ Goto(p, "select")
    /\ UNCHANGED <<rows, blocked, lost, cache>>

\* A failing GET reads as version 0.
CurrentVersion(p) ==
    /\ pc[p] = "sample"
    /\ \E v \in {version} \cup (IF MayFail THEN {0} ELSE {}) : seen' = [seen EXCEPT ![p] = v]
    /\ Goto(p, "select")
    /\ UNCHANGED <<rows, blocked, lost, cache>>

Select(p) ==
    /\ pc[p] = "select"
    /\ Goto(p, IF ListQueuedClaimCandidates = {} THEN "mark" ELSE "claim")
    /\ UNCHANGED <<rows, blocked, lost, cache, seen>>

\* Fault: the verdict is tagged with the version at the time of the write.
MarkEmptyLatest(p) ==
    /\ pc[p] = "mark"
    /\ verdict' = version
    /\ Goto(p, "idle")
    /\ UNCHANGED <<rows, blocked, lost, version, seen>>

MarkEmpty(p) ==
    /\ pc[p] = "mark"
    /\ verdict' = seen[p] \/ (MayFail /\ verdict' = verdict)
    /\ Goto(p, "idle")
    /\ UNCHANGED <<rows, blocked, lost, version, seen>>

\* ClaimAgentTask looks at all queued rows of the candidate's agent; another
\* request may have emptied the queue since the SELECT.
ClaimTask(p) ==
    /\ pc[p] = "claim"
    /\ \/ \E t \in Queued : task' = [task EXCEPT ![t] = "claimed"]
       \/ Queued = {} /\ UNCHANGED task
    /\ Goto(p, "idle")
    /\ UNCHANGED <<blocked, gen, bumping, lost, cache, seen>>

-----------------------------------------------------------------------------
\* Expiring keys

\* Fault: the verdict is stored without a TTL.
VerdictKept == FALSE /\ UNCHANGED vars

VerdictExpires ==
    /\ verdict # NoVerdict
    /\ verdict' = NoVerdict
    /\ UNCHANGED <<rows, blocked, lost, version, pc, seen>>

\* Every poll and every Bump renews the 24 hours of the version key, so the key
\* outlives any verdict and any claim request.
VersionExpires ==
    /\ version # 0
    /\ verdict = NoVerdict
    /\ \A p \in Poller : pc[p] = "idle"
    /\ version' = 0
    /\ UNCHANGED <<rows, blocked, lost, verdict, pc, seen>>

Poll(p) == CheckIsEmpty(p) \/ CurrentVersion(p) \/ Select(p) \/ MarkEmpty(p) \/ ClaimTask(p)

Next ==
    \/ \E t \in Task : NotifyTaskEnqueued(t) \/ RequeueTaskAfterClaimFailure(t) \/ NotifyTaskFinished(t)
    \/ \E x \in bumping : Bump(x) \/ BumpLost(x)
    \/ \E B \in SUBSET Task : RecomputeWorkspaceBlocked(B)
    \/ \E p \in Poller : Poll(p) \/ CheckFails(p)
    \/ VerdictExpires
    \/ VersionExpires

Spec == Init /\ [][Next]_vars

\* A daemon polls again and again, a request makes progress and keys expire;
\* no call to Redis is bound to fail, and no Bump is bound to happen.
LiveSpec ==
    /\ Spec
    /\ \A p \in Poller : WF_vars(Poll(p))
    /\ WF_vars(VerdictExpires)

-----------------------------------------------------------------------------
\* Properties

\* Versions, tags and samples are counters, so that comparing them is meaningful.
TypeOK ==
    /\ task \in [Task -> {"new", "queued", "claimed", "finished"}]
    /\ blocked \in SUBSET Task
    /\ gen \in [Task -> 0..MaxGen]
    /\ bumping \in SUBSET (Task \X (1..MaxGen))
    /\ lost \in SUBSET (Task \X (1..MaxGen))
    /\ version \in Nat
    /\ verdict \in Nat \cup {NoVerdict}
    /\ pc \in [Poller -> {"idle", "sample", "select", "mark", "claim"}]
    /\ seen \in [Poller -> Nat]

\* "Never a stalled task": while a verdict is trusted, every claimable row's
\* own invalidation is still to come, or it was lost to a failure of Redis or of
\* the process.  In particular a daemon woken after the Bump is not sent away.
NeverStalled ==
    IsEmpty => \A t \in ListQueuedClaimCandidates : <<t, gen[t]>> \in bumping \cup lost

\* A verdict about to be written is either out of date already, and will be
\* rejected, or true of every row that no pending or lost Bump accounts for.
LateVerdictRejected ==
    /\ verdict <= version
    /\ \A p \in Poller : pc[p] \in {"select", "mark"} => seen[p] <= version
    /\ \A p \in Poller : (pc[p] = "mark" /\ seen[p] = version) =>
          \A t \in ListQueuedClaimCandidates : <<t, gen[t]>> \in bumping \cup lost

\* The TTL bounds every stall: whatever Redis loses, and though unblocking an
\* issue notifies nobody, a claimable row does not stay claimable for ever
\* (EmptyClaimCacheTTL: "the safety net for a missed invalidation").
QueuedIsClaimed ==
    \A t \in Task : (t \in ListQueuedClaimCandidates) ~> (t \notin ListQueuedClaimCandidates)
=============================================================================
