------------------------------ MODULE TaskQueue ------------------------------
(***************************************************************************)
(* The agent task queue: the agent_task_queue table, the transactions of   *)
(* internal/service/task.go and of the runtime sweeper that change it, and *)
(* the agent.status column derived from it.                                *)
(*                                                                         *)
(* One step is one SQL transaction (or one autocommitted statement), which *)
(* is the grain at which the server's goroutines and replicas interleave.  *)
(* A daemon, a user or a sweeper may issue any request at any time; what   *)
(* the daemon really issues is narrower.  Two pieces of work that the code *)
(* does after its commit stay separate steps, because other transactions   *)
(* do run in between: ReconcileAgentStatus (variable reconciling), and the *)
(* per-row loop of HandleFailedTasks (variable batch).                     *)
(*                                                                         *)
(* Rows are numbered in insertion order, so t < u stands for               *)
(* created_at(t) < created_at(u).  issue.status, comment batches and the   *)
(* empty-claim cache are not part of this module.                          *)
(***************************************************************************)
EXTENDS Integers, FiniteSets

CONSTANTS
    MaxTasks,       \* bound: rows ever inserted
    Agent,
    Runtime,
    RuntimeOf,      \* [Agent -> Runtime]: agent.runtime_id
    Issue,
    Chat,
    ChatAgent,      \* [Chat -> Agent]: chat_session.agent_id
    Unlinked,       \* subset of {QuickCreate, RunOnly}: the link-less tasks in use
    IssuePriority,  \* values of priorityToInt(issue.priority) in use
    MaxConcurrent,  \* [Agent -> Nat]: agent.max_concurrent_tasks
    MaxAttempts,    \* agent_task_queue.max_attempts
    RunCap,         \* issueRunCap()
    Handler,        \* goroutines that may be inside HandleFailedTasks
    MayRestart,     \* whether the server process may restart
    NoRow

Task == 1..MaxTasks
NULL == 0

QuickCreate == "quick_create"   \* issue, chat and autopilot links all NULL
RunOnly == "run_only"           \* only the autopilot_run link is set

Scope == Issue \cup Chat \cup {QuickCreate, RunOnly}

ASSUME ConstantsAssumption ==
    /\ MaxTasks \in Nat
    /\ MaxAttempts \in Nat \ {0}
    /\ RunCap \in Nat
    /\ RuntimeOf \in [Agent -> Runtime]
    /\ ChatAgent \in [Chat -> Agent]
    /\ MaxConcurrent \in [Agent -> Nat]
    /\ Unlinked \subseteq {QuickCreate, RunOnly}
    /\ IssuePriority \subseteq 0..4
    /\ Issue \cap Chat = {}
    /\ {QuickCreate, RunOnly} \cap (Issue \cup Chat) = {}
    /\ MayRestart \in BOOLEAN

VARIABLES
    n,            \* rows inserted so far
    row,          \* the columns that never change after the insert
    status,       \* agent_task_queue.status
    reason,       \* failure_reason: "infra" stands for any retryable reason
    timer,        \* fire_at while deferred, the prepare lease while dispatched or waiting
    agentStatus,  \* agent.status
    reconciling,  \* agents whose ReconcileAgentStatus call is still to run
    batch,        \* per handler, the failed rows HandleFailedTasks has not reached
    online        \* runtimes with status 'online' and a fresh last_seen_at

vars == <<n, row, status, reason, timer, agentStatus, reconciling, batch, online>>

Row == [agent : Agent, scope : Scope, priority : 0..4, attempt : 1..MaxAttempts,
        retry_of : 0..MaxTasks, escalation_for : 0..MaxTasks, chat_input : 0..MaxTasks]

Pending  == {"queued", "dispatched"}
InFlight == {"dispatched", "waiting_local_directory", "running"}
Terminal == {"completed", "failed", "cancelled"}
Cancellable == {"deferred", "queued"} \cup InFlight
Unstarted   == Cancellable \ {"running"}
Status   == {"absent"} \cup Cancellable \cup Terminal

-----------------------------------------------------------------------------
\* Reading the table

Runs(a) == {t \in Task : status[t] \in InFlight /\ row[t].agent = a}

\* idx_one_pending_task_per_issue_agent: an insert or an update of a row of
\* issue i and agent a into a pending status would be refused.
IndexTaken(i, a) ==
    /\ i \in Issue
    /\ \E t \in Task : status[t] \in Pending /\ row[t].scope = i /\ row[t].agent = a

IssueRunCapExceeded(i) ==
    Cardinality({t \in Task : status[t] # "absent" /\ row[t].scope = i}) >= RunCap

\* The serialization key of ClaimAgentTask: run-only rows have none.
SameKey(t, u) ==
    /\ row[t].agent = row[u].agent
    /\ row[t].scope = row[u].scope
    /\ row[t].scope # RunOnly

\* Fault: parked tasks do not block their key.
ClaimableBesideWaiting(a) ==
    {t \in Task :
        /\ status[t] = "queued"
        /\ row[t].agent = a
        /\ ~ \E u \in Task : status[u] \in {"dispatched", "running"} /\ SameKey(t, u)}

Claimable(a) ==
    {t \in Task :
        /\ status[t] = "queued"
        /\ row[t].agent = a
        /\ ~ \E u \in Task : status[u] \in InFlight /\ SameKey(t, u)}

\* ORDER BY priority DESC, created_at ASC
Precedes(t, u) ==
    \/ row[t].priority > row[u].priority
    \/ row[t].priority = row[u].priority /\ t <= u

\* Fault: the attempt budget is off by one.
RetryEligibleOnceMore(t, r) ==
    /\ r = "infra"
    /\ row[t].attempt <= MaxAttempts
    /\ row[t].scope \in Issue \cup Chat

RetryEligible(t, r) ==
    /\ r = "infra"
    /\ row[t].attempt < MaxAttempts
    /\ row[t].scope \in Issue \cup Chat

FallbacksFor(primaries) ==
    {t \in Task : status[t] \in Unstarted /\ row[t].escalation_for \in primaries}

FallbacksForTask(p) == FallbacksFor({p})

FallbacksForIssueAgent(i, a) ==
    FallbacksFor({p \in Task : status[p] # "absent" /\ row[p].scope = i /\ row[p].agent = a})

Due(r) == {t \in Task : status[t] = "deferred" /\ timer[t] = "elapsed"
                        /\ RuntimeOf[row[t].agent] = r}

\* The bulk UPDATE of PromoteDueDeferredTasksForRuntime breaks the index.
PromotionCollides(r) ==
    \E t \in Due(r), u \in Task :
        /\ u # t
        /\ status[u] \in Pending \/ u \in Due(r)
        /\ SameKey(t, u)

-----------------------------------------------------------------------------
\* Writing the table

Set(f, S, v) == [t \in Task |-> IF t \in S THEN v ELSE f[t]]

NewRow(a, s, p, primary, input) ==
    [agent |-> a, scope |-> s, priority |-> p, attempt |-> 1,
     retry_of |-> NULL, escalation_for |-> primary, chat_input |-> input]

FreshRow(a, s, p) == NewRow(a, s, p, NULL, NULL)

\* Fault: a chat retry keeps the priority of a fresh turn.
RetryRowUnraised(t) ==
    [agent |-> row[t].agent, scope |-> row[t].scope, priority |-> row[t].priority,
     attempt |-> row[t].attempt + 1, retry_of |-> t,
     escalation_for |-> NULL, chat_input |-> row[t].chat_input]

RetryRow(t) ==
    [agent |-> row[t].agent, scope |-> row[t].scope,
     priority |-> IF row[t].scope \in Chat /\ row[t].priority < 3 THEN 3 ELSE row[t].priority,
     attempt |-> row[t].attempt + 1, retry_of |-> t,
     escalation_for |-> NULL, chat_input |-> row[t].chat_input]

Insert(r) ==
    /\ n < MaxTasks
    /\ n' = n + 1
    /\ row' = [row EXCEPT ![n + 1] = r]

Reconciles(agents) == reconciling' = reconciling \cup agents

Init ==
    /\ n = 0
    /\ row = [t \in Task |-> NoRow]
    /\ status = [t \in Task |-> "absent"]
    /\ reason = [t \in Task |-> "none"]
    /\ timer = [t \in Task |-> "off"]
    /\ agentStatus = [a \in Agent |-> "idle"]
    /\ reconciling = {}
    /\ batch = [h \in Handler |-> {}]
    /\ online = Runtime

-----------------------------------------------------------------------------
\* Enqueueing

EnqueueRow(r) ==
    /\ Insert(r)
    /\ status' = [status EXCEPT ![n + 1] = "queued"]
    /\ UNCHANGED <<reason, timer, agentStatus, reconciling, batch, online>>

\* Assignment, comment, mention, squad-leader and follow-up enqueues.  A capped
\* issue is skipped without an error, an index conflict is an error.
EnqueueIssueTask(i, a, p) ==
    /\ ~ IssueRunCapExceeded(i)
    /\ ~ IndexTaken(i, a)
    /\ EnqueueRow(FreshRow(a, i, p))

\* A direct chat turn owns its input batch, a channel turn has no owner.
EnqueueChatTask(c, direct) ==
    EnqueueRow(NewRow(ChatAgent[c], c, 2, NULL, IF direct THEN n + 1 ELSE NULL))

EnqueueQuickCreateTask(a) ==
    /\ QuickCreate \in Unlinked
    /\ EnqueueRow(FreshRow(a, QuickCreate, 3))

EnqueueRunOnlyTask(a) ==
    /\ RunOnly \in Unlinked
    /\ EnqueueRow(FreshRow(a, RunOnly, 0))

\* The comment handler inserts the fallback after the primary's own insert has
\* committed.  When the run cap skipped the primary there is no primary id, and
\* the fallback is inserted with a NULL escalation_for_task_id.
RoutedPrimary(p, i, a) ==
    \/ p = NULL /\ IssueRunCapExceeded(i)
    \/ /\ p \in Task
       /\ status[p] # "absent"
       /\ row[p].scope = i
       /\ row[p].agent # a
       /\ row[p].retry_of = NULL
       /\ \A t \in Task : status[t] # "absent" => row[t].escalation_for # p

EnqueueDeferredAssigneeFallback(i, a, pr, p) ==
    /\ RoutedPrimary(p, i, a)
    /\ Insert(NewRow(a, i, pr, p, NULL))
    /\ status' = [status EXCEPT ![n + 1] = "deferred"]
    /\ timer' = [timer EXCEPT ![n + 1] = "live"]
    /\ UNCHANGED <<reason, agentStatus, reconciling, batch, online>>

-----------------------------------------------------------------------------
\* The claim path: each step is one transaction of ClaimTaskForRuntime

PromoteDueDeferredTasks(r) ==
    /\ Due(r) # {}
    /\ ~ PromotionCollides(r)
    /\ status' = Set(status, Due(r), "queued")
    /\ timer' = Set(timer, Due(r), "off")
    /\ UNCHANGED <<n, row, reason, agentStatus, reconciling, batch, online>>

ReclaimStaleDispatchedTask(t) ==
    /\ status[t] = "dispatched"
    /\ timer[t] = "elapsed"
    /\ \A u \in Task :
          (/\ status[u] = "dispatched"
           /\ timer[u] = "elapsed"
           /\ RuntimeOf[row[u].agent] = RuntimeOf[row[t].agent])
          => row[t].priority >= row[u].priority
    /\ timer' = [timer EXCEPT ![t] = "live"]
    /\ UNCHANGED <<n, row, status, reason, agentStatus, reconciling, batch, online>>

\* Fault: only started tasks count against the limit.
CountStartedTasks(a) == Cardinality({t \in Runs(a) : status[t] = "running"})

CountRunningTasks(a) == Cardinality(Runs(a))

\* Fault: the claim does not refresh the agent's status.
ClaimTaskUnreconciled(a, t) ==
    /\ CountRunningTasks(a) < MaxConcurrent[a]
    /\ t \in Claimable(a)
    /\ \A u \in Claimable(a) : Precedes(t, u)
    /\ status' = [status EXCEPT ![t] = "dispatched"]
    /\ timer' = [timer EXCEPT ![t] = "live"]
    /\ UNCHANGED <<n, row, reason, agentStatus, reconciling, batch, online>>

ClaimTask(a, t) ==
    /\ CountRunningTasks(a) < MaxConcurrent[a]
    /\ t \in Claimable(a)
    /\ \A u \in Claimable(a) : Precedes(t, u)
    /\ status' = [status EXCEPT ![t] = "dispatched"]
    /\ timer' = [timer EXCEPT ![t] = "live"]
    /\ Reconciles({a})
    /\ UNCHANGED <<n, row, reason, agentStatus, batch, online>>

RequeueTaskAfterClaimFailure(t) ==
    /\ status[t] = "dispatched"
    /\ status' = [status EXCEPT ![t] = "queued"]
    /\ timer' = [timer EXCEPT ![t] = "off"]
    /\ Reconciles({row[t].agent})
    /\ UNCHANGED <<n, row, reason, agentStatus, batch, online>>

-----------------------------------------------------------------------------
\* Daemon reports

ExtendTaskPrepareLease(t) ==
    /\ status[t] \in {"dispatched", "waiting_local_directory"}
    /\ timer[t] = "elapsed"
    /\ timer' = [timer EXCEPT ![t] = "live"]
    /\ UNCHANGED <<n, row, status, reason, agentStatus, reconciling, batch, online>>

MarkTaskWaitingLocalDirectory(t) ==
    /\ status[t] = "dispatched"
    /\ status' = [status EXCEPT ![t] = "waiting_local_directory"]
    /\ timer' = [timer EXCEPT ![t] = "live"]
    /\ UNCHANGED <<n, row, reason, agentStatus, reconciling, batch, online>>

\* Fallbacks of a started primary are cancelled without reconciling their agents.
StartTask(t) ==
    /\ status[t] \in {"dispatched", "waiting_local_directory"}
    /\ status' = Set([status EXCEPT ![t] = "running"], FallbacksForTask(t), "cancelled")
    /\ timer' = Set(timer, {t} \cup FallbacksForTask(t), "off")
    /\ UNCHANGED <<n, row, reason, agentStatus, reconciling, batch, online>>

\* An agent's comment acknowledges the issue for every primary it has there.
CancelDeferredEscalationsForIssueAgent(i, a) ==
    /\ FallbacksForIssueAgent(i, a) # {}
    /\ status' = Set(status, FallbacksForIssueAgent(i, a), "cancelled")
    /\ timer' = Set(timer, FallbacksForIssueAgent(i, a), "off")
    /\ UNCHANGED <<n, row, reason, agentStatus, reconciling, batch, online>>

\* The fallbacks a finishing task cancels when the server posts the agent's
\* comment for it (createAgentComment).
Acknowledged(t, commented) ==
    IF commented /\ row[t].scope \in Issue
    THEN FallbacksForIssueAgent(row[t].scope, row[t].agent) \ {t}
    ELSE {}

\* Fault: a late completion overwrites a cancellation.
CompleteTaskAnyway(t, commented) ==
    /\ status[t] \in {"running", "cancelled"}
    /\ status' = Set([status EXCEPT ![t] = "completed"], Acknowledged(t, commented), "cancelled")
    /\ timer' = Set(timer, Acknowledged(t, commented), "off")
    /\ Reconciles({row[t].agent})
    /\ UNCHANGED <<n, row, reason, agentStatus, batch, online>>

CompleteTask(t, commented) ==
    /\ status[t] = "running"
    /\ status' = Set([status EXCEPT ![t] = "completed"], Acknowledged(t, commented), "cancelled")
    /\ timer' = Set(timer, Acknowledged(t, commented), "off")
    /\ Reconciles({row[t].agent})
    /\ UNCHANGED <<n, row, reason, agentStatus, batch, online>>

\* FailTask without a retry child: the row is not eligible for one, or the read
\* of the row that would tell failed before the transaction.
FailTask(t, r, commented) ==
    /\ status[t] \in InFlight
    /\ status' = Set([status EXCEPT ![t] = "failed"], Acknowledged(t, commented), "cancelled")
    /\ reason' = [reason EXCEPT ![t] = r]
    /\ timer' = Set(timer, {t} \cup Acknowledged(t, commented), "off")
    /\ Reconciles({row[t].agent})
    /\ UNCHANGED <<n, row, agentStatus, batch, online>>

\* FailTask with its retry child in the same transaction.  A pending sibling on
\* the unique index fails the child's insert and rolls the whole report back,
\* so a report that meets one changes nothing.
RetryCollides(t) ==
    /\ row[t].scope \in Issue
    /\ \E u \in Task \ {t} : status[u] \in Pending /\ SameKey(t, u)

\* Fault: a replayed failure report is not recognised as already finalized.
FailTaskAndRetryReplayed(t) ==
    /\ status[t] \in InFlight \cup {"failed"}
    /\ RetryEligible(t, "infra")
    /\ ~ RetryCollides(t)
    /\ Insert(RetryRow(t))
    /\ status' = [status EXCEPT ![t] = "failed", ![n + 1] = "queued"]
    /\ reason' = [reason EXCEPT ![t] = "infra"]
    /\ timer' = [timer EXCEPT ![t] = "off"]
    /\ Reconciles({row[t].agent})
    /\ UNCHANGED <<agentStatus, batch, online>>

FailTaskAndRetry(t) ==
    /\ status[t] \in InFlight
    /\ RetryEligible(t, "infra")
    /\ ~ RetryCollides(t)
    /\ Insert(RetryRow(t))
    /\ status' = [status EXCEPT ![t] = "failed", ![n + 1] = "queued"]
    /\ reason' = [reason EXCEPT ![t] = "infra"]
    /\ timer' = [timer EXCEPT ![t] = "off"]
    /\ Reconciles({row[t].agent})
    /\ UNCHANGED <<agentStatus, batch, online>>

-----------------------------------------------------------------------------
\* Cancellation and rerun

\* Fault: "cancel rows and return", the state of the code before #1587.
CancelRowsAndReturn(S) ==
    /\ S # {}
    /\ status' = Set(status, S, "cancelled")
    /\ timer' = Set(timer, S, "off")
    /\ UNCHANGED <<n, row, reason, agentStatus, reconciling, batch, online>>

CancelRows(S) ==
    /\ S # {}
    /\ status' = Set(status, S, "cancelled")
    /\ timer' = Set(timer, S, "off")
    /\ Reconciles({row[t].agent : t \in S})
    /\ UNCHANGED <<n, row, reason, agentStatus, batch, online>>

Live == {t \in Task : status[t] \in Cancellable}

CancelTask(t) == CancelRows({t} \cap Live)

\* Issue deletion and chat-session deletion.
CancelTasksForScope(s) == CancelRows({t \in Live : row[t].scope = s})

CancelTasksForAgent(a) == CancelRows({t \in Live : row[t].agent = a})

\* The rows whose comment batch holds the edited comment: some rows of one issue.
CancelTasksByTriggerComment(i, S) == CancelRows(S \cap {t \in Live : row[t].scope = i})

\* The capped rerun cancels the pair's rows and enqueues nothing.
RerunIssue(i, a, p) ==
    LET old == {t \in Live : row[t].scope = i /\ row[t].agent = a} IN
    /\ \E t \in Task : status[t] # "absent" /\ row[t].scope = i /\ row[t].agent = a
    /\ \/ /\ IssueRunCapExceeded(i)
          /\ status' = Set(status, old, "cancelled")
          /\ UNCHANGED <<n, row>>
       \/ /\ ~ IssueRunCapExceeded(i)
          /\ Insert(FreshRow(a, i, p))
          /\ status' = [Set(status, old, "cancelled") EXCEPT ![n + 1] = "queued"]
    /\ timer' = Set(timer, old, "off")
    /\ Reconciles({row[t].agent : t \in old})
    /\ UNCHANGED <<reason, agentStatus, batch, online>>

-----------------------------------------------------------------------------
\* Sweepers and orphan recovery: one bulk UPDATE, then HandleFailedTasks

FailBatch(h, S, r) ==
    /\ batch[h] = {}
    /\ S # {}
    /\ status' = Set(status, S, "failed")
    /\ reason' = Set(reason, S, r)
    /\ timer' = Set(timer, S, "off")
    /\ batch' = [batch EXCEPT ![h] = S]
    /\ UNCHANGED <<n, row, agentStatus, reconciling>>

StaleTasks ==
    {t \in Task :
        \/ status[t] = "dispatched" /\ timer[t] = "elapsed"
        \/ status[t] = "running" /\ RuntimeOf[row[t].agent] \notin online}

\* S: the stale rows that are also past their wall-clock deadline.
SweepStaleTasks(h, S) ==
    /\ S \subseteq StaleTasks
    /\ FailBatch(h, S, "infra")
    /\ UNCHANGED online

OrphansOf(R) == {t \in Task : status[t] \in InFlight /\ RuntimeOf[row[t].agent] \in R}

\* R has missed its heartbeats.  The UPDATE fails the rows of every offline
\* runtime, but it only runs when this sweep took some runtime offline.
SweepStaleRuntimes(h, R) ==
    LET down == (Runtime \ online) \cup R IN
    /\ R # {}
    /\ R \subseteq online
    /\ online' = online \ R
    /\ \/ FailBatch(h, OrphansOf(down), "infra")
       \/ /\ batch[h] = {}
          /\ OrphansOf(down) = {}
          /\ UNCHANGED <<n, row, status, reason, timer, agentStatus, reconciling, batch>>

\* The oldest queued rows up to row k are past the queue TTL.
SweepExpiredQueuedTasks(h, k) ==
    /\ FailBatch(h, {t \in 1..k : status[t] = "queued"}, "other")
    /\ UNCHANGED online

\* Fault: recovery also takes rows that have failed already, so their retry is
\* decided a second time.
RecoverOrphanedTasksAgain(h, r) ==
    /\ FailBatch(h, OrphansOf({r}) \cup {t \in Task : status[t] = "failed"
                                                /\ RuntimeOf[row[t].agent] = r}, "infra")
    /\ UNCHANGED online

RecoverOrphanedTasks(h, r) ==
    /\ FailBatch(h, OrphansOf({r}), "infra")
    /\ UNCHANGED online

\* One row of HandleFailedTasks.  An error of CreateRetryTask, an index conflict
\* among them, is only logged: the row stays failed without a retry.
HandleFailedTask(h, t) ==
    /\ t \in batch[h]
    /\ batch' = [batch EXCEPT ![h] = @ \ {t}]
    /\ Reconciles({row[t].agent})
    /\ \/ /\ RetryEligible(t, reason[t]) /\ ~ IndexTaken(row[t].scope, row[t].agent)
          /\ Insert(RetryRow(t))
          /\ status' = [status EXCEPT ![n + 1] = "queued"]
       \/ UNCHANGED <<n, row, status>>
    /\ UNCHANGED <<reason, timer, agentStatus, online>>

ReconcileAgentStatus(a) ==
    /\ a \in reconciling
    /\ reconciling' = reconciling \ {a}
    /\ agentStatus' = [agentStatus EXCEPT ![a] = IF Runs(a) # {} THEN "working" ELSE "idle"]
    /\ UNCHANGED <<n, row, status, reason, timer, batch, online>>

-----------------------------------------------------------------------------
\* Time, runtimes and restarts

TimerElapses(t) ==
    /\ timer[t] = "live"
    /\ timer' = [timer EXCEPT ![t] = "elapsed"]
    /\ UNCHANGED <<n, row, status, reason, agentStatus, reconciling, batch, online>>

\* A deregistering daemon takes its runtime offline and leaves its rows alone.
DaemonDeregister(r) ==
    /\ r \in online
    /\ online' = online \ {r}
    /\ UNCHANGED <<n, row, status, reason, timer, agentStatus, reconciling, batch>>

RuntimeOnline(r) ==
    /\ r \notin online
    /\ online' = online \cup {r}
    /\ UNCHANGED <<n, row, status, reason, timer, agentStatus, reconciling, batch>>

\* Work that goroutines had left to do is lost with the process.
ServerRestart ==
    /\ MayRestart
    /\ reconciling # {} \/ \E h \in Handler : batch[h] # {}
    /\ reconciling' = {}
    /\ batch' = [h \in Handler |-> {}]
    /\ UNCHANGED <<n, row, status, reason, timer, agentStatus, online>>

Enqueues ==
    \/ \E i \in Issue, a \in Agent, p \in IssuePriority :
          \/ EnqueueIssueTask(i, a, p)
          \/ RerunIssue(i, a, p)
          \/ \E primary \in 0..MaxTasks : EnqueueDeferredAssigneeFallback(i, a, p, primary)
    \/ \E c \in Chat, direct \in BOOLEAN : EnqueueChatTask(c, direct)
    \/ \E a \in Agent : EnqueueQuickCreateTask(a) \/ EnqueueRunOnlyTask(a)

Claims ==
    \/ \E r \in Runtime : PromoteDueDeferredTasks(r)
    \/ \E a \in Agent, t \in Task : ClaimTask(a, t)
    \/ \E t \in Task : ReclaimStaleDispatchedTask(t) \/ RequeueTaskAfterClaimFailure(t)

Reports ==
    \/ \E t \in Task :
          \/ ExtendTaskPrepareLease(t)
          \/ MarkTaskWaitingLocalDirectory(t)
          \/ StartTask(t)
          \/ FailTaskAndRetry(t)
          \/ \E commented \in BOOLEAN :
                \/ CompleteTask(t, commented)
                \/ \E r \in {"infra", "other"} : FailTask(t, r, commented)
    \/ \E i \in Issue, a \in Agent : CancelDeferredEscalationsForIssueAgent(i, a)

Cancels ==
    \/ \E t \in Task : CancelTask(t)
    \/ \E s \in Issue \cup Chat : CancelTasksForScope(s)
    \/ \E a \in Agent : CancelTasksForAgent(a)
    \/ \E i \in Issue, S \in SUBSET Task : CancelTasksByTriggerComment(i, S)

Sweeps ==
    \/ \E h \in Handler :
          \/ \E S \in SUBSET StaleTasks : SweepStaleTasks(h, S)
          \/ \E R \in SUBSET online : SweepStaleRuntimes(h, R)
          \/ \E k \in Task : SweepExpiredQueuedTasks(h, k)
          \/ \E r \in Runtime : RecoverOrphanedTasks(h, r)
          \/ \E t \in Task : HandleFailedTask(h, t)
    \/ \E a \in Agent : ReconcileAgentStatus(a)

Environment ==
    \/ \E t \in Task : TimerElapses(t)
    \/ \E r \in Runtime : DaemonDeregister(r) \/ RuntimeOnline(r)
    \/ ServerRestart

Next == Enqueues \/ Claims \/ Reports \/ Cancels \/ Sweeps \/ Environment

Spec == Init /\ [][Next]_vars
-----------------------------------------------------------------------------
\* Properties

Inserted(t) == status[t] # "absent"

HasRetry(t) == \E u \in Task : Inserted(u) /\ row[u].retry_of = t

TypeOK ==
    /\ n \in 0..MaxTasks
    /\ row \in [Task -> Row \cup {NoRow}]
    /\ status \in [Task -> Status]
    /\ reason \in [Task -> {"none", "infra", "other"}]
    /\ timer \in [Task -> {"off", "live", "elapsed"}]
    /\ agentStatus \in [Agent -> {"idle", "working"}]
    /\ reconciling \in SUBSET Agent
    /\ batch \in [Handler -> SUBSET Task]
    /\ online \in SUBSET Runtime
    /\ \A t \in Task : Inserted(t) <=> t <= n
    /\ \A t \in Task : Inserted(t) => row[t] \in Row

\* Whatever claims, reclaims, requeues, retries, reruns and sweeps interleave,
\* an agent never holds two dispatched, waiting or running tasks of one issue,
\* of one chat session, or of quick-create shape (ClaimAgentTask).
OneRunPerKey ==
    \A t, u \in Task :
        (t # u /\ status[t] \in InFlight /\ status[u] \in InFlight) => ~ SameKey(t, u)

\* An agent never holds more claimed tasks than max_concurrent_tasks: the count
\* and the claim of ClaimTask see the same table (GetAgentForClaimUpdate).
CapacityRespected ==
    \A a \in Agent : Cardinality(Runs(a)) <= MaxConcurrent[a]

\* A failed row is settled by one goroutine: no two handlers hold the same row,
\* and a row a handler has yet to reach is still failed and has no retry, though
\* FailTask, the sweepers and orphan recovery run concurrently (HandleFailedTasks).
FailureHandledOnce ==
    /\ \A g, h \in Handler : g # h => batch[g] \cap batch[h] = {}
    /\ \A h \in Handler : \A t \in batch[h] : status[t] = "failed" /\ ~ HasRetry(t)

\* A failed attempt is retried at most once and by one path only, whether its
\* failure came from FailTask, a sweeper or orphan recovery; the attempt it
\* re-runs has failed for a retryable reason and the retry stays with its agent
\* and its issue or session, within max_attempts.
RetryLineage ==
    \A t \in Task : (Inserted(t) /\ row[t].retry_of # NULL) =>
        LET p == row[t].retry_of IN
        /\ p < t
        /\ status[p] = "failed" /\ reason[p] = "infra"
        /\ row[t].attempt = row[p].attempt + 1
        /\ row[t].agent = row[p].agent /\ row[t].scope = row[p].scope
        /\ \A u \in Task : (Inserted(u) /\ row[u].retry_of = p) => u = t

\* The rows that consume one direct chat turn's input (chat_input_task_id) form
\* one chain of retries: at most one of them is live or has completed, so the
\* turn is never worked on twice and never answered twice.
TurnAnsweredOnce ==
    \A t, u \in Task :
        (/\ status[t] \in Cancellable \cup {"completed"}
         /\ status[u] \in Cancellable \cup {"completed"}
         /\ row[t].chat_input # NULL
         /\ row[t].chat_input = row[u].chat_input)
        => t = u

\* A finished task is never reopened, and a task that has started never returns
\* to the queue or to a pre-start state, however late a report, a reclaim, a
\* requeue or a cancellation arrives.
NoResurrection ==
    [][\A t \in Task :
          /\ status[t] \in Terminal => status'[t] = status[t]
          /\ status[t] = "running" => status'[t] \in {"running"} \cup Terminal]_vars

\* t works off an earlier direct turn of u's chat session than u does.
Older(t, u) ==
    /\ Inserted(t) /\ Inserted(u)
    /\ row[t].scope \in Chat /\ row[t].scope = row[u].scope
    /\ row[t].chat_input # NULL /\ row[t].chat_input < row[u].chat_input

\* A daemon has had u's turn in its hands.
Begun(u) == status[u] \in InFlight \cup {"completed", "failed"} \/ row[u].retry_of # NULL

\* Once a direct chat turn has been in a daemon's hands, no attempt at an earlier
\* direct turn of its session is waiting or at work, nor does one appear later:
\* the newer turn never jumps ahead of a retry ("no window for a newer input
\* task to jump ahead", CreateRetryTask).
ChatTurnsInOrder ==
    \A t, u \in Task : Older(t, u) /\ Begun(u) => status[t] \in Terminal

\* Once the reconciles that handlers owe an agent have run, an agent with a
\* claimed task is shown as working (ReconcileAgentStatus).
BusyAgentShownWorking ==
    \A a \in Agent : (Runs(a) # {} /\ a \notin reconciling) => agentStatus[a] = "working"

\* Once the reconciles and failed batches that handlers owe have run, an agent
\* with no claimed task is not left at "working" (CancelTasksForIssue, #1587).
IdleAgentShownIdle ==
    \A a \in Agent :
        (/\ Runs(a) = {}
         /\ a \notin reconciling
         /\ \A h \in Handler : \A t \in batch[h] : row[t].agent # a)
        => agentStatus[a] = "idle"

\* The row that row t is, after any number of retries, an attempt to work off.
root[t \in Task] ==
    IF Inserted(t) /\ row[t].retry_of # NULL THEN root[row[t].retry_of] ELSE t

IsJob(j) == Inserted(j) /\ row[j].retry_of = NULL

LastAttempt(j) == CHOOSE t \in Task : Inserted(t) /\ root[t] = j /\ ~ HasRetry(t)

StageOf ==
    [deferred |-> "waiting", queued |-> "waiting",
     dispatched |-> "held", waiting_local_directory |-> "held", running |-> "started",
     completed |-> "completed", failed |-> "failed", cancelled |-> "cancelled"]

jobStage == [j \in Task |-> IF IsJob(j) THEN StageOf[status[LastAttempt(j)]] ELSE "none"]
jobTries == [j \in Task |-> IF IsJob(j) THEN row[LastAttempt(j)].attempt ELSE 0]
jobOwner == [j \in Task |-> IF IsJob(j) THEN <<row[j].agent, row[j].scope>> ELSE NoRow]

\* A row and its retries make up one job: whatever is claimed, reported, swept,
\* cancelled, retried and forgotten by a restart, the table keeps the promise of
\* WorkLedger to the caller that enqueued the first of them.
Ledger == INSTANCE WorkLedger WITH
    Job <- Task, Lane <- Scope, FreeLane <- RunOnly, Slots <- MaxConcurrent,
    MaxTries <- MaxAttempts, Nobody <- NoRow,
    stage <- jobStage, tries <- jobTries, owner <- jobOwner
ImplementsWorkLedger == Ledger!Spec
=============================================================================
