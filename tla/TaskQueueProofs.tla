--------------------------- MODULE TaskQueueProofs ---------------------------
(***************************************************************************)
(* Theorems about TaskQueue for every number of rows, agents, issues,      *)
(* sessions, handlers and limits.                                          *)
(***************************************************************************)
EXTENDS TaskQueue, FiniteSetTheorems, TLAPS

-----------------------------------------------------------------------------
\* Rows that the enqueue paths build are well typed.

\* What the create queries insert is a row.
LEMMA NewRowType ==
    ASSUME NEW a \in Agent, NEW s \in Scope, NEW p \in 0..4,
           NEW q \in 0..MaxTasks, NEW c \in 0..MaxTasks
    PROVE  NewRow(a, s, p, q, c) \in Row
BY ConstantsAssumption DEF NewRow, Row, NULL

\* A row without fallback and chat links is a row.
LEMMA FreshRowType ==
    ASSUME NEW a \in Agent, NEW s \in Scope, NEW p \in 0..4
    PROVE  FreshRow(a, s, p) \in Row
BY NewRowType, ConstantsAssumption DEF FreshRow, NULL

\* The retry of an attempt below the budget is a row.
LEMMA RetryRowType ==
    ASSUME NEW t \in Task, row[t] \in Row, NEW r, RetryEligible(t, r)
    PROVE  RetryRow(t) \in Row
BY ConstantsAssumption DEF RetryRow, RetryEligible, Row, NULL, Task

\* An insert takes the next row number.
LEMMA InsertType ==
    ASSUME TypeOK, NEW r \in Row, Insert(r)
    PROVE  /\ n' \in 0..MaxTasks /\ n' = n + 1 /\ n + 1 \in Task
           /\ row' \in [Task -> Row \cup {NoRow}]
           /\ row'[n + 1] = r
           /\ \A t \in Task : t # n + 1 => row'[t] = row[t]
BY ConstantsAssumption DEF TypeOK, Insert, Task

\* The empty table.
LEMMA InitTypeOK == Init => TypeOK
BY ConstantsAssumption DEF Init, TypeOK, Status, Inserted, Task

\* Enqueues, reruns and deferred fallbacks keep the types.
LEMMA EnqueuesTypeOK == TypeOK /\ Enqueues => TypeOK'
<1> SUFFICES ASSUME TypeOK, Enqueues PROVE TypeOK'
  OBVIOUS
<1>0. ASSUME NEW r \in Row, EnqueueRow(r) PROVE TypeOK'
  BY <1>0, InsertType DEF EnqueueRow, TypeOK, Inserted, Status, Cancellable, Task
<1>1. ASSUME NEW i \in Issue, NEW a \in Agent, NEW p \in IssuePriority,
             EnqueueIssueTask(i, a, p)
      PROVE  TypeOK'
  <2>1. FreshRow(a, i, p) \in Row
    BY FreshRowType, ConstantsAssumption DEF Scope
  <2>2. QED
    BY <1>0, <1>1, <2>1 DEF EnqueueIssueTask
<1>2. ASSUME NEW i \in Issue, NEW a \in Agent, NEW p \in IssuePriority,
             RerunIssue(i, a, p)
      PROVE  TypeOK'
  <2>1. FreshRow(a, i, p) \in Row
    BY FreshRowType, ConstantsAssumption DEF Scope
  <2> DEFINE old == {t \in Live : row[t].scope = i /\ row[t].agent = a}
  <2>2. /\ Set(status, old, "cancelled") \in [Task -> Status]
        /\ Set(timer, old, "off") \in [Task -> {"off", "live", "elapsed"}]
        /\ \A t \in Task : Set(status, old, "cancelled")[t] = IF t \in old THEN "cancelled" ELSE status[t]
    BY DEF Set, TypeOK, Status, Terminal
  <2>3. {row[t].agent : t \in old} \subseteq Agent
    BY DEF Live, TypeOK, Inserted, Cancellable, InFlight, Row
  <2>4. old \subseteq {t \in Task : status[t] \in Cancellable}
    BY DEF Live
  <2>5. CASE IssueRunCapExceeded(i)
    BY <1>2, <2>2, <2>3, <2>4, <2>5 DEF RerunIssue, Reconciles, TypeOK, Inserted, Cancellable, InFlight
  <2>6. CASE ~ IssueRunCapExceeded(i)
    <3>1. Insert(FreshRow(a, i, p)) /\ status' = [Set(status, old, "cancelled") EXCEPT ![n + 1] = "queued"]
      BY <1>2, <2>6 DEF RerunIssue
    <3>2. n + 1 \in Task /\ status' = [t \in Task |-> IF t = n + 1 THEN "queued"
                                                  ELSE IF t \in old THEN "cancelled" ELSE status[t]]
      BY <3>1, <2>1, InsertType DEF Set
    <3>5. status' \in [Task -> Status]
      BY <3>2 DEF TypeOK, Status, Cancellable, Terminal
    <3>6. \A t \in Task : status'[t] # "absent" <=> t <= n + 1
      BY <3>2, <2>4 DEF TypeOK, Inserted, Cancellable, InFlight, Task
    <3>3. timer' \in [Task -> {"off", "live", "elapsed"}] /\ reconciling' \subseteq Agent
          /\ UNCHANGED <<reason, agentStatus, batch, online>>
      BY <1>2, <2>2, <2>3 DEF RerunIssue, Reconciles, TypeOK
    <3>4. QED
      BY <3>1, <3>3, <3>5, <3>6, <2>1, InsertType DEF TypeOK, Inserted, Task
  <2>7. QED
    BY <2>5, <2>6
<1>3. ASSUME NEW i \in Issue, NEW a \in Agent, NEW p \in IssuePriority, NEW q \in 0..MaxTasks,
             EnqueueDeferredAssigneeFallback(i, a, p, q)
      PROVE  TypeOK'
  <2>1. NewRow(a, i, p, q, NULL) \in Row
    BY NewRowType, ConstantsAssumption DEF Scope, NULL
  <2>2. QED
    BY <1>3, <2>1, InsertType
    DEF EnqueueDeferredAssigneeFallback, TypeOK, Inserted, Status, Cancellable, Task
<1>4. ASSUME NEW c \in Chat, NEW d \in BOOLEAN, EnqueueChatTask(c, d)
      PROVE  TypeOK'
  <2>1. n < MaxTasks
    BY <1>4 DEF EnqueueChatTask, EnqueueRow, Insert
  <2>2. (IF d THEN n + 1 ELSE NULL) \in 0..MaxTasks
    BY <2>1, ConstantsAssumption DEF TypeOK, NULL
  <2>3. NewRow(ChatAgent[c], c, 2, NULL, IF d THEN n + 1 ELSE NULL) \in Row
    BY <2>2, NewRowType, ConstantsAssumption DEF Scope, NULL
  <2>4. QED
    BY <1>0, <1>4, <2>3 DEF EnqueueChatTask
<1>5. ASSUME NEW a \in Agent, EnqueueQuickCreateTask(a) \/ EnqueueRunOnlyTask(a)
      PROVE  TypeOK'
  <2>1. FreshRow(a, QuickCreate, 3) \in Row /\ FreshRow(a, RunOnly, 0) \in Row
    BY FreshRowType DEF Scope
  <2>2. QED
    BY <1>0, <1>5, <2>1 DEF EnqueueQuickCreateTask, EnqueueRunOnlyTask
<1>6. QED
  BY <1>1, <1>2, <1>3, <1>4, <1>5 DEF Enqueues

\* A step that inserts no row keeps the type invariant if it keeps each column
\* typed and makes no row appear or disappear.
LEMMA UpdateTypeOK ==
    ASSUME TypeOK, UNCHANGED <<n, row>>,
           status' \in [Task -> Status],
           \A t \in Task : status'[t] = "absent" <=> status[t] = "absent",
           reason' \in [Task -> {"none", "infra", "other"}],
           timer' \in [Task -> {"off", "live", "elapsed"}],
           agentStatus' \in [Agent -> {"idle", "working"}],
           reconciling' \in SUBSET Agent,
           batch' \in [Handler -> SUBSET Task],
           online' \in SUBSET Runtime
    PROVE  TypeOK'
BY DEF TypeOK, Inserted

\* The transactions of a poll keep the types.
LEMMA ClaimsTypeOK == TypeOK /\ Claims => TypeOK'
<1> SUFFICES ASSUME TypeOK, Claims PROVE TypeOK'
  OBVIOUS
<1>1. ASSUME NEW r \in Runtime, PromoteDueDeferredTasks(r) PROVE TypeOK'
  BY <1>1, UpdateTypeOK
  DEF PromoteDueDeferredTasks, Set, Due, TypeOK, Status, Cancellable
<1>2. ASSUME NEW a \in Agent, NEW t \in Task, ClaimTask(a, t) PROVE TypeOK'
  BY <1>2, UpdateTypeOK
  DEF ClaimTask, Claimable, Reconciles, TypeOK, Status, Cancellable, InFlight
<1>3. ASSUME NEW t \in Task, ReclaimStaleDispatchedTask(t) PROVE TypeOK'
  BY <1>3, UpdateTypeOK DEF ReclaimStaleDispatchedTask, TypeOK
<1>4. ASSUME NEW t \in Task, RequeueTaskAfterClaimFailure(t) PROVE TypeOK'
  <2>1. row[t].agent \in Agent
    BY <1>4 DEF RequeueTaskAfterClaimFailure, TypeOK, Inserted, Row
  <2>2. QED
    BY <1>4, <2>1, UpdateTypeOK
    DEF RequeueTaskAfterClaimFailure, Reconciles, TypeOK, Status, Cancellable
<1>5. QED
  BY <1>1, <1>2, <1>3, <1>4 DEF Claims

\* A row with a status other than "absent" names an agent.
LEMMA AgentOfRow ==
    ASSUME TypeOK, NEW t \in Task, status[t] # "absent"
    PROVE  row[t].agent \in Agent
BY DEF TypeOK, Inserted, Row

\* Cancellations keep the types.
LEMMA CancelsTypeOK == TypeOK /\ Cancels => TypeOK'
<1> SUFFICES ASSUME TypeOK, Cancels PROVE TypeOK'
  OBVIOUS
<1>1. ASSUME NEW S \in SUBSET Live, CancelRows(S) PROVE TypeOK'
  <2>1. S \subseteq Task /\ \A t \in S : status[t] # "absent"
    BY DEF Live, Cancellable, InFlight
  <2>2. {row[t].agent : t \in S} \subseteq Agent
    BY <2>1, AgentOfRow
  <2>3. status' \in [Task -> Status] /\ timer' \in [Task -> {"off", "live", "elapsed"}]
    BY <1>1 DEF CancelRows, Set, TypeOK, Status, Terminal
  <2>4. \A t \in Task : status'[t] = "absent" <=> status[t] = "absent"
    BY <1>1, <2>1 DEF CancelRows, Set
  <2>5. QED
    BY <1>1, <2>2, <2>3, <2>4, UpdateTypeOK DEF CancelRows, Reconciles, TypeOK
<1>2. QED
  BY <1>1 DEF Cancels, CancelTask, CancelTasksForScope, CancelTasksForAgent,
     CancelTasksByTriggerComment

\* Timers, runtimes and restarts keep the types.
LEMMA EnvironmentTypeOK == TypeOK /\ Environment => TypeOK'
BY UpdateTypeOK
DEF Environment, TimerElapses, DaemonDeregister, RuntimeOnline, ServerRestart, TypeOK

\* The fallbacks that an acknowledgement cancels exist.
LEMMA FallbacksCancellable ==
    /\ \A p \in Task : FallbacksForTask(p) \subseteq {t \in Task : status[t] \in Unstarted}
    /\ \A i, a : FallbacksForIssueAgent(i, a) \subseteq {t \in Task : status[t] \in Unstarted}
    /\ \A t, c : Acknowledged(t, c) \subseteq {u \in Task : u # t /\ status[u] \in Unstarted}
BY DEF FallbacksForTask, FallbacksForIssueAgent, FallbacksFor, Acknowledged

\* Daemon reports keep the types.
LEMMA ReportsTypeOK == TypeOK /\ Reports => TypeOK'
<1> SUFFICES ASSUME TypeOK, Reports PROVE TypeOK'
  OBVIOUS
<1> USE DEF Set, Status, Cancellable, InFlight, Terminal, Unstarted
<1>1. ASSUME NEW t \in Task, ExtendTaskPrepareLease(t) PROVE TypeOK'
  BY <1>1, UpdateTypeOK DEF ExtendTaskPrepareLease, TypeOK
<1>2. ASSUME NEW t \in Task, MarkTaskWaitingLocalDirectory(t) PROVE TypeOK'
  BY <1>2, UpdateTypeOK DEF MarkTaskWaitingLocalDirectory, TypeOK
<1>3. ASSUME NEW t \in Task, StartTask(t) PROVE TypeOK'
  <2>1. status' \in [Task -> Status] /\ timer' \in [Task -> {"off", "live", "elapsed"}]
    BY <1>3 DEF StartTask, TypeOK
  <2>2. \A u \in Task : status'[u] = "absent" <=> status[u] = "absent"
    BY <1>3, FallbacksCancellable DEF StartTask, TypeOK
  <2>3. QED
    BY <1>3, <2>1, <2>2, UpdateTypeOK DEF StartTask, TypeOK
<1>4. ASSUME NEW t \in Task, FailTaskAndRetry(t) PROVE TypeOK'
  <2>1. RetryRow(t) \in Row /\ row[t].agent \in Agent
    BY <1>4, RetryRowType, AgentOfRow DEF FailTaskAndRetry, TypeOK, Inserted
  <2>2. Insert(RetryRow(t)) /\ status[t] # "absent"
    BY <1>4 DEF FailTaskAndRetry
  <2>3. status' \in [Task -> Status] /\ \A u \in Task : status'[u] # "absent" <=> u <= n + 1
    BY <1>4, <2>1, <2>2, InsertType DEF FailTaskAndRetry, TypeOK, Inserted, Task
  <2>4. QED
    BY <1>4, <2>1, <2>2, <2>3, InsertType
    DEF FailTaskAndRetry, Reconciles, TypeOK, Inserted, Task
<1>5. ASSUME NEW t \in Task, NEW c \in BOOLEAN, CompleteTask(t, c) PROVE TypeOK'
  <2>1. status' \in [Task -> Status] /\ timer' \in [Task -> {"off", "live", "elapsed"}]
    BY <1>5 DEF CompleteTask, TypeOK
  <2>2. \A u \in Task : status'[u] = "absent" <=> status[u] = "absent"
    BY <1>5, FallbacksCancellable DEF CompleteTask, TypeOK
  <2>3. QED
    BY <1>5, <2>1, <2>2, UpdateTypeOK, AgentOfRow DEF CompleteTask, Reconciles, TypeOK
<1>6. ASSUME NEW t \in Task, NEW r \in {"infra", "other"}, NEW c \in BOOLEAN, FailTask(t, r, c)
      PROVE  TypeOK'
  <2>1. status' \in [Task -> Status] /\ timer' \in [Task -> {"off", "live", "elapsed"}]
    BY <1>6 DEF FailTask, TypeOK
  <2>2. \A u \in Task : status'[u] = "absent" <=> status[u] = "absent"
    BY <1>6, FallbacksCancellable DEF FailTask, TypeOK
  <2>3. QED
    BY <1>6, <2>1, <2>2, UpdateTypeOK, AgentOfRow DEF FailTask, Reconciles, TypeOK
<1>7. ASSUME NEW i \in Issue, NEW a \in Agent, CancelDeferredEscalationsForIssueAgent(i, a)
      PROVE  TypeOK'
  <2>1. status' \in [Task -> Status] /\ timer' \in [Task -> {"off", "live", "elapsed"}]
    BY <1>7 DEF CancelDeferredEscalationsForIssueAgent, TypeOK
  <2>2. \A u \in Task : status'[u] = "absent" <=> status[u] = "absent"
    BY <1>7, FallbacksCancellable DEF CancelDeferredEscalationsForIssueAgent, TypeOK
  <2>3. QED
    BY <1>7, <2>1, <2>2, UpdateTypeOK DEF CancelDeferredEscalationsForIssueAgent, TypeOK
<1>8. QED
  BY <1>1, <1>2, <1>3, <1>4, <1>5, <1>6, <1>7 DEF Reports

\* Sweeps keep the types; the rows in a batch are failed, so they exist.
LEMMA SweepsTypeOK == TypeOK /\ FailureHandledOnce /\ Sweeps => TypeOK'
<1> SUFFICES ASSUME TypeOK, FailureHandledOnce, Sweeps PROVE TypeOK'
  OBVIOUS
<1>1. ASSUME NEW h \in Handler, NEW S \in SUBSET Task, NEW r \in {"infra", "other"},
             \A t \in S : status[t] # "absent", FailBatch(h, S, r), online' \subseteq Runtime
      PROVE  TypeOK'
  <2>1. /\ status' \in [Task -> Status] /\ timer' \in [Task -> {"off", "live", "elapsed"}]
        /\ reason' \in [Task -> {"none", "infra", "other"}]
    BY <1>1 DEF FailBatch, Set, TypeOK, Status, Terminal
  <2>2. \A u \in Task : status'[u] = "absent" <=> status[u] = "absent"
    BY <1>1 DEF FailBatch, Set
  <2>3. QED
    BY <1>1, <2>1, <2>2, UpdateTypeOK DEF FailBatch, TypeOK
<1>2. ASSUME NEW h \in Handler, NEW S \in SUBSET StaleTasks, SweepStaleTasks(h, S)
      PROVE  TypeOK'
  BY <1>1, <1>2 DEF SweepStaleTasks, StaleTasks, TypeOK
<1>3. ASSUME NEW h \in Handler, NEW R \in SUBSET online, SweepStaleRuntimes(h, R)
      PROVE  TypeOK'
  <2>1. \A Q : OrphansOf(Q) \subseteq Task /\ \A t \in OrphansOf(Q) : status[t] # "absent"
    BY DEF OrphansOf, InFlight
  <2>2. online' \subseteq Runtime
    BY <1>3 DEF SweepStaleRuntimes, TypeOK
  <2>3. CASE FailBatch(h, OrphansOf((Runtime \ online) \cup R), "infra")
    BY <1>1, <2>1, <2>2, <2>3
  <2>4. CASE UNCHANGED <<n, row, status, reason, timer, agentStatus, reconciling, batch>>
    BY <2>2, <2>4, UpdateTypeOK DEF TypeOK
  <2>5. QED
    BY <1>3, <2>3, <2>4 DEF SweepStaleRuntimes
<1>4. ASSUME NEW h \in Handler, NEW k \in Task, SweepExpiredQueuedTasks(h, k) PROVE TypeOK'
  <2>1. {t \in 1..k : status[t] = "queued"} \subseteq Task
    BY ConstantsAssumption DEF Task
  <2>2. QED
    BY <1>1, <1>4, <2>1 DEF SweepExpiredQueuedTasks, TypeOK
<1>5. ASSUME NEW h \in Handler, NEW r \in Runtime, RecoverOrphanedTasks(h, r) PROVE TypeOK'
  BY <1>1, <1>5 DEF RecoverOrphanedTasks, OrphansOf, InFlight, TypeOK
<1>6. ASSUME NEW h \in Handler, NEW t \in Task, HandleFailedTask(h, t) PROVE TypeOK'
  <2>1. status[t] = "failed" /\ row[t] \in Row /\ row[t].agent \in Agent
    BY <1>6, AgentOfRow DEF HandleFailedTask, FailureHandledOnce, TypeOK, Inserted
  <2>2. /\ batch' \in [Handler -> SUBSET Task] /\ reconciling' \in SUBSET Agent
        /\ UNCHANGED <<reason, timer, agentStatus, online>>
    BY <1>6, <2>1 DEF HandleFailedTask, Reconciles, TypeOK
  <2>3. ASSUME RetryEligible(t, reason[t]), Insert(RetryRow(t)),
               status' = [status EXCEPT ![n + 1] = "queued"]
        PROVE  TypeOK'
    <3>1. RetryRow(t) \in Row
      BY <2>1, <2>3, RetryRowType
    <3>2. QED
      BY <2>2, <2>3, <3>1, InsertType DEF TypeOK, Inserted, Status, Cancellable, Task
  <2>4. CASE UNCHANGED <<n, row, status>>
    BY <2>2, <2>4, UpdateTypeOK DEF TypeOK
  <2>5. QED
    BY <1>6, <2>3, <2>4 DEF HandleFailedTask
<1>7. ASSUME NEW a \in Agent, ReconcileAgentStatus(a) PROVE TypeOK'
  BY <1>7, UpdateTypeOK DEF ReconcileAgentStatus, TypeOK
<1>8. QED
  BY <1>2, <1>3, <1>4, <1>5, <1>6, <1>7 DEF Sweeps

-----------------------------------------------------------------------------
\* What a step of the queue may do to the table.

\* The life of one row: it may move on while it is live, a started row only to
\* its end, and a finished row keeps its status and its failure reason.
Advances(t) ==
    /\ \/ status'[t] = status[t]
       \/ /\ status[t] \in Cancellable
          /\ status'[t] \in Cancellable \cup Terminal
          /\ status[t] = "running" => status'[t] \in Terminal
    /\ status[t] \in Terminal => reason'[t] = reason[t]

\* Only a claim takes a row in flight.
NotClaimed(t) == status'[t] \in InFlight => status[t] \in InFlight

BatchesShrink == \A h \in Handler : batch'[h] \subseteq batch[h]

BatchFailed ==
    \E h \in Handler : \E S \in SUBSET Task :
        /\ batch[h] = {}
        /\ batch' = [batch EXCEPT ![h] = S]
        /\ \A t \in S : status[t] \in Cancellable /\ status'[t] = "failed"

\* No row is inserted or claimed.
UpdateStep ==
    /\ UNCHANGED <<n, row>>
    /\ \A t \in Task : Advances(t) /\ NotClaimed(t)
    /\ BatchesShrink \/ BatchFailed

\* A row that is nobody's retry is inserted; it owns its chat input or has none.
FreshStep ==
    \E r \in Row :
        /\ Insert(r)
        /\ r.retry_of = NULL
        /\ r.chat_input \in {NULL, n + 1}
        /\ status'[n + 1] \in {"queued", "deferred"}
        /\ \A t \in Task \ {n + 1} : Advances(t) /\ NotClaimed(t)
        /\ UNCHANGED batch

\* A retry of t is inserted, by FailTask or by HandleFailedTasks.
RetryStep(t) ==
    /\ Insert(RetryRow(t))
    /\ RetryRow(t) \in Row
    /\ RetryEligible(t, "infra")
    /\ status'[n + 1] = "queued"
    /\ status'[t] = "failed" /\ reason'[t] = "infra"
    /\ \A u \in Task \ {t, n + 1} : status'[u] = status[u] /\ reason'[u] = reason[u]
    /\ \/ status[t] \in InFlight /\ UNCHANGED batch
       \/ \E h \in Handler :
             /\ t \in batch[h]
             /\ status[t] = "failed" /\ reason[t] = "infra"
             /\ batch' = [batch EXCEPT ![h] = @ \ {t}]

TableStep ==
    \/ UpdateStep
    \/ \E a \in Agent, t \in Task : ClaimTask(a, t)
    \/ FreshStep
    \/ \E t \in Task : RetryStep(t)

\* Enqueues insert a fresh row, and a rerun also cancels.
LEMMA EnqueuesTableStep == TypeOK /\ Enqueues => TableStep
<1> SUFFICES ASSUME TypeOK, Enqueues PROVE TableStep
  OBVIOUS
<1> USE DEF Advances, NotClaimed
<1>0. ASSUME NEW r \in Row, EnqueueRow(r), r.retry_of = NULL, r.chat_input \in {NULL, n + 1}
      PROVE  FreshStep
  BY <1>0, InsertType DEF EnqueueRow, FreshStep, TypeOK
<1>1. ASSUME NEW i \in Issue, NEW a \in Agent, NEW p \in IssuePriority,
             EnqueueIssueTask(i, a, p)
      PROVE  FreshStep
  <2>1. FreshRow(a, i, p) \in Row
    BY FreshRowType, ConstantsAssumption DEF Scope
  <2>2. QED
    BY <1>0, <1>1, <2>1 DEF EnqueueIssueTask, FreshRow, NewRow
<1>2. ASSUME NEW i \in Issue, NEW a \in Agent, NEW p \in IssuePriority,
             RerunIssue(i, a, p)
      PROVE  TableStep
  <2> DEFINE old == {t \in Live : row[t].scope = i /\ row[t].agent = a}
  <2>1. FreshRow(a, i, p) \in Row
    BY FreshRowType, ConstantsAssumption DEF Scope
  <2>2. old \subseteq {t \in Task : status[t] \in Cancellable}
    BY DEF Live
  <2>3. ASSUME NEW f \in [Task -> Status], f = Set(status, old, "cancelled"), NEW t \in Task,
               status'[t] = f[t]
        PROVE  Advances(t) /\ NotClaimed(t)
    BY <1>2, <2>2, <2>3 DEF RerunIssue, Set, Terminal, InFlight
  <2>4. Set(status, old, "cancelled") \in [Task -> Status]
    BY DEF Set, TypeOK, Status, Terminal
  <2>5. CASE /\ status' = Set(status, old, "cancelled")
             /\ UNCHANGED <<n, row>>
    BY <1>2, <2>3, <2>4, <2>5 DEF RerunIssue, TableStep, UpdateStep, BatchesShrink
  <2>6. CASE /\ Insert(FreshRow(a, i, p))
             /\ status' = [Set(status, old, "cancelled") EXCEPT ![n + 1] = "queued"]
    <3>1. n + 1 \in Task
      BY <2>1, <2>6, InsertType
    <3>2. \A t \in Task \ {n + 1} : Advances(t) /\ NotClaimed(t)
      BY <2>3, <2>4, <2>6, <3>1
    <3>3. status'[n + 1] = "queued" /\ UNCHANGED batch
      BY <1>2, <2>4, <2>6, <3>1 DEF RerunIssue
    <3>4. QED
      BY <2>1, <2>6, <3>2, <3>3 DEF TableStep, FreshStep, FreshRow, NewRow
  <2>7. QED
    BY <1>2, <2>5, <2>6 DEF RerunIssue
<1>3. ASSUME NEW i \in Issue, NEW a \in Agent, NEW p \in IssuePriority, NEW q \in 0..MaxTasks,
             EnqueueDeferredAssigneeFallback(i, a, p, q)
      PROVE  FreshStep
  <2>1. NewRow(a, i, p, q, NULL) \in Row
    BY NewRowType, ConstantsAssumption DEF Scope, NULL
  <2>2. n + 1 \in Task
    BY <1>3, <2>1, InsertType DEF EnqueueDeferredAssigneeFallback
  <2>3. QED
    BY <1>3, <2>1, <2>2 DEF EnqueueDeferredAssigneeFallback, FreshStep, NewRow, TypeOK
<1>4. ASSUME NEW c \in Chat, NEW d \in BOOLEAN, EnqueueChatTask(c, d)
      PROVE  FreshStep
  <2>1. n < MaxTasks
    BY <1>4 DEF EnqueueChatTask, EnqueueRow, Insert
  <2>2. (IF d THEN n + 1 ELSE NULL) \in 0..MaxTasks
    BY <2>1, ConstantsAssumption DEF TypeOK, NULL
  <2>3. NewRow(ChatAgent[c], c, 2, NULL, IF d THEN n + 1 ELSE NULL) \in Row
    BY <2>2, NewRowType, ConstantsAssumption DEF Scope, NULL
  <2>4. QED
    BY <1>0, <1>4, <2>3 DEF EnqueueChatTask, NewRow
<1>5. ASSUME NEW a \in Agent, EnqueueQuickCreateTask(a) \/ EnqueueRunOnlyTask(a)
      PROVE  FreshStep
  <2>1. FreshRow(a, QuickCreate, 3) \in Row /\ FreshRow(a, RunOnly, 0) \in Row
    BY FreshRowType DEF Scope
  <2>2. QED
    BY <1>0, <1>5, <2>1 DEF EnqueueQuickCreateTask, EnqueueRunOnlyTask, FreshRow, NewRow
<1>6. QED
  BY <1>1, <1>2, <1>3, <1>4, <1>5 DEF Enqueues, TableStep

\* A poll claims, or moves rows along the allowed edges.
LEMMA ClaimsTableStep == TypeOK /\ Claims => TableStep
<1> SUFFICES ASSUME TypeOK, Claims PROVE TableStep
  OBVIOUS
<1> USE DEF Advances, NotClaimed, BatchesShrink, Cancellable, InFlight, Terminal
<1>1. ASSUME NEW r \in Runtime, PromoteDueDeferredTasks(r) PROVE UpdateStep
  BY <1>1 DEF PromoteDueDeferredTasks, UpdateStep, Set, Due, TypeOK
<1>2. ASSUME NEW t \in Task, ReclaimStaleDispatchedTask(t) PROVE UpdateStep
  BY <1>2 DEF ReclaimStaleDispatchedTask, UpdateStep, TypeOK
<1>3. ASSUME NEW t \in Task, RequeueTaskAfterClaimFailure(t) PROVE UpdateStep
  BY <1>3 DEF RequeueTaskAfterClaimFailure, UpdateStep, TypeOK
<1>4. QED
  BY <1>1, <1>2, <1>3 DEF Claims, TableStep

\* Cancellations move rows along the allowed edges.
LEMMA CancelsTableStep == TypeOK /\ Cancels => TableStep
<1> SUFFICES ASSUME TypeOK, Cancels PROVE UpdateStep
  BY DEF TableStep
<1>1. ASSUME NEW S \in SUBSET Live, CancelRows(S) PROVE UpdateStep
  <2>1. S \subseteq {t \in Task : status[t] \in Cancellable}
    BY DEF Live
  <2>2. \A t \in Task : Advances(t) /\ NotClaimed(t)
    BY <1>1, <2>1 DEF CancelRows, Set, Advances, NotClaimed, Terminal, InFlight
  <2>3. QED
    BY <1>1, <2>2 DEF CancelRows, UpdateStep, BatchesShrink
<1>2. QED
  BY <1>1 DEF Cancels, CancelTask, CancelTasksForScope, CancelTasksForAgent,
     CancelTasksByTriggerComment

\* Reports move rows along the allowed edges, FailTask may insert a retry.
LEMMA ReportsTableStep == TypeOK /\ Reports => TableStep
<1> SUFFICES ASSUME TypeOK, Reports PROVE TableStep
  OBVIOUS
<1> USE DEF Advances, NotClaimed, BatchesShrink, Cancellable, InFlight, Terminal, Unstarted, Set
<1>1. ASSUME NEW t \in Task, ExtendTaskPrepareLease(t) PROVE UpdateStep
  BY <1>1 DEF ExtendTaskPrepareLease, UpdateStep, TypeOK
<1>2. ASSUME NEW t \in Task, MarkTaskWaitingLocalDirectory(t) PROVE UpdateStep
  BY <1>2 DEF MarkTaskWaitingLocalDirectory, UpdateStep, TypeOK
<1>3. ASSUME NEW t \in Task, StartTask(t) PROVE UpdateStep
  BY <1>3, FallbacksCancellable DEF StartTask, UpdateStep, TypeOK
<1>4. ASSUME NEW t \in Task, FailTaskAndRetry(t) PROVE RetryStep(t)
  <2>1. RetryRow(t) \in Row /\ t # n + 1
    BY <1>4, RetryRowType DEF FailTaskAndRetry, TypeOK, Inserted, Task
  <2>2. Insert(RetryRow(t)) /\ n + 1 \in Task
    BY <1>4, <2>1, InsertType DEF FailTaskAndRetry
  <2>3. QED
    BY <1>4, <2>1, <2>2 DEF FailTaskAndRetry, RetryStep, TypeOK
<1>5. ASSUME NEW t \in Task, NEW c \in BOOLEAN, CompleteTask(t, c) PROVE UpdateStep
  BY <1>5, FallbacksCancellable DEF CompleteTask, UpdateStep, TypeOK
<1>6. ASSUME NEW t \in Task, NEW r \in {"infra", "other"}, NEW c \in BOOLEAN, FailTask(t, r, c)
      PROVE  UpdateStep
  BY <1>6, FallbacksCancellable DEF FailTask, UpdateStep, TypeOK
<1>7. ASSUME NEW i \in Issue, NEW a \in Agent, CancelDeferredEscalationsForIssueAgent(i, a)
      PROVE  UpdateStep
  BY <1>7, FallbacksCancellable DEF CancelDeferredEscalationsForIssueAgent, UpdateStep, TypeOK
<1>8. QED
  BY <1>1, <1>2, <1>3, <1>4, <1>5, <1>6, <1>7 DEF Reports, TableStep

\* Sweeps fail rows into a batch, handlers may insert their retries.
LEMMA SweepsTableStep == TypeOK /\ FailureHandledOnce /\ Sweeps => TableStep
<1> SUFFICES ASSUME TypeOK, FailureHandledOnce, Sweeps PROVE TableStep
  OBVIOUS
<1>1. ASSUME NEW h \in Handler, NEW S \in SUBSET Task, NEW r,
             \A t \in S : status[t] \in Cancellable, FailBatch(h, S, r)
      PROVE  UpdateStep
  <2>1. \A t \in Task : Advances(t) /\ NotClaimed(t)
    BY <1>1 DEF FailBatch, Set, Advances, NotClaimed, Cancellable, InFlight, Terminal
  <2>2. BatchFailed
    BY <1>1 DEF FailBatch, Set, BatchFailed
  <2>3. QED
    BY <1>1, <2>1, <2>2 DEF FailBatch, UpdateStep
<1>2. ASSUME NEW h \in Handler, NEW S \in SUBSET StaleTasks, SweepStaleTasks(h, S)
      PROVE  UpdateStep
  BY <1>1, <1>2 DEF SweepStaleTasks, StaleTasks, Cancellable, InFlight
<1>3. ASSUME NEW h \in Handler, NEW R \in SUBSET online, SweepStaleRuntimes(h, R)
      PROVE  UpdateStep
  <2>1. \A Q : OrphansOf(Q) \subseteq Task /\ \A t \in OrphansOf(Q) : status[t] \in Cancellable
    BY DEF OrphansOf, Cancellable
  <2>2. CASE FailBatch(h, OrphansOf((Runtime \ online) \cup R), "infra")
    BY <1>1, <2>1, <2>2
  <2>3. CASE UNCHANGED <<n, row, status, reason, timer, agentStatus, reconciling, batch>>
    BY <2>3 DEF UpdateStep, Advances, NotClaimed, BatchesShrink
  <2>4. QED
    BY <1>3, <2>2, <2>3 DEF SweepStaleRuntimes
<1>4. ASSUME NEW h \in Handler, NEW k \in Task, SweepExpiredQueuedTasks(h, k) PROVE UpdateStep
  <2>1. {t \in 1..k : status[t] = "queued"} \subseteq Task
    BY ConstantsAssumption DEF Task
  <2>2. QED
    BY <1>1, <1>4, <2>1 DEF SweepExpiredQueuedTasks, Cancellable
<1>5. ASSUME NEW h \in Handler, NEW r \in Runtime, RecoverOrphanedTasks(h, r) PROVE UpdateStep
  BY <1>1, <1>5 DEF RecoverOrphanedTasks, OrphansOf, Cancellable
<1>6. ASSUME NEW h \in Handler, NEW t \in Task, HandleFailedTask(h, t) PROVE TableStep
  <2>1. status[t] = "failed" /\ row[t] \in Row /\ t <= n
    BY <1>6 DEF HandleFailedTask, FailureHandledOnce, TypeOK, Inserted
  <2>2. t \in batch[h] /\ batch' = [batch EXCEPT ![h] = @ \ {t}] /\ reason' = reason
    BY <1>6 DEF HandleFailedTask
  <2>3. ASSUME RetryEligible(t, reason[t]), Insert(RetryRow(t)),
               status' = [status EXCEPT ![n + 1] = "queued"]
        PROVE  RetryStep(t)
    <3>1. RetryRow(t) \in Row
      BY <2>1, <2>3, RetryRowType
    <3>2. n + 1 \in Task /\ t # n + 1
      BY <2>1, <2>3, <3>1, InsertType DEF TypeOK, Task
    <3>3. reason[t] = "infra" /\ RetryEligible(t, "infra")
      BY <2>3 DEF RetryEligible
    <3>4. QED
      BY <2>1, <2>2, <2>3, <3>1, <3>2, <3>3 DEF RetryStep, TypeOK
  <2>4. CASE UNCHANGED <<n, row, status>>
    BY <2>2, <2>4 DEF UpdateStep, Advances, NotClaimed, BatchesShrink, TypeOK, TableStep
  <2>5. QED
    BY <1>6, <2>3, <2>4 DEF HandleFailedTask, TableStep
<1>7. ASSUME NEW a \in Agent, ReconcileAgentStatus(a) PROVE UpdateStep
  BY <1>7 DEF ReconcileAgentStatus, UpdateStep, Advances, NotClaimed, BatchesShrink
<1>8. QED
  BY <1>2, <1>3, <1>4, <1>5, <1>6, <1>7 DEF Sweeps, TableStep

\* The environment leaves statuses alone; a restart empties the batches.
LEMMA EnvironmentTableStep == TypeOK /\ Environment => TableStep
BY DEF Environment, TimerElapses, DaemonDeregister, RuntimeOnline, ServerRestart, TypeOK,
   TableStep, UpdateStep, Advances, NotClaimed, BatchesShrink

\* Every step of the queue has one of the four shapes.
LEMMA StepShape ==
    ASSUME TypeOK, FailureHandledOnce, [Next]_vars
    PROVE  TypeOK' /\ TableStep
<1>1. CASE UNCHANGED vars
  BY <1>1 DEF vars, TypeOK, Inserted, TableStep, UpdateStep, Advances, NotClaimed, BatchesShrink
<1>2. CASE Next
  BY <1>2, EnqueuesTypeOK, ClaimsTypeOK, ReportsTypeOK, CancelsTypeOK, SweepsTypeOK,
     EnvironmentTypeOK, EnqueuesTableStep, ClaimsTableStep, ReportsTableStep,
     CancelsTableStep, SweepsTableStep, EnvironmentTableStep
  DEF Next
<1>3. QED
  BY <1>1, <1>2

-----------------------------------------------------------------------------
\* Failures and retries.

\* parent_task_id, when set, is the number of a row.
LEMMA RetryOfIsRow ==
    ASSUME TypeOK
    PROVE  \A t \in Task : (Inserted(t) /\ row[t].retry_of # NULL) => row[t].retry_of \in Task
<1>1. \A t \in Task : Inserted(t) => row[t].retry_of \in 0..MaxTasks
  BY DEF TypeOK, Row
<1>2. QED
  BY <1>1, ConstantsAssumption DEF NULL, Task

\* A step that inserts nothing leaves every row's parentage alone.
LEMMA AdvanceKeepsLineage ==
    ASSUME TypeOK, TypeOK', RetryLineage, FailureHandledOnce,
           UNCHANGED <<n, row>>, \A t \in Task : Advances(t),
           BatchesShrink \/ BatchFailed
    PROVE  RetryLineage' /\ FailureHandledOnce'
<1>1. \A t \in Task : Inserted(t)' <=> Inserted(t)
  BY DEF TypeOK
<1>2. \A t \in Task : HasRetry(t)' <=> HasRetry(t)
  BY <1>1 DEF HasRetry
<1>3. \A t \in Task : status[t] = "failed" => status'[t] = "failed" /\ reason'[t] = reason[t]
  BY DEF Advances, Cancellable, InFlight, Terminal
<1>4. \A t \in Task : (Inserted(t) /\ row[t].retry_of # NULL) => row[t].retry_of \in Task
  BY RetryOfIsRow
<1>5. RetryLineage'
  BY <1>1, <1>3, <1>4 DEF RetryLineage
<1>6. \A t \in Task : status[t] \in Cancellable => ~ HasRetry(t)
  <2> SUFFICES ASSUME NEW t \in Task, status[t] \in Cancellable, HasRetry(t) PROVE FALSE
    OBVIOUS
  <2>1. PICK u \in Task : Inserted(u) /\ row[u].retry_of = t
    BY DEF HasRetry
  <2>2. t # NULL
    BY DEF Task, NULL
  <2>3. status[t] = "failed"
    BY <2>1, <2>2 DEF RetryLineage
  <2>4. QED
    BY <2>3 DEF Cancellable, InFlight
<1>7. CASE BatchesShrink
  <2>1. \A h \in Handler : \A t \in batch'[h] : status'[t] = "failed" /\ ~ HasRetry(t)'
    BY <1>2, <1>3, <1>7 DEF BatchesShrink, FailureHandledOnce, TypeOK
  <2>2. QED
    BY <1>5, <1>7, <2>1 DEF BatchesShrink, FailureHandledOnce
<1>8. CASE BatchFailed
  <2>1. PICK h \in Handler, S \in SUBSET Task :
             /\ batch[h] = {}
             /\ batch' = [batch EXCEPT ![h] = S]
             /\ \A t \in S : status[t] \in Cancellable /\ status'[t] = "failed"
    BY <1>8 DEF BatchFailed
  <2>2. \A g \in Handler : g # h => batch'[g] = batch[g]
    BY <2>1 DEF TypeOK
  <2>3. batch'[h] = S
    BY <2>1 DEF TypeOK
  <2>4. \A g \in Handler : \A t \in batch[g] : status[t] \notin Cancellable
    BY DEF FailureHandledOnce, Cancellable, InFlight
  <2>5. \A g \in Handler : g # h => batch[g] \cap S = {}
    BY <2>1, <2>4
  <2>6. \A g \in Handler : \A t \in batch'[g] : status'[t] = "failed" /\ ~ HasRetry(t)'
    BY <1>2, <1>3, <1>6, <2>1, <2>2, <2>3 DEF FailureHandledOnce, TypeOK
  <2>7. \A f, g \in Handler : f # g => batch'[f] \cap batch'[g] = {}
    BY <2>2, <2>3, <2>5 DEF FailureHandledOnce
  <2>8. QED
    BY <1>5, <2>6, <2>7 DEF FailureHandledOnce
<1>9. QED
  BY <1>5, <1>7, <1>8

\* A fresh row is nobody's retry.
LEMMA FreshKeepsLineage ==
    ASSUME TypeOK, TypeOK', RetryLineage, FailureHandledOnce, FreshStep
    PROVE  RetryLineage' /\ FailureHandledOnce'
<1>0. PICK r \in Row :
           /\ Insert(r)
           /\ r.retry_of = NULL
           /\ \A t \in Task \ {n + 1} : Advances(t) /\ NotClaimed(t)
           /\ UNCHANGED batch
  BY DEF FreshStep
<1>1. /\ n + 1 \in Task /\ row'[n + 1] = r
      /\ \A t \in Task : t # n + 1 => row'[t] = row[t]
      /\ n' = n + 1
  BY <1>0, InsertType
<1>2. \A t \in Task : t # n + 1 => (Inserted(t)' <=> Inserted(t))
  BY <1>1 DEF TypeOK, Task
<1>3. ~ Inserted(n + 1)
  BY <1>1 DEF TypeOK, Task
<1>4. \A t \in Task : status[t] = "failed" => /\ t # n + 1
                                             /\ status'[t] = "failed" /\ reason'[t] = reason[t]
  BY <1>0, <1>3 DEF Advances, Cancellable, InFlight, Terminal, Inserted
<1>5. \A t \in Task : HasRetry(t)' <=> HasRetry(t)
  BY <1>0, <1>1, <1>2, <1>3 DEF HasRetry, NULL, Task
<1>6. \A t \in Task : (Inserted(t) /\ row[t].retry_of # NULL) => row[t].retry_of \in Task
  BY RetryOfIsRow
<1>7. RetryLineage'
  BY <1>0, <1>1, <1>2, <1>3, <1>4, <1>6 DEF RetryLineage
<1>8. FailureHandledOnce'
  BY <1>0, <1>4, <1>5 DEF FailureHandledOnce, TypeOK
<1>9. QED
  BY <1>7, <1>8

\* The retry of a failed row that had none is its only one.
LEMMA RetryKeepsLineage ==
    ASSUME TypeOK, TypeOK', RetryLineage, FailureHandledOnce, NEW p \in Task, RetryStep(p)
    PROVE  RetryLineage' /\ FailureHandledOnce'
<1> DEFINE r == RetryRow(p)
<1>1. /\ n + 1 \in Task /\ row'[n + 1] = r
      /\ \A t \in Task : t # n + 1 => row'[t] = row[t]
      /\ n' = n + 1
  BY InsertType DEF RetryStep
<1>2. \A t \in Task : t # n + 1 => (Inserted(t)' <=> Inserted(t))
  BY <1>1 DEF TypeOK, Task
<1>3. ~ Inserted(n + 1) /\ status'[n + 1] # "absent"
  BY <1>1 DEF TypeOK, Task, Inserted
<1>4. Inserted(p) /\ p < n + 1
  BY DEF RetryStep, FailureHandledOnce, InFlight, TypeOK, Task, Inserted
<1>5. ~ HasRetry(p)
  <2>1. CASE status[p] \in InFlight
    <3>1. p # NULL /\ status[p] # "failed"
      BY <2>1 DEF Task, NULL, InFlight
    <3>2. QED
      BY <3>1 DEF HasRetry, RetryLineage
  <2>2. CASE \E h \in Handler : p \in batch[h]
    BY <2>2 DEF FailureHandledOnce
  <2>3. QED
    BY <2>1, <2>2 DEF RetryStep
<1>6. \A t \in Task : status[t] = "failed" => status'[t] = "failed" /\ reason'[t] = reason[t]
  BY <1>3, <1>4 DEF RetryStep, InFlight, Inserted
<1>7. /\ r.retry_of = p /\ r.attempt = row[p].attempt + 1
      /\ r.agent = row[p].agent /\ r.scope = row[p].scope
  BY DEF RetryRow
<1>8. \A t \in Task : (Inserted(t) /\ row[t].retry_of # NULL) => row[t].retry_of \in Task
  BY RetryOfIsRow
<1>9. \A t \in Task : t # p => (HasRetry(t)' <=> HasRetry(t))
  BY <1>1, <1>2, <1>3, <1>7 DEF HasRetry
<1>10. RetryLineage'
  <2> SUFFICES ASSUME NEW t \in Task, Inserted(t)', row'[t].retry_of # NULL
               PROVE  /\ row'[t].retry_of < t
                      /\ status'[row'[t].retry_of] = "failed"
                      /\ reason'[row'[t].retry_of] = "infra"
                      /\ row'[t].attempt = row'[row'[t].retry_of].attempt + 1
                      /\ row'[t].agent = row'[row'[t].retry_of].agent
                      /\ row'[t].scope = row'[row'[t].retry_of].scope
                      /\ \A u \in Task :
                            (Inserted(u)' /\ row'[u].retry_of = row'[t].retry_of) => u = t
    BY DEF RetryLineage
  <2>1. CASE t = n + 1
    <3>1. \A u \in Task : (Inserted(u)' /\ row'[u].retry_of = p) => u = n + 1
      BY <1>1, <1>2, <1>5 DEF HasRetry
    <3>2. QED
      BY <1>1, <1>4, <1>7, <2>1, <3>1 DEF RetryStep
  <2>2. CASE t # n + 1
    <3> DEFINE q == row[t].retry_of
    <3>1. Inserted(t) /\ row'[t] = row[t] /\ q \in Task /\ q # NULL
      BY <1>1, <1>2, <1>8, <2>2
    <3>2. q # p /\ q < t /\ status[q] = "failed" /\ reason[q] = "infra"
      BY <1>5, <3>1 DEF RetryLineage, HasRetry
    <3>3. q # n + 1 /\ row'[q] = row[q]
      BY <1>1, <1>3, <3>1, <3>2 DEF Inserted
    <3>4. \A u \in Task : (Inserted(u)' /\ row'[u].retry_of = q) => u = t
      BY <1>1, <1>2, <1>7, <3>1, <3>2 DEF RetryLineage
    <3>5. QED
      BY <1>6, <3>1, <3>2, <3>3, <3>4 DEF RetryLineage
  <2>3. QED
    BY <2>1, <2>2
<1>11. FailureHandledOnce'
  <2>1. \A h \in Handler : batch'[h] \subseteq batch[h]
    BY DEF RetryStep, TypeOK
  <2>2. \A h \in Handler : p \notin batch'[h]
    BY DEF RetryStep, TypeOK, FailureHandledOnce, InFlight
  <2>3. \A h \in Handler : batch'[h] \subseteq Task
    BY <2>1 DEF TypeOK
  <2>4. \A h \in Handler : \A t \in batch'[h] : status'[t] = "failed" /\ ~ HasRetry(t)'
    BY <1>6, <1>9, <2>1, <2>2, <2>3 DEF FailureHandledOnce
  <2>5. QED
    BY <2>1, <2>4 DEF FailureHandledOnce
<1>12. QED
  BY <1>10, <1>11

\* A claim is a move along an allowed edge.
LEMMA ClaimAdvances ==
    ASSUME TypeOK, NEW a \in Agent, NEW t \in Task, ClaimTask(a, t)
    PROVE  UNCHANGED <<n, row>> /\ BatchesShrink /\ \A u \in Task : Advances(u)
BY DEF ClaimTask, Claimable, BatchesShrink, Advances, Cancellable, InFlight, Terminal, TypeOK

LineageInv == TypeOK /\ RetryLineage /\ FailureHandledOnce

\* Every step keeps types, lineage and batches.
LEMMA LineageInductive == LineageInv /\ [Next]_vars => LineageInv'
<1> SUFFICES ASSUME LineageInv, [Next]_vars PROVE LineageInv'
  OBVIOUS
<1>1. TypeOK /\ RetryLineage /\ FailureHandledOnce
  BY DEF LineageInv
<1>2. TypeOK' /\ TableStep
  BY <1>1, StepShape
<1>3. RetryLineage' /\ FailureHandledOnce'
  <2>1. CASE UpdateStep
    BY <1>1, <1>2, <2>1, AdvanceKeepsLineage DEF UpdateStep
  <2>2. CASE \E a \in Agent, t \in Task : ClaimTask(a, t)
    BY <1>1, <1>2, <2>2, AdvanceKeepsLineage, ClaimAdvances
  <2>3. CASE FreshStep
    BY <1>1, <1>2, <2>3, FreshKeepsLineage
  <2>4. CASE \E t \in Task : RetryStep(t)
    BY <1>1, <1>2, <2>4, RetryKeepsLineage
  <2>5. QED
    BY <1>2, <2>1, <2>2, <2>3, <2>4 DEF TableStep
<1>4. QED
  BY <1>2, <1>3 DEF LineageInv

\* An empty table has no retries and no batches.
LEMMA InitLineage == Init => LineageInv
BY InitTypeOK DEF Init, LineageInv, RetryLineage, FailureHandledOnce, Inserted

\* The inductive invariant behind the retry theorems.
LEMMA SpecLineage == Spec => []LineageInv
BY InitLineage, LineageInductive, PTL DEF Spec

\* Every column keeps its type, rows are numbered without gaps and every
\* inserted row carries an agent, a scope and an attempt within max_attempts.
THEOREM TypeCorrect == Spec => []TypeOK
BY SpecLineage, PTL DEF LineageInv

\* Retry chains are sound for every number of rows, handlers and attempts:
\* FailTask, the sweepers and orphan recovery together retry an attempt once.
THEOREM RetriesSound == Spec => []RetryLineage
BY SpecLineage, PTL DEF LineageInv

\* No failed row is settled by two handlers of HandleFailedTasks, or after it
\* has been retried.
THEOREM FailuresHandledOnce == Spec => []FailureHandledOnce
BY SpecLineage, PTL DEF LineageInv

-----------------------------------------------------------------------------
\* One run per key and the agent's capacity.

\* Without a claim, the rows in flight after a step were in flight before it,
\* and they are the same rows.
LEMMA NonClaimStep ==
    ASSUME TypeOK, FailureHandledOnce, UpdateStep \/ FreshStep \/ \E t \in Task : RetryStep(t)
    PROVE  \A u \in Task : status'[u] \in InFlight => status[u] \in InFlight /\ row'[u] = row[u]
<1>1. CASE UpdateStep
  BY <1>1 DEF UpdateStep, NotClaimed
<1>2. CASE FreshStep
  <2>1. PICK r \in Row :
             /\ Insert(r)
             /\ status'[n + 1] \in {"queued", "deferred"}
             /\ \A t \in Task \ {n + 1} : NotClaimed(t)
    BY <1>2 DEF FreshStep
  <2>2. \A t \in Task : t # n + 1 => row'[t] = row[t]
    BY <2>1, InsertType
  <2>3. QED
    BY <2>1, <2>2 DEF NotClaimed, InFlight
<1>3. ASSUME NEW p \in Task, RetryStep(p)
      PROVE  \A u \in Task : status'[u] \in InFlight => status[u] \in InFlight /\ row'[u] = row[u]
  <2>1. \A t \in Task : t # n + 1 => row'[t] = row[t]
    BY <1>3, InsertType DEF RetryStep
  <2>2. QED
    BY <1>3, <2>1 DEF RetryStep, InFlight
<1>4. QED
  BY <1>1, <1>2, <1>3

\* Only a claim takes a row in flight, and it found its key free.
LEMMA OneRunPerKeyInductive ==
    ASSUME TypeOK, FailureHandledOnce, OneRunPerKey, TableStep
    PROVE  OneRunPerKey'
<1>1. CASE UpdateStep \/ FreshStep \/ \E t \in Task : RetryStep(t)
  BY <1>1, NonClaimStep DEF OneRunPerKey, SameKey
<1>2. ASSUME NEW a \in Agent, NEW t \in Task, ClaimTask(a, t)
      PROVE  OneRunPerKey'
  <2>1. row' = row /\ \A u \in Task : u # t => status'[u] = status[u]
    BY <1>2 DEF ClaimTask, TypeOK
  <2>2. \A u \in Task : status[u] \in InFlight => ~ SameKey(t, u) /\ ~ SameKey(u, t)
    BY <1>2 DEF ClaimTask, Claimable, SameKey
  <2>3. QED
    BY <2>1, <2>2 DEF OneRunPerKey, SameKey
<1>3. QED
  BY <1>1, <1>2 DEF TableStep

\* An agent's claimed rows can be counted.
LEMMA RunsFinite ==
    \A a : IsFiniteSet(Runs(a)) /\ Cardinality(Runs(a)) \in Nat
<1>1. IsFiniteSet(Task)
  BY FS_Interval, ConstantsAssumption DEF Task
<1>2. \A a : Runs(a) \subseteq Task
  BY DEF Runs
<1>3. \A a : IsFiniteSet(Runs(a))
  BY <1>1, <1>2, FS_Subset
<1>4. QED
  BY <1>3, FS_CardinalityType

\* Only a claim adds to an agent's runs, and it found room for one more.
LEMMA CapacityInductive ==
    ASSUME TypeOK, FailureHandledOnce, CapacityRespected, TableStep
    PROVE  CapacityRespected'
<1> SUFFICES ASSUME NEW a \in Agent PROVE Cardinality(Runs(a)') <= MaxConcurrent[a]
  BY DEF CapacityRespected
<1>0. Cardinality(Runs(a)) <= MaxConcurrent[a] /\ MaxConcurrent[a] \in Nat
  BY ConstantsAssumption DEF CapacityRespected
<1>1. ASSUME Runs(a)' \subseteq Runs(a) PROVE Cardinality(Runs(a)') <= MaxConcurrent[a]
  <2>1. Cardinality(Runs(a)') <= Cardinality(Runs(a)) /\ Cardinality(Runs(a)') \in Nat
    BY <1>1, RunsFinite, FS_Subset, FS_CardinalityType
  <2>2. QED
    BY <1>0, <2>1, RunsFinite
<1>2. CASE UpdateStep \/ FreshStep \/ \E t \in Task : RetryStep(t)
  BY <1>1, <1>2, NonClaimStep DEF Runs
<1>3. ASSUME NEW b \in Agent, NEW t \in Task, ClaimTask(b, t)
      PROVE  Cardinality(Runs(a)') <= MaxConcurrent[a]
  <2>1. /\ row' = row /\ \A u \in Task : u # t => status'[u] = status[u]
        /\ status'[t] = "dispatched" /\ row[t].agent = b /\ t \notin Runs(b)
    BY <1>3 DEF ClaimTask, Claimable, TypeOK, Runs, InFlight
  <2>2. CASE a # b
    BY <1>1, <2>1, <2>2 DEF Runs
  <2>3. CASE a = b
    <3>1. Runs(a)' = Runs(a) \cup {t}
      BY <2>1, <2>3 DEF Runs, InFlight
    <3>2. Cardinality(Runs(a)') = Cardinality(Runs(a)) + 1
      <4>1. t \notin Runs(a) /\ IsFiniteSet(Runs(a))
        BY <2>1, <2>3, RunsFinite
      <4>2. Cardinality(Runs(a) \cup {t}) = Cardinality(Runs(a)) + 1
        BY <4>1, FS_AddElement
      <4>3. QED
        BY <3>1, <4>2
    <3>3. Cardinality(Runs(a)) < MaxConcurrent[a]
      BY <1>3, <2>3 DEF ClaimTask, CountRunningTasks
    <3>4. QED
      BY <1>0, <3>2, <3>3, RunsFinite
  <2>4. QED
    BY <2>2, <2>3
<1>4. QED
  BY <1>2, <1>3 DEF TableStep

ClaimInv == LineageInv /\ OneRunPerKey /\ CapacityRespected

\* Every step keeps keys serialized and capacity respected.
LEMMA ClaimInductive == ClaimInv /\ [Next]_vars => ClaimInv'
<1> SUFFICES ASSUME ClaimInv, [Next]_vars PROVE ClaimInv'
  OBVIOUS
<1>1. TypeOK /\ FailureHandledOnce /\ LineageInv /\ OneRunPerKey /\ CapacityRespected
  BY DEF ClaimInv, LineageInv
<1>2. TableStep
  BY <1>1, StepShape
<1>3. LineageInv'
  BY <1>1, LineageInductive
<1>4. QED
  BY <1>1, <1>2, <1>3, OneRunPerKeyInductive, CapacityInductive DEF ClaimInv

\* Nothing is in flight in an empty table.
LEMMA InitClaim == Init => ClaimInv
<1> SUFFICES ASSUME Init PROVE ClaimInv
  OBVIOUS
<1>1. LineageInv
  BY InitLineage
<1>2. OneRunPerKey
  BY DEF Init, OneRunPerKey, InFlight
<1>3. ASSUME NEW a \in Agent PROVE Cardinality(Runs(a)) <= MaxConcurrent[a]
  <2>1. Runs(a) = {}
    BY DEF Init, Runs, InFlight
  <2>2. QED
    BY <2>1, FS_EmptySet, ConstantsAssumption
<1>4. QED
  BY <1>1, <1>2, <1>3 DEF ClaimInv, CapacityRespected

\* The inductive invariant behind the claim theorems.
LEMMA SpecClaim == Spec => []ClaimInv
BY InitClaim, ClaimInductive, PTL DEF Spec

\* For any number of agents, issues, sessions and concurrent requests, one
\* agent never has two tasks of one serialization key in flight (ClaimAgentTask).
THEOREM KeysSerialized == Spec => []OneRunPerKey
BY SpecClaim, PTL DEF ClaimInv

\* An agent's claimed tasks never outnumber its max_concurrent_tasks (ClaimTask).
THEOREM CapacityBounded == Spec => []CapacityRespected
BY SpecClaim, PTL DEF ClaimInv

-----------------------------------------------------------------------------
\* Rows never go back.

\* Every step moves every row along an allowed edge or leaves it alone.
LEMMA AllAdvance ==
    ASSUME TypeOK, TableStep
    PROVE  \A t \in Task : status[t] # "absent" => Advances(t)
<1>1. CASE UpdateStep
  BY <1>1 DEF UpdateStep
<1>2. CASE \E a \in Agent, t \in Task : ClaimTask(a, t)
  BY <1>2, ClaimAdvances
<1>3. CASE FreshStep
  <2>1. PICK r \in Row : Insert(r) /\ \A t \in Task \ {n + 1} : Advances(t)
    BY <1>3 DEF FreshStep
  <2>2. n + 1 \in Task /\ status[n + 1] = "absent"
    BY <2>1, InsertType DEF TypeOK, Inserted, Task
  <2>3. QED
    BY <2>1, <2>2
<1>4. ASSUME NEW p \in Task, RetryStep(p)
      PROVE  \A t \in Task : status[t] # "absent" => Advances(t)
  <2>1. n + 1 \in Task /\ status[n + 1] = "absent"
    BY <1>4, InsertType DEF RetryStep, TypeOK, Inserted, Task
  <2>2. QED
    BY <1>4, <2>1 DEF RetryStep, Advances, Cancellable, InFlight, Terminal
<1>5. QED
  BY <1>1, <1>2, <1>3, <1>4 DEF TableStep

\* However late a report, a reclaim, a requeue or a cancellation arrives, it
\* never reopens a finished task and never takes a started one back.
THEOREM NoTaskResurrected == Spec => NoResurrection
<1>1. ASSUME LineageInv, [Next]_vars
      PROVE  [\A t \in Task :
                /\ status[t] \in Terminal => status'[t] = status[t]
                /\ status[t] = "running" => status'[t] \in {"running"} \cup Terminal]_vars
  <2>1. TypeOK /\ TableStep
    BY <1>1, StepShape DEF LineageInv
  <2>2. \A t \in Task : status[t] # "absent" => Advances(t)
    BY <2>1, AllAdvance
  <2>3. QED
    BY <2>2 DEF Advances, Terminal, Cancellable, InFlight
<1>2. QED
  BY <1>1, SpecLineage, PTL DEF Spec, NoResurrection

-----------------------------------------------------------------------------
\* Chat turns.

\* Of two rows that consume the same turn's input one has been retried, and a
\* turn's input is owned by a row no younger than its consumers.
TurnIsOneChain ==
    /\ \A t \in Task : Inserted(t) => row[t].chat_input <= t
    /\ \A t, u \in Task :
          (/\ t # u /\ Inserted(t) /\ Inserted(u)
           /\ row[t].chat_input # NULL /\ row[t].chat_input = row[u].chat_input)
          => HasRetry(t) \/ HasRetry(u)

\* A fresh turn owns a new input, a retry shares that of the row it retries.
LEMMA TurnInductive ==
    ASSUME TypeOK, TypeOK', RetryLineage, FailureHandledOnce, TurnIsOneChain, TableStep
    PROVE  TurnIsOneChain'
<1>1. ASSUME UNCHANGED <<n, row>> PROVE TurnIsOneChain'
  <2>1. \A t \in Task : Inserted(t)' <=> Inserted(t)
    BY <1>1 DEF TypeOK
  <2>2. QED
    BY <1>1, <2>1 DEF TurnIsOneChain, HasRetry
<1>2. ASSUME NEW r \in Row, Insert(r), r.chat_input \in {NULL, n + 1}
      PROVE  TurnIsOneChain'
  <2>1. /\ n + 1 \in Task /\ row'[n + 1] = r
        /\ \A t \in Task : t # n + 1 => row'[t] = row[t]
        /\ n' = n + 1
    BY <1>2, InsertType
  <2>2. \A t \in Task : Inserted(t) => Inserted(t)' /\ t # n + 1
    BY <2>1 DEF TypeOK, Task
  <2>3. \A t \in Task : Inserted(t)' => Inserted(t) \/ t = n + 1
    BY <2>1 DEF TypeOK, Task
  <2>4. \A t \in Task : HasRetry(t) => HasRetry(t)'
    BY <2>1, <2>2 DEF HasRetry
  <2>5. \A t \in Task : Inserted(t) => row[t].chat_input # n + 1
    BY <2>1 DEF TurnIsOneChain, TypeOK, Task, Row
  <2>6. \A t \in Task : Inserted(t)' => row'[t].chat_input <= t
    BY <1>2, <2>1, <2>3 DEF TurnIsOneChain, TypeOK, NULL, Task
  <2>7. QED
    BY <1>2, <2>1, <2>3, <2>4, <2>5, <2>6 DEF TurnIsOneChain
<1>3. ASSUME NEW p \in Task, RetryStep(p) PROVE TurnIsOneChain'
  <2>1. /\ n + 1 \in Task /\ row'[n + 1] = RetryRow(p)
        /\ \A t \in Task : t # n + 1 => row'[t] = row[t]
        /\ n' = n + 1
    BY <1>3, InsertType DEF RetryStep
  <2>2. \A t \in Task : Inserted(t) => Inserted(t)' /\ t # n + 1
    BY <2>1 DEF TypeOK, Task
  <2>3. \A t \in Task : Inserted(t)' => Inserted(t) \/ t = n + 1
    BY <2>1 DEF TypeOK, Task
  <2>4. \A t \in Task : HasRetry(t) => HasRetry(t)'
    BY <2>1, <2>2 DEF HasRetry
  <2>5. RetryRow(p).retry_of = p /\ RetryRow(p).chat_input = row[p].chat_input
    BY DEF RetryRow
  <2>6. Inserted(p) /\ p < n + 1
    BY <1>3 DEF RetryStep, FailureHandledOnce, InFlight, TypeOK, Task, Inserted
  <2>7. ~ HasRetry(p)
    <3>1. CASE status[p] \in InFlight
      <4>1. p # NULL /\ status[p] # "failed"
        BY <3>1 DEF Task, NULL, InFlight
      <4>2. QED
        BY <4>1 DEF HasRetry, RetryLineage
    <3>2. CASE \E h \in Handler : p \in batch[h]
      BY <3>2 DEF FailureHandledOnce
    <3>3. QED
      BY <1>3, <3>1, <3>2 DEF RetryStep
  <2>8. HasRetry(p)'
    <3>1. status'[n + 1] # "absent"
      BY <1>3 DEF RetryStep
    <3>2. QED
      BY <2>1, <2>5, <3>1 DEF HasRetry, Inserted
  <2>9. row[p].chat_input <= n + 1 /\ row[p].chat_input \in Nat
    BY <2>6 DEF TurnIsOneChain, TypeOK, Row, Task
  <2>10. \A t \in Task : Inserted(t)' => row'[t].chat_input <= t
    BY <2>1, <2>3, <2>5, <2>9 DEF TurnIsOneChain
  <2>11. ASSUME NEW t \in Task, Inserted(t), row[t].chat_input # NULL,
                row[t].chat_input = row[p].chat_input
         PROVE  HasRetry(t)'
    BY <2>4, <2>6, <2>7, <2>8, <2>11 DEF TurnIsOneChain
  <2>12. QED
    BY <2>1, <2>3, <2>4, <2>5, <2>10, <2>11 DEF TurnIsOneChain
<1>4. QED
  BY <1>1, <1>2, <1>3, ClaimAdvances DEF TableStep, UpdateStep, FreshStep

TurnInv == LineageInv /\ TurnIsOneChain

\* Every step keeps the rows of a turn one chain.
LEMMA TurnInvInductive == TurnInv /\ [Next]_vars => TurnInv'
<1> SUFFICES ASSUME TurnInv, [Next]_vars PROVE TurnInv'
  OBVIOUS
<1>1. TypeOK /\ RetryLineage /\ FailureHandledOnce /\ TurnIsOneChain /\ LineageInv
  BY DEF TurnInv, LineageInv
<1>2. TypeOK' /\ TableStep /\ LineageInv'
  BY <1>1, StepShape, LineageInductive
<1>3. QED
  BY <1>1, <1>2, TurnInductive DEF TurnInv

\* The inductive invariant behind TurnsAnsweredOnce.
LEMMA SpecTurn == Spec => []TurnInv
<1>1. Init => TurnInv
  BY InitLineage DEF Init, TurnInv, TurnIsOneChain, Inserted
<1>2. QED
  BY <1>1, TurnInvInductive, PTL DEF Spec

\* A direct chat turn is never worked on by two live rows and never answered
\* twice, through any chain of retries (CreateRetryTask, chat_input_task_id).
THEOREM TurnsAnsweredOnce == Spec => []TurnAnsweredOnce
<1>1. TurnInv => TurnAnsweredOnce
  <2> SUFFICES ASSUME TurnInv,
                      NEW t \in Task, NEW u \in Task, t # u,
                      status[t] \in Cancellable \cup {"completed"},
                      status[u] \in Cancellable \cup {"completed"},
                      row[t].chat_input # NULL, row[t].chat_input = row[u].chat_input
               PROVE  FALSE
    BY DEF TurnAnsweredOnce
  <2>1. Inserted(t) /\ Inserted(u) /\ t # NULL /\ u # NULL
    BY DEF Inserted, Cancellable, InFlight, Task, NULL
  <2>2. HasRetry(t) \/ HasRetry(u)
    BY <2>1 DEF TurnInv, TurnIsOneChain
  <2>3. status[t] = "failed" \/ status[u] = "failed"
    BY <2>1, <2>2 DEF HasRetry, TurnInv, LineageInv, RetryLineage
  <2>4. QED
    BY <2>3 DEF Cancellable, InFlight
<1>2. QED
  BY <1>1, SpecTurn, PTL

-----------------------------------------------------------------------------
\* The agent's status.

\* A reconcile sets the status from the runs; every other step leaves it alone
\* and, while no server stops, keeps the reconciles that are owed.
StatusStep ==
    \/ reconciling \subseteq reconciling' /\ UNCHANGED agentStatus
    \/ \E a \in Agent : ReconcileAgentStatus(a)

\* Without a server stop every step is a status step.
LEMMA StatusSteps ==
    ASSUME ~ MayRestart, [Next]_vars
    PROVE  StatusStep
<1> USE DEF StatusStep, Reconciles
<1>1. CASE UNCHANGED vars
  BY <1>1 DEF vars
<1>2. CASE Enqueues
  <2>1. ASSUME NEW r, EnqueueRow(r) PROVE StatusStep
    BY <2>1 DEF EnqueueRow
  <2>2. ASSUME NEW i \in Issue, NEW a \in Agent, NEW p \in IssuePriority, RerunIssue(i, a, p)
        PROVE  StatusStep
    BY <2>2 DEF RerunIssue
  <2>3. ASSUME NEW i \in Issue, NEW a \in Agent, NEW p \in IssuePriority,
               NEW primary \in 0..MaxTasks, EnqueueDeferredAssigneeFallback(i, a, p, primary)
        PROVE  StatusStep
    BY <2>3 DEF EnqueueDeferredAssigneeFallback
  <2>4. QED
    BY <1>2, <2>1, <2>2, <2>3, Zenon DEF Enqueues, EnqueueIssueTask, EnqueueChatTask,
       EnqueueQuickCreateTask, EnqueueRunOnlyTask
<1>3. CASE Claims
  BY <1>3 DEF Claims, PromoteDueDeferredTasks, ClaimTask, ReclaimStaleDispatchedTask,
     RequeueTaskAfterClaimFailure
<1>4. CASE Reports
  BY <1>4 DEF Reports, ExtendTaskPrepareLease, MarkTaskWaitingLocalDirectory, StartTask,
     FailTaskAndRetry, CompleteTask, FailTask, CancelDeferredEscalationsForIssueAgent
<1>5. CASE Cancels
  BY <1>5 DEF Cancels, CancelTask, CancelTasksForScope, CancelTasksForAgent,
     CancelTasksByTriggerComment, CancelRows
<1>6. CASE Sweeps
  BY <1>6 DEF Sweeps, SweepStaleTasks, SweepStaleRuntimes, SweepExpiredQueuedTasks,
     RecoverOrphanedTasks, FailBatch, HandleFailedTask
<1>7. CASE Environment
  BY <1>7 DEF Environment, TimerElapses, DaemonDeregister, RuntimeOnline, ServerRestart
<1>8. QED
  BY <1>1, <1>2, <1>3, <1>4, <1>5, <1>6, <1>7 DEF Next

\* An agent gains a run by a claim alone, and the claim owes it a reconcile.
LEMMA BusyInductive ==
    ASSUME TypeOK, FailureHandledOnce, BusyAgentShownWorking, TableStep, StatusStep
    PROVE  BusyAgentShownWorking'
<1> SUFFICES ASSUME NEW a \in Agent, Runs(a)' # {}, a \notin reconciling'
             PROVE  agentStatus'[a] = "working"
  BY DEF BusyAgentShownWorking
<1>1. ASSUME NEW b \in Agent, ReconcileAgentStatus(b) PROVE agentStatus'[a] = "working"
  <2>1. Runs(a)' = Runs(a)
    BY <1>1 DEF ReconcileAgentStatus, Runs
  <2>2. CASE a = b
    BY <1>1, <2>1, <2>2 DEF ReconcileAgentStatus, TypeOK
  <2>3. CASE a # b
    BY <1>1, <2>1, <2>3 DEF ReconcileAgentStatus, TypeOK, BusyAgentShownWorking
  <2>4. QED
    BY <2>2, <2>3
<1>2. ASSUME reconciling \subseteq reconciling', UNCHANGED agentStatus, Runs(a) # {}
      PROVE  agentStatus'[a] = "working"
  BY <1>2 DEF BusyAgentShownWorking
<1>3. CASE UpdateStep \/ FreshStep \/ \E t \in Task : RetryStep(t)
  <2>1. Runs(a)' \subseteq Runs(a)
    BY <1>3, NonClaimStep DEF Runs
  <2>2. QED
    BY <1>1, <1>2, <2>1 DEF StatusStep
<1>4. ASSUME NEW b \in Agent, NEW t \in Task, ClaimTask(b, t)
      PROVE  agentStatus'[a] = "working"
  <2>1. /\ row' = row /\ \A u \in Task : u # t => status'[u] = status[u]
        /\ row[t].agent = b /\ b \in reconciling'
    BY <1>4 DEF ClaimTask, Claimable, Reconciles, TypeOK
  <2>2. Runs(a)' \subseteq Runs(a)
    BY <2>1 DEF Runs
  <2>3. QED
    BY <1>1, <1>2, <2>2 DEF StatusStep
<1>5. QED
  BY <1>3, <1>4 DEF TableStep

\* While no server stops between a commit and its reconcile, an agent with a
\* claimed task is shown as working once its reconciles have run, whatever is
\* claimed, swept, cancelled or acknowledged at the same time (ReconcileAgentStatus).
THEOREM BusyAgentsShown == ASSUME ~ MayRestart PROVE Spec => []BusyAgentShownWorking
<1>1. Init => BusyAgentShownWorking
  BY DEF Init, BusyAgentShownWorking, Runs, InFlight
<1>2. LineageInv /\ BusyAgentShownWorking /\ [Next]_vars => BusyAgentShownWorking'
  BY StepShape, StatusSteps, BusyInductive DEF LineageInv
<1>3. QED
  BY <1>1, <1>2, SpecLineage, PTL DEF Spec

\* The step cancels no claimed fallback without a reconcile for its agent, as
\* StartTask and an acknowledging comment do (cancelDeferredEscalationsForTask).
FallbacksSettled ==
    \A u \in Task :
        (status[u] \in InFlight /\ row[u].escalation_for # NULL /\ status'[u] = "cancelled")
        => row[u].agent \in reconciling'

\* A run that ends owes its agent a reconcile, now or once its batch is handled,
\* and a batch lets go of a row only for a reconcile.
SettledStep ==
    /\ \A t \in Task : status[t] \in InFlight /\ status'[t] \notin InFlight =>
          row[t].agent \in reconciling' \/ \E h \in Handler : t \in batch'[h]
    /\ \A h \in Handler : \A t \in batch[h] : t \in batch'[h] \/ row[t].agent \in reconciling'

\* What an acknowledgement cancels are fallbacks.
LEMMA FallbacksEscalate ==
    /\ \A p \in Task : \A u \in FallbacksForTask(p) : row[u].escalation_for # NULL
    /\ \A i, a : \A u \in FallbacksForIssueAgent(i, a) : row[u].escalation_for # NULL
    /\ \A t, c : \A u \in Acknowledged(t, c) : row[u].escalation_for # NULL
<1>1. \A P \in SUBSET Task : \A u \in FallbacksFor(P) : row[u].escalation_for # NULL
  BY DEF FallbacksFor, Task, NULL
<1>2. /\ \A p \in Task : {p} \in SUBSET Task
      /\ \A i, a : {p \in Task : status[p] # "absent" /\ row[p].scope = i /\ row[p].agent = a}
                     \in SUBSET Task
  OBVIOUS
<1>3. QED
  BY <1>1, <1>2 DEF FallbacksForTask, FallbacksForIssueAgent, Acknowledged

\* Without a server stop every step settles the runs it ends.
LEMMA SettledSteps ==
    ASSUME TypeOK, FailureHandledOnce, FallbacksSettled, ~ MayRestart, [Next]_vars
    PROVE  SettledStep
<1> USE DEF SettledStep, Reconciles
<1>1. CASE UNCHANGED vars
  BY <1>1 DEF vars
<1>2. CASE Enqueues
  <2>1. ASSUME NEW r \in Row, EnqueueRow(r) PROVE SettledStep
    <3>1. n + 1 \in Task /\ status[n + 1] = "absent"
      BY <2>1, InsertType DEF EnqueueRow, TypeOK, Inserted, Task
    <3>2. QED
      BY <2>1, <3>1 DEF EnqueueRow, TypeOK, InFlight
  <2>2. ASSUME NEW i \in Issue, NEW a \in Agent, NEW p \in IssuePriority, RerunIssue(i, a, p)
        PROVE  SettledStep
    <3> DEFINE old == {t \in Live : row[t].scope = i /\ row[t].agent = a}
    <3>1. \A t \in old : row[t].agent \in reconciling'
      BY <2>2 DEF RerunIssue
    <3>2. \A t \in Task : status[t] \in InFlight /\ status'[t] \notin InFlight => t \in old
      <4>1. \A t \in Task : Set(status, old, "cancelled")[t] =
                                IF t \in old THEN "cancelled" ELSE status[t]
        BY DEF Set
      <4>2. CASE status' = Set(status, old, "cancelled")
        BY <4>1, <4>2
      <4>3. CASE /\ Insert(FreshRow(a, i, p))
                 /\ status' = [Set(status, old, "cancelled") EXCEPT ![n + 1] = "queued"]
        <5>1. FreshRow(a, i, p) \in Row
          BY FreshRowType, ConstantsAssumption DEF Scope
        <5>2. n + 1 \in Task /\ status[n + 1] = "absent"
          BY <4>3, <5>1, InsertType DEF TypeOK, Inserted, Task
        <5>3. \A t \in Task \ {n + 1} : status'[t] = Set(status, old, "cancelled")[t]
          BY <4>3 DEF Set
        <5>4. QED
          BY <4>1, <5>2, <5>3 DEF InFlight
      <4>4. QED
        BY <2>2, <4>2, <4>3 DEF RerunIssue
    <3>3. UNCHANGED batch
      BY <2>2 DEF RerunIssue
    <3>4. QED
      BY <3>1, <3>2, <3>3
  <2>3. ASSUME NEW i \in Issue, NEW a \in Agent, NEW p \in IssuePriority,
               NEW primary \in 0..MaxTasks, EnqueueDeferredAssigneeFallback(i, a, p, primary)
        PROVE  SettledStep
    <3>1. NewRow(a, i, p, primary, NULL) \in Row
      BY NewRowType, ConstantsAssumption DEF Scope, NULL
    <3>2. n + 1 \in Task /\ status[n + 1] = "absent"
      BY <2>3, <3>1, InsertType DEF EnqueueDeferredAssigneeFallback, TypeOK, Inserted, Task
    <3>3. QED
      BY <2>3, <3>2 DEF EnqueueDeferredAssigneeFallback, TypeOK, InFlight
  <2>4. ASSUME NEW i \in Issue, NEW a \in Agent, NEW p \in IssuePriority,
               EnqueueIssueTask(i, a, p)
        PROVE  SettledStep
    <3>1. FreshRow(a, i, p) \in Row
      BY FreshRowType, ConstantsAssumption DEF Scope
    <3>2. QED
      BY <2>1, <2>4, <3>1 DEF EnqueueIssueTask
  <2>5. ASSUME NEW c \in Chat, NEW d \in BOOLEAN, EnqueueChatTask(c, d)
        PROVE  SettledStep
    <3>1. n < MaxTasks
      BY <2>5 DEF EnqueueChatTask, EnqueueRow, Insert
    <3>2. (IF d THEN n + 1 ELSE NULL) \in 0..MaxTasks
      BY <3>1, ConstantsAssumption DEF TypeOK, NULL
    <3>3. NewRow(ChatAgent[c], c, 2, NULL, IF d THEN n + 1 ELSE NULL) \in Row
      BY <3>2, NewRowType, ConstantsAssumption DEF Scope, NULL
    <3>4. QED
      BY <2>1, <2>5, <3>3 DEF EnqueueChatTask
  <2>6. ASSUME NEW a \in Agent, EnqueueQuickCreateTask(a) \/ EnqueueRunOnlyTask(a)
        PROVE  SettledStep
    <3>1. FreshRow(a, QuickCreate, 3) \in Row /\ FreshRow(a, RunOnly, 0) \in Row
      BY FreshRowType DEF Scope
    <3>2. QED
      BY <2>1, <2>6, <3>1 DEF EnqueueQuickCreateTask, EnqueueRunOnlyTask
  <2>7. QED
    BY <1>2, <2>2, <2>3, <2>4, <2>5, <2>6 DEF Enqueues
<1>3. CASE Claims
  <2>1. ASSUME NEW r \in Runtime, PromoteDueDeferredTasks(r) PROVE SettledStep
    BY <2>1 DEF PromoteDueDeferredTasks, Set, Due, InFlight
  <2>2. ASSUME NEW a \in Agent, NEW t \in Task, ClaimTask(a, t) PROVE SettledStep
    BY <2>2 DEF ClaimTask, InFlight, TypeOK
  <2>3. ASSUME NEW t \in Task, ReclaimStaleDispatchedTask(t) PROVE SettledStep
    BY <2>3 DEF ReclaimStaleDispatchedTask
  <2>4. ASSUME NEW t \in Task, RequeueTaskAfterClaimFailure(t) PROVE SettledStep
    BY <2>4 DEF RequeueTaskAfterClaimFailure, TypeOK
  <2>5. QED
    BY <1>3, <2>1, <2>2, <2>3, <2>4 DEF Claims
<1>4. CASE Reports
  <2>1. ASSUME NEW t \in Task, ExtendTaskPrepareLease(t) PROVE SettledStep
    BY <2>1 DEF ExtendTaskPrepareLease
  <2>2. ASSUME NEW t \in Task, MarkTaskWaitingLocalDirectory(t) PROVE SettledStep
    BY <2>2 DEF MarkTaskWaitingLocalDirectory, InFlight, TypeOK
  <2>3. ASSUME NEW t \in Task, StartTask(t) PROVE SettledStep
    BY <2>3, FallbacksEscalate DEF FallbacksSettled, StartTask, Set, InFlight, TypeOK
  <2>4. ASSUME NEW t \in Task, FailTaskAndRetry(t) PROVE SettledStep
    <3>1. RetryRow(t) \in Row /\ row[t].agent \in reconciling' /\ UNCHANGED batch
      BY <2>4, RetryRowType DEF FailTaskAndRetry, TypeOK, Inserted, InFlight
    <3>2. n + 1 \in Task /\ status[n + 1] = "absent"
      BY <2>4, <3>1, InsertType DEF FailTaskAndRetry, TypeOK, Inserted, Task
    <3>3. \A u \in Task \ {t, n + 1} : status'[u] = status[u]
      BY <2>4 DEF FailTaskAndRetry, TypeOK
    <3>4. QED
      BY <3>1, <3>2, <3>3 DEF InFlight
  <2>5. ASSUME NEW t \in Task, NEW c \in BOOLEAN, CompleteTask(t, c) PROVE SettledStep
    BY <2>5, FallbacksEscalate DEF FallbacksSettled, CompleteTask, Set, TypeOK
  <2>6. ASSUME NEW t \in Task, NEW r \in {"infra", "other"}, NEW c \in BOOLEAN, FailTask(t, r, c)
        PROVE  SettledStep
    BY <2>6, FallbacksEscalate DEF FallbacksSettled, FailTask, Set, TypeOK
  <2>7. ASSUME NEW i \in Issue, NEW a \in Agent, CancelDeferredEscalationsForIssueAgent(i, a)
        PROVE  SettledStep
    BY <2>7, FallbacksEscalate DEF FallbacksSettled, CancelDeferredEscalationsForIssueAgent, Set
  <2>8. QED
    BY <1>4, <2>1, <2>2, <2>3, <2>4, <2>5, <2>6, <2>7 DEF Reports
<1>5. CASE Cancels
  <2>1. ASSUME NEW S \in SUBSET Live, CancelRows(S) PROVE SettledStep
    BY <2>1 DEF CancelRows, Set
  <2>2. QED
    BY <1>5, <2>1 DEF Cancels, CancelTask, CancelTasksForScope, CancelTasksForAgent,
       CancelTasksByTriggerComment
<1>6. CASE Sweeps
  <2>1. ASSUME NEW h \in Handler, NEW S, NEW r, FailBatch(h, S, r) PROVE SettledStep
    <3>1. batch'[h] = S /\ \A g \in Handler \ {h} : batch'[g] = batch[g]
      BY <2>1 DEF FailBatch, TypeOK
    <3>2. \A t \in Task : t \notin S => status'[t] = status[t]
      BY <2>1 DEF FailBatch, Set
    <3>3. batch[h] = {}
      BY <2>1 DEF FailBatch
    <3>4. QED
      BY <3>1, <3>2, <3>3
  <2>2. ASSUME NEW h \in Handler, NEW R \in SUBSET online, SweepStaleRuntimes(h, R)
        PROVE  SettledStep
    BY <2>1, <2>2 DEF SweepStaleRuntimes
  <2>3. ASSUME NEW h \in Handler, NEW t \in Task, HandleFailedTask(h, t) PROVE SettledStep
    <3>1. row[t].agent \in reconciling' /\ batch' = [batch EXCEPT ![h] = @ \ {t}]
      BY <2>3 DEF HandleFailedTask
    <3>2. \A g \in Handler : \A u \in batch[g] : u \in batch'[g] \/ u = t
      BY <3>1 DEF TypeOK
    <3>3. \A u \in Task : status[u] \in InFlight => status'[u] = status[u]
      <4>1. CASE UNCHANGED status
        BY <4>1
      <4>2. CASE /\ RetryEligible(t, reason[t])
                 /\ Insert(RetryRow(t))
                 /\ status' = [status EXCEPT ![n + 1] = "queued"]
        <5>1. RetryRow(t) \in Row
          BY <2>3, <4>2, RetryRowType DEF HandleFailedTask, FailureHandledOnce, TypeOK, Inserted
        <5>2. n + 1 \in Task /\ status[n + 1] = "absent"
          BY <4>2, <5>1, InsertType DEF TypeOK, Inserted, Task
        <5>3. QED
          BY <4>2, <5>2 DEF InFlight
      <4>3. QED
        BY <2>3, <4>1, <4>2 DEF HandleFailedTask
    <3>4. QED
      BY <3>1, <3>2, <3>3
  <2>4. ASSUME NEW a \in Agent, ReconcileAgentStatus(a) PROVE SettledStep
    BY <2>4 DEF ReconcileAgentStatus
  <2>5. QED
    BY <1>6, <2>1, <2>2, <2>3, <2>4
    DEF Sweeps, SweepStaleTasks, SweepExpiredQueuedTasks, RecoverOrphanedTasks
<1>7. CASE Environment
  BY <1>7 DEF Environment, TimerElapses, DaemonDeregister, RuntimeOnline, ServerRestart
<1>8. QED
  BY <1>1, <1>2, <1>3, <1>4, <1>5, <1>6, <1>7 DEF Next

\* The columns of a row never change once it is inserted.
LEMMA ColumnsKept ==
    ASSUME TypeOK, TableStep
    PROVE  \A t \in Task : status[t] # "absent" => row'[t] = row[t]
<1>1. ASSUME NEW r \in Row, Insert(r)
      PROVE  \A t \in Task : status[t] # "absent" => row'[t] = row[t]
  BY <1>1, InsertType DEF TypeOK, Inserted, Task
<1>2. QED
  BY <1>1, ClaimAdvances DEF TableStep, UpdateStep, FreshStep, RetryStep

\* An agent loses its last run only to a step that owes it a reconcile.
LEMMA IdleInductive ==
    ASSUME TypeOK, FailureHandledOnce, IdleAgentShownIdle, TableStep, StatusStep, SettledStep
    PROVE  IdleAgentShownIdle'
<1> SUFFICES ASSUME NEW a \in Agent, Runs(a)' = {}, a \notin reconciling',
                    \A h \in Handler : \A t \in batch'[h] : row'[t].agent # a
             PROVE  agentStatus'[a] = "idle"
  BY DEF IdleAgentShownIdle
<1>1. ASSUME NEW b \in Agent, ReconcileAgentStatus(b) PROVE agentStatus'[a] = "idle"
  <2>1. Runs(a) = {} /\ batch' = batch /\ row' = row
    BY <1>1 DEF ReconcileAgentStatus, Runs
  <2>2. CASE a = b
    BY <1>1, <2>1, <2>2 DEF ReconcileAgentStatus, TypeOK
  <2>3. CASE a # b
    BY <1>1, <2>1, <2>3 DEF ReconcileAgentStatus, TypeOK, IdleAgentShownIdle
  <2>4. QED
    BY <2>2, <2>3
<1>2. ASSUME reconciling \subseteq reconciling', UNCHANGED agentStatus
      PROVE  agentStatus'[a] = "idle"
  <2>1. \A t \in Task : status[t] # "absent" => row'[t] = row[t]
    BY ColumnsKept
  <2>2. ASSUME NEW t \in Runs(a) PROVE FALSE
    <3>1. t \in Task /\ status[t] \in InFlight /\ row[t].agent = a /\ row'[t].agent = a
      BY <2>1 DEF Runs, InFlight
    <3>2. status'[t] \notin InFlight
      BY <3>1 DEF Runs
    <3>3. QED
      BY <3>1, <3>2 DEF SettledStep
  <2>3. ASSUME NEW h \in Handler, NEW t \in batch[h] PROVE row[t].agent # a
    <3>1. t \in Task /\ row'[t] = row[t]
      BY <2>1 DEF FailureHandledOnce, TypeOK
    <3>2. QED
      BY <3>1 DEF SettledStep
  <2>4. QED
    BY <1>2, <2>2, <2>3 DEF IdleAgentShownIdle
<1>3. QED
  BY <1>1, <1>2 DEF StatusStep

\* While no server stops and no claimed fallback is cancelled by an acknowledgement,
\* an agent without a claimed task is shown as idle once its reconciles and the
\* failed batches that hold rows of it are done: every other path that ends a run,
\* one by one or in bulk, owes the reconcile (CancelTasksForIssue, #1587).
THEOREM IdleAgentsShown ==
    ASSUME ~ MayRestart
    PROVE  Spec /\ [][FallbacksSettled]_vars => []IdleAgentShownIdle
<1>1. Init => IdleAgentShownIdle
  BY DEF Init, IdleAgentShownIdle
<1>2. [FallbacksSettled]_vars => FallbacksSettled
  BY DEF vars, FallbacksSettled, InFlight
<1>3. LineageInv /\ [FallbacksSettled]_vars /\ IdleAgentShownIdle /\ [Next]_vars
      => IdleAgentShownIdle'
  BY <1>2, StepShape, StatusSteps, SettledSteps, IdleInductive DEF LineageInv
<1>4. QED
  BY <1>1, <1>3, SpecLineage, PTL DEF Spec

\* With a single agent no comment is routed away from an issue's assignee, so no
\* row acknowledges for another.
SingleAgent == \A a, b \in Agent : a = b

NothingEscalates == \A t \in Task : Inserted(t) => row[t].escalation_for = NULL

PlainInsert ==
    \/ UNCHANGED <<n, row>>
    \/ \E r \in Row : Insert(r) /\ r.escalation_for = NULL

\* A fallback is inserted with a primary only when the primary has another agent.
LEMMA PlainInserts ==
    ASSUME SingleAgent, TypeOK, FailureHandledOnce, [Next]_vars
    PROVE  PlainInsert
<1> USE DEF PlainInsert
<1>1. CASE UNCHANGED vars
  BY <1>1 DEF vars
<1>2. CASE Enqueues
  <2>1. ASSUME NEW i \in Issue, NEW a \in Agent, NEW p \in IssuePriority,
               EnqueueIssueTask(i, a, p) \/ RerunIssue(i, a, p)
        PROVE  PlainInsert
    <3>1. FreshRow(a, i, p) \in Row /\ FreshRow(a, i, p).escalation_for = NULL
      BY FreshRowType, ConstantsAssumption DEF Scope, FreshRow, NewRow
    <3>2. QED
      BY <2>1, <3>1 DEF EnqueueIssueTask, EnqueueRow, RerunIssue
  <2>2. ASSUME NEW i \in Issue, NEW a \in Agent, NEW pr \in IssuePriority,
               NEW p \in 0..MaxTasks, EnqueueDeferredAssigneeFallback(i, a, pr, p)
        PROVE  PlainInsert
    <3>1. NewRow(a, i, pr, p, NULL) \in Row /\ NewRow(a, i, pr, p, NULL).escalation_for = p
      BY NewRowType, ConstantsAssumption DEF Scope, NULL, NewRow
    <3>2. p = NULL
      BY <2>2, AgentOfRow DEF EnqueueDeferredAssigneeFallback, RoutedPrimary, SingleAgent
    <3>3. QED
      BY <2>2, <3>1, <3>2 DEF EnqueueDeferredAssigneeFallback
  <2>3. ASSUME NEW c \in Chat, NEW d \in BOOLEAN, EnqueueChatTask(c, d)
        PROVE  PlainInsert
    <3> DEFINE r == NewRow(ChatAgent[c], c, 2, NULL, IF d THEN n + 1 ELSE NULL)
    <3>1. n < MaxTasks
      BY <2>3 DEF EnqueueChatTask, EnqueueRow, Insert
    <3>2. (IF d THEN n + 1 ELSE NULL) \in 0..MaxTasks
      BY <3>1, ConstantsAssumption DEF TypeOK, NULL
    <3>3. r \in Row /\ r.escalation_for = NULL
      BY <3>2, NewRowType, ConstantsAssumption DEF Scope, NULL, NewRow
    <3>4. QED
      BY <2>3, <3>3 DEF EnqueueChatTask, EnqueueRow
  <2>4. ASSUME NEW a \in Agent, EnqueueQuickCreateTask(a) \/ EnqueueRunOnlyTask(a)
        PROVE  PlainInsert
    <3>1. FreshRow(a, QuickCreate, 3) \in Row /\ FreshRow(a, RunOnly, 0) \in Row
      BY FreshRowType DEF Scope
    <3>2. /\ FreshRow(a, QuickCreate, 3).escalation_for = NULL
          /\ FreshRow(a, RunOnly, 0).escalation_for = NULL
      BY DEF FreshRow, NewRow
    <3>3. QED
      BY <2>4, <3>1, <3>2 DEF EnqueueQuickCreateTask, EnqueueRunOnlyTask, EnqueueRow
  <2>5. QED
    BY <1>2, <2>1, <2>2, <2>3, <2>4 DEF Enqueues
<1>3. ASSUME NEW t \in Task, RetryRow(t) \in Row, Insert(RetryRow(t)) PROVE PlainInsert
  BY <1>3 DEF RetryRow
<1>4. CASE Claims
  BY <1>4 DEF Claims, PromoteDueDeferredTasks, ClaimTask, ReclaimStaleDispatchedTask,
     RequeueTaskAfterClaimFailure
<1>5. CASE Reports
  <2>1. ASSUME NEW t \in Task, FailTaskAndRetry(t) PROVE PlainInsert
    <3>1. RetryRow(t) \in Row
      BY <2>1, RetryRowType DEF FailTaskAndRetry, TypeOK, Inserted, InFlight
    <3>2. QED
      BY <1>3, <2>1, <3>1 DEF FailTaskAndRetry
  <2>2. QED
    BY <1>5, <2>1 DEF Reports, ExtendTaskPrepareLease, MarkTaskWaitingLocalDirectory,
       StartTask, CompleteTask, FailTask, CancelDeferredEscalationsForIssueAgent
<1>6. CASE Cancels
  BY <1>6 DEF Cancels, CancelTask, CancelTasksForScope, CancelTasksForAgent,
     CancelTasksByTriggerComment, CancelRows
<1>7. CASE Sweeps
  <2>1. ASSUME NEW h \in Handler, NEW t \in Task, HandleFailedTask(h, t) PROVE PlainInsert
    <3>1. CASE RetryEligible(t, reason[t]) /\ Insert(RetryRow(t))
      <4>1. RetryRow(t) \in Row
        BY <2>1, <3>1, RetryRowType DEF HandleFailedTask, FailureHandledOnce, TypeOK, Inserted
      <4>2. QED
        BY <1>3, <3>1, <4>1
    <3>2. CASE UNCHANGED <<n, row>>
      BY <3>2
    <3>3. QED
      BY <2>1, <3>1, <3>2 DEF HandleFailedTask
  <2>2. QED
    BY <1>7, <2>1 DEF Sweeps, SweepStaleTasks, SweepStaleRuntimes, SweepExpiredQueuedTasks,
       RecoverOrphanedTasks, FailBatch, ReconcileAgentStatus
<1>8. CASE Environment
  BY <1>8 DEF Environment, TimerElapses, DaemonDeregister, RuntimeOnline, ServerRestart
<1>9. QED
  BY <1>1, <1>2, <1>4, <1>5, <1>6, <1>7, <1>8 DEF Next

\* The rows stay free of primaries.
LEMMA NothingEscalatesInductive ==
    ASSUME TypeOK, TypeOK', NothingEscalates, PlainInsert
    PROVE  NothingEscalates'
<1>1. CASE UNCHANGED <<n, row>>
  BY <1>1 DEF NothingEscalates, TypeOK
<1>2. ASSUME NEW r \in Row, Insert(r), r.escalation_for = NULL PROVE NothingEscalates'
  <2>1. n' = n + 1 /\ row'[n + 1] = r /\ \A t \in Task : t # n + 1 => row'[t] = row[t]
    BY <1>2, InsertType
  <2>2. \A t \in Task : Inserted(t)' => Inserted(t) \/ t = n + 1
    BY <2>1 DEF TypeOK, Task
  <2>3. QED
    BY <1>2, <2>1, <2>2 DEF NothingEscalates, TypeOK
<1>3. QED
  BY <1>1, <1>2 DEF PlainInsert

\* In a workspace with one agent the hypothesis of IdleAgentsShown holds of
\* every behaviour: the agent returns to idle whatever ends its runs.
THEOREM SingleAgentShown ==
    ASSUME ~ MayRestart, SingleAgent
    PROVE  Spec => []IdleAgentShownIdle
<1>1. Init => NothingEscalates
  BY DEF Init, NothingEscalates, Inserted
<1>2. LineageInv /\ LineageInv' /\ NothingEscalates /\ [Next]_vars => NothingEscalates'
  BY PlainInserts, NothingEscalatesInductive DEF LineageInv
<1>3. NothingEscalates => FallbacksSettled
  BY DEF NothingEscalates, FallbacksSettled, Inserted, InFlight
<1>4. Spec => [][FallbacksSettled]_vars
  BY <1>1, <1>2, <1>3, SpecLineage, PTL DEF Spec
<1>5. QED
  BY <1>4, IdleAgentsShown, PTL
=============================================================================
