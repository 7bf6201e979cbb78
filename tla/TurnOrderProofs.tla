--------------------------- MODULE TurnOrderProofs ---------------------------
(***************************************************************************)
(* The order of chat turns in TaskQueue, for every number of rows, agents  *)
(* and sessions, when daemons report the failures and no sweeper does.     *)
(***************************************************************************)
EXTENDS TaskQueueProofs

\* A chat row belongs to its session's agent and is never deferred; a fresh turn
\* has priority 2 and owns its input or has none, a retry is raised to 3.
ChatShape ==
    \A t \in Task : Inserted(t) /\ row[t].scope \in Chat =>
        /\ row[t].agent = ChatAgent[row[t].scope]
        /\ status[t] # "deferred"
        /\ IF row[t].retry_of = NULL
           THEN row[t].priority = 2 /\ row[t].chat_input \in {NULL, t}
           ELSE row[t].priority = 3

OrderInv == TurnInv /\ ChatShape /\ ChatTurnsInOrder

-----------------------------------------------------------------------------
\* What a step does to chat turns when there is no sweeper.

\* A row completes or fails in flight; only fallbacks are deferred; a fresh chat
\* row is an EnqueueChatTask's.
TurnStep ==
    \A t \in Task :
        /\ status'[t] \in {"completed", "failed"} =>
              status[t] \in InFlight \cup {"completed", "failed"}
        /\ status'[t] = "deferred" => status[t] = "deferred" \/ row'[t].scope \in Issue
        /\ (/\ status[t] = "absent" /\ status'[t] # "absent"
            /\ row'[t].scope \in Chat /\ row'[t].retry_of = NULL)
           => /\ row'[t].agent = ChatAgent[row'[t].scope]
              /\ row'[t].priority = 2 /\ row'[t].chat_input \in {NULL, t}

\* A step that inserts nothing is a turn step if what it ends was in flight.
LEMMA UpdateTurnStep ==
    ASSUME UNCHANGED row,
           \A t \in Task :
              \/ status'[t] = status[t]
              \/ /\ status[t] # "absent"
                 /\ status'[t] # "deferred"
                 /\ status'[t] \in {"completed", "failed"} => status[t] \in InFlight
    PROVE  TurnStep
BY DEF TurnStep

\* A fresh chat row takes its agent and its input from EnqueueChatTask.
LEMMA EnqueuesTurnStep == TypeOK /\ Enqueues => TurnStep
<1> SUFFICES ASSUME TypeOK, Enqueues PROVE TurnStep
  OBVIOUS
<1>1. ASSUME NEW r \in Row, EnqueueRow(r),
             r.scope \in Chat => /\ r.agent = ChatAgent[r.scope]
                                 /\ r.priority = 2 /\ r.chat_input \in {NULL, n + 1}
      PROVE  TurnStep
  <2>1. /\ n + 1 \in Task /\ row'[n + 1] = r
        /\ \A t \in Task : t # n + 1 => row'[t] = row[t] /\ status'[t] = status[t]
        /\ status'[n + 1] = "queued"
    BY <1>1, InsertType DEF EnqueueRow, TypeOK
  <2>2. QED
    BY <1>1, <2>1 DEF TurnStep
<1>2. ASSUME NEW i \in Issue, NEW a \in Agent, NEW p \in IssuePriority, EnqueueIssueTask(i, a, p)
      PROVE  TurnStep
  <2>1. FreshRow(a, i, p) \in Row /\ FreshRow(a, i, p).scope \notin Chat
    BY FreshRowType, ConstantsAssumption DEF Scope, FreshRow, NewRow
  <2>2. QED
    BY <1>1, <1>2, <2>1 DEF EnqueueIssueTask
<1>3. ASSUME NEW i \in Issue, NEW a \in Agent, NEW p \in IssuePriority, RerunIssue(i, a, p)
      PROVE  TurnStep
  <2> DEFINE old == {t \in Live : row[t].scope = i /\ row[t].agent = a}
  <2>1. FreshRow(a, i, p) \in Row /\ FreshRow(a, i, p).scope \notin Chat
    BY FreshRowType, ConstantsAssumption DEF Scope, FreshRow, NewRow
  <2>2. Set(status, old, "cancelled") \in [Task -> Status]
    BY DEF Set, TypeOK, Status, Terminal
  <2>3. \A t \in Task : Set(status, old, "cancelled")[t] \in {status[t], "cancelled"}
                        /\ (status[t] = "absent" => Set(status, old, "cancelled")[t] = "absent")
    BY DEF Set, Live, Cancellable, InFlight
  <2>4. CASE status' = Set(status, old, "cancelled") /\ UNCHANGED <<n, row>>
    BY <2>3, <2>4 DEF TurnStep
  <2>5. CASE /\ Insert(FreshRow(a, i, p))
             /\ status' = [Set(status, old, "cancelled") EXCEPT ![n + 1] = "queued"]
    <3>1. /\ n + 1 \in Task /\ row'[n + 1] = FreshRow(a, i, p)
          /\ \A t \in Task : t # n + 1 => row'[t] = row[t]
      BY <2>1, <2>5, InsertType
    <3>2. /\ status'[n + 1] = "queued"
          /\ \A t \in Task : t # n + 1 => status'[t] = Set(status, old, "cancelled")[t]
      BY <2>2, <2>5, <3>1
    <3>3. QED
      BY <2>1, <2>3, <3>1, <3>2 DEF TurnStep
  <2>6. QED
    BY <1>3, <2>4, <2>5 DEF RerunIssue
<1>4. ASSUME NEW i \in Issue, NEW a \in Agent, NEW p \in IssuePriority, NEW q \in 0..MaxTasks,
             EnqueueDeferredAssigneeFallback(i, a, p, q)
      PROVE  TurnStep
  <2>1. NewRow(a, i, p, q, NULL) \in Row /\ NewRow(a, i, p, q, NULL).scope = i
    BY NewRowType, ConstantsAssumption DEF Scope, NULL, NewRow
  <2>2. /\ n + 1 \in Task /\ row'[n + 1].scope = i
        /\ \A t \in Task : t # n + 1 => row'[t] = row[t]
    BY <1>4, <2>1, InsertType DEF EnqueueDeferredAssigneeFallback
  <2>3. /\ status'[n + 1] = "deferred" /\ i \notin Chat
        /\ \A t \in Task : t # n + 1 => status'[t] = status[t]
    BY <1>4, <2>2, ConstantsAssumption DEF EnqueueDeferredAssigneeFallback, TypeOK
  <2>4. QED
    BY <2>2, <2>3 DEF TurnStep
<1>5. ASSUME NEW c \in Chat, NEW d \in BOOLEAN, EnqueueChatTask(c, d) PROVE TurnStep
  <2> DEFINE r == NewRow(ChatAgent[c], c, 2, NULL, IF d THEN n + 1 ELSE NULL)
  <2>1. n < MaxTasks
    BY <1>5 DEF EnqueueChatTask, EnqueueRow, Insert
  <2>2. (IF d THEN n + 1 ELSE NULL) \in 0..MaxTasks
    BY <2>1, ConstantsAssumption DEF TypeOK, NULL
  <2>3. r \in Row
    BY <2>2, NewRowType, ConstantsAssumption DEF Scope, NULL
  <2>4. /\ r.scope = c /\ r.agent = ChatAgent[c] /\ r.priority = 2
        /\ r.chat_input \in {NULL, n + 1}
    BY DEF NewRow
  <2>5. EnqueueRow(r)
    BY <1>5 DEF EnqueueChatTask
  <2> HIDE DEF r
  <2>6. QED
    BY <1>1, <2>3, <2>4, <2>5
<1>6. ASSUME NEW a \in Agent, EnqueueQuickCreateTask(a) \/ EnqueueRunOnlyTask(a)
      PROVE  TurnStep
  <2>1. {QuickCreate, RunOnly} \subseteq Scope \ Chat
    BY ConstantsAssumption DEF Scope
  <2>2. FreshRow(a, QuickCreate, 3) \in Row /\ FreshRow(a, RunOnly, 0) \in Row
    BY <2>1, FreshRowType
  <2>3. FreshRow(a, QuickCreate, 3).scope \notin Chat /\ FreshRow(a, RunOnly, 0).scope \notin Chat
    BY <2>1 DEF FreshRow, NewRow
  <2>4. QED
    BY <1>1, <1>6, <2>2, <2>3 DEF EnqueueQuickCreateTask, EnqueueRunOnlyTask
<1>7. QED
  BY <1>2, <1>3, <1>4, <1>5, <1>6, Zenon DEF Enqueues

\* Reports complete and fail rows in flight only.
LEMMA ReportsTurnStep == TypeOK /\ Reports => TurnStep
<1> SUFFICES ASSUME TypeOK, Reports PROVE TurnStep
  OBVIOUS
<1> USE DEF Set, InFlight
<1>1. ASSUME NEW t \in Task, ExtendTaskPrepareLease(t) \/ MarkTaskWaitingLocalDirectory(t)
      PROVE  TurnStep
  BY <1>1, UpdateTurnStep DEF ExtendTaskPrepareLease, MarkTaskWaitingLocalDirectory, TypeOK
<1>2. ASSUME NEW t \in Task, StartTask(t) PROVE TurnStep
  <2>1. /\ row' = row
        /\ \A u \in Task : \/ status'[u] = status[u]
                           \/ status[u] # "absent" /\ status'[u] \in {"running", "cancelled"}
    BY <1>2, FallbacksCancellable DEF StartTask, TypeOK, Unstarted, Cancellable
  <2>2. QED
    BY <2>1, UpdateTurnStep
<1>3. ASSUME NEW t \in Task, FailTaskAndRetry(t) PROVE TurnStep
  <2>1. RetryRow(t) \in Row /\ t # n + 1
    BY <1>3, RetryRowType DEF FailTaskAndRetry, TypeOK, Inserted, Task
  <2>2. /\ n + 1 \in Task /\ row'[n + 1] = RetryRow(t)
        /\ \A u \in Task : u # n + 1 => row'[u] = row[u]
    BY <1>3, <2>1, InsertType DEF FailTaskAndRetry
  <2>3. /\ status'[n + 1] = "queued" /\ status'[t] = "failed" /\ status[t] \in InFlight
        /\ \A u \in Task \ {t, n + 1} : status'[u] = status[u]
    BY <1>3, <2>1, <2>2 DEF FailTaskAndRetry, TypeOK
  <2>4. RetryRow(t).retry_of # NULL
    BY DEF RetryRow, Task, NULL
  <2>5. QED
    BY <2>2, <2>3, <2>4 DEF TurnStep
<1>4. ASSUME NEW t \in Task, NEW c \in BOOLEAN, CompleteTask(t, c) PROVE TurnStep
  <2>1. /\ row' = row
        /\ \A u \in Task : \/ status'[u] = status[u]
                           \/ u = t /\ status[u] = "running" /\ status'[u] = "completed"
                           \/ status[u] # "absent" /\ status'[u] = "cancelled"
    BY <1>4, FallbacksCancellable DEF CompleteTask, TypeOK, Unstarted, Cancellable
  <2>2. QED
    BY <2>1, UpdateTurnStep
<1>5. ASSUME NEW t \in Task, NEW r \in {"infra", "other"}, NEW c \in BOOLEAN, FailTask(t, r, c)
      PROVE  TurnStep
  <2>1. /\ row' = row /\ status'[t] = "failed" /\ status[t] \in InFlight
        /\ \A u \in Task \ {t} : \/ status'[u] = status[u]
                                 \/ status[u] # "absent" /\ status'[u] = "cancelled"
    BY <1>5, FallbacksCancellable DEF FailTask, TypeOK, Unstarted, Cancellable
  <2>2. QED
    BY <2>1, UpdateTurnStep
<1>6. ASSUME NEW i \in Issue, NEW a \in Agent, CancelDeferredEscalationsForIssueAgent(i, a)
      PROVE  TurnStep
  <2>1. /\ row' = row
        /\ \A u \in Task : \/ status'[u] = status[u]
                           \/ status[u] # "absent" /\ status'[u] = "cancelled"
    BY <1>6, FallbacksCancellable
    DEF CancelDeferredEscalationsForIssueAgent, TypeOK, Unstarted, Cancellable
  <2>2. QED
    BY <2>1, UpdateTurnStep
<1>7. QED
  BY <1>1, <1>2, <1>3, <1>4, <1>5, <1>6 DEF Reports

\* Without handlers no sweeper runs, and every other step is a turn step.
LEMMA TurnSteps ==
    ASSUME Handler = {}, TypeOK, [Next]_vars
    PROVE  TurnStep
<1>1. CASE UNCHANGED vars
  BY <1>1, UpdateTurnStep DEF vars
<1>2. CASE Enqueues
  BY <1>2, EnqueuesTurnStep
<1>3. CASE Claims
  <2> DEFINE Quiet == /\ row' = row
                      /\ \A u \in Task : \/ status'[u] = status[u]
                                         \/ /\ status[u] # "absent"
                                            /\ status'[u] \in {"queued", "dispatched"}
  <2>1. ASSUME NEW r \in Runtime, PromoteDueDeferredTasks(r) PROVE Quiet
    BY <2>1 DEF PromoteDueDeferredTasks, Set, Due, TypeOK
  <2>2. ASSUME NEW a \in Agent, NEW t \in Task, ClaimTask(a, t) PROVE Quiet
    BY <2>2 DEF ClaimTask, Claimable, TypeOK
  <2>3. ASSUME NEW t \in Task, ReclaimStaleDispatchedTask(t) \/ RequeueTaskAfterClaimFailure(t)
        PROVE  Quiet
    BY <2>3 DEF ReclaimStaleDispatchedTask, RequeueTaskAfterClaimFailure, TypeOK
  <2>4. Quiet
    BY <1>3, <2>1, <2>2, <2>3 DEF Claims
  <2>5. QED
    BY <2>4, UpdateTurnStep
<1>4. CASE Reports
  BY <1>4, ReportsTurnStep
<1>5. CASE Cancels
  <2>1. ASSUME NEW S \in SUBSET Live, CancelRows(S) PROVE TurnStep
    BY <2>1, UpdateTurnStep DEF CancelRows, Set, Live, Cancellable, InFlight
  <2>2. QED
    BY <1>5, <2>1 DEF Cancels, CancelTask, CancelTasksForScope, CancelTasksForAgent,
       CancelTasksByTriggerComment
<1>6. CASE Sweeps
  BY <1>6, UpdateTurnStep DEF Sweeps, ReconcileAgentStatus
<1>7. CASE Environment
  BY <1>7, UpdateTurnStep DEF Environment, TimerElapses, DaemonDeregister, RuntimeOnline,
     ServerRestart
<1>8. QED
  BY <1>1, <1>2, <1>3, <1>4, <1>5, <1>6, <1>7 DEF Next

-----------------------------------------------------------------------------
\* The rows after a step.

\* An inserted row keeps its columns; the row a step adds is fresh or a retry.
LEMMA RowsKept ==
    ASSUME TypeOK, TypeOK', TableStep
    PROVE  /\ \A t \in Task : Inserted(t) => Inserted(t)' /\ row'[t] = row[t]
           /\ \A t \in Task : Inserted(t)' /\ ~ Inserted(t) =>
                 \/ /\ row'[t].retry_of = NULL
                    /\ row'[t].chat_input \in {NULL, t}
                    /\ status'[t] \in {"queued", "deferred"}
                    /\ t = n + 1
                 \/ /\ \E p \in Task : RetryStep(p) /\ row'[t] = RetryRow(p)
                    /\ status'[t] = "queued"
                    /\ t = n + 1
<1>1. CASE UNCHANGED <<n, row>>
  BY <1>1 DEF TypeOK
<1>2. CASE FreshStep
  <2>1. PICK r \in Row : /\ Insert(r)
                         /\ r.retry_of = NULL
                         /\ r.chat_input \in {NULL, n + 1}
                         /\ status'[n + 1] \in {"queued", "deferred"}
    BY <1>2 DEF FreshStep
  <2>2. /\ row'[n + 1] = r /\ n' = n + 1
        /\ \A t \in Task : t # n + 1 => row'[t] = row[t]
    BY <2>1, InsertType
  <2>3. \A t \in Task : (Inserted(t) => Inserted(t)' /\ t # n + 1)
                        /\ (Inserted(t)' /\ ~ Inserted(t) => t = n + 1)
    BY <2>2 DEF TypeOK, Task
  <2>4. QED
    BY <2>1, <2>2, <2>3
<1>3. ASSUME NEW p \in Task, RetryStep(p)
      PROVE  /\ \A t \in Task : Inserted(t) => Inserted(t)' /\ row'[t] = row[t]
             /\ \A t \in Task : Inserted(t)' /\ ~ Inserted(t) =>
                   row'[t] = RetryRow(p) /\ status'[t] = "queued" /\ t = n + 1
  <2>1. /\ row'[n + 1] = RetryRow(p) /\ n' = n + 1 /\ status'[n + 1] = "queued"
        /\ \A t \in Task : t # n + 1 => row'[t] = row[t]
    BY <1>3, InsertType DEF RetryStep
  <2>2. \A t \in Task : (Inserted(t) => Inserted(t)' /\ t # n + 1)
                        /\ (Inserted(t)' /\ ~ Inserted(t) => t = n + 1)
    BY <2>1 DEF TypeOK, Task
  <2>3. QED
    BY <2>1, <2>2
<1>4. CASE UpdateStep \/ \E a \in Agent, t \in Task : ClaimTask(a, t)
  BY <1>1, <1>4, ClaimAdvances DEF UpdateStep
<1>5. QED
  BY <1>2, <1>3, <1>4 DEF TableStep

\* Only a claim takes a queued row in flight.
LEMMA ClaimedBy ==
    ASSUME TypeOK, FailureHandledOnce, TableStep, NEW u \in Task,
           status[u] \notin InFlight, status'[u] \in InFlight
    PROVE  \E a \in Agent : ClaimTask(a, u)
<1>1. PICK a \in Agent, t \in Task : ClaimTask(a, t)
  BY NonClaimStep DEF TableStep
<1>2. t = u
  BY <1>1 DEF ClaimTask, TypeOK
<1>3. QED
  BY <1>1, <1>2

\* A claim finds the older turns of its session ended: one in flight would hold
\* the session's key, and a queued one would come first in the claim order.
LEMMA ClaimInOrder ==
    ASSUME OrderInv, NEW a \in Agent, NEW t \in Task, NEW u \in Task,
           ClaimTask(a, u), Older(t, u)
    PROVE  status[t] \in Terminal
<1>1. TypeOK /\ ChatShape /\ ChatTurnsInOrder
  BY DEF OrderInv, TurnInv, LineageInv
<1>2. /\ status[u] = "queued" /\ row[u].agent = a
      /\ \A v \in Task : status[v] \in InFlight => ~ SameKey(u, v)
      /\ \A v \in Claimable(a) : Precedes(u, v)
  BY DEF ClaimTask, Claimable
<1>3. row[t].agent = a /\ row[t].scope = row[u].scope /\ row[t].scope \in Chat
  BY <1>1, <1>2 DEF ChatShape, Older
<1>4. SameKey(u, t) /\ \A v \in Task : SameKey(t, v) => SameKey(u, v)
  BY <1>2, <1>3, ConstantsAssumption DEF SameKey
<1>5. status[t] \in Terminal \cup {"queued"}
  BY <1>1, <1>2, <1>3, <1>4 DEF Older, Inserted, ChatShape, TypeOK, Status, Cancellable
<1>6. ASSUME status[t] = "queued" PROVE FALSE
  <2>1. Precedes(u, t)
    BY <1>2, <1>3, <1>4, <1>6 DEF Claimable
  <2>2. row[u].retry_of = NULL
    BY <1>1, <1>6 DEF ChatTurnsInOrder, Begun, Terminal
  <2>3. row[u].priority = 2 /\ row[u].chat_input \in {NULL, u}
    BY <1>1, <1>3, <2>2 DEF ChatShape, Older
  <2>4. row[t].chat_input \in Nat /\ row[t].chat_input # NULL
        /\ row[t].chat_input < row[u].chat_input
    BY <1>1 DEF Older, TypeOK, Row
  <2>5. row[u].chat_input = u /\ row[t].chat_input < u
    BY <2>3, <2>4 DEF NULL
  <2>6. \/ row[t].priority = 2 /\ row[t].chat_input \in {NULL, t}
        \/ row[t].priority = 3
    BY <1>1, <1>3 DEF ChatShape, Older
  <2>7. QED
    BY <2>1, <2>3, <2>4, <2>5, <2>6 DEF Precedes, Task
<1>7. QED
  BY <1>5, <1>6

-----------------------------------------------------------------------------
\* The order of turns is inductive.

\* Every step keeps the older turns of a begun turn ended.
LEMMA OrderNext ==
    ASSUME Handler = {}, OrderInv, [Next]_vars
    PROVE  OrderInv'
<1>1. /\ TypeOK /\ RetryLineage /\ FailureHandledOnce /\ TurnIsOneChain
      /\ ChatShape /\ ChatTurnsInOrder
  BY DEF OrderInv, TurnInv, LineageInv
<1>2. TypeOK' /\ TableStep /\ TurnStep /\ TurnInv'
  BY <1>1, StepShape, TurnSteps, TurnInvInductive DEF OrderInv
<1>3. \A t \in Task : Inserted(t) => Inserted(t)' /\ row'[t] = row[t] /\ Advances(t)
  BY <1>1, <1>2, RowsKept, AllAdvance DEF Inserted
<1>4. ASSUME NEW p \in Task, RetryStep(p)
      PROVE  status[p] \in InFlight /\ Inserted(p)
  BY <1>4 DEF RetryStep, InFlight, Inserted
<1>5. ASSUME NEW t \in Task, Inserted(t)', row'[t].scope \in Chat
      PROVE  /\ row'[t].agent = ChatAgent[row'[t].scope]
             /\ status'[t] # "deferred"
             /\ IF row'[t].retry_of = NULL
                THEN row'[t].priority = 2 /\ row'[t].chat_input \in {NULL, t}
                ELSE row'[t].priority = 3
  <2>1. status'[t] = "deferred" => status[t] = "deferred"
    BY <1>2, <1>5, ConstantsAssumption DEF TurnStep
  <2>2. CASE Inserted(t)
    BY <1>1, <1>3, <1>5, <2>1, <2>2 DEF ChatShape
  <2>3. CASE ~ Inserted(t) /\ row'[t].retry_of = NULL
    BY <1>2, <1>5, <2>1, <2>3 DEF TurnStep, Inserted
  <2>4. CASE ~ Inserted(t) /\ row'[t].retry_of # NULL
    <3>1. PICK p \in Task : RetryStep(p) /\ row'[t] = RetryRow(p) /\ status'[t] = "queued"
      BY <1>1, <1>2, <1>5, <2>4, RowsKept
    <3>2. /\ row[p].scope \in Chat /\ row[p].agent = ChatAgent[row[p].scope]
          /\ row[p].priority \in {2, 3}
      BY <1>1, <1>4, <1>5, <3>1 DEF ChatShape, RetryRow
    <3>3. QED
      BY <2>4, <3>1, <3>2 DEF RetryRow
  <2>5. QED
    BY <2>2, <2>3, <2>4
<1>6. ASSUME NEW t \in Task, NEW u \in Task, Older(t, u)', Begun(u)'
      PROVE  status'[t] \in Terminal
  <2>1. CASE Inserted(t) /\ Inserted(u)
    <3>1. Older(t, u)
      BY <1>3, <1>6, <2>1 DEF Older
    <3>2. status[t] \in Terminal
      <4>1. CASE Begun(u)
        BY <1>1, <3>1, <4>1 DEF ChatTurnsInOrder
      <4>2. CASE ~ Begun(u)
        <5>1. status[u] \notin InFlight /\ status'[u] \in InFlight
          BY <1>2, <1>3, <1>6, <2>1, <4>2 DEF Begun, TurnStep
        <5>2. QED
          BY <1>1, <1>2, <3>1, <5>1, ClaimedBy, ClaimInOrder
      <4>3. QED
        BY <4>1, <4>2
    <3>3. QED
      BY <1>3, <2>1, <3>2 DEF Advances, Terminal, Cancellable, InFlight
  <2>2. CASE ~ Inserted(u)
    <3>1. PICK p \in Task : RetryStep(p) /\ row'[u] = RetryRow(p) /\ u = n + 1
      BY <1>1, <1>2, <1>6, <2>2, RowsKept DEF Begun, Older, InFlight
    <3>2. t # u
      BY <1>2, <1>6 DEF Older, TypeOK, Row
    <3>3. Inserted(t)
      BY <1>1, <1>2, <1>6, <3>1, <3>2, RowsKept DEF Older
    <3>4. Older(t, p) /\ Begun(p)
      BY <1>3, <1>4, <1>6, <3>1, <3>3 DEF Older, Begun, RetryRow
    <3>5. status[t] \in Terminal
      BY <1>1, <3>4 DEF ChatTurnsInOrder
    <3>6. QED
      BY <1>3, <3>3, <3>5 DEF Advances, Terminal, Cancellable, InFlight
  <2>3. CASE ~ Inserted(t) /\ Inserted(u)
    <3>1. t = n + 1 /\ row'[t].chat_input < u /\ u \in Nat /\ u <= n
      <4>1. t = n + 1
        BY <1>1, <1>2, <1>6, <2>3, RowsKept DEF Older
      <4>2. /\ row'[t].chat_input \in 0..MaxTasks /\ row'[u].chat_input \in 0..MaxTasks
            /\ row'[t].chat_input < row'[u].chat_input
        BY <1>2, <1>6 DEF Older, TypeOK, Row
      <4>3. row'[u].chat_input <= u
        BY <1>2, <1>6 DEF Older, TurnInv, TurnIsOneChain
      <4>4. QED
        BY <1>1, <2>3, <4>1, <4>2, <4>3 DEF TypeOK, Task
    <3>2. PICK p \in Task : RetryStep(p) /\ row'[t] = RetryRow(p)
      BY <1>1, <1>2, <1>6, <2>3, <3>1, RowsKept DEF Older, TypeOK
    <3>3. Older(p, u)
      BY <1>3, <1>4, <1>6, <2>3, <3>2 DEF Older, RetryRow
    <3>4. u # p /\ u # n + 1
      BY <1>1, <3>1, <3>3 DEF Older, TypeOK, Row, Task
    <3>5. Begun(u)
      BY <1>3, <1>6, <2>3, <3>2, <3>4 DEF Begun, RetryStep
    <3>6. status[p] \in Terminal /\ status[p] \in InFlight
      BY <1>1, <1>4, <3>2, <3>3, <3>5 DEF ChatTurnsInOrder
    <3>7. QED
      BY <3>6 DEF Terminal, InFlight
  <2>4. QED
    BY <2>1, <2>2, <2>3
<1>7. QED
  BY <1>2, <1>5, <1>6 DEF OrderInv, ChatShape, ChatTurnsInOrder

\* While failures come from the daemons' own reports, no attempt at an earlier
\* direct turn waits, works or appears once a newer one of its session has been
\* handed out (ClaimAgentTask's order, CreateRetryTask in FailTask's transaction).
THEOREM ChatTurnsOrdered == ASSUME Handler = {} PROVE Spec => []ChatTurnsInOrder
<1>1. Init => OrderInv
  <2>1. Init => \A t \in Task : ~ Inserted(t)
    BY DEF Init, Inserted
  <2>2. Init => TurnInv
    BY InitLineage, <2>1 DEF Init, TurnInv, TurnIsOneChain
  <2>3. QED
    BY <2>1, <2>2 DEF OrderInv, ChatShape, ChatTurnsInOrder, Older
<1>2. OrderInv /\ [Next]_vars => OrderInv'
  BY OrderNext
<1>3. OrderInv => ChatTurnsInOrder
  BY DEF OrderInv
<1>4. QED
  BY <1>1, <1>2, <1>3, PTL DEF Spec
=============================================================================
