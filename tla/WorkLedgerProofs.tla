-------------------------- MODULE WorkLedgerProofs --------------------------
(***************************************************************************)
(* TaskQueue implements WorkLedger, for every number of rows, agents,      *)
(* issues, sessions, handlers and limits, with and without restarts.       *)
(***************************************************************************)
EXTENDS TaskQueueProofs

\* f sends every row to the first attempt of its job.
Rooting(f) ==
    f = [t \in Task |-> IF Inserted(t) /\ row[t].retry_of # NULL THEN f[row[t].retry_of] ELSE t]

\* There is one such function, since a retry is younger than what it retries.
OneRooting ==
    /\ \E f : Rooting(f)
    /\ \A f, g : Rooting(f) /\ Rooting(g) => f = g

\* root is that function.
LEMMA RootIsRooting == OneRooting => Rooting(root)
BY DEF OneRooting, Rooting, root

\* A step that inserts nothing leaves the roots alone.
LEMMA RootsKept ==
    ASSUME TypeOK, TypeOK', OneRooting, UNCHANGED <<n, row>>
    PROVE  OneRooting' /\ root' = root
<1>1. \A t \in Task : Inserted(t)' <=> Inserted(t)
  BY DEF TypeOK
<1>2. ASSUME NEW f PROVE Rooting(f)' <=> Rooting(f)
  BY <1>1 DEF Rooting
<1>3. OneRooting'
  BY <1>2 DEF OneRooting
<1>4. Rooting(root)'
  BY <1>3, RootIsRooting, PTL
<1>5. PICK f : f = root'
  OBVIOUS
<1>6. Rooting(f)
  BY <1>1, <1>4, <1>5 DEF Rooting
<1>7. QED
  BY <1>3, <1>5, <1>6, RootIsRooting DEF OneRooting

\* An inserted row has the root of the row that it retries, or is a new one.
LEMMA RootsGrow ==
    ASSUME TypeOK, TypeOK', RetryLineage, OneRooting, NEW r \in Row, Insert(r),
           r.retry_of = NULL \/ (r.retry_of \in Task /\ Inserted(r.retry_of))
    PROVE  /\ OneRooting'
           /\ \A t \in Task : t # n + 1 => root'[t] = root[t]
           /\ root'[n + 1] = IF r.retry_of = NULL THEN n + 1 ELSE root[r.retry_of]
<1> DEFINE new == IF r.retry_of = NULL THEN n + 1 ELSE root[r.retry_of]
<1>1. /\ n' = n + 1 /\ n + 1 \in Task /\ row'[n + 1] = r
      /\ \A t \in Task : t # n + 1 => row'[t] = row[t]
  BY InsertType
<1>2. /\ \A t \in Task : Inserted(t)' <=> (Inserted(t) \/ t = n + 1)
      /\ ~ Inserted(n + 1)
  BY <1>1 DEF TypeOK, Task
<1>3. /\ \A t \in Task : Inserted(t) /\ row[t].retry_of # NULL =>
            row[t].retry_of \in Task /\ Inserted(row[t].retry_of)
      /\ \A t \in Task : Inserted(t) => t # n + 1
  <2>1. \A t \in Task : Inserted(t) /\ row[t].retry_of # NULL =>
            row[t].retry_of \in Task /\ status[row[t].retry_of] = "failed"
    BY RetryOfIsRow DEF RetryLineage
  <2>2. QED
    BY <1>2, <2>1 DEF Inserted
<1>4. /\ root = [t \in Task |-> root[t]]
      /\ \A t \in Task : root[t] = IF Inserted(t) /\ row[t].retry_of # NULL
                                  THEN root[row[t].retry_of] ELSE t
  BY RootIsRooting DEF Rooting
<1>5. ASSUME NEW f, Rooting(f)'
      PROVE  /\ f = [t \in Task |-> f[t]]
             /\ \A t \in Task : t # n + 1 => f[t] = root[t]
             /\ f[n + 1] = new
  <2>1. /\ f = [t \in Task |-> f[t]]
        /\ \A t \in Task : f[t] = IF Inserted(t)' /\ row'[t].retry_of # NULL
                                 THEN f[row'[t].retry_of] ELSE t
    BY <1>5 DEF Rooting
  <2> DEFINE g == [t \in Task |-> IF t = n + 1 THEN n + 1 ELSE f[t]]
  <2>2. \A t \in Task : g[t] = IF Inserted(t) /\ row[t].retry_of # NULL
                              THEN g[row[t].retry_of] ELSE t
    BY <1>1, <1>2, <1>3, <2>1
  <2>3. Rooting(g)
    BY <2>2 DEF Rooting
  <2>4. g = root
    BY <2>3, RootIsRooting DEF OneRooting
  <2>5. \A t \in Task : t # n + 1 => f[t] = root[t]
    BY <2>4
  <2>6. f[n + 1] = new
    BY <1>1, <1>2, <2>1, <2>5
  <2>7. QED
    BY <2>1, <2>5, <2>6
<1>6. \E f : Rooting(f)'
  <2> DEFINE f == [t \in Task |-> IF t = n + 1 THEN new ELSE root[t]]
  <2>1. \A t \in Task : f[t] = IF Inserted(t)' /\ row'[t].retry_of # NULL
                              THEN f[row'[t].retry_of] ELSE t
    BY <1>1, <1>2, <1>3, <1>4
  <2>2. PICK g : g = f
    OBVIOUS
  <2>3. Rooting(g)'
    BY <2>1, <2>2 DEF Rooting
  <2>4. QED
    BY <2>3
<1>7. ASSUME NEW f, NEW g, Rooting(f)', Rooting(g)' PROVE f = g
  BY <1>5, <1>7
<1>8. OneRooting'
  BY <1>6, <1>7 DEF OneRooting
<1>9. Rooting(root)'
  BY <1>8, RootIsRooting, PTL
<1>10. PICK f : f = root'
  OBVIOUS
<1>11. Rooting(f)'
  BY <1>9, <1>10 DEF Rooting
<1>12. QED
  BY <1>5, <1>8, <1>10, <1>11

-----------------------------------------------------------------------------
\* The attempts of a job.

\* t is an attempt at job j that nobody has retried.
Newest(t, j) == Inserted(t) /\ root[t] = j /\ ~ HasRetry(t)

\* A retry stays with its job's agent and lane.
RootsAreJobs ==
    \A t \in Task : Inserted(t) =>
        /\ root[t] \in Task /\ IsJob(root[t])
        /\ row[t].agent = row[root[t]].agent
        /\ row[t].scope = row[root[t]].scope

\* Every job has exactly one newest attempt.
OneNewest ==
    /\ \A j \in Task : IsJob(j) => \E t \in Task : Newest(t, j)
    /\ \A j, t, u \in Task : Newest(t, j) /\ Newest(u, j) => t = u

JobsInv == OneRooting /\ RootsAreJobs /\ OneNewest

\* LastAttempt chooses the newest attempt.
LEMMA LastIsNewest ==
    JobsInv => \A j \in Task : IsJob(j) => LastAttempt(j) \in Task /\ Newest(LastAttempt(j), j)
BY DEF JobsInv, OneNewest, LastAttempt, Newest

\* And there is no other.
LEMMA NewestIsLast == JobsInv => \A j, t \in Task : Newest(t, j) => LastAttempt(j) = t
BY DEF JobsInv, OneNewest, LastAttempt, Newest

\* A row that is not failed is the newest attempt of its job.
LEMMA LiveIsNewest ==
    ASSUME TypeOK, RetryLineage, NEW t \in Task, Inserted(t), status[t] # "failed"
    PROVE  Newest(t, root[t])
<1>1. t # NULL
  BY DEF Task, NULL
<1>2. QED
  BY <1>1 DEF Newest, HasRetry, RetryLineage

\* A step that inserts nothing leaves jobs and their attempts alone.
LEMMA JobsKept ==
    ASSUME TypeOK, TypeOK', JobsInv, UNCHANGED <<n, row>>
    PROVE  /\ JobsInv'
           /\ \A j \in Task : IsJob(j)' <=> IsJob(j)
           /\ \A j \in Task : IsJob(j) => LastAttempt(j)' = LastAttempt(j)
<1>1. \A t \in Task : Inserted(t)' <=> Inserted(t)
  BY DEF TypeOK
<1>2. OneRooting' /\ root' = root
  BY RootsKept DEF JobsInv
<1>3. \A t \in Task : HasRetry(t)' <=> HasRetry(t)
  BY <1>1 DEF HasRetry
<1>4. \A j \in Task : IsJob(j)' <=> IsJob(j)
  BY <1>1 DEF IsJob
<1>5. \A t, j \in Task : Newest(t, j)' <=> Newest(t, j)
  BY <1>1, <1>2, <1>3 DEF Newest
<1>6. RootsAreJobs'
  BY <1>1, <1>2, <1>4 DEF JobsInv, RootsAreJobs
<1>7. OneNewest'
  BY <1>4, <1>5 DEF JobsInv, OneNewest
<1>8. JobsInv'
  BY <1>2, <1>6, <1>7 DEF JobsInv
<1>9. (JobsInv => \A j, t \in Task : Newest(t, j) => LastAttempt(j) = t)'
  BY NewestIsLast, PTL
<1>10. ASSUME NEW j \in Task, IsJob(j) PROVE LastAttempt(j)' = LastAttempt(j)
  <2>1. PICK t \in Task : Newest(t, j)
    BY <1>10 DEF JobsInv, OneNewest
  <2>2. LastAttempt(j) = t
    BY <2>1, NewestIsLast
  <2>3. QED
    BY <1>5, <1>8, <1>9, <2>1, <2>2
<1>11. QED
  BY <1>4, <1>8, <1>10

\* A fresh row is a job of its own, with itself as its newest attempt.
LEMMA JobsGrow ==
    ASSUME TypeOK, TypeOK', RetryLineage, JobsInv,
           NEW r \in Row, Insert(r), r.retry_of = NULL
    PROVE  /\ JobsInv'
           /\ \A j \in Task : IsJob(j)' <=> (IsJob(j) \/ j = n + 1)
           /\ \A j \in Task : IsJob(j) => LastAttempt(j)' = LastAttempt(j)
           /\ ~ IsJob(n + 1)
           /\ \A j \in Task : j = n + 1 => LastAttempt(j)' = j
<1>1. /\ n' = n + 1 /\ n + 1 \in Task /\ row'[n + 1] = r
      /\ \A t \in Task : t # n + 1 => row'[t] = row[t]
  BY InsertType
<1>2. /\ \A t \in Task : Inserted(t)' <=> (Inserted(t) \/ t = n + 1)
      /\ ~ Inserted(n + 1)
      /\ n + 1 # NULL
  BY <1>1 DEF TypeOK, Task, NULL
<1>3. /\ OneRooting'
      /\ \A t \in Task : t # n + 1 => root'[t] = root[t]
      /\ root'[n + 1] = n + 1
  BY RootsGrow DEF JobsInv
<1>4. \A t \in Task : Inserted(t) /\ row[t].retry_of # NULL => Inserted(row[t].retry_of)
  <2>1. \A t \in Task : Inserted(t) /\ row[t].retry_of # NULL => status[row[t].retry_of] = "failed"
    BY DEF RetryLineage
  <2>2. QED
    BY <2>1 DEF Inserted
<1>5. \A t \in Task : HasRetry(t)' <=> HasRetry(t)
  <2>1. ASSUME NEW t \in Task, NEW u \in Task, Inserted(u)', row'[u].retry_of = t
        PROVE  HasRetry(t)
    <3>1. t # NULL
      BY DEF Task, NULL
    <3>2. QED
      BY <1>1, <1>2, <2>1, <3>1 DEF HasRetry
  <2>2. QED
    BY <1>1, <1>2, <2>1 DEF HasRetry
<1>6. ~ HasRetry(n + 1)
  BY <1>2, <1>4 DEF HasRetry
<1>7. \A j \in Task : IsJob(j)' <=> (IsJob(j) \/ j = n + 1)
  BY <1>1, <1>2 DEF IsJob
<1>8. \A t \in Task : Inserted(t) => t # n + 1 /\ root[t] \in Task /\ Inserted(root[t]) /\ root[t] # n + 1
  BY <1>2 DEF JobsInv, RootsAreJobs, IsJob
<1>9. \A t, j \in Task : Newest(t, j)' <=> (Newest(t, j) \/ (t = n + 1 /\ j = n + 1))
  BY <1>1, <1>2, <1>3, <1>5, <1>6, <1>8 DEF Newest
<1>10. RootsAreJobs'
  BY <1>1, <1>2, <1>3, <1>7, <1>8 DEF JobsInv, RootsAreJobs
<1>11. \A t, j \in Task : Newest(t, j) => j # n + 1
  BY <1>8 DEF Newest
<1>12. OneNewest'
  <2>1. ASSUME NEW j \in Task, IsJob(j)' PROVE \E t \in Task : Newest(t, j)'
    BY <1>1, <1>7, <1>9, <2>1 DEF JobsInv, OneNewest
  <2>2. ASSUME NEW j \in Task, NEW t \in Task, NEW u \in Task, Newest(t, j)', Newest(u, j)'
        PROVE  t = u
    BY <1>9, <1>11, <2>2 DEF JobsInv, OneNewest
  <2>3. QED
    BY <2>1, <2>2 DEF OneNewest
<1>13. JobsInv'
  BY <1>3, <1>10, <1>12 DEF JobsInv
<1>14. \A j, t \in Task : Newest(t, j)' => LastAttempt(j)' = t
  <2>1. (JobsInv => \A j, t \in Task : Newest(t, j) => LastAttempt(j) = t)'
    BY NewestIsLast, PTL
  <2>2. QED
    BY <1>13, <2>1
<1>15. ASSUME NEW j \in Task, IsJob(j) PROVE LastAttempt(j)' = LastAttempt(j)
  <2>1. LastAttempt(j) \in Task /\ Newest(LastAttempt(j), j)
    BY <1>15, LastIsNewest
  <2>2. PICK t \in Task : t = LastAttempt(j) /\ Newest(t, j)
    BY <2>1
  <2>3. QED
    BY <1>9, <1>14, <2>2
<1>16. ASSUME NEW j \in Task, j = n + 1 PROVE LastAttempt(j)' = j
  BY <1>9, <1>14, <1>16
<1>17. QED
  BY <1>2, <1>7, <1>13, <1>15, <1>16 DEF IsJob

\* The retry of the newest attempt of a job takes its place.
LEMMA JobsRetried ==
    ASSUME TypeOK, TypeOK', RetryLineage, JobsInv,
           NEW p \in Task, Inserted(p), ~ HasRetry(p), RetryRow(p) \in Row, Insert(RetryRow(p))
    PROVE  /\ JobsInv'
           /\ \A j \in Task : IsJob(j)' <=> IsJob(j)
           /\ \A j \in Task : IsJob(j) /\ j # root[p] => LastAttempt(j)' = LastAttempt(j)
           /\ \A j \in Task : j = root[p] => LastAttempt(j) = p /\ LastAttempt(j)' = n + 1
<1> DEFINE r == RetryRow(p)
<1>1. /\ n' = n + 1 /\ n + 1 \in Task /\ row'[n + 1] = r
      /\ \A t \in Task : t # n + 1 => row'[t] = row[t]
  BY InsertType
<1>2. /\ \A t \in Task : Inserted(t)' <=> (Inserted(t) \/ t = n + 1)
      /\ ~ Inserted(n + 1)
      /\ p # NULL
  BY <1>1 DEF TypeOK, Task, NULL
<1>3. r.retry_of = p /\ r.agent = row[p].agent /\ r.scope = row[p].scope
  BY DEF RetryRow
<1>4. /\ OneRooting'
      /\ \A t \in Task : t # n + 1 => root'[t] = root[t]
      /\ root'[n + 1] = root[p]
  BY <1>2, <1>3, RootsGrow DEF JobsInv
<1>5. \A t \in Task : Inserted(t) /\ row[t].retry_of # NULL => Inserted(row[t].retry_of)
  <2>1. \A t \in Task : Inserted(t) /\ row[t].retry_of # NULL => status[row[t].retry_of] = "failed"
    BY DEF RetryLineage
  <2>2. QED
    BY <2>1 DEF Inserted
<1>6. \A t \in Task : HasRetry(t)' <=> (HasRetry(t) \/ t = p)
  BY <1>1, <1>2, <1>3 DEF HasRetry
<1>7. ~ HasRetry(n + 1) /\ p # n + 1
  <2>1. n + 1 # NULL
    BY <1>1 DEF Task, NULL
  <2>2. QED
    BY <1>2, <1>5, <2>1 DEF HasRetry
<1>8. \A j \in Task : IsJob(j)' <=> IsJob(j)
  BY <1>1, <1>2, <1>3 DEF IsJob
<1>9. \A t \in Task : Inserted(t) => t # n + 1 /\ root[t] \in Task /\ Inserted(root[t]) /\ root[t] # n + 1
  BY <1>2 DEF JobsInv, RootsAreJobs, IsJob
<1>10. /\ \A t, j \in Task : Newest(t, j) /\ t # p => Newest(t, j)'
       /\ \A t, j \in Task : t = n + 1 /\ j = root[p] => Newest(t, j)'
       /\ \A t, j \in Task : Newest(t, j)' => (Newest(t, j) /\ t # p) \/ (t = n + 1 /\ j = root[p])
  <2>1. ASSUME NEW t \in Task, NEW j \in Task, t # n + 1
        PROVE  Newest(t, j)' <=> (Newest(t, j) /\ t # p)
    BY <1>2, <1>4, <1>6, <2>1 DEF Newest
  <2>2. ASSUME NEW t \in Task, NEW j \in Task, t = n + 1
        PROVE  Newest(t, j)' <=> j = root[p]
    BY <1>2, <1>4, <1>6, <1>7, <2>2 DEF Newest
  <2>3. \A t, j \in Task : Newest(t, j) => t # n + 1
    BY <1>2 DEF Newest
  <2>4. QED
    BY <2>1, <2>2, <2>3
<1>11. RootsAreJobs'
  <2>1. ASSUME NEW t \in Task, Inserted(t)'
        PROVE  /\ root'[t] \in Task /\ IsJob(root[t])'
               /\ row'[t].agent = row'[root'[t]].agent
               /\ row'[t].scope = row'[root'[t]].scope
    <3>1. CASE t = n + 1
      <4>1. root'[t] = root[p] /\ row'[t] = r
        BY <1>1, <1>4, <3>1
      <4>2. /\ root[p] \in Task /\ IsJob(root[p]) /\ row'[root[p]] = row[root[p]]
            /\ row[p].agent = row[root[p]].agent /\ row[p].scope = row[root[p]].scope
        BY <1>1, <1>9 DEF JobsInv, RootsAreJobs
      <4>3. QED
        BY <1>3, <1>8, <4>1, <4>2
    <3>2. CASE t # n + 1
      <4>1. root'[t] = root[t] /\ row'[t] = row[t] /\ Inserted(t)
        BY <1>1, <1>2, <1>4, <2>1, <3>2
      <4>2. /\ root[t] \in Task /\ IsJob(root[t]) /\ row'[root[t]] = row[root[t]]
            /\ row[t].agent = row[root[t]].agent /\ row[t].scope = row[root[t]].scope
        BY <1>1, <1>9, <4>1 DEF JobsInv, RootsAreJobs
      <4>3. QED
        BY <1>8, <4>1, <4>2
    <3>3. QED
      BY <3>1, <3>2
  <2>2. QED
    BY <2>1 DEF RootsAreJobs
<1>12. Newest(p, root[p]) /\ root[p] \in Task
  BY <1>9 DEF Newest
<1>13. \A t, j \in Task : Newest(t, j) /\ j = root[p] => t = p
  BY <1>12 DEF JobsInv, OneNewest
<1>14. OneNewest'
  <2>1. ASSUME NEW j \in Task, IsJob(j)' PROVE \E t \in Task : Newest(t, j)'
    <3>1. PICK t \in Task : Newest(t, j)
      BY <1>8, <2>1 DEF JobsInv, OneNewest
    <3>2. CASE t = p
      BY <1>1, <1>10, <3>1, <3>2 DEF Newest
    <3>3. CASE t # p
      BY <1>10, <3>1, <3>3
    <3>4. QED
      BY <3>2, <3>3
  <2>2. ASSUME NEW j \in Task, NEW t \in Task, NEW u \in Task, Newest(t, j)', Newest(u, j)'
        PROVE  t = u
    BY <1>10, <1>13, <2>2 DEF JobsInv, OneNewest
  <2>3. QED
    BY <2>1, <2>2 DEF OneNewest
<1>15. JobsInv'
  BY <1>4, <1>11, <1>14 DEF JobsInv
<1>16. (JobsInv => \A j, t \in Task : Newest(t, j) => LastAttempt(j) = t)'
  BY NewestIsLast, PTL
<1>17. ASSUME NEW j \in Task, IsJob(j), j # root[p] PROVE LastAttempt(j)' = LastAttempt(j)
  <2>1. LastAttempt(j) \in Task /\ Newest(LastAttempt(j), j)
    BY <1>17, LastIsNewest
  <2>2. PICK t \in Task : t = LastAttempt(j) /\ Newest(t, j)
    BY <2>1
  <2>3. t # p
    BY <1>17, <2>2 DEF Newest
  <2>4. Newest(t, j)'
    BY <1>10, <2>2, <2>3
  <2>5. QED
    BY <1>15, <1>16, <2>2, <2>4
<1>18. ASSUME NEW j \in Task, j = root[p] PROVE LastAttempt(j) = p /\ LastAttempt(j)' = n + 1
  <2>1. PICK k \in Task : k = n + 1
    BY <1>1
  <2>2. Newest(k, j)'
    BY <1>10, <1>18, <2>1
  <2>3. LastAttempt(j)' = k
    BY <1>15, <1>16, <2>2
  <2>4. LastAttempt(j) = p
    BY <1>12, <1>18, NewestIsLast
  <2>5. QED
    BY <2>1, <2>3, <2>4
<1>19. QED
  BY <1>8, <1>15, <1>17, <1>18

-----------------------------------------------------------------------------
\* What a step of the queue does to jobs.

\* A row completes only from running.
OnlyStartedComplete ==
    \A t \in Task : status'[t] = "completed" => status[t] \in {"running", "completed"}

\* The other rows stay as they are, or are cancelled for a new one like them.
ReplacedBy(r) ==
    \A t \in Task \ {n + 1} :
        \/ status'[t] = status[t]
        \/ /\ status[t] \in Cancellable /\ status'[t] = "cancelled"
           /\ row[t].agent = r.agent /\ row[t].scope = r.scope

RequestStep ==
    \E r \in Row :
        /\ Insert(r)
        /\ r.retry_of = NULL /\ r.attempt = 1
        /\ status'[n + 1] \in {"queued", "deferred"}
        /\ ReplacedBy(r)

\* Who enqueues inserts a row and cancels at most its likes, or, when the run cap
\* holds a rerun back, inserts nothing.
LEMMA EnqueuesRequest ==
    ASSUME TypeOK, Enqueues
    PROVE  OnlyStartedComplete /\ (UNCHANGED <<n, row>> \/ RequestStep)
<1> USE DEF OnlyStartedComplete
<1>1. ASSUME NEW r \in Row, EnqueueRow(r), r.retry_of = NULL, r.attempt = 1
      PROVE  OnlyStartedComplete /\ RequestStep
  <2>1. n + 1 \in Task /\ Insert(r)
    BY <1>1, InsertType DEF EnqueueRow
  <2>2. \A t \in Task : status'[t] = IF t = n + 1 THEN "queued" ELSE status[t]
    BY <1>1 DEF EnqueueRow, TypeOK
  <2>3. QED
    BY <1>1, <2>1, <2>2 DEF RequestStep, ReplacedBy
<1>2. ASSUME NEW i \in Issue, NEW a \in Agent, NEW p \in IssuePriority,
             EnqueueIssueTask(i, a, p) \/ RerunIssue(i, a, p)
      PROVE  OnlyStartedComplete /\ (UNCHANGED <<n, row>> \/ RequestStep)
  <2> DEFINE r == FreshRow(a, i, p)
             old == {t \in Live : row[t].scope = i /\ row[t].agent = a}
  <2>1. r \in Row
    BY FreshRowType, ConstantsAssumption DEF Scope
  <2>2. r.retry_of = NULL /\ r.attempt = 1 /\ r.agent = a /\ r.scope = i
    BY DEF FreshRow, NewRow
  <2>3. \A t \in Task : Set(status, old, "cancelled")[t] = IF t \in old THEN "cancelled" ELSE status[t]
    BY DEF Set
  <2>4. CASE EnqueueIssueTask(i, a, p)
    BY <1>1, <2>1, <2>2, <2>4 DEF EnqueueIssueTask
  <2>5. CASE UNCHANGED <<n, row>> /\ status' = Set(status, old, "cancelled")
    BY <2>3, <2>5
  <2>6. CASE /\ Insert(r)
             /\ status' = [Set(status, old, "cancelled") EXCEPT ![n + 1] = "queued"]
    <3>1. n + 1 \in Task
      BY <2>1, <2>6, InsertType
    <3>2. \A t \in Task : status'[t] = IF t = n + 1 THEN "queued"
                                      ELSE IF t \in old THEN "cancelled" ELSE status[t]
      BY <2>6, <3>1 DEF Set
    <3>3. \A t \in old : status[t] \in Cancellable /\ row[t].agent = a /\ row[t].scope = i
      BY DEF Live
    <3>4. ReplacedBy(r)
      BY <2>2, <3>2, <3>3 DEF ReplacedBy
    <3>5. QED
      BY <2>1, <2>2, <2>6, <3>1, <3>2, <3>4 DEF RequestStep
  <2>7. QED
    BY <1>2, <2>4, <2>5, <2>6 DEF RerunIssue
<1>3. ASSUME NEW i \in Issue, NEW a \in Agent, NEW p \in IssuePriority,
             NEW primary \in 0..MaxTasks, EnqueueDeferredAssigneeFallback(i, a, p, primary)
      PROVE  OnlyStartedComplete /\ RequestStep
  <2> DEFINE r == NewRow(a, i, p, primary, NULL)
  <2>1. r \in Row /\ Insert(r)
    BY <1>3, NewRowType, ConstantsAssumption DEF Scope, NULL, EnqueueDeferredAssigneeFallback
  <2>2. n + 1 \in Task /\ r.retry_of = NULL /\ r.attempt = 1
    BY <2>1, InsertType DEF NewRow
  <2>3. \A t \in Task : status'[t] = IF t = n + 1 THEN "deferred" ELSE status[t]
    BY <1>3 DEF EnqueueDeferredAssigneeFallback, TypeOK
  <2>4. QED
    BY <2>1, <2>2, <2>3 DEF RequestStep, ReplacedBy
<1>4. ASSUME NEW c \in Chat, NEW d \in BOOLEAN, EnqueueChatTask(c, d)
      PROVE  OnlyStartedComplete /\ RequestStep
  <2> DEFINE r == NewRow(ChatAgent[c], c, 2, NULL, IF d THEN n + 1 ELSE NULL)
  <2>1. n < MaxTasks
    BY <1>4 DEF EnqueueChatTask, EnqueueRow, Insert
  <2>2. (IF d THEN n + 1 ELSE NULL) \in 0..MaxTasks
    BY <2>1, ConstantsAssumption DEF TypeOK, NULL
  <2>3. r \in Row /\ r.retry_of = NULL /\ r.attempt = 1
    BY <2>2, NewRowType, ConstantsAssumption DEF Scope, NULL, NewRow
  <2>4. QED
    BY <1>1, <1>4, <2>3 DEF EnqueueChatTask
<1>5. ASSUME NEW a \in Agent, EnqueueQuickCreateTask(a) \/ EnqueueRunOnlyTask(a)
      PROVE  OnlyStartedComplete /\ RequestStep
  <2>1. FreshRow(a, QuickCreate, 3) \in Row /\ FreshRow(a, RunOnly, 0) \in Row
    BY FreshRowType DEF Scope
  <2>2. /\ FreshRow(a, QuickCreate, 3).retry_of = NULL /\ FreshRow(a, QuickCreate, 3).attempt = 1
        /\ FreshRow(a, RunOnly, 0).retry_of = NULL /\ FreshRow(a, RunOnly, 0).attempt = 1
    BY DEF FreshRow, NewRow
  <2>3. QED
    BY <1>1, <1>5, <2>1, <2>2 DEF EnqueueQuickCreateTask, EnqueueRunOnlyTask
<1>6. QED
  BY <1>2, <1>3, <1>4, <1>5 DEF Enqueues

\* Nobody else inserts anything but retries, or completes what has not started.
LEMMA OthersRetry ==
    ASSUME TypeOK, FailureHandledOnce,
           Claims \/ Reports \/ Cancels \/ Sweeps \/ Environment \/ UNCHANGED vars
    PROVE  /\ OnlyStartedComplete
           /\ UNCHANGED <<n, row>> \/ \E p \in Task : Insert(RetryRow(p)) /\ RetryRow(p) \in Row
<1> DEFINE Inserts == UNCHANGED <<n, row>> \/ \E p \in Task : Insert(RetryRow(p)) /\ RetryRow(p) \in Row
<1> USE DEF OnlyStartedComplete
<1>1. CASE Claims
  <2>1. ASSUME NEW r \in Runtime, PromoteDueDeferredTasks(r)
        PROVE  OnlyStartedComplete /\ UNCHANGED <<n, row>>
    BY <2>1 DEF PromoteDueDeferredTasks, Set
  <2>2. ASSUME NEW a \in Agent, NEW t \in Task, ClaimTask(a, t)
        PROVE  OnlyStartedComplete /\ UNCHANGED <<n, row>>
    BY <2>2 DEF ClaimTask, TypeOK
  <2>3. ASSUME NEW t \in Task, ReclaimStaleDispatchedTask(t) \/ RequeueTaskAfterClaimFailure(t)
        PROVE  OnlyStartedComplete /\ UNCHANGED <<n, row>>
    BY <2>3 DEF ReclaimStaleDispatchedTask, RequeueTaskAfterClaimFailure, TypeOK
  <2>4. QED
    BY <1>1, <2>1, <2>2, <2>3 DEF Claims
<1>2. CASE Reports
  <2>1. ASSUME NEW t \in Task, FailTaskAndRetry(t) PROVE OnlyStartedComplete /\ Inserts
    <3>1. RetryRow(t) \in Row
      BY <2>1, RetryRowType DEF FailTaskAndRetry, TypeOK, Inserted, InFlight
    <3>2. OnlyStartedComplete
      BY <2>1 DEF FailTaskAndRetry, TypeOK
    <3>3. QED
      BY <2>1, <3>1, <3>2 DEF FailTaskAndRetry
  <2>2. ASSUME NEW t \in Task, NEW c \in BOOLEAN, CompleteTask(t, c)
        PROVE  OnlyStartedComplete /\ Inserts
    BY <2>2 DEF CompleteTask, Set, TypeOK
  <2>3. ASSUME NEW t \in Task, NEW r, NEW c \in BOOLEAN, FailTask(t, r, c)
        PROVE  OnlyStartedComplete /\ Inserts
    BY <2>3 DEF FailTask, Set, TypeOK
  <2>4. ASSUME NEW t \in Task,
               ExtendTaskPrepareLease(t) \/ MarkTaskWaitingLocalDirectory(t) \/ StartTask(t)
        PROVE  OnlyStartedComplete /\ Inserts
    BY <2>4 DEF ExtendTaskPrepareLease, MarkTaskWaitingLocalDirectory, StartTask, Set, TypeOK
  <2>5. ASSUME NEW i \in Issue, NEW a \in Agent, CancelDeferredEscalationsForIssueAgent(i, a)
        PROVE  OnlyStartedComplete /\ Inserts
    BY <2>5 DEF CancelDeferredEscalationsForIssueAgent, Set
  <2> HIDE DEF Inserts, OnlyStartedComplete
  <2>6. QED
    <3>1. OnlyStartedComplete /\ Inserts
      BY <1>2, <2>1, <2>2, <2>3, <2>4, <2>5 DEF Reports
    <3>2. QED
      BY <3>1 DEF Inserts
<1>3. CASE Cancels
  <2>1. ASSUME NEW S, CancelRows(S) PROVE OnlyStartedComplete /\ UNCHANGED <<n, row>>
    BY <2>1 DEF CancelRows, Set
  <2>2. QED
    BY <1>3, <2>1 DEF Cancels, CancelTask, CancelTasksForScope, CancelTasksForAgent,
       CancelTasksByTriggerComment
<1>4. CASE Sweeps
  <2>1. ASSUME NEW h \in Handler, NEW S, NEW r, FailBatch(h, S, r)
        PROVE  OnlyStartedComplete /\ UNCHANGED <<n, row>>
    BY <2>1 DEF FailBatch, Set
  <2>2. ASSUME NEW h \in Handler, NEW R \in SUBSET online, SweepStaleRuntimes(h, R)
        PROVE  OnlyStartedComplete /\ UNCHANGED <<n, row>>
    BY <2>1, <2>2 DEF SweepStaleRuntimes
  <2>3. ASSUME NEW h \in Handler, NEW t \in Task, HandleFailedTask(h, t)
        PROVE  OnlyStartedComplete /\ Inserts
    <3>1. CASE RetryEligible(t, reason[t]) /\ Insert(RetryRow(t))
               /\ status' = [status EXCEPT ![n + 1] = "queued"]
      <4>1. RetryRow(t) \in Row
        BY <2>3, <3>1, RetryRowType DEF HandleFailedTask, FailureHandledOnce, TypeOK, Inserted
      <4>2. QED
        BY <3>1, <4>1 DEF TypeOK
    <3>2. CASE UNCHANGED <<n, row, status>>
      BY <3>2
    <3>3. QED
      BY <2>3, <3>1, <3>2 DEF HandleFailedTask
  <2>4. ASSUME NEW a \in Agent, ReconcileAgentStatus(a)
        PROVE  OnlyStartedComplete /\ UNCHANGED <<n, row>>
    BY <2>4 DEF ReconcileAgentStatus
  <2>5. QED
    BY <1>4, <2>1, <2>2, <2>3, <2>4
    DEF Sweeps, SweepStaleTasks, SweepExpiredQueuedTasks, RecoverOrphanedTasks
<1>5. CASE Environment \/ UNCHANGED vars
  BY <1>5 DEF Environment, TimerElapses, DaemonDeregister, RuntimeOnline, ServerRestart, vars
<1>6. QED
  BY <1>1, <1>2, <1>3, <1>4, <1>5

\* A step that inserts a row nobody failed for is a request.
LEMMA FreshIsRequest ==
    ASSUME TypeOK, FailureHandledOnce, [Next]_vars, FreshStep
    PROVE  RequestStep
<1>1. PICK r \in Row : Insert(r) /\ r.retry_of = NULL
  BY DEF FreshStep
<1>2. n' = n + 1 /\ row'[n + 1] = r /\ n \in Nat
  BY <1>1, InsertType DEF TypeOK
<1>3. CASE Enqueues
  BY <1>2, <1>3, EnqueuesRequest
<1>4. ASSUME NEW p \in Task, Insert(RetryRow(p)), RetryRow(p) \in Row PROVE FALSE
  <2>1. row'[n + 1] = RetryRow(p)
    BY <1>4, InsertType
  <2>2. RetryRow(p).retry_of = p /\ p # NULL
    BY DEF RetryRow, Task, NULL
  <2>3. QED
    BY <1>1, <1>2, <2>1, <2>2
<1>5. QED
  BY <1>2, <1>3, <1>4, OthersRetry DEF Next

-----------------------------------------------------------------------------
\* Rows and jobs, step by step.

\* The stages of the statuses, and what may become of a stage.
LEMMA StageTable ==
    /\ StageOf["deferred"] = "waiting" /\ StageOf["queued"] = "waiting"
    /\ StageOf["dispatched"] = "held" /\ StageOf["waiting_local_directory"] = "held"
    /\ StageOf["running"] = "started" /\ StageOf["completed"] = "completed"
    /\ StageOf["failed"] = "failed" /\ StageOf["cancelled"] = "cancelled"
    /\ Ledger!Moves["none"] = {"none"}
    /\ Ledger!Moves["waiting"] = {"waiting", "failed", "cancelled"}
    /\ Ledger!Moves["held"] = {"held", "waiting", "started", "failed", "cancelled"}
    /\ Ledger!Moves["started"] = {"started", "completed", "failed", "cancelled"}
    /\ Ledger!Moves["failed"] = {"failed"} /\ Ledger!Moves["completed"] = {"completed"}
    /\ Ledger!Moves["cancelled"] = {"cancelled"}
    /\ Ledger!Stage = {"none", "waiting", "held", "started", "failed", "completed", "cancelled"}
BY DEF StageOf, Ledger!Moves, Ledger!Stage

\* A row that is not claimed moves as its job may.
LEMMA RowMoves ==
    ASSUME TypeOK, TypeOK', NEW t \in Task, Inserted(t), Inserted(t)',
           Advances(t), NotClaimed(t), OnlyStartedComplete
    PROVE  /\ StageOf[status'[t]] \in Ledger!Moves[StageOf[status[t]]]
           /\ StageOf[status'[t]] \in Ledger!Stage
<1>1. status[t] \in Cancellable \cup Terminal /\ status'[t] \in Cancellable \cup Terminal
  BY DEF TypeOK, Status, Inserted
<1>2. CASE status'[t] = status[t]
  BY <1>1, <1>2, StageTable DEF Cancellable, InFlight, Terminal
<1>3. CASE status[t] \in {"deferred", "queued"} /\ status'[t] # status[t]
  <2>1. status'[t] \in {"deferred", "queued", "failed", "cancelled"}
    BY <1>1, <1>3 DEF NotClaimed, OnlyStartedComplete, Cancellable, InFlight, Terminal
  <2>2. QED
    BY <1>3, <2>1, StageTable
<1>4. CASE status[t] \in {"dispatched", "waiting_local_directory"} /\ status'[t] # status[t]
  <2>1. status'[t] \in Cancellable \cup {"failed", "cancelled"}
    BY <1>1, <1>4 DEF OnlyStartedComplete, Terminal
  <2>2. QED
    BY <1>4, <2>1, StageTable DEF Cancellable, InFlight
<1>5. CASE status[t] = "running" /\ status'[t] # status[t]
  <2>1. status'[t] \in Terminal
    BY <1>5 DEF Advances
  <2>2. QED
    BY <1>5, <2>1, StageTable DEF Terminal
<1>6. CASE status[t] \in Terminal /\ status'[t] # status[t]
  BY <1>6 DEF Advances, Terminal, Cancellable, InFlight
<1>7. QED
  BY <1>1, <1>2, <1>3, <1>4, <1>5, <1>6 DEF Cancellable, InFlight

LedgerInv == LineageInv /\ JobsInv

\* The newest attempt of a job is a typed row, and the job has its agent and lane.
LEMMA LastOfJob ==
    LedgerInv => \A j \in Task : IsJob(j) =>
        /\ LastAttempt(j) \in Task /\ Newest(LastAttempt(j), j)
        /\ Inserted(LastAttempt(j)) /\ row[LastAttempt(j)] \in Row
        /\ jobStage[j] = StageOf[status[LastAttempt(j)]]
        /\ jobTries[j] = row[LastAttempt(j)].attempt
        /\ jobOwner[j] = <<row[j].agent, row[j].scope>>
        /\ row[LastAttempt(j)].agent = row[j].agent
        /\ row[LastAttempt(j)].scope = row[j].scope
        /\ row[j].agent \in Agent /\ row[j].scope \in Scope
<1> SUFFICES ASSUME LedgerInv, NEW j \in Task, IsJob(j)
             PROVE  /\ LastAttempt(j) \in Task /\ Newest(LastAttempt(j), j)
                    /\ Inserted(LastAttempt(j)) /\ row[LastAttempt(j)] \in Row
                    /\ jobStage[j] = StageOf[status[LastAttempt(j)]]
                    /\ jobTries[j] = row[LastAttempt(j)].attempt
                    /\ jobOwner[j] = <<row[j].agent, row[j].scope>>
                    /\ row[LastAttempt(j)].agent = row[j].agent
                    /\ row[LastAttempt(j)].scope = row[j].scope
                    /\ row[j].agent \in Agent /\ row[j].scope \in Scope
  OBVIOUS
<1>1. LastAttempt(j) \in Task /\ Newest(LastAttempt(j), j)
  BY LastIsNewest DEF LedgerInv
<1>2. PICK t \in Task : t = LastAttempt(j) /\ Inserted(t) /\ root[t] = j
  BY <1>1 DEF Newest
<1>3. row[t] \in Row /\ row[j] \in Row
  BY <1>2 DEF LedgerInv, LineageInv, TypeOK, IsJob
<1>4. row[t].agent = row[j].agent /\ row[t].scope = row[j].scope
  BY <1>2 DEF LedgerInv, JobsInv, RootsAreJobs
<1>5. row[j].agent \in Agent /\ row[j].scope \in Scope
  BY <1>3 DEF Row
<1>6. /\ jobStage[j] = StageOf[status[LastAttempt(j)]]
      /\ jobTries[j] = row[LastAttempt(j)].attempt
      /\ jobOwner[j] = <<row[j].agent, row[j].scope>>
  BY DEF jobStage, jobTries, jobOwner
<1>7. QED
  BY <1>1, <1>2, <1>3, <1>4, <1>5, <1>6

\* A row number that is no job's has no stage.
LEMMA NoJob ==
    \A j \in Task : ~ IsJob(j) => jobStage[j] = "none" /\ jobTries[j] = 0 /\ jobOwner[j] = NoRow
BY DEF jobStage, jobTries, jobOwner

\* The mapped variables are functions on row numbers.
LEMMA JobFunctions ==
    /\ jobStage = [j \in Task |-> jobStage[j]]
    /\ jobTries = [j \in Task |-> jobTries[j]]
    /\ jobOwner = [j \in Task |-> jobOwner[j]]
BY DEF jobStage, jobTries, jobOwner

\* A status update moves any number of jobs on.
LEMMA UpdateIsProgress ==
    ASSUME LedgerInv, TypeOK', UpdateStep, OnlyStartedComplete
    PROVE  JobsInv' /\ Ledger!Progress
<1>1. TypeOK /\ JobsInv /\ UNCHANGED <<n, row>>
  BY DEF LedgerInv, LineageInv, UpdateStep
<1>2. /\ JobsInv'
      /\ \A j \in Task : IsJob(j)' <=> IsJob(j)
      /\ \A j \in Task : IsJob(j) => LastAttempt(j)' = LastAttempt(j)
  BY <1>1, JobsKept
<1>3. (\A j \in Task : ~ IsJob(j) => jobStage[j] = "none" /\ jobTries[j] = 0 /\ jobOwner[j] = NoRow)'
  BY NoJob, PTL
<1>4. \A j \in Task : IsJob(j)' =>
          /\ jobStage'[j] = StageOf[status'[LastAttempt(j)']]
          /\ jobTries'[j] = row'[LastAttempt(j)'].attempt
          /\ jobOwner'[j] = <<row'[j].agent, row'[j].scope>>
  BY DEF jobStage, jobTries, jobOwner
<1>5. ASSUME NEW j \in Task
      PROVE  /\ jobStage'[j] \in Ledger!Moves[jobStage[j]] /\ jobStage'[j] \in Ledger!Stage
             /\ jobTries'[j] = jobTries[j] /\ jobOwner'[j] = jobOwner[j]
  <2>1. CASE IsJob(j)
    <3>1. PICK t \in Task : /\ t = LastAttempt(j) /\ Inserted(t)
                            /\ jobStage[j] = StageOf[status[t]]
                            /\ jobTries[j] = row[t].attempt
                            /\ jobOwner[j] = <<row[j].agent, row[j].scope>>
      BY <2>1, LastOfJob
    <3>2. jobStage'[j] = StageOf[status'[t]] /\ jobTries'[j] = row'[t].attempt
          /\ jobOwner'[j] = <<row'[j].agent, row'[j].scope>>
      BY <1>2, <1>4, <2>1, <3>1
    <3>3. Inserted(t)' /\ Advances(t) /\ NotClaimed(t)
      BY <1>1, <3>1 DEF UpdateStep, TypeOK
    <3>4. QED
      BY <1>1, <3>1, <3>2, <3>3, RowMoves
  <2>2. CASE ~ IsJob(j)
    BY <1>2, <1>3, <2>2, NoJob, StageTable
  <2>3. QED
    BY <2>1, <2>2
<1>6. /\ jobStage' = [j \in Task |-> jobStage'[j]]
      /\ jobTries' = [j \in Task |-> jobTries'[j]]
      /\ jobOwner' = [j \in Task |-> jobOwner'[j]]
  BY DEF jobStage, jobTries, jobOwner
<1>7. jobStage' \in [Task -> Ledger!Stage]
  BY <1>5, <1>6
<1>8. jobTries' = jobTries /\ jobOwner' = jobOwner
  BY <1>5, <1>6, JobFunctions
<1>9. QED
  BY <1>2, <1>5, <1>7, <1>8 DEF Ledger!Progress

\* The jobs in hand are those with a row in flight.
LEMMA InHandInFlight ==
    ASSUME LedgerInv, NEW j \in Task, Ledger!InHand(j)
    PROVE  IsJob(j) /\ LastAttempt(j) \in Task /\ status[LastAttempt(j)] \in InFlight
<1>1. jobStage[j] \in {"held", "started"}
  BY DEF Ledger!InHand
<1>2. IsJob(j)
  BY <1>1, NoJob
<1>3. PICK t \in Task : t = LastAttempt(j) /\ Inserted(t) /\ jobStage[j] = StageOf[status[t]]
  BY <1>2, LastOfJob
<1>4. status[t] \in Cancellable \cup Terminal
  BY <1>3 DEF LedgerInv, LineageInv, TypeOK, Status, Inserted
<1>5. status[t] \in InFlight
  BY <1>1, <1>3, <1>4, StageTable DEF Cancellable, Terminal, InFlight
<1>6. QED
  BY <1>2, <1>3, <1>5

\* An agent has no more jobs in hand than rows in flight.
LEMMA HandsFull ==
    ASSUME LedgerInv, NEW a \in Agent
    PROVE  /\ Cardinality({i \in Task : Ledger!InHand(i) /\ jobOwner[i][1] = a}) \in Nat
           /\ Cardinality({i \in Task : Ledger!InHand(i) /\ jobOwner[i][1] = a}) <= Cardinality(Runs(a))
<1> DEFINE K == {i \in Task : Ledger!InHand(i) /\ jobOwner[i][1] = a}
           T == {root[t] : t \in Runs(a)}
           f == [t \in Runs(a) |-> root[t]]
<1>1. K \subseteq T
  <2> SUFFICES ASSUME NEW i \in K PROVE i \in T
    OBVIOUS
  <2>1. PICK t \in Task : t = LastAttempt(i) /\ status[t] \in InFlight
    BY InHandInFlight
  <2>2. IsJob(i) /\ jobOwner[i] = <<row[i].agent, row[i].scope>>
        /\ Newest(LastAttempt(i), i) /\ row[LastAttempt(i)].agent = row[i].agent
    BY InHandInFlight, LastOfJob
  <2>3. row[t].agent = a /\ root[t] = i
    BY <2>1, <2>2 DEF Newest
  <2>4. QED
    BY <2>1, <2>3 DEF Runs
<1>2. f \in Surjection(Runs(a), T)
  BY DEF Surjection
<1>3. IsFiniteSet(T) /\ Cardinality(T) <= Cardinality(Runs(a))
  BY <1>2, RunsFinite, FS_Surjection
<1> HIDE DEF K, T, f
<1>4. IsFiniteSet(K) /\ Cardinality(K) <= Cardinality(T)
  BY <1>1, <1>3, FS_Subset
<1>5. Cardinality(K) \in Nat /\ Cardinality(T) \in Nat /\ Cardinality(Runs(a)) \in Nat
  BY <1>3, <1>4, FS_CardinalityType, RunsFinite
<1>6. Cardinality(K) \in Nat /\ Cardinality(K) <= Cardinality(Runs(a))
  BY <1>3, <1>4, <1>5
<1>7. QED
  BY <1>6 DEF K

\* A claim takes up the job whose newest attempt it claims: the lane is free, as
\* every job in hand there would have its row in flight, and so is a slot.
LEMMA ClaimIsTake ==
    ASSUME LedgerInv, TypeOK', NEW a \in Agent, NEW t \in Task, ClaimTask(a, t)
    PROVE  JobsInv' /\ Ledger!Take(root[t])
<1> DEFINE j == root[t]
<1>1. /\ TypeOK /\ JobsInv /\ RetryLineage
      /\ UNCHANGED <<n, row>>
      /\ status[t] = "queued" /\ row[t].agent = a
      /\ \A u \in Task : status'[u] = IF u = t THEN "dispatched" ELSE status[u]
      /\ \A u \in Task : status[u] \in InFlight => ~ SameKey(t, u)
  BY DEF LedgerInv, LineageInv, ClaimTask, Claimable, TypeOK, SameKey
<1>2. /\ JobsInv'
      /\ \A i \in Task : IsJob(i)' <=> IsJob(i)
      /\ \A i \in Task : IsJob(i) => LastAttempt(i)' = LastAttempt(i)
  BY <1>1, JobsKept
<1>3. Inserted(t) /\ status[t] # "failed"
  BY <1>1 DEF Inserted
<1>4. /\ j \in Task /\ IsJob(j) /\ LastAttempt(j) = t
      /\ row[t].agent = row[j].agent /\ row[t].scope = row[j].scope
  <2>1. /\ j \in Task /\ IsJob(j)
        /\ row[t].agent = row[j].agent /\ row[t].scope = row[j].scope
    BY <1>1, <1>3 DEF JobsInv, RootsAreJobs
  <2>2. Newest(t, j)
    BY <1>1, <1>3, LiveIsNewest
  <2>3. LastAttempt(j) = t
    BY <1>1, <2>1, <2>2, NewestIsLast
  <2>4. QED
    BY <2>1, <2>3
<1> HIDE DEF j
<1>5. /\ jobStage[j] = "waiting"
      /\ jobOwner[j] = <<a, row[t].scope>>
  BY <1>1, <1>4, LastOfJob, StageTable
<1>6. /\ jobStage' = [i \in Task |-> jobStage'[i]]
      /\ jobTries' = [i \in Task |-> jobTries'[i]]
      /\ jobOwner' = [i \in Task |-> jobOwner'[i]]
      /\ \A i \in Task : IsJob(i)' =>
            /\ jobStage'[i] = StageOf[status'[LastAttempt(i)']]
            /\ jobTries'[i] = row'[LastAttempt(i)'].attempt
            /\ jobOwner'[i] = <<row'[i].agent, row'[i].scope>>
      /\ \A i \in Task : ~ IsJob(i)' =>
            jobStage'[i] = "none" /\ jobTries'[i] = 0 /\ jobOwner'[i] = NoRow
  BY DEF jobStage, jobTries, jobOwner
<1>7. ASSUME NEW i \in Task
      PROVE  /\ jobStage'[i] = IF i = j THEN "held" ELSE jobStage[i]
             /\ jobTries'[i] = jobTries[i] /\ jobOwner'[i] = jobOwner[i]
  <2>1. CASE IsJob(i)
    <3>1. PICK u \in Task : /\ u = LastAttempt(i) /\ Newest(u, i)
                            /\ jobStage[i] = StageOf[status[u]]
                            /\ jobTries[i] = row[u].attempt
                            /\ jobOwner[i] = <<row[i].agent, row[i].scope>>
      BY <2>1, LastOfJob
    <3>2. jobStage'[i] = StageOf[status'[u]] /\ jobTries'[i] = row'[u].attempt
          /\ jobOwner'[i] = <<row'[i].agent, row'[i].scope>>
      BY <1>2, <1>6, <2>1, <3>1
    <3>3. u = t <=> i = j
      BY <1>4, <3>1 DEF Newest, j
    <3>4. QED
      BY <1>1, <3>1, <3>2, <3>3, StageTable
  <2>2. CASE ~ IsJob(i)
    <3>1. jobStage[i] = "none" /\ jobTries[i] = 0 /\ jobOwner[i] = NoRow
      BY <2>2, NoJob
    <3>2. jobStage'[i] = "none" /\ jobTries'[i] = 0 /\ jobOwner'[i] = NoRow
      BY <1>2, <1>6, <2>2
    <3>3. i # j
      BY <1>4, <2>2
    <3>4. QED
      BY <3>1, <3>2, <3>3
  <2>3. QED
    BY <2>1, <2>2
<1>8. jobTries' = jobTries /\ jobOwner' = jobOwner
  BY <1>6, <1>7, JobFunctions
<1>9. jobStage' = [jobStage EXCEPT ![j] = "held"]
  BY <1>6, <1>7, JobFunctions
<1>10. ASSUME jobOwner[j][2] # RunOnly, NEW i \in Task, Ledger!InHand(i), jobOwner[i] = jobOwner[j]
       PROVE  FALSE
  <2>1. PICK u \in Task : u = LastAttempt(i) /\ status[u] \in InFlight
    BY <1>10, InHandInFlight
  <2>2. /\ jobOwner[i] = <<row[i].agent, row[i].scope>>
        /\ row[u].agent = row[i].agent /\ row[u].scope = row[i].scope
    BY <1>10, <2>1, InHandInFlight, LastOfJob
  <2>3. row[u].agent = row[t].agent /\ row[u].scope = row[t].scope /\ row[t].scope # RunOnly
    BY <1>1, <1>5, <1>10, <2>2
  <2>4. QED
    BY <1>1, <2>1, <2>3 DEF SameKey
<1>11. Cardinality({i \in Task : Ledger!InHand(i) /\ jobOwner[i][1] = jobOwner[j][1]})
           < MaxConcurrent[jobOwner[j][1]]
  <2>1. jobOwner[j][1] = a
    BY <1>5
  <2>2. Cardinality(Runs(a)) < MaxConcurrent[a] /\ MaxConcurrent[a] \in Nat
    BY ConstantsAssumption DEF ClaimTask, CountRunningTasks
  <2>3. Cardinality({i \in Task : Ledger!InHand(i) /\ jobOwner[i][1] = a}) < MaxConcurrent[a]
    BY <2>2, HandsFull, RunsFinite
  <2>4. QED
    BY <2>1, <2>3
<1>12. Ledger!Take(j)
  <2>1. jobOwner[j][2] # RunOnly =>
            \A i \in Task : Ledger!InHand(i) => jobOwner[i] # jobOwner[j]
    BY <1>10
  <2>2. Ledger!Cardinality({i \in Task : Ledger!InHand(i) /\ jobOwner[i][1] = jobOwner[j][1]})
            < MaxConcurrent[jobOwner[j][1]]
    BY <1>11, Zenon DEF Ledger!Cardinality, Cardinality
  <2>3. QED
    BY <1>5, <1>8, <1>9, <2>1, <2>2 DEF Ledger!Take
<1>13. QED
  BY <1>2, <1>12 DEF j

\* A fresh row is a job that may replace others of its agent and lane.
LEMMA RequestIsRequest ==
    ASSUME LedgerInv, TypeOK', RequestStep
    PROVE  JobsInv' /\ \E j \in Task : \E k \in Agent \X Scope : Ledger!Request(j, k)
<1>1. PICK r \in Row :
           /\ Insert(r)
           /\ r.retry_of = NULL /\ r.attempt = 1
           /\ status'[n + 1] \in {"queued", "deferred"}
           /\ ReplacedBy(r)
  BY DEF RequestStep
<1>2. TypeOK /\ RetryLineage /\ JobsInv
  BY DEF LedgerInv, LineageInv
<1>3. /\ n' = n + 1 /\ n + 1 \in Task /\ row'[n + 1] = r
      /\ \A t \in Task : t # n + 1 => row'[t] = row[t]
  BY <1>1, <1>2, InsertType
<1>4. /\ JobsInv'
      /\ \A j \in Task : IsJob(j)' <=> (IsJob(j) \/ j = n + 1)
      /\ \A j \in Task : IsJob(j) => LastAttempt(j)' = LastAttempt(j)
      /\ ~ IsJob(n + 1)
      /\ \A j \in Task : j = n + 1 => LastAttempt(j)' = j
  BY <1>1, <1>2, JobsGrow
<1>5. PICK new \in Task : new = n + 1
  BY <1>3
<1> DEFINE k == <<r.agent, r.scope>>
           S == {i \in Task : i # new /\ jobStage'[i] # jobStage[i]}
<1>6. k \in Agent \X Scope
  BY DEF Row
<1>7. /\ jobStage' = [i \in Task |-> jobStage'[i]]
      /\ jobTries' = [i \in Task |-> jobTries'[i]]
      /\ jobOwner' = [i \in Task |-> jobOwner'[i]]
      /\ \A i \in Task : IsJob(i)' =>
            /\ jobStage'[i] = StageOf[status'[LastAttempt(i)']]
            /\ jobTries'[i] = row'[LastAttempt(i)'].attempt
            /\ jobOwner'[i] = <<row'[i].agent, row'[i].scope>>
      /\ \A i \in Task : ~ IsJob(i)' =>
            jobStage'[i] = "none" /\ jobTries'[i] = 0 /\ jobOwner'[i] = NoRow
  BY DEF jobStage, jobTries, jobOwner
<1>8. ASSUME NEW i \in Task, i # new
      PROVE  /\ jobTries'[i] = jobTries[i] /\ jobOwner'[i] = jobOwner[i]
             /\ \/ jobStage'[i] = jobStage[i]
                \/ /\ jobStage'[i] = "cancelled"
                   /\ jobOwner[i] = k /\ "cancelled" \in Ledger!Moves[jobStage[i]]
  <2>1. CASE IsJob(i)
    <3>1. PICK u \in Task : /\ u = LastAttempt(i) /\ Inserted(u)
                            /\ jobStage[i] = StageOf[status[u]]
                            /\ jobTries[i] = row[u].attempt
                            /\ jobOwner[i] = <<row[i].agent, row[i].scope>>
                            /\ row[u].agent = row[i].agent /\ row[u].scope = row[i].scope
      BY <2>1, LastOfJob
    <3>2. jobStage'[i] = StageOf[status'[u]] /\ jobTries'[i] = row'[u].attempt
          /\ jobOwner'[i] = <<row'[i].agent, row'[i].scope>>
      BY <1>4, <1>7, <2>1, <3>1
    <3>3. u # n + 1
      BY <1>2, <3>1 DEF TypeOK, Task
    <3>4. row'[u] = row[u] /\ row'[i] = row[i]
      BY <1>3, <1>5, <1>8, <3>3
    <3>5. CASE status'[u] = status[u]
      BY <3>1, <3>2, <3>4, <3>5
    <3>6. CASE /\ status[u] \in Cancellable /\ status'[u] = "cancelled"
               /\ row[u].agent = r.agent /\ row[u].scope = r.scope
      <4>1. jobStage'[i] = "cancelled" /\ jobOwner[i] = k
        BY <3>1, <3>2, <3>6, StageTable
      <4>2. "cancelled" \in Ledger!Moves[jobStage[i]]
        BY <3>1, <3>6, StageTable DEF Cancellable, InFlight
      <4>3. QED
        BY <3>1, <3>2, <3>4, <4>1, <4>2
    <3>7. QED
      BY <1>1, <3>3, <3>5, <3>6 DEF ReplacedBy
  <2>2. CASE ~ IsJob(i)
    <3>1. jobStage[i] = "none" /\ jobTries[i] = 0 /\ jobOwner[i] = NoRow
      BY <2>2, NoJob
    <3>2. jobStage'[i] = "none" /\ jobTries'[i] = 0 /\ jobOwner'[i] = NoRow
      BY <1>4, <1>5, <1>7, <1>8, <2>2
    <3>3. QED
      BY <3>1, <3>2
  <2>3. QED
    BY <2>1, <2>2
<1>9. /\ jobStage[new] = "none" /\ jobStage'[new] = "waiting"
      /\ jobTries'[new] = 1 /\ jobOwner'[new] = k
  <2>1. jobStage[new] = "none"
    BY <1>4, <1>5, NoJob
  <2>2. /\ jobStage'[new] = StageOf[status'[new]] /\ jobTries'[new] = row'[new].attempt
        /\ jobOwner'[new] = <<row'[new].agent, row'[new].scope>>
    BY <1>4, <1>5, <1>7
  <2>3. QED
    BY <1>1, <1>3, <1>5, <2>1, <2>2, StageTable
<1> HIDE DEF k
<1>10. S \in SUBSET {i \in Task : jobOwner[i] = k /\ "cancelled" \in Ledger!Moves[jobStage[i]]}
  BY <1>8
<1>11. jobStage' = [i \in Task |-> IF i = new THEN "waiting"
                                   ELSE IF i \in S THEN "cancelled" ELSE jobStage[i]]
  <2>1. \A i \in Task : jobStage'[i] = IF i = new THEN "waiting"
                                       ELSE IF i \in S THEN "cancelled" ELSE jobStage[i]
    BY <1>8, <1>9
  <2> HIDE DEF S
  <2>2. QED
    BY <1>7, <2>1
<1> HIDE DEF S
<1>12. jobTries' = [jobTries EXCEPT ![new] = 1]
  BY <1>7, <1>8, <1>9, JobFunctions
<1>13. jobOwner' = [jobOwner EXCEPT ![new] = k]
  BY <1>7, <1>8, <1>9, JobFunctions
<1>14. Ledger!Request(new, k)
  BY <1>9, <1>10, <1>11, <1>12, <1>13 DEF Ledger!Request
<1>15. QED
  BY <1>4, <1>6, <1>14

\* A retry is the next attempt at the job of the row it retries, and that row was
\* in flight or had failed.
LEMMA RetryIsRetry ==
    ASSUME LedgerInv, TypeOK', NEW p \in Task, RetryStep(p)
    PROVE  JobsInv' /\ \E j \in Task : Ledger!Retry(j)
<1> DEFINE r == RetryRow(p)
<1>1. TypeOK /\ RetryLineage /\ FailureHandledOnce /\ JobsInv
  BY DEF LedgerInv, LineageInv
<1>2. /\ n' = n + 1 /\ n + 1 \in Task /\ row'[n + 1] = r
      /\ \A t \in Task : t # n + 1 => row'[t] = row[t]
  BY <1>1, InsertType DEF RetryStep
<1>3. status[p] \in InFlight \cup {"failed"} /\ Inserted(p) /\ p # n + 1
  BY <1>1, <1>2 DEF RetryStep, InFlight, Inserted, TypeOK, Task
<1>4. ~ HasRetry(p)
  <2>1. CASE status[p] \in InFlight
    BY <1>1, <1>3, <2>1, LiveIsNewest DEF InFlight, Newest
  <2>2. CASE \E h \in Handler : p \in batch[h]
    BY <1>1, <2>2 DEF FailureHandledOnce
  <2>3. QED
    BY <2>1, <2>2 DEF RetryStep
<1>5. RetryRow(p) \in Row /\ Insert(RetryRow(p))
  BY DEF RetryStep
<1>6. /\ JobsInv'
      /\ \A j \in Task : IsJob(j)' <=> IsJob(j)
      /\ \A j \in Task : IsJob(j) /\ j # root[p] => LastAttempt(j)' = LastAttempt(j)
      /\ \A j \in Task : j = root[p] => LastAttempt(j) = p /\ LastAttempt(j)' = n + 1
  BY <1>1, <1>3, <1>4, <1>5, JobsRetried
<1>7. PICK j \in Task : j = root[p] /\ IsJob(j)
  BY <1>1, <1>3 DEF JobsInv, RootsAreJobs
<1>8. /\ jobStage' = [i \in Task |-> jobStage'[i]]
      /\ jobTries' = [i \in Task |-> jobTries'[i]]
      /\ jobOwner' = [i \in Task |-> jobOwner'[i]]
      /\ \A i \in Task : IsJob(i)' =>
            /\ jobStage'[i] = StageOf[status'[LastAttempt(i)']]
            /\ jobTries'[i] = row'[LastAttempt(i)'].attempt
            /\ jobOwner'[i] = <<row'[i].agent, row'[i].scope>>
      /\ \A i \in Task : ~ IsJob(i)' =>
            jobStage'[i] = "none" /\ jobTries'[i] = 0 /\ jobOwner'[i] = NoRow
  BY DEF jobStage, jobTries, jobOwner
<1>9. \A i \in Task : IsJob(i) => i # n + 1
  BY <1>1 DEF IsJob, TypeOK, Task
<1>10. ASSUME NEW i \in Task, i # j
       PROVE  jobStage'[i] = jobStage[i] /\ jobTries'[i] = jobTries[i] /\ jobOwner'[i] = jobOwner[i]
  <2>1. CASE IsJob(i)
    <3>1. PICK u \in Task : /\ u = LastAttempt(i) /\ Newest(u, i) /\ Inserted(u)
                            /\ jobStage[i] = StageOf[status[u]]
                            /\ jobTries[i] = row[u].attempt
                            /\ jobOwner[i] = <<row[i].agent, row[i].scope>>
      BY <2>1, LastOfJob
    <3>2. jobStage'[i] = StageOf[status'[u]] /\ jobTries'[i] = row'[u].attempt
          /\ jobOwner'[i] = <<row'[i].agent, row'[i].scope>>
      BY <1>6, <1>7, <1>8, <1>10, <2>1, <3>1
    <3>3. u # n + 1 /\ u # p
      BY <1>1, <1>7, <1>10, <3>1 DEF TypeOK, Task, Newest
    <3>4. row'[u] = row[u] /\ row'[i] = row[i] /\ status'[u] = status[u]
      BY <1>2, <1>9, <2>1, <3>3 DEF RetryStep
    <3>5. QED
      BY <3>1, <3>2, <3>4
  <2>2. CASE ~ IsJob(i)
    <3>1. jobStage[i] = "none" /\ jobTries[i] = 0 /\ jobOwner[i] = NoRow
      BY <2>2, NoJob
    <3>2. jobStage'[i] = "none" /\ jobTries'[i] = 0 /\ jobOwner'[i] = NoRow
      BY <1>6, <1>8, <2>2
    <3>3. QED
      BY <3>1, <3>2
  <2>3. QED
    BY <2>1, <2>2
<1>11. /\ jobStage[j] = StageOf[status[p]] /\ jobTries[j] = row[p].attempt
       /\ jobOwner[j] = <<row[j].agent, row[j].scope>>
  BY <1>6, <1>7, LastOfJob
<1>12. /\ jobStage'[j] = "waiting" /\ jobTries'[j] = row[p].attempt + 1
       /\ jobOwner'[j] = jobOwner[j]
  <2>1. /\ jobStage'[j] = StageOf[status'[n + 1]] /\ jobTries'[j] = row'[n + 1].attempt
        /\ jobOwner'[j] = <<row'[j].agent, row'[j].scope>>
    BY <1>6, <1>7, <1>8
  <2>2. status'[n + 1] = "queued" /\ r.attempt = row[p].attempt + 1
    BY DEF RetryStep, RetryRow
  <2>3. row'[j] = row[j]
    BY <1>2, <1>7, <1>9
  <2>4. QED
    BY <1>2, <1>11, <2>1, <2>2, <2>3, StageTable
<1>13. jobStage[j] \in {"held", "started", "failed"} /\ jobTries[j] < MaxAttempts
  BY <1>3, <1>11, StageTable DEF InFlight, RetryStep, RetryEligible
<1>14. /\ jobStage' = [jobStage EXCEPT ![j] = "waiting"]
       /\ jobTries' = [jobTries EXCEPT ![j] = @ + 1]
       /\ jobOwner' = jobOwner
  BY <1>8, <1>10, <1>11, <1>12, JobFunctions
<1>15. Ledger!Retry(j)
  BY <1>13, <1>14 DEF Ledger!Retry, Ledger!InHand
<1>16. QED
  BY <1>6, <1>15

-----------------------------------------------------------------------------
\* The refinement.

\* The empty table is the empty ledger.
LEMMA InitLedger == Init => LedgerInv /\ Ledger!Init
<1> SUFFICES ASSUME Init PROVE LedgerInv /\ Ledger!Init
  OBVIOUS
<1>1. LineageInv
  BY InitLineage
<1>2. \A t \in Task : ~ Inserted(t)
  BY DEF Init, Inserted
<1>3. \A f : Rooting(f) <=> f = [t \in Task |-> t]
  BY <1>2 DEF Rooting
<1>4. JobsInv
  BY <1>2, <1>3 DEF JobsInv, OneRooting, RootsAreJobs, OneNewest, IsJob, Newest
<1>5. Ledger!Init
  BY <1>2 DEF Ledger!Init, jobStage, jobTries, jobOwner, IsJob
<1>6. QED
  BY <1>1, <1>4, <1>5 DEF LedgerInv

\* Every step of the queue keeps the jobs sound and is a step of the ledger.
LEMMA StepRefinesLedger ==
    ASSUME LedgerInv, [Next]_vars
    PROVE  LedgerInv' /\ Ledger!Next
<1>1. TypeOK /\ FailureHandledOnce /\ LineageInv
  BY DEF LedgerInv, LineageInv
<1>2. TypeOK' /\ TableStep /\ LineageInv'
  BY <1>1, StepShape, LineageInductive
<1>3. OnlyStartedComplete
  BY <1>1, EnqueuesRequest, OthersRetry DEF Next
<1>4. CASE UpdateStep
  BY <1>2, <1>3, <1>4, UpdateIsProgress DEF LedgerInv, Ledger!Next
<1>5. ASSUME NEW a \in Agent, NEW t \in Task, ClaimTask(a, t)
      PROVE  LedgerInv' /\ Ledger!Next
  <2>1. JobsInv' /\ Ledger!Take(root[t])
    BY <1>2, <1>5, ClaimIsTake
  <2>2. root[t] \in Task
    BY <1>5 DEF LedgerInv, JobsInv, RootsAreJobs, ClaimTask, Claimable, Inserted
  <2>3. QED
    BY <1>2, <2>1, <2>2 DEF LedgerInv, Ledger!Next
<1>6. CASE FreshStep
  <2>1. RequestStep
    BY <1>1, <1>6, FreshIsRequest
  <2>2. JobsInv' /\ \E j \in Task : \E k \in Agent \X Scope : Ledger!Request(j, k)
    BY <1>2, <2>1, RequestIsRequest
  <2>3. QED
    BY <1>2, <2>2 DEF LedgerInv, Ledger!Next
<1>7. ASSUME NEW p \in Task, RetryStep(p) PROVE LedgerInv' /\ Ledger!Next
  <2>1. JobsInv' /\ \E j \in Task : Ledger!Retry(j)
    BY <1>2, <1>7, RetryIsRetry
  <2>2. QED
    BY <1>2, <2>1 DEF LedgerInv, Ledger!Next
<1>8. QED
  BY <1>2, <1>4, <1>5, <1>6, <1>7 DEF TableStep

\* For any number of rows, agents, handlers and limits, with and without
\* restarts, a row and its retries are one job, worked on by one attempt after the
\* other within max_attempts, one job of a lane at a time and within the agent's
\* slots, and over once completed or cancelled (ClaimTask, FailTask,
\* HandleFailedTasks, CancelTask, RerunIssue).
THEOREM QueueKeepsLedger == Spec => ImplementsWorkLedger
<1>1. LedgerInv /\ [Next]_vars => LedgerInv' /\ [Ledger!Next]_(Ledger!vars)
  BY StepRefinesLedger
<1>2. QED
  BY <1>1, InitLedger, PTL DEF Spec, ImplementsWorkLedger, Ledger!Spec
=============================================================================
