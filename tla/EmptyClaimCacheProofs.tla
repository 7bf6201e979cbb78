------------------------ MODULE EmptyClaimCacheProofs ------------------------
(***************************************************************************)
(* The empty-claim cache never hides a claimable row whose Bump has run,   *)
(* for any number of tasks and of overlapping claim requests, while the    *)
(* dependency spine is off.                                                *)
(***************************************************************************)
EXTENDS EmptyClaimCache, TLAPS

\* An unused runtime: no keys, no requests.
LEMMA TypeInit == Init => TypeOK
BY CacheAssumption DEF Init, TypeOK, NoVerdict

\* No Redis call, expiry or row transition breaks a type.
LEMMA TypeStep == TypeOK /\ [Next]_vars => TypeOK'
<1> SUFFICES ASSUME TypeOK, [Next]_vars PROVE TypeOK'
  OBVIOUS
<1> USE CacheAssumption DEF TypeOK
<1>0. ASSUME NEW t \in Task, Publish(t)
      PROVE  gen' \in [Task -> 0..MaxGen] /\ bumping' \in SUBSET (Task \X (1..MaxGen))
  BY <1>0 DEF Publish
<1>1. ASSUME NEW t \in Task,
             NotifyTaskEnqueued(t) \/ RequeueTaskAfterClaimFailure(t) \/ NotifyTaskFinished(t)
      PROVE  TypeOK'
  BY <1>0, <1>1 DEF NotifyTaskEnqueued, RequeueTaskAfterClaimFailure, NotifyTaskFinished, cache
<1>2. ASSUME NEW x \in bumping, Bump(x) \/ BumpLost(x) PROVE TypeOK'
  BY <1>2 DEF Bump, BumpLost, cache
<1>3. ASSUME NEW B \in SUBSET Task, RecomputeWorkspaceBlocked(B) PROVE TypeOK'
  BY <1>3 DEF RecomputeWorkspaceBlocked, rows, cache
<1>4. ASSUME NEW p \in Poller, Poll(p) \/ CheckFails(p) PROVE TypeOK'
  <2>1. CASE CheckIsEmpty(p) \/ CheckFails(p) \/ Select(p)
    BY <2>1 DEF CheckIsEmpty, CheckFails, Select, Goto, rows, cache
  <2>2. CASE CurrentVersion(p)
    <3>1. seen' \in [Poller -> Nat]
      BY <2>2 DEF CurrentVersion
    <3>2. QED
      BY <2>2, <3>1 DEF CurrentVersion, Goto, rows, cache
  <2>3. CASE MarkEmpty(p)
    BY <2>3 DEF MarkEmpty, Goto, rows
  <2>4. CASE ClaimTask(p)
    <3>1. task' \in [Task -> {"new", "queued", "claimed", "finished"}]
      BY <2>4 DEF ClaimTask, Queued
    <3>2. QED
      BY <2>4, <3>1 DEF ClaimTask, Goto, cache
  <2>5. QED
    BY <1>4, <2>1, <2>2, <2>3, <2>4 DEF Poll
<1>5. CASE VerdictExpires \/ VersionExpires
  BY <1>5 DEF VerdictExpires, VersionExpires, rows
<1>6. CASE UNCHANGED vars
  BY <1>6 DEF vars
<1>7. QED
  BY <1>1, <1>2, <1>3, <1>4, <1>5, <1>6 DEF Next

CacheInv == TypeOK /\ NeverStalled /\ LateVerdictRejected

\* What a row still owes the cache.
Accounted(t) == <<t, gen[t]>> \in bumping \cup lost

\* A step that makes no unaccounted row claimable.
LEMMA QuietStep ==
    ASSUME CacheInv, UNCHANGED <<cache, seen>>,
           \A p \in Poller : pc'[p] \in {"select", "mark"} => pc'[p] = pc[p],
           \A t \in Task : t \in ListQueuedClaimCandidates' =>
               \/ Accounted(t)'
               \/ t \in ListQueuedClaimCandidates /\ (Accounted(t) => Accounted(t)')
    PROVE  NeverStalled' /\ LateVerdictRejected'
<1>1. ASSUME \A t \in ListQueuedClaimCandidates : Accounted(t)
      PROVE  \A t \in ListQueuedClaimCandidates' : Accounted(t)'
  BY <1>1 DEF ListQueuedClaimCandidates, Queued
<1>2. NeverStalled'
  BY <1>1 DEF CacheInv, NeverStalled, Accounted, IsEmpty, cache
<1>3. LateVerdictRejected'
  BY <1>1 DEF CacheInv, LateVerdictRejected, Accounted, cache
<1>4. QED
  BY <1>2, <1>3

\* With the spine off, no step lets a trusted or pending verdict hide an
\* announced row: bumps outdate verdicts, and a select sees what is queued.
LEMMA CacheStep == ~ SpineOn /\ CacheInv /\ [Next]_vars => CacheInv'
<1> SUFFICES ASSUME ~ SpineOn, CacheInv, [Next]_vars PROVE NeverStalled' /\ LateVerdictRejected'
  BY TypeStep DEF CacheInv
<1>0. TypeOK /\ NeverStalled /\ LateVerdictRejected
  BY DEF CacheInv
<1>1. ASSUME NEW t \in Task,
             NotifyTaskEnqueued(t) \/ RequeueTaskAfterClaimFailure(t) \/ NotifyTaskFinished(t)
      PROVE  NeverStalled' /\ LateVerdictRejected'
  <2>1. /\ gen' = [gen EXCEPT ![t] = @ + 1] /\ bumping' = bumping \cup {<<t, gen[t] + 1>>}
        /\ UNCHANGED <<blocked, lost, cache, pc, seen>>
        /\ \A u \in Task : u # t => task'[u] = task[u]
    BY <1>0, <1>1
    DEF NotifyTaskEnqueued, RequeueTaskAfterClaimFailure, NotifyTaskFinished, Publish, TypeOK
  <2>2. Accounted(t)'
    BY <1>0, <2>1 DEF Accounted, TypeOK
  <2>3. \A u \in Task : u # t => (Accounted(u) => Accounted(u)')
    BY <1>0, <2>1 DEF Accounted, TypeOK
  <2>4. \A u \in Task : u # t => (u \in ListQueuedClaimCandidates' => u \in ListQueuedClaimCandidates)
    BY <2>1 DEF ListQueuedClaimCandidates, Queued
  <2>5. QED
    BY <2>1, <2>2, <2>3, <2>4, QuietStep
<1>2. ASSUME NEW x \in bumping, Bump(x) PROVE NeverStalled' /\ LateVerdictRejected'
  <2>1. verdict' < version' /\ version' = version + 1 /\ UNCHANGED <<pc, seen>>
    BY <1>0, <1>2 DEF Bump, LateVerdictRejected, TypeOK, NoVerdict
  <2>2. \A p \in Poller : pc'[p] \in {"select", "mark"} => seen'[p] < version'
    BY <1>0, <2>1 DEF LateVerdictRejected, TypeOK
  <2>3. verdict' \in Int /\ version' \in Int /\ \A p \in Poller : seen'[p] \in Int
    BY <1>0, <1>2 DEF Bump, TypeOK, NoVerdict
  <2>4. QED
    BY <2>1, <2>2, <2>3 DEF NeverStalled, LateVerdictRejected, IsEmpty
<1>3. ASSUME NEW x \in bumping, BumpLost(x) PROVE NeverStalled' /\ LateVerdictRejected'
  <2>1. \A t \in Task : Accounted(t) => Accounted(t)'
    BY <1>3 DEF BumpLost, Accounted
  <2>2. QED
    BY <1>3, <2>1, QuietStep DEF BumpLost, ListQueuedClaimCandidates, Queued
<1>4. ASSUME NEW B \in SUBSET Task, RecomputeWorkspaceBlocked(B) PROVE FALSE
  BY <1>4 DEF RecomputeWorkspaceBlocked
<1>5. ASSUME NEW p \in Poller, Poll(p) \/ CheckFails(p) PROVE NeverStalled' /\ LateVerdictRejected'
  <2>1. CASE CheckIsEmpty(p) \/ CheckFails(p)
    <3>1. UNCHANGED <<rows, blocked, lost, cache, seen>>
      BY <2>1 DEF CheckIsEmpty, CheckFails
    <3>2. \A q \in Poller : pc'[q] \in {"select", "mark"} => pc'[q] = pc[q]
      BY <1>0, <2>1 DEF CheckIsEmpty, CheckFails, Goto, TypeOK
    <3>3. QED
      BY <3>1, <3>2, QuietStep DEF rows, Accounted, ListQueuedClaimCandidates, Queued
  <2>2. CASE CurrentVersion(p)
    <3>1. /\ UNCHANGED <<rows, blocked, lost, cache>>
          /\ seen'[p] \in {version, 0} /\ pc'[p] = "select"
          /\ \A q \in Poller : q # p => seen'[q] = seen[q] /\ pc'[q] = pc[q]
      BY <1>0, <2>2 DEF CurrentVersion, Goto, TypeOK
    <3>2. seen'[p] <= version
      BY <1>0, <3>1 DEF TypeOK
    <3>3. NeverStalled'
      BY <1>0, <3>1 DEF NeverStalled, IsEmpty, ListQueuedClaimCandidates, Queued, rows, cache
    <3>4. LateVerdictRejected'
      BY <1>0, <3>1, <3>2
      DEF LateVerdictRejected, ListQueuedClaimCandidates, Queued, rows, cache
    <3>5. QED
      BY <3>3, <3>4
  <2>3. CASE Select(p)
    <3>1. /\ UNCHANGED <<rows, blocked, lost, cache, seen>>
          /\ pc[p] = "select" /\ pc'[p] \in {"mark", "claim"}
          /\ pc'[p] = "mark" => ListQueuedClaimCandidates = {}
          /\ \A q \in Poller : q # p => pc'[q] = pc[q]
      BY <1>0, <2>3 DEF Select, Goto, TypeOK
    <3>2. ListQueuedClaimCandidates' = ListQueuedClaimCandidates
      BY <3>1 DEF ListQueuedClaimCandidates, Queued, rows
    <3>3. NeverStalled'
      BY <1>0, <3>1, <3>2 DEF NeverStalled, IsEmpty, rows, cache
    <3>4. LateVerdictRejected'
      BY <1>0, <3>1, <3>2 DEF LateVerdictRejected, rows, cache
    <3>5. QED
      BY <3>3, <3>4
  <2>4. CASE MarkEmpty(p)
    <3>1. /\ UNCHANGED <<rows, blocked, lost, version, seen>>
          /\ pc[p] = "mark" /\ pc'[p] = "idle"
          /\ verdict' \in {seen[p], verdict}
          /\ \A q \in Poller : q # p => pc'[q] = pc[q]
      BY <1>0, <2>4 DEF MarkEmpty, Goto, TypeOK
    <3>2. ListQueuedClaimCandidates' = ListQueuedClaimCandidates
      BY <3>1 DEF ListQueuedClaimCandidates, Queued, rows
    <3>3. NeverStalled'
      BY <1>0, <3>1, <3>2 DEF NeverStalled, LateVerdictRejected, IsEmpty, rows
    <3>4. LateVerdictRejected'
      BY <1>0, <3>1, <3>2 DEF LateVerdictRejected, rows
    <3>5. QED
      BY <3>3, <3>4
  <2>5. CASE ClaimTask(p)
    <3>1. UNCHANGED <<blocked, gen, bumping, lost, cache, seen>>
      BY <2>5 DEF ClaimTask
    <3>2. \A q \in Poller : pc'[q] \in {"select", "mark"} => pc'[q] = pc[q]
      BY <1>0, <2>5 DEF ClaimTask, Goto, TypeOK
    <3>3. \A t \in Task : t \in ListQueuedClaimCandidates' => t \in ListQueuedClaimCandidates
      BY <1>0, <2>5 DEF ClaimTask, ListQueuedClaimCandidates, Queued, TypeOK
    <3>4. QED
      BY <3>1, <3>2, <3>3, QuietStep DEF Accounted
  <2>6. QED
    BY <1>5, <2>1, <2>2, <2>3, <2>4, <2>5 DEF Poll
<1>6. CASE VerdictExpires
  <2>1. verdict' = NoVerdict /\ UNCHANGED <<rows, blocked, lost, version, pc, seen>>
    BY <1>6 DEF VerdictExpires
  <2>2. NeverStalled'
    BY <1>0, <2>1 DEF NeverStalled, IsEmpty, NoVerdict, TypeOK
  <2>3. LateVerdictRejected'
    BY <1>0, <2>1
    DEF LateVerdictRejected, ListQueuedClaimCandidates, Queued, rows, NoVerdict, TypeOK
  <2>4. QED
    BY <2>2, <2>3
<1>7. CASE VersionExpires
  BY <1>7 DEF VersionExpires, NeverStalled, LateVerdictRejected, IsEmpty, NoVerdict
<1>8. CASE UNCHANGED vars
  BY <1>8, QuietStep DEF vars, cache, Accounted, ListQueuedClaimCandidates, Queued
<1>9. QED
  BY <1>1, <1>2, <1>3, <1>4, <1>5, <1>6, <1>7, <1>8 DEF Next

\* Without a verdict and without requests there is nothing to hide.
LEMMA CacheInit == Init => CacheInv
BY TypeInit DEF Init, CacheInv, NeverStalled, LateVerdictRejected, IsEmpty, NoVerdict

\* Versions, tags and samples stay counters in every behaviour.
THEOREM CacheTypeCorrect == Spec => []TypeOK
BY TypeInit, TypeStep, PTL DEF Spec

\* With the dependency spine off, a claim request is never sent away by the cache
\* while a row is claimable, unless that row's own Bump is still to run or was
\* lost: "never a stalled task" (EmptyClaimCache).
THEOREM CacheNeverStalls == ASSUME ~ SpineOn PROVE Spec => []NeverStalled
<1>1. CacheInv /\ [Next]_vars => CacheInv'
  BY CacheStep
<1>2. CacheInv => NeverStalled
  BY DEF CacheInv
<1>3. QED
  BY <1>1, <1>2, CacheInit, PTL DEF Spec

\* A verdict written late, after an enqueue has bumped the version, carries an
\* older version and is rejected (MarkEmpty, CurrentVersion).
THEOREM LateVerdictsRejected == ASSUME ~ SpineOn PROVE Spec => []LateVerdictRejected
<1>1. CacheInv /\ [Next]_vars => CacheInv'
  BY CacheStep
<1>2. CacheInv => LateVerdictRejected
  BY DEF CacheInv
<1>3. QED
  BY <1>1, <1>2, CacheInit, PTL DEF Spec
=============================================================================
