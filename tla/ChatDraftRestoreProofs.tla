----------------------- MODULE ChatDraftRestoreProofs -----------------------
(***************************************************************************)
(* Theorems about ChatDraftRestore for every set of devices, sessions and  *)
(* texts and every number of sends.                                        *)
(***************************************************************************)
EXTENDS ChatDraftRestore, SequenceTheorems, TLAPS

\* A message that was sent says something.
SentHasText == \A i \in Id : stage[i] # "unused" => text[i] \in Text

\* The stages of a send that was a row of chat_draft_restore.
WasRow(i) == stage[i] \in {"restorable", "gone"}

\* A server-less request is about a send whose answer is known.
Answered(r) ==
    /\ r.kind # "durable"
    /\ stage[r.id] \notin {"unused", "posted", "accepted"}
    /\ r.kind = "cancelled" => stage[r.id] = "gone"

TypeInv == TypeOK /\ SentHasText

Distinct(q) == \A j, k \in DOMAIN q : q[j] = q[k] => j = k

\* Queues hold server-less requests of their own session, each once.
QueuesInv ==
    \A d \in Device, s \in Session :
        /\ \A r \in Entries(queue[d][s]) : session[r.id] = s /\ Answered(r)
        /\ Distinct(queue[d][s])

\* Ledgers, consumes and lists name rows.
RowsInv ==
    /\ \A d \in Device : \A i \in ledger[d] \cup Flying(d) : WasRow(i)
    /\ \A d \in Device, s \in Session :
          \A i \in cached[d][s] \cup fetch[d][s].rows : session[i] = s /\ WasRow(i)

\* What the slot holds can still be applied for the first time.
SlotInv ==
    \A d \in Device : slot[d] # None =>
        /\ visible[d] /\ session[slot[d].id] = active[d]
        /\ IF slot[d].kind = "durable"
           THEN slot[d].id \notin ledger[d] /\ WasRow(slot[d].id)
           ELSE slot[d] \in Entries(queue[d][active[d]])

\* A row the device applied is in its ledger, or is known to be gone.
Retired(d, i) ==
    /\ stage[i] = "gone"
    /\ i \notin cached[d][session[i]] \cup fetch[d][session[i]].rows
    /\ slot[d] # Durable(i)

\* A request that has been applied is not there to be applied again.
Spent(d, r) ==
    IF r.kind = "durable"
    THEN r.id \in ledger[d] \cup straddled[d] \/ Retired(d, r.id)
    ELSE Answered(r) /\ r \notin Entries(queue[d][session[r.id]])

AdoptedInv == \A d \in Device : \A r \in adopted[d] : Spent(d, r)

ShapeInv == TypeInv /\ QueuesInv /\ RowsInv /\ SlotInv

HandOffInv == ShapeInv /\ AdoptedInv /\ ReappliedOnlyFromStaleList

LosslessInv == ShapeInv /\ NoRestoreLost

-----------------------------------------------------------------------------
\* Facts about the queue

\* Enqueueing adds the request, once.
LEMMA EnqueuedFacts ==
    ASSUME NEW S, NEW q \in Seq(S), NEW r \in S, Distinct(q)
    PROVE  /\ Enqueued(q, r) \in Seq(S)
           /\ Entries(Enqueued(q, r)) = Entries(q) \cup {r}
           /\ Distinct(Enqueued(q, r))
<1>1. CASE r \in Entries(q)
  BY <1>1 DEF Enqueued
<1>2. CASE r \notin Entries(q)
  <2> DEFINE a == Append(q, r)
  <2>1. Enqueued(q, r) = a
    BY <1>2 DEF Enqueued
  <2>2. /\ a \in Seq(S) /\ Len(a) = Len(q) + 1
        /\ \A k \in 1..Len(q) : a[k] = q[k]
        /\ a[Len(q) + 1] = r
    BY AppendProperties
  <2>3. DOMAIN q = 1..Len(q) /\ Len(q) \in Nat /\ DOMAIN a = 1..(Len(q) + 1)
    BY <2>2
  <2> HIDE DEF a
  <2>4. Entries(a) = Entries(q) \cup {r}
    BY <2>2, <2>3 DEF Entries
  <2>5. Distinct(a)
    BY <1>2, <2>2, <2>3 DEF Entries, Distinct
  <2>6. QED
    BY <2>1, <2>2, <2>4, <2>5
<1>3. QED
  BY <1>1, <1>2

\* Dequeueing removes the request and nothing else.
LEMMA DequeuedFacts ==
    ASSUME NEW S, NEW q \in Seq(S), NEW r, Distinct(q)
    PROVE  /\ Dequeued(q, r) \in Seq(S)
           /\ Entries(Dequeued(q, r)) = Entries(q) \ {r}
           /\ Distinct(Dequeued(q, r))
<1>1. CASE r \notin Entries(q)
  BY <1>1 DEF Dequeued
<1>2. CASE r \in Entries(q)
  <2> DEFINE p == Position(q, r)
             n == Len(q) - 1
             c == [k \in 1..n |-> IF k < p THEN q[k] ELSE q[k + 1]]
  <2>1. Dequeued(q, r) = c
    BY <1>2 DEF Dequeued
  <2>2. Len(q) \in Nat /\ DOMAIN q = 1..Len(q) /\ \A k \in 1..Len(q) : q[k] \in S
    OBVIOUS
  <2>3. p \in 1..Len(q) /\ q[p] = r
    BY <1>2, <2>2 DEF Position, Entries
  <2>4. n \in Nat /\ Len(q) = n + 1
    BY <2>2, <2>3
  <2> HIDE DEF p, n
  <2>5. \A k \in 1..n : /\ k \in 1..Len(q) /\ k + 1 \in 1..Len(q)
                        /\ c[k] = IF k < p THEN q[k] ELSE q[k + 1]
    BY <2>4
  <2>6. c \in Seq(S) /\ DOMAIN c = 1..n
    <3>1. c \in [1..n -> S]
      BY <2>2, <2>5
    <3>2. QED
      BY <3>1, <2>4, SeqDef
  <2> HIDE DEF c
  <2>7. Entries(c) = Entries(q) \ {r}
    <3>1. ASSUME NEW k \in 1..n PROVE c[k] \in Entries(q) \ {r}
      <4>1. CASE k < p
        BY <2>2, <2>3, <2>4, <2>5, <4>1 DEF Entries, Distinct
      <4>2. CASE ~(k < p)
        <5>1. c[k] = q[k + 1] /\ k + 1 # p /\ k + 1 \in 1..Len(q)
          BY <2>3, <2>4, <2>5, <4>2
        <5>2. QED
          BY <2>2, <2>3, <5>1 DEF Entries, Distinct
      <4>3. QED
        BY <4>1, <4>2
    <3>2. ASSUME NEW e \in Entries(q) \ {r} PROVE e \in Entries(c)
      <4>1. PICK k \in 1..Len(q) : q[k] = e
        BY <2>2 DEF Entries
      <4>2. k # p
        BY <2>3, <4>1
      <4>3. CASE k < p
        <5>1. k \in 1..n /\ c[k] = e
          BY <2>3, <2>4, <2>5, <4>1, <4>3
        <5>2. QED
          BY <2>6, <5>1 DEF Entries
      <4>4. CASE ~(k < p)
        <5>1. k - 1 \in 1..n
          BY <2>3, <2>4, <4>2, <4>4
        <5>2. ~(k - 1 < p) /\ k - 1 + 1 = k
          BY <2>3, <4>2, <4>4
        <5>3. k - 1 \in 1..n /\ c[k - 1] = e
          BY <2>5, <4>1, <5>1, <5>2
        <5>4. QED
          BY <2>6, <5>3 DEF Entries
      <4>5. QED
        BY <4>3, <4>4
    <3>3. QED
      BY <2>6, <3>1, <3>2 DEF Entries
  <2>8. Distinct(c)
    <3> SUFFICES ASSUME NEW j \in 1..n, NEW k \in 1..n, c[j] = c[k] PROVE j = k
      BY <2>6 DEF Distinct
    <3>1. CASE j < p /\ k < p
      BY <2>2, <2>5, <3>1 DEF Distinct
    <3>2. CASE ~(j < p) /\ ~(k < p)
      <4>1. j + 1 = k + 1
        BY <2>2, <2>5, <3>2 DEF Distinct
      <4>2. QED
        BY <4>1
    <3>3. CASE j < p /\ ~(k < p)
      <4>1. j = k + 1
        BY <2>2, <2>5, <3>3 DEF Distinct
      <4>2. QED
        BY <2>3, <3>3, <4>1
    <3>4. CASE ~(j < p) /\ k < p
      <4>1. k = j + 1
        BY <2>2, <2>5, <3>4 DEF Distinct
      <4>2. QED
        BY <2>3, <3>4, <4>1
    <3>5. QED
      BY <3>1, <3>2, <3>3, <3>4
  <2>9. QED
    BY <2>1, <2>6, <2>7, <2>8
<1>3. QED
  BY <1>1, <1>2

-----------------------------------------------------------------------------
\* Types

\* One step moves a send forward: what it says and where is fixed once it is
\* sent, an answer stays known, and a row that is gone stays gone.
Forward ==
    \A i \in Id :
        /\ stage[i] # "unused" => text'[i] = text[i] /\ session'[i] = session[i]
        /\ stage[i] \notin {"unused", "posted", "accepted"} =>
              stage'[i] \notin {"unused", "posted", "accepted"}
        /\ WasRow(i) => WasRow(i)'
        /\ stage[i] = "gone" => stage'[i] = "gone"

\* Every step moves sends forward.
LEMMA NextForward == TypeInv /\ [Next]_vars => Forward
<1> SUFFICES ASSUME TypeInv, [Next]_vars PROVE Forward
  OBVIOUS
<1> USE DEF TypeInv, TypeOK, Forward, WasRow
<1>1. ASSUME NEW i \in Id, AcceptSend(i) PROVE Forward
  BY <1>1 DEF AcceptSend, Moved, sends
<1>2. ASSUME NEW i \in Id, AnswerSend(i) PROVE Forward
  BY <1>2 DEF AnswerSend, Moved, sends
<1>3. ASSUME NEW i \in Id, FailSend(i) PROVE Forward
  BY <1>3 DEF FailSend, Moved, sends
<1>4. ASSUME NEW i \in Id, FinishTask(i) PROVE Forward
  BY <1>4 DEF FinishTask, Moved, sends
<1>5. ASSUME NEW i \in Id, AnswerCancel(i) PROVE Forward
  BY <1>5 DEF AnswerCancel, Moved, sends
<1>6. ASSUME NEW i \in Id, LoseCancelAnswer(i) PROVE Forward
  BY <1>6 DEF LoseCancelAnswer, Moved, sends
<1>7. ASSUME NEW i \in Id, DeferCancel(i) PROVE Forward
  BY <1>7 DEF DeferCancel, Moved, sends
<1>8. ASSUME NEW i \in Id, SettleDeferred(i) PROVE Forward
  BY <1>8 DEF SettleDeferred, Moved, sends
<1>9. ASSUME NEW d \in Device, NEW t \in Text, Keystroke(d, t) PROVE Forward
  BY <1>9 DEF Keystroke, Moved, sends
<1>10. ASSUME NEW d \in Device, Discard(d) PROVE Forward
  BY <1>10 DEF Discard, Moved, sends
<1>11. ASSUME NEW d \in Device, Show(d) PROVE Forward
  BY <1>11 DEF Show, Moved, sends
<1>12. ASSUME NEW d \in Device, Hide(d) PROVE Forward
  BY <1>12 DEF Hide, Moved, sends
<1>13. ASSUME NEW d \in Device, Restart(d) PROVE Forward
  BY <1>13 DEF Restart
<1>14. ASSUME NEW d \in Device, FlushTyping(d) PROVE Forward
  BY <1>14 DEF FlushTyping, Moved, sends
<1>15. ASSUME NEW d \in Device, Refetch(d) PROVE Forward
  BY <1>15 DEF Refetch, Moved, sends
<1>16. ASSUME NEW d \in Device, Offer(d) PROVE Forward
  BY <1>16 DEF Offer, Moved, sends
<1>17. ASSUME NEW d \in Device, Apply(d) PROVE Forward
  BY <1>17 DEF Apply, Moved, sends
<1>18. ASSUME NEW d \in Device, NEW s \in Session, Select(d, s) PROVE Forward
  BY <1>18 DEF Select, Moved, sends
<1>19. ASSUME NEW d \in Device, NEW s \in Session, AnswerFetch(d, s) PROVE Forward
  BY <1>19 DEF AnswerFetch, Moved, sends
<1>20. ASSUME NEW d \in Device, NEW s \in Session, LandFetch(d, s) PROVE Forward
  BY <1>20 DEF LandFetch, Moved, sends
<1>21. ASSUME NEW d \in Device, NEW s \in Session, FailFetch(d, s) PROVE Forward
  BY <1>21 DEF FailFetch, Moved, sends
<1>22. ASSUME NEW d \in Device, NEW i \in Id, Send(d, i) PROVE Forward
  BY <1>22 DEF Send, Moved, sends
<1>23. ASSUME NEW d \in Device, NEW i \in Id, Stop(d, i) PROVE Forward
  BY <1>23 DEF Stop, Moved, sends
<1>24. ASSUME NEW d \in Device, Reconcile(d) PROVE Forward
  BY <1>24 DEF Reconcile, Moved, sends
<1>25. ASSUME NEW d \in Device, NEW i \in Id, DeleteRow(d, i) PROVE Forward
  BY <1>25 DEF DeleteRow, Moved, sends
<1>26. ASSUME NEW d \in Device, NEW i \in Id, ConfirmConsume(d, i) PROVE Forward
  BY <1>26 DEF ConfirmConsume, Moved, sends
<1>27. ASSUME NEW d \in Device, NEW i \in Id, FailConsume(d, i) PROVE Forward
  BY <1>27 DEF FailConsume, Moved, sends
<1>28. ASSUME NEW d \in Device, Unmount(d) PROVE Forward
  BY <1>28 DEF Unmount, Moved, sends
<1>29. ASSUME NEW d \in Device, NEW i \in Id, EndUnheard(d, i) PROVE Forward
  BY <1>29 DEF EndUnheard, Moved, sends
<1>30. CASE UNCHANGED vars
  BY <1>30 DEF vars, sends
<1>31. QED
  BY <1>1, <1>2, <1>3, <1>4, <1>5, <1>6, <1>7, <1>8, <1>9, <1>10, <1>11,
      <1>12, <1>13, <1>14, <1>15, <1>16, <1>17, <1>18, <1>19, <1>20,
      <1>21, <1>22, <1>23, <1>24, <1>25, <1>26, <1>27, <1>28, <1>29, <1>30
      DEF Next, Server, User, Client

\* Init has the types.
LEMMA InitTypeInv == Init => TypeInv
BY NoneAssumption DEF Init, TypeInv, TypeOK, SentHasText, Idle, Fetch, Stage

\* The types of the consumes' bookkeeping.
RequestTypes ==
    /\ consuming \in [Device -> SUBSET Id] /\ observed \in [Device -> Id \cup {None}]
    /\ unobserved \in [Device -> SUBSET Id] /\ tried \in [Device -> SUBSET Id]

\* Consuming rows puts them, and nothing else, on their way.
LEMMA ConsumeFacts ==
    ASSUME TypeInv, NEW d \in Device, NEW S \in SUBSET Id, NEW last \in S, Consume(d, S, last)
    PROVE  /\ RequestTypes' /\ cached' \in [Device -> [Session -> SUBSET Id]]
           /\ \A e \in Device : Flying(e)' = IF e = d THEN Flying(e) \cup S ELSE Flying(e)
           /\ \A e \in Device, s \in Session : cached'[e][s] \subseteq cached[e][s]
<1> USE DEF TypeInv, TypeOK
<1>1. Flying(d) \subseteq Id /\ last \in Id /\ active[d] \in Session
  BY DEF Flying
<1>2. RequestTypes' /\ cached' \in [Device -> [Session -> SUBSET Id]]
  BY <1>1 DEF Consume, RequestTypes
<1>3. ASSUME NEW e \in Device
      PROVE  Flying(e)' = IF e = d THEN Flying(e) \cup S ELSE Flying(e)
  <2>1. CASE e = d
    <3>1. observed'[d] = last /\ unobserved'[d] = Flying(d) \cup (S \ {last})
      BY DEF Consume
    <3>2. unobserved'[d] \cup ({observed'[d]} \ {None}) = Flying(d) \cup S
      BY <1>1, <3>1, NoneAssumption
    <3>3. QED
      BY <2>1, <3>2 DEF Flying
  <2>2. CASE e # d
    <3>1. observed'[e] = observed[e] /\ unobserved'[e] = unobserved[e]
      BY <2>2 DEF Consume
    <3>2. QED
      BY <2>2, <3>1 DEF Flying
  <2>3. QED
    BY <2>1, <2>2
<1>4. \A e \in Device, s \in Session : cached'[e][s] \subseteq cached[e][s]
  BY <1>1 DEF Consume
<1>5. QED
  BY <1>2, <1>3, <1>4

\* The end of the observed consume puts nothing on its way.
LEMMA SettledFacts ==
    ASSUME TypeInv, NEW d \in Device, NEW i \in Id, Settled(d, i)
    PROVE  RequestTypes' /\ \A e \in Device : Flying(e)' \subseteq Flying(e)
BY DEF TypeInv, TypeOK, Settled, RequestTypes, Flying

\* A composer that goes leaves its consumes on their way.
LEMMA UnmountedFacts ==
    ASSUME TypeInv, NEW d \in Device, UnmountedRequests(d)
    PROVE  /\ RequestTypes' /\ due' \in [Device -> BOOLEAN]
           /\ \A e \in Device : Flying(e)' = Flying(e)
<1> USE DEF TypeInv, TypeOK
<1>1. RequestTypes' /\ due' \in [Device -> BOOLEAN]
  BY DEF UnmountedRequests, RequestTypes
<1>2. ASSUME NEW e \in Device PROVE Flying(e)' = Flying(e)
  <2>1. unobserved'[e] \cup ({observed'[e]} \ {None}) = unobserved[e] \cup ({observed[e]} \ {None})
    BY DEF UnmountedRequests
  <2>2. QED
    BY <2>1 DEF Flying
<1>3. QED
  BY <1>1, <1>2

\* Every step keeps the types, and gives a sent message its text.
LEMMA NextTypeInv == TypeInv /\ QueuesInv /\ SlotInv /\ [Next]_vars => TypeInv'
<1> SUFFICES ASSUME TypeInv, QueuesInv, SlotInv, [Next]_vars PROVE TypeInv'
  OBVIOUS
<1> USE DEF TypeInv, TypeOK, SentHasText, Stage
<1>a. /\ Idle \in Fetch /\ Asked \in Fetch
      /\ \A s \in Session : Rows(s) \subseteq Id
  BY DEF Idle, Asked, Fetch, Rows
<1>b. \A i \in Id, k \in Kind : [id |-> i, kind |-> k] \in RestoreDraftRequest
  BY DEF RestoreDraftRequest
<1>c. \A i \in Id : Durable(i) \in RestoreDraftRequest
  BY DEF Durable, RestoreDraftRequest, Kind
<1>d. \A d \in Device, s \in Session, r \in RestoreDraftRequest :
          /\ Enqueued(queue[d][s], r) \in Seq(RestoreDraftRequest)
          /\ Dequeued(queue[d][s], r) \in Seq(RestoreDraftRequest)
  BY EnqueuedFacts, DequeuedFacts DEF QueuesInv
<1>e. ASSUME NEW i \in Id, NEW k \in Kind, stage[i] # "unused", Queue(i, k)
      PROVE  /\ queue' \in [Device -> [Session -> Seq(RestoreDraftRequest)]]
             /\ owed' \subseteq Text
  BY <1>b, <1>d, <1>e DEF Queue
<1>1. ASSUME NEW i \in Id, AcceptSend(i) PROVE TypeInv'
  BY <1>1, <1>a DEF AcceptSend, Moved, Fetching, Refetching, ReleasedFor, Overtype, Stirred,
      sends, stored, volatile, requests, history
<1>2. ASSUME NEW i \in Id, AnswerSend(i) PROVE TypeInv'
  BY <1>2, <1>a DEF AnswerSend, Moved, Fetching, Refetching, ReleasedFor, Overtype, Stirred,
      sends, stored, volatile, requests, history
<1>3. ASSUME NEW i \in Id, FailSend(i) PROVE TypeInv'
  <2>1. /\ queue' \in [Device -> [Session -> Seq(RestoreDraftRequest)]]
        /\ owed' \subseteq Text
    BY <1>3, <1>e DEF FailSend, Moved, Kind
  <2>2. stage' \in [Id -> Stage] /\ stage[i] # "unused"
    BY <1>3 DEF FailSend, Moved
  <2>3. /\ text' = text /\ session' = session /\ sender' = sender
        /\ \A j \in Id : stage'[j] # "unused" => stage[j] # "unused"
    BY <1>3 DEF FailSend, Moved
  <2>4. QED
    BY <1>3, <2>1, <2>2, <2>3 DEF FailSend, Queue, volatile, requests
<1>4. ASSUME NEW i \in Id, FinishTask(i) PROVE TypeInv'
  BY <1>4, <1>a DEF FinishTask, Moved, Fetching, Refetching, ReleasedFor, Overtype, Stirred,
      sends, stored, volatile, requests, history
<1>5. ASSUME NEW i \in Id, AnswerCancel(i) PROVE TypeInv'
  BY <1>5, <1>e DEF AnswerCancel, Moved, Queue, Kind, sends, stored, volatile,
      requests, history
<1>6. ASSUME NEW i \in Id, LoseCancelAnswer(i) PROVE TypeInv'
  BY <1>6, <1>a DEF LoseCancelAnswer, Moved, Fetching, Refetching, ReleasedFor, Overtype, Stirred,
      sends, stored, volatile, requests, history
<1>7. ASSUME NEW i \in Id, DeferCancel(i) PROVE TypeInv'
  BY <1>7, <1>a DEF DeferCancel, Moved, Fetching, Refetching, ReleasedFor, Overtype, Stirred,
      sends, stored, volatile, requests, history
<1>8. ASSUME NEW i \in Id, SettleDeferred(i) PROVE TypeInv'
  BY <1>8, <1>a DEF SettleDeferred, Moved, Fetching, Refetching, ReleasedFor, Overtype, Stirred,
      sends, stored, volatile, requests, history
<1>9. ASSUME NEW d \in Device, NEW t \in Text, Keystroke(d, t) PROVE TypeInv'
  BY <1>9, <1>a DEF Keystroke, Moved, Fetching, Refetching, ReleasedFor, Overtype, Stirred,
      sends, stored, volatile, requests, history
<1>10. ASSUME NEW d \in Device, Discard(d) PROVE TypeInv'
  BY <1>10, <1>a DEF Discard, Moved, Fetching, Refetching, ReleasedFor, Overtype, Stirred,
      sends, stored, volatile, requests, history
<1>11. ASSUME NEW d \in Device, Show(d) PROVE TypeInv'
  BY <1>11, <1>a DEF Show, Moved, Fetching, Refetching, ReleasedFor, Overtype, Stirred,
      sends, stored, volatile, requests, history
<1>12. ASSUME NEW d \in Device, Hide(d) PROVE TypeInv'
  BY <1>12, <1>a DEF Hide, Moved, Fetching, Refetching, ReleasedFor, Overtype, Stirred,
      sends, stored, volatile, requests, history
<1>13. ASSUME NEW d \in Device, Restart(d) PROVE TypeInv'
  <2>1. UnmountedRequests(d)
    BY <1>13 DEF Restart
  <2>2. QED
    BY <1>13, <1>a, <2>1, UnmountedFacts DEF Restart, RequestTypes, stored, history
<1>14. ASSUME NEW d \in Device, FlushTyping(d) PROVE TypeInv'
  BY <1>14, <1>a DEF FlushTyping, Moved, Fetching, Refetching, ReleasedFor, Overtype, Stirred,
      sends, stored, volatile, requests, history
<1>15. ASSUME NEW d \in Device, Refetch(d) PROVE TypeInv'
  BY <1>15, <1>a DEF Refetch, Moved, Fetching, Refetching, ReleasedFor, Overtype, Stirred,
      sends, stored, volatile, requests, history
<1>16. ASSUME NEW d \in Device, Offer(d) PROVE TypeInv'
  <2>1. queue[d][active[d]] # <<>> => Head(queue[d][active[d]]) \in RestoreDraftRequest
    OBVIOUS
  <2>2. Offerable(d) \subseteq Id
    BY DEF Offerable
  <2>3. slot' \in [Device -> RestoreDraftRequest \cup {None}]
    <3>1. \E r \in RestoreDraftRequest : slot' = [slot EXCEPT ![d] = r]
      <4>1. CASE slot' = [slot EXCEPT ![d] = Head(queue[d][active[d]])] /\ queue[d][active[d]] # <<>>
        BY <4>1, <2>1
      <4>2. CASE \E i \in Offerable(d) : slot' = [slot EXCEPT ![d] = Durable(i)]
        BY <4>2, <1>c, <2>2
      <4>3. QED
        BY <1>16, <4>1, <4>2 DEF Offer
    <3>2. QED
      BY <3>1
  <2>4. QED
    BY <1>16, <2>3 DEF Offer, sends, stored, requests, history
<1>17. ASSUME NEW d \in Device, Apply(d) PROVE TypeInv'
  <2>1. /\ slot[d] \in RestoreDraftRequest /\ slot[d].id \in Id
        /\ session[slot[d].id] \in Session /\ text[slot[d].id] \in Text \cup {None}
    BY <1>17 DEF Apply, RestoreDraftRequest
  <2>2. /\ queue' \in [Device -> [Session -> Seq(RestoreDraftRequest)]]
        /\ ledger' \in [Device -> SUBSET Id]
        /\ cached' \in [Device -> [Session -> SUBSET Id]]
        /\ due' \in [Device -> BOOLEAN]
        /\ RequestTypes'
    <3>1. Dequeued(queue[d][session[slot[d].id]], slot[d]) \in Seq(RestoreDraftRequest)
      BY <1>d, <2>1
    <3>2. CASE slot[d].kind = "durable"
      <4>1. /\ ledger' = [ledger EXCEPT ![d] = @ \cup {slot[d].id}]
            /\ Consume(d, {slot[d].id}, slot[d].id)
            /\ due' = Stirred(d) /\ queue' = queue
        BY <1>17, <3>2 DEF Apply
      <4>2. cached' \in [Device -> [Session -> SUBSET Id]] /\ RequestTypes'
        <5>1. PICK i \in Id : i = slot[d].id
          BY <2>1
        <5>2. Consume(d, {i}, i) /\ {i} \in SUBSET Id /\ i \in {i}
          BY <4>1, <5>1
        <5>3. QED
          BY <5>2, ConsumeFacts
      <4>3. QED
        BY <2>1, <4>1, <4>2 DEF Stirred
    <3>3. CASE slot[d].kind # "durable"
      <4>1. /\ queue' = [queue EXCEPT ![d][session[slot[d].id]] = Dequeued(@, slot[d])]
            /\ ledger' = ledger /\ requests' = requests /\ cached' = cached /\ due' = due
        BY <1>17, <3>3 DEF Apply
      <4>2. QED
        BY <2>1, <3>1, <4>1 DEF requests, RequestTypes
    <3>4. QED
      BY <3>2, <3>3
  <2>3. /\ draft' \in [Device -> [Session -> Text \cup {None}]]
        /\ slot' \in [Device -> RestoreDraftRequest \cup {None}]
        /\ adopted' \in [Device -> SUBSET RestoreDraftRequest]
        /\ readopted' \in [Device -> SUBSET RestoreDraftRequest]
    BY <1>17, <2>1 DEF Apply
  <2>4. QED
    BY <1>17, <2>2, <2>3 DEF Apply, RequestTypes, sends
<1>18. ASSUME NEW d \in Device, NEW s \in Session, Select(d, s) PROVE TypeInv'
  BY <1>18, <1>a DEF Select, Moved, Fetching, Refetching, ReleasedFor, Overtype, Stirred,
      sends, stored, volatile, requests, history
<1>19. ASSUME NEW d \in Device, NEW s \in Session, AnswerFetch(d, s) PROVE TypeInv'
  BY <1>19, <1>a DEF AnswerFetch, Fetch, sends, stored, requests, history
<1>20. ASSUME NEW d \in Device, NEW s \in Session, LandFetch(d, s) PROVE TypeInv'
  BY <1>20, <1>a DEF LandFetch, Fetch, Stirred, sends, stored, requests, history
<1>21. ASSUME NEW d \in Device, NEW s \in Session, FailFetch(d, s) PROVE TypeInv'
  BY <1>21, <1>a DEF FailFetch, Moved, Fetching, Refetching, ReleasedFor, Overtype, Stirred,
      sends, stored, volatile, requests, history
<1>22. ASSUME NEW d \in Device, NEW i \in Id, Send(d, i) PROVE TypeInv'
  BY <1>22, <1>a DEF Send, Moved, Fetching, Refetching, ReleasedFor, Overtype, Stirred,
      sends, stored, volatile, requests, history
<1>23. ASSUME NEW d \in Device, NEW i \in Id, Stop(d, i) PROVE TypeInv'
  BY <1>23, <1>a DEF Stop, Moved, Fetching, Refetching, ReleasedFor, Overtype, Stirred,
      sends, stored, volatile, requests, history
<1>24. ASSUME NEW d \in Device, Reconcile(d) PROVE TypeInv'
  <2>1. cached' \in [Device -> [Session -> SUBSET Id]] /\ RequestTypes'
    <3>1. CASE UNCHANGED <<cached, requests>>
      BY <3>1 DEF requests, RequestTypes
    <3>2. CASE \E last \in Outlived(d) : Consume(d, Outlived(d), last)
      <4>1. Outlived(d) \in SUBSET Id
        BY DEF Outlived
      <4>2. QED
        BY <3>2, <4>1, ConsumeFacts
    <3>3. QED
      BY <1>24, <3>1, <3>2 DEF Reconcile
  <2>2. QED
    BY <1>24, <2>1 DEF Reconcile, RequestTypes, sends, stored, history
<1>25. ASSUME NEW d \in Device, NEW i \in Id, DeleteRow(d, i) PROVE TypeInv'
  BY <1>25, <1>a DEF DeleteRow, Moved, Fetching, Refetching, ReleasedFor, Overtype, Stirred,
      sends, stored, volatile, requests, history
<1>26. ASSUME NEW d \in Device, NEW i \in Id, ConfirmConsume(d, i) PROVE TypeInv'
  <2>1. RequestTypes'
    BY <1>26, SettledFacts DEF ConfirmConsume
  <2>2. QED
    BY <1>26, <2>1 DEF ConfirmConsume, Stirred, RequestTypes, sends
<1>27. ASSUME NEW d \in Device, NEW i \in Id, FailConsume(d, i) PROVE TypeInv'
  <2>1. RequestTypes'
    BY <1>27, SettledFacts DEF FailConsume
  <2>2. QED
    BY <1>27, <2>1 DEF FailConsume, RequestTypes, sends, stored, history
<1>28. ASSUME NEW d \in Device, Unmount(d) PROVE TypeInv'
  <2>1. UnmountedRequests(d)
    BY <1>28 DEF Unmount
  <2>2. QED
    BY <1>28, <2>1, UnmountedFacts DEF Unmount, RequestTypes, sends, stored, history
<1>29. ASSUME NEW d \in Device, NEW i \in Id, EndUnheard(d, i) PROVE TypeInv'
  BY <1>29 DEF EndUnheard, sends, stored, history
<1>30. CASE UNCHANGED vars
  BY <1>30 DEF vars, sends, stored, volatile, requests, history
<1>31. QED
  BY <1>1, <1>2, <1>3, <1>4, <1>5, <1>6, <1>7, <1>8, <1>9, <1>10, <1>11,
      <1>12, <1>13, <1>14, <1>15, <1>16, <1>17, <1>18, <1>19, <1>20,
      <1>21, <1>22, <1>23, <1>24, <1>25, <1>26, <1>27, <1>28, <1>29, <1>30
      DEF Next, Server, User, Client

-----------------------------------------------------------------------------
\* Queues, rows and the slot

\* Init has empty queues, lists and slots.
LEMMA InitShape == Init => ShapeInv
<1> SUFFICES ASSUME Init PROVE ShapeInv
  OBVIOUS
<1>1. TypeInv
  BY InitTypeInv
<1>2. QueuesInv
  BY DEF Init, QueuesInv, Entries, Distinct
<1>3. RowsInv /\ SlotInv
  BY DEF Init, RowsInv, SlotInv, Idle, Flying
<1>4. QED
  BY <1>1, <1>2, <1>3 DEF ShapeInv

\* A queue only gains requests whose send was answered.
LEMMA NextQueues == ShapeInv /\ [Next]_vars => QueuesInv'
<1> SUFFICES ASSUME ShapeInv, [Next]_vars PROVE QueuesInv'
  OBVIOUS
<1>a. TypeInv /\ QueuesInv /\ Forward
  BY NextForward DEF ShapeInv
<1>b. \A r \in RestoreDraftRequest : r.id \in Id
  BY DEF RestoreDraftRequest
<1>c. \A d \in Device, s \in Session :
          /\ queue[d][s] \in Seq(RestoreDraftRequest)
          /\ Entries(queue[d][s]) \subseteq RestoreDraftRequest
  BY <1>a DEF TypeInv, TypeOK, Entries
<1>d. \A d \in Device, s \in Session : \A r \in Entries(queue[d][s]) :
          session'[r.id] = s /\ Answered(r)'
  BY <1>a, <1>b, <1>c DEF QueuesInv, Forward, Answered
<1>u. ASSUME queue' = queue PROVE QueuesInv'
  BY <1>a, <1>d, <1>u DEF QueuesInv
<1>q. ASSUME NEW i \in Id, NEW k \in {"failed", "cancelled"}, Queue(i, k), session' = session,
             stage'[i] \notin {"unused", "posted", "accepted"},
             k = "cancelled" => stage'[i] = "gone"
      PROVE  QueuesInv'
  <2> DEFINE r == [id |-> i, kind |-> k]
             d == sender[i]
             s == session[i]
             q == Enqueued(queue[d][s], r)
  <2>1. d \in Device /\ s \in Session /\ r \in RestoreDraftRequest
    BY <1>a DEF TypeInv, TypeOK, RestoreDraftRequest, Kind
  <2>2. queue \in [Device -> [Session -> Seq(RestoreDraftRequest)]]
    BY <1>a DEF TypeInv, TypeOK
  <2>3. queue' = [queue EXCEPT ![d][s] = q]
    BY <1>q DEF Queue
  <2>4. Distinct(q) /\ Entries(q) = Entries(queue[d][s]) \cup {r}
    BY <1>a, <1>c, <2>1, EnqueuedFacts DEF QueuesInv
  <2>5. session'[r.id] = s /\ Answered(r)'
    BY <1>q DEF Answered
  <2> HIDE DEF q, r, d, s
  <2>6. ASSUME NEW e \in Device, NEW z \in Session
        PROVE  /\ \A x \in Entries(queue'[e][z]) : session'[x.id] = z /\ Answered(x)'
               /\ Distinct(queue'[e][z])
    <3>1. CASE e = d /\ z = s
      <4>1. queue'[e][z] = q
        BY <2>1, <2>2, <2>3, <3>1
      <4>2. ASSUME NEW x \in Entries(queue[d][s]) PROVE session'[x.id] = z /\ Answered(x)'
        BY <1>d, <2>1, <3>1
      <4>3. session'[r.id] = z /\ Answered(r)'
        BY <2>5, <3>1
      <4>4. QED
        BY <2>4, <4>1, <4>2, <4>3 DEF Answered
    <3>2. CASE ~(e = d /\ z = s)
      <4>1. queue'[e][z] = queue[e][z]
        BY <2>1, <2>2, <2>3, <3>2
      <4>2. QED
        BY <1>a, <1>d, <4>1 DEF QueuesInv
    <3>3. QED
      BY <3>1, <3>2
  <2>7. QED
    BY <2>6 DEF QueuesInv
<1>1. ASSUME NEW i \in Id, AcceptSend(i) PROVE QueuesInv'
  BY <1>1, <1>u DEF AcceptSend, stored
<1>2. ASSUME NEW i \in Id, AnswerSend(i) PROVE QueuesInv'
  BY <1>2, <1>u DEF AnswerSend, stored
<1>3. ASSUME NEW i \in Id, FailSend(i) PROVE QueuesInv'
  BY <1>3, <1>a, <1>q DEF FailSend, Moved, TypeInv, TypeOK
<1>4. ASSUME NEW i \in Id, FinishTask(i) PROVE QueuesInv'
  BY <1>4, <1>u DEF FinishTask, stored
<1>5. ASSUME NEW i \in Id, AnswerCancel(i) PROVE QueuesInv'
  BY <1>5, <1>a, <1>q DEF AnswerCancel, Moved, TypeInv, TypeOK
<1>6. ASSUME NEW i \in Id, LoseCancelAnswer(i) PROVE QueuesInv'
  BY <1>6, <1>u DEF LoseCancelAnswer, stored
<1>7. ASSUME NEW i \in Id, DeferCancel(i) PROVE QueuesInv'
  BY <1>7, <1>u DEF DeferCancel, stored
<1>8. ASSUME NEW i \in Id, SettleDeferred(i) PROVE QueuesInv'
  BY <1>8, <1>u DEF SettleDeferred, stored
<1>9. ASSUME NEW d \in Device, NEW t \in Text, Keystroke(d, t) PROVE QueuesInv'
  BY <1>9, <1>u DEF Keystroke, stored
<1>10. ASSUME NEW d \in Device, Discard(d) PROVE QueuesInv'
  BY <1>10, <1>u DEF Discard, stored
<1>11. ASSUME NEW d \in Device, Show(d) PROVE QueuesInv'
  BY <1>11, <1>u DEF Show, stored
<1>12. ASSUME NEW d \in Device, Hide(d) PROVE QueuesInv'
  BY <1>12, <1>u DEF Hide, stored
<1>13. ASSUME NEW d \in Device, Restart(d) PROVE QueuesInv'
  BY <1>13, <1>u DEF Restart, stored
<1>14. ASSUME NEW d \in Device, FlushTyping(d) PROVE QueuesInv'
  BY <1>14, <1>u DEF FlushTyping, stored
<1>15. ASSUME NEW d \in Device, Refetch(d) PROVE QueuesInv'
  BY <1>15, <1>u DEF Refetch, stored
<1>16. ASSUME NEW d \in Device, Offer(d) PROVE QueuesInv'
  BY <1>16, <1>u DEF Offer, stored
<1>17. ASSUME NEW d \in Device, Apply(d) PROVE QueuesInv'
  <2> DEFINE r == slot[d]
             s == session[r.id]
             q == Dequeued(queue[d][s], r)
  <2>1. r \in RestoreDraftRequest /\ s \in Session
    BY <1>17, <1>a DEF Apply, TypeInv, TypeOK, RestoreDraftRequest
  <2>2. queue \in [Device -> [Session -> Seq(RestoreDraftRequest)]]
    BY <1>a DEF TypeInv, TypeOK
  <2>3. CASE r.kind = "durable"
    BY <1>17, <1>u, <2>3 DEF Apply
  <2>4. CASE r.kind # "durable"
    <3>1. queue' = [queue EXCEPT ![d][s] = q]
      BY <1>17, <2>4 DEF Apply
    <3>2. Distinct(q) /\ Entries(q) = Entries(queue[d][s]) \ {r}
      BY <1>a, <1>c, <2>1, DequeuedFacts DEF QueuesInv
    <3> HIDE DEF q, r, s
    <3>3. ASSUME NEW e \in Device, NEW z \in Session
          PROVE  /\ \A x \in Entries(queue'[e][z]) : session'[x.id] = z /\ Answered(x)'
                 /\ Distinct(queue'[e][z])
      <4>1. CASE e = d /\ z = s
        BY <1>d, <2>1, <2>2, <3>1, <3>2, <4>1
      <4>2. CASE ~(e = d /\ z = s)
        <5>1. queue'[e][z] = queue[e][z]
          BY <2>1, <2>2, <3>1, <4>2
        <5>2. QED
          BY <1>a, <1>d, <5>1 DEF QueuesInv
      <4>3. QED
        BY <4>1, <4>2
    <3>4. QED
      BY <3>3 DEF QueuesInv
  <2>5. QED
    BY <2>3, <2>4
<1>18. ASSUME NEW d \in Device, NEW s \in Session, Select(d, s) PROVE QueuesInv'
  BY <1>18, <1>u DEF Select, stored
<1>19. ASSUME NEW d \in Device, NEW s \in Session, AnswerFetch(d, s) PROVE QueuesInv'
  BY <1>19, <1>u DEF AnswerFetch, stored
<1>20. ASSUME NEW d \in Device, NEW s \in Session, LandFetch(d, s) PROVE QueuesInv'
  BY <1>20, <1>u DEF LandFetch, stored
<1>21. ASSUME NEW d \in Device, NEW s \in Session, FailFetch(d, s) PROVE QueuesInv'
  BY <1>21, <1>u DEF FailFetch, stored
<1>22. ASSUME NEW d \in Device, NEW i \in Id, Send(d, i) PROVE QueuesInv'
  BY <1>22, <1>u DEF Send, stored
<1>23. ASSUME NEW d \in Device, NEW i \in Id, Stop(d, i) PROVE QueuesInv'
  BY <1>23, <1>u DEF Stop, stored
<1>24. ASSUME NEW d \in Device, Reconcile(d) PROVE QueuesInv'
  BY <1>24, <1>u DEF Reconcile, stored
<1>25. ASSUME NEW d \in Device, NEW i \in Id, DeleteRow(d, i) PROVE QueuesInv'
  BY <1>25, <1>u DEF DeleteRow, stored
<1>26. ASSUME NEW d \in Device, NEW i \in Id, ConfirmConsume(d, i) PROVE QueuesInv'
  BY <1>26, <1>u DEF ConfirmConsume, stored
<1>27. ASSUME NEW d \in Device, NEW i \in Id, FailConsume(d, i) PROVE QueuesInv'
  BY <1>27, <1>u DEF FailConsume, stored
<1>28. ASSUME NEW d \in Device, Unmount(d) PROVE QueuesInv'
  BY <1>28, <1>u DEF Unmount, stored
<1>29. ASSUME NEW d \in Device, NEW i \in Id, EndUnheard(d, i) PROVE QueuesInv'
  BY <1>29, <1>u DEF EndUnheard, stored
<1>30. CASE UNCHANGED vars
  BY <1>30, <1>u DEF vars, stored
<1>31. QED
  BY <1>1, <1>2, <1>3, <1>4, <1>5, <1>6, <1>7, <1>8, <1>9, <1>10, <1>11,
      <1>12, <1>13, <1>14, <1>15, <1>16, <1>17, <1>18, <1>19, <1>20,
      <1>21, <1>22, <1>23, <1>24, <1>25, <1>26, <1>27, <1>28, <1>29, <1>30
      DEF Next, Server, User, Client

\* Ledgers, consumes and lists only ever name rows, of their session.
LEMMA NextRows == ShapeInv /\ [Next]_vars => RowsInv'
<1> SUFFICES ASSUME ShapeInv, [Next]_vars PROVE RowsInv'
  OBVIOUS
<1>a. TypeInv /\ RowsInv /\ SlotInv /\ Forward
  BY NextForward DEF ShapeInv
<1>b. \A i \in Id : WasRow(i) => WasRow(i)' /\ session'[i] = session[i]
  BY <1>a DEF Forward, WasRow
<1>c. /\ \A d \in Device : ledger[d] \subseteq Id /\ Flying(d) \subseteq Id
      /\ \A d \in Device, s \in Session :
            cached[d][s] \subseteq Id /\ fetch[d][s].rows \subseteq Id
  BY <1>a DEF TypeInv, TypeOK, Fetch, Flying
<1>d. /\ ledger \in [Device -> SUBSET Id]
      /\ cached \in [Device -> [Session -> SUBSET Id]]
      /\ fetch \in [Device -> [Session -> Fetch]]
      /\ active \in [Device -> Session]
  BY <1>a DEF TypeInv, TypeOK
<1>m. ASSUME \A d \in Device : \A i \in ledger'[d] \cup Flying(d)' :
                 i \in Id /\ WasRow(i),
             \A d \in Device, s \in Session : \A i \in cached'[d][s] \cup fetch'[d][s].rows :
                 i \in Id /\ WasRow(i) /\ session[i] = s
      PROVE  RowsInv'
  BY <1>b, <1>m DEF RowsInv
<1>f. ASSUME requests' = requests PROVE \A d \in Device : Flying(d)' = Flying(d)
  BY <1>f DEF requests, Flying
<1>w. ASSUME ledger' = ledger, \A d \in Device : Flying(d)' \subseteq Flying(d), fetch' = fetch,
             \A d \in Device, s \in Session : cached'[d][s] \subseteq cached[d][s]
      PROVE  RowsInv'
  BY <1>a, <1>c, <1>m, <1>w DEF RowsInv
<1>u. ASSUME ledger' = ledger, requests' = requests, cached' = cached, fetch' = fetch
      PROVE  RowsInv'
  BY <1>f, <1>u, <1>w
<1>r. ASSUME ledger' = ledger, requests' = requests, cached' = cached,
             \A e \in Device, z \in Session : \A i \in fetch'[e][z].rows :
                 \/ i \in fetch[e][z].rows
                 \/ i \in Id /\ WasRow(i) /\ session[i] = z
      PROVE  RowsInv'
  BY <1>a, <1>c, <1>f, <1>m, <1>r DEF RowsInv
<1>1. ASSUME NEW i \in Id, AcceptSend(i) PROVE RowsInv'
  BY <1>1, <1>u DEF AcceptSend, stored, volatile
<1>2. ASSUME NEW i \in Id, AnswerSend(i) PROVE RowsInv'
  BY <1>2, <1>u DEF AnswerSend, stored, volatile
<1>3. ASSUME NEW i \in Id, FailSend(i) PROVE RowsInv'
  BY <1>3, <1>u DEF FailSend, Queue, volatile
<1>4. ASSUME NEW i \in Id, FinishTask(i) PROVE RowsInv'
  BY <1>4, <1>u DEF FinishTask, stored, volatile
<1>5. ASSUME NEW i \in Id, AnswerCancel(i) PROVE RowsInv'
  BY <1>5, <1>u DEF AnswerCancel, Queue, volatile
<1>6. ASSUME NEW i \in Id, LoseCancelAnswer(i) PROVE RowsInv'
  BY <1>6, <1>u DEF LoseCancelAnswer, stored, volatile
<1>7. ASSUME NEW i \in Id, DeferCancel(i) PROVE RowsInv'
  BY <1>7, <1>u DEF DeferCancel, stored, volatile
<1>8. ASSUME NEW i \in Id, SettleDeferred(i) PROVE RowsInv'
  BY <1>8, <1>u DEF SettleDeferred, stored, volatile
<1>9. ASSUME NEW d \in Device, NEW t \in Text, Keystroke(d, t) PROVE RowsInv'
  BY <1>9, <1>u DEF Keystroke, stored, volatile
<1>10. ASSUME NEW d \in Device, Discard(d) PROVE RowsInv'
  BY <1>10, <1>u DEF Discard, stored, volatile
<1>11. ASSUME NEW d \in Device, Show(d) PROVE RowsInv'
  <2>1. fetch' = [fetch EXCEPT ![d][active[d]] = IF @.phase = "idle" THEN Asked ELSE @]
    BY <1>11 DEF Show, Fetching
  <2>2. \A e \in Device, z \in Session : \A i \in fetch'[e][z].rows : i \in fetch[e][z].rows
    BY <1>d, <2>1 DEF Asked
  <2>3. QED
    BY <1>11, <1>r, <2>2 DEF Show, stored
<1>12. ASSUME NEW d \in Device, Hide(d) PROVE RowsInv'
  BY <1>12, <1>u DEF Hide, stored, volatile
<1>13. ASSUME NEW d \in Device, Restart(d) PROVE RowsInv'
  <2>1. /\ ledger' = ledger /\ UnmountedRequests(d)
        /\ cached' = [cached EXCEPT ![d] = [s \in Session |-> {}]]
        /\ fetch' = [fetch EXCEPT ![d] = [s \in Session |-> Idle]]
    BY <1>13 DEF Restart, stored
  <2>2. \A e \in Device : Flying(e)' = Flying(e)
    BY <1>a, <2>1, UnmountedFacts
  <2>3. QED
    BY <1>a, <1>c, <1>d, <1>m, <2>1, <2>2 DEF RowsInv, Idle
<1>14. ASSUME NEW d \in Device, FlushTyping(d) PROVE RowsInv'
  BY <1>14, <1>u DEF FlushTyping, stored, volatile
<1>15. ASSUME NEW d \in Device, Refetch(d) PROVE RowsInv'
  <2>1. fetch' = [fetch EXCEPT ![d][active[d]] = Asked]
    BY <1>15 DEF Refetch, Refetching
  <2>2. \A e \in Device, z \in Session : \A i \in fetch'[e][z].rows : i \in fetch[e][z].rows
    BY <1>d, <2>1 DEF Asked
  <2>3. QED
    BY <1>15, <1>r, <2>2 DEF Refetch, stored
<1>16. ASSUME NEW d \in Device, Offer(d) PROVE RowsInv'
  BY <1>16, <1>u DEF Offer, stored, volatile
<1>17. ASSUME NEW d \in Device, Apply(d) PROVE RowsInv'
  <2>1. CASE slot[d].kind = "durable"
    <3>1. slot[d] \in RestoreDraftRequest /\ slot[d].id \in Id /\ WasRow(slot[d].id)
          /\ session[slot[d].id] \in Session
      BY <1>17, <1>a, <2>1 DEF Apply, SlotInv, TypeInv, TypeOK, RestoreDraftRequest
    <3>2. /\ ledger' = [ledger EXCEPT ![d] = @ \cup {slot[d].id}]
          /\ Consume(d, {slot[d].id}, slot[d].id)
          /\ fetch' = fetch
      BY <1>17, <2>1 DEF Apply
    <3>3. /\ \A e \in Device : Flying(e)' \subseteq Flying(e) \cup {slot[d].id}
          /\ \A e \in Device, z \in Session : cached'[e][z] \subseteq cached[e][z]
      <4>1. PICK i \in Id : i = slot[d].id
        BY <3>1
      <4>2. Consume(d, {i}, i) /\ {i} \in SUBSET Id /\ i \in {i}
        BY <3>2, <4>1
      <4>3. QED
        BY <1>a, <4>1, <4>2, ConsumeFacts
    <3>4. \A e \in Device : ledger'[e] \subseteq ledger[e] \cup {slot[d].id}
      BY <1>d, <3>2
    <3>5. QED
      BY <1>a, <1>c, <1>m, <3>1, <3>2, <3>3, <3>4 DEF RowsInv
  <2>2. CASE slot[d].kind # "durable"
    BY <1>17, <1>u, <2>2 DEF Apply
  <2>3. QED
    BY <2>1, <2>2
<1>18. ASSUME NEW d \in Device, NEW s \in Session, Select(d, s) PROVE RowsInv'
  <2>1. fetch' = [fetch EXCEPT ![d][s] = IF @.phase = "idle" THEN Asked ELSE @]
    BY <1>18 DEF Select, Fetching
  <2>2. \A e \in Device, z \in Session : \A i \in fetch'[e][z].rows : i \in fetch[e][z].rows
    BY <1>d, <2>1 DEF Asked
  <2>3. QED
    BY <1>18, <1>r, <2>2 DEF Select
<1>19. ASSUME NEW d \in Device, NEW s \in Session, AnswerFetch(d, s) PROVE RowsInv'
  <2>1. fetch' = [fetch EXCEPT ![d][s] = [phase |-> "answered", rows |-> Rows(s)]]
    BY <1>19 DEF AnswerFetch
  <2>2. \A e \in Device, z \in Session : \A i \in fetch'[e][z].rows :
            i \in fetch[e][z].rows \/ (i \in Rows(s) /\ z = s)
    BY <1>d, <2>1
  <2>3. \A i \in Rows(s) : i \in Id /\ WasRow(i) /\ session[i] = s
    BY DEF Rows, WasRow
  <2>4. QED
    BY <1>19, <1>r, <2>2, <2>3 DEF AnswerFetch, stored
<1>20. ASSUME NEW d \in Device, NEW s \in Session, LandFetch(d, s) PROVE RowsInv'
  <2>1. /\ ledger' = ledger /\ requests' = requests
        /\ cached' = [cached EXCEPT ![d][s] = fetch[d][s].rows]
        /\ fetch' = [fetch EXCEPT ![d][s] = Idle]
    BY <1>20 DEF LandFetch, stored
  <2>2. QED
    BY <1>a, <1>c, <1>d, <1>f, <1>m, <2>1 DEF RowsInv, Idle
<1>21. ASSUME NEW d \in Device, NEW s \in Session, FailFetch(d, s) PROVE RowsInv'
  <2>1. fetch' = [fetch EXCEPT ![d][s] = Idle]
    BY <1>21 DEF FailFetch
  <2>2. \A e \in Device, z \in Session : \A i \in fetch'[e][z].rows : i \in fetch[e][z].rows
    BY <1>d, <2>1 DEF Idle
  <2>3. QED
    BY <1>21, <1>r, <2>2 DEF FailFetch, stored
<1>22. ASSUME NEW d \in Device, NEW i \in Id, Send(d, i) PROVE RowsInv'
  BY <1>22, <1>u DEF Send, stored, volatile
<1>23. ASSUME NEW d \in Device, NEW i \in Id, Stop(d, i) PROVE RowsInv'
  BY <1>23, <1>u DEF Stop, stored, volatile
<1>24. ASSUME NEW d \in Device, Reconcile(d) PROVE RowsInv'
  <2>1. CASE UNCHANGED <<cached, requests>>
    BY <1>24, <1>u, <2>1 DEF Reconcile, stored
  <2>2. CASE \E last \in Outlived(d) : Consume(d, Outlived(d), last)
    <3>1. Outlived(d) \in SUBSET Id /\ Outlived(d) \subseteq ledger[d]
      BY <1>c DEF Outlived
    <3>2. /\ \A e \in Device : Flying(e)' \subseteq Flying(e) \cup ledger[e]
          /\ \A e \in Device, z \in Session : cached'[e][z] \subseteq cached[e][z]
      <4>1. PICK S \in SUBSET Id : S = Outlived(d)
        BY <3>1
      <4>2. PICK last \in S : Consume(d, S, last)
        BY <2>2, <4>1
      <4>3. /\ \A e \in Device : Flying(e)' = IF e = d THEN Flying(e) \cup S ELSE Flying(e)
            /\ \A e \in Device, z \in Session : cached'[e][z] \subseteq cached[e][z]
        BY <1>a, <4>2, ConsumeFacts
      <4>4. QED
        BY <3>1, <4>1, <4>3
    <3>3. ledger' = ledger /\ fetch' = fetch
      BY <1>24 DEF Reconcile, stored
    <3>4. QED
      BY <1>a, <1>c, <1>m, <3>2, <3>3 DEF RowsInv
  <2>3. QED
    BY <1>24, <2>1, <2>2 DEF Reconcile
<1>25. ASSUME NEW d \in Device, NEW i \in Id, DeleteRow(d, i) PROVE RowsInv'
  BY <1>25, <1>u DEF DeleteRow, stored, volatile
<1>26. ASSUME NEW d \in Device, NEW i \in Id, ConfirmConsume(d, i) PROVE RowsInv'
  <2>1. /\ ledger' = [ledger EXCEPT ![d] = @ \ {i}] /\ fetch' = fetch
        /\ Settled(d, i) /\ cached' = cached
    BY <1>26 DEF ConfirmConsume
  <2>2. \A e \in Device : Flying(e)' \subseteq Flying(e)
    BY <1>a, <2>1, SettledFacts
  <2>3. \A e \in Device : ledger'[e] \subseteq ledger[e]
    BY <1>d, <2>1
  <2>4. QED
    BY <1>a, <1>c, <1>m, <2>1, <2>2, <2>3 DEF RowsInv
<1>27. ASSUME NEW d \in Device, NEW i \in Id, FailConsume(d, i) PROVE RowsInv'
  <2>1. ledger' = ledger /\ fetch' = fetch /\ Settled(d, i) /\ cached' = cached
    BY <1>27 DEF FailConsume, stored
  <2>2. \A e \in Device : Flying(e)' \subseteq Flying(e)
    BY <1>a, <2>1, SettledFacts
  <2>3. QED
    BY <1>w, <2>1, <2>2
<1>28. ASSUME NEW d \in Device, Unmount(d) PROVE RowsInv'
  <2>1. ledger' = ledger /\ fetch' = fetch /\ UnmountedRequests(d) /\ cached' = cached
    BY <1>28 DEF Unmount, stored
  <2>2. \A e \in Device : Flying(e)' = Flying(e)
    BY <1>a, <2>1, UnmountedFacts
  <2>3. QED
    BY <1>w, <2>1, <2>2
<1>29. ASSUME NEW d \in Device, NEW i \in Id, EndUnheard(d, i) PROVE RowsInv'
  <2>1. /\ ledger' = ledger /\ fetch' = fetch /\ cached' = cached
        /\ observed' = observed /\ \A e \in Device : unobserved'[e] \subseteq unobserved[e]
    BY <1>29, <1>a DEF EndUnheard, stored, TypeInv, TypeOK
  <2>2. QED
    BY <1>w, <2>1 DEF Flying
<1>30. CASE UNCHANGED vars
  BY <1>30, <1>u DEF vars, stored, volatile
<1>31. QED
  BY <1>1, <1>2, <1>3, <1>4, <1>5, <1>6, <1>7, <1>8, <1>9, <1>10, <1>11,
      <1>12, <1>13, <1>14, <1>15, <1>16, <1>17, <1>18, <1>19, <1>20,
      <1>21, <1>22, <1>23, <1>24, <1>25, <1>26, <1>27, <1>28, <1>29, <1>30
      DEF Next, Server, User, Client

\* The slot only holds what can still be applied, for the session on screen.
LEMMA NextSlot == ShapeInv /\ [Next]_vars => SlotInv'
<1> SUFFICES ASSUME ShapeInv, [Next]_vars PROVE SlotInv'
  OBVIOUS
<1>a. TypeInv /\ QueuesInv /\ RowsInv /\ SlotInv /\ Forward
  BY NextForward DEF ShapeInv
<1>b. /\ active \in [Device -> Session] /\ visible \in [Device -> BOOLEAN]
      /\ slot \in [Device -> RestoreDraftRequest \cup {None}]
      /\ ledger \in [Device -> SUBSET Id]
      /\ queue \in [Device -> [Session -> Seq(RestoreDraftRequest)]]
      /\ \A i \in Id : session[i] \in Session
  BY <1>a DEF TypeInv, TypeOK
<1>c. \A r \in RestoreDraftRequest : r.id \in Id
  BY DEF RestoreDraftRequest
<1> DEFINE Good(e, r) ==
             /\ visible'[e] /\ session'[r.id] = active'[e]
             /\ IF r.kind = "durable"
                THEN r.id \notin ledger'[e] /\ stage'[r.id] \in {"restorable", "gone"}
                ELSE r \in Entries(queue'[e][active'[e]])
<1>s. ASSUME \A e \in Device : slot'[e] # None => Good(e, slot'[e]) PROVE SlotInv'
  BY <1>s DEF SlotInv, WasRow
<1>d. ASSUME NEW e \in Device, slot[e] # None,
             visible'[e], active'[e] = active[e],
             slot[e].id \in ledger'[e] => slot[e].id \in ledger[e],
             slot[e] \in Entries(queue[e][active[e]]) => slot[e] \in Entries(queue'[e][active[e]])
      PROVE  Good(e, slot[e])
  <2>1. slot[e] \in RestoreDraftRequest /\ slot[e].id \in Id
    BY <1>b, <1>c, <1>d
  <2>2. CASE slot[e].kind = "durable"
    BY <1>a, <1>d, <2>1, <2>2 DEF SlotInv, Forward, WasRow
  <2>3. CASE slot[e].kind # "durable"
    BY <1>a, <1>b, <1>d, <2>1, <2>3 DEF SlotInv, QueuesInv, Answered, Forward
  <2>4. QED
    BY <2>2, <2>3
<1> HIDE DEF Good
<1>e. ASSUME NEW d \in Device, slot'[d] = None,
             \A e \in Device \ {d} : /\ slot'[e] = slot[e] /\ active'[e] = active[e]
                                     /\ visible'[e] = visible[e] /\ ledger'[e] = ledger[e]
                                     /\ queue'[e] = queue[e]
      PROVE  SlotInv'
  <2>1. ASSUME NEW e \in Device, slot'[e] # None
        PROVE  e # d /\ slot[e] # None /\ slot'[e] = slot[e] /\ visible'[e]
    BY <1>a, <1>e, <2>1 DEF SlotInv
  <2>2. ASSUME NEW e \in Device, slot'[e] # None PROVE Good(e, slot'[e])
    <3>1. e # d /\ slot[e] # None /\ slot'[e] = slot[e] /\ visible'[e]
      BY <2>1, <2>2
    <3>2. active'[e] = active[e] /\ ledger'[e] = ledger[e] /\ queue'[e] = queue[e]
      BY <1>e, <3>1
    <3>3. QED
      BY <1>d, <3>1, <3>2
  <2>3. QED
    BY <1>s, <2>2
<1>u. ASSUME slot' = slot, visible' = visible, active' = active, ledger' = ledger,
             \A e \in Device, s \in Session : Entries(queue[e][s]) \subseteq Entries(queue'[e][s])
      PROVE  SlotInv'
  <2>1. ASSUME NEW e \in Device, slot[e] # None PROVE visible'[e]
    BY <1>a, <1>u, <2>1 DEF SlotInv
  <2>2. ASSUME NEW e \in Device, slot'[e] # None PROVE Good(e, slot'[e])
    <3>1. slot[e] # None /\ visible'[e] /\ slot'[e] = slot[e] /\ active[e] \in Session
      BY <1>b, <1>u, <2>1, <2>2
    <3>2. Entries(queue[e][active[e]]) \subseteq Entries(queue'[e][active[e]])
      BY <1>u, <3>1
    <3>3. active'[e] = active[e] /\ ledger'[e] = ledger[e]
      BY <1>u
    <3>4. QED
      BY <1>d, <3>1, <3>2, <3>3
  <2>3. QED
    BY <1>s, <2>2
<1>v. ASSUME slot' = slot, visible' = visible, active' = active, ledger' = ledger,
             queue' = queue
      PROVE  SlotInv'
  BY <1>u, <1>v
<1>q. ASSUME NEW i \in Id, NEW k \in {"failed", "cancelled"}, Queue(i, k)
      PROVE  SlotInv'
  <2> DEFINE r == [id |-> i, kind |-> k]
             d == sender[i]
             s == session[i]
             q == Enqueued(queue[d][s], r)
  <2>1. d \in Device /\ s \in Session /\ r \in RestoreDraftRequest
    BY <1>a DEF TypeInv, TypeOK, RestoreDraftRequest, Kind
  <2>2. queue' = [queue EXCEPT ![d][s] = q]
    BY <1>q DEF Queue
  <2>3. Entries(q) = Entries(queue[d][s]) \cup {r}
    <3>1. queue[d][s] \in Seq(RestoreDraftRequest) /\ Distinct(queue[d][s])
      BY <1>a, <1>b, <2>1 DEF QueuesInv
    <3>2. QED
      BY <2>1, <3>1, EnqueuedFacts
  <2> HIDE DEF q, r, d, s
  <2>4. \A e \in Device, z \in Session : Entries(queue[e][z]) \subseteq Entries(queue'[e][z])
    <3>1. ASSUME NEW e \in Device, NEW z \in Session, e = d /\ z = s
          PROVE  queue'[e][z] = q
      BY <1>b, <2>1, <2>2, <3>1
    <3>2. ASSUME NEW e \in Device, NEW z \in Session, ~(e = d /\ z = s)
          PROVE  queue'[e][z] = queue[e][z]
      BY <1>b, <2>1, <2>2, <3>2
    <3>3. QED
      BY <2>3, <3>1, <3>2
  <2>5. QED
    BY <1>q, <1>u, <2>4 DEF Queue, volatile
<1>1. ASSUME NEW i \in Id, AcceptSend(i) PROVE SlotInv'
  BY <1>1, <1>v DEF AcceptSend, stored, volatile
<1>2. ASSUME NEW i \in Id, AnswerSend(i) PROVE SlotInv'
  BY <1>2, <1>v DEF AnswerSend, stored, volatile
<1>3. ASSUME NEW i \in Id, FailSend(i) PROVE SlotInv'
  BY <1>3, <1>q DEF FailSend
<1>4. ASSUME NEW i \in Id, FinishTask(i) PROVE SlotInv'
  BY <1>4, <1>v DEF FinishTask, stored, volatile
<1>5. ASSUME NEW i \in Id, AnswerCancel(i) PROVE SlotInv'
  BY <1>5, <1>q DEF AnswerCancel
<1>6. ASSUME NEW i \in Id, LoseCancelAnswer(i) PROVE SlotInv'
  BY <1>6, <1>v DEF LoseCancelAnswer, stored, volatile
<1>7. ASSUME NEW i \in Id, DeferCancel(i) PROVE SlotInv'
  BY <1>7, <1>v DEF DeferCancel, stored, volatile
<1>8. ASSUME NEW i \in Id, SettleDeferred(i) PROVE SlotInv'
  BY <1>8, <1>v DEF SettleDeferred, stored, volatile
<1>9. ASSUME NEW d \in Device, NEW t \in Text, Keystroke(d, t) PROVE SlotInv'
  BY <1>9, <1>v DEF Keystroke, stored, volatile
<1>10. ASSUME NEW d \in Device, Discard(d) PROVE SlotInv'
  BY <1>10, <1>v DEF Discard, stored, volatile
<1>11. ASSUME NEW d \in Device, Show(d) PROVE SlotInv'
  <2>1. slot[d] = None
    BY <1>11, <1>a DEF Show, SlotInv
  <2>2. QED
    BY <1>11, <1>b, <1>e, <2>1 DEF Show, stored
<1>12. ASSUME NEW d \in Device, Hide(d) PROVE SlotInv'
  BY <1>12, <1>b, <1>e DEF Hide, stored
<1>13. ASSUME NEW d \in Device, Restart(d) PROVE SlotInv'
  BY <1>13, <1>b, <1>e DEF Restart, stored
<1>14. ASSUME NEW d \in Device, FlushTyping(d) PROVE SlotInv'
  BY <1>14, <1>v DEF FlushTyping, stored, volatile
<1>15. ASSUME NEW d \in Device, Refetch(d) PROVE SlotInv'
  BY <1>15, <1>v DEF Refetch, stored, volatile
<1>16. ASSUME NEW d \in Device, Offer(d) PROVE SlotInv'
  <2>1. \A e \in Device \ {d} : slot'[e] = slot[e]
    BY <1>16, <1>b DEF Offer
  <2>2. ASSUME NEW e \in Device \ {d}, slot[e] # None PROVE visible[e]
    BY <1>a, <2>2 DEF SlotInv
  <2>3. Good(d, slot'[d])
    <3> DEFINE s == active[d]
               q == queue[d][s]
    <3>1. s \in Session /\ q \in Seq(RestoreDraftRequest) /\ visible[d]
      BY <1>16, <1>b DEF Offer
    <3>2. CASE q # <<>> /\ slot' = [slot EXCEPT ![d] = Head(q)]
      <4>1. Head(q) \in Entries(q) /\ Head(q) \in RestoreDraftRequest /\ Head(q).id \in Id
        BY <1>c, <3>1, <3>2 DEF Entries
      <4>2. slot'[d] = Head(q)
        BY <1>b, <3>2
      <4>3. session[Head(q).id] = s /\ Answered(Head(q))
        BY <1>a, <3>1, <4>1 DEF QueuesInv
      <4> HIDE DEF q
      <4>4. QED
        BY <1>16, <3>1, <4>1, <4>2, <4>3 DEF Offer, Answered, sends, stored, q, Good
    <3>3. CASE \E i \in Offerable(d) : slot' = [slot EXCEPT ![d] = Durable(i)]
      <4>1. PICK i \in cached[d][s] : i \notin ledger[d] /\ slot' = [slot EXCEPT ![d] = Durable(i)]
        BY <3>3 DEF Offerable
      <4>2. slot'[d] = Durable(i) /\ WasRow(i) /\ session[i] = s
        BY <1>a, <1>b, <3>1, <4>1 DEF RowsInv
      <4>3. QED
        BY <1>16, <3>1, <4>1, <4>2 DEF Offer, Durable, WasRow, sends, stored, Good
    <3>4. QED
      BY <1>16, <3>2, <3>3 DEF Offer
  <2>4. ASSUME NEW e \in Device \ {d}, slot'[e] # None PROVE Good(e, slot'[e])
    <3>1. /\ slot'[e] = slot[e] /\ visible'[e] = visible[e] /\ active'[e] = active[e]
          /\ queue'[e] = queue[e] /\ ledger'[e] = ledger[e]
      BY <1>16, <2>1 DEF Offer, stored
    <3>2. slot[e] # None /\ visible'[e]
      BY <2>2, <2>4, <3>1
    <3>3. QED
      BY <1>d, <3>1, <3>2
  <2>5. QED
    BY <1>s, <2>3, <2>4
<1>17. ASSUME NEW d \in Device, Apply(d) PROVE SlotInv'
  BY <1>17, <1>b, <1>e DEF Apply
<1>18. ASSUME NEW d \in Device, NEW s \in Session, Select(d, s) PROVE SlotInv'
  <2>1. slot'[d] = None
    BY <1>18, <1>a, <1>b DEF Select, ReleasedFor, SlotInv
  <2>2. QED
    BY <1>18, <1>b, <1>e, <2>1 DEF Select, ReleasedFor
<1>19. ASSUME NEW d \in Device, NEW s \in Session, AnswerFetch(d, s) PROVE SlotInv'
  BY <1>19, <1>v DEF AnswerFetch, stored, volatile
<1>20. ASSUME NEW d \in Device, NEW s \in Session, LandFetch(d, s) PROVE SlotInv'
  BY <1>20, <1>v DEF LandFetch, stored, volatile
<1>21. ASSUME NEW d \in Device, NEW s \in Session, FailFetch(d, s) PROVE SlotInv'
  BY <1>21, <1>v DEF FailFetch, stored, volatile
<1>22. ASSUME NEW d \in Device, NEW i \in Id, Send(d, i) PROVE SlotInv'
  BY <1>22, <1>v DEF Send, stored, volatile
<1>23. ASSUME NEW d \in Device, NEW i \in Id, Stop(d, i) PROVE SlotInv'
  BY <1>23, <1>v DEF Stop, stored, volatile
<1>24. ASSUME NEW d \in Device, Reconcile(d) PROVE SlotInv'
  BY <1>24, <1>v DEF Reconcile, stored, volatile
<1>25. ASSUME NEW d \in Device, NEW i \in Id, DeleteRow(d, i) PROVE SlotInv'
  BY <1>25, <1>v DEF DeleteRow, stored, volatile
<1>26. ASSUME NEW d \in Device, NEW i \in Id, ConfirmConsume(d, i) PROVE SlotInv'
  <2>1. \A e \in Device : ledger'[e] \subseteq ledger[e]
    BY <1>26, <1>b DEF ConfirmConsume
  <2>2. \A e \in Device : slot[e] # None => visible[e]
    BY <1>a DEF SlotInv
  <2>3. ASSUME NEW e \in Device, slot'[e] # None PROVE Good(e, slot'[e])
    <3>1. /\ slot'[e] = slot[e] /\ visible'[e] = visible[e] /\ active'[e] = active[e]
          /\ queue'[e] = queue[e]
      BY <1>26 DEF ConfirmConsume
    <3>2. slot[e] # None /\ visible'[e]
      BY <2>2, <2>3, <3>1
    <3>3. QED
      BY <1>d, <2>1, <3>1, <3>2
  <2>4. QED
    BY <1>s, <2>3
<1>27. ASSUME NEW d \in Device, NEW i \in Id, FailConsume(d, i) PROVE SlotInv'
  BY <1>27, <1>v DEF FailConsume, stored, volatile
<1>28. ASSUME NEW d \in Device, Unmount(d) PROVE SlotInv'
  BY <1>28, <1>b, <1>e DEF Unmount, stored
<1>29. ASSUME NEW d \in Device, NEW i \in Id, EndUnheard(d, i) PROVE SlotInv'
  BY <1>29, <1>v DEF EndUnheard, stored
<1>30. CASE UNCHANGED vars
  BY <1>30, <1>v DEF vars, stored, volatile
<1>31. QED
  BY <1>1, <1>2, <1>3, <1>4, <1>5, <1>6, <1>7, <1>8, <1>9, <1>10, <1>11,
      <1>12, <1>13, <1>14, <1>15, <1>16, <1>17, <1>18, <1>19, <1>20,
      <1>21, <1>22, <1>23, <1>24, <1>25, <1>26, <1>27, <1>28, <1>29, <1>30
      DEF Next, Server, User, Client

\* The shape of the client's state is inductive.
LEMMA NextShape == ShapeInv /\ [Next]_vars => ShapeInv'
BY NextTypeInv, NextQueues, NextRows, NextSlot DEF ShapeInv

-----------------------------------------------------------------------------
\* The hand-off is at most once

\* What was applied stays spent.
LEMMA NextSpent ==
    ShapeInv /\ [Next]_vars =>
        \A d \in Device, r \in RestoreDraftRequest : Spent(d, r) => Spent(d, r)'
<1> DEFINE Stays == \A d \in Device, r \in RestoreDraftRequest : Spent(d, r) => Spent(d, r)'
<1> SUFFICES ASSUME ShapeInv, [Next]_vars PROVE Stays
  OBVIOUS
<1>a. TypeInv /\ QueuesInv /\ RowsInv /\ SlotInv /\ Forward
  BY NextForward DEF ShapeInv
<1>b. \A r \in RestoreDraftRequest : r.id \in Id /\ r.kind \in Kind
  BY DEF RestoreDraftRequest
<1>c. /\ ledger \in [Device -> SUBSET Id] /\ straddled \in [Device -> SUBSET Id]
      /\ cached \in [Device -> [Session -> SUBSET Id]]
      /\ fetch \in [Device -> [Session -> Fetch]]
      /\ queue \in [Device -> [Session -> Seq(RestoreDraftRequest)]]
      /\ slot \in [Device -> RestoreDraftRequest \cup {None}]
      /\ active \in [Device -> Session]
      /\ \A i \in Id : session[i] \in Session
  BY <1>a DEF TypeInv, TypeOK
<1>d. \A i \in Id : stage[i] # "unused" => session'[i] = session[i]
  BY <1>a DEF Forward
<1>e. \A r : Answered(r) /\ r.id \in Id =>
          /\ session'[r.id] = session[r.id]
          /\ r.kind # "durable"
          /\ stage'[r.id] \notin {"unused", "posted", "accepted"}
          /\ r.kind = "cancelled" => stage'[r.id] = "gone"
  BY <1>a DEF Forward, Answered
<1>m. ASSUME \A d \in Device, i \in Id : i \in ledger[d] \cup straddled[d] =>
                 i \in ledger'[d] \cup straddled'[d] \/ Retired(d, i)',
             \A d \in Device, i \in Id : Retired(d, i) => Retired(d, i)',
             \A d \in Device, r \in RestoreDraftRequest :
                 Answered(r) /\ r \notin Entries(queue[d][session[r.id]]) =>
                 r \notin Entries(queue'[d][session[r.id]])
      PROVE  Stays
  <2> SUFFICES ASSUME NEW d \in Device, NEW r \in RestoreDraftRequest, Spent(d, r)
               PROVE  Spent(d, r)'
    OBVIOUS
  <2>1. CASE r.kind = "durable"
    <3>1. r.id \in ledger[d] \cup straddled[d] \/ Retired(d, r.id)
      BY <2>1 DEF Spent
    <3>2. r.id \in ledger'[d] \cup straddled'[d] \/ Retired(d, r.id)'
      BY <1>b, <1>m, <3>1
    <3>3. QED
      BY <2>1, <3>2 DEF Spent
  <2>2. CASE r.kind # "durable"
    <3>1. Answered(r) /\ r \notin Entries(queue[d][session[r.id]])
      BY <2>2 DEF Spent
    <3>2. r \notin Entries(queue'[d][session'[r.id]])
      BY <1>b, <1>e, <1>m, <3>1
    <3>3. Answered(r)'
      BY <1>b, <1>e, <3>1 DEF Answered
    <3>4. QED
      BY <2>2, <3>2, <3>3 DEF Spent
  <2>3. QED
    BY <2>1, <2>2
<1>r. ASSUME \A d \in Device, s \in Session :
                 /\ cached'[d][s] \subseteq cached[d][s] \cup fetch[d][s].rows
                 /\ fetch'[d][s].rows \subseteq fetch[d][s].rows \cup Rows(s),
             \A d \in Device : \/ slot'[d] \in {slot[d], None}
                               \/ \E i \in cached[d][active[d]] : slot'[d] = Durable(i)
                               \/ slot'[d] \in Entries(queue[d][active[d]])
      PROVE  \A d \in Device, i \in Id : Retired(d, i) => Retired(d, i)'
  <2> SUFFICES ASSUME NEW d \in Device, NEW i \in Id, Retired(d, i) PROVE Retired(d, i)'
    OBVIOUS
  <2>1. stage[i] = "gone" /\ stage'[i] = "gone" /\ session'[i] = session[i]
    BY <1>a DEF Forward, Retired
  <2>2. i \notin cached'[d][session[i]] \cup fetch'[d][session[i]].rows
    BY <1>c, <1>r, <2>1 DEF Retired, Rows
  <2>3. slot'[d] # Durable(i)
    <3>1. CASE slot'[d] = slot[d]
      BY <3>1 DEF Retired
    <3>2. CASE slot'[d] = None
      BY <3>2, NoneAssumption DEF Durable, RestoreDraftRequest, Kind
    <3>3. CASE \E j \in cached[d][active[d]] : slot'[d] = Durable(j)
      <4>1. PICK j \in cached[d][active[d]] : slot'[d] = Durable(j)
        BY <3>3
      <4>2. session[j] = active[d]
        BY <1>a, <1>c DEF RowsInv
      <4>3. j # i
        BY <4>2 DEF Retired
      <4>4. QED
        BY <4>1, <4>3 DEF Durable
    <3>4. CASE slot'[d] \in Entries(queue[d][active[d]])
      BY <1>a, <1>c, <3>4 DEF QueuesInv, Answered, Durable
    <3>5. QED
      BY <1>r, <3>1, <3>2, <3>3, <3>4
  <2>4. QED
    BY <2>1, <2>2, <2>3 DEF Retired, Durable
<1>s. ASSUME ledger' = ledger, straddled' = straddled, queue' = queue,
             \A d \in Device, s \in Session :
                 /\ cached'[d][s] \subseteq cached[d][s] \cup fetch[d][s].rows
                 /\ fetch'[d][s].rows \subseteq fetch[d][s].rows \cup Rows(s),
             \A d \in Device : \/ slot'[d] \in {slot[d], None}
                               \/ \E i \in cached[d][active[d]] : slot'[d] = Durable(i)
                               \/ slot'[d] \in Entries(queue[d][active[d]])
      PROVE  Stays
  <2>1. \A d \in Device, i \in Id : Retired(d, i) => Retired(d, i)'
    BY <1>r, <1>s
  <2> HIDE DEF Stays
  <2>2. QED
    BY <1>m, <1>s, <2>1
<1>u. ASSUME ledger' = ledger, straddled' = straddled, queue' = queue, cached' = cached,
             fetch' = fetch, slot' = slot
      PROVE  Stays
  BY <1>s, <1>u
<1>q. ASSUME NEW i \in Id, NEW k \in {"failed", "cancelled"}, Queue(i, k),
             stage[i] \in {"posted", "accepted", "stopping"},
             stage[i] = "stopping" => k = "cancelled"
      PROVE  Stays
  <2> DEFINE x == [id |-> i, kind |-> k]
  <2>1. sender[i] \in Device /\ session[i] \in Session /\ x \in RestoreDraftRequest
    BY <1>a DEF TypeInv, TypeOK, RestoreDraftRequest, Kind
  <2>2. queue' = [queue EXCEPT ![sender[i]][session[i]] = Enqueued(@, x)]
    BY <1>q DEF Queue
  <2>3. Entries(Enqueued(queue[sender[i]][session[i]], x)) = Entries(queue[sender[i]][session[i]]) \cup {x}
    <3>1. queue[sender[i]][session[i]] \in Seq(RestoreDraftRequest)
          /\ Distinct(queue[sender[i]][session[i]])
      BY <1>a, <1>c, <2>1 DEF QueuesInv
    <3> HIDE DEF x
    <3>2. QED
      BY <2>1, <3>1, EnqueuedFacts
  <2>4. ~Answered(x)
    BY <1>q DEF Answered
  <2> HIDE DEF x
  <2>5. \A d \in Device, r \in RestoreDraftRequest :
            Answered(r) /\ r \notin Entries(queue[d][session[r.id]]) =>
            r \notin Entries(queue'[d][session[r.id]])
    <3> SUFFICES ASSUME NEW d \in Device, NEW r \in RestoreDraftRequest, Answered(r),
                        r \notin Entries(queue[d][session[r.id]])
                 PROVE  r \notin Entries(queue'[d][session[r.id]])
      OBVIOUS
    <3>1. r # x /\ session[r.id] \in Session
      BY <1>b, <1>c, <2>4
    <3>2. CASE d = sender[i] /\ session[r.id] = session[i]
      <4>1. queue'[d][session[r.id]] = Enqueued(queue[d][session[r.id]], x)
        BY <1>c, <2>1, <2>2, <3>2
      <4>2. QED
        BY <2>3, <3>1, <3>2, <4>1
    <3>3. CASE ~(d = sender[i] /\ session[r.id] = session[i])
      <4>1. queue'[d][session[r.id]] = queue[d][session[r.id]]
        BY <1>c, <2>1, <2>2, <3>1, <3>3
      <4>2. QED
        BY <4>1
    <3>4. QED
      BY <3>2, <3>3
  <2>6. /\ ledger' = ledger /\ straddled' = straddled /\ cached' = cached
        /\ fetch' = fetch /\ slot' = slot
    BY <1>q DEF Queue, volatile
  <2>7. \A d \in Device, z \in Id : Retired(d, z) => Retired(d, z)'
    BY <1>r, <2>6
  <2> HIDE DEF Stays
  <2>8. QED
    BY <1>m, <2>5, <2>6, <2>7
<1> HIDE DEF Stays
<1>1. ASSUME NEW i \in Id, AcceptSend(i) PROVE Stays
  BY <1>1, <1>u DEF AcceptSend, stored, volatile, history
<1>2. ASSUME NEW i \in Id, AnswerSend(i) PROVE Stays
  BY <1>2, <1>u DEF AnswerSend, stored, volatile, history
<1>3. ASSUME NEW i \in Id, FailSend(i) PROVE Stays
  BY <1>3, <1>q DEF FailSend, Moved
<1>4. ASSUME NEW i \in Id, FinishTask(i) PROVE Stays
  BY <1>4, <1>u DEF FinishTask, stored, volatile, history
<1>5. ASSUME NEW i \in Id, AnswerCancel(i) PROVE Stays
  BY <1>5, <1>q DEF AnswerCancel, Moved
<1>6. ASSUME NEW i \in Id, LoseCancelAnswer(i) PROVE Stays
  BY <1>6, <1>u DEF LoseCancelAnswer, stored, volatile, history
<1>7. ASSUME NEW i \in Id, DeferCancel(i) PROVE Stays
  BY <1>7, <1>u DEF DeferCancel, stored, volatile, history
<1>8. ASSUME NEW i \in Id, SettleDeferred(i) PROVE Stays
  BY <1>8, <1>u DEF SettleDeferred, stored, volatile, history
<1>9. ASSUME NEW d \in Device, NEW t \in Text, Keystroke(d, t) PROVE Stays
  BY <1>9, <1>u DEF Keystroke, stored, volatile, history
<1>10. ASSUME NEW d \in Device, Discard(d) PROVE Stays
  BY <1>10, <1>u DEF Discard, stored, volatile, history
<1>11. ASSUME NEW d \in Device, Show(d) PROVE Stays
  <2>1. fetch' = [fetch EXCEPT ![d][active[d]] = IF @.phase = "idle" THEN Asked ELSE @]
    BY <1>11 DEF Show, Fetching
  <2>2. \A e \in Device, z \in Session : fetch'[e][z].rows \subseteq fetch[e][z].rows
    BY <1>c, <2>1 DEF Asked
  <2>3. \A e \in Device : slot'[e] \in {slot[e], None}
    BY <1>11, <1>c DEF Show, ReleasedFor
  <2>4. QED
    BY <1>11, <1>s, <2>2, <2>3 DEF Show, stored, history
<1>12. ASSUME NEW d \in Device, Hide(d) PROVE Stays
  <2>1. \A e \in Device : slot'[e] \in {slot[e], None}
    BY <1>12, <1>c DEF Hide
  <2>2. QED
    BY <1>12, <1>s, <2>1 DEF Hide, stored, history
<1>13. ASSUME NEW d \in Device, Restart(d) PROVE Stays
  <2>1. \A e \in Device : slot'[e] \in {slot[e], None}
    BY <1>13, <1>c DEF Restart
  <2>2. \A e \in Device, z \in Session : /\ cached'[e][z] \subseteq cached[e][z]
                                         /\ fetch'[e][z].rows \subseteq fetch[e][z].rows
    <3>1. /\ cached' = [cached EXCEPT ![d] = [z \in Session |-> {}]]
          /\ fetch' = [fetch EXCEPT ![d] = [z \in Session |-> Idle]]
      BY <1>13 DEF Restart
    <3>2. QED
      BY <1>c, <3>1 DEF Idle
  <2>3. QED
    BY <1>13, <1>s, <2>1, <2>2 DEF Restart, stored, history
<1>14. ASSUME NEW d \in Device, FlushTyping(d) PROVE Stays
  BY <1>14, <1>u DEF FlushTyping, stored, volatile, history
<1>15. ASSUME NEW d \in Device, Refetch(d) PROVE Stays
  <2>1. fetch' = [fetch EXCEPT ![d][active[d]] = Asked]
    BY <1>15 DEF Refetch, Refetching, Asked
  <2>2. \A e \in Device, z \in Session : fetch'[e][z].rows \subseteq fetch[e][z].rows
    BY <1>c, <2>1 DEF Asked
  <2>3. QED
    BY <1>15, <1>s, <2>2 DEF Refetch, stored, history
<1>16. ASSUME NEW d \in Device, Offer(d) PROVE Stays
  <2>1. \A e \in Device \ {d} : slot'[e] = slot[e]
    BY <1>16, <1>c DEF Offer
  <2>2. \/ \E i \in cached[d][active[d]] : slot'[d] = Durable(i)
        \/ slot'[d] \in Entries(queue[d][active[d]])
    <3> DEFINE q == queue[d][active[d]]
    <3>1. q \in Seq(RestoreDraftRequest)
      BY <1>c
    <3>2. CASE q # <<>> /\ slot' = [slot EXCEPT ![d] = Head(q)]
      <4>1. Head(q) \in Entries(q)
        BY <3>1, <3>2 DEF Entries
      <4>2. slot'[d] = Head(q)
        BY <1>c, <3>2
      <4>3. QED
        BY <4>1, <4>2
    <3>3. CASE \E i \in Offerable(d) : slot' = [slot EXCEPT ![d] = Durable(i)]
      BY <1>c, <3>3 DEF Offerable
    <3>4. QED
      BY <1>16, <3>2, <3>3 DEF Offer
  <2>3. QED
    BY <1>16, <1>s, <2>1, <2>2 DEF Offer, stored, history
<1>17. ASSUME NEW d \in Device, Apply(d) PROVE Stays
  <2>1. slot[d] \in RestoreDraftRequest /\ slot[d].id \in Id /\ session[slot[d].id] \in Session
    BY <1>17, <1>a, <1>b, <1>c DEF Apply
  <2>2. /\ \A e \in Device : slot'[e] \in {slot[e], None}
        /\ fetch' = fetch /\ straddled' = straddled
    BY <1>17, <1>c DEF Apply
  <2>3. CASE slot[d].kind = "durable"
    <3>1. /\ ledger' = [ledger EXCEPT ![d] = @ \cup {slot[d].id}]
          /\ Consume(d, {slot[d].id}, slot[d].id)
          /\ queue' = queue
      BY <1>17, <2>3 DEF Apply
    <3>2. /\ \A e \in Device, z \in Session : cached'[e][z] \subseteq cached[e][z]
          /\ \A e \in Device : ledger[e] \subseteq ledger'[e]
      <4>1. PICK i \in Id : i = slot[d].id
        BY <2>1
      <4>2. Consume(d, {i}, i) /\ {i} \in SUBSET Id /\ i \in {i}
        BY <3>1, <4>1
      <4>3. QED
        BY <1>a, <1>c, <3>1, <4>2, ConsumeFacts
    <3>3. \A e \in Device, z \in Id : Retired(e, z) => Retired(e, z)'
      BY <1>r, <2>2, <3>2
    <3>4. QED
      BY <1>m, <2>2, <3>1, <3>2, <3>3
  <2>4. CASE slot[d].kind # "durable"
    <3> DEFINE q == Dequeued(queue[d][session[slot[d].id]], slot[d])
    <3>1. /\ queue' = [queue EXCEPT ![d][session[slot[d].id]] = q]
          /\ ledger' = ledger /\ cached' = cached
      BY <1>17, <2>4 DEF Apply
    <3>2. Entries(q) \subseteq Entries(queue[d][session[slot[d].id]])
      BY <1>a, <1>c, <2>1, DequeuedFacts DEF QueuesInv
    <3> HIDE DEF q
    <3>3. ASSUME NEW e \in Device, NEW z \in Session
          PROVE  Entries(queue'[e][z]) \subseteq Entries(queue[e][z])
      <4>1. CASE e = d /\ z = session[slot[d].id]
        BY <1>c, <2>1, <3>1, <3>2, <4>1
      <4>2. CASE ~(e = d /\ z = session[slot[d].id])
        <5>1. queue'[e][z] = queue[e][z]
          BY <1>c, <2>1, <3>1, <4>2
        <5>2. QED
          BY <5>1
      <4>3. QED
        BY <4>1, <4>2
    <3>4. \A e \in Device, z \in Id : Retired(e, z) => Retired(e, z)'
      BY <1>r, <2>2, <3>1
    <3>5. \A e \in Device, r \in RestoreDraftRequest :
              r \notin Entries(queue[e][session[r.id]]) => r \notin Entries(queue'[e][session[r.id]])
      BY <1>b, <1>c, <3>3
    <3>6. QED
      BY <1>m, <2>2, <3>1, <3>4, <3>5
  <2>5. QED
    BY <2>3, <2>4
<1>18. ASSUME NEW d \in Device, NEW s \in Session, Select(d, s) PROVE Stays
  <2>1. fetch' = [fetch EXCEPT ![d][s] = IF @.phase = "idle" THEN Asked ELSE @]
    BY <1>18 DEF Select, Fetching
  <2>2. \A e \in Device, z \in Session : fetch'[e][z].rows \subseteq fetch[e][z].rows
    BY <1>c, <2>1 DEF Asked
  <2>3. \A e \in Device : slot'[e] \in {slot[e], None}
    BY <1>18, <1>c DEF Select, ReleasedFor
  <2>4. QED
    BY <1>18, <1>s, <2>2, <2>3 DEF Select, stored, history
<1>19. ASSUME NEW d \in Device, NEW s \in Session, AnswerFetch(d, s) PROVE Stays
  <2>1. fetch' = [fetch EXCEPT ![d][s] = [phase |-> "answered", rows |-> Rows(s)]]
    BY <1>19 DEF AnswerFetch
  <2>2. \A e \in Device, z \in Session : fetch'[e][z].rows \subseteq fetch[e][z].rows \cup Rows(z)
    BY <1>c, <2>1
  <2>3. QED
    BY <1>19, <1>s, <2>2 DEF AnswerFetch, stored, history
<1>20. ASSUME NEW d \in Device, NEW s \in Session, LandFetch(d, s) PROVE Stays
  <2>1. /\ cached' = [cached EXCEPT ![d][s] = fetch[d][s].rows]
        /\ fetch' = [fetch EXCEPT ![d][s] = Idle]
    BY <1>20 DEF LandFetch
  <2>2. \A e \in Device, z \in Session :
            /\ cached'[e][z] \subseteq cached[e][z] \cup fetch[e][z].rows
            /\ fetch'[e][z].rows \subseteq fetch[e][z].rows
    BY <1>c, <2>1 DEF Idle
  <2>3. QED
    BY <1>20, <1>s, <2>2 DEF LandFetch, stored, history
<1>21. ASSUME NEW d \in Device, NEW s \in Session, FailFetch(d, s) PROVE Stays
  <2>1. fetch' = [fetch EXCEPT ![d][s] = Idle]
    BY <1>21 DEF FailFetch, Idle
  <2>2. \A e \in Device, z \in Session : fetch'[e][z].rows \subseteq fetch[e][z].rows
    BY <1>c, <2>1 DEF Idle
  <2>3. QED
    BY <1>21, <1>s, <2>2 DEF FailFetch, stored, history
<1>22. ASSUME NEW d \in Device, NEW i \in Id, Send(d, i) PROVE Stays
  BY <1>22, <1>u DEF Send, stored, volatile, history
<1>23. ASSUME NEW d \in Device, NEW i \in Id, Stop(d, i) PROVE Stays
  BY <1>23, <1>u DEF Stop, stored, volatile, history
<1>24. ASSUME NEW d \in Device, Reconcile(d) PROVE Stays
  <2>1. \A e \in Device, z \in Session : cached'[e][z] \subseteq cached[e][z]
    <3>1. Outlived(d) \in SUBSET Id
      BY <1>c DEF Outlived
    <3>2. CASE \E last \in Outlived(d) : Consume(d, Outlived(d), last)
      BY <1>a, <3>1, <3>2, ConsumeFacts
    <3>3. QED
      BY <1>24, <3>2 DEF Reconcile
  <2>2. QED
    BY <1>24, <1>s, <2>1 DEF Reconcile, stored, history
<1>25. ASSUME NEW d \in Device, NEW i \in Id, DeleteRow(d, i) PROVE Stays
  BY <1>25, <1>u DEF DeleteRow, stored, volatile, history
<1>26. ASSUME NEW d \in Device, NEW i \in Id, ConfirmConsume(d, i) PROVE Stays
  <2>1. /\ ledger' = [ledger EXCEPT ![d] = @ \ {i}] /\ queue' = queue
        /\ cached' = cached /\ fetch' = fetch /\ slot' = slot
        /\ straddled' = [straddled EXCEPT ![d] =
                            IF i \in cached[d][session[i]] \cup fetch[d][session[i]].rows
                            THEN @ \cup {i} ELSE @]
    BY <1>26 DEF ConfirmConsume
  <2>2. \A e \in Device, z \in Id : Retired(e, z) => Retired(e, z)'
    BY <1>r, <2>1
  <2>3. ASSUME NEW e \in Device, NEW z \in Id, z \in ledger[e] \cup straddled[e]
        PROVE  z \in ledger'[e] \cup straddled'[e] \/ Retired(e, z)'
    <3>1. straddled[e] \subseteq straddled'[e]
      BY <1>c, <2>1
    <3>2. CASE e = d /\ z = i /\ z \in ledger[e]
      <4>1. CASE i \in cached[d][session[i]] \cup fetch[d][session[i]].rows
        BY <1>c, <2>1, <3>2, <4>1
      <4>2. CASE i \notin cached[d][session[i]] \cup fetch[d][session[i]].rows
        <5>1. stage[i] = "gone" /\ stage'[i] = "gone" /\ session'[i] = session[i]
          BY <1>26 DEF ConfirmConsume, sends
        <5>2. slot[d] # Durable(i)
          BY <1>a, <3>2, NoneAssumption DEF SlotInv, Durable, RestoreDraftRequest, Kind
        <5>3. QED
          BY <2>1, <3>2, <4>2, <5>1, <5>2 DEF Retired, Durable
      <4>3. QED
        BY <4>1, <4>2
    <3>3. CASE ~(e = d /\ z = i) /\ z \in ledger[e]
      BY <1>c, <2>1, <3>3
    <3>4. QED
      BY <2>3, <3>1, <3>2, <3>3
  <2>4. QED
    BY <1>m, <2>1, <2>2, <2>3
<1>27. ASSUME NEW d \in Device, NEW i \in Id, FailConsume(d, i) PROVE Stays
  BY <1>27, <1>u DEF FailConsume, stored, history
<1>28. ASSUME NEW d \in Device, Unmount(d) PROVE Stays
  <2>1. \A e \in Device : slot'[e] \in {slot[e], None}
    BY <1>28, <1>c DEF Unmount
  <2>2. QED
    BY <1>28, <1>s, <2>1 DEF Unmount, stored, history
<1>29. ASSUME NEW d \in Device, NEW i \in Id, EndUnheard(d, i) PROVE Stays
  BY <1>29, <1>u DEF EndUnheard, stored, history
<1>30. CASE UNCHANGED vars
  BY <1>30, <1>u DEF vars, stored, volatile, history
<1>31. QED
  BY <1>1, <1>2, <1>3, <1>4, <1>5, <1>6, <1>7, <1>8, <1>9, <1>10, <1>11,
      <1>12, <1>13, <1>14, <1>15, <1>16, <1>17, <1>18, <1>19, <1>20,
      <1>21, <1>22, <1>23, <1>24, <1>25, <1>26, <1>27, <1>28, <1>29, <1>30
      DEF Next, Server, User, Client

\* Init has applied nothing.
LEMMA InitHandOff == Init => HandOffInv
<1> SUFFICES ASSUME Init PROVE HandOffInv
  OBVIOUS
<1>1. ShapeInv
  BY InitShape
<1>2. AdoptedInv /\ ReappliedOnlyFromStaleList
  BY DEF Init, AdoptedInv, ReappliedOnlyFromStaleList
<1>3. QED
  BY <1>1, <1>2 DEF HandOffInv

\* Only Apply records an application, and only ConfirmConsume a straddle.
LEMMA Applications ==
    ASSUME TypeInv, [Next]_vars
    PROVE  \/ /\ adopted' = adopted /\ readopted' = readopted
              /\ \A d \in Device : straddled[d] \subseteq straddled'[d]
           \/ \E d \in Device : Apply(d)
<1> DEFINE Quiet == /\ adopted' = adopted /\ readopted' = readopted
                    /\ \A d \in Device : straddled[d] \subseteq straddled'[d]
           Goal == Quiet \/ \E d \in Device : Apply(d)
<1> SUFFICES Goal
  OBVIOUS
<1>1. ASSUME NEW i \in Id, AcceptSend(i) PROVE Goal
  BY <1>1 DEF AcceptSend, history
<1>2. ASSUME NEW i \in Id, AnswerSend(i) PROVE Goal
  BY <1>2 DEF AnswerSend, history
<1>3. ASSUME NEW i \in Id, FailSend(i) PROVE Goal
  BY <1>3 DEF FailSend, Queue
<1>4. ASSUME NEW i \in Id, FinishTask(i) PROVE Goal
  BY <1>4 DEF FinishTask, history
<1>5. ASSUME NEW i \in Id, AnswerCancel(i) PROVE Goal
  BY <1>5 DEF AnswerCancel, Queue
<1>6. ASSUME NEW i \in Id, LoseCancelAnswer(i) PROVE Goal
  BY <1>6 DEF LoseCancelAnswer, history
<1>7. ASSUME NEW i \in Id, DeferCancel(i) PROVE Goal
  BY <1>7 DEF DeferCancel, history
<1>8. ASSUME NEW i \in Id, SettleDeferred(i) PROVE Goal
  BY <1>8 DEF SettleDeferred, history
<1>9. ASSUME NEW d \in Device, NEW t \in Text, Keystroke(d, t) PROVE Goal
  BY <1>9 DEF Keystroke, history
<1>10. ASSUME NEW d \in Device, Discard(d) PROVE Goal
  BY <1>10 DEF Discard, history
<1>11. ASSUME NEW d \in Device, Show(d) PROVE Goal
  BY <1>11 DEF Show, history
<1>12. ASSUME NEW d \in Device, Hide(d) PROVE Goal
  BY <1>12 DEF Hide, history
<1>13. ASSUME NEW d \in Device, Restart(d) PROVE Goal
  BY <1>13 DEF Restart, history
<1>14. ASSUME NEW d \in Device, FlushTyping(d) PROVE Goal
  BY <1>14 DEF FlushTyping, history
<1>15. ASSUME NEW d \in Device, Refetch(d) PROVE Goal
  BY <1>15 DEF Refetch, history
<1>16. ASSUME NEW d \in Device, Offer(d) PROVE Goal
  BY <1>16 DEF Offer, history
<1>17. ASSUME NEW d \in Device, Apply(d) PROVE Goal
  BY <1>17
<1>18. ASSUME NEW d \in Device, NEW s \in Session, Select(d, s) PROVE Goal
  BY <1>18 DEF Select, history
<1>19. ASSUME NEW d \in Device, NEW s \in Session, AnswerFetch(d, s) PROVE Goal
  BY <1>19 DEF AnswerFetch, history
<1>20. ASSUME NEW d \in Device, NEW s \in Session, LandFetch(d, s) PROVE Goal
  BY <1>20 DEF LandFetch, history
<1>21. ASSUME NEW d \in Device, NEW s \in Session, FailFetch(d, s) PROVE Goal
  BY <1>21 DEF FailFetch, history
<1>22. ASSUME NEW d \in Device, NEW i \in Id, Send(d, i) PROVE Goal
  BY <1>22 DEF Send, history
<1>23. ASSUME NEW d \in Device, NEW i \in Id, Stop(d, i) PROVE Goal
  BY <1>23 DEF Stop, history
<1>24. ASSUME NEW d \in Device, Reconcile(d) PROVE Goal
  BY <1>24 DEF Reconcile, history
<1>25. ASSUME NEW d \in Device, NEW i \in Id, DeleteRow(d, i) PROVE Goal
  BY <1>25 DEF DeleteRow, history
<1>26. ASSUME NEW d \in Device, NEW i \in Id, ConfirmConsume(d, i) PROVE Goal
  BY <1>26 DEF ConfirmConsume, TypeInv, TypeOK
<1>27. ASSUME NEW d \in Device, NEW i \in Id, FailConsume(d, i) PROVE Goal
  BY <1>27 DEF FailConsume, history
<1>28. ASSUME NEW d \in Device, Unmount(d) PROVE Goal
  BY <1>28 DEF Unmount, history
<1>29. ASSUME NEW d \in Device, NEW i \in Id, EndUnheard(d, i) PROVE Goal
  BY <1>29 DEF EndUnheard, history
<1>30. CASE UNCHANGED vars
  BY <1>30 DEF vars, sends, stored, volatile, history
<1>31. QED
  BY <1>1, <1>2, <1>3, <1>4, <1>5, <1>6, <1>7, <1>8, <1>9, <1>10, <1>11,
      <1>12, <1>13, <1>14, <1>15, <1>16, <1>17, <1>18, <1>19, <1>20,
      <1>21, <1>22, <1>23, <1>24, <1>25, <1>26, <1>27, <1>28, <1>29, <1>30
      DEF Next, Server, User, Client

\* A request is applied again only from a list older than its consume.
LEMMA NextHandOff == HandOffInv /\ [Next]_vars => HandOffInv'
<1> SUFFICES ASSUME HandOffInv, [Next]_vars PROVE HandOffInv'
  OBVIOUS
<1>1. ShapeInv /\ ShapeInv' /\ TypeInv /\ AdoptedInv /\ ReappliedOnlyFromStaleList
  BY NextShape DEF HandOffInv, ShapeInv
<1>2. \A d \in Device, r \in RestoreDraftRequest : Spent(d, r) => Spent(d, r)'
  BY <1>1, NextSpent
<1>3. /\ adopted \in [Device -> SUBSET RestoreDraftRequest]
      /\ readopted \in [Device -> SUBSET RestoreDraftRequest]
      /\ ledger \in [Device -> SUBSET Id] /\ slot \in [Device -> RestoreDraftRequest \cup {None}]
      /\ queue \in [Device -> [Session -> Seq(RestoreDraftRequest)]]
      /\ \A i \in Id : session[i] \in Session
  BY <1>1 DEF TypeInv, TypeOK
<1>4. CASE /\ adopted' = adopted /\ readopted' = readopted
           /\ \A d \in Device : straddled[d] \subseteq straddled'[d]
  <2>1. AdoptedInv'
    BY <1>1, <1>2, <1>3, <1>4 DEF AdoptedInv
  <2>2. ReappliedOnlyFromStaleList'
    BY <1>1, <1>4 DEF ReappliedOnlyFromStaleList
  <2>3. QED
    BY <1>1, <2>1, <2>2 DEF HandOffInv
<1>5. ASSUME NEW d \in Device, Apply(d) PROVE HandOffInv'
  <2>r. PICK r \in RestoreDraftRequest : r = slot[d]
    BY <1>3, <1>5 DEF Apply
  <2>1. /\ r \in RestoreDraftRequest /\ r.id \in Id /\ r = slot[d] /\ r # None
        /\ session[r.id] \in Session /\ session[r.id] = active[d]
    BY <1>3, <1>5, <2>r DEF Apply, RestoreDraftRequest
  <2>2. /\ adopted' = [adopted EXCEPT ![d] = @ \cup {r}]
        /\ readopted' = [readopted EXCEPT ![d] = @ \cup (adopted[d] \cap {r})]
        /\ straddled' = straddled /\ session' = session /\ stage' = stage
    BY <1>5, <2>r DEF Apply, sends
  <2>3. Spent(d, r)'
    <3>1. CASE r.kind = "durable"
      <4>1. ledger' = [ledger EXCEPT ![d] = @ \cup {r.id}]
        BY <1>5, <2>1, <3>1 DEF Apply
      <4>2. r.id \in ledger'[d]
        BY <1>3, <4>1
      <4>3. QED
        BY <3>1, <4>2 DEF Spent
    <3>2. CASE r.kind # "durable"
      <4>1. queue' = [queue EXCEPT ![d][session[r.id]] = Dequeued(@, r)]
        BY <1>5, <2>1, <3>2 DEF Apply
      <4>2. r \notin Entries(queue'[d][session[r.id]])
        <5>1. Distinct(queue[d][session[r.id]])
          BY <1>1, <2>1 DEF ShapeInv, QueuesInv
        <5>2. QED
          BY <1>3, <2>1, <4>1, <5>1, DequeuedFacts
      <4>3. Answered(r)
        BY <1>1, <2>1, <3>2 DEF ShapeInv, SlotInv, QueuesInv
      <4>4. QED
        BY <2>2, <3>2, <4>2, <4>3 DEF Spent, Answered
    <3>3. QED
      BY <3>1, <3>2
  <2>4. AdoptedInv'
    <3>1. ASSUME NEW e \in Device, NEW x \in adopted'[e] PROVE Spent(e, x)'
      <4>1. CASE x \in adopted[e]
        BY <1>1, <1>2, <1>3, <4>1 DEF AdoptedInv
      <4>2. CASE x \notin adopted[e]
        <5>1. e = d /\ x = r
          BY <1>3, <2>2, <3>1, <4>2
        <5>2. QED
          BY <2>3, <5>1
      <4>3. QED
        BY <4>1, <4>2
    <3>2. QED
      BY <3>1 DEF AdoptedInv
  <2>5. r \in adopted[d] => r.kind = "durable" /\ r.id \in straddled[d]
    <3> SUFFICES ASSUME r \in adopted[d] PROVE r.kind = "durable" /\ r.id \in straddled[d]
      OBVIOUS
    <3>1. Spent(d, r)
      BY <1>1 DEF AdoptedInv
    <3>2. /\ r.kind = "durable" => r.id \notin ledger[d]
          /\ r.kind # "durable" => r \in Entries(queue[d][session[r.id]])
      BY <1>1, <2>1 DEF ShapeInv, SlotInv
    <3>3. r.kind = "durable"
      BY <3>1, <3>2 DEF Spent
    <3>4. r = Durable(r.id)
      BY <2>1, <3>3 DEF RestoreDraftRequest, Durable
    <3>5. ~Retired(d, r.id)
      BY <2>1, <3>4 DEF Retired
    <3>6. QED
      BY <3>1, <3>2, <3>3, <3>5 DEF Spent
  <2>6. ReappliedOnlyFromStaleList'
    BY <1>1, <1>3, <2>2, <2>5 DEF ReappliedOnlyFromStaleList
  <2>7. QED
    BY <1>1, <2>4, <2>6 DEF HandOffInv
<1>6. QED
  BY <1>1, <1>4, <1>5, Applications

-----------------------------------------------------------------------------
\* The hand-off loses nothing

\* A step that removes no draft, queue entry or row still to be taken keeps a
\* text recoverable.
LEMMA StillRecoverable ==
    ASSUME ShapeInv, Forward, NEW t \in Text, Recoverable(t),
           \A d \in Device, s \in Session : draft[d][s] = t => draft'[d][s] = t,
           \A d \in Device, s \in Session : Entries(queue[d][s]) \subseteq Entries(queue'[d][s]),
           \A d \in Device : ledger'[d] \cup Flying(d)' \subseteq ledger[d] \cup Flying(d),
           \A i \in Id : stage[i] = "restorable" =>
               stage'[i] = "restorable" \/ \E d \in Device : i \in ledger[d] \cup Flying(d)
    PROVE  Recoverable(t)'
<1>a. \A r \in RestoreDraftRequest : r.id \in Id
  BY DEF RestoreDraftRequest
<1>b. \A d \in Device, s \in Session : Entries(queue[d][s]) \subseteq RestoreDraftRequest
  BY DEF ShapeInv, TypeInv, TypeOK, Entries
<1>1. CASE \E i \in Id : /\ stage[i] = "restorable" /\ text[i] = t
                         /\ \A d \in Device : i \notin ledger[d] \cup Flying(d)
  <2>1. PICK i \in Id : /\ stage[i] = "restorable" /\ text[i] = t
                        /\ \A d \in Device : i \notin ledger[d] \cup Flying(d)
    BY <1>1
  <2>2. text'[i] = t
    BY <2>1 DEF Forward
  <2>3. stage'[i] = "restorable" /\ \A d \in Device : i \notin ledger'[d] \cup Flying(d)'
    BY <2>1
  <2>4. QED
    BY <2>2, <2>3 DEF Recoverable
<1>2. CASE \E d \in Device, s \in Session : draft[d][s] = t
  BY <1>2 DEF Recoverable
<1>3. CASE \E d \in Device, s \in Session : \E r \in Entries(queue[d][s]) : text[r.id] = t
  <2>1. PICK d \in Device, s \in Session : \E r \in Entries(queue[d][s]) : text[r.id] = t
    BY <1>3
  <2>2. PICK r \in Entries(queue[d][s]) : text[r.id] = t
    BY <2>1
  <2>3. r.id \in Id /\ Answered(r)
    BY <1>a, <1>b DEF ShapeInv, QueuesInv
  <2>4. text'[r.id] = t
    BY <2>2, <2>3 DEF Forward, Answered
  <2>5. r \in Entries(queue'[d][s])
    OBVIOUS
  <2>6. QED
    BY <2>4, <2>5 DEF Recoverable
<1>4. QED
  BY <1>1, <1>2, <1>3 DEF Recoverable

\* Every step keeps what is owed recoverable.
LEMMA NextLossless == ShapeInv /\ NoRestoreLost /\ [Next]_vars => NoRestoreLost'
<1> SUFFICES ASSUME ShapeInv, NoRestoreLost, [Next]_vars PROVE NoRestoreLost'
  OBVIOUS
<1>a. TypeInv /\ QueuesInv /\ RowsInv /\ SlotInv /\ Forward
  BY NextForward DEF ShapeInv
<1>b. /\ owed \subseteq Text /\ \A t \in owed : Recoverable(t)
      /\ draft \in [Device -> [Session -> Text \cup {None}]]
      /\ queue \in [Device -> [Session -> Seq(RestoreDraftRequest)]]
      /\ ledger \in [Device -> SUBSET Id] /\ \A d \in Device : Flying(d) \subseteq Id
      /\ active \in [Device -> Session] /\ stage \in [Id -> Stage]
      /\ slot \in [Device -> RestoreDraftRequest \cup {None}]
      /\ \A i \in Id : session[i] \in Session /\ sender[i] \in Device
  BY <1>a DEF NoRestoreLost, TypeInv, TypeOK, Flying
<1>f. ASSUME requests' = requests PROVE \A d \in Device : Flying(d)' = Flying(d)
  BY <1>f DEF requests, Flying
<1>k. ASSUME \A t \in owed', d \in Device, s \in Session : draft[d][s] = t => draft'[d][s] = t,
             \A d \in Device, s \in Session : Entries(queue[d][s]) \subseteq Entries(queue'[d][s]),
             \A d \in Device : ledger'[d] \cup Flying(d)' \subseteq ledger[d] \cup Flying(d),
             \A i \in Id : stage[i] = "restorable" =>
                 stage'[i] = "restorable" \/ \E d \in Device : i \in ledger[d] \cup Flying(d),
             \A t \in owed' : t \in owed \/ Recoverable(t)'
      PROVE  NoRestoreLost'
  <2> SUFFICES ASSUME NEW t \in owed', t \in owed PROVE Recoverable(t)'
    BY <1>k DEF NoRestoreLost
  <2>1. t \in Text /\ Recoverable(t)
    BY <1>b
  <2>2. \A d \in Device, s \in Session : draft[d][s] = t => draft'[d][s] = t
    BY <1>k
  <2>3. QED
    BY <1>a, <1>k, <2>1, <2>2, StillRecoverable
<1>m. ASSUME draft' = draft, queue' = queue, ledger' = ledger, owed' = owed,
             \A d \in Device : Flying(d)' \subseteq ledger[d] \cup Flying(d),
             \A i \in Id : stage[i] = "restorable" =>
                 stage'[i] = "restorable" \/ \E d \in Device : i \in ledger[d] \cup Flying(d)
      PROVE  NoRestoreLost'
  BY <1>b, <1>k, <1>m
<1>u. ASSUME draft' = draft, queue' = queue, ledger' = ledger, owed' = owed,
             requests' = requests, stage' = stage
      PROVE  NoRestoreLost'
  BY <1>f, <1>m, <1>u
<1>v. ASSUME stored' = stored, volatile' = volatile, history' = history,
             NEW i \in Id, NEW from, NEW to, Moved(i, from, to), from # "restorable"
      PROVE  NoRestoreLost'
  <2>1. \A j \in Id : stage[j] = "restorable" => stage'[j] = "restorable"
    BY <1>b, <1>v DEF Moved
  <2>2. draft' = draft /\ queue' = queue /\ ledger' = ledger /\ owed' = owed /\ requests' = requests
    BY <1>v DEF stored, volatile, history
  <2>3. QED
    BY <1>f, <1>m, <2>1, <2>2
<1>q. ASSUME NEW i \in Id, NEW k \in {"failed", "cancelled"}, Queue(i, k), text' = text,
             \A j \in Id : stage[j] = "restorable" => stage'[j] = "restorable"
      PROVE  NoRestoreLost'
  <2> DEFINE x == [id |-> i, kind |-> k]
             q == Enqueued(queue[sender[i]][session[i]], x)
  <2>1. x \in RestoreDraftRequest /\ x.id = i /\ sender[i] \in Device /\ session[i] \in Session
    BY <1>b DEF RestoreDraftRequest, Kind
  <2>2. /\ queue' = [queue EXCEPT ![sender[i]][session[i]] = q]
        /\ owed' = owed \cup {text[i]}
        /\ draft' = draft /\ ledger' = ledger /\ requests' = requests
    BY <1>q DEF Queue, volatile
  <2>3. Entries(q) = Entries(queue[sender[i]][session[i]]) \cup {x}
    <3>1. queue[sender[i]][session[i]] \in Seq(RestoreDraftRequest)
          /\ Distinct(queue[sender[i]][session[i]])
      BY <1>a, <1>b, <2>1 DEF QueuesInv
    <3> HIDE DEF x
    <3>2. QED
      BY <2>1, <3>1, EnqueuedFacts
  <2> HIDE DEF x, q
  <2>4. queue'[sender[i]][session[i]] = q
    BY <1>b, <2>1, <2>2
  <2>5. ASSUME NEW d \in Device, NEW s \in Session
        PROVE  Entries(queue[d][s]) \subseteq Entries(queue'[d][s])
    <3>1. CASE d = sender[i] /\ s = session[i]
      BY <2>3, <2>4, <3>1
    <3>2. CASE ~(d = sender[i] /\ s = session[i])
      <4>1. queue'[d][s] = queue[d][s]
        BY <1>b, <2>1, <2>2, <3>2
      <4>2. QED
        BY <4>1
    <3>3. QED
      BY <3>1, <3>2
  <2>6. Recoverable(text[i])'
    <3>1. PICK d \in Device, s \in Session : d = sender[i] /\ s = session[i]
      BY <2>1
    <3>2. x \in Entries(queue'[d][s]) /\ text'[x.id] = text'[i]
      BY <2>1, <2>3, <2>4, <3>1
    <3>3. QED
      BY <3>2 DEF Recoverable
  <2>7. \A t \in owed' : t \in owed \/ Recoverable(t)'
    <3>1. \A t : t = text'[i] => Recoverable(t)'
      BY <1>q, <2>6 DEF Recoverable
    <3>2. QED
      BY <1>q, <2>2, <3>1
  <2>8. QED
    BY <1>f, <1>k, <1>q, <2>2, <2>5, <2>7
<1>d. ASSUME NEW d \in Device, NEW s \in Session, NEW t,
             draft' = [draft EXCEPT ![d][s] = t],
             owed' \subseteq owed \ {draft[d][s]} \/ (owed' \subseteq owed /\ draft[d][s] = None),
             queue' = queue, ledger' = ledger, requests' = requests,
             \A i \in Id : stage[i] = "restorable" => stage'[i] = "restorable"
      PROVE  NoRestoreLost'
  <2>1. ASSUME NEW x \in owed', NEW e \in Device, NEW z \in Session, draft[e][z] = x
        PROVE  draft'[e][z] = x
    <3>1. ~(e = d /\ z = s)
      BY <1>b, <1>d, <2>1, NoneAssumption
    <3>2. QED
      BY <1>b, <1>d, <2>1, <3>1
  <2>2. owed' \subseteq owed
    BY <1>d
  <2>3. QED
    BY <1>f, <1>k, <1>d, <2>1, <2>2
<1>1. ASSUME NEW i \in Id, AcceptSend(i) PROVE NoRestoreLost'
  BY <1>1, <1>v DEF AcceptSend
<1>2. ASSUME NEW i \in Id, AnswerSend(i) PROVE NoRestoreLost'
  BY <1>2, <1>v DEF AnswerSend
<1>3. ASSUME NEW i \in Id, FailSend(i) PROVE NoRestoreLost'
  <2>1. \A j \in Id : stage[j] = "restorable" => stage'[j] = "restorable"
    BY <1>3, <1>b DEF FailSend, Moved
  <2>2. QED
    BY <1>3, <1>q, <2>1 DEF FailSend, Moved
<1>4. ASSUME NEW i \in Id, FinishTask(i) PROVE NoRestoreLost'
  <2>1. PICK from \in {"running", "stopping", "deferred"} : Moved(i, from, "done")
    BY <1>4 DEF FinishTask
  <2>2. QED
    BY <1>4, <1>v, <2>1 DEF FinishTask
<1>5. ASSUME NEW i \in Id, AnswerCancel(i) PROVE NoRestoreLost'
  <2>1. \A j \in Id : stage[j] = "restorable" => stage'[j] = "restorable"
    BY <1>5, <1>b DEF AnswerCancel, Moved
  <2>2. QED
    BY <1>5, <1>q, <2>1 DEF AnswerCancel, Moved
<1>6. ASSUME NEW i \in Id, LoseCancelAnswer(i) PROVE NoRestoreLost'
  BY <1>6, <1>v DEF LoseCancelAnswer
<1>7. ASSUME NEW i \in Id, DeferCancel(i) PROVE NoRestoreLost'
  BY <1>7, <1>v DEF DeferCancel
<1>8. ASSUME NEW i \in Id, SettleDeferred(i) PROVE NoRestoreLost'
  <2>1. /\ stage[i] = "deferred" /\ stage' = [stage EXCEPT ![i] = "restorable"] /\ text' = text
        /\ owed' = owed \cup {text[i]} /\ draft' = draft /\ queue' = queue
        /\ ledger' = ledger /\ requests' = requests
    BY <1>8 DEF SettleDeferred, Moved, stored, volatile
  <2>2. \A j \in Id : stage[j] = "restorable" => stage'[j] = "restorable"
    BY <1>b, <2>1
  <2>3. \A d \in Device : i \notin ledger[d] \cup Flying(d)
    BY <1>a, <2>1 DEF RowsInv, WasRow
  <2>4. stage'[i] = "restorable"
    BY <1>b, <2>1
  <2>5. \A t : t = text[i] => Recoverable(t)'
    BY <1>f, <2>1, <2>3, <2>4 DEF Recoverable
  <2>6. \A t \in owed' : t \in owed \/ Recoverable(t)'
    BY <2>1, <2>5
  <2>7. QED
    BY <1>b, <1>f, <1>k, <2>1, <2>2, <2>6
<1>9. ASSUME NEW d \in Device, NEW t \in Text, Keystroke(d, t) PROVE NoRestoreLost'
  BY <1>9, <1>u DEF Keystroke, sends, stored, history
<1>10. ASSUME NEW d \in Device, Discard(d) PROVE NoRestoreLost'
  <2>1. /\ draft' = [draft EXCEPT ![d][active[d]] = None]
        /\ owed' \subseteq owed \ {draft[d][active[d]]}
        /\ queue' = queue /\ ledger' = ledger /\ requests' = requests /\ stage' = stage
    BY <1>10 DEF Discard, volatile, sends
  <2>2. QED
    BY <1>b, <1>d, <2>1
<1>11. ASSUME NEW d \in Device, Show(d) PROVE NoRestoreLost'
  BY <1>11, <1>u DEF Show, sends, stored, history
<1>12. ASSUME NEW d \in Device, Hide(d) PROVE NoRestoreLost'
  BY <1>12, <1>u DEF Hide, sends, stored, history
<1>13. ASSUME NEW d \in Device, Restart(d) PROVE NoRestoreLost'
  <2>1. \A j \in Id : stage[j] = "restorable" => stage'[j] = "restorable"
    BY <1>13, <1>b DEF Restart
  <2>2. \A e \in Device : Flying(e)' = Flying(e)
    BY <1>13, <1>a, UnmountedFacts DEF Restart
  <2>3. QED
    BY <1>13, <1>m, <2>1, <2>2 DEF Restart, stored, history
<1>14. ASSUME NEW d \in Device, FlushTyping(d) PROVE NoRestoreLost'
  <2>1. /\ draft' = [draft EXCEPT ![d][active[d]] = typing[d]]
        /\ owed' \subseteq owed \ {draft[d][active[d]]}
        /\ queue' = queue /\ ledger' = ledger /\ requests' = requests /\ stage' = stage
    BY <1>14 DEF FlushTyping, Overtype, sends
  <2>2. QED
    BY <1>b, <1>d, <2>1
<1>15. ASSUME NEW d \in Device, Refetch(d) PROVE NoRestoreLost'
  BY <1>15, <1>u DEF Refetch, sends, stored, history
<1>16. ASSUME NEW d \in Device, Offer(d) PROVE NoRestoreLost'
  BY <1>16, <1>u DEF Offer, sends, stored, history
<1>17. ASSUME NEW d \in Device, Apply(d) PROVE NoRestoreLost'
  <2>1. PICK r \in RestoreDraftRequest : r = slot[d]
    BY <1>17, <1>b DEF Apply
  <2>2. r.id \in Id /\ active[d] \in Session /\ session[r.id] = active[d]
    BY <1>17, <1>b, <2>1 DEF Apply, RestoreDraftRequest
  <2>3. /\ draft[d][active[d]] = None
        /\ draft' = [draft EXCEPT ![d][active[d]] = text[r.id]]
        /\ owed' = owed /\ stage' = stage /\ text' = text
    BY <1>17, <2>1 DEF Apply, sends
  <2>4. draft'[d][active[d]] = text[r.id]
    BY <1>b, <2>2, <2>3
  <2>5. SUFFICES ASSUME NEW t \in owed, t # text[r.id] PROVE Recoverable(t)'
    BY <2>2, <2>3, <2>4 DEF NoRestoreLost, Recoverable
  <2>6. t \in Text /\ Recoverable(t)
    BY <1>b
  <2>7. CASE \E i \in Id : /\ stage[i] = "restorable" /\ text[i] = t
                           /\ \A e \in Device : i \notin ledger[e] \cup Flying(e)
    <3>1. PICK i \in Id : /\ stage[i] = "restorable" /\ text[i] = t
                          /\ \A e \in Device : i \notin ledger[e] \cup Flying(e)
      BY <2>7
    <3>2. i # r.id
      BY <2>5, <3>1
    <3>3. \A e \in Device : i \notin ledger'[e] \cup Flying(e)'
      <4>1. CASE slot[d].kind = "durable"
        <5>1. /\ ledger' = [ledger EXCEPT ![d] = @ \cup {r.id}]
              /\ Consume(d, {r.id}, r.id)
          BY <1>17, <2>1, <4>1 DEF Apply
        <5>2. \A e \in Device : Flying(e)' \subseteq Flying(e) \cup {r.id}
          <6>1. {r.id} \in SUBSET Id /\ r.id \in {r.id}
            BY <2>2
          <6>2. QED
            BY <1>a, <5>1, <6>1, ConsumeFacts
        <5>3. \A e \in Device : ledger'[e] \subseteq ledger[e] \cup {r.id}
          BY <1>b, <5>1
        <5>4. QED
          BY <3>1, <3>2, <5>2, <5>3
      <4>2. CASE slot[d].kind # "durable"
        BY <1>17, <1>f, <3>1, <4>2 DEF Apply
      <4>3. QED
        BY <4>1, <4>2
    <3>4. QED
      BY <2>3, <3>1, <3>3 DEF Recoverable
  <2>8. CASE \E e \in Device, s \in Session : draft[e][s] = t
    <3>1. PICK e \in Device, s \in Session : draft[e][s] = t
      BY <2>8
    <3>2. ~(e = d /\ s = active[d])
      BY <2>3, <2>6, <3>1, NoneAssumption
    <3>3. draft'[e][s] = t
      BY <1>b, <2>2, <2>3, <3>1, <3>2
    <3>4. QED
      BY <3>3 DEF Recoverable
  <2>9. CASE \E e \in Device, s \in Session : \E x \in Entries(queue[e][s]) : text[x.id] = t
    <3>1. PICK e \in Device, s \in Session : \E x \in Entries(queue[e][s]) : text[x.id] = t
      BY <2>9
    <3>2. PICK x \in Entries(queue[e][s]) : text[x.id] = t
      BY <3>1
    <3>3. x # r
      BY <2>5, <3>2
    <3>4. x \in Entries(queue'[e][s])
      <4>1. CASE slot[d].kind = "durable"
        BY <1>17, <4>1 DEF Apply
      <4>2. CASE slot[d].kind # "durable"
        <5>1. queue' = [queue EXCEPT ![d][session[r.id]] = Dequeued(@, r)]
          BY <1>17, <2>1, <4>2 DEF Apply
        <5>2. CASE e = d /\ s = session[r.id]
          <6>1. Entries(Dequeued(queue[e][s], r)) = Entries(queue[e][s]) \ {r}
            BY <1>a, <1>b, DequeuedFacts DEF QueuesInv
          <6>2. queue'[e][s] = Dequeued(queue[e][s], r)
            BY <1>b, <5>1, <5>2
          <6>3. QED
            BY <3>3, <6>1, <6>2
        <5>3. CASE ~(e = d /\ s = session[r.id])
          <6>1. queue'[e][s] = queue[e][s]
            BY <1>b, <2>2, <5>1, <5>3
          <6>2. QED
            BY <6>1
        <5>4. QED
          BY <5>2, <5>3
      <4>3. QED
        BY <4>1, <4>2
    <3>5. QED
      BY <2>3, <3>2, <3>4 DEF Recoverable
  <2>10. QED
    BY <2>6, <2>7, <2>8, <2>9 DEF Recoverable
<1>18. ASSUME NEW d \in Device, NEW s \in Session, Select(d, s) PROVE NoRestoreLost'
  BY <1>18, <1>u DEF Select, sends, stored, history
<1>19. ASSUME NEW d \in Device, NEW s \in Session, AnswerFetch(d, s) PROVE NoRestoreLost'
  BY <1>19, <1>u DEF AnswerFetch, sends, stored, history
<1>20. ASSUME NEW d \in Device, NEW s \in Session, LandFetch(d, s) PROVE NoRestoreLost'
  BY <1>20, <1>u DEF LandFetch, sends, stored, history
<1>21. ASSUME NEW d \in Device, NEW s \in Session, FailFetch(d, s) PROVE NoRestoreLost'
  BY <1>21, <1>u DEF FailFetch, sends, stored, history
<1>22. ASSUME NEW d \in Device, NEW i \in Id, Send(d, i) PROVE NoRestoreLost'
  <2>1. /\ draft' = [draft EXCEPT ![d][active[d]] = None]
        /\ queue' = queue /\ ledger' = ledger /\ requests' = requests
        /\ stage[i] = "unused" /\ stage' = [stage EXCEPT ![i] = "posted"]
    BY <1>22 DEF Send
  <2>2. owed' \subseteq owed \ {draft[d][active[d]]} \/ (owed' \subseteq owed /\ draft[d][active[d]] = None)
    <3> DEFINE t == IF typing[d] # None THEN typing[d] ELSE draft[d][active[d]]
    <3>1. CASE draft[d][active[d]] \in {None, t}
      <4>1. owed' = owed \ {t}
        BY <1>22, <3>1 DEF Send
      <4>2. QED
        BY <3>1, <4>1
    <3>2. CASE draft[d][active[d]] \notin {None, t}
      <4>1. Overtype(d)
        BY <1>22, <3>2 DEF Send
      <4>2. QED
        BY <4>1 DEF Overtype
    <3>3. QED
      BY <3>1, <3>2
  <2>3. \A j \in Id : stage[j] = "restorable" => stage'[j] = "restorable"
    BY <1>b, <2>1
  <2>4. QED
    BY <1>b, <1>d, <2>1, <2>2, <2>3
<1>23. ASSUME NEW d \in Device, NEW i \in Id, Stop(d, i) PROVE NoRestoreLost'
  <2>1. \A j \in Id : stage[j] = "restorable" => stage'[j] = "restorable"
    BY <1>23, <1>b DEF Stop
  <2>2. QED
    BY <1>23, <1>f, <1>m, <2>1 DEF Stop, stored, volatile, history
<1>24. ASSUME NEW d \in Device, Reconcile(d) PROVE NoRestoreLost'
  <2>1. \A e \in Device : Flying(e)' \subseteq ledger[e] \cup Flying(e)
    <3>1. CASE UNCHANGED <<cached, requests>>
      BY <1>f, <3>1
    <3>2. CASE \E last \in Outlived(d) : Consume(d, Outlived(d), last)
      <4>1. Outlived(d) \in SUBSET Id /\ Outlived(d) \subseteq ledger[d]
        BY <1>b DEF Outlived
      <4>2. QED
        <5>1. PICK S \in SUBSET Id : S = Outlived(d)
          BY <4>1
        <5>2. PICK last \in S : Consume(d, S, last)
          BY <3>2, <5>1
        <5>3. \A e \in Device : Flying(e)' = IF e = d THEN Flying(e) \cup S ELSE Flying(e)
          BY <1>a, <5>2, ConsumeFacts
        <5>4. QED
          BY <4>1, <5>1, <5>3
    <3>3. QED
      BY <1>24, <3>1, <3>2 DEF Reconcile
  <2>2. QED
    BY <1>24, <1>m, <2>1 DEF Reconcile, sends, stored, history
<1>25. ASSUME NEW d \in Device, NEW i \in Id, DeleteRow(d, i) PROVE NoRestoreLost'
  <2>1. \A j \in Id : stage[j] = "restorable" =>
            stage'[j] = "restorable" \/ \E e \in Device : j \in ledger[e] \cup Flying(e)
    BY <1>25, <1>b DEF DeleteRow, Moved
  <2>2. QED
    BY <1>25, <1>f, <1>m, <2>1 DEF DeleteRow, stored, volatile, history
<1>26. ASSUME NEW d \in Device, NEW i \in Id, ConfirmConsume(d, i) PROVE NoRestoreLost'
  <2>1. /\ ledger' = [ledger EXCEPT ![d] = @ \ {i}] /\ Settled(d, i)
        /\ draft' = draft /\ queue' = queue /\ owed' = owed /\ stage' = stage
    BY <1>26 DEF ConfirmConsume, sends
  <2>2. \A e \in Device : Flying(e)' \subseteq Flying(e)
    BY <1>a, <2>1, SettledFacts
  <2>3. \A e \in Device : ledger'[e] \cup Flying(e)' \subseteq ledger[e] \cup Flying(e)
    BY <1>b, <2>1, <2>2
  <2>4. QED
    BY <1>k, <2>1, <2>3
<1>27. ASSUME NEW d \in Device, NEW i \in Id, FailConsume(d, i) PROVE NoRestoreLost'
  <2>1. \A e \in Device : Flying(e)' \subseteq Flying(e)
    BY <1>27, <1>a, SettledFacts DEF FailConsume
  <2>2. QED
    BY <1>27, <1>m, <2>1 DEF FailConsume, sends, stored, history
<1>28. ASSUME NEW d \in Device, Unmount(d) PROVE NoRestoreLost'
  <2>1. \A e \in Device : Flying(e)' = Flying(e)
    BY <1>28, <1>a, UnmountedFacts DEF Unmount
  <2>2. QED
    BY <1>28, <1>m, <2>1 DEF Unmount, sends, stored, history
<1>29. ASSUME NEW d \in Device, NEW i \in Id, EndUnheard(d, i) PROVE NoRestoreLost'
  <2>1. \A e \in Device : Flying(e)' \subseteq Flying(e)
    BY <1>29, <1>a DEF EndUnheard, Flying, TypeInv, TypeOK
  <2>2. QED
    BY <1>29, <1>m, <2>1 DEF EndUnheard, sends, stored, history
<1>30. CASE UNCHANGED vars
  BY <1>30, <1>u DEF vars, sends, stored, volatile, history
<1>31. QED
  BY <1>1, <1>2, <1>3, <1>4, <1>5, <1>6, <1>7, <1>8, <1>9, <1>10, <1>11,
      <1>12, <1>13, <1>14, <1>15, <1>16, <1>17, <1>18, <1>19, <1>20,
      <1>21, <1>22, <1>23, <1>24, <1>25, <1>26, <1>27, <1>28, <1>29, <1>30
      DEF Next, Server, User, Client

-----------------------------------------------------------------------------
\* Applied rows are consumed again

\* The mounted hook takes a row out of the reconcile effect only by consuming it.
AskedInv == (\A d \in Device : consuming[d] \subseteq tried[d]) /\ OutlivedRowIsTried

\* A step that leaves the composer's list, ledger and requests alone keeps it.
LEMMA StillAsked ==
    ASSUME AskedInv, TypeInv, NEW d \in Device,
           consuming'[d] \subseteq consuming[d], tried'[d] = tried[d], ledger'[d] = ledger[d],
           \/ due'[d] \/ ~visible'[d]
           \/ /\ visible'[d] = visible[d] /\ due'[d] = due[d] /\ active'[d] = active[d]
              /\ cached'[d][active[d]] = cached[d][active[d]]
    PROVE  /\ consuming'[d] \subseteq tried'[d]
           /\ (visible'[d] /\ ~due'[d]) => cached'[d][active'[d]] \cap ledger'[d] \subseteq tried'[d]
BY DEF AskedInv, OutlivedRowIsTried

\* Every step keeps AskedInv: the effect is due again after each change of the
\* list, of the ledger or of the session, and its run asks for all that is left.
LEMMA NextAsked == TypeInv /\ AskedInv /\ [Next]_vars => AskedInv'
<1> DEFINE Kept(e) == /\ consuming'[e] \subseteq tried'[e]
                      /\ (visible'[e] /\ ~due'[e]) =>
                             cached'[e][active'[e]] \cap ledger'[e] \subseteq tried'[e]
<1> SUFFICES ASSUME TypeInv, AskedInv, [Next]_vars, NEW e \in Device PROVE Kept(e)
  BY DEF AskedInv, OutlivedRowIsTried
<1>b. /\ ledger \in [Device -> SUBSET Id] /\ active \in [Device -> Session]
      /\ visible \in [Device -> BOOLEAN] /\ due \in [Device -> BOOLEAN]
      /\ cached \in [Device -> [Session -> SUBSET Id]]
      /\ fetch \in [Device -> [Session -> Fetch]] /\ RequestTypes
  BY DEF TypeInv, TypeOK, RequestTypes
<1>s. ASSUME consuming'[e] \subseteq consuming[e], tried'[e] = tried[e], ledger'[e] = ledger[e],
             \/ due'[e] \/ ~visible'[e]
             \/ /\ visible'[e] = visible[e] /\ due'[e] = due[e] /\ active'[e] = active[e]
                /\ cached'[e][active[e]] = cached[e][active[e]]
      PROVE  Kept(e)
  BY <1>s, StillAsked
<1>u. ASSUME requests' = requests, ledger' = ledger, active' = active, visible' = visible,
             due' = due, cached' = cached
      PROVE  Kept(e)
  BY <1>s, <1>u DEF requests
<1>n. ASSUME NEW d \in Device, UnmountedRequests(d), visible' = [visible EXCEPT ![d] = FALSE],
             ledger' = ledger, active' = active, \A x \in Device \ {d} : cached'[x] = cached[x]
      PROVE  Kept(e)
  <2>1. CASE e = d
    BY <1>b, <1>n, <2>1 DEF UnmountedRequests, RequestTypes
  <2>2. CASE e # d
    BY <1>b, <1>n, <1>s, <2>2 DEF UnmountedRequests, RequestTypes
  <2>3. QED
    BY <2>1, <2>2
<1>c. ASSUME NEW d \in Device, NEW S \in SUBSET Id, NEW last \in S, Consume(d, S, last),
             active' = active, visible' = visible, e # d => ledger'[e] = ledger[e] /\ due'[e] = due[e],
             e = d => \/ due'[d] = visible[d]
                      \/ ledger'[d] = ledger[d] /\ cached[d][active[d]] \cap ledger[d] \subseteq consuming[d] \cup S
      PROVE  Kept(e)
  <2>1. CASE e = d
    <3>1. /\ consuming'[d] = consuming[d] \cup S /\ tried'[d] = tried[d] \cup S
          /\ cached'[d][active[d]] = cached[d][active[d]] \ S
      BY <1>b, <1>c DEF Consume, RequestTypes
    <3>2. consuming[d] \subseteq tried[d]
      BY DEF AskedInv
    <3>3. QED
      BY <1>c, <2>1, <3>1, <3>2
  <2>2. CASE e # d
    <3>1. consuming'[e] = consuming[e] /\ tried'[e] = tried[e] /\ cached'[e] = cached[e]
      BY <1>b, <1>c, <2>2 DEF Consume, RequestTypes
    <3>2. QED
      BY <1>c, <1>s, <2>2, <3>1
  <2>3. QED
    BY <2>1, <2>2
<1> HIDE DEF Kept
<1>1. ASSUME NEW i \in Id, AcceptSend(i) PROVE Kept(e)
  BY <1>1, <1>u DEF AcceptSend, stored, volatile
<1>2. ASSUME NEW i \in Id, AnswerSend(i) PROVE Kept(e)
  BY <1>2, <1>u DEF AnswerSend, stored, volatile
<1>3. ASSUME NEW i \in Id, FailSend(i) PROVE Kept(e)
  BY <1>3, <1>u DEF FailSend, Queue, volatile
<1>4. ASSUME NEW i \in Id, FinishTask(i) PROVE Kept(e)
  BY <1>4, <1>u DEF FinishTask, stored, volatile
<1>5. ASSUME NEW i \in Id, AnswerCancel(i) PROVE Kept(e)
  BY <1>5, <1>u DEF AnswerCancel, Queue, volatile
<1>6. ASSUME NEW i \in Id, LoseCancelAnswer(i) PROVE Kept(e)
  BY <1>6, <1>u DEF LoseCancelAnswer, stored, volatile
<1>7. ASSUME NEW i \in Id, DeferCancel(i) PROVE Kept(e)
  BY <1>7, <1>u DEF DeferCancel, stored, volatile
<1>8. ASSUME NEW i \in Id, SettleDeferred(i) PROVE Kept(e)
  BY <1>8, <1>u DEF SettleDeferred, stored, volatile
<1>9. ASSUME NEW d \in Device, NEW t \in Text, Keystroke(d, t) PROVE Kept(e)
  BY <1>9, <1>u DEF Keystroke, stored
<1>10. ASSUME NEW d \in Device, Discard(d) PROVE Kept(e)
  BY <1>10, <1>u DEF Discard, volatile
<1>11. ASSUME NEW d \in Device, Show(d) PROVE Kept(e)
  BY <1>11, <1>b, <1>s DEF Show, stored, requests
<1>12. ASSUME NEW d \in Device, Hide(d) PROVE Kept(e)
  BY <1>12, <1>b, <1>s DEF Hide, stored, requests
<1>13. ASSUME NEW d \in Device, Restart(d) PROVE Kept(e)
  BY <1>13, <1>b, <1>n DEF Restart, stored
<1>14. ASSUME NEW d \in Device, FlushTyping(d) PROVE Kept(e)
  BY <1>14, <1>u DEF FlushTyping
<1>15. ASSUME NEW d \in Device, Refetch(d) PROVE Kept(e)
  BY <1>15, <1>u DEF Refetch, stored
<1>16. ASSUME NEW d \in Device, Offer(d) PROVE Kept(e)
  BY <1>16, <1>u DEF Offer, stored
<1>17. ASSUME NEW d \in Device, Apply(d) PROVE Kept(e)
  <2>1. slot[d] \in RestoreDraftRequest /\ slot[d].id \in Id
    BY <1>17 DEF Apply, TypeInv, TypeOK, RestoreDraftRequest
  <2>2. active' = active /\ visible' = visible
    BY <1>17 DEF Apply
  <2>3. CASE slot[d].kind = "durable"
    <3>1. /\ ledger' = [ledger EXCEPT ![d] = @ \cup {slot[d].id}]
          /\ Consume(d, {slot[d].id}, slot[d].id) /\ due' = Stirred(d)
      BY <1>17, <2>3 DEF Apply
    <3>2. /\ e # d => ledger'[e] = ledger[e] /\ due'[e] = due[e]
          /\ e = d => due'[d] = visible[d]
      BY <1>b, <3>1 DEF Stirred
    <3>3. {slot[d].id} \in SUBSET Id /\ slot[d].id \in {slot[d].id}
      BY <2>1
    <3>4. QED
      BY <1>c, <2>2, <3>1, <3>2, <3>3
  <2>4. CASE slot[d].kind # "durable"
    BY <1>17, <1>u, <2>2, <2>4 DEF Apply
  <2>5. QED
    BY <2>3, <2>4
<1>18. ASSUME NEW d \in Device, NEW s \in Session, Select(d, s) PROVE Kept(e)
  <2>1. due'[d] /\ (e # d => due'[e] = due[e] /\ active'[e] = active[e])
    BY <1>18, <1>b DEF Select, Stirred
  <2>2. QED
    BY <1>18, <1>s, <2>1 DEF Select, requests
<1>19. ASSUME NEW d \in Device, NEW s \in Session, AnswerFetch(d, s) PROVE Kept(e)
  BY <1>19, <1>u DEF AnswerFetch, stored
<1>20. ASSUME NEW d \in Device, NEW s \in Session, LandFetch(d, s) PROVE Kept(e)
  <2>1. /\ ledger' = ledger /\ active' = active /\ visible' = visible /\ requests' = requests
        /\ cached' = [cached EXCEPT ![d][s] = fetch[d][s].rows]
        /\ due' = IF s = active[d] /\ cached[d][s] # fetch[d][s].rows THEN Stirred(d) ELSE due
    BY <1>20 DEF LandFetch, stored
  <2>2. consuming' = consuming /\ tried' = tried
    BY <2>1 DEF requests
  <2>3. CASE e = d /\ s = active[d] /\ cached[d][s] # fetch[d][s].rows
    <3>1. due'[e] = visible'[e]
      BY <1>b, <2>1, <2>3 DEF Stirred
    <3>2. QED
      BY <1>b, <1>s, <2>1, <2>2, <3>1
  <2>4. CASE ~(e = d /\ s = active[d] /\ cached[d][s] # fetch[d][s].rows)
    <3>1. cached'[e][active[e]] = cached[e][active[e]] /\ due'[e] = due[e]
      BY <1>b, <2>1, <2>4 DEF Stirred
    <3>2. QED
      BY <1>s, <2>1, <2>2, <3>1
  <2>5. QED
    BY <2>3, <2>4
<1>21. ASSUME NEW d \in Device, NEW s \in Session, FailFetch(d, s) PROVE Kept(e)
  BY <1>21, <1>u DEF FailFetch, stored
<1>22. ASSUME NEW d \in Device, NEW i \in Id, Send(d, i) PROVE Kept(e)
  BY <1>22, <1>u DEF Send
<1>23. ASSUME NEW d \in Device, NEW i \in Id, Stop(d, i) PROVE Kept(e)
  BY <1>23, <1>u DEF Stop, stored, volatile
<1>24. ASSUME NEW d \in Device, Reconcile(d) PROVE Kept(e)
  <2>1. /\ ledger' = ledger /\ active' = active /\ visible' = visible
        /\ due' = [due EXCEPT ![d] = FALSE]
    BY <1>24 DEF Reconcile, stored
  <2>2. cached[d][active[d]] \cap ledger[d] \subseteq consuming[d] \cup Outlived(d)
    BY DEF Outlived
  <2>3. CASE Outlived(d) = {} /\ UNCHANGED <<cached, requests>>
    <3>1. consuming' = consuming /\ tried' = tried /\ cached' = cached
      BY <2>3 DEF requests
    <3>2. CASE e = d
      <4>1. consuming[d] \subseteq tried[d]
        BY DEF AskedInv
      <4>2. QED
        BY <2>1, <2>2, <2>3, <3>1, <3>2, <4>1 DEF Kept
    <3>3. CASE e # d
      BY <1>b, <1>s, <2>1, <3>1, <3>3
    <3>4. QED
      BY <3>2, <3>3
  <2>4. CASE \E last \in Outlived(d) : Consume(d, Outlived(d), last)
    <3>1. PICK last \in Outlived(d) : Consume(d, Outlived(d), last)
      BY <2>4
    <3>2. Outlived(d) \in SUBSET Id
      BY <1>b DEF Outlived
    <3>3. e # d => due'[e] = due[e]
      BY <1>b, <2>1
    <3>4. QED
      BY <1>c, <2>1, <2>2, <3>1, <3>2, <3>3
  <2>5. QED
    BY <1>24, <2>3, <2>4 DEF Reconcile
<1>25. ASSUME NEW d \in Device, NEW i \in Id, DeleteRow(d, i) PROVE Kept(e)
  BY <1>25, <1>u DEF DeleteRow, stored, volatile
<1>26. ASSUME NEW d \in Device, NEW i \in Id, ConfirmConsume(d, i) PROVE Kept(e)
  <2>1. /\ ledger' = [ledger EXCEPT ![d] = @ \ {i}] /\ tried' = tried
        /\ consuming' = [consuming EXCEPT ![d] = @ \ {i}] /\ due' = [due EXCEPT ![d] = visible[d]]
        /\ active' = active /\ visible' = visible /\ cached' = cached
    BY <1>26 DEF ConfirmConsume, Settled, Stirred
  <2>2. CASE e = d
    BY <1>b, <2>1, <2>2 DEF Kept, AskedInv, RequestTypes
  <2>3. CASE e # d
    BY <1>b, <1>s, <2>1, <2>3 DEF RequestTypes
  <2>4. QED
    BY <2>2, <2>3
<1>27. ASSUME NEW d \in Device, NEW i \in Id, FailConsume(d, i) PROVE Kept(e)
  BY <1>27, <1>b, <1>s DEF FailConsume, Settled, stored, RequestTypes
<1>28. ASSUME NEW d \in Device, Unmount(d) PROVE Kept(e)
  BY <1>28, <1>n DEF Unmount, stored
<1>29. ASSUME NEW d \in Device, NEW i \in Id, EndUnheard(d, i) PROVE Kept(e)
  BY <1>29, <1>s DEF EndUnheard, stored
<1>30. CASE UNCHANGED vars
  BY <1>30, <1>u DEF vars, stored, volatile
<1>31. QED
  BY <1>1, <1>2, <1>3, <1>4, <1>5, <1>6, <1>7, <1>8, <1>9, <1>10, <1>11,
      <1>12, <1>13, <1>14, <1>15, <1>16, <1>17, <1>18, <1>19, <1>20,
      <1>21, <1>22, <1>23, <1>24, <1>25, <1>26, <1>27, <1>28, <1>29, <1>30
      DEF Next, Server, User, Client

-----------------------------------------------------------------------------
\* The theorems

\* The client's state always has the shape the proofs rest on.
LEMMA ShapeHolds == Spec => []ShapeInv
<1>1. Init => ShapeInv
  BY InitShape
<1>2. ShapeInv /\ [Next]_vars => ShapeInv'
  BY NextShape
<1>3. QED
  BY <1>1, <1>2, PTL DEF Spec

\* Every reachable state has the declared types.
THEOREM TypesCorrect == Spec => []TypeOK
<1>1. ShapeInv => TypeOK
  BY DEF ShapeInv, TypeInv
<1>2. QED
  BY <1>1, ShapeHolds, PTL

\* What the composer is offered is for the session on screen: switching and
\* closing release the slot in the same commit.
THEOREM OfferIsOnScreen == Spec => []SlotIsOnScreen
<1>1. ShapeInv => SlotIsOnScreen
  BY DEF ShapeInv, SlotInv, SlotIsOnScreen
<1>2. QED
  BY <1>1, ShapeHolds, PTL

\* A restore is applied twice only from a list answer older than its consume:
\* the ledger and the queue rule out every other way.
THEOREM HandOffAtMostOnce == Spec => []ReappliedOnlyFromStaleList
<1>1. Init => HandOffInv
  BY InitHandOff
<1>2. HandOffInv /\ [Next]_vars => HandOffInv'
  BY NextHandOff
<1>3. HandOffInv => ReappliedOnlyFromStaleList
  BY DEF HandOffInv
<1>4. QED
  BY <1>1, <1>2, <1>3, PTL DEF Spec

\* A text handed to the restore is never lost: from the refusal or the
\* cancellation to the user's next send or discard it is in a row, a queue or a
\* draft, through restarts, lost answers and races of the list.
THEOREM HandOffLossless == Spec => []NoRestoreLost
<1>1. Init => LosslessInv
  <2>1. Init => NoRestoreLost
    BY DEF Init, NoRestoreLost
  <2>2. QED
    BY <2>1, InitShape DEF LosslessInv
<1>2. LosslessInv /\ [Next]_vars => LosslessInv'
  BY NextShape, NextLossless DEF LosslessInv
<1>3. LosslessInv => NoRestoreLost
  BY DEF LosslessInv
<1>4. QED
  BY <1>1, <1>2, <1>3, PTL DEF Spec

\* Whichever of its consumes were lost, overtaken by a later one or never heard of,
\* the composer on screen has asked, since it was mounted, for the deletion of every
\* applied row its list names once its reconcile effect has run.
THEOREM AppliedRowsAreAskedFor == Spec => []OutlivedRowIsTried
<1>1. Init => AskedInv
  BY DEF Init, AskedInv, OutlivedRowIsTried
<1>2. TypeInv /\ AskedInv /\ [Next]_vars => AskedInv'
  BY NextAsked
<1>3. ShapeInv => TypeInv
  BY DEF ShapeInv
<1>4. AskedInv => OutlivedRowIsTried
  BY DEF AskedInv
<1>5. QED
  BY <1>1, <1>2, <1>3, <1>4, ShapeHolds, PTL DEF Spec
=============================================================================
