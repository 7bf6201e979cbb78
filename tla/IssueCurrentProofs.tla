-------------------------- MODULE IssueCurrentProofs --------------------------
(***************************************************************************)
(* What the cards on screen say, for any number of issues, statuses,       *)
(* owners, lists, writers, mutations and connections: IssueCache's         *)
(* RowsAreCurrent.  The argument looks at what the client has yet to hear  *)
(* (News) and at nothing of its order.                                     *)
(***************************************************************************)
EXTENDS IssueCacheProofs

\* The events on their way, or still to be published.
News ==
    {e \in Event : \/ \E k \in DOMAIN events : events[k] = e
                   \/ \E x \in Writer : unsent[x] = e}

Heard(i, n) == \E e \in News : e.issue = i /\ e.card.version = n

\* The server has written over this copy, and nothing on its way says so.
Gone(i, version) == \E n \in (version + 1)..server[i].version : ~Heard(i, n)

\* News on its way moves issue i to another owner.
OwnerMoves(i) == \E e \in News : e.issue = i /\ e.moves

OwnerMovesAfter(i, version) ==
    \E e \in News : e.issue = i /\ e.card.version > version /\ e.moves

\* c is what the server said of issue i at c.version.  Its owner is the server's
\* until a write whose event is still on its way, or was missed.
Copy(i, c) ==
    /\ c.version <= server[i].version
    /\ c.version = server[i].version =>
          c.status = server[i].status /\ c.owner = server[i].owner
    /\ \/ c.owner = server[i].owner
       \/ OwnerMovesAfter(i, c.version)
       \/ Gone(i, c.version)

\* News is what the server said, and one write has one event.
NewsInv ==
    /\ \A e \in News : Copy(e.issue, e.card)
    /\ \A a, b \in News :
          a.issue = b.issue /\ a.card.version = b.card.version => a = b

\* A request has nothing to publish before its write, and concerns the issue of
\* its mutation.
RequestsApart ==
    /\ \A x \in Writer : request[x] = None \/ unsent[x] = None
    /\ \A m \in Mutation : m > used => request[m] = None /\ unsent[m] = None
    /\ \A m \in Mutation : context[m] # None =>
          /\ request[m] # None => request[m].issue = context[m].issue
          /\ unsent[m] # None => unsent[m].issue = context[m].issue

\* A fetched row is the server's, and was in the list when the server sent it.
FetchesTrue ==
    \A l \in List, i \in Issue, c \in Card \ {None} :
        fetch[l].entry # None /\ fetch[l].entry.rows[i] = c => Copy(i, c) /\ Member(l, c)

\* The answer of a mutation is the server's.
AnswersTrue ==
    \A m \in Mutation, i \in Issue, c \in Card \ {None} :
        context[m] # None /\ context[m].issue = i /\ context[m].answer = c => Copy(i, c)

\* A row is no newer than the server's, and says the same unless it is older or a
\* guess.  What was never written is in every list that has fetched it.
RowTrue(l, i, c) ==
    /\ c.version <= server[i].version
    /\ c.guess = 0 /\ c.version = server[i].version =>
          c.status = server[i].status /\ c.owner = server[i].owner
    /\ server[i].version = 0 => Member(l, server[i])

\* What a row is behind by is on its way, and the issue is in the list unless
\* news on its way moves it.
RowHeard(l, i, c) ==
    /\ ~Gone(i, c.version)
    /\ Member(l, server[i]) \/ OwnerMoves(i)

\* The rows of e are true of list l, and heard of but for those of J.
EntryTrue(l, e, J) ==
    \A i \in Issue, c \in Card \ {None} : e.rows[i] = c =>
        /\ RowTrue(l, i, c)
        /\ connected /\ i \notin J => RowHeard(l, i, c)

\* The issues on which list l may have missed news.
Lag(l) == IF stale[l] THEN Issue ELSE lapsed[l]

\* The lists on screen are true but for what they have missed, and so are the
\* copies that the mutations in flight would put back.
ListsTrue == \A l \in Loaded : EntryTrue(l, cache[l], Lag(l))

KeptTrue ==
    \A m \in Mutation, l \in List :
        context[m] # None /\ context[m].lists[l] # None =>
            EntryTrue(l, context[m].lists[l], context[m].missed[l])

CurrentInv == NewsInv /\ FetchesTrue /\ AnswersTrue /\ ListsTrue /\ KeptTrue

-----------------------------------------------------------------------------
(* News: what a step does to the server, the news and the connection.      *)

\* Nothing happens.
Still == News' = News /\ server' = server /\ connected' = connected

\* One issue is written, and its event is to come.
WriteStep(i) ==
    /\ connected' = connected
    /\ server'[i].version = server[i].version + 1
    /\ \A j \in Issue \ {i} : server'[j] = server[j]
    /\ \E e \in Event :
          /\ News' = News \cup {e} /\ e.issue = i /\ e.card = server'[i]
          /\ server'[i].owner # server[i].owner => e.moves

\* No news but e is taken away.
TakeStep(e) ==
    /\ connected /\ connected' = connected /\ server' = server
    /\ News' \subseteq News /\ News \ News' \subseteq {e}

DropStep == ~connected' /\ server' = server /\ News' \subseteq News

JoinStep == ~connected /\ connected' /\ server' = server /\ News' = News

\* No news is taken, and no connection made.
NoNews == Still \/ (\E i \in Issue : WriteStep(i)) \/ DropStep

NewsStep == NoNews \/ (\E e \in News : TakeStep(e)) \/ JoinStep

\* The news that a step does not apply to a list is of the issues K.
MissedBy(K) ==
    \/ NoNews
    \/ \E e \in News : TakeStep(e) /\ e.issue \in K
    \/ JoinStep /\ \A i \in Issue \ K : server[i].version = 0

\* The news has issues and cards.
LEMMA NewsTyped ==
  /\ \A e \in News : e \in Event /\ e.issue \in Issue /\ e.card \in Card /\ e.changed \in Changed
  /\ \A e \in News' : e \in Event /\ e.issue \in Issue /\ e.card \in Card
  BY DEF News, Event

\* News is what a list has yet to hear of, in the words of the model.
LEMMA BehindGone ==
  ASSUME TypeOK, NEW i \in Issue, NEW version
  PROVE  Behind(i, version) <=> connected /\ Gone(i, version)
<1>1. ASSUME NEW n PROVE Coming(i, n) <=> Heard(i, n)
  <2>1. ASSUME NEW k \in DOMAIN events PROVE events[k] \in News
    <3>1. events[k] \in Event
      BY DEF TypeOK
    <3> QED  BY <3>1 DEF News
  <2>2. ASSUME NEW x \in Writer, unsent[x] # None PROVE unsent[x] \in News
    BY <2>2 DEF News, TypeOK
  <2>3. Coming(i, n) => Heard(i, n)
    BY <2>1, <2>2 DEF Coming, Heard
  <2>4. Heard(i, n) => Coming(i, n)
    BY NoneAssumption DEF Coming, Heard, News
  <2> QED  BY <2>3, <2>4
<1> QED  BY <1>1 DEF Behind, Gone

\* The news changes with what is queued and what is to be published.
LEMMA NewsSame == ASSUME UNCHANGED <<events, unsent>> PROVE News' = News
  BY DEF News

\* A step that leaves the server, the events and the connection alone is no news.
LEMMA StillSteps ==
  ASSUME UNCHANGED <<server, events, unsent, connected>>
  PROVE  Still /\ NoNews /\ NewsStep /\ \A K : MissedBy(K)
<1>1. Still
  BY NewsSame DEF Still
<1> QED  BY <1>1 DEF NoNews, NewsStep, MissedBy

\* An UPDATE makes one event, to be published.
LEMMA UpdateSteps ==
  ASSUME TypeOK, RequestsApart, NEW x \in Writer, Update(x)
  PROVE  WriteStep(request[x].issue) /\ request[x].issue \in Issue
<1> DEFINE i == request[x].issue
           ev == unsent'[x]
<1>1. request[x] # None /\ unsent[x] = None
  BY DEF Update, RequestsApart
<1>2. /\ i \in Issue /\ ev \in Event
      /\ Updated(x).version = server[i].version + 1
      /\ server' = [server EXCEPT ![i] = Updated(x)]
  BY UpdateCard
<1>3. /\ unsent' = [unsent EXCEPT ![x] = ev]
      /\ ev.issue = i /\ ev.card = Updated(x)
      /\ Updated(x).owner # server[i].owner => ev.moves
  <2> DEFINE made == [issue |-> i, card |-> Updated(x),
                      changed |-> Difference(request[x], Updated(x)),
                      moves |-> Updated(x).owner # server[i].owner]
  <2>1. unsent' = [unsent EXCEPT ![x] = made]
    BY UpdateCard
  <2>2. made.issue = i /\ made.card = Updated(x)
    OBVIOUS
  <2>3. Updated(x).owner # server[i].owner => made.moves
    OBVIOUS
  <2> HIDE DEF made
  <2>4. ev = made
    BY <2>1 DEF TypeOK
  <2> QED  BY <2>1, <2>2, <2>3, <2>4
<1>4. UNCHANGED <<events, connected>>
  BY DEF Update, link
<1> HIDE DEF i, ev
<1>5. News' = News \cup {ev}
  <2>1. \A y \in Writer : unsent'[y] = IF y = x THEN ev ELSE unsent[y]
    BY <1>3 DEF TypeOK
  <2>2. None \notin Event
    BY NoneAssumption
  <2> QED  BY <1>1, <1>2, <1>4, <2>1, <2>2 DEF News
<1>6. server'[i] = Updated(x) /\ \A j \in Issue \ {i} : server'[j] = server[j]
  BY <1>2 DEF TypeOK
<1>7. WriteStep(i) /\ i \in Issue
  BY <1>2, <1>3, <1>4, <1>5, <1>6 DEF WriteStep
<1> QED  BY <1>7 DEF i

\* Publishing loses an event if the socket is not connected, and else none.
LEMMA PublishSteps ==
  ASSUME TypeOK, NEW x \in Writer, Publish(x)
  PROVE  NoNews /\ NewsStep /\ \A K : MissedBy(K)
<1>1. /\ unsent[x] # None /\ UNCHANGED <<server, connected>>
      /\ events' = IF connected THEN Append(events, unsent[x]) ELSE events
      /\ unsent' = [unsent EXCEPT ![x] = None]
  BY DEF Publish
<1>2. \A y \in Writer : unsent'[y] = IF y = x THEN None ELSE unsent[y]
  BY <1>1 DEF TypeOK
<1>3. None \notin Event
  BY NoneAssumption
<1>4. CASE connected
  <2>1. /\ DOMAIN events' = DOMAIN events \cup {Len(events) + 1}
        /\ \A k \in DOMAIN events : events'[k] = events[k]
        /\ events'[Len(events) + 1] = unsent[x]
    BY <1>1, <1>4 DEF TypeOK
  <2>2. ASSUME NEW e \in News PROVE e \in News'
    BY <1>2, <2>1 DEF News
  <2>3. ASSUME NEW e \in News' PROVE e \in News
    <3>1. e \in Event
      BY DEF News
    <3>2. CASE \E k \in DOMAIN events' : events'[k] = e
      BY <2>1, <3>1, <3>2 DEF News
    <3>3. CASE \E y \in Writer : unsent'[y] = e
      BY <1>2, <1>3, <3>1, <3>3 DEF News
    <3> QED  BY <3>2, <3>3 DEF News
  <2>4. Still
    BY <1>1, <2>2, <2>3 DEF Still
  <2> QED  BY <2>4 DEF NoNews, NewsStep, MissedBy
<1>5. CASE ~connected
  <2>1. News' \subseteq News
    BY <1>1, <1>2, <1>3, <1>5 DEF News
  <2>2. DropStep
    BY <1>1, <1>5, <2>1 DEF DropStep
  <2> QED  BY <2>2 DEF NoNews, NewsStep, MissedBy
<1> QED  BY <1>4, <1>5

\* Delivering takes the head of the queue.
LEMMA DeliverSteps ==
  ASSUME TypeOK, DeliverEvent
  PROVE  Head(events) \in News /\ TakeStep(Head(events)) /\ NewsStep
<1> DEFINE ev == Head(events)
<1>1. /\ events \in Seq(Event) /\ events # <<>> /\ events' = Tail(events)
      /\ connected /\ UNCHANGED <<server, connected, unsent>>
  BY DEF DeliverEvent, TypeOK, requests
<1>2. Len(events) \in Nat /\ Len(events) # 0 /\ DOMAIN events = 1..Len(events)
  BY <1>1
<1>3. DOMAIN events' = 1..(Len(events) - 1)
  BY <1>1
<1>4. \A k \in 1..(Len(events) - 1) : events'[k] = events[k + 1] /\ k + 1 \in DOMAIN events
  BY <1>1, <1>2
<1>5. \A k \in DOMAIN events : k # 1 => k - 1 \in DOMAIN events' /\ events'[k - 1] = events[k]
  BY <1>2, <1>3, <1>4
<1>6. ev = events[1] /\ 1 \in DOMAIN events /\ ev \in Event
  BY <1>1, <1>2
<1> HIDE DEF ev
<1>7. ev \in News
  BY <1>6 DEF News
<1>8. News' \subseteq News
  BY <1>1, <1>3, <1>4 DEF News
<1>9. News \ News' \subseteq {ev}
  <2> SUFFICES ASSUME NEW e \in News, e # ev PROVE e \in News'
    OBVIOUS
  <2>1. e \in Event
    BY DEF News
  <2>2. CASE \E k \in DOMAIN events : events[k] = e
    <3>1. PICK k \in DOMAIN events : events[k] = e
      BY <2>2
    <3>2. k # 1
      BY <1>6, <3>1
    <3>3. k - 1 \in DOMAIN events' /\ events'[k - 1] = e
      BY <1>5, <3>1, <3>2
    <3> QED  BY <2>1, <3>3 DEF News
  <2>3. CASE \E x \in Writer : unsent[x] = e
    BY <1>1, <2>1, <2>3 DEF News
  <2> QED  BY <2>2, <2>3 DEF News
<1>10. TakeStep(ev)
  BY <1>1, <1>8, <1>9 DEF TakeStep
<1>11. NewsStep
  BY <1>7, <1>10 DEF NewsStep
<1> QED  BY <1>7, <1>10, <1>11 DEF ev

\* The server's version of an issue does not go back, and stays as it is while
\* the version does.
LEMMA ServerKept ==
  ASSUME TypeOK, NewsStep, NEW i \in Issue
  PROVE  /\ server[i].version \in Nat
         /\ \/ server'[i] = server[i]
            \/ server'[i].version = server[i].version + 1
<1>1. server[i].version \in Nat
  BY BoundAssumption DEF TypeOK, Card
<1>2. \/ server'[i] = server[i]
      \/ server'[i].version = server[i].version + 1
  BY DEF NewsStep, NoNews, Still, WriteStep, TakeStep, DropStep, JoinStep
<1> QED  BY <1>1, <1>2

\* But for the writes, the server is left alone and no news comes.
LEMMA NoWrite ==
  ASSUME NewsStep, \A i \in Issue : ~WriteStep(i)
  PROVE  server' = server /\ News' \subseteq News
  BY DEF NewsStep, NoNews, Still, TakeStep, DropStep, JoinStep

\* A copy of what the server said stays one.
LEMMA CopyKept ==
  ASSUME TypeOK, NewsInv, NewsStep, NEW i \in Issue, NEW c \in Card, Copy(i, c)
  PROVE  Copy(i, c)'
<1>1. c.version \in Nat /\ server[i].version \in Nat
  BY BoundAssumption DEF TypeOK, Card
<1>2. ASSUME NEW j \in Issue, WriteStep(j) PROVE Copy(i, c)'
  <2>1. \/ server'[i] = server[i]
        \/ j = i /\ server'[i].version = server[i].version + 1
    BY <1>2 DEF WriteStep
  <2>2. PICK e \in Event :
           /\ News' = News \cup {e} /\ e.issue = j /\ e.card = server'[j]
           /\ server'[j].owner # server[j].owner => e.moves
    BY <1>2 DEF WriteStep
  <2>3. CASE c.owner = server[i].owner
    <3>1. CASE server'[i].owner = server[i].owner
      BY <1>1, <2>1, <2>3, <3>1 DEF Copy
    <3>2. CASE server'[i].owner # server[i].owner
      <4>1. j = i /\ server'[i].version > c.version
        BY <1>1, <2>1, <3>2 DEF Copy
      <4>2. OwnerMovesAfter(i, c.version)'
        BY <2>2, <3>2, <4>1 DEF OwnerMovesAfter
      <4> QED  BY <1>1, <2>1, <4>1, <4>2 DEF Copy
    <3> QED  BY <3>1, <3>2
  <2>4. CASE OwnerMovesAfter(i, c.version)
    <3>1. OwnerMovesAfter(i, c.version)'
      BY <2>2, <2>4 DEF OwnerMovesAfter
    <3> QED  BY <1>1, <2>1, <3>1 DEF Copy
  <2>5. CASE Gone(i, c.version)
    <3>1. PICK n \in (c.version + 1)..server[i].version : ~Heard(i, n)
      BY <2>5 DEF Gone
    <3>2. ~(e.issue = i /\ e.card.version = n)
      BY <1>1, <1>2, <2>2, <3>1 DEF WriteStep
    <3>3. ~Heard(i, n)'
      BY <2>2, <3>1, <3>2 DEF Heard
    <3>4. n \in (c.version + 1)..server'[i].version
      BY <1>1, <2>1, <3>1
    <3>5. Gone(i, c.version)'
      BY <3>3, <3>4 DEF Gone
    <3> QED  BY <1>1, <2>1, <3>5 DEF Copy
  <2> QED  BY <2>3, <2>4, <2>5 DEF Copy
<1>3. CASE server' = server /\ News' \subseteq News
  <2>1. CASE c.owner = server[i].owner
    BY <1>3, <2>1 DEF Copy
  <2>2. CASE OwnerMovesAfter(i, c.version)
    <3>1. PICK a \in News : a.issue = i /\ a.card.version > c.version /\ a.moves
      BY <2>2 DEF OwnerMovesAfter
    <3>2. CASE a \in News'
      <4>1. OwnerMovesAfter(i, c.version)'
        BY <3>1, <3>2 DEF OwnerMovesAfter
      <4> QED  BY <1>3, <4>1 DEF Copy
    <3>3. CASE a \notin News'
      <4> DEFINE n == a.card.version
      <4>1. ~Heard(i, n)'
        BY <1>3, <3>1, <3>3 DEF Heard, NewsInv
      <4>2. n \in Nat /\ n <= server[i].version
        BY <3>1, NewsTyped, BoundAssumption DEF NewsInv, Copy, Card
      <4>3. n \in (c.version + 1)..server'[i].version
        BY <1>1, <1>3, <3>1, <4>2
      <4> HIDE DEF n
      <4>4. Gone(i, c.version)'
        BY <4>1, <4>3 DEF Gone
      <4> QED  BY <1>3, <4>4 DEF Copy
    <3> QED  BY <3>2, <3>3
  <2>3. CASE Gone(i, c.version)
    <3>1. Gone(i, c.version)'
      BY <1>3, <2>3 DEF Gone, Heard
    <3> QED  BY <1>3, <3>1 DEF Copy
  <2> QED  BY <2>1, <2>2, <2>3 DEF Copy
<1> QED  BY <1>2, <1>3, NoWrite

\* What a copy is behind by stays on its way, unless that news is taken.
LEMMA GoneKept ==
  ASSUME TypeOK, NewsStep, NEW i \in Issue, NEW c \in Card,
         c.version <= server[i].version, ~Gone(i, c.version),
         \A e \in News \ News' : ~(e.issue = i /\ e.card.version > c.version)
  PROVE  ~Gone(i, c.version)'
<1> SUFFICES ASSUME NEW n \in (c.version + 1)..server'[i].version PROVE Heard(i, n)'
  BY DEF Gone
<1>1. c.version \in Nat /\ server[i].version \in Nat
  BY BoundAssumption DEF TypeOK, Card
<1>2. CASE n <= server[i].version
  <2>1. Heard(i, n)
    BY <1>1, <1>2 DEF Gone
  <2>2. PICK e \in News : e.issue = i /\ e.card.version = n
    BY <2>1 DEF Heard
  <2>3. e \in News'
    BY <1>1, <2>2
  <2> QED  BY <2>2, <2>3 DEF Heard
<1>3. CASE n > server[i].version
  <2>1. PICK j \in Issue : WriteStep(j)
    BY <1>1, <1>3, NoWrite
  <2>2. j = i /\ n = server'[i].version
    BY <1>1, <1>3, <2>1 DEF WriteStep
  <2> QED  BY <2>1, <2>2 DEF WriteStep, Heard
<1> QED  BY <1>1, <1>2, <1>3

\* News stays what the server said, one event for each write.
LEMMA NewsKept == ASSUME TypeOK, NewsInv, NewsStep PROVE NewsInv'
<1>1. ASSUME NEW e \in News, e \in News' PROVE Copy(e.issue, e.card)'
  <2>1. e.issue \in Issue /\ e.card \in Card /\ Copy(e.issue, e.card)
    BY NewsTyped DEF NewsInv
  <2> DEFINE i == e.issue
             c == e.card
  <2> HIDE DEF i, c
  <2>2. Copy(i, c)'
    BY <2>1, CopyKept DEF i, c
  <2> QED  BY <2>2 DEF i, c
<1>2. CASE News' \subseteq News
  BY <1>1, <1>2 DEF NewsInv
<1>3. ASSUME NEW j \in Issue, WriteStep(j) PROVE NewsInv'
  <2>1. PICK e \in Event : News' = News \cup {e} /\ e.issue = j /\ e.card = server'[j]
    BY <1>3 DEF WriteStep
  <2>2. server[j].version \in Nat /\ server'[j].version = server[j].version + 1
    BY <1>3, ServerKept DEF WriteStep
  <2>3. Copy(e.issue, e.card)'
    <3>1. PICK c \in Card : c = e.card
      BY DEF Event
    <3>2. Copy(j, c)'
      BY <2>1, <2>2, <3>1 DEF Copy
    <3> QED  BY <2>1, <3>1, <3>2
  <2>4. \A a \in News : a.issue = j => a.card.version # e.card.version
    <3> SUFFICES ASSUME NEW a \in News, a.issue = j PROVE a.card.version # e.card.version
      OBVIOUS
    <3>1. a.card.version \in Nat /\ a.card.version <= server[j].version
      BY NewsTyped, BoundAssumption DEF NewsInv, Copy, Card
    <3> QED  BY <2>1, <2>2, <3>1
  <2> QED  BY <1>1, <2>1, <2>3, <2>4 DEF NewsInv
<1> QED  BY <1>2, <1>3, NoWrite

\* A row stays true of its list.
LEMMA RowTrueKept ==
  ASSUME TypeOK, NewsStep, NEW l \in List, NEW i \in Issue, NEW c \in Card, RowTrue(l, i, c)
  PROVE  RowTrue(l, i, c)'
<1>1. c.version \in Nat
  BY BoundAssumption DEF Card
<1>2. CASE server'[i] = server[i]
  BY <1>2 DEF RowTrue
<1>3. CASE server'[i].version = server[i].version + 1
  <2>1. server[i].version \in Nat
    BY ServerKept
  <2> QED  BY <1>1, <1>3, <2>1 DEF RowTrue
<1> QED  BY <1>2, <1>3, ServerKept

\* A step that misses something is a step.
LEMMA MissedSteps == ASSUME NEW K, MissedBy(K) PROVE NewsStep
  BY DEF MissedBy, NewsStep

\* A row goes on being heard of, unless news of its issue is missed.
LEMMA RowHeardKept ==
  ASSUME TypeOK, NEW l \in List, NEW i \in Issue, NEW c \in Card, NEW K, MissedBy(K),
         i \notin K, connected, connected', c.version <= server[i].version, RowHeard(l, i, c)
  PROVE  RowHeard(l, i, c)'
<1>1. NewsStep
  BY MissedSteps
<1>2. \A e \in News \ News' : e.issue # i
  BY DEF MissedBy, NoNews, Still, WriteStep, DropStep, TakeStep, JoinStep
<1>3. ~Gone(i, c.version)'
  BY <1>1, <1>2, GoneKept DEF RowHeard
<1>4. CASE OwnerMoves(i)
  BY <1>2, <1>3, <1>4 DEF OwnerMoves, RowHeard
<1>5. CASE Member(l, server[i])
  <2>1. CASE server'[i].owner = server[i].owner
    BY <1>3, <1>5, <2>1 DEF RowHeard, Member
  <2>2. CASE server'[i].owner # server[i].owner
    <3>1. WriteStep(i)
      BY <1>1, <2>2, NoWrite DEF WriteStep
    <3>2. OwnerMoves(i)'
      BY <2>2, <3>1 DEF WriteStep, OwnerMoves
    <3> QED  BY <1>3, <3>2 DEF RowHeard
  <2> QED  BY <2>1, <2>2
<1> QED  BY <1>4, <1>5 DEF RowHeard

\* A list that is left alone stays true, if what it misses is noted.
LEMMA EntryKept ==
  ASSUME TypeOK, NEW l \in List, NEW e, NEW J, NEW K,
         EntryTrue(l, e, J), J \subseteq K, MissedBy(K),
         NEW i \in Issue, NEW c \in Card \ {None}, e.rows[i] = c
  PROVE  RowTrue(l, i, c)' /\ (connected' /\ i \notin K => RowHeard(l, i, c)')
<1>1. RowTrue(l, i, c) /\ (connected /\ i \notin J => RowHeard(l, i, c))
  BY DEF EntryTrue
<1>2. RowTrue(l, i, c)'
  BY <1>1, MissedSteps, RowTrueKept
<1>3. ASSUME connected', i \notin K PROVE RowHeard(l, i, c)'
  <2>1. CASE connected
    <3>1. RowHeard(l, i, c) /\ c.version <= server[i].version
      BY <1>1, <1>3, <2>1 DEF RowTrue
    <3> QED  BY <1>3, <2>1, <3>1, RowHeardKept
  <2>2. CASE ~connected
    <3>1. JoinStep /\ server[i].version = 0
      BY <1>3, <2>2 DEF MissedBy, NoNews, Still, WriteStep, DropStep, TakeStep
    <3>2. c.version \in Nat /\ server'[i].version = 0 /\ Member(l, server'[i])
      BY <1>1, <3>1, BoundAssumption DEF RowTrue, Card, JoinStep
    <3>3. ~Gone(i, c.version)'
      BY <3>2 DEF Gone
    <3> QED  BY <3>2, <3>3 DEF RowHeard
  <2> QED  BY <2>1, <2>2
<1> QED  BY <1>2, <1>3

----------------------------------------------------------------------------
(* What a step does to the lists and to the copies the mutations keep.     *)

\* What is missed by a list is missed by one that misses more.
LEMMA MissedMore ==
  ASSUME NEW J, NEW K, J \subseteq K, MissedBy(J)
  PROVE  MissedBy(K)
  BY DEF MissedBy

\* Lists that are left alone stay true.
LEMMA ListsKept ==
  ASSUME TypeOK, ListsTrue,
         \A l \in List : cache'[l] # None =>
            /\ cache'[l] = cache[l] /\ Lag(l) \subseteq Lag(l)'
            /\ \A K : K = Lag(l)' => MissedBy(K)
  PROVE  ListsTrue'
<1> SUFFICES ASSUME NEW l \in List, cache'[l] # None,
                    NEW i \in Issue, NEW c \in Card \ {None}, cache'[l].rows[i] = c
             PROVE  RowTrue(l, i, c)' /\ (connected' /\ i \notin Lag(l)' => RowHeard(l, i, c)')
  BY DEF ListsTrue, EntryTrue, Loaded
<1> DEFINE K == Lag(l)'
<1>1. cache[l].rows[i] = c /\ Lag(l) \subseteq K /\ MissedBy(K)
  OBVIOUS
<1>2. EntryTrue(l, cache[l], Lag(l))
  BY DEF ListsTrue, Loaded
<1> HIDE DEF K
<1>3. RowTrue(l, i, c)' /\ (connected' /\ i \notin K => RowHeard(l, i, c)')
  BY <1>1, <1>2, EntryKept
<1> QED  BY <1>3 DEF K

\* A list that one issue is written in stays true of the other issues.
LEMMA OthersKept ==
  ASSUME TypeOK, ListsTrue, NEW l \in List, cache[l] # None,
         NEW K, Lag(l) \subseteq K, MissedBy(K),
         NEW i \in Issue, NEW c \in Card \ {None}, cache[l].rows[i] = c
  PROVE  RowTrue(l, i, c)' /\ (connected' /\ i \notin K => RowHeard(l, i, c)')
<1>1. EntryTrue(l, cache[l], Lag(l))
  BY DEF ListsTrue, Loaded
<1> QED  BY <1>1, EntryKept

\* The copies of lists that a mutation goes on keeping stay true.
LEMMA CopiesKept ==
  ASSUME TypeOK, KeptTrue, NEW K, MissedBy(K),
         \A m \in Mutation : context'[m] # None =>
            /\ context[m] # None
            /\ context'[m].lists = context[m].lists
            /\ \A l \in List : context[m].missed[l] \cup K \subseteq context'[m].missed[l]
  PROVE  KeptTrue'
<1> SUFFICES ASSUME NEW m \in Mutation, NEW l \in List,
                    context'[m] # None, context'[m].lists[l] # None,
                    NEW i \in Issue, NEW c \in Card \ {None}, context'[m].lists[l].rows[i] = c
             PROVE  /\ RowTrue(l, i, c)'
                    /\ connected' /\ i \notin context'[m].missed[l] => RowHeard(l, i, c)'
  BY DEF KeptTrue, EntryTrue
<1> DEFINE e == context[m].lists[l]
           J == context[m].missed[l]
           L == context'[m].missed[l]
<1>1. context[m] # None /\ e # None /\ e.rows[i] = c /\ J \subseteq L /\ K \subseteq L
  OBVIOUS
<1>2. EntryTrue(l, e, J)
  BY <1>1 DEF KeptTrue
<1> HIDE DEF e, J, L
<1>3. MissedBy(L)
  BY <1>1, MissedMore
<1>4. RowTrue(l, i, c)' /\ (connected' /\ i \notin L => RowHeard(l, i, c)')
  BY <1>1, <1>2, <1>3, EntryKept
<1> QED  BY <1>4 DEF L

\* Fetched rows stay the server's, while a fetch goes on or is started.
LEMMA FetchesKept ==
  ASSUME TypeOK, NewsInv, FetchesTrue, NewsStep,
         \A l \in List : fetch'[l] = fetch[l] \/ fetch'[l].entry = None
  PROVE  FetchesTrue'
<1> SUFFICES ASSUME NEW l \in List, NEW i \in Issue, NEW c \in Card \ {None},
                    fetch'[l].entry # None, fetch'[l].entry.rows[i] = c
             PROVE  Copy(i, c)' /\ Member(l, c)
  BY DEF FetchesTrue, Member
<1>1. fetch'[l] = fetch[l]
  OBVIOUS
<1>2. Copy(i, c) /\ Member(l, c)
  BY <1>1 DEF FetchesTrue
<1> QED  BY <1>2, CopyKept

\* Answers stay the server's.
LEMMA AnswersKept ==
  ASSUME TypeOK, NewsInv, AnswersTrue, NewsStep,
         \A m \in Mutation : context'[m] # None =>
            /\ context[m] # None
            /\ context'[m].issue = context[m].issue
            /\ context'[m].answer = context[m].answer
  PROVE  AnswersTrue'
<1> SUFFICES ASSUME NEW m \in Mutation, NEW i \in Issue, NEW c \in Card \ {None},
                    context'[m] # None, context'[m].issue = i, context'[m].answer = c
             PROVE  Copy(i, c)'
  BY DEF AnswersTrue
<1>1. Copy(i, c)
  BY DEF AnswersTrue
<1> QED  BY <1>1, CopyKept

\* A full copy replaces the card it is merged into.
LEMMA MergedFull ==
  ASSUME NEW c, NEW p \in Card
  PROVE  Merged(c, p) = p
  BY NameAssumption DEF Merged, Card

\* A card that a pass leaves in a list was there and has the patch; unless the
\* list is reported, it is a member by the client's judgement or the judgement
\* did not change.
LEMMA PassRows ==
  ASSUME TypeOK, NEW i \in Issue, NEW p \in Patch, NEW base \in Card \cup {None},
         NEW changed, ApplyIssueChange(i, p, base, Verdicts(i, p, changed, base)),
         NEW l \in List, cache'[l] # None, cache'[l].rows[i] # None
  PROVE  /\ cache[l] # None /\ cache[l].rows[i] # None /\ cache[l].rows[i] \in Card
         /\ cache'[l].rows[i] = Merged(cache[l].rows[i], p)
         /\ l \in Written(Verdicts(i, p, changed, base))
         /\ \/ l \in Drifted(Verdicts(i, p, changed, base))
            \/ ~FilterDependsOn(l, changed)
            \/ Matches(l, Merged(cache[l].rows[i], p)) = "yes"
<1> DEFINE v == Verdicts(i, p, changed, base)
           verdict == Verdict(l, i, p, changed, base)
           row == cache[l].rows[i]
           loaded == IF FilterDependsOn(l, changed) THEN Matches(l, Merged(row, p)) ELSE "yes"
<1>1. l \in Loaded /\ l \in Written(v)
  BY ApplyRows
<1>2. cache[l] \in Entry /\ v[l] = verdict
  BY <1>1 DEF Loaded, Verdicts, TypeOK
<1>3. cache'[l] = Applied(l, i, p, base, verdict)
  BY <1>1, <1>2 DEF ApplyIssueChange
<1>4. row # None
  BY <1>2, <1>3, AppliedEntry
<1>5. /\ cache[l].rows \in [Issue -> Card \cup {None}]
      /\ row \in Card
  BY <1>2, <1>4 DEF Entry
<1>6. verdict = CASE loaded = "yes" -> "patch"
                  [] loaded = "no" -> "remove"
                  [] OTHER -> "patchAndRefetch"
  BY <1>4 DEF Verdict
<1>7. verdict # "remove"
  <2> SUFFICES ASSUME verdict = "remove" PROVE FALSE
    OBVIOUS
  <2>1. cache'[l] = Removed(cache[l], i)
    BY <1>3 DEF Applied
  <2>2. cache'[l].rows[i] = None
    BY <1>5, <2>1 DEF Removed
  <2> QED  BY <2>2
<1> HIDE DEF verdict
<1>8. \/ verdict = "patch" /\ loaded = "yes"
      \/ verdict = "patchAndRefetch"
  <2> HIDE DEF loaded
  <2> QED  BY <1>6, <1>7
<1>9. cache'[l] = Patched(cache[l], i, p)
  BY <1>3, <1>8 DEF Applied
<1>10. cache'[l].rows[i] = Merged(row, p)
  <2>1. cache'[l].rows = [cache[l].rows EXCEPT ![i] = Merged(row, p)]
    BY <1>9 DEF Patched
  <2> QED  BY <1>5, <2>1
<1>11. verdict = "patchAndRefetch" => l \in Drifted(v)
  <2> HIDE DEF v
  <2> QED  BY <1>1, <1>2 DEF Drifted
<1> QED  BY <1>1, <1>4, <1>5, <1>8, <1>10, <1>11 DEF Loaded

\* A list that is written loses its mark only for a lapse, so what it lagged by
\* it goes on lagging by; and where it does not lag it is not reported, nor written
\* without the news.
LEMMA MarkKept ==
  ASSUME TypeOK, NEW W, NEW S, Refreshes(W, S), NEW i \in Issue, NEW M,
         lapsed' = Lapses(W, i, M), NEW l \in List
  PROVE  /\ Lag(l) \subseteq Lag(l)'
         /\ \A j \in Issue \ Lag(l)' : l \notin S /\ (l \in W /\ j = i => l \notin M)
<1>1. stale'[l] = (l \in S \/ (stale[l] /\ l \notin W))
  BY DEF Refreshes
<1>2. lapsed'[l] = IF l \notin W THEN lapsed[l]
                   ELSE IF stale[l] THEN Issue
                   ELSE IF l \in M THEN lapsed[l] \cup {i} ELSE lapsed[l]
  BY DEF Lapses
<1>3. lapsed[l] \subseteq Issue
  BY DEF TypeOK
<1>4. Lag(l) \subseteq Lag(l)'
  BY <1>1, <1>2, <1>3 DEF Lag
<1>5. \A j \in Issue \ Lag(l)' : l \notin S /\ (l \in W /\ j = i => l \notin M)
  BY <1>1, <1>2 DEF Lag
<1> QED  BY <1>4, <1>5

\* Noting what an open mutation has missed adds to what its copies have missed.
LEMMA OutdatedMisses ==
  ASSUME TypeOK, NEW J \in SUBSET Issue, NEW m \in Mutation, context[m] # None, NEW l \in List
  PROVE  Outdated(J)[m].missed[l] = context[m].missed[l] \cup J
<1>1. Outdated(J)[m] = [context[m] EXCEPT !.missed = [k \in List |-> @[k] \cup J]]
  BY DEF Outdated
<1>2. context[m] \in Context
  BY DEF TypeOK
<1>3. Outdated(J)[m].missed = [k \in List |-> context[m].missed[k] \cup J]
  BY <1>1, <1>2 DEF Context
<1> QED  BY <1>3

----------------------------------------------------------------------------
(* CurrentInv is inductive.                                                *)

\* Nothing is fetched or kept at the start.
LEMMA CurrentInit == Init => CurrentInv
<1> SUFFICES ASSUME Init PROVE CurrentInv
  OBVIOUS
<1>1. DOMAIN events = {} /\ \A x \in Writer : unsent[x] = None
  BY DEF Init
<1>2. NewsInv
  <2>1. ASSUME NEW e \in News PROVE FALSE
    <3>1. e \in Event
      BY DEF News
    <3>2. \E x \in Writer : unsent[x] = e
      BY <1>1 DEF News
    <3>3. None \in Event
      BY <1>1, <3>1, <3>2
    <3> QED  BY <3>3, NoneAssumption
  <2> QED  BY <2>1 DEF NewsInv
<1>3. FetchesTrue /\ AnswersTrue /\ KeptTrue
  BY DEF Init, Idle, FetchesTrue, AnswersTrue, KeptTrue
<1>4. ListsTrue
  BY DEF Init, ListsTrue, Loaded
<1> QED  BY <1>2, <1>3, <1>4 DEF CurrentInv

\* No request is under way at the start.
LEMMA ApartInit == Init => RequestsApart
  BY DEF Init, RequestsApart, Writer

\* Requests come and go one at a time.
LEMMA ApartNext == ASSUME TypeOK, RequestsApart, [Next]_vars PROVE RequestsApart'
<1>1. CASE UNCHANGED <<request, unsent, context, used>>
  BY <1>1 DEF RequestsApart
<1>2. ASSUME NEW x \in Foreign, NEW i \in Issue, NEW p \in Edits, RemoteWrite(x, i, p)
      PROVE  RequestsApart'
  <2>1. x \notin Mutation /\ x \in Writer
    BY NameAssumption DEF Mutation, Writer
  <2>2. /\ UNCHANGED <<unsent, context, used>> /\ unsent[x] = None
        /\ \A y \in Writer \ {x} : request'[y] = request[y]
    BY <1>2, <2>1 DEF RemoteWrite, TypeOK
  <2> QED  BY <2>1, <2>2 DEF RequestsApart, Writer
<1>3. ASSUME NEW m \in Mutation, Receive(m) PROVE RequestsApart'
  <2>1. /\ UNCHANGED <<unsent, context, used>> /\ request[m] # None
        /\ request' = [request EXCEPT ![m].prev = server[request[m].issue]]
    BY <1>3 DEF Receive
  <2>2. m \in Writer /\ request[m] \in Request
    BY <2>1 DEF TypeOK, Writer
  <2>3. /\ request'[m].issue = request[m].issue
        /\ \A y \in Writer \ {m} : request'[y] = request[y]
    BY <2>1, <2>2 DEF TypeOK, Request
  <2> QED  BY <2>1, <2>2, <2>3 DEF RequestsApart, Writer
<1>4. ASSUME NEW x \in Writer, Update(x) PROVE RequestsApart'
  <2>1. UNCHANGED <<context, used>> /\ request[x] # None
    BY <1>4 DEF Update
  <2>2. /\ request'[x] = None
        /\ \A y \in Writer \ {x} : request'[y] = request[y] /\ unsent'[y] = unsent[y]
    BY <1>4, UpdateCard DEF TypeOK
  <2>3. unsent'[x].issue = request[x].issue
    BY <1>4, UpdateCard DEF TypeOK
  <2> QED  BY <2>1, <2>2, <2>3 DEF RequestsApart, Writer
<1>5. ASSUME NEW x \in Writer, Publish(x) PROVE RequestsApart'
  <2>1. /\ UNCHANGED <<request, used>>
        /\ unsent' = [unsent EXCEPT ![x] = None]
        /\ context' = IF x \in Mutation /\ context[x] # None
                      THEN [context EXCEPT ![x].answer = unsent[x].card] ELSE context
    BY <1>5 DEF Publish
  <2>2. unsent'[x] = None /\ \A y \in Writer \ {x} : unsent'[y] = unsent[y]
    BY <2>1 DEF TypeOK
  <2>3. \A m \in Mutation : context'[m] # None =>
           context[m] # None /\ context'[m].issue = context[m].issue
    <3>1. \A m \in Mutation : context[m] # None => context[m] \in Context
      BY DEF TypeOK
    <3> QED  BY <2>1, <3>1 DEF TypeOK, Context
  <2> QED  BY <2>1, <2>2, <2>3 DEF RequestsApart, Writer
<1>6. ASSUME NEW i \in Issue, NEW p \in Edits, Mutate(i, p) PROVE RequestsApart'
  <2> DEFINE m == used + 1
  <2>1. /\ m \in Mutation /\ m \in Writer /\ used' = m /\ unsent' = unsent
        /\ request[m] = None /\ unsent[m] = None
    BY <1>6, BoundAssumption DEF Mutate, TypeOK, Mutation, Writer, RequestsApart
  <2>2. PICK r, k : /\ request' = [request EXCEPT ![m] = r] /\ r.issue = i
                    /\ context' = [context EXCEPT ![m] = k] /\ k.issue = i
    <3> DEFINE made == [p EXCEPT !.guess = m]
               v == Verdicts(i, made, ChangedDims(made, detail[i]), detail[i])
               req == [issue |-> i, patch |-> p, prev |-> None]
               ctx == [issue |-> i, patch |-> made,
                       lists |-> [l \in List |-> IF l \in Written(v) THEN cache[l] ELSE None],
                       detail |-> detail[i], stale |-> Drifted(v), answer |-> None,
                       missed |-> lapsed']
    <3>1. request' = [request EXCEPT ![m] = req] /\ context' = [context EXCEPT ![m] = ctx]
      BY <1>6 DEF Mutate
    <3>2. req.issue = i /\ ctx.issue = i
      OBVIOUS
    <3> HIDE DEF req, ctx, m
    <3> QED  BY <3>1, <3>2
  <2> HIDE DEF m
  <2>3. /\ request'[m] = r /\ \A y \in Writer \ {m} : request'[y] = request[y]
        /\ context'[m] = k /\ \A y \in Mutation \ {m} : context'[y] = context[y]
    BY <2>1, <2>2 DEF TypeOK
  <2>4. \A n \in Mutation : n > m => n > used /\ n # m
    BY DEF m, Mutation, TypeOK
  <2> QED  BY <2>1, <2>2, <2>3, <2>4 DEF RequestsApart, Writer
<1>7. ASSUME NEW J \in SUBSET Issue, context' = Outdated(J), UNCHANGED <<request, unsent, used>>
      PROVE  RequestsApart'
  BY <1>7, OutdatedKeeps DEF RequestsApart
<1>8. ASSUME NEW m \in Mutation, context' = [context EXCEPT ![m] = None],
             UNCHANGED <<unsent, used>>,
             request' = request \/ request' = [request EXCEPT ![m] = None]
      PROVE  RequestsApart'
  <2>1. \A n \in Mutation : context'[n] # None => context'[n] = context[n]
    BY <1>8 DEF TypeOK
  <2>2. \A x \in Writer : request'[x] = request[x] \/ request'[x] = None
    BY <1>8 DEF TypeOK
  <2> QED  BY <1>8, <2>1, <2>2 DEF RequestsApart, Writer
<1>9. CASE DeliverEvent
  <2>1. /\ Head(events).issue \in Issue /\ context' = Outdated({Head(events).issue})
        /\ UNCHANGED <<request, unsent, used>>
    BY <1>9, DeliverSteps, NewsTyped DEF DeliverEvent, requests
  <2> QED  BY <1>7, <2>1
<1>10. CASE Disconnect
  BY <1>1, <1>10 DEF Disconnect, requests
<1>11. CASE Connect
  BY <1>7, <1>11 DEF Connect, requests
<1>12. ASSUME NEW l \in List, Mount(l) \/ AnswerFetch(l) \/ LandFetch(l) \/ FailFetch(l)
       PROVE  RequestsApart'
  BY <1>1, <1>12 DEF Mount, AnswerFetch, LandFetch, FailFetch, requests
<1>13. ASSUME NEW i \in Issue, OpenIssue(i) PROVE RequestsApart'
  BY <1>1, <1>13 DEF OpenIssue, requests
<1>14. ASSUME NEW m \in Mutation, AnswerMutation(m) \/ FailMutation(m) PROVE RequestsApart'
  BY <1>8, <1>14 DEF AnswerMutation, FailMutation, requests
<1>15. CASE UNCHANGED vars
  BY <1>1, <1>15 DEF vars, requests
<1> QED
  BY <1>2, <1>3, <1>4, <1>5, <1>6, <1>9, <1>10, <1>11, <1>12, <1>13, <1>14, <1>15
     DEF Next, Server, User, Realtime, Queries

\* A step of the news alone keeps CurrentInv.
LEMMA NewsCurrent ==
  ASSUME TypeOK, CurrentInv, NoNews,
         UNCHANGED <<cache, stale, lapsed>>,
         \A l \in List : fetch'[l] = fetch[l] \/ fetch'[l].entry = None,
         context' = context
  PROVE  CurrentInv'
<1> USE DEF CurrentInv
<1>1. NewsStep /\ NewsInv'
  BY NewsKept DEF NewsStep
<1>2. FetchesTrue' /\ AnswersTrue'
  BY <1>1, FetchesKept, AnswersKept
<1>3. ListsTrue'
  <2>1. \A l \in List : Lag(l)' = Lag(l) /\ (\A K : K = Lag(l)' => MissedBy(K))
    BY DEF Lag, MissedBy
  <2> QED  BY <1>1, <2>1, ListsKept
<1>4. KeptTrue'
  <2>1. MissedBy({})
    BY DEF MissedBy
  <2> QED  BY <1>1, <2>1, CopiesKept
<1> QED  BY <1>1, <1>2, <1>3, <1>4

\* The websocket and the rows on screen: an event is applied.
LEMMA DeliverCurrent == ASSUME TypeOK, CurrentInv, DeliverEvent PROVE CurrentInv'
<1> USE DEF CurrentInv
<1>1. PICK ev \in News : ev = Head(events) /\ TakeStep(ev)
  BY DeliverSteps
<1>2. NewsStep /\ NewsInv' /\ connected /\ connected' /\ server' = server
  BY <1>1, DeliverSteps, NewsKept DEF TakeStep
<1>3. PICK i \in Issue, card \in Card, changed \in Changed, base \in Card \cup {None},
          M \in SUBSET List :
         /\ ev.issue = i /\ ev.card = card /\ ev.changed = changed
         /\ ApplyIssueChange(i, card, base, Verdicts(i, card, changed, base))
         /\ Refreshes(Written(Verdicts(i, card, changed, base)),
                      Drifted(Verdicts(i, card, changed, base)))
         /\ lapsed' = Lapses(Written(Verdicts(i, card, changed, base)), i, M)
         /\ context' = Outdated({i})
         /\ \A l \in List \ M : ~Behind(i, card.version)
         /\ \A l \in List \ M : l = Board \/ ~ev.moves \/ changed.owner
  <2> DEFINE n == ev.issue
             c == ev.card
             d == ev.changed
             b == IF detail[n] # None THEN detail[n]
                  ELSE IF cache[Board] # None THEN cache[Board].rows[n] ELSE None
             M == IF Behind(n, c.version) THEN List
                  ELSE IF ev.moves /\ ~d.owner THEN List \ {Board} ELSE {}
  <2>1. n \in Issue /\ c \in Card /\ d \in Changed
    BY NewsTyped
  <2>2. b \in Card \cup {None}
    BY <2>1, ListAssumption DEF TypeOK, Entry
  <2>3. /\ ApplyIssueChange(n, c, b, Verdicts(n, c, d, b))
        /\ Refreshes(Written(Verdicts(n, c, d, b)), Drifted(Verdicts(n, c, d, b)))
        /\ lapsed' = Lapses(Written(Verdicts(n, c, d, b)), n, M)
        /\ context' = Outdated({n})
    BY <1>1 DEF DeliverEvent
  <2>4. /\ \A l \in List \ M : ~Behind(n, c.version)
        /\ \A l \in List \ M : l = Board \/ ~ev.moves \/ d.owner
    OBVIOUS
  <2>6. M \in SUBSET List
    OBVIOUS
  <2> HIDE DEF n, c, d, b, M
  <2>5. ev.issue = n /\ ev.card = c /\ ev.changed = d
    BY DEF n, c, d
  <2> QED  BY <2>1, <2>2, <2>3, <2>4, <2>5, <2>6
<1> DEFINE v == Verdicts(i, card, changed, base)
<1>4. Copy(i, card) /\ card.version \in Nat
  BY <1>3, BoundAssumption DEF NewsInv, Card
<1>5. FetchesTrue'
  BY <1>2, <1>3, FetchesKept DEF Refreshes, Asked
<1>6. /\ \A m \in Mutation : context'[m] # None =>
           /\ context[m] # None
           /\ context'[m].issue = context[m].issue
           /\ context'[m].lists = context[m].lists
           /\ context'[m].answer = context[m].answer
           /\ \A l \in List : context'[m].missed[l] = context[m].missed[l] \cup {i}
  BY <1>3, OutdatedKeeps, OutdatedMisses
<1>7. AnswersTrue'
  BY <1>2, <1>6, AnswersKept
<1>8. KeptTrue'
  <2>1. MissedBy({i})
    BY <1>1, <1>3 DEF MissedBy
  <2> QED  BY <1>6, <2>1, CopiesKept
<1>9. ListsTrue'
  <2> SUFFICES ASSUME NEW l \in List, cache'[l] # None,
                      NEW j \in Issue, NEW c \in Card \ {None}, cache'[l].rows[j] = c
               PROVE  RowTrue(l, j, c)' /\ (connected' /\ j \notin Lag(l)' => RowHeard(l, j, c)')
    BY DEF ListsTrue, EntryTrue, Loaded
  <2> DEFINE K == Lag(l)'
  <2>1. /\ Lag(l) \subseteq K
        /\ \A n \in Issue \ K : l \notin Drifted(v) /\ (l \in Written(v) /\ n = i => l \notin M)
    <3>1. Refreshes(Written(v), Drifted(v)) /\ lapsed' = Lapses(Written(v), i, M)
      BY <1>3
    <3>2. PICK W, S : W = Written(v) /\ S = Drifted(v)
      OBVIOUS
    <3>3. Refreshes(W, S) /\ lapsed' = Lapses(W, i, M)
      BY <3>1, <3>2
    <3> HIDE DEF v, K
    <3>4. /\ Lag(l) \subseteq Lag(l)'
          /\ \A n \in Issue \ Lag(l)' : l \notin S /\ (l \in W /\ n = i => l \notin M)
      BY <3>3, MarkKept
    <3> QED  BY <3>2, <3>4 DEF K
  <2>2. card \in Patch
    BY <1>3, CardIsPatch
  <2>3. cache[l] # None /\ \A n \in Issue \ {i} : cache'[l].rows[n] = cache[l].rows[n]
    BY <1>3, <2>2, ApplyRows DEF Loaded
  <2> HIDE DEF K
  <2>4. CASE j # i
    <3>1. cache[l].rows[j] = c
      BY <2>3, <2>4
    <3>2. Lag(l) \subseteq K \cup {i} /\ MissedBy(K \cup {i})
      BY <1>1, <1>3, <2>1 DEF MissedBy
    <3>3. RowTrue(l, j, c)' /\ (connected' /\ j \notin K \cup {i} => RowHeard(l, j, c)')
      BY <2>3, <3>1, <3>2, OthersKept
    <3> QED  BY <2>4, <3>3 DEF K
  <2>5. CASE j = i
    <3> DEFINE row == cache[l].rows[i]
    <3>1. /\ ApplyIssueChange(i, card, base, Verdicts(i, card, changed, base))
          /\ cache'[l].rows[i] = c /\ c # None
      BY <1>3, <2>5
    <3>2. /\ row \in Card \ {None}
          /\ c = Merged(row, card) /\ l \in Written(v)
          /\ \/ l \in Drifted(v)
             \/ ~FilterDependsOn(l, changed)
             \/ Matches(l, Merged(row, card)) = "yes"
      BY <2>2, <3>1, PassRows
    <3> HIDE DEF row, v
    <3>3. c = card
      BY <1>3, <3>2, MergedFull
    <3>4. RowTrue(l, i, row) /\ (i \notin K => RowHeard(l, i, row))
      BY <1>2, <1>3, <2>1, <2>3, <3>2 DEF row, ListsTrue, EntryTrue, Loaded
    <3>5. RowTrue(l, i, card)'
      <4>1. RowTrue(l, i, card)
        BY <1>4, <3>4 DEF RowTrue, Copy
      <4> QED  BY <1>2, <1>3, <4>1, RowTrueKept
    <3>6. ASSUME i \notin K PROVE RowHeard(l, i, card)'
      <4>1. l \notin M /\ l \notin Drifted(v) /\ RowHeard(l, i, row)
        BY <1>3, <2>1, <3>2, <3>4, <3>6
      <4>2. ~Gone(i, card.version)
        BY <1>2, <1>3, <4>1, BehindGone
      <4>3. ~Gone(i, card.version)'
        <5>1. \A e \in News \ News' : ~(e.issue = i /\ e.card.version > card.version)
          BY <1>1, <1>3, <1>4 DEF TakeStep
        <5> QED  BY <1>2, <1>3, <1>4, <4>2, <5>1, GoneKept DEF Copy
      <4>4. \A e \in News : e # ev /\ e.issue = i /\ e.moves => OwnerMoves(i)'
        BY <1>1 DEF TakeStep, OwnerMoves
      <4>5. Member(l, server[i]) \/ OwnerMoves(i)'
        <5>1. CASE l = Board
          BY <5>1 DEF Member
        <5>2. CASE ~ev.moves
          BY <4>1, <4>4, <5>2 DEF RowHeard, OwnerMoves
        <5>3. CASE l # Board /\ changed.owner
          <6>1. card.owner = l
            BY <3>2, <3>3, <4>1, <5>3 DEF FilterDependsOn, Matches
          <6>2. CASE card.owner = server[i].owner
            BY <6>1, <6>2 DEF Member
          <6>3. CASE OwnerMovesAfter(i, card.version)
            <7>1. PICK e \in News : e.issue = i /\ e.card.version > card.version /\ e.moves
              BY <6>3 DEF OwnerMovesAfter
            <7> QED  BY <1>3, <1>4, <4>4, <7>1
          <6> QED  BY <1>4, <4>2, <6>2, <6>3 DEF Copy
        <5> QED  BY <1>3, <4>1, <5>1, <5>2, <5>3
      <4> QED  BY <1>2, <4>3, <4>5 DEF RowHeard
    <3> QED  BY <2>5, <3>3, <3>5, <3>6 DEF K
  <2> QED  BY <2>4, <2>5
<1> QED  BY <1>2, <1>5, <1>7, <1>8, <1>9

\* The socket connects: a loaded list is fetched again, or was never heard of.
LEMMA ConnectCurrent == ASSUME TypeOK, CurrentInv, Connect PROVE CurrentInv'
<1> USE DEF CurrentInv
<1>1. JoinStep /\ NewsStep /\ NewsInv' /\ context' = Outdated(Issue)
  <2>1. JoinStep /\ context' = Outdated(Issue)
    <3>1. /\ UNCHANGED <<server, events, unsent>> /\ ~connected /\ connected'
          /\ context' = Outdated(Issue)
      BY DEF Connect, requests
    <3> QED  BY <3>1, NewsSame DEF JoinStep, Connect
  <2>2. NewsStep
    BY <2>1 DEF NewsStep
  <2> QED  BY <2>1, <2>2, NewsKept
<1>2. /\ cache' = cache
      /\ \A l \in List : fetch'[l] = fetch[l] \/ fetch'[l].entry = None
      /\ \A l \in Loaded : Lag(l) \subseteq Lag(l)' /\ (\A K : K = Lag(l)' => MissedBy(K))
  <2>1. CASE FirstConnect
    <3>1. /\ UNCHANGED <<cache, stale, fetch>>
          /\ \A l \in Loaded :
                lapsed'[l] = lapsed[l] \cup {i \in Issue : server[i].version > 0}
      BY <2>1 DEF FirstConnect, lists, Loaded
    <3>2. \A i \in Issue : server[i].version \in Nat
      BY BoundAssumption DEF TypeOK, Card
    <3>3. \A l \in Loaded : \A i \in Issue \ Lag(l)' : server[i].version = 0
      BY <3>1, <3>2 DEF Lag
    <3>4. \A l \in Loaded : Lag(l) \subseteq Lag(l)'
      BY <3>1 DEF Lag
    <3>5. \A l \in Loaded : \A K : K = Lag(l)' => MissedBy(K)
      BY <1>1, <3>3 DEF MissedBy
    <3> QED  BY <3>1, <3>4, <3>5
  <2>2. CASE Reconnect
    <3>1. cache' = cache /\ \A l \in List : fetch'[l] = fetch[l] \/ fetch'[l].entry = None
      BY <2>2 DEF Reconnect, Asked
    <3>2. \A l \in Loaded : Lag(l)' = Issue /\ Lag(l) \subseteq Issue
      <4>1. stale' = [l \in List |-> stale[l] \/ l \in Loaded]
        BY <2>2 DEF Reconnect
      <4>2. \A l \in Loaded : l \in List /\ stale'[l]
        BY <4>1 DEF Loaded
      <4> QED  BY <4>2 DEF Lag, TypeOK
    <3>3. MissedBy(Issue)
      BY <1>1 DEF MissedBy
    <3> QED  BY <3>1, <3>2, <3>3
  <2> QED  BY <2>1, <2>2 DEF Connect
<1>3. FetchesTrue'
  BY <1>1, <1>2, FetchesKept
<1>4. ListsTrue'
  BY <1>1, <1>2, ListsKept DEF Loaded
<1>5. \A m \in Mutation : context'[m] # None =>
         /\ context[m] # None
         /\ context'[m].issue = context[m].issue
         /\ context'[m].lists = context[m].lists
         /\ context'[m].answer = context[m].answer
         /\ \A l \in List : context'[m].missed[l] = context[m].missed[l] \cup Issue
  BY <1>1, OutdatedKeeps, OutdatedMisses
<1>6. AnswersTrue'
  BY <1>1, <1>5, AnswersKept
<1>7. KeptTrue'
  <2>1. MissedBy(Issue)
    BY <1>1 DEF MissedBy
  <2> QED  BY <1>1, <1>5, <2>1, CopiesKept
<1> QED  BY <1>1, <1>3, <1>4, <1>6, <1>7

\* The server answers a fetch: its rows are of this moment.
LEMMA AnswerFetchCurrent ==
  ASSUME TypeOK, CurrentInv, NEW l \in List, AnswerFetch(l)
  PROVE  CurrentInv'
<1> USE DEF CurrentInv
<1>1. /\ UNCHANGED <<server, events, unsent, connected, cache, stale, lapsed, context>>
      /\ fetch' = [fetch EXCEPT ![l] = [phase |-> "answered", entry |-> FirstPages(l)]]
  BY DEF AnswerFetch, link, requests
<1>2. NewsStep /\ MissedBy({}) /\ NewsInv'
  BY <1>1, StillSteps, NewsKept
<1>3. FetchesTrue'
  <2> SUFFICES ASSUME NEW k \in List, NEW i \in Issue, NEW c \in Card \ {None},
                      fetch'[k].entry # None, fetch'[k].entry.rows[i] = c
               PROVE  Copy(i, c)' /\ Member(k, c)
    BY DEF FetchesTrue, Member
  <2>1. Copy(i, c) /\ Member(k, c)
    <3>1. CASE k = l
      <4>1. fetch'[l].entry = FirstPages(l)
        BY <1>1 DEF TypeOK
      <4>2. c = server[i] /\ Member(l, c)
        BY <3>1, <4>1 DEF FirstPages
      <4>3. server[i].version \in Nat
        BY BoundAssumption DEF TypeOK, Card
      <4> QED  BY <3>1, <4>2, <4>3 DEF Copy
    <3>2. CASE k # l
      <4>1. fetch'[k] = fetch[k]
        BY <1>1, <3>2 DEF TypeOK
      <4> QED  BY <4>1 DEF FetchesTrue
    <3> QED  BY <3>1, <3>2
  <2> QED  BY <1>2, <2>1, CopyKept
<1>4. AnswersTrue'
  BY <1>1, <1>2, AnswersKept
<1>5. ListsTrue'
  <2>1. \A k \in List : Lag(k)' = Lag(k) /\ (\A K : K = Lag(k)' => MissedBy(K))
    BY <1>1, <1>2, MissedMore DEF Lag
  <2> QED  BY <1>1, <1>2, <2>1, ListsKept
<1>6. KeptTrue'
  BY <1>1, <1>2, CopiesKept
<1> QED  BY <1>2, <1>3, <1>4, <1>5, <1>6

\* A fetch lands: what its rows are behind by is on its way, or lapses.
LEMMA LandFetchCurrent ==
  ASSUME TypeOK, CurrentInv, NEW l \in List, LandFetch(l)
  PROVE  CurrentInv'
<1> USE DEF CurrentInv
<1> DEFINE rows == fetch[l].entry.rows
<1>1. /\ UNCHANGED <<server, events, unsent, connected, context>>
      /\ cache' = [cache EXCEPT ![l] = fetch[l].entry]
      /\ stale' = [stale EXCEPT ![l] = FALSE]
      /\ fetch' = [fetch EXCEPT ![l] = Idle]
      /\ lapsed' = [lapsed EXCEPT ![l] =
            {i \in Issue : rows[i] # None /\ Behind(i, rows[i].version)}]
  BY DEF LandFetch, link, requests
<1>2. NewsStep /\ MissedBy({}) /\ NewsInv'
  BY <1>1, StillSteps, NewsKept
<1>3. FetchesTrue'
  <2>1. \A k \in List : fetch'[k] = fetch[k] \/ fetch'[k].entry = None
    BY <1>1 DEF Idle, TypeOK
  <2> QED  BY <1>2, <2>1, FetchesKept
<1>4. AnswersTrue'
  BY <1>1, <1>2, AnswersKept
<1>5. ListsTrue'
  <2> SUFFICES ASSUME NEW k \in List, cache'[k] # None,
                      NEW i \in Issue, NEW c \in Card \ {None}, cache'[k].rows[i] = c
               PROVE  RowTrue(k, i, c)' /\ (connected' /\ i \notin Lag(k)' => RowHeard(k, i, c)')
    BY DEF ListsTrue, EntryTrue, Loaded
  <2>1. CASE k # l
    <3>1. cache'[k] = cache[k] /\ Lag(k)' = Lag(k)
      BY <1>1, <2>1 DEF Lag, TypeOK
    <3> DEFINE K == Lag(k)
    <3>2. MissedBy(K)
      BY <1>2, MissedMore
    <3> HIDE DEF K
    <3>3. RowTrue(k, i, c)' /\ (connected' /\ i \notin K => RowHeard(k, i, c)')
      BY <1>2, <3>1, <3>2, OthersKept DEF K
    <3> QED  BY <3>1, <3>3 DEF K
  <2>2. CASE k = l
    <3>1. /\ fetch[l].entry # None /\ rows[i] = c
          /\ Lag(l)' = {j \in Issue : rows[j] # None /\ Behind(j, rows[j].version)}
      BY <1>1, <2>2 DEF Lag, TypeOK
    <3>2. Copy(i, c) /\ Member(l, c)
      BY <3>1 DEF FetchesTrue
    <3>3. c.version \in Nat /\ server[i].version \in Nat
      BY BoundAssumption DEF TypeOK, Card
    <3>4. server[i].version = 0 => Member(l, server[i])
      BY <3>2, <3>3 DEF Copy, Member
    <3>5. RowTrue(l, i, c)
      BY <3>2, <3>4 DEF RowTrue, Copy
    <3>6. ASSUME connected, i \notin Lag(l)' PROVE RowHeard(l, i, c)
      <4>1. ~Gone(i, c.version)
        BY <3>1, <3>6, BehindGone
      <4>2. Member(l, server[i]) \/ OwnerMoves(i)
        BY <3>2, <3>6, <4>1 DEF Copy, OwnerMovesAfter, OwnerMoves, Member
      <4> QED  BY <4>1, <4>2 DEF RowHeard
    <3>7. RowTrue(l, i, c)' /\ (RowHeard(l, i, c) => RowHeard(l, i, c)')
      BY <1>1, <3>5, StillSteps DEF Still, RowTrue, RowHeard, Gone, Heard, OwnerMoves
    <3> QED  BY <1>1, <2>2, <3>6, <3>7
  <2> QED  BY <2>1, <2>2
<1>6. KeptTrue'
  BY <1>1, <1>2, CopiesKept
<1> QED  BY <1>2, <1>3, <1>4, <1>5, <1>6

\* A mutation is guessed at: the copy is the mutation's, and the lists it keeps
\* are as true as they were.
LEMMA MutateCurrent ==
  ASSUME TypeOK, CurrentInv, NEW i \in Issue, NEW edit \in Edits, Mutate(i, edit)
  PROVE  CurrentInv'
<1> USE DEF CurrentInv
<1>1. PICK m \in Mutation, p \in Patch, base \in Card \cup {None}, changed \in Changed :
         LET v == Verdicts(i, p, changed, base) IN
         /\ p.guess = m /\ p.version = None
         /\ ApplyIssueChange(i, p, base, v)
         /\ stale' = [l \in List |-> stale[l] /\ l \notin Written(v)]
         /\ lapsed' = [l \in List |-> IF l \in Written(v) /\ stale[l] THEN Issue ELSE lapsed[l]]
         /\ \A n \in Mutation \ {m} : context'[n] = context[n]
         /\ context'[m].lists = [l \in List |-> IF l \in Written(v) THEN cache[l] ELSE None]
         /\ context'[m].answer = None /\ context'[m].missed = lapsed'
  <2> DEFINE m == used + 1
             p == [edit EXCEPT !.guess = m]
             base == detail[i]
             changed == ChangedDims(p, base)
             v == Verdicts(i, p, changed, base)
             made == [issue |-> i, patch |-> p,
                      lists |-> [l \in List |-> IF l \in Written(v) THEN cache[l] ELSE None],
                      detail |-> detail[i], stale |-> Drifted(v),
                      answer |-> None, missed |-> lapsed']
  <2>1. m \in Mutation
    BY BoundAssumption DEF Mutate, TypeOK, Mutation
  <2>2. p \in Patch /\ p.guess = m /\ p.version = None /\ base \in Card \cup {None}
    <3>1. edit \in Patch /\ edit.version = None
      BY EditsArePatches DEF Edits
    <3>2. m \in 0..MaxMutation
      BY <2>1, BoundAssumption DEF Mutation
    <3>3. base \in Card \cup {None}
      BY DEF TypeOK
    <3> HIDE DEF m
    <3> QED  BY <3>1, <3>2, <3>3 DEF Patch
  <2>3. changed \in Changed
    BY DEF ChangedDims, Changed
  <2>4. /\ ApplyIssueChange(i, p, base, v)
        /\ stale' = [l \in List |-> stale[l] /\ l \notin Written(v)]
        /\ lapsed' = [l \in List |-> IF l \in Written(v) /\ stale[l] THEN Issue ELSE lapsed[l]]
        /\ context' = [context EXCEPT ![m] = made]
    BY DEF Mutate
  <2>5. /\ made.lists = [l \in List |-> IF l \in Written(v) THEN cache[l] ELSE None]
        /\ made.answer = None /\ made.missed = lapsed'
    OBVIOUS
  <2> HIDE DEF made, m
  <2>6. context'[m] = made /\ \A n \in Mutation \ {m} : context'[n] = context[n]
    BY <2>1, <2>4 DEF TypeOK
  <2> HIDE DEF p, base, changed
  <2> QED  BY <2>1, <2>2, <2>3, <2>4, <2>5, <2>6
<1> DEFINE v == Verdicts(i, p, changed, base)
<1>2. /\ UNCHANGED <<server, events, unsent, connected>>
      /\ fetch' = [l \in List |-> Idle]
  BY DEF Mutate, link
<1>3. NewsStep /\ MissedBy({}) /\ NewsInv'
  BY <1>2, StillSteps, NewsKept
<1>4. FetchesTrue'
  BY <1>2, <1>3, FetchesKept DEF Idle
<1>5. AnswersTrue'
  <2> SUFFICES ASSUME NEW n \in Mutation, NEW j \in Issue, NEW c \in Card \ {None},
                      context'[n] # None, context'[n].issue = j, context'[n].answer = c
               PROVE  Copy(j, c)'
    BY DEF AnswersTrue
  <2>1. n # m
    BY <1>1
  <2>2. Copy(j, c)
    BY <1>1, <2>1 DEF AnswersTrue
  <2> QED  BY <1>3, <2>2, CopyKept
<1>6. \A l \in List : Lag(l) \subseteq Lag(l)' /\ (l \in Written(v) => Lag(l) \subseteq lapsed'[l])
  <2>1. \A l \in List : lapsed[l] \subseteq Issue
    BY DEF TypeOK
  <2>2. /\ stale' = [l \in List |-> stale[l] /\ l \notin Written(v)]
        /\ lapsed' = [l \in List |-> IF l \in Written(v) /\ stale[l] THEN Issue ELSE lapsed[l]]
    BY <1>1
  <2> HIDE DEF v
  <2> QED  BY <2>1, <2>2 DEF Lag
<1>7. ASSUME NEW l \in List, cache[l] # None, NEW K, Lag(l) \subseteq K,
             NEW j \in Issue, NEW c \in Card \ {None}, cache[l].rows[j] = c
      PROVE  RowTrue(l, j, c)' /\ (connected' /\ j \notin K => RowHeard(l, j, c)')
  <2>1. MissedBy(K)
    BY <1>3, MissedMore
  <2> QED  BY <1>3, <1>7, <2>1, OthersKept
<1>8. ListsTrue'
  <2> SUFFICES ASSUME NEW l \in List, cache'[l] # None,
                      NEW j \in Issue, NEW c \in Card \ {None}, cache'[l].rows[j] = c
               PROVE  RowTrue(l, j, c)' /\ (connected' /\ j \notin Lag(l)' => RowHeard(l, j, c)')
    BY DEF ListsTrue, EntryTrue, Loaded
  <2>1. ApplyIssueChange(i, p, base, Verdicts(i, p, changed, base))
    BY <1>1
  <2>2. cache[l] # None /\ \A n \in Issue \ {i} : cache'[l].rows[n] = cache[l].rows[n]
    BY <2>1, ApplyRows DEF Loaded
  <2> DEFINE K == Lag(l)'
  <2>3. Lag(l) \subseteq K
    BY <1>6
  <2> HIDE DEF K
  <2>4. CASE j # i
    <3>1. cache[l].rows[j] = c
      BY <2>2, <2>4
    <3>2. RowTrue(l, j, c)' /\ (connected' /\ j \notin K => RowHeard(l, j, c)')
      BY <1>7, <2>2, <2>3, <3>1
    <3> QED  BY <3>2 DEF K
  <2>5. CASE j = i
    <3>1. PICK row \in Card \ {None} : cache[l].rows[i] = row /\ c = Merged(row, p)
      BY <2>1, <2>5, PassRows
    <3>2. RowTrue(l, i, row)' /\ (connected' /\ i \notin K => RowHeard(l, i, row)')
      BY <1>7, <2>2, <2>3, <3>1
    <3>3. c.version = row.version /\ c.guess = m /\ m # 0
      BY <1>1, <3>1 DEF Merged, Mutation
    <3>4. RowTrue(l, i, c)'
      BY <3>2, <3>3 DEF RowTrue
    <3>5. RowHeard(l, i, row)' => RowHeard(l, i, c)'
      BY <3>3 DEF RowHeard, Gone
    <3> QED  BY <2>5, <3>2, <3>4, <3>5 DEF K
  <2> QED  BY <2>4, <2>5
<1>9. KeptTrue'
  <2> SUFFICES ASSUME NEW n \in Mutation, NEW l \in List,
                      context'[n] # None, context'[n].lists[l] # None,
                      NEW j \in Issue, NEW c \in Card \ {None}, context'[n].lists[l].rows[j] = c
               PROVE  /\ RowTrue(l, j, c)'
                      /\ connected' /\ j \notin context'[n].missed[l] => RowHeard(l, j, c)'
    BY DEF KeptTrue, EntryTrue
  <2>1. CASE n = m
    <3>1. l \in Written(v) /\ context'[m].lists[l] = cache[l] /\ context'[m].missed = lapsed'
      BY <1>1, <2>1
    <3> DEFINE K == lapsed'[l]
    <3>2. Lag(l) \subseteq K
      BY <1>6, <3>1
    <3>3. cache[l] # None /\ cache[l].rows[j] = c
      BY <2>1, <3>1
    <3> HIDE DEF K
    <3>4. RowTrue(l, j, c)' /\ (connected' /\ j \notin K => RowHeard(l, j, c)')
      BY <1>7, <3>2, <3>3
    <3> QED  BY <2>1, <3>1, <3>4 DEF K
  <2>2. CASE n # m
    <3>1. context'[n] = context[n]
      BY <1>1, <2>2
    <3> DEFINE e == context[n].lists[l]
               J == context[n].missed[l]
    <3>2. EntryTrue(l, e, J) /\ e.rows[j] = c
      BY <3>1 DEF KeptTrue
    <3> HIDE DEF e, J
    <3>3. MissedBy(J)
      BY <1>3, MissedMore
    <3>4. RowTrue(l, j, c)' /\ (connected' /\ j \notin J => RowHeard(l, j, c)')
      BY <1>3, <3>2, <3>3, EntryKept
    <3> QED  BY <3>1, <3>4 DEF J
  <2> QED  BY <2>1, <2>2
<1> QED  BY <1>3, <1>4, <1>5, <1>8, <1>9

\* The event of a write goes out, and then its answer.
LEMMA PublishCurrent ==
  ASSUME TypeOK, CurrentInv, RequestsApart, NEW x \in Writer, Publish(x)
  PROVE  CurrentInv'
<1> USE DEF CurrentInv
<1>1. NoNews /\ NewsStep /\ MissedBy({}) /\ NewsInv'
  BY PublishSteps, NewsKept
<1>2. /\ UNCHANGED <<cache, stale, fetch, lapsed>>
      /\ context' = IF x \in Mutation /\ context[x] # None
                    THEN [context EXCEPT ![x].answer = unsent[x].card] ELSE context
  BY DEF Publish, lists
<1>3. /\ unsent[x] \in News
      /\ x \in Mutation /\ context[x] # None => unsent[x].issue = context[x].issue
  BY DEF Publish, RequestsApart, News, TypeOK
<1>4. FetchesTrue'
  BY <1>1, <1>2, FetchesKept
<1>5. ListsTrue'
  <2>1. \A l \in List : Lag(l)' = Lag(l) /\ (\A K : K = Lag(l)' => MissedBy(K))
    BY <1>2, PublishSteps DEF Lag
  <2> QED  BY <1>2, <2>1, ListsKept
<1>6. \A m \in Mutation : context'[m] # None =>
         /\ context[m] # None
         /\ context'[m].issue = context[m].issue
         /\ context'[m].lists = context[m].lists /\ context'[m].missed = context[m].missed
         /\ \/ context'[m].answer = context[m].answer
            \/ m = x /\ context'[m].answer = unsent[x].card
  <2>1. CASE x \in Mutation /\ context[x] # None
    <3> DEFINE k == [context[x] EXCEPT !.answer = unsent[x].card]
    <3>1. context[x] \in Context
      BY <2>1 DEF TypeOK
    <3>2. /\ k.issue = context[x].issue /\ k.lists = context[x].lists
          /\ k.missed = context[x].missed /\ k.answer = unsent[x].card
      BY <3>1 DEF Context
    <3>3. context' = [context EXCEPT ![x] = k]
      BY <1>2, <2>1
    <3> HIDE DEF k
    <3>4. \A m \in Mutation : context'[m] = IF m = x THEN k ELSE context[m]
      BY <3>3 DEF TypeOK
    <3> QED  BY <2>1, <3>2, <3>4
  <2>2. CASE ~(x \in Mutation /\ context[x] # None)
    <3>1. context' = context
      BY <1>2, <2>2
    <3> QED  BY <3>1
  <2> QED  BY <2>1, <2>2
<1>7. AnswersTrue'
  <2> SUFFICES ASSUME NEW m \in Mutation, NEW i \in Issue, NEW c \in Card \ {None},
                      context'[m] # None, context'[m].issue = i, context'[m].answer = c
               PROVE  Copy(i, c)'
    BY DEF AnswersTrue
  <2>1. CASE context'[m].answer = context[m].answer
    <3>1. Copy(i, c)
      BY <1>6, <2>1 DEF AnswersTrue
    <3> QED  BY <1>1, <3>1, CopyKept
  <2>2. CASE m = x /\ context'[m].answer = unsent[x].card
    <3>1. Copy(i, c)
      BY <1>3, <1>6, <2>2 DEF NewsInv
    <3> QED  BY <1>1, <3>1, CopyKept
  <2> QED  BY <1>6, <2>1, <2>2
<1>8. KeptTrue'
  BY <1>1, <1>6, CopiesKept
<1> QED  BY <1>1, <1>4, <1>5, <1>7, <1>8

\* The answer of a mutation is written over the guess.
LEMMA AnswerCurrent ==
  ASSUME TypeOK, CurrentInv, NEW m \in Mutation, AnswerMutation(m)
  PROVE  CurrentInv'
<1> USE DEF CurrentInv
<1>1. PICK i \in Issue, card \in Card, changed \in Changed, S \in SUBSET List :
         LET v == Verdicts(i, card, changed, card) IN
         /\ context[m].issue = i /\ context[m].answer = card
         /\ ApplyIssueChange(i, card, card, v)
         /\ Refreshes(Written(v), Drifted(v) \cup S)
         /\ lapsed' = Lapses(Written(v), i, IF Behind(i, card.version) THEN List ELSE {})
  <2> DEFINE i == context[m].issue
             c == context[m].answer
             d == ChangedDims(context[m].patch, c)
             S == context[m].stale
  <2>1. i \in Issue /\ c \in Card /\ S \in SUBSET List
    BY DEF AnswerMutation, TypeOK, Context
  <2>2. d \in Changed
    BY DEF ChangedDims, Changed
  <2>3. LET v == Verdicts(i, c, d, c) IN
        /\ ApplyIssueChange(i, c, c, v)
        /\ Refreshes(Written(v), Drifted(v) \cup S)
        /\ lapsed' = Lapses(Written(v), i, IF Behind(i, c.version) THEN List ELSE {})
    BY DEF AnswerMutation
  <2> HIDE DEF d
  <2> QED  BY <2>1, <2>2, <2>3
<1> DEFINE v == Verdicts(i, card, changed, card)
<1>2. /\ UNCHANGED <<server, events, unsent, connected>>
      /\ context' = [context EXCEPT ![m] = None]
      /\ context[m] # None
  BY DEF AnswerMutation, link, requests
<1>3. NewsStep /\ MissedBy({}) /\ NewsInv'
  BY <1>2, StillSteps, NewsKept
<1>4. Copy(i, card)
  BY <1>1, <1>2, NameAssumption, NoneAssumption DEF AnswersTrue, AnswerMutation
<1>5. FetchesTrue'
  BY <1>1, <1>3, FetchesKept DEF Refreshes, Asked
<1>6. \A n \in Mutation : context'[n] # None => context[n] # None /\ context'[n] = context[n]
  BY <1>2 DEF TypeOK
<1>7. AnswersTrue'
  BY <1>3, <1>6, AnswersKept
<1>8. KeptTrue'
  BY <1>3, <1>6, CopiesKept
<1>9. ListsTrue'
  <2> SUFFICES ASSUME NEW l \in List, cache'[l] # None,
                      NEW j \in Issue, NEW c \in Card \ {None}, cache'[l].rows[j] = c
               PROVE  RowTrue(l, j, c)' /\ (connected' /\ j \notin Lag(l)' => RowHeard(l, j, c)')
    BY DEF ListsTrue, EntryTrue, Loaded
  <2> DEFINE K == Lag(l)'
             lagging == Behind(i, card.version)
  <2>1. card \in Patch /\ ApplyIssueChange(i, card, card, Verdicts(i, card, changed, card))
    BY <1>1, CardIsPatch
  <2>2. cache[l] # None /\ \A n \in Issue \ {i} : cache'[l].rows[n] = cache[l].rows[n]
    BY <2>1, ApplyRows DEF Loaded
  <2>3. Lag(l) \subseteq K /\ (l \in Written(v) /\ i \notin K => ~lagging)
    <3>1. PICK W, D, M : /\ W = Written(v) /\ D = Drifted(v) \cup S
                         /\ M = IF lagging THEN List ELSE {}
      OBVIOUS
    <3>2. Refreshes(W, D) /\ lapsed' = Lapses(W, i, M)
      BY <1>1, <3>1
    <3> HIDE DEF v, K, lagging
    <3>3. /\ Lag(l) \subseteq Lag(l)'
          /\ \A n \in Issue \ Lag(l)' : l \in W /\ n = i => l \notin M
      BY <3>2, MarkKept
    <3> QED  BY <3>1, <3>3 DEF K
  <2>4. MissedBy(K)
    BY <1>3, MissedMore
  <2> HIDE DEF K
  <2>5. CASE j # i
    <3>1. cache[l].rows[j] = c
      BY <2>2, <2>5
    <3>2. RowTrue(l, j, c)' /\ (connected' /\ j \notin K => RowHeard(l, j, c)')
      BY <1>3, <2>2, <2>3, <2>4, <3>1, OthersKept
    <3> QED  BY <3>2 DEF K
  <2>6. CASE j = i
    <3>1. PICK row \in Card \ {None} : cache[l].rows[i] = row /\ c = Merged(row, card)
      BY <2>1, <2>6, PassRows
    <3>2. c = card /\ l \in Written(v)
      BY <2>1, <2>6, <3>1, MergedFull, PassRows
    <3>3. RowTrue(l, i, row) /\ (connected /\ i \notin K => RowHeard(l, i, row))
      BY <2>2, <2>3, <3>1 DEF ListsTrue, EntryTrue, Loaded
    <3>4. RowTrue(l, i, card)'
      BY <1>2, <1>4, <3>3 DEF RowTrue, Copy
    <3>5. connected' /\ i \notin K => RowHeard(l, i, card)'
      <4>1. connected /\ i \notin K => ~Gone(i, card.version)
        BY <1>1, <2>3, <3>2, BehindGone
      <4> QED  BY <1>2, <3>3, <4>1, StillSteps DEF Still, RowHeard, Gone, Heard, OwnerMoves
    <3> QED  BY <2>6, <3>2, <3>4, <3>5 DEF K
  <2> QED  BY <2>5, <2>6
<1> QED  BY <1>3, <1>5, <1>7, <1>8, <1>9

\* A rollback puts back lists that were true, and notes what they have missed.
LEMMA FailCurrent ==
  ASSUME TypeOK, CurrentInv, NEW m \in Mutation, FailMutation(m)
  PROVE  CurrentInv'
<1> USE DEF CurrentInv
<1> DEFINE before == context[m].lists
           W == {l \in List : before[l] # None}
           S == context[m].stale
           wrong(l) == {j \in Issue : before[l].rows[j] # None /\ before[l].rows[j].guess # 0}
<1>1. /\ UNCHANGED <<server, events, unsent, connected>>
      /\ cache' = [l \in List |-> IF l \in W THEN before[l] ELSE cache[l]]
      /\ Refreshes(W, S)
      /\ lapsed' = [l \in List |->
            IF l \in W /\ stale[l] THEN Issue
            ELSE IF l \in W THEN lapsed[l] \cup context[m].missed[l] \cup wrong(l)
            ELSE lapsed[l]]
      /\ context' = [context EXCEPT ![m] = None]
      /\ context[m] # None
  BY DEF FailMutation, link
<1>2. NewsStep /\ MissedBy({}) /\ NewsInv'
  BY <1>1, StillSteps, NewsKept
<1>3. FetchesTrue'
  BY <1>1, <1>2, FetchesKept DEF Refreshes, Asked
<1>4. \A n \in Mutation : context'[n] # None => context[n] # None /\ context'[n] = context[n]
  BY <1>1 DEF TypeOK
<1>5. AnswersTrue'
  BY <1>2, <1>4, AnswersKept
<1>6. KeptTrue'
  BY <1>2, <1>4, CopiesKept
<1>7. ListsTrue'
  <2> SUFFICES ASSUME NEW l \in List, cache'[l] # None,
                      NEW j \in Issue, NEW c \in Card \ {None}, cache'[l].rows[j] = c
               PROVE  RowTrue(l, j, c)' /\ (connected' /\ j \notin Lag(l)' => RowHeard(l, j, c)')
    BY DEF ListsTrue, EntryTrue, Loaded
  <2> DEFINE K == Lag(l)'
  <2>1. MissedBy(K)
    BY <1>2, MissedMore
  <2>2. /\ stale'[l] = (l \in S \/ (stale[l] /\ l \notin W))
        /\ lapsed'[l] = IF l \in W /\ stale[l] THEN Issue
                        ELSE IF l \in W THEN lapsed[l] \cup context[m].missed[l] \cup wrong(l)
                        ELSE lapsed[l]
    <3> HIDE DEF W, wrong, S
    <3> QED  BY <1>1 DEF Refreshes
  <2>3. lapsed[l] \subseteq Issue /\ context[m].missed[l] \subseteq Issue
    BY <1>1 DEF TypeOK, Context
  <2>4. CASE l \in W
    <3> DEFINE e == before[l]
               J == context[m].missed[l]
    <3>1. e.rows[j] = c /\ EntryTrue(l, e, J)
      BY <1>1, <2>4 DEF KeptTrue
    <3>2. J \subseteq K
      <4> HIDE DEF W, wrong, S
      <4> QED  BY <2>2, <2>3, <2>4 DEF Lag
    <3> HIDE DEF e, J, K
    <3>3. RowTrue(l, j, c)' /\ (connected' /\ j \notin K => RowHeard(l, j, c)')
      BY <1>2, <2>1, <3>1, <3>2, EntryKept
    <3> QED  BY <3>3 DEF K
  <2>5. CASE l \notin W
    <3>1. cache[l] # None /\ cache[l].rows[j] = c
      BY <1>1, <2>5
    <3>2. Lag(l) \subseteq K
      <4> HIDE DEF W, wrong, S
      <4> QED  BY <2>2, <2>3, <2>5 DEF Lag
    <3> HIDE DEF K
    <3>3. RowTrue(l, j, c)' /\ (connected' /\ j \notin K => RowHeard(l, j, c)')
      BY <1>2, <2>1, <3>1, <3>2, OthersKept
    <3> QED  BY <3>3 DEF K
  <2> QED  BY <2>4, <2>5
<1> QED  BY <1>2, <1>3, <1>5, <1>6, <1>7

\* Every step keeps CurrentInv.
LEMMA CurrentNext ==
  ASSUME TypeOK, RequestsApart, CurrentInv, [Next]_vars
  PROVE  CurrentInv'
<1>1. ASSUME NEW x \in Foreign, NEW i \in Issue, NEW p \in Edits, RemoteWrite(x, i, p)
      PROVE  CurrentInv'
  BY <1>1, StillSteps, NewsCurrent DEF RemoteWrite, lists, link
<1>2. ASSUME NEW m \in Mutation, Receive(m) PROVE CurrentInv'
  BY <1>2, StillSteps, NewsCurrent DEF Receive, lists, link
<1>3. ASSUME NEW x \in Writer, Update(x) PROVE CurrentInv'
  <2>1. NoNews
    BY <1>3, UpdateSteps DEF NoNews
  <2> QED  BY <1>3, <2>1, NewsCurrent DEF Update, lists
<1>4. ASSUME NEW x \in Writer, Publish(x) PROVE CurrentInv'
  BY <1>4, PublishCurrent
<1>5. CASE DeliverEvent
  BY <1>5, DeliverCurrent
<1>6. CASE Disconnect
  <2>1. News' \subseteq News /\ server' = server /\ ~connected'
    <3>1. DOMAIN events' = {} /\ unsent' = unsent
      BY <1>6 DEF Disconnect, requests
    <3> QED  BY <1>6, <3>1 DEF Disconnect, News
  <2>2. NoNews
    BY <2>1 DEF NoNews, DropStep
  <2> QED  BY <1>6, <2>2, NewsCurrent DEF Disconnect, lists
<1>7. CASE Connect
  BY <1>7, ConnectCurrent
<1>8. ASSUME NEW l \in List, Mount(l) \/ FailFetch(l) PROVE CurrentInv'
  <2>1. NoNews /\ UNCHANGED <<cache, stale, lapsed, context>>
    BY <1>8, StillSteps DEF Mount, FailFetch, link, requests
  <2>2. \A k \in List : fetch'[k] = fetch[k] \/ fetch'[k].entry = None
    BY <1>8 DEF Mount, FailFetch, Asked, Idle, TypeOK
  <2> QED  BY <2>1, <2>2, NewsCurrent
<1>9. ASSUME NEW l \in List, AnswerFetch(l) PROVE CurrentInv'
  BY <1>9, AnswerFetchCurrent
<1>10. ASSUME NEW l \in List, LandFetch(l) PROVE CurrentInv'
  BY <1>10, LandFetchCurrent
<1>11. ASSUME NEW i \in Issue, OpenIssue(i) PROVE CurrentInv'
  BY <1>11, StillSteps, NewsCurrent DEF OpenIssue, lists, link, requests
<1>12. ASSUME NEW i \in Issue, NEW p \in Edits, Mutate(i, p) PROVE CurrentInv'
  BY <1>12, MutateCurrent
<1>13. ASSUME NEW m \in Mutation, AnswerMutation(m) PROVE CurrentInv'
  BY <1>13, AnswerCurrent
<1>14. ASSUME NEW m \in Mutation, FailMutation(m) PROVE CurrentInv'
  BY <1>14, FailCurrent
<1>15. CASE UNCHANGED vars
  BY <1>15, StillSteps, NewsCurrent DEF vars, lists, link, requests
<1> QED
  BY <1>1, <1>2, <1>3, <1>4, <1>5, <1>6, <1>7, <1>8, <1>9, <1>10, <1>11, <1>12, <1>13,
     <1>14, <1>15
     DEF Next, Server, User, Realtime, Queries

\* applyIssueChange, the rollback, the fetches and the reconnects together: when
\* nothing is under way, a card on screen says what the server says and is in its
\* list, unless the list owes a refetch or has missed news: an event that did not
\* come, came after a later one, or did not say that it moved the issue.
THEOREM RowsCurrent == Spec => []RowsAreCurrent
<1>1. ASSUME TypeOK, Undoable, CurrentInv PROVE RowsAreCurrent
  <2> SUFFICES ASSUME Quiet, NEW l \in Loaded, ~stale[l],
                      NEW i \in Issue \ lapsed[l], cache[l].rows[i] # None
               PROVE  /\ cache[l].rows[i].status = server[i].status
                      /\ cache[l].rows[i].owner = server[i].owner
                      /\ Member(l, server[i])
    BY DEF RowsAreCurrent
  <2>1. PICK c \in Card \ {None} : c = cache[l].rows[i]
    BY <1>1 DEF TypeOK, Loaded, Entry
  <2>2. RowTrue(l, i, c) /\ RowHeard(l, i, c)
    BY <1>1, <2>1 DEF CurrentInv, ListsTrue, EntryTrue, Lag, Quiet
  <2>3. c.guess = 0
    <3>1. c.guess # 0 => c.guess \in Mutation /\ context[c.guess] # None
      BY <1>1, <2>1 DEF Undoable, Card, Mutation
    <3> QED  BY <3>1 DEF Quiet
  <2>4. \A e \in News : FALSE
    <3>1. DOMAIN events = {} /\ \A x \in Writer : unsent[x] = None
      BY DEF Quiet, Published
    <3> QED  BY <3>1, NoneAssumption DEF News
  <2>5. c.version = server[i].version
    <3>1. c.version \in Nat /\ server[i].version \in Nat
      BY <1>1, BoundAssumption DEF TypeOK, Card
    <3>2. \A n \in (c.version + 1)..server[i].version : FALSE
      BY <2>2, <2>4 DEF RowHeard, Gone, Heard
    <3> QED  BY <2>2, <3>1, <3>2 DEF RowTrue
  <2> QED  BY <2>1, <2>2, <2>3, <2>4, <2>5 DEF RowTrue, RowHeard, OwnerMoves
<1> QED
  BY <1>1, TypeInit, TypeNext, GuessInit, GuessNext, ApartInit, ApartNext,
     CurrentInit, CurrentNext, PTL
     DEF Spec, GuessInv
=============================================================================
