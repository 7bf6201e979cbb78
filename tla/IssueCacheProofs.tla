--------------------------- MODULE IssueCacheProofs ---------------------------
(***************************************************************************)
(* Theorems about IssueCache for any number of issues, statuses, owners,   *)
(* lists, mutations and connections.                                       *)
(***************************************************************************)
EXTENDS IssueCache, FiniteSetTheorems, TLAPS

Touching == {"patch", "patchAndRefetch", "remove", "move", "leave"}

----------------------------------------------------------------------------
(* What the operators return.                                              *)

\* A full copy is also a patch, and a patch of a copy is a copy.
LEMMA CardIsPatch == Card \subseteq Patch
  BY DEF Card, Patch

\* A card overlaid with a patch is a card.
LEMMA MergedType ==
  ASSUME NEW c \in Card, NEW p \in Patch
  PROVE  Merged(c, p) \in Card
  BY DEF Merged, Card, Patch

\* Counts stay natural numbers: Less is clamped.
LEMMA MovedTotalType ==
  ASSUME NEW total \in [Status -> Nat], NEW from \in Status, NEW to \in Status
  PROVE  MovedTotal(total, from, to) \in [Status -> Nat]
  BY DEF MovedTotal, Less

\* A server's answer is an entry of its own copies.
LEMMA FirstPagesType ==
  ASSUME server \in [Issue -> Card], NEW l \in List
  PROVE  FirstPages(l) \in Entry
<1>1. IsFiniteSet(Issue)
  BY BoundAssumption, FS_Interval DEF Issue
<1>2. \A s \in Status : Cardinality(Column(l, s)) \in Nat
  <2> TAKE s \in Status
  <2>1. Column(l, s) \in SUBSET Issue
    BY DEF Column
  <2> QED  BY <1>1, <2>1, FS_Subset, FS_CardinalityType
<1> QED  BY <1>2 DEF FirstPages, Entry

\* The verdict on a list with the card is about the card; a move or a leave has
\* a base, and a move a new status.
LEMMA VerdictCases ==
  ASSUME NEW l \in List, NEW i \in Issue, NEW p \in Patch,
         NEW base \in Card \cup {None}, NEW changed
  PROVE  LET verdict == Verdict(l, i, p, changed, base) IN
         \/ cache[l].rows[i] # None /\ verdict \in {"patch", "patchAndRefetch", "remove"}
         \/ cache[l].rows[i] = None /\ verdict \in {"skip", "refetch"}
         \/ cache[l].rows[i] = None /\ verdict = "leave" /\ base # None
         \/ /\ cache[l].rows[i] = None /\ verdict = "move"
            /\ base # None /\ p.status # None
<1> DEFINE row == cache[l].rows[i]
           touched == FilterDependsOn(l, changed)
           was == IF base = None THEN "unknown" ELSE Matches(l, base)
           is == Matches(l, IF base = None THEN p ELSE Merged(base, p))
           loaded == IF touched THEN Matches(l, Merged(row, p)) ELSE "yes"
<1>1. CASE row # None
  <2>1. Verdict(l, i, p, changed, base) =
          CASE loaded = "yes" -> "patch"
            [] loaded = "no" -> "remove"
            [] OTHER -> "patchAndRefetch"
    BY <1>1 DEF Verdict
  <2> HIDE DEF loaded
  <2> QED  BY <1>1, <2>1
<1>2. CASE row = None
  <2>1. Verdict(l, i, p, changed, base) =
          CASE ~touched /\ ~changed.status -> "skip"
            [] was = "no" /\ is = "no" -> "skip"
            [] was = "yes" /\ is = "yes" ->
                 IF changed.status /\ p.status \notin {None, base.status}
                 THEN "move" ELSE "skip"
            [] was = "yes" /\ is = "no" -> "leave"
            [] OTHER -> "refetch"
    BY <1>2 DEF Verdict
  <2>2. was = "yes" => base # None
    OBVIOUS
  <2> HIDE DEF was, is, touched
  <2> QED  BY <1>2, <2>1, <2>2
<1> QED  BY <1>1, <1>2

\* A pass leaves an entry, and touches no row but the issue's, which it patches.
LEMMA AppliedEntry ==
  ASSUME NEW l \in List, cache[l] \in Entry, NEW i \in Issue, NEW p \in Patch,
         NEW base \in Card \cup {None}, NEW changed
  PROVE  LET verdict == Verdict(l, i, p, changed, base)
             e == Applied(l, i, p, base, verdict)
         IN  /\ e \in Entry
             /\ \A j \in Issue \ {i} : e.rows[j] = cache[l].rows[j]
             /\ e.rows[i] # None =>
                  /\ cache[l].rows[i] # None /\ e.rows[i].guess = p.guess
                  /\ verdict \notin {"skip", "refetch"}
<1> DEFINE verdict == Verdict(l, i, p, changed, base)
           e == Applied(l, i, p, base, verdict)
           row == cache[l].rows[i]
           good == /\ e \in Entry
                   /\ \A j \in Issue \ {i} : e.rows[j] = cache[l].rows[j]
                   /\ e.rows[i] # None =>
                        row # None /\ e.rows[i].guess = p.guess /\ verdict \notin {"skip", "refetch"}
<1>a. /\ cache[l].rows \in [Issue -> Card \cup {None}]
      /\ cache[l].total \in [Status -> Nat]
      /\ cache[l] = [rows |-> cache[l].rows, total |-> cache[l].total]
  BY DEF Entry
<1>b. base # None => base.status \in Status
  BY DEF Card
<1>1. ASSUME row # None /\ verdict \in {"patch", "patchAndRefetch"} PROVE good
  <2>1. e = Patched(cache[l], i, p)
    BY <1>1 DEF Applied
  <2>2. row \in Card /\ Merged(row, p) \in Card /\ Merged(row, p).guess = p.guess
    BY <1>1, <1>a, MergedType DEF Merged
  <2>3. MovedTotal(cache[l].total, row.status, Merged(row, p).status) \in [Status -> Nat]
    BY <2>2, <1>a, MovedTotalType DEF Card
  <2>4. e = [rows |-> [cache[l].rows EXCEPT ![i] = Merged(row, p)],
             total |-> MovedTotal(cache[l].total, row.status, Merged(row, p).status)]
    BY <2>1 DEF Patched
  <2> HIDE DEF e, verdict
  <2> QED  BY <1>1, <1>a, <2>2, <2>3, <2>4 DEF Entry
<1>2. ASSUME row # None /\ verdict = "remove" PROVE good
  <2>1. e = [rows |-> [cache[l].rows EXCEPT ![i] = None],
             total |-> [cache[l].total EXCEPT ![row.status] = Less(@)]]
    BY <1>2 DEF Applied, Removed
  <2>2. [cache[l].total EXCEPT ![row.status] = Less(@)] \in [Status -> Nat]
    BY <1>a, <1>2 DEF Less, Card
  <2> HIDE DEF e, verdict
  <2> QED  BY <1>2, <1>a, <2>1, <2>2 DEF Entry
<1>3. ASSUME row = None /\ verdict = "move" /\ base # None /\ p.status # None PROVE good
  <2>1. e = [cache[l] EXCEPT !.total = MovedTotal(@, base.status, p.status)]
    BY <1>3 DEF Applied
  <2>2. MovedTotal(cache[l].total, base.status, p.status) \in [Status -> Nat]
    BY <1>a, <1>b, <1>3, MovedTotalType DEF Patch
  <2> HIDE DEF e, verdict
  <2> QED  BY <1>3, <1>a, <2>1, <2>2 DEF Entry
<1>4. ASSUME row = None /\ verdict = "leave" /\ base # None PROVE good
  <2>1. e = [cache[l] EXCEPT !.total = [cache[l].total EXCEPT ![base.status] = Less(@)]]
    BY <1>4, <1>a DEF Applied
  <2>2. [cache[l].total EXCEPT ![base.status] = Less(@)] \in [Status -> Nat]
    BY <1>a, <1>b, <1>4 DEF Less
  <2> HIDE DEF e, verdict
  <2> QED  BY <1>4, <1>a, <2>1, <2>2 DEF Entry
<1>5. ASSUME row = None /\ verdict \in {"skip", "refetch"} PROVE good
  <2>1. e = cache[l]
    BY <1>5 DEF Applied
  <2> QED  BY <1>5, <2>1
<1>6. good
  BY <1>1, <1>2, <1>3, <1>4, <1>5, VerdictCases
<1> QED  BY <1>6

\* Applying a change keeps the lists and the details typed.
LEMMA ApplyType ==
  ASSUME TypeOK, NEW i \in Issue, NEW p \in Patch, NEW base \in Card \cup {None},
         NEW changed, ApplyIssueChange(i, p, base, Verdicts(i, p, changed, base))
  PROVE  /\ cache' \in [List -> Entry \cup {None}]
         /\ detail' \in [Issue -> Card \cup {None}]
<1>1. \A l \in Loaded :
        Applied(l, i, p, base, Verdicts(i, p, changed, base)[l]) \in Entry
  BY AppliedEntry DEF TypeOK, Loaded, Verdicts
<1>2. cache' \in [List -> Entry \cup {None}]
  BY <1>1 DEF ApplyIssueChange
<1>3. detail[i] # None => Merged(detail[i], p) \in Card
  BY MergedType DEF TypeOK
<1>4. detail' \in [Issue -> Card \cup {None}]
  BY <1>3 DEF ApplyIssueChange, TypeOK
<1> QED  BY <1>2, <1>4

\* Invalidating and refetching keep marks and requests typed.
LEMMA RefreshesType ==
  ASSUME TypeOK, NEW W, NEW S, Refreshes(W, S)
  PROVE  /\ stale' \in [List -> BOOLEAN]
         /\ fetch' \in [List -> Fetch]
<1>1. Asked \in Fetch
  BY DEF Asked, Fetch
<1>2. stale' \in [List -> BOOLEAN]
  BY DEF Refreshes
<1>3. fetch' \in [List -> Fetch]
  BY <1>1 DEF Refreshes, TypeOK
<1> QED  BY <1>2, <1>3

\* Lapses are issues.
LEMMA LapsesType ==
  ASSUME TypeOK, NEW W, NEW i \in Issue, NEW M
  PROVE  Lapses(W, i, M) \in [List -> SUBSET Issue]
  BY DEF Lapses, TypeOK

\* Noting what an open mutation has missed keeps its context typed.
LEMMA OutdatedType ==
  ASSUME TypeOK, NEW J \in SUBSET Issue
  PROVE  Outdated(J) \in [Mutation -> Context \cup {None}]
<1> SUFFICES ASSUME NEW m \in Mutation, context[m] # None
             PROVE  [context[m] EXCEPT !.missed = [l \in List |-> @[l] \cup J]] \in Context
  BY DEF Outdated
<1>1. context[m] \in Context
  BY DEF TypeOK
<1>2. [l \in List |-> context[m].missed[l] \cup J] \in [List -> SUBSET Issue]
  BY <1>1 DEF Context
<1> QED  BY <1>1, <1>2 DEF Context

\* What a user edits is a patch.
LEMMA EditsArePatches == Edits \subseteq Patch
  BY BoundAssumption DEF Edits, Patch

\* The card that the UPDATE of writer x's request makes.
Updated(x) ==
    Merged([server[request[x].issue] EXCEPT !.owner = request[x].prev.owner],
           [request[x].patch EXCEPT !.version = server[request[x].issue].version + 1])

\* An update writes a card, of the next version, and leaves its event to publish.
LEMMA UpdateCard ==
  ASSUME TypeOK, NEW x \in Writer, Update(x)
  PROVE  /\ request[x] \in Request /\ request[x].issue \in Issue
         /\ Updated(x) \in Card
         /\ Updated(x).version = server[request[x].issue].version + 1
         /\ Updated(x).guess = request[x].patch.guess
         /\ server' = [server EXCEPT ![request[x].issue] = Updated(x)]
         /\ request' = [request EXCEPT ![x] = None]
         /\ unsent' = [unsent EXCEPT ![x] =
              [issue |-> request[x].issue, card |-> Updated(x),
               changed |-> Difference(request[x], Updated(x)),
               moves |-> Updated(x).owner # server[request[x].issue].owner]]
         /\ unsent'[x] \in Event
<1> DEFINE i == request[x].issue
           c == Updated(x)
           base == [server[i] EXCEPT !.owner = request[x].prev.owner]
           p == [request[x].patch EXCEPT !.version = server[i].version + 1]
           ev == [issue |-> i, card |-> c, changed |-> Difference(request[x], c),
                  moves |-> c.owner # server[i].owner]
<1>1. request[x] \in Request /\ request[x].prev \in Card /\ i \in Issue
  BY DEF Update, TypeOK, Request
<1>2. server[i] \in Card /\ server[i].version + 1 \in 0..MaxVersion
  BY <1>1, BoundAssumption DEF TypeOK, Update, Card
<1>3. base \in Card
  BY <1>1, <1>2 DEF Card
<1>4. request[x].patch \in Patch
  BY <1>1 DEF Request
<1>5. p \in Patch /\ p.version = server[i].version + 1 /\ p.guess = request[x].patch.guess
  BY <1>2, <1>4 DEF Patch
<1>6. c = Merged(base, p)
  BY DEF Updated
<1>7. p.version # None
  BY <1>2, <1>5, NameAssumption
<1>8. /\ server' = [server EXCEPT ![i] = c]
      /\ request' = [request EXCEPT ![x] = None]
      /\ unsent' = [unsent EXCEPT ![x] = ev]
  BY DEF Update, Updated
<1> HIDE DEF base, p
<1>9. c \in Card /\ c.version = server[i].version + 1 /\ c.guess = request[x].patch.guess
  BY <1>3, <1>5, <1>6, <1>7, MergedType DEF Merged
<1>10. Difference(request[x], c) \in Changed
  BY DEF Difference, Changed
<1> HIDE DEF c, i
<1>11. ev \in Event
  BY <1>1, <1>9, <1>10 DEF Event
<1>12. unsent'[x] \in Event
  BY <1>8, <1>11 DEF TypeOK
<1> QED  BY <1>1, <1>8, <1>9, <1>12 DEF c, i

----------------------------------------------------------------------------
(* TypeOK is inductive.                                                    *)

\* The initial state is well typed.
LEMMA TypeInit == Init => TypeOK
<1> SUFFICES ASSUME Init PROVE TypeOK
  OBVIOUS
<1>1. server \in [Issue -> Card]
  BY DEF Init
<1>2. events \in Seq(Event)
  BY DEF Init
<1>3. Idle \in Fetch
  BY DEF Idle, Fetch
<1>4. lapsed \in [List -> SUBSET Issue]
  BY DEF Init
<1>5. /\ cache \in [List -> Entry \cup {None}] /\ stale \in [List -> BOOLEAN]
      /\ fetch \in [List -> Fetch]
  BY <1>3 DEF Init
<1>6. /\ detail \in [Issue -> Card \cup {None}]
      /\ context \in [Mutation -> Context \cup {None}]
  BY DEF Init
<1>7. used \in 0..MaxMutation /\ connects \in 0..MaxConnect
  BY BoundAssumption DEF Init
<1>8. connected \in BOOLEAN
  BY DEF Init
<1>9. request \in [Writer -> Request \cup {None}] /\ unsent \in [Writer -> Event \cup {None}]
  BY DEF Init
<1> QED  BY <1>1, <1>2, <1>4, <1>5, <1>6, <1>7, <1>8, <1>9 DEF TypeOK

\* Every step keeps the types.
LEMMA TypeNext == ASSUME TypeOK, [Next]_vars PROVE TypeOK'
<1>1. ASSUME NEW x \in Foreign, NEW i \in Issue, NEW p \in Edits, RemoteWrite(x, i, p)
      PROVE  TypeOK'
  <2>1. [issue |-> i, patch |-> p, prev |-> server[i]] \in Request /\ x \in Writer
    BY EditsArePatches DEF Request, TypeOK, Writer
  <2>2. request' \in [Writer -> Request \cup {None}]
    BY <1>1, <2>1 DEF RemoteWrite, TypeOK
  <2> QED  BY <1>1, <2>2 DEF RemoteWrite, TypeOK, lists, link
<1>15. ASSUME NEW m \in Mutation, Receive(m) PROVE TypeOK'
  <2>1. m \in Writer /\ request[m] \in Request
    BY <1>15 DEF Receive, TypeOK, Writer
  <2>2. [request[m] EXCEPT !.prev = server[request[m].issue]] \in Request
    BY <2>1 DEF Request, TypeOK
  <2>3. request' \in [Writer -> Request \cup {None}]
    BY <1>15, <2>1, <2>2 DEF Receive, TypeOK
  <2> QED  BY <1>15, <2>3 DEF Receive, TypeOK, lists, link
<1>16. ASSUME NEW x \in Writer, Update(x) PROVE TypeOK'
  <2> DEFINE i == request[x].issue
             c == Updated(x)
  <2>1. /\ i \in Issue /\ c \in Card /\ unsent'[x] \in Event
        /\ server' = [server EXCEPT ![i] = c]
        /\ request' = [request EXCEPT ![x] = None]
        /\ \E ev : unsent' = [unsent EXCEPT ![x] = ev]
    BY <1>16, UpdateCard
  <2> HIDE DEF i, c
  <2>2. server' \in [Issue -> Card] /\ request' \in [Writer -> Request \cup {None}]
    BY <2>1 DEF TypeOK
  <2>3. unsent' \in [Writer -> Event \cup {None}]
    BY <2>1 DEF TypeOK
  <2>4. UNCHANGED <<lists, detail, context, used, link, lapsed>>
    BY <1>16 DEF Update
  <2> QED  BY <2>2, <2>3, <2>4 DEF TypeOK, lists, link
<1>2. CASE DeliverEvent
  <2> DEFINE ev == Head(events)
             i == ev.issue
             base == IF detail[i] # None THEN detail[i]
                     ELSE IF cache[Board] # None THEN cache[Board].rows[i] ELSE None
             v == Verdicts(i, ev.card, ev.changed, base)
             M == IF Behind(i, ev.card.version) THEN List
                  ELSE IF ev.moves /\ ~ev.changed.owner THEN List \ {Board} ELSE {}
  <2>1. ev \in Event /\ i \in Issue /\ ev.card \in Patch
    <3>1. events \in Seq(Event) /\ events # <<>>
      BY <1>2 DEF DeliverEvent, TypeOK
    <3>2. ev \in Event
      BY <3>1
    <3> QED  BY <3>2, CardIsPatch DEF Event
  <2>2. base \in Card \cup {None}
    BY <2>1, ListAssumption DEF TypeOK, Entry
  <2>3. /\ events' = Tail(events) /\ events # <<>>
        /\ ApplyIssueChange(i, ev.card, base, v)
        /\ Refreshes(Written(v), Drifted(v))
        /\ lapsed' = Lapses(Written(v), i, M)
        /\ context' = Outdated({i})
    BY <1>2 DEF DeliverEvent
  <2>4. UNCHANGED <<server, request, unsent, used, connected, connects>>
    BY <1>2 DEF DeliverEvent, requests
  <2>5. events' \in Seq(Event)
    BY <2>3 DEF TypeOK
  <2> HIDE DEF ev, i, base, M
  <2>6. /\ cache' \in [List -> Entry \cup {None}]
        /\ detail' \in [Issue -> Card \cup {None}]
    BY <2>1, <2>2, <2>3, ApplyType
  <2> HIDE DEF v
  <2>7. stale' \in [List -> BOOLEAN] /\ fetch' \in [List -> Fetch]
    BY <2>3, RefreshesType
  <2>8. lapsed' \in [List -> SUBSET Issue]
    BY <2>1, <2>3, LapsesType
  <2>9. context' \in [Mutation -> Context \cup {None}]
    BY <2>1, <2>3, OutdatedType
  <2> QED  BY <2>4, <2>5, <2>6, <2>7, <2>8, <2>9 DEF TypeOK
<1>3. CASE Disconnect
  <2>1. events' \in Seq(Event)
    BY <1>3 DEF Disconnect
  <2>3. connected' \in BOOLEAN
    BY <1>3 DEF Disconnect
  <2>2. UNCHANGED <<server, request, unsent, cache, stale, fetch, detail, context, used,
                    connects, lapsed>>
    BY <1>3 DEF Disconnect, lists, requests
  <2> QED  BY <2>1, <2>2, <2>3 DEF TypeOK
<1>4. CASE Connect
  <2>1. /\ connected' = TRUE /\ connects < MaxConnect /\ connects' = connects + 1
        /\ context' = Outdated(Issue)
        /\ UNCHANGED <<server, request, unsent, used, events>>
    BY <1>4 DEF Connect, requests
  <2>2. /\ cache' \in [List -> Entry \cup {None}]
        /\ stale' \in [List -> BOOLEAN]
        /\ fetch' \in [List -> Fetch]
        /\ detail' \in [Issue -> Card \cup {None}]
        /\ lapsed' \in [List -> SUBSET Issue]
    <3>1. CASE FirstConnect
      BY <3>1 DEF FirstConnect, TypeOK, lists
    <3>2. CASE Reconnect
      <4>1. Asked \in Fetch
        BY DEF Asked, Fetch
      <4>2. fetch' \in [List -> Fetch]
        BY <3>2, <4>1 DEF Reconnect, TypeOK
      <4>3. detail' \in [Issue -> Card \cup {None}]
        BY <3>2 DEF Reconnect, TypeOK
      <4>4. stale' \in [List -> BOOLEAN] /\ UNCHANGED <<cache, lapsed>>
        BY <3>2 DEF Reconnect
      <4> QED  BY <4>2, <4>3, <4>4 DEF TypeOK
    <3> QED  BY <1>4, <3>1, <3>2 DEF Connect
  <2>3. context' \in [Mutation -> Context \cup {None}]
    BY <2>1, OutdatedType
  <2> QED  BY <2>1, <2>2, <2>3, BoundAssumption DEF TypeOK
<1>5. ASSUME NEW l \in List, Mount(l) PROVE TypeOK'
  BY <1>5 DEF Mount, TypeOK, Asked, Fetch, link, requests
<1>6. ASSUME NEW l \in List, AnswerFetch(l) PROVE TypeOK'
  <2>1. FirstPages(l) \in Entry
    BY FirstPagesType DEF TypeOK
  <2>2. [phase |-> "answered", entry |-> FirstPages(l)] \in Fetch
    BY <2>1 DEF Fetch
  <2>3. fetch' \in [List -> Fetch]
    BY <1>6, <2>2 DEF AnswerFetch, TypeOK
  <2> QED  BY <1>6, <2>3 DEF AnswerFetch, TypeOK, link, requests
<1>7. ASSUME NEW l \in List, LandFetch(l) PROVE TypeOK'
  <2>1. fetch[l].entry \in Entry \cup {None} /\ Idle \in Fetch
    BY DEF TypeOK, Fetch, Idle
  <2> QED  BY <1>7, <2>1 DEF LandFetch, TypeOK, link, requests
<1>8. ASSUME NEW l \in List, FailFetch(l) PROVE TypeOK'
  BY <1>8 DEF FailFetch, TypeOK, Idle, Fetch, link, requests
<1>9. ASSUME NEW i \in Issue, OpenIssue(i) PROVE TypeOK'
  BY <1>9 DEF OpenIssue, TypeOK, lists, link, requests
<1>10. ASSUME NEW i \in Issue, NEW edit \in Edits, Mutate(i, edit) PROVE TypeOK'
  <2> DEFINE m == used + 1
             p == [edit EXCEPT !.guess = m]
             base == detail[i]
             v == Verdicts(i, p, ChangedDims(p, base), base)
             W == Written(v)
             kept == [l \in List |-> IF l \in W THEN cache[l] ELSE None]
  <2>1. m \in Mutation /\ m \in 0..MaxMutation /\ used' = m
    BY <1>10, BoundAssumption DEF Mutate, TypeOK, Mutation
  <2>2. p \in Patch /\ base \in Card \cup {None}
    BY <2>1, EditsArePatches DEF Patch, TypeOK
  <2>3. /\ ApplyIssueChange(i, p, base, v)
        /\ fetch' = [l \in List |-> Idle]
        /\ stale' = [l \in List |-> stale[l] /\ l \notin W]
        /\ lapsed' = [l \in List |-> IF l \in W /\ stale[l] THEN Issue ELSE lapsed[l]]
        /\ context' = [context EXCEPT ![m] =
              [issue |-> i, patch |-> p, lists |-> kept, detail |-> detail[i],
               stale |-> Drifted(v), answer |-> None, missed |-> lapsed']]
        /\ request' = [request EXCEPT ![m] = [issue |-> i, patch |-> edit, prev |-> None]]
        /\ UNCHANGED <<server, unsent, events, connected, connects>>
    BY <1>10 DEF Mutate, link
  <2>4. Drifted(v) \in SUBSET List
    BY DEF Drifted, Loaded
  <2>11. [issue |-> i, patch |-> edit, prev |-> None] \in Request
    BY EditsArePatches DEF Request
  <2>12. request' \in [Writer -> Request \cup {None}]
    BY <2>1, <2>3, <2>11 DEF TypeOK, Writer
  <2> HIDE DEF m, p, base
  <2>5. /\ cache' \in [List -> Entry \cup {None}]
        /\ detail' \in [Issue -> Card \cup {None}]
    BY <2>2, <2>3, ApplyType
  <2>6. kept \in [List -> Entry \cup {None}]
    BY DEF TypeOK
  <2> HIDE DEF v, W, kept
  <2>7. /\ lapsed' \in [List -> SUBSET Issue]
        /\ stale' \in [List -> BOOLEAN]
        /\ fetch' \in [List -> Fetch]
    BY <2>3 DEF TypeOK, Idle, Fetch
  <2>8. [issue |-> i, patch |-> p, lists |-> kept, detail |-> detail[i],
         stale |-> Drifted(v), answer |-> None, missed |-> lapsed'] \in Context
    BY <2>2, <2>4, <2>6, <2>7 DEF Context, TypeOK
  <2>9. context' \in [Mutation -> Context \cup {None}]
    BY <2>3, <2>8 DEF TypeOK
  <2> QED  BY <2>1, <2>3, <2>5, <2>7, <2>9, <2>12 DEF TypeOK
<1>11. ASSUME NEW x \in Writer, Publish(x) PROVE TypeOK'
  <2>1. unsent[x] \in Event /\ unsent[x].card \in Card
    BY <1>11 DEF Publish, TypeOK, Event
  <2>2. events' \in Seq(Event) /\ unsent' \in [Writer -> Event \cup {None}]
    BY <1>11, <2>1 DEF Publish, TypeOK
  <2>3. context' \in [Mutation -> Context \cup {None}]
    <3>1. CASE x \in Mutation /\ context[x] # None
      <4>2. context[x] \in Context
        BY <3>1 DEF TypeOK
      <4>1. [context[x] EXCEPT !.answer = unsent[x].card] \in Context
        BY <2>1, <4>2 DEF Context
      <4> QED  BY <1>11, <3>1, <4>1 DEF Publish, TypeOK
    <3> QED  BY <1>11, <3>1 DEF Publish, TypeOK
  <2> QED  BY <1>11, <2>2, <2>3 DEF Publish, TypeOK, lists
<1>12. ASSUME NEW m \in Mutation, AnswerMutation(m) PROVE TypeOK'
  <2> DEFINE i == context[m].issue
             c == context[m].answer
             v == Verdicts(i, c, ChangedDims(context[m].patch, c), c)
  <2>1. i \in Issue /\ c \in Card
    BY <1>12 DEF AnswerMutation, TypeOK, Context
  <2>2. /\ ApplyIssueChange(i, c, c, v)
        /\ Refreshes(Written(v), Drifted(v) \cup context[m].stale)
        /\ lapsed' = Lapses(Written(v), i, IF Behind(i, c.version) THEN List ELSE {})
        /\ context' = [context EXCEPT ![m] = None]
        /\ UNCHANGED <<server, request, unsent, used, events, connected, connects>>
    BY <1>12 DEF AnswerMutation, link, requests
  <2> HIDE DEF i, c
  <2>3. /\ cache' \in [List -> Entry \cup {None}]
        /\ detail' \in [Issue -> Card \cup {None}]
    BY <2>1, <2>2, ApplyType, CardIsPatch
  <2> HIDE DEF v
  <2>4. stale' \in [List -> BOOLEAN] /\ fetch' \in [List -> Fetch]
    BY <2>2, RefreshesType
  <2>5. lapsed' \in [List -> SUBSET Issue]
    BY <2>1, <2>2, LapsesType
  <2> QED  BY <2>2, <2>3, <2>4, <2>5 DEF TypeOK
<1>13. ASSUME NEW m \in Mutation, FailMutation(m) PROVE TypeOK'
  <2>1. context[m] \in Context
    BY <1>13 DEF FailMutation, TypeOK
  <2>2. cache' \in [List -> Entry \cup {None}]
    BY <1>13, <2>1 DEF FailMutation, TypeOK, Context
  <2>3. detail' \in [Issue -> Card \cup {None}]
    BY <1>13, <2>1 DEF FailMutation, TypeOK, Context
  <2>4. lapsed' \in [List -> SUBSET Issue]
    BY <1>13, <2>1 DEF FailMutation, TypeOK, Context
  <2>5. stale' \in [List -> BOOLEAN] /\ fetch' \in [List -> Fetch]
    BY <1>13, RefreshesType DEF FailMutation
  <2>6. /\ context' = [context EXCEPT ![m] = None]
        /\ request' = [request EXCEPT ![m] = None]
        /\ UNCHANGED <<server, unsent, used, events, connected, connects>>
    BY <1>13 DEF FailMutation, link
  <2>7. request' \in [Writer -> Request \cup {None}]
    BY <2>6 DEF TypeOK
  <2> QED  BY <2>2, <2>3, <2>4, <2>5, <2>6, <2>7 DEF TypeOK
<1>14. CASE UNCHANGED vars
  BY <1>14 DEF vars, lists, link, requests, TypeOK
<1> QED
  BY <1>1, <1>2, <1>3, <1>4, <1>5, <1>6, <1>7, <1>8, <1>9, <1>10, <1>11, <1>12, <1>13,
     <1>14, <1>15, <1>16 DEF Next, Server, User, Realtime, Queries

\* applyIssueChange, the rollback and the fetches keep every list an entry whose
\* counts are natural numbers, whatever order answers and events come in.
THEOREM IssueTypesCorrect == Spec => []TypeOK
  BY TypeInit, TypeNext, PTL DEF Spec

----------------------------------------------------------------------------
(* Optimistic copies.                                                      *)

\* What comes from the server carries no guess: its rows, the requests it handles,
\* the events on their way, the answers to fetches and to mutations.
ServerOwn == \A i \in Issue : server[i].guess = 0
EventsOwn == \A k \in DOMAIN events : events[k].card.guess = 0
FetchesOwn ==
    \A l \in List, i \in Issue :
        LET e == fetch[l].entry IN
        e # None /\ e.rows[i] # None => e.rows[i].guess = 0
RequestsOwn ==
    /\ \A x \in Writer : request[x] # None => request[x].patch.guess = 0
    /\ \A x \in Writer : unsent[x] # None => unsent[x].card.guess = 0
AnswersOwn ==
    \A m \in Mutation :
        context[m] # None /\ context[m].answer # None => context[m].answer.guess = 0

\* A mutation not made yet has no context.
Fresh == \A m \in Mutation : m > used => context[m] = None

\* A guess on screen can be undone: its mutation is in flight, and kept a copy
\* of that very list.
Undoable ==
    \A l \in Loaded : \A i \in Issue \ lapsed[l] :
        LET c == cache[l].rows[i] IN
        c # None /\ c.guess # 0 =>
            /\ context[c.guess] # None
            /\ context[c.guess].issue = i
            /\ context[c.guess].lists[l] # None

OwnInv == ServerOwn /\ RequestsOwn /\ EventsOwn /\ FetchesOwn /\ AnswersOwn

GuessInv == OwnInv /\ Fresh /\ Undoable

\* Nothing is guessed at the start.
LEMMA GuessInit == Init => GuessInv
<1> SUFFICES ASSUME Init PROVE GuessInv
  OBVIOUS
<1>1. ServerOwn
  BY DEF Init, ServerOwn
<1>2. EventsOwn
  BY DEF Init, EventsOwn
<1>3. FetchesOwn /\ AnswersOwn /\ Fresh
  BY DEF Init, FetchesOwn, AnswersOwn, Fresh, Idle
<1>4. Undoable
  BY DEF Init, Undoable, Loaded
<1>5. RequestsOwn
  BY DEF Init, RequestsOwn
<1> QED  BY <1>1, <1>2, <1>3, <1>4, <1>5 DEF GuessInv, OwnInv

\* A pass leaves the other rows alone, and the issue's row it writes with the
\* guess of the patch, in a list of Written.
LEMMA ApplyRows ==
  ASSUME TypeOK, NEW i \in Issue, NEW p \in Patch, NEW base \in Card \cup {None},
         NEW changed, ApplyIssueChange(i, p, base, Verdicts(i, p, changed, base)),
         NEW l \in List, cache'[l] # None
  PROVE  /\ l \in Loaded
         /\ \A j \in Issue \ {i} : cache'[l].rows[j] = cache[l].rows[j]
         /\ cache'[l].rows[i] # None =>
              /\ cache'[l].rows[i].guess = p.guess
              /\ l \in Written(Verdicts(i, p, changed, base))
<1>1. l \in Loaded
  BY DEF ApplyIssueChange
<1>2. cache[l] \in Entry /\ Verdicts(i, p, changed, base)[l] = Verdict(l, i, p, changed, base)
  BY <1>1 DEF Loaded, Verdicts, TypeOK
<1>3. cache'[l] = Applied(l, i, p, base, Verdict(l, i, p, changed, base))
  BY <1>1, <1>2 DEF ApplyIssueChange
<1>4. LET verdict == Verdict(l, i, p, changed, base)
          e == Applied(l, i, p, base, verdict)
      IN  /\ \A j \in Issue \ {i} : e.rows[j] = cache[l].rows[j]
          /\ e.rows[i] # None => e.rows[i].guess = p.guess /\ verdict \notin {"skip", "refetch"}
  BY <1>2, AppliedEntry
<1> QED  BY <1>1, <1>2, <1>3, <1>4 DEF Written

\* An invalidation starts no fetch that is already answered.
LEMMA RefreshesOwn ==
  ASSUME FetchesOwn, NEW W, NEW S, Refreshes(W, S)
  PROVE  FetchesOwn'
  BY DEF FetchesOwn, Refreshes, Asked

\* A missed event leaves the copies and the answer of a mutation alone.
LEMMA OutdatedKeeps ==
  ASSUME TypeOK, NEW J \in SUBSET Issue, NEW m \in Mutation
  PROVE  /\ context[m] = None => Outdated(J)[m] = None
         /\ context[m] # None =>
              /\ Outdated(J)[m] # None
              /\ Outdated(J)[m].issue = context[m].issue
              /\ Outdated(J)[m].lists = context[m].lists
              /\ Outdated(J)[m].answer = context[m].answer
<1>1. Outdated(J)[m] \in Context \cup {None}
  BY OutdatedType
<1>2. CASE context[m] # None
  <2>1. Outdated(J)[m] = [context[m] EXCEPT !.missed = [l \in List |-> @[l] \cup J]]
    BY <1>2 DEF Outdated
  <2>2. context[m] \in Context
    BY <1>2 DEF TypeOK
  <2>3. [l \in List |-> context[m].missed[l] \cup J] \in [List -> SUBSET Issue]
    BY <2>2 DEF Context
  <2>4. Outdated(J)[m] \in Context
    BY <2>1, <2>2, <2>3 DEF Context
  <2>5. /\ Outdated(J)[m].issue = context[m].issue
        /\ Outdated(J)[m].lists = context[m].lists
        /\ Outdated(J)[m].answer = context[m].answer
    BY <2>1, <2>2 DEF Context
  <2> QED  BY <1>2, <2>4, <2>5, NoneAssumption
<1>3. CASE context[m] = None
  BY <1>3 DEF Outdated
<1> QED  BY <1>2, <1>3

\* A missed event brings no guess into an answer.
LEMMA OutdatedGuess ==
  ASSUME TypeOK, AnswersOwn, Fresh, NEW J \in SUBSET Issue,
         context' = Outdated(J), used' = used
  PROVE  AnswersOwn' /\ Fresh'
  BY OutdatedKeeps DEF AnswersOwn, Fresh

\* A step that grows what lapsed, keeps the contexts' issues and copies, and
\* leaves in every list old rows or the server's, keeps guesses undoable.
LEMMA UndoableKept ==
  ASSUME TypeOK, Undoable,
         NEW i \in Issue,
         \A l \in List : cache'[l] # None =>
            /\ cache[l] # None /\ lapsed[l] \subseteq lapsed'[l]
            /\ \A j \in Issue \ {i} : cache'[l].rows[j] = cache[l].rows[j]
            /\ \/ cache'[l].rows[i] = cache[l].rows[i]
               \/ cache'[l].rows[i] # None => cache'[l].rows[i].guess = 0,
         \A m \in Mutation : context[m] # None =>
            /\ context'[m] # None
            /\ context'[m].issue = context[m].issue
            /\ context'[m].lists = context[m].lists
  PROVE  Undoable'
<1> SUFFICES ASSUME NEW l \in List, cache'[l] # None,
                    NEW j \in Issue, j \notin lapsed'[l],
                    cache'[l].rows[j] # None, cache'[l].rows[j].guess # 0
             PROVE  LET g == cache'[l].rows[j].guess IN
                    /\ context'[g] # None
                    /\ context'[g].issue = j
                    /\ context'[g].lists[l] # None
  BY DEF Undoable, Loaded
<1>1. cache[l] # None /\ cache'[l].rows[j] = cache[l].rows[j] /\ j \notin lapsed[l]
  OBVIOUS
<1>2. cache[l].rows[j].guess \in Mutation
  BY <1>1 DEF TypeOK, Entry, Card, Mutation
<1>3. LET g == cache[l].rows[j].guess IN
      context[g] # None /\ context[g].issue = j /\ context[g].lists[l] # None
  BY <1>1 DEF Undoable, Loaded
<1> QED  BY <1>1, <1>2, <1>3

\* Every step keeps guesses undoable.
LEMMA GuessNext == ASSUME TypeOK, GuessInv, [Next]_vars PROVE GuessInv'
<1> USE DEF GuessInv, OwnInv
<1>1. ASSUME NEW x \in Foreign, NEW i \in Issue, NEW p \in Edits, RemoteWrite(x, i, p)
      PROVE  GuessInv'
  <2>1. RequestsOwn'
    BY <1>1 DEF RemoteWrite, RequestsOwn, Edits, TypeOK
  <2>2. UNCHANGED <<server, events, cache, fetch, context, used, lapsed>>
    BY <1>1 DEF RemoteWrite, lists, link
  <2> QED  BY <2>1, <2>2 DEF ServerOwn, EventsOwn, FetchesOwn, AnswersOwn, Fresh, Undoable,
           Loaded
<1>15. ASSUME NEW m \in Mutation, Receive(m) PROVE GuessInv'
  <2>1. m \in Writer /\ request[m] \in Request
    BY <1>15 DEF Receive, TypeOK, Writer
  <2>2. request'[m].patch = request[m].patch
    BY <1>15, <2>1 DEF Receive, TypeOK, Request
  <2>3. RequestsOwn'
    BY <1>15, <2>1, <2>2 DEF Receive, RequestsOwn, TypeOK
  <2>4. UNCHANGED <<server, events, cache, fetch, context, used, lapsed>>
    BY <1>15 DEF Receive, lists, link
  <2> QED  BY <2>3, <2>4 DEF ServerOwn, EventsOwn, FetchesOwn, AnswersOwn, Fresh, Undoable,
           Loaded
<1>16. ASSUME NEW x \in Writer, Update(x) PROVE GuessInv'
  <2> DEFINE i == request[x].issue
             c == Updated(x)
  <2>1. /\ c.guess = 0
        /\ server' = [server EXCEPT ![i] = c]
        /\ request' = [request EXCEPT ![x] = None]
        /\ unsent' = [unsent EXCEPT ![x] =
             [issue |-> i, card |-> c, changed |-> Difference(request[x], c),
              moves |-> c.owner # server[i].owner]]
    <3>1. request[x].patch.guess = 0
      BY <1>16 DEF Update, RequestsOwn
    <3> QED  BY <1>16, <3>1, UpdateCard
  <2> HIDE DEF i, c
  <2>2. ServerOwn'
    BY <2>1 DEF ServerOwn, TypeOK
  <2>3. RequestsOwn'
    BY <2>1 DEF RequestsOwn, TypeOK
  <2>4. UNCHANGED <<events, cache, fetch, context, used, lapsed>>
    BY <1>16 DEF Update, lists, link
  <2> QED  BY <2>2, <2>3, <2>4 DEF EventsOwn, FetchesOwn, AnswersOwn, Fresh, Undoable, Loaded
<1>2. CASE DeliverEvent
  <2> DEFINE ev == Head(events)
             i == ev.issue
             base == IF detail[i] # None THEN detail[i]
                     ELSE IF cache[Board] # None THEN cache[Board].rows[i] ELSE None
             v == Verdicts(i, ev.card, ev.changed, base)
             M == IF Behind(i, ev.card.version) THEN List
                  ELSE IF ev.moves /\ ~ev.changed.owner THEN List \ {Board} ELSE {}
  <2>1. events \in Seq(Event) /\ events # <<>>
    BY <1>2 DEF DeliverEvent, TypeOK
  <2>2. ev \in Event /\ ev.card.guess = 0
    BY <2>1 DEF EventsOwn
  <2>3. i \in Issue /\ ev.card \in Patch
    BY <2>2, CardIsPatch DEF Event
  <2>4. base \in Card \cup {None}
    BY <2>3, ListAssumption DEF TypeOK, Entry
  <2>5. /\ events' = Tail(events)
        /\ ApplyIssueChange(i, ev.card, base, v)
        /\ Refreshes(Written(v), Drifted(v))
        /\ lapsed' = Lapses(Written(v), i, M)
        /\ context' = Outdated({i})
        /\ UNCHANGED <<server, request, unsent, used>>
    BY <1>2 DEF DeliverEvent, requests
  <2>6. EventsOwn'
    BY <2>1, <2>5 DEF EventsOwn
  <2> HIDE DEF ev, i, base, M
  <2>7. \A l \in List : cache'[l] # None =>
            /\ cache[l] # None
            /\ \A j \in Issue \ {i} : cache'[l].rows[j] = cache[l].rows[j]
            /\ cache'[l].rows[i] # None => cache'[l].rows[i].guess = 0
    <3> DEFINE changed == ev.changed
    <3>1. ApplyIssueChange(i, ev.card, base, Verdicts(i, ev.card, changed, base))
      BY <2>5
    <3> HIDE DEF changed, v
    <3>2. \A l \in List : cache'[l] # None =>
            /\ l \in Loaded
            /\ \A j \in Issue \ {i} : cache'[l].rows[j] = cache[l].rows[j]
            /\ cache'[l].rows[i] # None => cache'[l].rows[i].guess = ev.card.guess
      BY <2>3, <2>4, <3>1, ApplyRows
    <3> QED  BY <2>2, <3>2 DEF Loaded
  <2> HIDE DEF v
  <2>8. \A l \in List : lapsed[l] \subseteq lapsed'[l]
    BY <2>5 DEF Lapses, TypeOK
  <2>9. Undoable'
    BY <2>3, <2>5, <2>7, <2>8, OutdatedKeeps, UndoableKept
  <2>10. FetchesOwn'
    BY <2>5, RefreshesOwn
  <2>11. AnswersOwn' /\ Fresh'
    BY <2>3, <2>5, OutdatedGuess
  <2> QED  BY <2>5, <2>6, <2>9, <2>10, <2>11 DEF ServerOwn, RequestsOwn
<1>3. CASE Disconnect
  <2>1. EventsOwn'
    BY <1>3 DEF Disconnect, EventsOwn
  <2>2. UNCHANGED <<server, request, unsent, cache, fetch, context, used, lapsed>>
    BY <1>3 DEF Disconnect, lists, requests
  <2> QED  BY <2>1, <2>2 DEF ServerOwn, RequestsOwn, FetchesOwn, AnswersOwn, Fresh, Undoable, Loaded
<1>4. CASE Connect
  <2>1. context' = Outdated(Issue) /\ UNCHANGED <<server, request, unsent, used, events>>
    BY <1>4 DEF Connect, requests
  <2>2. /\ cache' = cache
        /\ \A l \in Loaded : lapsed[l] \subseteq lapsed'[l]
        /\ FetchesOwn'
    <3>1. CASE FirstConnect
      BY <3>1 DEF FirstConnect, lists, FetchesOwn, Loaded
    <3>2. CASE Reconnect
      BY <3>2 DEF Reconnect, FetchesOwn, Asked
    <3> QED  BY <1>4, <3>1, <3>2 DEF Connect
  <2>3. Undoable'
    <3>1. CASE Issue = {}
      BY <3>1 DEF Undoable
    <3>2. ASSUME NEW i \in Issue PROVE Undoable'
      BY <2>1, <2>2, OutdatedKeeps, UndoableKept DEF Loaded
    <3> QED  BY <3>1, <3>2
  <2>4. AnswersOwn' /\ Fresh'
    BY <2>1, OutdatedGuess
  <2> QED  BY <2>1, <2>2, <2>3, <2>4 DEF ServerOwn, RequestsOwn, EventsOwn
<1>5. ASSUME NEW l \in List, Mount(l) PROVE GuessInv'
  <2>1. FetchesOwn'
    BY <1>5 DEF Mount, FetchesOwn, Asked, TypeOK
  <2>2. UNCHANGED <<server, request, unsent, cache, context, used, events, lapsed>>
    BY <1>5 DEF Mount, link, requests
  <2> QED  BY <2>1, <2>2 DEF ServerOwn, RequestsOwn, EventsOwn, AnswersOwn, Fresh, Undoable,
           Loaded
<1>6. ASSUME NEW l \in List, AnswerFetch(l) PROVE GuessInv'
  <2>1. \A i \in Issue : FirstPages(l).rows[i] # None => FirstPages(l).rows[i].guess = 0
    BY DEF FirstPages, ServerOwn
  <2>2. FetchesOwn'
    BY <1>6, <2>1 DEF AnswerFetch, FetchesOwn, TypeOK
  <2>3. UNCHANGED <<server, request, unsent, cache, context, used, events, lapsed>>
    BY <1>6 DEF AnswerFetch, link, requests
  <2> QED  BY <2>2, <2>3 DEF ServerOwn, RequestsOwn, EventsOwn, AnswersOwn, Fresh, Undoable,
           Loaded
<1>7. ASSUME NEW l \in List, LandFetch(l) PROVE GuessInv'
  <2>1. /\ cache' = [cache EXCEPT ![l] = fetch[l].entry]
        /\ fetch' = [fetch EXCEPT ![l] = Idle]
        /\ \A k \in List \ {l} : lapsed'[k] = lapsed[k]
        /\ UNCHANGED <<server, request, unsent, context, used, events>>
    BY <1>7 DEF LandFetch, link, requests, TypeOK
  <2>2. FetchesOwn'
    BY <2>1 DEF FetchesOwn, Idle, TypeOK
  <2>3. Undoable'
    <3> SUFFICES ASSUME NEW k \in List, cache'[k] # None,
                        NEW j \in Issue, j \notin lapsed'[k],
                        cache'[k].rows[j] # None, cache'[k].rows[j].guess # 0
                 PROVE  LET g == cache'[k].rows[j].guess IN
                        /\ context'[g] # None
                        /\ context'[g].issue = j
                        /\ context'[g].lists[k] # None
      BY DEF Undoable, Loaded
    <3>1. k # l
      BY <2>1 DEF FetchesOwn, TypeOK
    <3>2. cache'[k] = cache[k] /\ k \in Loaded /\ j \notin lapsed[k]
      BY <2>1, <3>1 DEF Loaded, TypeOK
    <3>3. LET g == cache[k].rows[j].guess IN
          context[g] # None /\ context[g].issue = j /\ context[g].lists[k] # None
      BY <3>2 DEF Undoable
    <3>4. context' = context
      BY <2>1
    <3> QED  BY <3>2, <3>3, <3>4
  <2> QED  BY <2>1, <2>2, <2>3 DEF ServerOwn, RequestsOwn, EventsOwn, AnswersOwn, Fresh
<1>8. ASSUME NEW l \in List, FailFetch(l) PROVE GuessInv'
  <2>1. FetchesOwn'
    BY <1>8 DEF FailFetch, FetchesOwn, Idle, TypeOK
  <2>2. UNCHANGED <<server, request, unsent, cache, context, used, events, lapsed>>
    BY <1>8 DEF FailFetch, link, requests
  <2> QED  BY <2>1, <2>2 DEF ServerOwn, RequestsOwn, EventsOwn, AnswersOwn, Fresh, Undoable,
           Loaded
<1>9. ASSUME NEW i \in Issue, OpenIssue(i) PROVE GuessInv'
  BY <1>9 DEF OpenIssue, lists, link, requests, ServerOwn, RequestsOwn, EventsOwn, FetchesOwn, AnswersOwn, Fresh,
     Undoable, Loaded
<1>10. ASSUME NEW i \in Issue, NEW edit \in Edits, Mutate(i, edit) PROVE GuessInv'
  <2> DEFINE m == used + 1
             p == [edit EXCEPT !.guess = m]
             base == detail[i]
             changed == ChangedDims(p, base)
             W == Written(Verdicts(i, p, changed, base))
             kept == [l \in List |-> IF l \in W THEN cache[l] ELSE None]
             made == [issue |-> i, patch |-> p, lists |-> kept, detail |-> detail[i],
                      stale |-> Drifted(Verdicts(i, p, changed, base)),
                      answer |-> None, missed |-> lapsed']
  <2>1. m \in Mutation /\ m # 0 /\ used' = m /\ used \in Nat
    BY <1>10, BoundAssumption DEF Mutate, TypeOK, Mutation
  <2>2. p \in Patch /\ p.guess = m /\ base \in Card \cup {None}
    <3>1. edit \in Patch /\ m \in 0..MaxMutation
      BY <2>1, EditsArePatches, BoundAssumption DEF Mutation
    <3>2. p \in Patch /\ p.guess = m
      BY <3>1 DEF Patch
    <3> QED  BY <3>2 DEF TypeOK
  <2>3. /\ ApplyIssueChange(i, p, base, Verdicts(i, p, changed, base))
        /\ fetch' = [l \in List |-> Idle]
        /\ lapsed' = [l \in List |-> IF l \in W /\ stale[l] THEN Issue ELSE lapsed[l]]
        /\ context' = [context EXCEPT ![m] = made]
        /\ request' = [request EXCEPT ![m] = [issue |-> i, patch |-> edit, prev |-> None]]
        /\ UNCHANGED <<server, unsent, events>>
    BY <1>10 DEF Mutate, link
  <2>4. context[m] = None
    BY <2>1 DEF Fresh
  <2>6. made.issue = i /\ made.lists = kept /\ made.answer = None
    OBVIOUS
  <2>7. context'[m] = made /\ \A n \in Mutation \ {m} : context'[n] = context[n]
    BY <2>1, <2>3 DEF TypeOK
  <2>8. \A l \in List : lapsed[l] \subseteq lapsed'[l]
    BY <2>3 DEF TypeOK
  <2>9. \A l \in List : cache'[l] # None =>
            /\ l \in Loaded
            /\ \A j \in Issue \ {i} : cache'[l].rows[j] = cache[l].rows[j]
            /\ cache'[l].rows[i] # None => cache'[l].rows[i].guess = m /\ l \in W
    <3> HIDE DEF p, base, changed, m
    <3> QED  BY <2>2, <2>3, ApplyRows
  <2>10. made # None
    <3>1. kept \in [List -> Entry \cup {None}]
      BY DEF TypeOK
    <3>2. lapsed' \in [List -> SUBSET Issue]
      BY TypeNext DEF TypeOK
    <3>3. made.stale \in SUBSET List
      BY DEF Drifted, Loaded
    <3>4. made \in Context
      BY <2>2, <3>1, <3>2, <3>3 DEF Context, TypeOK
    <3> QED  BY <3>4, NoneAssumption
  <2>11. Undoable'
    <3> SUFFICES ASSUME NEW l \in List, cache'[l] # None,
                        NEW j \in Issue, j \notin lapsed'[l],
                        cache'[l].rows[j] # None, cache'[l].rows[j].guess # 0
                 PROVE  LET g == cache'[l].rows[j].guess IN
                        /\ context'[g] # None
                        /\ context'[g].issue = j
                        /\ context'[g].lists[l] # None
      BY DEF Undoable, Loaded
    <3> HIDE DEF made, W, p, base, changed
    <3>1. CASE j = i
      <4>1. cache'[l].rows[j].guess = m /\ l \in W /\ l \in Loaded
        BY <2>9, <3>1
      <4> QED  BY <2>6, <2>7, <2>10, <3>1, <4>1 DEF Loaded
    <3>2. CASE j # i
      <4> HIDE DEF m
      <4>1. cache'[l].rows[j] = cache[l].rows[j] /\ l \in Loaded /\ j \notin lapsed[l]
        BY <2>8, <2>9, <3>2
      <4>2. cache[l].rows[j].guess \in Mutation
        BY <4>1 DEF TypeOK, Entry, Card, Mutation, Loaded
      <4>3. LET g == cache[l].rows[j].guess IN
            context[g] # None /\ context[g].issue = j /\ context[g].lists[l] # None
        BY <4>1 DEF Undoable
      <4> QED  BY <2>4, <2>7, <4>1, <4>2, <4>3
    <3> QED  BY <3>1, <3>2
  <2>12. AnswersOwn'
    BY <2>6, <2>7 DEF AnswersOwn
  <2>13. Fresh'
    <3> HIDE DEF made
    <3> QED  BY <2>1, <2>7 DEF Fresh, Mutation
  <2>14. FetchesOwn'
    BY <2>3 DEF FetchesOwn, Idle
  <2>15. RequestsOwn'
    BY <2>3 DEF RequestsOwn, TypeOK, Edits
  <2> QED  BY <2>3, <2>11, <2>12, <2>13, <2>14, <2>15 DEF ServerOwn, EventsOwn
<1>11. ASSUME NEW x \in Writer, Publish(x) PROVE GuessInv'
  <2> DEFINE c == unsent[x].card
  <2>1. unsent[x] \in Event /\ c \in Card /\ c.guess = 0
    BY <1>11 DEF Publish, TypeOK, Event, RequestsOwn
  <2>2. /\ events' = IF connected THEN Append(events, unsent[x]) ELSE events
        /\ unsent' = [unsent EXCEPT ![x] = None]
        /\ UNCHANGED <<server, request, cache, fetch, used, lapsed>>
    BY <1>11 DEF Publish, lists
  <2>3. \A m \in Mutation :
          /\ context[m] = None => context'[m] = None
          /\ context[m] # None =>
                /\ context'[m] # None
                /\ context'[m].issue = context[m].issue
                /\ context'[m].lists = context[m].lists
                /\ context'[m].answer \in {context[m].answer, c}
    <3>1. CASE x \in Mutation /\ context[x] # None
      <4>1. context[x] \in Context /\ context' = [context EXCEPT ![x].answer = c]
        BY <1>11, <3>1 DEF Publish, TypeOK
      <4>2. [context[x] EXCEPT !.answer = c] \in Context
        BY <2>1, <4>1 DEF Context
      <4>3. /\ context'[x] = [context[x] EXCEPT !.answer = c]
            /\ \A m \in Mutation \ {x} : context'[m] = context[m]
        BY <3>1, <4>1 DEF TypeOK
      <4>4. /\ context'[x] # None /\ context'[x].answer = c
            /\ context'[x].issue = context[x].issue /\ context'[x].lists = context[x].lists
        BY <4>1, <4>2, <4>3, NoneAssumption DEF Context
      <4> HIDE DEF c
      <4> QED  BY <3>1, <4>3, <4>4
    <3>2. CASE ~(x \in Mutation /\ context[x] # None)
      BY <1>11, <3>2 DEF Publish
    <3> QED  BY <3>1, <3>2
  <2>4. EventsOwn'
    <3>1. events \in Seq(Event)
      BY DEF TypeOK
    <3> QED  BY <2>1, <2>2, <3>1 DEF EventsOwn
  <2>5. RequestsOwn'
    BY <2>2 DEF RequestsOwn, TypeOK
  <2>6. AnswersOwn' /\ Fresh'
    BY <2>1, <2>2, <2>3 DEF AnswersOwn, Fresh
  <2>7. Undoable'
    <3>1. CASE Issue = {}
      BY <3>1 DEF Undoable
    <3>2. ASSUME NEW i \in Issue PROVE Undoable'
      BY <2>2, <2>3, UndoableKept
    <3> QED  BY <3>1, <3>2
  <2> QED  BY <2>2, <2>4, <2>5, <2>6, <2>7 DEF ServerOwn, FetchesOwn
<1>12. ASSUME NEW m \in Mutation, AnswerMutation(m) PROVE GuessInv'
  <2> DEFINE i == context[m].issue
             c == context[m].answer
             v == Verdicts(i, c, ChangedDims(context[m].patch, c), c)
  <2>1. i \in Issue /\ c \in Card /\ context[m] # None
    BY <1>12 DEF AnswerMutation, TypeOK, Context
  <2>2. /\ ApplyIssueChange(i, c, c, v)
        /\ Refreshes(Written(v), Drifted(v) \cup context[m].stale)
        /\ lapsed' = Lapses(Written(v), i, IF Behind(i, c.version) THEN List ELSE {})
        /\ context' = [context EXCEPT ![m] = None]
        /\ UNCHANGED <<server, request, unsent, used, events>>
    BY <1>12 DEF AnswerMutation, link, requests
  <2>3. c.guess = 0
    BY <1>12 DEF AnswerMutation, AnswersOwn
  <2>4. context'[m] = None /\ \A n \in Mutation \ {m} : context'[n] = context[n]
    BY <2>2 DEF TypeOK
  <2>5. AnswersOwn' /\ Fresh'
    BY <2>2, <2>4 DEF AnswersOwn, Fresh
  <2>6. FetchesOwn'
    BY <2>2, RefreshesOwn
  <2>7. \A l \in List : cache'[l] # None =>
            /\ l \in Loaded
            /\ \A j \in Issue \ {i} : cache'[l].rows[j] = cache[l].rows[j]
            /\ cache'[l].rows[i] # None => cache'[l].rows[i].guess = 0
    <3> HIDE DEF i, c
    <3> QED  BY <2>1, <2>2, <2>3, ApplyRows, CardIsPatch
  <2>8. \A l \in List : lapsed[l] \subseteq lapsed'[l]
    BY <2>2 DEF Lapses, TypeOK
  <2>9. Undoable'
    <3> SUFFICES ASSUME NEW l \in List, cache'[l] # None,
                        NEW j \in Issue, j \notin lapsed'[l],
                        cache'[l].rows[j] # None, cache'[l].rows[j].guess # 0
                 PROVE  LET g == cache'[l].rows[j].guess IN
                        /\ context'[g] # None
                        /\ context'[g].issue = j
                        /\ context'[g].lists[l] # None
      BY DEF Undoable, Loaded
    <3>1. j # i /\ cache'[l].rows[j] = cache[l].rows[j] /\ l \in Loaded /\ j \notin lapsed[l]
      BY <2>7, <2>8
    <3>2. cache[l].rows[j].guess \in Mutation
      BY <3>1 DEF TypeOK, Entry, Card, Mutation, Loaded
    <3>3. LET g == cache[l].rows[j].guess IN
          context[g] # None /\ context[g].issue = j /\ context[g].lists[l] # None
      BY <3>1 DEF Undoable
    <3> QED  BY <2>4, <3>1, <3>2, <3>3
  <2> QED  BY <2>2, <2>5, <2>6, <2>9 DEF ServerOwn, RequestsOwn, EventsOwn
<1>13. ASSUME NEW m \in Mutation, FailMutation(m) PROVE GuessInv'
  <2> DEFINE before == context[m].lists
             W == {l \in List : before[l] # None}
             wrong(l) == {j \in Issue : before[l].rows[j] # None /\ before[l].rows[j].guess # 0}
  <2>1. /\ cache' = [l \in List |-> IF l \in W THEN before[l] ELSE cache[l]]
        /\ Refreshes(W, context[m].stale)
        /\ lapsed' = [l \in List |->
              IF l \in W /\ stale[l] THEN Issue
              ELSE IF l \in W THEN lapsed[l] \cup context[m].missed[l] \cup wrong(l)
              ELSE lapsed[l]]
        /\ context' = [context EXCEPT ![m] = None]
        /\ request' = [request EXCEPT ![m] = None]
        /\ UNCHANGED <<server, unsent, used, events>>
    BY <1>13 DEF FailMutation, link
  <2>2. context'[m] = None /\ \A n \in Mutation \ {m} : context'[n] = context[n]
    BY <2>1 DEF TypeOK
  <2>3. AnswersOwn' /\ Fresh'
    BY <2>1, <2>2 DEF AnswersOwn, Fresh
  <2>4. FetchesOwn'
    BY <2>1, RefreshesOwn
  <2>5. Undoable'
    <3> SUFFICES ASSUME NEW l \in List, cache'[l] # None,
                        NEW j \in Issue, j \notin lapsed'[l],
                        cache'[l].rows[j] # None, cache'[l].rows[j].guess # 0
                 PROVE  LET g == cache'[l].rows[j].guess IN
                        /\ context'[g] # None
                        /\ context'[g].issue = j
                        /\ context'[g].lists[l] # None
      BY DEF Undoable, Loaded
    <3>1. l \notin W
      BY <2>1
    <3>2. cache'[l] = cache[l] /\ l \in Loaded /\ j \notin lapsed[l]
      BY <2>1, <3>1 DEF Loaded
    <3>3. cache[l].rows[j].guess \in Mutation
      BY <3>2 DEF TypeOK, Entry, Card, Mutation, Loaded
    <3>4. LET g == cache[l].rows[j].guess IN
          context[g] # None /\ context[g].issue = j /\ context[g].lists[l] # None
      BY <3>2 DEF Undoable
    <3> QED  BY <2>2, <3>1, <3>2, <3>3, <3>4
  <2>6. RequestsOwn'
    BY <2>1 DEF RequestsOwn, TypeOK
  <2> QED  BY <2>1, <2>3, <2>4, <2>5, <2>6 DEF ServerOwn, EventsOwn
<1>14. CASE UNCHANGED vars
  BY <1>14 DEF vars, lists, link, requests, ServerOwn, RequestsOwn, EventsOwn, FetchesOwn, AnswersOwn, Fresh,
     Undoable, Loaded
<1> QED
  BY <1>1, <1>2, <1>3, <1>4, <1>5, <1>6, <1>7, <1>8, <1>9, <1>10, <1>11, <1>12, <1>13,
     <1>14, <1>15, <1>16 DEF Next, Server, User, Realtime, Queries

\* onMutate, onSuccess and onError, however mutations, events and fetches
\* interleave: an optimistic copy that is nobody's any more is only found in a
\* list that a rollback of another mutation has put back.
THEOREM GuessesPending == Spec => []GuessIsPending
<1>1. Undoable => GuessIsPending
  BY DEF Undoable, GuessIsPending
<1> QED  BY <1>1, TypeInit, TypeNext, GuessInit, GuessNext, PTL DEF Spec, GuessInv
=============================================================================
