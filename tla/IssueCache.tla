------------------------------ MODULE IssueCache ------------------------------
(***************************************************************************)
(* The issue lists a client keeps in its query cache (packages/core/issues)*)
(* and how one change of an issue reaches them: the optimistic update of a *)
(* mutation and its answer (useUpdateIssue), the issue:updated event of    *)
(* the websocket (onIssueUpdated), the whole-list fetches, and the         *)
(* websocket's reconnects.  applyIssueChange is the one rules table.  At   *)
(* the server a write is a request of three steps, with no lock over them: *)
(* it reads the issue, updates the row and publishes the event.            *)
(*                                                                         *)
(* An issue has a status (its column), an owner (the one field the lists'  *)
(* filters read) and a position, its number.  A list is the board, a list  *)
(* of one owner's issues, or Mine, whose filter only the server can judge. *)
(* Of each column a list has loaded a first page and knows a total.  The   *)
(* requests of one fetch, one per column, are answered at one point.       *)
(*                                                                         *)
(* TanStack Query is external: a fetch is joined while one is in flight    *)
(* and restarted by an invalidation if the list has data; setQueryData     *)
(* takes the invalidated mark away; cancelQueries drops the request alone. *)
(***************************************************************************)
EXTENDS Naturals, Sequences, FiniteSets, FiniteSetsExt

CONSTANTS
    N,              \* number of issues
    Status,
    Owner,
    NoOwner,        \* the owner of an issue that has none: an assignee of null
    Board, Mine,    \* the two lists that are not an owner's
    List,           \* the lists the client shows
    Involved,       \* the owners whose issues Mine shows
    PageSize,
    Foreign,        \* the other clients' writes in progress
    Start,          \* bound: the owners the issues have at the beginning
    MaxShown,       \* bound: lists the client has asked for
    MaxVersion,     \* bound: writes of one issue the server accepts
    MaxMutation,    \* bound: mutations of this client
    MaxConnect,     \* bound: times the socket connects
    MaxTurn,        \* bound: writes, mutations and connects together
    None

ASSUME ListAssumption ==
    Board \in List /\ List \subseteq {Board, Mine} \cup (Owner \ {NoOwner})
ASSUME NameAssumption ==
    /\ Board \notin Owner /\ Mine \notin Owner /\ Board # Mine
    /\ None \notin Status \cup Owner \cup {NoOwner} \cup 0..MaxVersion
    /\ Foreign \cap (1..MaxMutation) = {}
ASSUME BoundAssumption ==
    /\ N \in Nat /\ PageSize \in Nat /\ MaxVersion \in Nat
    /\ MaxMutation \in Nat /\ MaxConnect \in Nat /\ MaxTurn \in Nat
    /\ MaxShown \in Nat /\ Start \subseteq Owner
ASSUME StatusAssumption == IsFiniteSet(Status)

Issue == 1..N
Mutation == 1..MaxMutation
Writer == Mutation \cup Foreign

\* A copy of an issue.  `version` numbers the server's writes of the issue and
\* `guess` names the mutation that wrote the copy ahead of the server (0: none);
\* both are history, no code reads them.
Card == [status : Status, owner : Owner, version : 0..MaxVersion, guess : 0..MaxMutation]

\* What a write says of an issue; None where it says nothing.
Patch == [status : Status \cup {None}, owner : Owner \cup {None},
          version : 0..MaxVersion \cup {None}, guess : 0..MaxMutation]

Changed == [status : BOOLEAN, owner : BOOLEAN]
Entry == [rows : [Issue -> Card \cup {None}], total : [Status -> Nat]]
\* An issue:updated frame.  `moves` is history: the write changed the row's owner.
Event == [issue : Issue, card : Card, changed : Changed, moves : BOOLEAN]

\* A write the server has not made yet: `prev` is the issue as it read it, None
\* while the request is on its way.
Request == [issue : Issue, patch : Patch, prev : Card \cup {None}]

\* What onMutate leaves for onError and onSettled: prevLists, prevDetail and
\* staleKeys; `answer` is the server's, once it has published; `missed` is history,
\* what the lists had missed when they were kept.
Context == [issue : Issue, patch : Patch, lists : [List -> Entry \cup {None}],
            detail : Card \cup {None}, stale : SUBSET List, answer : Card \cup {None},
            missed : [List -> SUBSET Issue]]
ASSUME NoneAssumption == None \notin Context \cup Request \cup Event

Fetch == [phase : {"idle", "asked", "answered"}, entry : Entry \cup {None}]
Idle == [phase |-> "idle", entry |-> None]
Asked == [phase |-> "asked", entry |-> None]

VARIABLES
    server,     \* the server's issues
    request,    \* per writer: its request until the UPDATE, or None
    unsent,     \* per writer: the event it has to publish since, or None
    cache,      \* per list: its data, or None
    stale,      \* per list: isInvalidated
    fetch,      \* per list: its request in flight
    detail,     \* per issue: the detail query's data, or None
    context,    \* per mutation: its context while it is in flight, or None
    used,       \* mutations the user has made
    events,     \* issue:updated frames on their way
    connected,
    connects,   \* times the socket has been authenticated
    lapsed      \* history: per list, the issues on which it may have missed news

lists == <<cache, stale, fetch>>
link == <<events, connected, connects>>
requests == <<request, unsent>>
vars == <<server, requests, lists, detail, context, used, link, lapsed>>

TypeOK ==
    /\ server \in [Issue -> Card]
    /\ request \in [Writer -> Request \cup {None}]
    /\ unsent \in [Writer -> Event \cup {None}]
    /\ cache \in [List -> Entry \cup {None}]
    /\ stale \in [List -> BOOLEAN]
    /\ fetch \in [List -> Fetch]
    /\ detail \in [Issue -> Card \cup {None}]
    /\ context \in [Mutation -> Context \cup {None}]
    /\ used \in 0..MaxMutation
    /\ events \in Seq(Event)
    /\ connected \in BOOLEAN
    /\ connects \in 0..MaxConnect
    /\ lapsed \in [List -> SUBSET Issue]

Init ==
    /\ server \in [Issue -> {c \in Card : c.owner \in Start /\ c.version = 0 /\ c.guess = 0}]
    /\ request = [x \in Writer |-> None]
    /\ unsent = [x \in Writer |-> None]
    /\ cache = [l \in List |-> None]
    /\ stale = [l \in List |-> FALSE]
    /\ fetch = [l \in List |-> Idle]
    /\ detail = [i \in Issue |-> None]
    /\ context = [m \in Mutation |-> None]
    /\ used = 0
    /\ events = <<>>
    /\ connected = FALSE
    /\ connects = 0
    /\ lapsed = [l \in List |-> {}]

----------------------------------------------------------------------------
(* Membership, at the server and as the client judges it.                  *)

\* The server's filter behind a list.
Member(l, c) ==
    \/ l = Board
    \/ l = Mine /\ c.owner \in Involved
    \/ l = c.owner

Column(l, s) == {i \in Issue : Member(l, server[i]) /\ server[i].status = s}

\* fetchFirstPages
FirstPages(l) ==
    [rows |-> [i \in Issue |->
         IF /\ Member(l, server[i])
            /\ Cardinality({j \in Column(l, server[i].status) : j < i}) < PageSize
         THEN server[i] ELSE None],
     total |-> [s \in Status |-> Cardinality(Column(l, s))]]

\* Fault: the filter of a list is not looked at.
DependsOnNothing(l, changed) == FALSE

\* listFilterDependsOn
FilterDependsOn(l, changed) == l # Board /\ changed.owner

\* issueMatchesListFilter
Matches(l, p) ==
    IF l = Board THEN "yes"
    ELSE IF l = Mine \/ p.owner = None THEN "unknown"
    ELSE IF p.owner = l THEN "yes" ELSE "no"

Merged(c, p) ==
    [status |-> IF p.status = None THEN c.status ELSE p.status,
     owner |-> IF p.owner = None THEN c.owner ELSE p.owner,
     version |-> IF p.version = None THEN c.version ELSE p.version,
     guess |-> p.guess]

----------------------------------------------------------------------------
(* applyIssueChange.                                                       *)

\* Fault: a count may fall below zero.
LessUnclamped(n) == n - 1

Less(n) == IF n = 0 THEN 0 ELSE n - 1

\* moveBucketTotal
MovedTotal(total, from, to) ==
    IF from = to THEN total ELSE [total EXCEPT ![from] = Less(@), ![to] = @ + 1]

\* patchIssueInBuckets
Patched(e, i, p) ==
    LET c == Merged(e.rows[i], p) IN
    [rows |-> [e.rows EXCEPT ![i] = c],
     total |-> MovedTotal(e.total, e.rows[i].status, c.status)]

\* removeIssueFromBuckets
Removed(e, i) ==
    [rows |-> [e.rows EXCEPT ![i] = None],
     total |-> [e.total EXCEPT ![e.rows[i].status] = Less(@)]]

\* What happens to list l when p is written to issue i: the card is loaded and
\* patched or removed; or it is not, and a count moves or loses one, or the list
\* has to be fetched again.
Verdict(l, i, p, changed, base) ==
    LET row == cache[l].rows[i]
        touched == FilterDependsOn(l, changed)
        was == IF base = None THEN "unknown" ELSE Matches(l, base)
        is == Matches(l, IF base = None THEN p ELSE Merged(base, p))
        loaded == IF touched THEN Matches(l, Merged(row, p)) ELSE "yes"
    IN  IF row # None
        THEN CASE loaded = "yes" -> "patch"
               [] loaded = "no" -> "remove"
               [] OTHER -> "patchAndRefetch"
        ELSE CASE ~touched /\ ~changed.status -> "skip"
               [] was = "no" /\ is = "no" -> "skip"
               [] was = "yes" /\ is = "yes" ->
                    IF changed.status /\ p.status \notin {None, base.status}
                    THEN "move" ELSE "skip"
               [] was = "yes" /\ is = "no" -> "leave"
               [] OTHER -> "refetch"

Applied(l, i, p, base, verdict) ==
    LET e == cache[l] IN
    CASE verdict \in {"patch", "patchAndRefetch"} -> Patched(e, i, p)
      [] verdict = "remove" -> Removed(e, i)
      [] verdict = "move" -> [e EXCEPT !.total = MovedTotal(@, base.status, p.status)]
      [] verdict = "leave" -> [e EXCEPT !.total[base.status] = Less(@)]
      [] OTHER -> e

Loaded == {l \in List : cache[l] # None}

Verdicts(i, p, changed, base) == [l \in Loaded |-> Verdict(l, i, p, changed, base)]

\* The lists a pass writes, and the ones it reports as drifted (staleKeys).
Written(v) == {l \in Loaded : v[l] \notin {"skip", "refetch"}}
Drifted(v) == {l \in Loaded : v[l] \in {"patchAndRefetch", "move", "refetch"}}

\* The lists' data and the detail after the pass.
ApplyIssueChange(i, p, base, v) ==
    /\ cache' = [l \in List |-> IF l \in Loaded THEN Applied(l, i, p, base, v[l]) ELSE None]
    /\ detail' = [detail EXCEPT ![i] = IF @ = None THEN None ELSE Merged(@, p)]

\* setQueryData on the lists W, then invalidateQueries on the lists S, of which
\* the ones on screen are fetched.
Refreshes(W, S) ==
    /\ stale' = [l \in List |-> l \in S \/ (stale[l] /\ l \notin W)]
    /\ \E shown \in SUBSET S :
          fetch' = [l \in List |-> IF l \in shown THEN Asked ELSE fetch[l]]

\* Version n of issue i is written, and the client has yet to hear of it.
Coming(i, n) ==
    \/ \E k \in DOMAIN events : events[k].issue = i /\ events[k].card.version = n
    \/ \E x \in Writer :
          unsent[x] # None /\ unsent[x].issue = i /\ unsent[x].card.version = n

\* History: the server has written over this copy, and not every event that says
\* so is still to come.
Behind(i, version) ==
    connected /\ \E n \in (version + 1)..server[i].version : ~Coming(i, n)

\* The copies the mutations in flight have kept miss the news of issues J.
Outdated(J) ==
    [m \in Mutation |->
        IF context[m] = None THEN None
        ELSE [context[m] EXCEPT !.missed = [l \in List |-> @[l] \cup J]]]

\* A list that loses its mark to a write has missed what the mark was for; the
\* lists M are written without the news of issue i.
Lapses(W, i, M) ==
    [l \in List |-> IF l \notin W THEN lapsed[l]
                    ELSE IF stale[l] THEN Issue
                    ELSE IF l \in M THEN lapsed[l] \cup {i} ELSE lapsed[l]]

----------------------------------------------------------------------------
(* The server and the websocket.                                           *)

\* Turns left: a request of another client has its write's before it writes.
Room ==
    MapThenSumSet(LAMBDA i : server[i].version, Issue) + used + connects
        + Cardinality({x \in Foreign : request[x] # None}) < MaxTurn

\* What is asked of an issue: one field.
Edits ==
    {[status |-> s, owner |-> None, version |-> None, guess |-> 0] : s \in Status} \cup
    {[status |-> None, owner |-> o, version |-> None, guess |-> 0] : o \in Owner}

\* loadIssueForUser, for another client's request.
RemoteWrite(x, i, edit) ==
    /\ request[x] = None /\ unsent[x] = None /\ Room
    /\ request' = [request EXCEPT ![x] = [issue |-> i, patch |-> edit, prev |-> server[i]]]
    /\ UNCHANGED <<server, unsent, lists, detail, context, used, link, lapsed>>

\* The same, for a mutation's.
Receive(m) ==
    /\ request[m] # None /\ request[m].prev = None
    /\ request' = [request EXCEPT ![m].prev = server[request[m].issue]]
    /\ UNCHANGED <<server, unsent, lists, detail, context, used, link, lapsed>>

\* The event's flags: a field that was sent, not null, and not what was read.
Difference(r, c) ==
    [status |-> r.patch.status # None /\ r.prev.status # c.status,
     owner |-> r.patch.owner \notin {None, NoOwner} /\ r.prev.owner # c.owner]

\* The UPDATE: a status that was not asked for is the row's, but an owner that was
\* not is the one read at the beginning.
Update(x) ==
    LET r == request[x]
        i == r.issue
        c == Merged([server[i] EXCEPT !.owner = r.prev.owner],
                    [r.patch EXCEPT !.version = server[i].version + 1])
    IN
    /\ r # None /\ r.prev # None
    /\ server[i].version < MaxVersion /\ (Room \/ x \in Foreign)
    /\ server' = [server EXCEPT ![i] = c]
    /\ request' = [request EXCEPT ![x] = None]
    /\ unsent' = [unsent EXCEPT ![x] =
          [issue |-> i, card |-> c, changed |-> Difference(r, c),
           moves |-> c.owner # server[i].owner]]
    /\ UNCHANGED <<lists, detail, context, used, link, lapsed>>

\* issue:updated goes to the sockets that are connected, then the answer.
Publish(x) ==
    /\ unsent[x] # None
    /\ events' = IF connected THEN Append(events, unsent[x]) ELSE events
    /\ context' = IF x \in Mutation /\ context[x] # None
                  THEN [context EXCEPT ![x].answer = unsent[x].card] ELSE context
    /\ unsent' = [unsent EXCEPT ![x] = None]
    /\ UNCHANGED <<server, request, lists, detail, used, connected, connects, lapsed>>

\* onIssueUpdated.  What the lists then miss is history: a later event has been
\* here already, or this one moved the issue without its flag.
DeliverEvent ==
    LET ev == Head(events)
        i == ev.issue
        base == IF detail[i] # None THEN detail[i]
                ELSE IF cache[Board] # None THEN cache[Board].rows[i] ELSE None
        v == Verdicts(i, ev.card, ev.changed, base)
        silent == ev.moves /\ ~ev.changed.owner
        M == IF Behind(i, ev.card.version) THEN List
             ELSE IF silent THEN List \ {Board} ELSE {}
    IN
    /\ connected /\ events # <<>>
    /\ events' = Tail(events)
    /\ ApplyIssueChange(i, ev.card, base, v)
    /\ Refreshes(Written(v), Drifted(v))
    /\ lapsed' = Lapses(Written(v), i, M)
    /\ context' = Outdated({i})
    /\ UNCHANGED <<server, requests, used, connected, connects>>

Disconnect ==
    /\ connected
    /\ connected' = FALSE
    /\ events' = <<>>
    /\ UNCHANGED <<server, requests, lists, detail, context, used, connects, lapsed>>

\* The first auth_ack invalidates nothing: what was written since the lists were
\* fetched went unheard.
FirstConnect ==
    /\ connects = 0
    /\ lapsed' = [l \in List |->
          IF l \in Loaded THEN lapsed[l] \cup {i \in Issue : server[i].version > 0} ELSE {}]
    /\ UNCHANGED <<lists, detail>>

\* invalidateWorkspaceScopedQueries: the queries with data are marked and, on
\* screen, fetched; a first load in flight is left to land.
Reconnect ==
    /\ connects > 0
    /\ stale' = [l \in List |-> stale[l] \/ l \in Loaded]
    /\ \E shown \in SUBSET Loaded :
          fetch' = [l \in List |-> IF l \in shown THEN Asked ELSE fetch[l]]
    /\ \E open \in SUBSET {i \in Issue : detail[i] # None} :
          detail' = [i \in Issue |-> IF i \in open THEN server[i] ELSE detail[i]]
    /\ UNCHANGED <<cache, lapsed>>

\* onAuthenticated
Connect ==
    /\ ~connected /\ connects < MaxConnect /\ Room
    /\ connected' = TRUE
    /\ connects' = connects + 1
    /\ FirstConnect \/ Reconnect
    /\ context' = Outdated(Issue)
    /\ UNCHANGED <<server, requests, used, events>>

----------------------------------------------------------------------------
(* The list and detail queries.                                            *)

\* A list comes on screen that has no data or an invalidated one.
Mount(l) ==
    /\ fetch[l] = Idle /\ (cache[l] = None \/ stale[l])
    /\ Cardinality({k \in List : cache[k] # None \/ fetch[k] # Idle} \cup {l}) <= MaxShown
    /\ fetch' = [fetch EXCEPT ![l] = Asked]
    /\ UNCHANGED <<server, requests, cache, stale, detail, context, used, link, lapsed>>

AnswerFetch(l) ==
    /\ fetch[l].phase = "asked"
    /\ fetch' = [fetch EXCEPT ![l] =
                    [phase |-> "answered", entry |-> FirstPages(l)]]
    /\ UNCHANGED <<server, requests, cache, stale, detail, context, used, link, lapsed>>

LandFetch(l) ==
    LET rows == fetch[l].entry.rows IN
    /\ fetch[l].phase = "answered"
    /\ cache' = [cache EXCEPT ![l] = fetch[l].entry]
    /\ stale' = [stale EXCEPT ![l] = FALSE]
    /\ fetch' = [fetch EXCEPT ![l] = Idle]
    /\ lapsed' = [lapsed EXCEPT ![l] =
                   {i \in Issue : rows[i] # None /\ Behind(i, rows[i].version)}]
    /\ UNCHANGED <<server, requests, detail, context, used, link>>

\* A request that does not reach the server is one more whose answer is lost.
FailFetch(l) ==
    /\ fetch[l].phase = "answered"
    /\ fetch' = [fetch EXCEPT ![l] = Idle]
    /\ UNCHANGED <<server, requests, cache, stale, detail, context, used, link, lapsed>>

\* The user opens an issue; the answer is taken as immediate.
OpenIssue(i) ==
    /\ detail[i] = None
    /\ detail' = [detail EXCEPT ![i] = server[i]]
    /\ UNCHANGED <<server, requests, lists, context, used, link, lapsed>>

----------------------------------------------------------------------------
(* useUpdateIssue.                                                         *)

\* issueChangedDims
ChangedDims(p, base) ==
    [status |-> p.status # None /\ (base = None \/ p.status # base.status),
     owner |-> p.owner # None /\ (base = None \/ p.owner # base.owner)]

\* onMutate: the requests of every list are cancelled, the change is applied
\* and what it takes to undo it kept.
Mutate(i, edit) ==
    LET m == used + 1
        p == [edit EXCEPT !.guess = m]
        base == detail[i]
        v == Verdicts(i, p, ChangedDims(p, base), base)
        W == Written(v)
    IN
    /\ used < MaxMutation /\ Room
    /\ \/ detail[i] # None
       \/ \E l \in Loaded : cache[l].rows[i] # None
    /\ used' = m
    /\ ApplyIssueChange(i, p, base, v)
    /\ fetch' = [l \in List |-> Idle]
    /\ stale' = [l \in List |-> stale[l] /\ l \notin W]
    /\ lapsed' = [l \in List |-> IF l \in W /\ stale[l] THEN Issue ELSE lapsed[l]]
    /\ context' = [context EXCEPT ![m] =
          [issue |-> i, patch |-> p,
           lists |-> [l \in List |-> IF l \in W THEN cache[l] ELSE None],
           detail |-> detail[i], stale |-> Drifted(v), answer |-> None,
           missed |-> lapsed']]
    /\ request' = [request EXCEPT ![m] =
          [issue |-> i, patch |-> edit, prev |-> None]]
    /\ UNCHANGED <<server, unsent, link>>

\* onSuccess and onSettled
AnswerMutation(m) ==
    LET i == context[m].issue
        c == context[m].answer
        v == Verdicts(i, c, ChangedDims(context[m].patch, c), c)
    IN
    /\ context[m] # None /\ c # None
    /\ ApplyIssueChange(i, c, c, v)
    /\ Refreshes(Written(v), Drifted(v) \cup context[m].stale)
    /\ lapsed' = Lapses(Written(v), i, IF Behind(i, c.version) THEN List ELSE {})
    /\ context' = [context EXCEPT ![m] = None]
    /\ UNCHANGED <<server, requests, used, link>>

\* Fault: a refused write stays on screen.
FailMutationKept(m) ==
    /\ context[m] # None
    /\ context' = [context EXCEPT ![m] = None]
    /\ UNCHANGED <<server, requests, lists, detail, used, link, lapsed>>

\* onError and onSettled: the write is refused, or its answer lost.  (A request
\* that outlives its mutation is like another client's.)  rollbackIssueChange
\* puts whole lists back.
FailMutation(m) ==
    LET i == context[m].issue
        before == context[m].lists
        W == {l \in List : before[l] # None}
        wrong(l) == {j \in Issue : before[l].rows[j] # None /\ before[l].rows[j].guess # 0}
    IN
    /\ context[m] # None
    /\ cache' = [l \in List |-> IF l \in W THEN before[l] ELSE cache[l]]
    /\ detail' = [detail EXCEPT ![i] =
                     IF context[m].detail = None THEN @ ELSE context[m].detail]
    /\ Refreshes(W, context[m].stale)
    /\ lapsed' = [l \in List |->
          IF l \in W /\ stale[l] THEN Issue
          ELSE IF l \in W
          THEN lapsed[l] \cup context[m].missed[l] \cup wrong(l)
          ELSE lapsed[l]]
    /\ context' = [context EXCEPT ![m] = None]
    /\ request' = [request EXCEPT ![m] = None]
    /\ UNCHANGED <<server, unsent, used, link>>

----------------------------------------------------------------------------
Realtime == DeliverEvent \/ Disconnect \/ Connect

Queries == \E l \in List : Mount(l) \/ AnswerFetch(l) \/ LandFetch(l) \/ FailFetch(l)

Server ==
    \/ \E x \in Foreign, i \in Issue, p \in Edits : RemoteWrite(x, i, p)
    \/ \E m \in Mutation : Receive(m)
    \/ \E x \in Writer : Update(x) \/ Publish(x)

User == \E i \in Issue : OpenIssue(i) \/ \E p \in Edits : Mutate(i, p)

Next ==
    \/ Server \/ Realtime \/ Queries \/ User
    \/ \E m \in Mutation : AnswerMutation(m) \/ FailMutation(m)

Spec == Init /\ [][Next]_vars

----------------------------------------------------------------------------
(* Properties.                                                             *)

\* The client has been sent every write.
Published ==
    /\ events = <<>>
    /\ \A x \in Writer : unsent[x] = None

\* Nothing is under way: what the client shows now, it goes on showing.
Quiet ==
    /\ connected /\ Published
    /\ \A m \in Mutation : context[m] = None
    /\ \A l \in List : fetch[l] = Idle

\* A card on screen says what the server says, in a list it belongs to: when
\* nothing is under way, unless the list owes a refetch or missed news (lapsed).
RowsAreCurrent ==
    Quiet => \A l \in Loaded : ~stale[l] =>
        \A i \in Issue \ lapsed[l] : cache[l].rows[i] # None =>
            /\ cache[l].rows[i].status = server[i].status
            /\ cache[l].rows[i].owner = server[i].owner
            /\ Member(l, server[i])

\* An optimistic copy on screen is of a mutation still in flight: it is overwritten
\* by the answer or rolled back with the refusal, unless a rollback of another
\* mutation has brought it back (lapsed).
GuessIsPending ==
    \A l \in Loaded : \A i \in Issue \ lapsed[l] :
        LET c == cache[l].rows[i] IN
        c # None /\ c.guess # 0 =>
            context[c.guess] # None /\ context[c.guess].issue = i

\* cache-coordinator.ts: "a deferred refetch, never a wrong patch", "certain count
\* arithmetic".  The last event on its way does not make a list's counts wrong
\* when they were right, unless it leaves the list marked.
CountsRight(l) == cache[l].total = FirstPages(l).total
NeverAWrongPatch ==
    [][DeliverEvent /\ Published' =>
          \A l \in Loaded : CountsRight(l) => stale'[l] \/ CountsRight(l)']_vars
=============================================================================
