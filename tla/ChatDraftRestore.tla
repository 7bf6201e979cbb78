-------------------------- MODULE ChatDraftRestore --------------------------
(***************************************************************************)
(* The chat composer's draft restore (packages/views/chat, packages/core/  *)
(* chat): how the text of a send that failed, or of a prompt that was      *)
(* cancelled, gets back into the composer it was written in.               *)
(*                                                                         *)
(* A device is one client with one composer on screen at a time.  A send   *)
(* has an identity (the optimistic id, then the message id) from the click *)
(* to the end of its restore; its text is a member of Text.  Drafts,       *)
(* queues and ledgers are written through to local storage and survive     *)
(* Restart; the offered slot, the query cache, the requests in flight and  *)
(* the last keystrokes do not.  An event of the user or of the network is  *)
(* one step, and so is one run of an effect of the hook; an effect that    *)
(* runs in the commit of the event that triggers it is part of that step.  *)
(***************************************************************************)
EXTENDS Naturals, Sequences

CONSTANTS
    Device,
    Session,
    Text,
    MaxSend,    \* bound: sends the user makes
    None

Id == 1..MaxSend

\* A queued restore is server-less ("failed": the send was refused or its
\* answer lost; "cancelled": the cancel answered with the text); a "durable"
\* one is a row of chat_draft_restore.
Kind == {"failed", "cancelled", "durable"}
RestoreDraftRequest == [id : Id, kind : Kind]

ASSUME NoneAssumption == None \notin Text \cup Id /\ None \notin RestoreDraftRequest
ASSUME SendAssumption == MaxSend \in Nat

VARIABLES
    stage,      \* per send: how far it got (see Stage)
    text,       \* per send: what it says
    session,    \* per send: where it was sent
    sender,     \* per send: the device that sent it, then the one that cancels it
    draft,      \* inputDrafts, per device and session
    queue,      \* pendingSendRestores, per device and session
    ledger,     \* appliedDraftRestoreIds, per device
    active,     \* activeSessionId, per device
    visible,    \* the hook's `enabled`, per device
    typing,     \* text in the live editor that the debounce has not emitted yet
    slot,       \* restoreDraftRequest, per device
    cached,     \* the draft-restores query's data, per device and session
    fetch,      \* its request in flight
    consuming,  \* reconcilingRef: rows the mounted hook does not consume again
    observed,   \* the latest mutate call's row: the one consume with callbacks
    unobserved, \* rows of the consumes in flight whose callbacks never run
    tried,      \* history: rows the hook consumed since it was mounted
    due,        \* a dependency of the reconcile effect changed since its last run
    owed,       \* history: texts handed to the restore and not yet sent or discarded
    overtyped,  \* history: owed texts a late keystroke replaced in their draft
    adopted,    \* history: requests applied on the device
    readopted,  \* history: requests applied on the device more than once
    straddled   \* history: ids a list answer still named when their consume was confirmed

sends == <<stage, text, session, sender>>
stored == <<draft, queue, ledger, active>>
requests == <<consuming, observed, unobserved, tried>>
volatile == <<visible, typing, slot, cached, fetch, requests, due>>
history == <<owed, overtyped, adopted, readopted, straddled>>
vars == <<sends, stored, volatile, history>>

\* "posted": the request is out; "accepted": the server stored the message, the
\* client does not know yet; "running": both know; "stopping": a cancel is out;
\* "deferred": cancelled, the transcript not flushed; "restorable": the message
\* is a row of chat_draft_restore; "gone": deleted, or never stored.
Stage == {"unused", "posted", "accepted", "running", "stopping", "deferred",
          "restorable", "done", "gone"}
Fetch == [phase : {"idle", "asked", "answered"}, rows : SUBSET Id]
Idle == [phase |-> "idle", rows |-> {}]
Asked == [phase |-> "asked", rows |-> {}]

TypeOK ==
    /\ stage \in [Id -> Stage]
    /\ text \in [Id -> Text \cup {None}]
    /\ session \in [Id -> Session]
    /\ sender \in [Id -> Device]
    /\ draft \in [Device -> [Session -> Text \cup {None}]]
    /\ queue \in [Device -> [Session -> Seq(RestoreDraftRequest)]]
    /\ ledger \in [Device -> SUBSET Id]
    /\ active \in [Device -> Session]
    /\ visible \in [Device -> BOOLEAN]
    /\ typing \in [Device -> Text \cup {None}]
    /\ slot \in [Device -> RestoreDraftRequest \cup {None}]
    /\ cached \in [Device -> [Session -> SUBSET Id]]
    /\ fetch \in [Device -> [Session -> Fetch]]
    /\ consuming \in [Device -> SUBSET Id]
    /\ observed \in [Device -> Id \cup {None}]
    /\ unobserved \in [Device -> SUBSET Id]
    /\ tried \in [Device -> SUBSET Id]
    /\ due \in [Device -> BOOLEAN]
    /\ owed \subseteq Text
    /\ overtyped \subseteq Text
    /\ adopted \in [Device -> SUBSET RestoreDraftRequest]
    /\ readopted \in [Device -> SUBSET RestoreDraftRequest]
    /\ straddled \in [Device -> SUBSET Id]

Init ==
    /\ stage = [i \in Id |-> "unused"]
    /\ text = [i \in Id |-> None]
    /\ \E s \in Session, d \in Device :
          /\ session = [i \in Id |-> s]
          /\ sender = [i \in Id |-> d]
    /\ draft = [d \in Device |-> [s \in Session |-> None]]
    /\ queue = [d \in Device |-> [s \in Session |-> <<>>]]
    /\ ledger = [d \in Device |-> {}]
    /\ active \in [Device -> Session]
    /\ visible = [d \in Device |-> FALSE]
    /\ typing = [d \in Device |-> None]
    /\ slot = [d \in Device |-> None]
    /\ cached = [d \in Device |-> [s \in Session |-> {}]]
    /\ fetch = [d \in Device |-> [s \in Session |-> Idle]]
    /\ consuming = [d \in Device |-> {}]
    /\ observed = [d \in Device |-> None]
    /\ unobserved = [d \in Device |-> {}]
    /\ tried = [d \in Device |-> {}]
    /\ due = [d \in Device |-> FALSE]
    /\ owed = {}
    /\ overtyped = {}
    /\ adopted = [d \in Device |-> {}]
    /\ readopted = [d \in Device |-> {}]
    /\ straddled = [d \in Device |-> {}]

----------------------------------------------------------------------------
(* The store's queue, and the query's requests.                            *)

Entries(q) == {q[i] : i \in DOMAIN q}

\* Fault: the queue is one slot, and the next failed send takes it.
EnqueuedInOneSlot(q, r) == <<r>>

\* enqueuePendingSendRestore: at the end, once.
Enqueued(q, r) == IF r \in Entries(q) THEN q ELSE Append(q, r)

Position(q, r) == CHOOSE k \in DOMAIN q : q[k] = r

\* dequeuePendingSendRestore (a queue holds a request once)
Dequeued(q, r) ==
    LET p == Position(q, r) IN
    IF r \in Entries(q)
    THEN [k \in 1..(Len(q) - 1) |-> IF k < p THEN q[k] ELSE q[k + 1]]
    ELSE q

\* Fault: the mounted composer trusts the list it has, as with staleTime Infinity.
FetchingNever(d, s) == fetch

\* A fetch joins the one in flight; an invalidation restarts it.
Fetching(d, s) == [fetch EXCEPT ![d][s] = IF @.phase = "idle" THEN Asked ELSE @]

Refetching(d, s) == [fetch EXCEPT ![d][s] = Asked]

\* ListChatDraftRestores
Rows(s) == {i \in Id : stage[i] = "restorable" /\ session[i] = s}

\* The reconcile effect runs on the composer on screen.
Stirred(d) == [due EXCEPT ![d] = visible[d]]

\* Fault: the slot waits for its session to come back.
KeptFor(d, s) == slot

\* The slot after the session on screen became s: it only holds a request for it.
ReleasedFor(d, s) ==
    [slot EXCEPT ![d] = IF @ # None /\ session[@.id] # s THEN None ELSE @]

----------------------------------------------------------------------------
(* The user.                                                               *)

Fresh(t) ==
    /\ t \notin owed
    /\ \A i \in Id : text[i] # t
    /\ \A d \in Device : typing[d] # t /\ \A s \in Session : draft[d][s] # t

\* The user starts a prompt in an empty composer; the editor has the text, the
\* store only after the debounce.
Keystroke(d, t) ==
    /\ visible[d] /\ typing[d] = None /\ draft[d][active[d]] = None
    /\ Fresh(t)
    /\ typing' = [typing EXCEPT ![d] = t]
    /\ UNCHANGED <<sends, stored, visible, slot, cached, fetch, requests, due, history>>

\* What is in the composer's draft is replaced by text the user is typing.
Overtype(d) ==
    LET t == draft[d][active[d]] IN
    /\ overtyped' = overtyped \cup (owed \cap {t})
    /\ owed' = owed \ {t}

\* The editor's debounced onUpdate: it writes the draft of the session that is
\* on screen when it fires.
FlushTyping(d) ==
    /\ typing[d] # None
    /\ draft' = [draft EXCEPT ![d][active[d]] = typing[d]]
    /\ typing' = [typing EXCEPT ![d] = None]
    /\ Overtype(d)
    /\ UNCHANGED <<sends, queue, ledger, active, visible, slot, cached, fetch,
                   requests, due, adopted, readopted, straddled>>

\* The user empties the composer.
Discard(d) ==
    LET t == draft[d][active[d]] IN
    /\ visible[d] /\ typing[d] = None /\ t # None
    /\ draft' = [draft EXCEPT ![d][active[d]] = None]
    /\ owed' = owed \ {t}
    /\ UNCHANGED <<sends, queue, ledger, active, volatile, overtyped, adopted,
                   readopted, straddled>>

\* handleSend of the composer and of the controller, to the POST: the live
\* editor's text leaves, the persisted draft is cleared before the answer.
Send(d, i) ==
    LET s == active[d]
        t == IF typing[d] # None THEN typing[d] ELSE draft[d][s]
    IN
    /\ visible[d] /\ t # None
    /\ stage[i] = "unused" /\ \A j \in 1..(i - 1) : stage[j] # "unused"
    /\ \A j \in Id : ~(/\ stage[j] \in {"posted", "accepted"}
                       /\ session[j] = s /\ sender[j] = d)
    /\ stage' = [stage EXCEPT ![i] = "posted"]
    /\ text' = [text EXCEPT ![i] = t]
    /\ session' = [session EXCEPT ![i] = s]
    /\ sender' = [sender EXCEPT ![i] = d]
    /\ draft' = [draft EXCEPT ![d][s] = None]
    /\ typing' = [typing EXCEPT ![d] = None]
    /\ IF draft[d][s] \in {None, t}
          THEN overtyped' = overtyped /\ owed' = owed \ {t}
          ELSE Overtype(d)
    /\ UNCHANGED <<queue, ledger, active, visible, slot, cached, fetch, requests, due,
                   adopted, readopted, straddled>>

\* handleStop on a running task (a stop asked earlier waits for the answer).
Stop(d, i) ==
    /\ visible[d] /\ stage[i] = "running" /\ session[i] = active[d]
    /\ stage' = [stage EXCEPT ![i] = "stopping"]
    /\ sender' = [sender EXCEPT ![i] = d]
    /\ UNCHANGED <<text, session, stored, volatile, history>>

\* The composer's surface is on screen and the app in the foreground: the query
\* is enabled, and stale, so it fetches.
Show(d) ==
    /\ ~visible[d]
    /\ visible' = [visible EXCEPT ![d] = TRUE]
    /\ fetch' = Fetching(d, active[d])
    /\ due' = [due EXCEPT ![d] = TRUE]
    /\ UNCHANGED <<sends, stored, typing, slot, cached, requests, history>>

\* It is not any more: the effect releases the slot.
Hide(d) ==
    /\ visible[d]
    /\ visible' = [visible EXCEPT ![d] = FALSE]
    /\ slot' = [slot EXCEPT ![d] = None]
    /\ due' = [due EXCEPT ![d] = FALSE]
    /\ UNCHANGED <<sends, stored, typing, cached, fetch, requests, history>>

\* Fault: the reconciling set outlives the composer.
UnmountedRequestsKept(d) ==
    /\ observed' = [observed EXCEPT ![d] = None]
    /\ unobserved' = [unobserved EXCEPT ![d] = @ \cup ({observed[d]} \ {None})]
    /\ tried' = [tried EXCEPT ![d] = {}]
    /\ due' = [due EXCEPT ![d] = FALSE]
    /\ UNCHANGED consuming

\* Without its hook: the reconcilingRef is gone, and the consume the observer was
\* listening to goes on unheard.
UnmountedRequests(d) ==
    /\ consuming' = [consuming EXCEPT ![d] = {}]
    /\ observed' = [observed EXCEPT ![d] = None]
    /\ unobserved' = [unobserved EXCEPT ![d] = @ \cup ({observed[d]} \ {None})]
    /\ tried' = [tried EXCEPT ![d] = {}]
    /\ due' = [due EXCEPT ![d] = FALSE]

\* The user goes to another page, or to another of the composers: the slot and
\* the keystrokes not emitted go with this one.
Unmount(d) ==
    /\ visible[d]
    /\ visible' = [visible EXCEPT ![d] = FALSE]
    /\ typing' = [typing EXCEPT ![d] = None]
    /\ slot' = [slot EXCEPT ![d] = None]
    /\ UnmountedRequests(d)
    /\ UNCHANGED <<sends, stored, cached, fetch, history>>

\* setActiveSession, and the effect that releases another session's request.
Select(d, s) ==
    /\ visible[d] /\ s # active[d]
    /\ active' = [active EXCEPT ![d] = s]
    /\ slot' = ReleasedFor(d, s)
    /\ fetch' = Fetching(d, s)
    /\ due' = Stirred(d)
    /\ UNCHANGED <<sends, draft, queue, ledger, visible, typing, cached, requests, history>>

\* The app is closed, reloaded or crashes, and starts again in the background;
\* a consume it sent may still reach the server.
Restart(d) ==
    /\ visible' = [visible EXCEPT ![d] = FALSE]
    /\ typing' = [typing EXCEPT ![d] = None]
    /\ slot' = [slot EXCEPT ![d] = None]
    /\ cached' = [cached EXCEPT ![d] = [s \in Session |-> {}]]
    /\ fetch' = [fetch EXCEPT ![d] = [s \in Session |-> Idle]]
    /\ UnmountedRequests(d)
    /\ stage' = [i \in Id |->
                    IF sender[i] = d /\ stage[i] = "posted" THEN "gone"
                    ELSE IF sender[i] = d /\ stage[i] = "accepted" THEN "running"
                    ELSE stage[i]]
    /\ UNCHANGED <<text, session, sender, stored, history>>

----------------------------------------------------------------------------
(* Sends and cancels, at the server and back at the client.                *)

\* What SendDirectChatMessage, the task and its cancellation do to the message.
Moved(i, from, to) ==
    /\ stage[i] = from
    /\ stage' = [stage EXCEPT ![i] = to]
    /\ UNCHANGED <<text, session, sender>>

AcceptSend(i) ==
    /\ Moved(i, "posted", "accepted")
    /\ UNCHANGED <<stored, volatile, history>>

AnswerSend(i) ==
    /\ Moved(i, "accepted", "running")
    /\ UNCHANGED <<stored, volatile, history>>

\* The text is in the queue: from here on the restore owes it to the user.
Queue(i, kind) ==
    /\ queue' = [queue EXCEPT ![sender[i]][session[i]] =
                    Enqueued(@, [id |-> i, kind |-> kind])]
    /\ owed' = owed \cup {text[i]}
    /\ UNCHANGED <<draft, ledger, active, volatile, overtyped, adopted, readopted,
                   straddled>>

\* The send is refused, or its answer is lost after the server stored the
\* message: the controller's catch, which calls enqueueLocalRestore.
FailSend(i) ==
    /\ \/ Moved(i, "posted", "gone")
       \/ Moved(i, "accepted", "running")
    /\ Queue(i, "failed")

\* The task ends: nothing to restore.
FinishTask(i) ==
    /\ \E from \in {"running", "stopping", "deferred"} : Moved(i, from, "done")
    /\ UNCHANGED <<stored, volatile, history>>

\* finalizeCancelledChatMessage answers with the deleted message, and
\* cancelChatTask queues it.
AnswerCancel(i) ==
    /\ Moved(i, "stopping", "gone")
    /\ Queue(i, "cancelled")

\* The same, with the answer lost on the way.
LoseCancelAnswer(i) ==
    /\ Moved(i, "stopping", "gone")
    /\ UNCHANGED <<stored, volatile, history>>

\* finalizeCancelledChatMessage leaves the outcome to the daemon's flush.
DeferCancel(i) ==
    /\ Moved(i, "stopping", "deferred")
    /\ UNCHANGED <<stored, volatile, history>>

\* FinalizeDeferredCancelledChat: the message becomes a chat_draft_restore row.
SettleDeferred(i) ==
    /\ Moved(i, "deferred", "restorable")
    /\ owed' = owed \cup {text[i]}
    /\ UNCHANGED <<stored, volatile, overtyped, adopted, readopted, straddled>>

----------------------------------------------------------------------------
(* The draft-restores query.                                               *)

\* chat:cancel_finalized, a reconnect of the socket or of the network.
Refetch(d) ==
    /\ visible[d]
    /\ fetch' = Refetching(d, active[d])
    /\ UNCHANGED <<sends, stored, visible, typing, slot, cached, requests, due, history>>

AnswerFetch(d, s) ==
    /\ fetch[d][s].phase = "asked"
    /\ fetch' = [fetch EXCEPT ![d][s] = [phase |-> "answered", rows |-> Rows(s)]]
    /\ UNCHANGED <<sends, stored, visible, typing, slot, cached, requests, due, history>>

\* An answer equal to the list in the cache keeps its reference (structural
\* sharing), and no effect runs.
LandFetch(d, s) ==
    /\ fetch[d][s].phase = "answered"
    /\ cached' = [cached EXCEPT ![d][s] = fetch[d][s].rows]
    /\ fetch' = [fetch EXCEPT ![d][s] = Idle]
    /\ due' = IF s = active[d] /\ cached[d][s] # fetch[d][s].rows THEN Stirred(d) ELSE due
    /\ UNCHANGED <<sends, stored, visible, typing, slot, requests, history>>

\* A request that does not reach the server is one more whose answer is lost.
FailFetch(d, s) ==
    /\ fetch[d][s].phase = "answered"
    /\ fetch' = [fetch EXCEPT ![d][s] = Idle]
    /\ UNCHANGED <<sends, stored, visible, typing, slot, cached, requests, due, history>>

----------------------------------------------------------------------------
(* useChatDraftRestore: offer, apply, consume, reconcile.                  *)

\* Fault: a restore of another make.
DurableUnlabelled(i) == [id |-> i, kind |-> "row"]

Durable(i) == [id |-> i, kind |-> "durable"]

\* The rows the list names and the ledger does not, by the effect's find.
Offerable(d) == {i \in cached[d][active[d]] : i \notin ledger[d]}

\* The effect that fills the slot: a server-less request first, oldest first.
Offer(d) ==
    LET q == queue[d][active[d]] IN
    /\ visible[d] /\ slot[d] = None
    /\ \/ q # <<>> /\ slot' = [slot EXCEPT ![d] = Head(q)]
       \/ /\ q = <<>>
          /\ \E i \in Offerable(d) : slot' = [slot EXCEPT ![d] = Durable(i)]
    /\ UNCHANGED <<sends, stored, visible, typing, cached, fetch, requests, due, history>>

\* The consumes on their way to the server.
Flying(d) == unobserved[d] \cup ({observed[d]} \ {None})

\* consume of each row of S, the last one last, with the mutation's onMutate.  All
\* the calls are mutate calls of one observer: it hears the latest one only, and
\* the callbacks of an earlier one that is still in flight never run.
Consume(d, S, last) ==
    /\ consuming' = [consuming EXCEPT ![d] = @ \cup S]
    /\ observed' = [observed EXCEPT ![d] = last]
    /\ unobserved' = [unobserved EXCEPT ![d] = Flying(d) \cup (S \ {last})]
    /\ tried' = [tried EXCEPT ![d] = @ \cup S]
    /\ cached' = [cached EXCEPT ![d][active[d]] = @ \ S]

\* ChatInput writes the draft when it is empty, and handleRestoreDraftApplied
\* records it: in the ledger before the consume, or out of the queue.
Apply(d) ==
    LET r == slot[d] IN
    /\ r # None
    /\ session[r.id] = active[d] /\ draft[d][active[d]] = None
    /\ draft' = [draft EXCEPT ![d][active[d]] = text[r.id]]
    /\ slot' = [slot EXCEPT ![d] = None]
    /\ IF r.kind = "durable"
          THEN /\ ledger' = [ledger EXCEPT ![d] = @ \cup {r.id}]
               /\ Consume(d, {r.id}, r.id)
               /\ due' = Stirred(d)
               /\ UNCHANGED queue
          ELSE /\ queue' = [queue EXCEPT ![d][session[r.id]] = Dequeued(@, r)]
               /\ UNCHANGED <<ledger, cached, requests, due>>
    /\ adopted' = [adopted EXCEPT ![d] = @ \cup {r}]
    /\ readopted' = [readopted EXCEPT ![d] = @ \cup (adopted[d] \cap {r})]
    /\ UNCHANGED <<sends, active, visible, typing, fetch, owed, overtyped, straddled>>

\* Fault: the rows the ledger does not name are the ones consumed again.
OutlivedUnapplied(d) == {i \in cached[d][active[d]] : i \notin ledger[d] \cup consuming[d]}

\* Rows of the list whose consume has not landed, for all the hook knows.
Outlived(d) == {i \in cached[d][active[d]] : i \in ledger[d] /\ i \notin consuming[d]}

\* One run of the effect that consumes them again.
Reconcile(d) ==
    /\ visible[d] /\ due[d]
    /\ due' = [due EXCEPT ![d] = FALSE]
    /\ \/ Outlived(d) = {} /\ UNCHANGED <<cached, requests>>
       \/ \E last \in Outlived(d) : Consume(d, Outlived(d), last)
    /\ UNCHANGED <<sends, stored, visible, typing, slot, fetch, history>>

\* ConsumeChatDraftRestore deletes the row.
DeleteRow(d, i) ==
    /\ i \in Flying(d)
    /\ Moved(i, "restorable", "gone")
    /\ UNCHANGED <<stored, volatile, history>>

\* onSettled of the consume the observer listens to.
Settled(d, i) ==
    /\ i = observed[d]
    /\ consuming' = [consuming EXCEPT ![d] = @ \ {i}]
    /\ observed' = [observed EXCEPT ![d] = None]
    /\ UNCHANGED <<unobserved, tried>>

\* The answer: onSuccess forgets the ledger entry.
ConfirmConsume(d, i) ==
    /\ Settled(d, i) /\ stage[i] = "gone"
    /\ ledger' = [ledger EXCEPT ![d] = @ \ {i}]
    /\ due' = Stirred(d)
    /\ straddled' = [straddled EXCEPT ![d] =
                        IF i \in cached[d][session[i]] \cup fetch[d][session[i]].rows
                        THEN @ \cup {i} ELSE @]
    /\ UNCHANGED <<sends, draft, queue, active, visible, typing, slot, cached, fetch,
                   owed, overtyped, adopted, readopted>>

\* Fault: the ledger entry is dropped when the request settles, also on failure.
FailConsumeForgets(d, i) ==
    /\ Settled(d, i)
    /\ ledger' = [ledger EXCEPT ![d] = @ \ {i}]
    /\ UNCHANGED <<sends, draft, queue, active, visible, typing, slot, cached, fetch,
                   due, history>>

\* The retries run out, or the answer is lost.
FailConsume(d, i) ==
    /\ Settled(d, i)
    /\ UNCHANGED <<sends, stored, visible, typing, slot, cached, fetch, due, history>>

\* The end, either way, of a consume without callbacks: nobody hears of it.
EndUnheard(d, i) ==
    /\ i \in unobserved[d]
    /\ unobserved' = [unobserved EXCEPT ![d] = @ \ {i}]
    /\ UNCHANGED <<sends, stored, visible, typing, slot, cached, fetch, consuming,
                   observed, tried, due, history>>

----------------------------------------------------------------------------
Server ==
    \E i \in Id :
        \/ AcceptSend(i) \/ AnswerSend(i) \/ FailSend(i) \/ FinishTask(i)
        \/ AnswerCancel(i) \/ LoseCancelAnswer(i) \/ DeferCancel(i) \/ SettleDeferred(i)

User(d) ==
    \/ \E t \in Text : Keystroke(d, t)
    \/ Discard(d) \/ Show(d) \/ Hide(d) \/ Unmount(d) \/ Restart(d)
    \/ \E s \in Session : Select(d, s)
    \/ \E i \in Id : Send(d, i) \/ Stop(d, i)

Client(d) ==
    \/ FlushTyping(d) \/ Refetch(d) \/ Offer(d) \/ Apply(d) \/ Reconcile(d)
    \/ \E s \in Session : AnswerFetch(d, s) \/ LandFetch(d, s) \/ FailFetch(d, s)
    \/ \E i \in Id : \/ DeleteRow(d, i) \/ EndUnheard(d, i)
                     \/ ConfirmConsume(d, i) \/ FailConsume(d, i)

Next == Server \/ \E d \in Device : User(d) \/ Client(d)

Spec == Init /\ [][Next]_vars

\* The browser runs every effect and delivers answers; a request that is made
\* again and again succeeds one day; and the user comes back to the chat and to
\* each session.  Sends, stops, edits, failures and restarts are owed nothing.
Fairness ==
    \A d \in Device :
        /\ WF_vars(Show(d)) /\ SF_vars(Offer(d)) /\ SF_vars(Apply(d))
        /\ SF_vars(Outlived(d) # {} /\ Reconcile(d))
        /\ \A s \in Session :
              /\ SF_vars(Select(d, s))
              /\ WF_vars(AnswerFetch(d, s)) /\ SF_vars(LandFetch(d, s))
        /\ \A i \in Id : SF_vars(DeleteRow(d, i))

FairSpec == Spec /\ Fairness

----------------------------------------------------------------------------
(* Properties.                                                             *)

\* "It never holds a request for a session other than the one on screen", and a
\* hidden composer holds none: no offer waits where it cannot be taken.
SlotIsOnScreen ==
    \A d \in Device : slot[d] # None =>
        /\ visible[d] /\ session[slot[d].id] = active[d]

\* A text on its way back is always somewhere the user can get it from: a row
\* no device has taken, a queue, or a draft.
Recoverable(t) ==
    \/ \E i \in Id :
          /\ stage[i] = "restorable" /\ text[i] = t
          /\ \A d \in Device : i \notin ledger[d] \cup Flying(d)
    \/ \E d \in Device, s \in Session :
          \/ draft[d][s] = t
          \/ \E r \in Entries(queue[d][s]) : text[r.id] = t

\* "The hand-off is lossless": whatever is lost, closed or delayed, a text that
\* was handed to the restore stays recoverable until the user sends or discards
\* it.  (What the user types over it is `overtyped`.)
NoRestoreLost == \A t \in owed : Recoverable(t)

\* "The hand-off is at-most-once": a device applies a restore again only when a
\* list answer older than the consume was still in the cache, or on its way.
ReappliedOnlyFromStaleList ==
    \A d \in Device : \A r \in readopted[d] : r.kind = "durable" /\ r.id \in straddled[d]

\* The hook's comment without that exception: the ledger makes the hand-off
\* at-most-once.
AppliedAtMostOnce == \A d \in Device : readopted[d] = {}

\* "The row is re-consumed on the next mount": once the reconcile effect has run,
\* the composer on screen has itself asked for the deletion of every applied row
\* its list names, whichever consumes before it were lost, overtaken or unheard.
OutlivedRowIsTried ==
    \A d \in Device : (visible[d] /\ ~due[d]) =>
        cached[d][active[d]] \cap ledger[d] \subseteq tried[d]

\* The app is not closed and reopened for ever.
StaysOpen == <>[][\A d \in Device : ~Restart(d)]_vars

\* A deferred cancellation's prompt is back in its session's composer one day,
\* whatever was closed, missed or refetched, unless a draft is in its way.
RestoreReachesComposer ==
    StaysOpen => \A i \in Id :
        stage[i] = "restorable" ~>
            \/ stage[i] = "gone"
            \/ \E d \in Device : draft[d][session[i]] # None

\* The composer is unmounted, and mounted again, time after time.
Remounts == \A d \in Device : []<><<Unmount(d)>>_vars

\* "The row is re-consumed on the next mount, refetch or reconnect until it is
\* gone", as far as mounts go: a lost consume, heard of or not, does not leave the
\* row behind.
AppliedRowIsConsumed ==
    StaysOpen /\ Remounts =>
        \A d \in Device, i \in Id : i \in ledger[d] ~> stage[i] = "gone"
=============================================================================
