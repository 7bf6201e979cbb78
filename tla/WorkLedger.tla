----------------------------- MODULE WorkLedger -----------------------------
(***************************************************************************)
(* What the agent task queue promises to whoever asks for work, without    *)
(* rows, timers, priorities or handlers: a job is worked on by one attempt *)
(* after the other, at most MaxTries of them; an agent works on one job of *)
(* a lane at a time and on no more jobs than it has slots; and a job that  *)
(* was completed or cancelled is over.                                     *)
(***************************************************************************)
EXTENDS Integers, FiniteSets

CONSTANTS
    Job,
    Agent,
    Lane,        \* what an agent serializes: issues, chat sessions, quick-create
    FreeLane,    \* the lane whose jobs need not wait for each other
    Slots,       \* [Agent -> Nat]
    MaxTries,
    Nobody

VARIABLES
    stage,       \* per job, where its newest attempt is
    tries,       \* per job, how many attempts it has had
    owner        \* per job, its agent and lane, or Nobody

vars == <<stage, tries, owner>>

\* What may become of a job while no attempt is added and none is taken up.
Moves ==
    [none      |-> {"none"},
     waiting   |-> {"waiting", "failed", "cancelled"},
     held      |-> {"held", "waiting", "started", "failed", "cancelled"},
     started   |-> {"started", "completed", "failed", "cancelled"},
     failed    |-> {"failed"},
     completed |-> {"completed"},
     cancelled |-> {"cancelled"}]

Stage == DOMAIN Moves

InHand(j) == stage[j] \in {"held", "started"}

Init ==
    /\ stage = [j \in Job |-> "none"]
    /\ tries = [j \in Job |-> 0]
    /\ owner = [j \in Job |-> Nobody]

\* A new job, which may replace the unfinished jobs of its agent and lane.
Request(j, k) ==
    /\ stage[j] = "none"
    /\ \E S \in SUBSET {i \in Job : owner[i] = k /\ "cancelled" \in Moves[stage[i]]} :
          stage' = [i \in Job |-> IF i = j THEN "waiting"
                                  ELSE IF i \in S THEN "cancelled" ELSE stage[i]]
    /\ tries' = [tries EXCEPT ![j] = 1]
    /\ owner' = [owner EXCEPT ![j] = k]

Take(j) ==
    /\ stage[j] = "waiting"
    /\ owner[j][2] # FreeLane => \A i \in Job : InHand(i) => owner[i] # owner[j]
    /\ Cardinality({i \in Job : InHand(i) /\ owner[i][1] = owner[j][1]}) < Slots[owner[j][1]]
    /\ stage' = [stage EXCEPT ![j] = "held"]
    /\ UNCHANGED <<tries, owner>>

\* The next attempt of a job that failed, or fails in this step.
Retry(j) ==
    /\ InHand(j) \/ stage[j] = "failed"
    /\ tries[j] < MaxTries
    /\ stage' = [stage EXCEPT ![j] = "waiting"]
    /\ tries' = [tries EXCEPT ![j] = @ + 1]
    /\ UNCHANGED owner

\* Reports, requeues, cancellations and sweeps, of any number of jobs at once.
Progress ==
    /\ UNCHANGED <<tries, owner>>
    /\ stage' \in [Job -> Stage]
    /\ \A j \in Job : stage'[j] \in Moves[stage[j]]

Next ==
    \/ Progress
    \/ \E j \in Job : Take(j) \/ Retry(j) \/ \E k \in Agent \X Lane : Request(j, k)

Spec == Init /\ [][Next]_vars
=============================================================================
