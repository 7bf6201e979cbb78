# TLA+ models of the agent server

The repository is a server that hands work to AI agents: issues, comments, chat
messages and schedules become rows of a task queue, daemons on users' machines
poll for rows of their runtimes, run an agent on each and report back. Web,
desktop and mobile clients show issues and chats from a query cache that they
keep up to date by optimistic edits, refetches and websocket events. This
directory holds TLA+ models of the parts where several actors share state: the
task queue, the cache in front of its claim query, the scheduler, the client's
issue lists, and the path on which the text of a failed or cancelled chat message
gets back into the composer.

| Module | What it is |
| --- | --- |
| `WorkLedger` | what the task queue promises to whoever asks for work, abstractly |
| `TaskQueue` | the `agent_task_queue` table and the transactions that move its rows, shown to implement `WorkLedger` |
| `EmptyClaimCache` | the Redis verdict that lets an idle poll skip the database |
| `FencedLease` | what the scheduler's table promises, abstractly |
| `Scheduler` | the execution-record scheduler, shown to implement `FencedLease` |
| `ChatDraftRestore` | the chat composer's drafts, queue and ledger, and the rows that give a text back |
| `IssueCache` | the client's issue lists under optimistic edits, events and refetches |
| `MC*` | the small instances that TLC explores |
| `*Proofs` | theorems about each component, for every value of its constants; `TurnOrderProofs` and `WorkLedgerProofs` build on `TaskQueueProofs`, `IssueCurrentProofs` on `IssueCacheProofs` |

`PROJECT.json` maps each definition to the lines it models, lists the runs, the
hazards they are aimed at and one mutation per property that makes it fail.

## Inventory of the system

**Agent task queue** (`internal/service/task.go`, `pkg/db/queries/agent.sql`).
State: one row per attempt (agent, link to an issue or chat session or neither,
priority, attempt, parent, status, timestamps) and the derived `agent.status`.
Operations: enqueue from many sources, deferred fallback and its promotion,
claim, stale reclaim, requeue, lease extension, waiting for a directory, start,
complete, fail with an automatic retry, cancel by row, issue, chat, agent or
comment, rerun. Hard: HTTP handlers, several server replicas, daemons and
sweepers write the same rows; work follows the commit (status reconcile, retry
loops) and may be lost or overtaken. Correct when: one run per agent and issue or
session, capacity respected, each failure retried once, each chat turn answered
once and in order, finished rows final, `agent.status` eventually right.

**Runtime sweeper and orphan recovery** (`cmd/server/runtime_sweeper.go`). Fails
rows of silent runtimes, overdue rows and expired queue rows in one bulk update
and then settles the failed rows one by one. Hard: it races with the daemon's own
reports and with other replicas, and may die between the update and the loop.

**Comment routing fallback** (`internal/handler/comment.go`). A comment routed to
an agent other than the assignee also gets a deferred row for the assignee, to be
cancelled when the routed agent acknowledges. Hard: the row is inserted after
its primary is public.

**Empty-claim cache** (`internal/service/empty_claim_cache.go`). Two Redis keys
per runtime: a version and an "empty" verdict tagged with a version. Enqueues
bump the version; polls compare. Hard: it is written from a read that may be
stale, calls fail, keys expire. Correct when no claimable row is hidden, or at
worst for the verdict's TTL.

**Cron scheduler** (`internal/scheduler`). Every instance ticks; rows of
`sys_cron_executions` are leases with a token, an attempt count and a staleness
deadline. Hard: leases stolen from slow holders, crashes between claim and
report, a clock value used for a whole tick, retries against newer plans.
Correct when leases are fenced, success is real, abandoned leases are closed and
due retries are not forgotten.

**Issue dependency spine** (`internal/handler/issue_dependency.go`). Edges
between issues, and a recomputed `is_blocked` that hides rows from the claim
query. Hard: cycles; recomputation without a wakeup.

**Daemon** (`internal/daemon`). Claim barrier, batch poller with slots, lease
extension, directory locks, bounded report retries, auto-update. Hard: draining
against concurrent claims, locks held while a server-side lease runs out.

**Websocket hubs and relays** (`internal/daemonws`, `internal/realtime`). Wakeups
and browser events, over Redis between replicas. Hard: reconnects, duplicates.

**Issue lifecycle, chat finalization, autopilot and webhook deliveries, channel
integrations** write or feed the queue and keep their own state machines.

**Chat composer draft restore** (`packages/views/chat/components`,
`packages/core/chat`). State: per device the drafts, the queue of texts to give
back and the ledger of restores already applied, all in local storage; in memory
one offered request, the cached list of `chat_draft_restore` rows and the requests
in flight. Operations: send, refuse, cancel, defer, offer, apply, consume. Hard:
the text crosses from server to store to editor in separate steps on two machines,
any of which may be lost or cut by a restart. Correct when no text is lost, none
is applied twice, and one that is owed arrives.

**Issue query cache** (`packages/core/issues`). State: per list the loaded rows and
a total per column, a stale mark and a request in flight, per issue a detail, per
mutation what undoes it. Operations: `applyIssueChange` for a mutation, its answer
and an event; rollback; fetch; invalidate. Hard: the copies come from requests that
were answered at different times, and every writer overwrites what it finds.
Correct when a settled list shows the server's rows, or owes a refetch.

**Realtime client** (`packages/core/api/ws-client.ts`,
`packages/core/realtime`). Authenticates the socket, reconnects with backoff and
invalidates on reconnect what events may have changed. Hard: missed events.

**Desktop daemon manager, tabs, preference stores, the mobile client's own cache,
and the views** are in `components` with the reason each is left out.

**HTTP CRUD, authentication, storage, mail, metrics, skills and the command line**
have no protocol of their own.

How they meet: handlers, autopilot and channels insert rows; an insert bumps the
cache and sends a wakeup through the hub; the daemon polls, which promotes due
fallbacks, reclaims lost dispatches, asks the cache and claims; its reports fail
or complete rows, which may insert retries and cancel fallbacks; the sweeper does
the same for daemons that fell silent. The scheduler starts autopilot runs, which
insert rows. `components` in `PROJECT.json` gives every part with its status.

## Plan

Written, in this order: `TaskQueue` (everything else feeds it) with `WorkLedger`, `EmptyClaimCache`
(it decides whether the queue is looked at), `FencedLease` and `Scheduler`, then
the two places where a client keeps state of its own under concurrency,
`ChatDraftRestore` and `IssueCache`.

Next, in order of importance:

1. `DaemonPoller`: claim barrier, slots, lease extender, directory lock, bounded
   reports. Safety: no claim after draining began, no lock held by two tasks.
   Liveness: a claimed task is reported or swept; a colliding promotion does not
   wedge a runtime for good.
2. Growing `TaskQueue` by the revocation of a member (it leaves deferred rows
   alone) and by comment batches merged into a pending row.
3. `IssueLifecycle`: `issue.status`, auto-advance, and the reset in
   `HandleFailedTasks` that follows a check made earlier.
4. `DependencySpine`: edges, recomputation, cycles.
5. A composition of `TaskQueue` and `EmptyClaimCache`, to show that a hit never
   skips a claim that `TaskQueue` would make; then the hubs and relays.
6. Growing `IssueCache` by created and deleted issues, batch mutations and further
   pages, and an instance of it for the mobile client's updaters.

Proofs to come: the refinements that come with 1 and 5.

## TaskQueue

One step is one SQL transaction. A row is a number in insertion order; `row`
holds the columns that never change after the insert, `status`, `reason` and
`timer` the ones that do. `timer` is `fire_at` of a deferred row and the recovery
window or lease of a dispatched or waiting one, as "live" or "elapsed". A
failure reason is "infra" when `retryableReasons` has it and "other" when not.

Two pieces of work happen after the commit that causes them and are steps of
their own: `reconciling` holds the agents whose `ReconcileAgentStatus` is still
to run, `batch[h]` the rows a goroutine inside `HandleFailedTasks` has yet to
reach. `ServerRestart` forgets both.

The daemon is not trusted to be orderly: any report on any row may arrive at any
time, again or late, and its guard is the WHERE clause of the statement it runs.
Enqueues take any agent and issue; the cap check and the unique index are their
guards, and a refused insert is no step. A poll's promotion, reclaim and claim
are separate transactions and separate actions. `EnqueueDeferredAssigneeFallback`
comes after its primary's insert, or without a primary when the run cap skipped it.

Simplifications, none of which adds a guard the code lacks except where said:
rows that SKIP LOCKED passes over are left to the next poll; `RerunIssue` cancels
and inserts in one step, as does `StartTask` with the cancellation of fallbacks;
the run-cap window is the whole history; a promotion or a `FailTask` retry that
would break the unique index rolls back and is therefore no step; limits of an
agent do not change. Not modelled: `issue.status`, comment batches, member
revocation, moving rows between runtimes, the run cap's fail-open on a query
error, deferred chat finalization, deletion of dead runtimes.

`WorkLedger` is the queue as a caller sees it, without rows, timers, priorities or
handlers: jobs, each with a stage, a number of tries and an owner (an agent and a
lane, which is an issue, a chat session, or one of the unlinked kinds). A request
adds a job and may replace its likes; `Take` needs a free lane and a free slot;
`Retry` needs budget and starts the next attempt of a job that has failed; anything
else moves jobs along `Moves`, many at once. The mapping is at the end of
`TaskQueue`: a job is a row that retries nothing, together with all the rows whose
chain of `parent_task_id` ends in it (`root`); its stage and tries are those of the
one attempt that nobody has retried (`LastAttempt`), its owner is the agent and link
of the first row. A rerun is a new job, since its row has no parent. What is hidden is what
the promise does not depend on: which transaction moved a row, `agent.status`,
reconciles and batches, promotion, leases, and server restarts. A row that a sweeper
has failed and not yet handled is a failed job, whose retry may or may not come.

### Runs

| Run | Instance | What it shows |
| --- | --- | --- |
| `keys` | 1 agent with 2 slots, an issue, quick-create and run-only work, 3 rows, 1 handler | `OneRunPerKey`, `CapacityRespected`, `IdleAgentShownIdle`, `BusyAgentShownWorking`, `ImplementsWorkLedger`, types |
| `turns` | 2 agents, an issue with fallbacks, a chat session, 3 rows, no handlers | `ChatTurnsInOrder` when failures come from daemon reports, `BusyAgentShownWorking` with fallbacks, promotion and acknowledgement |
| `retries` | an issue and a chat, 3 rows, 2 handlers, restarts | `RetryLineage`, `FailureHandledOnce`, `TurnAnsweredOnce`, `NoResurrection` |

Bounds: three rows suffice for a failed attempt, its retry and a competitor, and
for a primary, its fallback and a third row that occupies a slot; an order between
turns takes two turns and the retry of one.
`MaxAttempts = 2` reaches both an eligible and an exhausted attempt, `RunCap = 3`
both a free and a capped issue. Agents are not made symmetric because the
instances have so few. Deadlock is not checked: with the rows used up and
finished, nothing is left to do. No fairness is assumed and no liveness stated:
the code promises nothing without the daemon, which is not modelled yet.

## EmptyClaimCache

One runtime, since runtimes share no key. One step is one Redis call or one
statement. `gen[t]` counts the transitions of a row that are announced,
`bumping` holds announced transitions whose `Bump` is still to come and `lost`
those whose `Bump` failed or died with its process. A claim request samples the
version, selects, and then claims or writes the verdict with the version it
sampled (`seen`); several requests overlap. A cache hit changes nothing and is a
stutter. `MayFail` lets every Redis call fail, each with the effect the code
gives a failure. Redis losing its data altogether is not modelled. The version
key lives 24 hours and is renewed by every use, verdicts three minutes, so the
key expires only when no verdict and no request is left (`VersionExpires`).

`races` (2 tasks, 2 requests, each task announced at most twice, spine off)
checks `NeverStalled` and `LateVerdictRejected`: the case they exclude takes one
task and two requests, the second task makes the select non-empty for another
reason. `ttl` checks `QueuedIsClaimed` with the spine on and everything failing.
Its fairness: weak fairness on the steps of a poll (a daemon polls on an interval
for ever) and on the expiry of a verdict (a Redis TTL), none on `Bump`, which a
process may die before. Deadlock is not checked as everything may be finished.

With the spine on `NeverStalled` would fail: removing an edge or completing a
blocker on another runtime makes a row claimable and bumps nothing
(`internal/handler/issue_dependency.go:116`), so the row waits for the TTL. This
is why the theorems below assume the spine off.

## Scheduler

One job and one scope; others share no row. One step is one statement or one
return of a handler. Time is an integer database clock that advances between any
two steps. `tick[r]` is the value `RunOnce` read and is used for sweeping,
planning and claiming throughout the tick; heartbeats and terminal writes read
the clock anew, in the same step. A lease is `<<plan_time, attempt>>`: the token
is rotated exactly when `attempt` grows. `next_retry_at` NULL is 0, which is how
the COALESCE in the steal's condition reads it. Cadence plans and cron
occurrences are both a grid of times; `Mode` selects `latest_only`, `every_plan`
or the autopilot hook. A heartbeat that lost its lease changes nothing and is a
stutter. A statement whose outcome is unknown is covered by `Crash` after it or
`DbError` in its place. `succeeded` is history, used by properties only. The cold
start's use of `LastFiredAt` and the replay window is left out.

`FencedLease` says what is promised without clocks or planning: numbered leases
are granted one after the other, several runners may be working, only the report
of the newest lease is recorded, a recorded success is final.

| Run | Instance | What it shows |
| --- | --- | --- |
| `fencing` | 2 runners, `every_plan`, clock to 4, 3 plans, 2 attempts, faults throughout | `LeasesDistinct`, `SuccessIsReal`, `ImplementsFencedLease`, the attempt budget |
| `abandoned` | 2 runners, `latest_only`, clock to 3, faults until 1 | `AbandonedLeaseClosed` |

Bounds: `StaleTimeout = 1` and four units of time let a lease go stale, be stolen,
and go stale again while the first holder still runs. In `fencing` runners are
symmetric, which is sound for its safety properties; `abandoned` uses none. Its
fairness: weak fairness on what each runner does by itself (instances tick for
ever, and `RunTimeout` makes every handler return) and on the clock. The clock
stops at `MaxTime`, so faults must end early enough for the staleness of the last
abandoned lease to be seen: `FaultHorizon + StaleTimeout < MaxTime`. Deadlock is
checked, since a scheduler always has a next tick.

## ChatDraftRestore

A device is one client with one composer on screen. A send has one identity from
the click to the end of its restore and moves through `stage`, which stands for the
message, its task and its `chat_draft_restore` row together. `draft`, `queue` and
`ledger` are the persisted maps of `chat/store.ts`; `slot` is the hook's
`restoreDraftRequest`, `cached` and `fetch` the draft-restores query, `consuming` the
delete requests in flight, `typing` what the editor holds and its 100 ms debounce has
not reported. One step is one event of the user or the network, or one run of an
effect; an effect that runs in the commit that triggers it (the release of the slot
on `Hide` and `Select`) belongs to that step. `Restart` keeps what is persisted and
forgets the rest. `owed`, `overtyped`, `adopted`, `readopted` and `straddled` are
history that only the properties read.

| Run | Instance | What it shows |
| --- | --- | --- |
| `handoff` | 1 device, 1 session, 2 sends, 2 texts | `NoRestoreLost`, `ReappliedOnlyFromStaleList`, types |
| `returns` | 1 device, 2 sessions, 1 send, under `FairSpec` | `RestoreReachesComposer`, `AppliedRowIsConsumed`, `SlotIsOnScreen` |
| `twice` | 1 device, 1 session, 1 send | `AppliedAtMostOnce` fails, see Findings |

Bounds: two sends are a failed one in the queue and another that competes with it
for the composer or the draft; two sessions let the slot be offered for one and
the other be selected. Devices, sessions and texts are interchangeable in `handoff`,
which checks invariants only; `returns` uses no symmetry. Deadlock is not checked: a
device whose sends are used up may have nothing left to do.

Fairness: the browser runs every effect whose condition holds (`Offer`, `Apply`,
`Reconcile`); requests are asked again on every mount, switch and reconnect, so one
of them is answered (`AnswerFetch`, `LandFetch`, `DeleteRow`); and the user comes
back to the chat and to each session (`Show`, `Select`). It is strong because hiding
the composer disables each of these again and again. `StaysOpen` asks that the app
is not closed for ever. Sends, stops, failures and edits are owed nothing.

Left out: the first message of a session that does not exist yet, attachments, and
the agent that a restored prompt was addressed to.

## IssueCache

An issue has a status, an owner and a number that orders it; the owner stands for
every field a list filters on. `Board` filters nothing, a list of one owner can be
judged by the client, `Mine` (`my:all`) only by the server. A list holds the cards of
its first pages and a total per status. `Verdict` is the decision table of
`applyIssueChange`; an event, the optimistic edit of a mutation and its answer all
go through it, with the change flags and the base each of them has: the server's
flags and the detail or board copy for an event, the edit compared with the detail
for `Mutate`, the answer compared with itself for `AnswerMutation`. `FailMutation` is
`onError`: the whole lists it has kept are put back. `Mutate` cancels every list
request, a fetch in flight is restarted by an invalidation only if the list has data,
and `setQueryData` takes a stale mark away: these three and the sharing of a request
are TanStack Query's behaviour (version 5), external to the repository.

The server's part is small: a write succeeds, and its event goes to the socket if it
is connected. Events arrive in order; `Disconnect` loses those on their way. `Card`
carries two history fields, `version` (the server's writes) and `guess` (the mutation
that wrote the copy ahead of the server), and `lapsed` names, per list, the issues on
which the code leaves the list wrong without a stale mark. The properties make these
exceptions; each is one of the observations under Findings:

- a list whose mark was taken away by a write (all its issues);
- the issues written between a list's first fetch and the socket's first `auth_ack`;
- the answer of a fetch or of a mutation that lands after a later event;
- what a rollback puts back that events had changed, or that was itself optimistic.

| Run | Instance | What it shows |
| --- | --- | --- |
| `lists` | 1 issue, the board and an owner's list, 2 mutations, 2 writes, 2 connections, 4 of these together | `RowsAreCurrent`, `GuessIsPending`, types and counts |
| `drift` | 2 issues, pages of one, 1 write each | `NeverAWrongPatch` fails, see Findings |

Bounds: two mutations of one issue overlap, with each other and with a foreign
write; two connections are a loss and a recovery. One issue is enough for `lists`,
whose properties speak of one card at a time; `drift` needs a second issue that keeps
the count above the clamp at zero. The statuses are interchangeable in `lists`, an
invariant run. Deadlock is not checked: the bounds use up every write. No fairness:
refetches of lists off screen wait for the user, so nothing need ever happen.

Left out: created and deleted issues, batch mutations, further pages
(`useLoadMoreByStatus`), `position` reorders, the inbox and children caches, the
aggregates (only invalidated), change flags guessed for backends that do not send
them, the answering of one fetch's requests at different moments, and a write that
commits after its request was given up.

## Findings

Two runs show a disagreement with the repository's own words.

- `twice`: `use-chat-draft-restore.ts:49` says that the hand-off is "at-most-once and
  lossless", by the ledger (`:59`). The ledger entry goes with the answer of the
  consume, while a list read before the deletion may still be on its way: it names the
  row again and the composer adopts the prompt a second time.
  `ReappliedOnlyFromStaleList` shows that this is the only way.
- `drift`: `cache-coordinator.ts:115` says that without a base the coordinator refetches,
  "never a wrong patch", and `:172` calls the arithmetic certain. The base comes from
  another query: with the issue open, its owner's list is fetched after a
  reassignment and before the event; the event then finds the old owner in the detail
  and takes one off a total that had already lost it. No mark is left behind.

Observed divergences without a run of their own.

Task queue and scheduler:

- `agent.sql:325-329` promises that a retried chat turn leaves "no window for a newer
  input task to jump ahead". True of `FailTask` (run `turns`); the sweepers and orphan
  recovery fail a row in one statement and insert its retry later
  (`task.go:3211`), and with a handler `ChatTurnsInOrder` fails.
- Fallbacks cancelled by `StartTask` or by an acknowledging comment are only logged
  (`task.go:2529`). If one had been claimed, its agent stays at "working" with nothing
  to do, the state `agent.sql:361` warns of; with fallbacks `IdleAgentShownIdle` fails.
- `spec.go:145` says that a job without stale reentry needs manual repair after a stale
  lease; the swept row has no `next_retry_at`, counts as due (`db_ops.go:130`) and is
  run again by the next tick.
- `jobs_autopilot.go:254` says that a FAILED row must not be passed over. It is,
  whenever its backoff is still running at the next occurrence; the backoff reaches
  five minutes and schedules may fire every minute.
- The run cap (`task.go:946`, "at most issueRunCap() agent runs") is not consulted for
  retries and deferred fallbacks.
- A primary that starts before its fallback's insert (`comment.go:1849`) does not cancel
  it, though `comment_trigger_preview_test.go:816` wants none left.
- A lease claimed late in a long tick carries a deadline computed from the tick's start
  (`manager.go:125`) and can be stale when granted: all jobs share the tick, a rollup may
  run 25 minutes, the autopilot's `StaleTimeout` is 5.
- An empty `RetryBackoff` does not disable retries (`spec.go:155`) but makes them
  immediate.

Chat composer:

- The editor reports typing 100 ms late, to whatever draft is on screen then: it can
  overwrite a restore applied in between (`overtyped`) or land in another session.
- A cancel whose answer is lost, or an app closed before it, loses the text: the server
  has deleted the message (`LoseCancelAnswer`).
- `chat/store.ts:347` bounds the ledger "by the number of restores whose consume is
  still failing". An entry whose consume deleted the row but whose answer was lost is
  only forgotten by another consume, which needs a list that still names the row; when
  none does, the entry stays for ever.

Issue lists, each of them a reason for `lapsed`:

- An optimistic patch takes the stale mark of a list that owed a refetch, and cancels the
  refetch (`mutations.ts:233`).
- Rolling back whole lists (`cache-coordinator.ts:241`) brings back the optimistic value of
  another mutation refused in the meantime, or a card that an event has removed.
- A fetch answered before an event and landed after it overwrites what the event did,
  with `staleTime: Infinity` for good.
- A mutation's answer that lands after a later event puts the older row back, or keeps a
  row whose owner was changed by somebody else.
- Events written between the first fetch and the first `auth_ack` are missed:
  `onAuthenticated` (`ws-client.ts:185`) and `use-realtime-sync.ts:1438` invalidate only on
  later connections.

## Proofs

All theorems hold for any number of rows, agents, runners, requests and limits,
from the assumptions named in each module (`ConstantsAssumption`,
`CacheAssumption`, `JobSpecAssumption`, `NoLeaseAssumption`, `SendAssumption`,
`NoneAssumption`, `ListAssumption`, `NameAssumption`, `BoundAssumption`,
`StatusAssumption`), which only give the constants their types and keep scopes,
leases, names and version numbers apart.

**TaskQueueProofs.** Instead of treating thirty actions once per invariant,
`StepShape` shows that each step is of one of four shapes: a status update that
moves rows along the allowed edges, a claim, an insert of a fresh row, or an
insert of a retry of a failed row. `LineageInv`, the conjunction of `TypeOK`,
`RetryLineage` and `FailureHandledOnce`, is inductive: types need the batches (a
handler copies a row it holds), batches need that a row in one is failed and
unretried, and uniqueness of a retry needs that nobody else will insert it.
`OneRunPerKey` and `CapacityRespected` are inductive above it. `TurnAnsweredOnce`
is not: it needs `TurnIsOneChain`, by which of any two rows
that consume one chat input one has been retried, and so has failed. Theorems:
`TypeCorrect`, `RetriesSound`, `FailuresHandledOnce`, `KeysSerialized`,
`CapacityBounded`, `NoTaskResurrected`, `TurnsAnsweredOnce`. `BusyAgentsShown` is
proved for a server that does not stop (`~ MayRestart`): only a claim gives an agent
its first run and it owes a reconcile, and an owed reconcile is only taken by running.
A restart between the two leaves a busy agent at "idle" until its next reconcile.
`IdleAgentsShown` is its converse: every step settles the runs it ends
(`SettledSteps`), by a reconcile or by a batch that holds the row until it reconciles.
Two hypotheses are needed and both are about real exceptions: `~ MayRestart`, and
`FallbacksSettled`, that a claimed fallback is not cancelled without a reconcile for
its agent. The one path that does so is an acknowledgement, `StartTask` or a comment
(see Findings): every other way to end a run is settled.
`SingleAgentShown` discharges the second where there is one agent: a fallback with a
primary needs two, so nothing ever escalates.

**TurnOrderProofs.** `ChatTurnsOrdered` is proved with `Handler = {}`, that is, when
failures come from the daemons' reports; with sweepers it is false, see Findings.
`OrderInv` adds three things to the above. `ChatShape`: a chat row belongs to its
session's agent, a fresh turn has priority 2 and owns its number as its input, a
retry has priority 3. `RetriesMade`: a failed row due a retry has one. `OlderEnded`:
once a turn has been in a daemon's hands, the older direct turns of its session are
finished. `ClaimInOrder` is the step that uses them: an older turn in flight holds the
session's key against the claim, and an older one that is queued comes before it in
the claim order, unless the claimed row is a retry, and then its first attempt had
begun and the older turn was over already.

**WorkLedgerProofs.** `QueueKeepsLedger`: the queue implements `WorkLedger`. `root` is
a function defined by recursion along the chain of retries, about which the prover
knows only what an induction over steps carries: `OneRooting` says that exactly one
function maps a retry to the root of its parent and every other row to itself, and
each insert extends that function by one row (`RootsGrow`). With `RootsAreJobs` (a
retry stays with its job's agent and lane) and `OneNewest` (each job has one attempt
that nobody retried) this is `JobsInv`, inductive above `LineageInv`. The rest is one
lemma per shape of step: a status update is progress of the jobs whose newest
attempts it moves (`UpdateIsProgress`; rows that were retried have failed and stay
so), a claim is a take (`ClaimIsTake`: a job in hand has its row in flight, so the
claim's guard frees the lane, and `HandsFull` counts jobs by rows), a fresh row is a
request (`RequestIsRequest`) and a retry row a retry (`RetryIsRetry`).

**EmptyClaimCacheProofs.** `NeverStalled` says nothing of a verdict that is about
to be written, so it is proved with `LateVerdictRejected`: versions only grow
while a request is under way, so a verdict whose version is still current was
selected after the last delivered bump. Theorems: `CacheTypeCorrect`, and, with
the spine off, `CacheNeverStalls` and `LateVerdictsRejected`.

**SchedulerProofs.** `StepRefines` shows that each step of `Scheduler` is a step
of `FencedLease` or leaves its variables alone. It needs that a claim finds a
row with budget, that an absent row has attempt 0 (`AbsentIsNew`) and that a
runner about to report success has a handler behind it (`SuccessWasReturned`).
`FencedStepKeeps` shows that the abstract steps keep leases distinct and success
real, which carries both properties over. Theorems: `SchedulerTypeCorrect`,
`SchedulerFencesLeases`, `LeasesNeverShared`, `RecordedSuccessIsReal`.

**ChatDraftRestoreProofs.** `ShapeInv` is inductive: types, with a text for every send
(`SentHasText`); queues that hold requests of their own session, each once
(`QueuesInv`); ledgers, consumes and lists that name real rows (`RowsInv`); and a slot
that is for the session on screen and not applied yet (`SlotInv`). At most once needs
`AdoptedInv`: a request that was applied is in the ledger, or its row is gone and no
list on this device names it, or a list asked for before the consume still may. The
sends move forward through their stages (`NextForward`), which is why a row that is
gone does not come back. Theorems: `TypesCorrect`, `OfferIsOnScreen`,
`HandOffAtMostOnce`, `HandOffLossless`.

**IssueCacheProofs.** `GuessIsPending` follows from `GuessInv`: what the server, its
events, the fetches and the answers carry is never a guess (`OwnInv`), a mutation not
made yet has no context (`Fresh`), and a guess on screen belongs to a mutation in
flight that kept a copy of that very list (`Undoable`). The last is stronger than the
property and is what a rollback needs. Theorems: `IssueTypesCorrect`,
`GuessesPending`.

**IssueCurrentProofs.** `RowsAreCurrent` speaks of a settled list; `CurrentInv`, from
which it follows, of everything on its way there. `Copy` is what a card from the
server is worth: its fields are the server's at its version, and its owner still is
unless an event on its way, or a missed one, says otherwise. Events (`EventsInOrder`),
fetched lists (`FetchesTrue`) and answers (`AnswersTrue`) carry such copies. Rows on
screen (`ListsTrue`) and the lists kept for a rollback (`KeptTrue`) are true of their
version, and of the present but for events on their way, except on the issues the list
has lapsed on. Each action is reduced to what it does to the news (a write queues an
event, a delivery takes one, a lost or new connection), and each list applies
that news, lapses on the issue, or is marked stale. Theorem: `RowsCurrent`.

Only model-checked: the four liveness properties (`QueuedIsClaimed`,
`AbandonedLeaseClosed`, `RestoreReachesComposer`, `AppliedRowIsConsumed`), since
liveness under fairness is out of the prover's reach, as is ENABLED. Every invariant
and action property of a passing run has a theorem; `ChatTurnsInOrder`, the two about
`agent.status` and the two about the empty-claim cache need hypotheses, each of which
holds in the run that checks the property. Induction over data and RECURSIVE operators, also out of reach, are not used by
any module.

## Not modelled

The daemon's internals, the websocket hubs and relays, issue lifecycle, the
dependency graph, chat finalization, webhook deliveries and channel integrations
are planned or waiting, as said above. Of the clients, the views, the desktop
application's windows and tabs, the preferences, the API client and the mobile
application's own cache code are left out; TanStack Query is modelled only as far as
`IssueCache` and `ChatDraftRestore` use it. CRUD handlers, storage, mail, metrics,
skills and migrations are I/O or single-row operations without a protocol. Most of the
repository's TypeScript is views and translated text, so the models cover little of
it by length. `components` in `PROJECT.json` gives the reason for each.
