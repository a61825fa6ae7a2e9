# MoviePilot in TLA+

This directory models the parts of MoviePilot (`src/app`) whose correctness
depends on what happens between threads, leases, retries and crashes. TLC
checks the models on small instances; TLAPS proves what matters most for every
value of the constants. Code is always cited relative to `src/app/`.

## 1. The system

MoviePilot is one Python process around one SQL database. It subscribes to
media, searches sites, hands torrents to downloaders, moves finished downloads
into a library and tells users and plugins about it. HTTP handlers run on an
asyncio loop; chains, plugins and jobs run on thread pools; APScheduler fires
the periodic jobs. Whatever must survive a restart is in the database or on
disk, everything else is in memory and is lost.

### Inventory

| Component | State it keeps | Operations | What is hard about it | What makes it correct |
|---|---|---|---|---|
| Transactional outbox: `application/outbox.py`, `db/adapters/outbox.py` | table of messages (status, attempt, due time, lease, payload); in memory the active topics, the recovery lock, the stop flag | stage with a business write, immediate delivery, scan, claim, dispatch, fan-out, complete, retry, stop, configure | a lease that is never renewed, two kinds of owner, flights that outlive their lease, stop against scan | every intent ends delivered or dead; a settlement is final and fenced; recovery runs once per topic; nothing runs once stopped |
| Transfer ledger: `db/models/{transferpending,transferexecutionstep}.py`, `db/adapters/transfer/{admission,execution}.py`, `application/transfer/execution.py` | one row per source file (execution state, plan, checkpoint, lease, retries) and one row per operation of its plan | admit, claim, renew, release, store plan, prepare, start, restart, resume, complete, defer, review, checkpoint, settle, isolate, retry, resolve, discard | compare-and-set on lease token and attempt token, many states, users who answer later | records say what happened; an owner with a live lease is never refused; what is parked can be answered; a checkpoint can be settled again |
| Transfer workers: `chain/transfer/{queue,plan,execution,workflow,facade}.py` | memory queue, worker threads, the mirror of owned leases, the job view | submit, foreground execution, recovery scan, take, plan, observe, execute, settle, release, heartbeat | lease expiry under a running move, crash after the effect and before its record, recovery beside a thread that lost its lease | no operation is replayed on top of an effect; one resident per source; every transfer concludes |
| Transfer tasks: `chain/transfer/{settlement,records,request,retry}.py`, `application/transfer/jobs.py` | job view, history rows | matching, grouping, notification, settlement callbacks | large data conversions | the job view holds a source once (assumed by the workers' module) |
| Plugin installation: `application/plugin/{install,recovery,transaction}.py`, `db/adapters/plugininstallation.py`, `adapters/system/plugin/package.py` | plugin directory, persistent backup, checkpoint directory, journal row, installed list, instance row | checkpoint, journal, swap, stage and activate backup, reload, commit, finish, roll back, replay | five stores, each step may fail, be cancelled or be the last before a crash; database results may be unknown | once no journal is left, all stores are old or all are new |
| Plugin runtime: `application/plugin/{admission,lifecycle,gateway}.py`, `runtime/extensions/plugin/*` | running instances, mutation admissions | start, stop, reload, mutate | reload against calls | one mutation per plugin |
| Scheduler: `scheduler/*` | job table, generations, reservations, handles, life-cycle state | register, start, reserve, submit, finish, hot reload, stop | a job replaced while it runs, cross-thread submission and cancellation, reload against stop | at most one active generation per job; every claimed generation is released; nothing starts after stop |
| Background tasks: `runtime/tasks.py` | task records, submissions from other threads | create, submit, register, shut down | a submission in flight at shutdown | every coroutine runs or is closed, once |
| Event bus: `runtime/events.py`, `application/chain/events.py` | priority queue, consumers, handler tables, handles | send, broadcast, chain dispatch, enable, disable, start, stop | sentinel order, self-waiting stop, disabled handlers | a stop returns with no handler running; queued events survive a restart of the bus |
| Coalescing, debouncing, rates: `runtime/{coalesce,debounce,rate}.py` | windows, timers, counters | record, flush, call, cancel | a fired timer against a new call | one summary per window |
| Cache: `runtime/cache.py` | entries with TTL and size bound, in memory, on disk or in Redis | get, set, delete, clear, decorate | eviction, single flight, stale results | a cached value is one the function returned |
| Life cycle: `startup/lifecycle/*`, `startup/initializers/*` | phase, started components | start, partial-start roll-back, stop with time-outs | order, time-outs | stops run in reverse order, once |
| Subscription search: `db/oper/{subscriptionsearch,searchsession}.py`, `chain/subscribe/{search,searchtask}.py`, `chain/search/scan.py` | batches and tasks with leases, checkpoints of paged searches | enqueue, claim, search a page, finish, release, defer, cancel | leases that expire under a search, cancellation, late workers, crashes | one active task per subscription; a late page never replaces a newer checkpoint; a batch says what its tasks say; every task ends |
| Subscription admission and site budgets: `application/subscription/{execution,sitebudget}.py` | in-memory admissions, one lease per site | admit, claim and finish a site | search against match, late results | one execution per subscription; a late result never frees a newer claim |
| Subscription matching: `chain/subscribe/*`, `application/subscription/*` | subscription rows, notes, episode lists | match, filter, complete, delete | large pure data handling | writes stage outbox rows in their transaction (modelled there) |
| Agent: `agent/*` | per-session queue, worker, agent, memory | enqueue, steer, cancel, clear, shut down | idle time-out against enqueue, bounded shutdown | one worker per session, messages in order |
| Workflows, update, maintenance, recognition, external backends, API, CLI | small or external | | I/O and data conversion | not modelled |

### How the components meet

* A business transaction writes its rows and stages outbox rows in the *same*
  database transaction (`DurableEventCommand.execute`, and the settlement of a
  transfer). After the commit the command may deliver at once; recovery
  (a 30-second job, `scheduler/catalog.py:287`) delivers what is left.
* `TransferChain` puts admitted sources into a memory queue and claims their
  ledger rows; the recovery scan claims rows nobody leases and puts them into
  the same queue. The ledger is the only thing a restarted process sees.
* At shutdown the scheduler is stopped first, then the outbox recovery, then
  plugins and modules (`startup/initializers/scheduler.py:114-135`).
* A plugin installation ends in a database commit that the start-up replay
  reads before plugins are imported (`startup/lifecycle/__init__.py:396-401`).

## 2. Plan

| Step | Modules | State |
|---|---|---|
| 1 | `OutboxStore` -> `Outbox` -> `MCOutbox`, abstract `OutboxDelivery`, `OutboxProofs` | done |
| 2 | `TransferLedger` -> `TransferWorkers` -> `MCTransfer`, with a counter of executions `TransferBudget` -> `MCTransferBudget`, abstract `TransferPromise`, `TransferProofs`, `TransferLeaseProofs` | done |
| 3 | `PluginInstall` -> `MCPluginInstall`: file-system steps, command, roll-back, replay, crash, uninstall, new container; `PluginInstallProofs` | done |
| 4 | `Scheduler` -> `MCScheduler`, `SchedulerProofs`; `TaskRegistry` -> `MCTaskRegistry`, `TaskRegistryProofs` | done |
| 5 | `EventBus` -> `MCEventBus`, `EventBusProofs`; `SubscriptionSearch` -> `MCSubscriptionSearch`, `SubscriptionSearchProofs` | done |
| 6 | Coalescing and debouncing; site budgets; agent session workers; life cycle | left |
| 7 | `TransferOutbox`: composition of ledger and outbox (a settlement stages the history event in its transaction) | left |
| 8 | Proofs: every safety invariant and action property of the runs is proved, and the refinement of the outbox; what stays model-checked is listed per component | done, except `TransferPromise` |

Modules keep recursion out of what is proved about: no `RECURSIVE` operator is
declared anywhere, parameters are constants with named assumptions, actions
correspond to one operation (one transaction or one step between two).

## 3. The outbox

### Modules and correspondence

* **`OutboxStore`**: one row of the table and the columns each repository call
  reads and writes (`db/adapters/outbox.py`). A lease is `none`, `live` or
  `expired`; a due time is a Boolean, set again by `RetryDue`. The payload is
  reduced to the one field that steers control, `__mp_event_fanout_complete`.
* **`Outbox`**: the commands and the recovery.

| State | Code |
|---|---|
| `rows`, `order` | the table and its primary-key order (candidates are taken by it) |
| `pc`, `message` per command and flight | the place in `deliver_outbox_effect` or `_run`, and the row read or claimed there |
| `at`, `completed` | the loop of `DurableEventCommand.execute`, `PostCommitResult.completed_effects` |
| `active`, `lock`, `round` | `OutboxRecovery._active`, `_lock`, the loop counter of `_run` |
| `scanPc`, `candidate`, `accepted` | the thread inside `dispatch()`, which holds `_lock` |
| `stopping`, `drained` | `_stopping`, and that `stop()` returned `True` |

A claim is a SELECT followed by a conditional UPDATE, so it is two actions
(`...Select`, then `...Claim` or `...ClaimLost`). Every other store call is one
UPDATE and one action. `Commit` stages all intents of a command in its business
transaction. `EventFansOut` is the transaction that inserts one child per
subscribed handler and marks the parent. `Crash` keeps the table only.

* **`OutboxDelivery`**: the promise, without leases or attempts in memory: an
  intent stays owed until it is delivered after at least one attempt, or
  abandoned after `MaxAttempts` of them, and that is final.
* **`MCOutbox`**: two instances. **`OutboxProofs`**: the theorems, about attempts,
  then the delivery and its refinement, then the recovery.

### Runs

| Run | Question | Instance |
|---|---|---|
| `outbox_recovery` | Is recovery serial per topic, and quiet after a stop? Are attempts fences? Is an event expanded once? | a command stages an event with one handler, which it also delivers itself, and a notification on the same topic; two flights, so two topics run at once and a third claim must wait; limit 2 lets a flight take a second message of its topic; the handler is subscribed at expansion or not |
| `outbox_race` | Are settlements fenced and final, is the promise kept, does every intent settle? | two commands and recovery contend for one message across two crashes or stops |

Bounds: `MaxAttempts = 2` distinguishes a retry from a dead letter;
two owners of one row are the least that can overtake each other, and every
further owner repeats what the second does, because the row only remembers the
latest attempt. `MaxRestarts` bounds crashes and stops together. Nothing else is bounded;
lease expiry and retries are free. Deadlock checking is on: the system never
stops by itself, because `Configure` and `ScanBegin` remain possible.

Fairness (`outbox_race` only): the scan is an interval job; a pool thread that
has a task runs, its handler ends, and it gets the lock (strong fairness,
because `dispatch()` holds the lock for a moment every 30 seconds); clocks
advance; a stopped process is started again. Nothing is assumed of business
commands: recovery alone settles what they leave.

### Proofs

Every safety property of the runs is proved, and so is the refinement, from
`OutboxAssumption`, `ActorsAssumption` and `MaxAttemptsAssumption` (types of the
constants only); `OutboxFanoutIsFrozen` also uses `HandlerKeysAssumption`: the
key of a handler delivery is a digest of its parent's key under a prefix of its
own (`_stage_event_handlers`), so no command and no other event stages it.

* `OutboxTypeOK`. `TypeOK` is not inductive, `Typing` adds which program places
  belong to commands and which to flights, and that whoever holds a claim has a
  real message.
* `OutboxAttemptsAreFences` and `OutboxLatestOwnerUndisturbed`. The inductive
  invariant is `Typing /\ Fences`: a claim in progress carries a positive
  attempt not above the row's, no two claims carry the same one, the claim that
  carries the row's current attempt finds the row `processing`, and an absent
  row has handed out nothing. The last two parts are not in the properties; without
  them a claim could raise the attempt to one already held, or a settlement could hit
  a newer owner. One frame lemma (`FencesFrame`) covers the steps that touch
  neither rows nor claims, `FencesClaim` and `FencesSettle` the two that do.
* `OutboxSettledIsFinal`, `OutboxFanoutIsFrozen`,
  `OutboxReportedEffectsCompleted` and `OutboxImplementsDelivery`. They rest on one lemma, `StepTableStep`: every step
  stages new rows, counts one attempt of a row that is owed, or settles one
  (dead only after `MaxAttempts`), and otherwise changes nothing that a verdict
  depends on. The lemma needs `Fences` (a claim has a positive attempt) and
  `Leases` (a settled row has no lease that could expire). The three ways are the
  actions of `OutboxDelivery`. What a command reports is kept with the attempt it
  claimed (`completed`), so that the theorem says who completed the row: a late
  deliverer that finds it completed by recovery may not report it.
* `OutboxRecoveryIsSerialPerTopic` and `OutboxDrainedIsQuiet`. The invariant is `Orderly`: `_active` and the flights in
  progress describe each other (`Registered`); a scan between its SELECT and its UPDATE
  still finds the topic idle and room for one more (`Room`), although flights
  change their message and release topics meanwhile; whoever is there holds the
  lock (`Locked`); a drained recovery is stopping and empty (`Quiet`). The limit
  follows because flights inject into busy topics.

Model-checked only: liveness (`EveryIntentSettles`).

### Left out

Retention clean-up of settled rows (`db/maintenance.py:196-240`), the batch
claims of `db/adapters/subscription.py:1249-1331`, and the renderers of the
payloads. A flight whose future is cancelled before it starts (`Cancelled`) is
modelled as `_done` has it, although the production executor
(`runtime/execution.py`) never cancels queued futures.

## 4. Transfers

### Modules and correspondence

* **`TransferLedger`**: one operator per transaction of
  `db/models/transferpending.py`, `db/models/transferexecutionstep.py` and
  `db/adapters/transfer/*.py`. Its first
  conjuncts are the WHERE clause; a caller whose clause matches nothing is
  refused, which is an action of the next module.
* **`TransferWorkers`**: threads, queue, recovery, users and crashes.
* **`TransferBudget`**: `TransferWorkers` with a history variable `tries`, which
  counts how often an operation is executed since a user last decided (`Count`).
  It changes no step; `CountedSpec` is `Spec` with the counter.

| State | Code |
|---|---|
| `exec`, `planned`, `due`, `retries`, `outcome`, `settled` | `execution_state`, the frozen plan, `retry_due_at`, `retry_count`, the outcome in `execution_payload`, `terminal_history_id` |
| `token`, `live` | `lease_token`; whether `lease_expires_at` (120 s) is in the future |
| `step`, `attempt`, `review` | the rows of `TransferExecutionStep`: state, attempt token, and the synthetic `unhandled_execution_review` row |
| `world` | the effect of each operation on disk or in the remote storage: `untouched`, `partial`, `applied` |
| `queue`, `owned`, `submitting`, `recovering` | `_queue`, `_owned_leases`, the critical section of `put_to_queue`, the claim the recovery scan has in hand |
| `pc`, `job`, `key`, `op`, `seen` | per thread: place, source, lease token, operation, attempt token |

The job view and the resident set of the code are derived (`InView`,
`Resident`): both hold exactly what is being submitted, queued or executed.
An owner starts an operation at most once per lease, so the lease token stands
for the attempt token it generates. Tokens are `uuid4` in the code; `NewToken`
reuses the smallest number nobody refers to, which keeps the instance finite
without letting two live tokens coincide.

`Observe` is `observe_operation` and its callers: an observation tells the
truth or cannot tell, and half an effect cannot be told. `Resolve` is a user
who answers a review and does what the message asks
(`db/adapters/transfer/execution.py:1908`, "请先人工回滚，或确认未发生后选择
NOT_APPLIED").

That a success is reported only after the last operation is the executor's
order, not a check of `checkpoint_execution`: the guard is in
`TransferWorkers.Checkpoint`, and `CheckpointResult` of the ledger asks only what
the transaction asks. `SettlingIsReplayable` rests on that order, as its mutant shows.

* **`TransferPromise`**: what durable execution promises without threads:
  effects land in plan order and only while the transfer is owed, are recorded
  once they have landed, and a success is decided only with all of them.
* **`MCTransfer`**, **`MCTransferBudget`**, **`TransferProofs`**, **`TransferLeaseProofs`**.

### Runs

All have one crash and one exception; a stall is an expiry of a lease that the
heartbeat should have renewed.

| Run | Question | Instance |
|---|---|---|
| `transfer_queue` | Is an operation ever executed on top of an effect? Is a checkpoint replayable? Does every transfer conclude? | two queue workers, two operations, one stall, two requests; fair |
| `transfer_foreground` | Does the ledger ever refuse an owner, record an untruth, park what cannot be answered or renew a lease nobody serves? How often is an operation executed before a user is asked? | one queue worker and one foreground thread, executions counted |
| `transfer_promise` | Is the promise kept while the heartbeat works? | two sources with one operation each, one queue worker and one foreground thread, so recovery has one slot and must wait; no stall |
| `transfer_unhandled` | Does an unhandled exception always end in a review? (violated, see Findings) | one queue worker, no stall |

Bounds. Two operations are the least for which plan order and "the one before
is recorded" mean something; `MaxRetries = 1` separates a retry from
exhaustion; one stall and one crash give every row up to three successive
owners (the stalled, the crashed and the next); two requests allow an admission
and a redo, a retry, a discard or an answer. Six (nine) tokens are as many as can be referred to
at once, so no action is ever blocked for lack of one. `CHECK_DEADLOCK
FALSE`, because once requests are spent and everything is settled the model
has nothing left to do, as the program has not.

Fairness (`transfer_queue`): threads keep running and an operation returns
or raises; the scan is periodic (strong fairness on claiming one row, because
other rows compete for the slots); the heartbeat drops leases it lost; clocks
advance, so unrenewed leases expire and retries fall due. Nothing makes a user
answer, an effect land or a source vanish.

Two limits are the code's own. With a stalled heartbeat the foreground path
(`chain/transfer/execution.py:465`) claims without looking at the queue's residents, so it can run
beside the thread that lost the lease: `NoBlindReplay` holds for the queue path
only, and is checked and proved there, while `RecordsAreTrue` holds on both and is proved.
For the same reason `ImplementsPromise` is checked without stalls: a
stalled thread may still finish a move after its transfer was settled by
another.

### Proofs

From `LedgerAssumption` and `WorkerAssumption` (types of the constants, tokens
distinct from "none", queue workers distinct from foreground threads):

* `TransferTypeOK` (`TransferProofs`). `Typing` adds to `TypeOK` that a thread
  at a given place has a source, a token and an operation (`PlacedAt`). Without
  it, `CompleteStep(job[w], ...)` would be applied to no task.
* `TransferRecordsAreTrue`, `TransferOwnerIsNeverRefused`,
  `TransferSettlingIsReplayable`, `TransferRetriesAreBudgeted` (the retry counter of
  a row; no run checks it), all in `TransferLeaseProofs`. One inductive invariant, `Leased`, is behind all four:
  - `Unique`: a token is held by at most one thread, queue item or claim. It is
    what makes "my lease" exclusive, and rests on `NewToken`.
  - `TaskOK`: the row is consistent in itself (`RowOK`: an unleased row outside
    the active states, a stored plan while running, operations in order, a
    replayable checkpoint), its records are true and its retries within budget.
  - `WorkerOK`: a thread whose lease is still its own finds the row as its place
    expects, with everything before its operation recorded and, before it
    records one, the effect in place.

  Each ledger operator has a lemma that says what it writes, under which lease,
  and that it keeps `RowOK`; `ThreadWrites` and `RowChangesHands` lift them to
  `Leased` for writes by an owner and for writes to rows no live lease protects.
  Each action then has a lemma with one step per disturbed conjunct.

* `TransferRenewedLeasesAreHeld` and `TransferOneResidentPerTask`
  (`TransferProofs`), from invariants of the memory alone. `Charged` adds that a
  thread has forgotten the lease of its task before it leaves, and has no token
  before it claims. `Alone` says of items and queue workers, pair by pair, what
  the property counts, and that a submission between its admission and its claim
  has its task to itself; `RecoverEnqueue` keeps it because every queue worker
  that has a task has the token under which it is resident.
* `TransferParkedIsAnswerable` (`TransferLeaseProofs`), from `Leased` for the
  lease and from `Reviewed` for the count: a task in manual review has either
  one operation or the synthetic row under review, any other task neither.
* `TransferNoBlindReplay` (`TransferLeaseProofs`), assuming `Foreground = {}`.
  `Untried` says that an operation recorded as not begun or failed has no effect
  (`Blank`), and that a thread from the start of an operation to its record
  (`Trying`) finds it recorded as started, with or without its lease, unless the
  row is gone (`Observed`). The lease cannot give this, since a thread goes on
  executing after it lost it; `Alone` does, because the thread's task is still
  nobody else's.

* `TransferExecutionsAreBudgeted` (`TransferLeaseProofs`), of `CountedSpec`: an
  operation is executed at most `MaxRetries + 1` times before a user is asked,
  and once more for each crash, lost lease and unhandled exception. The bound is
  reached up to the last. `Counted` is inductive with `Leased`: per operation
  (`Spent`), one that was not begun has no execution, one that failed and waits for
  its retry has one to spare, and one recorded as started has one to spare unless
  the thread that began it still owns the row (`Manned`). The two ways in which a
  thread leaves a started operation behind, losing the lease and dying with it, are the
  faults that the bound counts; `Mirroring` (the live lease of a thread at work is in the
  mirror) excludes a third, since the heartbeat renews what is mirrored.

Model-checked only: the refinement and liveness. Liveness and enabledness are
out of the prover's reach.

### Left out

`request_replan` (`db/adapters/transfer/execution.py:1506-1579`), which gives a
failed row without operations a new planning input. It raises `retry_count` and
removes the plan, so `defer_planning` may afterwards refuse an owner whose lease is
live (`OwnerIsNeverRefused` is about rows that were not replanned), and the
retries it grants are outside `TransferRetriesAreBudgeted`. The `provider_pending` stage of two-plan transfers, `retry_generation`, the
music replan, the discard of corrupt rows, revision checks of stale pages, plan
and checkpoint fingerprints, the orderly close of the workers
(`close_workers`, `release_all`), progress counters, callbacks and
notifications.

## 5. The event bus

**`EventBus`** is the broadcast side of `runtime/events.py`. Every section under
`__lifecycle_lock` is one action; the consumer thread, the handlers and each
caller of a stop have their own program counters.

| State | Code |
|---|---|
| `state`, `flag`, `tracked` | `__lifecycle_state`, `__event`, whether `__consumer_threads` holds a thread |
| `queue`, `sentinels`, `unfinished` | `__event_queue`: events, stop sentinels, and its `unfinished_tasks` |
| `consumer`, `current`, `offered` | the loop of `__broadcast_consumer_loop`, the event in hand, the handlers it was submitted to |
| `handle` | `__sync_handles` and `__async_handles`, from submission to removal |
| `stop`, `pending`, `awaited` | per caller of `stop()` or `stop_async()`: its place, the events it holds while it discards sentinels, the handles it waits for |

`DrainSeals` is the instant at which `drain_async` finds queue and handles
empty under the lock and seals the bus; `BeginStop` to `StopReturns` are the
two stops; `ConsumerTimesOut` is the `queue.Empty` branch. A coroutine handler
that is cancelled before the loop has begun it is completed by the stop
(`_complete_unstarted_submission`).

| Run | Question | Instance |
|---|---|---|
| `events` | Is a sealed bus empty and a stopped one quiet? Does a stop ever lose a waiting event, hang, or kill the consumer of the next start? | two events of different priority, a synchronous handler that stops the bus while it handles the first, a coroutine handler, the drain, the stop of the life cycle, one restart |

Two events are the least that can wait behind each other and behind a
sentinel, two stoppers the least that overlap. Fairness: the consumer thread,
handlers and stoppers go on, handlers end. `CHECK_DEADLOCK FALSE`: a stopped bus
does nothing.

Proved (`EventBusProofs`, from `EventBusAssumption` and `AppAssumption`, that the
life cycle is none of the handlers), for any number of events, handlers and
stopping handlers: `EventBusTypeOK`, `EventBusBarriersHold`,
`EventBusWaitingSurvive`. The inductive invariant `Bus` adds to them
- `Counts`: `unfinished_tasks` is what is queued plus what the consumer has in
  hand, and an event is in the queue or with one stopper. It is why an idle
  count means an empty bus, and why two overlapping stops lose nothing;
- `Transitions`: the bus is open only when nobody is inside a stop, and who is
  inside one is a handler that runs;
- `Joins`: past the join, and while stopped, there is no consumer;
- `Waits`: a snapshot covers everything its owner must outlast. It holds because
  registration is refused as soon as the state has left `running`.

Model-checked only: that every stop returns and every event is taken.

Left out: `send_event` in strict mode, chain events (synchronous calls with
their own tables), registration and the enabling of handlers. Two *handlers*
that call `stop()` at the same time would wait for each other; no handler of the
repository does so, and the instance has one. Senders are stopped before the
seal (`stop_order` 51 to 55 against 58 in `startup/lifecycle/__init__.py`).

## 6. The background tasks

**`TaskRegistry`** is `runtime/tasks.py`: threads hand over coroutines, the main
loop turns each into a task or finds it withdrawn, callers cancel, `shutdown()`
closes what waits, cancels what it may and answers whether all has ended. The
loop runs one callback at a time (`LoopFree`); sections under `_state_lock` are one
action; `submit_on_loop` and `shutdown` are two, because threads can act between
their halves.

| Run | Question | Instance |
|---|---|---|
| `tasks` | Is a coroutine ever closed under its task? Is `TRUE` of `shutdown()` true? Is every coroutine, cancellation and caller served? | two submissions, one of which never ends by itself, one task of the loop that may not be cancelled, two shutdowns |

One submission can be past the lock while the other waits or is cancelled; a
second shutdown meets tasks the first has cancelled. Fairness: threads finish
their calls and the loop runs what is ready (strong fairness, because the loop serves
many). `CHECK_DEADLOCK FALSE`: the loop is closed at the end.

Proved from `TaskRegistryAssumption` for any number of callers, tasks and
shutdowns (`TaskRegistryProofs`): `RegistryTypeOK`, `RegistryNeverClosesATask`,
`RegistryShutdownIsTruthful` and `RegistryCancelsOnce`. The inductive invariant
adds `Placed` (what waits in the table or was taken out by shutdown has no task),
`Closed` (what was closed never gets one), `Sealed` (a shutdown that waits
watches all that is unfinished) and `Remembered` (a task that was struck is in
`_shutdown_cancel_requested` until it ends). Only model-checked:
`CallersAreServed`, which is liveness.

## 7. The scheduler

**`Scheduler`** is `app/scheduler`: the catalogue of registrations, the
generations and reservations of `ExecutionRegistry`, runs that begin on a thread of
APScheduler or of a caller and continue on the main loop, the one-time jobs of
plugins, the update of a plugin's services, hot reload and stop.

| State | Code |
|---|---|
| `state`, `halted` | `_lifecycle_state`, `runtime_stop_state` |
| `aps`, `trigger` | the APScheduler and its job store |
| `catalog`, `generation`, `running`, `fresh` | `_jobs`, `_generations`, the `running` flag and `_once_pending` of a registration |
| `active`, `reserved` | `_active_generations`, `_reservations` |
| `run`, `cancel`, `watched` | the calls of `start()` with what they handed over, cancellations on their way, the handles a stop waits for |

| Run | Question | Instance |
|---|---|---|
| `scheduler` | Can one job run twice at once, or its generation be leaked? Is a stop quiet and final beside a hot reload? Is a one-time job kept until it has begun? Does every transition end? | a managed consumer that ends by cancellation only, a one-time job, two concurrent calls of `start()`, three generations, one hot reload, two lives |

Two runs are the least that contend for a generation; three generations let
a job be replaced while the older one runs and while it is cleaned up; two lives let a
late reload meet the next start. Larger instances (three runs with a plain function
as well, two one-time jobs) were checked during development. Fairness:
threads, loop, reload and stop go on and functions return; consumers need not.
`CHECK_DEADLOCK FALSE`: after the last stop nothing runs.

Proved (`SchedulerProofs`, from `SchedulerAssumption`) for any number of jobs,
concurrent calls of `start()`, generations, reloads and lives: `SchedulerTypeOK`,
`SchedulerGenerationsAreOwned`, `SchedulerStoppedIsQuiet`,
`SchedulerStoppedStaysStopped`, `SchedulerOnceIsKept`. Three invariants carry them:
- `Typing` adds to `TypeOK` where the life cycle is (`Phases`: `init()` runs only
  while the scheduler is starting, `stop_async()` only while it is stopping) and that
  the registrations under way have numbers left (`Numbered`);
- `Ownership`: a run past its claim holds the generation it claimed, no two runs of one
  job are past it, and until a stop nothing is leaked. It is inductive because a claim needs
  an idle job and every way out of a run releases what the run holds (`Ends`);
- `Stopping`: from `_begin_stop` on APScheduler is down, so no run begins; a handle
  is in the snapshot of the stop or was refused, so the stop waits for all of them.

One lemma per kind of step says that a run goes on, ends or claims (`RunStep`);
the invariants are kept by a `RunStep`, whatever the step is. Model-checked
only: `EveryTransitionEnds`.

Left out: a configuration change before the first start (it raises), replacement
of a plugin instance, workflow and agent bookkeeping, the contents of progress
records, development mode, jobs in subprocesses. `init()` is atomic with respect to
threads, which wait for the lock it holds.

## 8. The plugin installation

**`PluginInstall`** is the transaction of `application/plugin/install.py` with its
recovery, on the stores it must keep together. A rename is one action; a copy
or removal may fail; a failure at any place starts the rollback, whose every
step may fail as well; a cancellation may hit each awaited step and a second
one the rollback; a database commit whose answer is lost is decided by reading the row.

| State | Code |
|---|---|
| `run`, `aside`, `kept` | the plugin's directory, the sibling a swap has moved the old one to, what swaps without a journal left in siblings (no code reads them again) |
| `snap`, `marker` | the checkpoint directory of a transaction and its rollback marker |
| `backup`, `staging`, `previous` | the persistent backup of a container and the two directories of its activation |
| `row`, `member`, `identity`, `enabled` | journal, installed list, identity row, host row |
| `pc`, `mode`, `cp`, `did`, `live` | the step of the command or the replay, what a rollback serves, the frozen checkpoint, `_InstallState`, the loaded payload |

| Run | Question | Instance |
|---|---|---|
| `plugin_install` | Do all stores tell of one version when nothing is under way? Has every journal its material? Is a commit final? | two installations of one plugin; two faults, two deaths, one stop and one new container at any step |
| `plugin_environment` | The same beside everything else that touches the stores; does every transaction end, and a start without another fault converge? | one installation; a backup, an uninstallation, a new container, a clean-up that tears its directory |

A directory of the image cannot be renamed on overlayfs (`EXDEV`): it is copied
aside and removed file by file, in a swap and in a restoration alike, so `run` may be
`Torn` at every step of either (`Moved`). What a transaction published lies in the
writable layer and is renamed. The loader imports whatever is there (`Loads`): of a
torn directory it makes a plugin or not.

Only a restoration *with* a journal is replayed. One without (the row could not
be written, or another journal waits) that dies or fails between moving the run
directory aside and putting the snapshot in place leaves it missing or torn, and the
payload in a sibling that nothing looks for; a later transaction takes a torn
snapshot of it. `Settled`, `LiveMatches` and `Recoverable` state this one exception: the
payload must be in `kept`, which only `mode = "bare"` fills, or have been there until the
container was made anew. With a journal the run directory must be whole.

Two transactions are needed for a journal of one to meet the files of another;
two deaths for a replay that dies itself. Fairness: coroutines and threads go on,
and the process is started again. `CHECK_DEADLOCK FALSE`: the bounded environment
runs out.

Properties except what the code is known to break; each exception names
its budget (`spent[...]`) and its cause is listed under the observations. `Intact`
is the common one: no clean-up was torn, and not both a `backup_plugins` and a new
container came. What holds regardless is stated without it: a committed
transaction keeps its identity.

Proved (`PluginInstallProofs`, from `InstallAssumption`: the payloads and the two
markers are distinct, bounds are numbers) for any number of transactions and any
bounds: `PluginInstallTypeOK`, `PluginStoresAgree`, `PluginRecoverable`,
`PluginCommitIsFinal`. `PluginInductive` is the invariant behind them. The properties speak of
the moments when nothing is under way or the process may die; the invariant says for
*every* step what each store holds:
- `Control`, `Begun`, `Journal`: which step serves which transaction. A rollback
  without a journal of its own never has the transaction of the row that is there; a
  committed row is met by the steps after the commit only; the marker is set exactly
  when the files of its transaction are restored;
- `Swap`, `Content`: outside of an owed rollback (`Owed`: a prepared row without a marker)
  the run directory is settled; inside, the snapshot holds the payload of the identity row,
  or what an earlier restoration without a journal left of it (`Holds`). A committed row
  never meets a torn directory or snapshot, so its payload stays. A
  rollback that has nothing left to undo (`Aloof`) puts back only what it moved, which is
  why a late cancellation does no harm;
- `Fresh`, `Backup`, `Material`: where the previous backup is between the
  two renames, forward and back, and that a start without a fault never comes to the use of
  backups (`consume`) with a journal that still needs them;
- `Identity`, `Host`, `Memory`: the identity row changes with the commit only, the host row
  is what was frozen or marked, the process runs the payload of the identity row, unless it was started on a torn directory.

`Writers` says which actions write which variable; each part then has one lemma
with one step per action. While the invariant was being found, TLC refuted earlier forms of
`Recoverable` and `CommitIsFinal` at bounds the runs do not have (a torn clean-up beside a second
transaction; a backup beside a new container); the properties now exclude those two by
`Intact` and say more of the backup than before. Model-checked only:
`EveryTransactionEnds`.

Left out:
the plugins an image brings (`docker/Dockerfile:391`; the model's new container has
no plugin but what the backup restores), failures of `restore` with a pending file, the refresh of an existing
checkpoint, the contents of registrations, and `backup_plugins` in steps
(it is atomic here).

## 9. The subscription search queue

**`SubscriptionSearch`** is the persistent queue of searches. Each repository
transaction of `db/oper/subscriptionsearch.py` and `db/oper/searchsession.py`
is one action.

| State | Code |
|---|---|
| `tasks` | rows: state, `cancel_requested`, `lease_token`, whether the lease has run out, whether `available_at` is reached, whether a user asked |
| `batches` | rows: the aggregate state and `cancel_requested` |
| `sessions` | the version of the checkpoint of a task's paged search |
| `worker`, `stopping` | the consumer of a process: task, token, version last seen, verdict; `runtime_stop_state` |

`Enqueue` makes or joins tasks; `Claim` is `claim_next` with its sweep of
cancelled tasks; `Checkpoint` and `Return` are a page and the end of a search;
`Settle` is `finish_task`, `release_task` or `defer_task`, whichever the
verdict asks for; `LeaseExpires` lets a lease run out, under a search too.

| Run | Question | Instance |
|---|---|---|
| `subscription_search` | Do rows, aggregates, checkpoints and claims agree? Does every task end? | two requests for one or both of two subscriptions, two tasks, two consumers, one setback (deferral, crash, stop or a lease that runs out under a search) |

Within one process `_search_queue_lock` serialises consumers; the two of the
instance stand for two processes on one database, or for a consumer whose lease ran
out and the next. Two subscriptions and two requests are the least for which a request
makes one task and joins another. `QueueIsConsistent` was also checked with two
setbacks. Fairness: polls are periodic (`scheduler/catalog.py:207`),
searches return, clocks advance, stopped processes restart. `CHECK_DEADLOCK
FALSE`: an empty queue waits for requests.

Proved (`SearchQueueIsConsistent` in `SubscriptionSearchProofs`, from
`SearchAssumption`): `QueueIsConsistent` for any number of requests,
subscriptions, consumers and setbacks. The inductive invariant `IInv` adds to it:
`Made` (a request that was not made has no rows), `RowsOK` (a row has a token
if and only if it runs; what waits is wanted), `Reach` (a cancellation has reached every
active row of its batch, which is why a claimed row's batch is never
`cancelling` and `claim_next` may write `running` without counting) and `Apart`
(no two consumers hold one token, which is why a checkpoint of one cannot pass the
lease check of another). `Tables` collects what holds of the rows whoever works on
them; `SweepTables`, `ClaimTables`, `SettleTables` show that each transaction keeps it,
`TableStep` and `ConsumerStep` lift that to the consumers. Only model-checked:
`EveryTaskEnds`.

Left out: site budgets, `pending_site_ids`, phases and activity rows, the search itself. One action per transaction is exact for
SQLite's single writer; under PostgreSQL's READ COMMITTED two concurrent
`_refresh_batch` could compute a stale aggregate, and `request_cancel` could deadlock with
`finish_task` in the database. The order of claims is reduced to "users first".

## 10. Findings and observations

* `transfer_unhandled`: `isolate_unhandled_failure`
  (`db/models/transferpending.py:1172-1190`) excludes rows whose
  `execution_payload` or `terminal_history_id` is set, and
  `request_execution_retry` (`:666-698`) leaves both set. An unhandled exception
  in a transfer that was retried after a settled failure is therefore not
  isolated: the next scan replays it with its retry count unchanged. The handler
  says it exists to prevent exactly this (`chain/transfer/execution.py:345`,
  "防止未记账失败无限回放").

The following were met while modelling; no run is devoted to them, the
properties say where they are excluded.

* Plugin installation, excluded in `StoresAgree`, `Recoverable` and `CommitIsFinal`:
  an uninstallation over a journal that is left is undone by the replay
  (`application/plugin/management.py:360` "不停用这一行，卸载后重启仍会",
  `recovery.py:161`); `backup_plugins` may replace the persistent backup by a payload
  that was never committed, also between the two renames of an activation
  (`chain/system.py:348`, against `package.py:564`); a container made anew uses the
  backups up although the replay before it failed (`chain/system.py:451`, against
  `recovery.py:102` "隔离单个插件失败并保留其记录重试"); a cancellation during a torn
  clean-up restores a torn snapshot (`install.py:957`, against `:963`).
  A plugin whose replay failed is imported nevertheless (`recovery.py:119`, against `:25`).
* A plugin that rewrites its own directory while its journal is committed fails
  the receipt check at every start. A rollback without a journal that dies or fails
  while it puts the snapshot in place leaves the payload in a sibling directory only and,
  on overlayfs, a run directory removed in part, which the next start imports
  (`adapters/system/plugin/package.py:689-718`); nothing replays it. It is part of
  `Settled`, see section 8.
* Scheduler: a hot reload registers the services anew and drops one-time jobs
  that have not begun (`scheduler/lifecycle.py:60`), while
  `docs/architecture-overview.md:316` says that only those of replaced
  instances are dropped; `OnceIsKept` excludes that step. A finish that a stop cancels at its
  progress await leaks its generation (`scheduler/progress.py:80`, against
  `execution.py:74`); `NothingIsLeaked` is about the time before a stop. A one-time job
  registered again whose trigger fires while the previous one runs is skipped and stays pending.
* Subscription search: a request that joins a running task whose batch is being
  cancelled is lost with it (`db/oper/subscriptionsearch.py:101`). A batch that ended
  `skipped` is not refused by `request_cancel` and becomes `cancelled` (`:534`).
  The lease of 900 s is never renewed although the execution may take 7200 s, so
  a paged search of more than 15 minutes loses its claim and fails
  (`chain/search/scan.py:455-462`).

## 11. Running the checks

`tlc -config <cfg> <module>` for each row of `runs` in `PROJECT.json`, `tlapm
<module>` for the proof modules. The largest runs (`outbox_recovery`, `transfer_foreground`) explore
four million states and more in about two minutes each; the outbox and lease proofs take a few minutes.
