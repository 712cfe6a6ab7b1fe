# effect-mq in TLA+

effect-mq is a job queue for Effect programs: typed job definitions, workers
with leases, delays, retries, deduplication, schedules and parent/child flows,
over a pluggable store (in-memory, Redis, Postgres).  This directory holds TLA+
models of it, the TLC configurations that check them on small instances, and
TLAPS proofs for every value of the constants.  Paths below are relative to
`packages/effect-mq/src/`.

## 1. Inventory

| Component | State it keeps | Operations | Interacts with | Hard behaviour | What makes it correct |
|---|---|---|---|---|---|
| In-memory store, `MemoryJobStore.ts` (the reference driver of the seam in `JobStore.ts`) | `jobs` (lifecycle, lock, ledger), `flowChildren`, `dedupes`, `outbox`, `paused`, `schedules`, per-queue versions and waiters | enqueue, claim, ack (Complete, Fail, Retry, Cancelled, FanOut), extendLocks, release, recoverStalled, cancel, cancelByDedupe, retry, promote, pause/resume, remove, sweepHistory, recordChildResults, peek/deleteOutbox, flowSweepWork, markChildrenCascaded, schedules | called by producers, any number of workers, sweepers, operators | late calls of workers that lost their lease; cancel against ack, release and stall; retention against live references; dedup windows | a lock is a fence; a cancel is never undone; ledger and terminal fields agree; counters equal rows; keys are freed; waiting takers are signalled |
| Worker, `Worker.ts` | handlers, `inflight`, `cancelling`, pulse version, fibers | takers, processJob, heartbeat, stalled loop, schedule loop, shutdown | calls its store, runs handlers | a lost lease while the handler runs; snapshots applied late; interrupts for several reasons | at most one live lease per job; every claimed job is acked, released or recovered |
| Flow runtime, `Worker.ts` + `Flow.ts` | nothing of its own: rows in the parent's store, jobs and outbox in the child's store | fan-out, fast-path enqueue, outbox relay, reconciliation sweep, cascade of cancels | two stores, several workers of each | crashes between two store calls, duplicated and reordered reports, sweepers that race one another and the parent's settle | no orphan children; rows tell the truth; every flow settles; every cancel arrives |
| Schedules, `JobSchedules.ts`, `scheduleLoop` in `Worker.ts` | `schedules` in the store | declare, deferred prune, dueSchedules, tickSchedule | several replicas | stale due lists, rolling deploys | a slot fires once; a declared schedule is not pruned |
| Producer API, `Job.ts` | none | validation, ids, backoff, cron | store | | inputs of the store; `schedule` reads the clock before it writes |
| Redis driver, `redis/` | the same state in Redis keys | the same operations as Lua scripts; staged fan-out | store seam | several round trips | refines the reference driver |
| Postgres driver, `drizzle-postgres/` | the same state in tables | the same operations as SQL transactions | store seam | lock order, claim with SKIP LOCKED | refines the reference driver |
| Metrics, conformance suite, examples, lint rules, site | | | | | not modelled: no decision depends on them |

`PROJECT.json` lists the components with their status, and under `hazards` the
places in the code where something can go wrong that a test would hardly reach,
each with the properties that cover it or the reason why none does.

## 2. Modules

| Module | Content |
|---|---|
| `MemoryJobStore` | the reference driver: one action per operation that changes state |
| `MemoryJobStoreProofs` | `TypeCorrect`, `LocksCorrect`, `CancellationSticks`; how jobs end: `ResultsAgree`, `StallsBounded`, `KeysFreed`, `OneEnqueued`, `WindowsKept` |
| `MemoryJobStoreFlows` | `FlowsCounted`, `RowsAreFinal`, `FlowsFanOutOnce`; reports and retention: `ReadyIsSignalled`, `CascadesSurvive`, `EndsAreReported`, `CountsKept` |
| `RedisJobStore` | the Redis driver: one action per Lua script, over the server's keys; an instance of `MemoryJobStore` is its abstract specification |
| `RedisJobStoreKeys` | what each operator of the scripts does to the keys (lemmas) |
| `RedisJobStoreProofs` | `IndexesCorrect`, `TypeCorrect` |
| `DrizzleJobStore` | the Postgres driver: transactions statement by statement, likewise against `MemoryJobStore` |
| `Worker` | takers, heartbeat, stalled loop, shutdown and crash over an instance of `MemoryJobStore` |
| `FlowRuntime` | the flow runtime of the workers over two instances of `MemoryJobStore` |
| `Wakeups` | waiters, versions and messages of the three drivers, and the takers that sleep on them |
| `Schedules` | extends `Wakeups` with schedules, their declaration and their sweepers |
| `WorkerProofs` | `TypeCorrect`, `StoreOfWorkers`, `BooksCorrect`, `AttendedCorrect`, `CancelsAreWanted` |
| `FlowRuntimeStores` | `StoresOfFlows`, `TypeCorrect` |
| `FlowRuntimeProofs` | `RowsAreTruthful`, `NoOrphanLeft` |
| `SchedulesProofs` | `NoWakeupLost`, `SlotsFireOnce`, `SlotsNotDropped`, `LayersPruneTheirOwn`, `TypeCorrect` |
| `MC...` | requests, scenarios and symmetries for TLC |

### MemoryJobStore

*State.*  `jobs` is the driver's `Map<JobId, MemJob>` as a function into
`MemJob` or `None`; `flowChildren`, `dedupes` and `paused` are the maps and set
of the same names.  `outbox` is the driver's array as a set of entries with a
`stamp` per appending operation; entries of one operation have no order among
themselves that any reader depends on (each is for a different child).  `seq` is
the enqueue-order counter, `lastToken` the last lock token a worker made up (in
the code a worker id and a counter: unique).  `woken` is the set of queues whose
waiters the last operation signalled (`signalWake`).

*Atomicity.*  The driver reads the clock and then runs in one synchronous
block (comment at `MemoryJobStore.ts:8`), so each operation is one action,
trailing calls included: an ack is the ledger entry, the new state, the freed
dedup key, the outbox report and the retention pass (`applyKeep`) in one step.
Two places do not fit this (`retry` tests the state before its clock read, an
effectful id generator yields inside `enqueueOne`); the model has them atomic,
and they are listed as hazards without a property.  Calls that return early
without writing are not steps.

*Split batches.*  `extendLocks` renews one lock per step, `enqueueMany` enqueues
one request, `recordChildResults` takes the reports of one flow, `sweepHistory`
and `recoverStalled` are one step each.  `recoverStalled` ends several jobs in one step,
one after the other: each applies its own keep policy (`keep` is chosen per enqueue) to what
the earlier ones left, and finds those that follow still unfinished.  The order is a
Map's insertion order, which the state does not show: any order may be the one (`Turns`,
`AtTurn`).  A policy has a part per terminal state; the flat `{count, ageMs}` of records that
version 0.2 wrote, which the three drivers still read (`MemoryJobStore.ts:322`), is left out: as a policy
it is one with three equal parts.

*Inputs.*  `ParentIds` are ids of parents in another store, whose children report there through the
outbox.  Ids are "any id not in use" (generated) or the request's own.  Child
keys of a manifest are a set: `Flow.ts:626` rejects duplicates.  Exits and
reasons are booleans ("present").

*Bounds.*  `MaxTime`, `MaxSeq` and `MaxTokens` end the clock, enqueues and
claims.  Nothing else is bounded.

*Seeded faults.*  Operators named `Fault_...` are not part of the
specification: each is a definition as a plausible bug would write it, and the
`mutants` of `PROJECT.json` say which property notices it.

### FlowRuntime

`P` is the parents' store and `C` the children's, both instances of
`MemoryJobStore`; the parts that play no role (dedup, pauses, retention, the
outbox of `P`, the rows of `C`) are instantiated with their initial values, and the flows are the
`ParentIds` of `C`.  `pWoken` and `cWoken` are the queues the last call of either store signalled.
Each call into a store is a step, and everything else interleaves between two
calls of one fiber:

- `fanouts[f]`: the worker after its FanOut ack (`processJob`, `Worker.ts:888`):
  it reads the parent once and then enqueues the children;
- `relays[r]`: `relayDrain`, peek, deliver flow by flow, delete;
- `sweeps[s]`: `flowSweepLoop`, with the reads of child and parent, the enqueue,
  the second read, the cancel, the synthesized report, and the cascade, each a
  step of its own;
- `Crash` forgets one fiber's state: a dead worker, or a call that keeps failing
  and ends the pass (`retryStore`, then the loop's `catchCause`).

Producers, child workers, operators (cancel or retry of a child) and the stalled
loops act at any time.  `attemptsMax` is 1, so a failing run is terminal (retries
with a budget are in the store's runs).  If parent and child live in one store the
steps are the same ones, on disjoint ids.

Not in this module: outbox entries the relay cannot route, several child stores,
a parent that is itself a child (the store's runs have it), deletion of children
before they reported (the documentation's child-retention guidance rules it out,
and a child deleted early does run again).

### Worker

`S` is one queue of a store, an instance of `MemoryJobStore` without flows,
dedup, pauses and retention.  Per worker there are the maps `inflight` (job id to
token and taker) and `cancelling` of the code, the state of each taker (`takers`),
the heartbeat between its snapshot and its end (`beats`), whether the handler is
registered, and the process's status.

A taker is claim, start, run, ack: `TakerClaims` (`takerIteration`), `TakerStarts`
(fork and `inflight.set`, or the release of a job whose handler is gone),
`RunEnds` (the join returns; both maps are cleared of the job id and the ack is
decided, `AckFor`), `TakerAcks` (`ack` or `release`, where a lost lock is swallowed).
A handler may succeed, fail, or end interrupted at any time, its own interrupts
included.  The heartbeat is `BeatBegins` (the snapshot), `BeatExtends` per lock, and
`BeatApplies` (lost flights dropped, then cancels delivered to whatever is in
flight under these ids).  If the deployment is not `remote` nothing runs between the three,
as with the in-memory driver; otherwise everything may.

`Stop` closes the worker's scope, `Unregister` the scope of its registration,
`Stopped` is the exit once every taker has acked or released, `Restart` the next
process.  `Crash`, `ClaimLost` and `AckDropped` are the faults: a dead process, a
claim whose reply never arrives, an outcome given up after the retries of
`ackSafely`.

Retries are due at once and a lease is one tick.  Left out: wake-ups (takers poll; see
`Wakeups`), the schedule loop (see `Schedules`), several queues, and a claim that is retried under its first
token after a lost reply (two jobs then carry one token, but locks are tested by
job and token together).

*Bounds.*  Those of the store, the deployment's `claims` and `faults`, and
`MaxInterventions` (shutdowns, unregistrations, operator retries).  Faults happen only while the clock can still run
out the lease they leave.

### RedisJobStore

`redis` is a record with a field per kind of key under the store's prefix (hashes,
zsets, counters, sets); a zset is a function from members to scores.  Every script is an
operator from keys to keys, built from the helpers that `scripts.ts` prepends to each
script, and applied in one action.  A call of several scripts is several actions:
`fanOuts` is the chunked FanOut ack between its scripts, `sweep` the paged history
sweep.  The server never loses a script it ran; a driver that dies in the middle of a
fan-out is an ack whose next chunk never comes, after which the lock expires and
another attempt stages its own rows.  An ack whose chunk failed may also begin again under the token
it has, with the same children (`ackSafely` retries the whole call): `FanOutBegin`.

`ImplementsReference` maps the hashes to the reference driver's maps (rows that are only
staged are invisible) and says that every script is a step of `MemoryJobStore`, at the clock reading its
call took, or changes nothing the seam shows.  `IndexInv` says that every zset, counter
and sweep index agrees with the hashes, `TypeOK` that a key holds what every script that reads it
expects (whole hashes, zsets of ids they may hold, counters that are not negative).  Abstractions: one outbox stamp per report
where a stall pass of the reference driver has one in common (one request carries the
parent envelope); metadata indexes and their boot reconciliation are left out; a driver
that dies in the middle of a history sweep is left out (its pages are steps of their own
all the same); `ReusedFlowIds = FALSE`: a remove of the parent, a new
enqueue under its id and a call addressed to the first flow do not meet staged
rows of the second; the lock test on chunks that are not the last one matters from
three children on.

### DrizzleJobStore

`db` holds the tables as committed, `txs[c]` the open transaction of call `c` with what
it has written so far.  Statements are steps of their own where they may wait for
a row lock or act on what was read earlier; a statement that needs a held row is
disabled until its holder commits or rolls back, and then sees the committed row, as
under READ COMMITTED.  A transaction that ended jobs takes them in turn, as `recoverStalled` does
row by row: the report and the freed key (`ReleaseDedupe`, which may wait for the key's row), then the
retention of the job's own policy (`ApplyKeep`, which may wait for the rows it deletes); the deletes by age and
by count are one step.  `Rollback` may end any transaction at any moment (a dead
connection, a deadlock victim; the driver's retry is a new call).
`ImplementsReference` says that every commit is the whole operation its call
promised, done by the reference driver in one step to the rows as they are at that
moment, with the call's clock reading.  It is checked at commits, not at statements: what an
open transaction wrote is invisible.  An enqueue that inserts and replaces nothing commits nothing
that could be checked, so it is checked at the statement that decides it (`JustDuplicate`): its id is taken
there, or the reference driver would deduplicate there too, by the window or by a pending job.
The one place where it may do nothing without such a reason is the guarded UPDATE of
latest-wins, when the job it had read as delayed is delayed no more: if that job was cancelled or
removed meanwhile the request is dropped, as if it had come just before.

Abstractions: the clock is read with the first statement; `seq` and outbox ids are drawn
at commit (the real ones are drawn a little earlier, so that a relay that pages by
cursor may pass over an id of a transaction not yet committed; entries are deleted only
once delivered); a statement that locks several rows acquires them at once (deadlocks
appear only as `Rollback`); a row that is deleted and inserted again under a waiting
statement is not told apart; NOTIFY is raised with the commit; keep counts
above 0 are left out, since two transactions that finish a job each do not see one another's
record when they prune, and keep one too many until the next finish; an extended window
that an older clock reading moves back leaves an entry that is merely dead; whether
`extendLocks` answers "lost" or "cancel" is left out; a history sweep that dies between two statements
is left out; a report's parent is present while it is recorded.

### Wakeups and Schedules

`takers[t]` is a run of `takerIteration`: `TakeToken` notes the version, `Claim` runs the
script or transaction, `Park` is `awaitWake` with that version, and `TimerFires` and
`PollFires` are the two sleeps it races against.  Versions are abstracted to the question
`awaitWake` asks of them: was this taker's queue signalled since its token (`signalled`).
A store call and its `wakeUp` are two steps (`announcing`), a message to another
process is a third (`channel`); in the in-memory driver they are one, which is among
the behaviours.  Equal announcements in flight are merged, a process's echo of its own
message is left out, and so are pulses (registrations of handlers).  Messages get lost
(`LoseMessage`), and processes crash and restart.

`schedules` are the store's rows.  A sweeper (`sweepers[p]`) reads the due rows, then for
each reads the clock and computes the next occurrence (`SweepNextRow`), and ticks
(`SweepTick`).  A caller (`callers[c]`) is a plain `schedule` call or a reconciling layer: it
upserts, reading the clock before each write, lists its group, and warns or removes row by
row.  `fired` is a history variable: the slots each schedule fired since it was last
anchored by a new cadence or a removal.  `changed` is another: the rows a layer is about to remove that were
written after it listed them.  A cron calendar is the multiples of a period; an
`every` grid is anchored where it was declared, as in `nextOccurrence`.  Rows with an invalid
cadence are only skipped and left out, and so is `advanceSchedule`, which has no caller.  A
sweeper that read a row which was then declared anew with the same slot but another cadence or
payload still wins the compare-and-set, which looks at the slot only.  It fires the slot with
the old payload (payloads are not in the model) and advances the row by the old cadence, which
may be beyond the next occurrence of the new one: `TicksStaleCadence` names these steps, and the
scenario `Changing` has them.

## 3. Runs

A run that has several questions about one component keeps them apart by a variable that
is chosen initially and never changes (`scenario`, `deployment`): which requests, verbs,
fibers and faults take part.  TLC explores their union, not their product.

| Run | Shows | Bounds |
|---|---|---|
| `store_lifecycle` | locks fence, terminal fields and ledger agree, the stall budget holds and no requeue resets the count, a keep count bounds the records it was applied to, a cancel is never undone, every step that makes a job claimable earlier signals its queue | 2 interchangeable jobs, under one keep policy or under two that disagree (counts of 0, 1 and 2: ties of finish time are decided by enqueue order), 3 enqueues, 2 claims, clock 0..2: enough for a stalled run, its re-run and a late ack of the first, and for a delayed job to overtake |
| `store_flows` | counters equal the rows' statuses, parked exactly while a row is pending, fail-fast wins ties, settled rows final, one fan-out per job, retention spares a flow parent that owes cancels, every call that ends a child appends one report of that outcome, also where the record goes in the same step | 1 parent that is itself a child, 2 interchangeable children, 2 claims (fan-out, and collect or a run after an operator's retry), records pruned at once, the failed ones of one name after a tick (an operator may retry them), clock 0..1 |
| `store_dedupe` | no finished job keeps its pending-mode key; two pending jobs share a key only after `retry`; a live window outlasts its job | 2 jobs, one key used in pending mode (plain, latest-wins) and one with windows of 1 and 2 ticks, 3 enqueues, 1 claim, no stall tolerated, clock 0..2 |
| `store_one_in_flight` (violation) | `retry` breaks the dedup guide's "at most one queued or running" | 2 jobs, 1 key in pending mode, 2 claims |
| `redis_reference` | every script does to the hashes what the reference driver does, keeps every index, and leaves values that the others can read | 2 jobs; scenarios: a flow of two children staged one by one, keys and keep policies under the operator verbs, the paged history sweep, pauses; chunks and pages of 1 row |
| `postgres_reference` | every commit is one operation of the reference driver, and an enqueue does nothing only for a reason | 2 transactions open at a time, interchangeable, rolled back at any time; 2 jobs; scenarios: flows, pending-mode and extended keys, windows with retry and promote, pauses with lock extension and removal, the history sweep; 2 enqueues |
| `postgres_key_sweep` (violation) | the history sweep frees a live key | 1 key, no claim |
| `flow_scenarios` | a row never says of a child what its ledger does not; the sweeper's two reads of the parent leave no orphan; every parked flow settles and every owed cancel is delivered | scenarios: 2 children, fail-fast, a relay and a sweeper; 1 child, 2 sweepers, stalls, clock 0..1; 1 child, fast path, relay and sweeper, 1 crash, 1 operator retry |
| `flow_orphan_fast_path` (violation) | the fast path's single read of the parent leaves an orphan | 1 child, 1 sweeper, fast path |
| `worker_pools` | `inflight` and `cancelling` hold nothing of a run that has ended, although two runs of one job share their entries; without a fault, a claimed job is never left without a run; a run that lost its lease takes nothing from the run that has it (`LeaseIsOwn`); cancelled is acked only on request; every accepted cancel request is honoured, even if the handler would run for ever; while handlers end, every job ends | deployments: 2 takers, late heartbeat replies, 2 claims (a zombie run beside the run that took its job over); 1 taker on the in-memory driver with 1 fault, and claims for every retry and stall.  1 intervention each (a shutdown, an unregistration or an operator's retry) |
| `worker_heartbeat` (violation) | with two takers the heartbeat misses a run that holds its lock | 1 worker, 2 takers, no fault |
| `dispatch` | without a fault no wake-up is lost, although every announcement comes late; in spite of faults queues drain; every slot of a schedule fires once, none is dropped, schedules catch up; a layer prunes its own group only | 2 processes; scenarios: 2 takers with pauses and promotes; 1 taker and 2 jobs with 1 crash or lost message; two releases of a layer and a plain call, which disagree on a schedule and its cadence; two releases and an operator who removes; two plain calls that disagree on a cadence, clock 0..2; one schedule whose jobs are run and pruned, clock 0..2 |

`CancelWanted`, `CancelArrives` and `JobsEnd` speak of the deployment with one taker on the
in-memory driver, `SweepersLeaveNoOrphan` of the scenarios without fast path, crash and operator
retry, and `FlowSettles` and `CascadesDelivered` of all.  `NoOrphan`, `HeartbeatCovers` and
`SweepersLeaveNoOrphan` are explained below.

`NoOrphan` speaks of children of a settled flow whose row says that the cancel
was delivered.  An operator who retries a failed child of a settled flow starts
it on purpose, so `SweepersLeaveNoOrphan` leaves the scenarios with operator retries out.
It leaves crashes out too, and there
they matter: a sweeper that dies between its enqueue of a missing child and its
second read of the parent leaves the same orphan as the fast path does (the comment at
`Worker.ts:1209` calls crashes anywhere in the sweep safe).

`CancelWanted` holds only where the heartbeat's calls take no time.  When its
reply comes later (`remote`), the run it reports may fail, an
operator may retry the job, and the same worker may start it again before the reply
is applied by job id: the new run is then cancelled though nobody asked for it.  This is
listed as a hazard (`Worker.ts:1091`).

`PrunesOwnGroup` excludes the rows in `changed`, that is, the race between the layer's list and its
removals, and says nothing about it.  `JobStore.ts:683` says that a reconciler "only ever prunes schedules
carrying ITS group" and that plain schedules "are never pruned"; `reconcile` lists the members of its group
(`JobSchedules.ts:166`) and then removes by key (`JobSchedules.ts:178`), so that a plain `schedule` call
or another release that writes the row in between loses it.  The model has these behaviours (scenario `Declaring`);
without the exclusion the property fails there.
`JobsNoticed` excludes states after a lost message or
crash: there only the poll helps, which is `QueuesDrain`.

The runs of all modules but `MemoryJobStore` turn the deadlock check off: when every job has settled
there is nothing to do for anyone until the next job comes (the bounds allow no
more), which is a proper end.  The store's runs have the check on.

*Symmetry* is used over ids that no operator singles out (job ids that the
requests do not name, child keys, sweepers) and never in a run with a liveness
property.

*Fairness of the workers.*  `FairSpec` has the heartbeat, the takers' steps that are
not a claim, the end of a handler that was interrupted, the stalled loop, the clock and
the restart of a stopped worker; it has neither claims nor the end of an undisturbed
handler.  `JobsEnd` assumes those two on top (`Busy`), and that a process which lost its
registration is replaced.  The loops are `Effect.forever` with their failures caught;
that handlers end on interruption is what Effect's interruption gives unless a
finalizer hangs; that a stopped worker is started again is the deployment's part (any
worker of the store would do).  Fairness is
strong only because a heartbeat on the in-memory driver, whose steps exclude
all others, comes again and again.

*Fairness* of flows (`FlowRuntime!FairSpec`): weak fairness of the child workers' claim,
of the end of each child's run, and of each sweeper's loop.  The code gives it:
takers and `flowSweepLoop` are `Effect.forever` loops whose failures are caught,
and a handler that never ends is the user's (or the timeout's) affair.  No
fairness for relays, the fast path, the parents' workers, operators, the clock or
crashes: the sweeper alone must make up for all that is lost.  `PendingAgeMs`
is 0 in that run, that is, a pending row is always old enough:
eligibility after `flowSweepMs` of real time is thereby assumed.

*Fairness of dispatch* (`Schedules!FairSpec`): weak fairness of each taker (claim, park, end of
its run), of its poll, of each process's restart, stalled loop, schedule sweep and tick.  These are
`Effect.forever` loops with their failures caught, and a handler that ends.  No fairness for
announcements, messages, `TimerFires`, callers or the clock: `QueuesDrain` rests on the poll
alone, `SchedulesCatchUp` on the sweepers alone.

## 4. Findings

1. `store_one_in_flight`: `docs/guide/deduplication.md:47` promises that "at most
   one sync per account is ever queued or running".  A job that failed has freed
   its key; `retry` makes it pending again without looking at the key, which a
   second job may hold by then.  What does hold is `OneEnqueuedPerKey`.
2. `flow_orphan_fast_path`: the comment at `Worker.ts:896` says a settle after the
   check "still converges: the marked rows make the sweeper cancel whatever we
   enqueue below".  When the sweeper's cascade runs before the enqueue it finds no
   child, swallows the not-found, and marks the row cascaded; the child enqueued
   afterwards runs although its flow was cancelled.
3. `worker_heartbeat`: `docs/guide/workers.md:82` says that the heartbeat extends "the
   locks of all in-flight jobs".  `inflight` is keyed by job id and cleared by job id
   (`Worker.ts:835`).  When a lease runs out under a running handler and another
   taker of the same worker claims the recovered job, the end of the first handler
   removes the second run from the books: it holds the lock, but is renewed no more
   and hears of no cancel request.
4. `postgres_key_sweep`: the history sweep deletes "expired windows, or pointers at vanished
   jobs" (`DrizzleJobStore.ts:491`) in one statement.  An enqueue that takes a dead key over
   meanwhile holds the row; when it commits, the DELETE re-checks the new row, but its
   subquery on `jobs` still reads the snapshot the statement began with, in which the new job does not exist.
   The key of a pending job is freed, and the next request of the key enqueues a second job.

## 5. Proofs

Assumptions of the store's proofs: `ConstantsAssumption` (finite sets of ids and child keys; requests,
delays and bounds in their types) and `NoneAssumption` (`None` is none of the
values it stands in for).  `EndsAreReported` also needs `ChildIdPerParent`: requests for one child of
one flow ask for one id, as `childJobId` (`Flow.ts:215`) computes it.

- `TypeCorrect`: `Spec => []TypeOK`.  `TypeOK` is inductive as it stands.  One
  lemma per helper (what `Finish`, `Acked`, `Revive`, `Counted`, ... return) and one
  per action; the cardinalities in `Manifest` and `SettleFlow` need finite child
  keys.
- `LocksCorrect`: `Spec => []LockInv`.  `LockInv` has three parts: locked exactly
  while active, tokens not from the future, tokens distinct.  The first alone is
  inductive under `TypeOK`; the third needs the second, since `Claim` takes the
  next token.  The argument does not go through the actions twice: each action's
  effect on locks is classified once.  Every action but `Claim` only *keeps or
  drops* a job's lock or renews its expiry (`LockStep`), `Claim` puts a fresh token
  on one unlocked job (`ClaimStep`); `LockEffects` says that every step is one of the
  two, and `LockStepPreserves` and `ClaimStepPreserves` that both keep `LockInv`.
- `CancellationSticks`: `Spec => CancelSticks`.  `LockStep` also records that a
  flagged job stays active and flagged, or becomes terminal; `ClaimStep` never
  touches an active job, so the property follows from the same classification.
- `FlowsCounted`: `Spec => []FlowInv`, which is inductive under `TypeOK`.  It speaks of one
  record and its rows at a time, so each operation is classified by its effect on such a
  pair (`FlowEffect`): both disappear, or a pair that agrees again takes their place, in which
  no settled row has changed and a manifest's count of pending rows has not grown.  `FlowEffects` says that every
  step has such an effect on every pair.  What is hard is the counting: `SettledCounts`
  and `ReportedCounts` show that moving a set of rows from pending to a settled status, or
  applying the reports of several children at once, moves the counters by the sizes of
  disjoint sets, and `ManifestCounts` that a new manifest starts right.
- `RowsAreFinal`: `Spec => RowsFinal`, and `FlowsFanOutOnce`: `Spec => FansOutOnce`, from the
  same classification: a parent that is not parked has no pending rows, none can come, so it cannot be parked again.
- `ResultsAgree`, `StallsBounded`, `KeysFreed`, `OneEnqueued`, `WindowsKept`: `ResultInv`, `StallBudget`,
  `KeyFreedWhenDone` and `OneEnqueuedPerKey` always hold, and `LiveWindowKept`.  They share one
  inductive invariant, `OutcomeInv`, since the properties about keys need those about records.
  `OneEnqueuedPerKey` is not inductive: that an enqueue finds no entry must mean that no
  job of that key is in flight.  `KeysPointBack` says so (a job in flight that never failed is
  the one its key is registered to), `KeysUnwindowed` that such an entry does not run
  out, and `LedgerOK` that a job that failed shows it in its ledger for ever, so that `retry` cannot
  bring one back that `KeysPointBack` speaks of.  Again each operation is classified once
  (`OutcomeStep`: each record stays, goes, or is followed by a right one with a longer ledger; each entry
  stays, moves its window, or is released by a job that is over or a window that ran out;
  whoever becomes terminal leaves no entry behind), with the inserting `Enqueue` as the only
  operation apart.  That `stalledCount` is the number of stalls in the ledger of a job that never
  failed is inductive: whatever appends a stall counts it, and only `retry` of a failed job sets the
  count back.
- `ReadyIsSignalled`: `Spec => WakeOnReady`; `CascadesSurvive`: `Spec => CascadesKept`;
  `EndsAreReported`: `Spec => ReportWithTransition`.  Again each operation is classified once
  (`Effect`): what it makes ready it announces (`Announced`), and it either ends no job, inserts
  one, drops records, delivers reports, or retires the jobs it ended.  Retirement prunes only
  records that owe nothing, and since a job that is not parked has no pending row (`FlowInv`), its
  rows owe before the step what they owe after it, but for a child whose report that very step delivers: a
  parent that fails fast on its last child may be pruned at once, and `CascadesKept` allows for it.
  `EndsAreReported` speaks of the call and not of the record, which retention may drop in the same step: that
  the report carries the outcome the call gives is read off each action before retention.
  That a report is the only one of its child needs `ReportInv` on top: stamps lie behind the counter
  (`StampsBehind`), and children have the ids of their requests (`ChildrenOwnIds`).
- `CountsKept`: `Spec => []KeepCountHolds`, for requests with any keep policies and without a
  hypothesis about them.  A record is *judged* by the policy of another when it
  carries the same one or finished before it.  `FinishedBehind` (no record is finished after the clock)
  makes a job that ends now judge all others.  Only a step that ends jobs can put a record behind too
  many newer ones.  Of those it ended, the last whose policy is the one in question has
  the last word (`LastTurn`): at its turn it counted the whole group (`CountOfRetired`), and what came later only drops.  If it
  ended none with that policy, the judged group has only lost members (`CountOfUntouched`).

- `NoWakeupLost`: `Spec => []JobsNoticed` of `Schedules`, for any number of processes, takers,
  queues and jobs.  `JobsNoticed` is not inductive: it says that *some* taker is awake, and
  what matters is why the others may sleep.  The invariant is `Vigilant`: a taker that is neither
  attentive nor expecting word *sleeps well* (`SleepsWell`), that is, its queue is paused or holds
  nothing that is due before the taker's own deadline.  It does not go through the actions
  one by one either: every step is *noticed* by every taker (`Noticed`), that is, it brings its queue nothing new
  (`Undisturbed`), or sends it word, or wakes it, or is its own empty claim, which looked at
  the whole queue; one lemma per action shows this, and `VigilantStep` draws the conclusion once.
  `Base` beside it has the types, that a busy taker runs a job of its own, and that the
  takers of a dead process are idle.
- `SlotsFireOnce`, `SlotsNotDropped`: `Spec => FiresOnce`, `Spec => NoSlotDropped`.  A sweeper's
  slot lies before the occurrence it is about to advance to, and that one not beyond
  the clock's next occurrence (`TicksAhead`, from the arithmetic of `NextOccurrence`: it lies ahead, and
  grows with the clock).  So what fired lies behind its row (`FiredBehind`), and a tick
  whose slot is the row's has not fired.  That nobody else makes a job of a slot's id
  is `EnqueuesOwnIds`.
- `LayersPruneTheirOwn`: `Spec => PrunesOwnGroup`, from `VictimsListed` (what is listed and not
  written since is of the group and undeclared).
- `TypeCorrect` of `Schedules`, from the same invariant `Inv`.

The five theorems of `SchedulesProofs` rest on `TakersAssumption`, `ScenariosAssumption`,
`SchedulesAssumption` (slots' ids are ids of jobs and no plain job's), `DeclaresAssumption` and
the module's own `NoneAssumption`.

*The worker.*  `WorkerProofs` rests on `ConstantsAssumption` and `NoneAssumption` of `Worker`
(finite job ids and slots, the deployments and bounds in their types, `None` apart), from which it derives those
of the store, and takes the store's theorems from an instance of the store's proofs.

- `StoreOfWorkers`: `Spec => ST!Spec`.  Every step of every worker is a step of the store or
  leaves it alone, so `LocksCorrect`, `ResultsAgree` and the other theorems of the store hold of the store
  the workers use.  `TypeCorrect` (`TypeOK`) needs the store's type invariant.
- `BooksCorrect`: `Spec => []BooksInOrder`.  Two runs of one job share its entry in `inflight`,
  so an entry may be of another run than the one that ends; what an entry says is still of a
  taker that runs this job, and a cancel on the books is of a running taker that was interrupted.
- `AttendedCorrect`: `Spec => []Attended`, that without a fault a claimed job has its run.  A
  step of the store that is not the taker's own keeps or drops a lock and `Claim` puts a fresh
  token on one job: the store's classification (`LockStep`, `ClaimStep`) is cited here, so that
  no action of the store is looked at again.
- `CancelsAreWanted`: `Spec => CancelWanted`, for one taker on the in-memory driver.  The
  invariants are `CancelsWanted` (a run that is about to end as cancelled was asked to, as long as it holds its lock)
  and `BeatCurrent` (what a heartbeat is about to apply is still true, since there nothing runs
  between its calls).  That a run which was asked to stop can only end as the store says
  is the section "How a running job ends" of `MemoryJobStoreProofs`.

*The Redis driver.*  `RedisJobStoreProofs` rests on `ConstantsAssumption`, `NoneAssumption` and
`ScenariosAssumption` of `RedisJobStore` (finite job ids and child keys, requests, delays and bounds in their
types, `None` apart, scenarios within the bounds).  Chunk and page sizes, names, queues and
dedup keys are arbitrary.

- `IndexesCorrect`: `Spec => []IndexInv`, and `TypeCorrect`: `Spec => []TypeOK`.  A script is a
  composition of helpers that leave the keys half-way: the job is out of `p:delayed` and not in
  `p:waiting` yet, or counted under a state its hash does not show.  `RedisJobStoreKeys` has a
  predicate for each such stage (`Right`, and `RightBut(id)`: right but for the place of one job)
  and one lemma per helper that says from which stage to which it leads and what it leaves alone;
  an action is then a chain of these lemmas.  Scripts that work through a page
  (`recoverStalled`, `promoteDue`, retention, the sweeps) are folds over sets of jobs: `FoldInduction` and
  `FoldWithin` show by induction on the size of the set that what every single application keeps the fold keeps.
  `IndexInv` is not inductive, for a reason of its own: the chunks of a fan-out ack put
  rows under a flow one script at a time, and a chunk that met a row some other script had settled
  would open it again and leave its member in `p:flowcascade`.  `RestIsNew` excludes it: as long as the worker
  of an unfinished ack holds the job and no manifest is there, the rows it still has to stage do not exist.
  That is nobody else's to break, since every other script is *calm* (`Calm`): it adds no row
  and gives no active job another holder; `claim` does, with a token nobody has had, so that
  the old worker's ack is not about a job it holds.

*The flow runtime.*  `FlowRuntimeStores` and `FlowRuntimeProofs` rest on `ConstantsAssumption`
and `NoneAssumption` of `FlowRuntime`: finite sets of flows and child keys, scenarios and bounds in their types,
`None` apart.  The sets of sweepers and relays are arbitrary.

- `StoresOfFlows`: `Spec => PT!Spec /\ CT!Spec`.  Whatever fan-outs, relays, sweepers, operators
  and crashes do are steps of the two stores' specification, so that `FlowsCounted`, `RowsAreFinal`
  and `FlowsFanOutOnce` hold of the parents' store and `ResultsAgree` of the children's.
  `TypeCorrect` (`TypeOK`) comes with it; that relays deliver to flows needs the children's
  records to carry their own parent (`ChildrenKnown`).
- `RowsAreTruthful`: `Spec => []RowsTruthful`.  A row is settled by a report that was read from
  the child's store some steps earlier, so what matters is everything under way.  `ToldInv` says of it that it is in the
  child's ledger: entries of the outbox (`EntriesTold`), the pages relays hold (`PagesTold`),
  the outcome in a sweeper's hand (`SweepsTold`); and a cancelled child ends as nothing else
  (`CancelsFinal`).  Each step is classified by what it makes of one child's record
  (`ChildEffect`: inserted, revived by an operator, or carried on with a longer ledger) and of one
  row (`RowStep`: the same, opened pending, settled as cancelled with its flow, reported, or marked
  cascaded); ledgers only grow, so what was told stays true, and a reported row says what was told.
- `NoOrphanLeft`: `Spec => []SweepersLeaveNoOrphan`.  The property is not inductive: between a
  sweeper's enqueue of a missing child and its second look at the parent the orphan is
  there.  `OrphanInv` says who will see to it: a child that lives although the cancel its row
  owes counts as delivered has just been enqueued by a sweeper that will still look at the parent, or a
  sweeper is about to cancel it (`NoLoose`).  There is nobody else: in these scenarios no fast path runs (`Quiet`)
  and no operator revives a child (`Numbered`: every child took an enqueue-order number, so that the others count the revivals), a
  sweeper cascades only cancels that rows owe (`CascadesOwed`), a delivered cancel leaves a child that is over,
  missing or flagged, and a cancelled row's parent has settled (`RowsTruthful`), so that the
  second look sees it.

Model-checked only:

- `FailFastWins` of the store and `LeaseIsOwn` of the workers.
- `ImplementsReference` of both drivers: within the prover's reach, but the
  scripts' and transactions' steps are large.
- Liveness (`FlowSettles`, `CascadesDelivered`, `CancelArrives`, `JobsEnd`, `QueuesDrain`,
  `SchedulesCatchUp`), and anything that needs ENABLED: out of the prover's reach.

## 6. What is left

In the order of what it would add:

1. proofs of the drivers' refinements, whose steps TLC checks now;
2. an abstract job lifecycle and an abstract flow, which the store's module would implement;
3. a relay that pages past entries it cannot route, with several child stores per flow;
4. list pages, metadata indexes and the backoff of retries, as algorithms against reference
   definitions;
5. the two places of the in-memory driver that yield in the middle.

## 7. Not modelled

- Metrics, the conformance suite, examples, lint rules and the site: no decision of the
  library depends on them.
- Reads that change nothing (`list`, `counts`, `getJob`, `getAttempts`, list pages and
  cursors) and the indexes only they use.
- Encoding and decoding of payloads, exits and metadata; validation that ends before any
  call of the store (`Job.ts`, `Flow.ts`).
- Handler timeouts and backoff arithmetic: a run may end with any outcome at any time, and
  a retry may come with any delay of a small set.
- Connection handling of the Redis and Postgres clients, beyond the loss of messages and of
  transactions.
