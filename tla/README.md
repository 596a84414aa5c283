# A verification project for jobx

jobx is an in-process job runner for Go: `Submit` hands a named job to a pool of
workers through a bounded queue, possibly later (`SubmitAt`, `SubmitAfter`), with
retries, conflict policies for jobs of the same name, cancellation, an optional
store, and a `Scheduler` that submits periodically. This directory holds TLA+
models of that code, the TLC configurations that check them, and proofs checked
by TLAPS. Paths below are relative to the repository; `core/` is
`src/internal/core/`.

## 1. Inventory

| Component | State it keeps | Operations | What is hard |
|---|---|---|---|
| Ready queue (`core/ready_queue.go`) | `items`, `closed`, a one-place channel `notify`, `closedCh` | `push` (block or drop), `pop`, `remove(id)`, `close`, `signal` | pushes and workers wait on the same channel; lost wake-ups; close against blocked callers |
| Submission and conflicts (`core/dispatcher.go`) | `running`, `inFlight` (name -> ids), `jobNames` | `Submit*`, `applyConflict`, `enqueueReady`, rollback | every early return has to undo what was done; check then act against Shutdown and other submissions |
| Workers and retry (`core/worker.go`) | `executing` (id -> cancel func), the entry in hand | `worker`, `runEntry`, `scheduleRetry` | the deferred clean-up of one attempt races its own retry on another worker |
| Cancellation (`core/dispatcher.go`) | `cancelled` (set of ids) | `Cancel`, `cancelByIDLocked` (also for displaced jobs) | several steps without a common lock, while the entry moves heap -> loop -> queue -> worker |
| Delay loop (`core/dispatcher.go`) | `delayHeap`, `signal`, a timer | `pushDelayed`, `delayLoop`, `popDue`, `drainDelayed` | a wake-up for an earlier entry must not be lost between look and sleep; may block in `push` and must still stop; an ignored push error |
| Shutdown (`core/dispatcher.go`, `core/worker.go`) | `stopCh`, `wg`, `shutdownOnce` | `Shutdown`, `waitWorkers` | termination; what happens to submissions already past the gate |
| Status table (`core/dispatcher.go`) | `statuses`, `statusOrder` | `markStatus`, `JobStatus` | written from all goroutines in any order; evicts ids of live jobs; map and list must agree |
| Store and `Restore` (`core/store.go`, `core/dispatcher.go`) | rows of an external store | `Save`, `Delete`, `List`; `Restore` after a restart | a row must exist while the job lives and not afterwards, whenever the process ends; `Restore` runs beside the workers it feeds |
| Scheduler (`core/scheduler.go`) | `entries`, `stopped`, one goroutine per entry | `Every`, `Cron`, `OneShot`, `Stop`, `Shutdown` | registration against stop and shutdown; a failed fire ends the entry |
| Cron expressions (`src/cron/cron.go`) | none after `Parse` | `Parse`, `Next`, `NextN` | day-of-month/day-of-week union, month and year boundaries, time zones |
| Options, jobs, errors, hooks, facade | configuration | validation, logging, metrics | no protocol of their own |

How they interact. A `Submit` call runs on its caller's goroutine: it takes the
name (`applyConflict`), passes the `running` gate, saves the job, and puts the
entry in the queue or the heap. The delay loop (one goroutine) moves due entries
from the heap to the queue with blocking semantics. Each worker pops an entry,
runs the handler, and either ends the job or puts a copy with `Attempt + 1` back
in the heap. `Cancel`, and a `Submit` that displaces others, search the heap and
the queue, mark the id in `cancelled`, delete the row, and call the cancel func
registered in `executing`. `Shutdown` clears `running`, closes `stopCh` and the
queue, and waits. The shared state is protected piece by piece (`q.mu`,
`delayMu`, `inFlightMu`, `statusMu`, sync.Map): no operation on a job is atomic.

What makes each part correct: the queue is a bounded FIFO that loses no entry
and no wake-up and lets everybody go when closed; a job is in one place, its
attempts never overlap and are bounded; same-name jobs exclude each other under
Skip and Replace, and a name is always freed; a row exists exactly as long as
its job may still run; Cancel has effect; Shutdown ends, after what was accepted
before it has run. The hazards are listed line by line in `PROJECT.json`.

## 2. Modules

| Module | Models | Role |
|---|---|---|
| `BoundedQueue` | what the queue promises | abstract specification |
| `ReadyQueue` | `core/ready_queue.go` with its goroutines | refines `BoundedQueue` |
| `QueueLemmas` | | what append, tail and removal do to a sequence |
| `ReadyQueueProofs` | | theorems about `ReadyQueue` |
| `MCReadyQueue` | | instances for TLC |
| `JobLifecycle` | what the dispatcher promises about one job | abstract specification |
| `StatusTable` | `markStatus` and its tables | used by `Dispatcher` |
| `Dispatcher` | `core/dispatcher.go`, `core/worker.go` | refines `JobLifecycle` |
| `MCDispatcher` | | instances for TLC |
| `DispatcherProofs` | | theorems: types, custody, cancellation, statuses, the table |
| `DispatcherJobProofs` | | theorems: names, shutdown, rows, the refinement of `JobLifecycle` |
| `Restart` | the end of the process, and `Restore` | extends `Dispatcher` |
| `RestartProofs` | | theorems about `Restart`, on those about `Dispatcher` |
| `MCRestart` | | instance for TLC |
| `DelayLoop` | the delay loop of `core/dispatcher.go`, with time | beside `Dispatcher` |
| `DelayLoopProofs` | | theorems about `DelayLoop` |
| `MCDelayLoop` | | instance for TLC |
| `Scheduler` | `core/scheduler.go` and the goroutines of its entries | over an abstract dispatcher |
| `SchedulerProofs` | | theorems about `Scheduler` |
| `MCScheduler` | | instances for TLC |
| `Cron` | `cron/cron.go` | sequential, on a parametric calendar |
| `CronProofs` | | theorems about `Cron` |
| `MCCron` | | instances for TLC |

### 2.1 ReadyQueue

`items`, `closed` and `token` are the fields of the struct (`token`: the buffer
of `notify` holds a value; `closedCh` is closed exactly when `closed`). `pc` says
where each goroutine is. There is a goroutine per push, the workers, and the one
that closes. `Dropping` is the set of pushes with `drop = true`. Under
QueueFullBlock it is empty; under QueueFullDrop it holds the submissions only, for
the delay loop (`dispatcher.go:464`: due jobs and retries) and `Restore`
(`dispatcher.go:218`) push with `drop = false` whatever the policy. So both policies
have pushes that wait on `notify` beside the workers.

| Code | Actions |
|---|---|
| `push` | `PushCall`; `PushAppend` (l.27-33) or `PushFull` (l.34-41: full, shutdown, or wait); the select: `SelectNotify`, `SelectClosed`, `Park`, `PushCtx` |
| `pop`, called in a loop by `worker` | `PopTake` (l.54-61), `PopEmpty` (l.62-66), the same select, `WorkerLoop` (the handler ends) |
| `signal` | `Signal`: hand the value to one parked goroutine, or fill the buffer, or drop it |
| `remove`, `close` | `RemoveEntry`, `Close` followed by `Signal` |

A select is two steps: look (`select`), and sleep when nothing is ready
(`parked`). A goroutine is woken by a sender (`SignalParked`) or by the close of
`closedCh` (`Close`). The runtime serves parked goroutines in FIFO order; the
model lets it pick any, so what is shown does not depend on that order. (The
counterexample of `ReadyQueueBlockServed` needs a single sleeping worker and a
single sleeping push at a time, so it does not depend on it either.) `popped` and
`removed` are history variables.

### 2.2 Dispatcher

One job per `Submit` call, identified by the job's id. The queue is used through
`BoundedQueue`: an append or a pop is one step, justified by `QueueCorrect`.

| State | Code |
|---|---|
| `spc` | progress of `SubmitWithOptions`, or its result |
| `inFlight` | the union of the `inFlight` sets; `NameOf` gives the name |
| `status`, `statusOrder` | `statuses`, `statusOrder`, written through `StatusTable!Mark` |
| `ready`, `heap`, `attempt` | `ready.items`, `delayHeap`, `Attempt` of the newest entry |
| `row` | the stored row's `Attempt`, or `NoRow` |
| `cancelled`, `executing` | the tables of the same names; `executing[j]` is the worker whose cancel func is registered |
| `ctxDone` | workers whose current handler context has been cancelled |
| `wpc`, `wjob` / `dpc`, `djob` | a worker in `runEntry` / the delay loop in `popDue` |
| `victims`, `cpc`, `cjob` | `cancelByIDLocked`, run by the client or by a `Submit` that displaces |
| `sh` | `Shutdown` |
| `asked`, `starts`, `late`, `early` | history: Cancel calls made; handler starts; starts after Cancel returned; jobs accepted before Shutdown |

| Code | Actions |
|---|---|
| `applyConflict` (l.290-324) | `SubmitSkip`, `SubmitAdmit`, then the displaced jobs through `CancelStep` |
| `SubmitWithOptions` (l.148-192) | `SubmitGate` (running), `SubmitPersist`, `SubmitReady`/`SubmitBlock`/`SubmitFull`/`SubmitCtx` or `SubmitDelayed`, `SubmitMark` |
| `delayLoop`, `popDue`, `drainDelayed` | `DelayTake`, `DelayCheck`, `DelayPush`, `DelayMark`, `DelayStop`, `DelayDrain`, `DelayExit` |
| `worker`, `runEntry`, `scheduleRetry` | `WorkerPop`, `WorkerExit`, `WorkerCheck`, `WorkerStart`, `WorkerReturn`, `WorkerMark`, `WorkerRetry`, `WorkerRelease`, `WorkerErase` |
| `Cancel`, `cancelByIDLocked` | `ClientCancel`, `CancelHeap`, `CancelQueue`, `CancelErase` |
| `Shutdown`, `waitWorkers` | `ShutdownBegin`, `ShutdownClose`, `ShutdownDone`, `ShutdownTimeout` |

Where steps are merged, and why nothing is lost by it:

- `jobNames` is left out. It only decides whether `cancelByIDLocked` calls
  `releaseInFlight`, which does nothing for an id that is not in flight; the one
  window in which an id is in flight without a name is before `Submit` has
  returned it, and there only a displacing `Submit` can cancel it, which has
  already removed it.
- `ready.remove`, `cancelled.Store` and the release are one step. A pop between
  the first two would be followed by the worker's test of `cancelled` either
  before the mark (the same as a pop just before this step) or after it.
- `store.Delete`, the lookup in `executing` and the status are one step. Of the
  deferred function of `runEntry`, `executing.Delete` and `releaseJob` are one
  step and `store.Delete` another: a crash can come between them, and a job of the
  same name can be admitted there.
- `persist` fails for the jobs in `StoreFails` only. `scheduleRetry` and the
  deletions ignore the error of the store; they are modelled as succeeding,
  except for the rollback under an ended ctx (`SubmitCtx`).
- Handlers are opaque: `WorkerReturn` chooses success or failure. A timeout, a
  panic and an error are the same outcome for the dispatcher. A handler always
  returns (see fairness). The missing-handler branch of `runEntry` cannot be
  taken, as handlers are never unregistered and `buildEntry` tests for them.
- Time: `popDue` takes jobs that are due; the model lets any job of the heap be
  the next one. Timers and the order of the heap are checked in `DelayLoop`.
- `SubmitFull` and `SubmitReady` test `closed` and the length in the order of
  `push`: an append succeeds on a closed queue that has space.

`StatusTable` is `markStatus`: `Overwrite`, `Insert`, and `Evict`, which forgets
the id met first, whatever its status. `Cancel` answers ErrJobNotFound for a job
that was forgotten, which is the guard `status[j] # "unknown"` of `ClientCancel`.

### 2.3 Scheduler

One entry per call of `Every`, `Cron` or `OneShot`. The dispatcher is seen as a
fire sees it: `open`, and the entries whose last job is in flight (`inFlight`,
which matters under ConflictSkip). `MayRefuse` adds refusals for want of space or
of the store; a submission that waits for space is a fire that takes long.

| State | Code |
|---|---|
| `entries`, `stopped`, `wg` | the fields of the struct |
| `stop`, `done` | entries whose `stop`, `done` channel is closed |
| `rpc`, `gpc` | where a registration, and the goroutine of an entry, is |
| `tpc`, `target` / `hpc`, `batch` | a call of `Stop` and its entry / of `Shutdown` and the entries it copied |
| `known` | history: entries whose registration had returned when Shutdown began |

| Code | Actions |
|---|---|
| `register`, then `wg.Add` and `go` | `Register`, `Launch`: two steps, nothing is held in between |
| the goroutine | `GoUnsolvable` (cron without solution), `GoTimer` or `GoStopped` (the select), `GoFire` or `GoFireFails`, then the deferred calls `GoRemove`, `GoClose` |
| `Stop` | `StopMissing`, or `StopFind`, `StopClose`, `StopReturn` |
| `Shutdown` | `ShutdownAgain`, or `ShutdownTake`, `ShutdownClose` (one channel at a time), `ShutdownWait`, `ShutdownDone` or `ShutdownTimeout` |

`close(entry.done)` and `wg.Done` are one step (`GoClose`): nobody waits for both.
Timers may expire whenever the select is reached, and also when the stop channel
is closed already. `List` and the snapshots change nothing; `ListIsLive` says what
they can show. The goroutine that Shutdown starts to wait for `wg` has no effect
but the closing of its channel, which is `ShutdownDone`.

### 2.4 Cron

`Parse` and the scan of `Next`, one action per branch of its loop, and `NextN`
(`NextRound`). An expression is given as the set of parts of each field
(`*`, `a`, `a-b`, each with a step); splitting the text and converting digits is
left out, the ranges and the steps are not. `NextInSet` gives the set of which the
code takes the least. Instants are whole seconds: a fraction of `after` is dropped
by the first statement of `Next`.

The `time` package is external and modelled by what it does: `Offset` is the
lookup of the zone, whose offset changes at most once; `FromWall` is `time.Date`,
which looks up the offset at the wall clock taken for UTC and again at the result,
so that a wall clock that does not exist, or exists twice, gets the instant Go
gives it. The calendar is a parameter: the seconds per minute, ..., and the days on
which the months of one cycle begin (`MonthStart`, `Cycle`). A cycle is what the
Gregorian calendar repeats every 400 years; `FirstDay` continues it in both
directions, and `MonthAt` finds the month of a day. `MonthLimit` is the 31 of
`parseField(.., 1, 31, ..)`: no month is longer (`CalendarAssumption`).

### 2.5 DelayLoop

`Dispatcher` lets any delayed job be the next one. `DelayLoop` looks at the same
code alone, with a clock. `where[j]` says where the entry of job `j` is (`new`,
`coming` between the choice of its `RunAt` and `heap.Push`, `heap`, `hand` of the
loop, `ready`, `gone`), which is enough because an entry is in one place
(`OneCustody`). `senders` counts the goroutines between `heap.Push` and the send on
`signal`; `token` is the one place of that channel. `next`, `wait` and `due` are the
locals of the loop, `timer` the instant its timer fires.

| Code | Actions |
|---|---|
| `SubmitWithOptions`, `scheduleRetry` | `Submit`, `Retry` fix `RunAt`; `Push`, `Send` are `pushDelayed` |
| `delayLoop` | `LookEmpty`/`LookFirst` (under the lock), `Measure` (`next - now`), `Arm`, then the select: `TimerFires`, `SelectSignal`, `SelectStop` |
| `popDue` | `PopTake`, `PopCheck`, `PopPush` until `PopDone`, all against the clock it read on entry |
| `drainDelayed` | `Drain`, `DrainDone` |
| `cancelByIDLocked` | `CancelHeap`, `CancelMark` |

`Tick` may come between any two of them. Every `RunAt` lies within `Horizon`; beyond
it time goes on uncounted, which lets an armed timer fire. `Backoff` is
`RetryDelay << Attempt` in unbounded integers: to overflow int64 the job must have
waited through all the shorter delays, which takes centuries. The clock by which
`RunAt` is computed and the clock of the loop are taken for one (see 5).

### 2.6 Restart

`Restart` extends `Dispatcher` with `Crash`, which resets every variable but the rows
and may come between any two steps (each step writes the store at most once), and
with `Restore` on the new dispatcher, interleaved with its workers and delay loop:

| Code | Actions |
|---|---|
| `Restore` (l.195-227) | `RestoreList`; per row `RestoreOrphan` (no handler) or `RestoreTake` (name and attempt), `RestoreLater` or `RestoreNow`, `RestoreMark`; `RestoreDone`, `RestoreFail` |

`todo` is the list `List` returned, `rjob` the loop variable, `rs` the position. A
crash loses Submit calls that had not returned (`lost`, which `Dispatcher!TypeOK` allows
for this reason): their callers are gone. A
job whose `RunAt` lay ahead, or a retry, may find it still ahead (`RestoreLater`) or
passed (`RestoreNow`). `ended` and `cut` are history: jobs an attempt of which has
returned (or which were drained or orphaned), and crashes that hit an attempt.
Nothing is submitted before `Restore` has returned, which is how the documentation
and the tests use it.

## 3. Runs

`CHECK_DEADLOCK FALSE` is set everywhere: the system rests when no client acts,
and stops after Shutdown. TLC explores every passing run to the end.

| Run | Bounds | Shows |
|---|---|---|
| `ReadyQueueBlock` | 3 pushes, 2 workers, capacity 1, one ctx, two removable ids | `TypeOK`; `ImplementsBoundedQueue`; `CloseReleasesAll`; `DrainedByLastWorker` |
| `ReadyQueueDrop` | 3 pushes, two of which drop, 2 workers, capacity 2, one ctx, two removable ids | `StrandedOnlyByPush`, `StarvedOnlyByPush` |
| `ReadyQueueBlockServed` | as Block, no ctx, no remove | violates `EntriesServed` |
| `DispatcherSkip` | 2 same-name jobs (one immediate with 1 retry and cancellable, one delayed), 2 workers, capacity 1, store | `TypeOK` and eight properties: see 3.2 |
| `DispatcherReplace` | 3 same-name jobs, 2 workers, capacity 1, Drop, store failing for one, status table of 2 | `SameNameExclusive`, `NoInFlightLeak`, `StatusTableOK` |
| `DispatcherShutdown` | 2 jobs, 1 worker, capacity 1, one delayed with 1 retry, one with a ctx; ctx of Shutdown may end | `ShutdownTerminates`, `SubmitsReturn` |
| `DispatcherCancel` | 1 job with 1 retry, cancellable, 2 workers | violates `CancelReachesHandler` |
| `DelayLoop` | 2 delayed jobs, delays of 1 or 2, one retry each, one cancellable, clock up to 4 | `TypeOK`, `NeverOversleeps`, `NeverEarly`, `DelayedServed` |
| `Restart` | 2 same-name jobs (one with 1 retry, one delayed and perhaps without handler), 1 worker, capacity 1, 2 crashes | `RTypeOK`, `NothingLost`, `SingleCopy`, `NameHeld`, `AttemptsBounded` |
| `Scheduler` | a cron entry (may have no solution), a one-shot, one Stop, two Shutdowns (one ctx may end), Skip, refusals | `TypeOK` and seven properties: see 3.3 |
| `Cron` | 720 expressions, 5 zones, 4 starts, two rounds | `TypeOK`, `NextExact`, `NextReturns` |
| `CronMidnight` | one hour each, a zone that skips midnight | violates `NextReturns` |

Why the bounds are enough to be interesting. With capacity 1, three pushes and
two workers, the queue fills, empties, and has a push and a worker asleep
together; capacity 2 lets both workers need a wake-up, and two dropping pushes fill
the queue in front of the one that waits, which takes the wake-up of a worker. In `Dispatcher`, two jobs
make the queue full, share a name, and overlap on two workers; one retry is
enough for two attempts to meet (the clean-up of the first against the second),
and three jobs under Replace give a displaced job that is itself displacing.
Three jobs against a status table of two make it evict, also an id that is marked
again later. Workers are interchangeable in the runs that check invariants, where symmetry is
used; runs with liveness properties use none.

In `DelayLoop` two jobs let one be pushed in front of the other, or cancelled, while
the loop is anywhere between look and sleep; a clock up to 4 lets both be due
together, one after the other, or one be due while the other is on its way to the
queue, and leaves time for a retry that should not be. In `Restart` one worker and a queue of one make `Restore` wait, so that the
second crash can hit it anywhere; two crashes also hit two attempts of one job. Two
workers and two crashes together are too many states, and what two workers do to
each other is what `DispatcherSkip` checks.

In `Scheduler` a cron entry can do all that an `Every` entry can, and ends by
itself besides; with a one-shot, a Stop and two Shutdowns every pair of ways to
take an entry out of the table meets. The theorems of `SchedulerProofs` lift the
bounds for all its safety properties. In `Cron` two values per unit (three hours)
are enough for a field to hold or not, before or after the clock; months of 2, 3
and 4 days and years of 2 months give ends of months and years and a date that
exists only now and then; the starts lie at the end of a day and of an hour,
before, in and after the change of the offset. The zones are UTC, one hour west,
and summer time beginning west and east and ending west of Greenwich, not at
midnight. Zones left out, because `NextExact` fails there: half-hour offsets
(`Truncate(time.Hour)` is not the wall clock's hour), summer time that begins at
midnight (`CronMidnight` in the west; in the east the midnight after is missed).
When summer time ends in the east, `time.Date` gives the second of the two
instants a repeated hour has, so that zone is left out too.

### 3.1 Fairness

Weak fairness on each goroutine: the Go scheduler runs every goroutine that can
run. It covers `WorkerLoop` and `WorkerReturn` (handlers return) and `DelayTake`
(timers fire), without which nothing can be promised. No client has to submit,
cancel or shut down, and no ctx has to end. Weak fairness is enough because a
mutex is held for one step only and a parked goroutine is woken by the sender's
step. Nothing is assumed about which of several ready cases a select takes.

In `Scheduler` the goroutine of an entry may find its timer expired each time it
reaches the select, so that weak fairness would let it fire for ever with its stop
channel closed. Go's select picks at random among ready cases, which strong
fairness on `GoStopped` expresses. A submission is assumed to return; no job has
to end, no timer to expire. `Cron` is one sequential call: weak fairness on `Next`.

In `DelayLoop` fairness is on `Tick` (time passes), `Send` (a goroutine that has
pushed goes on to its send) and `LoopStep` (the loop runs, its timer fires, and the
ready queue finds room). Nobody has to submit, retry, push, cancel or stop. The
properties of `Restart` are safety properties.

In `Dispatcher` the wake-ups of the queue are assumed not to be lost: a worker
pops when there is something to pop, a blocked submission appends when there is
room. On a closed queue `DrainedByLastWorker` and `CloseReleasesAll` justify that. On
an open one neither policy does: `ReadyQueueBlockServed` refutes it under
QueueFullBlock, and under QueueFullDrop a push of the delay loop or of `Restore` takes
the part of the blocked submission (3.4). The liveness properties of `Dispatcher`
are therefore about a closed dispatcher only.

The same loss bounds what two other assumptions are worth. That a submission returns
(`StopReturns`, `ShutdownReturns` of the scheduler) and that the ready queue finds room
(`DelayedServed`) can be relied on only while no wake-up is lost, or once the
dispatcher is closed (`SubmitsReturn`); on an open dispatcher both may fail in the way
`ReadyQueueBlockServed` shows. `StrandedOnlyByPush` and `StarvedOnlyByPush` say how far
the loss can go. The scheduler's two also assume that `Next` returns, which
`CronMidnight` refutes for one kind of zone.

### 3.2 Properties of the queue and the dispatcher

The refinement of `BoundedQueue`, `CloseReleasesAll` and `DrainedByLastWorker` are the
guarantees of the queue. Of its wake-ups there remains, for any mix of pushes:

- `StrandedOnlyByPush`: an entry is queued beside a waiting worker, with no wake-up on
  its way, only if a push waits on `notify` too, or waited until its ctx ended; and
  then the queue is full, unless `remove`, which signals nobody, has taken an entry out.
- `StarvedOnlyByPush`: an entry that stays in an open queue for good does so behind such
  a push, which sleeps for good or has given up. Where no push ever waits, every
  accepted entry is served.

Of the dispatcher:

- `OneCustody`: an entry is in one place: the heap, one slot of the queue, the
  delay loop's hand, or one worker.
- `ImplementsLifecycle`: a job is accepted or refused once, its attempts do not
  overlap and are at most `MaxRetries + 1`, and what is over stays over.
- `LateStartsBounded`: after Cancel has returned the handler starts at most once
  more, by a worker that had read the cancelled set just before.
- `SameNameExclusive`: two live, not yet retried, not displaced jobs of one name
  do not exist under Skip and Replace. The restriction to the first attempt is
  needed: `runEntry` frees the name of a job that waits for its retry.
- `NoInFlightLeak`: a settled job has left the in-flight set.
- `NoGhostRow`: the row is gone once the job is settled. `Restart` checks that it is
  there until then (`NothingLost`).
- `FinalMeansFinal`: "succeeded" and "failed" are shown only for jobs that will
  not run again.
- `EarlyJobsRun`: when Shutdown returns nil, every immediate job accepted before
  it was called has run or was cancelled.
- `StatusTableOK`: the map and the list of the status table hold the same ids, each
  once and within the limit, and an accepted job is unknown only to a full table.
- `ShutdownTerminates`, `SubmitsReturn`: Shutdown ends, and no caller stays in
  Submit.

`NoInFlightLeak` and `NoGhostRow` exempt the closed dispatcher, in which the
due job of a `popDue` whose push fails, and a submission that comes too late, keep
their name and their row.

Of the delay loop:

- `NeverOversleeps`: once the loop has looked at the heap, no entry is due before the
  instant it looked up, unless a wake-up is in the channel or about to be sent. One
  place is enough for any number of pushes, because the push precedes the send.
- `NeverEarly`: no entry leaves the heap before its `RunAt`, also when the entry the
  timer was armed for has been cancelled.
- `DelayedServed`: every entry leaves the heap, unless the dispatcher stops.

Of a restart:

- `NothingLost`: until an attempt of an accepted job has returned, or Cancel has been
  asked to drop it, the job has a row, and is queued, delayed or running, or `Restore`
  is about to see to it (a closed dispatcher may lose sight of it, but keeps the row).
- `SingleCopy`: no job is queued twice, counting the list `Restore` works through.
- `NameHeld`: a job that waits for, or is in, its first attempt holds its name, unless
  it is being cancelled.
- `AttemptsBounded`: each handler call beyond `MaxRetries + 1` is owed to a crash that
  hit an attempt.

### 3.3 Properties of the scheduler and of cron

- `ClosedOnce`: no two of Stop, Shutdown and the end of an entry close the same
  `stop` channel (which would panic).
- `QuietAfterStop`: after Stop has returned, the goroutine of the entry has ended,
  although its timer may have expired meanwhile.
- `QuietAfterShutdown`: what a nil from Shutdown says. The call that waited leaves no
  goroutine of an entry registered before. A second call returns nil without waiting
  (`scheduler.go:262`), and goroutines may then still run, but only while the first
  call is at work or after its ctx has ended, and whatever may still fire has been told
  to stop or is about to be.
- `ListIsLive`: no dead entry is listed, and none after Shutdown.
- `StragglersTold`: a registration caught by Shutdown between `register` and
  `wg.Add` starts its goroutine later, with its stop channel closed. This is what
  remains true of entries that `wg.Wait` does not see.
- `StopReturns`, `ShutdownReturns`: also for an entry that is not started yet.
- `NextExact`: what `Next` returns is the least later instant that matches, where
  "matches" (`Matches`) is read off the text of the expression and the wall clock,
  without any of the jumps; it gives up only when nothing matches up to the limit.
- `NextReturns`: the loop ends.

### 3.4 Where code and documentation disagree

1. Lost wake-up under QueueFullBlock (`ready_queue.go:43`). Capacity 1. Both
   workers find the queue empty. A push appends e1 and stores the token; a second
   push finds the queue full and, in its select, takes the token meant for a
   worker; it locks, finds the queue still full, and sleeps. The workers then
   reach their selects and sleep too: an entry is queued, everybody waits. The same
   happens under QueueFullDrop when the second push is one of the delay loop or of
   `Restore`: every later submission is then refused with ErrQueueFull while all
   workers sleep. A later signal may come (a push through space that `remove` made,
   or `close`), but no submission to a full queue sends one. If the second push gives
   up because its ctx ends, the entry stays behind all the same.
2. Cancel misses a running retry (`worker.go:42`): the clean-up of attempt 1
   deletes the cancel func attempt 2 has registered.
3. `Next` does not return in a zone west of Greenwich on the day whose midnight
   daylight saving skips (`cron.go:124`): `time.Date` gives 23:00 of the day before
   and `AddDate` 23:00 of the same day, again and again.

More follows from the actions, and is the reason why a property above is worded as
it is, without a run of its own:

- The row of a retry is deleted (`worker.go:47`) right after `scheduleRetry` saved
  it, so that a crash loses a job that waits for its retry, although `store.go:11`
  has retries stored. `NothingLost` therefore ends with the first attempt.
- A periodic entry ends for good when its previous job is still running at the next
  tick (`scheduler.go:334`): the default policy Skip refuses the fire, and `fire`
  takes any error for the end (`GoFireFails`).
- A second call of the scheduler's Shutdown, concurrent with the first or after the
  first timed out, returns nil at once with goroutines running (`scheduler.go:262`),
  although `docs/api.md:251` says "`Shutdown`：停止全部条目并等待 goroutine 退出" (stops all
  entries and waits for their goroutines to end). `QuietAfterShutdown` says what holds.
- `SubmitMark` may overwrite the final status of a job that ended between the push
  and `markStatus` (`dispatcher.go:179`).
- A submission overtaken by Shutdown between `SubmitGate` and its push is accepted
  and never runs (`ready_queue.go:28`); `EarlyJobsRun` speaks of earlier ones.
- A job displaced by Replace between its persist and its push leaves a row for ever:
  `cancelByIDLocked` deleted the row before, and a worker that drops a cancelled
  entry deletes none. `NoGhostRow` is not checked under Replace.
- A Cancel that comes while `scheduleRetry` saves, with a crash before the deferred
  `store.Delete`, leaves a row that revives the cancelled job.
- The refused submission whose rollback calls `Delete` with an ended ctx may leave a
  row (`dispatcher.go:174`, `SubmitCtx`).
- Zones with half-hour offsets: see above (`cron.go:104`).

## 4. Proofs

`ReadyQueueProofs` holds three theorems, for every number of pushes and workers,
every capacity, and every choice of dropping, cancellable and removable entries,
from `ReadyQueueAssumption` alone (a positive capacity; the three kinds of
goroutine are distinct).

- `TypeCorrect` : `Spec => []TypeOK`. `TypeOK` is inductive as it stands, since it
  says which labels each kind of goroutine can have.
- `QueueCorrect` : `Spec => ImplementsBoundedQueue`. An abstract `Push` needs an
  entry that was never seen before, which `TypeOK` does not give. The invariant
  `Custody` does: an entry whose push is still on its way, or was refused, is not
  in the queue and was never popped or removed. With it every action maps to an
  abstract action, or to a stutter.
- `StrandedOnlyByPushAlways` : `Spec => []StrandedOnlyByPush`, with any mix of pushes
  that drop and that wait. The inductive invariant `WakeInv` adds that the length never
  exceeds the capacity and that dropping pushes never sleep. So a parked goroutine is a
  worker or a waiting push, a worker that is woken looks at the queue again, and a
  push that takes a wake-up and sleeps again has found the queue full.

The lemmas about sequences (`AppendSet`, `TailSet`, `RemoveAtSet`) say which
elements append, tail and removal leave. TLC checks the same three properties on
the instances above.

`SchedulerProofs` holds seven, for every finite set of entries and any number of
calls of Stop and Shutdown, from `SchedulerAssumption`. `Invariance` establishes
the inductive invariant `IInv`, from which the others follow: `TypeCorrect`,
`ClosedOnceAlways`, `ListIsLiveAlways`, `QuietAfterStopAlways`,
`QuietAfterShutdownAlways`, `StragglersToldAlways`. None of these is inductive
alone. `IInv` adds

- `Counted`: `wg` is the number of goroutines between `wg.Add` and `wg.Done`.
  Without it nothing follows from `wg.Wait` having returned, nor that `wg.Done`
  never makes the counter negative;
- `Fresh`: what is not registered is not in anybody's hands;
- `Signalled`: `done` is closed exactly when the goroutine is gone, and a Stop that
  has returned saw it closed;
- `OneTaker`: `stopped` lets a single Shutdown through, and whoever meets it set comes
  after that one;
- `QuietWhenWaited`: the call that waited to the end found every known goroutine gone.
  `QuietAfterShutdown` adds the calls that did not wait, and follows with `OneTaker`,
  `ListIsLive` and `Reachable`;
- `Reachable`: a registered entry that has not ended is in the table, or in the
  hands of the one call that took it out, or its stop channel is closed.

There is one lemma per conjunct, with one step per group of actions.

`DelayLoopProofs` holds three, for every set of jobs, all delays and any horizon, from
`DelayLoopAssumption` and `BackoffAssumption` (a wait is a natural number).
`NeverOversleeps` needs `TypeOK` alone to be inductive: a push increments `senders`
in the very step that may spoil it, `Send` turns that into `token`, and only
`SelectSignal` takes the token, on its way to look again. `NeverEarlyAlways` needs
`DuePast`: the instant `popDue` compares with is not ahead of the clock.

The proofs about `Dispatcher` are in `DispatcherProofs` and `DispatcherJobProofs`,
which extends it. They hold for every set of jobs and workers, every policy,
capacity, number of retries, choice of failing, delayed and impatient jobs, and
status limit, from `DispatcherAssumption`. Every safety property the runs of
`Dispatcher` check is proved.

Their lemmas are about steps of `Next`, not about `Spec`, and their invariants hold
in any state a process can begin with, so that the proofs about `Restart`, in which
`Next` is one of three kinds of steps, can cite them.

`Base`, the invariant all of them rest on, is `TypeOK`, `IdleCancelsNone` (a Submit
that has not begun displaces nobody) and `Custody`: the ready queue repeats nothing,
heap, queue, hand of the delay loop and busy workers exclude one another, and an
entry, or a worker's job, exists only for a submission that is `Past` its push.
`OneCustody` follows by counting. Two lemmas keep `Custody`: most steps put an entry
nowhere new (`Quiet`), the others (`Moves`) take it from one place to another. `Core`
adds `CancelMarked` (a cancellation that has come to delete the row has marked its job)
and `HoldsEntered` (entries, and workers' jobs, are of submissions that were let in). The rest is one
invariant per theorem:

| Theorem | Property | Invariant beyond `Base` or `Core`, and why |
|---|---|---|
| `LateStartsAlwaysBounded` | `LateStartsBounded` | `LateOnce`: a job whose handler began late is marked cancelled, and no worker holding it is past the test of the cancelled set and before the handler |
| `FinalStatusIsFinal` | `FinalMeansFinal` | `FinalOver`: a final status belongs to a submission past its push with no entry anywhere |
| `StatusTableAlwaysOK` | `StatusTableOK` | `TableKept`: the list repeats nothing, which `Consistent` says only by counting; `AcceptedKnown` |
| `NoInFlightLeakAlways` | `NoInFlightLeak` | `NameKept`: a held name is being submitted, has an entry, or is in the hands of the worker or agent that frees it |
| `SameNameAlwaysExclusive` (policy not Allow) | `SameNameExclusive` | `OneName`, `EngagedNamed`, `ReleasesRight`: the in-flight set has one job per name, every first attempt is in it or displaced, and a worker frees the name only of a job that has been retried, is cancelled, or has no entry |
| `EarlyJobsAlwaysRun` (`Workers # {}`) | `EarlyJobsRun` | `FrontKept`, `ExitKept`: an immediate job that has not run is in the queue or about to be run; a worker leaves only a closed, empty queue |
| `NoGhostRowAlways` (policy not Replace, nobody impatient) | `NoGhostRow` | `OnlyAccepted`, `RowsOwed`: whoever is cancelled was accepted, and a row belongs to a submission, to an entry, or to the goroutine that will delete it |
| `DispatcherImplementsLifecycle` | `ImplementsLifecycle` | `AttemptsCount`, `RetryAllowed`: `attempt` counts the handler calls, so `JobLifecycle`'s bound is the test of `runEntry` |

The conditions in brackets are needed. Under Allow nothing excludes same-name jobs.
`WithWorkers` refuses a number that is not positive (`options.go:98`); without
workers Shutdown would return with the queue full. Under Replace, and after a
rollback under an ended ctx, rows are left (see 3.4). In the refinement each
action either leaves the abstract state of all jobs alone or moves that of one
job; `LifeStep` says which. `Spec`'s fairness plays no part: `JobLifecycle` has
none.

`RestartProofs` holds six, for any number of crashes. A step of `RSpec` is a step of
the dispatcher, a `Crash`, or a step of `Restore`; for the first kind the lemmas above
do most of the work. `RestartInvariant` establishes `Restarted`, which the other five
rest on: `Base`, `CancelMarked`, `RTypeOK`, and `Restoring`. This last one says that
nothing is submitted while `Restore` works, that what it still has to queue
(`Pending`) is in nobody's hands, and that a row belongs to a submission past its
persist, without which a `List` could return a job that is queued again afterwards.

| Theorem | Property | Invariant beyond `Restarted`, and why |
|---|---|---|
| `RestartTypeCorrect` | `RTypeOK` | none |
| `RestartSingleCopy` | `SingleCopy` | none: `Custody` and `Pending` exclude one another |
| `RestartNameHeld` | `NameHeld` | `Named`: as `EngagedNamed` and `ReleasesRight` for one process, and `PlacingNamed`: the job in `Restore`'s hand has its name already |
| `RestartAttemptsBounded` | `AttemptsBounded` | `Fit`: a row carries the attempt its entry carries (`RowsFit`), no attempt is beyond the retries, in the rows and in the list of `Restore` too (`WithinRetries`), and the calls so far are those of the attempts before it and of the crashes that hit one (`StartsFit`, one clause for each place a job can be in) |
| `RestartNothingLost` (policy not Replace) | `NothingLost` | `Safe`: whoever is cancelled was asked for (`CancelsAsked`), a worker past the handler holds an `ended` job, so that only such rows are deleted, and every job past its persist is `InSight` (`NothingLost` says so only of accepted ones) |

Under Replace the last statement is false: a displaced job is cancelled without
anybody having asked, and its row is deleted. That is what Replace is for.

`CronProofs` holds three, for every calendar, set of texts and start, from
`CronAssumption`, `CalendarAssumption` and `TextAssumption`.

- `CronTypeCorrect` : `Spec => []TypeOK`, in every zone. The parts that `ValidPart` lets
  through have values in the range of their field only, and the wall clock of any
  instant is in those ranges (`ClockTypes`), which is why `f.set[...]` is never
  indexed outside its bounds.
- `CronNextExact` : `Spec => []NextExact` for `FixedZones` (the offset does not change
  and is a number of whole hours) and `PlainStars` (no `*/n` in a day field). The
  inductive invariant `Exact` adds `Parsed` (the fields are those of the text) and
  `NoneMissed`: no instant between `after` and where the scan stands matches, whether
  below the limit or not. The argument has two halves. `FitsMatches`: the five tests
  of the loop together are `Matches`, whose day rule reads the text and not `all`.
  `SecondJump`, ..., `MonthJump`: each branch moves forward, over nothing that passes
  the five tests (`Skips`). On the wall clock the first three are one fact about
  digits (`DigitJump`), the last two say that the rest of the day, or of the month
  (`MonthOfDayIs`), fails the same test.
- `CronScanAdvances`: under the same conditions, every turn of the loop moves `t`
  forward and leaves the limit alone.

Both conditions are needed. With a half-hour offset, or one that changes, `NextExact`
or `NextReturns` fails in some zones (sections 3 and 3.4; for the zones with summer
time of the `Cron` run, TLC alone shows that they hold). With `*/2` as the day of the
month the code takes the field for unrestricted and ignores its values
(`cron.go:191`). `MonthInIs` and the least of a set need that a set of natural numbers
has a least element, which `WFMin` of the library gives for the order of the natural
numbers; no induction over data is used.

Only model-checked: the liveness properties (`StarvedOnlyByPush`, `CloseReleasesAll`,
`DrainedByLastWorker`, `ShutdownTerminates`, `SubmitsReturn`, `StopReturns`,
`ShutdownReturns`, `NextReturns`, `DelayedServed`), which are out of this prover's
reach, `NextExact` in zones whose offset changes, and what the violated runs show.
Every safety property of every passing run is stated by a theorem, some under the
conditions given above.

## 5. Not modelled

Parameter validation and id generation, logging, metrics, tracing, error
wrapping, the functional options, the facade `src/api.go` and the examples: they
keep no protocol state. Handlers that call back into the dispatcher or the scheduler
(a handler submitting to its own full queue, or stopping its own entry, waits for
itself) are left out: handlers are opaque. So is `Restore` on a dispatcher that is
already accepting work. In `Scheduler` the instant a timer is set for, and the texts
built by `DailyAt` and its like, are left out.

A clock of one's own (`WithClock`) is left out: `RunAt` is computed with `d.cfg.now()`
(`dispatcher.go:143`, `worker.go:114`) while the delay loop measures with `time.Until`
and `time.Now` (`dispatcher.go:421`, `446`). `DelayLoop` has one clock, as the code has by
default; with two that differ, `NeverEarly` and the waits are off by the difference.

## 6. Plan

Done: the ready queue, the delay loop, the scheduler, the dispatcher with its status
table, restarts, and cron expressions, with all their safety properties proved.
What is left, in this order:

1. `NextExact` in a zone whose offset changes once, away from midnight: the jumps of
   `SecondStep` and `MinuteStep` stay within an hour of one offset, those of `HourStep`
   and `DayStep` cross the change, where `FromWall` has to be shown to go forward.
2. The timer instants in `Scheduler`, composed with `Next`: a periodic entry neither
   drifts nor fires twice for one instant.
