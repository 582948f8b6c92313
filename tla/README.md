# A verification project for dwh-client

`dwh-client` is a small C++ client library that collects records of an application, packs them into
batches per shard and loads the batches into a data warehouse (Apache Doris) through a pool of worker
threads. This directory holds TLA+ modules that model it, TLC configurations that check them on small
instances, and TLAPS proofs about the parts where a small instance is the least convincing.

Paths are given as in the repository with `src/` in front, so the repository's own `src/worker.h` is
`src/src/worker.h`; line numbers without a path refer to `src/include/client.h`.

## 1. The system

The library is about a thousand lines of header files (`include/` and `src/`, without `src/include/`,
which holds the third-party libraries cpr, curl, nlohmann/json and spdlog). It comes without documents;
the comments are few, and the three test programs write records from one thread to a live database and
assert nothing.

    application threads ---- put, flush, exec, ~Client ----+
                                                           v
    watcher thread --- times out shards --->  Client --- match ---> Collector, TableCollector
                                                |                         |
                                        acquire a permit,           ShardCollector (records,
                                        deliver an Action           size, mtx, result)
                                                v
                                          WorkerPool --- scan with try_lock ---> Worker 0..n-1
                                                                                   |  Action::exec
                                                                                   v
                                                                    DorisConnector::write, then set_value

| component | state | operations | what makes it correct |
|---|---|---|---|
| `Client` | `status`, the watcher thread, the pool, the collector, metrics | constructor, `put`, `flush`, `exec`, `watcherRun`, `deliver`, destructor | nothing put is lost or written twice; the batches of a shard are written in order; `put` blocks when the database is slow and returns when it is not; the destructor writes everything and ends; quiet shards are flushed by the watcher |
| `ShardCollector` | `records`, `size`, `lastFlushTime`, `mtx`, `result` | `apply`, `reachTarget`, `timeOut`, `flush` | `size` belongs to `records`; a full shard is flushed by the put that filled it |
| `WorkerPool` | `workers`, the semaphore `availableWorkers` | `apply`, `tryApply` | a permit stands for an idle worker; an action goes to one worker |
| `Worker` | `status`, `action`, `mtx`, `cv`, thread | `run`, `tryApply`, `exec`, destructor | mutual exclusion, no lost wakeup, an accepted action is executed once, the destructor drains |
| `Action` | records, promise | `setRecords`, `exec` | the promise is set once, after the write |
| `Collector`, `TableCollector` | maps from tables to shards | `match` | a table's shards are made once; a record always has the same shard |
| `DorisConnector` | address, cache of schemas | `write`, `exec`, `getNumShards`, `retrieveSchema` | a batch is sent once; the number of shards is positive |
| `DorisRecord`, `DorisSchema` | values | `hash`, `size`, `getTableIdentifier` | `hash` is below its bound |
| `Config`, `CollectorConfig` | parameters | `valid` | an invalid configuration starts nothing |
| `Metrics` | meters and histograms | `mark`, `update`, `gather`, `reset`, `log` | every event is counted once |

Threads meet in these places: the mutex of a shard (held by `put` during the whole of its delivery,
including the waiting, and taken by the watcher with `try_to_lock`; not taken by `flush`), the future
`result` of a shard, the semaphore, the mutex and condition variable of each worker, `Client::status`
(a plain variable that the destructor writes and the watcher reads), and the maps of the collector and
the connector (not protected at all).

What is hard to test here, each with its line and the properties that cover it, is the list `hazards`
of `PROJECT.json`.

## 2. The modules

| module | what it is |
|---|---|
| `ActionPool` | the abstract specification of the pool: every action is accepted or refused, an accepted one is executed and resolved once, at most `Slots` are in hand, closing waits for all |
| `WorkerPool` | `worker_pool.h`, `worker.h`, `action.h`: threads, locks, permits; the refinement mapping to `ActionPool` is at its end |
| `WorkerPoolProofs` | the proofs about `WorkerPool` |
| `ActionPoolProofs` | the proof that `WorkerPool` implements `ActionPool`, the fairness apart |
| `MCWorkerPool` | instances of `WorkerPool` for TLC |
| `ShardQueue` | the abstract specification of the client: each shard is a queue, written front first in batches, and empty when the client is closed |
| `Client` | `client.h` and `shard_collector.h`, composed with `WorkerPool` by `WP == INSTANCE WorkerPool WITH Deliverers <- Threads` |
| `ClientProofs` | the proofs about `Client`: places, mutexes, permits, what holds while nobody flushes |
| `BatchProofs` | the proofs about `Client` that need to know where the records are |
| `PipelineProofs` | the proofs about `Client` that need to know in which order the batches go, and who waits for whom |
| `MCClient` | instances of `Client` for TLC |
| `Sharding` | `Config::valid`, the number of shards of a table and `DorisRecord::hash`, as functions |
| `ShardingProofs` | the proofs about `Sharding` |
| `Collector` | `collector.h`, `table_collector.h` and the cache of schemas in `doris_connector.h`, as several threads run them, and the loops over the set of shards |
| `CollectorProofs` | the proofs about `Collector` |
| `MCCollector` | an instance of `Collector` for TLC |
| `Metrics` | `metrics.h`, `metrics_meter.h`, `metrics_histogram.h`, as workers, application, watcher and destructor use them |
| `MCMetrics` | an instance of `Metrics` for TLC |
| `MetricsProofs` | the proofs about `Metrics` |

The parts compose along what they share. `Client` instantiates `WorkerPool`, whose deliverers are its
threads, and `ImplementsWorkerPool` checks that it makes no step but the pool's own. `Collector` is about the
time before all tables are known and all shards registered: `SettledForGood` shows that this state is never left, and
`Client` starts in it. `Metrics` reads the state of nobody else, and nobody reads its state, so it stands
alone, with the order of its events taken from the threads of `Client` and `WorkerPool`.

Definitions marked "Mutant" in a comment are faulty variants of the definition below them. Nothing uses
them; each property of each passing run has one that makes TLC find it violated (`mutants` in
`PROJECT.json`).

### WorkerPool

A step is one access to shared state. The variables `availableWorkers`, `status`, `action` are the
members of the same name; `locked` is the set of workers whose `mtx` is held; `wpc`, `dpc`, `cpc` say
where the worker threads, the delivering threads and the destroying thread are; `pos` and `carry` are
the local variables of a scan. `resolved` is the set of actions whose promise is set. `fate`, `writes`,
`rejected`, `spurious`, `early` are history, which no guard reads except that an action is used once and
that `spurious` is bounded.

| code | actions |
|---|---|
| `acquire()` or `try_acquire()`, then `apply` | `Acquire` |
| `WorkerPool::tryApply`, `Worker::tryApply` | `LockWorker`, `SkipLocked`, `GiveAction`, `SkipBusy` |
| `WorkerPool::apply` when the scan fails | `ThrowInner`; `ThrowUncaught` when the caller is the watcher or the destructor |
| `Worker::run` | `TakeMutex`, `ReleasePermit`, `Wait`, `SpuriousWakeup`, `ExecWrite`, `ExecSetValue`, `BecomeIdle`, `Exit` |
| `Worker::~Worker` | `BeginClose`, `CloseWorker`, `CloseJoin` |
| `DorisConnector::write` | `Write` (loaded or refused), `WriteThrows` (an answer that cannot be parsed, which includes no answer at all: the exception leaves the thread and ends the process) |

`~Worker` keeps the mutex from `worker.h:62` to 68. Only the worker's own thread competes for it, and
what happens in between is seen by nobody else, so it is one step. `std::terminate` is `terminated`;
after it nothing happens.

### Client

`records`, `size`, `result` are the members of each shard; `timedOut` says that `maxWaitingTimeMs` have
passed since `lastFlushTime`, which is only asked of a shard that has records, and `Age` is the passing
of time. `pc` and `job` say where a thread is and in which member function; `cur`, `toVisit`, `taken`,
`future` are its local variables. `result` holds the action whose future the shard has, and a future is
ready when that action is in the pool's `resolved`.

| code | actions |
|---|---|
| constructor | `Init` (the watcher has started, `status` is uninitialised), `Construct` |
| `put` | `StartPut`, `Apply`, `Check`, then the batch's way to the pool |
| a batch on its way | `Copy`, `Clear` (`ShardCollector::flush`), `Await`, `AcquirePermit`, `Scan`, `Give`, `Assign`, or `Throw`, `ThrowUncaught` |
| `flush` | `StartFlush`, `VisitNext`, `EndFlush` around the same steps |
| `watcherRun` | `TestStatus`, `Sweep`, `TryLock`, `TryPermit`, and the same steps |
| destructor | `StartClose`, the steps of `flush`, `Drain`, `Join`, `DestroyPool` |
| worker threads | `Work`, `SpuriousWakeup`, `WriteThrows` |

The batch goes from the shard to the caller in two steps, because the vector's contents are first
taken and the source then emptied, and `flush` does this without the mutex. Every other call of a
`ShardCollector` (`apply`, `reachTarget`, `timeOut` under the mutex) is one step, though it makes several accesses to the
vector, `size` and `lastFlushTime`. So that no overlap is lost in this, `TouchRecords` marks it: if a thread makes
such a call, or a flush of its own, while another is between the two steps of its flush, the two overlap and the
shard is put in `raced`; if the other is about to make its first step, they may overlap, and the step may put
the shard in `raced` or not. The second case has all the ways in which the accesses of one call fall
between those of the other: a flush with its `size = 0` and its move between the `size +=` and the
`push_back` of an `apply` (the vector then has a record and `size` is 0), or a whole `apply` between `size = 0` and the
move (the vector is empty and `size` is not). Of two calls that overlap one is a flush without the mutex, and if it steps second,
the other finds it about to begin; so one rule for the first to step is enough. All this is a data race, whose outcome C++ leaves
open: the process may end (`Crash`), nothing is claimed about a `raced` shard, and what the model
goes on with in it is one outcome of many. The paths on which a shard is not `raced` are those on which the calls came
one after the other. In the same way `TouchResult` lets the process end when a future is assigned while
another thread waits on it or assigns to it, or the watcher, with the mutex free, is about to ask it. The
first `timeOut` of the watcher, without the mutex, only reads: `Sees` gives it either answer while somebody holds
the mutex. `Done` includes the state in which everybody waits for a permit that an
`InnerException` has kept: the program really hangs there.

The application is assumed to call neither `put` nor `flush` before the constructor has returned or once the destructor has
begun, and to go on after an `InnerException` if it likes. `Collector::match` has made the shards before
the first `put`.

A shard of `ShardQueue` is, in `Client`, the batch at a worker, the batch in the hands of a thread and the
vector, in this order (`Pending`).

### Sharding and Collector

`tables`, `schemas` and `registered` are `Collector::tableCollectors`, `DorisConnector::schemas` and
`Collector::shardCollectors`. A shard is named by its table, the thread that made it and its index, so two
threads that both make the shards of a table make different ones. `pc`, `rec`, `buckets` and `next` are
the local state of a thread in `match`. `waiting` are the shards that got a record no loop has come by for
since; `scope` are those that a loop under way is sure to reach.

| code | actions |
|---|---|
| constructor of the client | `ConstructPool`, `Validate`: the pool is made from the configuration before it is validated |
| `Collector::match` | `Find`, `InsertTable`, `LookUp`, `Register` (one for each shard), `Match` |
| `getNumShards`, `retrieveSchema` | `FindSchema`, `Retrieve` or `RetrieveThrows`, `InsertSchema`, `ReadSchema` |
| `flush`, a round of the watcher, the flush of the destructor | `StartSweep`, `EndSweep` |
| the destructor begins | `StartClose` |

None of this holds a lock. Each step is one access to one container. When a thread inserts into a container
while another is about to use the same container, the two accesses may overlap in the program, which is undefined
behaviour; then the step may set `outcome` to `"race"`, where the model ends, or go on as if one came after
the other. An insertion into the set of shards may rehash it, so it empties the `scope` of
every loop that is under way. A table without buckets makes the remainder of `hash` divide by zero, where the model ends too.

`numShardsFactor` is a double. `Sharding` takes it as a fraction whose products are exact in a double; the
quotient `minNumShards / tableNumShards` need not be exact, but its operands are 32-bit integers, too small for
its rounding to cross an integer. NaN, which `Config::valid` lets through (`numShardsFactor <= 0` is false),
is not among the configurations.

### Metrics

A meter or histogram is the set of the events in its numbers: adding two up is a union, a reset the empty set,
and an event that is in two reports was counted twice. What an uninitialised counter holds is an event
that never happened (`Junk`). All meters and histograms of one `Metrics` object are one set, in `held`.

| code | actions |
|---|---|
| a worker or another thread has something to count | `Happen` |
| `mark`, `update` of a worker's or the client's metrics | `Mark`, `Update` |
| `gatherAffliatedMetrics` | `Gather` (one for each worker), `EndGather` |
| `Metrics::log`, the division in `MetricsMeter::log` | `Log`, `DivideByZero` |
| `Metrics::reset` | `Reset` |
| `watcherRun` | `Top`, `Test`, and the steps above |
| destructor | `StartClose`, `StartGather`, the steps above, `Join` |

`gather` locks what it reads and not what it adds to, `log` and `reset` lock nothing. As in `Collector`, a step that
changes the client's metrics while another thread is about to use them may end the model with
`outcome = "race"`.

## 3. The runs

All passing runs finish with no error and without deadlock.

| run | instance | question |
|---|---|---|
| `MCWorkerPool_safety` | 3 workers, 2 delivering threads, 3 actions, 1 spurious wakeup; batches loaded, refused or ending in an exception | mutual exclusion, wakeups, one worker per action, one write per action, a drained pool, the account of permits, and that every step is one of `ActionPool` |
| `MCWorkerPool_liveness` | 2 workers, 1 thread, 2 actions, no symmetry | the fairness of `ActionPool` is implemented: accepted actions are executed and resolved, the destructor returns |
| `MCWorkerPool_inner` | 1 worker, 1 thread, no spurious wakeup | the comment at `worker_pool.h:52`: violated |
| `MCWorkerPool_success` | 1 worker, 1 thread | the comment at `action.h:6`: violated |
| `MCClient_puts` | 2 application threads and the watcher, 1 shard, 3 records (one large), 1 worker, every outcome of a write, 1 spurious wakeup | a shard is a queue, one thread at a time is at it, the boundary of `reachTarget`, the watcher's test, the use of the pool |
| `MCClient_backpressure` | the same threads, 2 workers, batches of 1 record | order when batches can overtake each other, backpressure |
| `MCClient_flush_alone` | 1 application thread that also calls `flush()`, 2 workers | order |
| `MCClient_flush_threads` | 2 application threads, one of which calls `flush()`, a second, empty shard | no loss, no duplicate, only batches change places, `size` is that of the vector, the destructor writes the rest |
| `MCClient_liveness` | 2 application threads, 1 shard, 1 worker | `put` returns, every record is sent, the destructor ends |
| `MCClient_watcher` | as above, `status` may be 0 to begin with | the comments at 12-13: violated |
| `MCCollector` | 2 application threads and the watcher, 2 tables, 3 records (a negative id, one that is no number), 3 calls of `put`, 8 configurations of which 6 are invalid, 0, 1 or 2 buckets | shards are reachable and stable, one number of shards per table and the right one, the watcher comes by |
| `MCMetrics` | 2 workers, 2 application threads, 2 executions, 2 waits, an interval of 2 and a clock of 5 milliseconds | what is counted is reported, once, with the exceptions named |

Why these bounds are enough to be of interest. With three workers a scan passes locked and busy
workers before it finds one; two delivering threads meet in a scan; three actions fill the pool or
leave one to be refused. One spurious wakeup already makes a permit too many. In `Client`, three records of
which one is as large as two reach both targets and leave a rest for the watcher or the destructor; two
workers are needed for two batches of a shard to overtake each other, and `TargetNumRecords = 1` makes
three batches of three records. Four actions are more than the batches these records can make, the rest
is for empty batches of the watcher. `MaxFlushes = 1` calls of `flush()` are enough for its races with
`put`, with the watcher and with the destructor. In `Collector`, three calls are two threads that meet at a new
table and one that comes later, or that brings the second table; the two valid configurations have a factor that rounds up
and a minimum that is no multiple of the buckets; a size_t has 256 values, which keeps the sign
change of a negative id. In `Metrics`, a clock of 5 allows two reports of the watcher and one of the
destructor, with and without a reset in the same millisecond. Symmetry is used for delivering threads, actions and for records
of equal size and shard, events of equal kind, never for workers (the scan is in index order) and never with a run of liveness.

### What the runs show beyond "no error"

* The permits balance only with three corrections (`PermitConservation`): an `InnerException` keeps its
  permit; an action given to a worker that is `IDLE` but not asleep (its thread has not started, or
  woke up spuriously) uses up the permit of another worker, and the pool then works with one less until
  that worker comes round; a spurious wakeup makes a permit, so that the holder of a permit need
  not have an idle worker (`PermitsBacked` is the bound that holds).
* `flush()` called by the only application thread, without any concurrent call, can still break the order of a
  shard if there are two workers: it empties the shard between the watcher's test and the watcher's
  `flush`, the watcher delivers an empty batch, and the result of that one replaces the result that the
  next batch should wait for. `FlushKeepsOrder` therefore has the condition that no empty batch was
  handed over.
* With `flush()` and `put` in two threads the order of a shard is not kept even without a data race,
  since both wait for the same result and deliver in either order. `NothingLost` still holds.
  `OnlyBatchesOvertake` says how far the disorder goes: a batch is always an unbroken run of the puts.
* A second thread can use a table as soon as it is inserted, before the thread that made it has registered its shards.
  Until then a `flush()` of the second thread does not write the record it has just put, and neither
  does the watcher (`Reachable` names the condition).
* Even an application with one thread races with the watcher: `match` inserts into the set of shards that
  the watcher iterates over whenever a record of a new table is put.
* What a worker executed may be missing from the destructor's report, because the promise is set before
  the counters (`FinalReport` speaks of the events that were in a counter); the destructor, which does not wait for the
  watcher first, may repeat what the watcher has just logged, or what it has gathered so far (`ReportedOnce`); what comes
  to the client's counters between the watcher's log and its reset is dropped by the reset. That is what a
  thread adds there (`late`), and also what the destructor gathers there from a worker (`caught`): counted before the
  destructor began, taken over, wiped by the watcher, and missing from the destructor's own log a moment
  later, so that nobody reports it. `NothingLost` and `FinalReport` name both and say that these are the only losses; without
  either of the two sets TLC finds `FinalReport` violated.
* The first report contains uninitialised counters of the client and of all workers, later ones
  do not (`JunkOnce`).
* The watcher never divides by zero (`WatcherNeverDivides`), the destructor does within a millisecond
  of a reset (`DivideByZero`).
* After an `InnerException` the client may hang: with one worker the lost permit was the only one. The
  liveness properties say "or there was trouble" for this reason.

### Findings

1. `worker_pool.h:52`: "There should be available worker." A worker releases its permit while it holds
   its mutex; a thread that takes the permit at once finds the mutex locked, and the batch is lost with an
   `InnerException` (`MCWorkerPool_inner`).
2. `action.h:6`: `SUCCESS` also for a batch that the database refused (`MCWorkerPool_success`).
3. `client.h:12-13`: the watcher may find the uninitialised `status` and end (`MCClient_watcher`).

## 4. Fairness

`WorkerPool!Fairness` is weak fairness of each worker's thread, of each scan and of the destructor: the
operating system schedules threads that can run. It does not make anybody deliver, call the destructor or wake up
spuriously. Weak fairness is enough for a mutex of a worker because nobody takes it again and again:
a delivering thread tries each once per permit.

`Client!Fairness` adds each application thread inside a call, the watcher, and time (`Age`). That an
application calls `put`, `flush` or the destructor is not assumed. In the code the watcher sleeps
between its rounds, in the model it does not; the mutex it needs is free when no thread is in
`put`, and it may come to a busy shard any number of times. A mutex that one thread releases and takes again
for ever could starve another; the number of records is finite, so this does not arise.

`Collector!Fairness` is the same for the threads inside `match` and for the watcher, and it includes that the
database answers or the request fails (`Retrieve` or `RetrieveThrows`). `Metrics` has no liveness: whether
time comes to a report is a matter of the clock.

## 5. What is proved

### The pool

`WorkerPoolProofs` holds for every `NumWorkers > 0`, every finite set of delivering threads, every set
of actions and every bound on spurious wakeups. The only assumption is `PoolAssumption` of
`WorkerPool`, which a valid configuration (`Config::valid`) satisfies and TLC evaluates.

The properties are not inductive. `IndInv` adds to `TypeOK`, `MutualExclusion`, `NoLostWakeup`,
`AcceptedHasOneWorker` and `WrittenOnce` three parts:

* `CarryInv`: a thread between `acquire` and the end of `apply` carries a fresh action of its own. Without
  it `GiveAction` could hand out an action that another worker has already written.
* `SlotInv`: for a busy worker, how many times its action was written and whether it is resolved follow
  from where its thread is, and two busy workers have different actions.
* `CloseInv`: exactly the workers that the destructor has dealt with are `UNAVAILABLE`, so the destructor
  executes an action only if the worker's thread has not begun to.

There is one lemma per action (or group of actions of the same frame), a lemma that splits the next-state
relation, and `Invariance` puts them together. The account of permits (`PermitInv`) is a second invariant on top of
the first: each step moves one unit between the semaphore, the set of holders, the set of workers awake
and the corrections, and the lemmas about adding to and removing from a finite set do the arithmetic.
`PoolNeverDry` does not follow from the account, since corrections could eat up all permits; it has its own
induction (`AliveInv`), whose point is that the worker which uses up a foreign permit is itself awake and will release
one.

`NoVainWait` is the safety half of "the pool makes progress". It is about three things others wait for: the action of a
`BUSY` worker, a permit while the semaphore is empty and none was lost, and the worker that the destructor locks or joins. For each it names a thread that is not
blocked: a worker outside `cv.wait` that has its mutex or can have it (`Unblocked`), or a thread in `tryApply` that holds
the mutex and gives it back next (`Attended`). It follows from `IndInv` and `AliveInv`. That those threads are then scheduled
is fairness, and `MCWorkerPool_liveness` checks what comes of it.

| theorem | states |
|---|---|
| `Invariance` | `Spec => []IndInv` |
| `TypeCorrect`, `MutexHolds`, `WakeupHolds`, `ExactlyOnce`, `ClosedPoolIsDrained` | the safety properties of the pool |
| `SlotsAreKept` | `AcceptedHasOneWorker` |
| `PermitsConserved`, `PermitsStandForWorkers`, `PoolNeverDry` | the permits |
| `NoVainWait` | `PoolWaits`, a definition of `WorkerPoolProofs` |

`ActionPoolProofs` shows that the pool implements `ActionPool` (`PoolRefinesActionPool`), step by step: one lemma says for
each action of the code which step of the abstract pool it is, most of them none. The guard of the abstract
`Accept` is that a slot is free. That the code respects it is a counting argument, from `IndInv`: the actions in
hand are mapped one to one to the busy workers other than the one that takes the new action. The end of the
abstract pool, where nothing may be in hand, is `ClosedPoolIsDrained`. The theorem is about the safety part of `ActionPool`;
its fairness is the matter of `MCWorkerPool_liveness`.

### The shards

`ShardingProofs` is arithmetic, from `WordSizeAssumption` alone. For every configuration that `ConfigValid` lets
through and every number of buckets but 0, `NumShards` is enough (`ShardsAreEnough`) and no smaller number is
(`ShardsAreFew`); both rest on two lemmas about `CeilDiv`, that it reaches the quotient and that whatever
reaches the quotient is no smaller. `HashInRange` says that the hash of any id is an index.

`CollectorProofs` holds for any number of threads, tables, records, configurations and answers of the
database, from `CollectorAssumption`. The fact that `Configs` are records of integers is part of that
assumption. Its `IndInv` is made of

* `TypeOK` and `OneNumber`;
* `ValidInv`: nothing is matched before the configuration was found valid, although the pool already exists;
* `KnownInv`: at each place in `match`, the table or schema it is about to use is in the map, and the loop over the shards has
  not passed the end;
* `RegInv`: a shard of a known table is in the set, or some thread has still to come by it. It needs the index
  of that thread's loop: a thread that has passed the shard does not count. This is what `Reachable`
  follows from, since a table can be used by others before its shards are registered;
* `HoldersInv`: a shard that holds a record is the one that the hash names, of the table collector that is in the map *now*.
  It is inductive because `insert` never replaces an entry.

There is one lemma per action; those that only move a thread share `QuietStep` and `TypeStep`.

| theorem | states |
|---|---|
| `Invariance`, `TypeCorrect` | `Spec => []IndInv`, `Spec => []TypeOK` |
| `NumbersAgree` | `OneNumber` |
| `ShardCountHolds` | `ShardCount`, from `NumbersAgree` and the arithmetic |
| `ShardsAreReachable` | `Reachable` |
| `RecordsKeepTheirShard` | `SameShard` |
| `SettledStays` | the action property `SettledForGood`, which justifies that `Client` starts with all tables known |

A data race ends the model (`outcome = "race"`), so these theorems speak of what the threads do before one.

### The metrics

`MetricsProofs` holds for any number of workers and application threads, any events, any interval and any bound
on the clock, from `MetricsAssumption`. `IndInv` adds to `TypeOK`, `NothingLost`, `ReportedOnce`, `JunkOnce` and
`WatcherNeverDivides`:

* `PlaceInv`: where the watcher and the destructor can be;
* `PlacesDiffer`: an event is in one counter or in the hands of one thread, so a `gather` moves it and cannot copy it;
* `ReportInv`: what was reported stays in the client's counters until the next reset and is in no counter after it.
  `ReportedOnce` follows from it, and without it `Log` could report an old event again;
* `JunkInv`: how far the first gathering has cleared the workers' counters of what they were born with;
* `ResetInv`: the watcher's reset drops nothing but what is in a report or came to the client's counters after the
  watcher's report, from a thread (`late`) or through the destructor's gathering (`caught`);
* `DueInv`: what the destructor is to report is in a report, in the client's counters, with a worker that
  its loop has still to come by, or in `late` or `caught`. `FinalReport`, which has the same two exceptions, follows from it. It has to survive
  the watcher's `Gather` and `Reset`, which the destructor does not exclude: the watcher may take over what the
  destructor has not reached, and its reset may drop what the destructor has gathered, which is where `caught` comes from.

| theorem | states |
|---|---|
| `Invariance`, `TypeCorrect` | `Spec => []IndInv`, `Spec => []TypeOK` |
| `EventsAreKept`, `EventsAreReportedOnce` | `NothingLost`, `ReportedOnce` |
| `JunkIsGone` | `JunkOnce` |
| `FinalReportHolds` | `FinalReport` |
| `WatcherDivides` | `WatcherNeverDivides` |

As with the shards, these speak of what happens before a data race or a division by zero, which end the model.

### The client

`ClientProofs` holds for any number of application threads, shards, records and workers, any bound on the calls of
`flush()`, all outcomes of writes, and data races that end the process or do not, from `ClientAssumption` alone.

The pool inside the client is the same module, and its invariant is not proved a second time: `PoolStep` shows that each step
of the client is a step of the pool, the end of the process, or leaves the pool alone, and `PoolInvStep` then takes
`IndStep` of `WorkerPoolProofs` through the instance `Pool`. The one step to argue about is `Join`, where the
destructor enters `~WorkerPool`: nobody may be delivering an action then. This needs to know where every thread is, so
`IndInv` is made of

* `Pool!IndInv` and `TypeOK`;
* `PlaceInv`: in which member function a thread is at which place, and that the others are idle during the destruction;
* `MutexInv`: a mutex is locked exactly if one thread is at a place where it holds it, and no two threads hold the same one;
* `PermitInv`: who has a permit and an action in hand, which the watcher takes before it takes the batch. With `PlaceInv`
  it says that nobody delivers once the watcher has ended and the destructor joins;
* `PutInv`: the record that a `put` has in hand before it has the mutex is in no shard and in no other thread's hands, so the log of
  the puts has no record twice and each is in the log of its own shard;
* `CalmInv`: as long as there was no `flush()` and the destructor has not begun, no shard is `raced`. `ShardExclusive` follows from it and
  from `MutexInv`: all threads that can then be at a shard hold its mutex;
* `WatcherCheckHolds` itself, which is inductive with the others: whoever could make it false needs the mutex
  that the watcher holds.

There is one lemma per action and part of the invariant, and "frame" lemmas for the actions that touch no variable of a part.

| theorem | states |
|---|---|
| `Invariance`, `TypeCorrect` | `Spec => []IndInv`, `Spec => []TypeOK` |
| `OneThreadAtAShard` | `ShardExclusive` |
| `WatcherKeepsItsWord` | `WatcherCheckHolds` |
| `ClientUsesPoolAsExpected` | `ImplementsWorkerPool`, the refinement of the pool by its use |
| `ClientIsServedByActionPool` | `ServedByActionPool`, the same down to `ActionPool` |

The last theorem puts the two refinements together: the client's steps are steps of the pool (`PoolStep`), the pool's are
steps of `ActionPool` (`StepMaps` of `ActionPoolProofs`, through the instance `Pool`). It has a step that `ActionPool` does not: the races of `flush()`
can end the process when nothing is in hand. `EndsTheProcess` says that no action moves with it. Without that disjunct the formula is
false, as TLC shows in a few states of the instance of `MCClient_flush_threads`.

### The records of the client

`BatchProofs` holds for the same constants, with any number of calls of `flush()` from any number of threads. Its theorems are
about the shards that are not `raced`: once two calls for a shard have overlapped without the mutex, its contents and its `size`
are undefined, so these theorems, `SizeIsRight` and `TargetIsKept` among them, speak of calls that come one after the other, in any
order and from any number of threads. Since `raced` only grows, a shard that is not raced after a step was not raced before it.

The state of a shard is spread over threads and actions: the vector, the threads that are moving it out (`Clearing`) or have
a batch in hand (`Holding`), the actions that were handed over (`Batches`), those of them that the database has
(`Written`). `ShardStep` therefore first shows that, seen from one shard, each of the thirty actions of the client is one of
six moves (`ShardMoves`): nothing happens to its records, one is put, the vector is copied, the vector is cleared, a batch is handed over, a batch is
loaded. This is the part that needs to know about threads, mutexes and workers. That the moves keep the
invariant is then a matter of sequences and sets, one lemma for each part:

* `ClearInv`: between the two steps of taking a batch out, the thread has in hand what is still in the vector, and it
  is the only one. Without it clearing the vector could lose records that were put after the copy;
* `RunInv`: the vector is the end of the log of the puts, and each batch is an unbroken run of it (`OnlyBatchesOvertake`);
* `CoverInv` and `ApartInv`: a record of the log is in the vector, in a batch in hand or in an action, and in no two of them;
* `StoredInv`: the database has exactly the batches that are `Written`, each once;
* `SizeInv`: `size` is that of the vector unless somebody is moving it out.

`HandInv` adds that what a thread or an action has is of one shard, and that only what was sent is refused. Two parts are not about the
moves. `TargetInv`: a shard has not reached its target, or a `put` of it has still to take the batch out. The put
that checks uses `size`, so this needs `SizeInv`. `EmptiedInv`: during the destruction a vector is empty unless the destructor's loop
has still to come by it; nobody puts a record any more.

`NothingLost` counts the places of a record. That there is at most one is `ApartInv`; that there is one is `CoverInv` together with the
fate of the record's batch: if it was neither dropped nor refused, it was accepted, and then the
pool's `WrittenOnce` says that it is with a worker or in the database. For `CloseWritesAll` the pool's `IndInv` shows that no
batch is with a worker, `EmptiedInv` that the vectors are empty, and `PlaceInv` that no thread has a batch in hand.

| theorem | states |
|---|---|
| `BatchInvariance` | `Spec => []BatchInv` |
| `EveryRecordIsSomewhere` | `NothingLost` |
| `BatchesAreRuns` | `OnlyBatchesOvertake` |
| `SizeIsRight`, `TargetIsKept` | `SizeTracksRecords`, `BelowTarget` |
| `DestructorWritesAll` | `CloseWritesAll` |

### The order of the batches

`PipelineProofs` builds on `BatchInv`, again for every value of the constants and the shards that are not `raced`. `PipelineInv` adds three parts:

* `LoadedInv`: a thread on its way with a batch has one that is not empty. This is so for `flush` and the destructor, which look at the
  vector first, always, and for `put` and the watcher as long as nobody calls `flush()`. An empty batch is what breaks
  the order: the connector returns at once, its result replaces the one that the next thread should wait for.
* `BoundInv`: no vector and no batch has more than `TargetNumRecords` records. It follows from `TargetInv` of `BatchProofs`: a put appends only to
  a shard that was below its target.
* `LineInv`, as long as the client keeps the order at all (`Orderly`: no `flush()` so far, or the one application thread flushes and
  no empty batch was accepted). Its conjuncts are `BusyInv`, one thread at a time is on its way with a batch and the vector is empty meanwhile;
  `KnownInv`, one batch at a time is with a worker and the shard has its future, or the thread that gave it away and
  is about to store it has; `WaitedInv`, whoever is past the wait has waited for that batch;
  `FrontInv`, the database, the batch at the worker, the batch in hand and the vector are in the order of the log of the puts.

`LineStep` is about the shard alone: ten moves (`LineMoves`: a record is put, a batch is taken, has waited, is given away, its future is kept, and so on)
keep `LineInv`, without a word about threads and mutexes. `LineMovesStep` says that each action of the client is one of the moves. This is
where the client matters: that `put` and the watcher take a batch only with the mutex (`ShardExclusive` in the calm), that with one
application thread and an `Orderly` client the watcher cannot get between its steps, and that `Orderly` in the
new state means `Orderly` in the old one.

`Pipeline` and `FlushKeepsOrder` follow from `LineInv` and `CoverInv` of `BatchProofs`, which says that nothing is missing. `Backpressure` counts: what is
not in the database is in the one batch that is underway or in hand, or in the vector; `BusyInv`, `KnownInv` and
`BoundInv` leave room for two batches.

| theorem | states |
|---|---|
| `PipelineInvariance` | `Spec => []PipelineInv` |
| `PipelineIsKeptInOrder` | `Pipeline` |
| `OrderSurvivesFlush` | `FlushKeepsOrder` |
| `PutIsHeldBack` | `Backpressure` |
| `ShardsAreQueues` | `Spec /\ []Orderly => ImplementsShardQueue`, the refinement of `ShardQueue` |

That the shards are queues, each a `ShardQueue`, follows step by step. `PendingMoves` says what a move of the line is for the queue: a put
is `Put`, a load is `Load`, a batch that is dropped or refused is `Lose`, and taking a batch, waiting, giving it away and keeping its future leave
`Pending` as it is. `OneShardMoves` adds that a step does this to one shard only (each step is that of one thread or one
worker, `OneAtATime`), and `QueueStep` looks at the end: the step to `closed` finds the queues empty, after it nothing happens, and the end of
the process or a race is `Break`. The hypothesis `[]Orderly` is what `FlushKeepsOrder` and `Pipeline` assume of each state; an application
that does not call `flush()` meets it (`PutsMakeQueues`, the instance that `MCClient_puts` checks).

### Who waits for whom

A client blocks in four places: in `put` on the mutex of a shard, on the result of the previous batch, on a permit, and in the
destructor on the watcher. `NoWaitInACircle`, at the end of `PipelineProofs` and without its hypotheses about the order (`flush()` and races
included), orders these waits, so that none of them is part of a circle:

* the mutex is held by another thread that is in the middle of a flush of that shard, and so waits for a result or a permit at most;
* the result that is waited for is the promise of an action that a `BUSY` worker has, and the worker is `Attended` in the sense of
  `NoVainWait`. This needs `ResultInv`, that a shard's result is that of an action which was accepted, and `SlotsAreKept`;
* a permit is in the hands of a thread that is delivering, which waits for nothing, or a worker is on its way to release one. The exception is written
  into the formula: an `InnerException` may have kept the last permit, which is the hazard of `NoInnerException`;
* the watcher, for which the destructor waits, has been told to end, and is at none of the places above: it takes a mutex and
  a permit with `try_` and looks at a result without waiting.

The invariants behind it are those of the pool, `AliveInv` (kept by the end of the process too) and `MutexInv`. It is the part of "no deadlock" that is not about
scheduling; that the threads which can go on do so, and that the waits end, is in the liveness properties of the runs.

| theorem | states |
|---|---|
| `NoWaitInACircle` | `ClientWaits`, a definition of `PipelineProofs` |

### Only model-checked

Liveness and fairness of all modules, which the prover does not support: `PutReturns`, `EventuallyStored`, `CloseTerminates`, `WatcherReaches` and the
fairness of `ActionPool` in `ImplementsFairActionPool`. Every invariant, action property and safety refinement that a passing
run checks is also a theorem.

## 6. What is not modelled, and what is left

Not modelled: logging, the tests, the text of requests and answers, the label of a stream load, `exec` of
the client (it forwards a statement and touches no state of the client), and the durations that the metrics
measure, which influence nothing. `try_lock` and `try_acquire` fail only if the mutex is held or no permit is left: C++ lets them
fail without a reason too, which would send the watcher round once more and could make the scan of the
workers miss an idle one, with the `InnerException` of the first finding.

The vendored libraries under `src/src/include/` are not modelled and will not be. They are about 55,000 of the
56,000 lines of headers in the repository, third-party code of which the client makes half a dozen calls; what
these calls do to the client's state is in `Write`, `WriteThrows`, `Retrieve` and `RetrieveThrows`. Of the library's own
code nearly every line that changes state is mapped.

No safety property of the runs is left to prove. What could still be added is a model of what the application does with an
`InnerException` (retrying a record), which the client leaves to it.
