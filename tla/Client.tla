-------------------------------- MODULE Client --------------------------------
(***************************************************************************)
(* The client (src/include/client.h) with its shards                       *)
(* (src/src/collector/shard_collector.h) and its pool of workers, the      *)
(* module WorkerPool.  Application threads put records and flush, the      *)
(* watcher flushes shards that waited too long, and one application thread *)
(* destroys the client.                                                    *)
(*                                                                         *)
(* put and the watcher hold the mutex of a shard, flush() does not.  Each  *)
(* call of a ShardCollector is one step, except that its flush is two: the *)
(* contents of the vector are first taken and then cleared.  If two calls  *)
(* for one shard can overlap in the program, the shard may become raced:   *)
(* what it holds then is undefined, and no property speaks of it.          *)
(***************************************************************************)
EXTENDS Integers, FiniteSets, SequencesExt

CONSTANTS
  AppThreads,       \* the threads of the application
  Owner,            \* the one that constructs and destroys the client
  Watcher,          \* the watcher thread
  Shards,           \* the ShardCollectors; Collector::match has made them all
  Records,          \* the records that are ever put, each once
  ShardOf,          \* the shard that Collector::match returns for a record
  RecordSize,       \* record.size()
  TargetNumRecords, TargetMemorySize,   \* CollectorConfig
  RawStatus,        \* what the uninitialised ClientStatus may be
  MaxFlushes,       \* bound: calls of flush() by the application
  NumWorkers, Actions, NoAction, WriteOutcomes, MaxSpurious \* see WorkerPool

Threads == AppThreads \union {Watcher}

ASSUME ClientAssumption ==
  /\ Owner \in AppThreads
  /\ Watcher \notin AppThreads
  /\ IsFiniteSet(AppThreads)
  /\ Shards # {}
  /\ ShardOf \in [Records -> Shards]
  /\ RecordSize \in [Records -> Nat \ {0}]
  /\ TargetNumRecords \in Nat \ {0}
  /\ TargetMemorySize \in Nat \ {0}
  /\ RawStatus \subseteq {"UNAVAILABLE", "RUNNING", "other"}
  /\ MaxFlushes \in Nat
  /\ NumWorkers \in Nat \ {0}
  /\ MaxSpurious \in Nat
  /\ NoAction \notin Actions
  /\ WriteOutcomes \subseteq {"loaded", "refused", "exception"}

VARIABLES
  clientStatus,  \* Client::status
  records,       \* the records vector of each shard
  size,          \* its size member
  timedOut,      \* maxWaitingTimeMs have passed since its lastFlushTime
  result,        \* the action whose future the shard keeps, if any
  shardLocked,   \* the shards whose mtx is held
  pc, job,       \* where each thread is, and in which member function
  cur,           \* the shard it works on
  toVisit,       \* the shards its loop has not reached
  taken,         \* its local vector of records; before that, put's argument
  future,        \* the action whose future deliver returned
  payload,       \* the records of each action
  (* history *)
  todo,          \* records not yet put
  flushes,       \* calls of flush() so far
  putLog,        \* the records put into each shard, in order
  database,      \* the records of each shard written, in order
  raced          \* shards that two threads accessed at once, without the mutex

(* The variables of the pool.                                              *)
VARIABLES
  availableWorkers, status, action, locked, wpc, dpc, pos, carry, cpc, cidx,
  resolved, terminated, fate, writes, rejected, spurious, early

WP == INSTANCE WorkerPool WITH Deliverers <- Threads

shardVars == <<records, size, timedOut>>
localVars == <<cur, toVisit, taken, future>>
requestVars == <<todo, flushes, putLog>>
otherPoolVars == <<availableWorkers, status, action, locked, wpc, dpc, pos,
                   carry, cpc, cidx, resolved, fate, writes, rejected, spurious,
                   early>>
poolVars == <<otherPoolVars, terminated>>
restOfPool == <<availableWorkers, status, action, locked, wpc, dpc, pos, carry,
                cidx, resolved, fate, writes, rejected, spurious, early, terminated>>
clientVars == <<clientStatus, shardVars, result, shardLocked, pc, job, localVars,
                payload, requestVars, database, raced>>
vars == <<clientVars, poolVars>>

AnyShard == CHOOSE s \in Shards : TRUE

Jobs == {"none", "put", "flush", "close", "watch"}
Pcs == {"constructing", "idle", "lock", "check", "copy", "clear", "await",
        "acquire", "deliver", "assign", "next", "drain", "join", "destroyed",
        "test", "sweep", "try", "permit", "ended"}

(* The constructor has started the watcher and not yet set status.         *)
Init ==
  /\ WP!Init
  /\ clientStatus \in RawStatus
  /\ records = [s \in Shards |-> <<>>]
  /\ size = [s \in Shards |-> 0]
  /\ timedOut = [s \in Shards |-> FALSE]
  /\ result = [s \in Shards |-> NoAction]
  /\ shardLocked = {}
  /\ pc = [t \in Threads |-> IF t = Watcher THEN "test" ELSE "constructing"]
  /\ job = [t \in Threads |-> IF t = Watcher THEN "watch" ELSE "none"]
  /\ cur = [t \in Threads |-> AnyShard]
  /\ toVisit = [t \in Threads |-> {}]
  /\ taken = [t \in Threads |-> <<>>]
  /\ future = [t \in Threads |-> NoAction]
  /\ payload = [a \in Actions |-> <<>>]
  /\ todo = Records
  /\ flushes = 0
  /\ putLog = [s \in Shards |-> <<>>]
  /\ database = [s \in Shards |-> <<>>]
  /\ raced = {}

(* status = ClientStatus::RUNNING; from now on threads may use the client. *)
Construct ==
  /\ pc[Owner] = "constructing"
  /\ clientStatus' = "RUNNING"
  /\ pc' = [t \in Threads |-> IF t = Watcher THEN pc[t] ELSE "idle"]
  /\ UNCHANGED <<shardVars, result, shardLocked, job, localVars, payload,
                 requestVars, database, raced, poolVars>>

-----------------------------------------------------------------------------
(* The shard collector.                                                    *)

(* Mutant: > where >= is meant.                                            *)
ReachTargetLate(s) ==
  /\ records[s] # <<>>
  /\ Len(records[s]) > TargetNumRecords \/ size[s] > TargetMemorySize

ReachTarget(s) ==
  /\ records[s] # <<>>
  /\ Len(records[s]) >= TargetNumRecords \/ size[s] >= TargetMemorySize

TimeOut(s) == records[s] # <<>> /\ timedOut[s]

(* Mutant: nobody waits for the previous batch.                            *)
AlwaysReady(s) == TRUE

(* Its future is not valid or has its value: wait() returns at once.       *)
Ready(s) == result[s] = NoAction \/ result[s] \in resolved

(* Mutant: size -= record.size().                                          *)
ShrinkSize(s, r) == size' = [size EXCEPT ![s] = @ - RecordSize[r]]

(* size += record.size().                                                  *)
AddSize(s, r) == size' = [size EXCEPT ![s] = @ + RecordSize[r]]

(* Mutant: the new record goes to the front.                               *)
PushFront(s, r) == records' = [records EXCEPT ![s] = <<r>> \o @]

(* records.push_back(std::move(record)).                                   *)
PushBack(s, r) == records' = [records EXCEPT ![s] = Append(@, r)]

(* Mutant: flush forgets size.                                             *)
KeepSize(s) == UNCHANGED size

(* size = 0.                                                               *)
ResetSize(s) == size' = [size EXCEPT ![s] = 0]

(* Mutant: the records are copied and not moved.                           *)
KeepRecords(s) == UNCHANGED records

(* A vector that was moved from is empty.                                  *)
EmptyRecords(s) == records' = [records EXCEPT ![s] = <<>>]

(* Mutant: nobody heeds the mutex.                                         *)
AlwaysFree(s) == TRUE

(* The mutex of the shard can be taken.                                    *)
Free(s) == s \notin shardLocked

(* Time passes.  timeOut() is only asked of a shard that has records.      *)
Age(s) ==
  /\ ~timedOut[s]
  /\ records[s] # <<>>
  /\ timedOut' = [timedOut EXCEPT ![s] = TRUE]
  /\ UNCHANGED <<clientStatus, records, size, result, shardLocked, pc, job,
                 localVars, payload, requestVars, database, raced, poolVars>>

(* Some other thread is at one of these places with shard s.               *)
Others(t, s, places) == \E u \in Threads \ {t} : cur[u] = s /\ pc[u] \in places

(* Thread t uses the vector, size and lastFlushTime of shard s while       *)
(* another is, or may be, in ShardCollector::flush for it.  If that one is *)
(* between its two steps the calls overlap, and it is a race.  If it is    *)
(* about to call flush they may: then size = 0 or the move can fall        *)
(* anywhere among the accesses of t, as between size += and push_back, or  *)
(* those of t between size = 0 and the move.  Of two calls that overlap    *)
(* one is a flush; here the other is the first to step.                    *)
TouchRecords(t, s) ==
  \/ Others(t, s, {"copy", "clear"}) /\ raced' = raced \union {s}
  \/ ~Others(t, s, {"clear"}) /\ UNCHANGED raced

(* Thread t assigns to the future of shard s: a race, which may end the    *)
(* process, if another thread waits on it or assigns to it, or if the      *)
(* watcher is about to ask it, unless t has the mutex that it asks under.  *)
TouchResult(t, s) ==
  terminated' \in IF \/ Others(t, s, {"await", "assign"})
                     \/ Others(t, s, {"try"}) /\ Free(s)
                     \/ pc[Owner] = "drain" /\ s \in toVisit[Owner]
                  THEN BOOLEAN ELSE {FALSE}

Goto(t, place) == pc' = [pc EXCEPT ![t] = place]

(* Where thread t goes when it is through with a shard.                    *)
After(t) == CASE job[t] = "put" -> "idle"
              [] job[t] \in {"flush", "close"} -> "next"
              [] job[t] = "watch" -> "sweep"

(* Mutant: the mutex is never released.                                    *)
KeepLocked(t) == UNCHANGED shardLocked

(* put and the watcher hold the mutex of their shard; it is released when  *)
(* the lock goes out of scope, by return or by an exception.               *)
Unlock(t) ==
  shardLocked' = IF job[t] \in {"put", "watch"} THEN shardLocked \ {cur[t]} ELSE shardLocked

Leave(t) ==
  /\ Goto(t, After(t))
  /\ job' = [job EXCEPT ![t] = IF @ = "put" THEN "none" ELSE @]
  /\ cur' = [cur EXCEPT ![t] = AnyShard]
  /\ Unlock(t)

-----------------------------------------------------------------------------
(* Client::put.                                                            *)

StartPut(t, r) ==
  /\ pc[t] = "idle"
  /\ clientStatus = "RUNNING"
  /\ r \in todo
  /\ todo' = todo \ {r}
  /\ job' = [job EXCEPT ![t] = "put"]
  /\ cur' = [cur EXCEPT ![t] = ShardOf[r]]
  /\ taken' = [taken EXCEPT ![t] = <<r>>]
  /\ Goto(t, "lock")
  /\ UNCHANGED <<clientStatus, shardVars, result, shardLocked, toVisit, future,
                 payload, flushes, putLog, database, raced, poolVars>>

(* The mutex is taken and ShardCollector::apply adds the record.           *)
Apply(t) ==
  LET s == cur[t]
      r == taken[t][1]
  IN
  /\ pc[t] = "lock"
  /\ Free(s)
  /\ shardLocked' = shardLocked \union {s}
  /\ timedOut' = [timedOut EXCEPT ![s] = @ /\ records[s] # <<>>]
  /\ AddSize(s, r)
  /\ PushBack(s, r)
  /\ putLog' = [putLog EXCEPT ![s] = Append(@, r)]
  /\ taken' = [taken EXCEPT ![t] = <<>>]
  /\ TouchRecords(t, s)
  /\ Goto(t, "check")
  /\ UNCHANGED <<clientStatus, result, job, cur, toVisit, future, payload, todo,
                 flushes, database, poolVars>>

(* flushShardCollectorIfReachTarget: if not, put returns.                  *)
Check(t) ==
  /\ pc[t] = "check"
  /\ TouchRecords(t, cur[t])
  /\ \/ ReachTarget(cur[t]) /\ Goto(t, "copy") /\ UNCHANGED <<job, cur, shardLocked>>
     \/ ~ReachTarget(cur[t]) /\ Leave(t)
  /\ UNCHANGED <<clientStatus, shardVars, result, toVisit, taken, future, payload,
                 requestVars, database, poolVars>>

-----------------------------------------------------------------------------
(* A batch on its way from the shard to the pool.                          *)

(* ShardCollector::flush resets time and size, and the caller's vector     *)
(* takes over the contents: first it copies the pointers ...               *)
Copy(t) ==
  LET s == cur[t] IN
  /\ pc[t] = "copy"
  /\ timedOut' = [timedOut EXCEPT ![s] = FALSE]
  /\ ResetSize(s)
  /\ taken' = [taken EXCEPT ![t] = records[s]]
  /\ TouchRecords(t, s)
  /\ Goto(t, "clear")
  /\ UNCHANGED <<clientStatus, records, result, shardLocked, job, cur, toVisit,
                 future, payload, requestVars, database, poolVars>>

(* ... then it clears the source.  flush() goes on with the next shard if  *)
(* the batch is empty; the watcher has its permit already.                 *)
Clear(t) ==
  /\ pc[t] = "clear"
  /\ EmptyRecords(cur[t])
  /\ IF job[t] \in {"flush", "close"} /\ taken[t] = <<>>
     THEN Leave(t)
     ELSE /\ Goto(t, IF job[t] = "watch" THEN "deliver" ELSE "await")
          /\ UNCHANGED <<job, cur, shardLocked>>
  /\ UNCHANGED <<clientStatus, size, timedOut, result, toVisit, taken, future,
                 payload, requestVars, database, raced, poolVars>>

(* result.wait(): the previous batch of the shard must be done.            *)
Await(t) ==
  /\ pc[t] = "await"
  /\ Ready(cur[t])
  /\ Goto(t, "acquire")
  /\ UNCHANGED <<clientStatus, shardVars, result, shardLocked, job, localVars,
                 payload, requestVars, database, raced, poolVars>>

(* The Action object that is created next.                                 *)
NextAction == CHOOSE a \in Actions : fate[a] = "fresh"

TakePermit(t) == (\E a \in Actions : fate[a] = "fresh") /\ WP!Acquire(t, NextAction)

(* availableWorkers.acquire().                                             *)
AcquirePermit(t) ==
  /\ pc[t] = "acquire"
  /\ TakePermit(t)
  /\ Goto(t, "deliver")
  /\ UNCHANGED <<clientStatus, shardVars, result, shardLocked, job, localVars,
                 payload, requestVars, database, raced, terminated>>

(* deliver: the action gets the records and the scan of the workers runs.  *)
Scan(t) ==
  /\ pc[t] = "deliver"
  /\ WP!LockWorker(t) \/ WP!SkipLocked(t) \/ WP!SkipBusy(t)
  /\ UNCHANGED <<clientVars, terminated>>

HandOver(t) ==
  /\ payload' = [payload EXCEPT ![carry[t]] = taken[t]]
  /\ taken' = [taken EXCEPT ![t] = <<>>]

Give(t) ==
  /\ pc[t] = "deliver"
  /\ WP!GiveAction(t)
  /\ HandOver(t)
  /\ future' = [future EXCEPT ![t] = carry[t]]
  /\ Goto(t, "assign")
  /\ UNCHANGED <<clientStatus, shardVars, result, shardLocked, job, cur, toVisit,
                 requestVars, database, raced, terminated>>

(* shardCollector.result = std::move(result).                              *)
Assign(t) ==
  /\ pc[t] = "assign"
  /\ result' = [result EXCEPT ![cur[t]] = future[t]]
  /\ future' = [future EXCEPT ![t] = NoAction]
  /\ TouchResult(t, cur[t])
  /\ Leave(t)
  /\ UNCHANGED <<clientStatus, shardVars, toVisit, taken, payload, requestVars,
                 database, raced, otherPoolVars>>

(* An InnerException leaves put or flush: the batch is gone, the result of *)
(* the shard is the old one, and the application may go on.                *)
Throw(t) ==
  /\ pc[t] = "deliver"
  /\ job[t] \in {"put", "flush"}
  /\ WP!ThrowInner(t)
  /\ HandOver(t)
  /\ Goto(t, "idle")
  /\ job' = [job EXCEPT ![t] = "none"]
  /\ cur' = [cur EXCEPT ![t] = AnyShard]
  /\ toVisit' = [toVisit EXCEPT ![t] = {}]
  /\ Unlock(t)
  /\ UNCHANGED <<clientStatus, shardVars, result, future, requestVars, database,
                 raced, terminated>>

(* It leaves the watcher or the destructor: std::terminate.                *)
ThrowUncaught(t) ==
  /\ pc[t] = "deliver"
  /\ job[t] \in {"watch", "close"}
  /\ WP!ThrowUncaught(t)
  /\ HandOver(t)
  /\ UNCHANGED <<clientStatus, shardVars, result, shardLocked, pc, job, cur,
                 toVisit, future, requestVars, database, raced>>

-----------------------------------------------------------------------------
(* Client::flush, and the destructor, which calls it.                      *)

StartFlush(t) ==
  /\ pc[t] = "idle"
  /\ clientStatus = "RUNNING"
  /\ flushes < MaxFlushes
  /\ flushes' = flushes + 1
  /\ job' = [job EXCEPT ![t] = "flush"]
  /\ toVisit' = [toVisit EXCEPT ![t] = Shards]
  /\ Goto(t, "next")
  /\ UNCHANGED <<clientStatus, shardVars, result, shardLocked, cur, taken, future,
                 payload, todo, putLog, database, raced, poolVars>>

(* Mutant: the loop ends after one shard.                                  *)
NoMore(t, s) == {}

(* The shards that the loop has still to visit after s.                    *)
Rest(t, s) == toVisit[t] \ {s}

(* The shards are visited in the order of a hash table: any order.         *)
VisitNext(t) ==
  /\ pc[t] = "next"
  /\ \E s \in toVisit[t] :
       /\ cur' = [cur EXCEPT ![t] = s]
       /\ toVisit' = [toVisit EXCEPT ![t] = Rest(t, s)]
  /\ Goto(t, "copy")
  /\ UNCHANGED <<clientStatus, shardVars, result, shardLocked, job, taken, future,
                 payload, requestVars, database, raced, poolVars>>

EndFlush(t) ==
  /\ pc[t] = "next"
  /\ toVisit[t] = {}
  /\ \/ /\ job[t] = "flush"
        /\ Goto(t, "idle")
        /\ job' = [job EXCEPT ![t] = "none"]
        /\ UNCHANGED toVisit
     \/ /\ job[t] = "close"
        /\ Goto(t, "drain")
        /\ toVisit' = [toVisit EXCEPT ![t] = Shards]
        /\ UNCHANGED job
  /\ UNCHANGED <<clientStatus, shardVars, result, shardLocked, cur, taken, future,
                 payload, requestVars, database, raced, poolVars>>

(* Mutant: the watcher is not told.                                        *)
TellNobody == UNCHANGED clientStatus

(* status = ClientStatus::UNAVAILABLE.                                     *)
TellWatcher == clientStatus' = "UNAVAILABLE"

(* ~Client begins; the application has no thread in put or flush.          *)
StartClose ==
  /\ \A t \in AppThreads : pc[t] = "idle"
  /\ TellWatcher
  /\ job' = [job EXCEPT ![Owner] = "close"]
  /\ toVisit' = [toVisit EXCEPT ![Owner] = Shards]
  /\ Goto(Owner, "next")
  /\ UNCHANGED <<shardVars, result, shardLocked, cur, taken, future, payload,
                 requestVars, database, raced, poolVars>>

(* It waits for the result of every shard ...                              *)
Drain ==
  /\ pc[Owner] = "drain"
  /\ \/ \E s \in toVisit[Owner] :
          /\ Ready(s)
          /\ toVisit' = [toVisit EXCEPT ![Owner] = @ \ {s}]
          /\ UNCHANGED pc
     \/ toVisit[Owner] = {} /\ Goto(Owner, "join") /\ UNCHANGED toVisit
  /\ UNCHANGED <<clientStatus, shardVars, result, shardLocked, job, cur, taken,
                 future, payload, requestVars, database, raced, poolVars>>

(* Mutant: the watcher is not joined.                                      *)
WatcherForgotten == TRUE

(* watcher.join() returns.                                                 *)
WatcherEnded == pc[Watcher] = "ended"

(* ... and for the watcher; then ~WorkerPool runs.  That nobody uses the   *)
(* pool any more is not a guard here.                                      *)
Join ==
  /\ pc[Owner] = "join"
  /\ WatcherEnded
  /\ cpc' = "closing"
  /\ Goto(Owner, "destroyed")
  /\ UNCHANGED <<clientStatus, shardVars, result, shardLocked, job, localVars,
                 payload, requestVars, database, raced, restOfPool>>

-----------------------------------------------------------------------------
(* Client::watcherRun.                                                     *)

(* while (status != UNAVAILABLE).                                          *)
TestStatus ==
  /\ pc[Watcher] = "test"
  /\ \/ /\ clientStatus = "UNAVAILABLE"
        /\ Goto(Watcher, "ended")
        /\ UNCHANGED toVisit
     \/ /\ clientStatus # "UNAVAILABLE"
        /\ Goto(Watcher, "sweep")
        /\ toVisit' = [toVisit EXCEPT ![Watcher] = Shards]
  /\ UNCHANGED <<clientStatus, shardVars, result, shardLocked, job, cur, taken,
                 future, payload, requestVars, database, raced, poolVars>>

(* timeOut() is asked without the mutex: while somebody holds it the       *)
(* answer may be either.                                                   *)
Sees(s) == IF s \in shardLocked THEN BOOLEAN ELSE {TimeOut(s)}

Sweep ==
  /\ pc[Watcher] = "sweep"
  /\ \/ \E s \in toVisit[Watcher] : \E timeOut \in Sees(s) :
          /\ toVisit' = [toVisit EXCEPT ![Watcher] = @ \ {s}]
          /\ cur' = IF timeOut THEN [cur EXCEPT ![Watcher] = s] ELSE cur
          /\ Goto(Watcher, IF timeOut THEN "try" ELSE "sweep")
     \/ toVisit[Watcher] = {} /\ Goto(Watcher, "test") /\ UNCHANGED <<toVisit, cur>>
  /\ UNCHANGED <<clientStatus, shardVars, result, shardLocked, job, taken, future,
                 payload, requestVars, database, raced, poolVars>>

(* Mutant: timeOut() is not asked again under the mutex.                   *)
MayFlushUnchecked(s) == Ready(s)

(* Mutant: a shard that never had a batch is left alone.                   *)
MayFlushAgain(s) == TimeOut(s) /\ result[s] # NoAction /\ Ready(s)

(* The tests of tryFlushShardCollectorIfTimeOut before try_acquire.        *)
MayFlush(s) == TimeOut(s) /\ Ready(s)

(* try_to_lock, and tryFlushShardCollectorIfTimeOut up to try_acquire.     *)
TryLock ==
  LET s == cur[Watcher]
      goesOn == Free(s) /\ MayFlush(s)
  IN
  /\ pc[Watcher] = "try"
  /\ shardLocked' = IF goesOn THEN shardLocked \union {s} ELSE shardLocked
  /\ IF Free(s) THEN TouchRecords(Watcher, s) ELSE UNCHANGED raced
  /\ Goto(Watcher, IF goesOn THEN "permit" ELSE "sweep")
  /\ UNCHANGED <<clientStatus, shardVars, result, job, localVars, payload,
                 requestVars, database, poolVars>>

TryPermit ==
  /\ pc[Watcher] = "permit"
  /\ \/ /\ TakePermit(Watcher)
        /\ Goto(Watcher, "copy")
        /\ UNCHANGED <<job, cur, shardLocked, terminated>>
     \/ /\ availableWorkers = 0
        /\ Leave(Watcher)
        /\ UNCHANGED poolVars
  /\ UNCHANGED <<clientStatus, shardVars, result, toVisit, taken, future, payload,
                 requestVars, database, raced>>

-----------------------------------------------------------------------------
(* The worker threads and ~WorkerPool.                                     *)

ShardOfBatch(a) == ShardOf[payload[a][1]]

(* DorisConnector::write of action a: an empty batch is not sent, and one  *)
(* that the database refuses is not stored.                                *)
Store(a) ==
  \/ a \notin rejected' /\ payload[a] = <<>> /\ UNCHANGED database
  \/ a \in rejected' /\ payload[a] # <<>> /\ UNCHANGED database
  \/ /\ a \notin rejected' /\ payload[a] # <<>>
     /\ database' = [database EXCEPT ![ShardOfBatch(a)] = @ \o payload[a]]

Work(w) ==
  /\ WP!Run(w)
  /\ IF wpc[w] = "looping" /\ status[w] = "BUSY" THEN Store(action[w]) ELSE UNCHANGED database
  /\ UNCHANGED <<clientStatus, shardVars, result, shardLocked, pc, job, localVars,
                 payload, requestVars, raced, terminated>>

SpuriousWakeup(w) == WP!SpuriousWakeup(w) /\ UNCHANGED <<clientVars, terminated>>

DestroyPool ==
  /\ WP!Close
  /\ IF cpc = "closing" /\ status[cidx] = "BUSY" THEN Store(action[cidx]) ELSE UNCHANGED database
  /\ UNCHANGED <<clientStatus, shardVars, result, shardLocked, pc, job, localVars,
                 payload, requestVars, raced, terminated>>

(* The answer of the database to a batch cannot be parsed.                 *)
WriteThrows ==
  /\ WP!WriteThrows
  /\ \E w \in WP!Workers :
       /\ status[w] = "BUSY" /\ payload[action[w]] # <<>>
       /\ wpc[w] = "looping" \/ (cpc = "closing" /\ w = cidx /\ w \notin locked)
  /\ UNCHANGED clientVars

(* What a race on a vector leads to is undefined: the process may end.     *)
Crash == raced # {} /\ terminated' = TRUE /\ UNCHANGED <<clientVars, otherPoolVars>>

-----------------------------------------------------------------------------
(* What a thread does once it is inside put, flush or the destructor.      *)
Proceed(t) ==
  \/ Apply(t) \/ Check(t) \/ Copy(t) \/ Clear(t) \/ Await(t) \/ AcquirePermit(t)
  \/ Scan(t) \/ Give(t) \/ Assign(t) \/ Throw(t) \/ ThrowUncaught(t)
  \/ VisitNext(t) \/ EndFlush(t)

Watch == TestStatus \/ Sweep \/ TryLock \/ TryPermit \/ Proceed(Watcher)

Close == Drain \/ Join \/ DestroyPool

(* The end: the client is destroyed, the process has ended, or everybody   *)
(* waits for a permit that an InnerException has kept.                     *)
Done ==
  /\ \/ cpc = "closed" \/ terminated
     \/ availableWorkers = 0 /\ \E a \in Actions : fate[a] = "dropped"
  /\ UNCHANGED vars

Next ==
  \/ /\ ~terminated
     /\ \/ Construct
        \/ \E t \in AppThreads :
             (\E r \in Records : StartPut(t, r)) \/ StartFlush(t) \/ Proceed(t)
        \/ StartClose
        \/ Watch
        \/ Close
        \/ \E w \in WP!Workers : Work(w) \/ SpuriousWakeup(w)
        \/ \E s \in Shards : Age(s)
        \/ WriteThrows
        \/ Crash
  \/ Done

(* Every thread that is not blocked is scheduled and time passes; which    *)
(* records are put, and whether the client is flushed or destroyed, is up  *)
(* to the application.                                                     *)
Fairness ==
  /\ WF_vars(~terminated /\ Construct)
  /\ \A t \in AppThreads : WF_vars(~terminated /\ Proceed(t))
  /\ WF_vars(~terminated /\ Watch)
  /\ WF_vars(~terminated /\ Close)
  /\ \A w \in WP!Workers : WF_vars(~terminated /\ Work(w))
  /\ \A s \in Shards : WF_vars(~terminated /\ Age(s))

Spec == Init /\ [][Next]_vars
FairSpec == Spec /\ Fairness

-----------------------------------------------------------------------------
(* Properties.                                                             *)

(* Every variable of the client keeps its type.                            *)
TypeOK ==
  /\ clientStatus \in {"UNAVAILABLE", "RUNNING", "other"}
  /\ records \in [Shards -> Seq(Records)]
  /\ size \in [Shards -> Nat]
  /\ timedOut \in [Shards -> BOOLEAN]
  /\ result \in [Shards -> Actions \union {NoAction}]
  /\ shardLocked \subseteq Shards
  /\ pc \in [Threads -> Pcs] /\ job \in [Threads -> Jobs]
  /\ cur \in [Threads -> Shards] /\ toVisit \in [Threads -> SUBSET Shards]
  /\ taken \in [Threads -> Seq(Records)]
  /\ future \in [Threads -> Actions \union {NoAction}]
  /\ payload \in [Actions -> Seq(Records)]
  /\ todo \subseteq Records /\ flushes \in 0 .. MaxFlushes
  /\ putLog \in [Shards -> Seq(Records)] /\ database \in [Shards -> Seq(Records)]
  /\ raced \subseteq Shards

(* The records of the batches that an InnerException dropped or that the   *)
(* database refused, and what was put into a shard without them.           *)
Gone ==
  UNION {ToSet(payload[a]) : a \in {b \in Actions : fate[b] = "dropped" \/ b \in rejected}}
Kept(s) == ToSet(putLog[s]) \ Gone

(* The batches of shard s that a worker was given and has not written, and *)
(* the threads that have one in their hands.                               *)
Underway(s) ==
  {a \in Actions : /\ fate[a] = "accepted" /\ writes[a] = 0
                   /\ payload[a] # <<>> /\ ShardOfBatch(a) = s}
Holding(s) == {t \in Threads : cur[t] = s /\ taken[t] # <<>>
                               /\ pc[t] \in {"await", "acquire", "deliver"}}

TheBatch(actions) == IF actions = {} THEN <<>> ELSE payload[CHOOSE a \in actions : TRUE]
TheTaken(threads) == IF threads = {} THEN <<>> ELSE taken[CHOOSE t \in threads : TRUE]

(* What a shard owes the database: the batch at a worker, the batch in the *)
(* hands of a thread, and the vector.                                      *)
Pending(s) == TheBatch(Underway(s)) \o TheTaken(Holding(s)) \o records[s]

(* The elements of seq are elements of log, in the order of log.           *)
InOrderOf(seq, log) ==
  \A i, j \in DOMAIN seq : i < j =>
    \E k, l \in DOMAIN log : k < l /\ log[k] = seq[i] /\ log[l] = seq[j]

(* The records of a shard are a pipeline: those put, except the ones gone, *)
(* are, in the order of the puts and each once, the ones in the database,  *)
(* one batch at a worker, one batch in the hands of a thread, and the      *)
(* vector.                                                                 *)
InOrder(s) ==
  /\ Cardinality(Underway(s)) <= 1
  /\ Cardinality(Holding(s)) <= 1
  /\ ToSet(database[s] \o Pending(s)) = Kept(s)
  /\ InOrderOf(database[s] \o Pending(s), putLog[s])

(* A shard is written in the order of the puts, one batch at a time, with  *)
(* any number of threads in put and the watcher flushing what timed out,   *)
(* up to and including the destructor: client.h:79-85, 143-170.            *)
Pipeline == flushes = 0 => \A s \in Shards \ raced : InOrder(s)

(* flush() takes no mutex.  Called by the only application thread it keeps *)
(* the order as long as the watcher, emptied out between its test and its  *)
(* flush, has not handed an empty batch to a worker: the result of that    *)
(* batch replaces the one to wait for (client.h:87-104, 161-168).          *)
EmptyBatches == {a \in Actions : fate[a] = "accepted" /\ payload[a] = <<>>}
FlushKeepsOrder ==
  Cardinality(AppThreads) = 1 /\ EmptyBatches = {} =>
    \A s \in Shards \ raced : InOrder(s)

(* Even if flush() is called from several threads, a record that was put,  *)
(* and is not gone, is in one place and there once,                        *)
(* unless two threads were at the vector at the same time.                 *)
NothingLost ==
  \A s \in Shards \ raced : \A r \in Kept(s) :
    LET copies(seq) == Cardinality({i \in DOMAIN seq : seq[i] = r}) IN
    copies(database[s]) + copies(records[s])
      + Cardinality({a \in Underway(s) : r \in ToSet(payload[a])})
      + Cardinality({t \in Holding(s) : r \in ToSet(taken[t])})
    = 1

(* Even then it is only batches that change places: a batch, and what is   *)
(* left in the vector, is an unbroken run of the puts (client.h:87-104).   *)
IsRunOf(seq, log) == \E i \in 0 .. Len(log) : IsPrefix(seq, SubSeq(log, i + 1, Len(log)))
OnlyBatchesOvertake ==
  \A s \in Shards \ raced :
    /\ IsRunOf(records[s], putLog[s])
    /\ \A t \in Holding(s) : IsRunOf(taken[t], putLog[s])
    /\ \A a \in Actions :
         payload[a] # <<>> /\ ShardOfBatch(a) = s => IsRunOf(payload[a], putLog[s])

(* Until somebody calls flush() or the destructor, one thread at a time is *)
(* at the records and the result of a shard, although the watcher takes    *)
(* the mutex only after its first test (client.h:82, 117-120).             *)
ShardExclusive ==
  flushes = 0 /\ job[Owner] # "close" =>
    /\ raced = {}
    /\ \A t, u \in Threads :
         t # u /\ cur[t] = cur[u] =>
           ~({pc[t], pc[u]} \subseteq {"check", "permit", "copy", "clear", "await",
                                      "acquire", "deliver", "assign"})

(* size is the size of the records in the vector, so that the next flush   *)
(* comes neither early nor late; while a thread moves them out it is 0.    *)
SizesAddUp(seq, total) ==
  \E sum \in [0 .. Len(seq) -> 0 .. total] :
    /\ sum[0] = 0 /\ sum[Len(seq)] = total
    /\ \A i \in 1 .. Len(seq) : sum[i] = sum[i - 1] + RecordSize[seq[i]]
SizeTracksRecords ==
  \A s \in Shards \ raced :
    (\A t \in Threads : ~(cur[t] = s /\ pc[t] = "clear")) => SizesAddUp(records[s], size[s])

(* A shard that no put is working on has not reached its target: every put *)
(* that fills it takes the batch out.                                      *)
BelowTarget ==
  \A s \in Shards \ (shardLocked \union raced) :
    /\ Len(records[s]) < TargetNumRecords
    /\ \E total \in 0 .. TargetMemorySize - 1 : SizesAddUp(records[s], total)

(* Backpressure: put blocks rather than letting more than two batches of a *)
(* shard wait for the database.                                            *)
Backpressure ==
  flushes = 0 => \A s \in Shards \ raced :
    Cardinality(Kept(s) \ ToSet(database[s])) <= 2 * TargetNumRecords

(* As long as nobody calls flush(), what the watcher found under the mutex *)
(* still holds when it takes the batch: the shard has timed out and its    *)
(* previous batch is done (client.h:161-167).                              *)
WatcherCheckHolds ==
  flushes = 0 /\ job[Owner] # "close" /\ pc[Watcher] \in {"permit", "copy"} =>
    TimeOut(cur[Watcher]) /\ Ready(cur[Watcher])

(* When the destructor is done, all that was put and is not gone is in the *)
(* database.                                                               *)
CloseWritesAll ==
  cpc = "closed" => \A s \in Shards \ raced : ToSet(database[s]) = Kept(s)

(* client.h:13: "RUNNING = 1         // The client is running."  A running *)
(* client has its watcher.                                                 *)
RunningHasWatcher == clientStatus = "RUNNING" => pc[Watcher] # "ended"

Trouble == terminated \/ raced # {} \/ \E a \in Actions : fate[a] = "dropped"

(* put returns: it does not wait forever for the mutex, the previous batch *)
(* or a worker.                                                            *)
PutReturns ==
  \A t \in AppThreads : job[t] = "put" ~> (job[t] # "put" \/ Trouble)

(* Every record that was put is sent to the database without any further   *)
(* call of the application: the watcher sees to it.                        *)
EventuallyStored ==
  \A r \in Records : (r \in ToSet(putLog[ShardOf[r]])) ~>
    (r \in ToSet(database[ShardOf[r]]) \union Gone \/ Trouble)

(* The destructor ends: the results, the watcher and the workers it waits  *)
(* for all come.                                                           *)
CloseTerminates == job[Owner] = "close" ~> (cpc = "closed" \/ Trouble)

(* The client uses its pool as WorkerPool expects: no step but those, and  *)
(* the end of the process.  In particular no thread delivers an action     *)
(* while or after ~WorkerPool runs (client.h:62-77).                       *)
ImplementsWorkerPool ==
  WP!Init /\ [][WP!Next \/ (terminated' /\ UNCHANGED otherPoolVars)]_(poolVars)

(* A shard is a queue (ShardQueue) that is written front first, a batch at *)
(* a time, and empty when the client is gone, until the process ends or    *)
(* the destructor and the watcher meet at a vector: client.h:62-85,        *)
(* 143-170.                                                                *)
Queue == INSTANCE ShardQueue WITH
  pending <- [s \in Shards |-> Pending(s)], stored <- database,
  state <- IF terminated \/ raced # {} THEN "broken" ELSE IF cpc = "closed" THEN "closed" ELSE "open"
ImplementsShardQueue == Queue!Spec
=============================================================================
