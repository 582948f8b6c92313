------------------------------ MODULE WorkerPool ------------------------------
(***************************************************************************)
(* The worker pool of the client (src/src/worker_pool.h, worker.h,         *)
(* action.h): NumWorkers threads, each with a mutex, a condition variable  *)
(* and one action slot, behind the counting semaphore availableWorkers.    *)
(* A thread that wants an action executed takes a permit from the          *)
(* semaphore and then scans the workers in index order with try_lock; a    *)
(* worker gives a permit back each time it goes to sleep.                  *)
(*                                                                         *)
(* A step is one access to shared state: taking or releasing a mutex, the  *)
(* semaphore, the status read under the lock, the write to the database,   *)
(* the promise.  Metrics and logging are left out.                         *)
(***************************************************************************)
EXTENDS Integers, FiniteSets

CONSTANTS
  NumWorkers,   \* config.numWorkers
  Deliverers,   \* the threads that deliver actions: callers of put, the watcher
  Actions,      \* the Action objects that are ever created
  NoAction,     \* nullptr
  WriteOutcomes, \* what connector.write may come to
  MaxSpurious   \* bound: how often cv.wait returns without a notification

ASSUME PoolAssumption ==
  /\ NumWorkers \in Nat \ {0}
  /\ MaxSpurious \in Nat
  /\ IsFiniteSet(Deliverers)
  /\ NoAction \notin Actions
  /\ WriteOutcomes \subseteq {"loaded", "refused", "exception"}

Workers == 0 .. NumWorkers - 1

VARIABLES
  availableWorkers, \* value of the counting semaphore
  status,           \* WorkerStatus of each worker
  action,           \* the action slot of each worker
  locked,           \* the workers whose mtx is held by somebody
  wpc,              \* where each worker thread is in Worker::run
  dpc,              \* where each delivering thread is in WorkerPool::apply
  pos,              \* the worker its scan has reached
  carry,            \* the action it wants executed
  cpc,              \* where the destroying thread is in ~WorkerPool
  cidx,             \* the worker it destroys
  resolved,         \* actions whose promise has its value
  terminated,       \* std::terminate was called: an exception left a thread
  (* history *)
  fate,             \* what became of each action
  writes,           \* how often connector.write ran for it
  rejected,         \* actions the database answered with an error
  spurious,         \* number of spurious returns from cv.wait so far
  early             \* number of actions given to a worker that was not asleep

poolVars == <<availableWorkers, status, action, locked, wpc, dpc, pos, carry,
              cpc, cidx, resolved, terminated, fate, writes, rejected,
              spurious, early>>

(***************************************************************************)
(* Worker threads: "starting" has not locked mtx yet, "looping" is at a    *)
(* loop condition with mtx held, "parking" has released the semaphore and  *)
(* not yet called cv.wait, "waiting" is in it, "woken" must take mtx       *)
(* again, "written" and "settled" are inside Action::exec after            *)
(* connector.write and after set_value.                                    *)
(***************************************************************************)
WorkerPcs == {"starting", "looping", "parking", "waiting", "woken",
              "written", "settled", "exited"}
DelivererPcs == {"idle", "scanning", "applying"}
CloserPcs == {"open", "closing", "joining", "closed"}

(* Worker::Worker and WorkerPool::WorkerPool: every worker is IDLE and its  *)
(* thread exists, the semaphore is 0.                                      *)
Init ==
  /\ availableWorkers = 0
  /\ status = [w \in Workers |-> "IDLE"]
  /\ action = [w \in Workers |-> NoAction]
  /\ locked = {}
  /\ wpc = [w \in Workers |-> "starting"]
  /\ dpc = [d \in Deliverers |-> "idle"]
  /\ pos = [d \in Deliverers |-> 0]
  /\ carry = [d \in Deliverers |-> NoAction]
  /\ cpc = "open"
  /\ cidx = 0
  /\ resolved = {}
  /\ terminated = FALSE
  /\ fate = [a \in Actions |-> "fresh"]
  /\ writes = [a \in Actions |-> 0]
  /\ rejected = {}
  /\ spurious = 0
  /\ early = 0

workerVars == <<status, action, wpc>>
delivererVars == <<dpc, pos, carry, fate, early>>
closerVars == <<cpc, cidx>>
execVars == <<resolved, writes, rejected>>

-----------------------------------------------------------------------------
(* The mutex and the semaphore.                                            *)

(* Mutant: nobody heeds the mutex.                                         *)
AlwaysUnlocked(w) == TRUE

(* The mutex of worker w can be taken.                                     *)
Unlocked(w) == w \notin locked

(* The lock of w's mutex goes out of scope, or cv.wait gives it up.        *)
ReleaseMutex(w) == locked' = locked \ {w}

(* Mutant: the semaphore lets a thread through when it is 0.               *)
AlwaysPermit == TRUE

(* acquire() returns, or try_acquire() succeeds.                           *)
HasPermit == availableWorkers > 0

(* Mutants: the permit is not released, or a second one with it.           *)
ReleaseNothing == UNCHANGED availableWorkers
ReleaseTwo == availableWorkers' = availableWorkers + 2

(* availableWorkers.release().                                             *)
Release == availableWorkers' = availableWorkers + 1

-----------------------------------------------------------------------------
(* Delivering threads.                                                     *)

(* Mutant: cv.notify_all is forgotten.                                     *)
NotifyNobody(w) == UNCHANGED wpc

(* cv.notify_all() of worker w: it has nobody but its own thread to wake.  *)
Notify(w) == wpc' = [wpc EXCEPT ![w] = IF @ = "waiting" THEN "woken" ELSE @]

(* Mutant: tryApply forgets the test of the status.                        *)
TakesAnything(w) == TRUE

(* The condition under which Worker::tryApply takes an action.             *)
Takes(w) == status[w] = "IDLE"

(* availableWorkers.acquire() returns, or try_acquire() succeeds, and the  *)
(* thread builds its action a and calls workerPool.apply.                  *)
Acquire(d, a) ==
  /\ dpc[d] = "idle"
  /\ cpc = "open"
  /\ fate[a] = "fresh"
  /\ HasPermit
  /\ availableWorkers' = availableWorkers - 1
  /\ dpc' = [dpc EXCEPT ![d] = "scanning"]
  /\ pos' = [pos EXCEPT ![d] = 0]
  /\ carry' = [carry EXCEPT ![d] = a]
  /\ fate' = [fate EXCEPT ![a] = "carried"]
  /\ UNCHANGED <<workerVars, closerVars, execVars, locked, spurious, early>>

(* Worker::tryApply takes the mutex with try_to_lock ...                   *)
LockWorker(d) ==
  /\ dpc[d] = "scanning"
  /\ pos[d] \in Workers \ locked
  /\ locked' = locked \union {pos[d]}
  /\ dpc' = [dpc EXCEPT ![d] = "applying"]
  /\ UNCHANGED <<workerVars, closerVars, execVars, availableWorkers, pos,
                 carry, fate, spurious, early>>

(* ... or returns false, and the scan goes on with the next worker.        *)
SkipLocked(d) ==
  /\ dpc[d] = "scanning"
  /\ pos[d] \in locked
  /\ pos' = [pos EXCEPT ![d] = @ + 1]
  /\ UNCHANGED <<workerVars, closerVars, execVars, availableWorkers, locked,
                 dpc, carry, fate, spurious, early>>

(* An IDLE worker takes the action, is notified and its mutex released.  A *)
(* worker whose thread has not started yet is IDLE as well.                *)
GiveAction(d) ==
  LET w == pos[d] IN
  /\ dpc[d] = "applying"
  /\ Takes(w)
  /\ action' = [action EXCEPT ![w] = carry[d]]
  /\ status' = [status EXCEPT ![w] = "BUSY"]
  /\ Notify(w)
  /\ early' = IF wpc[w] = "waiting" THEN early ELSE early + 1
  /\ fate' = [fate EXCEPT ![carry[d]] = "accepted"]
  /\ ReleaseMutex(w)
  /\ dpc' = [dpc EXCEPT ![d] = "idle"]
  /\ carry' = [carry EXCEPT ![d] = NoAction]
  /\ UNCHANGED <<closerVars, execVars, availableWorkers, pos, spurious>>

(* A worker that is not IDLE is released and the scan goes on.             *)
SkipBusy(d) ==
  /\ dpc[d] = "applying"
  /\ ~Takes(pos[d])
  /\ ReleaseMutex(pos[d])
  /\ dpc' = [dpc EXCEPT ![d] = "scanning"]
  /\ pos' = [pos EXCEPT ![d] = @ + 1]
  /\ UNCHANGED <<workerVars, closerVars, execVars, availableWorkers, carry,
                 fate, spurious, early>>

(* WorkerPool::apply found no worker: it throws InnerException.  The action *)
(* is destroyed and the permit is not given back.                          *)
ThrowInner(d) ==
  /\ dpc[d] = "scanning"
  /\ pos[d] = NumWorkers
  /\ dpc' = [dpc EXCEPT ![d] = "idle"]
  /\ carry' = [carry EXCEPT ![d] = NoAction]
  /\ fate' = [fate EXCEPT ![carry[d]] = "dropped"]
  /\ UNCHANGED <<workerVars, closerVars, execVars, availableWorkers, locked,
                 pos, spurious, early>>

(* The watcher and ~Client do not catch it: std::terminate.                *)
ThrowUncaught(d) == ThrowInner(d) /\ terminated' = TRUE

Scan(d) == LockWorker(d) \/ SkipLocked(d) \/ GiveAction(d) \/ SkipBusy(d) \/ ThrowInner(d)

-----------------------------------------------------------------------------
(* Action::exec, by the thread t of worker w or by its destructor.         *)

(* Mutant: the records are not written.                                    *)
WriteNothing(a) == UNCHANGED <<writes, rejected>>

(* connector.write(records): the database loads the batch, or refuses it,  *)
(* which is only logged.                                                   *)
Write(a) == \E outcome \in WriteOutcomes \ {"exception"} :
  /\ writes' = [writes EXCEPT ![a] = @ + 1]
  /\ rejected' = IF outcome = "refused" THEN rejected \union {a} ELSE rejected

(* result.set_value(ActionResult::SUCCESS), whatever the database said.    *)
SetValue(a) == resolved' = resolved \union {a}

-----------------------------------------------------------------------------
(* Worker threads: Worker::run.                                            *)

(* lck(mtx) at the start of run, and the end of cv.wait.                   *)
TakeMutex(w) ==
  /\ wpc[w] \in {"starting", "woken"}
  /\ Unlocked(w)
  /\ locked' = locked \union {w}
  /\ wpc' = [wpc EXCEPT ![w] = "looping"]
  /\ UNCHANGED <<delivererVars, closerVars, execVars, availableWorkers,
                 status, action, spurious>>

(* while (status == IDLE): the permit is released while mtx is held ...    *)
ReleasePermit(w) ==
  /\ wpc[w] = "looping"
  /\ status[w] = "IDLE"
  /\ Release
  /\ wpc' = [wpc EXCEPT ![w] = "parking"]
  /\ UNCHANGED <<delivererVars, closerVars, execVars, locked, status, action,
                 spurious>>

(* ... and cv.wait(lck) then releases mtx.                                 *)
Wait(w) ==
  /\ wpc[w] = "parking"
  /\ ReleaseMutex(w)
  /\ wpc' = [wpc EXCEPT ![w] = "waiting"]
  /\ UNCHANGED <<delivererVars, closerVars, execVars, availableWorkers,
                 status, action, spurious>>

(* cv.wait may return without a notification.                              *)
SpuriousWakeup(w) ==
  /\ wpc[w] = "waiting"
  /\ spurious < MaxSpurious
  /\ spurious' = spurious + 1
  /\ wpc' = [wpc EXCEPT ![w] = "woken"]
  /\ UNCHANGED <<delivererVars, closerVars, execVars, availableWorkers,
                 locked, status, action>>

(* status == BUSY: exec() runs under the lock.                             *)
ExecWrite(w) ==
  /\ wpc[w] = "looping"
  /\ status[w] = "BUSY"
  /\ Write(action[w])
  /\ wpc' = [wpc EXCEPT ![w] = "written"]
  /\ UNCHANGED <<delivererVars, closerVars, availableWorkers, locked, status,
                 action, resolved, spurious>>

ExecSetValue(w) ==
  /\ wpc[w] = "written"
  /\ SetValue(action[w])
  /\ wpc' = [wpc EXCEPT ![w] = "settled"]
  /\ UNCHANGED <<delivererVars, closerVars, availableWorkers, locked, status,
                 action, writes, rejected, spurious>>

(* Mutant: status is not set back to IDLE.                                 *)
StayBusy(w) == UNCHANGED status

SetIdle(w) == status' = [status EXCEPT ![w] = "IDLE"]

(* status = IDLE, and the outer loop starts again.                         *)
BecomeIdle(w) ==
  /\ wpc[w] = "settled"
  /\ SetIdle(w)
  /\ wpc' = [wpc EXCEPT ![w] = "looping"]
  /\ UNCHANGED <<delivererVars, closerVars, execVars, availableWorkers,
                 locked, action, spurious>>

(* The outer loop ends; returning from run releases mtx.                   *)
Exit(w) ==
  /\ wpc[w] = "looping"
  /\ status[w] = "UNAVAILABLE"
  /\ ReleaseMutex(w)
  /\ wpc' = [wpc EXCEPT ![w] = "exited"]
  /\ UNCHANGED <<delivererVars, closerVars, execVars, availableWorkers,
                 status, action, spurious>>

Run(w) == \/ TakeMutex(w) \/ ReleasePermit(w) \/ Wait(w) \/ ExecWrite(w)
          \/ ExecSetValue(w) \/ BecomeIdle(w) \/ Exit(w)

-----------------------------------------------------------------------------
(* The destroying thread: ~WorkerPool runs ~Worker on each worker in turn. *)

(* The owner of the client guarantees that no thread is inside put or      *)
(* flush any more; ~Client has joined the watcher.                         *)
BeginClose ==
  /\ cpc = "open"
  /\ \A d \in Deliverers : dpc[d] = "idle"
  /\ cpc' = "closing"
  /\ UNCHANGED <<workerVars, delivererVars, execVars, availableWorkers,
                 locked, cidx, spurious>>

(* Mutant: the destructor forgets the action of a BUSY worker.             *)
ForgetLeftover(w) == UNCHANGED execVars

(* An action that worker w was given and has not picked up.                *)
ExecLeftover(w) ==
  \/ status[w] = "BUSY" /\ Write(action[w]) /\ SetValue(action[w])
  \/ status[w] # "BUSY" /\ UNCHANGED execVars

(* ~Worker, from taking mtx to releasing it: the leftover action is        *)
(* executed, then status = UNAVAILABLE and cv.notify_all().  Only the      *)
(* worker's own thread competes for the mutex, so this is one step.        *)
CloseWorker ==
  /\ cpc = "closing"
  /\ cidx \notin locked
  /\ ExecLeftover(cidx)
  /\ status' = [status EXCEPT ![cidx] = "UNAVAILABLE"]
  /\ Notify(cidx)
  /\ cpc' = "joining"
  /\ UNCHANGED <<delivererVars, availableWorkers, locked, action, cidx, spurious>>

(* thd.join().                                                             *)
CloseJoin ==
  /\ cpc = "joining"
  /\ wpc[cidx] = "exited"
  /\ cidx' = cidx + 1
  /\ cpc' = IF cidx + 1 = NumWorkers THEN "closed" ELSE "closing"
  /\ UNCHANGED <<workerVars, delivererVars, execVars, availableWorkers,
                 locked, spurious>>

Close == CloseWorker \/ CloseJoin

(* The answer of the database cannot be parsed: the exception leaves the   *)
(* worker's thread, or the destructor, and std::terminate ends the process. *)
WriteThrows ==
  /\ "exception" \in WriteOutcomes
  /\ \/ \E w \in Workers : wpc[w] = "looping" /\ status[w] = "BUSY"
     \/ cpc = "closing" /\ cidx \notin locked /\ status[cidx] = "BUSY"
  /\ terminated' = TRUE
  /\ UNCHANGED <<workerVars, delivererVars, closerVars, execVars,
                 availableWorkers, locked, spurious>>

-----------------------------------------------------------------------------
(* Everything is over: all threads joined and the pool gone, or the        *)
(* process terminated.                                                     *)
Done ==
  /\ cpc = "closed" \/ terminated
  /\ UNCHANGED poolVars

(* Any thread may run until the process terminates.                       *)
Step ==
  \/ \E d \in Deliverers : (\E a \in Actions : Acquire(d, a)) \/ Scan(d)
  \/ \E w \in Workers : Run(w) \/ SpuriousWakeup(w)
  \/ BeginClose
  \/ Close

Next ==
  \/ ~terminated /\ Step /\ UNCHANGED terminated
  \/ ~terminated /\ (WriteThrows \/ \E d \in Deliverers : ThrowUncaught(d))
  \/ Done

(* Threads that are neither blocked nor waiting are scheduled.  Which      *)
(* actions are delivered, whether the pool is destroyed and spurious       *)
(* wakeups are up to the environment.                                      *)
Fairness ==
  /\ \A d \in Deliverers : WF_poolVars(~terminated /\ Scan(d) /\ UNCHANGED terminated)
  /\ \A w \in Workers : WF_poolVars(~terminated /\ Run(w) /\ UNCHANGED terminated)
  /\ WF_poolVars(~terminated /\ Close /\ UNCHANGED terminated)

Spec == Init /\ [][Next]_poolVars
FairSpec == Spec /\ Fairness

-----------------------------------------------------------------------------
(* Properties.                                                             *)

(* Every variable keeps its type.                                          *)
TypeOK ==
  /\ availableWorkers \in Nat
  /\ status \in [Workers -> {"IDLE", "BUSY", "UNAVAILABLE"}]
  /\ action \in [Workers -> Actions \union {NoAction}]
  /\ locked \in SUBSET Workers
  /\ wpc \in [Workers -> WorkerPcs]
  /\ dpc \in [Deliverers -> DelivererPcs]
  /\ pos \in [Deliverers -> 0 .. NumWorkers]
  /\ carry \in [Deliverers -> Actions \union {NoAction}]
  /\ cpc \in CloserPcs
  /\ cidx \in 0 .. NumWorkers
  /\ resolved \in SUBSET Actions
  /\ terminated \in BOOLEAN
  /\ fate \in [Actions -> {"fresh", "carried", "accepted", "dropped"}]
  /\ writes \in [Actions -> Nat]
  /\ rejected \in SUBSET Actions
  /\ spurious \in 0 .. MaxSpurious
  /\ early \in Nat

(* Who holds the mutex of worker w, by the place each thread is at.        *)
ThreadOwns(w) == wpc[w] \in {"looping", "parking", "written", "settled"}
DelivererOwns(d, w) == dpc[d] = "applying" /\ pos[d] = w

(* At most one of the worker's thread and the delivering threads is in the *)
(* critical section of Worker::mtx, and the mutex is free exactly when     *)
(* none is: try_to_lock, cv.wait and the end of run hand it over without a *)
(* gap (worker.h:80-84, 97-105).                                           *)
MutualExclusion ==
  \A w \in Workers :
    /\ w \in locked <=> ThreadOwns(w) \/ \E d \in Deliverers : DelivererOwns(d, w)
    /\ \A d \in Deliverers : DelivererOwns(d, w) =>
         /\ ~ThreadOwns(w)
         /\ \A e \in Deliverers \ {d} : ~DelivererOwns(e, w)

(* No lost wakeup: a worker that has work, or has been told to end, is not *)
(* asleep and is not about to go to sleep in cv.wait (worker.h:82-85).     *)
NoLostWakeup ==
  \A w \in Workers :
    status[w] # "IDLE" => wpc[w] \notin {"parking", "waiting"}

(* An action that tryApply accepted sits in the slot of exactly one BUSY   *)
(* worker until its promise is set; no other action overwrites it.         *)
AcceptedHasOneWorker ==
  \A a \in Actions : fate[a] = "accepted" /\ a \notin resolved =>
    \E w \in Workers :
      /\ status[w] = "BUSY" /\ action[w] = a
      /\ \A v \in Workers \ {w} : status[v] = "BUSY" => action[v] # a

(* A batch reaches the database once: never twice, even when the           *)
(* destructor and the worker thread both could execute it (worker.h:63-65, *)
(* 86-91), never when apply has thrown, and always before its promise is   *)
(* set.                                                                    *)
WrittenOnce ==
  \A a \in Actions :
    /\ writes[a] <= 1
    /\ a \in resolved => writes[a] = 1
    /\ writes[a] > 0 => fate[a] = "accepted"

(* When the pool is gone, every action it accepted has been executed.      *)
CloseDrains ==
  cpc = "closed" => \A a \in Actions : fate[a] = "accepted" => a \in resolved

(* The permits: held by the semaphore, by the threads between acquire and  *)
(* the end of apply, or still to be released by a worker that is awake.    *)
Holders == {d \in Deliverers : dpc[d] # "idle"}
Awake == {w \in Workers : wpc[w] \notin {"parking", "waiting"}}
Idle == {w \in Workers : status[w] = "IDLE"}
Dropped == {a \in Actions : fate[a] = "dropped"}

(* No permit is lost or made up, except that an InnerException keeps one,  *)
(* an action given to an IDLE worker that is not asleep (its thread has    *)
(* not started, or woke up spuriously) uses the permit of another worker,  *)
(* and a spurious wakeup makes one (worker.h:82-85).                       *)
PermitConservation ==
  cpc = "open" =>
    availableWorkers + Cardinality(Holders) + Cardinality(Awake)
      + early + Cardinality(Dropped) = NumWorkers + spurious

(* A permit stands for an IDLE worker: there are never more permits than   *)
(* IDLE workers, except for those that spurious wakeups made.              *)
PermitsBacked ==
  cpc = "open" =>
    availableWorkers + Cardinality(Holders) <= Cardinality(Idle) + spurious

(* The pool does not run dry: as long as no InnerException was thrown, a   *)
(* permit exists or will, so acquire() cannot block forever.               *)
NeverDry ==
  cpc = "open" /\ Dropped = {} =>
    availableWorkers + Cardinality(Holders) + Cardinality(Awake) > 0

(* worker_pool.h:52: "This thread should have already acquired the         *)
(* semaphore. There should be available worker."                           *)
NoInnerException == Dropped = {}

(* action.h:6: "SUCCESS = 0, // The action has been successfully executed."*)
(* The only value a promise is given is SUCCESS.                           *)
SuccessMeansStored == resolved \intersect rejected = {}

-----------------------------------------------------------------------------
(* Refinement: the pool of threads implements ActionPool.                  *)

(* The stage of an action, read off its history and its promise.           *)
StageOf(a) ==
  CASE fate[a] = "dropped" -> "refused"
    [] fate[a] # "accepted" /\ fate[a] # "dropped" -> "fresh"
    [] fate[a] = "accepted" /\ a \in resolved -> "resolved"
    [] fate[a] = "accepted" /\ a \notin resolved ->
         IF writes[a] > 0 THEN "executed" ELSE "accepted"

PhaseOf ==
  IF terminated THEN "crashed"
  ELSE IF cpc \in {"closing", "joining"} THEN "closing" ELSE cpc

Abstract == INSTANCE ActionPool
  WITH Slots <- NumWorkers, stage <- [a \in Actions |-> StageOf(a)], phase <- PhaseOf

(* Every step of the threads is a step of ActionPool or changes nothing    *)
(* that it speaks of.                                                      *)
ImplementsActionPool == Abstract!Spec

(* The same with its fairness, by the scheduling of the threads alone:     *)
(* cv.notify_all reaches the worker, so that every accepted action is      *)
(* executed, and every thread that ~WorkerPool joins does end              *)
(* (worker.h:60-71, 101).                                                  *)
ImplementsFairActionPool == Abstract!FairSpec
=============================================================================
