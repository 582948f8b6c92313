--------------------------- MODULE WorkerPoolProofs ---------------------------
(***************************************************************************)
(* Proofs about WorkerPool, for every number of workers, of delivering     *)
(* threads and of actions.  The inductive invariant is IndInv.             *)
(***************************************************************************)
EXTENDS WorkerPool, FiniteSetTheorems, TLAPS

(* The accesses to a mutex and to the semaphore are always expanded.       *)
USE DEF Unlocked, ReleaseMutex, HasPermit, Release, SetIdle

(* A thread between acquire and the end of apply carries an action of its  *)
(* own that nobody else has seen; there is none once the pool is closing.  *)
CarryInv ==
  /\ \A d \in Deliverers : dpc[d] # "idle" =>
       carry[d] \in Actions /\ fate[carry[d]] = "carried" /\ cpc = "open"
  /\ \A d, e \in Deliverers :
       d # e /\ dpc[d] # "idle" /\ dpc[e] # "idle" => carry[d] # carry[e]
  /\ \A d \in Deliverers : dpc[d] = "applying" => pos[d] \in Workers

(* The slot of a BUSY worker: whose action it is and how far it got.       *)
SlotInv ==
  /\ \A w \in Workers : status[w] = "BUSY" =>
       /\ action[w] \in Actions
       /\ fate[action[w]] = "accepted"
       /\ writes[action[w]] = IF wpc[w] \in {"written", "settled"} THEN 1 ELSE 0
       /\ action[w] \in resolved <=> wpc[w] = "settled"
  /\ \A w, v \in Workers :
       w # v /\ status[w] = "BUSY" /\ status[v] = "BUSY" => action[w] # action[v]
  /\ \A w \in Workers : wpc[w] \in {"written", "settled"} => status[w] = "BUSY"

(* Where the destructor is, and which workers it has dealt with.           *)
CloseInv ==
  /\ cpc = "open" => cidx = 0
  /\ cpc \in {"closing", "joining"} => cidx \in Workers
  /\ cpc = "closed" => cidx = NumWorkers
  /\ \A w \in Workers :
       status[w] = "UNAVAILABLE" <=> w < cidx \/ (w = cidx /\ cpc = "joining")
  /\ \A w \in Workers : wpc[w] = "exited" => status[w] = "UNAVAILABLE"

(* The inductive invariant, without the counting of permits.               *)
IndInv ==
  /\ TypeOK
  /\ MutualExclusion
  /\ NoLostWakeup
  /\ AcceptedHasOneWorker
  /\ WrittenOnce
  /\ CarryInv
  /\ SlotInv
  /\ CloseInv

-----------------------------------------------------------------------------
(* The constants, in the form the steps need.                              *)
LEMMA ConstantFacts ==
  /\ NumWorkers \in Nat /\ NumWorkers > 0
  /\ Workers \subseteq 0 .. NumWorkers
  /\ Workers \subseteq Nat
  /\ \A w \in Workers : w + 1 \in 0 .. NumWorkers
  /\ MaxSpurious \in Nat
BY PoolAssumption DEF Workers

(* A step is one of the actions, or changes nothing.                       *)
LEMMA StepCases ==
  ASSUME [Next]_poolVars
  PROVE  \/ \E d \in Deliverers, a \in Actions : Acquire(d, a) /\ UNCHANGED terminated
         \/ \E d \in Deliverers : LockWorker(d) /\ UNCHANGED terminated
         \/ \E d \in Deliverers : SkipLocked(d) /\ UNCHANGED terminated
         \/ \E d \in Deliverers : GiveAction(d) /\ UNCHANGED terminated
         \/ \E d \in Deliverers : SkipBusy(d) /\ UNCHANGED terminated
         \/ \E d \in Deliverers : ThrowInner(d) /\ terminated' \in {terminated, TRUE}
         \/ \E w \in Workers : TakeMutex(w) /\ UNCHANGED terminated
         \/ \E w \in Workers : ReleasePermit(w) /\ UNCHANGED terminated
         \/ \E w \in Workers : Wait(w) /\ UNCHANGED terminated
         \/ \E w \in Workers : SpuriousWakeup(w) /\ UNCHANGED terminated
         \/ \E w \in Workers : ExecWrite(w) /\ UNCHANGED terminated
         \/ \E w \in Workers : ExecSetValue(w) /\ UNCHANGED terminated
         \/ \E w \in Workers : BecomeIdle(w) /\ UNCHANGED terminated
         \/ \E w \in Workers : Exit(w) /\ UNCHANGED terminated
         \/ BeginClose /\ UNCHANGED terminated
         \/ CloseWorker /\ UNCHANGED terminated
         \/ CloseJoin /\ UNCHANGED terminated
         \/ WriteThrows
         \/ UNCHANGED poolVars
BY DEF Next, Step, Scan, ThrowUncaught, Run, Close, Done

(* Types.                                                                  *)
LEMMA TypeInit == Init => TypeOK
<1> SUFFICES ASSUME Init PROVE TypeOK
  OBVIOUS
<1>1. terminated \in BOOLEAN
  BY DEF Init
<1>2. status \in [Workers -> {"IDLE", "BUSY", "UNAVAILABLE"}] /\ wpc \in [Workers -> WorkerPcs]
  BY DEF Init, WorkerPcs
<1> QED
  BY <1>1, <1>2, ConstantFacts DEF Init, TypeOK, DelivererPcs, CloserPcs

LEMMA TypeStep ==
  ASSUME TypeOK, CloseInv, CarryInv, SlotInv, [Next]_poolVars
  PROVE  TypeOK'
<1> USE ConstantFacts DEF TypeOK, WorkerPcs, DelivererPcs, CloserPcs, workerVars,
        delivererVars, closerVars, execVars
<1>1. ASSUME NEW d \in Deliverers, NEW a \in Actions, Acquire(d, a), UNCHANGED terminated
      PROVE  TypeOK'
  BY <1>1 DEF Acquire
<1>2. ASSUME NEW d \in Deliverers, LockWorker(d), UNCHANGED terminated
      PROVE  TypeOK'
  BY <1>2 DEF LockWorker
<1>3. ASSUME NEW d \in Deliverers, SkipLocked(d), UNCHANGED terminated
      PROVE  TypeOK'
  BY <1>3 DEF SkipLocked
<1>4. ASSUME NEW d \in Deliverers, GiveAction(d), UNCHANGED terminated
      PROVE  TypeOK'
  <2>1. pos[d] \in Workers /\ carry[d] \in Actions
    BY <1>4 DEF GiveAction, Notify, Takes, CarryInv
  <2>2. wpc' \in [Workers -> WorkerPcs]
    BY <1>4, <2>1 DEF GiveAction, Notify, Takes
  <2>3. /\ status' \in [Workers -> {"IDLE", "BUSY", "UNAVAILABLE"}]
        /\ action' \in [Workers -> Actions \union {NoAction}]
        /\ early' \in Nat
    BY <1>4, <2>1 DEF GiveAction, Notify, Takes
  <2>4. /\ locked' \in SUBSET Workers
        /\ dpc' \in [Deliverers -> DelivererPcs]
        /\ carry' \in [Deliverers -> Actions \union {NoAction}]
        /\ fate' \in [Actions -> {"fresh", "carried", "accepted", "dropped"}]
    BY <1>4, <2>1 DEF GiveAction, Notify, Takes
  <2> QED
    BY <1>4, <2>2, <2>3, <2>4 DEF GiveAction, Notify, Takes
<1>5. ASSUME NEW d \in Deliverers, SkipBusy(d), UNCHANGED terminated
      PROVE  TypeOK'
  BY <1>5 DEF SkipBusy, Takes, CarryInv
<1>6. ASSUME NEW d \in Deliverers, ThrowInner(d), terminated' \in {terminated, TRUE}
      PROVE  TypeOK'
  BY <1>6 DEF ThrowInner
<1>7. ASSUME NEW w \in Workers, TakeMutex(w), UNCHANGED terminated
      PROVE  TypeOK'
  BY <1>7 DEF TakeMutex
<1>8. ASSUME NEW w \in Workers, ReleasePermit(w), UNCHANGED terminated
      PROVE  TypeOK'
  BY <1>8 DEF ReleasePermit
<1>9. ASSUME NEW w \in Workers, Wait(w), UNCHANGED terminated
      PROVE  TypeOK'
  BY <1>9 DEF Wait
<1>10. ASSUME NEW w \in Workers, SpuriousWakeup(w), UNCHANGED terminated
       PROVE  TypeOK'
  BY <1>10 DEF SpuriousWakeup
<1>11. ASSUME NEW w \in Workers, ExecWrite(w), UNCHANGED terminated
       PROVE  TypeOK'
  BY <1>11 DEF ExecWrite, Write, SlotInv
<1>12. ASSUME NEW w \in Workers, ExecSetValue(w), UNCHANGED terminated
       PROVE  TypeOK'
  BY <1>12 DEF ExecSetValue, SetValue, SlotInv
<1>13. ASSUME NEW w \in Workers, BecomeIdle(w), UNCHANGED terminated
       PROVE  TypeOK'
  BY <1>13 DEF BecomeIdle
<1>14. ASSUME NEW w \in Workers, Exit(w), UNCHANGED terminated
       PROVE  TypeOK'
  BY <1>14 DEF Exit
<1>15. ASSUME BeginClose, UNCHANGED terminated
       PROVE  TypeOK'
  BY <1>15 DEF BeginClose
<1>16. ASSUME CloseWorker, UNCHANGED terminated
       PROVE  TypeOK'
  <2>1. cidx \in Workers /\ (status[cidx] = "BUSY" => action[cidx] \in Actions)
    BY <1>16 DEF CloseWorker, Notify, ExecLeftover, CloseInv, SlotInv
  <2>2. wpc' \in [Workers -> WorkerPcs]
    BY <1>16, <2>1 DEF CloseWorker, Notify, ExecLeftover
  <2>3. writes' \in [Actions -> Nat] /\ rejected' \in SUBSET Actions /\ resolved' \in SUBSET Actions
    BY <1>16, <2>1 DEF CloseWorker, Notify, ExecLeftover, Write, SetValue
  <2> QED
    BY <1>16, <2>1, <2>2, <2>3 DEF CloseWorker, Notify, ExecLeftover
<1>17. ASSUME CloseJoin, UNCHANGED terminated
       PROVE  TypeOK'
  BY <1>17 DEF CloseJoin, CloseInv
<1>18. CASE WriteThrows
  BY <1>18 DEF WriteThrows
<1>19. CASE UNCHANGED poolVars
  BY <1>19 DEF poolVars
<1> QED
  BY StepCases, <1>1, <1>2, <1>3, <1>4, <1>5, <1>6, <1>7, <1>8, <1>9, <1>10,
     <1>11, <1>12, <1>13, <1>14, <1>15, <1>16, <1>17, <1>18, <1>19

(* Mutual exclusion on Worker::mtx. *)
LEMMA MutexStep ==
  ASSUME IndInv, TypeOK', [Next]_poolVars
  PROVE  MutualExclusion'
<1> USE ConstantFacts DEF IndInv, TypeOK, MutualExclusion, ThreadOwns, DelivererOwns, CarryInv, WorkerPcs, DelivererPcs, workerVars, delivererVars, closerVars,
        execVars
<1>1. ASSUME NEW d \in Deliverers, NEW a \in Actions, Acquire(d, a), UNCHANGED terminated
      PROVE  MutualExclusion'
  BY <1>1 DEF Acquire
<1>2. ASSUME NEW d \in Deliverers, LockWorker(d), UNCHANGED terminated
      PROVE  MutualExclusion'
  BY <1>2 DEF LockWorker
<1>3. ASSUME NEW d \in Deliverers, SkipLocked(d), UNCHANGED terminated
      PROVE  MutualExclusion'
  BY <1>3 DEF SkipLocked
<1>4. ASSUME NEW d \in Deliverers, GiveAction(d), UNCHANGED terminated
      PROVE  MutualExclusion'
  BY <1>4 DEF GiveAction, Notify, Takes
<1>5. ASSUME NEW d \in Deliverers, SkipBusy(d), UNCHANGED terminated
      PROVE  MutualExclusion'
  BY <1>5 DEF SkipBusy, Takes
<1>6. ASSUME NEW d \in Deliverers, ThrowInner(d), terminated' \in {terminated, TRUE}
      PROVE  MutualExclusion'
  BY <1>6 DEF ThrowInner
<1>7. ASSUME NEW w \in Workers, TakeMutex(w), UNCHANGED terminated
      PROVE  MutualExclusion'
  BY <1>7 DEF TakeMutex
<1>8. ASSUME NEW w \in Workers, ReleasePermit(w), UNCHANGED terminated
      PROVE  MutualExclusion'
  BY <1>8 DEF ReleasePermit
<1>9. ASSUME NEW w \in Workers, Wait(w), UNCHANGED terminated
      PROVE  MutualExclusion'
  BY <1>9 DEF Wait
<1>10. ASSUME NEW w \in Workers, SpuriousWakeup(w), UNCHANGED terminated
       PROVE  MutualExclusion'
  BY <1>10 DEF SpuriousWakeup
<1>11. ASSUME NEW w \in Workers, ExecWrite(w), UNCHANGED terminated
       PROVE  MutualExclusion'
  BY <1>11 DEF ExecWrite, Write
<1>12. ASSUME NEW w \in Workers, ExecSetValue(w), UNCHANGED terminated
       PROVE  MutualExclusion'
  BY <1>12 DEF ExecSetValue, SetValue
<1>13. ASSUME NEW w \in Workers, BecomeIdle(w), UNCHANGED terminated
       PROVE  MutualExclusion'
  BY <1>13 DEF BecomeIdle
<1>14. ASSUME NEW w \in Workers, Exit(w), UNCHANGED terminated
       PROVE  MutualExclusion'
  BY <1>14 DEF Exit
<1>15. ASSUME BeginClose, UNCHANGED terminated
       PROVE  MutualExclusion'
  BY <1>15 DEF BeginClose
<1>16. ASSUME CloseWorker, UNCHANGED terminated
       PROVE  MutualExclusion'
  BY <1>16 DEF CloseWorker, Notify, ExecLeftover, Write, SetValue
<1>17. ASSUME CloseJoin, UNCHANGED terminated
       PROVE  MutualExclusion'
  BY <1>17 DEF CloseJoin
<1>18. CASE WriteThrows
  BY <1>18 DEF WriteThrows
<1>19. CASE UNCHANGED poolVars
  BY <1>19 DEF poolVars
<1> QED
  BY StepCases, <1>1, <1>2, <1>3, <1>4, <1>5, <1>6, <1>7, <1>8, <1>9, <1>10, <1>11, <1>12, <1>13, <1>14, <1>15, <1>16, <1>17, <1>18, <1>19


(* No lost wakeup. *)
LEMMA WakeStep ==
  ASSUME IndInv, TypeOK', [Next]_poolVars
  PROVE  NoLostWakeup'
<1> USE ConstantFacts DEF IndInv, TypeOK, NoLostWakeup, MutualExclusion, ThreadOwns, DelivererOwns, CarryInv, CloseInv, workerVars, delivererVars, closerVars,
        execVars
<1>1. ASSUME NEW d \in Deliverers, NEW a \in Actions, Acquire(d, a), UNCHANGED terminated
      PROVE  NoLostWakeup'
  BY <1>1 DEF Acquire
<1>2. ASSUME NEW d \in Deliverers, LockWorker(d), UNCHANGED terminated
      PROVE  NoLostWakeup'
  BY <1>2 DEF LockWorker
<1>3. ASSUME NEW d \in Deliverers, SkipLocked(d), UNCHANGED terminated
      PROVE  NoLostWakeup'
  BY <1>3 DEF SkipLocked
<1>4. ASSUME NEW d \in Deliverers, GiveAction(d), UNCHANGED terminated
      PROVE  NoLostWakeup'
  BY <1>4 DEF GiveAction, Notify, Takes
<1>5. ASSUME NEW d \in Deliverers, SkipBusy(d), UNCHANGED terminated
      PROVE  NoLostWakeup'
  BY <1>5 DEF SkipBusy, Takes
<1>6. ASSUME NEW d \in Deliverers, ThrowInner(d), terminated' \in {terminated, TRUE}
      PROVE  NoLostWakeup'
  BY <1>6 DEF ThrowInner
<1>7. ASSUME NEW w \in Workers, TakeMutex(w), UNCHANGED terminated
      PROVE  NoLostWakeup'
  BY <1>7 DEF TakeMutex
<1>8. ASSUME NEW w \in Workers, ReleasePermit(w), UNCHANGED terminated
      PROVE  NoLostWakeup'
  BY <1>8 DEF ReleasePermit
<1>9. ASSUME NEW w \in Workers, Wait(w), UNCHANGED terminated
      PROVE  NoLostWakeup'
  BY <1>9 DEF Wait
<1>10. ASSUME NEW w \in Workers, SpuriousWakeup(w), UNCHANGED terminated
       PROVE  NoLostWakeup'
  BY <1>10 DEF SpuriousWakeup
<1>11. ASSUME NEW w \in Workers, ExecWrite(w), UNCHANGED terminated
       PROVE  NoLostWakeup'
  BY <1>11 DEF ExecWrite, Write
<1>12. ASSUME NEW w \in Workers, ExecSetValue(w), UNCHANGED terminated
       PROVE  NoLostWakeup'
  BY <1>12 DEF ExecSetValue, SetValue
<1>13. ASSUME NEW w \in Workers, BecomeIdle(w), UNCHANGED terminated
       PROVE  NoLostWakeup'
  BY <1>13 DEF BecomeIdle
<1>14. ASSUME NEW w \in Workers, Exit(w), UNCHANGED terminated
       PROVE  NoLostWakeup'
  BY <1>14 DEF Exit
<1>15. ASSUME BeginClose, UNCHANGED terminated
       PROVE  NoLostWakeup'
  BY <1>15 DEF BeginClose
<1>16. ASSUME CloseWorker, UNCHANGED terminated
       PROVE  NoLostWakeup'
  BY <1>16 DEF CloseWorker, Notify, ExecLeftover, Write, SetValue
<1>17. ASSUME CloseJoin, UNCHANGED terminated
       PROVE  NoLostWakeup'
  BY <1>17 DEF CloseJoin
<1>18. CASE WriteThrows
  BY <1>18 DEF WriteThrows
<1>19. CASE UNCHANGED poolVars
  BY <1>19 DEF poolVars
<1> QED
  BY StepCases, <1>1, <1>2, <1>3, <1>4, <1>5, <1>6, <1>7, <1>8, <1>9, <1>10, <1>11, <1>12, <1>13, <1>14, <1>15, <1>16, <1>17, <1>18, <1>19


(* Actions on their way to a worker. *)
LEMMA CarryStep ==
  ASSUME IndInv, TypeOK', [Next]_poolVars
  PROVE  CarryInv'
<1> USE ConstantFacts DEF IndInv, TypeOK, CarryInv, CloseInv, workerVars, delivererVars, closerVars,
        execVars
<1>1. ASSUME NEW d \in Deliverers, NEW a \in Actions, Acquire(d, a), UNCHANGED terminated
      PROVE  CarryInv'
  BY <1>1 DEF Acquire
<1>2. ASSUME NEW d \in Deliverers, LockWorker(d), UNCHANGED terminated
      PROVE  CarryInv'
  BY <1>2 DEF LockWorker
<1>3. ASSUME NEW d \in Deliverers, SkipLocked(d), UNCHANGED terminated
      PROVE  CarryInv'
  BY <1>3 DEF SkipLocked
<1>4. ASSUME NEW d \in Deliverers, GiveAction(d), UNCHANGED terminated
      PROVE  CarryInv'
  BY <1>4 DEF GiveAction, Notify, Takes
<1>5. ASSUME NEW d \in Deliverers, SkipBusy(d), UNCHANGED terminated
      PROVE  CarryInv'
  BY <1>5 DEF SkipBusy, Takes
<1>6. ASSUME NEW d \in Deliverers, ThrowInner(d), terminated' \in {terminated, TRUE}
      PROVE  CarryInv'
  BY <1>6 DEF ThrowInner
<1>7. ASSUME NEW w \in Workers, TakeMutex(w), UNCHANGED terminated
      PROVE  CarryInv'
  BY <1>7 DEF TakeMutex
<1>8. ASSUME NEW w \in Workers, ReleasePermit(w), UNCHANGED terminated
      PROVE  CarryInv'
  BY <1>8 DEF ReleasePermit
<1>9. ASSUME NEW w \in Workers, Wait(w), UNCHANGED terminated
      PROVE  CarryInv'
  BY <1>9 DEF Wait
<1>10. ASSUME NEW w \in Workers, SpuriousWakeup(w), UNCHANGED terminated
       PROVE  CarryInv'
  BY <1>10 DEF SpuriousWakeup
<1>11. ASSUME NEW w \in Workers, ExecWrite(w), UNCHANGED terminated
       PROVE  CarryInv'
  BY <1>11 DEF ExecWrite, Write
<1>12. ASSUME NEW w \in Workers, ExecSetValue(w), UNCHANGED terminated
       PROVE  CarryInv'
  BY <1>12 DEF ExecSetValue, SetValue
<1>13. ASSUME NEW w \in Workers, BecomeIdle(w), UNCHANGED terminated
       PROVE  CarryInv'
  BY <1>13 DEF BecomeIdle
<1>14. ASSUME NEW w \in Workers, Exit(w), UNCHANGED terminated
       PROVE  CarryInv'
  BY <1>14 DEF Exit
<1>15. ASSUME BeginClose, UNCHANGED terminated
       PROVE  CarryInv'
  BY <1>15 DEF BeginClose
<1>16. ASSUME CloseWorker, UNCHANGED terminated
       PROVE  CarryInv'
  BY <1>16 DEF CloseWorker, Notify, ExecLeftover, Write, SetValue
<1>17. ASSUME CloseJoin, UNCHANGED terminated
       PROVE  CarryInv'
  BY <1>17 DEF CloseJoin
<1>18. CASE WriteThrows
  BY <1>18 DEF WriteThrows
<1>19. CASE UNCHANGED poolVars
  BY <1>19 DEF poolVars
<1> QED
  BY StepCases, <1>1, <1>2, <1>3, <1>4, <1>5, <1>6, <1>7, <1>8, <1>9, <1>10, <1>11, <1>12, <1>13, <1>14, <1>15, <1>16, <1>17, <1>18, <1>19


(* The progress of the destructor. *)
LEMMA CloseStep ==
  ASSUME IndInv, TypeOK', [Next]_poolVars
  PROVE  CloseInv'
<1> USE ConstantFacts DEF IndInv, TypeOK, CloseInv, CarryInv, SlotInv, MutualExclusion, ThreadOwns, NoLostWakeup, workerVars, delivererVars, closerVars,
        execVars
<1>1. ASSUME NEW d \in Deliverers, NEW a \in Actions, Acquire(d, a), UNCHANGED terminated
      PROVE  CloseInv'
  BY <1>1 DEF Acquire
<1>2. ASSUME NEW d \in Deliverers, LockWorker(d), UNCHANGED terminated
      PROVE  CloseInv'
  BY <1>2 DEF LockWorker
<1>3. ASSUME NEW d \in Deliverers, SkipLocked(d), UNCHANGED terminated
      PROVE  CloseInv'
  BY <1>3 DEF SkipLocked
<1>4. ASSUME NEW d \in Deliverers, GiveAction(d), UNCHANGED terminated
      PROVE  CloseInv'
  BY <1>4 DEF GiveAction, Notify, Takes
<1>5. ASSUME NEW d \in Deliverers, SkipBusy(d), UNCHANGED terminated
      PROVE  CloseInv'
  BY <1>5 DEF SkipBusy, Takes
<1>6. ASSUME NEW d \in Deliverers, ThrowInner(d), terminated' \in {terminated, TRUE}
      PROVE  CloseInv'
  BY <1>6 DEF ThrowInner
<1>7. ASSUME NEW w \in Workers, TakeMutex(w), UNCHANGED terminated
      PROVE  CloseInv'
  BY <1>7 DEF TakeMutex
<1>8. ASSUME NEW w \in Workers, ReleasePermit(w), UNCHANGED terminated
      PROVE  CloseInv'
  BY <1>8 DEF ReleasePermit
<1>9. ASSUME NEW w \in Workers, Wait(w), UNCHANGED terminated
      PROVE  CloseInv'
  BY <1>9 DEF Wait
<1>10. ASSUME NEW w \in Workers, SpuriousWakeup(w), UNCHANGED terminated
       PROVE  CloseInv'
  BY <1>10 DEF SpuriousWakeup
<1>11. ASSUME NEW w \in Workers, ExecWrite(w), UNCHANGED terminated
       PROVE  CloseInv'
  BY <1>11 DEF ExecWrite, Write
<1>12. ASSUME NEW w \in Workers, ExecSetValue(w), UNCHANGED terminated
       PROVE  CloseInv'
  BY <1>12 DEF ExecSetValue, SetValue
<1>13. ASSUME NEW w \in Workers, BecomeIdle(w), UNCHANGED terminated
       PROVE  CloseInv'
  BY <1>13 DEF BecomeIdle
<1>14. ASSUME NEW w \in Workers, Exit(w), UNCHANGED terminated
       PROVE  CloseInv'
  BY <1>14 DEF Exit
<1>15. ASSUME BeginClose, UNCHANGED terminated
       PROVE  CloseInv'
  BY <1>15, PoolAssumption DEF BeginClose, Workers
<1>16. ASSUME CloseWorker, UNCHANGED terminated
       PROVE  CloseInv'
  BY <1>16 DEF CloseWorker, Notify, ExecLeftover, Write, SetValue
<1>17. ASSUME CloseJoin, UNCHANGED terminated
       PROVE  CloseInv'
  <2>1. cidx \in Workers /\ cidx' = cidx + 1 /\ status' = status /\ wpc' = wpc
    BY <1>17 DEF CloseJoin
  <2>2. cidx' = NumWorkers => cpc' = "closed"
    BY <1>17, <2>1 DEF CloseJoin
  <2>3. cidx' # NumWorkers => cpc' = "closing" /\ cidx' \in Workers
    BY <1>17, <2>1 DEF CloseJoin, Workers
  <2>4. \A v \in Workers : v < cidx' <=> v < cidx \/ v = cidx
    BY <2>1
  <2>5. \A v \in Workers : status'[v] = "UNAVAILABLE" <=> v < cidx'
    BY <1>17, <2>1, <2>4 DEF CloseJoin
  <2> QED
    BY <1>17, <2>1, <2>2, <2>3, <2>5 DEF CloseJoin
<1>18. CASE WriteThrows
  BY <1>18 DEF WriteThrows
<1>19. CASE UNCHANGED poolVars
  BY <1>19 DEF poolVars
<1> QED
  BY StepCases, <1>1, <1>2, <1>3, <1>4, <1>5, <1>6, <1>7, <1>8, <1>9, <1>10, <1>11, <1>12, <1>13, <1>14, <1>15, <1>16, <1>17, <1>18, <1>19

(* What leaves the slots alone leaves their invariant alone.               *)
LEMMA SlotFrame ==
  ASSUME SlotInv, UNCHANGED <<status, action, wpc, writes, resolved>>,
         \A a \in Actions : fate[a] = "accepted" => fate'[a] = "accepted"
  PROVE  SlotInv'
BY DEF SlotInv

(* The slots of BUSY workers.                                              *)
LEMMA SlotStep ==
  ASSUME IndInv, TypeOK', [Next]_poolVars
  PROVE  SlotInv'
<1> USE ConstantFacts DEF IndInv, TypeOK, SlotInv, CarryInv, MutualExclusion, ThreadOwns, DelivererOwns, WrittenOnce, CloseInv, workerVars, delivererVars, closerVars,
        execVars
<1>1. ASSUME NEW d \in Deliverers, NEW a \in Actions, Acquire(d, a), UNCHANGED terminated
      PROVE  SlotInv'
  BY <1>1, SlotFrame DEF Acquire
<1>2. ASSUME NEW d \in Deliverers, LockWorker(d), UNCHANGED terminated
      PROVE  SlotInv'
  BY <1>2 DEF LockWorker
<1>3. ASSUME NEW d \in Deliverers, SkipLocked(d), UNCHANGED terminated
      PROVE  SlotInv'
  BY <1>3 DEF SkipLocked
<1>4. ASSUME NEW d \in Deliverers, GiveAction(d), UNCHANGED terminated
      PROVE  SlotInv'
  BY <1>4 DEF GiveAction, Notify, Takes
<1>5. ASSUME NEW d \in Deliverers, SkipBusy(d), UNCHANGED terminated
      PROVE  SlotInv'
  BY <1>5 DEF SkipBusy, Takes
<1>6. ASSUME NEW d \in Deliverers, ThrowInner(d), terminated' \in {terminated, TRUE}
      PROVE  SlotInv'
  BY <1>6, SlotFrame DEF ThrowInner
<1>7. ASSUME NEW w \in Workers, TakeMutex(w), UNCHANGED terminated
      PROVE  SlotInv'
  BY <1>7 DEF TakeMutex
<1>8. ASSUME NEW w \in Workers, ReleasePermit(w), UNCHANGED terminated
      PROVE  SlotInv'
  BY <1>8 DEF ReleasePermit
<1>9. ASSUME NEW w \in Workers, Wait(w), UNCHANGED terminated
      PROVE  SlotInv'
  BY <1>9 DEF Wait
<1>10. ASSUME NEW w \in Workers, SpuriousWakeup(w), UNCHANGED terminated
       PROVE  SlotInv'
  BY <1>10 DEF SpuriousWakeup
<1>11. ASSUME NEW w \in Workers, ExecWrite(w), UNCHANGED terminated
       PROVE  SlotInv'
  BY <1>11 DEF ExecWrite, Write
<1>12. ASSUME NEW w \in Workers, ExecSetValue(w), UNCHANGED terminated
       PROVE  SlotInv'
  BY <1>12 DEF ExecSetValue, SetValue
<1>13. ASSUME NEW w \in Workers, BecomeIdle(w), UNCHANGED terminated
       PROVE  SlotInv'
  BY <1>13 DEF BecomeIdle
<1>14. ASSUME NEW w \in Workers, Exit(w), UNCHANGED terminated
       PROVE  SlotInv'
  BY <1>14 DEF Exit
<1>15. ASSUME BeginClose, UNCHANGED terminated
       PROVE  SlotInv'
  BY <1>15, SlotFrame DEF BeginClose
<1>16. ASSUME CloseWorker, UNCHANGED terminated
       PROVE  SlotInv'
  <2>1. cidx \in Workers /\ wpc[cidx] \notin {"written", "settled"}
    BY <1>16 DEF CloseWorker
  <2>2. /\ UNCHANGED <<action, fate>>
        /\ \A w \in Workers : w # cidx => status'[w] = status[w] /\ wpc'[w] = wpc[w]
        /\ status'[cidx] = "UNAVAILABLE"
    BY <1>16 DEF CloseWorker, Notify
  <2>3. \A w \in Workers : w # cidx /\ status[w] = "BUSY" =>
          /\ writes'[action[w]] = writes[action[w]]
          /\ action[w] \in resolved' <=> action[w] \in resolved
    BY <1>16, <2>1 DEF CloseWorker, ExecLeftover, Write, SetValue
  <2>4. wpc'[cidx] \notin {"written", "settled"}
    BY <1>16, <2>1 DEF CloseWorker, Notify
  <2> QED
    BY <2>1, <2>2, <2>3, <2>4 DEF SlotInv
<1>17. ASSUME CloseJoin, UNCHANGED terminated
       PROVE  SlotInv'
  BY <1>17, SlotFrame DEF CloseJoin
<1>18. CASE WriteThrows
  BY <1>18, SlotFrame DEF WriteThrows
<1>19. CASE UNCHANGED poolVars
  BY <1>19 DEF poolVars
<1> QED
  BY StepCases, <1>1, <1>2, <1>3, <1>4, <1>5, <1>6, <1>7, <1>8, <1>9, <1>10, <1>11, <1>12, <1>13, <1>14, <1>15, <1>16, <1>17, <1>18, <1>19


(* Batches reach the database once. *)
LEMMA OnceStep ==
  ASSUME IndInv, TypeOK', [Next]_poolVars
  PROVE  WrittenOnce'
<1> USE ConstantFacts DEF IndInv, TypeOK, WrittenOnce, SlotInv, CarryInv, MutualExclusion, ThreadOwns, CloseInv, workerVars, delivererVars, closerVars,
        execVars
<1>1. ASSUME NEW d \in Deliverers, NEW a \in Actions, Acquire(d, a), UNCHANGED terminated
      PROVE  WrittenOnce'
  BY <1>1 DEF Acquire
<1>2. ASSUME NEW d \in Deliverers, LockWorker(d), UNCHANGED terminated
      PROVE  WrittenOnce'
  BY <1>2 DEF LockWorker
<1>3. ASSUME NEW d \in Deliverers, SkipLocked(d), UNCHANGED terminated
      PROVE  WrittenOnce'
  BY <1>3 DEF SkipLocked
<1>4. ASSUME NEW d \in Deliverers, GiveAction(d), UNCHANGED terminated
      PROVE  WrittenOnce'
  BY <1>4 DEF GiveAction, Notify, Takes
<1>5. ASSUME NEW d \in Deliverers, SkipBusy(d), UNCHANGED terminated
      PROVE  WrittenOnce'
  BY <1>5 DEF SkipBusy, Takes
<1>6. ASSUME NEW d \in Deliverers, ThrowInner(d), terminated' \in {terminated, TRUE}
      PROVE  WrittenOnce'
  BY <1>6 DEF ThrowInner
<1>7. ASSUME NEW w \in Workers, TakeMutex(w), UNCHANGED terminated
      PROVE  WrittenOnce'
  BY <1>7 DEF TakeMutex
<1>8. ASSUME NEW w \in Workers, ReleasePermit(w), UNCHANGED terminated
      PROVE  WrittenOnce'
  BY <1>8 DEF ReleasePermit
<1>9. ASSUME NEW w \in Workers, Wait(w), UNCHANGED terminated
      PROVE  WrittenOnce'
  BY <1>9 DEF Wait
<1>10. ASSUME NEW w \in Workers, SpuriousWakeup(w), UNCHANGED terminated
       PROVE  WrittenOnce'
  BY <1>10 DEF SpuriousWakeup
<1>11. ASSUME NEW w \in Workers, ExecWrite(w), UNCHANGED terminated
       PROVE  WrittenOnce'
  BY <1>11 DEF ExecWrite, Write
<1>12. ASSUME NEW w \in Workers, ExecSetValue(w), UNCHANGED terminated
       PROVE  WrittenOnce'
  BY <1>12 DEF ExecSetValue, SetValue
<1>13. ASSUME NEW w \in Workers, BecomeIdle(w), UNCHANGED terminated
       PROVE  WrittenOnce'
  BY <1>13 DEF BecomeIdle
<1>14. ASSUME NEW w \in Workers, Exit(w), UNCHANGED terminated
       PROVE  WrittenOnce'
  BY <1>14 DEF Exit
<1>15. ASSUME BeginClose, UNCHANGED terminated
       PROVE  WrittenOnce'
  BY <1>15 DEF BeginClose
<1>16. ASSUME CloseWorker, UNCHANGED terminated
       PROVE  WrittenOnce'
  BY <1>16 DEF CloseWorker, Notify, ExecLeftover, Write, SetValue
<1>17. ASSUME CloseJoin, UNCHANGED terminated
       PROVE  WrittenOnce'
  BY <1>17 DEF CloseJoin
<1>18. CASE WriteThrows
  BY <1>18 DEF WriteThrows
<1>19. CASE UNCHANGED poolVars
  BY <1>19 DEF poolVars
<1> QED
  BY StepCases, <1>1, <1>2, <1>3, <1>4, <1>5, <1>6, <1>7, <1>8, <1>9, <1>10, <1>11, <1>12, <1>13, <1>14, <1>15, <1>16, <1>17, <1>18, <1>19


(* Accepted actions stay in the slot of one worker. *)
LEMMA AcceptedStep ==
  ASSUME IndInv, TypeOK', [Next]_poolVars
  PROVE  AcceptedHasOneWorker'
<1> USE ConstantFacts DEF IndInv, TypeOK, AcceptedHasOneWorker, SlotInv, CarryInv, WrittenOnce, MutualExclusion, ThreadOwns, CloseInv, workerVars, delivererVars, closerVars,
        execVars
<1>1. ASSUME NEW d \in Deliverers, NEW a \in Actions, Acquire(d, a), UNCHANGED terminated
      PROVE  AcceptedHasOneWorker'
  BY <1>1 DEF Acquire
<1>2. ASSUME NEW d \in Deliverers, LockWorker(d), UNCHANGED terminated
      PROVE  AcceptedHasOneWorker'
  <2>1. UNCHANGED <<fate, resolved, status, action>>
    BY <1>2 DEF LockWorker
  <2> QED
    BY <2>1
<1>3. ASSUME NEW d \in Deliverers, SkipLocked(d), UNCHANGED terminated
      PROVE  AcceptedHasOneWorker'
  BY <1>3 DEF SkipLocked
<1>4. ASSUME NEW d \in Deliverers, GiveAction(d), UNCHANGED terminated
      PROVE  AcceptedHasOneWorker'
  BY <1>4 DEF GiveAction, Notify, Takes
<1>5. ASSUME NEW d \in Deliverers, SkipBusy(d), UNCHANGED terminated
      PROVE  AcceptedHasOneWorker'
  BY <1>5 DEF SkipBusy, Takes
<1>6. ASSUME NEW d \in Deliverers, ThrowInner(d), terminated' \in {terminated, TRUE}
      PROVE  AcceptedHasOneWorker'
  BY <1>6 DEF ThrowInner
<1>7. ASSUME NEW w \in Workers, TakeMutex(w), UNCHANGED terminated
      PROVE  AcceptedHasOneWorker'
  BY <1>7 DEF TakeMutex
<1>8. ASSUME NEW w \in Workers, ReleasePermit(w), UNCHANGED terminated
      PROVE  AcceptedHasOneWorker'
  BY <1>8 DEF ReleasePermit
<1>9. ASSUME NEW w \in Workers, Wait(w), UNCHANGED terminated
      PROVE  AcceptedHasOneWorker'
  BY <1>9 DEF Wait
<1>10. ASSUME NEW w \in Workers, SpuriousWakeup(w), UNCHANGED terminated
       PROVE  AcceptedHasOneWorker'
  BY <1>10 DEF SpuriousWakeup
<1>11. ASSUME NEW w \in Workers, ExecWrite(w), UNCHANGED terminated
       PROVE  AcceptedHasOneWorker'
  BY <1>11 DEF ExecWrite, Write
<1>12. ASSUME NEW w \in Workers, ExecSetValue(w), UNCHANGED terminated
       PROVE  AcceptedHasOneWorker'
  BY <1>12 DEF ExecSetValue, SetValue
<1>13. ASSUME NEW w \in Workers, BecomeIdle(w), UNCHANGED terminated
       PROVE  AcceptedHasOneWorker'
  BY <1>13 DEF BecomeIdle
<1>14. ASSUME NEW w \in Workers, Exit(w), UNCHANGED terminated
       PROVE  AcceptedHasOneWorker'
  BY <1>14 DEF Exit
<1>15. ASSUME BeginClose, UNCHANGED terminated
       PROVE  AcceptedHasOneWorker'
  BY <1>15 DEF BeginClose
<1>16. ASSUME CloseWorker, UNCHANGED terminated
       PROVE  AcceptedHasOneWorker'
  BY <1>16 DEF CloseWorker, Notify, ExecLeftover, Write, SetValue
<1>17. ASSUME CloseJoin, UNCHANGED terminated
       PROVE  AcceptedHasOneWorker'
  BY <1>17 DEF CloseJoin
<1>18. CASE WriteThrows
  BY <1>18 DEF WriteThrows
<1>19. CASE UNCHANGED poolVars
  BY <1>19 DEF poolVars
<1> QED
  BY StepCases, <1>1, <1>2, <1>3, <1>4, <1>5, <1>6, <1>7, <1>8, <1>9, <1>10, <1>11, <1>12, <1>13, <1>14, <1>15, <1>16, <1>17, <1>18, <1>19

-----------------------------------------------------------------------------
LEMMA IndInit == Init => IndInv
<1> SUFFICES ASSUME Init PROVE IndInv
  OBVIOUS
<1> USE PoolAssumption, ConstantFacts DEF Init
<1>1. TypeOK
  BY TypeInit
<1>2. MutualExclusion /\ NoLostWakeup
  BY DEF MutualExclusion, NoLostWakeup, ThreadOwns, DelivererOwns
<1>3. AcceptedHasOneWorker /\ WrittenOnce
  BY DEF AcceptedHasOneWorker, WrittenOnce
<1>4. CarryInv /\ SlotInv
  BY DEF CarryInv, SlotInv
<1>5. CloseInv
  BY DEF CloseInv, Workers
<1> QED
  BY <1>1, <1>2, <1>3, <1>4, <1>5 DEF IndInv

LEMMA IndStep == IndInv /\ [Next]_poolVars => IndInv'
<1> SUFFICES ASSUME IndInv, [Next]_poolVars PROVE IndInv'
  OBVIOUS
<1>1. TypeOK'
  BY TypeStep DEF IndInv
<1> QED
  BY <1>1, MutexStep, WakeStep, AcceptedStep, OnceStep, CarryStep, SlotStep,
     CloseStep DEF IndInv

(* The inductive invariant holds in every reachable state.                 *)
THEOREM Invariance == Spec => []IndInv
<1> QED
  BY IndInit, IndStep, PTL DEF Spec

(* Every variable of the pool keeps its type.                              *)
THEOREM TypeCorrect == Spec => []TypeOK
<1>1. IndInv => TypeOK
  BY DEF IndInv
<1> QED
  BY <1>1, Invariance, PTL

(* try_to_lock in Worker::tryApply, cv.wait and the end of run never leave *)
(* two threads in the critical section of one worker.                      *)
THEOREM MutexHolds == Spec => []MutualExclusion
<1>1. IndInv => MutualExclusion
  BY DEF IndInv
<1> QED
  BY <1>1, Invariance, PTL

(* A worker with an action, or told to end, never sleeps in cv.wait.       *)
THEOREM WakeupHolds == Spec => []NoLostWakeup
<1>1. IndInv => NoLostWakeup
  BY DEF IndInv
<1> QED
  BY <1>1, Invariance, PTL

(* No accepted action is overwritten or forgotten, and none is written to  *)
(* the database twice, by the worker or by its destructor.                 *)
THEOREM ExactlyOnce == Spec => [](AcceptedHasOneWorker /\ WrittenOnce)
<1>1. IndInv => AcceptedHasOneWorker /\ WrittenOnce
  BY DEF IndInv
<1> QED
  BY <1>1, Invariance, PTL

(* An accepted action that is not resolved is in the slot of one BUSY      *)
(* worker: tryApply never overwrites a slot (worker.h:96-106).              *)
THEOREM SlotsAreKept == Spec => []AcceptedHasOneWorker
<1>1. IndInv => AcceptedHasOneWorker
  BY DEF IndInv
<1> QED
  BY <1>1, Invariance, PTL

(* When ~WorkerPool returns, every accepted action has been executed.      *)
THEOREM ClosedPoolIsDrained == Spec => []CloseDrains
<1>1. IndInv => CloseDrains
  <2> SUFFICES ASSUME IndInv, cpc = "closed", NEW a \in Actions,
                      fate[a] = "accepted", a \notin resolved
               PROVE  FALSE
    BY DEF CloseDrains
  <2>1. PICK w \in Workers : status[w] = "BUSY"
    BY DEF IndInv, AcceptedHasOneWorker
  <2>2. status[w] = "UNAVAILABLE"
    BY ConstantFacts DEF IndInv, CloseInv, Workers
  <2> QED
    BY <2>1, <2>2
<1> QED
  BY <1>1, Invariance, PTL

-----------------------------------------------------------------------------
(* Counting permits.                                                       *)

(* The sets that are counted are finite.                                   *)
LEMMA CountedSets ==
  ASSUME TypeOK
  PROVE  /\ IsFiniteSet(Holders) /\ Cardinality(Holders) \in Nat
         /\ IsFiniteSet(Awake) /\ Cardinality(Awake) \in Nat
         /\ IsFiniteSet(Workers) /\ Cardinality(Workers) = NumWorkers
<1>1. IsFiniteSet(Workers) /\ Cardinality(Workers) = NumWorkers
  BY PoolAssumption, FS_Interval DEF Workers
<1>2. IsFiniteSet(Holders) /\ IsFiniteSet(Awake)
  BY <1>1, PoolAssumption, FS_Subset DEF Holders, Awake
<1> QED
  BY <1>1, <1>2, FS_CardinalityType

(* Permits are conserved, and finitely many actions were dropped.          *)
PermitInv == IsFiniteSet(Dropped) /\ PermitConservation

LEMMA PermitInit == Init => PermitInv
<1> SUFFICES ASSUME Init PROVE PermitInv
  OBVIOUS
<1>1. Holders = {} /\ Dropped = {} /\ Awake = Workers
  BY DEF Init, Holders, Dropped, Awake
<1>2. Cardinality(Workers) = NumWorkers
  BY CountedSets, TypeInit
<1> QED
  BY <1>1, <1>2, FS_EmptySet, PoolAssumption DEF Init, PermitInv, PermitConservation

(* What each action does to the three sets; the pool must still be open.   *)
LEMMA PermitStep ==
  ASSUME TypeOK, MutualExclusion, CarryInv, SlotInv, PermitInv, [Next]_poolVars
  PROVE  PermitInv'
<1> DEFINE Same(S, T) == S = T
           Gains(S, T) == \E x : x \notin S /\ T = S \union {x}
           Loses(S, T) == \E x : x \in S /\ T = S \ {x}
<1>types. /\ availableWorkers \in Nat /\ early \in Nat /\ spurious \in Nat
          /\ IsFiniteSet(Holders) /\ Cardinality(Holders) \in Nat
          /\ IsFiniteSet(Awake) /\ Cardinality(Awake) \in Nat
          /\ IsFiniteSet(Dropped) /\ Cardinality(Dropped) \in Nat
          /\ NumWorkers \in Nat
  BY CountedSets, PoolAssumption, FS_CardinalityType DEF TypeOK, PermitInv
<1>gain. ASSUME NEW S, NEW T, IsFiniteSet(S), Gains(S, T)
         PROVE  IsFiniteSet(T) /\ Cardinality(T) = Cardinality(S) + 1
  BY <1>gain, FS_AddElement
<1>lose. ASSUME NEW S, NEW T, IsFiniteSet(S), Loses(S, T)
         PROVE  IsFiniteSet(T) /\ Cardinality(T) = Cardinality(S) - 1
  BY <1>lose, FS_RemoveElement
<1>idle. ASSUME UNCHANGED <<availableWorkers, early, spurious>>,
                Holders' = Holders, Awake' = Awake, Dropped' = Dropped,
                cpc' = "open" => cpc = "open"
         PROVE  PermitInv'
  BY <1>idle DEF PermitInv, PermitConservation
<1> USE DEF TypeOK, delivererVars, workerVars, closerVars, execVars
<1>1. ASSUME NEW d \in Deliverers, NEW a \in Actions, Acquire(d, a)
      PROVE  PermitInv'
  <2>1. Gains(Holders, Holders') /\ Awake' = Awake
    BY <1>1 DEF Acquire, Holders, Awake
  <2>2. Dropped' = Dropped
    BY <1>1 DEF Acquire, Dropped
  <2> HIDE DEF Gains
  <2>3. Cardinality(Holders') = Cardinality(Holders) + 1
    BY <2>1, <1>types, <1>gain
  <2> QED
    BY <1>1, <2>1, <2>2, <2>3, <1>types DEF Acquire, PermitInv, PermitConservation
<1>2. ASSUME NEW d \in Deliverers, LockWorker(d)
      PROVE  PermitInv'
  BY <1>2, <1>idle DEF LockWorker, Holders, Awake, Dropped
<1>3. ASSUME NEW d \in Deliverers, SkipLocked(d)
      PROVE  PermitInv'
  BY <1>3, <1>idle DEF SkipLocked, Holders, Awake, Dropped
<1>4. ASSUME NEW d \in Deliverers, GiveAction(d)
      PROVE  PermitInv'
  <2> DEFINE w == pos[d]
  <2>1. w \in Workers /\ carry[d] \in Actions /\ fate[carry[d]] = "carried"
    BY <1>4 DEF GiveAction, Notify, Takes, CarryInv
  <2>2. Loses(Holders, Holders')
    BY <1>4 DEF GiveAction, Notify, Takes, Holders
  <2>3. Dropped' = Dropped
    BY <1>4, <2>1 DEF GiveAction, Notify, Takes, Dropped
  <2>4. CASE wpc[w] = "waiting"
    <3>1. Gains(Awake, Awake') /\ early' = early
      BY <1>4, <2>1, <2>4 DEF GiveAction, Notify, Takes, Awake
    <3> HIDE DEF Gains, Loses
    <3> QED
      BY <1>4, <2>2, <2>3, <3>1, <1>types, <1>gain, <1>lose
      DEF GiveAction, Notify, Takes, PermitInv, PermitConservation
  <2>5. CASE wpc[w] # "waiting"
    <3>1. Awake' = Awake /\ early' = early + 1
      BY <1>4, <2>1, <2>5 DEF GiveAction, Notify, Takes, Awake
    <3> HIDE DEF Gains, Loses
    <3> QED
      BY <1>4, <2>2, <2>3, <3>1, <1>types, <1>lose
      DEF GiveAction, Notify, Takes, PermitInv, PermitConservation
  <2> QED
    BY <2>4, <2>5
<1>5. ASSUME NEW d \in Deliverers, SkipBusy(d)
      PROVE  PermitInv'
  BY <1>5, <1>idle DEF SkipBusy, Takes, Holders, Awake, Dropped
<1>6. ASSUME NEW d \in Deliverers, ThrowInner(d)
      PROVE  PermitInv'
  <2>1. carry[d] \in Actions /\ fate[carry[d]] = "carried"
    BY <1>6 DEF ThrowInner, CarryInv
  <2>2. Loses(Holders, Holders') /\ Awake' = Awake
    BY <1>6 DEF ThrowInner, Holders, Awake
  <2>3. Gains(Dropped, Dropped')
    <3>1. carry[d] \notin Dropped
      BY <2>1 DEF Dropped
    <3>2. Dropped' = Dropped \union {carry[d]}
      BY <1>6, <2>1 DEF ThrowInner, Dropped
    <3> QED
      BY <3>1, <3>2
  <2> HIDE DEF Gains, Loses
  <2> QED
    BY <1>6, <2>2, <2>3, <1>types, <1>gain, <1>lose
    DEF ThrowInner, PermitInv, PermitConservation
<1>7. ASSUME NEW w \in Workers, TakeMutex(w)
      PROVE  PermitInv'
  BY <1>7, <1>idle DEF TakeMutex, Holders, Awake, Dropped
<1>8. ASSUME NEW w \in Workers, ReleasePermit(w)
      PROVE  PermitInv'
  <2>1. Loses(Awake, Awake') /\ Holders' = Holders /\ Dropped' = Dropped
    BY <1>8 DEF ReleasePermit, Holders, Awake, Dropped
  <2> HIDE DEF Loses
  <2> QED
    BY <1>8, <2>1, <1>types, <1>lose DEF ReleasePermit, PermitInv, PermitConservation
<1>9. ASSUME NEW w \in Workers, Wait(w)
      PROVE  PermitInv'
  BY <1>9, <1>idle DEF Wait, Holders, Awake, Dropped
<1>10. ASSUME NEW w \in Workers, SpuriousWakeup(w)
       PROVE  PermitInv'
  <2>1. Gains(Awake, Awake') /\ Holders' = Holders /\ Dropped' = Dropped
    BY <1>10 DEF SpuriousWakeup, Holders, Awake, Dropped
  <2> HIDE DEF Gains
  <2> QED
    BY <1>10, <2>1, <1>types, <1>gain DEF SpuriousWakeup, PermitInv, PermitConservation
<1>11. ASSUME NEW w \in Workers, ExecWrite(w)
       PROVE  PermitInv'
  BY <1>11, <1>idle DEF ExecWrite, Holders, Awake, Dropped
<1>12. ASSUME NEW w \in Workers, ExecSetValue(w)
       PROVE  PermitInv'
  BY <1>12, <1>idle DEF ExecSetValue, Holders, Awake, Dropped
<1>13. ASSUME NEW w \in Workers, BecomeIdle(w)
       PROVE  PermitInv'
  BY <1>13, <1>idle DEF BecomeIdle, Holders, Awake, Dropped
<1>14. ASSUME NEW w \in Workers, Exit(w)
       PROVE  PermitInv'
  BY <1>14, <1>idle DEF Exit, Holders, Awake, Dropped
<1>15. ASSUME \/ BeginClose \/ CloseWorker \/ CloseJoin
       PROVE  PermitInv'
  <2>1. cpc' # "open" /\ Dropped' = Dropped
    BY <1>15 DEF BeginClose, CloseWorker, Notify, ExecLeftover, CloseJoin, Dropped
  <2> QED
    BY <2>1, <1>types DEF PermitInv, PermitConservation
<1>16. ASSUME WriteThrows
       PROVE  PermitInv'
  BY <1>16, <1>idle DEF WriteThrows, Holders, Awake, Dropped
<1>17. ASSUME UNCHANGED poolVars
       PROVE  PermitInv'
  BY <1>17, <1>idle DEF poolVars, Holders, Awake, Dropped
<1> QED
  BY StepCases, <1>1, <1>2, <1>3, <1>4, <1>5, <1>6, <1>7, <1>8, <1>9, <1>10,
     <1>11, <1>12, <1>13, <1>14, <1>15, <1>16, <1>17

LEMMA PermitInvariance == Spec => []PermitInv
<1>1. IndInv /\ PermitInv /\ [Next]_poolVars => PermitInv'
  BY PermitStep DEF IndInv
<1> QED
  BY <1>1, PermitInit, Invariance, PTL DEF Spec

(* Worker::run and WorkerPool::apply conserve the permits of the semaphore: *)
(* the only ones lost or made up are those of an InnerException, of an     *)
(* action given to a worker that was not asleep, of a spurious wakeup.     *)
THEOREM PermitsConserved == Spec => []PermitConservation
<1>1. PermitInv => PermitConservation
  BY DEF PermitInv
<1> QED
  BY <1>1, PermitInvariance, PTL

(* Without spurious wakeups there are never more permits, in the semaphore *)
(* or in the hands of threads, than IDLE workers.                          *)
THEOREM PermitsStandForWorkers == Spec => []PermitsBacked
<1>1. ASSUME TypeOK, NoLostWakeup, PermitInv
      PROVE  PermitsBacked
  <2> SUFFICES ASSUME cpc = "open"
               PROVE  availableWorkers + Cardinality(Holders) <= Cardinality(Idle) + spurious
    BY DEF PermitsBacked
  <2>1. Workers \ Awake \subseteq Idle
    BY <1>1 DEF NoLostWakeup, Awake, Idle
  <2>2. IsFiniteSet(Idle) /\ Cardinality(Idle) \in Nat
    BY <1>1, CountedSets, FS_Subset, FS_CardinalityType DEF Idle
  <2>3. Cardinality(Workers \ Awake) = NumWorkers - Cardinality(Awake)
    <3>1. Workers \intersect Awake = Awake
      BY DEF Awake
    <3>2. IsFiniteSet(Workers) /\ Cardinality(Workers) = NumWorkers
      BY <1>1, CountedSets
    <3>3. Cardinality(Workers \ Awake) = Cardinality(Workers) - Cardinality(Workers \intersect Awake)
      BY <3>2, FS_Difference
    <3> QED
      BY <3>1, <3>2, <3>3
  <2>4. Cardinality(Workers \ Awake) <= Cardinality(Idle)
    BY <2>1, <2>2, FS_Subset
  <2>5. /\ Cardinality(Holders) \in Nat /\ Cardinality(Awake) \in Nat /\ NumWorkers \in Nat
        /\ availableWorkers \in Nat /\ early \in Nat /\ spurious \in Nat
    BY <1>1, CountedSets, PoolAssumption DEF TypeOK
  <2>6. availableWorkers + Cardinality(Holders) + Cardinality(Awake)
          + early + Cardinality(Dropped) = NumWorkers + spurious
    BY <1>1 DEF PermitInv, PermitConservation
  <2>7. Cardinality(Dropped) \in Nat
    BY <1>1, FS_CardinalityType DEF PermitInv
  <2> QED
    BY <2>2, <2>3, <2>4, <2>5, <2>6, <2>7
<1>2. IndInv => TypeOK /\ NoLostWakeup
  BY DEF IndInv
<1> QED
  BY <1>1, <1>2, Invariance, PermitInvariance, PTL

-----------------------------------------------------------------------------
(* Who waits for whom.                                                     *)

(* Until the first InnerException there is a permit, or somebody who has   *)
(* one or will release one.                                                *)
AliveInv ==
  cpc = "open" /\ Dropped = {} => availableWorkers > 0 \/ Holders # {} \/ Awake # {}

LEMMA AliveInit == Init => AliveInv
<1> SUFFICES ASSUME Init PROVE Awake # {}
  BY DEF AliveInv
<1>1. 0 \in Workers
  BY ConstantFacts DEF Workers
<1> QED
  BY <1>1 DEF Init, Awake

LEMMA AliveStep == IndInv /\ AliveInv /\ [Next]_poolVars => AliveInv'
<1> DEFINE Alive == availableWorkers > 0 \/ Holders # {} \/ Awake # {}
<1> SUFFICES ASSUME IndInv, AliveInv, [Next]_poolVars, cpc' = "open", Dropped' = {}
             PROVE  Alive'
  BY DEF AliveInv
<1> USE DEF IndInv, TypeOK, delivererVars, workerVars, closerVars, execVars, AliveInv
<1>0. ASSUME Alive, availableWorkers' = availableWorkers, Holders' = Holders, Awake' = Awake
      PROVE  Alive'
  BY <1>0
<1>1. ASSUME NEW d \in Deliverers, NEW a \in Actions, Acquire(d, a)
      PROVE  Alive'
  BY <1>1 DEF Acquire, Holders
<1>2. ASSUME NEW d \in Deliverers, LockWorker(d) \/ SkipLocked(d) \/ SkipBusy(d)
      PROVE  Alive'
  BY <1>2 DEF LockWorker, SkipLocked, SkipBusy, Takes, Holders
<1>3. ASSUME NEW d \in Deliverers, GiveAction(d)
      PROVE  Alive'
  <2>1. pos[d] \in Workers /\ DelivererOwns(d, pos[d])
    BY <1>3 DEF GiveAction, Notify, Takes, CarryInv, DelivererOwns
  <2>2. wpc[pos[d]] # "parking"
    BY <2>1 DEF MutualExclusion, ThreadOwns
  <2> QED
    BY <1>3, <2>1, <2>2 DEF GiveAction, Notify, Takes, Awake
<1>4. ASSUME NEW d \in Deliverers, ThrowInner(d)
      PROVE  Alive'
  BY <1>4 DEF ThrowInner, CarryInv, Dropped
<1>5. ASSUME NEW w \in Workers, TakeMutex(w) \/ SpuriousWakeup(w)
      PROVE  Alive'
  BY <1>5 DEF TakeMutex, SpuriousWakeup, Awake
<1>6. ASSUME NEW w \in Workers, ReleasePermit(w)
      PROVE  Alive'
  BY <1>6 DEF ReleasePermit
<1>7. ASSUME NEW w \in Workers,
             Wait(w) \/ ExecWrite(w) \/ ExecSetValue(w) \/ BecomeIdle(w) \/ Exit(w)
      PROVE  Alive'
  <2>1. cpc = "open" /\ Dropped = {}
    BY <1>7 DEF Wait, ExecWrite, ExecSetValue, BecomeIdle, Exit, Dropped
  <2>2. availableWorkers' = availableWorkers /\ Holders' = Holders
    BY <1>7 DEF Wait, ExecWrite, ExecSetValue, BecomeIdle, Exit, Holders
  <2>3. Awake' = Awake
    BY <1>7 DEF Wait, ExecWrite, ExecSetValue, BecomeIdle, Exit, Awake
  <2> QED
    BY <1>0, <2>1, <2>2, <2>3
<1>8. BeginClose \/ CloseWorker \/ CloseJoin => FALSE
  BY DEF BeginClose, CloseWorker, Notify, ExecLeftover, CloseJoin
<1>9. ASSUME WriteThrows \/ UNCHANGED poolVars
      PROVE  Alive'
  BY <1>9 DEF WriteThrows, poolVars, Holders, Awake, Dropped
<1> QED
  BY StepCases, <1>1, <1>2, <1>3, <1>4, <1>5, <1>6, <1>7, <1>8, <1>9

(* acquire() cannot block forever while nobody is at fault: until the first *)
(* InnerException some permit is in the semaphore, in use, or about to be  *)
(* released.                                                               *)
THEOREM PoolNeverDry == Spec => []NeverDry
<1> DEFINE Total == availableWorkers + Cardinality(Holders) + Cardinality(Awake)
<1>1. TypeOK /\ AliveInv => NeverDry
  <2> SUFFICES ASSUME TypeOK, availableWorkers > 0 \/ Holders # {} \/ Awake # {} PROVE Total > 0
    BY DEF NeverDry, AliveInv
  <2>1. availableWorkers \in Nat /\ Cardinality(Holders) \in Nat /\ Cardinality(Awake) \in Nat
    BY CountedSets DEF TypeOK
  <2>2. Holders # {} => Cardinality(Holders) # 0
    BY CountedSets, FS_EmptySet
  <2>3. Awake # {} => Cardinality(Awake) # 0
    BY CountedSets, FS_EmptySet
  <2> QED
    BY <2>1, <2>2, <2>3
<1>2. IndInv => TypeOK
  BY DEF IndInv
<1> QED
  BY <1>1, <1>2, AliveInit, AliveStep, Invariance, PTL DEF Spec

(* Worker w is not blocked: its thread is not in cv.wait, has not ended,   *)
(* and can have the mutex if that is what it needs next.                   *)
Unblocked(w) ==
  \/ wpc[w] \in {"looping", "parking", "written", "settled"}
  \/ wpc[w] \in {"starting", "woken"} /\ w \notin locked

(* ... or a thread in tryApply has the mutex; it gives it back next.       *)
Attended(w) == Unblocked(w) \/ \E d \in Deliverers : DelivererOwns(d, w)

(* What the pool lets others wait for does come.  A worker with an action  *)
(* is on its way to execute it; while no permit is there, and none was     *)
(* lost, a thread with one is delivering or a worker is on its way to      *)
(* release one; the destructor waits only for a worker that lets go of its *)
(* mutex and ends (worker.h:60-71, 78-108, worker_pool.h:52-64).           *)
PoolWaits ==
  /\ \A w \in Workers : status[w] = "BUSY" => Attended(w)
  /\ cpc = "open" /\ Dropped = {} /\ availableWorkers = 0 =>
       Holders # {} \/ \E w \in Workers : Attended(w)
  /\ cpc = "closing" /\ cidx \in locked => Unblocked(cidx)
  /\ cpc = "joining" /\ wpc[cidx] # "exited" => Unblocked(cidx)

(* A worker that is awake and has not ended is attended to.                *)
LEMMA AwakeIsAttended ==
  ASSUME TypeOK, MutualExclusion, NEW w \in Workers,
         wpc[w] \notin {"waiting", "exited"}
  PROVE  Attended(w)
<1>1. wpc[w] \in WorkerPcs
  BY DEF TypeOK
<1>2. CASE w \in locked
  <2>1. ThreadOwns(w) \/ \E d \in Deliverers : DelivererOwns(d, w)
    BY <1>2 DEF MutualExclusion
  <2> QED
    BY <2>1 DEF ThreadOwns, Attended, Unblocked
<1>3. CASE w \notin locked
  BY <1>1, <1>3 DEF WorkerPcs, Attended, Unblocked
<1> QED
  BY <1>2, <1>3

(* While the pool is being destroyed nobody is in tryApply.                *)
LEMMA ClosingAlone ==
  ASSUME CarryInv, cpc # "open", NEW w \in Workers, Attended(w)
  PROVE  Unblocked(w)
BY DEF CarryInv, Attended, DelivererOwns

LEMMA PoolWaitsHold == IndInv /\ AliveInv => PoolWaits
<1> SUFFICES ASSUME IndInv, AliveInv PROVE PoolWaits
  OBVIOUS
<1>1. ASSUME NEW w \in Workers, status[w] = "BUSY" PROVE Attended(w)
  <2>1. wpc[w] # "waiting"
    BY <1>1 DEF IndInv, NoLostWakeup
  <2>2. wpc[w] # "exited"
    BY <1>1 DEF IndInv, CloseInv
  <2> QED
    BY <2>1, <2>2, AwakeIsAttended DEF IndInv
<1>2. ASSUME cpc = "open", Dropped = {}, availableWorkers = 0, Holders = {}
      PROVE  \E w \in Workers : Attended(w)
  <2>1. PICK w \in Workers : wpc[w] \notin {"parking", "waiting"}
    BY <1>2 DEF AliveInv, Awake
  <2>2. wpc[w] # "exited"
    <3>1. cidx = 0 /\ w \in Nat
      BY <1>2, ConstantFacts DEF IndInv, CloseInv
    <3>2. status[w] # "UNAVAILABLE"
      BY <1>2, <3>1 DEF IndInv, CloseInv
    <3> QED
      BY <3>2 DEF IndInv, CloseInv
  <2> QED
    BY <2>1, <2>2, AwakeIsAttended DEF IndInv
<1>3. ASSUME cpc = "closing", cidx \in locked PROVE Unblocked(cidx)
  <2>1. cidx \in Workers
    BY <1>3 DEF IndInv, CloseInv
  <2>2. ThreadOwns(cidx)
    BY <1>3, <2>1 DEF IndInv, MutualExclusion, CarryInv, DelivererOwns
  <2> QED
    BY <2>2 DEF ThreadOwns, Unblocked
<1>4. ASSUME cpc = "joining", wpc[cidx] # "exited" PROVE Unblocked(cidx)
  <2>1. cidx \in Workers /\ status[cidx] = "UNAVAILABLE"
    BY <1>4 DEF IndInv, CloseInv
  <2>2. wpc[cidx] # "waiting"
    BY <2>1 DEF IndInv, NoLostWakeup
  <2> QED
    BY <1>4, <2>1, <2>2, AwakeIsAttended, ClosingAlone DEF IndInv
<1> QED
  BY <1>1, <1>2, <1>3, <1>4 DEF PoolWaits

(* Nobody waits in vain for the pool: a result, a permit, and the end of a *)
(* worker each have a thread that is not blocked and brings them about.    *)
THEOREM NoVainWait == Spec => []PoolWaits
BY Invariance, AliveInit, AliveStep, PoolWaitsHold, PTL DEF Spec
=============================================================================
