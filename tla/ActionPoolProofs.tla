--------------------------- MODULE ActionPoolProofs ---------------------------
(***************************************************************************)
(* WorkerPool implements ActionPool: with StageOf and PhaseOf, the initial *)
(* state maps to the initial state, and every step of the threads maps to  *)
(* a step of ActionPool or to a stutter.  Threads, mutexes and permits are *)
(* only in the invariant of WorkerPoolProofs, which every step needs.      *)
(***************************************************************************)
EXTENDS WorkerPoolProofs

(* What ActionPool sees of a step.                                         *)
AbstractStutter == UNCHANGED <<[a \in Actions |-> StageOf(a)], PhaseOf>>

(* The actions in hand, told by fate and resolved alone.                   *)
LEMMA InHandIs == Abstract!InHand = {a \in Actions : fate[a] = "accepted" /\ a \notin resolved}
BY DEF Abstract!InHand, StageOf

(* A step that leaves fate, resolved and writes alone moves no action.     *)
LEMMA StagesStay ==
  ASSUME UNCHANGED <<fate, resolved, writes>>
  PROVE  \A a \in Actions : StageOf(a)' = StageOf(a)
BY DEF StageOf

(* A step of one action.                                                   *)
LEMMA StageMoves ==
  ASSUME NEW a \in Actions, NEW from, NEW to, StageOf(a) = from, StageOf(a)' = to,
         \A b \in Actions \ {a} : StageOf(b)' = StageOf(b)
  PROVE  Abstract!Advance(a, from, to)
BY DEF Abstract!Advance

(* The pool has not ended while a worker is BUSY.                          *)
LEMMA BusyMeansNotClosed ==
  ASSUME IndInv, NEW w \in Workers, status[w] = "BUSY"
  PROVE  cpc # "closed"
BY ConstantFacts DEF IndInv, TypeOK, CloseInv, Workers

(* Each action in hand is in the slot of a BUSY worker, so that there is   *)
(* room for one more while some worker is IDLE.                            *)
LEMMA RoomForOne ==
  ASSUME IndInv, NEW w \in Workers, status[w] = "IDLE"
  PROVE  Cardinality(Abstract!InHand) < NumWorkers
<1> DEFINE Rest == Workers \ {w}
           Slots == {action[v] : v \in Rest}
<1>1. IsFiniteSet(Workers) /\ Cardinality(Workers) = NumWorkers
  BY ConstantFacts, FS_Interval DEF Workers
<1>2. IsFiniteSet(Rest) /\ Cardinality(Rest) = NumWorkers - 1
  BY <1>1, FS_RemoveElement
<1>3. IsFiniteSet(Slots) /\ Cardinality(Slots) <= NumWorkers - 1
  <2>1. [v \in Rest |-> action[v]] \in Surjection(Rest, Slots)
    BY DEF Surjection
  <2> QED
    BY <1>2, <2>1, FS_Surjection
<1>4. Abstract!InHand \subseteq Slots
  <2> SUFFICES ASSUME NEW a \in Abstract!InHand PROVE a \in Slots
    OBVIOUS
  <2>1. PICK v \in Workers : status[v] = "BUSY" /\ action[v] = a
    BY InHandIs DEF IndInv, AcceptedHasOneWorker
  <2> QED
    BY <2>1
<1>5. IsFiniteSet(Abstract!InHand) /\ Cardinality(Abstract!InHand) <= Cardinality(Slots)
  BY <1>3, <1>4, FS_Subset
<1> HIDE DEF Slots
<1>6. Cardinality(Slots) \in Nat /\ Cardinality(Abstract!InHand) \in Nat
  BY <1>3, <1>5, FS_CardinalityType
<1> QED
  BY <1>3, <1>5, <1>6, ConstantFacts

-----------------------------------------------------------------------------
(* The process has not ended when it takes a step.                         *)
LEMMA StepIsAlive ==
  ASSUME [Next]_poolVars
  PROVE  ~terminated \/ UNCHANGED poolVars
BY DEF Next, Done

(* The threads deliver: an action is accepted or refused.                  *)
LEMMA GiveMaps ==
  ASSUME IndInv, ~terminated, NEW d \in Deliverers, GiveAction(d), UNCHANGED terminated
  PROVE  Abstract!Accept(carry[d])
<1>0. PICK a \in Actions : a = carry[d]
  BY DEF GiveAction, IndInv, CarryInv
<1>1. fate[a] = "carried" /\ cpc = "open" /\ pos[d] \in Workers
  BY <1>0 DEF GiveAction, IndInv, CarryInv
<1>2. writes[a] = 0 /\ a \notin resolved
  BY <1>0, <1>1 DEF IndInv, TypeOK, WrittenOnce
<1>3. fate' = [fate EXCEPT ![a] = "accepted"] /\ UNCHANGED <<resolved, writes, cpc>>
  BY <1>0 DEF GiveAction, execVars, closerVars
<1>4. StageOf(a) = "fresh" /\ StageOf(a)' = "accepted"
  BY <1>1, <1>2, <1>3 DEF StageOf, IndInv, TypeOK
<1>5. \A b \in Actions \ {a} : StageOf(b)' = StageOf(b)
  BY <1>3 DEF StageOf, IndInv, TypeOK
<1>6. Abstract!Advance(a, "fresh", "accepted")
  BY <1>1, <1>4, <1>5, StageMoves
<1>7. Cardinality(Abstract!InHand) < NumWorkers
  BY <1>1, RoomForOne DEF GiveAction, Takes
<1>8. PhaseOf = "open" /\ PhaseOf' = "open"
  BY <1>1, <1>3 DEF PhaseOf
<1> QED
  BY <1>0, <1>6, <1>7, <1>8 DEF Abstract!Accept, Abstract!Cardinality, Cardinality

LEMMA ThrowMaps ==
  ASSUME IndInv, ~terminated, NEW d \in Deliverers, ThrowInner(d),
         terminated' \in {terminated, TRUE}
  PROVE  Abstract!Refuse(carry[d])
<1>0. PICK a \in Actions : a = carry[d]
  BY DEF ThrowInner, IndInv, CarryInv
<1>1. fate[a] = "carried" /\ cpc = "open"
  BY <1>0 DEF ThrowInner, IndInv, CarryInv
<1>2. fate' = [fate EXCEPT ![a] = "dropped"] /\ UNCHANGED <<resolved, writes, cpc>>
  BY <1>0 DEF ThrowInner, execVars, closerVars
<1>3. StageOf(a) = "fresh" /\ StageOf(a)' = "refused"
  BY <1>1, <1>2 DEF StageOf, IndInv, TypeOK
<1>4. \A b \in Actions \ {a} : StageOf(b)' = StageOf(b)
  BY <1>2 DEF StageOf, IndInv, TypeOK
<1>5. Abstract!Advance(a, "fresh", "refused")
  BY <1>1, <1>3, <1>4, StageMoves
<1>6. PhaseOf = "open" /\ PhaseOf' \in {"open", "crashed"}
  BY <1>1, <1>2 DEF PhaseOf
<1> QED
  BY <1>0, <1>5, <1>6 DEF Abstract!Refuse

(* A worker executes what it was given.                                    *)
LEMMA WriteMaps ==
  ASSUME IndInv, ~terminated, NEW w \in Workers, ExecWrite(w), UNCHANGED terminated
  PROVE  Abstract!Execute(action[w])
<1>0. PICK a \in Actions : a = action[w]
  BY DEF ExecWrite, IndInv, SlotInv
<1>1. /\ fate[a] = "accepted"
      /\ writes[a] = 0 /\ a \notin resolved /\ cpc # "closed"
  BY <1>0, BusyMeansNotClosed DEF ExecWrite, IndInv, SlotInv
<1>2. writes' = [writes EXCEPT ![a] = 1] /\ UNCHANGED <<fate, resolved, cpc>>
  BY <1>0, <1>1 DEF ExecWrite, Write, delivererVars, closerVars, IndInv, TypeOK
<1>3. StageOf(a) = "accepted" /\ StageOf(a)' = "executed"
  BY <1>1, <1>2 DEF StageOf, IndInv, TypeOK
<1>4. \A b \in Actions \ {a} : StageOf(b)' = StageOf(b)
  BY <1>2 DEF StageOf, IndInv, TypeOK
<1>5. Abstract!Advance(a, "accepted", "executed")
  BY <1>1, <1>3, <1>4, StageMoves
<1>6. PhaseOf \in {"open", "closing"} /\ PhaseOf' = PhaseOf
  BY <1>1, <1>2 DEF PhaseOf, IndInv, TypeOK, CloserPcs
<1> QED
  BY <1>0, <1>5, <1>6 DEF Abstract!Execute

LEMMA SettleMaps ==
  ASSUME IndInv, ~terminated, NEW w \in Workers, ExecSetValue(w), UNCHANGED terminated
  PROVE  Abstract!Resolve(action[w])
<1>0. PICK a \in Actions : a = action[w]
  BY DEF ExecSetValue, IndInv, SlotInv
<1>1. /\ fate[a] = "accepted"
      /\ writes[a] = 1 /\ a \notin resolved /\ cpc # "closed"
  BY <1>0, BusyMeansNotClosed DEF ExecSetValue, IndInv, SlotInv
<1>2. resolved' = resolved \union {a} /\ UNCHANGED <<fate, writes, cpc>>
  BY <1>0 DEF ExecSetValue, SetValue, delivererVars, closerVars
<1>3. StageOf(a) = "executed" /\ StageOf(a)' = "resolved"
  BY <1>1, <1>2 DEF StageOf
<1>4. \A b \in Actions \ {a} : StageOf(b)' = StageOf(b)
  BY <1>2 DEF StageOf
<1>5. Abstract!Advance(a, "executed", "resolved")
  BY <1>1, <1>3, <1>4, StageMoves
<1>6. PhaseOf \in {"open", "closing"} /\ PhaseOf' = PhaseOf
  BY <1>1, <1>2 DEF PhaseOf, IndInv, TypeOK, CloserPcs
<1> QED
  BY <1>0, <1>5, <1>6 DEF Abstract!Resolve

(* ~Worker executes what no thread has begun, or finds nothing.            *)
LEMMA CloseWorkerMaps ==
  ASSUME IndInv, ~terminated, CloseWorker, UNCHANGED terminated
  PROVE  (action[cidx] \in Actions /\ Abstract!Drain(action[cidx])) \/ AbstractStutter
<1>1. cidx \in Workers /\ PhaseOf = "closing" /\ PhaseOf' = "closing"
  BY DEF CloseWorker, IndInv, CloseInv, PhaseOf
<1>2. CASE status[cidx] # "BUSY"
  <2>1. UNCHANGED <<fate, resolved, writes>>
    BY <1>2 DEF CloseWorker, ExecLeftover, delivererVars, execVars
  <2> QED
    BY <1>1, <2>1, StagesStay DEF AbstractStutter
<1>3. CASE status[cidx] = "BUSY"
  <2>1. wpc[cidx] \notin {"written", "settled"}
    BY <1>1 DEF CloseWorker, IndInv, MutualExclusion, ThreadOwns
  <2>0. PICK a \in Actions : a = action[cidx]
    BY <1>1, <1>3 DEF IndInv, SlotInv
  <2>2. fate[a] = "accepted" /\ writes[a] = 0 /\ a \notin resolved
    BY <1>1, <1>3, <2>0, <2>1 DEF IndInv, SlotInv
  <2>3. /\ writes' = [writes EXCEPT ![a] = 1] /\ resolved' = resolved \union {a}
        /\ UNCHANGED fate
    BY <1>3, <2>0, <2>2 DEF CloseWorker, ExecLeftover, Write, SetValue, delivererVars, IndInv, TypeOK
  <2>4. StageOf(a) = "accepted" /\ StageOf(a)' = "resolved"
    BY <2>2, <2>3 DEF StageOf
  <2>5. \A b \in Actions \ {a} : StageOf(b)' = StageOf(b)
    BY <2>3 DEF StageOf, IndInv, TypeOK
  <2>6. Abstract!Advance(a, "accepted", "resolved")
    BY <2>2, <2>4, <2>5, StageMoves
  <2> QED
    BY <1>1, <2>0, <2>6 DEF Abstract!Drain
<1> QED
  BY <1>2, <1>3

(* The last join: all workers are UNAVAILABLE, so nothing is in hand.      *)
LEMMA CloseJoinMaps ==
  ASSUME IndInv, ~terminated, CloseJoin, UNCHANGED terminated
  PROVE  Abstract!FinishClose \/ AbstractStutter
<1>1. UNCHANGED <<fate, resolved, writes>> /\ cpc = "joining" /\ PhaseOf = "closing"
  BY DEF CloseJoin, delivererVars, execVars, PhaseOf
<1>2. CASE cidx + 1 # NumWorkers
  <2>1. PhaseOf' = "closing"
    BY <1>2 DEF CloseJoin, PhaseOf
  <2> QED
    BY <1>1, <2>1, StagesStay DEF AbstractStutter
<1>3. CASE cidx + 1 = NumWorkers
  <2>1. PhaseOf' = "closed"
    BY <1>3 DEF CloseJoin, PhaseOf
  <2>2. \A w \in Workers : status[w] = "UNAVAILABLE"
    <3> SUFFICES ASSUME NEW w \in Workers PROVE status[w] = "UNAVAILABLE"
      OBVIOUS
    <3>1. w < cidx \/ w = cidx
      BY <1>3, ConstantFacts DEF Workers, IndInv, TypeOK
    <3> QED
      BY <1>1, <3>1 DEF IndInv, CloseInv
  <2>3. Abstract!InHand = {}
    BY <2>2, InHandIs DEF IndInv, AcceptedHasOneWorker
  <2> QED
    BY <1>1, <2>1, <2>3, StagesStay DEF Abstract!FinishClose
<1> QED
  BY <1>2, <1>3

(* An exception of the connector ends the process with its action in hand. *)
LEMMA WriteThrowsMaps ==
  ASSUME IndInv, ~terminated, WriteThrows
  PROVE  Abstract!Crash
<1>1. UNCHANGED <<fate, resolved, writes>> /\ terminated'
  BY DEF WriteThrows, delivererVars, execVars
<1>2. PICK w \in Workers : /\ status[w] = "BUSY"
                           /\ wpc[w] = "looping" \/ w \notin locked
  BY DEF WriteThrows, IndInv, CloseInv
<1>3. wpc[w] # "settled"
  BY <1>2 DEF IndInv, MutualExclusion, ThreadOwns
<1>4. action[w] \in Abstract!InHand
  BY <1>2, <1>3, InHandIs DEF IndInv, SlotInv
<1>5. PhaseOf \in {"open", "closing"} /\ PhaseOf' = "crashed"
  BY <1>1, <1>2, BusyMeansNotClosed DEF PhaseOf, IndInv, TypeOK, CloserPcs
<1> QED
  BY <1>1, <1>4, <1>5, StagesStay DEF Abstract!Crash

(* What the threads do among themselves.                                   *)
LEMMA InnerStepMaps ==
  ASSUME IndInv, UNCHANGED <<resolved, writes, cpc, terminated>>,
         UNCHANGED fate \/ \E a \in Actions : /\ fate[a] = "fresh"
                                              /\ fate' = [fate EXCEPT ![a] = "carried"]
  PROVE  AbstractStutter
<1>1. \A a \in Actions : StageOf(a)' = StageOf(a)
  BY DEF StageOf, IndInv, TypeOK
<1>2. UNCHANGED PhaseOf
  BY DEF PhaseOf
<1> QED
  BY <1>1, <1>2 DEF AbstractStutter

LEMMA StepMaps == IndInv /\ [Next]_poolVars => [Abstract!Next]_Abstract!vars
<1> SUFFICES ASSUME IndInv, [Next]_poolVars PROVE Abstract!Next \/ AbstractStutter
  BY DEF AbstractStutter, Abstract!vars
<1> USE DEF workerVars, delivererVars, closerVars, execVars
<1>1. CASE UNCHANGED poolVars
  BY <1>1, InnerStepMaps DEF poolVars
<1>2. CASE ~terminated
  <2>1. ASSUME NEW d \in Deliverers, NEW a \in Actions, Acquire(d, a), UNCHANGED terminated
        PROVE  AbstractStutter
    BY <2>1, InnerStepMaps DEF Acquire
  <2>2. ASSUME NEW d \in Deliverers, LockWorker(d) \/ SkipLocked(d) \/ SkipBusy(d),
               UNCHANGED terminated
        PROVE  AbstractStutter
    BY <2>2, InnerStepMaps DEF LockWorker, SkipLocked, SkipBusy
  <2>3. ASSUME NEW d \in Deliverers, GiveAction(d), UNCHANGED terminated
        PROVE  Abstract!Next
    <3>1. carry[d] \in Actions
      BY <2>3 DEF GiveAction, IndInv, CarryInv
    <3> QED
      BY <1>2, <2>3, <3>1, GiveMaps DEF Abstract!Next
  <2>4. ASSUME NEW d \in Deliverers, ThrowInner(d), terminated' \in {terminated, TRUE}
        PROVE  Abstract!Next
    <3>1. carry[d] \in Actions
      BY <2>4 DEF ThrowInner, IndInv, CarryInv
    <3> QED
      BY <1>2, <2>4, <3>1, ThrowMaps DEF Abstract!Next
  <2>5. ASSUME NEW w \in Workers, UNCHANGED terminated,
               \/ TakeMutex(w) \/ ReleasePermit(w) \/ Wait(w) \/ SpuriousWakeup(w)
               \/ BecomeIdle(w) \/ Exit(w)
        PROVE  AbstractStutter
    BY <2>5, InnerStepMaps DEF TakeMutex, ReleasePermit, Wait, SpuriousWakeup, BecomeIdle, Exit
  <2>6. ASSUME NEW w \in Workers, ExecWrite(w), UNCHANGED terminated
        PROVE  Abstract!Next
    <3>1. action[w] \in Actions
      BY <2>6 DEF ExecWrite, IndInv, SlotInv
    <3> QED
      BY <1>2, <2>6, <3>1, WriteMaps DEF Abstract!Next
  <2>7. ASSUME NEW w \in Workers, ExecSetValue(w), UNCHANGED terminated
        PROVE  Abstract!Next
    <3>1. action[w] \in Actions
      BY <2>7 DEF ExecSetValue, IndInv, SlotInv
    <3> QED
      BY <1>2, <2>7, <3>1, SettleMaps DEF Abstract!Next
  <2>8. ASSUME BeginClose, UNCHANGED terminated
        PROVE  Abstract!StartClose
    <3>1. UNCHANGED <<fate, resolved, writes>> /\ PhaseOf = "open" /\ PhaseOf' = "closing"
      BY <1>2, <2>8 DEF BeginClose, PhaseOf
    <3> QED
      BY <3>1, StagesStay DEF Abstract!StartClose
  <2>9. ASSUME CloseWorker, UNCHANGED terminated
        PROVE  Abstract!Next \/ AbstractStutter
    BY <1>2, <2>9, CloseWorkerMaps DEF Abstract!Next
  <2>10. ASSUME CloseJoin, UNCHANGED terminated
         PROVE  Abstract!Next \/ AbstractStutter
    BY <1>2, <2>10, CloseJoinMaps DEF Abstract!Next
  <2>11. CASE WriteThrows
    BY <1>2, <2>11, WriteThrowsMaps DEF Abstract!Next
  <2> QED
    BY <1>1, <2>1, <2>2, <2>3, <2>4, <2>5, <2>6, <2>7, <2>8, <2>9, <2>10, <2>11,
       StepCases DEF Abstract!Next
<1> QED
  BY <1>1, <1>2, StepIsAlive

LEMMA InitMaps == Init => Abstract!Init
<1> SUFFICES ASSUME Init PROVE Abstract!Init
  OBVIOUS
<1>1. \A a \in Actions : StageOf(a) = "fresh"
  BY DEF Init, StageOf
<1>2. PhaseOf = "open"
  BY DEF Init, PhaseOf
<1> QED
  BY <1>1, <1>2 DEF Abstract!Init

(* The pool of threads keeps the promise of ActionPool: every action is    *)
(* accepted or refused, an accepted one is executed once and then          *)
(* resolved, at most NumWorkers are in hand, and the destructor ends with  *)
(* none in hand (worker_pool.h:26-61, worker.h:55-128).                    *)
THEOREM PoolRefinesActionPool == Spec => ImplementsActionPool
<1> QED
  BY InitMaps, StepMaps, Invariance, PTL DEF Spec, ImplementsActionPool, Abstract!Spec
=============================================================================
