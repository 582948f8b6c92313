----------------------------- MODULE ClientProofs -----------------------------
(***************************************************************************)
(* Proofs about Client, for every number of threads, shards, records,      *)
(* workers and calls: where the threads are, who holds which mutex, how    *)
(* the client uses its pool, and what follows from that.  The invariant of *)
(* the pool is taken from WorkerPoolProofs, and what the pool promises     *)
(* from ActionPoolProofs.                                                  *)
(***************************************************************************)
EXTENDS Client, FiniteSetTheorems, SequenceTheorems, TLAPS

Pool == INSTANCE ActionPoolProofs WITH Deliverers <- Threads

(* The groups of variables, and the jump of a thread, are always expanded. *)
USE DEF shardVars, localVars, requestVars, otherPoolVars, poolVars, restOfPool,
        clientVars, Goto

-----------------------------------------------------------------------------
(* The inductive invariant.                                                *)

(* From where a batch is taken out of a shard to where its future is kept. *)
BatchPcs == {"copy", "clear", "await", "acquire", "deliver", "assign"}

(* In which member function a thread can be at which place; during the     *)
(* destruction nobody but the owner is in one.                             *)
PlaceInv ==
  /\ \A t \in AppThreads :
       /\ job[t] # "watch"
       /\ job[t] = "none" => pc[t] \in {"constructing", "idle"}
       /\ job[t] = "put" => pc[t] \in BatchPcs \union {"lock", "check"}
       /\ job[t] = "flush" => pc[t] \in BatchPcs \union {"next"}
       /\ job[t] = "close" =>
            t = Owner /\ pc[t] \in BatchPcs \union {"next", "drain", "join", "destroyed"}
  /\ job[Watcher] = "watch"
  /\ pc[Watcher] \in {"test", "sweep", "try", "permit", "copy", "clear", "deliver",
                      "assign", "ended"}
  /\ pc[Owner] = "constructing" => \A t \in AppThreads : pc[t] = "constructing"
  /\ job[Owner] = "close" =>
       clientStatus = "UNAVAILABLE" /\ \A t \in AppThreads \ {Owner} : pc[t] = "idle"

(* put and the watcher hold the mutex of their shard.                      *)
HasMutex(t) ==
  job[t] \in {"put", "watch"} /\ pc[t] \in BatchPcs \union {"check", "permit"}

MutexInv ==
  /\ \A s \in Shards : s \in shardLocked <=> \E t \in Threads : HasMutex(t) /\ cur[t] = s
  /\ \A t, u \in Threads : t # u /\ HasMutex(t) /\ HasMutex(u) => cur[t] # cur[u]

(* A thread has a permit, and an action in its hands, from where it got    *)
(* the permit to where the action is given away; the watcher gets it       *)
(* first.  Nobody has one once ~WorkerPool runs.                           *)
PermitTaken(t) == pc[t] = "deliver" \/ (t = Watcher /\ pc[t] \in {"copy", "clear"})

PermitInv ==
  /\ \A t \in Threads : dpc[t] # "idle" => PermitTaken(t)
  /\ \A t \in Threads : PermitTaken(t) /\ ~terminated => dpc[t] # "idle"
  /\ \A t \in Threads : pc[t] = "assign" => future[t] \in Actions /\ fate[future[t]] = "accepted"
  /\ cpc # "open" => pc[Owner] = "destroyed"
  /\ pc[Owner] = "destroyed" => pc[Watcher] = "ended"

(* What put has in hand before it has the mutex, and what nobody has yet.  *)
PutHand(t) ==
  /\ job[t] = "put"
  /\ \E r \in Records \ todo : taken[t] = <<r>> /\ ShardOf[r] = cur[t]
  /\ \A s \in Shards : taken[t][1] \notin ToSet(putLog[s])

LogInv ==
  /\ \A s \in Shards : \A r \in ToSet(putLog[s]) : r \notin todo /\ ShardOf[r] = s
  /\ \A s \in Shards : \A i, j \in DOMAIN putLog[s] : i # j => putLog[s][i] # putLog[s][j]

PutInv ==
  /\ \A t \in Threads : pc[t] = "lock" => PutHand(t)
  /\ \A t, u \in Threads :
       t # u /\ pc[t] = "lock" /\ pc[u] = "lock" => taken[t][1] # taken[u][1]
  /\ LogInv

(* Without flush() and the destructor, no two threads meet at a shard.     *)
CalmInv ==
  /\ flushes = 0 => \A t \in Threads : job[t] # "flush"
  /\ flushes = 0 /\ job[Owner] # "close" => raced = {}

IndInv ==
  /\ Pool!IndInv /\ TypeOK /\ PlaceInv /\ MutexInv /\ PermitInv /\ PutInv
  /\ CalmInv /\ WatcherCheckHolds

-----------------------------------------------------------------------------
(* The constants, in the form the steps need.                              *)
LEMMA ConstantFacts ==
  /\ Owner \in AppThreads /\ Owner \in Threads /\ Watcher \in Threads
  /\ Watcher \notin AppThreads /\ Owner # Watcher
  /\ \A t \in Threads : t # Watcher => t \in AppThreads
  /\ AppThreads \subseteq Threads
  /\ AnyShard \in Shards
  /\ ShardOf \in [Records -> Shards] /\ RecordSize \in [Records -> Nat \ {0}]
  /\ TargetNumRecords \in Nat /\ TargetNumRecords > 0
  /\ TargetMemorySize \in Nat /\ TargetMemorySize > 0
  /\ MaxFlushes \in Nat /\ NoAction \notin Actions
BY ClientAssumption DEF Threads, AnyShard

(* The assumption of the pool holds for the client's.                      *)
LEMMA PoolFacts ==
  /\ NumWorkers \in Nat \ {0}
  /\ MaxSpurious \in Nat
  /\ Pool!IsFiniteSet(Threads)
  /\ NoAction \notin Actions
  /\ WriteOutcomes \subseteq {"loaded", "refused", "exception"}
<1>1. IsFiniteSet(Threads)
  BY ClientAssumption, FS_AddElement DEF Threads
<1> QED
  BY <1>1, ClientAssumption DEF Pool!IsFiniteSet, IsFiniteSet

(* A step is one of these actions, or changes nothing.                     *)
LEMMA StepCases ==
  ASSUME [Next]_vars
  PROVE  \/ Construct
         \/ \E t \in AppThreads, r \in Records : StartPut(t, r)
         \/ \E t \in AppThreads : StartFlush(t)
         \/ \E t \in Threads : Apply(t)
         \/ \E t \in Threads : Check(t)
         \/ \E t \in Threads : Copy(t)
         \/ \E t \in Threads : Clear(t)
         \/ \E t \in Threads : Await(t)
         \/ \E t \in Threads : AcquirePermit(t)
         \/ \E t \in Threads : Scan(t)
         \/ \E t \in Threads : Give(t)
         \/ \E t \in Threads : Assign(t)
         \/ \E t \in Threads : Throw(t)
         \/ \E t \in Threads : ThrowUncaught(t)
         \/ \E t \in Threads : VisitNext(t)
         \/ \E t \in Threads : EndFlush(t)
         \/ StartClose \/ Drain \/ Join \/ DestroyPool
         \/ TestStatus \/ Sweep \/ TryLock \/ TryPermit
         \/ \E w \in WP!Workers : Work(w)
         \/ \E w \in WP!Workers : SpuriousWakeup(w)
         \/ \E s \in Shards : Age(s)
         \/ WriteThrows \/ Crash
         \/ UNCHANGED vars
BY ConstantFacts DEF Next, Proceed, Watch, Close, Done

-----------------------------------------------------------------------------
(* The steps of the pool.                                                  *)

(* The process ends, and nothing else happens to the pool.                 *)
ProcessEnds == terminated' = TRUE /\ UNCHANGED otherPoolVars

(* Client and the proofs about WorkerPool have their own instance of it.   *)
LEMMA SameWorkers == WP!Workers = Pool!Workers
BY DEF WP!Workers, Pool!Workers

LEMMA SameNext == WP!Next => Pool!Next
BY DEF WP!Next, WP!Step, WP!Scan, WP!Run, WP!Close, WP!Done, WP!poolVars, WP!Acquire,
   WP!LockWorker,
       WP!SkipLocked, WP!GiveAction, WP!SkipBusy, WP!ThrowInner, WP!ThrowUncaught, WP!TakeMutex,
       WP!ReleasePermit, WP!Wait, WP!SpuriousWakeup, WP!ExecWrite, WP!ExecSetValue, WP!BecomeIdle,
       WP!Exit, WP!BeginClose, WP!CloseWorker, WP!CloseJoin, WP!WriteThrows, WP!workerVars,
       WP!delivererVars, WP!closerVars, WP!execVars, WP!Workers, WP!Unlocked, WP!ReleaseMutex,
       WP!HasPermit, WP!Release, WP!Notify, WP!Takes, WP!Write, WP!SetValue, WP!SetIdle,
       WP!ExecLeftover,
       Pool!Next, Pool!Step, Pool!Scan, Pool!Run, Pool!Close, Pool!Done, Pool!poolVars,
       Pool!Acquire, Pool!LockWorker,
       Pool!SkipLocked, Pool!GiveAction, Pool!SkipBusy, Pool!ThrowInner, Pool!ThrowUncaught,
       Pool!TakeMutex, Pool!ReleasePermit, Pool!Wait, Pool!SpuriousWakeup, Pool!ExecWrite,
       Pool!ExecSetValue, Pool!BecomeIdle, Pool!Exit, Pool!BeginClose, Pool!CloseWorker,
       Pool!CloseJoin, Pool!WriteThrows, Pool!workerVars,
       Pool!delivererVars, Pool!closerVars, Pool!execVars, Pool!Workers, Pool!Unlocked,
       Pool!ReleaseMutex, Pool!HasPermit, Pool!Release, Pool!Notify, Pool!Takes, Pool!Write,
       Pool!SetValue, Pool!SetIdle, Pool!ExecLeftover

LEMMA SameInit == WP!Init => Pool!Init
BY DEF WP!Init, Pool!Init, WP!Workers, Pool!Workers

(* The end of the process keeps the invariant of the pool.                 *)
LEMMA PoolEndStep == Pool!IndInv /\ ProcessEnds => Pool!IndInv'
BY DEF ProcessEnds, Pool!IndInv, Pool!TypeOK, Pool!MutualExclusion, Pool!NoLostWakeup,
       Pool!AcceptedHasOneWorker, Pool!WrittenOnce, Pool!CarryInv, Pool!SlotInv, Pool!CloseInv,
       Pool!ThreadOwns, Pool!DelivererOwns

LEMMA StepIsAlive == ASSUME [Next]_vars PROVE ~terminated \/ UNCHANGED vars
BY DEF Next, Done

(* Every step of the client is a step of the pool, ends the process or     *)
(* does not touch the pool.  The only step that has to be argued for is    *)
(* Join: nobody is delivering an action when ~WorkerPool begins.           *)
LEMMA PoolStep ==
  ASSUME TypeOK, PlaceInv, PermitInv, terminated \in BOOLEAN, [Next]_vars
  PROVE  WP!Next \/ ProcessEnds \/ UNCHANGED poolVars
<1> USE ConstantFacts
<1>1. CASE UNCHANGED vars
  BY <1>1 DEF vars
<1>2. CASE ~terminated
  <2>1. ASSUME NEW t \in Threads, AcquirePermit(t) \/ TryPermit
        PROVE  WP!Next \/ UNCHANGED poolVars
    BY <1>2, <2>1 DEF AcquirePermit, TryPermit, TakePermit, NextAction, WP!Next, WP!Step
  <2>2. ASSUME NEW t \in Threads, Scan(t) \/ Give(t) \/ Throw(t)
        PROVE  WP!Next
    BY <1>2, <2>2 DEF Scan, Give, Throw, WP!Next, WP!Step, WP!Scan
  <2>3. ASSUME NEW t \in Threads, ThrowUncaught(t) PROVE WP!Next
    BY <1>2, <2>3 DEF ThrowUncaught, WP!Next
  <2>4. ASSUME NEW t \in Threads, Assign(t) PROVE ProcessEnds \/ UNCHANGED poolVars
    BY <1>2, <2>4 DEF Assign, TouchResult, ProcessEnds
  <2>5. ASSUME Join PROVE WP!Next
    <3>1. cpc = "open" /\ \A t \in Threads : dpc[t] = "idle"
      <4>1. pc[Owner] = "join" /\ pc[Watcher] = "ended" /\ job[Owner] = "close"
        BY <2>5 DEF Join, WatcherEnded, PlaceInv, BatchPcs, TypeOK, Jobs
      <4>2. \A t \in Threads : ~PermitTaken(t)
        BY <4>1 DEF PermitTaken, PlaceInv
      <4> QED
        BY <4>1, <4>2 DEF PermitInv
    <3>2. WP!BeginClose
      BY <2>5, <3>1 DEF Join, WP!BeginClose, WP!workerVars, WP!delivererVars, WP!execVars
    <3> QED
      BY <1>2, <2>5, <3>2 DEF Join, WP!Next, WP!Step
  <2>6. ASSUME NEW w \in WP!Workers, Work(w) \/ SpuriousWakeup(w) PROVE WP!Next
    BY <1>2, <2>6 DEF Work, SpuriousWakeup, WP!Next, WP!Step
  <2>7. ASSUME DestroyPool PROVE WP!Next
    BY <1>2, <2>7 DEF DestroyPool, WP!Next, WP!Step
  <2>8. CASE WriteThrows
    BY <1>2, <2>8 DEF WriteThrows, WP!Next
  <2>9. CASE Crash
    BY <2>9 DEF Crash, ProcessEnds
  <2>10. CASE \/ Construct \/ StartClose \/ Drain \/ TestStatus \/ Sweep \/ TryLock
              \/ \E s \in Shards : Age(s)
    BY <2>10 DEF Construct, StartClose, Drain, TestStatus, Sweep, TryLock, Age
  <2>11. CASE \/ \E t \in AppThreads, r \in Records : StartPut(t, r)
              \/ \E t \in AppThreads : StartFlush(t)
    BY <2>11 DEF StartPut, StartFlush
  <2>12. CASE \E t \in Threads : \/ Apply(t) \/ Check(t) \/ Copy(t) \/ Clear(t) \/ Await(t)
                                 \/ VisitNext(t) \/ EndFlush(t)
    BY <2>12 DEF Apply, Check, Copy, Clear, Await, VisitNext, EndFlush
  <2> QED
    BY <1>1, <2>1, <2>2, <2>3, <2>4, <2>5, <2>6, <2>7, <2>8, <2>9, <2>10, <2>11, <2>12,
       StepCases
<1> QED
  BY <1>1, <1>2, StepIsAlive

LEMMA PoolInvStep ==
  ASSUME Pool!IndInv, TypeOK, PlaceInv, PermitInv, [Next]_vars
  PROVE  Pool!IndInv'
<1>1. terminated \in BOOLEAN
  BY DEF Pool!IndInv, Pool!TypeOK
<1>2. CASE WP!Next \/ UNCHANGED poolVars
  <2>1. [Pool!Next]_Pool!poolVars
    BY <1>2, SameNext DEF Pool!poolVars
  <2> QED
    BY <2>1, PoolFacts, Pool!IndStep
<1>3. CASE ProcessEnds
  BY <1>3, PoolEndStep
<1> QED
  BY <1>1, <1>2, <1>3, PoolStep

-----------------------------------------------------------------------------
(* Types.                                                                  *)
LEMMA PlacesExist ==
  /\ "constructing" \in Pcs /\ "idle" \in Pcs /\ "lock" \in Pcs /\ "check" \in Pcs
  /\ "copy" \in Pcs /\ "clear" \in Pcs /\ "await" \in Pcs /\ "acquire" \in Pcs
  /\ "deliver" \in Pcs /\ "assign" \in Pcs /\ "next" \in Pcs /\ "drain" \in Pcs
  /\ "join" \in Pcs /\ "destroyed" \in Pcs /\ "test" \in Pcs /\ "sweep" \in Pcs
  /\ "try" \in Pcs /\ "permit" \in Pcs /\ "ended" \in Pcs
  /\ "none" \in Jobs /\ "put" \in Jobs /\ "flush" \in Jobs /\ "close" \in Jobs
  /\ "watch" \in Jobs
BY DEF Pcs, Jobs

LEMMA TypeInit == Init => TypeOK
<1> SUFFICES ASSUME Init PROVE TypeOK
  OBVIOUS
<1> USE ConstantFacts DEF Init
<1>1. pc \in [Threads -> Pcs] /\ job \in [Threads -> Jobs]
  BY DEF Pcs, Jobs
<1>2. clientStatus \in {"UNAVAILABLE", "RUNNING", "other"}
  BY ClientAssumption
<1> QED
  BY <1>1, <1>2 DEF TypeOK

(* A thread that leaves a shard.                                           *)
LEMMA LeaveType ==
  ASSUME TypeOK, NEW t \in Threads, job[t] # "none", Leave(t)
  PROVE  /\ pc' \in [Threads -> Pcs] /\ job' \in [Threads -> Jobs]
         /\ cur' \in [Threads -> Shards] /\ shardLocked' \subseteq Shards
<1>1. job[t] # "none" => After(t) \in Pcs
  BY PlacesExist DEF TypeOK, Jobs, After
<1> QED
  BY <1>1, ConstantFacts, PlacesExist DEF TypeOK, Leave, Unlock

(* A shard that is raced is a shard.                                       *)
LEMMA RacedStays ==
  ASSUME TypeOK, NEW t \in Threads, TouchRecords(t, cur[t])
  PROVE  raced' \subseteq Shards
<1>1. raced \subseteq Shards /\ cur[t] \in Shards
  BY DEF TypeOK
<1>2. raced' = raced \union {cur[t]} \/ raced' = raced
  BY DEF TouchRecords
<1> QED
  BY <1>1, <1>2

LEMMA TypeStep ==
  ASSUME Pool!IndInv, TypeOK, PlaceInv, PermitInv, PutInv, [Next]_vars
  PROVE  TypeOK'
<1> USE ConstantFacts DEF TypeOK
<1>1. ASSUME NEW t \in AppThreads, NEW r \in Records, StartPut(t, r) PROVE TypeOK'
  <2>1. pc' \in [Threads -> Pcs]
    BY <1>1, PlacesExist DEF StartPut
  <2>2. job' \in [Threads -> Jobs]
    BY <1>1, PlacesExist DEF StartPut
  <2>3. cur' \in [Threads -> Shards]
    BY <1>1 DEF StartPut
  <2>4. taken' \in [Threads -> Seq(Records)]
    BY <1>1 DEF StartPut
  <2>5. todo' \subseteq Records
    BY <1>1 DEF StartPut
  <2> QED
    BY <1>1, <2>1, <2>2, <2>3, <2>4, <2>5 DEF StartPut
<1>2. ASSUME NEW t \in AppThreads, StartFlush(t) PROVE TypeOK'
  <2>1. pc' \in [Threads -> Pcs]
    BY <1>2, PlacesExist DEF StartFlush
  <2>2. job' \in [Threads -> Jobs]
    BY <1>2, PlacesExist DEF StartFlush
  <2>3. toVisit' \in [Threads -> SUBSET Shards]
    BY <1>2 DEF StartFlush
  <2>4. flushes' \in 0 .. MaxFlushes
    BY <1>2 DEF StartFlush
  <2> QED
    BY <1>2, <2>1, <2>2, <2>3, <2>4 DEF StartFlush
<1>3. ASSUME NEW t \in Threads, Apply(t) PROVE TypeOK'
  <2> DEFINE c == cur[t]
             r == taken[t][1]
  <2>1. c \in Shards /\ r \in Records
    BY <1>3 DEF Apply, PutInv, PutHand
  <2>2. /\ records' \in [Shards -> Seq(Records)] /\ putLog' \in [Shards -> Seq(Records)]
        /\ size' \in [Shards -> Nat]
    <3> HIDE DEF c, r
    <3>1. \A q \in Seq(Records) : Append(q, r) \in Seq(Records)
      BY <2>1, AppendProperties
    <3>2. size[c] + RecordSize[r] \in Nat
      <4>1. size[c] \in Nat /\ RecordSize[r] \in Nat
        BY <2>1
      <4> HIDE DEF TypeOK
      <4> QED
        BY <4>1
    <3>3. records' = [records EXCEPT ![c] = Append(@,
        r)] /\ putLog' = [putLog EXCEPT ![c] = Append(@, r)]
          /\ size' = [size EXCEPT ![c] = @ + RecordSize[r]]
      BY <1>3 DEF Apply, PushBack, AddSize, c, r
    <3> QED
      BY <2>1, <3>1, <3>2, <3>3
  <2>3. pc' \in [Threads -> Pcs]
    BY <1>3, PlacesExist DEF Apply
  <2>5. taken' \in [Threads -> Seq(Records)]
    BY <1>3 DEF Apply
  <2>4. /\ timedOut' \in [Shards -> BOOLEAN] /\ raced' \subseteq Shards
        /\ shardLocked' \subseteq Shards
    BY <1>3, <2>1 DEF Apply, TouchRecords
  <2> QED
    BY <1>3, <2>2, <2>3, <2>4, <2>5 DEF Apply
<1>4. ASSUME NEW t \in Threads, Check(t) PROVE TypeOK'
  <2>1. job[t] # "none"
    BY <1>4 DEF Check, PlaceInv
  <2>2. /\ pc' \in [Threads -> Pcs] /\ job' \in [Threads -> Jobs]
        /\ cur' \in [Threads -> Shards] /\ shardLocked' \subseteq Shards
    <3>1. CASE Leave(t)
      BY <2>1, <3>1, LeaveType
    <3>2. CASE Goto(t, "copy") /\ UNCHANGED <<job, cur, shardLocked>>
      BY <3>2, PlacesExist
    <3> QED
      BY <1>4, <3>1, <3>2 DEF Check
  <2>3. raced' \subseteq Shards
    BY <1>4, RacedStays DEF Check
  <2> QED
    BY <1>4, <2>2, <2>3 DEF Check
<1>5. ASSUME NEW t \in Threads, Copy(t) PROVE TypeOK'
  <2>1. pc' \in [Threads -> Pcs]
    BY <1>5, PlacesExist DEF Copy
  <2>2. timedOut' \in [Shards -> BOOLEAN]
    BY <1>5 DEF Copy
  <2>3. size' \in [Shards -> Nat]
    BY <1>5 DEF Copy, ResetSize
  <2>4. taken' \in [Threads -> Seq(Records)]
    BY <1>5 DEF Copy
  <2>5. raced' \subseteq Shards
    BY <1>5, RacedStays DEF Copy
  <2> QED
    BY <1>5, <2>1, <2>2, <2>3, <2>4, <2>5 DEF Copy
<1>6. ASSUME NEW t \in Threads, Clear(t) PROVE TypeOK'
  <2>1. job[t] # "none"
    BY <1>6 DEF Clear, PlaceInv
  <2>2. /\ pc' \in [Threads -> Pcs] /\ job' \in [Threads -> Jobs]
        /\ cur' \in [Threads -> Shards] /\ shardLocked' \subseteq Shards
    <3>1. CASE Leave(t)
      BY <2>1, <3>1, LeaveType
    <3>2. CASE UNCHANGED <<job, cur, shardLocked>> /\ Goto(t,
        IF job[t] = "watch" THEN "deliver" ELSE "await")
      BY <3>2, PlacesExist
    <3> QED
      BY <1>6, <3>1, <3>2 DEF Clear
  <2>3. records' \in [Shards -> Seq(Records)]
    BY <1>6 DEF Clear, EmptyRecords
  <2> QED
    BY <1>6, <2>2, <2>3 DEF Clear
<1>7. ASSUME NEW t \in Threads, Await(t) PROVE TypeOK'
  <2>1. pc' \in [Threads -> Pcs]
    BY <1>7, PlacesExist DEF Await
  <2> QED
    BY <1>7, <2>1 DEF Await
<1>8. ASSUME NEW t \in Threads, AcquirePermit(t) PROVE TypeOK'
  <2>1. pc' \in [Threads -> Pcs]
    BY <1>8, PlacesExist DEF AcquirePermit
  <2> QED
    BY <1>8, <2>1 DEF AcquirePermit
<1>9. ASSUME NEW t \in Threads, Scan(t) PROVE TypeOK'
  <2>1. pc' \in [Threads -> Pcs]
    BY <1>9 DEF Scan
  <2> QED
    BY <1>9, <2>1 DEF Scan
<1>10. ASSUME NEW t \in Threads, Give(t) PROVE TypeOK'
  <2>1. carry[t] \in Actions
    BY <1>10 DEF Give, WP!GiveAction, Pool!IndInv, Pool!CarryInv
  <2>2. pc' \in [Threads -> Pcs]
    BY <1>10, PlacesExist DEF Give
  <2>3. payload' \in [Actions -> Seq(Records)]
    BY <1>10 DEF Give, HandOver
  <2>4. taken' \in [Threads -> Seq(Records)]
    BY <1>10 DEF Give, HandOver
  <2>5. future' \in [Threads -> Actions \union {NoAction}]
    BY <1>10, <2>1 DEF Give
  <2> QED
    BY <1>10, <2>2, <2>3, <2>4, <2>5 DEF Give
<1>11. ASSUME NEW t \in Threads, Assign(t) PROVE TypeOK'
  <2>1. job[t] # "none"
    BY <1>11 DEF Assign, PlaceInv
  <2>2. /\ pc' \in [Threads -> Pcs] /\ job' \in [Threads -> Jobs]
        /\ cur' \in [Threads -> Shards] /\ shardLocked' \subseteq Shards
    BY <1>11, <2>1, LeaveType, PlacesExist DEF Assign
  <2>3. result' \in [Shards -> Actions \union {NoAction}]
    BY <1>11 DEF Assign, PermitInv
  <2>4. future' \in [Threads -> Actions \union {NoAction}]
    BY <1>11 DEF Assign
  <2> QED
    BY <1>11, <2>2, <2>3, <2>4 DEF Assign
<1>12. ASSUME NEW t \in Threads, Throw(t) PROVE TypeOK'
  <2>1. pc' \in [Threads -> Pcs]
    BY <1>12, PlacesExist DEF Throw
  <2>2. job' \in [Threads -> Jobs]
    BY <1>12, PlacesExist DEF Throw
  <2>3. cur' \in [Threads -> Shards]
    BY <1>12 DEF Throw
  <2>4. shardLocked' \subseteq Shards
    BY <1>12 DEF Throw, Unlock
  <2>5. payload' \in [Actions -> Seq(Records)]
    BY <1>12 DEF Throw, HandOver
  <2>6. taken' \in [Threads -> Seq(Records)]
    BY <1>12 DEF Throw, HandOver
  <2> QED
    BY <1>12, <2>1, <2>2, <2>3, <2>4, <2>5, <2>6 DEF Throw
<1>13. ASSUME NEW t \in Threads, ThrowUncaught(t) PROVE TypeOK'
  <2>1. payload' \in [Actions -> Seq(Records)]
    BY <1>13 DEF ThrowUncaught, HandOver
  <2>2. taken' \in [Threads -> Seq(Records)]
    BY <1>13 DEF ThrowUncaught, HandOver
  <2> QED
    BY <1>13, <2>1, <2>2 DEF ThrowUncaught
<1>14. ASSUME NEW t \in Threads, VisitNext(t) PROVE TypeOK'
  <2>1. pc' \in [Threads -> Pcs]
    BY <1>14, PlacesExist DEF VisitNext
  <2>2. cur' \in [Threads -> Shards]
    <3>1. PICK s \in toVisit[t] : cur' = [cur EXCEPT ![t] = s]
      BY <1>14 DEF VisitNext
    <3> QED
      BY <3>1
  <2>3. toVisit' \in [Threads -> SUBSET Shards]
    <3>1. PICK s : toVisit' = [toVisit EXCEPT ![t] = Rest(t, s)]
      BY <1>14 DEF VisitNext
    <3>2. Rest(t, s) \in SUBSET Shards
      BY DEF Rest
    <3> QED
      BY <3>1, <3>2
  <2> QED
    BY <1>14, <2>1, <2>2, <2>3 DEF VisitNext
<1>15. ASSUME NEW t \in Threads, EndFlush(t) PROVE TypeOK'
  <2>1. pc' \in [Threads -> Pcs]
    <3>1. PICK place \in {"idle", "drain"} : pc' = [pc EXCEPT ![t] = place]
      BY <1>15 DEF EndFlush
    <3> QED
      BY <3>1, PlacesExist
  <2>2. job' \in [Threads -> Jobs]
    BY <1>15, PlacesExist DEF EndFlush
  <2>3. toVisit' \in [Threads -> SUBSET Shards]
    BY <1>15 DEF EndFlush
  <2> QED
    BY <1>15, <2>1, <2>2, <2>3 DEF EndFlush
<1>16. CASE Construct
  <2>1. pc' \in [Threads -> Pcs]
    BY <1>16, PlacesExist DEF Construct
  <2>2. clientStatus' \in {"UNAVAILABLE", "RUNNING", "other"}
    BY <1>16 DEF Construct
  <2> QED
    BY <1>16, <2>1, <2>2 DEF Construct
<1>17. CASE StartClose
  <2>1. pc' \in [Threads -> Pcs]
    BY <1>17, PlacesExist DEF StartClose, TellWatcher
  <2>2. job' \in [Threads -> Jobs]
    BY <1>17, PlacesExist DEF StartClose, TellWatcher
  <2>3. toVisit' \in [Threads -> SUBSET Shards]
    BY <1>17 DEF StartClose, TellWatcher
  <2>4. clientStatus' \in {"UNAVAILABLE", "RUNNING", "other"}
    BY <1>17 DEF StartClose, TellWatcher
  <2> QED
    BY <1>17, <2>1, <2>2, <2>3, <2>4 DEF StartClose, TellWatcher
<1>18. CASE Drain
  <2>1. pc' \in [Threads -> Pcs]
    BY <1>18, PlacesExist DEF Drain
  <2>2. toVisit' \in [Threads -> SUBSET Shards]
    <3>1. toVisit[Owner] \in SUBSET Shards
      OBVIOUS
    <3>2. \A s : toVisit[Owner] \ {s} \in SUBSET Shards
      BY <3>1
    <3>3. UNCHANGED toVisit \/ \E s : toVisit' = [toVisit EXCEPT ![Owner] = @ \ {s}]
      BY <1>18 DEF Drain
    <3> QED
      <4>1. ASSUME NEW S \in SUBSET Shards
            PROVE  [toVisit EXCEPT ![Owner] = S] \in [Threads -> SUBSET Shards]
        OBVIOUS
      <4>2. ASSUME NEW s, toVisit' = [toVisit EXCEPT ![Owner] = @ \ {s}]
            PROVE  toVisit' \in [Threads -> SUBSET Shards]
        <5>1. toVisit[Owner] \ {s} \in SUBSET Shards
          BY <3>2
        <5>2. toVisit' = [toVisit EXCEPT ![Owner] = toVisit[Owner] \ {s}]
          BY <4>2
        <5> HIDE DEF TypeOK
        <5> QED
          BY <4>1, <5>1, <5>2
      <4> QED
        BY <3>3, <4>2
  <2> QED
    BY <1>18, <2>1, <2>2 DEF Drain
<1>19. CASE Join
  <2>1. pc' \in [Threads -> Pcs]
    BY <1>19, PlacesExist DEF Join
  <2> QED
    BY <1>19, <2>1 DEF Join
<1>20. CASE TestStatus
  <2>1. pc' \in [Threads -> Pcs]
    BY <1>20, PlacesExist DEF TestStatus
  <2>2. toVisit' \in [Threads -> SUBSET Shards]
    BY <1>20 DEF TestStatus
  <2> QED
    BY <1>20, <2>1, <2>2 DEF TestStatus
<1>21. CASE TryLock
  <2>1. pc' \in [Threads -> Pcs]
    BY <1>21, PlacesExist DEF TryLock
  <2>2. shardLocked' \subseteq Shards
    BY <1>21 DEF TryLock
  <2>3. raced' \subseteq Shards
    <3>1. TouchRecords(Watcher, cur[Watcher]) \/ raced' = raced
      BY <1>21 DEF TryLock
    <3> QED
      BY <3>1, RacedStays
  <2> QED
    BY <1>21, <2>1, <2>2, <2>3 DEF TryLock
<1>22. CASE Sweep
  <2>1. pc' \in [Threads -> Pcs]
    BY <1>22, PlacesExist DEF Sweep
  <2>2. toVisit' \in [Threads -> SUBSET Shards]
    <3>1. toVisit[Watcher] \in SUBSET Shards
      OBVIOUS
    <3>2. \A s : toVisit[Watcher] \ {s} \in SUBSET Shards
      BY <3>1
    <3>3. \/ toVisit' = toVisit
          \/ \E s : toVisit' = [toVisit EXCEPT ![Watcher] = toVisit[Watcher] \ {s}]
      BY <1>22 DEF Sweep
    <3> QED
      <4>1. ASSUME NEW S \in SUBSET Shards
            PROVE  [toVisit EXCEPT ![Watcher] = S] \in [Threads -> SUBSET Shards]
        OBVIOUS
      <4>2. ASSUME NEW s, toVisit' = [toVisit EXCEPT ![Watcher] = @ \ {s}]
            PROVE  toVisit' \in [Threads -> SUBSET Shards]
        <5>1. toVisit[Watcher] \ {s} \in SUBSET Shards
          BY <3>2
        <5>2. toVisit' = [toVisit EXCEPT ![Watcher] = toVisit[Watcher] \ {s}]
          BY <4>2
        <5> HIDE DEF TypeOK
        <5> QED
          BY <4>1, <5>1, <5>2
      <4> QED
        BY <3>3, <4>2
  <2>3. cur' \in [Threads -> Shards]
    <3>1. \A s \in toVisit[Watcher] : s \in Shards
      OBVIOUS
    <3>2. cur' = cur \/ \E s \in toVisit[Watcher] : cur' = [cur EXCEPT ![Watcher] = s]
      BY <1>22 DEF Sweep
    <3> QED
      BY <3>1, <3>2
  <2> QED
    BY <1>22, <2>1, <2>2, <2>3 DEF Sweep
<1>23. CASE TryPermit
  <2>1. /\ pc' \in [Threads -> Pcs] /\ job' \in [Threads -> Jobs]
        /\ cur' \in [Threads -> Shards] /\ shardLocked' \subseteq Shards
    <3>1. CASE Leave(Watcher)
      BY <3>1, LeaveType DEF PlaceInv
    <3>2. CASE Goto(Watcher, "copy") /\ UNCHANGED <<job, cur, shardLocked>>
      BY <3>2, PlacesExist
    <3> QED
      BY <1>23, <3>1, <3>2 DEF TryPermit
  <2> QED
    BY <1>23, <2>1 DEF TryPermit
<1>24. ASSUME NEW a \in Actions, Store(a)
       PROVE  database' \in [Shards -> Seq(Records)]
  <2>1. \A s \in Shards : database[s] \o payload[a] \in Seq(Records)
    BY ConcatProperties
  <2> QED
    <3>1. \/ UNCHANGED database
          \/ database' = [database EXCEPT ![ShardOfBatch(a)] =
                             database[ShardOfBatch(a)] \o payload[a]]
      BY <1>24 DEF Store
    <3>2. ASSUME NEW c, database' = [database EXCEPT ![c] = database[c] \o payload[a]]
          PROVE  database' \in [Shards -> Seq(Records)]
      BY <2>1, <3>2
    <3> QED
      BY <3>1, <3>2
<1>25. ASSUME NEW w \in WP!Workers, Work(w) PROVE TypeOK'
  <2>1. status[w] = "BUSY" => action[w] \in Actions
    BY SameWorkers DEF Pool!IndInv, Pool!SlotInv
  <2>2. database' \in [Shards -> Seq(Records)]
    BY <1>24, <1>25, <2>1 DEF Work
  <2> QED
    BY <1>25, <2>2 DEF Work
<1>26. CASE DestroyPool
  <2>1. cpc = "closing" => cidx \in WP!Workers
    BY SameWorkers DEF Pool!IndInv, Pool!CloseInv
  <2>2. cpc = "closing" /\ status[cidx] = "BUSY" => action[cidx] \in Actions
    BY <2>1, SameWorkers DEF Pool!IndInv, Pool!SlotInv
  <2>3. database' \in [Shards -> Seq(Records)]
    BY <1>24, <1>26, <2>2 DEF DestroyPool
  <2> QED
    BY <1>26, <2>3 DEF DestroyPool
<1>27. ASSUME NEW w \in WP!Workers, SpuriousWakeup(w) PROVE TypeOK'
  BY <1>27 DEF SpuriousWakeup
<1>28. ASSUME NEW s \in Shards, Age(s) PROVE TypeOK'
  BY <1>28 DEF Age
<1>29. CASE WriteThrows \/ Crash
  BY <1>29 DEF WriteThrows, Crash
<1>30. CASE UNCHANGED vars
  BY <1>30 DEF vars
<1> QED
  BY <1>1, <1>2, <1>3, <1>4, <1>5, <1>6, <1>7, <1>8, <1>9, <1>10, <1>11, <1>12, <1>13,
     <1>14, <1>15, <1>16, <1>17, <1>18, <1>19, <1>20, <1>21, <1>22, <1>23, <1>25, <1>26,
     <1>27, <1>28, <1>29, <1>30, StepCases

-----------------------------------------------------------------------------
(* Where the threads are.                                                  *)

(* The functions whose values most steps change at one thread.             *)
LEMMA Domains ==
  TypeOK => /\ pc \in [Threads -> Pcs] /\ job \in [Threads -> Jobs]
            /\ cur \in [Threads -> Shards] /\ taken \in [Threads -> Seq(Records)]
            /\ future \in [Threads -> Actions \union {NoAction}]
            /\ toVisit \in [Threads -> SUBSET Shards]
BY DEF TypeOK

(* A thread that leaves a shard, point by point.                           *)
LEMMA LeaveFacts ==
  ASSUME TypeOK, NEW t \in Threads, Leave(t)
  PROVE  /\ pc'[t] = After(t) /\ \A u \in Threads \ {t} : pc'[u] = pc[u]
         /\ job'[t] = IF job[t] = "put" THEN "none" ELSE job[t]
         /\ \A u \in Threads \ {t} : job'[u] = job[u]
         /\ cur'[t] = AnyShard /\ \A u \in Threads \ {t} : cur'[u] = cur[u]
         /\ shardLocked' = IF job[t] \in {"put",
             "watch"} THEN shardLocked \ {cur[t]} ELSE shardLocked
BY DEF Leave, TypeOK, Unlock

(* Leaving a shard keeps the places.                                       *)
LEMMA LeavePlace ==
  ASSUME TypeOK, PlaceInv, NEW t \in Threads, Leave(t), UNCHANGED clientStatus,
         pc[t] \in BatchPcs \union {"check", "permit"}
  PROVE  PlaceInv'
<1> USE ConstantFacts, LeaveFacts
<1>1. CASE job[t] = "put"
  BY <1>1 DEF PlaceInv, BatchPcs, After
<1>2. CASE job[t] \in {"flush", "close"}
  BY <1>2 DEF PlaceInv, BatchPcs, After
<1>3. CASE job[t] = "watch"
  BY <1>3 DEF PlaceInv, BatchPcs, After
<1>4. job[t] # "none"
  BY DEF PlaceInv, BatchPcs
<1> QED
  BY <1>1, <1>2, <1>3, <1>4 DEF TypeOK, Jobs

(* Places.                                                                 *)
LEMMA PlaceStep ==
  ASSUME TypeOK, PlaceInv, [Next]_vars
  PROVE  PlaceInv'
<1> USE ConstantFacts
<1>1. ASSUME NEW t \in AppThreads, NEW r \in Records, StartPut(t, r) PROVE PlaceInv'
  <2>1. job[t] \in Jobs /\ pc[t] = "idle" /\ clientStatus = "RUNNING"
    BY <1>1 DEF StartPut, TypeOK
  <2>2. job[t] = "none" /\ job[Owner] # "close"
    BY <2>1 DEF PlaceInv, BatchPcs, Jobs
  <2>3. pc[Owner] # "constructing"
    BY <2>1 DEF PlaceInv
  <2> QED
    BY <1>1, <2>1, <2>2, <2>3 DEF StartPut, PlaceInv, TypeOK, BatchPcs
<1>2. ASSUME NEW t \in AppThreads, StartFlush(t) PROVE PlaceInv'
  <2>1. job[t] \in Jobs /\ pc[t] = "idle" /\ clientStatus = "RUNNING"
    BY <1>2 DEF StartFlush, TypeOK
  <2>2. job[t] = "none" /\ job[Owner] # "close"
    BY <2>1 DEF PlaceInv, BatchPcs, Jobs
  <2>3. pc[Owner] # "constructing"
    BY <2>1 DEF PlaceInv
  <2> QED
    BY <1>2, <2>1, <2>2, <2>3 DEF StartFlush, PlaceInv, TypeOK, BatchPcs
<1>3. ASSUME NEW t \in Threads, Apply(t) PROVE PlaceInv'
  BY <1>3 DEF Apply, PlaceInv, BatchPcs, TypeOK
<1>4. ASSUME NEW t \in Threads, Check(t) PROVE PlaceInv'
  <2>1. CASE Leave(t)
    BY <1>4, <2>1, LeavePlace DEF Check
  <2>2. CASE Goto(t, "copy") /\ UNCHANGED job
    BY <1>4, <2>2 DEF Check, PlaceInv, BatchPcs, TypeOK
  <2> QED
    BY <1>4, <2>1, <2>2 DEF Check
<1>5. ASSUME NEW t \in Threads, Copy(t) PROVE PlaceInv'
  BY <1>5 DEF Copy, PlaceInv, BatchPcs, TypeOK
<1>6. ASSUME NEW t \in Threads, Clear(t) PROVE PlaceInv'
  <2>1. CASE Leave(t)
    BY <1>6, <2>1, LeavePlace DEF Clear, BatchPcs
  <2>2. CASE Goto(t, IF job[t] = "watch" THEN "deliver" ELSE "await") /\ UNCHANGED job
    BY <1>6, <2>2 DEF Clear, PlaceInv, BatchPcs, TypeOK
  <2> QED
    BY <1>6, <2>1, <2>2 DEF Clear
<1>7. ASSUME NEW t \in Threads, Await(t) PROVE PlaceInv'
  BY <1>7 DEF Await, PlaceInv, BatchPcs, TypeOK
<1>8. ASSUME NEW t \in Threads, AcquirePermit(t) PROVE PlaceInv'
  BY <1>8 DEF AcquirePermit, PlaceInv, BatchPcs, TypeOK
<1>9. ASSUME NEW t \in Threads, Give(t) PROVE PlaceInv'
  BY <1>9 DEF Give, PlaceInv, BatchPcs, TypeOK
<1>10. ASSUME NEW t \in Threads, Assign(t) PROVE PlaceInv'
  BY <1>10, LeavePlace DEF Assign, BatchPcs
<1>11. ASSUME NEW t \in Threads, Throw(t) PROVE PlaceInv'
  BY <1>11 DEF Throw, PlaceInv, BatchPcs, TypeOK
<1>12. ASSUME NEW t \in Threads, VisitNext(t) PROVE PlaceInv'
  BY <1>12 DEF VisitNext, PlaceInv, BatchPcs, TypeOK
<1>13. ASSUME NEW t \in Threads, EndFlush(t) PROVE PlaceInv'
  <2>1. CASE job[t] = "flush"
    <3>1. /\ pc'[t] = "idle" /\ job'[t] = "none" /\ clientStatus' = clientStatus
          /\ \A u \in Threads \ {t} : pc'[u] = pc[u] /\ job'[u] = job[u]
      BY <1>13, <2>1, Domains DEF EndFlush
    <3>2. t \in AppThreads /\ pc[t] = "next"
      BY <1>13, <2>1 DEF EndFlush, PlaceInv
    <3> QED
      BY <2>1, <3>1, <3>2 DEF PlaceInv
  <2>2. CASE job[t] = "close"
    <3>1. /\ pc'[t] = "drain" /\ UNCHANGED <<job, clientStatus>>
          /\ \A u \in Threads \ {t} : pc'[u] = pc[u]
      BY <1>13, <2>2, Domains DEF EndFlush
    <3>2. t = Owner /\ pc[t] = "next"
      BY <1>13, <2>2 DEF EndFlush, PlaceInv
    <3> QED
      BY <2>2, <3>1, <3>2 DEF PlaceInv
  <2> QED
    BY <1>13, <2>1, <2>2 DEF EndFlush
<1>14. CASE Construct
  BY <1>14 DEF Construct, PlaceInv, BatchPcs, TypeOK
<1>15. CASE StartClose
  <2>1. \A u \in AppThreads : job[u] = "none" /\ pc[u] = "idle"
    BY <1>15 DEF StartClose, PlaceInv, BatchPcs, TypeOK, Jobs
  <2> QED
    BY <1>15, <2>1 DEF StartClose, TellWatcher, PlaceInv, TypeOK, BatchPcs
<1>16. CASE Drain
  BY <1>16 DEF Drain, PlaceInv, BatchPcs, TypeOK
<1>17. CASE Join
  BY <1>17 DEF Join, PlaceInv, BatchPcs, TypeOK
<1>18. CASE TestStatus
  BY <1>18 DEF TestStatus, PlaceInv, BatchPcs, TypeOK
<1>19. CASE Sweep
  BY <1>19 DEF Sweep, PlaceInv, BatchPcs, TypeOK
<1>20. CASE TryLock
  BY <1>20 DEF TryLock, PlaceInv, BatchPcs, TypeOK
<1>21. CASE TryPermit
  <2>1. CASE Leave(Watcher)
    BY <1>21, <2>1, LeavePlace DEF TryPermit
  <2>2. CASE Goto(Watcher, "copy") /\ UNCHANGED job
    BY <1>21, <2>2 DEF TryPermit, PlaceInv, BatchPcs, TypeOK
  <2> QED
    BY <1>21, <2>1, <2>2 DEF TryPermit
<1>22. ASSUME NEW t \in Threads, Scan(t) \/ ThrowUncaught(t)
      PROVE  PlaceInv'
  BY <1>22 DEF Scan, ThrowUncaught, PlaceInv, BatchPcs, TypeOK
<1>23. ASSUME NEW w \in WP!Workers, Work(w) \/ SpuriousWakeup(w)
      PROVE  PlaceInv'
  BY <1>23 DEF Work, SpuriousWakeup, PlaceInv, BatchPcs, TypeOK
<1>24. CASE DestroyPool \/ WriteThrows \/ Crash \/ UNCHANGED vars
  BY <1>24 DEF DestroyPool, WriteThrows, Crash, vars, PlaceInv, BatchPcs, TypeOK
<1>25. ASSUME NEW s \in Shards, Age(s)
      PROVE  PlaceInv'
  BY <1>25 DEF Age, PlaceInv, BatchPcs, TypeOK
<1> QED
  BY <1>1, <1>2, <1>3, <1>4, <1>5, <1>6, <1>7, <1>8, <1>9, <1>10, <1>11, <1>12, <1>13, <1>14,
     <1>15, <1>16, <1>17, <1>18, <1>19, <1>20, <1>21, <1>22, <1>23, <1>24, <1>25, StepCases

(* Nobody goes from a shard to the beginning of put.                       *)
LEMMA AfterPlaces ==
  ASSUME TypeOK, PlaceInv, NEW t \in Threads, pc[t] \in BatchPcs \union {"check", "permit"}
  PROVE  After(t) \in {"idle", "next", "sweep"}
BY ConstantFacts, Domains DEF PlaceInv, After, Jobs, BatchPcs

-----------------------------------------------------------------------------
(* The mutexes of the shards.                                              *)

(* The mutexes.  Nothing changes if the same threads hold the same ones.   *)
LEMMA MutexFrame ==
  ASSUME MutexInv, UNCHANGED shardLocked,
         \A u \in Threads : (HasMutex(u)' <=> HasMutex(u)) /\ (HasMutex(u) => cur'[u] = cur[u])
  PROVE  MutexInv'
BY DEF MutexInv

(* ... or if one thread that has none before and after the step moves.     *)
LEMMA MutexQuiet ==
  ASSUME MutexInv, UNCHANGED shardLocked, NEW t \in Threads,
         job[t] \notin {"put", "watch"} \/ pc[t] \notin BatchPcs \union {"check", "permit"},
         job'[t] \notin {"put", "watch"} \/ pc'[t] \notin BatchPcs \union {"check", "permit"},
         \A u \in Threads \ {t} : pc'[u] = pc[u] /\ job'[u] = job[u] /\ cur'[u] = cur[u]
  PROVE  MutexInv'
<1>1. ~HasMutex(t) /\ ~HasMutex(t)'
  BY DEF HasMutex
<1>2. \A u \in Threads \ {t} : HasMutex(u)' <=> HasMutex(u)
  BY DEF HasMutex
<1> QED
  BY <1>1, <1>2, MutexFrame

LEMMA LeaveMutex ==
  ASSUME TypeOK, PlaceInv, MutexInv, NEW t \in Threads, Leave(t),
         pc[t] \in BatchPcs \union {"check", "permit"}
  PROVE  MutexInv'
<1> USE ConstantFacts, LeaveFacts
<1>1. CASE job[t] \in {"put", "watch"}
  <2>1. HasMutex(t) /\ ~HasMutex(t)' /\ cur[t] \in shardLocked
    <3>1. HasMutex(t)
      BY <1>1 DEF HasMutex
    <3>2. cur[t] \in Shards
      BY Domains
    <3>3. pc'[t] \in {"idle", "sweep"}
      BY <1>1 DEF After
    <3>4. ~HasMutex(t)'
      BY <3>3 DEF HasMutex, BatchPcs
    <3> QED
      BY <3>1, <3>2, <3>4 DEF MutexInv
  <2>2. \A u \in Threads \ {t} : (HasMutex(u)' <=> HasMutex(u)) /\ cur'[u] = cur[u]
    BY DEF HasMutex
  <2>3. shardLocked' = shardLocked \ {cur[t]}
    BY <1>1
  <2> QED
    BY <2>1, <2>2, <2>3 DEF MutexInv
<1>2. CASE job[t] \notin {"put", "watch"}
  <2>1. \A u \in Threads : (HasMutex(u)' <=> HasMutex(u)) /\ (HasMutex(u) => cur'[u] = cur[u])
    BY <1>2 DEF HasMutex
  <2> QED
    BY <1>2, <2>1, MutexFrame
<1> QED
  BY <1>1, <1>2

(* Mutexes.                                                                *)
LEMMA MutexStep ==
  ASSUME TypeOK, PlaceInv, PutInv, MutexInv, [Next]_vars
  PROVE  MutexInv'
<1> USE ConstantFacts
<1>1. ASSUME NEW t \in AppThreads, NEW r \in Records, StartPut(t, r) PROVE MutexInv'
  <2>1. \A u \in Threads : (HasMutex(u)' <=> HasMutex(u)) /\ (HasMutex(u) => cur'[u] = cur[u])
    BY <1>1 DEF StartPut, HasMutex, BatchPcs, PlaceInv, TypeOK
  <2> QED
    BY <1>1, <2>1, MutexFrame DEF StartPut
<1>2. ASSUME NEW t \in AppThreads, StartFlush(t) PROVE MutexInv'
  <2>1. \A u \in Threads : (HasMutex(u)' <=> HasMutex(u)) /\ (HasMutex(u) => cur'[u] = cur[u])
    BY <1>2 DEF StartFlush, HasMutex, BatchPcs, PlaceInv, TypeOK
  <2> QED
    BY <1>2, <2>1, MutexFrame DEF StartFlush
<1>3. ASSUME NEW t \in Threads, Apply(t) PROVE MutexInv'
  <2>1. HasMutex(t)' /\ ~HasMutex(t) /\ cur[t] \notin shardLocked
         /\ shardLocked' = shardLocked \union {cur[t]} /\ UNCHANGED cur
         /\ \A u \in Threads \ {t} : HasMutex(u)' <=> HasMutex(u)
    BY <1>3 DEF Apply, Free, HasMutex, BatchPcs, PutInv, PutHand, TypeOK
  <2> QED
    BY <2>1 DEF MutexInv, TypeOK
<1>4. ASSUME NEW t \in Threads, Check(t) PROVE MutexInv'
  <2>1. CASE Leave(t)
    BY <1>4, <2>1, LeaveMutex DEF Check, BatchPcs
  <2>2. CASE Goto(t, "copy") /\ UNCHANGED <<job, cur, shardLocked>>
    <3>1. \A u \in Threads : (HasMutex(u)' <=> HasMutex(u)) /\ (HasMutex(u) => cur'[u] = cur[u])
      BY <1>4, <2>2 DEF Check, HasMutex, BatchPcs, TypeOK
    <3> QED
      BY <2>2, <3>1, MutexFrame
  <2> QED
    BY <1>4, <2>1, <2>2 DEF Check
<1>5. ASSUME NEW t \in Threads, Copy(t) PROVE MutexInv'
  <2>1. \A u \in Threads : (HasMutex(u)' <=> HasMutex(u)) /\ (HasMutex(u) => cur'[u] = cur[u])
    BY <1>5 DEF Copy, HasMutex, BatchPcs, PlaceInv, TypeOK
  <2> QED
    BY <1>5, <2>1, MutexFrame DEF Copy
<1>6. ASSUME NEW t \in Threads, Clear(t) PROVE MutexInv'
  <2>1. CASE Leave(t)
    BY <1>6, <2>1, LeaveMutex DEF Clear, BatchPcs
  <2>2. CASE Goto(t, IF job[t] = "watch" THEN "deliver" ELSE "await") /\ UNCHANGED <<job, cur,
      shardLocked>>
    <3>1. \A u \in Threads : (HasMutex(u)' <=> HasMutex(u)) /\ (HasMutex(u) => cur'[u] = cur[u])
      BY <1>6, <2>2 DEF Clear, HasMutex, BatchPcs, TypeOK
    <3> QED
      BY <2>2, <3>1, MutexFrame
  <2> QED
    BY <1>6, <2>1, <2>2 DEF Clear
<1>7. ASSUME NEW t \in Threads, Await(t) PROVE MutexInv'
  <2>1. \A u \in Threads : (HasMutex(u)' <=> HasMutex(u)) /\ (HasMutex(u) => cur'[u] = cur[u])
    BY <1>7 DEF Await, HasMutex, BatchPcs, PlaceInv, TypeOK
  <2> QED
    BY <1>7, <2>1, MutexFrame DEF Await
<1>8. ASSUME NEW t \in Threads, AcquirePermit(t) PROVE MutexInv'
  <2>1. \A u \in Threads : (HasMutex(u)' <=> HasMutex(u)) /\ (HasMutex(u) => cur'[u] = cur[u])
    BY <1>8 DEF AcquirePermit, HasMutex, BatchPcs, PlaceInv, TypeOK
  <2> QED
    BY <1>8, <2>1, MutexFrame DEF AcquirePermit
<1>9. ASSUME NEW t \in Threads, Give(t) PROVE MutexInv'
  <2>1. \A u \in Threads : (HasMutex(u)' <=> HasMutex(u)) /\ (HasMutex(u) => cur'[u] = cur[u])
    BY <1>9 DEF Give, HasMutex, BatchPcs, PlaceInv, TypeOK
  <2> QED
    BY <1>9, <2>1, MutexFrame DEF Give
<1>10. ASSUME NEW t \in Threads, Assign(t) PROVE MutexInv'
  BY <1>10, LeaveMutex DEF Assign, BatchPcs
<1>11. ASSUME NEW t \in Threads, Throw(t) PROVE MutexInv'
  <2>1. pc'[t] = "idle" /\ job'[t] = "none" /\ \A u \in Threads \ {t} :
           pc'[u] = pc[u] /\ job'[u] = job[u] /\ cur'[u] = cur[u]
    BY <1>11 DEF Throw, TypeOK
  <2>2. shardLocked' = IF job[t] = "put" THEN shardLocked \ {cur[t]} ELSE shardLocked
    BY <1>11 DEF Throw, Unlock
  <2>3. HasMutex(t) <=> job[t] = "put"
    BY <1>11 DEF Throw, HasMutex, BatchPcs
  <2>4. ~HasMutex(t)' /\ \A u \in Threads \ {t} : HasMutex(u)' <=> HasMutex(u)
    BY <2>1 DEF HasMutex
  <2> QED
    BY <2>1, <2>2, <2>3, <2>4 DEF MutexInv
<1>12. ASSUME NEW t \in Threads, VisitNext(t) PROVE MutexInv'
  <2>1. \A u \in Threads : (HasMutex(u)' <=> HasMutex(u)) /\ (HasMutex(u) => cur'[u] = cur[u])
    BY <1>12 DEF VisitNext, HasMutex, BatchPcs, PlaceInv, TypeOK
  <2> QED
    BY <1>12, <2>1, MutexFrame DEF VisitNext
<1>13. ASSUME NEW t \in Threads, EndFlush(t) PROVE MutexInv'
  <2>1. /\ pc[t] = "next" /\ pc'[t] \in {"idle", "drain"} /\ UNCHANGED <<shardLocked, cur>>
        /\ \A u \in Threads \ {t} : pc'[u] = pc[u] /\ job'[u] = job[u]
    BY <1>13, Domains DEF EndFlush
  <2>2. /\ pc[t] \notin BatchPcs \union {"check", "permit"}
        /\ pc'[t] \notin BatchPcs \union {"check", "permit"}
    BY <2>1 DEF BatchPcs
  <2> QED
    BY <2>1, <2>2, MutexQuiet
<1>14. CASE Construct
  <2>1. \A u \in Threads : (HasMutex(u)' <=> HasMutex(u)) /\ (HasMutex(u) => cur'[u] = cur[u])
    BY <1>14 DEF Construct, HasMutex, BatchPcs, PlaceInv, TypeOK
  <2> QED
    BY <1>14, <2>1, MutexFrame DEF Construct
<1>15. CASE StartClose
  <2>1. \A u \in Threads : (HasMutex(u)' <=> HasMutex(u)) /\ (HasMutex(u) => cur'[u] = cur[u])
    BY <1>15 DEF StartClose, HasMutex, BatchPcs, PlaceInv, TypeOK
  <2> QED
    BY <1>15, <2>1, MutexFrame DEF StartClose
<1>16. CASE Drain
  <2>1. \A u \in Threads : (HasMutex(u)' <=> HasMutex(u)) /\ (HasMutex(u) => cur'[u] = cur[u])
    BY <1>16 DEF Drain, HasMutex, BatchPcs, PlaceInv, TypeOK
  <2> QED
    BY <1>16, <2>1, MutexFrame DEF Drain
<1>17. CASE Join
  <2>1. \A u \in Threads : (HasMutex(u)' <=> HasMutex(u)) /\ (HasMutex(u) => cur'[u] = cur[u])
    BY <1>17 DEF Join, HasMutex, BatchPcs, PlaceInv, TypeOK
  <2> QED
    BY <1>17, <2>1, MutexFrame DEF Join
<1>18. CASE TestStatus
  <2>1. /\ pc[Watcher] = "test" /\ pc'[Watcher] \in {"sweep", "ended"}
        /\ UNCHANGED <<shardLocked, job, cur>>
        /\ \A u \in Threads \ {Watcher} : pc'[u] = pc[u]
    BY <1>18, Domains DEF TestStatus
  <2>2. /\ pc[Watcher] \notin BatchPcs \union {"check", "permit"}
        /\ pc'[Watcher] \notin BatchPcs \union {"check", "permit"}
    BY <2>1 DEF BatchPcs
  <2> QED
    BY <2>1, <2>2, MutexQuiet
<1>19. CASE Sweep
  <2>1. /\ pc[Watcher] = "sweep" /\ pc'[Watcher] \in {"sweep", "try", "test"}
        /\ UNCHANGED <<shardLocked, job>>
        /\ \A u \in Threads \ {Watcher} : pc'[u] = pc[u] /\ cur'[u] = cur[u]
    BY <1>19, Domains DEF Sweep
  <2>2. /\ pc[Watcher] \notin BatchPcs \union {"check", "permit"}
        /\ pc'[Watcher] \notin BatchPcs \union {"check", "permit"}
    BY <2>1 DEF BatchPcs
  <2> QED
    BY <2>1, <2>2, MutexQuiet
<1>20. CASE TryLock
  <2>1. CASE Free(cur[Watcher]) /\ MayFlush(cur[Watcher])
    <3>1. HasMutex(Watcher)' /\ ~HasMutex(Watcher) /\ cur[Watcher] \notin shardLocked
           /\ shardLocked' = shardLocked \union {cur[Watcher]} /\ UNCHANGED cur
           /\ \A u \in Threads \ {Watcher} : HasMutex(u)' <=> HasMutex(u)
      BY <1>20, <2>1 DEF TryLock, Free, HasMutex, BatchPcs, PlaceInv, TypeOK
    <3> QED
      BY <3>1 DEF MutexInv, TypeOK
  <2>2. CASE ~(Free(cur[Watcher]) /\ MayFlush(cur[Watcher]))
    <3>1. \A u \in Threads : (HasMutex(u)' <=> HasMutex(u)) /\ (HasMutex(u) => cur'[u] = cur[u])
      BY <1>20, <2>2 DEF TryLock, HasMutex, BatchPcs, TypeOK
    <3> QED
      BY <1>20, <2>2, <3>1, MutexFrame DEF TryLock
  <2> QED
    BY <2>1, <2>2
<1>21. CASE TryPermit
  <2>1. CASE Leave(Watcher)
    BY <1>21, <2>1, LeaveMutex DEF TryPermit, BatchPcs
  <2>2. CASE Goto(Watcher, "copy") /\ UNCHANGED <<job, cur, shardLocked>>
    <3>1. \A u \in Threads : (HasMutex(u)' <=> HasMutex(u)) /\ (HasMutex(u) => cur'[u] = cur[u])
      BY <1>21, <2>2 DEF TryPermit, HasMutex, BatchPcs, TypeOK
    <3> QED
      BY <2>2, <3>1, MutexFrame
  <2> QED
    BY <1>21, <2>1, <2>2 DEF TryPermit
<1>22. ASSUME NEW t \in Threads, Scan(t) \/ ThrowUncaught(t)
      PROVE  MutexInv'
  BY <1>22 DEF Scan, ThrowUncaught, MutexInv, HasMutex
<1>23. ASSUME NEW w \in WP!Workers, Work(w) \/ SpuriousWakeup(w)
      PROVE  MutexInv'
  BY <1>23 DEF Work, SpuriousWakeup, MutexInv, HasMutex
<1>24. CASE DestroyPool \/ WriteThrows \/ Crash \/ UNCHANGED vars
  BY <1>24 DEF DestroyPool, WriteThrows, Crash, vars, MutexInv, HasMutex
<1>25. ASSUME NEW s \in Shards, Age(s)
      PROVE  MutexInv'
  BY <1>25 DEF Age, MutexInv, HasMutex
<1> QED
  BY <1>1, <1>2, <1>3, <1>4, <1>5, <1>6, <1>7, <1>8, <1>9, <1>10, <1>11, <1>12, <1>13, <1>14,
     <1>15, <1>16, <1>17, <1>18, <1>19, <1>20, <1>21, <1>22, <1>23, <1>24, <1>25, StepCases

-----------------------------------------------------------------------------
(* Permits.                                                                *)

(* A step that gives nobody a permit and takes none away.                  *)
LEMMA PermitFrame ==
  ASSUME Pool!IndInv, PermitInv, UNCHANGED <<dpc, future>>,
         terminated' \in {terminated, TRUE}, cpc' = cpc \/ (cpc # "open" /\ cpc' # "open"),
         \A a \in Actions : fate[a] = "accepted" => fate'[a] = "accepted",
         \A u \in Threads : PermitTaken(u)' <=> PermitTaken(u),
         \A u \in Threads : pc'[u] = "assign" => pc[u] = "assign",
         pc[Watcher] = "ended" => pc'[Watcher] = "ended",
         pc'[Owner] = "destroyed" <=> pc[Owner] = "destroyed"
  PROVE  PermitInv'
<1>1. terminated \in BOOLEAN /\ (~terminated' => ~terminated)
  BY DEF Pool!IndInv, Pool!TypeOK
<1>2. (\A u \in Threads : dpc[u] # "idle" => PermitTaken(u))'
  BY DEF PermitInv
<1>3. (\A u \in Threads : PermitTaken(u) /\ ~terminated => dpc[u] # "idle")'
  BY <1>1 DEF PermitInv
<1>4. (\A u \in Threads : pc[u] = "assign" =>
         future[u] \in Actions /\ fate[future[u]] = "accepted")'
  BY DEF PermitInv
<1> QED
  BY <1>2, <1>3, <1>4 DEF PermitInv

(* Permits.                                                                *)
LEMMA PermitStep ==
  ASSUME Pool!IndInv, TypeOK, PlaceInv, PermitInv, [Next]_vars
  PROVE  PermitInv'
<1> USE ConstantFacts, Domains
<1>d. dpc \in [Threads -> Pool!DelivererPcs] /\ fate \in [Actions -> {"fresh", "carried",
    "accepted", "dropped"}]
  BY DEF Pool!IndInv, Pool!TypeOK
<1>1. ASSUME NEW t \in AppThreads, NEW r \in Records, StartPut(t, r) PROVE PermitInv'
  <2>1. /\ \A u \in Threads : PermitTaken(u)' <=> PermitTaken(u)
        /\ \A u \in Threads : pc'[u] = "assign" => pc[u] = "assign"
        /\ pc[Watcher] = "ended" => pc'[Watcher] = "ended"
        /\ pc'[Owner] = "destroyed" <=> pc[Owner] = "destroyed"
    BY <1>1 DEF StartPut, PermitTaken, PlaceInv
  <2> QED
    BY <1>1, <2>1, PermitFrame DEF StartPut
<1>2. ASSUME NEW t \in AppThreads, StartFlush(t) PROVE PermitInv'
  <2>1. /\ \A u \in Threads : PermitTaken(u)' <=> PermitTaken(u)
        /\ \A u \in Threads : pc'[u] = "assign" => pc[u] = "assign"
        /\ pc[Watcher] = "ended" => pc'[Watcher] = "ended"
        /\ pc'[Owner] = "destroyed" <=> pc[Owner] = "destroyed"
    BY <1>2 DEF StartFlush, PermitTaken, PlaceInv
  <2> QED
    BY <1>2, <2>1, PermitFrame DEF StartFlush
<1>3. ASSUME NEW t \in Threads, Apply(t) PROVE PermitInv'
  <2>1. /\ \A u \in Threads : PermitTaken(u)' <=> PermitTaken(u)
        /\ \A u \in Threads : pc'[u] = "assign" => pc[u] = "assign"
        /\ pc[Watcher] = "ended" => pc'[Watcher] = "ended"
        /\ pc'[Owner] = "destroyed" <=> pc[Owner] = "destroyed"
    BY <1>3 DEF Apply, PermitTaken, PlaceInv
  <2> QED
    BY <1>3, <2>1, PermitFrame DEF Apply
<1>4. ASSUME NEW t \in Threads, Check(t) PROVE PermitInv'
  <2>1. UNCHANGED <<dpc, future, terminated, cpc, fate>> /\ pc[t] \in {"check", "clear"}
    BY <1>4 DEF Check
  <2>2. CASE Leave(t)
    <3>1. After(t) \in {"idle", "next", "sweep"} /\ t # Watcher
      BY <1>4, <2>1, <2>2 DEF Check, Leave, PlaceInv, After, TypeOK, Jobs, BatchPcs
    <3>2. /\ \A u \in Threads : PermitTaken(u)' <=> PermitTaken(u)
          /\ \A u \in Threads : pc'[u] = "assign" => pc[u] = "assign"
          /\ pc[Watcher] = "ended" => pc'[Watcher] = "ended"
          /\ pc'[Owner] = "destroyed" <=> pc[Owner] = "destroyed"
      BY <2>1, <2>2, <3>1, LeaveFacts DEF PermitTaken
    <3> QED
      BY <2>1, <3>2, PermitFrame
  <2>3. CASE Goto(t, "copy")
    <3>1. /\ \A u \in Threads : PermitTaken(u)' <=> PermitTaken(u)
          /\ \A u \in Threads : pc'[u] = "assign" => pc[u] = "assign"
          /\ pc[Watcher] = "ended" => pc'[Watcher] = "ended"
          /\ pc'[Owner] = "destroyed" <=> pc[Owner] = "destroyed"
      BY <2>1, <1>4, <2>3 DEF Check, PermitTaken, PlaceInv
    <3> QED
      BY <2>1, <3>1, PermitFrame
  <2> QED
    BY <1>4, <2>2, <2>3 DEF Check
<1>5. ASSUME NEW t \in Threads, Copy(t) PROVE PermitInv'
  <2>1. /\ \A u \in Threads : PermitTaken(u)' <=> PermitTaken(u)
        /\ \A u \in Threads : pc'[u] = "assign" => pc[u] = "assign"
        /\ pc[Watcher] = "ended" => pc'[Watcher] = "ended"
        /\ pc'[Owner] = "destroyed" <=> pc[Owner] = "destroyed"
    BY <1>5 DEF Copy, PermitTaken, PlaceInv
  <2> QED
    BY <1>5, <2>1, PermitFrame DEF Copy
<1>6. ASSUME NEW t \in Threads, Clear(t) PROVE PermitInv'
  <2>1. UNCHANGED <<dpc, future, terminated, cpc, fate>> /\ pc[t] \in {"check", "clear"}
    BY <1>6 DEF Clear
  <2>2. CASE Leave(t)
    <3>1. After(t) \in {"idle", "next", "sweep"} /\ t # Watcher
      BY <1>6, <2>1, <2>2 DEF Clear, Leave, PlaceInv, After, TypeOK, Jobs, BatchPcs
    <3>2. /\ \A u \in Threads : PermitTaken(u)' <=> PermitTaken(u)
          /\ \A u \in Threads : pc'[u] = "assign" => pc[u] = "assign"
          /\ pc[Watcher] = "ended" => pc'[Watcher] = "ended"
          /\ pc'[Owner] = "destroyed" <=> pc[Owner] = "destroyed"
      BY <2>1, <2>2, <3>1, LeaveFacts DEF PermitTaken
    <3> QED
      BY <2>1, <3>2, PermitFrame
  <2>3. CASE Goto(t, IF job[t] = "watch" THEN "deliver" ELSE "await")
    <3>1. /\ \A u \in Threads : PermitTaken(u)' <=> PermitTaken(u)
          /\ \A u \in Threads : pc'[u] = "assign" => pc[u] = "assign"
          /\ pc[Watcher] = "ended" => pc'[Watcher] = "ended"
          /\ pc'[Owner] = "destroyed" <=> pc[Owner] = "destroyed"
      BY <2>1, <1>6, <2>3 DEF Clear, PermitTaken, PlaceInv
    <3> QED
      BY <2>1, <3>1, PermitFrame
  <2> QED
    BY <1>6, <2>2, <2>3 DEF Clear
<1>7. ASSUME NEW t \in Threads, Await(t) PROVE PermitInv'
  <2>1. /\ \A u \in Threads : PermitTaken(u)' <=> PermitTaken(u)
        /\ \A u \in Threads : pc'[u] = "assign" => pc[u] = "assign"
        /\ pc[Watcher] = "ended" => pc'[Watcher] = "ended"
        /\ pc'[Owner] = "destroyed" <=> pc[Owner] = "destroyed"
    BY <1>7 DEF Await, PermitTaken, PlaceInv
  <2> QED
    BY <1>7, <2>1, PermitFrame DEF Await
<1>8. ASSUME NEW t \in Threads, AcquirePermit(t) PROVE PermitInv'
  <2>1. /\ dpc[t] = "idle" /\ dpc'[t] # "idle"
        /\ \A u \in Threads \ {t} : dpc'[u] = dpc[u]
        /\ UNCHANGED <<cpc, future, terminated>>
        /\ \A b \in Actions : fate[b] = "accepted" => fate'[b] = "accepted"
    BY <1>8, <1>d DEF AcquirePermit, TakePermit, WP!Acquire, WP!delivererVars, WP!workerVars,
       WP!closerVars, WP!execVars
  <2>2. /\ pc'[t] = "deliver" /\ PermitTaken(t)'
        /\ \A u \in Threads \ {t} : pc'[u] = pc[u] /\ (PermitTaken(u)' <=> PermitTaken(u))
        /\ pc[t] # "ended" /\ pc[t] # "destroyed"
    BY <1>8 DEF AcquirePermit, PermitTaken
  <2>3. (\A u \in Threads : PermitTaken(u) /\ ~terminated => dpc[u] # "idle")'
    BY <2>1, <2>2 DEF PermitInv
  <2>4. (\A u \in Threads : dpc[u] # "idle" => PermitTaken(u))'
    BY <2>1, <2>2 DEF PermitInv
  <2>5. (\A u \in Threads : pc[u] = "assign" =>
           future[u] \in Actions /\ fate[future[u]] = "accepted")'
    BY <2>1, <2>2 DEF PermitInv
  <2> QED
    BY <2>1, <2>2, <2>3, <2>4, <2>5 DEF PermitInv
<1>9. ASSUME NEW t \in Threads, Scan(t) PROVE PermitInv'
  <2>1. /\ UNCHANGED <<pc, future, fate, terminated, cpc>> /\ dpc[t] # "idle" /\ dpc'[t] # "idle"
        /\ \A u \in Threads \ {t} : dpc'[u] = dpc[u]
    BY <1>9, <1>d DEF Scan, WP!LockWorker, WP!SkipLocked, WP!SkipBusy, WP!delivererVars,
       WP!workerVars, WP!closerVars, WP!execVars
  <2> QED
    BY <2>1 DEF PermitInv, PermitTaken
<1>10. ASSUME NEW t \in Threads, Give(t) PROVE PermitInv'
  <2>1. /\ dpc'[t] = "idle" /\ \A u \in Threads \ {t} : dpc'[u] = dpc[u]
        /\ carry[t] \in Actions /\ fate'[carry[t]] = "accepted"
        /\ \A b \in Actions : fate[b] = "accepted" => fate'[b] = "accepted"
        /\ cpc' = cpc
    BY <1>10, <1>d DEF Give, WP!GiveAction, WP!delivererVars, WP!workerVars, WP!closerVars,
       WP!execVars, Pool!IndInv, Pool!CarryInv
  <2>2. /\ pc'[t] = "assign" /\ future'[t] = carry[t]
        /\ \A u \in Threads \ {t} : pc'[u] = pc[u] /\ future'[u] = future[u]
        /\ pc[t] = "deliver" /\ terminated' = terminated
    BY <1>10 DEF Give
  <2>3. ~PermitTaken(t)' /\ \A u \in Threads \ {t} : PermitTaken(u)' <=> PermitTaken(u)
    BY <2>2 DEF PermitTaken
  <2>4. (\A u \in Threads : PermitTaken(u) /\ ~terminated => dpc[u] # "idle")'
    BY <2>1, <2>2, <2>3 DEF PermitInv
  <2>5. (\A u \in Threads : dpc[u] # "idle" => PermitTaken(u))'
    BY <2>1, <2>3 DEF PermitInv
  <2>6. (\A u \in Threads : pc[u] = "assign" =>
           future[u] \in Actions /\ fate[future[u]] = "accepted")'
    <3>1. \A u \in Threads : pc[u] = "assign" =>
             future[u] \in Actions /\ fate[future[u]] = "accepted"
      BY DEF PermitInv
    <3>2. \A u \in Threads \ {t} : pc'[u] = pc[u] /\ future'[u] = future[u]
      BY <2>2
    <3>3. future'[t] \in Actions /\ fate'[future'[t]] = "accepted"
      BY <2>1, <2>2
    <3>4. \A b \in Actions : fate[b] = "accepted" => fate'[b] = "accepted"
      BY <2>1
    <3> QED
      BY <3>1, <3>2, <3>3, <3>4
  <2>7. (cpc # "open" => pc[Owner] = "destroyed")' /\
        (pc[Owner] = "destroyed" => pc[Watcher] = "ended")'
    BY <2>1, <2>2 DEF PermitInv
  <2> QED
    BY <2>4, <2>5, <2>6, <2>7 DEF PermitInv
<1>11. ASSUME NEW t \in Threads, Assign(t) PROVE PermitInv'
  <2>1. /\ pc'[t] = After(t) /\ \A u \in Threads \ {t} : pc'[u] = pc[u] /\ future'[u] = future[u]
        /\ UNCHANGED <<dpc, fate, cpc>> /\ terminated' \in {terminated, TRUE} /\ pc[t] = "assign"
    <3>1. pc'[t] = After(t) /\ \A u \in Threads \ {t} : pc'[u] = pc[u]
      BY <1>11, LeaveFacts DEF Assign
    <3>2. /\ \A u \in Threads \ {t} : future'[u] = future[u]
          /\ UNCHANGED <<dpc, fate, cpc>> /\ pc[t] = "assign"
      BY <1>11 DEF Assign
    <3>3. terminated' \in {terminated, TRUE}
      BY <1>11, StepIsAlive DEF Assign, TouchResult, Pool!IndInv, Pool!TypeOK, vars
    <3> QED
      BY <3>1, <3>2, <3>3
  <2>2. After(t) \in {"idle", "next", "sweep"}
    BY <2>1 DEF After, PlaceInv, Jobs, TypeOK
  <2>3. \A u \in Threads : PermitTaken(u)' <=> PermitTaken(u)
    BY <2>1, <2>2 DEF PermitTaken
  <2>4. (\A u \in Threads : pc[u] = "assign" =>
           future[u] \in Actions /\ fate[future[u]] = "accepted")'
    <3>1. pc'[t] # "assign" /\ \A u \in Threads \ {t} : pc'[u] = pc[u] /\ future'[u] = future[u]
      BY <2>1, <2>2
    <3>2. fate' = fate
      BY <2>1
    <3> QED
      BY <3>1, <3>2 DEF PermitInv
  <2>5. (\A u \in Threads : PermitTaken(u) /\ ~terminated => dpc[u] # "idle")'
    <3>1. ~terminated' => ~terminated
      BY <2>1 DEF Pool!IndInv, Pool!TypeOK
    <3> QED
      BY <2>1, <2>3, <3>1 DEF PermitInv
  <2>6. (\A u \in Threads : dpc[u] # "idle" => PermitTaken(u))'
    BY <2>1, <2>3 DEF PermitInv
  <2> QED
    BY <2>1, <2>2, <2>4, <2>5, <2>6 DEF PermitInv
<1>12. ASSUME NEW t \in Threads, Throw(t) PROVE PermitInv'
  <2>1. /\ dpc'[t] = "idle" /\ \A u \in Threads \ {t} : dpc'[u] = dpc[u]
        /\ carry[t] \in Actions /\ fate'[carry[t]] = "dropped"
        /\ \A b \in Actions : fate[b] = "accepted" => fate'[b] = "accepted"
        /\ cpc' = cpc
    BY <1>12, <1>d DEF Throw, WP!ThrowInner, WP!delivererVars, WP!workerVars, WP!closerVars,
       WP!execVars, Pool!IndInv, Pool!CarryInv
  <2>2. /\ pc'[t] = "idle" /\ \A u \in Threads \ {t} : pc'[u] = pc[u]
        /\ pc[t] = "deliver" /\ UNCHANGED <<terminated, future>>
    BY <1>12 DEF Throw
  <2>3. ~PermitTaken(t)' /\ \A u \in Threads \ {t} : PermitTaken(u)' <=> PermitTaken(u)
    BY <2>2 DEF PermitTaken
  <2> QED
    BY <2>1, <2>2, <2>3 DEF PermitInv
<1>13. ASSUME NEW t \in Threads, ThrowUncaught(t) PROVE PermitInv'
  <2>1. /\ dpc'[t] = "idle" /\ \A u \in Threads \ {t} : dpc'[u] = dpc[u]
        /\ carry[t] \in Actions /\ fate'[carry[t]] = "dropped"
        /\ \A b \in Actions : fate[b] = "accepted" => fate'[b] = "accepted"
        /\ cpc' = cpc
    BY <1>13, <1>d DEF ThrowUncaught, WP!ThrowUncaught, WP!ThrowInner, WP!delivererVars,
       WP!workerVars, WP!closerVars, WP!execVars, Pool!IndInv, Pool!CarryInv
  <2>2. UNCHANGED <<pc, future>> /\ terminated' = TRUE
    BY <1>13 DEF ThrowUncaught, WP!ThrowUncaught
  <2> QED
    BY <2>1, <2>2 DEF PermitInv, PermitTaken
<1>14. ASSUME NEW t \in Threads, VisitNext(t) PROVE PermitInv'
  <2>1. /\ \A u \in Threads : PermitTaken(u)' <=> PermitTaken(u)
        /\ \A u \in Threads : pc'[u] = "assign" => pc[u] = "assign"
        /\ pc[Watcher] = "ended" => pc'[Watcher] = "ended"
        /\ pc'[Owner] = "destroyed" <=> pc[Owner] = "destroyed"
    BY <1>14 DEF VisitNext, PermitTaken, PlaceInv
  <2> QED
    BY <1>14, <2>1, PermitFrame DEF VisitNext
<1>15. ASSUME NEW t \in Threads, EndFlush(t) PROVE PermitInv'
  <2>1. /\ \A u \in Threads : PermitTaken(u)' <=> PermitTaken(u)
        /\ \A u \in Threads : pc'[u] = "assign" => pc[u] = "assign"
        /\ pc[Watcher] = "ended" => pc'[Watcher] = "ended"
        /\ pc'[Owner] = "destroyed" <=> pc[Owner] = "destroyed"
    BY <1>15 DEF EndFlush, PermitTaken, PlaceInv
  <2> QED
    BY <1>15, <2>1, PermitFrame DEF EndFlush
<1>16. CASE Construct
  <2>1. /\ \A u \in Threads : PermitTaken(u)' <=> PermitTaken(u)
        /\ \A u \in Threads : pc'[u] = "assign" => pc[u] = "assign"
        /\ pc[Watcher] = "ended" => pc'[Watcher] = "ended"
        /\ pc'[Owner] = "destroyed" <=> pc[Owner] = "destroyed"
    BY <1>16 DEF Construct, PermitTaken, PlaceInv
  <2> QED
    BY <1>16, <2>1, PermitFrame DEF Construct
<1>17. CASE StartClose
  <2>1. /\ \A u \in Threads : PermitTaken(u)' <=> PermitTaken(u)
        /\ \A u \in Threads : pc'[u] = "assign" => pc[u] = "assign"
        /\ pc[Watcher] = "ended" => pc'[Watcher] = "ended"
        /\ pc'[Owner] = "destroyed" <=> pc[Owner] = "destroyed"
    BY <1>17 DEF StartClose, PermitTaken, PlaceInv
  <2> QED
    BY <1>17, <2>1, PermitFrame DEF StartClose
<1>18. CASE Drain
  <2>1. /\ \A u \in Threads : PermitTaken(u)' <=> PermitTaken(u)
        /\ \A u \in Threads : pc'[u] = "assign" => pc[u] = "assign"
        /\ pc[Watcher] = "ended" => pc'[Watcher] = "ended"
        /\ pc'[Owner] = "destroyed" <=> pc[Owner] = "destroyed"
    BY <1>18 DEF Drain, PermitTaken, PlaceInv
  <2> QED
    BY <1>18, <2>1, PermitFrame DEF Drain
<1>19. CASE Join
  <2>1. pc[Owner] = "join" /\ pc[Watcher] = "ended" /\ pc' = [pc EXCEPT ![Owner] = "destroyed"]
    BY <1>19 DEF Join, WatcherEnded
  <2>2. \A u \in Threads : PermitTaken(u)' <=> PermitTaken(u)
    BY <2>1 DEF PermitTaken
  <2>3. UNCHANGED <<dpc, fate, future, terminated>>
    BY <1>19 DEF Join
  <2> QED
    BY <2>1, <2>2, <2>3 DEF PermitInv
<1>20. CASE TestStatus
  <2>1. /\ \A u \in Threads : PermitTaken(u)' <=> PermitTaken(u)
        /\ \A u \in Threads : pc'[u] = "assign" => pc[u] = "assign"
        /\ pc[Watcher] = "ended" => pc'[Watcher] = "ended"
        /\ pc'[Owner] = "destroyed" <=> pc[Owner] = "destroyed"
    BY <1>20 DEF TestStatus, PermitTaken, PlaceInv
  <2> QED
    BY <1>20, <2>1, PermitFrame DEF TestStatus
<1>21. CASE Sweep
  <2>1. /\ \A u \in Threads : PermitTaken(u)' <=> PermitTaken(u)
        /\ \A u \in Threads : pc'[u] = "assign" => pc[u] = "assign"
        /\ pc[Watcher] = "ended" => pc'[Watcher] = "ended"
        /\ pc'[Owner] = "destroyed" <=> pc[Owner] = "destroyed"
    BY <1>21 DEF Sweep, PermitTaken, PlaceInv
  <2> QED
    BY <1>21, <2>1, PermitFrame DEF Sweep
<1>22. CASE TryLock
  <2>1. /\ \A u \in Threads : PermitTaken(u)' <=> PermitTaken(u)
        /\ \A u \in Threads : pc'[u] = "assign" => pc[u] = "assign"
        /\ pc[Watcher] = "ended" => pc'[Watcher] = "ended"
        /\ pc'[Owner] = "destroyed" <=> pc[Owner] = "destroyed"
    BY <1>22 DEF TryLock, PermitTaken, PlaceInv
  <2> QED
    BY <1>22, <2>1, PermitFrame DEF TryLock
<1>23. CASE TryPermit
  <2>1. CASE TakePermit(Watcher) /\ Goto(Watcher, "copy") /\ UNCHANGED <<job, cur, shardLocked,
      terminated>>
    <3>1. /\ dpc[Watcher] = "idle" /\ dpc'[Watcher] # "idle"
          /\ \A u \in Threads \ {Watcher} : dpc'[u] = dpc[u]
          /\ UNCHANGED <<cpc, future, terminated>>
          /\ \A b \in Actions : fate[b] = "accepted" => fate'[b] = "accepted"
      BY <1>23, <2>1, <1>d DEF TryPermit, TakePermit, WP!Acquire, WP!delivererVars,
         WP!workerVars, WP!closerVars, WP!execVars
    <3>2. /\ pc'[Watcher] = "copy" /\ PermitTaken(Watcher)'
          /\ \A u \in Threads \ {Watcher} : pc'[u] = pc[u] /\ (PermitTaken(u)' <=> PermitTaken(u))
          /\ pc[Watcher] # "ended" /\ pc[Watcher] # "destroyed"
      BY <1>23, <2>1 DEF TryPermit, PermitTaken
    <3>3. (\A u \in Threads : PermitTaken(u) /\ ~terminated => dpc[u] # "idle")'
      BY <3>1, <3>2 DEF PermitInv
    <3>4. (\A u \in Threads : dpc[u] # "idle" => PermitTaken(u))'
      BY <3>1, <3>2 DEF PermitInv
    <3>5. (\A u \in Threads : pc[u] = "assign" =>
             future[u] \in Actions /\ fate[future[u]] = "accepted")'
      BY <3>1, <3>2 DEF PermitInv
    <3> QED
      BY <3>1, <3>2, <3>3, <3>4, <3>5 DEF PermitInv
  <2>2. CASE Leave(Watcher) /\ UNCHANGED poolVars
    <3>1. /\ \A u \in Threads : PermitTaken(u)' <=> PermitTaken(u)
          /\ \A u \in Threads : pc'[u] = "assign" => pc[u] = "assign"
          /\ pc[Watcher] = "ended" => pc'[Watcher] = "ended"
          /\ pc'[Owner] = "destroyed" <=> pc[Owner] = "destroyed"
      BY <1>23, <2>2, LeaveFacts DEF TryPermit, PermitTaken, PlaceInv, After
    <3>2. UNCHANGED <<dpc, future, terminated, cpc, fate>>
      BY <1>23, <2>2 DEF TryPermit
    <3> QED
      BY <3>1, <3>2, PermitFrame
  <2> QED
    BY <1>23, <2>1, <2>2 DEF TryPermit
<1>24. ASSUME NEW w \in WP!Workers, Work(w) PROVE PermitInv'
  <2>1. UNCHANGED <<pc, dpc, future, fate>> /\ terminated' \in {terminated, TRUE}
    BY <1>24 DEF Work, WP!Run, WP!TakeMutex, WP!ReleasePermit, WP!Wait, WP!ExecWrite,
       WP!ExecSetValue, WP!BecomeIdle, WP!Exit, WP!delivererVars, WP!workerVars, WP!closerVars,
       WP!execVars
  <2>2. cpc' = cpc \/ (cpc # "open" /\ cpc' # "open")
    BY <1>24 DEF Work, WP!Run, WP!TakeMutex, WP!ReleasePermit, WP!Wait, WP!ExecWrite,
       WP!ExecSetValue, WP!BecomeIdle, WP!Exit, WP!delivererVars, WP!workerVars, WP!closerVars,
       WP!execVars
  <2> QED
    BY <2>1, <2>2, PermitFrame DEF PermitTaken
<1>25. CASE DestroyPool
  <2>1. UNCHANGED <<pc, dpc, future, fate>> /\ terminated' \in {terminated, TRUE}
    BY <1>25 DEF DestroyPool, WP!Close, WP!CloseWorker, WP!CloseJoin, WP!delivererVars,
       WP!workerVars, WP!closerVars, WP!execVars
  <2>2. cpc' = cpc \/ (cpc # "open" /\ cpc' # "open")
    BY <1>25 DEF DestroyPool, WP!Close, WP!CloseWorker, WP!CloseJoin, WP!delivererVars,
       WP!workerVars, WP!closerVars, WP!execVars
  <2> QED
    BY <2>1, <2>2, PermitFrame DEF PermitTaken
<1>26. ASSUME NEW w \in WP!Workers, SpuriousWakeup(w) PROVE PermitInv'
  <2>1. UNCHANGED <<pc, dpc, future, fate>> /\ terminated' \in {terminated, TRUE}
    BY <1>26 DEF SpuriousWakeup, WP!SpuriousWakeup, WP!delivererVars, WP!workerVars,
       WP!closerVars, WP!execVars
  <2>2. cpc' = cpc \/ (cpc # "open" /\ cpc' # "open")
    BY <1>26 DEF SpuriousWakeup, WP!SpuriousWakeup, WP!delivererVars, WP!workerVars,
       WP!closerVars, WP!execVars
  <2> QED
    BY <2>1, <2>2, PermitFrame DEF PermitTaken
<1>27. ASSUME NEW s \in Shards, Age(s) PROVE PermitInv'
  <2>1. UNCHANGED <<pc, dpc, future, fate>> /\ terminated' \in {terminated, TRUE}
    BY <1>27 DEF Age
  <2>2. cpc' = cpc \/ (cpc # "open" /\ cpc' # "open")
    BY <1>27 DEF Age
  <2> QED
    BY <2>1, <2>2, PermitFrame DEF PermitTaken
<1>28. CASE WriteThrows
  <2>1. UNCHANGED <<pc, dpc, future, fate>> /\ terminated' \in {terminated, TRUE}
    BY <1>28 DEF WriteThrows, WP!WriteThrows, WP!delivererVars, WP!workerVars, WP!closerVars,
       WP!execVars
  <2>2. cpc' = cpc \/ (cpc # "open" /\ cpc' # "open")
    BY <1>28 DEF WriteThrows, WP!WriteThrows, WP!delivererVars, WP!workerVars, WP!closerVars,
       WP!execVars
  <2> QED
    BY <2>1, <2>2, PermitFrame DEF PermitTaken
<1>29. CASE Crash
  <2>1. UNCHANGED <<pc, dpc, future, fate>> /\ terminated' \in {terminated, TRUE}
    BY <1>29 DEF Crash
  <2>2. cpc' = cpc \/ (cpc # "open" /\ cpc' # "open")
    BY <1>29 DEF Crash
  <2> QED
    BY <2>1, <2>2, PermitFrame DEF PermitTaken
<1>30. CASE UNCHANGED vars
  <2>1. UNCHANGED <<pc, dpc, future, fate>> /\ terminated' \in {terminated, TRUE}
    BY <1>30 DEF vars
  <2>2. cpc' = cpc \/ (cpc # "open" /\ cpc' # "open")
    BY <1>30 DEF vars
  <2> QED
    BY <2>1, <2>2, PermitFrame DEF PermitTaken
<1> QED
  BY <1>1, <1>2, <1>3, <1>4, <1>5, <1>6, <1>7, <1>8, <1>9, <1>10, <1>11, <1>12, <1>13, <1>14,
     <1>15, <1>16, <1>17, <1>18, <1>19, <1>20, <1>21, <1>22, <1>23, <1>24, <1>25, <1>26, <1>27,
     <1>28, <1>29, <1>30, StepCases

-----------------------------------------------------------------------------
(* What is put.                                                            *)

(* The elements of a sequence with one more.                               *)
LEMMA AppendSet ==
  ASSUME NEW S, NEW seq \in Seq(S), NEW e \in S
  PROVE  ToSet(Append(seq, e)) = ToSet(seq) \union {e}
<1>1. /\ DOMAIN seq = 1 .. Len(seq) /\ DOMAIN Append(seq, e) = 1 .. Len(seq) + 1
      /\ Len(seq) \in Nat
      /\ \A i \in 1 .. Len(seq) : Append(seq, e)[i] = seq[i]
      /\ Append(seq, e)[Len(seq) + 1] = e
  BY SMT
<1> QED
  BY <1>1 DEF ToSet

(* A step with which nobody enters or leaves the beginning of put.         *)
LEMMA PutFrame ==
  ASSUME PutInv, UNCHANGED <<putLog, todo>>,
         \A u \in Threads : pc'[u] = "lock" =>
           pc[u] = "lock" /\ job'[u] = job[u] /\ taken'[u] = taken[u] /\ cur'[u] = cur[u]
  PROVE  PutInv'
BY DEF PutInv, PutHand, LogInv

(* What is put.                                                            *)
LEMMA PutStep ==
  ASSUME TypeOK, PlaceInv, PutInv, [Next]_vars
  PROVE  PutInv'
<1> USE ConstantFacts, Domains
<1>1. ASSUME NEW t \in AppThreads, NEW r \in Records, StartPut(t, r) PROVE PutInv'
  <2>1. /\ r \in todo /\ todo' = todo \ {r} /\ taken'[t] = <<r>> /\ cur'[t] = ShardOf[r]
        /\ pc'[t] = "lock" /\ job'[t] = "put" /\ UNCHANGED putLog
        /\ \A u \in Threads \ {t} :
             pc'[u] = pc[u] /\ job'[u] = job[u] /\ taken'[u] = taken[u] /\ cur'[u] = cur[u]
    BY <1>1 DEF StartPut
  <2>2. \A u \in Threads : pc[u] = "lock" => taken[u][1] # r
    BY <2>1 DEF PutInv, PutHand
  <2>3. \A s \in Shards : r \notin ToSet(putLog[s])
    BY <2>1 DEF PutInv, LogInv
  <2>4. PutHand(t)' /\ taken'[t][1] = r
    BY <2>1, <2>3 DEF PutHand
  <2>5. ASSUME NEW u \in Threads \ {t}, PutHand(u) PROVE PutHand(u)'
    BY <2>1, <2>5 DEF PutHand
  <2>6. LogInv'
    BY <2>1 DEF PutInv, LogInv
  <2>7. (\A u \in Threads : pc[u] = "lock" => PutHand(u))'
    BY <2>1, <2>4, <2>5 DEF PutInv
  <2>8. (\A u, v \in Threads :
           u # v /\ pc[u] = "lock" /\ pc[v] = "lock" => taken[u][1] # taken[v][1])'
    <3>1. \A u, v \in Threads :
            u # v /\ pc[u] = "lock" /\ pc[v] = "lock" => taken[u][1] # taken[v][1]
      BY DEF PutInv
    <3>2. SUFFICES ASSUME NEW u \in Threads, NEW v \in Threads, u # v,
                          pc'[u] = "lock", pc'[v] = "lock"
                   PROVE  taken'[u][1] # taken'[v][1]
      OBVIOUS
    <3> QED
      <4>1. CASE u = t
        <5>1. v # t /\ pc[v] = "lock" /\ taken'[v] = taken[v]
          BY <2>1, <3>2, <4>1
        <5> QED
          BY <2>2, <2>4, <4>1, <5>1
      <4>2. CASE v = t
        <5>1. u # t /\ pc[u] = "lock" /\ taken'[u] = taken[u]
          BY <2>1, <3>2, <4>2
        <5> QED
          BY <2>2, <2>4, <4>2, <5>1
      <4>3. CASE u # t /\ v # t
        <5>1. pc[u] = "lock" /\ pc[v] = "lock" /\ taken'[u] = taken[u] /\ taken'[v] = taken[v]
          BY <2>1, <3>2, <4>3
        <5> QED
          BY <3>1, <3>2, <5>1
      <4> QED
        BY <4>1, <4>2, <4>3
  <2> QED
    BY <2>6, <2>7, <2>8 DEF PutInv
<1>2. ASSUME NEW t \in AppThreads, StartFlush(t) PROVE PutInv'
  <2>1. \A u \in Threads : pc'[u] = "lock" =>
           pc[u] = "lock" /\ job'[u] = job[u] /\ taken'[u] = taken[u] /\ cur'[u] = cur[u]
    BY <1>2 DEF StartFlush
  <2> QED
    BY <1>2, <2>1, PutFrame DEF StartFlush
<1>3. ASSUME NEW t \in Threads, Apply(t) PROVE PutInv'
  <2>1. PICK r \in Records \ todo : taken[t] = <<r>> /\ ShardOf[r] = cur[t]
    BY <1>3 DEF Apply, PutInv, PutHand
  <2>2. /\ pc[t] = "lock" /\ pc'[t] # "lock" /\ taken[t][1] = r
        /\ \A u \in Threads \ {t} :
             pc'[u] = pc[u] /\ taken'[u] = taken[u] /\ job'[u] = job[u] /\ cur'[u] = cur[u]
        /\ UNCHANGED todo
    BY <1>3, <2>1 DEF Apply
  <2>3. /\ cur[t] \in Shards /\ r \in Records
        /\ putLog' = [putLog EXCEPT ![cur[t]] = Append(@, r)]
    BY <1>3, <2>1, <2>2 DEF Apply
  <2>4. \A u \in Threads \ {t} : pc[u] = "lock" => taken[u][1] # r
    BY <2>2 DEF PutInv
  <2>5. \A s \in Shards : r \notin ToSet(putLog[s])
    BY <2>2 DEF PutInv, PutHand
  <2>6. \A s \in Shards \ {cur[t]} : putLog'[s] = putLog[s]
    BY <2>3 DEF TypeOK
  <2>7. putLog'[cur[t]] = Append(putLog[cur[t]], r) /\ putLog[cur[t]] \in Seq(Records)
    BY <2>3 DEF TypeOK
  <2>8. \A s \in Shards :
          ToSet(putLog'[s]) = ToSet(putLog[s]) \union (IF s = cur[t] THEN {r} ELSE {})
    BY <2>3, <2>6, <2>7, AppendSet
  <2>9. ASSUME NEW u \in Threads \ {t}, PutHand(u), pc[u] = "lock" PROVE PutHand(u)'
    <3>1. taken'[u] = taken[u] /\ cur'[u] = cur[u] /\ job'[u] = job[u] /\ UNCHANGED todo
      BY <2>2
    <3>2. \A s \in Shards : taken[u][1] \notin ToSet(putLog[s])
      BY <2>9 DEF PutHand
    <3>3. taken[u][1] # r
      BY <2>4, <2>9
    <3>4. \A s \in Shards : taken'[u][1] \notin ToSet(putLog'[s])
      BY <2>8, <3>1, <3>2, <3>3
    <3> QED
      BY <2>9, <3>1, <3>4 DEF PutHand
  <2>10. (\A u \in Threads : pc[u] = "lock" => PutHand(u))'
    BY <2>2, <2>9 DEF PutInv
  <2>11. (\A u, v \in Threads :
            u # v /\ pc[u] = "lock" /\ pc[v] = "lock" => taken[u][1] # taken[v][1])'
    <3>1. \A u, v \in Threads :
            u # v /\ pc[u] = "lock" /\ pc[v] = "lock" => taken[u][1] # taken[v][1]
      BY DEF PutInv
    <3>2. SUFFICES ASSUME NEW u \in Threads, NEW v \in Threads, u # v,
                          pc'[u] = "lock", pc'[v] = "lock"
                   PROVE  taken'[u][1] # taken'[v][1]
      OBVIOUS
    <3>3. u # t /\ v # t
      BY <2>2, <3>2
    <3> QED
      <4>1. pc[u] = "lock" /\ pc[v] = "lock" /\ taken'[u] = taken[u] /\ taken'[v] = taken[v]
        BY <2>2, <3>2, <3>3
      <4> QED
        BY <3>1, <3>2, <4>1
  <2>12. (\A s \in Shards : \A q \in ToSet(putLog[s]) : q \notin todo /\ ShardOf[q] = s)'
    <3>1. \A s \in Shards : \A q \in ToSet(putLog[s]) : q \notin todo /\ ShardOf[q] = s
      BY DEF PutInv, LogInv
    <3> QED
      <4>1. SUFFICES ASSUME NEW s \in Shards, NEW q \in ToSet(putLog'[s])
                     PROVE  q \notin todo' /\ ShardOf[q] = s
        OBVIOUS
      <4>2. q \in ToSet(putLog[s]) \/ (s = cur[t] /\ q = r)
        BY <2>8, <4>1
      <4> QED
        BY <2>1, <2>2, <3>1, <4>2
  <2>13. (\A s \in Shards : \A i, j \in DOMAIN putLog[s] : i # j => putLog[s][i] # putLog[s][j])'
    <3>1. \A i \in DOMAIN putLog[cur[t]] : putLog[cur[t]][i] # r
      BY <2>3, <2>5 DEF ToSet
    <3>2. \A i, j \in DOMAIN putLog[cur[t]] : i # j => putLog[cur[t]][i] # putLog[cur[t]][j]
      BY <2>3 DEF PutInv, LogInv
    <3>3. \A i, j \in DOMAIN putLog'[cur[t]] : i # j => putLog'[cur[t]][i] # putLog'[cur[t]][j]
      BY <2>3, <2>7, <3>1, <3>2
    <3>4. \A s \in Shards \ {cur[t]} : \A i, j \in DOMAIN putLog[s] :
            i # j => putLog[s][i] # putLog[s][j]
      BY DEF PutInv, LogInv
    <3> QED
      <4>1. SUFFICES ASSUME NEW s \in Shards, NEW i \in DOMAIN putLog'[s],
                            NEW j \in DOMAIN putLog'[s], i # j
                     PROVE  putLog'[s][i] # putLog'[s][j]
        OBVIOUS
      <4>2. CASE s = cur[t]
        BY <3>3, <4>1, <4>2
      <4>3. CASE s # cur[t]
        <5>1. s \in Shards \ {cur[t]} /\ putLog'[s] = putLog[s]
          BY <2>6, <4>3
        <5> QED
          BY <3>4, <4>1, <5>1
      <4> QED
        BY <4>2, <4>3
  <2> QED
    BY <2>10, <2>11, <2>12, <2>13 DEF PutInv, LogInv
<1>4. ASSUME NEW t \in Threads, Check(t) PROVE PutInv'
  <2>1. \A u \in Threads : pc'[u] = "lock" =>
           pc[u] = "lock" /\ job'[u] = job[u] /\ taken'[u] = taken[u] /\ cur'[u] = cur[u]
    BY <1>4, LeaveFacts, AfterPlaces DEF Check, BatchPcs
  <2> QED
    BY <1>4, <2>1, PutFrame DEF Check
<1>5. ASSUME NEW t \in Threads, Copy(t) PROVE PutInv'
  <2>1. \A u \in Threads : pc'[u] = "lock" =>
           pc[u] = "lock" /\ job'[u] = job[u] /\ taken'[u] = taken[u] /\ cur'[u] = cur[u]
    BY <1>5 DEF Copy
  <2> QED
    BY <1>5, <2>1, PutFrame DEF Copy
<1>6. ASSUME NEW t \in Threads, Clear(t) PROVE PutInv'
  <2>1. \A u \in Threads : pc'[u] = "lock" =>
           pc[u] = "lock" /\ job'[u] = job[u] /\ taken'[u] = taken[u] /\ cur'[u] = cur[u]
    <3>1. pc'[t] # "lock" /\ UNCHANGED taken
      <4>1. CASE Leave(t)
        BY <1>6, <4>1, LeaveFacts, AfterPlaces DEF Clear, BatchPcs
      <4>2. CASE ~Leave(t)
        BY <1>6, <4>2, Domains DEF Clear
      <4> QED
        BY <4>1, <4>2
    <3>2. \A u \in Threads \ {t} : pc'[u] = pc[u] /\ job'[u] = job[u] /\ cur'[u] = cur[u]
      <4>1. CASE Leave(t)
        BY <4>1, LeaveFacts
      <4>2. CASE ~Leave(t)
        BY <1>6, <4>2, Domains DEF Clear
      <4> QED
        BY <4>1, <4>2
    <3> QED
      BY <3>1, <3>2
  <2> QED
    BY <1>6, <2>1, PutFrame DEF Clear
<1>7. ASSUME NEW t \in Threads, Await(t) PROVE PutInv'
  <2>1. \A u \in Threads : pc'[u] = "lock" =>
           pc[u] = "lock" /\ job'[u] = job[u] /\ taken'[u] = taken[u] /\ cur'[u] = cur[u]
    BY <1>7 DEF Await
  <2> QED
    BY <1>7, <2>1, PutFrame DEF Await
<1>8. ASSUME NEW t \in Threads, AcquirePermit(t) PROVE PutInv'
  <2>1. \A u \in Threads : pc'[u] = "lock" =>
           pc[u] = "lock" /\ job'[u] = job[u] /\ taken'[u] = taken[u] /\ cur'[u] = cur[u]
    BY <1>8 DEF AcquirePermit
  <2> QED
    BY <1>8, <2>1, PutFrame DEF AcquirePermit
<1>9. ASSUME NEW t \in Threads, Scan(t) PROVE PutInv'
  <2>1. \A u \in Threads : pc'[u] = "lock" =>
           pc[u] = "lock" /\ job'[u] = job[u] /\ taken'[u] = taken[u] /\ cur'[u] = cur[u]
    BY <1>9 DEF Scan
  <2> QED
    BY <1>9, <2>1, PutFrame DEF Scan
<1>10. ASSUME NEW t \in Threads, Give(t) PROVE PutInv'
  <2>1. \A u \in Threads : pc'[u] = "lock" =>
           pc[u] = "lock" /\ job'[u] = job[u] /\ taken'[u] = taken[u] /\ cur'[u] = cur[u]
    BY <1>10 DEF Give, HandOver
  <2> QED
    BY <1>10, <2>1, PutFrame DEF Give
<1>11. ASSUME NEW t \in Threads, Assign(t) PROVE PutInv'
  <2>1. \A u \in Threads : pc'[u] = "lock" =>
           pc[u] = "lock" /\ job'[u] = job[u] /\ taken'[u] = taken[u] /\ cur'[u] = cur[u]
    BY <1>11, LeaveFacts, AfterPlaces DEF Assign, BatchPcs
  <2> QED
    BY <1>11, <2>1, PutFrame DEF Assign
<1>12. ASSUME NEW t \in Threads, Throw(t) PROVE PutInv'
  <2>1. \A u \in Threads : pc'[u] = "lock" =>
           pc[u] = "lock" /\ job'[u] = job[u] /\ taken'[u] = taken[u] /\ cur'[u] = cur[u]
    BY <1>12 DEF Throw, HandOver
  <2> QED
    BY <1>12, <2>1, PutFrame DEF Throw
<1>13. ASSUME NEW t \in Threads, ThrowUncaught(t) PROVE PutInv'
  <2>1. \A u \in Threads : pc'[u] = "lock" =>
           pc[u] = "lock" /\ job'[u] = job[u] /\ taken'[u] = taken[u] /\ cur'[u] = cur[u]
    BY <1>13 DEF ThrowUncaught, HandOver
  <2> QED
    BY <1>13, <2>1, PutFrame DEF ThrowUncaught
<1>14. ASSUME NEW t \in Threads, VisitNext(t) PROVE PutInv'
  <2>1. \A u \in Threads : pc'[u] = "lock" =>
           pc[u] = "lock" /\ job'[u] = job[u] /\ taken'[u] = taken[u] /\ cur'[u] = cur[u]
    BY <1>14 DEF VisitNext
  <2> QED
    BY <1>14, <2>1, PutFrame DEF VisitNext
<1>15. ASSUME NEW t \in Threads, EndFlush(t) PROVE PutInv'
  <2>1. \A u \in Threads : pc'[u] = "lock" =>
           pc[u] = "lock" /\ job'[u] = job[u] /\ taken'[u] = taken[u] /\ cur'[u] = cur[u]
    BY <1>15 DEF EndFlush
  <2> QED
    BY <1>15, <2>1, PutFrame DEF EndFlush
<1>16. CASE Construct
  <2>1. \A u \in Threads : pc'[u] = "lock" =>
           pc[u] = "lock" /\ job'[u] = job[u] /\ taken'[u] = taken[u] /\ cur'[u] = cur[u]
    BY <1>16 DEF Construct
  <2> QED
    BY <1>16, <2>1, PutFrame DEF Construct
<1>17. CASE StartClose
  <2>1. \A u \in Threads : pc'[u] = "lock" =>
           pc[u] = "lock" /\ job'[u] = job[u] /\ taken'[u] = taken[u] /\ cur'[u] = cur[u]
    BY <1>17 DEF StartClose
  <2> QED
    BY <1>17, <2>1, PutFrame DEF StartClose
<1>18. CASE Drain
  <2>1. \A u \in Threads : pc'[u] = "lock" =>
           pc[u] = "lock" /\ job'[u] = job[u] /\ taken'[u] = taken[u] /\ cur'[u] = cur[u]
    BY <1>18 DEF Drain
  <2> QED
    BY <1>18, <2>1, PutFrame DEF Drain
<1>19. CASE Join
  <2>1. \A u \in Threads : pc'[u] = "lock" =>
           pc[u] = "lock" /\ job'[u] = job[u] /\ taken'[u] = taken[u] /\ cur'[u] = cur[u]
    BY <1>19 DEF Join
  <2> QED
    BY <1>19, <2>1, PutFrame DEF Join
<1>20. CASE TestStatus
  <2>1. \A u \in Threads : pc'[u] = "lock" =>
           pc[u] = "lock" /\ job'[u] = job[u] /\ taken'[u] = taken[u] /\ cur'[u] = cur[u]
    BY <1>20 DEF TestStatus
  <2> QED
    BY <1>20, <2>1, PutFrame DEF TestStatus
<1>21. CASE Sweep
  <2>1. \A u \in Threads : pc'[u] = "lock" =>
           pc[u] = "lock" /\ job'[u] = job[u] /\ taken'[u] = taken[u] /\ cur'[u] = cur[u]
    BY <1>21 DEF Sweep
  <2> QED
    BY <1>21, <2>1, PutFrame DEF Sweep
<1>22. CASE TryLock
  <2>1. \A u \in Threads : pc'[u] = "lock" =>
           pc[u] = "lock" /\ job'[u] = job[u] /\ taken'[u] = taken[u] /\ cur'[u] = cur[u]
    BY <1>22 DEF TryLock
  <2> QED
    BY <1>22, <2>1, PutFrame DEF TryLock
<1>23. CASE TryPermit
  <2>1. \A u \in Threads : pc'[u] = "lock" =>
           pc[u] = "lock" /\ job'[u] = job[u] /\ taken'[u] = taken[u] /\ cur'[u] = cur[u]
    BY <1>23, LeaveFacts, AfterPlaces DEF TryPermit, BatchPcs
  <2> QED
    BY <1>23, <2>1, PutFrame DEF TryPermit
<1>24. ASSUME NEW w \in WP!Workers, Work(w) PROVE PutInv'
  <2>1. \A u \in Threads : pc'[u] = "lock" =>
           pc[u] = "lock" /\ job'[u] = job[u] /\ taken'[u] = taken[u] /\ cur'[u] = cur[u]
    BY <1>24 DEF Work
  <2> QED
    BY <1>24, <2>1, PutFrame DEF Work
<1>25. CASE DestroyPool
  <2>1. \A u \in Threads : pc'[u] = "lock" =>
           pc[u] = "lock" /\ job'[u] = job[u] /\ taken'[u] = taken[u] /\ cur'[u] = cur[u]
    BY <1>25 DEF DestroyPool
  <2> QED
    BY <1>25, <2>1, PutFrame DEF DestroyPool
<1>26. ASSUME NEW w \in WP!Workers, SpuriousWakeup(w) PROVE PutInv'
  <2>1. \A u \in Threads : pc'[u] = "lock" =>
           pc[u] = "lock" /\ job'[u] = job[u] /\ taken'[u] = taken[u] /\ cur'[u] = cur[u]
    BY <1>26 DEF SpuriousWakeup
  <2> QED
    BY <1>26, <2>1, PutFrame DEF SpuriousWakeup
<1>27. ASSUME NEW s \in Shards, Age(s) PROVE PutInv'
  <2>1. \A u \in Threads : pc'[u] = "lock" =>
           pc[u] = "lock" /\ job'[u] = job[u] /\ taken'[u] = taken[u] /\ cur'[u] = cur[u]
    BY <1>27 DEF Age
  <2> QED
    BY <1>27, <2>1, PutFrame DEF Age
<1>28. CASE WriteThrows
  <2>1. \A u \in Threads : pc'[u] = "lock" =>
           pc[u] = "lock" /\ job'[u] = job[u] /\ taken'[u] = taken[u] /\ cur'[u] = cur[u]
    BY <1>28 DEF WriteThrows
  <2> QED
    BY <1>28, <2>1, PutFrame DEF WriteThrows
<1>29. CASE Crash
  <2>1. \A u \in Threads : pc'[u] = "lock" =>
           pc[u] = "lock" /\ job'[u] = job[u] /\ taken'[u] = taken[u] /\ cur'[u] = cur[u]
    BY <1>29 DEF Crash
  <2> QED
    BY <1>29, <2>1, PutFrame DEF Crash
<1>30. CASE UNCHANGED vars
  <2>1. \A u \in Threads : pc'[u] = "lock" =>
           pc[u] = "lock" /\ job'[u] = job[u] /\ taken'[u] = taken[u] /\ cur'[u] = cur[u]
    BY <1>30 DEF vars
  <2> QED
    BY <1>30, <2>1, PutFrame DEF vars
<1> QED
  BY <1>1, <1>2, <1>3, <1>4, <1>5, <1>6, <1>7, <1>8, <1>9, <1>10, <1>11, <1>12, <1>13, <1>14,
     <1>15, <1>16, <1>17, <1>18, <1>19, <1>20, <1>21, <1>22, <1>23, <1>24, <1>25, <1>26, <1>27,
     <1>28, <1>29, <1>30, StepCases

-----------------------------------------------------------------------------
(* Without flush() and the destructor.                                     *)

(* Without flush() and the destructor.                                     *)
Calm == flushes = 0 /\ job[Owner] # "close"

(* What [Next]_vars does to the calm.                                     *)
(* Nobody begins to flush without being counted, and the destruction goes on.*)
LEMMA JobStep ==
  ASSUME TypeOK, PlaceInv, [Next]_vars
  PROVE  \/ flushes' # 0
         \/ /\ flushes' = flushes
            /\ \A u \in Threads : job'[u] # job[u] => job'[u] # "flush" /\ job[u] # "close"
<1> DEFINE Goal == \/ flushes' # 0
                   \/ /\ flushes' = flushes
                      /\ \A u \in Threads : job'[u] # job[u] =>
                           job'[u] # "flush" /\ job[u] # "close"
<1> USE ConstantFacts, Domains
<1>1. ASSUME NEW t \in AppThreads, NEW r \in Records, StartPut(t, r) PROVE Goal
  <2>1. job[t] # "close" /\ UNCHANGED flushes
    BY <1>1 DEF StartPut, PlaceInv, BatchPcs
  <2>2. \A u \in Threads : job'[u] # job[u] => job'[u] # "flush" /\ job[u] # "close"
    BY <1>1, <2>1 DEF StartPut
  <2> QED
    BY <2>1, <2>2
<1>2. ASSUME NEW t \in AppThreads, StartFlush(t) PROVE Goal
  BY <1>2 DEF StartFlush, TypeOK
<1>3. ASSUME NEW t \in Threads, Apply(t) PROVE Goal
  <2>1. /\ UNCHANGED flushes
        /\ \A u \in Threads : job'[u] # job[u] => job'[u] # "flush" /\ job[u] # "close"
    BY <1>3 DEF Apply
  <2> QED
    BY <2>1
<1>4. ASSUME NEW t \in Threads, Check(t) PROVE Goal
  <2>1. /\ UNCHANGED flushes
        /\ \A u \in Threads : job'[u] # job[u] => job'[u] # "flush" /\ job[u] # "close"
    BY <1>4, LeaveFacts DEF Check
  <2> QED
    BY <2>1
<1>5. ASSUME NEW t \in Threads, Copy(t) PROVE Goal
  <2>1. /\ UNCHANGED flushes
        /\ \A u \in Threads : job'[u] # job[u] => job'[u] # "flush" /\ job[u] # "close"
    BY <1>5 DEF Copy
  <2> QED
    BY <2>1
<1>6. ASSUME NEW t \in Threads, Clear(t) PROVE Goal
  <2>1. /\ UNCHANGED flushes
        /\ \A u \in Threads : job'[u] # job[u] => job'[u] # "flush" /\ job[u] # "close"
    BY <1>6, LeaveFacts DEF Clear
  <2> QED
    BY <2>1
<1>7. ASSUME NEW t \in Threads, Await(t) PROVE Goal
  <2>1. /\ UNCHANGED flushes
        /\ \A u \in Threads : job'[u] # job[u] => job'[u] # "flush" /\ job[u] # "close"
    BY <1>7 DEF Await
  <2> QED
    BY <2>1
<1>8. ASSUME NEW t \in Threads, AcquirePermit(t) PROVE Goal
  <2>1. /\ UNCHANGED flushes
        /\ \A u \in Threads : job'[u] # job[u] => job'[u] # "flush" /\ job[u] # "close"
    BY <1>8 DEF AcquirePermit
  <2> QED
    BY <2>1
<1>9. ASSUME NEW t \in Threads, Scan(t) PROVE Goal
  <2>1. /\ UNCHANGED flushes
        /\ \A u \in Threads : job'[u] # job[u] => job'[u] # "flush" /\ job[u] # "close"
    BY <1>9 DEF Scan
  <2> QED
    BY <2>1
<1>10. ASSUME NEW t \in Threads, Give(t) PROVE Goal
  <2>1. /\ UNCHANGED flushes
        /\ \A u \in Threads : job'[u] # job[u] => job'[u] # "flush" /\ job[u] # "close"
    BY <1>10 DEF Give
  <2> QED
    BY <2>1
<1>11. ASSUME NEW t \in Threads, Assign(t) PROVE Goal
  <2>1. /\ UNCHANGED flushes
        /\ \A u \in Threads : job'[u] # job[u] => job'[u] # "flush" /\ job[u] # "close"
    BY <1>11, LeaveFacts DEF Assign
  <2> QED
    BY <2>1
<1>12. ASSUME NEW t \in Threads, Throw(t) PROVE Goal
  <2>1. /\ UNCHANGED flushes
        /\ \A u \in Threads : job'[u] # job[u] => job'[u] # "flush" /\ job[u] # "close"
    BY <1>12 DEF Throw
  <2> QED
    BY <2>1
<1>13. ASSUME NEW t \in Threads, ThrowUncaught(t) PROVE Goal
  <2>1. /\ UNCHANGED flushes
        /\ \A u \in Threads : job'[u] # job[u] => job'[u] # "flush" /\ job[u] # "close"
    BY <1>13 DEF ThrowUncaught
  <2> QED
    BY <2>1
<1>14. ASSUME NEW t \in Threads, VisitNext(t) PROVE Goal
  <2>1. /\ UNCHANGED flushes
        /\ \A u \in Threads : job'[u] # job[u] => job'[u] # "flush" /\ job[u] # "close"
    BY <1>14 DEF VisitNext
  <2> QED
    BY <2>1
<1>15. ASSUME NEW t \in Threads, EndFlush(t) PROVE Goal
  <2>1. /\ UNCHANGED flushes
        /\ \A u \in Threads : job'[u] # job[u] => job'[u] # "flush" /\ job[u] # "close"
    BY <1>15 DEF EndFlush
  <2> QED
    BY <2>1
<1>16. CASE Construct
  <2>1. /\ UNCHANGED flushes
        /\ \A u \in Threads : job'[u] # job[u] => job'[u] # "flush" /\ job[u] # "close"
    BY <1>16 DEF Construct
  <2> QED
    BY <2>1
<1>17. CASE StartClose
  <2>1. job[Owner] # "close" /\ UNCHANGED flushes
    BY <1>17 DEF StartClose, PlaceInv, BatchPcs
  <2>2. \A u \in Threads : job'[u] # job[u] => job'[u] # "flush" /\ job[u] # "close"
    BY <1>17, <2>1 DEF StartClose
  <2> QED
    BY <2>1, <2>2
<1>18. CASE Drain
  <2>1. /\ UNCHANGED flushes
        /\ \A u \in Threads : job'[u] # job[u] => job'[u] # "flush" /\ job[u] # "close"
    BY <1>18 DEF Drain
  <2> QED
    BY <2>1
<1>19. CASE Join
  <2>1. /\ UNCHANGED flushes
        /\ \A u \in Threads : job'[u] # job[u] => job'[u] # "flush" /\ job[u] # "close"
    BY <1>19 DEF Join
  <2> QED
    BY <2>1
<1>20. CASE TestStatus
  <2>1. /\ UNCHANGED flushes
        /\ \A u \in Threads : job'[u] # job[u] => job'[u] # "flush" /\ job[u] # "close"
    BY <1>20 DEF TestStatus
  <2> QED
    BY <2>1
<1>21. CASE Sweep
  <2>1. /\ UNCHANGED flushes
        /\ \A u \in Threads : job'[u] # job[u] => job'[u] # "flush" /\ job[u] # "close"
    BY <1>21 DEF Sweep
  <2> QED
    BY <2>1
<1>22. CASE TryLock
  <2>1. /\ UNCHANGED flushes
        /\ \A u \in Threads : job'[u] # job[u] => job'[u] # "flush" /\ job[u] # "close"
    BY <1>22 DEF TryLock
  <2> QED
    BY <2>1
<1>23. CASE TryPermit
  <2>1. /\ UNCHANGED flushes
        /\ \A u \in Threads : job'[u] # job[u] => job'[u] # "flush" /\ job[u] # "close"
    BY <1>23, LeaveFacts DEF TryPermit
  <2> QED
    BY <2>1
<1>24. ASSUME NEW w \in WP!Workers, Work(w) PROVE Goal
  <2>1. /\ UNCHANGED flushes
        /\ \A u \in Threads : job'[u] # job[u] => job'[u] # "flush" /\ job[u] # "close"
    BY <1>24 DEF Work
  <2> QED
    BY <2>1
<1>25. CASE DestroyPool
  <2>1. /\ UNCHANGED flushes
        /\ \A u \in Threads : job'[u] # job[u] => job'[u] # "flush" /\ job[u] # "close"
    BY <1>25 DEF DestroyPool
  <2> QED
    BY <2>1
<1>26. ASSUME NEW w \in WP!Workers, SpuriousWakeup(w) PROVE Goal
  <2>1. /\ UNCHANGED flushes
        /\ \A u \in Threads : job'[u] # job[u] => job'[u] # "flush" /\ job[u] # "close"
    BY <1>26 DEF SpuriousWakeup
  <2> QED
    BY <2>1
<1>27. ASSUME NEW s \in Shards, Age(s) PROVE Goal
  <2>1. /\ UNCHANGED flushes
        /\ \A u \in Threads : job'[u] # job[u] => job'[u] # "flush" /\ job[u] # "close"
    BY <1>27 DEF Age
  <2> QED
    BY <2>1
<1>28. CASE WriteThrows
  <2>1. /\ UNCHANGED flushes
        /\ \A u \in Threads : job'[u] # job[u] => job'[u] # "flush" /\ job[u] # "close"
    BY <1>28 DEF WriteThrows
  <2> QED
    BY <2>1
<1>29. CASE Crash
  <2>1. /\ UNCHANGED flushes
        /\ \A u \in Threads : job'[u] # job[u] => job'[u] # "flush" /\ job[u] # "close"
    BY <1>29 DEF Crash
  <2> QED
    BY <2>1
<1>30. CASE UNCHANGED vars
  <2>1. /\ UNCHANGED flushes
        /\ \A u \in Threads : job'[u] # job[u] => job'[u] # "flush" /\ job[u] # "close"
    BY <1>30 DEF vars
  <2> QED
    BY <2>1
<1> QED
  BY <1>1, <1>2, <1>3, <1>4, <1>5, <1>6, <1>7, <1>8, <1>9, <1>10, <1>11, <1>12, <1>13, <1>14,
     <1>15, <1>16, <1>17, <1>18, <1>19, <1>20, <1>21, <1>22, <1>23, <1>24, <1>25, <1>26, <1>27,
     <1>28, <1>29, <1>30, StepCases

(* A race at the vector of a shard.                                       *)
LEMMA RaceStep ==
  ASSUME TypeOK, [Next]_vars
  PROVE  /\ raced \subseteq raced'
         /\ \A s \in raced' \ raced : \E t, u \in Threads :
              /\ t # u /\ cur[t] = s /\ cur[u] = s /\ pc[u] \in {"copy", "clear"}
              /\ pc[t] \in {"check", "copy"}
                 \/ (pc[t] \in {"lock", "try"} /\ s \notin shardLocked)
<1> DEFINE Goal == /\ raced \subseteq raced'
                   /\ \A s \in raced' \ raced : \E t, u \in Threads :
                        /\ t # u /\ cur[t] = s /\ cur[u] = s /\ pc[u] \in {"copy", "clear"}
                        /\ pc[t] \in {"check", "copy"}
                           \/ (pc[t] \in {"lock", "try"} /\ s \notin shardLocked)
<1> USE ConstantFacts
<1>1. ASSUME NEW t \in Threads, Apply(t) PROVE Goal
  BY <1>1 DEF Apply, TouchRecords, Others, Free
<1>2. ASSUME NEW t \in Threads, Check(t) PROVE Goal
  BY <1>2 DEF Check, TouchRecords, Others
<1>3. ASSUME NEW t \in Threads, Copy(t) PROVE Goal
  BY <1>3 DEF Copy, TouchRecords, Others
<1>4. ASSUME NEW t \in AppThreads, NEW r \in Records, StartPut(t, r)
      PROVE  Goal
  BY <1>4 DEF StartPut
<1>5. ASSUME NEW t \in AppThreads, StartFlush(t)
      PROVE  Goal
  BY <1>5 DEF StartFlush
<1>6. ASSUME NEW t \in Threads,
    Clear(t) \/ Await(t) \/ AcquirePermit(t) \/ Scan(t) \/ Give(t) \/ Assign(t) \/ Throw(t)
    \/ ThrowUncaught(t) \/ VisitNext(t) \/ EndFlush(t)
      PROVE  Goal
  BY <1>6 DEF Clear, Await, AcquirePermit, Scan, Give, Assign, Throw, ThrowUncaught, VisitNext,
     EndFlush
<1>10. CASE TryLock
  BY <1>10 DEF TryLock, TouchRecords, Others, Free
<1>7. CASE Construct \/ StartClose \/ Drain \/ Join \/ TestStatus \/ Sweep
    \/ TryPermit \/ DestroyPool \/ WriteThrows \/ Crash \/ UNCHANGED vars
  BY <1>7 DEF Construct, StartClose, Drain, Join, TestStatus, Sweep, TryPermit,
     DestroyPool, WriteThrows, Crash, vars
<1>8. ASSUME NEW w \in WP!Workers, Work(w) \/ SpuriousWakeup(w)
      PROVE  Goal
  BY <1>8 DEF Work, SpuriousWakeup
<1>9. ASSUME NEW s \in Shards, Age(s)
      PROVE  Goal
  BY <1>9 DEF Age
<1> QED
  BY <1>1, <1>2, <1>3, <1>4, <1>5, <1>6, <1>7, <1>8, <1>9, <1>10, StepCases

(* In the calm whoever is at a batch has the mutex.                        *)
LEMMA CalmMutex ==
  ASSUME TypeOK, PlaceInv, CalmInv, Calm, NEW t \in Threads,
         pc[t] \in BatchPcs \union {"check", "permit"}
  PROVE  HasMutex(t)
<1>1. job[t] # "flush" /\ job[t] # "close"
  BY ConstantFacts DEF CalmInv, Calm, PlaceInv
<1>2. job[t] # "none"
  BY ConstantFacts DEF PlaceInv, BatchPcs
<1> QED
  BY <1>1, <1>2, Domains DEF HasMutex, Jobs

LEMMA CalmStep ==
  ASSUME TypeOK, PlaceInv, MutexInv, CalmInv, [Next]_vars
  PROVE  CalmInv' /\ (Calm' => Calm)
<1> USE ConstantFacts
<1>1. Calm' => Calm
  BY JobStep DEF Calm
<1>2. (flushes = 0 => \A t \in Threads : job[t] # "flush")'
  BY JobStep DEF CalmInv
<1>3. ASSUME Calm' PROVE raced' = {}
  <2>1. Calm /\ raced = {}
    BY <1>1, <1>3 DEF CalmInv, Calm
  <2>2. ASSUME NEW s \in raced' PROVE FALSE
    <3>1. PICK t \in Threads, u \in Threads :
            /\ t # u /\ cur[t] = s /\ cur[u] = s /\ pc[u] \in {"copy", "clear"}
            /\ pc[t] \in {"check", "copy"}
               \/ (pc[t] \in {"lock", "try"} /\ s \notin shardLocked)
      BY <2>1, <2>2, RaceStep
    <3>2. HasMutex(u)
      BY <2>1, <3>1, CalmMutex DEF BatchPcs
    <3>3. s \in shardLocked
      BY <3>1, <3>2 DEF MutexInv, TypeOK
    <3>4. HasMutex(t)
      BY <2>1, <3>1, <3>3, CalmMutex DEF BatchPcs
    <3> QED
      BY <3>1, <3>2, <3>4 DEF MutexInv
  <2> QED
    BY <2>2
<1> QED
  BY <1>1, <1>2, <1>3 DEF CalmInv, Calm

-----------------------------------------------------------------------------
(* What the watcher found.                                                 *)

(* A promise that has its value keeps it.                                  *)
LEMMA ResolvedStep ==
  ASSUME TypeOK, [Next]_vars
  PROVE  resolved \subseteq resolved'
<1> USE ConstantFacts
<1>1. ASSUME NEW t \in Threads, AcquirePermit(t) PROVE resolved \subseteq resolved'
  BY <1>1 DEF AcquirePermit, TakePermit, WP!Acquire, WP!delivererVars, WP!workerVars,
     WP!closerVars, WP!execVars
<1>2. ASSUME NEW t \in Threads, Scan(t) PROVE resolved \subseteq resolved'
  BY <1>2 DEF Scan, WP!LockWorker, WP!SkipLocked, WP!SkipBusy, WP!delivererVars, WP!workerVars,
     WP!closerVars, WP!execVars
<1>3. ASSUME NEW t \in Threads, Give(t) PROVE resolved \subseteq resolved'
  BY <1>3 DEF Give, WP!GiveAction, WP!delivererVars, WP!workerVars, WP!closerVars, WP!execVars
<1>4. ASSUME NEW t \in Threads, Throw(t) PROVE resolved \subseteq resolved'
  BY <1>4 DEF Throw, WP!ThrowInner, WP!delivererVars, WP!workerVars, WP!closerVars, WP!execVars
<1>5. ASSUME NEW t \in Threads, ThrowUncaught(t) PROVE resolved \subseteq resolved'
  BY <1>5 DEF ThrowUncaught, WP!ThrowUncaught, WP!ThrowInner, WP!delivererVars, WP!workerVars,
     WP!closerVars, WP!execVars
<1>6. CASE TryPermit
  BY <1>6 DEF TryPermit, TakePermit, WP!Acquire, WP!delivererVars, WP!workerVars, WP!closerVars,
     WP!execVars
<1>7. ASSUME NEW w \in WP!Workers, Work(w) PROVE resolved \subseteq resolved'
  BY <1>7 DEF Work, WP!Run, WP!TakeMutex, WP!ReleasePermit, WP!Wait, WP!ExecWrite,
     WP!ExecSetValue, WP!BecomeIdle, WP!Exit, WP!SetValue, WP!delivererVars, WP!workerVars,
     WP!closerVars, WP!execVars
<1>8. CASE DestroyPool
  BY <1>8 DEF DestroyPool, WP!Close, WP!CloseWorker, WP!CloseJoin, WP!ExecLeftover, WP!SetValue,
     WP!delivererVars, WP!workerVars, WP!closerVars, WP!execVars
<1>9. ASSUME NEW w \in WP!Workers, SpuriousWakeup(w) PROVE resolved \subseteq resolved'
  BY <1>9 DEF SpuriousWakeup, WP!SpuriousWakeup, WP!delivererVars, WP!workerVars, WP!closerVars,
     WP!execVars
<1>10. CASE WriteThrows
  BY <1>10 DEF WriteThrows, WP!WriteThrows, WP!delivererVars, WP!workerVars, WP!closerVars,
     WP!execVars
<1>11. ASSUME NEW t \in AppThreads, NEW r \in Records, StartPut(t, r)
      PROVE  resolved \subseteq resolved'
  BY <1>11 DEF StartPut
<1>12. ASSUME NEW t \in AppThreads, StartFlush(t)
      PROVE  resolved \subseteq resolved'
  BY <1>12 DEF StartFlush
<1>13. ASSUME NEW t \in Threads,
    Apply(t) \/ Check(t) \/ Copy(t) \/ Clear(t) \/ Await(t) \/ Assign(t) \/ VisitNext(t)
    \/ EndFlush(t)
      PROVE  resolved \subseteq resolved'
  BY <1>13 DEF Apply, Check, Copy, Clear, Await, Assign, VisitNext, EndFlush
<1>14. CASE Construct \/ StartClose \/ Drain \/ Join \/ TestStatus \/ Sweep \/ TryLock
    \/ Crash \/ UNCHANGED vars
  BY <1>14 DEF Construct, StartClose, Drain, Join, TestStatus, Sweep, TryLock, Crash, vars
<1>15. ASSUME NEW s \in Shards, Age(s)
      PROVE  resolved \subseteq resolved'
  BY <1>15 DEF Age
<1> QED
  BY <1>1, <1>2, <1>3, <1>4, <1>5, <1>6, <1>7, <1>8, <1>9, <1>10, <1>11, <1>12, <1>13, <1>14,
     <1>15, StepCases

(* What the watcher found is not undone by a step that leaves its shard.   *)
LEMMA WatcherFrame ==
  ASSUME WatcherCheckHolds, Calm, pc[Watcher] \in {"permit", "copy"},
         resolved \subseteq resolved', cur'[Watcher] = cur[Watcher],
         records'[cur[Watcher]] = records[cur[Watcher]],
         timedOut[cur[Watcher]] => timedOut'[cur[Watcher]],
         result'[cur[Watcher]] = result[cur[Watcher]]
  PROVE  WatcherCheckHolds'
BY DEF WatcherCheckHolds, Calm, TimeOut, Ready

(* What the watcher found.                                                 *)
LEMMA WatcherStep ==
  ASSUME TypeOK, PlaceInv, MutexInv, CalmInv, WatcherCheckHolds, [Next]_vars
  PROVE  WatcherCheckHolds'
<1> USE ConstantFacts, Domains
<1> SUFFICES ASSUME Calm', pc'[Watcher] \in {"permit", "copy"}
             PROVE  WatcherCheckHolds'
  BY DEF WatcherCheckHolds, Calm
<1>w. pc'[Watcher] \in {"permit", "copy"}
  OBVIOUS
<1>c. Calm
  BY CalmStep
<1>r. resolved \subseteq resolved'
  BY ResolvedStep
<1>1. ASSUME NEW t \in AppThreads, NEW r \in Records, StartPut(t, r) PROVE WatcherCheckHolds'
  <2>1. t # Watcher
    BY <1>1, ConstantFacts
  <2>2. UNCHANGED <<records,
      result>> /\ cur'[Watcher] = cur[Watcher] /\ pc[Watcher] \in {"permit", "copy"}
         /\ (timedOut[cur[Watcher]] => timedOut'[cur[Watcher]])
    BY <1>1, <2>1, <1>w DEF StartPut
  <2> QED
    BY <2>2, <1>c, <1>r, WatcherFrame
<1>2. ASSUME NEW t \in AppThreads, StartFlush(t) PROVE WatcherCheckHolds'
  <2>1. t # Watcher
    BY <1>2, ConstantFacts
  <2>2. UNCHANGED <<records,
      result>> /\ cur'[Watcher] = cur[Watcher] /\ pc[Watcher] \in {"permit", "copy"}
         /\ (timedOut[cur[Watcher]] => timedOut'[cur[Watcher]])
    BY <1>2, <2>1, <1>w DEF StartFlush
  <2> QED
    BY <2>2, <1>c, <1>r, WatcherFrame
<1>3. ASSUME NEW t \in Threads, Apply(t) PROVE WatcherCheckHolds'
  <2>1. pc[Watcher] \in {"permit", "copy"} /\ t # Watcher /\ cur'[Watcher] = cur[Watcher]
    BY <1>3, <1>w, LeaveFacts, AfterPlaces DEF Apply, PlaceInv, BatchPcs
  <2>2. cur[t] # cur[Watcher]
    BY <1>3, <1>c, <2>1, CalmMutex DEF Apply, Free, MutexInv, BatchPcs, TypeOK
  <2>3. /\ records'[cur[Watcher]] = records[cur[Watcher]]
        /\ timedOut[cur[Watcher]] => timedOut'[cur[Watcher]]
        /\ result'[cur[Watcher]] = result[cur[Watcher]]
    BY <1>3, <2>2 DEF Apply, PushBack, TypeOK
  <2> QED
    BY <2>1, <2>3, <1>c, <1>r, WatcherFrame
<1>4. ASSUME NEW t \in Threads, Check(t) PROVE WatcherCheckHolds'
  <2>1. t # Watcher
    BY <1>4 DEF Check, PlaceInv
  <2>2. UNCHANGED <<records,
      result>> /\ cur'[Watcher] = cur[Watcher] /\ pc[Watcher] \in {"permit", "copy"}
         /\ (timedOut[cur[Watcher]] => timedOut'[cur[Watcher]])
    BY <1>4, <2>1, <1>w, LeaveFacts DEF Check
  <2> QED
    BY <2>2, <1>c, <1>r, WatcherFrame
<1>5. ASSUME NEW t \in Threads, Copy(t) PROVE WatcherCheckHolds'
  <2>1. pc[Watcher] \in {"permit", "copy"} /\ t # Watcher /\ cur'[Watcher] = cur[Watcher]
    BY <1>5, <1>w, LeaveFacts, AfterPlaces DEF Copy, PlaceInv, BatchPcs
  <2>2. cur[t] # cur[Watcher]
    BY <1>5, <1>c, <2>1, CalmMutex DEF Copy, MutexInv, BatchPcs
  <2>3. /\ records'[cur[Watcher]] = records[cur[Watcher]]
        /\ timedOut[cur[Watcher]] => timedOut'[cur[Watcher]]
        /\ result'[cur[Watcher]] = result[cur[Watcher]]
    BY <1>5, <2>2 DEF Copy, ResetSize, TypeOK
  <2> QED
    BY <2>1, <2>3, <1>c, <1>r, WatcherFrame
<1>6. ASSUME NEW t \in Threads, Clear(t) PROVE WatcherCheckHolds'
  <2>1. pc[Watcher] \in {"permit", "copy"} /\ t # Watcher /\ cur'[Watcher] = cur[Watcher]
    BY <1>6, <1>w, LeaveFacts, AfterPlaces DEF Clear, PlaceInv, BatchPcs
  <2>2. cur[t] # cur[Watcher]
    BY <1>6, <1>c, <2>1, CalmMutex DEF Clear, MutexInv, BatchPcs
  <2>3. /\ records'[cur[Watcher]] = records[cur[Watcher]]
        /\ timedOut[cur[Watcher]] => timedOut'[cur[Watcher]]
        /\ result'[cur[Watcher]] = result[cur[Watcher]]
    BY <1>6, <2>2 DEF Clear, EmptyRecords, TypeOK
  <2> QED
    BY <2>1, <2>3, <1>c, <1>r, WatcherFrame
<1>7. ASSUME NEW t \in Threads, Await(t) PROVE WatcherCheckHolds'
  <2>1. UNCHANGED <<records,
      result>> /\ cur'[Watcher] = cur[Watcher] /\ pc[Watcher] \in {"permit", "copy"}
         /\ (timedOut[cur[Watcher]] => timedOut'[cur[Watcher]])
    BY <1>7, <1>w DEF Await
  <2> QED
    BY <2>1, <1>c, <1>r, WatcherFrame
<1>8. ASSUME NEW t \in Threads, AcquirePermit(t) PROVE WatcherCheckHolds'
  <2>1. UNCHANGED <<records,
      result>> /\ cur'[Watcher] = cur[Watcher] /\ pc[Watcher] \in {"permit", "copy"}
         /\ (timedOut[cur[Watcher]] => timedOut'[cur[Watcher]])
    BY <1>8, <1>w DEF AcquirePermit
  <2> QED
    BY <2>1, <1>c, <1>r, WatcherFrame
<1>9. ASSUME NEW t \in Threads, Scan(t) PROVE WatcherCheckHolds'
  <2>1. UNCHANGED <<records,
      result>> /\ cur'[Watcher] = cur[Watcher] /\ pc[Watcher] \in {"permit", "copy"}
         /\ (timedOut[cur[Watcher]] => timedOut'[cur[Watcher]])
    BY <1>9, <1>w DEF Scan
  <2> QED
    BY <2>1, <1>c, <1>r, WatcherFrame
<1>10. ASSUME NEW t \in Threads, Give(t) PROVE WatcherCheckHolds'
  <2>1. UNCHANGED <<records,
      result>> /\ cur'[Watcher] = cur[Watcher] /\ pc[Watcher] \in {"permit", "copy"}
         /\ (timedOut[cur[Watcher]] => timedOut'[cur[Watcher]])
    BY <1>10, <1>w DEF Give
  <2> QED
    BY <2>1, <1>c, <1>r, WatcherFrame
<1>11. ASSUME NEW t \in Threads, Assign(t) PROVE WatcherCheckHolds'
  <2>1. pc[Watcher] \in {"permit", "copy"} /\ t # Watcher /\ cur'[Watcher] = cur[Watcher]
    <3>1. After(t) \in {"idle", "next", "sweep"}
      BY <1>11, AfterPlaces DEF Assign, BatchPcs
    <3>2. pc'[t] = After(t) /\ \A u \in Threads \ {t} : pc'[u] = pc[u] /\ cur'[u] = cur[u]
      BY <1>11, LeaveFacts DEF Assign
    <3> QED
      BY <1>w, <3>1, <3>2
  <2>2. cur[t] # cur[Watcher]
    BY <1>11, <1>c, <2>1, CalmMutex DEF Assign, MutexInv, BatchPcs
  <2>3. /\ records'[cur[Watcher]] = records[cur[Watcher]]
        /\ timedOut[cur[Watcher]] => timedOut'[cur[Watcher]]
        /\ result'[cur[Watcher]] = result[cur[Watcher]]
    BY <1>11, <2>2 DEF Assign,  TypeOK
  <2> QED
    BY <2>1, <2>3, <1>c, <1>r, WatcherFrame
<1>12. ASSUME NEW t \in Threads, Throw(t) PROVE WatcherCheckHolds'
  <2>1. t # Watcher
    BY <1>12, <1>w DEF Throw
  <2>2. UNCHANGED <<records,
      result>> /\ cur'[Watcher] = cur[Watcher] /\ pc[Watcher] \in {"permit", "copy"}
         /\ (timedOut[cur[Watcher]] => timedOut'[cur[Watcher]])
    BY <1>12, <2>1, <1>w DEF Throw
  <2> QED
    BY <2>2, <1>c, <1>r, WatcherFrame
<1>13. ASSUME NEW t \in Threads, ThrowUncaught(t) PROVE WatcherCheckHolds'
  <2>1. UNCHANGED <<records,
      result>> /\ cur'[Watcher] = cur[Watcher] /\ pc[Watcher] \in {"permit", "copy"}
         /\ (timedOut[cur[Watcher]] => timedOut'[cur[Watcher]])
    BY <1>13, <1>w DEF ThrowUncaught
  <2> QED
    BY <2>1, <1>c, <1>r, WatcherFrame
<1>14. ASSUME NEW t \in Threads, VisitNext(t) PROVE WatcherCheckHolds'
  <2>1. t # Watcher
    BY <1>14 DEF VisitNext, PlaceInv
  <2>2. UNCHANGED <<records,
      result>> /\ cur'[Watcher] = cur[Watcher] /\ pc[Watcher] \in {"permit", "copy"}
         /\ (timedOut[cur[Watcher]] => timedOut'[cur[Watcher]])
    BY <1>14, <2>1, <1>w DEF VisitNext
  <2> QED
    BY <2>2, <1>c, <1>r, WatcherFrame
<1>15. ASSUME NEW t \in Threads, EndFlush(t) PROVE WatcherCheckHolds'
  <2>1. t # Watcher
    BY <1>15 DEF EndFlush, PlaceInv
  <2>2. UNCHANGED <<records,
      result>> /\ cur'[Watcher] = cur[Watcher] /\ pc[Watcher] \in {"permit", "copy"}
         /\ (timedOut[cur[Watcher]] => timedOut'[cur[Watcher]])
    BY <1>15, <2>1, <1>w DEF EndFlush
  <2> QED
    BY <2>2, <1>c, <1>r, WatcherFrame
<1>16. CASE Construct
  <2>1. UNCHANGED <<records,
      result>> /\ cur'[Watcher] = cur[Watcher] /\ pc[Watcher] \in {"permit", "copy"}
         /\ (timedOut[cur[Watcher]] => timedOut'[cur[Watcher]])
    BY <1>16, <1>w DEF Construct
  <2> QED
    BY <2>1, <1>c, <1>r, WatcherFrame
<1>17. CASE StartClose
  <2>1. UNCHANGED <<records,
      result>> /\ cur'[Watcher] = cur[Watcher] /\ pc[Watcher] \in {"permit", "copy"}
         /\ (timedOut[cur[Watcher]] => timedOut'[cur[Watcher]])
    BY <1>17, <1>w DEF StartClose
  <2> QED
    BY <2>1, <1>c, <1>r, WatcherFrame
<1>18. CASE Drain
  <2>1. UNCHANGED <<records,
      result>> /\ cur'[Watcher] = cur[Watcher] /\ pc[Watcher] \in {"permit", "copy"}
         /\ (timedOut[cur[Watcher]] => timedOut'[cur[Watcher]])
    BY <1>18, <1>w DEF Drain
  <2> QED
    BY <2>1, <1>c, <1>r, WatcherFrame
<1>19. CASE Join
  <2>1. UNCHANGED <<records,
      result>> /\ cur'[Watcher] = cur[Watcher] /\ pc[Watcher] \in {"permit", "copy"}
         /\ (timedOut[cur[Watcher]] => timedOut'[cur[Watcher]])
    BY <1>19, <1>w DEF Join
  <2> QED
    BY <2>1, <1>c, <1>r, WatcherFrame
<1>20. CASE TestStatus
  BY <1>20, <1>w DEF TestStatus
<1>21. CASE Sweep
  BY <1>21, <1>w DEF Sweep
<1>22. CASE TryLock
  <2>1. MayFlush(cur[Watcher]) /\ UNCHANGED <<cur, records, timedOut, result, resolved>>
    BY <1>22, <1>w DEF TryLock
  <2> QED
    BY <2>1 DEF WatcherCheckHolds, MayFlush, TimeOut, Ready
<1>23. CASE TryPermit
  <2>1. CASE Leave(Watcher)
    BY <1>23, <2>1, <1>w, LeaveFacts, AfterPlaces DEF TryPermit
  <2>2. CASE UNCHANGED <<job, cur, shardLocked, terminated>>
    BY <1>23, <2>2, <1>c, <1>r, WatcherFrame DEF TryPermit
  <2> QED
    BY <1>23, <2>1, <2>2 DEF TryPermit
<1>24. ASSUME NEW w \in WP!Workers, Work(w) PROVE WatcherCheckHolds'
  <2>1. UNCHANGED <<records,
      result>> /\ cur'[Watcher] = cur[Watcher] /\ pc[Watcher] \in {"permit", "copy"}
         /\ (timedOut[cur[Watcher]] => timedOut'[cur[Watcher]])
    BY <1>24, <1>w DEF Work
  <2> QED
    BY <2>1, <1>c, <1>r, WatcherFrame
<1>25. CASE DestroyPool
  <2>1. UNCHANGED <<records,
      result>> /\ cur'[Watcher] = cur[Watcher] /\ pc[Watcher] \in {"permit", "copy"}
         /\ (timedOut[cur[Watcher]] => timedOut'[cur[Watcher]])
    BY <1>25, <1>w DEF DestroyPool
  <2> QED
    BY <2>1, <1>c, <1>r, WatcherFrame
<1>26. ASSUME NEW w \in WP!Workers, SpuriousWakeup(w) PROVE WatcherCheckHolds'
  <2>1. UNCHANGED <<records,
      result>> /\ cur'[Watcher] = cur[Watcher] /\ pc[Watcher] \in {"permit", "copy"}
         /\ (timedOut[cur[Watcher]] => timedOut'[cur[Watcher]])
    BY <1>26, <1>w DEF SpuriousWakeup
  <2> QED
    BY <2>1, <1>c, <1>r, WatcherFrame
<1>27. ASSUME NEW s \in Shards, Age(s) PROVE WatcherCheckHolds'
  <2>1. UNCHANGED <<records,
      result>> /\ cur'[Watcher] = cur[Watcher] /\ pc[Watcher] \in {"permit", "copy"}
         /\ (timedOut[cur[Watcher]] => timedOut'[cur[Watcher]])
    BY <1>27, <1>w DEF Age, TypeOK
  <2> QED
    BY <2>1, <1>c, <1>r, WatcherFrame
<1>28. CASE WriteThrows
  <2>1. UNCHANGED <<records,
      result>> /\ cur'[Watcher] = cur[Watcher] /\ pc[Watcher] \in {"permit", "copy"}
         /\ (timedOut[cur[Watcher]] => timedOut'[cur[Watcher]])
    BY <1>28, <1>w DEF WriteThrows
  <2> QED
    BY <2>1, <1>c, <1>r, WatcherFrame
<1>29. CASE Crash
  <2>1. UNCHANGED <<records,
      result>> /\ cur'[Watcher] = cur[Watcher] /\ pc[Watcher] \in {"permit", "copy"}
         /\ (timedOut[cur[Watcher]] => timedOut'[cur[Watcher]])
    BY <1>29, <1>w DEF Crash
  <2> QED
    BY <2>1, <1>c, <1>r, WatcherFrame
<1>30. CASE UNCHANGED vars
  <2>1. UNCHANGED <<records,
      result>> /\ cur'[Watcher] = cur[Watcher] /\ pc[Watcher] \in {"permit", "copy"}
         /\ (timedOut[cur[Watcher]] => timedOut'[cur[Watcher]])
    BY <1>30, <1>w DEF vars
  <2> QED
    BY <2>1, <1>c, <1>r, WatcherFrame
<1> QED
  BY <1>1, <1>2, <1>3, <1>4, <1>5, <1>6, <1>7, <1>8, <1>9, <1>10, <1>11, <1>12, <1>13, <1>14,
     <1>15, <1>16, <1>17, <1>18, <1>19, <1>20, <1>21, <1>22, <1>23, <1>24, <1>25, <1>26, <1>27,
     <1>28, <1>29, <1>30, StepCases

-----------------------------------------------------------------------------
(* The invariant and what follows from it.                                 *)

LEMMA IndInit == Init => IndInv
<1> SUFFICES ASSUME Init PROVE IndInv
  OBVIOUS
<1> USE ConstantFacts
<1>1. Pool!IndInv
  BY SameInit, PoolFacts, Pool!IndInit DEF Init
<1>2. TypeOK
  BY TypeInit
<1>3. PlaceInv
  BY DEF Init, PlaceInv, BatchPcs
<1>4. MutexInv
  BY DEF Init, MutexInv, HasMutex, BatchPcs
<1>5. PermitInv
  BY DEF Init, WP!Init, PermitInv, PermitTaken
<1>6. PutInv
  <2>1. \A s \in Shards : putLog[s] = <<>> /\ ToSet(putLog[s]) = {}
    BY DEF Init, ToSet
  <2>2. \A t \in Threads : pc[t] # "lock"
    BY DEF Init
  <2> QED
    BY <2>1, <2>2, SMTT(30) DEF PutInv, LogInv
<1>7. CalmInv
  BY DEF Init, CalmInv
<1>8. WatcherCheckHolds
  BY DEF Init, WatcherCheckHolds
<1> QED
  BY <1>1, <1>2, <1>3, <1>4, <1>5, <1>6, <1>7, <1>8 DEF IndInv

LEMMA IndStep == IndInv /\ [Next]_vars => IndInv'
<1> SUFFICES ASSUME IndInv, [Next]_vars PROVE IndInv'
  OBVIOUS
<1> USE DEF IndInv
<1>1. Pool!IndInv'
  BY PoolInvStep
<1>2. TypeOK'
  BY TypeStep
<1>3. PlaceInv'
  BY PlaceStep
<1>4. MutexInv'
  BY MutexStep
<1>5. PermitInv'
  BY PermitStep
<1>6. PutInv'
  BY PutStep
<1>7. CalmInv'
  BY CalmStep
<1>8. WatcherCheckHolds'
  BY WatcherStep
<1> QED
  BY <1>1, <1>2, <1>3, <1>4, <1>5, <1>6, <1>7, <1>8

(* The invariant holds in every behaviour of a client.                     *)
THEOREM Invariance == Spec => []IndInv
BY IndInit, IndStep, PTL DEF Spec

(* Every variable of the client keeps its type: client.h:18-76.            *)
THEOREM TypeCorrect == Spec => []TypeOK
<1>1. IndInv => TypeOK
  BY DEF IndInv
<1> QED
  BY <1>1, Invariance, PTL

(* What the watcher found under the mutex still holds when it takes the    *)
(* batch, as long as nobody calls flush(): client.h:161-167.               *)
THEOREM WatcherKeepsItsWord == Spec => []WatcherCheckHolds
<1>1. IndInv => WatcherCheckHolds
  BY DEF IndInv
<1> QED
  BY <1>1, Invariance, PTL

(* Without flush() and the destructor one thread at a time is at the       *)
(* records and the result of a shard: client.h:79-85, 117-120.             *)
THEOREM OneThreadAtAShard == Spec => []ShardExclusive
<1>1. ASSUME IndInv PROVE ShardExclusive
  <2> SUFFICES ASSUME Calm
               PROVE  /\ raced = {}
                      /\ \A t, u \in Threads :
                           t # u /\ cur[t] = cur[u] =>
                             ~({pc[t], pc[u]} \subseteq {"check", "permit", "copy", "clear",
                                 "await",
                                                        "acquire", "deliver", "assign"})
    BY DEF ShardExclusive, Calm
  <2>1. raced = {}
    BY <1>1 DEF IndInv, CalmInv, Calm
  <2>2. ASSUME NEW t \in Threads, NEW u \in Threads, t # u, cur[t] = cur[u],
               {pc[t], pc[u]} \subseteq {"check", "permit", "copy", "clear", "await",
                                         "acquire", "deliver", "assign"}
        PROVE  FALSE
    <3>1. HasMutex(t) /\ HasMutex(u)
      BY <1>1, <2>2, CalmMutex DEF IndInv, BatchPcs
    <3> QED
      BY <1>1, <2>2, <3>1 DEF IndInv, MutexInv
  <2> QED
    BY <2>1, <2>2
<1> QED
  BY <1>1, Invariance, PTL

(* The client takes no step with its pool that WorkerPool does not expect; *)
(* in particular nobody delivers an action when ~WorkerPool begins:        *)
(* client.h:62-77.                                                         *)
THEOREM ClientUsesPoolAsExpected == Spec => ImplementsWorkerPool
<1>1. Init => WP!Init
  BY DEF Init
<1>2. IndInv /\ [Next]_vars => [WP!Next \/ (terminated' /\ UNCHANGED otherPoolVars)]_(poolVars)
  <2> SUFFICES ASSUME IndInv, [Next]_vars
               PROVE  WP!Next \/ (terminated' /\ UNCHANGED otherPoolVars) \/ UNCHANGED poolVars
    OBVIOUS
  <2>1. terminated \in BOOLEAN
    BY DEF IndInv, Pool!IndInv, Pool!TypeOK
  <2> QED
    BY <2>1, PoolStep DEF IndInv, ProcessEnds
<1> QED
  BY <1>1, <1>2, Invariance, PTL DEF Spec, ImplementsWorkerPool
(* What the client sees of its pool is what ActionPool promises: whoever   *)
(* hands it an action and waits for the result may forget the threads, the *)
(* locks and the permits behind it.  ActionPool crashes only with an       *)
(* action in hand; the races of flush() can end the process at any moment  *)
(* (client.h:91, 102), and no action moves with that end.                  *)
EndsTheProcess ==
  /\ Pool!PhaseOf # "crashed" /\ Pool!PhaseOf' = "crashed"
  /\ \A a \in Actions : Pool!StageOf(a)' = Pool!StageOf(a)

ServedByActionPool ==
  /\ Pool!Abstract!Init
  /\ [][Pool!Abstract!Next \/ EndsTheProcess]_(Pool!Abstract!vars)

(* Every behaviour of the client is one of ActionPool up to the end of the *)
(* process: an action of put, of flush or of the watcher is accepted once  *)
(* and before the destructor, executed once and then resolved, and         *)
(* ~Client returns with none in hand (client.h:62-77, worker_pool.h:45).   *)
THEOREM ClientIsServedByActionPool == Spec => ServedByActionPool
<1>1. Init => Pool!Abstract!Init
  BY SameInit, PoolFacts, Pool!InitMaps DEF Init
<1>2. IndInv /\ [Next]_vars => [Pool!Abstract!Next \/ EndsTheProcess]_(Pool!Abstract!vars)
  <2> SUFFICES ASSUME IndInv, [Next]_vars
               PROVE  [Pool!Abstract!Next \/ EndsTheProcess]_(Pool!Abstract!vars)
    OBVIOUS
  <2>1. terminated \in BOOLEAN
    BY DEF IndInv, Pool!IndInv, Pool!TypeOK
  <2>2. ASSUME WP!Next \/ UNCHANGED poolVars
        PROVE  [Pool!Abstract!Next]_(Pool!Abstract!vars)
    <3>1. [Pool!Next]_Pool!poolVars
      BY <2>2, SameNext DEF Pool!poolVars
    <3> QED
      BY <3>1, PoolFacts, Pool!StepMaps DEF IndInv
  <2>3. CASE ProcessEnds /\ terminated
    <3>1. UNCHANGED poolVars
      BY <2>1, <2>3 DEF ProcessEnds
    <3> QED
      BY <2>2, <3>1
  <2>4. CASE ProcessEnds /\ ~terminated
    <3>1. Pool!PhaseOf # "crashed" /\ Pool!PhaseOf' = "crashed"
      BY <2>4 DEF ProcessEnds, Pool!PhaseOf, IndInv, Pool!IndInv, Pool!TypeOK, Pool!CloserPcs
    <3>2. \A a \in Actions : Pool!StageOf(a)' = Pool!StageOf(a)
      BY <2>4 DEF ProcessEnds, Pool!StageOf
    <3> QED
      BY <3>1, <3>2 DEF EndsTheProcess
  <2> QED
    BY <2>1, <2>2, <2>3, <2>4, PoolStep DEF IndInv
<1> QED
  BY <1>1, <1>2, Invariance, PTL DEF Spec, ServedByActionPool
=============================================================================
