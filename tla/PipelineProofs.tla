---------------------------- MODULE PipelineProofs ----------------------------
(***************************************************************************)
(* Proofs about Client: the order of the batches of a shard, as long as    *)
(* nobody calls flush(), or the only application thread does and no empty  *)
(* batch has been handed to a worker; and that a shard is then a queue.    *)
(* At the end, for every client: who waits for whom.                       *)
(***************************************************************************)
EXTENDS BatchProofs

(* The groups of variables, and the jump of a thread, are always expanded. *)
USE DEF shardVars, localVars, requestVars, otherPoolVars, poolVars, restOfPool,
        clientVars, Goto

-----------------------------------------------------------------------------
(* The invariant.                                                          *)

(* When the order is kept.                                                 *)
Orderly == flushes = 0 \/ (AppThreads = {Owner} /\ EmptyBatches = {})

(* A thread on its way with a batch has one that is not empty, ...         *)
Loaded(t) ==
  /\ pc[t] \in {"await", "acquire"} => taken[t] # <<>>
  /\ pc[t] = "deliver" => taken[t] # <<>> \/ terminated
  /\ pc[t] = "assign" => payload[future[t]] # <<>>

(* ... and one that takes a batch out of a shard finds one.                *)
Fetching(t) ==
  /\ pc[t] = "clear" => taken[t] # <<>>
  /\ pc[t] = "copy" => records[cur[t]] # <<>>

(* So it is for flush() and the destructor, and in the calm for everybody. *)
LoadedInv ==
  \A t \in Threads :
    /\ job[t] \in {"flush", "close"} \/ Calm => Loaded(t)
    /\ Calm => Fetching(t)

(* The threads that wait with a batch of shard s no longer for the         *)
(* previous one, and those that gave it away and have to keep its future.  *)
Passed(s) == {t \in Holding(s) : pc[t] \in {"acquire", "deliver"}}
Assigning(s) == {t \in Threads : cur[t] = s /\ pc[t] = "assign" /\ payload[future[t]] # <<>>}
Busy(s) == Holding(s) \union Assigning(s)

(* The watcher has found the shard ready, and has no batch of it.          *)
WatcherAt(s) ==
  /\ cur[Watcher] = s
  /\ \/ pc[Watcher] \in {"permit", "copy", "clear"}
     \/ pc[Watcher] = "deliver" /\ taken[Watcher] = <<>> /\ dpc[Watcher] # "idle"
     \/ pc[Watcher] = "assign" /\ payload[future[Watcher]] = <<>>

(* While a thread is on its way with a batch, the vector is empty and no   *)
(* other thread is.                                                        *)
BusyInv(s) == \A t \in Busy(s) : records[s] = <<>> /\ \A u \in Busy(s) : u = t

(* One batch is with a worker.  The shard has its future, or the thread    *)
(* that gave it away has, or the destructor has been there.                *)
KnownInv(s) ==
  /\ \A a, b \in Underway(s) : a = b
  /\ \A t \in Assigning(s) : Underway(s) \subseteq {future[t]}
  /\ \A a \in Underway(s) :
       \/ result[s] = a
       \/ \E t \in Assigning(s) : future[t] = a
       \/ job[Owner] = "close" /\ records[s] = <<>> /\ Holding(s) = {}

(* Whoever is past the wait has waited for it.                             *)
WaitedInv(s) ==
  /\ Passed(s) # {} => Underway(s) = {}
  /\ WatcherAt(s) => Underway(s) = {} \/ (records[s] = <<>> /\ Holding(s) = {})

(* The records of one sequence were put before those of the other.         *)
Before(seq1, seq2, log) ==
  \A i \in DOMAIN seq1, j \in DOMAIN seq2 :
    \E k, l \in DOMAIN log : k < l /\ log[k] = seq1[i] /\ log[l] = seq2[j]

(* The order of what was put longest ago.                                  *)
FrontInv(s) ==
  /\ InOrderOf(database[s], putLog[s])
  /\ \A a \in Underway(s) : Before(database[s], payload[a], putLog[s])
  /\ \A t \in Holding(s) : EndOf(taken[t], putLog[s])

(* The line of batches of a shard.                                         *)
LineInv(s) == BusyInv(s) /\ KnownInv(s) /\ WaitedInv(s) /\ FrontInv(s)

(* No vector and no batch has more than TargetNumRecords records.          *)
BoundInv(s) ==
  /\ Len(records[s]) <= TargetNumRecords
  /\ \A t \in Holding(s) : Len(taken[t]) <= TargetNumRecords
  /\ \A a \in Batches(s) : Len(payload[a]) <= TargetNumRecords

(* All of it; the order only where the client keeps it.                    *)
PipelineInv ==
  /\ BatchInv /\ LoadedInv
  /\ \A s \in Shards \ raced : BoundInv(s) /\ (Orderly => LineInv(s))

-----------------------------------------------------------------------------
(* Sequences in the order of a log.                                        *)

(* The domains and elements of two sequences together.                     *)
LEMMA ConcatParts ==
  ASSUME NEW S, NEW p \in Seq(S), NEW q \in Seq(S), NEW i \in DOMAIN (p \o q)
  PROVE  \/ i \in DOMAIN p /\ (p \o q)[i] = p[i]
         \/ i - Len(p) \in DOMAIN q /\ (p \o q)[i] = q[i - Len(p)] /\ i > Len(p)
<1>1. /\ DOMAIN p = 1 .. Len(p) /\ DOMAIN q = 1 .. Len(q) /\ Len(p) \in Nat /\ Len(q) \in Nat
      /\ DOMAIN (p \o q) = 1 .. Len(p) + Len(q)
      /\ \A k \in 1 .. Len(p) + Len(q) :
           (p \o q)[k] = IF k <= Len(p) THEN p[k] ELSE q[k - Len(p)]
  BY SMT
<1>2. CASE i <= Len(p)
  BY <1>1, <1>2
<1>3. CASE ~(i <= Len(p))
  BY <1>1, <1>3
<1> QED
  BY <1>2, <1>3

(* Two sequences in order, one before the other.                           *)
LEMMA InOrderConcat ==
  ASSUME NEW S, NEW p \in Seq(S), NEW q \in Seq(S), NEW log,
         InOrderOf(p, log), InOrderOf(q, log), Before(p, q, log)
  PROVE  InOrderOf(p \o q, log)
<1>1. SUFFICES ASSUME NEW i \in DOMAIN (p \o q), NEW j \in DOMAIN (p \o q), i < j
               PROVE  \E k, l \in DOMAIN log :
                        k < l /\ log[k] = (p \o q)[i] /\ log[l] = (p \o q)[j]
  BY DEF InOrderOf
<1>2. Len(p) \in Nat /\ DOMAIN p = 1 .. Len(p) /\ i \in Nat /\ j \in Nat
  BY SMT
<1>3. CASE i \in DOMAIN p /\ (p \o q)[i] = p[i]
  <2>1. CASE j \in DOMAIN p /\ (p \o q)[j] = p[j]
    BY <1>1, <1>3, <2>1 DEF InOrderOf
  <2>2. CASE j - Len(p) \in DOMAIN q /\ (p \o q)[j] = q[j - Len(p)]
    BY <1>3, <2>2 DEF Before
  <2> QED
    BY <2>1, <2>2, ConcatParts
<1>4. CASE i - Len(p) \in DOMAIN q /\ (p \o q)[i] = q[i - Len(p)] /\ i > Len(p)
  <2>1. j - Len(p) \in DOMAIN q /\ (p \o q)[j] = q[j - Len(p)]
    <3>1. j \notin DOMAIN p
      BY <1>1, <1>2, <1>4
    <3> QED
      BY <3>1, ConcatParts
  <2>2. i - Len(p) < j - Len(p)
    BY <1>1, <1>2
  <2> QED
    BY <1>4, <2>1, <2>2 DEF InOrderOf
<1> QED
  BY <1>3, <1>4, ConcatParts

(* What is before, or after, two sequences is so for both together.        *)
LEMMA BeforeConcat ==
  ASSUME NEW S, NEW p \in Seq(S), NEW q \in Seq(S), NEW seq, NEW log
  PROVE  /\ Before(p, seq, log) /\ Before(q, seq, log) => Before(p \o q, seq, log)
         /\ Before(seq, p, log) /\ Before(seq, q, log) => Before(seq, p \o q, log)
<1>1. ASSUME Before(p, seq, log), Before(q, seq, log) PROVE Before(p \o q, seq, log)
  BY <1>1, ConcatParts DEF Before
<1>2. ASSUME Before(seq, p, log), Before(seq, q, log) PROVE Before(seq, p \o q, log)
  BY <1>2, ConcatParts DEF Before
<1> QED
  BY <1>1, <1>2

(* A run is in order.                                                      *)
LEMMA RunInOrder ==
  ASSUME NEW S, NEW seq \in Seq(S), NEW log \in Seq(S), Run(seq, log)
  PROVE  InOrderOf(seq, log)
<1>1. PICK n \in 0 .. Len(log) : RunAt(seq, log, n)
  BY DEF Run
<1>2. /\ DOMAIN seq = 1 .. Len(seq) /\ DOMAIN log = 1 .. Len(log)
      /\ Len(seq) \in Nat /\ Len(log) \in Nat /\ n \in Nat
  BY <1>1, SMT
<1>3. \A i \in DOMAIN seq : n + i \in DOMAIN log /\ log[n + i] = seq[i]
  BY <1>1, <1>2 DEF RunAt
<1>4. \A i, j \in DOMAIN seq : i < j => n + i < n + j
  BY <1>2
<1> QED
  BY <1>3, <1>4 DEF InOrderOf

(* What is in the log and not in its end is before its end.                *)
LEMMA BeforeEnd ==
  ASSUME NEW S, NEW p \in Seq(S), NEW q \in Seq(S), NEW log \in Seq(S),
         ToSet(p) \subseteq ToSet(log), Apart(p, q), EndOf(q, log)
  PROVE  Before(p, q, log)
<1>1. PICK n \in 0 .. Len(log) : RunAt(q, log, n) /\ n + Len(q) = Len(log)
  BY DEF EndOf
<1>2. /\ DOMAIN q = 1 .. Len(q) /\ DOMAIN log = 1 .. Len(log)
      /\ Len(q) \in Nat /\ Len(log) \in Nat /\ n \in Nat
  BY <1>1, SMT
<1>3. SUFFICES ASSUME NEW i \in DOMAIN p, NEW j \in DOMAIN q
               PROVE  \E k, l \in DOMAIN log : k < l /\ log[k] = p[i] /\ log[l] = q[j]
  BY DEF Before
<1>4. PICK k \in DOMAIN log : log[k] = p[i]
  <2>1. p[i] \in ToSet(log)
    BY DEF ToSet
  <2> QED
    BY <2>1 DEF ToSet
<1>5. k <= n
  <2>1. SUFFICES ASSUME k > n PROVE FALSE
    BY <1>2
  <2>2. k - n \in DOMAIN q /\ k = n + (k - n)
    BY <1>1, <1>2, <2>1
  <2>3. q[k - n] = log[k]
    BY <1>1, <1>2, <2>2 DEF RunAt
  <2>4. p[i] \in ToSet(p) /\ p[i] \in ToSet(q)
    BY <1>4, <2>2, <2>3 DEF ToSet
  <2> QED
    BY <2>4 DEF Apart
<1>6. n + j \in DOMAIN log /\ log[n + j] = q[j] /\ k < n + j
  BY <1>1, <1>2, <1>5 DEF RunAt
<1> QED
  BY <1>4, <1>6

(* The order stays when the log grows.                                     *)
LEMMA OrderGrows ==
  ASSUME NEW S, NEW log \in Seq(S), NEW r \in S, NEW p, NEW q
  PROVE  /\ InOrderOf(p, log) => InOrderOf(p, Append(log, r))
         /\ Before(p, q, log) => Before(p, q, Append(log, r))
<1>1. \A k \in DOMAIN log : k \in DOMAIN Append(log, r) /\ Append(log, r)[k] = log[k]
  BY SMT
<1>2. ASSUME InOrderOf(p, log) PROVE InOrderOf(p, Append(log, r))
  BY <1>1, <1>2 DEF InOrderOf
<1>3. ASSUME Before(p, q, log) PROVE Before(p, q, Append(log, r))
  BY <1>1, <1>3 DEF Before
<1> QED
  BY <1>2, <1>3

-----------------------------------------------------------------------------
(* What a step does to the line of batches of a shard.                     *)

(* What a step can leave alone.                                            *)
QueueStays(s) ==
  records'[s] = records[s] /\ putLog'[s] = putLog[s] /\ database'[s] = database[s]
HoldersStay(s) ==
  Holding(s)' = Holding(s) /\ Passed(s)' = Passed(s) /\ \A t \in Holding(s) : taken'[t] = taken[t]
KeepersStay(s) ==
  Assigning(s)' = Assigning(s) /\ \A t \in Assigning(s) : future'[t] = future[t]
UnderwayStays(s) ==
  Underway(s)' = Underway(s) /\ \A a \in Underway(s) : payload'[a] = payload[a]
KnownStays(s) == result'[s] = result[s] /\ (job[Owner] = "close" => job'[Owner] = "close")

(* Nothing comes to the line; a batch in hand may be dropped, and one that *)
(* is underway refused.                                                    *)
Fade(s) ==
  /\ QueueStays(s) /\ KeepersStay(s) /\ KnownStays(s)
  /\ Holding(s)' \subseteq Holding(s) /\ Passed(s)' \subseteq Passed(s)
  /\ \A t \in Holding(s)' : taken'[t] = taken[t]
  /\ Underway(s)' \subseteq Underway(s) /\ \A a \in Underway(s)' : payload'[a] = payload[a]
  /\ WatcherAt(s)' => WatcherAt(s)

(* The database loads the batch of action a.                               *)
Loads(a, s) ==
  /\ a \in Underway(s) /\ Underway(s)' = Underway(s) \ {a}
  /\ database'[s] = database[s] \o payload[a] /\ \A b \in Underway(s)' : payload'[b] = payload[b]
  /\ records'[s] = records[s] /\ putLog'[s] = putLog[s]
  /\ HoldersStay(s) /\ KeepersStay(s) /\ KnownStays(s) /\ (WatcherAt(s)' => WatcherAt(s))

(* A record is put while nobody is on the way.                             *)
Puts(r, s) ==
  /\ Busy(s) = {} /\ ~WatcherAt(s)' /\ job[Owner] # "close"
  /\ records'[s] = Append(records[s], r) /\ putLog'[s] = Append(putLog[s], r)
  /\ database'[s] = database[s]
  /\ HoldersStay(s) /\ KeepersStay(s) /\ UnderwayStays(s) /\ KnownStays(s)

(* Thread t takes a batch that is not empty out of the shard.              *)
Takes(t, s) ==
  /\ records[s] # <<>> /\ taken[t] = records[s] /\ taken'[t] = records[s] /\ records'[s] = <<>>
  /\ putLog'[s] = putLog[s] /\ database'[s] = database[s]
  /\ Holding(s)' = Holding(s) \union {t} /\ \A u \in Holding(s) : taken'[u] = taken[u]
  /\ Passed(s)' = Passed(s) \/ (Passed(s)' = Passed(s) \union {t} /\ WatcherAt(s))
  /\ WatcherAt(s)' => WatcherAt(s)
  /\ KeepersStay(s) /\ UnderwayStays(s) /\ KnownStays(s)

(* Thread t has waited for the previous batch.                             *)
Waits(t, s) ==
  /\ t \in Holding(s) /\ Ready(s)
  /\ Holding(s)' = Holding(s) /\ Passed(s)' = Passed(s) \union {t}
  /\ \A u \in Holding(s) : taken'[u] = taken[u]
  /\ QueueStays(s) /\ KeepersStay(s) /\ UnderwayStays(s) /\ KnownStays(s)
  /\ WatcherAt(s)' => WatcherAt(s)

(* Thread t gives its batch to a worker, as action a.                      *)
Gives(t, a, s) ==
  /\ t \in Passed(s) /\ Holding(s)' = Holding(s) \ {t} /\ Passed(s)' = Passed(s) \ {t}
  /\ Assigning(s)' = Assigning(s) \union {t} /\ future'[t] = a
  /\ Underway(s)' = Underway(s) \union {a} /\ payload'[a] = taken[t]
  /\ \A u \in Holding(s)' : taken'[u] = taken[u]
  /\ \A u \in Assigning(s) : future'[u] = future[u]
  /\ \A b \in Underway(s) : payload'[b] = payload[b]
  /\ QueueStays(s) /\ KnownStays(s) /\ (WatcherAt(s)' => WatcherAt(s))

(* Thread t keeps the future of its batch.                                 *)
Keeps(t, s) ==
  /\ t \in Assigning(s) /\ Assigning(s)' = Assigning(s) \ {t} /\ result'[s] = future[t]
  /\ \A u \in Assigning(s)' : future'[u] = future[u]
  /\ job[Owner] = "close" => job'[Owner] = "close"
  /\ QueueStays(s) /\ HoldersStay(s) /\ UnderwayStays(s) /\ (WatcherAt(s)' => WatcherAt(s))

(* The watcher keeps the future of an empty batch instead.                 *)
Forgets(s) ==
  /\ WatcherAt(s) /\ ~WatcherAt(s)' /\ job[Owner] = "close" /\ job'[Owner] = "close"
  /\ QueueStays(s) /\ HoldersStay(s) /\ KeepersStay(s) /\ UnderwayStays(s)

(* The watcher finds records in the shard, and its previous batch done.    *)
Finds(s) ==
  /\ Ready(s) /\ records[s] # <<>>
  /\ QueueStays(s) /\ HoldersStay(s) /\ KeepersStay(s) /\ UnderwayStays(s) /\ KnownStays(s)

(* Every step is one of these for a shard that is not raced.               *)
LineMoves(s) ==
  \/ Fade(s) \/ Forgets(s) \/ Finds(s)
  \/ \E r \in Records : Puts(r, s)
  \/ \E t \in Threads : Takes(t, s) \/ Waits(t, s) \/ Keeps(t, s)
  \/ \E a \in Actions : Loads(a, s)
  \/ \E t \in Threads, a \in Actions : Gives(t, a, s)

-----------------------------------------------------------------------------
(* The moves keep the line.                                                *)

(* Who is in which set.                                                    *)
LEMMA LineSets ==
  ASSUME NEW s
  PROVE  /\ Passed(s) \subseteq Holding(s) /\ Holding(s) \subseteq Threads
         /\ Assigning(s) \subseteq Threads /\ Underway(s) \subseteq Actions
         /\ Holding(s) \cap Assigning(s) = {}
         /\ Passed(s)' \subseteq Holding(s)'
BY DEF Passed, Holding, Assigning, Underway

(* A shard that is ready has no batch underway, unless the thread that has *)
(* to keep its future has not done so.                                     *)
LEMMA ReadyIsDone ==
  ASSUME NEW s, Pool!WrittenOnce, NoAction \notin Actions, KnownInv(s), Ready(s),
         Assigning(s) = {},
         records[s] # <<>> \/ Holding(s) # {}
  PROVE  Underway(s) = {}
<1>1. SUFFICES ASSUME NEW a \in Underway(s) PROVE FALSE
  OBVIOUS
<1>2. a \in Actions /\ writes[a] = 0
  BY DEF Underway
<1>3. result[s] = a
  BY DEF KnownInv
<1>4. a \in resolved
  BY <1>2, <1>3 DEF Ready
<1> QED
  BY <1>2, <1>4 DEF Pool!WrittenOnce

(* One thread at a time is on its way with a batch.                        *)
LEMMA BusyStep ==
  ASSUME NEW s, BusyInv(s), LineMoves(s)
  PROVE  BusyInv(s)'
<1> USE LineSets DEF BusyInv, Busy
<1>1. CASE Fade(s) \/ Forgets(s) \/ Finds(s)
  BY <1>1 DEF Fade, Forgets, Finds, QueueStays, HoldersStay, KeepersStay
<1>2. ASSUME NEW r \in Records, Puts(r, s) PROVE BusyInv(s)'
  BY <1>2 DEF Puts, HoldersStay, KeepersStay
<1>3. ASSUME NEW t \in Threads, Takes(t, s) PROVE BusyInv(s)'
  BY <1>3 DEF Takes, KeepersStay
<1>4. ASSUME NEW t \in Threads, Waits(t, s) PROVE BusyInv(s)'
  BY <1>4 DEF Waits, QueueStays, KeepersStay
<1>5. ASSUME NEW t \in Threads, Keeps(t, s) PROVE BusyInv(s)'
  BY <1>5 DEF Keeps, QueueStays, HoldersStay
<1>6. ASSUME NEW a \in Actions, Loads(a, s) PROVE BusyInv(s)'
  BY <1>6 DEF Loads, HoldersStay, KeepersStay
<1>7. ASSUME NEW t \in Threads, NEW a \in Actions, Gives(t, a, s) PROVE BusyInv(s)'
  BY <1>7 DEF Gives, QueueStays
<1> QED
  BY <1>1, <1>2, <1>3, <1>4, <1>5, <1>6, <1>7 DEF LineMoves

(* One batch at a time is underway, and somebody knows of it.              *)
LEMMA KnownStep ==
  ASSUME NEW s, BusyInv(s), KnownInv(s), WaitedInv(s), LineMoves(s)
  PROVE  KnownInv(s)'
<1> USE LineSets
<1>1. CASE Fade(s)
  BY <1>1 DEF KnownInv, Fade, QueueStays, KeepersStay, KnownStays
<1>2. CASE Finds(s)
  BY <1>2 DEF KnownInv, Finds, QueueStays, HoldersStay, KeepersStay, UnderwayStays, KnownStays
<1>3. CASE Forgets(s)
  BY <1>3 DEF KnownInv, WaitedInv, Forgets, QueueStays, HoldersStay, KeepersStay, UnderwayStays
<1>4. ASSUME NEW r \in Records, Puts(r, s) PROVE KnownInv(s)'
  BY <1>4 DEF KnownInv, Puts, HoldersStay, KeepersStay, UnderwayStays, KnownStays
<1>5. ASSUME NEW t \in Threads, Takes(t, s) PROVE KnownInv(s)'
  BY <1>5 DEF KnownInv, Takes, KeepersStay, UnderwayStays, KnownStays
<1>6. ASSUME NEW t \in Threads, Waits(t, s) PROVE KnownInv(s)'
  BY <1>6 DEF KnownInv, Waits, QueueStays, KeepersStay, UnderwayStays, KnownStays
<1>7. ASSUME NEW t \in Threads, Keeps(t, s) PROVE KnownInv(s)'
  BY <1>7 DEF KnownInv, BusyInv, Busy, Keeps, QueueStays, HoldersStay, UnderwayStays
<1>8. ASSUME NEW a \in Actions, Loads(a, s) PROVE KnownInv(s)'
  BY <1>8 DEF KnownInv, Loads, HoldersStay, KeepersStay, KnownStays
<1>9. ASSUME NEW t \in Threads, NEW a \in Actions, Gives(t, a, s) PROVE KnownInv(s)'
  <2>1. Underway(s) = {} /\ Assigning(s) = {}
    BY <1>9 DEF Gives, WaitedInv, BusyInv, Busy
  <2> QED
    BY <1>9, <2>1 DEF KnownInv, Gives
<1> QED
  BY <1>1, <1>2, <1>3, <1>4, <1>5, <1>6, <1>7, <1>8, <1>9 DEF LineMoves

(* Nobody passes the wait too early.                                       *)
LEMMA WaitedStep ==
  ASSUME NEW s, Pool!WrittenOnce, NoAction \notin Actions, BusyInv(s), KnownInv(s),
         WaitedInv(s), LineMoves(s)
  PROVE  WaitedInv(s)'
<1> USE LineSets
<1>1. CASE Fade(s)
  BY <1>1 DEF WaitedInv, Fade, QueueStays
<1>2. CASE Finds(s)
  <2>1. Underway(s) = {}
    BY <1>2, ReadyIsDone DEF Finds, BusyInv, Busy
  <2> QED
    BY <1>2, <2>1 DEF WaitedInv, Finds, UnderwayStays
<1>3. CASE Forgets(s)
  BY <1>3 DEF WaitedInv, Forgets, HoldersStay, UnderwayStays
<1>4. ASSUME NEW r \in Records, Puts(r, s) PROVE WaitedInv(s)'
  BY <1>4 DEF WaitedInv, Puts, HoldersStay, UnderwayStays
<1>5. ASSUME NEW t \in Threads, Takes(t, s) PROVE WaitedInv(s)'
  BY <1>5 DEF WaitedInv, Takes, UnderwayStays
<1>6. ASSUME NEW t \in Threads, Waits(t, s) PROVE WaitedInv(s)'
  <2>1. Underway(s) = {}
    BY <1>6, ReadyIsDone DEF Waits, BusyInv, Busy
  <2> QED
    BY <1>6, <2>1 DEF WaitedInv, Waits, UnderwayStays
<1>7. ASSUME NEW t \in Threads, Keeps(t, s) PROVE WaitedInv(s)'
  BY <1>7 DEF WaitedInv, Keeps, QueueStays, HoldersStay, UnderwayStays
<1>8. ASSUME NEW a \in Actions, Loads(a, s) PROVE WaitedInv(s)'
  BY <1>8 DEF WaitedInv, Loads, HoldersStay
<1>9. ASSUME NEW t \in Threads, NEW a \in Actions, Gives(t, a, s) PROVE WaitedInv(s)'
  <2>1. Holding(s) = {t} /\ records[s] = <<>>
    BY <1>9 DEF Gives, BusyInv, Busy
  <2> QED
    BY <1>9, <2>1 DEF WaitedInv, Gives, QueueStays
<1> QED
  BY <1>1, <1>2, <1>3, <1>4, <1>5, <1>6, <1>7, <1>8, <1>9 DEF LineMoves

(* The front of the line keeps the order of the puts.                      *)
LEMMA FrontStep ==
  ASSUME NEW s, Pool!IndInv, ShardTypes(s), ShardTypes(s)', ShardInv(s), BusyInv(s),
         KnownInv(s), WaitedInv(s), FrontInv(s), LineMoves(s)
  PROVE  FrontInv(s)'
<1> USE LineSets
<1>1. CASE Fade(s)
  BY <1>1 DEF FrontInv, Fade, QueueStays
<1>2. CASE Forgets(s) \/ Finds(s)
  BY <1>2 DEF FrontInv, Forgets, Finds, QueueStays, HoldersStay, UnderwayStays
<1>3. ASSUME NEW r \in Records, Puts(r, s) PROVE FrontInv(s)'
  <2>1. InOrderOf(database'[s], putLog'[s])
    BY <1>3, OrderGrows DEF FrontInv, Puts, ShardTypes
  <2>2. \A a \in Underway(s)' : Before(database'[s], payload'[a], putLog'[s])
    BY <1>3, OrderGrows DEF FrontInv, Puts, UnderwayStays, ShardTypes
  <2>3. Holding(s)' = {}
    BY <1>3 DEF Puts, HoldersStay, Busy
  <2> QED
    BY <2>1, <2>2, <2>3 DEF FrontInv
<1>4. ASSUME NEW t \in Threads, Takes(t, s) PROVE FrontInv(s)'
  <2>1. Holding(s) = {}
    BY <1>4 DEF Takes, BusyInv, Busy
  <2>2. EndOf(taken'[t], putLog'[s])
    BY <1>4 DEF Takes, ShardInv, RunInv
  <2> QED
    BY <1>4, <2>1, <2>2 DEF FrontInv, Takes, UnderwayStays
<1>5. ASSUME NEW t \in Threads, Waits(t, s) PROVE FrontInv(s)'
  BY <1>5 DEF FrontInv, Waits, QueueStays, UnderwayStays
<1>6. ASSUME NEW t \in Threads, Keeps(t, s) PROVE FrontInv(s)'
  BY <1>6 DEF FrontInv, Keeps, QueueStays, HoldersStay, UnderwayStays
<1>7. ASSUME NEW a \in Actions, Loads(a, s) PROVE FrontInv(s)'
  <2>1. Underway(s)' = {}
    BY <1>7 DEF Loads, KnownInv
  <2>2. Run(payload[a], putLog[s])
    BY <1>7, UnderwayFacts DEF Loads, ShardInv, RunInv
  <2>3. InOrderOf(payload[a], putLog[s])
    BY <2>2, RunInOrder DEF ShardTypes
  <2>4. InOrderOf(database[s] \o payload[a], putLog[s])
    BY <1>7, <2>3, InOrderConcat DEF FrontInv, Loads, ShardTypes
  <2> QED
    BY <1>7, <2>1, <2>4 DEF FrontInv, Loads, HoldersStay
<1>8. ASSUME NEW t \in Threads, NEW a \in Actions, Gives(t, a, s) PROVE FrontInv(s)'
  <2>1. t \in Holding(s) /\ Underway(s) = {}
    BY <1>8 DEF Gives, WaitedInv
  <2>2. Apart(database[s], taken[t])
    BY <2>1 DEF ShardInv, ApartInv, StoredInv, Apart, Written
  <2>3. ToSet(database[s]) \subseteq ToSet(putLog[s])
    BY RunFacts DEF ShardInv, RunInv, StoredInv, Written, Batches, ShardTypes
  <2>4. Before(database[s], taken[t], putLog[s])
    BY <2>1, <2>2, <2>3, BeforeEnd DEF FrontInv, ShardTypes
  <2> QED
    BY <1>8, <2>1, <2>4 DEF FrontInv, Gives, QueueStays
<1> QED
  BY <1>1, <1>2, <1>3, <1>4, <1>5, <1>6, <1>7, <1>8 DEF LineMoves

(* All that holds of a line.                                               *)
LEMMA LineStep ==
  ASSUME NEW s, Pool!IndInv, ShardTypes(s), ShardTypes(s)', ShardInv(s), LineInv(s),
         LineMoves(s)
  PROVE  LineInv(s)'
<1>1. Pool!WrittenOnce /\ NoAction \notin Actions
  BY PoolFacts DEF Pool!IndInv
<1> QED
  BY <1>1, BusyStep, KnownStep, WaitedStep, FrontStep DEF LineInv

-----------------------------------------------------------------------------
(* Every step of the client is one of the moves.                           *)

(* Thread t is past the wait with a batch of shard s, or keeps its future. *)
Passes(t, s) == HasBatch(t, s) /\ pc[t] \in {"acquire", "deliver"}
Keeping(t, s) == cur[t] = s /\ pc[t] = "assign" /\ payload[future[t]] # <<>>

(* Nobody but thread t does anything.                                      *)
OnlyMoves(t) ==
  \A u \in Threads \ {t} :
    /\ pc'[u] = pc[u] /\ cur'[u] = cur[u] /\ taken'[u] = taken[u] /\ future'[u] = future[u]
    /\ dpc'[u] # "idle" => dpc[u] # "idle"

(* Who is in the line, thread by thread.                                   *)
LEMMA LineIs ==
  ASSUME NEW s
  PROVE  /\ Passed(s) = {t \in Threads : Passes(t, s)}
         /\ Passed(s)' = {t \in Threads : Passes(t, s)'}
         /\ Assigning(s) = {t \in Threads : Keeping(t, s)}
         /\ Assigning(s)' = {t \in Threads : Keeping(t, s)'}
BY HoldingIs DEF Passed, Passes, Assigning, Keeping

(* The threads that do nothing stay where they are.                        *)
LEMMA OthersInLine ==
  ASSUME NEW s, NEW t \in Threads, OnlyMoves(t),
         \A u \in Threads : pc[u] = "assign" => payload'[future[u]] = payload[future[u]]
  PROVE  /\ \A u \in Threads \ {t} : /\ HasBatch(u, s)' <=> HasBatch(u, s)
                                     /\ Passes(u, s)' <=> Passes(u, s)
                                     /\ Keeping(u, s)' <=> Keeping(u, s)
                                     /\ taken'[u] = taken[u] /\ future'[u] = future[u]
         /\ t # Watcher /\ WatcherAt(s)' => WatcherAt(s)
<1> USE ConstantFacts
<1>1. \A u \in Threads \ {t} : HasBatch(u, s)' <=> HasBatch(u, s)
  BY DEF OnlyMoves, HasBatch
<1>2. \A u \in Threads \ {t} : Passes(u, s)' <=> Passes(u, s)
  BY <1>1 DEF OnlyMoves, Passes
<1>3. \A u \in Threads \ {t} : Keeping(u, s)' <=> Keeping(u, s)
  BY DEF OnlyMoves, Keeping
<1>4. t # Watcher /\ WatcherAt(s)' => WatcherAt(s)
  BY DEF OnlyMoves, WatcherAt
<1> QED
  BY <1>1, <1>2, <1>3, <1>4 DEF OnlyMoves

(* Who has waited, and who keeps a future, stays.                          *)
LEMMA PassedStays ==
  ASSUME NEW s, \A u \in Threads : Passes(u, s)' <=> Passes(u, s)
  PROVE  Passed(s)' = Passed(s)
BY LineIs

(* Who has to keep a future stays.                                         *)
LEMMA KeepersFrame ==
  ASSUME NEW s,
         \A u \in Threads : /\ Keeping(u, s)' <=> Keeping(u, s)
                            /\ Keeping(u, s) => future'[u] = future[u]
  PROVE  KeepersStay(s)
BY LineIs DEF KeepersStay

(* Nobody joins the line.                                                  *)
LEMMA FadeFrame ==
  ASSUME NEW s, QueueStays(s), KnownStays(s), UnderwayStays(s), WatcherAt(s)' => WatcherAt(s),
         \A u \in Threads : /\ HasBatch(u, s)' => HasBatch(u, s) /\ taken'[u] = taken[u]
                            /\ Passes(u, s)' => Passes(u, s)
                            /\ Keeping(u, s)' <=> Keeping(u, s)
                            /\ Keeping(u, s) => future'[u] = future[u]
  PROVE  Fade(s)
<1>1. Holding(s)' \subseteq Holding(s) /\ \A t \in Holding(s)' : taken'[t] = taken[t]
  BY HoldingIs
<1>2. Passed(s)' \subseteq Passed(s)
  BY LineIs
<1>3. KeepersStay(s)
  BY LineIs DEF KeepersStay
<1> QED
  BY <1>1, <1>2, <1>3 DEF Fade, UnderwayStays

(* The line stays as it is.                                                *)
LEMMA StayFrame ==
  ASSUME NEW s,
         \A u \in Threads : /\ HasBatch(u, s)' <=> HasBatch(u, s)
                            /\ HasBatch(u, s) => taken'[u] = taken[u]
                            /\ Passes(u, s)' <=> Passes(u, s)
                            /\ Keeping(u, s)' <=> Keeping(u, s)
                            /\ Keeping(u, s) => future'[u] = future[u]
  PROVE  HoldersStay(s) /\ KeepersStay(s)
<1>1. Holding(s)' = Holding(s) /\ \A t \in Holding(s) : taken'[t] = taken[t]
  BY HoldingIs
<1>2. Passed(s)' = Passed(s)
  BY LineIs
<1>3. KeepersStay(s)
  BY LineIs DEF KeepersStay
<1> QED
  BY <1>1, <1>2, <1>3 DEF HoldersStay

(* The batches that are underway stay.                                     *)
LEMMA UnderwayFrame ==
  ASSUME NEW s, UNCHANGED <<payload, writes>>,
         \A a \in Actions : fate'[a] = "accepted" <=> fate[a] = "accepted"
  PROVE  UnderwayStays(s)
BY DEF UnderwayStays, Underway, ShardOfBatch

(* The places of a thread with a batch, or with a future to keep.          *)
LinePcs == {"await", "acquire", "deliver", "assign"}

(* A thread that is not in the line, and does not enter it, moves.         *)
LEMMA AwayFrame ==
  ASSUME NEW s, NEW t \in Threads, OnlyMoves(t), UNCHANGED payload,
         pc[t] \notin LinePcs, pc'[t] \notin LinePcs
  PROVE  HoldersStay(s) /\ KeepersStay(s)
<1>1. /\ ~HasBatch(t, s) /\ ~Passes(t, s) /\ ~Keeping(t, s)
      /\ ~HasBatch(t, s)' /\ ~Passes(t, s)' /\ ~Keeping(t, s)'
  BY DEF HasBatch, Passes, Keeping, LinePcs
<1> QED
  BY <1>1, OthersInLine, StayFrame

(* Such a move can only take from the line.                                *)
LEMMA AwayFades ==
  ASSUME NEW s, NEW t \in Threads, OnlyMoves(t), UNCHANGED <<payload, writes>>,
         pc[t] \notin LinePcs, pc'[t] \notin LinePcs,
         \A a \in Actions : fate'[a] = "accepted" <=> fate[a] = "accepted",
         QueueStays(s), KnownStays(s), t # Watcher \/ (WatcherAt(s)' => WatcherAt(s))
  PROVE  Fade(s)
<1>1. HoldersStay(s) /\ KeepersStay(s)
  BY AwayFrame
<1>2. UnderwayStays(s)
  BY UnderwayFrame
<1>3. WatcherAt(s)' => WatcherAt(s)
  BY OthersInLine
<1> QED
  BY <1>1, <1>2, <1>3 DEF Fade, HoldersStay, UnderwayStays

(* The destructor is never left.                                          *)
LEMMA CloseStays ==
  ASSUME TypeOK, PlaceInv, [Next]_vars, job[Owner] = "close"
  PROVE  job'[Owner] = "close"
<1> USE ConstantFacts, Domains
<1>1. ASSUME NEW t \in Threads, Check(t) PROVE job'[Owner] = "close"
  BY <1>1, LeaveFacts DEF Check, PlaceInv
<1>2. ASSUME NEW t \in Threads, Clear(t) PROVE job'[Owner] = "close"
  BY <1>2, LeaveFacts DEF Clear, PlaceInv
<1>3. ASSUME NEW t \in Threads, Assign(t) PROVE job'[Owner] = "close"
  BY <1>3, LeaveFacts DEF Assign, PlaceInv
<1>4. CASE TryPermit
  BY <1>4, LeaveFacts DEF TryPermit, PlaceInv
<1>5. CASE UNCHANGED vars
  BY <1>5 DEF vars
<1>6. ASSUME NEW t \in AppThreads, NEW r \in Records, StartPut(t, r)
      PROVE  job'[Owner] = "close"
  BY <1>6 DEF StartPut, PlaceInv
<1>7. ASSUME NEW t \in AppThreads, StartFlush(t)
      PROVE  job'[Owner] = "close"
  BY <1>7 DEF StartFlush, PlaceInv
<1>8. ASSUME NEW t \in Threads, Apply(t) \/ Copy(t) \/ Await(t) \/ AcquirePermit(t) \/
            Scan(t) \/ Give(t) \/ Throw(t) \/ ThrowUncaught(t) \/ VisitNext(t) \/ EndFlush(t)
      PROVE  job'[Owner] = "close"
  BY <1>8
  DEF Apply, Copy, Await, AcquirePermit, Scan, Give, Throw, ThrowUncaught, VisitNext, EndFlush,
      PlaceInv
<1>9. CASE Construct \/ StartClose \/ Drain \/ Join \/ TestStatus \/ Sweep \/ TryLock \/
          DestroyPool \/ WriteThrows \/ Crash
  BY <1>9
  DEF Construct, StartClose, Drain, Join, TestStatus, Sweep, TryLock, DestroyPool, WriteThrows,
      Crash, PlaceInv
<1>10. ASSUME NEW w \in WP!Workers, Work(w) \/ SpuriousWakeup(w)
      PROVE  job'[Owner] = "close"
  BY <1>10 DEF Work, SpuriousWakeup, PlaceInv
<1>11. ASSUME NEW s \in Shards, Age(s)
      PROVE  job'[Owner] = "close"
  BY <1>11 DEF Age, PlaceInv
<1> QED
  BY <1>1, <1>2, <1>3, <1>4, <1>5, <1>6, <1>7, <1>8, <1>9, <1>10, <1>11, StepCases

(* What a worker was given is never taken back, or changed.               *)
LEMMA AcceptedStays ==
  ASSUME IndInv, HandInv, [Next]_vars, NEW a \in Actions, fate[a] = "accepted"
  PROVE  fate'[a] = "accepted" /\ payload'[a] = payload[a]
<1> USE ConstantFacts DEF IndInv
<1>1. ASSUME NEW t \in Threads, AcquirePermit(t)
      PROVE  fate'[a] = "accepted" /\ payload'[a] = payload[a]
  BY <1>1 DEF AcquirePermit, TakePermit, NextAction, WP!Acquire, Pool!IndInv, Pool!TypeOK,
     WP!delivererVars, WP!workerVars, WP!closerVars, WP!execVars
<1>2. ASSUME NEW t \in Threads, Scan(t) PROVE fate'[a] = "accepted" /\ payload'[a] = payload[a]
  BY <1>2
  DEF Scan, WP!LockWorker, WP!SkipLocked, WP!SkipBusy, WP!delivererVars, WP!workerVars,
      WP!closerVars, WP!execVars
<1>3. ASSUME NEW t \in Threads, Give(t) PROVE fate'[a] = "accepted" /\ payload'[a] = payload[a]
  <2>1. carry[t] \in Actions /\ carry[t] # a
    BY <1>3, FreshCarry DEF Give, WP!GiveAction
  <2> QED
    BY <1>3, <2>1 DEF Give, WP!GiveAction, HandOver,
       Pool!IndInv, Pool!TypeOK, TypeOK
<1>4. ASSUME NEW t \in Threads, Throw(t) PROVE fate'[a] = "accepted" /\ payload'[a] = payload[a]
  <2>1. carry[t] \in Actions /\ carry[t] # a
    BY <1>4, FreshCarry DEF Throw, WP!ThrowInner
  <2> QED
    BY <1>4, <2>1 DEF Throw, WP!ThrowInner, HandOver,
       Pool!IndInv, Pool!TypeOK, TypeOK
<1>5. ASSUME NEW t \in Threads, ThrowUncaught(t)
      PROVE  fate'[a] = "accepted" /\ payload'[a] = payload[a]
  <2>1. carry[t] \in Actions /\ carry[t] # a
    BY <1>5, FreshCarry DEF ThrowUncaught, WP!ThrowUncaught, WP!ThrowInner
  <2> QED
    BY <1>5, <2>1 DEF ThrowUncaught, WP!ThrowUncaught, WP!ThrowInner, HandOver,
       Pool!IndInv, Pool!TypeOK, TypeOK
<1>6. CASE TryPermit
  BY <1>6 DEF TryPermit, TakePermit, NextAction, WP!Acquire, Pool!IndInv, Pool!TypeOK,
     WP!delivererVars, WP!workerVars, WP!closerVars, WP!execVars
<1>7. ASSUME NEW w \in WP!Workers, Work(w)
      PROVE  fate'[a] = "accepted" /\ payload'[a] = payload[a]
  BY <1>7
  DEF Work, WP!Run, WP!TakeMutex, WP!ReleasePermit, WP!Wait, WP!ExecWrite, WP!ExecSetValue,
      WP!BecomeIdle, WP!Exit, WP!Write, WP!delivererVars, WP!workerVars, WP!closerVars,
      WP!execVars
<1>8. CASE DestroyPool
  BY <1>8
  DEF DestroyPool, WP!Close, WP!CloseWorker, WP!CloseJoin, WP!ExecLeftover, WP!Write,
      WP!delivererVars, WP!workerVars, WP!closerVars, WP!execVars
<1>9. ASSUME NEW w \in WP!Workers, SpuriousWakeup(w)
      PROVE  fate'[a] = "accepted" /\ payload'[a] = payload[a]
  BY <1>9
  DEF SpuriousWakeup, WP!SpuriousWakeup, WP!delivererVars, WP!workerVars, WP!closerVars,
      WP!execVars
<1>10. CASE WriteThrows
  BY <1>10
  DEF WriteThrows, WP!WriteThrows, WP!delivererVars, WP!workerVars, WP!closerVars, WP!execVars
<1>11. CASE UNCHANGED vars
  BY <1>11 DEF vars
<1>12. ASSUME NEW t \in AppThreads, NEW r \in Records, StartPut(t, r)
      PROVE  fate'[a] = "accepted" /\ payload'[a] = payload[a]
  BY <1>12 DEF StartPut
<1>13. ASSUME NEW t \in AppThreads, StartFlush(t)
      PROVE  fate'[a] = "accepted" /\ payload'[a] = payload[a]
  BY <1>13 DEF StartFlush
<1>14. ASSUME NEW t \in Threads, Apply(t) \/ Check(t) \/ Copy(t) \/ Clear(t) \/ Await(t) \/
            Assign(t) \/ VisitNext(t) \/ EndFlush(t)
      PROVE  fate'[a] = "accepted" /\ payload'[a] = payload[a]
  BY <1>14 DEF Apply, Check, Copy, Clear, Await, Assign, VisitNext, EndFlush
<1>15. CASE Construct \/ StartClose \/ Drain \/ Join \/ TestStatus \/ Sweep \/ TryLock \/ Crash
  BY <1>15 DEF Construct, StartClose, Drain, Join, TestStatus, Sweep, TryLock, Crash
<1>16. ASSUME NEW s \in Shards, Age(s)
      PROVE  fate'[a] = "accepted" /\ payload'[a] = payload[a]
  BY <1>16 DEF Age
<1> QED
  BY <1>1, <1>2, <1>3, <1>4, <1>5, <1>6, <1>7, <1>8, <1>9, <1>10, <1>11, <1>12, <1>13, <1>14,
     <1>15, <1>16, StepCases

(* The calls of flush() are counted.                                       *)
LEMMA FlushesGrow ==
  ASSUME TypeOK, [Next]_vars
  PROVE  flushes' = 0 => flushes = 0
<1> USE ConstantFacts
<1>1. ASSUME NEW t \in AppThreads, StartFlush(t) PROVE flushes' = 0 => flushes = 0
  BY <1>1 DEF StartFlush, TypeOK
<1>2. CASE UNCHANGED vars
  BY <1>2 DEF vars
<1>3. ASSUME NEW t \in AppThreads, NEW r \in Records, StartPut(t, r)
      PROVE  flushes' = 0 => flushes = 0
  BY <1>3 DEF StartPut
<1>4. ASSUME NEW t \in Threads, Apply(t) \/ Check(t) \/ Copy(t) \/ Clear(t) \/ Await(t) \/
            AcquirePermit(t) \/ Scan(t) \/ Give(t) \/ Assign(t) \/ Throw(t) \/
            ThrowUncaught(t) \/ VisitNext(t) \/ EndFlush(t)
      PROVE  flushes' = 0 => flushes = 0
  BY <1>4
  DEF Apply, Check, Copy, Clear, Await, AcquirePermit, Scan, Give, Assign, Throw, ThrowUncaught,
      VisitNext, EndFlush
<1>5. CASE Construct \/ StartClose \/ Drain \/ Join \/ TestStatus \/ Sweep \/ TryLock \/
          TryPermit \/ DestroyPool \/ WriteThrows \/ Crash
  BY <1>5
  DEF Construct, StartClose, Drain, Join, TestStatus, Sweep, TryLock, TryPermit, DestroyPool,
      WriteThrows, Crash
<1>6. ASSUME NEW w \in WP!Workers, Work(w) \/ SpuriousWakeup(w)
      PROVE  flushes' = 0 => flushes = 0
  BY <1>6 DEF Work, SpuriousWakeup
<1>7. ASSUME NEW s \in Shards, Age(s)
      PROVE  flushes' = 0 => flushes = 0
  BY <1>7 DEF Age
<1> QED
  BY <1>1, <1>2, <1>3, <1>4, <1>5, <1>6, <1>7, StepCases

(* What kept the order before the step is there after it only if it was.  *)
LEMMA OrderlyBack ==
  ASSUME IndInv, HandInv, [Next]_vars, Orderly'
  PROVE  Orderly
<1>1. CASE flushes' = 0
  BY <1>1, FlushesGrow DEF IndInv, Orderly
<1>2. CASE flushes' # 0
  <2>1. AppThreads = {Owner} /\ EmptyBatches' = {}
    BY <1>2 DEF Orderly
  <2>2. EmptyBatches = {}
    BY <2>1, AcceptedStays DEF EmptyBatches
  <2> QED
    BY <2>1, <2>2 DEF Orderly
<1> QED
  BY <1>1, <1>2

(* No thread moves, and no batch changes.                                  *)
LEMMA StillFades ==
  ASSUME NEW s, UNCHANGED <<pc, cur, taken, future, payload, writes>>,
         dpc'[Watcher] # "idle" => dpc[Watcher] # "idle",
         \A a \in Actions : fate'[a] = "accepted" <=> fate[a] = "accepted",
         QueueStays(s), KnownStays(s)
  PROVE  Fade(s)
<1>1. UnderwayStays(s)
  BY UnderwayFrame
<1>2. WatcherAt(s)' => WatcherAt(s)
  BY DEF WatcherAt
<1>3. \A u \in Threads : /\ HasBatch(u, s)' <=> HasBatch(u, s)
                         /\ Passes(u, s)' <=> Passes(u, s)
                         /\ Keeping(u, s)' <=> Keeping(u, s)
  BY DEF HasBatch, Passes, Keeping
<1> QED
  BY <1>1, <1>2, <1>3, FadeFrame

(* put adds its record: with the mutex, and no flush() under way, nobody   *)
(* has a batch of the shard.                                               *)
LEMMA ApplyMoves ==
  ASSUME IndInv, Orderly, NEW s \in Shards, NEW t \in Threads, Apply(t),
         job[Owner] = "close" => job'[Owner] = "close"
  PROVE  LineMoves(s)
<1>0. TypeOK /\ PlaceInv /\ MutexInv /\ CalmInv /\ PutInv
  BY DEF IndInv
<1> USE ConstantFacts, Domains, <1>0
<1>1. /\ pc[t] = "lock" /\ pc'[t] = "check" /\ Free(cur[t]) /\ cur' = cur
      /\ OnlyMoves(t)
  BY DEF Apply, OnlyMoves
<1>2. /\ UNCHANGED <<payload, writes, fate, result, database>>
      /\ records' = [records EXCEPT ![cur[t]] = Append(@, taken[t][1])]
      /\ putLog' = [putLog EXCEPT ![cur[t]] = Append(@, taken[t][1])]
  BY DEF Apply, PushBack
<1>3. KnownStays(s)
  BY <1>2 DEF KnownStays
<1>4. t # Watcher /\ t \in AppThreads
  BY <1>1 DEF PlaceInv
<1>5. CASE cur[t] # s
  <2>1. QueueStays(s)
    BY <1>2, <1>5 DEF QueueStays, TypeOK
  <2> QED
    BY <1>1, <1>2, <1>3, <1>4, <2>1, AwayFades DEF LinePcs, LineMoves
<1>6. CASE cur[t] = s
  <2>1. PICK r \in Records : taken[t] = <<r>>
    BY <1>1 DEF PutInv, PutHand
  <2>2. /\ records'[s] = Append(records[s], r) /\ putLog'[s] = Append(putLog[s], r)
        /\ database'[s] = database[s]
    <3>1. taken[t][1] = r
      BY <2>1
    <3>2. records \in [Shards -> Seq(Records)] /\ putLog \in [Shards -> Seq(Records)]
      BY DEF TypeOK
    <3> QED
      BY <1>2, <1>6, <3>1, <3>2
  <2>3. \A u \in Threads : ~(HasMutex(u) /\ cur[u] = s)
    BY <1>1, <1>6 DEF MutexInv, Free
  <2>4. job[Owner] # "close"
    BY <1>1, <1>4 DEF PlaceInv, BatchPcs
  <2>5. ASSUME NEW u \in Threads, cur[u] = s, pc[u] \in LinePcs PROVE FALSE
    <3>1. job[u] \notin {"put", "watch"}
      BY <2>3, <2>5 DEF HasMutex, BatchPcs, LinePcs
    <3>2. u \in AppThreads /\ u # t
      BY <1>1, <2>5, <3>1 DEF PlaceInv, LinePcs
    <3>3. job[u] = "flush"
      BY <2>4, <2>5, <3>1, <3>2 DEF PlaceInv, LinePcs, TypeOK, Jobs
    <3> QED
      BY <1>4, <3>2, <3>3 DEF CalmInv, Orderly
  <2>6. Busy(s) = {}
    BY <2>5 DEF Busy, Holding, Assigning, LinePcs
  <2>7. ~WatcherAt(s)'
    <3>1. job[Watcher] = "watch" /\ pc'[Watcher] = pc[Watcher] /\ cur'[Watcher] = cur[Watcher]
      BY <1>1, <1>4 DEF PlaceInv, OnlyMoves
    <3>2. ~(cur[Watcher] = s /\ pc[Watcher] \in BatchPcs \union {"permit"})
      BY <2>3, <3>1 DEF HasMutex
    <3> QED
      BY <3>1, <3>2 DEF WatcherAt, BatchPcs
  <2>8. HoldersStay(s) /\ KeepersStay(s)
    BY <1>1, <1>2, AwayFrame DEF LinePcs
  <2>9. UnderwayStays(s)
    BY <1>2, UnderwayFrame
  <2> QED
    BY <1>3, <2>2, <2>4, <2>6, <2>7, <2>8, <2>9 DEF Puts, LineMoves
<1> QED
  BY <1>5, <1>6

(* The vector is emptied: the thread comes to have a batch, unless the     *)
(* vector was empty when it was copied.                                    *)
LEMMA ClearMoves ==
  ASSUME IndInv, NEW s \in Shards, ClearInv(s), NEW t \in Threads, Clear(t),
         job[Owner] = "close" => job'[Owner] = "close"
  PROVE  LineMoves(s)
<1>0. TypeOK /\ PlaceInv
  BY DEF IndInv
<1> USE ConstantFacts, Domains, <1>0
<1>1. /\ pc[t] = "clear" /\ UNCHANGED <<taken, future, dpc, payload, writes, fate, result>>
      /\ \A u \in Threads \ {t} : pc'[u] = pc[u] /\ cur'[u] = cur[u]
      /\ \/ pc'[t] \in {"deliver", "await"} /\ cur'[t] = cur[t]
            /\ (pc'[t] = "deliver" => job[t] = "watch")
         \/ taken[t] = <<>> /\ pc'[t] \in {"idle", "next", "sweep"}
  BY LeaveFacts, AfterPlaces DEF Clear, BatchPcs
<1>2. /\ UNCHANGED <<putLog, database>> /\ records' = [records EXCEPT ![cur[t]] = <<>>]
  BY DEF Clear, EmptyRecords
<1>3. OnlyMoves(t) /\ KnownStays(s) /\ UnderwayStays(s)
  BY <1>1, UnderwayFrame DEF OnlyMoves, KnownStays
<1>4. ~HasBatch(t, s) /\ ~Passes(t, s) /\ ~Keeping(t, s) /\ ~Keeping(t, s)'
  BY <1>1 DEF HasBatch, Passes, Keeping
<1>5. /\ \A u \in Threads \ {t} : /\ HasBatch(u, s)' <=> HasBatch(u, s)
                                  /\ Passes(u, s)' <=> Passes(u, s)
                                  /\ Keeping(u, s)' <=> Keeping(u, s)
      /\ t # Watcher /\ WatcherAt(s)' => WatcherAt(s)
  BY <1>1, <1>3, OthersInLine
<1>9. KeepersStay(s)
  <2>1. \A u \in Threads : (Keeping(u, s)' <=> Keeping(u, s)) /\ future'[u] = future[u]
    BY <1>1, <1>4, <1>5
  <2> QED
    BY <2>1, KeepersFrame
<1>6. t = Watcher /\ WatcherAt(s)' => WatcherAt(s)
  BY <1>1 DEF WatcherAt
<1>7. CASE cur[t] # s \/ taken[t] = <<>>
  <2>1. QueueStays(s)
    <3>1. CASE cur[t] # s
      BY <1>2, <3>1 DEF QueueStays, TypeOK
    <3>2. CASE cur[t] = s
      <4>1. records[s] = <<>>
        BY <1>1, <1>7, <3>2 DEF ClearInv, Clearing, AtClear
      <4> QED
        BY <1>2, <3>2, <4>1 DEF QueueStays, TypeOK
    <3> QED
      BY <3>1, <3>2
  <2>2. ~HasBatch(t, s)' /\ ~Passes(t, s)'
    BY <1>1, <1>7 DEF HasBatch, Passes
  <2> QED
    BY <1>1, <1>3, <1>4, <1>5, <1>6, <2>1, <2>2, FadeFrame DEF LineMoves
<1>8. CASE cur[t] = s /\ taken[t] # <<>>
  <2>1. taken[t] = records[s] /\ records'[s] = <<>> /\ putLog'[s] = putLog[s]
        /\ database'[s] = database[s] /\ taken'[t] = taken[t]
    BY <1>1, <1>2, <1>8 DEF ClearInv, Clearing, AtClear, TypeOK
  <2>2. HasBatch(t, s)' /\ (Passes(t, s)' => t = Watcher)
    BY <1>1, <1>8 DEF HasBatch, Passes, PlaceInv
  <2>3. Holding(s)' = Holding(s) \union {t}
    BY <1>5, <2>2, HoldingIs
  <2>4. Passed(s)' = Passed(s) \/ (Passed(s)' = Passed(s) \union {t} /\ WatcherAt(s))
    <3>1. CASE Passes(t, s)'
      <4>1. Passed(s)' = Passed(s) \union {t}
        BY <1>5, <3>1, LineIs
      <4> QED
        BY <1>1, <1>8, <2>2, <3>1, <4>1 DEF WatcherAt
    <3>2. CASE ~Passes(t, s)'
      <4>1. \A u \in Threads : Passes(u, s)' <=> Passes(u, s)
        BY <1>4, <1>5, <3>2
      <4> QED
        BY <4>1, PassedStays
    <3> QED
      BY <3>1, <3>2
  <2> QED
    BY <1>1, <1>3, <1>5, <1>6, <1>8, <1>9, <2>1, <2>3, <2>4 DEF Takes, LineMoves
<1> QED
  BY <1>7, <1>8

(* The wait is over.                                                       *)
LEMMA AwaitMoves ==
  ASSUME IndInv, NEW s \in Shards, NEW t \in Threads, Await(t),
         job[Owner] = "close" => job'[Owner] = "close"
  PROVE  LineMoves(s)
<1>0. TypeOK /\ PlaceInv
  BY DEF IndInv
<1> USE ConstantFacts, Domains, <1>0
<1>1. /\ pc[t] = "await" /\ pc'[t] = "acquire" /\ Ready(cur[t])
      /\ UNCHANGED <<cur, taken, future, dpc, payload, writes, fate, result>>
      /\ \A u \in Threads \ {t} : pc'[u] = pc[u]
  BY DEF Await
<1>2. QueueStays(s)
  BY DEF Await, QueueStays
<1>3. OnlyMoves(t) /\ KnownStays(s) /\ UnderwayStays(s)
  BY <1>1, UnderwayFrame DEF OnlyMoves, KnownStays
<1>4. /\ \A u \in Threads \ {t} : /\ HasBatch(u, s)' <=> HasBatch(u, s)
                                  /\ Passes(u, s)' <=> Passes(u, s)
                                  /\ Keeping(u, s)' <=> Keeping(u, s)
      /\ t # Watcher /\ WatcherAt(s)' => WatcherAt(s)
  BY <1>1, <1>3, OthersInLine
<1>5. t # Watcher
  BY <1>1 DEF PlaceInv
<1>6. /\ HasBatch(t, s)' <=> HasBatch(t, s)
      /\ ~Passes(t, s) /\ (Passes(t, s)' <=> HasBatch(t, s))
      /\ ~Keeping(t, s) /\ ~Keeping(t, s)'
  BY <1>1 DEF HasBatch, Passes, Keeping
<1>7. CASE HasBatch(t, s)
  <2>1. t \in Holding(s) /\ Holding(s)' = Holding(s)
    <3>1. \A u \in Threads : HasBatch(u, s)' <=> HasBatch(u, s)
      BY <1>4, <1>6
    <3> QED
      BY <1>7, <3>1, HoldingStays, HoldingIs
  <2>2. Passed(s)' = Passed(s) \union {t}
    BY <1>4, <1>6, <1>7, LineIs
  <2>3. KeepersStay(s)
    <3>1. \A u \in Threads : (Keeping(u, s)' <=> Keeping(u, s)) /\ future'[u] = future[u]
      BY <1>1, <1>4, <1>6
    <3> QED
      BY <3>1, KeepersFrame
  <2>4. Ready(s)
    BY <1>1, <1>7 DEF HasBatch
  <2> QED
    BY <1>1, <1>2, <1>3, <1>4, <1>5, <2>1, <2>2, <2>3, <2>4 DEF Waits, LineMoves
<1>8. CASE ~HasBatch(t, s)
  BY <1>1, <1>2, <1>3, <1>4, <1>5, <1>6, <1>8, FadeFrame DEF LineMoves
<1> QED
  BY <1>7, <1>8

(* A thread gives its batch to a worker.                                   *)
LEMMA GiveMoves ==
  ASSUME IndInv, HandInv, NEW s \in Shards, NEW t \in Threads, Give(t),
         job[Owner] = "close" => job'[Owner] = "close"
  PROVE  LineMoves(s)
<1>0. TypeOK /\ PlaceInv /\ PermitInv /\ Pool!IndInv
  BY DEF IndInv
<1> USE ConstantFacts, Domains, <1>0
<1> DEFINE a == carry[t]
<1>1. a \in Actions /\ fate[a] = "carried" /\ payload[a] = <<>> /\ writes[a] = 0
  BY FreshCarry DEF Give, WP!GiveAction
<1> HIDE DEF a
<1>2. /\ pc[t] = "deliver" /\ pc'[t] = "assign" /\ dpc[t] # "idle" /\ future'[t] = a
      /\ \A u \in Threads \ {t} : pc'[u] = pc[u] /\ future'[u] = future[u]
      /\ UNCHANGED <<cur, writes, result>> /\ HandOver(t) /\ dpc' = [dpc EXCEPT ![t] = "idle"]
  BY DEF Give, WP!GiveAction, WP!execVars, a
<1>3. /\ taken'[t] = <<>> /\ \A u \in Threads \ {t} : taken'[u] = taken[u]
      /\ payload'[a] = taken[t] /\ \A b \in Actions \ {a} : payload'[b] = payload[b]
  <2>1. payload \in [Actions -> Seq(Records)]
    BY DEF TypeOK
  <2> QED
    BY <1>1, <1>2, <2>1 DEF HandOver, a
<1>4. fate'[a] = "accepted" /\ \A b \in Actions \ {a} : fate'[b] = fate[b]
  BY <1>1 DEF Give, WP!GiveAction, Pool!IndInv, Pool!TypeOK, a
<1>5. QueueStays(s) /\ KnownStays(s)
  BY <1>2 DEF Give, QueueStays, KnownStays
<1>6. OnlyMoves(t)
  <2>1. \A u \in Threads \ {t} : dpc'[u] = dpc[u]
    BY <1>2 DEF Pool!IndInv, Pool!TypeOK
  <2> QED
    BY <1>2, <1>3, <2>1 DEF OnlyMoves
<1>7. \A u \in Threads : pc[u] = "assign" => payload'[future[u]] = payload[future[u]]
  BY <1>1, <1>3 DEF PermitInv
<1>8. /\ \A u \in Threads \ {t} : /\ HasBatch(u, s)' <=> HasBatch(u, s)
                                  /\ Passes(u, s)' <=> Passes(u, s)
                                  /\ Keeping(u, s)' <=> Keeping(u, s)
      /\ t # Watcher /\ WatcherAt(s)' => WatcherAt(s)
  BY <1>6, <1>7, OthersInLine
<1>9. ~HasBatch(t, s)' /\ ~Passes(t, s)' /\ ~Keeping(t, s)
  BY <1>2 DEF HasBatch, Passes, Keeping
<1>10. Keeping(t, s)' <=> HasBatch(t, s)
  BY <1>2, <1>3 DEF HasBatch, Keeping
<1>11. t = Watcher /\ WatcherAt(s)' => WatcherAt(s)
  BY <1>2, <1>3 DEF WatcherAt
<1>12. a \notin Underway(s) /\ Underway(s) \subseteq Actions /\ Underway(s)' \subseteq Actions
  BY <1>1 DEF Underway
<1>13. \A b \in Actions \ {a} : b \in Underway(s)' <=> b \in Underway(s)
  BY <1>2, <1>3, <1>4 DEF Underway, ShardOfBatch
<1>14. \A b \in Underway(s) : payload'[b] = payload[b]
  BY <1>3, <1>12
<1>15. taken[t] # <<>> => ShardOf[taken[t][1]] = cur[t]
  <2>1. taken[t] \in Seq(Records)
    OBVIOUS
  <2>2. taken[t] # <<>> => taken[t][1] \in ToSet(taken[t])
    BY <2>1, FirstIsElement
  <2> QED
    BY <1>2, <2>2 DEF HandInv, HandPcs
<1>16. a \in Underway(s)' <=> HasBatch(t, s)
  BY <1>1, <1>2, <1>3, <1>4, <1>15 DEF Underway, ShardOfBatch, HasBatch
<1>17. CASE HasBatch(t, s)
  <2>1. t \in Passed(s) /\ Passed(s)' = Passed(s) \ {t}
    <3>1. Passes(t, s)
      BY <1>2, <1>17 DEF Passes
    <3> QED
      BY <1>8, <1>9, <3>1, LineIs
  <2>2. Holding(s)' = Holding(s) \ {t}
    BY <1>8, <1>9, <1>17, HoldingIs
  <2>3. Assigning(s)' = Assigning(s) \union {t} /\ t \notin Assigning(s)
    BY <1>8, <1>9, <1>10, <1>17, LineIs
  <2>4. Underway(s)' = Underway(s) \union {a}
    BY <1>12, <1>13, <1>16, <1>17
  <2>5. \A u \in Holding(s)' : taken'[u] = taken[u]
    BY <1>3, <2>2, HoldingIs
  <2>6. \A u \in Assigning(s) : future'[u] = future[u]
    BY <1>2, <2>3, LineIs
  <2> QED
    BY <1>1, <1>2, <1>3, <1>5, <1>8, <1>11, <1>14, <2>1, <2>2, <2>3, <2>4, <2>5, <2>6
    DEF Gives, LineMoves
<1>18. CASE ~HasBatch(t, s)
  <2>1. UnderwayStays(s)
    <3>1. Underway(s)' = Underway(s)
      <4>1. Underway(s)' \subseteq Underway(s)
        BY <1>12, <1>13, <1>16, <1>18
      <4>2. Underway(s) \subseteq Underway(s)'
        BY <1>12, <1>13, <1>16, <1>18
      <4> QED
        BY <4>1, <4>2
    <3> QED
      BY <1>14, <3>1 DEF UnderwayStays
  <2>2. \A u \in Threads : /\ HasBatch(u, s)' => HasBatch(u, s) /\ taken'[u] = taken[u]
                           /\ Passes(u, s)' => Passes(u, s)
                           /\ Keeping(u, s)' <=> Keeping(u, s)
                           /\ Keeping(u, s) => future'[u] = future[u]
    BY <1>2, <1>3, <1>8, <1>9, <1>10, <1>18
  <2> QED
    BY <1>5, <1>8, <1>11, <2>1, <2>2, FadeFrame DEF LineMoves
<1> QED
  BY <1>17, <1>18

(* A batch that no worker takes is gone.                                   *)
LEMMA DropFades ==
  ASSUME IndInv, HandInv, NEW s \in Shards, NEW t \in Threads,
         pc[t] = "deliver", pc'[t] \in {"deliver", "idle"}, HandOver(t),
         dpc[t] # "idle", dpc' = [dpc EXCEPT ![t] = "idle"],
         fate' = [fate EXCEPT ![carry[t]] = "dropped"],
         \A u \in Threads \ {t} : pc'[u] = pc[u] /\ cur'[u] = cur[u],
         UNCHANGED <<future, writes>>, QueueStays(s), KnownStays(s)
  PROVE  Fade(s)
<1>0. TypeOK /\ PlaceInv /\ PermitInv /\ Pool!IndInv
  BY DEF IndInv
<1> USE ConstantFacts, Domains, <1>0
<1> DEFINE a == carry[t]
<1>1. a \in Actions /\ fate[a] = "carried" /\ payload[a] = <<>>
  BY FreshCarry
<1>2. /\ taken'[t] = <<>> /\ \A u \in Threads \ {t} : taken'[u] = taken[u]
      /\ \A b \in Actions \ {a} : payload'[b] = payload[b]
  <2>1. payload \in [Actions -> Seq(Records)]
    BY DEF TypeOK
  <2> QED
    BY <1>1, <2>1 DEF HandOver
<1>3. fate'[a] = "dropped" /\ \A b \in Actions \ {a} : fate'[b] = fate[b]
  BY <1>1 DEF Pool!IndInv, Pool!TypeOK
<1> HIDE DEF a
<1>4. OnlyMoves(t) /\ dpc'[t] = "idle"
  <2>1. dpc'[t] = "idle" /\ \A u \in Threads \ {t} : dpc'[u] = dpc[u]
    BY DEF Pool!IndInv, Pool!TypeOK
  <2> QED
    BY <1>2, <2>1 DEF OnlyMoves
<1>5. \A u \in Threads : pc[u] = "assign" => payload'[future[u]] = payload[future[u]]
  BY <1>1, <1>2 DEF PermitInv
<1>6. /\ \A u \in Threads \ {t} : /\ HasBatch(u, s)' <=> HasBatch(u, s)
                                  /\ Passes(u, s)' <=> Passes(u, s)
                                  /\ Keeping(u, s)' <=> Keeping(u, s)
      /\ t # Watcher /\ WatcherAt(s)' => WatcherAt(s)
  BY <1>4, <1>5, OthersInLine
<1>7. ~HasBatch(t, s)' /\ ~Passes(t, s)' /\ ~Keeping(t, s) /\ ~Keeping(t, s)'
  BY <1>2 DEF HasBatch, Passes, Keeping
<1>8. t = Watcher => ~WatcherAt(s)'
  BY <1>4 DEF WatcherAt
<1>9. UnderwayStays(s)
  <2>1. a \notin Underway(s) /\ a \notin Underway(s)'
    BY <1>1, <1>3 DEF Underway
  <2>2. \A b \in Actions \ {a} : b \in Underway(s)' <=> b \in Underway(s)
    BY <1>2, <1>3 DEF Underway, ShardOfBatch
  <2>3. Underway(s) \subseteq Actions /\ Underway(s)' \subseteq Actions
    BY DEF Underway
  <2>4. Underway(s)' = Underway(s)
    <3>1. Underway(s)' \subseteq Underway(s)
      BY <2>1, <2>2, <2>3
    <3>2. Underway(s) \subseteq Underway(s)'
      BY <2>1, <2>2, <2>3
    <3> QED
      BY <3>1, <3>2
  <2> QED
    BY <1>2, <2>1, <2>3, <2>4 DEF UnderwayStays
<1>10. \A u \in Threads : /\ HasBatch(u, s)' => HasBatch(u, s) /\ taken'[u] = taken[u]
                          /\ Passes(u, s)' => Passes(u, s)
                          /\ Keeping(u, s)' <=> Keeping(u, s)
                          /\ Keeping(u, s) => future'[u] = future[u]
  BY <1>2, <1>6, <1>7
<1> QED
  BY <1>6, <1>8, <1>9, <1>10, FadeFrame

(* A thread puts the future of its batch into the shard.  As long as the   *)
(* order is kept, an empty batch comes from the watcher in the last flush. *)
LEMMA AssignMoves ==
  ASSUME IndInv, LoadedInv, Orderly, NEW s \in Shards, NEW t \in Threads, Assign(t),
         job[Owner] = "close" => job'[Owner] = "close"
  PROVE  LineMoves(s)
<1>0. TypeOK /\ PlaceInv /\ PermitInv
  BY DEF IndInv
<1> USE ConstantFacts, Domains, <1>0
<1>1. /\ pc[t] = "assign" /\ pc'[t] \in {"idle", "next", "sweep"}
      /\ \A u \in Threads \ {t} :
           pc'[u] = pc[u] /\ cur'[u] = cur[u] /\ taken'[u] = taken[u] /\ future'[u] = future[u]
      /\ UNCHANGED <<taken, payload, writes, fate, dpc>>
      /\ result' = [result EXCEPT ![cur[t]] = future[t]]
      /\ future[t] \in Actions /\ fate[future[t]] = "accepted"
  BY LeaveFacts, AfterPlaces DEF Assign, BatchPcs, PermitInv
<1>2. QueueStays(s)
  BY DEF Assign, QueueStays
<1>3. OnlyMoves(t) /\ UnderwayStays(s)
  BY <1>1, UnderwayFrame DEF OnlyMoves
<1>4. /\ \A u \in Threads \ {t} : /\ HasBatch(u, s)' <=> HasBatch(u, s)
                                  /\ Passes(u, s)' <=> Passes(u, s)
                                  /\ Keeping(u, s)' <=> Keeping(u, s)
                                  /\ future'[u] = future[u]
      /\ t # Watcher /\ WatcherAt(s)' => WatcherAt(s)
  BY <1>1, <1>3, OthersInLine
<1>5. /\ ~HasBatch(t, s) /\ ~Passes(t, s)
      /\ ~HasBatch(t, s)' /\ ~Passes(t, s)' /\ ~Keeping(t, s)'
  BY <1>1 DEF HasBatch, Passes, Keeping
<1>6. t = Watcher => ~WatcherAt(s)'
  BY <1>1 DEF WatcherAt
<1>7. HoldersStay(s)
  <2>1. \A u \in Threads : /\ HasBatch(u, s)' <=> HasBatch(u, s)
                           /\ Passes(u, s)' <=> Passes(u, s)
    BY <1>4, <1>5
  <2> QED
    BY <1>1, <2>1, HoldingStays, PassedStays DEF HoldersStay
<1>8. CASE Keeping(t, s)
  <2>1. t \in Assigning(s) /\ Assigning(s)' = Assigning(s) \ {t}
    BY <1>4, <1>5, <1>8, LineIs
  <2>2. \A u \in Assigning(s)' : future'[u] = future[u]
    BY <1>4, <2>1, LineIs
  <2>3. result'[s] = future[t]
    BY <1>1, <1>8 DEF Keeping, TypeOK
  <2> QED
    BY <1>2, <1>3, <1>4, <1>6, <1>7, <2>1, <2>2, <2>3 DEF Keeps, LineMoves
<1>9. CASE ~Keeping(t, s)
  <2>1. KeepersStay(s)
    <3>1. \A u \in Threads : /\ Keeping(u, s)' <=> Keeping(u, s)
                             /\ Keeping(u, s) => future'[u] = future[u]
      BY <1>4, <1>5, <1>9
    <3> QED
      BY <3>1, KeepersFrame
  <2>2. CASE cur[t] # s
    <3>1. result'[s] = result[s]
      BY <1>1, <2>2 DEF TypeOK
    <3> QED
      BY <1>2, <1>3, <1>4, <1>6, <1>7, <2>1, <3>1
      DEF Fade, HoldersStay, UnderwayStays, KnownStays, LineMoves
  <2>3. CASE cur[t] = s
    <3>1. payload[future[t]] = <<>>
      BY <1>1, <1>9, <2>3 DEF Keeping
    <3>2. flushes = 0
      BY <1>1, <3>1 DEF Orderly, EmptyBatches
    <3>3. job[Owner] = "close"
      BY <1>1, <3>1, <3>2 DEF LoadedInv, Loaded, Calm
    <3>4. t = Watcher
      BY <1>1, <3>1, <3>3 DEF LoadedInv, Loaded, PlaceInv
    <3>5. WatcherAt(s)
      BY <1>1, <2>3, <3>1, <3>4 DEF WatcherAt
    <3> QED
      BY <1>2, <1>3, <1>6, <1>7, <2>1, <3>3, <3>4, <3>5 DEF Forgets, LineMoves
  <2> QED
    BY <2>2, <2>3
<1> QED
  BY <1>8, <1>9

(* A worker executes the write of action a.                                *)
LEMMA StoreLoads ==
  ASSUME TypeOK, Pool!IndInv, NEW s \in Shards, NEW a \in Actions,
         fate[a] = "accepted", writes[a] = 0, a \notin rejected, WP!Write(a), Store(a),
         UNCHANGED <<records, putLog, pc, cur, taken, future, payload, fate, dpc>>,
         KnownStays(s)
  PROVE  LineMoves(s)
<1>1. writes'[a] = 1 /\ \A b \in Actions \ {a} : writes'[b] = writes[b]
  BY DEF WP!Write, Pool!IndInv, Pool!TypeOK
<1>2. \A u \in Threads : /\ HasBatch(u, s)' <=> HasBatch(u, s)
                         /\ Passes(u, s)' <=> Passes(u, s)
                         /\ Keeping(u, s)' <=> Keeping(u, s)
  BY DEF HasBatch, Passes, Keeping
<1>3. HoldersStay(s) /\ KeepersStay(s) /\ (WatcherAt(s)' => WatcherAt(s))
  BY <1>2, StayFrame DEF WatcherAt
<1>4. Underway(s)' = Underway(s) \ {a}
  <2>1. \A b \in Actions \ {a} : b \in Underway(s)' <=> b \in Underway(s)
    BY <1>1 DEF Underway, ShardOfBatch
  <2>2. a \notin Underway(s)' /\ Underway(s) \subseteq Actions /\ Underway(s)' \subseteq Actions
    BY <1>1 DEF Underway
  <2> QED
    BY <2>1, <2>2
<1>5. a \in Underway(s) <=> payload[a] # <<>> /\ ShardOfBatch(a) = s
  BY DEF Underway
<1>6. CASE database'[s] = database[s]
  BY <1>3, <1>4, <1>6 DEF Fade, QueueStays, HoldersStay, LineMoves
<1>7. CASE database'[s] # database[s]
  <2>1. payload[a] # <<>> /\ ShardOfBatch(a) = s /\ database'[s] = database[s] \o payload[a]
    BY <1>7 DEF Store, TypeOK
  <2> QED
    BY <1>3, <1>4, <1>5, <2>1 DEF Loads, LineMoves
<1> QED
  BY <1>6, <1>7

(* As long as the order is kept, every step is one of the moves.           *)
LEMMA LineMovesStep ==
  ASSUME IndInv, HandInv, LoadedInv, Orderly, [Next]_vars, NEW s \in Shards, ClearInv(s)
  PROVE  LineMoves(s)
<1> USE ConstantFacts, Domains DEF IndInv
<1>0. job[Owner] = "close" => job'[Owner] = "close"
  BY CloseStays DEF IndInv
<1>1. ASSUME NEW t \in AppThreads, NEW r \in Records, StartPut(t, r) PROVE LineMoves(s)
  <2>1. OnlyMoves(t) /\ pc[t] \notin LinePcs /\ pc'[t] \notin LinePcs
    BY <1>1 DEF StartPut, OnlyMoves, LinePcs
  <2>2. QueueStays(s) /\ KnownStays(s) /\ UNCHANGED <<payload, writes, fate>>
    BY <1>0, <1>1 DEF StartPut, QueueStays, KnownStays
  <2> QED
    BY <2>1, <2>2, AwayFades DEF LineMoves
<1>2. ASSUME NEW t \in AppThreads, StartFlush(t) PROVE LineMoves(s)
  <2>1. OnlyMoves(t) /\ pc[t] \notin LinePcs /\ pc'[t] \notin LinePcs
    BY <1>2 DEF StartFlush, OnlyMoves, LinePcs
  <2>2. QueueStays(s) /\ KnownStays(s) /\ UNCHANGED <<payload, writes, fate>>
    BY <1>0, <1>2 DEF StartFlush, QueueStays, KnownStays
  <2> QED
    BY <2>1, <2>2, AwayFades DEF LineMoves
<1>3. ASSUME NEW t \in Threads, Apply(t) PROVE LineMoves(s)
  BY <1>0, <1>3, ApplyMoves DEF IndInv
<1>4. ASSUME NEW t \in Threads, Check(t) PROVE LineMoves(s)
  <2>1. OnlyMoves(t) /\ pc[t] \notin LinePcs /\ pc'[t] \notin LinePcs
    BY <1>4, LeaveFacts, AfterPlaces DEF Check, OnlyMoves, LinePcs, BatchPcs
  <2>2. QueueStays(s) /\ KnownStays(s) /\ UNCHANGED <<payload, writes, fate>>
    BY <1>0, <1>4 DEF Check, QueueStays, KnownStays
  <2>3. t # Watcher
    BY <1>4 DEF Check, PlaceInv
  <2> QED
    BY <2>1, <2>2, <2>3, AwayFades DEF LineMoves
<1>5. ASSUME NEW t \in Threads, Copy(t) PROVE LineMoves(s)
  <2>1. OnlyMoves(t) /\ pc[t] \notin LinePcs /\ pc'[t] \notin LinePcs
    BY <1>5 DEF Copy, OnlyMoves, LinePcs
  <2>2. QueueStays(s) /\ KnownStays(s) /\ UNCHANGED <<payload, writes, fate>>
    BY <1>0, <1>5 DEF Copy, QueueStays, KnownStays
  <2>3. WatcherAt(s)' => WatcherAt(s)
    BY <1>5 DEF Copy, WatcherAt
  <2> QED
    BY <2>1, <2>2, <2>3, AwayFades DEF LineMoves
<1>6. ASSUME NEW t \in Threads, Clear(t) PROVE LineMoves(s)
  BY <1>0, <1>6, ClearMoves DEF IndInv
<1>7. ASSUME NEW t \in Threads, Await(t) PROVE LineMoves(s)
  BY <1>0, <1>7, AwaitMoves DEF IndInv
<1>8. ASSUME NEW t \in Threads, AcquirePermit(t) PROVE LineMoves(s)
  <2>1. /\ pc[t] = "acquire" /\ pc'[t] = "deliver" /\ UNCHANGED <<cur, taken, future, payload>>
        /\ \A u \in Threads \ {t} : pc'[u] = pc[u] /\ dpc'[u] = dpc[u]
    BY <1>8 DEF AcquirePermit, TakePermit, WP!Acquire, Pool!IndInv, Pool!TypeOK
  <2>2. QueueStays(s) /\ KnownStays(s) /\ UNCHANGED writes
    BY <1>0, <1>8 DEF AcquirePermit, TakePermit, WP!Acquire, WP!execVars, QueueStays, KnownStays
  <2>3. \A a \in Actions : fate'[a] = "accepted" <=> fate[a] = "accepted"
    BY <1>8 DEF AcquirePermit, TakePermit, NextAction, WP!Acquire, Pool!IndInv, Pool!TypeOK
  <2>4. UnderwayStays(s)
    BY <2>1, <2>2, <2>3, UnderwayFrame
  <2>5. t # Watcher /\ dpc'[Watcher] = dpc[Watcher] /\ pc'[Watcher] = pc[Watcher]
    BY <2>1 DEF PlaceInv
  <2>6. WatcherAt(s)' => WatcherAt(s)
    BY <2>1, <2>5 DEF WatcherAt
  <2>7. \A u \in Threads : /\ HasBatch(u, s)' <=> HasBatch(u, s)
                           /\ Passes(u, s)' <=> Passes(u, s)
                           /\ Keeping(u, s)' <=> Keeping(u, s)
    BY <2>1 DEF HasBatch, Passes, Keeping
  <2> QED
    BY <2>1, <2>2, <2>4, <2>6, <2>7, FadeFrame DEF LineMoves
<1>9. ASSUME NEW t \in Threads, Scan(t) PROVE LineMoves(s)
  <2>1. UNCHANGED <<pc, cur, taken, future, payload, writes, fate>>
    BY <1>9 DEF Scan, WP!LockWorker, WP!SkipLocked, WP!SkipBusy, WP!execVars
  <2>2. dpc'[Watcher] # "idle" => dpc[Watcher] # "idle"
    BY <1>9 DEF Scan, WP!LockWorker, WP!SkipLocked, WP!SkipBusy, Pool!IndInv, Pool!TypeOK
  <2>3. QueueStays(s) /\ KnownStays(s)
    BY <1>0, <1>9 DEF Scan, QueueStays, KnownStays
  <2> QED
    BY <2>1, <2>2, <2>3, StillFades DEF LineMoves
<1>10. ASSUME NEW t \in Threads, Give(t) PROVE LineMoves(s)
  BY <1>0, <1>10, GiveMoves DEF IndInv
<1>11. ASSUME NEW t \in Threads, Assign(t) PROVE LineMoves(s)
  BY <1>0, <1>11, AssignMoves DEF IndInv
<1>12. ASSUME NEW t \in Threads, Throw(t) PROVE LineMoves(s)
  <2>1. /\ pc[t] = "deliver" /\ pc'[t] \in {"deliver", "idle"} /\ HandOver(t)
        /\ dpc[t] # "idle" /\ dpc' = [dpc EXCEPT ![t] = "idle"]
        /\ fate' = [fate EXCEPT ![carry[t]] = "dropped"]
        /\ \A u \in Threads \ {t} : pc'[u] = pc[u] /\ cur'[u] = cur[u]
    BY <1>12 DEF Throw, WP!ThrowInner
  <2>2. QueueStays(s) /\ KnownStays(s) /\ UNCHANGED <<future, writes>>
    BY <1>0, <1>12 DEF Throw, WP!ThrowInner, WP!execVars,
       QueueStays, KnownStays
  <2> QED
    BY <2>1, <2>2, DropFades DEF LineMoves, IndInv
<1>13. ASSUME NEW t \in Threads, ThrowUncaught(t) PROVE LineMoves(s)
  <2>1. /\ pc[t] = "deliver" /\ pc'[t] \in {"deliver", "idle"} /\ HandOver(t)
        /\ dpc[t] # "idle" /\ dpc' = [dpc EXCEPT ![t] = "idle"]
        /\ fate' = [fate EXCEPT ![carry[t]] = "dropped"]
        /\ \A u \in Threads \ {t} : pc'[u] = pc[u] /\ cur'[u] = cur[u]
    BY <1>13 DEF ThrowUncaught, WP!ThrowUncaught, WP!ThrowInner
  <2>2. QueueStays(s) /\ KnownStays(s) /\ UNCHANGED <<future, writes>>
    BY <1>0, <1>13 DEF ThrowUncaught, WP!ThrowUncaught, WP!ThrowInner, WP!execVars,
       QueueStays, KnownStays
  <2> QED
    BY <2>1, <2>2, DropFades DEF LineMoves, IndInv
<1>14. ASSUME NEW t \in Threads, VisitNext(t) PROVE LineMoves(s)
  <2>1. OnlyMoves(t) /\ pc[t] \notin LinePcs /\ pc'[t] \notin LinePcs
    BY <1>14 DEF VisitNext, OnlyMoves, LinePcs
  <2>2. QueueStays(s) /\ KnownStays(s) /\ UNCHANGED <<payload, writes, fate>>
    BY <1>0, <1>14 DEF VisitNext, QueueStays, KnownStays
  <2>3. t # Watcher
    BY <1>14 DEF VisitNext, PlaceInv
  <2> QED
    BY <2>1, <2>2, <2>3, AwayFades DEF LineMoves
<1>15. ASSUME NEW t \in Threads, EndFlush(t) PROVE LineMoves(s)
  <2>1. OnlyMoves(t) /\ pc[t] \notin LinePcs /\ pc'[t] \notin LinePcs
    BY <1>15 DEF EndFlush, OnlyMoves, LinePcs
  <2>2. QueueStays(s) /\ KnownStays(s) /\ UNCHANGED <<payload, writes, fate>>
    BY <1>0, <1>15 DEF EndFlush, QueueStays, KnownStays
  <2>3. t # Watcher
    BY <1>15 DEF EndFlush, PlaceInv
  <2> QED
    BY <2>1, <2>2, <2>3, AwayFades DEF LineMoves
<1>16. CASE Construct
  <2>1. UNCHANGED <<cur, taken, future, payload, writes, fate, dpc>>
    BY <1>16 DEF Construct
  <2>2. QueueStays(s) /\ KnownStays(s) /\ UnderwayStays(s)
    BY <1>0, <1>16, <2>1, UnderwayFrame DEF Construct, QueueStays, KnownStays
  <2>3. \A u \in Threads : pc'[u] = pc[u] \/ (pc[u] = "constructing" /\ pc'[u] = "idle")
    BY <1>16 DEF Construct, PlaceInv
  <2>4. WatcherAt(s)' => WatcherAt(s)
    BY <2>1, <2>3 DEF WatcherAt
  <2>5. \A u \in Threads : /\ HasBatch(u, s)' <=> HasBatch(u, s)
                           /\ Passes(u, s)' <=> Passes(u, s)
                           /\ Keeping(u, s)' <=> Keeping(u, s)
    BY <2>1, <2>3 DEF HasBatch, Passes, Keeping
  <2> QED
    BY <2>1, <2>2, <2>4, <2>5, FadeFrame DEF LineMoves
<1>17. CASE StartClose
  <2>1. OnlyMoves(Owner) /\ pc[Owner] \notin LinePcs /\ pc'[Owner] \notin LinePcs
    BY <1>17 DEF StartClose, OnlyMoves, LinePcs
  <2>2. QueueStays(s) /\ KnownStays(s) /\ UNCHANGED <<payload, writes, fate>>
    BY <1>0, <1>17 DEF StartClose, QueueStays, KnownStays
  <2> QED
    BY <2>1, <2>2, AwayFades DEF LineMoves
<1>18. CASE Drain
  <2>1. OnlyMoves(Owner) /\ pc[Owner] \notin LinePcs /\ pc'[Owner] \notin LinePcs
    BY <1>18 DEF Drain, OnlyMoves, LinePcs
  <2>2. QueueStays(s) /\ KnownStays(s) /\ UNCHANGED <<payload, writes, fate>>
    BY <1>0, <1>18 DEF Drain, QueueStays, KnownStays
  <2> QED
    BY <2>1, <2>2, AwayFades DEF LineMoves
<1>19. CASE Join
  <2>1. OnlyMoves(Owner) /\ pc[Owner] \notin LinePcs /\ pc'[Owner] \notin LinePcs
    BY <1>19 DEF Join, OnlyMoves, LinePcs
  <2>2. QueueStays(s) /\ KnownStays(s) /\ UNCHANGED <<payload, writes, fate>>
    BY <1>0, <1>19 DEF Join, QueueStays, KnownStays
  <2> QED
    BY <2>1, <2>2, AwayFades DEF LineMoves
<1>20. CASE TestStatus
  <2>1. OnlyMoves(Watcher) /\ pc[Watcher] \notin LinePcs /\ pc'[Watcher] \notin LinePcs
    BY <1>20 DEF TestStatus, OnlyMoves, LinePcs
  <2>2. QueueStays(s) /\ KnownStays(s) /\ UNCHANGED <<payload, writes, fate>>
    BY <1>0, <1>20 DEF TestStatus, QueueStays, KnownStays
  <2>3. WatcherAt(s)' => WatcherAt(s)
    BY <1>20 DEF TestStatus, WatcherAt
  <2> QED
    BY <2>1, <2>2, <2>3, AwayFades DEF LineMoves
<1>21. CASE Sweep
  <2>1. OnlyMoves(Watcher) /\ pc[Watcher] \notin LinePcs /\ pc'[Watcher] \notin LinePcs
    BY <1>21 DEF Sweep, OnlyMoves, LinePcs
  <2>2. QueueStays(s) /\ KnownStays(s) /\ UNCHANGED <<payload, writes, fate>>
    BY <1>0, <1>21 DEF Sweep, QueueStays, KnownStays
  <2>3. WatcherAt(s)' => WatcherAt(s)
    BY <1>21 DEF Sweep, WatcherAt
  <2> QED
    BY <2>1, <2>2, <2>3, AwayFades DEF LineMoves
<1>22. CASE TryLock
  <2>1. OnlyMoves(Watcher) /\ pc[Watcher] \notin LinePcs /\ pc'[Watcher] \notin LinePcs
    BY <1>22 DEF TryLock, OnlyMoves, LinePcs
  <2>2. QueueStays(s) /\ KnownStays(s) /\ UNCHANGED <<payload, writes, fate>>
    BY <1>0, <1>22 DEF TryLock, QueueStays, KnownStays
  <2>3. CASE cur[Watcher] = s /\ MayFlush(s)
    <3>1. HoldersStay(s) /\ KeepersStay(s) /\ UnderwayStays(s)
      BY <2>1, <2>2, AwayFrame, UnderwayFrame
    <3> QED
      BY <2>2, <2>3, <3>1 DEF MayFlush, TimeOut, Finds, LineMoves
  <2>4. CASE ~(cur[Watcher] = s /\ MayFlush(s))
    <3>1. WatcherAt(s)' => WatcherAt(s)
      BY <1>22, <2>4 DEF TryLock, WatcherAt
    <3> QED
      BY <2>1, <2>2, <3>1, AwayFades DEF LineMoves
  <2> QED
    BY <2>3, <2>4
<1>23. CASE TryPermit
  <2>1. /\ pc[Watcher] = "permit" /\ pc'[Watcher] \in {"copy", "sweep"}
        /\ pc'[Watcher] = "copy" => cur'[Watcher] = cur[Watcher]
        /\ \A u \in Threads \ {Watcher} :
             /\ pc'[u] = pc[u] /\ cur'[u] = cur[u] /\ taken'[u] = taken[u]
             /\ future'[u] = future[u] /\ dpc'[u] = dpc[u]
    BY <1>23, LeaveFacts, AfterPlaces DEF TryPermit, TakePermit, WP!Acquire, BatchPcs, After,
       PlaceInv, Pool!IndInv, Pool!TypeOK
  <2>2. QueueStays(s) /\ KnownStays(s) /\ UNCHANGED <<payload, writes>>
    BY <1>0, <1>23 DEF TryPermit, TakePermit, WP!Acquire, WP!execVars, QueueStays, KnownStays
  <2>3. \A a \in Actions : fate'[a] = "accepted" <=> fate[a] = "accepted"
    <3>1. CASE TakePermit(Watcher)
      BY <3>1 DEF TakePermit, NextAction, WP!Acquire, Pool!IndInv, Pool!TypeOK
    <3> QED
      BY <1>23, <3>1 DEF TryPermit
  <2>4. WatcherAt(s)' => WatcherAt(s)
    BY <2>1 DEF WatcherAt
  <2>5. OnlyMoves(Watcher) /\ pc[Watcher] \notin LinePcs /\ pc'[Watcher] \notin LinePcs
    BY <2>1 DEF OnlyMoves, LinePcs
  <2> QED
    BY <2>2, <2>3, <2>4, <2>5, AwayFades DEF LineMoves
<1>24. ASSUME NEW w \in WP!Workers, Work(w) PROVE LineMoves(s)
  <2>1. UNCHANGED <<records, putLog, pc, cur, taken, future, payload, fate, dpc>>
    BY <1>24 DEF Work, WP!Run, WP!TakeMutex, WP!ReleasePermit, WP!Wait, WP!ExecWrite,
       WP!ExecSetValue, WP!BecomeIdle, WP!Exit, WP!delivererVars
  <2>2. KnownStays(s)
    BY <1>0, <1>24 DEF Work, KnownStays
  <2>3. CASE wpc[w] = "looping" /\ status[w] = "BUSY"
    <3>1. WP!Write(action[w]) /\ Store(action[w])
      BY <1>24, <2>3 DEF Work, WP!Run, WP!TakeMutex, WP!ReleasePermit, WP!Wait, WP!ExecWrite,
         WP!ExecSetValue, WP!BecomeIdle, WP!Exit
    <3> QED
      BY <2>1, <2>2, <2>3, <3>1, SlotFacts, StoreLoads
  <2>4. CASE ~(wpc[w] = "looping" /\ status[w] = "BUSY")
    <3>1. UNCHANGED <<database, writes>>
      BY <1>24, <2>4 DEF Work, WP!Run, WP!TakeMutex, WP!ReleasePermit, WP!Wait, WP!ExecWrite,
         WP!ExecSetValue, WP!BecomeIdle, WP!Exit, WP!execVars
    <3> QED
      BY <2>1, <2>2, <3>1, StillFades DEF QueueStays, LineMoves
  <2> QED
    BY <2>3, <2>4
<1>25. CASE DestroyPool
  <2>1. UNCHANGED <<records, putLog, pc, cur, taken, future, payload, fate, dpc>>
    BY <1>25 DEF DestroyPool, WP!Close, WP!CloseWorker, WP!CloseJoin, WP!delivererVars
  <2>2. KnownStays(s)
    BY <1>0, <1>25 DEF DestroyPool, KnownStays
  <2>3. CASE cpc = "closing" /\ status[cidx] = "BUSY"
    <3>1. WP!Write(action[cidx]) /\ Store(action[cidx]) /\ cidx \notin locked
      BY <1>25, <2>3 DEF DestroyPool, WP!Close, WP!CloseWorker, WP!CloseJoin, WP!ExecLeftover
    <3>2. cidx \in WP!Workers
      BY <2>3, SameWorkers DEF Pool!IndInv, Pool!CloseInv
    <3>3. wpc[cidx] \notin {"written", "settled"}
      BY <3>1, <3>2, SameWorkers DEF Pool!IndInv, Pool!MutualExclusion, Pool!ThreadOwns
    <3> QED
      BY <2>1, <2>2, <2>3, <3>1, <3>2, <3>3, SlotFacts, StoreLoads
  <2>4. CASE ~(cpc = "closing" /\ status[cidx] = "BUSY")
    <3>1. UNCHANGED <<database, writes>>
      BY <1>25, <2>4 DEF DestroyPool, WP!Close, WP!CloseWorker, WP!CloseJoin, WP!ExecLeftover,
         WP!execVars
    <3> QED
      BY <2>1, <2>2, <3>1, StillFades DEF QueueStays, LineMoves
  <2> QED
    BY <2>3, <2>4
<1>26. ASSUME NEW w \in WP!Workers, SpuriousWakeup(w) PROVE LineMoves(s)
  <2>1. UNCHANGED <<pc, cur, taken, future, payload, writes, fate>>
    BY <1>26 DEF SpuriousWakeup, WP!SpuriousWakeup, WP!execVars, WP!delivererVars
  <2>2. dpc'[Watcher] # "idle" => dpc[Watcher] # "idle"
    BY <1>26 DEF SpuriousWakeup, WP!SpuriousWakeup, WP!execVars, WP!delivererVars
  <2>3. QueueStays(s) /\ KnownStays(s)
    BY <1>0, <1>26 DEF SpuriousWakeup, QueueStays, KnownStays
  <2> QED
    BY <2>1, <2>2, <2>3, StillFades DEF LineMoves
<1>27. ASSUME NEW c \in Shards, Age(c) PROVE LineMoves(s)
  <2>1. UNCHANGED <<pc, cur, taken, future, payload, writes, fate>>
    BY <1>27 DEF Age
  <2>2. dpc'[Watcher] # "idle" => dpc[Watcher] # "idle"
    BY <1>27 DEF Age
  <2>3. QueueStays(s) /\ KnownStays(s)
    BY <1>0, <1>27 DEF Age, QueueStays, KnownStays
  <2> QED
    BY <2>1, <2>2, <2>3, StillFades DEF LineMoves
<1>28. CASE WriteThrows
  <2>1. UNCHANGED <<pc, cur, taken, future, payload, writes, fate>>
    BY <1>28 DEF WriteThrows, WP!WriteThrows, WP!execVars, WP!delivererVars
  <2>2. dpc'[Watcher] # "idle" => dpc[Watcher] # "idle"
    BY <1>28 DEF WriteThrows, WP!WriteThrows, WP!execVars, WP!delivererVars
  <2>3. QueueStays(s) /\ KnownStays(s)
    BY <1>0, <1>28 DEF WriteThrows, QueueStays, KnownStays
  <2> QED
    BY <2>1, <2>2, <2>3, StillFades DEF LineMoves
<1>29. CASE Crash
  <2>1. UNCHANGED <<pc, cur, taken, future, payload, writes, fate>>
    BY <1>29 DEF Crash
  <2>2. dpc'[Watcher] # "idle" => dpc[Watcher] # "idle"
    BY <1>29 DEF Crash
  <2>3. QueueStays(s) /\ KnownStays(s)
    BY <1>0, <1>29 DEF Crash, QueueStays, KnownStays
  <2> QED
    BY <2>1, <2>2, <2>3, StillFades DEF LineMoves
<1>30. CASE UNCHANGED vars
  <2>1. UNCHANGED <<pc, cur, taken, future, payload, writes, fate>>
    BY <1>30 DEF vars
  <2>2. dpc'[Watcher] # "idle" => dpc[Watcher] # "idle"
    BY <1>30 DEF vars
  <2>3. QueueStays(s) /\ KnownStays(s)
    BY <1>0, <1>30 DEF vars, QueueStays, KnownStays
  <2> QED
    BY <2>1, <2>2, <2>3, StillFades DEF LineMoves
<1> QED
  BY <1>1, <1>2, <1>3, <1>4, <1>5, <1>6, <1>7, <1>8, <1>9, <1>10, <1>11, <1>12, <1>13, <1>14,
     <1>15, <1>16, <1>17, <1>18, <1>19, <1>20, <1>21, <1>22, <1>23, <1>24, <1>25, <1>26, <1>27,
     <1>28, <1>29, <1>30, StepCases

(* A sequence that was appended to.                                        *)
LEMMA AppendNotEmpty ==
  ASSUME NEW S, NEW seq \in Seq(S), NEW e \in S
  PROVE  Append(seq, e) # <<>>
<1>1. Len(Append(seq, e)) = Len(seq) + 1 /\ Len(seq) \in Nat
  OBVIOUS
<1>2. Len(<<>>) = 0
  OBVIOUS
<1> QED
  BY <1>1, <1>2

(* What is asked of thread t when it moves.                                *)
LoadedAt(t) ==
  /\ job[t] \in {"flush", "close"} \/ Calm => Loaded(t)
  /\ Calm => Fetching(t)

(* Thread t moves, with a batch that is not empty or with none.            *)
LEMMA LoadedFrame ==
  ASSUME LoadedInv, NEW t \in Threads, OnlyMoves(t), Calm' => Calm, terminated => terminated',
         \A u \in Threads \ {t} : job'[u] = job[u],
         \A u \in Threads : pc[u] = "assign" => payload'[future[u]] = payload[future[u]],
         \A u \in Threads \ {t} :
           Calm /\ pc[u] = "copy" /\ records[cur[u]] # <<>> => records'[cur[u]] # <<>>,
         LoadedAt(t)'
  PROVE  LoadedInv'
<1>1. SUFFICES ASSUME NEW u \in Threads PROVE LoadedAt(u)'
  BY DEF LoadedInv, LoadedAt
<1>2. CASE u = t
  BY <1>2
<1>3. CASE u # t
  <2>1. /\ pc'[u] = pc[u] /\ cur'[u] = cur[u] /\ taken'[u] = taken[u] /\ future'[u] = future[u]
        /\ job'[u] = job[u]
    BY <1>3 DEF OnlyMoves
  <2>2. Loaded(u) => Loaded(u)'
    BY <2>1 DEF Loaded
  <2>3. Calm /\ Fetching(u) => Fetching(u)'
    BY <1>3, <2>1 DEF Fetching
  <2> QED
    BY <2>1, <2>2, <2>3 DEF LoadedInv, LoadedAt
<1> QED
  BY <1>2, <1>3

(* No thread moves.                                                        *)
LEMMA LoadedStill ==
  ASSUME LoadedInv, UNCHANGED <<pc, cur, taken, future, job, payload, records, flushes>>,
         terminated => terminated'
  PROVE  LoadedInv'
BY DEF LoadedInv, Calm, Loaded, Fetching

(* A thread on its way with a batch has one that is not empty.              *)
LEMMA LoadedStep ==
  ASSUME IndInv, HandInv, LoadedInv, [Next]_vars
  PROVE  LoadedInv'
<1> USE ConstantFacts, Domains DEF IndInv
<1>0. (Calm' => Calm) /\ LoadedInv
  BY CalmStep
<1>1. ASSUME NEW t \in AppThreads, NEW r \in Records, StartPut(t, r) PROVE LoadedInv'
  <2>1. OnlyMoves(t) /\ (\A u \in Threads \ {t} : job'[u] = job[u])
    BY <1>1 DEF StartPut, OnlyMoves
  <2>2. UNCHANGED <<payload, records, terminated>>
    BY <1>1 DEF StartPut
  <2>3. LoadedAt(t)'
    <3>1. pc'[t] \notin LinePcs \union {"clear", "copy"}
      BY <1>1 DEF StartPut, LinePcs
    <3> QED
      BY <3>1 DEF LoadedAt, Loaded, Fetching, LinePcs
  <2> QED
    BY <1>0, <2>1, <2>2, <2>3, LoadedFrame
<1>2. ASSUME NEW t \in AppThreads, StartFlush(t) PROVE LoadedInv'
  <2>1. OnlyMoves(t) /\ (\A u \in Threads \ {t} : job'[u] = job[u])
    BY <1>2 DEF StartFlush, OnlyMoves
  <2>2. UNCHANGED <<payload, records, terminated>>
    BY <1>2 DEF StartFlush
  <2>3. LoadedAt(t)'
    <3>1. pc'[t] \notin LinePcs \union {"clear", "copy"}
      BY <1>2 DEF StartFlush, LinePcs
    <3> QED
      BY <3>1 DEF LoadedAt, Loaded, Fetching, LinePcs
  <2> QED
    BY <1>0, <2>1, <2>2, <2>3, LoadedFrame
<1>3. ASSUME NEW t \in Threads, Apply(t) PROVE LoadedInv'
  <2>1. /\ OnlyMoves(t) /\ (\A u \in Threads \ {t} : job'[u] = job[u]) /\ pc'[t] = "check"
        /\ UNCHANGED <<payload, terminated>>
    BY <1>3 DEF Apply, OnlyMoves
  <2>2. \A c \in Shards : records[c] # <<>> => records'[c] # <<>>
    <3>1. taken[t][1] \in Records /\ records \in [Shards -> Seq(Records)]
      <4>1. PICK r \in Records : taken[t] = <<r>>
        BY <1>3 DEF Apply, PutInv, PutHand
      <4> QED
        BY <4>1 DEF TypeOK
    <3>2. SUFFICES ASSUME NEW c \in Shards, records[c] # <<>> PROVE records'[c] # <<>>
      OBVIOUS
    <3>3. records'[c] = IF c = cur[t] THEN Append(records[c], taken[t][1]) ELSE records[c]
      BY <1>3, <3>1 DEF Apply, PushBack
    <3>4. Append(records[c], taken[t][1]) # <<>>
      BY <3>1, AppendNotEmpty
    <3> QED
      BY <3>2, <3>3, <3>4
  <2>3. LoadedAt(t)'
    BY <2>1 DEF LoadedAt, Loaded, Fetching
  <2> QED
    BY <1>0, <2>1, <2>2, <2>3, LoadedFrame
<1>4. ASSUME NEW t \in Threads, Check(t) PROVE LoadedInv'
  <2>1. OnlyMoves(t) /\ (\A u \in Threads \ {t} : job'[u] = job[u])
    BY <1>4, LeaveFacts DEF Check, OnlyMoves
  <2>2. UNCHANGED <<payload, records, terminated>>
    BY <1>4 DEF Check
  <2>3. LoadedAt(t)'
    <3>1. CASE pc'[t] = "copy" /\ cur' = cur /\ records[cur[t]] # <<>>
      BY <1>4, <3>1 DEF Check, LoadedAt, Loaded, Fetching
    <3>2. CASE pc'[t] \in {"idle", "next", "sweep"}
      BY <3>2 DEF LoadedAt, Loaded, Fetching
    <3> QED
      BY <1>4, <3>1, <3>2, LeaveFacts, AfterPlaces DEF Check, ReachTarget, BatchPcs
  <2> QED
    BY <1>0, <2>1, <2>2, <2>3, LoadedFrame
<1>5. ASSUME NEW t \in Threads, Copy(t) PROVE LoadedInv'
  <2>1. OnlyMoves(t) /\ (\A u \in Threads \ {t} : job'[u] = job[u])
    BY <1>5 DEF Copy, OnlyMoves
  <2>2. UNCHANGED <<payload, records, terminated>>
    BY <1>5 DEF Copy
  <2>3. LoadedAt(t)'
    <3>1. /\ pc[t] = "copy" /\ pc'[t] = "clear" /\ taken'[t] = records[cur[t]]
      BY <1>5 DEF Copy
    <3> QED
      BY <1>0, <3>1 DEF LoadedAt, Loaded, Fetching, LoadedInv
  <2> QED
    BY <1>0, <2>1, <2>2, <2>3, LoadedFrame
<1>6. ASSUME NEW t \in Threads, Clear(t) PROVE LoadedInv'
  <2>1. /\ pc[t] = "clear" /\ UNCHANGED <<taken, future, dpc, payload, terminated>>
        /\ \A u \in Threads \ {t} : pc'[u] = pc[u] /\ cur'[u] = cur[u] /\ job'[u] = job[u]
        /\ \/ pc'[t] \in {"deliver", "await"} /\ job'[t] = job[t]
              /\ ~(job[t] \in {"flush", "close"} /\ taken[t] = <<>>)
           \/ pc'[t] \in {"idle", "next", "sweep"}
    BY <1>6, LeaveFacts, AfterPlaces DEF Clear, BatchPcs
  <2>2. LoadedAt(t)'
    BY <1>0, <2>1 DEF LoadedAt, Loaded, Fetching, LoadedInv
  <2>3. OnlyMoves(t)
    BY <2>1 DEF OnlyMoves
  <2>4. \A u \in Threads \ {t} : Calm /\ pc[u] = "copy" => records'[cur[u]] = records[cur[u]]
    <3>1. SUFFICES ASSUME NEW u \in Threads \ {t}, Calm, pc[u] = "copy"
                   PROVE  records'[cur[u]] = records[cur[u]]
      OBVIOUS
    <3>2. HasMutex(t) /\ HasMutex(u)
      BY <2>1, <3>1, CalmMutex DEF BatchPcs
    <3>3. cur[t] # cur[u]
      BY <3>2 DEF MutexInv
    <3> QED
      BY <1>6, <3>3 DEF Clear, EmptyRecords, TypeOK
  <2> QED
    BY <1>0, <2>1, <2>2, <2>3, <2>4, LoadedFrame
<1>7. ASSUME NEW t \in Threads, Await(t) PROVE LoadedInv'
  <2>1. OnlyMoves(t) /\ (\A u \in Threads \ {t} : job'[u] = job[u])
    BY <1>7 DEF Await, OnlyMoves
  <2>2. UNCHANGED <<payload, records, terminated>>
    BY <1>7 DEF Await
  <2>3. LoadedAt(t)'
    <3>1. /\ pc[t] = "await" /\ pc'[t] = "acquire" /\ UNCHANGED <<taken, job>>
      BY <1>7 DEF Await
    <3> QED
      BY <1>0, <3>1 DEF LoadedAt, Loaded, Fetching, LoadedInv
  <2> QED
    BY <1>0, <2>1, <2>2, <2>3, LoadedFrame
<1>8. ASSUME NEW t \in Threads, AcquirePermit(t) PROVE LoadedInv'
  <2>1. /\ pc[t] = "acquire" /\ pc'[t] = "deliver" /\ UNCHANGED <<cur, taken, future, job>>
        /\ \A u \in Threads \ {t} : pc'[u] = pc[u] /\ dpc'[u] = dpc[u]
    BY <1>8 DEF AcquirePermit, TakePermit, WP!Acquire, Pool!IndInv, Pool!TypeOK
  <2>2. UNCHANGED <<payload, records, terminated>>
    BY <1>8 DEF AcquirePermit
  <2>3. LoadedAt(t)'
    BY <1>0, <2>1 DEF LoadedAt, Loaded, Fetching, LoadedInv
  <2>4. OnlyMoves(t)
    BY <2>1 DEF OnlyMoves
  <2> QED
    BY <1>0, <2>1, <2>2, <2>3, <2>4, LoadedFrame
<1>9. ASSUME NEW t \in Threads, Scan(t) PROVE LoadedInv'
  BY <1>9, LoadedStill DEF Scan
<1>10. ASSUME NEW t \in Threads, Give(t) PROVE LoadedInv'
  <2> DEFINE a == carry[t]
  <2>1. a \in Actions /\ fate[a] = "carried"
    BY <1>10, FreshCarry DEF Give, WP!GiveAction
  <2>2. /\ pc[t] = "deliver" /\ pc'[t] = "assign" /\ future'[t] = a /\ ~terminated
        /\ HandOver(t) /\ UNCHANGED <<records, job, cur, terminated>>
        /\ \A u \in Threads \ {t} :
             pc'[u] = pc[u] /\ future'[u] = future[u] /\ taken'[u] = taken[u]
    BY <1>10, StepIsAlive DEF Give, WP!GiveAction, HandOver, vars
  <2>3. /\ payload'[a] = taken[t] /\ \A b \in Actions \ {a} : payload'[b] = payload[b]
    <3>1. payload \in [Actions -> Seq(Records)]
      BY DEF TypeOK
    <3> QED
      BY <2>1, <2>2, <3>1 DEF HandOver
  <2>4. \A u \in Threads \ {t} : dpc'[u] = dpc[u]
    BY <1>10 DEF Give, WP!GiveAction, Pool!IndInv, Pool!TypeOK
  <2> HIDE DEF a
  <2>5. OnlyMoves(t)
    BY <2>2, <2>4 DEF OnlyMoves
  <2>6. LoadedAt(t)'
    BY <1>0, <2>2, <2>3 DEF LoadedAt, Loaded, Fetching, LoadedInv
  <2>7. \A u \in Threads : pc[u] = "assign" => payload'[future[u]] = payload[future[u]]
    BY <2>1, <2>3 DEF PermitInv
  <2> QED
    BY <1>0, <2>2, <2>5, <2>6, <2>7, LoadedFrame
<1>11. ASSUME NEW t \in Threads, Assign(t) PROVE LoadedInv'
  <2>1. OnlyMoves(t) /\ (\A u \in Threads \ {t} : job'[u] = job[u])
    BY <1>11, LeaveFacts DEF Assign, OnlyMoves
  <2>2. UNCHANGED <<payload, records>> /\ (terminated => terminated')
    BY <1>11, StepIsAlive DEF Assign, vars
  <2>3. pc'[t] \in {"idle", "next", "sweep"}
    BY <1>11, LeaveFacts, AfterPlaces DEF Assign, BatchPcs
  <2>4. LoadedAt(t)'
    BY <2>3 DEF LoadedAt, Loaded, Fetching
  <2> QED
    BY <1>0, <2>1, <2>2, <2>4, LoadedFrame
<1>12. ASSUME NEW t \in Threads, Throw(t) PROVE LoadedInv'
  <2> DEFINE a == carry[t]
  <2>1. a \in Actions /\ fate[a] = "carried"
    BY <1>12, FreshCarry DEF Throw, WP!ThrowInner
  <2>2. /\ HandOver(t) /\ UNCHANGED <<records, future>> /\ (terminated => terminated')
        /\ \A u \in Threads \ {t} :
             pc'[u] = pc[u] /\ cur'[u] = cur[u] /\ taken'[u] = taken[u] /\ job'[u] = job[u]
    BY <1>12 DEF Throw, WP!ThrowInner, HandOver
  <2>3. \A b \in Actions \ {a} : payload'[b] = payload[b]
    <3>1. payload \in [Actions -> Seq(Records)]
      BY DEF TypeOK
    <3> QED
      BY <2>1, <2>2, <3>1 DEF HandOver
  <2>4. \A u \in Threads \ {t} : dpc'[u] = dpc[u]
    BY <1>12 DEF Throw, WP!ThrowInner, Pool!IndInv, Pool!TypeOK
  <2> HIDE DEF a
  <2>5. OnlyMoves(t)
    BY <2>2, <2>4 DEF OnlyMoves
  <2>6. LoadedAt(t)'
    <3>1. pc'[t] = "idle"
      BY <1>12 DEF Throw
    <3> QED
      BY <3>1 DEF LoadedAt, Loaded, Fetching
  <2>7. \A u \in Threads : pc[u] = "assign" => payload'[future[u]] = payload[future[u]]
    BY <2>1, <2>3 DEF PermitInv
  <2> QED
    BY <1>0, <2>2, <2>5, <2>6, <2>7, LoadedFrame
<1>13. ASSUME NEW t \in Threads, ThrowUncaught(t) PROVE LoadedInv'
  <2> DEFINE a == carry[t]
  <2>1. a \in Actions /\ fate[a] = "carried"
    BY <1>13, FreshCarry DEF ThrowUncaught, WP!ThrowUncaught, WP!ThrowInner
  <2>2. /\ HandOver(t) /\ UNCHANGED <<records, future>> /\ (terminated => terminated')
        /\ \A u \in Threads \ {t} :
             pc'[u] = pc[u] /\ cur'[u] = cur[u] /\ taken'[u] = taken[u] /\ job'[u] = job[u]
    BY <1>13 DEF ThrowUncaught, WP!ThrowUncaught, WP!ThrowInner, HandOver
  <2>3. \A b \in Actions \ {a} : payload'[b] = payload[b]
    <3>1. payload \in [Actions -> Seq(Records)]
      BY DEF TypeOK
    <3> QED
      BY <2>1, <2>2, <3>1 DEF HandOver
  <2>4. \A u \in Threads \ {t} : dpc'[u] = dpc[u]
    BY <1>13 DEF ThrowUncaught, WP!ThrowUncaught, WP!ThrowInner, Pool!IndInv, Pool!TypeOK
  <2> HIDE DEF a
  <2>5. OnlyMoves(t)
    BY <2>2, <2>4 DEF OnlyMoves
  <2>6. LoadedAt(t)'
    <3>1. pc'[t] = "deliver" /\ terminated'
      BY <1>13 DEF ThrowUncaught, WP!ThrowUncaught
    <3> QED
      BY <3>1 DEF LoadedAt, Loaded, Fetching
  <2>7. \A u \in Threads : pc[u] = "assign" => payload'[future[u]] = payload[future[u]]
    BY <2>1, <2>3 DEF PermitInv
  <2> QED
    BY <1>0, <2>2, <2>5, <2>6, <2>7, LoadedFrame
<1>14. ASSUME NEW t \in Threads, VisitNext(t) PROVE LoadedInv'
  <2>1. OnlyMoves(t) /\ (\A u \in Threads \ {t} : job'[u] = job[u])
    BY <1>14 DEF VisitNext, OnlyMoves
  <2>2. UNCHANGED <<payload, records, terminated>>
    BY <1>14 DEF VisitNext
  <2>3. LoadedAt(t)'
    <3>1. pc'[t] = "copy" /\ ~Calm
      <4>1. job[t] = "flush" \/ (job[t] = "close" /\ t = Owner)
        BY <1>14 DEF VisitNext, PlaceInv, BatchPcs, TypeOK, Jobs
      <4> QED
        BY <1>14, <4>1 DEF VisitNext, CalmInv, Calm
    <3> QED
      BY <1>0, <3>1 DEF LoadedAt, Loaded
  <2> QED
    BY <1>0, <2>1, <2>2, <2>3, LoadedFrame
<1>15. ASSUME NEW t \in Threads, EndFlush(t) PROVE LoadedInv'
  <2>1. OnlyMoves(t) /\ (\A u \in Threads \ {t} : job'[u] = job[u])
    BY <1>15 DEF EndFlush, OnlyMoves
  <2>2. UNCHANGED <<payload, records, terminated>>
    BY <1>15 DEF EndFlush
  <2>3. LoadedAt(t)'
    <3>1. pc'[t] \notin LinePcs \union {"clear", "copy"}
      BY <1>15 DEF EndFlush, LinePcs
    <3> QED
      BY <3>1 DEF LoadedAt, Loaded, Fetching, LinePcs
  <2> QED
    BY <1>0, <2>1, <2>2, <2>3, LoadedFrame
<1>16. CASE Construct
  <2>1. UNCHANGED <<cur, taken, future, job, payload, records, flushes, terminated>>
    BY <1>16 DEF Construct
  <2>2. \A u \in Threads : pc'[u] = pc[u] \/ (pc[u] = "constructing" /\ pc'[u] = "idle")
    BY <1>16 DEF Construct, PlaceInv
  <2> QED
    BY <1>0, <2>1, <2>2 DEF LoadedInv, Loaded, Fetching
<1>17. CASE StartClose
  <2>1. OnlyMoves(Owner) /\ (\A u \in Threads \ {Owner} : job'[u] = job[u])
    BY <1>17 DEF StartClose, OnlyMoves
  <2>2. UNCHANGED <<payload, records, terminated>>
    BY <1>17 DEF StartClose
  <2>3. LoadedAt(Owner)'
    <3>1. pc'[Owner] \notin LinePcs \union {"clear", "copy"}
      BY <1>17 DEF StartClose, LinePcs
    <3> QED
      BY <3>1 DEF LoadedAt, Loaded, Fetching, LinePcs
  <2> QED
    BY <1>0, <2>1, <2>2, <2>3, LoadedFrame
<1>18. CASE Drain
  <2>1. OnlyMoves(Owner) /\ (\A u \in Threads \ {Owner} : job'[u] = job[u])
    BY <1>18 DEF Drain, OnlyMoves
  <2>2. UNCHANGED <<payload, records, terminated>>
    BY <1>18 DEF Drain
  <2>3. LoadedAt(Owner)'
    <3>1. pc'[Owner] \notin LinePcs \union {"clear", "copy"}
      BY <1>18 DEF Drain, LinePcs
    <3> QED
      BY <3>1 DEF LoadedAt, Loaded, Fetching, LinePcs
  <2> QED
    BY <1>0, <2>1, <2>2, <2>3, LoadedFrame
<1>19. CASE Join
  <2>1. OnlyMoves(Owner) /\ (\A u \in Threads \ {Owner} : job'[u] = job[u])
    BY <1>19 DEF Join, OnlyMoves
  <2>2. UNCHANGED <<payload, records, terminated>>
    BY <1>19 DEF Join
  <2>3. LoadedAt(Owner)'
    <3>1. pc'[Owner] \notin LinePcs \union {"clear", "copy"}
      BY <1>19 DEF Join, LinePcs
    <3> QED
      BY <3>1 DEF LoadedAt, Loaded, Fetching, LinePcs
  <2> QED
    BY <1>0, <2>1, <2>2, <2>3, LoadedFrame
<1>20. CASE TestStatus
  <2>1. OnlyMoves(Watcher) /\ (\A u \in Threads \ {Watcher} : job'[u] = job[u])
    BY <1>20 DEF TestStatus, OnlyMoves
  <2>2. UNCHANGED <<payload, records, terminated>>
    BY <1>20 DEF TestStatus
  <2>3. LoadedAt(Watcher)'
    <3>1. pc'[Watcher] \notin LinePcs \union {"clear", "copy"}
      BY <1>20 DEF TestStatus, LinePcs
    <3> QED
      BY <3>1 DEF LoadedAt, Loaded, Fetching, LinePcs
  <2> QED
    BY <1>0, <2>1, <2>2, <2>3, LoadedFrame
<1>21. CASE Sweep
  <2>1. OnlyMoves(Watcher) /\ (\A u \in Threads \ {Watcher} : job'[u] = job[u])
    BY <1>21 DEF Sweep, OnlyMoves
  <2>2. UNCHANGED <<payload, records, terminated>>
    BY <1>21 DEF Sweep
  <2>3. LoadedAt(Watcher)'
    <3>1. pc'[Watcher] \notin LinePcs \union {"clear", "copy"}
      BY <1>21 DEF Sweep, LinePcs
    <3> QED
      BY <3>1 DEF LoadedAt, Loaded, Fetching, LinePcs
  <2> QED
    BY <1>0, <2>1, <2>2, <2>3, LoadedFrame
<1>22. CASE TryLock
  <2>1. OnlyMoves(Watcher) /\ (\A u \in Threads \ {Watcher} : job'[u] = job[u])
    BY <1>22 DEF TryLock, OnlyMoves
  <2>2. UNCHANGED <<payload, records, terminated>>
    BY <1>22 DEF TryLock
  <2>3. LoadedAt(Watcher)'
    <3>1. pc'[Watcher] \notin LinePcs \union {"clear", "copy"}
      BY <1>22 DEF TryLock, LinePcs
    <3> QED
      BY <3>1 DEF LoadedAt, Loaded, Fetching, LinePcs
  <2> QED
    BY <1>0, <2>1, <2>2, <2>3, LoadedFrame
<1>23. CASE TryPermit
  <2>1. /\ pc[Watcher] = "permit" /\ pc'[Watcher] \in {"copy", "sweep"}
        /\ pc'[Watcher] = "copy" => cur'[Watcher] = cur[Watcher]
        /\ \A u \in Threads \ {Watcher} :
             /\ pc'[u] = pc[u] /\ cur'[u] = cur[u] /\ taken'[u] = taken[u] /\ job'[u] = job[u]
             /\ future'[u] = future[u] /\ dpc'[u] = dpc[u]
    BY <1>23, LeaveFacts, AfterPlaces DEF TryPermit, TakePermit, WP!Acquire, BatchPcs, After,
       PlaceInv, Pool!IndInv, Pool!TypeOK
  <2>2. UNCHANGED <<payload, records, terminated>>
    BY <1>23 DEF TryPermit
  <2>3. Calm => records[cur[Watcher]] # <<>>
    BY <2>1 DEF WatcherCheckHolds, TimeOut, Calm
  <2>4. job'[Watcher] = "watch"
    BY <1>23, LeaveFacts DEF TryPermit, PlaceInv
  <2>5. LoadedAt(Watcher)'
    BY <1>0, <2>1, <2>2, <2>3, <2>4 DEF LoadedAt, Loaded, Fetching
  <2>6. OnlyMoves(Watcher)
    BY <2>1 DEF OnlyMoves
  <2> QED
    BY <1>0, <2>1, <2>2, <2>5, <2>6, LoadedFrame
<1>24. ASSUME NEW w \in WP!Workers, Work(w) PROVE LoadedInv'
  BY <1>24, LoadedStill DEF Work
<1>25. CASE DestroyPool
  BY <1>25, LoadedStill DEF DestroyPool
<1>26. ASSUME NEW w \in WP!Workers, SpuriousWakeup(w) PROVE LoadedInv'
  BY <1>26, LoadedStill DEF SpuriousWakeup
<1>27. ASSUME NEW s \in Shards, Age(s) PROVE LoadedInv'
  BY <1>27, LoadedStill DEF Age
<1>28. CASE WriteThrows
  BY <1>28, LoadedStill DEF WriteThrows, WP!WriteThrows
<1>29. CASE Crash
  BY <1>29, LoadedStill DEF Crash
<1>30. CASE UNCHANGED vars
  BY <1>30, LoadedStill DEF vars
<1> QED
  BY <1>1, <1>2, <1>3, <1>4, <1>5, <1>6, <1>7, <1>8, <1>9, <1>10, <1>11, <1>12, <1>13, <1>14,
     <1>15, <1>16, <1>17, <1>18, <1>19, <1>20, <1>21, <1>22, <1>23, <1>24, <1>25, <1>26, <1>27,
     <1>28, <1>29, <1>30, StepCases

(* A record is only put into a vector that is below the target.            *)
LEMMA GrowsBelow ==
  ASSUME IndInv, [Next]_vars, NEW s \in Shards, TargetInv(s), records'[s] # records[s],
         records'[s] # <<>>
  PROVE  Below(s)
<1> USE ConstantFacts DEF IndInv
<1>1. ASSUME NEW t \in Threads, Apply(t) PROVE Below(s)
  <2>1. cur[t] = s /\ s \notin shardLocked
    BY <1>1 DEF Apply, PushBack, Free, TypeOK
  <2>2. ASSUME NEW u \in Threads, Filling(u, s) PROVE FALSE
    <3>1. HasMutex(u) /\ cur[u] = s
      BY <2>2 DEF Filling, HasMutex, BatchPcs
    <3> QED
      BY <2>1, <3>1 DEF MutexInv
  <2> QED
    BY <2>2 DEF TargetInv
<1>2. ASSUME NEW t \in Threads, Clear(t) PROVE Below(s)
  BY <1>2 DEF Clear, EmptyRecords, TypeOK
<1>3. CASE UNCHANGED vars
  BY <1>3 DEF vars
<1>4. ASSUME NEW t \in AppThreads, NEW r \in Records, StartPut(t, r)
      PROVE  Below(s)
  BY <1>4 DEF StartPut
<1>5. ASSUME NEW t \in AppThreads, StartFlush(t)
      PROVE  Below(s)
  BY <1>5 DEF StartFlush
<1>6. ASSUME NEW t \in Threads, Check(t) \/ Copy(t) \/ Await(t) \/ AcquirePermit(t) \/
            Scan(t) \/ Give(t) \/ Assign(t) \/ Throw(t) \/ ThrowUncaught(t) \/ VisitNext(t) \/
            EndFlush(t)
      PROVE  Below(s)
  BY <1>6
  DEF Check, Copy, Await, AcquirePermit, Scan, Give, Assign, Throw, ThrowUncaught, VisitNext,
      EndFlush
<1>7. CASE Construct \/ StartClose \/ Drain \/ Join \/ TestStatus \/ Sweep \/ TryLock \/
          TryPermit \/ DestroyPool \/ WriteThrows \/ Crash
  BY <1>7
  DEF Construct, StartClose, Drain, Join, TestStatus, Sweep, TryLock, TryPermit, DestroyPool,
      WriteThrows, Crash
<1>8. ASSUME NEW w \in WP!Workers, Work(w) \/ SpuriousWakeup(w)
      PROVE  Below(s)
  BY <1>8 DEF Work, SpuriousWakeup
<1>9. ASSUME NEW c \in Shards, Age(c)
      PROVE  Below(s)
  BY <1>9 DEF Age
<1> QED
  BY <1>1, <1>2, <1>3, <1>4, <1>5, <1>6, <1>7, <1>8, <1>9, StepCases

(* No batch has more records than the target.                              *)
LEMMA BoundStep ==
  ASSUME IndInv, HandInv, NEW s \in Shards, s \notin raced', ShardTypes(s), ClearInv(s),
         TargetInv(s), BoundInv(s), [Next]_vars
  PROVE  BoundInv(s)'
<1> USE ShardSets, ConstantFacts DEF BoundInv
<1>1. ShardMoves(s)
  BY ShardStep
<1>2. CASE Quiet(s)
  BY <1>2 DEF Quiet, VectorStays, HandsStay, BatchesStay
<1>3. ASSUME NEW r \in Records, PutAt(r, s) PROVE BoundInv(s)'
  <2>1. records[s] \in Seq(Records) /\ records'[s] = Append(records[s], r)
    BY <1>3 DEF PutAt, ShardTypes
  <2>2. Len(records'[s]) = Len(records[s]) + 1 /\ Len(records[s]) \in Nat
    BY <2>1
  <2>3. records'[s] # records[s] /\ records'[s] # <<>>
    BY <2>1, <2>2, AppendNotEmpty
  <2>4. Len(records[s]) < TargetNumRecords
    BY <2>3, GrowsBelow DEF Below
  <2>5. Len(records'[s]) <= TargetNumRecords
    BY <2>2, <2>4
  <2> QED
    BY <1>3, <2>5 DEF PutAt, HandsStay, BatchesStay
<1>4. ASSUME NEW t \in Threads, CopyAt(t, s) PROVE BoundInv(s)'
  BY <1>4 DEF CopyAt, BatchesStay
<1>5. ASSUME NEW t \in Threads, ClearAt(t, s) PROVE BoundInv(s)'
  <2>1. Len(records'[s]) <= TargetNumRecords
    BY <1>5 DEF ClearAt
  <2>2. taken'[t] = records[s]
    BY <1>5 DEF ClearAt, ClearInv
  <2> QED
    BY <1>5, <2>1, <2>2 DEF ClearAt, BatchesStay
<1>6. ASSUME NEW t \in Threads, NEW a \in Actions, HandAt(t, a, s) PROVE BoundInv(s)'
  BY <1>6 DEF HandAt, VectorStays
<1>7. ASSUME NEW a \in Actions, LoadAt(a, s) PROVE BoundInv(s)'
  BY <1>7 DEF LoadAt, VectorStays, HandsStay, BatchesStay
<1> QED
  BY <1>1, <1>2, <1>3, <1>4, <1>5, <1>6, <1>7 DEF ShardMoves

-----------------------------------------------------------------------------
(* The invariant holds in the initial states: nothing is in the line.      *)
LEMMA PipelineInit == Init => PipelineInv
<1> SUFFICES ASSUME Init PROVE PipelineInv
  OBVIOUS
<1> USE ConstantFacts
<1>1. BatchInv
  BY BatchInit
<1>2. /\ \A s \in Shards : records[s] = <<>> /\ database[s] = <<>>
      /\ \A a \in Actions : payload[a] = <<>>
      /\ \A t \in Threads : pc[t] \in {"test", "constructing"}
  BY DEF Init, WP!Init
<1>3. LoadedInv
  BY <1>2 DEF LoadedInv, Loaded, Fetching
<1>4. ASSUME NEW s \in Shards PROVE BoundInv(s) /\ LineInv(s)
  <2>1. Holding(s) = {} /\ Batches(s) = {} /\ Underway(s) = {} /\ Passed(s) = {}
    BY <1>2 DEF Holding, Batches, Underway, Passed
  <2>2. Assigning(s) = {} /\ ~WatcherAt(s)
    BY <1>2 DEF Assigning, WatcherAt
  <2>3. BoundInv(s)
    BY <1>2, <2>1 DEF BoundInv
  <2>4. BusyInv(s) /\ KnownInv(s) /\ WaitedInv(s)
    BY <2>1, <2>2 DEF BusyInv, Busy, KnownInv, WaitedInv
  <2>5. FrontInv(s)
    BY <1>2, <2>1 DEF FrontInv, InOrderOf
  <2> QED
    BY <2>3, <2>4, <2>5 DEF LineInv
<1> QED
  BY <1>1, <1>3, <1>4 DEF PipelineInv

(* Every step of a client keeps it: what an earlier state knew of a raced   *)
(* shard is not asked for, since a race is never undone.                    *)
LEMMA PipelineStep == PipelineInv /\ [Next]_vars => PipelineInv'
<1> SUFFICES ASSUME PipelineInv, [Next]_vars PROVE PipelineInv'
  OBVIOUS
<1>1. BatchInv /\ LoadedInv /\ IndInv /\ HandInv /\ TypeOK /\ LogInv
  BY DEF PipelineInv, BatchInv, IndInv, PutInv
<1>2. BatchInv' /\ TypeOK' /\ LogInv'
  <2>1. BatchInv'
    BY <1>1, BatchStep
  <2> QED
    BY <2>1 DEF BatchInv, IndInv, PutInv
<1>3. (\A s \in Shards : ShardTypes(s))'
  BY <1>2, TypesHold, PTL
<1>4. LoadedInv'
  BY <1>1, LoadedStep
<1>5. ASSUME NEW s \in Shards, s \notin raced' PROVE BoundInv(s)' /\ (Orderly' => LineInv(s)')
  <2>1. s \notin raced
    BY <1>1, <1>5, RaceStep
  <2>2. ShardInv(s) /\ TargetInv(s) /\ BoundInv(s) /\ (Orderly => LineInv(s)) /\ ClearInv(s)
    BY <1>5, <2>1 DEF PipelineInv, BatchInv, ShardInv
  <2>3. ShardTypes(s) /\ ShardTypes(s)'
    BY <1>1, <1>5, <1>3, TypesHold
  <2>4. BoundInv(s)'
    BY <1>1, <1>5, <2>2, <2>3, BoundStep
  <2>5. ASSUME Orderly' PROVE LineInv(s)'
    <3>1. Orderly
      BY <1>1, <2>5, OrderlyBack
    <3>2. LineMoves(s)
      BY <1>1, <1>5, <2>2, <3>1, LineMovesStep
    <3> QED
      BY <1>1, <2>2, <2>3, <3>1, <3>2, LineStep DEF IndInv
  <2> QED
    BY <2>4, <2>5
<1> QED
  BY <1>2, <1>4, <1>5 DEF PipelineInv

(* The invariant holds in every behaviour of a client.                     *)
THEOREM PipelineInvariance == Spec => []PipelineInv
BY PipelineInit, PipelineStep, PTL DEF Spec

-----------------------------------------------------------------------------
(* What follows for a shard in order.                                      *)

(* What is in the pipeline was put, and is neither dropped nor refused.    *)
LEMMA PipelineIsKept ==
  ASSUME BatchInv, NEW s \in Shards \ raced, NEW r,
         InDatabase(r, s) \/ InVector(r, s) \/ InHands(r, s) \/ AtWorker(r, s)
  PROVE  r \in Kept(s)
<1>1. ApartInv(s) /\ RunInv(s) /\ ShardTypes(s) /\ HandInv /\ LogInv
  BY TypesHold DEF BatchInv, ShardInv, IndInv, PutInv
<1>2. ASSUME NEW b \in Actions, fate[b] = "dropped" \/ b \in rejected, r \in ToSet(payload[b]),
             r \in ToSet(putLog[s])
      PROVE  b \in Batches(s) /\ b \notin Underway(s)
  <2>1. payload[b] # <<>> /\ ShardOfBatch(b) = s
    BY <1>1, <1>2, EmptySet DEF HandInv, LogInv
  <2> QED
    BY <1>1, <1>2, <2>1 DEF Batches, Underway, HandInv
<1>3. CASE InDatabase(r, s)
  BY <1>3, StoredIsKept DEF InDatabase
<1>4. CASE InVector(r, s)
  <2>1. r \in ToSet(putLog[s])
    BY <1>1, <1>4, EndIsRun, RunFacts DEF InVector, RunInv, ShardTypes
  <2>2. \A b \in Batches(s) : r \notin ToSet(payload[b])
    BY <1>1, <1>4 DEF InVector, ApartInv, Apart
  <2> QED
    BY <1>2, <2>1, <2>2 DEF Kept, Gone
<1>5. CASE InHands(r, s)
  <2>1. PICK t \in Holding(s) : r \in ToSet(taken[t])
    BY <1>5 DEF InHands
  <2>2. r \in ToSet(putLog[s])
    BY <1>1, <2>1, RunFacts, ShardSets DEF RunInv, ShardTypes
  <2>3. \A b \in Batches(s) : r \notin ToSet(payload[b])
    BY <1>1, <2>1 DEF ApartInv, Apart
  <2> QED
    BY <1>2, <2>2, <2>3 DEF Kept, Gone
<1>6. CASE AtWorker(r, s)
  <2>1. PICK a \in Underway(s) : r \in ToSet(payload[a])
    BY <1>6 DEF AtWorker
  <2>2. a \in Batches(s) /\ a \in Actions
    BY <2>1, UnderwayFacts, ShardSets DEF BatchInv, IndInv
  <2>3. r \in ToSet(putLog[s])
    BY <1>1, <2>1, <2>2, RunFacts DEF RunInv, ShardTypes
  <2>4. \A b \in Batches(s) : b # a => r \notin ToSet(payload[b])
    BY <1>1, <2>1, <2>2 DEF ApartInv, Apart
  <2> QED
    BY <1>2, <2>1, <2>3, <2>4 DEF Kept, Gone
<1> QED
  BY <1>3, <1>4, <1>5, <1>6

(* The batch at the worker: the only one, or none.                         *)
LEMMA AtWorkerIs ==
  ASSUME BatchInv, NEW s \in Shards \ raced, LineInv(s)
  PROVE  LET b == TheBatch(Underway(s))
         IN  /\ b \in Seq(Records) /\ Run(b, putLog[s]) /\ Before(database[s], b, putLog[s])
             /\ \A r : r \in ToSet(b) <=> AtWorker(r, s)
<1> DEFINE b == TheBatch(Underway(s))
<1>1. ShardTypes(s) /\ RunInv(s)
  BY TypesHold DEF BatchInv, ShardInv, IndInv, PutInv
<1>2. CASE Underway(s) = {}
  <2>1. b = <<>>
    BY <1>2 DEF TheBatch
  <2>2. Run(<<>>, putLog[s])
    BY <1>1, EmptyAtEnd, EndIsRun DEF ShardTypes
  <2>3. DOMAIN <<>> = {} /\ <<>> \in Seq(Records)
    OBVIOUS
  <2>4. Before(database[s], <<>>, putLog[s])
    BY <2>3 DEF Before
  <2> QED
    BY <1>2, <2>1, <2>2, <2>3, <2>4, EmptySet DEF AtWorker
<1>3. CASE Underway(s) # {}
  <2>1. PICK a \in Underway(s) : b = payload[a]
    BY <1>3 DEF TheBatch
  <2>2. \A c \in Underway(s) : c = a
    BY <2>1 DEF LineInv, KnownInv
  <2>3. a \in Batches(s) /\ a \in Actions
    BY <2>1, UnderwayFacts, ShardSets DEF BatchInv, IndInv
  <2>4. \A r : r \in ToSet(b) <=> AtWorker(r, s)
    BY <2>1, <2>2 DEF AtWorker
  <2> QED
    BY <1>1, <2>1, <2>3, <2>4 DEF RunInv, ShardTypes, LineInv, FrontInv
<1> QED
  BY <1>2, <1>3

(* The batch in the hands of a thread: the only one, or none; then the     *)
(* vector is empty.                                                        *)
LEMMA InHandsIs ==
  ASSUME BatchInv, NEW s \in Shards \ raced, LineInv(s)
  PROVE  LET k == TheTaken(Holding(s))
         IN  /\ k \in Seq(Records) /\ EndOf(k, putLog[s])
             /\ \A r : r \in ToSet(k) <=> InHands(r, s)
             /\ k = <<>> \/ (records[s] = <<>> /\ \E t \in Holding(s) : k = taken[t])
<1> DEFINE k == TheTaken(Holding(s))
<1>1. ShardTypes(s)
  BY TypesHold DEF BatchInv, IndInv, PutInv
<1>2. CASE Holding(s) = {}
  <2>1. k = <<>>
    BY <1>2 DEF TheTaken
  <2>2. EndOf(<<>>, putLog[s])
    BY <1>1, EmptyAtEnd DEF ShardTypes
  <2>3. <<>> \in Seq(Records)
    OBVIOUS
  <2> QED
    BY <1>2, <2>1, <2>2, <2>3, EmptySet DEF InHands
<1>3. CASE Holding(s) # {}
  <2>1. PICK t \in Holding(s) : k = taken[t]
    BY <1>3 DEF TheTaken
  <2>2. records[s] = <<>> /\ \A u \in Holding(s) : u = t
    BY <2>1 DEF LineInv, BusyInv, Busy
  <2>3. \A r : r \in ToSet(k) <=> InHands(r, s)
    BY <2>1, <2>2 DEF InHands
  <2> QED
    BY <1>1, <2>1, <2>2, <2>3, ShardSets DEF ShardTypes, LineInv, FrontInv
<1> QED
  BY <1>2, <1>3

(* The records of a shard whose order is kept are a pipeline.              *)
LEMMA LineInOrder ==
  ASSUME BatchInv, NEW s \in Shards \ raced, LineInv(s)
  PROVE  InOrder(s)
<1> DEFINE d == database[s]
           b == TheBatch(Underway(s))
           k == TheTaken(Holding(s))
           v == records[s]
           log == putLog[s]
<1>1. /\ d \in Seq(Records) /\ v \in Seq(Records) /\ log \in Seq(Records)
      /\ EndOf(v, log) /\ InOrderOf(d, log)
  BY TypesHold DEF BatchInv, ShardInv, RunInv, IndInv, PutInv, ShardTypes, LineInv, FrontInv
<1>2. /\ b \in Seq(Records) /\ Run(b, log) /\ Before(d, b, log)
      /\ \A r : r \in ToSet(b) <=> AtWorker(r, s)
  BY AtWorkerIs
<1>3. /\ k \in Seq(Records) /\ EndOf(k, log)
      /\ \A r : r \in ToSet(k) <=> InHands(r, s)
  BY InHandsIs
<1>4. /\ \A r : r \in ToSet(d) <=> InDatabase(r, s)
      /\ \A r : r \in ToSet(v) <=> InVector(r, s)
  BY DEF InDatabase, InVector
<1> HIDE DEF d, b, k, v, log
<1>5. /\ b \o k \in Seq(Records) /\ b \o k \o v \in Seq(Records)
      /\ \A r : r \in ToSet(d \o (b \o k \o v)) <=>
                 r \in ToSet(d) \/ r \in ToSet(b) \/ r \in ToSet(k) \/ r \in ToSet(v)
  <2>1. b \o k \in Seq(Records) /\ (b \o k) \o v \in Seq(Records)
    BY <1>1, <1>2, <1>3
  <2>2. ToSet(b \o k) = ToSet(b) \union ToSet(k)
    BY <1>2, <1>3, ConcatSet
  <2>3. ToSet((b \o k) \o v) = ToSet(b \o k) \union ToSet(v)
    <3> DEFINE c == b \o k
    <3>1. c \in Seq(Records) /\ v \in Seq(Records)
      BY <1>1, <2>1
    <3> HIDE DEF c
    <3>2. ToSet(c \o v) = ToSet(c) \union ToSet(v)
      BY <3>1, ConcatSet, SMTT(30)
    <3> QED
      BY <3>2 DEF c
  <2>4. ASSUME NEW e \in Seq(Records) PROVE ToSet(d \o e) = ToSet(d) \union ToSet(e)
    BY <1>1, ConcatSet
  <2> QED
    BY <2>1, <2>2, <2>3, <2>4
<1>6. ToSet(d \o (b \o k \o v)) = Kept(s)
  BY <1>2, <1>3, <1>4, <1>5, SomewhereStill, PipelineIsKept
<1>7. /\ ToSet(d) \subseteq ToSet(log) /\ ToSet(b) \subseteq ToSet(log)
      /\ ToSet(k) \subseteq ToSet(log) /\ ToSet(v) \subseteq ToSet(log)
  <2>1. Kept(s) \subseteq ToSet(log)
    BY DEF Kept, log
  <2> QED
    BY <1>5, <1>6, <2>1
<1>8. Apart(d, k) /\ Apart(d, v) /\ Apart(b, k) /\ Apart(b, v) /\ Apart(k, v)
  BY <1>2, <1>3, <1>4, NowhereTwice DEF Apart
<1>9. /\ Before(d, k, log) /\ Before(d, v, log) /\ Before(b, k, log) /\ Before(b, v, log)
      /\ Before(k, v, log)
  BY <1>1, <1>2, <1>3, <1>7, <1>8, BeforeEnd
<1>10. InOrderOf(b, log) /\ InOrderOf(k, log) /\ InOrderOf(v, log)
  BY <1>1, <1>2, <1>3, EndIsRun, RunInOrder
<1>11. InOrderOf(b \o k, log)
  BY <1>2, <1>3, <1>9, <1>10, InOrderConcat
<1>12. InOrderOf(b \o k \o v, log)
  <2>1. Before(b \o k, v, log)
    BY <1>2, <1>3, <1>9, BeforeConcat
  <2> QED
    BY <1>1, <1>5, <1>10, <1>11, <2>1, InOrderConcat
<1>13. InOrderOf(d \o (b \o k \o v), log)
  <2>1. Before(d, b \o k, log)
    BY <1>2, <1>3, <1>9, BeforeConcat
  <2>2. Before(d, b \o k \o v, log)
    BY <1>1, <1>5, <1>9, <2>1, BeforeConcat
  <2> QED
    BY <1>1, <1>5, <1>12, <2>2, InOrderConcat
<1>14. Cardinality(Underway(s)) <= 1
  BY OneOrNone DEF LineInv, KnownInv
<1>15. Cardinality(Holding(s)) <= 1
  BY OneOrNone DEF LineInv, BusyInv, Busy
<1> QED
  BY <1>6, <1>13, <1>14, <1>15 DEF InOrder, Pending, d, b, k, v, log

(* Until somebody calls flush(), a shard is written in the order of the    *)
(* puts, one batch at a time.                                              *)
THEOREM PipelineIsKeptInOrder == Spec => []Pipeline
<1>1. PipelineInv => Pipeline
  <2> SUFFICES ASSUME PipelineInv, flushes = 0, NEW s \in Shards \ raced PROVE InOrder(s)
    BY DEF Pipeline
  <2> QED
    BY LineInOrder DEF PipelineInv, Orderly
<1> QED
  BY <1>1, PipelineInvariance, PTL

(* It is if only the one application thread calls flush() and no empty     *)
(* batch has been handed to a worker.                                      *)
THEOREM OrderSurvivesFlush == Spec => []FlushKeepsOrder
<1>1. PipelineInv => FlushKeepsOrder
  <2> SUFFICES ASSUME PipelineInv, Cardinality(AppThreads) = 1, EmptyBatches = {},
                      NEW s \in Shards \ raced
               PROVE  InOrder(s)
    BY DEF FlushKeepsOrder
  <2>1. AppThreads = {Owner}
    BY FS_Singleton, ClientAssumption
  <2> QED
    BY <2>1, LineInOrder DEF PipelineInv, Orderly
<1> QED
  BY <1>1, PipelineInvariance, PTL

(* A sequence has no more elements than its length.                        *)
LEMMA FewElements ==
  ASSUME NEW S, NEW seq \in Seq(S)
  PROVE  IsFiniteSet(ToSet(seq)) /\ Cardinality(ToSet(seq)) <= Len(seq)
<1>1. Len(seq) \in Nat /\ DOMAIN seq = 1 .. Len(seq)
  OBVIOUS
<1> DEFINE f == [i \in 1 .. Len(seq) |-> seq[i]]
<1>2. f \in Surjection(1 .. Len(seq), ToSet(seq))
  BY <1>1 DEF Surjection, ToSet
<1>3. IsFiniteSet(1 .. Len(seq)) /\ Cardinality(1 .. Len(seq)) = Len(seq)
  BY <1>1, FS_Interval
<1> QED
  BY <1>2, <1>3, FS_Surjection

(* Until somebody calls flush(), no more than two batches of a shard are   *)
(* put and not in the database.                                            *)
THEOREM PutIsHeldBack == Spec => []Backpressure
<1>1. PipelineInv => Backpressure
  <2> SUFFICES ASSUME PipelineInv, flushes = 0, NEW s \in Shards \ raced
               PROVE  Cardinality(Kept(s) \ ToSet(database[s])) <= 2 * TargetNumRecords
    BY DEF Backpressure
  <2> USE ConstantFacts
  <2>1. BatchInv /\ LineInv(s) /\ BoundInv(s) /\ ShardTypes(s) /\ Pool!IndInv
    BY TypesHold DEF PipelineInv, Orderly, BatchInv, IndInv, PutInv
  <2> DEFINE b == TheBatch(Underway(s))
             k == TheTaken(Holding(s))
  <2>2. PICK x \in Seq(Records) :
          /\ Len(x) <= TargetNumRecords
          /\ \A r : InHands(r, s) \/ InVector(r, s) => r \in ToSet(x)
    <3>1. CASE k = <<>>
      <4>1. \A r : ~InHands(r, s)
        BY <2>1, <3>1, InHandsIs, EmptySet
      <4>2. records[s] \in Seq(Records) /\ Len(records[s]) <= TargetNumRecords
        BY <2>1 DEF BoundInv, ShardTypes
      <4> QED
        BY <4>1, <4>2 DEF InVector
    <3>2. CASE k # <<>>
      <4>1. /\ k \in Seq(Records) /\ records[s] = <<>> /\ \E t \in Holding(s) : k = taken[t]
            /\ \A r : r \in ToSet(k) <=> InHands(r, s)
        BY <2>1, <3>2, InHandsIs
      <4>2. Len(k) <= TargetNumRecords
        BY <2>1, <4>1 DEF BoundInv
      <4>3. \A r : ~InVector(r, s)
        BY <4>1, EmptySet DEF InVector
      <4> QED
        BY <4>1, <4>2, <4>3
    <3> QED
      BY <3>1, <3>2
  <2>3. /\ b \in Seq(Records) /\ Len(b) <= TargetNumRecords
        /\ \A r : r \in ToSet(b) <=> AtWorker(r, s)
    <3>1. b \in Seq(Records) /\ \A r : r \in ToSet(b) <=> AtWorker(r, s)
      BY <2>1, AtWorkerIs
    <3>2. Len(b) <= TargetNumRecords
      <4>1. CASE Underway(s) = {}
        <5>1. Len(<<>>) = 0
          OBVIOUS
        <5> QED
          BY <4>1, <5>1 DEF TheBatch
      <4>2. CASE Underway(s) # {}
        <5>1. PICK a \in Underway(s) : b = payload[a]
          BY <4>2 DEF TheBatch
        <5>2. a \in Batches(s)
          BY <2>1, <5>1, UnderwayFacts
        <5> QED
          BY <2>1, <5>1, <5>2 DEF BoundInv
      <4> QED
        BY <4>1, <4>2
    <3> QED
      BY <3>1, <3>2
  <2> HIDE DEF b, k
  <2>4. Kept(s) \ ToSet(database[s]) \subseteq ToSet(b) \union ToSet(x)
    BY <2>1, <2>2, <2>3, SomewhereStill DEF InDatabase
  <2>5. /\ IsFiniteSet(ToSet(b)) /\ Cardinality(ToSet(b)) <= Len(b) /\ Len(b) \in Nat
        /\ IsFiniteSet(ToSet(x)) /\ Cardinality(ToSet(x)) <= Len(x) /\ Len(x) \in Nat
    BY <2>2, <2>3, FewElements
  <2>6. /\ Cardinality(ToSet(b)) \in Nat /\ Cardinality(ToSet(x)) \in Nat
        /\ IsFiniteSet(ToSet(b) \union ToSet(x))
        /\ Cardinality(ToSet(b) \union ToSet(x)) =
              Cardinality(ToSet(b)) + Cardinality(ToSet(x)) - Cardinality(ToSet(b) \cap ToSet(x))
    BY <2>5, FS_Union, FS_CardinalityType
  <2>7. Cardinality(ToSet(b) \cap ToSet(x)) \in Nat
    BY <2>5, FS_Subset, FS_CardinalityType
  <2>8. /\ Cardinality(Kept(s) \ ToSet(database[s])) <= Cardinality(ToSet(b) \union ToSet(x))
        /\ Cardinality(Kept(s) \ ToSet(database[s])) \in Nat
    BY <2>4, <2>6, FS_Subset, FS_CardinalityType
  <2> QED
    BY <2>2, <2>3, <2>5, <2>6, <2>7, <2>8
<1> QED
  BY <1>1, PipelineInvariance, PTL

-----------------------------------------------------------------------------
(* The refinement of ShardQueue.                                           *)

(* Nobody but thread t does anything to what is pending; if it waits for   *)
(* the previous batch, it does not drop its own.                           *)
Solo(t) ==
  /\ \A u \in Threads \ {t} :
       pc[u] \in LinePcs => pc'[u] = pc[u] /\ cur'[u] = cur[u] /\ taken'[u] = taken[u]
  /\ pc[t] = "await" => pc'[t] \in {"await", "acquire"} /\ cur'[t] = cur[t] /\ taken'[t] = taken[t]
  /\ UNCHANGED <<writes, database>>
  /\ \A s \in Shards \ {cur[t]} : records'[s] = records[s] /\ putLog'[s] = putLog[s]

(* A worker, or the destructor, executes the write of action a.            *)
WritesFor(a) ==
  /\ a \in Actions /\ WP!Write(a) /\ Store(a)
  /\ UNCHANGED <<records, putLog, pc, cur, taken, payload, fate>>

(* Every step is that of one thread or one worker.                         *)
LEMMA OneAtATime ==
  ASSUME TypeOK, Pool!IndInv, PlaceInv, HandInv, [Next]_vars
  PROVE  (\E t \in Threads : Solo(t)) \/ (\E a \in Actions : WritesFor(a))
<1> USE ConstantFacts, Domains DEF Solo, LinePcs
<1> DEFINE Goal == (\E t \in Threads : Solo(t)) \/ (\E a \in Actions : WritesFor(a))
<1>1. ASSUME NEW t \in AppThreads, NEW r \in Records, StartPut(t, r) PROVE Goal
  <2>1. Solo(t)
    BY <1>1 DEF StartPut
  <2> QED
    BY <2>1
<1>2. ASSUME NEW t \in AppThreads, StartFlush(t) PROVE Goal
  <2>1. Solo(t)
    BY <1>2 DEF StartFlush
  <2> QED
    BY <2>1
<1>3. ASSUME NEW t \in Threads, Apply(t) PROVE Goal
  <2>1. Solo(t)
    BY <1>3 DEF Apply, PushBack, AddSize
  <2> QED
    BY <2>1
<1>4. ASSUME NEW t \in Threads, Check(t) PROVE Goal
  <2>1. Solo(t)
    BY <1>4, LeaveFacts DEF Check
  <2> QED
    BY <2>1
<1>5. ASSUME NEW t \in Threads, Copy(t) PROVE Goal
  <2>1. Solo(t)
    BY <1>5 DEF Copy
  <2> QED
    BY <2>1
<1>6. ASSUME NEW t \in Threads, Clear(t) PROVE Goal
  <2>1. Solo(t)
    BY <1>6, LeaveFacts DEF Clear, EmptyRecords
  <2> QED
    BY <2>1
<1>7. ASSUME NEW t \in Threads, Await(t) PROVE Goal
  <2>1. Solo(t)
    BY <1>7 DEF Await
  <2> QED
    BY <2>1
<1>8. ASSUME NEW t \in Threads, AcquirePermit(t) PROVE Goal
  <2>1. Solo(t)
    BY <1>8 DEF AcquirePermit, TakePermit, WP!Acquire, WP!execVars
  <2> QED
    BY <2>1
<1>9. ASSUME NEW t \in Threads, Scan(t) PROVE Goal
  <2>1. Solo(t)
    BY <1>9 DEF Scan, WP!LockWorker, WP!SkipLocked, WP!SkipBusy, WP!execVars
  <2> QED
    BY <2>1
<1>10. ASSUME NEW t \in Threads, Give(t) PROVE Goal
  <2>1. Solo(t)
    BY <1>10 DEF Give, WP!GiveAction, HandOver, WP!execVars
  <2> QED
    BY <2>1
<1>11. ASSUME NEW t \in Threads, Assign(t) PROVE Goal
  <2>1. Solo(t)
    BY <1>11, LeaveFacts DEF Assign
  <2> QED
    BY <2>1
<1>12. ASSUME NEW t \in Threads, Throw(t) PROVE Goal
  <2>1. Solo(t)
    BY <1>12 DEF Throw, WP!ThrowInner, HandOver, WP!execVars
  <2> QED
    BY <2>1
<1>13. ASSUME NEW t \in Threads, ThrowUncaught(t) PROVE Goal
  <2>1. Solo(t)
    BY <1>13 DEF ThrowUncaught, WP!ThrowUncaught, WP!ThrowInner, HandOver, WP!execVars
  <2> QED
    BY <2>1
<1>14. ASSUME NEW t \in Threads, VisitNext(t) PROVE Goal
  <2>1. Solo(t)
    BY <1>14 DEF VisitNext
  <2> QED
    BY <2>1
<1>15. ASSUME NEW t \in Threads, EndFlush(t) PROVE Goal
  <2>1. Solo(t)
    BY <1>15 DEF EndFlush
  <2> QED
    BY <2>1
<1>16. CASE Construct
  <2>1. Solo(Owner)
    BY <1>16 DEF Construct, PlaceInv
  <2> QED
    BY <2>1
<1>17. CASE StartClose
  <2>1. Solo(Owner)
    BY <1>17 DEF StartClose
  <2> QED
    BY <2>1
<1>18. CASE Drain
  <2>1. Solo(Owner)
    BY <1>18 DEF Drain
  <2> QED
    BY <2>1
<1>19. CASE Join
  <2>1. Solo(Owner)
    BY <1>19 DEF Join
  <2> QED
    BY <2>1
<1>20. CASE TestStatus
  <2>1. Solo(Watcher)
    BY <1>20 DEF TestStatus
  <2> QED
    BY <2>1
<1>21. CASE Sweep
  <2>1. Solo(Watcher)
    BY <1>21 DEF Sweep
  <2> QED
    BY <2>1
<1>22. CASE TryLock
  <2>1. Solo(Watcher)
    BY <1>22 DEF TryLock
  <2> QED
    BY <2>1
<1>23. CASE TryPermit
  <2>1. Solo(Watcher)
    BY <1>23, LeaveFacts DEF TryPermit, TakePermit, WP!Acquire, WP!execVars
  <2> QED
    BY <2>1
<1>24. ASSUME NEW w \in WP!Workers, SpuriousWakeup(w) PROVE Goal
  <2>1. Solo(Owner)
    BY <1>24 DEF SpuriousWakeup, WP!SpuriousWakeup, WP!execVars
  <2> QED
    BY <2>1
<1>25. ASSUME NEW c \in Shards, Age(c) PROVE Goal
  <2>1. Solo(Owner)
    BY <1>25 DEF Age
  <2> QED
    BY <2>1
<1>26. CASE WriteThrows
  <2>1. Solo(Owner)
    BY <1>26 DEF WriteThrows, WP!WriteThrows, WP!execVars
  <2> QED
    BY <2>1
<1>27. CASE Crash
  <2>1. Solo(Owner)
    BY <1>27 DEF Crash
  <2> QED
    BY <2>1
<1>28. CASE UNCHANGED vars
  <2>1. Solo(Owner)
    BY <1>28 DEF vars
  <2> QED
    BY <2>1
<1>29. ASSUME NEW w \in WP!Workers, Work(w) PROVE Goal
  <2>1. UNCHANGED <<records, putLog, pc, cur, taken, payload, fate>>
    BY <1>29 DEF Work, WP!Run, WP!TakeMutex, WP!ReleasePermit, WP!Wait, WP!ExecWrite,
       WP!ExecSetValue, WP!BecomeIdle, WP!Exit, WP!delivererVars
  <2>2. CASE wpc[w] = "looping" /\ status[w] = "BUSY"
    <3>1. WP!Write(action[w]) /\ Store(action[w])
      BY <1>29, <2>2 DEF Work, WP!Run, WP!TakeMutex, WP!ReleasePermit, WP!Wait, WP!ExecWrite,
         WP!ExecSetValue, WP!BecomeIdle, WP!Exit, WP!delivererVars
    <3> QED
      BY <2>1, <2>2, <3>1, SlotFacts DEF WritesFor
  <2>3. CASE ~(wpc[w] = "looping" /\ status[w] = "BUSY")
    <3>1. UNCHANGED <<database, writes>>
      BY <1>29, <2>3 DEF Work, WP!Run, WP!TakeMutex, WP!ReleasePermit, WP!Wait, WP!ExecWrite,
         WP!ExecSetValue, WP!BecomeIdle, WP!Exit, WP!execVars
    <3>2. Solo(Owner)
      BY <2>1, <3>1, <1>29 DEF Work, WP!Run
    <3> QED
      BY <3>2
  <2> QED
    BY <2>2, <2>3
<1>30. CASE DestroyPool
  <2>1. UNCHANGED <<records, putLog, pc, cur, taken, payload, fate>>
    BY <1>30 DEF DestroyPool, WP!Close, WP!CloseWorker, WP!CloseJoin, WP!delivererVars
  <2>2. CASE cpc = "closing" /\ status[cidx] = "BUSY"
    <3>1. WP!Write(action[cidx]) /\ Store(action[cidx]) /\ cidx \notin locked
      BY <1>30, <2>2 DEF DestroyPool, WP!Close, WP!CloseWorker, WP!CloseJoin, WP!ExecLeftover
    <3>2. cidx \in WP!Workers
      BY <2>2, SameWorkers DEF Pool!IndInv, Pool!CloseInv
    <3>3. wpc[cidx] \notin {"written", "settled"}
      BY <3>1, <3>2, SameWorkers DEF Pool!IndInv, Pool!MutualExclusion, Pool!ThreadOwns
    <3> QED
      BY <2>1, <2>2, <3>1, <3>2, <3>3, SlotFacts DEF WritesFor
  <2>3. CASE ~(cpc = "closing" /\ status[cidx] = "BUSY")
    <3>1. UNCHANGED <<database, writes>>
      BY <1>30, <2>3 DEF DestroyPool, WP!Close, WP!CloseWorker, WP!CloseJoin, WP!ExecLeftover,
         WP!execVars
    <3>2. Solo(Owner)
      BY <2>1, <3>1
    <3> QED
      BY <3>2
  <2> QED
    BY <2>2, <2>3
<1> QED
  BY <1>1, <1>2, <1>3, <1>4, <1>5, <1>6, <1>7, <1>8, <1>9, <1>10, <1>11, <1>12, <1>13, <1>14,
     <1>15, <1>16, <1>17, <1>18, <1>19, <1>20, <1>21, <1>22, <1>23, <1>24, <1>25, <1>26, <1>27,
     <1>28, <1>29, <1>30, StepCases

(* What is pending in a shard stays, loses its front to the database or    *)
(* for good, or gets a record.                                             *)
PendingStays(s) == Pending(s)' = Pending(s) /\ database'[s] = database[s]
PendingLeaves(s) ==
  \E n \in 1 .. Len(Pending(s)) :
    /\ Pending(s)' = SubSeq(Pending(s), n + 1, Len(Pending(s)))
    /\ database'[s] \in {database[s], database[s] \o SubSeq(Pending(s), 1, n)}
PendingGrows(s) ==
  \E r \in Records :
    ShardOf[r] = s /\ Pending(s)' = Append(Pending(s), r) /\ database'[s] = database[s]

(* Nothing leaves shard s or comes to it.                                  *)
AtRest(s) ==
  /\ database'[s] = database[s] /\ putLog'[s] = putLog[s]
  /\ Holding(s) \subseteq Holding(s)' /\ Underway(s) \subseteq Underway(s)'

(* Front and rest of a sequence.                                           *)
LEMMA FrontAndRest ==
  ASSUME NEW S, NEW f \in Seq(S), NEW r \in Seq(S)
  PROVE  /\ SubSeq(f \o r, 1, Len(f)) = f
         /\ SubSeq(f \o r, Len(f) + 1, Len(f \o r)) = r
<1>1. f \o r \in Seq(S) /\ Len(f \o r) = Len(f) + Len(r)
  OBVIOUS
<1>2. SubSeq(f \o r, 1, Len(f)) = f
  <2>1. Len(SubSeq(f \o r, 1, Len(f))) = Len(f)
    BY <1>1
  <2>2. \A i \in 1 .. Len(f) : SubSeq(f \o r, 1, Len(f))[i] = f[i]
    BY <1>1
  <2>3. SubSeq(f \o r, 1, Len(f)) \in Seq(S)
    BY <1>1
  <2> QED
    BY <2>1, <2>2, <2>3
<1>3. SubSeq(f \o r, Len(f) + 1, Len(f \o r)) = r
  <2>1. Len(SubSeq(f \o r, Len(f) + 1, Len(f \o r))) = Len(r)
    BY <1>1
  <2>2. \A i \in 1 .. Len(r) : SubSeq(f \o r, Len(f) + 1, Len(f \o r))[i] = r[i]
    BY <1>1
  <2>3. SubSeq(f \o r, Len(f) + 1, Len(f \o r)) \in Seq(S)
    BY <1>1
  <2> QED
    BY <2>1, <2>2, <2>3
<1> QED
  BY <1>2, <1>3

(* What is concatenated with nothing, in another order, or with one record *)
(* more.                                                                   *)
LEMMA ConcatFacts ==
  ASSUME NEW x \in Seq(Records), NEW y \in Seq(Records), NEW z \in Seq(Records)
  PROVE  /\ <<>> \o x = x /\ x \o <<>> = x
         /\ x \o y \in Seq(Records) /\ (x \o y) \o z = x \o (y \o z)
         /\ \A r \in Records : (x \o y) \o Append(z, r) = Append((x \o y) \o z, r)
<1>1. x \o y \in Seq(Records) /\ (x \o y) \o z \in Seq(Records) /\ Len(x \o y) = Len(x) + Len(y)
  OBVIOUS
<1>2. <<>> \o x = x /\ x \o <<>> = x
  OBVIOUS
<1>3. (x \o y) \o z = x \o (y \o z)
  OBVIOUS
<1>4. ASSUME NEW r \in Records PROVE (x \o y) \o Append(z, r) = Append((x \o y) \o z, r)
  BY <1>1
<1> QED
  BY <1>1, <1>2, <1>3, <1>4

(* The batch at the worker and the one in hand, before the step and after. *)
LEMMA OneBatch ==
  ASSUME NEW s, KnownInv(s), KnownInv(s)', BusyInv(s), BusyInv(s)'
  PROVE  /\ Underway(s) = {} => TheBatch(Underway(s)) = <<>>
         /\ \A a \in Underway(s) : TheBatch(Underway(s)) = payload[a]
         /\ Holding(s) = {} => TheTaken(Holding(s)) = <<>>
         /\ \A t \in Holding(s) : TheTaken(Holding(s)) = taken[t]
         /\ Underway(s)' = {} => TheBatch(Underway(s))' = <<>>
         /\ \A a \in Underway(s)' : TheBatch(Underway(s))' = payload'[a]
         /\ Holding(s)' = {} => TheTaken(Holding(s))' = <<>>
         /\ \A t \in Holding(s)' : TheTaken(Holding(s))' = taken'[t]
<1>1. /\ Underway(s) = {} => TheBatch(Underway(s)) = <<>>
      /\ Underway(s)' = {} => TheBatch(Underway(s))' = <<>>
      /\ Holding(s) = {} => TheTaken(Holding(s)) = <<>>
      /\ Holding(s)' = {} => TheTaken(Holding(s))' = <<>>
  BY DEF TheBatch, TheTaken
<1>2. ASSUME NEW a \in Underway(s) PROVE TheBatch(Underway(s)) = payload[a]
  BY <1>2 DEF TheBatch, KnownInv
<1>3. ASSUME NEW a \in Underway(s)' PROVE TheBatch(Underway(s))' = payload'[a]
  BY <1>3 DEF TheBatch, KnownInv
<1>4. ASSUME NEW t \in Holding(s) PROVE TheTaken(Holding(s)) = taken[t]
  BY <1>4 DEF TheTaken, BusyInv, Busy
<1>5. ASSUME NEW t \in Holding(s)' PROVE TheTaken(Holding(s))' = taken'[t]
  BY <1>5 DEF TheTaken, BusyInv, Busy
<1> QED
  BY <1>1, <1>2, <1>3, <1>4, <1>5

(* Where every move of the line takes what is pending.                     *)
LEMMA PendingMoves ==
  ASSUME NEW s, ShardTypes(s), ShardTypes(s)', LineInv(s), LineInv(s)', LineMoves(s), LogInv',
         s \in Shards, \A t \in Holding(s) \ Passed(s) : t \in Holding(s)'
  PROVE  PendingStays(s) \/ (~AtRest(s) /\ (PendingLeaves(s) \/ PendingGrows(s)))
<1> USE LineSets
<1> DEFINE b == TheBatch(Underway(s))
           k == TheTaken(Holding(s))
           v == records[s]
           Goal == PendingStays(s) \/ (~AtRest(s) /\ (PendingLeaves(s) \/ PendingGrows(s)))
<1>0. KnownInv(s) /\ KnownInv(s)' /\ BusyInv(s) /\ BusyInv(s)' /\ WaitedInv(s)
  BY DEF LineInv
<1>1. /\ Underway(s) = {} => b = <<>>
      /\ \A a \in Underway(s) : b = payload[a]
      /\ Holding(s) = {} => k = <<>>
      /\ \A t \in Holding(s) : k = taken[t]
      /\ Underway(s)' = {} => b' = <<>>
      /\ \A a \in Underway(s)' : b' = payload'[a]
      /\ Holding(s)' = {} => k' = <<>>
      /\ \A t \in Holding(s)' : k' = taken'[t]
  BY <1>0, OneBatch
<1>2. Pending(s) = b \o k \o v /\ Pending(s)' = b' \o k' \o v'
  BY DEF Pending
<1> HIDE DEF b, k
<1>3. /\ b \in Seq(Records) /\ k \in Seq(Records) /\ v \in Seq(Records)
      /\ b' \in Seq(Records) /\ k' \in Seq(Records) /\ v' \in Seq(Records)
  <2>0. <<>> \in Seq(Records)
    OBVIOUS
  <2>1. b \in Seq(Records)
    <3>1. CASE Underway(s) = {}
      BY <1>1, <2>0, <3>1
    <3>2. ASSUME NEW a \in Underway(s) PROVE b \in Seq(Records)
      BY <1>1, <3>2 DEF ShardTypes
    <3> QED
      BY <3>1, <3>2
  <2>2. k \in Seq(Records)
    <3>1. CASE Holding(s) = {}
      BY <1>1, <2>0, <3>1
    <3>2. ASSUME NEW t \in Holding(s) PROVE k \in Seq(Records)
      BY <1>1, <3>2 DEF ShardTypes
    <3> QED
      BY <3>1, <3>2
  <2>3. b' \in Seq(Records)
    <3>1. CASE Underway(s)' = {}
      BY <1>1, <2>0, <3>1
    <3>2. ASSUME NEW a \in Underway(s)' PROVE b' \in Seq(Records)
      <4>1. a \in Actions
        BY DEF Underway
      <4> QED
        BY <1>1, <4>1 DEF ShardTypes
    <3> QED
      BY <3>1, <3>2
  <2>4. k' \in Seq(Records)
    <3>1. CASE Holding(s)' = {}
      BY <1>1, <2>0, <3>1
    <3>2. ASSUME NEW t \in Holding(s)' PROVE k' \in Seq(Records)
      <4>1. t \in Threads
        BY DEF Holding
      <4> QED
        BY <1>1, <4>1 DEF ShardTypes
    <3> QED
      BY <3>1, <3>2
  <2> QED
    BY <2>1, <2>2, <2>3, <2>4 DEF ShardTypes
<1>4. ASSUME UnderwayStays(s) PROVE b' = b
  BY <1>1, <1>4 DEF UnderwayStays
<1>5. ASSUME HoldersStay(s) PROVE k' = k
  BY <1>1, <1>5 DEF HoldersStay
<1>6. ASSUME HoldersStay(s), UnderwayStays(s), QueueStays(s) PROVE PendingStays(s)
  BY <1>2, <1>4, <1>5, <1>6 DEF QueueStays, PendingStays
<1>7. ASSUME NEW a \in Underway(s), Underway(s)' = Underway(s) \ {a}, k' = k, v' = v,
             database'[s] \in {database[s], database[s] \o payload[a]}
      PROVE  Goal
  <2>1. Underway(s)' = {}
    BY <1>0, <1>7 DEF KnownInv
  <2>2. b = payload[a] /\ b # <<>> /\ b' = <<>>
    BY <1>1, <1>7, <2>1 DEF Underway
  <2>3. Pending(s) = b \o (k \o v) /\ Pending(s)' = k \o v /\ k \o v \in Seq(Records)
    <3>1. k \o v \in Seq(Records)
      BY <1>3, ConcatFacts
    <3>2. (b \o k) \o v = b \o (k \o v)
      <4>1. b \in Seq(Records) /\ k \in Seq(Records) /\ v \in Seq(Records)
        BY <1>3
      <4> HIDE DEF v
      <4> QED
        BY <4>1
    <3>3. <<>> \o k = k
      BY <1>3, ConcatFacts
    <3> QED
      BY <1>2, <1>7, <2>2, <3>1, <3>2, <3>3
  <2>4. /\ SubSeq(Pending(s), 1, Len(b)) = b
        /\ SubSeq(Pending(s), Len(b) + 1, Len(Pending(s))) = k \o v
    <3>1. LET f == b
              r == k \o v
          IN  /\ SubSeq(f \o r, 1, Len(f)) = f
              /\ SubSeq(f \o r, Len(f) + 1, Len(f \o r)) = r
      BY <1>3, <2>3, FrontAndRest
    <3> QED
      BY <2>3, <3>1
  <2>5. Len(b) \in 1 .. Len(Pending(s))
    <3>1. Len(b) \in Nat /\ Len(b) # 0 /\ Len(k \o v) \in Nat
      BY <1>3, <2>2, <2>3
    <3>2. Len(Pending(s)) = Len(b) + Len(k \o v)
      BY <1>3, <2>3
    <3> QED
      BY <3>1, <3>2
  <2>6. PendingLeaves(s)
    BY <1>7, <2>2, <2>3, <2>4, <2>5 DEF PendingLeaves
  <2> QED
    BY <1>7, <2>1, <2>6 DEF AtRest
<1>8. CASE Fade(s)
  <2>1. v' = v /\ database'[s] = database[s]
    BY <1>8 DEF Fade, QueueStays
  <2>2. CASE Holding(s)' = Holding(s)
    <3>1. k' = k
      <4>1. CASE Holding(s) = {}
        BY <1>1, <2>2, <4>1
      <4>2. CASE Holding(s) # {}
        BY <1>1, <1>8, <2>2, <4>2 DEF Fade
      <4> QED
        BY <4>1, <4>2
    <3>2. CASE Underway(s)' = Underway(s)
      <4>1. b' = b
        BY <1>4, <1>8, <3>2 DEF Fade, UnderwayStays
      <4> QED
        BY <1>2, <2>1, <3>1, <4>1 DEF PendingStays
    <3>3. CASE Underway(s)' # Underway(s)
      <4>1. PICK a \in Underway(s) : a \notin Underway(s)'
        BY <1>8, <3>3 DEF Fade
      <4>2. Underway(s)' = Underway(s) \ {a}
        BY <1>0, <1>8, <4>1 DEF Fade, KnownInv
      <4> QED
        BY <1>7, <2>1, <3>1, <4>1, <4>2
    <3> QED
      BY <3>2, <3>3
  <2>3. CASE Holding(s)' # Holding(s)
    <3>1. PICK t \in Holding(s) : t \notin Holding(s)'
      BY <1>8, <2>3 DEF Fade
    <3>2. t \in Passed(s) /\ Underway(s) = {} /\ Underway(s)' = {}
      BY <1>0, <1>8, <3>1 DEF WaitedInv, Fade
    <3>3. Holding(s)' = {} /\ v = <<>>
      BY <1>0, <1>8, <3>1 DEF BusyInv, Busy, Fade
    <3>4. k = taken[t] /\ k # <<>> /\ k' = <<>> /\ b = <<>> /\ b' = <<>>
      BY <1>1, <3>1, <3>2, <3>3 DEF Holding
    <3>5. Pending(s) = k \o <<>> /\ Pending(s)' = <<>>
      BY <1>3, <1>2, <2>1, <3>3, <3>4
    <3>6. SubSeq(Pending(s), Len(k) + 1, Len(Pending(s))) = <<>>
      BY <1>3, <3>5, FrontAndRest
    <3>7. Len(k) \in 1 .. Len(Pending(s))
      BY <1>3, <3>4, <3>5
    <3>8. PendingLeaves(s)
      BY <2>1, <3>5, <3>6, <3>7 DEF PendingLeaves
    <3> QED
      BY <3>1, <3>8 DEF AtRest
  <2> QED
    BY <2>2, <2>3
<1>9. CASE Forgets(s)
  BY <1>6, <1>9 DEF Forgets
<1>10. CASE Finds(s)
  BY <1>6, <1>10 DEF Finds
<1>11. ASSUME NEW r \in Records, Puts(r, s) PROVE Goal
  <2>1. b' = b /\ k' = k /\ v' = Append(v, r) /\ database'[s] = database[s]
    BY <1>4, <1>5, <1>11 DEF Puts
  <2>2. Pending(s)' = Append(Pending(s), r)
    <3>1. b \in Seq(Records) /\ k \in Seq(Records) /\ v \in Seq(Records)
      BY <1>3
    <3>2. (b \o k) \o Append(v, r) = Append((b \o k) \o v, r)
      <4> HIDE DEF v
      <4> QED
        BY <3>1, ConcatFacts
    <3> QED
      BY <1>2, <2>1, <3>2
  <2>3. putLog[s] \in Seq(Records) /\ putLog'[s] = Append(putLog[s], r)
    BY <1>11 DEF Puts, ShardTypes
  <2>4. putLog'[s] # putLog[s]
    BY <2>3
  <2>5. r \in ToSet(putLog'[s])
    BY <2>3, AppendSet
  <2>6. ShardOf[r] = s
    BY <2>5 DEF LogInv
  <2> QED
    BY <2>1, <2>2, <2>4, <2>6 DEF PendingGrows, AtRest
<1>12. ASSUME NEW t \in Threads, Takes(t, s) PROVE Goal
  <2>1. t \in Holding(s)' /\ taken'[t] = v /\ v' = <<>> /\ database'[s] = database[s]
    BY <1>12 DEF Takes
  <2>2. Holding(s) = {}
    BY <1>0, <1>12 DEF BusyInv, Busy, Takes
  <2>3. b' = b /\ k = <<>> /\ k' = v
    BY <1>1, <1>4, <1>12, <2>1, <2>2 DEF Takes
  <2>4. b \o <<>> \o v = b \o v /\ b \o v \o <<>> = b \o v
    BY <1>3
  <2> QED
    BY <1>2, <2>1, <2>3, <2>4 DEF PendingStays
<1>13. ASSUME NEW t \in Threads, Waits(t, s) PROVE Goal
  <2>1. k' = k
    <3>1. CASE Holding(s) = {}
      BY <1>1, <1>13, <3>1 DEF Waits
    <3>2. CASE Holding(s) # {}
      BY <1>1, <1>13, <3>2 DEF Waits
    <3> QED
      BY <3>1, <3>2
  <2> QED
    BY <1>2, <1>4, <1>13, <2>1 DEF Waits, QueueStays, PendingStays
<1>14. ASSUME NEW t \in Threads, Keeps(t, s) PROVE Goal
  BY <1>6, <1>14 DEF Keeps
<1>15. ASSUME NEW a \in Actions, Loads(a, s) PROVE Goal
  <2>1. k' = k /\ v' = v
    BY <1>5, <1>15 DEF Loads
  <2> QED
    BY <1>7, <1>15, <2>1 DEF Loads
<1>16. ASSUME NEW t \in Threads, NEW a \in Actions, Gives(t, a, s) PROVE Goal
  <2>1. t \in Holding(s) /\ t \in Passed(s) /\ Underway(s) = {}
    BY <1>0, <1>16 DEF Gives, WaitedInv
  <2>2. Holding(s)' = {} /\ v = <<>> /\ v' = <<>> /\ database'[s] = database[s]
    BY <1>0, <1>16, <2>1 DEF BusyInv, Busy, Gives, QueueStays
  <2>3. b = <<>> /\ k = taken[t] /\ k' = <<>>
    BY <1>1, <2>1, <2>2
  <2>4. a \in Underway(s)' /\ payload'[a] = taken[t]
    BY <1>16 DEF Gives
  <2>5. b' = k
    BY <1>1, <2>3, <2>4
  <2>6. <<>> \o k \o <<>> = k /\ k \o <<>> \o <<>> = k
    BY <1>3
  <2> QED
    BY <1>2, <2>2, <2>3, <2>5, <2>6 DEF PendingStays
<1> QED
  BY <1>8, <1>9, <1>10, <1>11, <1>12, <1>13, <1>14, <1>15, <1>16 DEF LineMoves

(* A thread that moves alone does nothing to the other shards, ...         *)
LEMMA SoloRests ==
  ASSUME NEW t \in Threads, Solo(t), NEW s \in Shards \ {cur[t]},
         \A a \in Actions :
           fate[a] = "accepted" => fate'[a] = "accepted" /\ payload'[a] = payload[a]
  PROVE  AtRest(s)
<1>1. Holding(s) \subseteq Holding(s)'
  BY DEF Solo, Holding, LinePcs
<1>2. Underway(s) \subseteq Underway(s)'
  BY DEF Solo, Underway, ShardOfBatch
<1> QED
  BY <1>1, <1>2 DEF Solo, AtRest

(* ... and so does the write of a batch.                                   *)
LEMMA WriteRests ==
  ASSUME TypeOK, Pool!IndInv, NEW a \in Actions, WritesFor(a), NEW s \in Shards,
         payload[a] = <<>> \/ ShardOfBatch(a) # s
  PROVE  AtRest(s)
<1>1. \A b \in Actions \ {a} : writes'[b] = writes[b]
  BY DEF WritesFor, WP!Write, Pool!IndInv, Pool!TypeOK
<1>2. Holding(s) \subseteq Holding(s)'
  BY DEF WritesFor, Holding
<1>3. Underway(s) \subseteq Underway(s)'
  BY <1>1 DEF WritesFor, Underway, ShardOfBatch
<1>4. database'[s] = database[s]
  BY Domains DEF WritesFor, Store, TypeOK
<1> QED
  BY <1>2, <1>3, <1>4 DEF WritesFor, AtRest

(* All shards but one are at rest, and a thread that waits for the         *)
(* previous batch keeps its own.                                           *)
LEMMA OneShardMoves ==
  ASSUME IndInv, HandInv, [Next]_vars
  PROVE  /\ \E c \in Shards : \A s \in Shards \ {c} : AtRest(s)
         /\ \A s \in Shards : \A t \in Holding(s) \ Passed(s) : t \in Holding(s)'
<1> USE ConstantFacts DEF IndInv
<1> DEFINE Goal == /\ \E c \in Shards : \A s \in Shards \ {c} : AtRest(s)
                   /\ \A s \in Shards : \A t \in Holding(s) \ Passed(s) : t \in Holding(s)'
<1>1. \A a \in Actions :
        fate[a] = "accepted" => fate'[a] = "accepted" /\ payload'[a] = payload[a]
  BY AcceptedStays
<1>2. ASSUME NEW t \in Threads, Solo(t) PROVE Goal
  <2>1. cur[t] \in Shards
    BY DEF TypeOK
  <2>2. \A s \in Shards \ {cur[t]} : AtRest(s)
    BY <1>1, <1>2, SoloRests DEF Solo
  <2>3. ASSUME NEW s \in Shards, NEW u \in Holding(s) \ Passed(s) PROVE u \in Holding(s)'
    <3>1. u \in Threads /\ cur[u] = s /\ taken[u] # <<>> /\ pc[u] = "await"
      BY DEF Holding, Passed
    <3>2. cur'[u] = s /\ taken'[u] = taken[u] /\ pc'[u] \in {"await", "acquire"}
      BY <1>2, <3>1 DEF Solo, LinePcs
    <3> QED
      BY <3>1, <3>2 DEF Holding
  <2> QED
    BY <2>1, <2>2, <2>3
<1>3. ASSUME NEW a \in Actions, WritesFor(a) PROVE Goal
  <2>1. \E c \in Shards : \A s \in Shards \ {c} : AtRest(s)
    <3>1. CASE ShardOfBatch(a) \in Shards
      BY <1>3, <3>1, WriteRests
    <3>2. CASE ShardOfBatch(a) \notin Shards
      <4>1. cur[Owner] \in Shards
        BY DEF TypeOK
      <4> QED
        BY <1>3, <3>2, <4>1, WriteRests
    <3> QED
      BY <3>1, <3>2
  <2>2. \A s \in Shards : Holding(s)' = Holding(s)
    BY <1>3 DEF WritesFor, Holding
  <2> QED
    BY <2>1, <2>2 DEF Passed
<1> QED
  BY <1>2, <1>3, OneAtATime

(* The end of the destructor: nothing changes any more, and the process    *)
(* does not end unless something was undefined.                            *)
LEMMA ClosedStays ==
  ASSUME IndInv, [Next]_vars, cpc = "closed"
  PROVE  /\ UNCHANGED <<records, pc, cur, taken, payload, fate, writes, database, cpc, raced>>
         /\ terminated' => terminated \/ raced # {}
<1> USE ConstantFacts DEF IndInv
<1> DEFINE Goal ==
      /\ UNCHANGED <<records, pc, cur, taken, payload, fate, writes, database, cpc, raced>>
      /\ terminated' => terminated \/ raced # {}
<1>1. pc[Owner] = "destroyed" /\ pc[Watcher] = "ended" /\ job[Owner] = "close"
  BY Domains DEF PermitInv, PlaceInv, Jobs, BatchPcs
<1>2. /\ \A t \in Threads : pc[t] \in {"destroyed", "ended", "idle"}
      /\ clientStatus = "UNAVAILABLE"
  BY <1>1 DEF PlaceInv
<1>3. \A w \in WP!Workers : status[w] = "UNAVAILABLE"
  BY PoolFacts, SameWorkers DEF Pool!IndInv, Pool!CloseInv, Pool!Workers
<1>4. ASSUME NEW t \in AppThreads, NEW r \in Records, StartPut(t, r) PROVE Goal
  BY <1>2, <1>4 DEF StartPut
<1>5. ASSUME NEW t \in AppThreads, StartFlush(t) PROVE Goal
  BY <1>2, <1>5 DEF StartFlush
<1>6. ASSUME NEW t \in Threads, Apply(t) \/ Check(t) \/ Copy(t) \/ Clear(t) \/ Await(t) \/
            AcquirePermit(t) \/ Scan(t) \/ Give(t) \/ Assign(t) \/ Throw(t) \/
            ThrowUncaught(t) \/ VisitNext(t) \/ EndFlush(t)
      PROVE  Goal
  BY <1>2, <1>6
  DEF Apply, Check, Copy, Clear, Await, AcquirePermit, Scan, Give, Assign, Throw,
      ThrowUncaught, VisitNext, EndFlush
<1>7. CASE Construct \/ StartClose \/ Drain \/ Join \/ TestStatus \/ Sweep \/ TryLock \/ TryPermit
  BY <1>1, <1>7 DEF Construct, StartClose, Drain, Join, TestStatus, Sweep, TryLock, TryPermit
<1>8. CASE DestroyPool
  BY <1>8 DEF DestroyPool, WP!Close, WP!CloseWorker, WP!CloseJoin
<1>9. ASSUME NEW w \in WP!Workers, Work(w) PROVE Goal
  BY <1>3, <1>9
  DEF Work, WP!Run, WP!TakeMutex, WP!ReleasePermit, WP!Wait, WP!ExecWrite, WP!ExecSetValue,
      WP!BecomeIdle, WP!Exit, WP!delivererVars, WP!closerVars, WP!execVars
<1>10. ASSUME NEW w \in WP!Workers, SpuriousWakeup(w) PROVE Goal
  BY <1>10 DEF SpuriousWakeup, WP!SpuriousWakeup, WP!delivererVars, WP!closerVars, WP!execVars
<1>11. ASSUME NEW s \in Shards, Age(s) PROVE Goal
  BY <1>11 DEF Age
<1>12. CASE WriteThrows
  BY <1>3, <1>12 DEF WriteThrows
<1>13. CASE Crash
  BY <1>13 DEF Crash
<1>14. CASE UNCHANGED vars
  BY <1>14 DEF vars
<1> QED
  BY <1>4, <1>5, <1>6, <1>7, <1>8, <1>9, <1>10, <1>11, <1>12, <1>13, <1>14, StepCases

(* The destructor comes to its end without a change to what is pending.    *)
LEMMA ClosingStep ==
  ASSUME IndInv, [Next]_vars, cpc # "closed", cpc' = "closed"
  PROVE  UNCHANGED <<records, pc, cur, taken, payload, fate, writes, database>>
<1> USE ConstantFacts DEF IndInv
<1>1. ASSUME NEW t \in Threads,
            Apply(t) \/ Check(t) \/ Copy(t) \/ Clear(t) \/ Await(t) \/
            AcquirePermit(t) \/ Scan(t) \/ Give(t) \/ Assign(t) \/ Throw(t) \/
            ThrowUncaught(t) \/ VisitNext(t) \/ EndFlush(t)
      PROVE  cpc' = cpc
  BY <1>1
  DEF Apply, Check, Copy, Clear, Await, AcquirePermit, TakePermit, WP!Acquire, Scan,
      WP!LockWorker, WP!SkipLocked, WP!SkipBusy, Give, WP!GiveAction, Assign, Throw,
      WP!ThrowInner, ThrowUncaught, WP!ThrowUncaught, VisitNext, EndFlush, WP!closerVars
<1>2. ASSUME NEW t \in AppThreads, StartFlush(t) \/ \E r \in Records : StartPut(t, r)
      PROVE  cpc' = cpc
  BY <1>2 DEF StartFlush, StartPut
<1>3. CASE Construct \/ StartClose \/ Drain \/ TestStatus \/ Sweep \/ TryLock \/ TryPermit \/ Crash
  BY <1>3 DEF Construct, StartClose, Drain, TestStatus, Sweep, TryLock, TryPermit, TakePermit,
     WP!Acquire, WP!closerVars, Crash
<1>4. Join => cpc' # "closed"
  BY DEF Join
<1>5. ASSUME NEW w \in WP!Workers, Work(w) \/ SpuriousWakeup(w) PROVE cpc' = cpc
  BY <1>5
  DEF Work, WP!Run, WP!TakeMutex, WP!ReleasePermit, WP!Wait, WP!ExecWrite, WP!ExecSetValue,
      WP!BecomeIdle, WP!Exit, SpuriousWakeup, WP!SpuriousWakeup, WP!closerVars
<1>6. ASSUME NEW s \in Shards, Age(s) PROVE cpc' = cpc
  BY <1>6 DEF Age
<1>7. CASE WriteThrows
  BY <1>7 DEF WriteThrows, WP!WriteThrows, WP!closerVars
<1>8. CASE UNCHANGED vars
  BY <1>8 DEF vars
<1>9. CASE DestroyPool
  <2>1. cpc = "joining" /\ WP!CloseJoin
    BY <1>9 DEF DestroyPool, WP!Close, WP!CloseWorker, WP!CloseJoin
  <2> QED
    BY <1>9, <2>1 DEF DestroyPool, WP!CloseJoin, WP!execVars, WP!delivererVars
<1> QED
  BY <1>1, <1>2, <1>3, <1>4, <1>5, <1>6, <1>7, <1>8, <1>9, StepCases

(* What is pending is determined by these variables.                       *)
LEMMA PendingFrame ==
  ASSUME UNCHANGED <<records, pc, cur, taken, payload, fate, writes>>, NEW s
  PROVE  Pending(s)' = Pending(s)
<1>1. Underway(s)' = Underway(s) /\ Holding(s)' = Holding(s)
  BY DEF Underway, ShardOfBatch, Holding
<1>2. TheBatch(Underway(s))' = TheBatch(Underway(s)) /\ TheTaken(Holding(s))' = TheTaken(Holding(s))
  BY <1>1 DEF TheBatch, TheTaken
<1> QED
  BY <1>2 DEF Pending

(* After it nothing is pending.                                            *)
LEMMA ClosedIsEmpty ==
  BatchInv /\ cpc = "closed" => \A s \in Shards : Pending(s) = <<>>
<1>1. ASSUME BatchInv, cpc = "closed", NEW s \in Shards PROVE Pending(s) = <<>>
  <2>1. records[s] = <<>> /\ Holding(s) = {} /\ Underway(s) = {}
    BY <1>1, NothingLeft
  <2>2. <<>> \o <<>> \o <<>> = <<>>
    OBVIOUS
  <2> QED
    BY <2>1, <2>2 DEF Pending, TheBatch, TheTaken
<1> QED
  BY <1>1

(* A step that leaves an open client open puts a record, takes a batch     *)
(* away from the front of a shard, or does nothing to the queues.          *)
LEMMA OpenStep ==
  ASSUME PipelineInv, PipelineInv', Orderly, Orderly', [Next]_vars, raced = {}, raced' = {},
         ~terminated, ~terminated', cpc # "closed", cpc' # "closed"
  PROVE  [Queue!Next]_(Queue!vars)
<1> DEFINE pending == [s \in Shards |-> Pending(s)]
           state == IF terminated \/ raced # {} THEN "broken"
                    ELSE IF cpc = "closed" THEN "closed" ELSE "open"
<1>1. /\ IndInv /\ HandInv /\ LoadedInv /\ BatchInv /\ TypeOK /\ LogInv
      /\ TypeOK' /\ LogInv'
  BY DEF PipelineInv, BatchInv, IndInv, PutInv
<1>2. (\A s \in Shards : ShardTypes(s))'
  BY <1>1, TypesHold, PTL
<1>3. ASSUME NEW s \in Shards
      PROVE  PendingStays(s) \/ (~AtRest(s) /\ (PendingLeaves(s) \/ PendingGrows(s)))
  <2>1. LineInv(s) /\ LineInv(s)' /\ ClearInv(s)
    BY <1>3 DEF PipelineInv, BatchInv, ShardInv
  <2>2. LineMoves(s)
    BY <1>1, <2>1, LineMovesStep
  <2>3. ShardTypes(s) /\ ShardTypes(s)'
    BY <1>1, <1>2, TypesHold
  <2>4. \A t \in Holding(s) \ Passed(s) : t \in Holding(s)'
    BY <1>1, OneShardMoves
  <2> QED
    BY <1>1, <2>1, <2>2, <2>3, <2>4, PendingMoves
<1>4. PICK c \in Shards : \A s \in Shards \ {c} : PendingStays(s)
  BY <1>1, <1>3, OneShardMoves
<1>5. state = "open" /\ state' = "open"
  OBVIOUS
<1>6. /\ pending' = [s \in Shards |-> Pending(s)']
      /\ \A s \in Shards \ {c} : Pending(s)' = Pending(s) /\ database'[s] = database[s]
      /\ DOMAIN database = Shards /\ database = [s \in Shards |-> database[s]]
      /\ DOMAIN database' = Shards /\ database' = [s \in Shards |-> database'[s]]
  BY <1>1, <1>4 DEF TypeOK, PendingStays
<1>7. CASE PendingStays(c)
  <2>1. pending' = pending /\ database' = database
    BY <1>6, <1>7 DEF PendingStays
  <2> QED
    BY <1>5, <2>1 DEF Queue!vars
<1>8. CASE PendingGrows(c)
  <2>1. PICK r \in Records :
          ShardOf[r] = c /\ Pending(c)' = Append(Pending(c), r) /\ database'[c] = database[c]
    BY <1>8 DEF PendingGrows
  <2>2. pending' = [pending EXCEPT ![ShardOf[r]] = Append(@, r)]
    BY <1>6, <2>1
  <2>3. database' = database
    BY <1>6, <2>1
  <2>4. Queue!Put(r)
    BY <1>5, <2>2, <2>3 DEF Queue!Put
  <2> QED
    BY <2>4 DEF Queue!Next
<1>9. CASE PendingLeaves(c)
  <2>1. PICK n \in 1 .. Len(Pending(c)) :
          /\ Pending(c)' = SubSeq(Pending(c), n + 1, Len(Pending(c)))
          /\ database'[c] \in {database[c], database[c] \o SubSeq(Pending(c), 1, n)}
    BY <1>9 DEF PendingLeaves
  <2>2. pending[c] = Pending(c)
    OBVIOUS
  <2>3. pending' = [pending EXCEPT ![c] = SubSeq(@, n + 1, Len(@))]
    BY <1>6, <2>1
  <2>4. Queue!Remove(c, n)
    BY <1>5, <2>3 DEF Queue!Remove
  <2>5. CASE database'[c] = database[c]
    <3>1. database' = database
      BY <1>6, <2>5
    <3>2. Queue!Lose(c, n)
      BY <2>4, <3>1 DEF Queue!Lose
    <3> QED
      BY <2>1, <2>2, <3>2 DEF Queue!Next
  <2>6. CASE database'[c] = database[c] \o SubSeq(Pending(c), 1, n)
    <3>1. database' = [database EXCEPT ![c] = @ \o SubSeq(pending[c], 1, n)]
      BY <1>6, <2>2, <2>6
    <3>2. Queue!Load(c, n)
      BY <2>4, <3>1 DEF Queue!Load
    <3> QED
      BY <2>1, <2>2, <3>2 DEF Queue!Next
  <2> QED
    BY <2>1, <2>5, <2>6
<1> QED
  BY <1>3, <1>7, <1>8, <1>9

(* Every step is one of the queue, or none.                                *)
LEMMA QueueStep ==
  ASSUME PipelineInv, PipelineInv', Orderly, Orderly', [Next]_vars
  PROVE  [Queue!Next]_(Queue!vars)
<1> DEFINE pending == [s \in Shards |-> Pending(s)]
           state == IF terminated \/ raced # {} THEN "broken"
                    ELSE IF cpc = "closed" THEN "closed" ELSE "open"
<1>1. IndInv /\ BatchInv /\ TypeOK /\ BatchInv'
  BY DEF PipelineInv, BatchInv, IndInv
<1>2. raced \subseteq raced'
  BY <1>1, RaceStep
<1>3. terminated => UNCHANGED vars
  BY StepIsAlive
<1>4. CASE terminated \/ raced # {}
  <2>1. state = "broken" /\ state' = "broken"
    BY <1>2, <1>3, <1>4 DEF vars
  <2> QED
    BY <2>1 DEF Queue!Next, Queue!Break
<1>5. CASE ~terminated /\ raced = {} /\ cpc = "closed"
  <2>1. UNCHANGED <<records, pc, cur, taken, payload, fate, writes, database, cpc, raced>>
    BY <1>1, <1>5, ClosedStays
  <2>2. ~terminated'
    BY <1>1, <1>5, ClosedStays
  <2>3. pending' = pending
    BY <2>1, PendingFrame
  <2>4. state' = state
    BY <1>5, <2>1, <2>2
  <2> QED
    BY <2>1, <2>3, <2>4 DEF Queue!vars
<1>6. CASE ~terminated /\ raced = {} /\ cpc # "closed"
  <2>1. state = "open"
    BY <1>6
  <2>2. CASE terminated' \/ raced' # {}
    <3>1. state' = "broken"
      BY <2>2
    <3> QED
      BY <2>1, <3>1 DEF Queue!Next, Queue!Break
  <2>3. CASE ~terminated' /\ raced' = {} /\ cpc' = "closed"
    <3>1. UNCHANGED <<records, pc, cur, taken, payload, fate, writes, database>>
      BY <1>1, <1>6, <2>3, ClosingStep
    <3>2. pending' = pending
      BY <3>1, PendingFrame
    <3>3. (\A s \in Shards : Pending(s) = <<>>)'
      <4>1. (BatchInv /\ cpc = "closed")'
        BY <1>1, <2>3
      <4> QED
        BY <4>1, ClosedIsEmpty, PTL
    <3>4. \A s \in Shards : pending[s] = <<>>
      BY <3>1, <3>3, PendingFrame
    <3>5. state' = "closed"
      BY <2>3
    <3>6. Queue!Close
      BY <2>1, <3>1, <3>2, <3>4, <3>5 DEF Queue!Close
    <3> QED
      BY <3>6 DEF Queue!Next
  <2>4. CASE ~terminated' /\ raced' = {} /\ cpc' # "closed"
    BY <1>6, <2>4, OpenStep
  <2> QED
    BY <2>2, <2>3, <2>4
<1> QED
  BY <1>4, <1>5, <1>6

(* At first the queues are empty.                                          *)
LEMMA QueueInit == Init => Queue!Init
<1> SUFFICES ASSUME Init PROVE Queue!Init
  OBVIOUS
<1>1. /\ ~terminated /\ raced = {} /\ cpc # "closed" /\ database = [s \in Shards |-> <<>>]
      /\ \A s \in Shards : records[s] = <<>>
      /\ \A a \in Actions : payload[a] = <<>>
      /\ \A t \in Threads : pc[t] \in {"test", "constructing"}
  BY ConstantFacts DEF Init, WP!Init
<1>2. ASSUME NEW s \in Shards PROVE Pending(s) = <<>>
  <2>1. Underway(s) = {} /\ Holding(s) = {}
    BY <1>1 DEF Underway, Holding
  <2>2. <<>> \o <<>> \o <<>> = <<>>
    OBVIOUS
  <2> QED
    BY <1>1, <2>1, <2>2 DEF Pending, TheBatch, TheTaken
<1>3. [s \in Shards |-> Pending(s)] = [s \in Shards |-> <<>>]
  BY <1>2
<1> QED
  BY <1>1, <1>3 DEF Queue!Init

(* As long as the client keeps the order, its shards are queues: what was  *)
(* put is written, or lost, front first and in batches, and nothing is     *)
(* left when the client is closed.                                         *)
THEOREM ShardsAreQueues == Spec /\ []Orderly => ImplementsShardQueue
<1>1. PipelineInv /\ PipelineInv' /\ Orderly /\ Orderly' /\ [Next]_vars
        => [Queue!Next]_(Queue!vars)
  BY QueueStep
<1> QED
  BY <1>1, QueueInit, PipelineInvariance, PTL DEF Spec, ImplementsShardQueue, Queue!Spec

(* In particular a client whose flush() is never called implements them.   *)
COROLLARY PutsMakeQueues ==
  ASSUME MaxFlushes = 0
  PROVE  Spec => ImplementsShardQueue
<1>1. TypeOK => Orderly
  BY DEF TypeOK, Orderly
<1> QED
  BY <1>1, TypeCorrect, ShardsAreQueues, PTL
-----------------------------------------------------------------------------
(* Who waits for whom.                                                     *)

(* What a thread can wait for: the mutex of a shard in put, the result of  *)
(* the previous batch in a flush and in the destructor, a permit, and the  *)
(* end of the watcher.                                                     *)
AwaitsMutex(t) == pc[t] = "lock" /\ ~Free(cur[t])
AwaitsResult(t, s) ==
  /\ ~Ready(s)
  /\ (pc[t] = "await" /\ s = cur[t]) \/ (pc[t] = "drain" /\ s \in toVisit[t])
AwaitsPermit(t) == pc[t] = "acquire" /\ availableWorkers = 0
AwaitsWatcher(t) == pc[t] = "join" /\ ~WatcherEnded

(* The result of shard s is the promise of an action that a worker has and *)
(* is on its way to execute.                                               *)
ResultComes(s) ==
  \E w \in Pool!Workers : status[w] = "BUSY" /\ action[w] = result[s] /\ Pool!Attended(w)

(* A thread is delivering with a permit of its own, a worker is on its way *)
(* to release one, or an InnerException has kept one.                      *)
PermitComes ==
  \/ \E u \in Threads : dpc[u] # "idle" /\ pc[u] \in {"copy", "clear", "deliver"}
  \/ \E w \in Pool!Workers : Pool!Attended(w)
  \/ \E a \in Actions : fate[a] = "dropped"

(* Nobody waits in a circle, or for what does not come.  Who waits for a   *)
(* mutex waits for a thread that waits for a result or a permit at most,   *)
(* and those come from the workers, which wait for nobody but each other's *)
(* callers in tryApply; the watcher, for which the destructor waits, knows *)
(* that it is to end, and is not itself at a place where a thread waits    *)
(* (client.h:60-77, 79-104, 115-130, 143-170).                             *)
ClientWaits ==
  /\ \A t \in Threads : AwaitsMutex(t) =>
       \E u \in Threads \ {t} : HasMutex(u) /\ cur[u] = cur[t]
  /\ \A t \in Threads, s \in Shards : AwaitsResult(t, s) => ResultComes(s)
  /\ \A t \in Threads : AwaitsPermit(t) => PermitComes
  /\ \A t \in Threads : AwaitsWatcher(t) =>
       /\ clientStatus = "UNAVAILABLE"
       /\ pc[Watcher] \notin {"lock", "await", "acquire", "drain", "join"}

(* The result of a shard is that of an action a worker was given.          *)
ResultInv ==
  \A s \in Shards : result[s] # NoAction => result[s] \in Actions /\ fate[result[s]] = "accepted"

(* Only Assign changes a result.                                           *)
LEMMA ResultStays ==
  ASSUME [Next]_vars, \A t \in Threads : ~Assign(t)
  PROVE  result' = result
<1>1. ASSUME NEW t \in Threads,
             \/ Apply(t) \/ Check(t) \/ Copy(t) \/ Clear(t) \/ Await(t) \/ AcquirePermit(t)
      PROVE  result' = result
  BY <1>1 DEF Apply, Check, Copy, Clear, Await, AcquirePermit
<1>2. ASSUME NEW t \in Threads,
             \/ Scan(t) \/ Give(t) \/ Throw(t) \/ ThrowUncaught(t) \/ VisitNext(t) \/ EndFlush(t)
      PROVE  result' = result
  BY <1>2 DEF Scan, Give, Throw, ThrowUncaught, VisitNext, EndFlush
<1>3. ASSUME NEW t \in AppThreads, StartFlush(t) \/ \E r \in Records : StartPut(t, r)
      PROVE  result' = result
  BY <1>3 DEF StartFlush, StartPut
<1>4. ASSUME \/ Construct \/ StartClose \/ Drain \/ Join \/ DestroyPool
             \/ TestStatus \/ Sweep \/ TryLock \/ TryPermit
      PROVE  result' = result
  BY <1>4 DEF Construct, StartClose, Drain, Join, DestroyPool, TestStatus, Sweep, TryLock,
     TryPermit
<1>5. ASSUME NEW w \in WP!Workers, Work(w) \/ SpuriousWakeup(w) PROVE result' = result
  BY <1>5 DEF Work, SpuriousWakeup
<1>6. ASSUME NEW s \in Shards, Age(s) PROVE result' = result
  BY <1>6 DEF Age
<1>7. ASSUME WriteThrows \/ Crash \/ UNCHANGED vars PROVE result' = result
  BY <1>7 DEF WriteThrows, Crash, vars
<1> QED
  BY <1>1, <1>2, <1>3, <1>4, <1>5, <1>6, <1>7, StepCases

LEMMA ResultInit == Init => ResultInv
BY DEF Init, ResultInv

LEMMA ResultStep == IndInv /\ HandInv /\ ResultInv /\ [Next]_vars => ResultInv'
<1> SUFFICES ASSUME IndInv, HandInv, ResultInv, [Next]_vars PROVE ResultInv'
  OBVIOUS
<1>1. \A a \in Actions : fate[a] = "accepted" => fate'[a] = "accepted"
  BY AcceptedStays
<1>2. ASSUME NEW t \in Threads, Assign(t) PROVE ResultInv'
  <2>1. future[t] \in Actions /\ fate[future[t]] = "accepted"
    BY <1>2 DEF Assign, IndInv, PermitInv
  <2>2. \A s \in Shards : result'[s] = result[s] \/ result'[s] = future[t]
    BY <1>2 DEF Assign, IndInv, TypeOK
  <2> QED
    BY <1>1, <2>1, <2>2 DEF ResultInv
<1>3. CASE \A t \in Threads : ~Assign(t)
  BY <1>1, <1>3, ResultStays DEF ResultInv
<1> QED
  BY <1>2, <1>3

(* The pool's account of who has a permit, in the client.                  *)
LEMMA AliveInit == Init => Pool!AliveInv
BY SameInit, PoolFacts, Pool!AliveInit DEF Init

LEMMA AliveStep == IndInv /\ Pool!AliveInv /\ [Next]_vars => Pool!AliveInv'
<1> SUFFICES ASSUME IndInv, Pool!AliveInv, [Next]_vars PROVE Pool!AliveInv'
  OBVIOUS
<1>1. CASE WP!Next \/ UNCHANGED poolVars
  <2>1. [Pool!Next]_Pool!poolVars
    BY <1>1, SameNext DEF Pool!poolVars
  <2> QED
    BY <2>1, PoolFacts, Pool!AliveStep DEF IndInv
<1>2. CASE ProcessEnds
  BY <1>2 DEF ProcessEnds, Pool!AliveInv, Pool!Dropped, Pool!Holders, Pool!Awake, Pool!Workers
<1>3. terminated \in BOOLEAN
  BY DEF IndInv, Pool!IndInv, Pool!TypeOK
<1> QED
  BY <1>1, <1>2, <1>3, PoolStep DEF IndInv

LEMMA ClientWaitsHold == IndInv /\ ResultInv /\ Pool!AliveInv => ClientWaits
<1> SUFFICES ASSUME IndInv, ResultInv, Pool!AliveInv PROVE ClientWaits
  OBVIOUS
<1> USE ConstantFacts
<1>1. Pool!PoolWaits
  BY PoolFacts, Pool!PoolWaitsHold DEF IndInv
<1>2. ASSUME NEW t \in Threads, AwaitsMutex(t)
      PROVE  \E u \in Threads \ {t} : HasMutex(u) /\ cur[u] = cur[t]
  <2>1. cur[t] \in Shards /\ cur[t] \in shardLocked /\ pc[t] = "lock"
    BY <1>2, Domains DEF AwaitsMutex, Free, IndInv
  <2>2. PICK u \in Threads : HasMutex(u) /\ cur[u] = cur[t]
    BY <2>1 DEF IndInv, MutexInv
  <2>3. u # t
    BY <2>1, <2>2 DEF HasMutex, BatchPcs
  <2> QED
    BY <2>2, <2>3
<1>3. ASSUME NEW t \in Threads, NEW s \in Shards, AwaitsResult(t, s) PROVE ResultComes(s)
  <2>1. /\ result[s] \in Actions /\ fate[result[s]] = "accepted"
        /\ result[s] \notin resolved
    BY <1>3 DEF AwaitsResult, Ready, ResultInv
  <2>2. PICK w \in Pool!Workers : status[w] = "BUSY" /\ action[w] = result[s]
    BY <2>1 DEF IndInv, Pool!IndInv, Pool!AcceptedHasOneWorker
  <2> QED
    BY <1>1, <2>2 DEF Pool!PoolWaits, ResultComes
<1>4. ASSUME NEW t \in Threads, AwaitsPermit(t) PROVE PermitComes
  <2>1. pc[t] = "acquire" /\ availableWorkers = 0
    BY <1>4 DEF AwaitsPermit
  <2>2. cpc = "open"
    <3>1. SUFFICES ASSUME cpc # "open" PROVE FALSE
      OBVIOUS
    <3>2. pc[Owner] = "destroyed" /\ pc[Watcher] = "ended"
      BY <3>1 DEF IndInv, PermitInv
    <3>3. t # Owner /\ t \in AppThreads
      BY <2>1, <3>2
    <3>4. job[Owner] = "close"
      BY <3>2, Domains DEF IndInv, PlaceInv, BatchPcs, Jobs
    <3> QED
      BY <2>1, <3>3, <3>4 DEF IndInv, PlaceInv
  <2>3. CASE Pool!Dropped # {}
    BY <2>3 DEF Pool!Dropped, PermitComes
  <2>4. CASE Pool!Holders # {}
    <3>1. PICK u \in Threads : dpc[u] # "idle"
      BY <2>4 DEF Pool!Holders
    <3>2. PermitTaken(u)
      BY <3>1 DEF IndInv, PermitInv
    <3> QED
      BY <3>1, <3>2 DEF PermitTaken, PermitComes
  <2>5. CASE \E w \in Pool!Workers : Pool!Attended(w)
    BY <2>5 DEF PermitComes
  <2> QED
    BY <1>1, <2>1, <2>2, <2>3, <2>4, <2>5 DEF Pool!PoolWaits
<1>5. ASSUME NEW t \in Threads, AwaitsWatcher(t)
      PROVE  /\ clientStatus = "UNAVAILABLE"
             /\ pc[Watcher] \notin {"lock", "await", "acquire", "drain", "join"}
  <2>1. pc[t] = "join"
    BY <1>5 DEF AwaitsWatcher
  <2>2. t # Watcher
    BY <2>1 DEF IndInv, PlaceInv
  <2>3. job[t] = "close" /\ t = Owner
    BY <2>1, <2>2, Domains DEF IndInv, PlaceInv, BatchPcs, Jobs
  <2> QED
    BY <2>3 DEF IndInv, PlaceInv
<1> QED
  BY <1>2, <1>3, <1>4, <1>5 DEF ClientWaits

(* No two threads of the client, and none of its pool, wait for each       *)
(* other: a wait for a mutex, a result, a permit or the watcher leads to a *)
(* thread that can go on, unless an InnerException has kept the permit.    *)
THEOREM NoWaitInACircle == Spec => []ClientWaits
<1>1. BatchInv => IndInv /\ HandInv
  BY DEF BatchInv
<1>2. Spec => []Pool!AliveInv
  BY AliveInit, AliveStep, Invariance, PTL DEF Spec
<1>3. Spec => []ResultInv
  BY <1>1, ResultInit, ResultStep, BatchInvariance, PTL DEF Spec
<1> QED
  BY <1>2, <1>3, ClientWaitsHold, Invariance, PTL
=============================================================================
