------------------------------ MODULE BatchProofs ------------------------------
(***************************************************************************)
(* Proofs about Client: where the records of a shard are.  They hold       *)
(* whether or not flush() is called, by any number of threads, for every   *)
(* shard whose vector two threads did not access at once.                  *)
(***************************************************************************)
EXTENDS ClientProofs

(* The groups of variables, and the jump of a thread, are always expanded. *)
USE DEF shardVars, localVars, requestVars, otherPoolVars, poolVars, restOfPool,
        clientVars, Goto

-----------------------------------------------------------------------------
(* The invariant.                                                          *)

(* The records that are in a thread's hands or in an action are those of   *)
(* one shard.  Only an action that was handed over has a batch, and only   *)
(* one that was sent has been refused.                                     *)
HandPcs == {"clear", "await", "acquire", "deliver"}
HandInv ==
  /\ \A s \in Shards : \A r \in ToSet(records[s]) : ShardOf[r] = s
  /\ \A t \in Threads : pc[t] \in HandPcs => \A r \in ToSet(taken[t]) : ShardOf[r] = cur[t]
  /\ \A a \in Actions : payload[a] # <<>> => fate[a] \in {"accepted", "dropped"}
  /\ \A a \in Actions : \A r \in ToSet(payload[a]) : ShardOf[r] = ShardOfBatch(a)
  /\ \A a \in rejected : writes[a] = 1

(* A thread between the two steps that take a batch out of shard s, and    *)
(* one that has a batch of it in its hands (a member of Holding).          *)
AtClear(t, s) == cur[t] = s /\ pc[t] = "clear"
HasBatch(t, s) == cur[t] = s /\ taken[t] # <<>> /\ pc[t] \in {"await", "acquire", "deliver"}
Clearing(s) == {t \in Threads : AtClear(t, s)}

(* The batches of shard s that were ever handed over, and those that the   *)
(* database has.                                                           *)
Batches(s) == {a \in Actions : payload[a] # <<>> /\ ShardOfBatch(a) = s}
Written(s) == {a \in Batches(s) : writes[a] = 1 /\ a \notin rejected}

(* While the contents of the vector are moved out they are in two places,  *)
(* and one thread does it.                                                 *)
ClearInv(s) ==
  \A t \in Clearing(s) :
    taken[t] = records[s] /\ size[s] = 0 /\ \A u \in Clearing(s) : u = t

(* seq is an unbroken run of log that begins after position i.             *)
RunAt(seq, log, i) ==
  i + Len(seq) <= Len(log) /\ \A j \in 1 .. Len(seq) : seq[j] = log[i + j]
Run(seq, log) == \E i \in 0 .. Len(log) : RunAt(seq, log, i)

(* The vector is the end of the puts, and every batch a run of them.       *)
EndOf(seq, log) == \E i \in 0 .. Len(log) : RunAt(seq, log, i) /\ i + Len(seq) = Len(log)
RunInv(s) ==
  /\ EndOf(records[s], putLog[s])
  /\ \A t \in Holding(s) : Run(taken[t], putLog[s])
  /\ \A a \in Batches(s) : Run(payload[a], putLog[s])

(* A record that was put is in one of these places ...                     *)
CoverInv(s) ==
  \A r \in ToSet(putLog[s]) :
    \/ r \in ToSet(records[s])
    \/ \E t \in Holding(s) : r \in ToSet(taken[t])
    \/ \E a \in Batches(s) : r \in ToSet(payload[a])

(* ... and not in two.                                                     *)
Apart(seq1, seq2) == ToSet(seq1) \cap ToSet(seq2) = {}
ApartInv(s) ==
  /\ \A t \in Holding(s) : Apart(taken[t], records[s])
  /\ \A a \in Batches(s) : Apart(payload[a], records[s])
  /\ \A t, u \in Holding(s) : t # u => Apart(taken[t], taken[u])
  /\ \A t \in Holding(s), a \in Batches(s) : Apart(taken[t], payload[a])
  /\ \A a, b \in Batches(s) : a # b => Apart(payload[a], payload[b])

(* The database has the records of the batches written, each once.         *)
StoredInv(s) ==
  /\ \A r \in ToSet(database[s]) : \E a \in Written(s) : r \in ToSet(payload[a])
  /\ \A a \in Written(s) : ToSet(payload[a]) \subseteq ToSet(database[s])
  /\ \A i, j \in DOMAIN database[s] : i # j => database[s][i] # database[s][j]

(* size is that of the vector unless the vector is being moved out.        *)
SizeInv(s) == Clearing(s) = {} => SizesAddUp(records[s], size[s])

(* What holds at a shard ...                                               *)
ShardInv(s) ==
  /\ ClearInv(s) /\ RunInv(s) /\ CoverInv(s) /\ ApartInv(s) /\ StoredInv(s) /\ SizeInv(s)

(* A shard has not reached its target, or the put that filled it has still *)
(* to take the batch out.                                                  *)
Below(s) ==
  /\ Len(records[s]) < TargetNumRecords
  /\ \E total \in 0 .. TargetMemorySize - 1 : SizesAddUp(records[s], total)
Filling(t, s) == job[t] = "put" /\ cur[t] = s /\ pc[t] \in {"check", "copy", "clear"}
TargetInv(s) == Below(s) \/ \E t \in Threads : Filling(t, s)

(* The destructor has taken every batch out that it does not come by.      *)
EmptiedInv ==
  job[Owner] = "close" => \A s \in Shards :
    \/ records[s] = <<>>
    \/ s \in toVisit[Owner] /\ pc[Owner] \in BatchPcs \union {"next"}
    \/ s = cur[Owner] /\ pc[Owner] \in {"copy", "clear"}

(* ... unless two threads were at its vector at once.                      *)
BatchInv ==
  /\ IndInv /\ HandInv /\ EmptiedInv
  /\ \A s \in Shards \ raced : ShardInv(s) /\ TargetInv(s)

-----------------------------------------------------------------------------
(* Sequences.                                                              *)

(* The elements of two sequences together.                                 *)
LEMMA ConcatSet ==
  ASSUME NEW S, NEW p \in Seq(S), NEW q \in Seq(S)
  PROVE  ToSet(p \o q) = ToSet(p) \union ToSet(q)
<1>1. /\ DOMAIN p = 1 .. Len(p) /\ DOMAIN q = 1 .. Len(q) /\ Len(p) \in Nat /\ Len(q) \in Nat
      /\ DOMAIN (p \o q) = 1 .. Len(p) + Len(q)
      /\ \A i \in 1 .. Len(p) + Len(q) :
           (p \o q)[i] = IF i <= Len(p) THEN p[i] ELSE q[i - Len(p)]
  BY SMT
<1>2. ASSUME NEW i \in DOMAIN p PROVE p[i] \in ToSet(p \o q)
  <2>1. i \in DOMAIN (p \o q) /\ (p \o q)[i] = p[i]
    BY <1>1, <1>2
  <2> QED
    BY <2>1 DEF ToSet
<1>3. ASSUME NEW i \in DOMAIN q PROVE q[i] \in ToSet(p \o q)
  <2>1. Len(p) + i \in DOMAIN (p \o q) /\ (p \o q)[Len(p) + i] = q[i]
    BY <1>1, <1>3
  <2> QED
    BY <2>1 DEF ToSet
<1>4. ASSUME NEW i \in DOMAIN (p \o q) PROVE (p \o q)[i] \in ToSet(p) \union ToSet(q)
  <2>1. CASE i <= Len(p)
    <3>1. i \in DOMAIN p /\ (p \o q)[i] = p[i]
      BY <1>1, <1>4, <2>1
    <3> QED
      BY <3>1 DEF ToSet
  <2>2. CASE ~(i <= Len(p))
    <3>1. i - Len(p) \in DOMAIN q /\ (p \o q)[i] = q[i - Len(p)]
      BY <1>1, <1>4, <2>2
    <3> QED
      BY <3>1 DEF ToSet
  <2> QED
    BY <2>1, <2>2
<1> QED
  BY <1>2, <1>3, <1>4 DEF ToSet

(* The empty sequence has no elements.                                     *)
LEMMA EmptySet == ToSet(<<>>) = {}
BY DEF ToSet

(* No element twice.                                                       *)
Distinct(seq) == \A i, j \in DOMAIN seq : i # j => seq[i] # seq[j]

(* Two sequences without a common element, and without repetition.         *)
LEMMA ConcatDistinct ==
  ASSUME NEW S, NEW p \in Seq(S), NEW q \in Seq(S), Distinct(p), Distinct(q), Apart(p, q)
  PROVE  Distinct(p \o q)
<1>1. /\ DOMAIN p = 1 .. Len(p) /\ DOMAIN q = 1 .. Len(q) /\ Len(p) \in Nat /\ Len(q) \in Nat
      /\ DOMAIN (p \o q) = 1 .. Len(p) + Len(q)
      /\ \A i \in 1 .. Len(p) + Len(q) :
           (p \o q)[i] = IF i <= Len(p) THEN p[i] ELSE q[i - Len(p)]
  BY SMT
<1>2. \A i \in DOMAIN p, j \in DOMAIN q : p[i] # q[j]
  BY DEF Apart, ToSet
<1>3. SUFFICES ASSUME NEW i \in DOMAIN (p \o q), NEW j \in DOMAIN (p \o q), i # j
               PROVE  (p \o q)[i] # (p \o q)[j]
  BY DEF Distinct
<1>4. CASE i <= Len(p) /\ j <= Len(p)
  BY <1>1, <1>3, <1>4 DEF Distinct
<1>5. CASE i <= Len(p) /\ ~(j <= Len(p))
  <2>1. i \in DOMAIN p /\ j - Len(p) \in DOMAIN q
    BY <1>1, <1>5
  <2> QED
    BY <1>1, <1>2, <1>5, <2>1
<1>6. CASE ~(i <= Len(p)) /\ j <= Len(p)
  <2>1. j \in DOMAIN p /\ i - Len(p) \in DOMAIN q
    BY <1>1, <1>6
  <2> QED
    BY <1>1, <1>2, <1>6, <2>1
<1>7. CASE ~(i <= Len(p)) /\ ~(j <= Len(p))
  <2>1. i - Len(p) \in DOMAIN q /\ j - Len(p) \in DOMAIN q /\ i - Len(p) # j - Len(p)
    BY <1>1, <1>3, <1>7
  <2>2. (p \o q)[i] = q[i - Len(p)] /\ (p \o q)[j] = q[j - Len(p)]
    BY <1>1, <1>7
  <2> QED
    BY <2>1, <2>2 DEF Distinct
<1> QED
  BY <1>4, <1>5, <1>6, <1>7

(* The elements of a run are among those of the log, and no two the same   *)
(* if no two of the log are.                                               *)
LEMMA RunFacts ==
  ASSUME NEW S, NEW seq \in Seq(S), NEW log \in Seq(S), Run(seq, log)
  PROVE  ToSet(seq) \subseteq ToSet(log) /\ (Distinct(log) => Distinct(seq))
<1>1. PICK i \in 0 .. Len(log) : RunAt(seq, log, i)
  BY DEF Run
<1>2. /\ DOMAIN seq = 1 .. Len(seq) /\ DOMAIN log = 1 .. Len(log)
      /\ Len(seq) \in Nat /\ Len(log) \in Nat
  BY SMT
<1>3. \A j \in DOMAIN seq : i + j \in DOMAIN log /\ seq[j] = log[i + j]
  BY <1>1, <1>2 DEF RunAt
<1>4. ToSet(seq) \subseteq ToSet(log)
  BY <1>3 DEF ToSet
<1>5. ASSUME Distinct(log) PROVE Distinct(seq)
  <2>1. \A j, k \in DOMAIN seq : j # k => i + j # i + k
    BY <1>2
  <2> QED
    BY <1>3, <1>5, <2>1 DEF Distinct
<1> QED
  BY <1>4, <1>5

(* The end of the log is a run of it.                                      *)
LEMMA EndIsRun ==
  ASSUME NEW seq, NEW log, EndOf(seq, log)
  PROVE  Run(seq, log)
BY DEF EndOf, Run

(* A run of the log is still one when the log has grown.                   *)
LEMMA RunGrows ==
  ASSUME NEW S, NEW seq \in Seq(S), NEW log \in Seq(S), NEW r \in S, Run(seq, log)
  PROVE  Run(seq, Append(log, r))
<1>1. PICK i \in 0 .. Len(log) : RunAt(seq, log, i)
  BY DEF Run
<1>2. /\ Len(seq) \in Nat /\ Len(log) \in Nat /\ Len(Append(log, r)) = Len(log) + 1
      /\ \A j \in 1 .. Len(log) : Append(log, r)[j] = log[j]
  BY SMT
<1>3. \A j \in 1 .. Len(seq) : i + j \in 1 .. Len(log)
  BY <1>1, <1>2 DEF RunAt
<1>4. RunAt(seq, Append(log, r), i) /\ i \in 0 .. Len(Append(log, r))
  BY <1>1, <1>2, <1>3 DEF RunAt
<1> QED
  BY <1>4 DEF Run

(* The end of the log grows with it.                                       *)
LEMMA EndGrows ==
  ASSUME NEW S, NEW seq \in Seq(S), NEW log \in Seq(S), NEW r \in S, EndOf(seq, log)
  PROVE  EndOf(Append(seq, r), Append(log, r))
<1>1. PICK i \in 0 .. Len(log) : RunAt(seq, log, i) /\ i + Len(seq) = Len(log)
  BY DEF EndOf
<1>2. /\ Len(seq) \in Nat /\ Len(log) \in Nat
      /\ Len(Append(log, r)) = Len(log) + 1 /\ Len(Append(seq, r)) = Len(seq) + 1
      /\ \A j \in 1 .. Len(log) : Append(log, r)[j] = log[j]
      /\ \A j \in 1 .. Len(seq) : Append(seq, r)[j] = seq[j]
      /\ Append(log, r)[Len(log) + 1] = r /\ Append(seq, r)[Len(seq) + 1] = r
  BY SMT
<1>3. \A j \in 1 .. Len(seq) + 1 : Append(seq, r)[j] = Append(log, r)[i + j]
  <2>1. TAKE j \in 1 .. Len(seq) + 1
  <2>2. CASE j = Len(seq) + 1
    BY <1>1, <1>2, <2>2
  <2>3. CASE j # Len(seq) + 1
    <3>1. j \in 1 .. Len(seq) /\ i + j \in 1 .. Len(log)
      BY <1>1, <1>2, <2>3
    <3> QED
      BY <1>1, <1>2, <3>1 DEF RunAt
  <2> QED
    BY <2>2, <2>3
<1> QED
  <2>1. i \in 0 .. Len(Append(log, r)) /\ i + Len(Append(seq, r)) = Len(Append(log, r))
    BY <1>1, <1>2
  <2>2. RunAt(Append(seq, r), Append(log, r), i)
    BY <1>2, <1>3, <2>1 DEF RunAt
  <2> QED
    BY <2>1, <2>2 DEF EndOf

(* The empty sequence is at the end of every log.                          *)
LEMMA EmptyAtEnd ==
  ASSUME NEW S, NEW log \in Seq(S)
  PROVE  EndOf(<<>>, log)
<1>1. Len(log) \in Nat /\ Len(<<>>) = 0
  BY SMT
<1> QED
  BY <1>1 DEF EndOf, RunAt

(* The size of nothing ...                                                 *)
LEMMA SizesEmpty == SizesAddUp(<<>>, 0)
<1> DEFINE sum == [i \in 0 .. 0 |-> 0]
<1>1. Len(<<>>) = 0
  BY SMT
<1>2. sum \in [0 .. Len(<<>>) -> 0 .. 0] /\ sum[0] = 0 /\ sum[Len(<<>>)] = 0
  BY <1>1
<1>3. \A i \in 1 .. Len(<<>>) : sum[i] = sum[i - 1] + RecordSize[<<>>[i]]
  BY <1>1
<1> HIDE DEF sum
<1> QED
  BY <1>2, <1>3 DEF SizesAddUp

(* ... and of one record more.                                             *)
LEMMA SizesAppend ==
  ASSUME NEW seq \in Seq(Records), NEW total \in Nat, NEW r \in Records,
         SizesAddUp(seq, total)
  PROVE  SizesAddUp(Append(seq, r), total + RecordSize[r])
<1>1. PICK sum \in [0 .. Len(seq) -> 0 .. total] :
        /\ sum[0] = 0 /\ sum[Len(seq)] = total
        /\ \A i \in 1 .. Len(seq) : sum[i] = sum[i - 1] + RecordSize[seq[i]]
  BY DEF SizesAddUp
<1> DEFINE n == Len(seq)
           z == RecordSize[r]
           more == [i \in 0 .. n + 1 |-> IF i <= n THEN sum[i] ELSE total + z]
<1>2. n \in Nat /\ z \in Nat
  BY ConstantFacts
<1>3. /\ Len(Append(seq, r)) = n + 1 /\ Append(seq, r)[n + 1] = r
      /\ \A i \in 1 .. n : Append(seq, r)[i] = seq[i]
  BY SMT
<1> HIDE DEF z
<1>4. more \in [0 .. n + 1 -> 0 .. total + z]
  <2>1. \A i \in 0 .. n : sum[i] \in 0 .. total + z
    BY <1>1, <1>2
  <2> QED
    BY <1>2, <2>1
<1>5. more[0] = 0 /\ more[n + 1] = total + z
  BY <1>1, <1>2
<1>6. ASSUME NEW i \in 1 .. n + 1
      PROVE  more[i] = more[i - 1] + RecordSize[Append(seq, r)[i]]
  <2>1. CASE i <= n
    <3>1. i \in 1 .. n /\ i - 1 \in 0 .. n + 1 /\ i - 1 <= n /\ i \in 0 .. n + 1
      BY <1>2, <1>6, <2>1
    <3> QED
      BY <1>1, <1>3, <3>1
  <2>2. CASE ~(i <= n)
    <3>1. i = n + 1 /\ i - 1 = n
      BY <1>2, <1>6, <2>2
    <3>2. more[n] = total
      BY <1>1, <1>2
    <3> QED
      BY <1>3, <1>5, <3>1, <3>2 DEF z
  <2> QED
    BY <2>1, <2>2
<1> QED
  BY <1>3, <1>4, <1>5, <1>6 DEF SizesAddUp, z

(* The first element of a sequence that has one.                           *)
LEMMA FirstIsElement ==
  ASSUME NEW S, NEW seq \in Seq(S), seq # <<>>
  PROVE  seq[1] \in ToSet(seq)
<1>1. 1 \in DOMAIN seq
  BY EmptySeq, LenProperties
<1> QED
  BY <1>1 DEF ToSet

-----------------------------------------------------------------------------
(* What a step does to a shard.                                            *)

(* What a step can leave alone.                                            *)
VectorStays(s) == records'[s] = records[s] /\ putLog'[s] = putLog[s] /\ size'[s] = size[s]
HandsStay(s) ==
  /\ Clearing(s)' = Clearing(s) /\ Holding(s)' = Holding(s)
  /\ \A t \in Clearing(s) \union Holding(s) : taken'[t] = taken[t]
BatchesStay(s) == Batches(s)' = Batches(s) /\ \A a \in Batches(s) : payload'[a] = payload[a]
StoreStays(s) == database'[s] = database[s] /\ Written(s)' = Written(s)

(* Nothing happens to its records.                                         *)
Quiet(s) == VectorStays(s) /\ HandsStay(s) /\ BatchesStay(s) /\ StoreStays(s)

(* A record is put.                                                        *)
PutAt(r, s) ==
  /\ r \notin ToSet(putLog[s]) /\ Clearing(s) = {}
  /\ records'[s] = Append(records[s], r) /\ putLog'[s] = Append(putLog[s], r)
  /\ size'[s] = size[s] + RecordSize[r]
  /\ HandsStay(s) /\ BatchesStay(s) /\ StoreStays(s)

(* Thread t copies the vector.                                             *)
CopyAt(t, s) ==
  /\ Clearing(s) = {} /\ Clearing(s)' = {t}
  /\ Holding(s)' = Holding(s) /\ \A u \in Holding(s) : taken'[u] = taken[u]
  /\ taken'[t] = records[s] /\ size'[s] = 0
  /\ records'[s] = records[s] /\ putLog'[s] = putLog[s]
  /\ BatchesStay(s) /\ StoreStays(s)

(* Thread t clears the vector and keeps what it has copied.                *)
ClearAt(t, s) ==
  /\ t \in Clearing(s) /\ Clearing(s)' = Clearing(s) \ {t}
  /\ Holding(s)' = IF taken[t] = <<>> THEN Holding(s) ELSE Holding(s) \union {t}
  /\ \A u \in Clearing(s) \union Holding(s) : taken'[u] = taken[u]
  /\ records'[s] = <<>> /\ putLog'[s] = putLog[s] /\ size'[s] = size[s]
  /\ BatchesStay(s) /\ StoreStays(s)

(* Thread t gives its batch away as action a.                              *)
HandAt(t, a, s) ==
  /\ t \in Holding(s) /\ Holding(s)' = Holding(s) \ {t}
  /\ Clearing(s)' = Clearing(s)
  /\ \A u \in Clearing(s) \union (Holding(s) \ {t}) : taken'[u] = taken[u]
  /\ a \notin Batches(s) /\ Batches(s)' = Batches(s) \union {a}
  /\ payload'[a] = taken[t] /\ \A b \in Batches(s) : payload'[b] = payload[b]
  /\ VectorStays(s) /\ StoreStays(s)

(* The database loads the batch of action a.                               *)
LoadAt(a, s) ==
  /\ a \in Batches(s) \ Written(s) /\ Written(s)' = Written(s) \union {a}
  /\ database'[s] = database[s] \o payload[a]
  /\ VectorStays(s) /\ HandsStay(s) /\ BatchesStay(s)

(* Every step is one of these for a shard that is not raced.               *)
ShardMoves(s) ==
  \/ Quiet(s)
  \/ \E r \in Records : PutAt(r, s)
  \/ \E t \in Threads : CopyAt(t, s) \/ ClearAt(t, s)
  \/ \E t \in Threads, a \in Actions : HandAt(t, a, s)
  \/ \E a \in Actions : LoadAt(a, s)

(* Holding in terms of HasBatch.                                           *)
LEMMA HoldingIs ==
  ASSUME NEW s
  PROVE  /\ Holding(s) = {t \in Threads : HasBatch(t, s)}
         /\ Holding(s)' = {t \in Threads : HasBatch(t, s)'}
         /\ Clearing(s) = {t \in Threads : AtClear(t, s)}
         /\ Clearing(s)' = {t \in Threads : AtClear(t, s)'}
BY DEF Holding, HasBatch, Clearing

(* Nobody comes to have a batch or gives one away.                         *)
LEMMA HoldingStays ==
  ASSUME NEW s, \A u \in Threads : HasBatch(u, s)' <=> HasBatch(u, s)
  PROVE  Holding(s)' = Holding(s)
BY HoldingIs

(* Thread t comes to have a batch, if there is one.                        *)
LEMMA HoldingGrows ==
  ASSUME NEW s, NEW t \in Threads, ~HasBatch(t, s), HasBatch(t, s)' <=> taken[t] # <<>>,
         \A u \in Threads \ {t} : HasBatch(u, s)' <=> HasBatch(u, s)
  PROVE  Holding(s)' = IF taken[t] = <<>> THEN Holding(s) ELSE Holding(s) \union {t}
<1>1. CASE taken[t] = <<>>
  BY <1>1, HoldingIs
<1>2. CASE taken[t] # <<>>
  BY <1>2, HoldingIs
<1> QED
  BY <1>1, <1>2

(* Nobody comes to the records of shard s or leaves them.                  *)
LEMMA HandsFrame ==
  ASSUME NEW s,
         \A u \in Threads : /\ AtClear(u, s)' <=> AtClear(u, s)
                            /\ HasBatch(u, s)' <=> HasBatch(u, s)
                            /\ AtClear(u, s) \/ HasBatch(u, s) => taken'[u] = taken[u]
  PROVE  HandsStay(s)
BY HoldingIs DEF HandsStay

(* The batches handed over and written stay as they are.                   *)
LEMMA BatchesFrame ==
  ASSUME NEW s, UNCHANGED payload
  PROVE  /\ BatchesStay(s)
         /\ UNCHANGED <<writes, rejected>> => Written(s)' = Written(s)
BY DEF BatchesStay, Batches, Written, ShardOfBatch

(* A step in which thread t alone moves, and is not between the clearing   *)
(* of a vector and the giving away of the batch before or after.           *)
LEMMA OthersStay ==
  ASSUME NEW s, NEW t \in Threads,
         \A u \in Threads \ {t} : pc'[u] = pc[u] /\ cur'[u] = cur[u] /\ taken'[u] = taken[u],
         pc[t] \notin HandPcs, pc'[t] \notin HandPcs
  PROVE  HandsStay(s)
<1>1. \A u \in Threads : /\ AtClear(u, s)' <=> AtClear(u, s)
                         /\ HasBatch(u, s)' <=> HasBatch(u, s)
                         /\ AtClear(u, s) \/ HasBatch(u, s) => taken'[u] = taken[u]
  BY DEF AtClear, HasBatch, HandPcs
<1> QED
  BY <1>1, HandsFrame

(* The result of an action that nobody has given away is not written.      *)
LEMMA FreshCarry ==
  ASSUME Pool!IndInv, HandInv, NEW t \in Threads, dpc[t] # "idle"
  PROVE  /\ carry[t] \in Actions /\ fate[carry[t]] = "carried"
         /\ payload[carry[t]] = <<>> /\ writes[carry[t]] = 0 /\ carry[t] \notin rejected
<1>1. carry[t] \in Actions /\ fate[carry[t]] = "carried"
  BY DEF Pool!IndInv, Pool!CarryInv
<1>2. writes[carry[t]] \in Nat /\ writes[carry[t]] <= 1
      /\ (writes[carry[t]] > 0 => fate[carry[t]] = "accepted")
  BY <1>1 DEF Pool!IndInv, Pool!TypeOK, Pool!WrittenOnce
<1> QED
  BY <1>1, <1>2 DEF HandInv

(* A worker that is about to execute has a batch that was not written.     *)
LEMMA SlotFacts ==
  ASSUME Pool!IndInv, HandInv, NEW w \in WP!Workers, status[w] = "BUSY",
         wpc[w] \notin {"written", "settled"}
  PROVE  /\ action[w] \in Actions /\ fate[action[w]] = "accepted" /\ writes[action[w]] = 0
         /\ action[w] \notin rejected
<1>1. action[w] \in Actions /\ fate[action[w]] = "accepted" /\ writes[action[w]] = 0
  BY SameWorkers DEF Pool!IndInv, Pool!SlotInv
<1> QED
  BY <1>1 DEF HandInv

(* The batch of action a is written, or refused, or empty.                 *)
LEMMA StoreMoves ==
  ASSUME TypeOK, Pool!IndInv, NEW s \in Shards, NEW a \in Actions,
         writes[a] = 0, a \notin rejected, WP!Write(a), Store(a),
         UNCHANGED <<records, putLog, size, pc, cur, taken, payload>>
  PROVE  Quiet(s) \/ LoadAt(a, s)
<1>1. VectorStays(s) /\ HandsStay(s) /\ BatchesStay(s)
  BY HandsFrame, BatchesFrame DEF VectorStays, AtClear, HasBatch
<1>2. /\ writes'[a] = 1 /\ \A b \in Actions \ {a} : writes'[b] = writes[b]
      /\ \A b \in Actions \ {a} : b \in rejected' <=> b \in rejected
  BY DEF WP!Write, Pool!IndInv, Pool!TypeOK
<1>3. a \notin Written(s)
  BY DEF Written
<1>6. \A b \in Actions \ {a} : b \in Written(s)' <=> b \in Written(s)
  <2>1. Batches(s)' = Batches(s)
    BY <1>1 DEF BatchesStay
  <2> QED
    BY <1>2, <2>1 DEF Written
<1>7. a \in Written(s)' <=> a \in Batches(s) /\ a \notin rejected'
  <2>1. Batches(s)' = Batches(s)
    BY <1>1 DEF BatchesStay
  <2> QED
    BY <1>2, <2>1 DEF Written
<1>8. Written(s) \subseteq Actions /\ Written(s)' \subseteq Actions
  BY DEF Written, Batches
<1>4. CASE a \notin Batches(s) \/ a \in rejected'
  <2>1. Written(s)' = Written(s)
    BY <1>3, <1>4, <1>6, <1>7, <1>8
  <2>2. database'[s] = database[s]
    BY <1>4 DEF Store, Batches, TypeOK
  <2> QED
    BY <1>1, <2>1, <2>2 DEF Quiet, StoreStays
<1>5. CASE a \in Batches(s) /\ a \notin rejected'
  <2>1. Written(s)' = Written(s) \union {a}
    BY <1>5, <1>6, <1>7, <1>8
  <2>2. database'[s] = database[s] \o payload[a]
    BY <1>5 DEF Store, Batches, TypeOK
  <2> QED
    BY <1>1, <1>3, <1>5, <2>1, <2>2 DEF LoadAt
<1> QED
  BY <1>4, <1>5

(* Nothing but the threads moves.                                          *)
LEMMA QuietStep ==
  ASSUME NEW s \in Shards, HandsStay(s),
         UNCHANGED <<records, putLog, size, database, payload, writes, rejected>>
  PROVE  ShardMoves(s)
<1>1. VectorStays(s) /\ BatchesStay(s) /\ StoreStays(s)
  BY BatchesFrame DEF VectorStays, StoreStays
<1> QED
  BY <1>1 DEF Quiet, ShardMoves

(* A thread gives its batch away, to a worker or with an exception.        *)
LEMMA HandMoves ==
  ASSUME TypeOK, Pool!IndInv, HandInv, NEW s \in Shards, NEW t \in Threads,
         pc[t] = "deliver", dpc[t] # "idle", HandOver(t), pc'[t] # "clear",
         \A u \in Threads \ {t} : pc'[u] = pc[u] /\ cur'[u] = cur[u],
         UNCHANGED <<records, putLog, size, database, writes, rejected>>
  PROVE  Quiet(s) \/ \E a \in Actions : HandAt(t, a, s)
<1> DEFINE a == carry[t]
<1>1. /\ a \in Actions /\ payload[a] = <<>> /\ writes[a] = 0
  BY FreshCarry
<1> HIDE DEF a
<1>2. /\ payload' = [payload EXCEPT ![a] = taken[t]]
      /\ taken'[t] = <<>> /\ \A u \in Threads \ {t} : taken'[u] = taken[u]
  BY Domains DEF HandOver, a
<1>3. /\ payload'[a] = taken[t] /\ \A b \in Actions \ {a} : payload'[b] = payload[b]
  BY <1>1, <1>2 DEF TypeOK
<1>4. a \notin Batches(s)
  BY <1>1 DEF Batches
<1>5. \A b \in Actions \ {a} : b \in Batches(s)' <=> b \in Batches(s)
  BY <1>3 DEF Batches, ShardOfBatch
<1>6. VectorStays(s)
  BY DEF VectorStays
<1>7. \A u \in Threads \ {t} :
        (AtClear(u, s)' <=> AtClear(u, s)) /\ (HasBatch(u, s)' <=> HasBatch(u, s))
  BY <1>2 DEF AtClear, HasBatch
<1>8. ~AtClear(t, s) /\ ~AtClear(t, s)' /\ ~HasBatch(t, s)'
  BY <1>2 DEF AtClear, HasBatch
<1>9. Batches(s) \subseteq Actions /\ Batches(s)' \subseteq Actions
  BY DEF Batches
<1>10. CASE HasBatch(t, s)
  <2>1. taken[t] # <<>> /\ ShardOf[taken[t][1]] = s
    <3>1. taken[t] # <<>> /\ cur[t] = s /\ \A r \in ToSet(taken[t]) : ShardOf[r] = cur[t]
      BY <1>10 DEF HasBatch, HandInv, HandPcs
    <3>2. taken[t][1] \in ToSet(taken[t])
      BY <3>1, Domains, FirstIsElement
    <3> QED
      BY <3>1, <3>2
  <2>2. a \in Batches(s)'
    BY <1>1, <1>3, <2>1 DEF Batches, ShardOfBatch
  <2>3. Batches(s)' = Batches(s) \union {a}
    BY <1>5, <1>9, <2>2
  <2>4. Holding(s)' = Holding(s) \ {t} /\ Clearing(s)' = Clearing(s) /\ t \in Holding(s)
    BY <1>7, <1>8, <1>10, HoldingIs
  <2>5. Written(s)' = Written(s)
    <3>1. a \notin Written(s) /\ a \notin Written(s)'
      BY <1>1, <1>4 DEF Written
    <3> QED
      BY <1>5, <3>1, <1>9 DEF Written
  <2>6. \A u \in Clearing(s) \union (Holding(s) \ {t}) : taken'[u] = taken[u]
    BY <1>2, <1>8, HoldingIs
  <2>7. \A b \in Batches(s) : payload'[b] = payload[b]
    BY <1>3, <1>4, <1>9
  <2> QED
    BY <1>1, <1>3, <1>4, <1>6, <2>3, <2>4, <2>5, <2>6, <2>7 DEF HandAt, StoreStays
<1>11. CASE ~HasBatch(t, s)
  <2>1. HandsStay(s)
    BY <1>2, <1>7, <1>8, <1>11, HandsFrame
  <2>2. a \notin Batches(s)'
    <3>1. CASE taken[t] = <<>>
      BY <1>3, <3>1 DEF Batches
    <3>2. CASE taken[t] # <<>>
      <4>1. cur[t] # s
        BY <1>11, <3>2 DEF HasBatch
      <4>2. taken[t][1] \in ToSet(taken[t])
        BY <3>2, Domains, FirstIsElement
      <4>3. ShardOf[taken[t][1]] # s
        BY <4>1, <4>2 DEF HandInv, HandPcs
      <4> QED
        BY <1>3, <4>3 DEF Batches, ShardOfBatch
    <3> QED
      BY <3>1, <3>2
  <2>3. Batches(s)' = Batches(s)
    BY <1>4, <1>5, <1>9, <2>2
  <2>4. \A b \in Batches(s) : payload'[b] = payload[b]
    BY <1>3, <1>4, <1>9
  <2>5. Written(s)' = Written(s)
    BY <2>3 DEF Written
  <2> QED
    BY <1>6, <2>1, <2>3, <2>4, <2>5 DEF Quiet, BatchesStay, StoreStays
<1> QED
  BY <1>10, <1>11

(* What a step of the client does to a shard that is not raced.            *)
LEMMA ShardStep ==
  ASSUME IndInv, HandInv, [Next]_vars, NEW s \in Shards, s \notin raced'
  PROVE  ShardMoves(s)
<1> USE ConstantFacts, Domains DEF IndInv
<1>1. ASSUME NEW t \in AppThreads, NEW r \in Records, StartPut(t, r) PROVE ShardMoves(s)
  <2>1. /\ pc[t] \notin HandPcs /\ pc'[t] \notin HandPcs
        /\ \A u \in Threads \ {t} : pc'[u] = pc[u] /\ cur'[u] = cur[u] /\ taken'[u] = taken[u]
    BY <1>1 DEF StartPut, HandPcs
  <2>2. UNCHANGED <<records, putLog, size, database, payload, writes, rejected>>
    BY <1>1 DEF StartPut
  <2> QED
    BY <2>1, <2>2, OthersStay, QuietStep
<1>2. ASSUME NEW t \in AppThreads, StartFlush(t) PROVE ShardMoves(s)
  <2>1. /\ pc[t] \notin HandPcs /\ pc'[t] \notin HandPcs
        /\ \A u \in Threads \ {t} : pc'[u] = pc[u] /\ cur'[u] = cur[u] /\ taken'[u] = taken[u]
    BY <1>2 DEF StartFlush, HandPcs
  <2>2. UNCHANGED <<records, putLog, size, database, payload, writes, rejected>>
    BY <1>2 DEF StartFlush
  <2> QED
    BY <2>1, <2>2, OthersStay, QuietStep
<1>3. ASSUME NEW t \in Threads, Apply(t) PROVE ShardMoves(s)
  <2>1. PICK r \in Records \ todo : taken[t] = <<r>> /\ ShardOf[r] = cur[t]
    BY <1>3 DEF Apply, PutInv, PutHand
  <2>2. r \notin ToSet(putLog[cur[t]]) /\ taken[t][1] = r
    BY <1>3, <2>1 DEF Apply, PutInv, PutHand
  <2>3. HandsStay(s)
    <3>1. /\ pc[t] \notin HandPcs /\ pc'[t] \notin HandPcs
          /\ \A u \in Threads \ {t} :
               pc'[u] = pc[u] /\ cur'[u] = cur[u] /\ taken'[u] = taken[u]
      BY <1>3 DEF Apply, HandPcs
    <3> QED
      BY <3>1, OthersStay
  <2>4. UNCHANGED <<database, payload, writes, rejected>>
    BY <1>3 DEF Apply
  <2>5. BatchesStay(s) /\ StoreStays(s)
    BY <2>4, BatchesFrame DEF StoreStays
  <2>6. CASE cur[t] = s
    <3>1. Clearing(s) = {}
      <4>1. ~Others(t, s, {"clear"})
        BY <1>3, <2>6 DEF Apply, TouchRecords
      <4> QED
        BY <1>3, <4>1 DEF Apply, Others, Clearing, AtClear
    <3>2. /\ records'[s] = Append(records[s], r) /\ putLog'[s] = Append(putLog[s], r)
          /\ size'[s] = size[s] + RecordSize[r]
      BY <1>3, <2>2, <2>6 DEF Apply, PushBack, AddSize, TypeOK
    <3> QED
      BY <2>1, <2>2, <2>3, <2>5, <2>6, <3>1, <3>2 DEF PutAt, ShardMoves
  <2>7. CASE cur[t] # s
    <3>1. VectorStays(s)
      BY <1>3, <2>7 DEF Apply, PushBack, AddSize, VectorStays, TypeOK
    <3> QED
      BY <2>3, <2>5, <3>1 DEF Quiet, ShardMoves
  <2> QED
    BY <2>6, <2>7
<1>4. ASSUME NEW t \in Threads, Check(t) PROVE ShardMoves(s)
  <2>1. /\ pc[t] \notin HandPcs /\ pc'[t] \notin HandPcs
        /\ \A u \in Threads \ {t} : pc'[u] = pc[u] /\ cur'[u] = cur[u] /\ taken'[u] = taken[u]
    BY <1>4, LeaveFacts, AfterPlaces DEF Check, BatchPcs, HandPcs
  <2>2. UNCHANGED <<records, putLog, size, database, payload, writes, rejected>>
    BY <1>4 DEF Check
  <2> QED
    BY <2>1, <2>2, OthersStay, QuietStep
<1>5. ASSUME NEW t \in Threads, Copy(t) PROVE ShardMoves(s)
  <2>1. /\ pc[t] = "copy" /\ pc'[t] = "clear" /\ taken'[t] = records[cur[t]]
        /\ cur'[t] = cur[t] /\ size' = [size EXCEPT ![cur[t]] = 0]
        /\ \A u \in Threads \ {t} : pc'[u] = pc[u] /\ cur'[u] = cur[u] /\ taken'[u] = taken[u]
    BY <1>5 DEF Copy, ResetSize
  <2>2. UNCHANGED <<records, putLog, database, payload, writes, rejected>>
    BY <1>5 DEF Copy
  <2>3. BatchesStay(s) /\ StoreStays(s)
    BY <2>2, BatchesFrame DEF StoreStays
  <2>4. \A u \in Threads : HasBatch(u, s)' <=> HasBatch(u, s)
    BY <2>1 DEF HasBatch
  <2>5. \A u \in Threads \ {t} : AtClear(u, s)' <=> AtClear(u, s)
    BY <2>1 DEF AtClear
  <2>6. CASE cur[t] = s
    <3>1. Clearing(s) = {}
      <4>1. ~Others(t, s, {"clear"})
        BY <1>5, <2>6 DEF Copy, TouchRecords
      <4> QED
        BY <2>1, <4>1 DEF Others, Clearing, AtClear
    <3>2. AtClear(t, s)'
      BY <2>1, <2>6 DEF AtClear
    <3>3. Clearing(s)' = {t}
      BY <2>5, <3>1, <3>2, HoldingIs
    <3>4. Holding(s)' = Holding(s) /\ \A u \in Holding(s) : taken'[u] = taken[u]
      <4>1. ~HasBatch(t, s)
        BY <2>1 DEF HasBatch
      <4>2. Holding(s)' = Holding(s)
        BY <2>4, HoldingStays
      <4>3. \A u \in Holding(s) : u # t /\ u \in Threads
        BY <4>1, HoldingIs
      <4> QED
        BY <2>1, <4>2, <4>3
    <3>5. size'[s] = 0
      BY <2>1, <2>6 DEF TypeOK
    <3> QED
      BY <2>1, <2>2, <2>3, <2>6, <3>1, <3>3, <3>4, <3>5 DEF CopyAt, ShardMoves
  <2>7. CASE cur[t] # s
    <3>1. VectorStays(s)
      BY <2>1, <2>2, <2>7 DEF VectorStays, TypeOK
    <3>2. ~AtClear(t, s) /\ ~AtClear(t, s)' /\ ~HasBatch(t, s)
      BY <2>1, <2>7 DEF AtClear, HasBatch
    <3>3. HandsStay(s)
      BY <2>1, <2>4, <2>5, <3>2, HandsFrame
    <3> QED
      BY <2>3, <3>1, <3>3 DEF Quiet, ShardMoves
  <2> QED
    BY <2>6, <2>7
<1>6. ASSUME NEW t \in Threads, Clear(t) PROVE ShardMoves(s)
  <2>1. /\ pc[t] = "clear" /\ pc'[t] # "clear" /\ UNCHANGED taken
        /\ \A u \in Threads \ {t} : pc'[u] = pc[u] /\ cur'[u] = cur[u]
        /\ taken[t] = <<>> \/ (pc'[t] \in {"deliver", "await"} /\ cur'[t] = cur[t])
    BY <1>6, LeaveFacts, AfterPlaces DEF Clear, BatchPcs
  <2>2. /\ UNCHANGED <<size, putLog, database, payload, writes, rejected>>
        /\ records' = [records EXCEPT ![cur[t]] = <<>>]
    BY <1>6 DEF Clear, EmptyRecords
  <2>3. BatchesStay(s) /\ StoreStays(s)
    BY <2>2, BatchesFrame DEF StoreStays
  <2>4. \A u \in Threads \ {t} :
          (AtClear(u, s)' <=> AtClear(u, s)) /\ (HasBatch(u, s)' <=> HasBatch(u, s))
    BY <2>1 DEF AtClear, HasBatch
  <2>5. ~AtClear(t, s)' /\ ~HasBatch(t, s)
    BY <2>1 DEF AtClear, HasBatch
  <2>6. CASE cur[t] = s
    <3>1. AtClear(t, s) /\ (HasBatch(t, s)' <=> taken[t] # <<>>)
      BY <2>1, <2>6 DEF AtClear, HasBatch
    <3>2. t \in Clearing(s) /\ Clearing(s)' = Clearing(s) \ {t}
      BY <2>4, <2>5, <3>1, HoldingIs
    <3>3. Holding(s)' = IF taken[t] = <<>> THEN Holding(s) ELSE Holding(s) \union {t}
      BY <2>4, <2>5, <3>1, HoldingGrows
    <3>4. records'[s] = <<>>
      BY <2>2, <2>6 DEF TypeOK
    <3> QED
      BY <2>1, <2>2, <2>3, <3>2, <3>3, <3>4 DEF ClearAt, ShardMoves
  <2>7. CASE cur[t] # s
    <3>1. VectorStays(s)
      BY <2>2, <2>7 DEF VectorStays, TypeOK
    <3>2. ~AtClear(t, s) /\ ~HasBatch(t, s)'
      BY <2>1, <2>7 DEF AtClear, HasBatch
    <3>3. HandsStay(s)
      BY <2>1, <2>4, <2>5, <3>2, HandsFrame
    <3> QED
      BY <2>3, <3>1, <3>3 DEF Quiet, ShardMoves
  <2> QED
    BY <2>6, <2>7
<1>7. ASSUME NEW t \in Threads, Await(t) PROVE ShardMoves(s)
  <2>1. \A u \in Threads : /\ AtClear(u, s)' <=> AtClear(u, s)
                           /\ HasBatch(u, s)' <=> HasBatch(u, s)
                           /\ AtClear(u, s) \/ HasBatch(u, s) => taken'[u] = taken[u]
    BY <1>7 DEF Await, AtClear, HasBatch
  <2>2. UNCHANGED <<records, putLog, size, database, payload, writes, rejected>>
    BY <1>7 DEF Await
  <2> QED
    BY <2>1, <2>2, HandsFrame, QuietStep
<1>8. ASSUME NEW t \in Threads, AcquirePermit(t) PROVE ShardMoves(s)
  <2>1. \A u \in Threads : /\ AtClear(u, s)' <=> AtClear(u, s)
                           /\ HasBatch(u, s)' <=> HasBatch(u, s)
                           /\ AtClear(u, s) \/ HasBatch(u, s) => taken'[u] = taken[u]
    BY <1>8 DEF AcquirePermit, AtClear, HasBatch
  <2>2. UNCHANGED <<records, putLog, size, database, payload, writes, rejected>>
    BY <1>8 DEF AcquirePermit, TakePermit, WP!Acquire, WP!delivererVars, WP!workerVars,
       WP!closerVars, WP!execVars
  <2> QED
    BY <2>1, <2>2, HandsFrame, QuietStep
<1>9. ASSUME NEW t \in Threads, Scan(t) PROVE ShardMoves(s)
  <2>1. UNCHANGED <<records, putLog, size, database, payload, writes, rejected, pc, cur, taken>>
    BY <1>9 DEF Scan, WP!LockWorker, WP!SkipLocked, WP!SkipBusy, WP!delivererVars,
       WP!workerVars, WP!closerVars, WP!execVars
  <2>2. HandsStay(s)
    BY <2>1, HandsFrame DEF AtClear, HasBatch
  <2> QED
    BY <2>1, <2>2, QuietStep
<1>10. ASSUME NEW t \in Threads, Give(t) PROVE ShardMoves(s)
  <2>1. /\ pc[t] = "deliver" /\ dpc[t] # "idle" /\ HandOver(t)
        /\ \A u \in Threads \ {t} : pc'[u] = pc[u] /\ cur'[u] = cur[u]
        /\ pc'[t] # "clear"
    BY <1>10 DEF Give, WP!GiveAction
  <2>2. UNCHANGED <<records, putLog, size, database, writes, rejected>>
    BY <1>10 DEF Give, WP!GiveAction, WP!delivererVars, WP!workerVars, WP!closerVars, WP!execVars
  <2> QED
    BY <2>1, <2>2, HandMoves DEF ShardMoves
<1>11. ASSUME NEW t \in Threads, Assign(t) PROVE ShardMoves(s)
  <2>1. /\ pc[t] \notin HandPcs /\ pc'[t] \notin HandPcs
        /\ \A u \in Threads \ {t} : pc'[u] = pc[u] /\ cur'[u] = cur[u] /\ taken'[u] = taken[u]
    BY <1>11, LeaveFacts, AfterPlaces DEF Assign, BatchPcs, HandPcs
  <2>2. UNCHANGED <<records, putLog, size, database, payload, writes, rejected>>
    BY <1>11 DEF Assign
  <2> QED
    BY <2>1, <2>2, OthersStay, QuietStep
<1>12. ASSUME NEW t \in Threads, Throw(t) PROVE ShardMoves(s)
  <2>1. /\ pc[t] = "deliver" /\ dpc[t] # "idle" /\ HandOver(t)
        /\ \A u \in Threads \ {t} : pc'[u] = pc[u] /\ cur'[u] = cur[u]
        /\ pc'[t] # "clear"
    BY <1>12 DEF Throw, WP!ThrowInner
  <2>2. UNCHANGED <<records, putLog, size, database, writes, rejected>>
    BY <1>12 DEF Throw, WP!ThrowInner, WP!delivererVars, WP!workerVars, WP!closerVars, WP!execVars
  <2> QED
    BY <2>1, <2>2, HandMoves DEF ShardMoves
<1>13. ASSUME NEW t \in Threads, ThrowUncaught(t) PROVE ShardMoves(s)
  <2>1. /\ pc[t] = "deliver" /\ dpc[t] # "idle" /\ HandOver(t)
        /\ \A u \in Threads \ {t} : pc'[u] = pc[u] /\ cur'[u] = cur[u]
        /\ pc'[t] # "clear"
    BY <1>13 DEF ThrowUncaught, WP!ThrowUncaught, WP!ThrowInner
  <2>2. UNCHANGED <<records, putLog, size, database, writes, rejected>>
    BY <1>13 DEF ThrowUncaught, WP!ThrowUncaught, WP!ThrowInner, WP!delivererVars,
       WP!workerVars, WP!closerVars, WP!execVars
  <2> QED
    BY <2>1, <2>2, HandMoves DEF ShardMoves
<1>14. ASSUME NEW t \in Threads, VisitNext(t) PROVE ShardMoves(s)
  <2>1. /\ pc[t] \notin HandPcs /\ pc'[t] \notin HandPcs
        /\ \A u \in Threads \ {t} : pc'[u] = pc[u] /\ cur'[u] = cur[u] /\ taken'[u] = taken[u]
    BY <1>14 DEF VisitNext, HandPcs
  <2>2. UNCHANGED <<records, putLog, size, database, payload, writes, rejected>>
    BY <1>14 DEF VisitNext
  <2> QED
    BY <2>1, <2>2, OthersStay, QuietStep
<1>15. ASSUME NEW t \in Threads, EndFlush(t) PROVE ShardMoves(s)
  <2>1. /\ pc[t] \notin HandPcs /\ pc'[t] \notin HandPcs
        /\ \A u \in Threads \ {t} : pc'[u] = pc[u] /\ cur'[u] = cur[u] /\ taken'[u] = taken[u]
    BY <1>15 DEF EndFlush, HandPcs
  <2>2. UNCHANGED <<records, putLog, size, database, payload, writes, rejected>>
    BY <1>15 DEF EndFlush
  <2> QED
    BY <2>1, <2>2, OthersStay, QuietStep
<1>16. CASE Construct
  <2>1. \A u \in Threads : /\ AtClear(u, s)' <=> AtClear(u, s)
                           /\ HasBatch(u, s)' <=> HasBatch(u, s)
                           /\ AtClear(u, s) \/ HasBatch(u, s) => taken'[u] = taken[u]
    <3>1. \A u \in Threads : pc'[u] = pc[u] \/ (pc[u] = "constructing" /\ pc'[u] = "idle")
      BY <1>16 DEF Construct, PlaceInv
    <3>2. UNCHANGED <<cur, taken>>
      BY <1>16 DEF Construct
    <3> QED
      BY <3>1, <3>2 DEF AtClear, HasBatch
  <2>2. UNCHANGED <<records, putLog, size, database, payload, writes, rejected>>
    BY <1>16 DEF Construct
  <2> QED
    BY <2>1, <2>2, HandsFrame, QuietStep
<1>17. CASE StartClose
  <2>1. /\ pc[Owner] \notin HandPcs /\ pc'[Owner] \notin HandPcs
        /\ \A u \in Threads \ {Owner} : pc'[u] = pc[u] /\ cur'[u] = cur[u] /\ taken'[u] = taken[u]
    BY <1>17 DEF StartClose, HandPcs
  <2>2. UNCHANGED <<records, putLog, size, database, payload, writes, rejected>>
    BY <1>17 DEF StartClose
  <2> QED
    BY <2>1, <2>2, OthersStay, QuietStep
<1>18. CASE Drain
  <2>1. /\ pc[Owner] \notin HandPcs /\ pc'[Owner] \notin HandPcs
        /\ \A u \in Threads \ {Owner} : pc'[u] = pc[u] /\ cur'[u] = cur[u] /\ taken'[u] = taken[u]
    BY <1>18 DEF Drain, HandPcs
  <2>2. UNCHANGED <<records, putLog, size, database, payload, writes, rejected>>
    BY <1>18 DEF Drain
  <2> QED
    BY <2>1, <2>2, OthersStay, QuietStep
<1>19. CASE Join
  <2>1. /\ pc[Owner] \notin HandPcs /\ pc'[Owner] \notin HandPcs
        /\ \A u \in Threads \ {Owner} : pc'[u] = pc[u] /\ cur'[u] = cur[u] /\ taken'[u] = taken[u]
    BY <1>19 DEF Join, HandPcs
  <2>2. UNCHANGED <<records, putLog, size, database, payload, writes, rejected>>
    BY <1>19 DEF Join
  <2> QED
    BY <2>1, <2>2, OthersStay, QuietStep
<1>20. CASE TestStatus
  <2>1. /\ pc[Watcher] \notin HandPcs /\ pc'[Watcher] \notin HandPcs
        /\ \A u \in Threads \ {Watcher} : pc'[u] = pc[u] /\ cur'[u] = cur[u] /\ taken'[u] = taken[u]
    BY <1>20 DEF TestStatus, HandPcs
  <2>2. UNCHANGED <<records, putLog, size, database, payload, writes, rejected>>
    BY <1>20 DEF TestStatus
  <2> QED
    BY <2>1, <2>2, OthersStay, QuietStep
<1>21. CASE Sweep
  <2>1. /\ pc[Watcher] \notin HandPcs /\ pc'[Watcher] \notin HandPcs
        /\ \A u \in Threads \ {Watcher} : pc'[u] = pc[u] /\ cur'[u] = cur[u] /\ taken'[u] = taken[u]
    BY <1>21 DEF Sweep, HandPcs
  <2>2. UNCHANGED <<records, putLog, size, database, payload, writes, rejected>>
    BY <1>21 DEF Sweep
  <2> QED
    BY <2>1, <2>2, OthersStay, QuietStep
<1>22. CASE TryLock
  <2>1. /\ pc[Watcher] \notin HandPcs /\ pc'[Watcher] \notin HandPcs
        /\ \A u \in Threads \ {Watcher} : pc'[u] = pc[u] /\ cur'[u] = cur[u] /\ taken'[u] = taken[u]
    BY <1>22 DEF TryLock, HandPcs
  <2>2. UNCHANGED <<records, putLog, size, database, payload, writes, rejected>>
    BY <1>22 DEF TryLock
  <2> QED
    BY <2>1, <2>2, OthersStay, QuietStep
<1>23. CASE TryPermit
  <2>1. /\ pc[Watcher] \notin HandPcs /\ pc'[Watcher] \notin HandPcs
        /\ \A u \in Threads \ {Watcher} : pc'[u] = pc[u] /\ cur'[u] = cur[u] /\ taken'[u] = taken[u]
    BY <1>23, LeaveFacts, AfterPlaces DEF TryPermit, BatchPcs, HandPcs
  <2>2. UNCHANGED <<records, putLog, size, database, payload, writes, rejected>>
    BY <1>23 DEF TryPermit, TakePermit, WP!Acquire, WP!delivererVars, WP!workerVars,
       WP!closerVars, WP!execVars
  <2> QED
    BY <2>1, <2>2, OthersStay, QuietStep
<1>24. ASSUME NEW w \in WP!Workers, Work(w) PROVE ShardMoves(s)
  <2>1. UNCHANGED <<records, putLog, size, pc, cur, taken, payload>>
    BY <1>24 DEF Work
  <2>2. HandsStay(s)
    BY <2>1, HandsFrame DEF AtClear, HasBatch
  <2>3. CASE wpc[w] = "looping" /\ status[w] = "BUSY"
    <3>1. WP!Write(action[w]) /\ Store(action[w])
      BY <1>24, <2>3 DEF Work, WP!Run, WP!TakeMutex, WP!ReleasePermit, WP!Wait, WP!ExecWrite,
         WP!ExecSetValue, WP!BecomeIdle, WP!Exit
    <3> QED
      BY <2>1, <2>3, <3>1, SlotFacts, StoreMoves DEF ShardMoves
  <2>4. CASE ~(wpc[w] = "looping" /\ status[w] = "BUSY")
    <3>1. UNCHANGED <<database, writes, rejected>>
      BY <1>24, <2>4 DEF Work, WP!Run, WP!TakeMutex, WP!ReleasePermit, WP!Wait, WP!ExecWrite,
         WP!ExecSetValue, WP!BecomeIdle, WP!Exit, WP!delivererVars, WP!workerVars,
         WP!closerVars, WP!execVars
    <3> QED
      BY <2>1, <2>2, <3>1, QuietStep
  <2> QED
    BY <2>3, <2>4
<1>25. CASE DestroyPool
  <2>1. UNCHANGED <<records, putLog, size, pc, cur, taken, payload>>
    BY <1>25 DEF DestroyPool
  <2>2. HandsStay(s)
    BY <2>1, HandsFrame DEF AtClear, HasBatch
  <2>3. CASE cpc = "closing" /\ status[cidx] = "BUSY"
    <3>1. WP!Write(action[cidx]) /\ Store(action[cidx]) /\ cidx \notin locked
      BY <1>25, <2>3 DEF DestroyPool, WP!Close, WP!CloseWorker, WP!CloseJoin, WP!ExecLeftover
    <3>2. cidx \in WP!Workers
      BY <2>3, SameWorkers DEF Pool!IndInv, Pool!CloseInv
    <3>3. wpc[cidx] \notin {"written", "settled"}
      BY <3>1, <3>2, SameWorkers DEF Pool!IndInv, Pool!MutualExclusion, Pool!ThreadOwns
    <3> QED
      BY <2>1, <2>3, <3>1, <3>2, <3>3, SlotFacts, StoreMoves DEF ShardMoves
  <2>4. CASE ~(cpc = "closing" /\ status[cidx] = "BUSY")
    <3>1. UNCHANGED <<database, writes, rejected>>
      BY <1>25, <2>4 DEF DestroyPool, WP!Close, WP!CloseWorker, WP!CloseJoin, WP!ExecLeftover,
         WP!delivererVars, WP!workerVars, WP!closerVars, WP!execVars
    <3> QED
      BY <2>1, <2>2, <3>1, QuietStep
  <2> QED
    BY <2>3, <2>4
<1>26. ASSUME NEW w \in WP!Workers, SpuriousWakeup(w) PROVE ShardMoves(s)
  <2>1. UNCHANGED <<records, putLog, size, database, payload, writes, rejected, pc, cur, taken>>
    BY <1>26 DEF SpuriousWakeup, WP!SpuriousWakeup, WP!delivererVars, WP!workerVars,
       WP!closerVars, WP!execVars
  <2>2. HandsStay(s)
    BY <2>1, HandsFrame DEF AtClear, HasBatch
  <2> QED
    BY <2>1, <2>2, QuietStep
<1>27. ASSUME NEW c \in Shards, Age(c) PROVE ShardMoves(s)
  <2>1. UNCHANGED <<records, putLog, size, database, payload, writes, rejected, pc, cur, taken>>
    BY <1>27 DEF Age
  <2>2. HandsStay(s)
    BY <2>1, HandsFrame DEF AtClear, HasBatch
  <2> QED
    BY <2>1, <2>2, QuietStep
<1>28. CASE WriteThrows
  <2>1. UNCHANGED <<records, putLog, size, database, payload, writes, rejected, pc, cur, taken>>
    BY <1>28 DEF WriteThrows, WP!WriteThrows, WP!delivererVars, WP!workerVars, WP!closerVars,
       WP!execVars
  <2>2. HandsStay(s)
    BY <2>1, HandsFrame DEF AtClear, HasBatch
  <2> QED
    BY <2>1, <2>2, QuietStep
<1>29. CASE Crash
  <2>1. UNCHANGED <<records, putLog, size, database, payload, writes, rejected, pc, cur, taken>>
    BY <1>29 DEF Crash
  <2>2. HandsStay(s)
    BY <2>1, HandsFrame DEF AtClear, HasBatch
  <2> QED
    BY <2>1, <2>2, QuietStep
<1>30. CASE UNCHANGED vars
  <2>1. UNCHANGED <<records, putLog, size, database, payload, writes, rejected, pc, cur, taken>>
    BY <1>30 DEF vars
  <2>2. HandsStay(s)
    BY <2>1, HandsFrame DEF AtClear, HasBatch
  <2> QED
    BY <2>1, <2>2, QuietStep
<1> QED
  BY <1>1, <1>2, <1>3, <1>4, <1>5, <1>6, <1>7, <1>8, <1>9, <1>10, <1>11, <1>12, <1>13, <1>14,
     <1>15, <1>16, <1>17, <1>18, <1>19, <1>20, <1>21, <1>22, <1>23, <1>24, <1>25, <1>26, <1>27,
     <1>28, <1>29, <1>30, StepCases

-----------------------------------------------------------------------------
(* Whose records are in hand.                                              *)

(* Nobody comes to have records, and no action is handed over.             *)
LEMMA HandFrame ==
  ASSUME HandInv, UNCHANGED <<records, payload, rejected, writes>>,
         \A a \in Actions : fate'[a] = fate[a] \/ fate[a] = "fresh",
         \A u \in Threads : pc'[u] \in HandPcs =>
           pc[u] \in HandPcs /\ cur'[u] = cur[u] /\ taken'[u] = taken[u]
  PROVE  HandInv'
BY DEF HandInv, ShardOfBatch

(* Whose records are in hand.                                              *)
LEMMA HandStep ==
  ASSUME IndInv, HandInv, [Next]_vars
  PROVE  HandInv'
<1> USE ConstantFacts, Domains DEF IndInv
<1>d. /\ fate \in [Actions -> {"fresh", "carried", "accepted", "dropped"}]
      /\ writes \in [Actions -> Nat] /\ rejected \subseteq Actions
  BY DEF Pool!IndInv, Pool!TypeOK
<1>1. ASSUME NEW t \in AppThreads, NEW r \in Records, StartPut(t, r) PROVE HandInv'
  <2>1. \A u \in Threads : pc'[u] \in HandPcs =>
          pc[u] \in HandPcs /\ cur'[u] = cur[u] /\ taken'[u] = taken[u]
    BY <1>1 DEF StartPut, HandPcs
  <2>2. UNCHANGED <<records, payload, rejected, writes, fate>>
    BY <1>1 DEF StartPut
  <2> QED
    BY <2>1, <2>2, HandFrame
<1>2. ASSUME NEW t \in AppThreads, StartFlush(t) PROVE HandInv'
  <2>1. \A u \in Threads : pc'[u] \in HandPcs =>
          pc[u] \in HandPcs /\ cur'[u] = cur[u] /\ taken'[u] = taken[u]
    BY <1>2 DEF StartFlush, HandPcs
  <2>2. UNCHANGED <<records, payload, rejected, writes, fate>>
    BY <1>2 DEF StartFlush
  <2> QED
    BY <2>1, <2>2, HandFrame
<1>3. ASSUME NEW t \in Threads, Apply(t) PROVE HandInv'
  <2>1. PICK r \in Records \ todo : taken[t] = <<r>> /\ ShardOf[r] = cur[t]
    BY <1>3 DEF Apply, PutInv, PutHand
  <2>2. records' = [records EXCEPT ![cur[t]] = Append(@, r)]
    BY <1>3, <2>1 DEF Apply, PushBack
  <2>3. \A s \in Shards : \A e \in ToSet(records'[s]) : ShardOf[e] = s
    <3>1. TAKE s \in Shards
    <3>2. CASE s = cur[t]
      <4>0. records'[s] = Append(records[s], r) /\ records[s] \in Seq(Records) /\ r \in Records
        BY <2>2, <3>2 DEF TypeOK
      <4>1. ToSet(records'[s]) = ToSet(records[s]) \union {r}
        BY <4>0, AppendSet
      <4> QED
        BY <2>1, <3>2, <4>1 DEF HandInv
    <3>3. CASE s # cur[t]
      <4>1. records'[s] = records[s]
        BY <2>2, <3>3 DEF TypeOK
      <4> QED
        BY <4>1 DEF HandInv
    <3> QED
      BY <3>2, <3>3
  <2>4. \A u \in Threads : pc'[u] \in HandPcs =>
          pc[u] \in HandPcs /\ cur'[u] = cur[u] /\ taken'[u] = taken[u]
    BY <1>3 DEF Apply, HandPcs
  <2>5. UNCHANGED <<payload, rejected, writes, fate>>
    BY <1>3 DEF Apply
  <2> QED
    BY <2>3, <2>4, <2>5 DEF HandInv, ShardOfBatch
<1>4. ASSUME NEW t \in Threads, Check(t) PROVE HandInv'
  <2>1. \A u \in Threads : pc'[u] \in HandPcs =>
          pc[u] \in HandPcs /\ cur'[u] = cur[u] /\ taken'[u] = taken[u]
    BY <1>4, LeaveFacts, AfterPlaces DEF Check, BatchPcs, HandPcs
  <2>2. UNCHANGED <<records, payload, rejected, writes, fate>>
    BY <1>4 DEF Check
  <2> QED
    BY <2>1, <2>2, HandFrame
<1>5. ASSUME NEW t \in Threads, Copy(t) PROVE HandInv'
  <2>1. \A u \in Threads : pc'[u] \in HandPcs =>
          \/ pc[u] \in HandPcs /\ cur'[u] = cur[u] /\ taken'[u] = taken[u]
          \/ u = t /\ cur'[t] = cur[t] /\ taken'[t] = records[cur[t]]
    BY <1>5 DEF Copy, HandPcs
  <2>2. \A r \in ToSet(records[cur[t]]) : ShardOf[r] = cur[t]
    BY DEF HandInv
  <2>3. UNCHANGED <<records, payload, rejected, writes, fate>>
    BY <1>5 DEF Copy
  <2> QED
    BY <2>1, <2>2, <2>3 DEF HandInv, ShardOfBatch
<1>6. ASSUME NEW t \in Threads, Clear(t) PROVE HandInv'
  <2>1. \A u \in Threads : pc'[u] \in HandPcs =>
          pc[u] \in HandPcs /\ cur'[u] = cur[u] /\ taken'[u] = taken[u]
    <3>0. pc[t] \in HandPcs /\ UNCHANGED taken
      BY <1>6 DEF Clear, HandPcs
    <3>1. CASE Leave(t)
      <4>1. pc'[t] \notin HandPcs
        BY <1>6, <3>1, LeaveFacts, AfterPlaces DEF Clear, HandPcs, BatchPcs
      <4> QED
        BY <3>0, <3>1, <4>1, LeaveFacts
    <3>2. CASE ~Leave(t)
      <4>1. /\ UNCHANGED cur
            /\ \A u \in Threads \ {t} : pc'[u] = pc[u]
        BY <1>6, <3>2, Domains DEF Clear
      <4> QED
        BY <3>0, <4>1
    <3> QED
      BY <3>1, <3>2
  <2>2. \A s \in Shards : records'[s] = records[s] \/ records'[s] = <<>>
    BY <1>6 DEF Clear, EmptyRecords, TypeOK
  <2>3. \A s \in Shards : \A r \in ToSet(records'[s]) : ShardOf[r] = s
    <3>1. ToSet(<<>>) = {}
      BY DEF ToSet
    <3> QED
      BY <2>2, <3>1 DEF HandInv
  <2>4. UNCHANGED <<payload, rejected, writes, fate>>
    BY <1>6 DEF Clear
  <2> QED
    BY <2>1, <2>3, <2>4 DEF HandInv, ShardOfBatch
<1>7. ASSUME NEW t \in Threads, Await(t) PROVE HandInv'
  <2>1. \A u \in Threads : pc'[u] \in HandPcs =>
          pc[u] \in HandPcs /\ cur'[u] = cur[u] /\ taken'[u] = taken[u]
    BY <1>7 DEF Await, HandPcs
  <2>2. UNCHANGED <<records, payload, rejected, writes, fate>>
    BY <1>7 DEF Await
  <2> QED
    BY <2>1, <2>2, HandFrame
<1>8. ASSUME NEW t \in Threads, AcquirePermit(t) PROVE HandInv'
  <2>1. \A u \in Threads : pc'[u] \in HandPcs =>
          pc[u] \in HandPcs /\ cur'[u] = cur[u] /\ taken'[u] = taken[u]
    BY <1>8 DEF AcquirePermit, HandPcs, BatchPcs
  <2>2. UNCHANGED <<records, payload, rejected, writes>>
    BY <1>8 DEF AcquirePermit, TakePermit, WP!Acquire, WP!delivererVars, WP!workerVars,
       WP!closerVars, WP!execVars
  <2>3. \A a \in Actions : fate'[a] = fate[a] \/ fate[a] = "fresh"
    BY <1>8, <1>d DEF AcquirePermit, TakePermit, WP!Acquire
  <2> QED
    BY <2>1, <2>2, <2>3, HandFrame DEF HandInv, ShardOfBatch
<1>9. ASSUME NEW t \in Threads, Scan(t) PROVE HandInv'
  <2>1. \A u \in Threads : pc'[u] \in HandPcs =>
          pc[u] \in HandPcs /\ cur'[u] = cur[u] /\ taken'[u] = taken[u]
    BY <1>9 DEF Scan, HandPcs
  <2>2. UNCHANGED <<records, payload, rejected, writes, fate>>
    BY <1>9 DEF Scan, WP!LockWorker, WP!SkipLocked, WP!SkipBusy, WP!delivererVars,
       WP!workerVars, WP!closerVars, WP!execVars
  <2> QED
    BY <2>1, <2>2, HandFrame
<1>10. ASSUME NEW t \in Threads, Give(t) PROVE HandInv'
  <2>1. /\ pc[t] = "deliver" /\ dpc[t] # "idle" /\ HandOver(t)
        /\ \A u \in Threads \ {t} : pc'[u] = pc[u] /\ cur'[u] = cur[u]
        /\ fate' = [fate EXCEPT ![carry[t]] = "accepted"]
    BY <1>10 DEF Give, WP!GiveAction
  <2>2. UNCHANGED <<records, writes, rejected>>
    BY <1>10 DEF Give, WP!GiveAction, WP!delivererVars, WP!workerVars, WP!closerVars, WP!execVars
  <2>3. taken'[t] = <<>> /\ \A u \in Threads \ {t} : taken'[u] = taken[u]
    BY <2>1 DEF HandOver
  <2>4. \A u \in Threads : pc'[u] \in HandPcs => \A r \in ToSet(taken'[u]) : ShardOf[r] = cur'[u]
    <3>1. \A u \in Threads \ {t} :
            pc'[u] \in HandPcs => \A r \in ToSet(taken'[u]) : ShardOf[r] = cur'[u]
      BY <2>1, <2>3 DEF HandInv
    <3>2. ToSet(taken'[t]) = {}
      BY <2>3 DEF ToSet
    <3> QED
      BY <3>1, <3>2
  <2>5. \A a \in Actions : payload'[a] # <<>> => fate'[a] \in {"accepted", "dropped"}
    <3>1. carry[t] \in Actions /\ fate'[carry[t]] = "accepted"
      BY <2>1, FreshCarry, <1>d
    <3>2. \A a \in Actions \ {carry[t]} : payload'[a] = payload[a] /\ fate'[a] = fate[a]
      BY <2>1, <1>d DEF HandOver, TypeOK
    <3> QED
      BY <3>1, <3>2 DEF HandInv
  <2>6. \A a \in Actions : \A r \in ToSet(payload'[a]) : ShardOf[r] = ShardOfBatch(a)'
    <3>1. carry[t] \in Actions /\ payload'[carry[t]] = taken[t]
      BY <2>1, FreshCarry DEF HandOver, TypeOK
    <3>2. \A a \in Actions \ {carry[t]} : payload'[a] = payload[a]
      BY <2>1 DEF HandOver, TypeOK
    <3>3. ASSUME NEW r \in ToSet(taken[t]) PROVE ShardOf[r] = ShardOf[taken[t][1]]
      <4>1. taken[t] \in Seq(Records) /\ taken[t] # <<>>
        BY <3>3, EmptySet
      <4>2. taken[t][1] \in ToSet(taken[t])
        BY <4>1, FirstIsElement
      <4> QED
        BY <2>1, <3>3, <4>2 DEF HandInv, HandPcs
    <3>4. \A r \in ToSet(payload'[carry[t]]) : ShardOf[r] = ShardOf[payload'[carry[t]][1]]
      BY <3>1, <3>3
    <3>5. ASSUME NEW a \in Actions, a # carry[t]
          PROVE  \A r \in ToSet(payload'[a]) : ShardOf[r] = ShardOf[payload'[a][1]]
      <4>1. payload'[a] = payload[a]
        BY <3>2, <3>5
      <4> QED
        BY <4>1 DEF HandInv, ShardOfBatch
    <3> QED
      BY <3>4, <3>5 DEF ShardOfBatch
  <2> QED
    BY <2>2, <2>4, <2>5, <2>6 DEF HandInv, ShardOfBatch
<1>11. ASSUME NEW t \in Threads, Assign(t) PROVE HandInv'
  <2>1. \A u \in Threads : pc'[u] \in HandPcs =>
          pc[u] \in HandPcs /\ cur'[u] = cur[u] /\ taken'[u] = taken[u]
    BY <1>11, LeaveFacts, AfterPlaces DEF Assign, BatchPcs, HandPcs
  <2>2. UNCHANGED <<records, payload, rejected, writes, fate>>
    BY <1>11 DEF Assign
  <2> QED
    BY <2>1, <2>2, HandFrame
<1>12. ASSUME NEW t \in Threads, Throw(t) PROVE HandInv'
  <2>1. /\ pc[t] = "deliver" /\ dpc[t] # "idle" /\ HandOver(t)
        /\ \A u \in Threads \ {t} : pc'[u] = pc[u] /\ cur'[u] = cur[u]
        /\ fate' = [fate EXCEPT ![carry[t]] = "dropped"]
    BY <1>12 DEF Throw, WP!ThrowInner
  <2>2. UNCHANGED <<records, writes, rejected>>
    BY <1>12 DEF Throw, WP!ThrowInner, WP!delivererVars, WP!workerVars, WP!closerVars, WP!execVars
  <2>3. taken'[t] = <<>> /\ \A u \in Threads \ {t} : taken'[u] = taken[u]
    BY <2>1 DEF HandOver
  <2>4. \A u \in Threads : pc'[u] \in HandPcs => \A r \in ToSet(taken'[u]) : ShardOf[r] = cur'[u]
    <3>1. \A u \in Threads \ {t} :
            pc'[u] \in HandPcs => \A r \in ToSet(taken'[u]) : ShardOf[r] = cur'[u]
      BY <2>1, <2>3 DEF HandInv
    <3>2. ToSet(taken'[t]) = {}
      BY <2>3 DEF ToSet
    <3> QED
      BY <3>1, <3>2
  <2>5. \A a \in Actions : payload'[a] # <<>> => fate'[a] \in {"accepted", "dropped"}
    <3>1. carry[t] \in Actions /\ fate'[carry[t]] = "dropped"
      BY <2>1, FreshCarry, <1>d
    <3>2. \A a \in Actions \ {carry[t]} : payload'[a] = payload[a] /\ fate'[a] = fate[a]
      BY <2>1, <1>d DEF HandOver, TypeOK
    <3> QED
      BY <3>1, <3>2 DEF HandInv
  <2>6. \A a \in Actions : \A r \in ToSet(payload'[a]) : ShardOf[r] = ShardOfBatch(a)'
    <3>1. carry[t] \in Actions /\ payload'[carry[t]] = taken[t]
      BY <2>1, FreshCarry DEF HandOver, TypeOK
    <3>2. \A a \in Actions \ {carry[t]} : payload'[a] = payload[a]
      BY <2>1 DEF HandOver, TypeOK
    <3>3. ASSUME NEW r \in ToSet(taken[t]) PROVE ShardOf[r] = ShardOf[taken[t][1]]
      <4>1. taken[t] \in Seq(Records) /\ taken[t] # <<>>
        BY <3>3, EmptySet
      <4>2. taken[t][1] \in ToSet(taken[t])
        BY <4>1, FirstIsElement
      <4> QED
        BY <2>1, <3>3, <4>2 DEF HandInv, HandPcs
    <3>4. \A r \in ToSet(payload'[carry[t]]) : ShardOf[r] = ShardOf[payload'[carry[t]][1]]
      BY <3>1, <3>3
    <3>5. ASSUME NEW a \in Actions, a # carry[t]
          PROVE  \A r \in ToSet(payload'[a]) : ShardOf[r] = ShardOf[payload'[a][1]]
      <4>1. payload'[a] = payload[a]
        BY <3>2, <3>5
      <4> QED
        BY <4>1 DEF HandInv, ShardOfBatch
    <3> QED
      BY <3>4, <3>5 DEF ShardOfBatch
  <2> QED
    BY <2>2, <2>4, <2>5, <2>6 DEF HandInv, ShardOfBatch
<1>13. ASSUME NEW t \in Threads, ThrowUncaught(t) PROVE HandInv'
  <2>1. /\ pc[t] = "deliver" /\ dpc[t] # "idle" /\ HandOver(t)
        /\ \A u \in Threads \ {t} : pc'[u] = pc[u] /\ cur'[u] = cur[u]
        /\ fate' = [fate EXCEPT ![carry[t]] = "dropped"]
    BY <1>13 DEF ThrowUncaught, WP!ThrowUncaught, WP!ThrowInner
  <2>2. UNCHANGED <<records, writes, rejected>>
    BY <1>13 DEF ThrowUncaught, WP!ThrowUncaught, WP!ThrowInner, WP!delivererVars,
       WP!workerVars, WP!closerVars, WP!execVars
  <2>3. taken'[t] = <<>> /\ \A u \in Threads \ {t} : taken'[u] = taken[u]
    BY <2>1 DEF HandOver
  <2>4. \A u \in Threads : pc'[u] \in HandPcs => \A r \in ToSet(taken'[u]) : ShardOf[r] = cur'[u]
    <3>1. \A u \in Threads \ {t} :
            pc'[u] \in HandPcs => \A r \in ToSet(taken'[u]) : ShardOf[r] = cur'[u]
      BY <2>1, <2>3 DEF HandInv
    <3>2. ToSet(taken'[t]) = {}
      BY <2>3 DEF ToSet
    <3> QED
      BY <3>1, <3>2
  <2>5. \A a \in Actions : payload'[a] # <<>> => fate'[a] \in {"accepted", "dropped"}
    <3>1. carry[t] \in Actions /\ fate'[carry[t]] = "dropped"
      BY <2>1, FreshCarry, <1>d
    <3>2. \A a \in Actions \ {carry[t]} : payload'[a] = payload[a] /\ fate'[a] = fate[a]
      BY <2>1, <1>d DEF HandOver, TypeOK
    <3> QED
      BY <3>1, <3>2 DEF HandInv
  <2>6. \A a \in Actions : \A r \in ToSet(payload'[a]) : ShardOf[r] = ShardOfBatch(a)'
    <3>1. carry[t] \in Actions /\ payload'[carry[t]] = taken[t]
      BY <2>1, FreshCarry DEF HandOver, TypeOK
    <3>2. \A a \in Actions \ {carry[t]} : payload'[a] = payload[a]
      BY <2>1 DEF HandOver, TypeOK
    <3>3. ASSUME NEW r \in ToSet(taken[t]) PROVE ShardOf[r] = ShardOf[taken[t][1]]
      <4>1. taken[t] \in Seq(Records) /\ taken[t] # <<>>
        BY <3>3, EmptySet
      <4>2. taken[t][1] \in ToSet(taken[t])
        BY <4>1, FirstIsElement
      <4> QED
        BY <2>1, <3>3, <4>2 DEF HandInv, HandPcs
    <3>4. \A r \in ToSet(payload'[carry[t]]) : ShardOf[r] = ShardOf[payload'[carry[t]][1]]
      BY <3>1, <3>3
    <3>5. ASSUME NEW a \in Actions, a # carry[t]
          PROVE  \A r \in ToSet(payload'[a]) : ShardOf[r] = ShardOf[payload'[a][1]]
      <4>1. payload'[a] = payload[a]
        BY <3>2, <3>5
      <4> QED
        BY <4>1 DEF HandInv, ShardOfBatch
    <3> QED
      BY <3>4, <3>5 DEF ShardOfBatch
  <2> QED
    BY <2>2, <2>4, <2>5, <2>6 DEF HandInv, ShardOfBatch
<1>14. ASSUME NEW t \in Threads, VisitNext(t) PROVE HandInv'
  <2>1. \A u \in Threads : pc'[u] \in HandPcs =>
          pc[u] \in HandPcs /\ cur'[u] = cur[u] /\ taken'[u] = taken[u]
    BY <1>14 DEF VisitNext, HandPcs
  <2>2. UNCHANGED <<records, payload, rejected, writes, fate>>
    BY <1>14 DEF VisitNext
  <2> QED
    BY <2>1, <2>2, HandFrame
<1>15. ASSUME NEW t \in Threads, EndFlush(t) PROVE HandInv'
  <2>1. \A u \in Threads : pc'[u] \in HandPcs =>
          pc[u] \in HandPcs /\ cur'[u] = cur[u] /\ taken'[u] = taken[u]
    BY <1>15 DEF EndFlush, HandPcs
  <2>2. UNCHANGED <<records, payload, rejected, writes, fate>>
    BY <1>15 DEF EndFlush
  <2> QED
    BY <2>1, <2>2, HandFrame
<1>16. CASE Construct
  <2>1. \A u \in Threads : pc'[u] \in HandPcs =>
          pc[u] \in HandPcs /\ cur'[u] = cur[u] /\ taken'[u] = taken[u]
    BY <1>16 DEF Construct, PlaceInv, HandPcs
  <2>2. UNCHANGED <<records, payload, rejected, writes, fate>>
    BY <1>16 DEF Construct
  <2> QED
    BY <2>1, <2>2, HandFrame
<1>17. CASE StartClose
  <2>1. \A u \in Threads : pc'[u] \in HandPcs =>
          pc[u] \in HandPcs /\ cur'[u] = cur[u] /\ taken'[u] = taken[u]
    BY <1>17 DEF StartClose, HandPcs
  <2>2. UNCHANGED <<records, payload, rejected, writes, fate>>
    BY <1>17 DEF StartClose
  <2> QED
    BY <2>1, <2>2, HandFrame
<1>18. CASE Drain
  <2>1. \A u \in Threads : pc'[u] \in HandPcs =>
          pc[u] \in HandPcs /\ cur'[u] = cur[u] /\ taken'[u] = taken[u]
    BY <1>18 DEF Drain, HandPcs
  <2>2. UNCHANGED <<records, payload, rejected, writes, fate>>
    BY <1>18 DEF Drain
  <2> QED
    BY <2>1, <2>2, HandFrame
<1>19. CASE Join
  <2>1. \A u \in Threads : pc'[u] \in HandPcs =>
          pc[u] \in HandPcs /\ cur'[u] = cur[u] /\ taken'[u] = taken[u]
    BY <1>19 DEF Join, HandPcs
  <2>2. UNCHANGED <<records, payload, rejected, writes, fate>>
    BY <1>19 DEF Join
  <2> QED
    BY <2>1, <2>2, HandFrame
<1>20. CASE TestStatus
  <2>1. \A u \in Threads : pc'[u] \in HandPcs =>
          pc[u] \in HandPcs /\ cur'[u] = cur[u] /\ taken'[u] = taken[u]
    BY <1>20 DEF TestStatus, HandPcs
  <2>2. UNCHANGED <<records, payload, rejected, writes, fate>>
    BY <1>20 DEF TestStatus
  <2> QED
    BY <2>1, <2>2, HandFrame
<1>21. CASE Sweep
  <2>1. \A u \in Threads : pc'[u] \in HandPcs =>
          pc[u] \in HandPcs /\ cur'[u] = cur[u] /\ taken'[u] = taken[u]
    BY <1>21 DEF Sweep, HandPcs
  <2>2. UNCHANGED <<records, payload, rejected, writes, fate>>
    BY <1>21 DEF Sweep
  <2> QED
    BY <2>1, <2>2, HandFrame
<1>22. CASE TryLock
  <2>1. \A u \in Threads : pc'[u] \in HandPcs =>
          pc[u] \in HandPcs /\ cur'[u] = cur[u] /\ taken'[u] = taken[u]
    BY <1>22 DEF TryLock, HandPcs
  <2>2. UNCHANGED <<records, payload, rejected, writes, fate>>
    BY <1>22 DEF TryLock
  <2> QED
    BY <2>1, <2>2, HandFrame
<1>23. CASE TryPermit
  <2>1. \A u \in Threads : pc'[u] \in HandPcs =>
          pc[u] \in HandPcs /\ cur'[u] = cur[u] /\ taken'[u] = taken[u]
    BY <1>23, LeaveFacts, AfterPlaces DEF TryPermit, HandPcs, BatchPcs
  <2>2. UNCHANGED <<records, payload, rejected, writes>>
    BY <1>23 DEF TryPermit, TakePermit, WP!Acquire, WP!delivererVars, WP!workerVars,
       WP!closerVars, WP!execVars
  <2>3. \A a \in Actions : fate'[a] = fate[a] \/ fate[a] = "fresh"
    BY <1>23, <1>d DEF TryPermit, TakePermit, WP!Acquire
  <2> QED
    BY <2>1, <2>2, <2>3, HandFrame DEF HandInv, ShardOfBatch
<1>24. ASSUME NEW w \in WP!Workers, Work(w) PROVE HandInv'
  <2>1. UNCHANGED <<records, pc, cur, taken, payload>>
    BY <1>24 DEF Work
  <2>2. UNCHANGED fate
    BY <1>24 DEF Work, WP!Run, WP!TakeMutex, WP!ReleasePermit, WP!Wait, WP!ExecWrite,
       WP!ExecSetValue, WP!BecomeIdle, WP!Exit, WP!delivererVars, WP!workerVars, WP!closerVars,
       WP!execVars
  <2>3. CASE wpc[w] = "looping" /\ status[w] = "BUSY"
    <3>1. WP!Write(action[w])
      BY <1>24, <2>3 DEF Work, WP!Run, WP!TakeMutex, WP!ReleasePermit, WP!Wait, WP!ExecWrite,
         WP!ExecSetValue, WP!BecomeIdle, WP!Exit
    <3>3. w \in WP!Workers
      BY <1>24
    <3>4. wpc[w] \notin {"written", "settled"}
      BY <2>3
    <3>2. writes[action[w]] = 0 /\ action[w] \in Actions
      BY <1>24, <2>3, <3>3, <3>4, SlotFacts
    <3>5. writes'[action[w]] = 1 /\ \A a \in Actions \ {action[w]} : writes'[a] = writes[a]
      BY <3>1, <3>2, <1>d DEF WP!Write
    <3>6. rejected' \subseteq rejected \union {action[w]} /\ rejected \subseteq Actions
      BY <3>1, <1>d DEF WP!Write
    <3>7. \A a \in rejected' : writes'[a] = 1
      BY <3>2, <3>5, <3>6 DEF HandInv
    <3> QED
      BY <2>1, <2>2, <3>7 DEF HandInv, ShardOfBatch
  <2>4. CASE ~(wpc[w] = "looping" /\ status[w] = "BUSY")
    <3>1. UNCHANGED <<writes, rejected>>
      BY <1>24, <2>4 DEF Work, WP!Run, WP!TakeMutex, WP!ReleasePermit, WP!Wait, WP!ExecWrite,
         WP!ExecSetValue, WP!BecomeIdle, WP!Exit, WP!delivererVars, WP!workerVars,
         WP!closerVars, WP!execVars
    <3> QED
      BY <2>1, <2>2, <3>1 DEF HandInv, ShardOfBatch
  <2> QED
    BY <2>3, <2>4
<1>25. CASE DestroyPool
  <2>1. UNCHANGED <<records, pc, cur, taken, payload>>
    BY <1>25 DEF DestroyPool
  <2>2. UNCHANGED fate
    BY <1>25 DEF DestroyPool, WP!Close, WP!CloseWorker, WP!CloseJoin, WP!delivererVars,
       WP!workerVars, WP!closerVars, WP!execVars
  <2>3. CASE cpc = "closing" /\ status[cidx] = "BUSY"
    <3>1. WP!Write(action[cidx]) /\ cidx \notin locked
      BY <1>25, <2>3 DEF DestroyPool, WP!Close, WP!CloseWorker, WP!CloseJoin, WP!ExecLeftover
    <3>3. cidx \in WP!Workers
      BY <2>3, SameWorkers DEF Pool!IndInv, Pool!CloseInv
    <3>4. wpc[cidx] \notin {"written", "settled"}
      BY <3>1, <3>3, SameWorkers DEF Pool!IndInv, Pool!MutualExclusion, Pool!ThreadOwns
    <3>2. writes[action[cidx]] = 0 /\ action[cidx] \in Actions
      BY <1>25, <2>3, <3>3, <3>4, SlotFacts
    <3>5. writes'[action[cidx]] = 1 /\ \A a \in Actions \ {action[cidx]} : writes'[a] = writes[a]
      BY <3>1, <3>2, <1>d DEF WP!Write
    <3>6. rejected' \subseteq rejected \union {action[cidx]} /\ rejected \subseteq Actions
      BY <3>1, <1>d DEF WP!Write
    <3>7. \A a \in rejected' : writes'[a] = 1
      BY <3>2, <3>5, <3>6 DEF HandInv
    <3> QED
      BY <2>1, <2>2, <3>7 DEF HandInv, ShardOfBatch
  <2>4. CASE ~(cpc = "closing" /\ status[cidx] = "BUSY")
    <3>1. UNCHANGED <<writes, rejected>>
      BY <1>25, <2>4 DEF DestroyPool, WP!Close, WP!CloseWorker, WP!CloseJoin, WP!ExecLeftover,
         WP!delivererVars, WP!workerVars, WP!closerVars, WP!execVars
    <3> QED
      BY <2>1, <2>2, <3>1 DEF HandInv, ShardOfBatch
  <2> QED
    BY <2>3, <2>4
<1>26. ASSUME NEW w \in WP!Workers, SpuriousWakeup(w) PROVE HandInv'
  <2>1. \A u \in Threads : pc'[u] \in HandPcs =>
          pc[u] \in HandPcs /\ cur'[u] = cur[u] /\ taken'[u] = taken[u]
    BY <1>26 DEF SpuriousWakeup, HandPcs
  <2>2. UNCHANGED <<records, payload, rejected, writes, fate>>
    BY <1>26 DEF SpuriousWakeup, WP!SpuriousWakeup, WP!delivererVars, WP!workerVars,
       WP!closerVars, WP!execVars
  <2> QED
    BY <2>1, <2>2, HandFrame
<1>27. ASSUME NEW s \in Shards, Age(s) PROVE HandInv'
  <2>1. \A u \in Threads : pc'[u] \in HandPcs =>
          pc[u] \in HandPcs /\ cur'[u] = cur[u] /\ taken'[u] = taken[u]
    BY <1>27 DEF Age, HandPcs
  <2>2. UNCHANGED <<records, payload, rejected, writes, fate>>
    BY <1>27 DEF Age
  <2> QED
    BY <2>1, <2>2, HandFrame
<1>28. CASE WriteThrows
  <2>1. \A u \in Threads : pc'[u] \in HandPcs =>
          pc[u] \in HandPcs /\ cur'[u] = cur[u] /\ taken'[u] = taken[u]
    BY <1>28 DEF WriteThrows, HandPcs
  <2>2. UNCHANGED <<records, payload, rejected, writes, fate>>
    BY <1>28 DEF WriteThrows, WP!WriteThrows, WP!delivererVars, WP!workerVars, WP!closerVars,
       WP!execVars
  <2> QED
    BY <2>1, <2>2, HandFrame
<1>29. CASE Crash
  <2>1. \A u \in Threads : pc'[u] \in HandPcs =>
          pc[u] \in HandPcs /\ cur'[u] = cur[u] /\ taken'[u] = taken[u]
    BY <1>29 DEF Crash, HandPcs
  <2>2. UNCHANGED <<records, payload, rejected, writes, fate>>
    BY <1>29 DEF Crash
  <2> QED
    BY <2>1, <2>2, HandFrame
<1>30. CASE UNCHANGED vars
  <2>1. \A u \in Threads : pc'[u] \in HandPcs =>
          pc[u] \in HandPcs /\ cur'[u] = cur[u] /\ taken'[u] = taken[u]
    BY <1>30 DEF vars, HandPcs
  <2>2. UNCHANGED <<records, payload, rejected, writes, fate>>
    BY <1>30 DEF vars
  <2> QED
    BY <2>1, <2>2, HandFrame
<1> QED
  BY <1>1, <1>2, <1>3, <1>4, <1>5, <1>6, <1>7, <1>8, <1>9, <1>10, <1>11, <1>12, <1>13, <1>14, 
     <1>15, <1>16, <1>17, <1>18, <1>19, <1>20, <1>21, <1>22, <1>23, <1>24, <1>25, <1>26, <1>27, 
     <1>28, <1>29, <1>30, StepCases

-----------------------------------------------------------------------------
(* The records of a shard.                                                 *)

(* What the parts of the invariant need of the types, at shard s.          *)
ShardTypes(s) ==
  /\ records[s] \in Seq(Records) /\ putLog[s] \in Seq(Records) /\ database[s] \in Seq(Records)
  /\ size[s] \in Nat /\ Distinct(putLog[s])
  /\ \A t \in Threads : taken[t] \in Seq(Records)
  /\ \A a \in Actions : payload[a] \in Seq(Records)

(* They follow from those of the client and what is known of the log.      *)
LEMMA TypesHold == TypeOK /\ LogInv => \A s \in Shards : ShardTypes(s)
BY DEF TypeOK, LogInv, ShardTypes, Distinct

(* Threads and actions.                                                    *)
LEMMA ShardSets ==
  ASSUME NEW s
  PROVE  /\ Holding(s) \subseteq Threads /\ Clearing(s) \subseteq Threads
         /\ Batches(s) \subseteq Actions /\ Written(s) \subseteq Batches(s)
         /\ Clearing(s) \cap Holding(s) = {}
BY DEF Holding, Clearing, AtClear, Batches, Written

(* What is moved out of the vector is there twice, by one thread.          *)
LEMMA ClearInvStep ==
  ASSUME NEW s, ClearInv(s), ShardMoves(s)
  PROVE  ClearInv(s)'
<1>1. CASE Quiet(s)
  BY <1>1 DEF Quiet, VectorStays, HandsStay, ClearInv
<1>2. ASSUME NEW r \in Records, PutAt(r, s) PROVE ClearInv(s)'
  BY <1>2 DEF PutAt, HandsStay, ClearInv
<1>3. ASSUME NEW t \in Threads, CopyAt(t, s) PROVE ClearInv(s)'
  BY <1>3 DEF CopyAt, ClearInv
<1>4. ASSUME NEW t \in Threads, ClearAt(t, s) PROVE ClearInv(s)'
  BY <1>4 DEF ClearAt, ClearInv
<1>5. ASSUME NEW t \in Threads, NEW a \in Actions, HandAt(t, a, s) PROVE ClearInv(s)'
  BY <1>5 DEF HandAt, VectorStays, ClearInv
<1>6. ASSUME NEW a \in Actions, LoadAt(a, s) PROVE ClearInv(s)'
  BY <1>6 DEF LoadAt, VectorStays, HandsStay, ClearInv
<1> QED
  BY <1>1, <1>2, <1>3, <1>4, <1>5, <1>6 DEF ShardMoves

(* Batches are runs of the puts.                                           *)
LEMMA RunInvStep ==
  ASSUME NEW s, ShardTypes(s), ClearInv(s), RunInv(s), ShardMoves(s)
  PROVE  RunInv(s)'
<1> USE ShardSets
<1>1. CASE Quiet(s)
  BY <1>1 DEF Quiet, VectorStays, HandsStay, BatchesStay, RunInv
<1>2. ASSUME NEW r \in Records, PutAt(r, s) PROVE RunInv(s)'
  <2>1. EndOf(records'[s], putLog'[s])
    BY <1>2, EndGrows DEF PutAt, RunInv, ShardTypes
  <2>2. ASSUME NEW q \in Seq(Records), Run(q, putLog[s]) PROVE Run(q, putLog'[s])
    BY <1>2, <2>2, RunGrows DEF PutAt, ShardTypes
  <2>3. \A t \in Holding(s)' : Run(taken'[t], putLog'[s])
    BY <1>2, <2>2 DEF PutAt, HandsStay, RunInv, ShardTypes
  <2>4. \A a \in Batches(s)' : Run(payload'[a], putLog'[s])
    BY <1>2, <2>2 DEF PutAt, BatchesStay, RunInv, ShardTypes
  <2> QED
    BY <2>1, <2>3, <2>4 DEF RunInv
<1>3. ASSUME NEW t \in Threads, CopyAt(t, s) PROVE RunInv(s)'
  BY <1>3 DEF CopyAt, BatchesStay, RunInv
<1>4. ASSUME NEW t \in Threads, ClearAt(t, s) PROVE RunInv(s)'
  <2>1. EndOf(records'[s], putLog'[s])
    BY <1>4, EmptyAtEnd DEF ClearAt, ShardTypes
  <2>2. Run(taken'[t], putLog'[s])
    <3>1. taken'[t] = records[s] /\ putLog'[s] = putLog[s]
      BY <1>4 DEF ClearAt, ClearInv
    <3> QED
      BY <3>1, EndIsRun DEF RunInv
  <2>3. \A u \in Holding(s)' : Run(taken'[u], putLog'[s])
    BY <1>4, <2>2 DEF ClearAt, RunInv
  <2>4. \A a \in Batches(s)' : Run(payload'[a], putLog'[s])
    BY <1>4 DEF ClearAt, BatchesStay, RunInv
  <2> QED
    BY <2>1, <2>3, <2>4 DEF RunInv
<1>5. ASSUME NEW t \in Threads, NEW a \in Actions, HandAt(t, a, s) PROVE RunInv(s)'
  <2>1. EndOf(records'[s], putLog'[s])
    BY <1>5 DEF HandAt, VectorStays, RunInv
  <2>2. \A u \in Holding(s)' : Run(taken'[u], putLog'[s])
    BY <1>5 DEF HandAt, VectorStays, RunInv
  <2>3. \A b \in Batches(s)' : Run(payload'[b], putLog'[s])
    BY <1>5 DEF HandAt, VectorStays, RunInv
  <2> QED
    BY <2>1, <2>2, <2>3 DEF RunInv
<1>6. ASSUME NEW a \in Actions, LoadAt(a, s) PROVE RunInv(s)'
  BY <1>6 DEF LoadAt, VectorStays, HandsStay, BatchesStay, RunInv
<1> QED
  BY <1>1, <1>2, <1>3, <1>4, <1>5, <1>6 DEF ShardMoves

(* No record that was put is lost.                                         *)
LEMMA CoverInvStep ==
  ASSUME NEW s, ShardTypes(s), ClearInv(s), CoverInv(s), ShardMoves(s)
  PROVE  CoverInv(s)'
<1> USE ShardSets
<1>1. CASE Quiet(s)
  BY <1>1 DEF Quiet, VectorStays, HandsStay, BatchesStay, CoverInv
<1>2. ASSUME NEW r \in Records, PutAt(r, s) PROVE CoverInv(s)'
  <2>1. /\ ToSet(putLog'[s]) = ToSet(putLog[s]) \union {r}
        /\ ToSet(records'[s]) = ToSet(records[s]) \union {r}
    BY <1>2, AppendSet DEF PutAt, ShardTypes
  <2> QED
    BY <1>2, <2>1 DEF PutAt, HandsStay, BatchesStay, CoverInv
<1>3. ASSUME NEW t \in Threads, CopyAt(t, s) PROVE CoverInv(s)'
  BY <1>3 DEF CopyAt, BatchesStay, CoverInv
<1>4. ASSUME NEW t \in Threads, ClearAt(t, s) PROVE CoverInv(s)'
  <2>1. /\ taken'[t] = records[s] /\ putLog'[s] = putLog[s]
        /\ \A u \in Holding(s) : taken'[u] = taken[u] /\ u \in Holding(s)'
        /\ taken[t] = records[s]
    BY <1>4 DEF ClearAt, ClearInv
  <2>2. ASSUME NEW r \in ToSet(records[s]) PROVE t \in Holding(s)'
    <3>1. records[s] # <<>>
      BY <2>2, EmptySet
    <3> QED
      BY <1>4, <2>1, <3>1 DEF ClearAt
  <2>3. BatchesStay(s)
    BY <1>4 DEF ClearAt
  <2> QED
    BY <2>1, <2>2, <2>3 DEF BatchesStay, CoverInv
<1>5. ASSUME NEW t \in Threads, NEW a \in Actions, HandAt(t, a, s) PROVE CoverInv(s)'
  <2>1. /\ records'[s] = records[s] /\ putLog'[s] = putLog[s]
        /\ \A u \in Holding(s) \ {t} : taken'[u] = taken[u] /\ u \in Holding(s)'
        /\ a \in Batches(s)' /\ payload'[a] = taken[t]
        /\ \A b \in Batches(s) : payload'[b] = payload[b] /\ b \in Batches(s)'
    BY <1>5 DEF HandAt, VectorStays
  <2> QED
    BY <2>1 DEF CoverInv
<1>6. ASSUME NEW a \in Actions, LoadAt(a, s) PROVE CoverInv(s)'
  BY <1>6 DEF LoadAt, VectorStays, HandsStay, BatchesStay, CoverInv
<1> QED
  BY <1>1, <1>2, <1>3, <1>4, <1>5, <1>6 DEF ShardMoves

(* No record is in two places.                                             *)
LEMMA ApartInvStep ==
  ASSUME NEW s, ShardTypes(s), ClearInv(s), RunInv(s), ApartInv(s), ShardMoves(s)
  PROVE  ApartInv(s)'
<1> USE ShardSets
<1>1. CASE Quiet(s)
  BY <1>1 DEF Quiet, VectorStays, HandsStay, BatchesStay, ApartInv
<1>2. ASSUME NEW r \in Records, PutAt(r, s) PROVE ApartInv(s)'
  <2>1. ToSet(records'[s]) = ToSet(records[s]) \union {r}
    BY <1>2, AppendSet DEF PutAt, ShardTypes
  <2>2. /\ \A t \in Holding(s) : r \notin ToSet(taken[t])
        /\ \A a \in Batches(s) : r \notin ToSet(payload[a])
    BY <1>2, RunFacts DEF PutAt, RunInv, ShardTypes
  <2>3. \A q : Apart(q, records[s]) /\ r \notin ToSet(q) => Apart(q, records'[s])
    BY <2>1 DEF Apart
  <2>4. HandsStay(s) /\ BatchesStay(s)
    BY <1>2 DEF PutAt
  <2> QED
    BY <2>2, <2>3, <2>4 DEF HandsStay, BatchesStay, ApartInv
<1>3. ASSUME NEW t \in Threads, CopyAt(t, s) PROVE ApartInv(s)'
  <2>1. /\ records'[s] = records[s] /\ Holding(s)' = Holding(s)
        /\ \A u \in Holding(s) : taken'[u] = taken[u]
        /\ BatchesStay(s)
    BY <1>3 DEF CopyAt
  <2> QED
    BY <2>1 DEF BatchesStay, ApartInv
<1>4. ASSUME NEW t \in Threads, ClearAt(t, s) PROVE ApartInv(s)'
  <2>1. /\ taken'[t] = records[s] /\ records'[s] = <<>>
        /\ \A u \in Holding(s) : taken'[u] = taken[u]
        /\ Holding(s)' \subseteq Holding(s) \union {t}
    BY <1>4 DEF ClearAt, ClearInv
  <2>2. BatchesStay(s)
    BY <1>4 DEF ClearAt
  <2>3. \A q : Apart(q, <<>>)
    BY EmptySet DEF Apart
  <2>4. \A p, q : Apart(p, q) => Apart(q, p)
    BY DEF Apart
  <2>5. \A u, v \in Holding(s)' : u # v => Apart(taken'[u], taken'[v])
    BY <2>1, <2>4 DEF ApartInv
  <2>6. \A u \in Holding(s)', a \in Batches(s)' : Apart(taken'[u], payload'[a])
    BY <2>1, <2>2, <2>4 DEF BatchesStay, ApartInv
  <2>7. \A a, b \in Batches(s)' : a # b => Apart(payload'[a], payload'[b])
    BY <2>2 DEF BatchesStay, ApartInv
  <2> QED
    BY <2>1, <2>3, <2>5, <2>6, <2>7 DEF ApartInv
<1>5. ASSUME NEW t \in Threads, NEW a \in Actions, HandAt(t, a, s) PROVE ApartInv(s)'
  <2>1. /\ t \in Holding(s) /\ Holding(s)' = Holding(s) \ {t} /\ records'[s] = records[s]
        /\ \A u \in Holding(s) \ {t} : taken'[u] = taken[u]
        /\ a \notin Batches(s) /\ Batches(s)' = Batches(s) \union {a} /\ payload'[a] = taken[t]
        /\ \A b \in Batches(s) : payload'[b] = payload[b]
    BY <1>5 DEF HandAt, VectorStays
  <2>2. \A p, q : Apart(p, q) => Apart(q, p)
    BY DEF Apart
  <2>3. \A u \in Holding(s)' : Apart(taken'[u], records'[s])
    BY <2>1 DEF ApartInv
  <2>4. \A b \in Batches(s)' : Apart(payload'[b], records'[s])
    BY <2>1 DEF ApartInv
  <2>5. \A u, v \in Holding(s)' : u # v => Apart(taken'[u], taken'[v])
    BY <2>1 DEF ApartInv
  <2>6. \A u \in Holding(s)', b \in Batches(s)' : Apart(taken'[u], payload'[b])
    BY <2>1 DEF ApartInv
  <2>7. \A b, c \in Batches(s)' : b # c => Apart(payload'[b], payload'[c])
    <3>1. \A b \in Batches(s) : Apart(taken[t], payload[b])
      BY <2>1 DEF ApartInv
    <3>2. \A b, c \in Batches(s) : b # c => Apart(payload[b], payload[c])
      BY DEF ApartInv
    <3> QED
      BY <2>1, <2>2, <3>1, <3>2
  <2> QED
    BY <2>3, <2>4, <2>5, <2>6, <2>7 DEF ApartInv
<1>6. ASSUME NEW a \in Actions, LoadAt(a, s) PROVE ApartInv(s)'
  BY <1>6 DEF LoadAt, VectorStays, HandsStay, BatchesStay, ApartInv
<1> QED
  BY <1>1, <1>2, <1>3, <1>4, <1>5, <1>6 DEF ShardMoves

(* The database has what was written.                                      *)
LEMMA StoredInvStep ==
  ASSUME NEW s, ShardTypes(s), RunInv(s), ApartInv(s), StoredInv(s), ShardMoves(s)
  PROVE  StoredInv(s)'
<1> USE ShardSets
<1>1. CASE StoreStays(s) /\ \A b \in Batches(s) : payload'[b] = payload[b]
  BY <1>1 DEF StoreStays, StoredInv
<1>2. ASSUME NEW a \in Actions, LoadAt(a, s) PROVE StoredInv(s)'
  <2>1. /\ a \in Batches(s) /\ a \notin Written(s) /\ Written(s)' = Written(s) \union {a}
        /\ database'[s] = database[s] \o payload[a]
        /\ \A b \in Batches(s) : payload'[b] = payload[b]
    BY <1>2 DEF LoadAt, BatchesStay
  <2>2. ToSet(database'[s]) = ToSet(database[s]) \union ToSet(payload[a])
    BY <2>1, ConcatSet DEF ShardTypes
  <2>3. Distinct(database[s]) /\ Distinct(payload[a])
    <3>1. Distinct(payload[a])
      BY <2>1, RunFacts DEF RunInv, ShardTypes
    <3> QED
      BY <3>1 DEF StoredInv, Distinct
  <2>4. Apart(database[s], payload[a])
    <3>1. SUFFICES ASSUME NEW r, r \in ToSet(database[s]), r \in ToSet(payload[a]) PROVE FALSE
      BY DEF Apart
    <3>2. PICK b \in Written(s) : r \in ToSet(payload[b])
      BY <3>1 DEF StoredInv
    <3>3. Apart(payload[b], payload[a])
      BY <2>1, <3>2 DEF ApartInv
    <3> QED
      BY <3>1, <3>2, <3>3 DEF Apart
  <2>5. Distinct(database'[s])
    BY <2>1, <2>3, <2>4, ConcatDistinct DEF ShardTypes
  <2>6. \A r \in ToSet(database'[s]) : \E b \in Written(s)' : r \in ToSet(payload'[b])
    BY <2>1, <2>2 DEF StoredInv
  <2>7. \A b \in Written(s)' : ToSet(payload'[b]) \subseteq ToSet(database'[s])
    BY <2>1, <2>2 DEF StoredInv
  <2> QED
    BY <2>5, <2>6, <2>7 DEF StoredInv, Distinct
<1>3. \/ StoreStays(s) /\ \A b \in Batches(s) : payload'[b] = payload[b]
      \/ \E a \in Actions : LoadAt(a, s)
  BY DEF ShardMoves, Quiet, PutAt, CopyAt, ClearAt, HandAt, BatchesStay
<1> QED
  BY <1>1, <1>2, <1>3

(* size is that of the vector.                                             *)
LEMMA SizeInvStep ==
  ASSUME NEW s, ShardTypes(s), ClearInv(s), SizeInv(s), ShardMoves(s)
  PROVE  SizeInv(s)'
<1>1. CASE VectorStays(s) /\ Clearing(s)' = Clearing(s)
  BY <1>1 DEF VectorStays, SizeInv
<1>2. ASSUME NEW r \in Records, PutAt(r, s) PROVE SizeInv(s)'
  <2>1. SizesAddUp(records'[s], size'[s])
    BY <1>2, SizesAppend DEF PutAt, SizeInv, ShardTypes
  <2> QED
    BY <2>1 DEF SizeInv
<1>3. ASSUME NEW t \in Threads, CopyAt(t, s) PROVE SizeInv(s)'
  BY <1>3 DEF CopyAt, SizeInv
<1>4. ASSUME NEW t \in Threads, ClearAt(t, s) PROVE SizeInv(s)'
  <2>1. size'[s] = 0 /\ records'[s] = <<>>
    BY <1>4 DEF ClearAt, ClearInv
  <2> QED
    BY <2>1, SizesEmpty DEF SizeInv
<1>5. \/ VectorStays(s) /\ Clearing(s)' = Clearing(s)
      \/ \E r \in Records : PutAt(r, s)
      \/ \E t \in Threads : CopyAt(t, s) \/ ClearAt(t, s)
  BY DEF ShardMoves, Quiet, HandAt, LoadAt, HandsStay
<1> QED
  BY <1>1, <1>2, <1>3, <1>4, <1>5

(* Whatever happens to a shard, the parts of its invariant hold on.        *)
LEMMA ShardInvStep ==
  ASSUME NEW s, ShardTypes(s), ShardInv(s), ShardMoves(s)
  PROVE  ShardInv(s)'
BY ClearInvStep, RunInvStep, CoverInvStep, ApartInvStep, StoredInvStep, SizeInvStep DEF ShardInv

-----------------------------------------------------------------------------
(* A shard that has reached its target.                                     *)

(* Nothing happens to the vector, and the put that filled it goes on.      *)
LEMMA TargetFrame ==
  ASSUME NEW s, TargetInv(s), records'[s] = records[s],
         \A u \in Threads : Filling(u, s) => Filling(u, s)'
  PROVE  TargetInv(s)'
BY DEF TargetInv, Below

(* Thread t moves, and if it is the one it goes on.                        *)
LEMMA TargetMoves ==
  ASSUME NEW s, NEW t \in Threads, TargetInv(s), records'[s] = records[s],
         \A u \in Threads \ {t} : pc'[u] = pc[u] /\ cur'[u] = cur[u] /\ job'[u] = job[u],
         Filling(t, s) => Filling(t, s)'
  PROVE  TargetInv(s)'
<1>1. \A u \in Threads : Filling(u, s) => Filling(u, s)'
  BY DEF Filling
<1> QED
  BY <1>1, TargetFrame

(* An empty vector has not reached the target.                             *)
LEMMA EmptyIsBelow ==
  ASSUME NEW s, records[s] = <<>>
  PROVE  Below(s)
<1>1. Len(<<>>) = 0 /\ 0 \in 0 .. TargetMemorySize - 1
  BY ConstantFacts
<1> QED
  BY <1>1, ConstantFacts, SizesEmpty DEF Below

(* A put leaves a shard that has reached its target to nobody: it goes on  *)
(* to take the batch out, and the size it looked at is that of the vector. *)
LEMMA TargetStep ==
  ASSUME IndInv, NEW s \in Shards, s \notin raced', SizeInv(s), TargetInv(s), [Next]_vars
  PROVE  TargetInv(s)'
<1>0. TypeOK /\ PlaceInv /\ PutInv /\ MutexInv
  BY DEF IndInv
<1> USE ConstantFacts, Domains, <1>0
<1>1. ASSUME NEW t \in AppThreads, NEW r \in Records, StartPut(t, r) PROVE TargetInv(s)'
  <2>1. records'[s] = records[s]
    BY <1>1 DEF StartPut
  <2>2. \A u \in Threads : Filling(u, s) => Filling(u, s)'
    BY <1>1 DEF StartPut, PlaceInv, Filling
  <2> QED
    BY <2>1, <2>2, TargetFrame
<1>2. ASSUME NEW t \in AppThreads, StartFlush(t) PROVE TargetInv(s)'
  <2>1. records'[s] = records[s]
    BY <1>2 DEF StartFlush
  <2>2. \A u \in Threads : Filling(u, s) => Filling(u, s)'
    BY <1>2 DEF StartFlush, PlaceInv, Filling
  <2> QED
    BY <2>1, <2>2, TargetFrame
<1>3. ASSUME NEW t \in Threads, Apply(t) PROVE TargetInv(s)'
  <2>1. CASE cur[t] = s
    <3>1. job[t] = "put" /\ job'[t] = "put" /\ cur'[t] = s /\ pc'[t] = "check"
      BY <1>3, <2>1 DEF Apply, PutInv, PutHand, TypeOK
    <3> QED
      BY <3>1 DEF TargetInv, Filling
  <2>2. CASE cur[t] # s
    <3>1. records'[s] = records[s]
      BY <1>3, <2>2 DEF Apply, PushBack, TypeOK
    <3>2. \A u \in Threads : Filling(u, s) => Filling(u, s)'
      BY <1>3 DEF Apply, Filling
    <3> QED
      BY <3>1, <3>2, TargetFrame
  <2> QED
    BY <2>1, <2>2
<1>4. ASSUME NEW t \in Threads, Check(t) PROVE TargetInv(s)'
  <2>0. records'[s] = records[s] /\ size'[s] = size[s]
    BY <1>4 DEF Check
  <2>1. CASE cur[t] # s \/ ReachTarget(s)
    <3>1. \A u \in Threads \ {t} : pc'[u] = pc[u] /\ cur'[u] = cur[u] /\ job'[u] = job[u]
      BY <1>4, LeaveFacts DEF Check
    <3>2. cur[t] = s => pc'[t] = "copy" /\ cur'[t] = cur[t] /\ job'[t] = job[t]
      BY <1>4, <2>1 DEF Check, TypeOK
    <3>3. Filling(t, s) => Filling(t, s)'
      BY <3>2 DEF Filling
    <3> QED
      BY <2>0, <3>1, <3>3, TargetMoves
  <2>2. CASE cur[t] = s /\ ~ReachTarget(s)
    <3>1. Clearing(s) = {}
      BY <1>4, <2>2 DEF Check, TouchRecords, Others, Clearing, AtClear
    <3>2. SizesAddUp(records[s], size[s])
      BY <3>1 DEF SizeInv
    <3>3. Below(s)
      <4>1. CASE records[s] = <<>>
        BY <4>1, EmptyIsBelow
      <4>2. CASE records[s] # <<>>
        <5>1. Len(records[s]) < TargetNumRecords /\ size[s] \in 0 .. TargetMemorySize - 1
          <6>1. Len(records[s]) \in Nat /\ size[s] \in Nat
            BY DEF TypeOK
          <6>2. /\ ~(Len(records[s]) >= TargetNumRecords)
                /\ ~(size[s] >= TargetMemorySize)
            BY <2>2, <4>2 DEF ReachTarget
          <6> QED
            BY <6>1, <6>2, ConstantFacts
        <5> QED
          BY <3>2, <5>1 DEF Below
      <4> QED
        BY <4>1, <4>2
    <3>4. Below(s)'
      BY <2>0, <3>3 DEF Below
    <3> QED
      BY <3>4 DEF TargetInv
  <2> QED
    BY <2>1, <2>2
<1>5. ASSUME NEW t \in Threads, Copy(t) PROVE TargetInv(s)'
  <2>1. records'[s] = records[s]
    BY <1>5 DEF Copy
  <2>2. \A u \in Threads : Filling(u, s) => Filling(u, s)'
    BY <1>5 DEF Copy, Filling
  <2> QED
    BY <2>1, <2>2, TargetFrame
<1>6. ASSUME NEW t \in Threads, Clear(t) PROVE TargetInv(s)'
  <2>1. CASE cur[t] = s
    <3>1. records'[s] = <<>>
      BY <1>6, <2>1 DEF Clear, EmptyRecords, TypeOK
    <3>2. Below(s)'
      <4>1. Len(<<>>) = 0 /\ 0 \in 0 .. TargetMemorySize - 1
        BY ConstantFacts
      <4> QED
        BY <3>1, <4>1, ConstantFacts, SizesEmpty DEF Below
    <3> QED
      BY <3>2 DEF TargetInv
  <2>2. CASE cur[t] # s
    <3>1. records'[s] = records[s]
      BY <1>6, <2>2 DEF Clear, EmptyRecords, TypeOK
    <3>2. \A u \in Threads \ {t} : pc'[u] = pc[u] /\ cur'[u] = cur[u] /\ job'[u] = job[u]
      BY <1>6, LeaveFacts DEF Clear
    <3>3. ~Filling(t, s)
      BY <2>2 DEF Filling
    <3> QED
      BY <3>1, <3>2, <3>3, TargetMoves
  <2> QED
    BY <2>1, <2>2
<1>7. ASSUME NEW t \in Threads, Await(t) PROVE TargetInv(s)'
  <2>1. records'[s] = records[s]
    BY <1>7 DEF Await
  <2>2. \A u \in Threads : Filling(u, s) => Filling(u, s)'
    BY <1>7 DEF Await, Filling
  <2> QED
    BY <2>1, <2>2, TargetFrame
<1>8. ASSUME NEW t \in Threads, AcquirePermit(t) PROVE TargetInv(s)'
  <2>1. records'[s] = records[s]
    BY <1>8 DEF AcquirePermit
  <2>2. \A u \in Threads : Filling(u, s) => Filling(u, s)'
    BY <1>8 DEF AcquirePermit, Filling
  <2> QED
    BY <2>1, <2>2, TargetFrame
<1>9. ASSUME NEW t \in Threads, Scan(t) PROVE TargetInv(s)'
  <2>1. records'[s] = records[s]
    BY <1>9 DEF Scan
  <2>2. \A u \in Threads : Filling(u, s) => Filling(u, s)'
    BY <1>9 DEF Scan, Filling
  <2> QED
    BY <2>1, <2>2, TargetFrame
<1>10. ASSUME NEW t \in Threads, Give(t) PROVE TargetInv(s)'
  <2>1. records'[s] = records[s]
    BY <1>10 DEF Give
  <2>2. \A u \in Threads : Filling(u, s) => Filling(u, s)'
    BY <1>10 DEF Give, Filling
  <2> QED
    BY <2>1, <2>2, TargetFrame
<1>11. ASSUME NEW t \in Threads, Assign(t) PROVE TargetInv(s)'
  <2>1. records'[s] = records[s]
    BY <1>11 DEF Assign
  <2>2. \A u \in Threads : Filling(u, s) => Filling(u, s)'
    BY <1>11, LeaveFacts DEF Assign, Filling
  <2> QED
    BY <2>1, <2>2, TargetFrame
<1>12. ASSUME NEW t \in Threads, Throw(t) PROVE TargetInv(s)'
  <2>1. records'[s] = records[s]
    BY <1>12 DEF Throw
  <2>2. \A u \in Threads : Filling(u, s) => Filling(u, s)'
    BY <1>12 DEF Throw, Filling
  <2> QED
    BY <2>1, <2>2, TargetFrame
<1>13. ASSUME NEW t \in Threads, ThrowUncaught(t) PROVE TargetInv(s)'
  <2>1. records'[s] = records[s]
    BY <1>13 DEF ThrowUncaught
  <2>2. \A u \in Threads : Filling(u, s) => Filling(u, s)'
    BY <1>13 DEF ThrowUncaught, Filling
  <2> QED
    BY <2>1, <2>2, TargetFrame
<1>14. ASSUME NEW t \in Threads, VisitNext(t) PROVE TargetInv(s)'
  <2>1. records'[s] = records[s]
    BY <1>14 DEF VisitNext
  <2>2. \A u \in Threads \ {t} : pc'[u] = pc[u] /\ cur'[u] = cur[u] /\ job'[u] = job[u]
    BY <1>14 DEF VisitNext
  <2>3. ~Filling(t, s)
    BY <1>14 DEF VisitNext, Filling
  <2> QED
    BY <2>1, <2>2, <2>3, TargetMoves
<1>15. ASSUME NEW t \in Threads, EndFlush(t) PROVE TargetInv(s)'
  <2>1. records'[s] = records[s]
    BY <1>15 DEF EndFlush
  <2>2. \A u \in Threads \ {t} : pc'[u] = pc[u] /\ cur'[u] = cur[u] /\ job'[u] = job[u]
    BY <1>15 DEF EndFlush
  <2>3. ~Filling(t, s)
    BY <1>15 DEF EndFlush, Filling
  <2> QED
    BY <2>1, <2>2, <2>3, TargetMoves
<1>16. CASE Construct
  <2>1. records'[s] = records[s]
    BY <1>16 DEF Construct
  <2>2. \A u \in Threads : Filling(u, s) => Filling(u, s)'
    BY <1>16 DEF Construct, PlaceInv, Filling
  <2> QED
    BY <2>1, <2>2, TargetFrame
<1>17. CASE StartClose
  <2>1. records'[s] = records[s]
    BY <1>17 DEF StartClose
  <2>2. \A u \in Threads : Filling(u, s) => Filling(u, s)'
    BY <1>17 DEF StartClose, PlaceInv, Filling
  <2> QED
    BY <2>1, <2>2, TargetFrame
<1>18. CASE Drain
  <2>1. records'[s] = records[s]
    BY <1>18 DEF Drain
  <2>2. \A u \in Threads \ {Owner} : pc'[u] = pc[u] /\ cur'[u] = cur[u] /\ job'[u] = job[u]
    BY <1>18 DEF Drain
  <2>3. ~Filling(Owner, s)
    BY <1>18 DEF Drain, Filling
  <2> QED
    BY <2>1, <2>2, <2>3, TargetMoves
<1>19. CASE Join
  <2>1. records'[s] = records[s]
    BY <1>19 DEF Join
  <2>2. \A u \in Threads \ {Owner} : pc'[u] = pc[u] /\ cur'[u] = cur[u] /\ job'[u] = job[u]
    BY <1>19 DEF Join
  <2>3. ~Filling(Owner, s)
    BY <1>19 DEF Join, Filling
  <2> QED
    BY <2>1, <2>2, <2>3, TargetMoves
<1>20. CASE TestStatus
  <2>1. records'[s] = records[s]
    BY <1>20 DEF TestStatus
  <2>2. \A u \in Threads \ {Watcher} : pc'[u] = pc[u] /\ cur'[u] = cur[u] /\ job'[u] = job[u]
    BY <1>20 DEF TestStatus
  <2>3. ~Filling(Watcher, s)
    BY <1>20 DEF TestStatus, PlaceInv, Filling
  <2> QED
    BY <2>1, <2>2, <2>3, TargetMoves
<1>21. CASE Sweep
  <2>1. records'[s] = records[s]
    BY <1>21 DEF Sweep
  <2>2. \A u \in Threads \ {Watcher} : pc'[u] = pc[u] /\ cur'[u] = cur[u] /\ job'[u] = job[u]
    BY <1>21 DEF Sweep
  <2>3. ~Filling(Watcher, s)
    BY <1>21 DEF Sweep, PlaceInv, Filling
  <2> QED
    BY <2>1, <2>2, <2>3, TargetMoves
<1>22. CASE TryLock
  <2>1. records'[s] = records[s]
    BY <1>22 DEF TryLock
  <2>2. \A u \in Threads \ {Watcher} : pc'[u] = pc[u] /\ cur'[u] = cur[u] /\ job'[u] = job[u]
    BY <1>22 DEF TryLock
  <2>3. ~Filling(Watcher, s)
    BY <1>22 DEF TryLock, PlaceInv, Filling
  <2> QED
    BY <2>1, <2>2, <2>3, TargetMoves
<1>23. CASE TryPermit
  <2>1. records'[s] = records[s]
    BY <1>23 DEF TryPermit
  <2>2. \A u \in Threads \ {Watcher} : pc'[u] = pc[u] /\ cur'[u] = cur[u] /\ job'[u] = job[u]
    BY <1>23, LeaveFacts DEF TryPermit
  <2>3. ~Filling(Watcher, s)
    BY <1>23 DEF TryPermit, PlaceInv, Filling
  <2> QED
    BY <2>1, <2>2, <2>3, TargetMoves
<1>24. ASSUME NEW w \in WP!Workers, Work(w) PROVE TargetInv(s)'
  <2>1. records'[s] = records[s]
    BY <1>24 DEF Work
  <2>2. \A u \in Threads : Filling(u, s) => Filling(u, s)'
    BY <1>24 DEF Work, Filling
  <2> QED
    BY <2>1, <2>2, TargetFrame
<1>25. CASE DestroyPool
  <2>1. records'[s] = records[s]
    BY <1>25 DEF DestroyPool
  <2>2. \A u \in Threads : Filling(u, s) => Filling(u, s)'
    BY <1>25 DEF DestroyPool, Filling
  <2> QED
    BY <2>1, <2>2, TargetFrame
<1>26. ASSUME NEW w \in WP!Workers, SpuriousWakeup(w) PROVE TargetInv(s)'
  <2>1. records'[s] = records[s]
    BY <1>26 DEF SpuriousWakeup
  <2>2. \A u \in Threads : Filling(u, s) => Filling(u, s)'
    BY <1>26 DEF SpuriousWakeup, Filling
  <2> QED
    BY <2>1, <2>2, TargetFrame
<1>27. ASSUME NEW z \in Shards, Age(z) PROVE TargetInv(s)'
  <2>1. records'[s] = records[s]
    BY <1>27 DEF Age
  <2>2. \A u \in Threads : Filling(u, s) => Filling(u, s)'
    BY <1>27 DEF Age, Filling
  <2> QED
    BY <2>1, <2>2, TargetFrame
<1>28. CASE WriteThrows
  <2>1. records'[s] = records[s]
    BY <1>28 DEF WriteThrows
  <2>2. \A u \in Threads : Filling(u, s) => Filling(u, s)'
    BY <1>28 DEF WriteThrows, Filling
  <2> QED
    BY <2>1, <2>2, TargetFrame
<1>29. CASE Crash
  <2>1. records'[s] = records[s]
    BY <1>29 DEF Crash
  <2>2. \A u \in Threads : Filling(u, s) => Filling(u, s)'
    BY <1>29 DEF Crash, Filling
  <2> QED
    BY <2>1, <2>2, TargetFrame
<1>30. CASE UNCHANGED vars
  <2>1. records'[s] = records[s]
    BY <1>30 DEF vars
  <2>2. \A u \in Threads : Filling(u, s) => Filling(u, s)'
    BY <1>30 DEF vars, Filling
  <2> QED
    BY <2>1, <2>2, TargetFrame
<1> QED
  BY <1>1, <1>2, <1>3, <1>4, <1>5, <1>6, <1>7, <1>8, <1>9, <1>10, <1>11, <1>12, <1>13, <1>14, 
     <1>15, <1>16, <1>17, <1>18, <1>19, <1>20, <1>21, <1>22, <1>23, <1>24, <1>25, <1>26, <1>27, 
     <1>28, <1>29, <1>30, StepCases

-----------------------------------------------------------------------------
(* The round of the destructor.                                            *)

(* The owner goes on with its round, and leaves no shard before its vector *)
(* is empty; no vector is filled.                                          *)
LEMMA RoundGoesOn ==
  ASSUME EmptiedInv, job'[Owner] = "close" => job[Owner] = "close",
         \A s \in Shards : records'[s] = records[s] \/ records'[s] = <<>>,
         toVisit'[Owner] = toVisit[Owner],
         pc[Owner] \in BatchPcs \union {"next"} => pc'[Owner] \in BatchPcs \union {"next"},
         pc[Owner] \in {"copy", "clear"} =>
           \/ pc'[Owner] \in {"copy", "clear"} /\ cur'[Owner] = cur[Owner]
           \/ records'[cur[Owner]] = <<>>
  PROVE  EmptiedInv'
<1>1. SUFFICES ASSUME job'[Owner] = "close", NEW s \in Shards, records'[s] # <<>>
      PROVE  \/ s \in toVisit'[Owner] /\ pc'[Owner] \in BatchPcs \union {"next"}
             \/ s = cur'[Owner] /\ pc'[Owner] \in {"copy", "clear"}
  BY DEF EmptiedInv
<1>2. records[s] # <<>> /\ job[Owner] = "close"
  BY <1>1
<1>3. \/ s \in toVisit[Owner] /\ pc[Owner] \in BatchPcs \union {"next"}
      \/ s = cur[Owner] /\ pc[Owner] \in {"copy", "clear"}
  BY <1>2 DEF EmptiedInv
<1> QED
  BY <1>1, <1>3

(* The owner does not move, and no vector is touched.                      *)
LEMMA OwnerStays ==
  ASSUME EmptiedInv, UNCHANGED records, job'[Owner] = "close" => job[Owner] = "close",
         job[Owner] = "close" => /\ pc'[Owner] = pc[Owner] /\ cur'[Owner] = cur[Owner]
                                /\ toVisit'[Owner] = toVisit[Owner]
  PROVE  EmptiedInv'
BY DEF EmptiedInv

(* The destructor takes a batch out of every shard it comes by, and nobody *)
(* puts a record any more.                                                 *)
LEMMA EmptiedStep ==
  ASSUME IndInv, EmptiedInv, [Next]_vars
  PROVE  EmptiedInv'
<1>0. TypeOK /\ PlaceInv
  BY DEF IndInv
<1> USE ConstantFacts, Domains, <1>0
<1>1. ASSUME NEW t \in AppThreads, NEW r \in Records, StartPut(t, r) PROVE EmptiedInv'
  <2>1. UNCHANGED records
    BY <1>1 DEF StartPut
  <2>2. job'[Owner] = "close" => job[Owner] = "close"
    BY <1>1 DEF StartPut, PlaceInv, BatchPcs
  <2>3. job[Owner] = "close" =>
          pc'[Owner] = pc[Owner] /\ cur'[Owner] = cur[Owner] /\ toVisit'[Owner] = toVisit[Owner]
    BY <1>1 DEF StartPut, PlaceInv, BatchPcs
  <2> QED
    BY <2>1, <2>2, <2>3, OwnerStays
<1>2. ASSUME NEW t \in AppThreads, StartFlush(t) PROVE EmptiedInv'
  <2>1. UNCHANGED records
    BY <1>2 DEF StartFlush
  <2>2. job'[Owner] = "close" => job[Owner] = "close"
    BY <1>2 DEF StartFlush, PlaceInv, BatchPcs
  <2>3. job[Owner] = "close" =>
          pc'[Owner] = pc[Owner] /\ cur'[Owner] = cur[Owner] /\ toVisit'[Owner] = toVisit[Owner]
    BY <1>2 DEF StartFlush, PlaceInv, BatchPcs
  <2> QED
    BY <2>1, <2>2, <2>3, OwnerStays
<1>3. ASSUME NEW t \in Threads, Apply(t) PROVE EmptiedInv'
  <2>1. job[Owner] # "close"
    BY <1>3 DEF Apply, PlaceInv, BatchPcs
  <2>2. job'[Owner] # "close"
    BY <1>3, <2>1 DEF Apply
  <2> QED
    BY <2>2 DEF EmptiedInv
<1>4. ASSUME NEW t \in Threads, Check(t) PROVE EmptiedInv'
  <2>1. job[Owner] # "close"
    BY <1>4 DEF Check, PlaceInv, BatchPcs
  <2>2. job'[Owner] # "close"
    BY <1>4, <2>1, LeaveFacts DEF Check
  <2> QED
    BY <2>2 DEF EmptiedInv
<1>5. ASSUME NEW t \in Threads, Copy(t) PROVE EmptiedInv'
  <2>1. job'[Owner] = "close" => job[Owner] = "close"
    BY <1>5 DEF Copy
  <2>2. \A s \in Shards : records'[s] = records[s] \/ records'[s] = <<>>
    BY <1>5 DEF Copy
  <2>3. toVisit'[Owner] = toVisit[Owner]
    BY <1>5 DEF Copy
  <2>4. pc[Owner] \in BatchPcs \union {"next"} => pc'[Owner] \in BatchPcs \union {"next"}
    BY <1>5 DEF Copy, BatchPcs
  <2>5. pc[Owner] \in {"copy", "clear"} =>
          \/ pc'[Owner] \in {"copy", "clear"} /\ cur'[Owner] = cur[Owner]
          \/ records'[cur[Owner]] = <<>>
    BY <1>5 DEF Copy
  <2> QED
    BY <2>1, <2>2, <2>3, <2>4, <2>5, RoundGoesOn
<1>6. ASSUME NEW t \in Threads, Clear(t) PROVE EmptiedInv'
  <2>1. job'[Owner] = "close" => job[Owner] = "close"
    BY <1>6, LeaveFacts DEF Clear
  <2>2. CASE job[Owner] # "close"
    BY <2>1, <2>2 DEF EmptiedInv
  <2>3. CASE job[Owner] = "close"
    <3>1. t = Owner => After(t) = "next"
      BY <2>3 DEF After
    <3>2. \A s \in Shards : records'[s] = records[s] \/ records'[s] = <<>>
      BY <1>6 DEF Clear, EmptyRecords, TypeOK
    <3>3. toVisit'[Owner] = toVisit[Owner]
      BY <1>6 DEF Clear
    <3>4. pc[Owner] \in BatchPcs \union {"next"} => pc'[Owner] \in BatchPcs \union {"next"}
      BY <1>6, <3>1, LeaveFacts DEF Clear, BatchPcs
    <3>5. pc[Owner] \in {"copy", "clear"} =>
            \/ pc'[Owner] \in {"copy", "clear"} /\ cur'[Owner] = cur[Owner]
            \/ records'[cur[Owner]] = <<>>
      <4>1. CASE t = Owner
        <5>1. cur[Owner] \in Shards /\ records' = [records EXCEPT ![cur[Owner]] = <<>>]
          BY <1>6, <4>1, Domains DEF Clear, EmptyRecords
        <5>2. records'[cur[Owner]] = <<>>
          BY <5>1 DEF TypeOK
        <5> QED
          BY <5>2
      <4>2. CASE t # Owner
        <5>1. CASE Leave(t)
          BY <4>2, <5>1, LeaveFacts
        <5>2. CASE ~Leave(t)
          BY <1>6, <4>2, <5>2, Domains DEF Clear
        <5> QED
          BY <5>1, <5>2
      <4> QED
        BY <4>1, <4>2
    <3> QED
      BY <2>1, <3>2, <3>3, <3>4, <3>5, RoundGoesOn
  <2> QED
    BY <2>2, <2>3
<1>7. ASSUME NEW t \in Threads, Await(t) PROVE EmptiedInv'
  <2>1. job'[Owner] = "close" => job[Owner] = "close"
    BY <1>7 DEF Await
  <2>2. \A s \in Shards : records'[s] = records[s] \/ records'[s] = <<>>
    BY <1>7 DEF Await
  <2>3. toVisit'[Owner] = toVisit[Owner]
    BY <1>7 DEF Await
  <2>4. pc[Owner] \in BatchPcs \union {"next"} => pc'[Owner] \in BatchPcs \union {"next"}
    BY <1>7 DEF Await, BatchPcs
  <2>5. pc[Owner] \in {"copy", "clear"} =>
          \/ pc'[Owner] \in {"copy", "clear"} /\ cur'[Owner] = cur[Owner]
          \/ records'[cur[Owner]] = <<>>
    BY <1>7 DEF Await
  <2> QED
    BY <2>1, <2>2, <2>3, <2>4, <2>5, RoundGoesOn
<1>8. ASSUME NEW t \in Threads, AcquirePermit(t) PROVE EmptiedInv'
  <2>1. job'[Owner] = "close" => job[Owner] = "close"
    BY <1>8 DEF AcquirePermit
  <2>2. \A s \in Shards : records'[s] = records[s] \/ records'[s] = <<>>
    BY <1>8 DEF AcquirePermit
  <2>3. toVisit'[Owner] = toVisit[Owner]
    BY <1>8 DEF AcquirePermit
  <2>4. pc[Owner] \in BatchPcs \union {"next"} => pc'[Owner] \in BatchPcs \union {"next"}
    BY <1>8 DEF AcquirePermit, BatchPcs
  <2>5. pc[Owner] \in {"copy", "clear"} =>
          \/ pc'[Owner] \in {"copy", "clear"} /\ cur'[Owner] = cur[Owner]
          \/ records'[cur[Owner]] = <<>>
    BY <1>8 DEF AcquirePermit
  <2> QED
    BY <2>1, <2>2, <2>3, <2>4, <2>5, RoundGoesOn
<1>9. ASSUME NEW t \in Threads, Scan(t) PROVE EmptiedInv'
  <2>1. UNCHANGED records
    BY <1>9 DEF Scan
  <2>2. job'[Owner] = "close" => job[Owner] = "close"
    BY <1>9 DEF Scan
  <2>3. job[Owner] = "close" =>
          pc'[Owner] = pc[Owner] /\ cur'[Owner] = cur[Owner] /\ toVisit'[Owner] = toVisit[Owner]
    BY <1>9 DEF Scan
  <2> QED
    BY <2>1, <2>2, <2>3, OwnerStays
<1>10. ASSUME NEW t \in Threads, Give(t) PROVE EmptiedInv'
  <2>1. job'[Owner] = "close" => job[Owner] = "close"
    BY <1>10 DEF Give
  <2>2. \A s \in Shards : records'[s] = records[s] \/ records'[s] = <<>>
    BY <1>10 DEF Give
  <2>3. toVisit'[Owner] = toVisit[Owner]
    BY <1>10 DEF Give
  <2>4. pc[Owner] \in BatchPcs \union {"next"} => pc'[Owner] \in BatchPcs \union {"next"}
    BY <1>10 DEF Give, BatchPcs
  <2>5. pc[Owner] \in {"copy", "clear"} =>
          \/ pc'[Owner] \in {"copy", "clear"} /\ cur'[Owner] = cur[Owner]
          \/ records'[cur[Owner]] = <<>>
    BY <1>10 DEF Give
  <2> QED
    BY <2>1, <2>2, <2>3, <2>4, <2>5, RoundGoesOn
<1>11. ASSUME NEW t \in Threads, Assign(t) PROVE EmptiedInv'
  <2>1. job'[Owner] = "close" => job[Owner] = "close"
    BY <1>11, LeaveFacts DEF Assign
  <2>2. CASE job[Owner] # "close"
    BY <2>1, <2>2 DEF EmptiedInv
  <2>3. CASE job[Owner] = "close"
    <3>1. t = Owner => After(t) = "next"
      BY <2>3 DEF After
    <3>2. \A s \in Shards : records'[s] = records[s] \/ records'[s] = <<>>
      BY <1>11 DEF Assign
    <3>3. toVisit'[Owner] = toVisit[Owner]
      BY <1>11 DEF Assign
    <3>4. pc[Owner] \in BatchPcs \union {"next"} => pc'[Owner] \in BatchPcs \union {"next"}
      BY <1>11, <3>1, LeaveFacts DEF Assign, BatchPcs
    <3>5. pc[Owner] \in {"copy", "clear"} =>
            \/ pc'[Owner] \in {"copy", "clear"} /\ cur'[Owner] = cur[Owner]
            \/ records'[cur[Owner]] = <<>>
      BY <1>11, LeaveFacts DEF Assign
    <3> QED
      BY <2>1, <3>2, <3>3, <3>4, <3>5, RoundGoesOn
  <2> QED
    BY <2>2, <2>3
<1>12. ASSUME NEW t \in Threads, Throw(t) PROVE EmptiedInv'
  <2>1. UNCHANGED records
    BY <1>12 DEF Throw
  <2>2. job'[Owner] = "close" => job[Owner] = "close"
    BY <1>12 DEF Throw, PlaceInv, BatchPcs
  <2>3. job[Owner] = "close" =>
          pc'[Owner] = pc[Owner] /\ cur'[Owner] = cur[Owner] /\ toVisit'[Owner] = toVisit[Owner]
    BY <1>12 DEF Throw, PlaceInv, BatchPcs
  <2> QED
    BY <2>1, <2>2, <2>3, OwnerStays
<1>13. ASSUME NEW t \in Threads, ThrowUncaught(t) PROVE EmptiedInv'
  <2>1. UNCHANGED records
    BY <1>13 DEF ThrowUncaught
  <2>2. job'[Owner] = "close" => job[Owner] = "close"
    BY <1>13 DEF ThrowUncaught
  <2>3. job[Owner] = "close" =>
          pc'[Owner] = pc[Owner] /\ cur'[Owner] = cur[Owner] /\ toVisit'[Owner] = toVisit[Owner]
    BY <1>13 DEF ThrowUncaught
  <2> QED
    BY <2>1, <2>2, <2>3, OwnerStays
<1>14. ASSUME NEW t \in Threads, VisitNext(t) PROVE EmptiedInv'
  <2>1. UNCHANGED <<records, job>> /\ pc[t] = "next"
    BY <1>14 DEF VisitNext
  <2>2. CASE t = Owner
    <3>1. PICK s \in toVisit[Owner] :
            /\ cur'[Owner] = s /\ toVisit'[Owner] = toVisit[Owner] \ {s} /\ pc'[Owner] = "copy"
      BY <1>14, <2>2 DEF VisitNext, Rest
    <3> QED
      BY <2>1, <2>2, <3>1 DEF EmptiedInv, BatchPcs
  <2>3. CASE t # Owner
    <3>1. pc'[Owner] = pc[Owner] /\ cur'[Owner] = cur[Owner] /\ toVisit'[Owner] = toVisit[Owner]
      BY <1>14, <2>3 DEF VisitNext
    <3> QED
      BY <2>1, <3>1, OwnerStays
  <2> QED
    BY <2>2, <2>3
<1>15. ASSUME NEW t \in Threads, EndFlush(t) PROVE EmptiedInv'
  <2>1. UNCHANGED <<records, cur>> /\ pc[t] = "next" /\ toVisit[t] = {}
    BY <1>15 DEF EndFlush
  <2>2. job'[Owner] = "close" => job[Owner] = "close"
    BY <1>15 DEF EndFlush
  <2>3. CASE t = Owner
    <3>1. job[Owner] = "close" => \A s \in Shards : records[s] = <<>>
      BY <2>1, <2>3 DEF EmptiedInv
    <3> QED
      BY <2>1, <2>2, <3>1 DEF EmptiedInv
  <2>4. CASE t # Owner
    <3>1. pc'[Owner] = pc[Owner] /\ toVisit'[Owner] = toVisit[Owner]
      BY <1>15, <2>4 DEF EndFlush
    <3> QED
      BY <2>1, <2>2, <3>1, OwnerStays
  <2> QED
    BY <2>3, <2>4
<1>16. CASE Construct
  <2>1. UNCHANGED records
    BY <1>16 DEF Construct
  <2>2. job'[Owner] = "close" => job[Owner] = "close"
    BY <1>16 DEF Construct, PlaceInv, BatchPcs
  <2>3. job[Owner] = "close" =>
          pc'[Owner] = pc[Owner] /\ cur'[Owner] = cur[Owner] /\ toVisit'[Owner] = toVisit[Owner]
    BY <1>16 DEF Construct, PlaceInv, BatchPcs
  <2> QED
    BY <2>1, <2>2, <2>3, OwnerStays
<1>17. CASE StartClose
  <2>1. toVisit'[Owner] = Shards /\ pc'[Owner] = "next"
    BY <1>17 DEF StartClose
  <2> QED
    BY <2>1 DEF EmptiedInv
<1>18. CASE Drain
  <2>1. UNCHANGED <<records, job, cur>> /\ pc[Owner] = "drain"
    BY <1>18 DEF Drain
  <2>2. job[Owner] = "close" => \A s \in Shards : records[s] = <<>>
    BY <2>1 DEF EmptiedInv, BatchPcs
  <2> QED
    BY <2>1, <2>2 DEF EmptiedInv
<1>19. CASE Join
  <2>1. job'[Owner] = "close" => job[Owner] = "close"
    BY <1>19 DEF Join
  <2>2. \A s \in Shards : records'[s] = records[s] \/ records'[s] = <<>>
    BY <1>19 DEF Join
  <2>3. toVisit'[Owner] = toVisit[Owner]
    BY <1>19 DEF Join
  <2>4. pc[Owner] \in BatchPcs \union {"next"} => pc'[Owner] \in BatchPcs \union {"next"}
    BY <1>19 DEF Join, BatchPcs
  <2>5. pc[Owner] \in {"copy", "clear"} =>
          \/ pc'[Owner] \in {"copy", "clear"} /\ cur'[Owner] = cur[Owner]
          \/ records'[cur[Owner]] = <<>>
    BY <1>19 DEF Join
  <2> QED
    BY <2>1, <2>2, <2>3, <2>4, <2>5, RoundGoesOn
<1>20. CASE TestStatus
  <2>1. UNCHANGED records
    BY <1>20 DEF TestStatus
  <2>2. job'[Owner] = "close" => job[Owner] = "close"
    BY <1>20 DEF TestStatus
  <2>3. job[Owner] = "close" =>
          pc'[Owner] = pc[Owner] /\ cur'[Owner] = cur[Owner] /\ toVisit'[Owner] = toVisit[Owner]
    BY <1>20 DEF TestStatus
  <2> QED
    BY <2>1, <2>2, <2>3, OwnerStays
<1>21. CASE Sweep
  <2>1. UNCHANGED records
    BY <1>21 DEF Sweep
  <2>2. job'[Owner] = "close" => job[Owner] = "close"
    BY <1>21 DEF Sweep
  <2>3. job[Owner] = "close" =>
          pc'[Owner] = pc[Owner] /\ cur'[Owner] = cur[Owner] /\ toVisit'[Owner] = toVisit[Owner]
    BY <1>21 DEF Sweep
  <2> QED
    BY <2>1, <2>2, <2>3, OwnerStays
<1>22. CASE TryLock
  <2>1. UNCHANGED records
    BY <1>22 DEF TryLock
  <2>2. job'[Owner] = "close" => job[Owner] = "close"
    BY <1>22 DEF TryLock
  <2>3. job[Owner] = "close" =>
          pc'[Owner] = pc[Owner] /\ cur'[Owner] = cur[Owner] /\ toVisit'[Owner] = toVisit[Owner]
    BY <1>22 DEF TryLock
  <2> QED
    BY <2>1, <2>2, <2>3, OwnerStays
<1>23. CASE TryPermit
  <2>1. UNCHANGED records
    BY <1>23 DEF TryPermit
  <2>2. job'[Owner] = "close" => job[Owner] = "close"
    BY <1>23, LeaveFacts DEF TryPermit, PlaceInv
  <2>3. job[Owner] = "close" =>
          pc'[Owner] = pc[Owner] /\ cur'[Owner] = cur[Owner] /\ toVisit'[Owner] = toVisit[Owner]
    BY <1>23, LeaveFacts DEF TryPermit, PlaceInv
  <2> QED
    BY <2>1, <2>2, <2>3, OwnerStays
<1>24. ASSUME NEW w \in WP!Workers, Work(w) PROVE EmptiedInv'
  <2>1. UNCHANGED records
    BY <1>24 DEF Work
  <2>2. job'[Owner] = "close" => job[Owner] = "close"
    BY <1>24 DEF Work
  <2>3. job[Owner] = "close" =>
          pc'[Owner] = pc[Owner] /\ cur'[Owner] = cur[Owner] /\ toVisit'[Owner] = toVisit[Owner]
    BY <1>24 DEF Work
  <2> QED
    BY <2>1, <2>2, <2>3, OwnerStays
<1>25. CASE DestroyPool
  <2>1. UNCHANGED records
    BY <1>25 DEF DestroyPool
  <2>2. job'[Owner] = "close" => job[Owner] = "close"
    BY <1>25 DEF DestroyPool
  <2>3. job[Owner] = "close" =>
          pc'[Owner] = pc[Owner] /\ cur'[Owner] = cur[Owner] /\ toVisit'[Owner] = toVisit[Owner]
    BY <1>25 DEF DestroyPool
  <2> QED
    BY <2>1, <2>2, <2>3, OwnerStays
<1>26. ASSUME NEW w \in WP!Workers, SpuriousWakeup(w) PROVE EmptiedInv'
  <2>1. UNCHANGED records
    BY <1>26 DEF SpuriousWakeup
  <2>2. job'[Owner] = "close" => job[Owner] = "close"
    BY <1>26 DEF SpuriousWakeup
  <2>3. job[Owner] = "close" =>
          pc'[Owner] = pc[Owner] /\ cur'[Owner] = cur[Owner] /\ toVisit'[Owner] = toVisit[Owner]
    BY <1>26 DEF SpuriousWakeup
  <2> QED
    BY <2>1, <2>2, <2>3, OwnerStays
<1>27. ASSUME NEW s \in Shards, Age(s) PROVE EmptiedInv'
  <2>1. UNCHANGED records
    BY <1>27 DEF Age
  <2>2. job'[Owner] = "close" => job[Owner] = "close"
    BY <1>27 DEF Age
  <2>3. job[Owner] = "close" =>
          pc'[Owner] = pc[Owner] /\ cur'[Owner] = cur[Owner] /\ toVisit'[Owner] = toVisit[Owner]
    BY <1>27 DEF Age
  <2> QED
    BY <2>1, <2>2, <2>3, OwnerStays
<1>28. CASE WriteThrows
  <2>1. UNCHANGED records
    BY <1>28 DEF WriteThrows
  <2>2. job'[Owner] = "close" => job[Owner] = "close"
    BY <1>28 DEF WriteThrows
  <2>3. job[Owner] = "close" =>
          pc'[Owner] = pc[Owner] /\ cur'[Owner] = cur[Owner] /\ toVisit'[Owner] = toVisit[Owner]
    BY <1>28 DEF WriteThrows
  <2> QED
    BY <2>1, <2>2, <2>3, OwnerStays
<1>29. CASE Crash
  <2>1. UNCHANGED records
    BY <1>29 DEF Crash
  <2>2. job'[Owner] = "close" => job[Owner] = "close"
    BY <1>29 DEF Crash
  <2>3. job[Owner] = "close" =>
          pc'[Owner] = pc[Owner] /\ cur'[Owner] = cur[Owner] /\ toVisit'[Owner] = toVisit[Owner]
    BY <1>29 DEF Crash
  <2> QED
    BY <2>1, <2>2, <2>3, OwnerStays
<1>30. CASE UNCHANGED vars
  <2>1. UNCHANGED records
    BY <1>30 DEF vars
  <2>2. job'[Owner] = "close" => job[Owner] = "close"
    BY <1>30 DEF vars
  <2>3. job[Owner] = "close" =>
          pc'[Owner] = pc[Owner] /\ cur'[Owner] = cur[Owner] /\ toVisit'[Owner] = toVisit[Owner]
    BY <1>30 DEF vars
  <2> QED
    BY <2>1, <2>2, <2>3, OwnerStays
<1> QED
  BY <1>1, <1>2, <1>3, <1>4, <1>5, <1>6, <1>7, <1>8, <1>9, <1>10, <1>11, <1>12, <1>13, <1>14, 
     <1>15, <1>16, <1>17, <1>18, <1>19, <1>20, <1>21, <1>22, <1>23, <1>24, <1>25, <1>26, <1>27, 
     <1>28, <1>29, <1>30, StepCases

-----------------------------------------------------------------------------
(* The invariant.                                                          *)

(* Nothing is put or taken out yet.                                        *)
LEMMA BatchInit == Init => BatchInv
<1> SUFFICES ASSUME Init PROVE BatchInv
  OBVIOUS
<1> USE ConstantFacts
<1>1. IndInv
  BY IndInit
<1>2. /\ \A s \in Shards :
           records[s] = <<>> /\ putLog[s] = <<>> /\ database[s] = <<>> /\ size[s] = 0
      /\ \A a \in Actions : payload[a] = <<>>
      /\ \A t \in Threads : pc[t] \in {"test", "constructing"} /\ job[t] \in {"watch", "none"}
      /\ rejected = {}
  BY DEF Init, WP!Init
<1>3. HandInv
  BY <1>2, EmptySet DEF HandInv, HandPcs
<1>4. EmptiedInv
  BY <1>2 DEF EmptiedInv
<1>5. ASSUME NEW s \in Shards PROVE ShardInv(s) /\ TargetInv(s)
  <2>1. Holding(s) = {} /\ Clearing(s) = {} /\ Batches(s) = {} /\ Written(s) = {}
    BY <1>2 DEF Holding, Clearing, AtClear, Batches, Written
  <2>2. EndOf(records[s], putLog[s])
    <3>1. putLog[s] \in Seq(Records)
      BY <1>1, <1>5 DEF IndInv, TypeOK
    <3> QED
      BY <1>2, <3>1, EmptyAtEnd
  <2>3. ClearInv(s) /\ RunInv(s) /\ CoverInv(s) /\ ApartInv(s)
    BY <1>2, <2>1, <2>2, EmptySet DEF ClearInv, RunInv, CoverInv, ApartInv
  <2>4. StoredInv(s)
    BY <1>2, <2>1, EmptySet DEF StoredInv
  <2>5. SizeInv(s) /\ TargetInv(s)
    BY <1>2, SizesEmpty, EmptyIsBelow DEF SizeInv, TargetInv
  <2> QED
    BY <2>3, <2>4, <2>5 DEF ShardInv
<1> QED
  BY <1>1, <1>3, <1>4, <1>5 DEF BatchInv

(* Every step keeps the invariant; a shard that is not raced after it was  *)
(* not raced before it.                                                    *)
LEMMA BatchStep == BatchInv /\ [Next]_vars => BatchInv'
<1> SUFFICES ASSUME BatchInv, [Next]_vars PROVE BatchInv'
  OBVIOUS
<1>1. IndInv /\ HandInv /\ EmptiedInv /\ TypeOK /\ LogInv
  BY DEF BatchInv, IndInv, PutInv
<1>2. IndInv' /\ HandInv' /\ EmptiedInv'
  BY <1>1, IndStep, HandStep, EmptiedStep
<1>3. ASSUME NEW s \in Shards, s \notin raced' PROVE ShardInv(s)' /\ TargetInv(s)'
  <2>1. ShardInv(s) /\ TargetInv(s)
    BY <1>1, <1>3, RaceStep DEF BatchInv
  <2>2. ShardTypes(s) /\ ShardMoves(s)
    BY <1>1, <1>3, TypesHold, ShardStep
  <2>3. ShardInv(s)'
    BY <2>1, <2>2, ShardInvStep
  <2>4. TargetInv(s)'
    BY <1>1, <1>3, <2>1, TargetStep DEF ShardInv
  <2> QED
    BY <2>3, <2>4
<1> QED
  BY <1>2, <1>3 DEF BatchInv

(* The invariant holds in every behaviour of a client.                     *)
THEOREM BatchInvariance == Spec => []BatchInv
BY BatchInit, BatchStep, PTL DEF Spec

-----------------------------------------------------------------------------
(* What follows for the records.                                           *)

(* A run in the words of Client.                                           *)
LEMMA RunIsRunOf ==
  ASSUME NEW S, NEW seq \in Seq(S), NEW log \in Seq(S), Run(seq, log)
  PROVE  IsRunOf(seq, log)
<1>1. PICK i \in 0 .. Len(log) : RunAt(seq, log, i)
  BY DEF Run
<1> DEFINE rest == SubSeq(log, i + 1, Len(log))
<1>2. /\ Len(seq) \in Nat /\ Len(log) \in Nat /\ DOMAIN seq = 1 .. Len(seq)
      /\ Len(rest) = Len(log) - i
      /\ \A j \in 1 .. Len(log) - i : rest[j] = log[i + j]
  BY <1>1, SMT
<1>3. Len(seq) <= Len(rest) /\ \A j \in 1 .. Len(seq) : seq[j] = rest[j]
  BY <1>1, <1>2 DEF RunAt
<1>4. IsPrefix(seq, rest)
  <2>1. /\ rest \in Seq(S) /\ SubSeq(rest, 1, Len(seq)) \in Seq(S)
        /\ Len(SubSeq(rest, 1, Len(seq))) = Len(seq)
        /\ \A j \in 1 .. Len(seq) : SubSeq(rest, 1, Len(seq))[j] = rest[j]
    BY <1>2, <1>3, SMT
  <2>2. seq = SubSeq(rest, 1, Len(seq))
    BY <1>3, <2>1, SeqEqual
  <2> QED
    BY <1>2, <1>3, <2>2 DEF IsPrefix
<1> QED
  BY <1>4 DEF IsRunOf

(* A batch, and what is left in the vector, is an unbroken run of the      *)
(* puts, even if flush() is called by several threads: client.h:87-104.    *)
THEOREM BatchesAreRuns == Spec => []OnlyBatchesOvertake
<1>1. ASSUME BatchInv PROVE OnlyBatchesOvertake
  <2> SUFFICES ASSUME NEW s \in Shards \ raced
               PROVE  /\ IsRunOf(records[s], putLog[s])
                      /\ \A t \in Holding(s) : IsRunOf(taken[t], putLog[s])
                      /\ \A a \in Actions : payload[a] # <<>> /\ ShardOfBatch(a) = s =>
                           IsRunOf(payload[a], putLog[s])
    BY DEF OnlyBatchesOvertake
  <2>1. RunInv(s) /\ ShardTypes(s)
    BY <1>1, TypesHold DEF BatchInv, ShardInv, IndInv, PutInv
  <2>2. IsRunOf(records[s], putLog[s])
    BY <2>1, EndIsRun, RunIsRunOf DEF RunInv, ShardTypes
  <2>3. \A t \in Holding(s) : IsRunOf(taken[t], putLog[s])
    BY <2>1, ShardSets, RunIsRunOf DEF RunInv, ShardTypes
  <2>4. \A a \in Batches(s) : IsRunOf(payload[a], putLog[s])
    BY <2>1, ShardSets, RunIsRunOf DEF RunInv, ShardTypes
  <2> QED
    BY <2>2, <2>3, <2>4 DEF Batches
<1> QED
  BY <1>1, BatchInvariance, PTL

(* size is the size of the records in the vector, unless a thread is       *)
(* moving them out: shard_collector.h:34-53.                               *)
THEOREM SizeIsRight == Spec => []SizeTracksRecords
<1>1. BatchInv => SizeTracksRecords
  BY DEF BatchInv, ShardInv, SizeInv, Clearing, AtClear, SizeTracksRecords
<1> QED
  BY <1>1, BatchInvariance, PTL

(* A shard whose mutex is free has not reached its target: client.h:79-85. *)
THEOREM TargetIsKept == Spec => []BelowTarget
<1>1. ASSUME BatchInv PROVE BelowTarget
  <2> SUFFICES ASSUME NEW s \in Shards \ (shardLocked \union raced) PROVE Below(s)
    BY DEF BelowTarget, Below
  <2>1. TargetInv(s) /\ MutexInv
    BY <1>1 DEF BatchInv, IndInv
  <2>2. ASSUME NEW t \in Threads, Filling(t, s) PROVE s \in shardLocked
    <3>1. HasMutex(t) /\ cur[t] = s
      BY <2>2 DEF Filling, HasMutex, BatchPcs
    <3> QED
      BY <2>1, <3>1 DEF MutexInv
  <2> QED
    BY <2>1, <2>2 DEF TargetInv
<1> QED
  BY <1>1, BatchInvariance, PTL

(* The places where a record of shard s may be.                            *)
InDatabase(r, s) == r \in ToSet(database[s])
InVector(r, s) == r \in ToSet(records[s])
InHands(r, s) == \E t \in Holding(s) : r \in ToSet(taken[t])
AtWorker(r, s) == \E a \in Underway(s) : r \in ToSet(payload[a])

(* A batch that is written was accepted, and one that is underway is one   *)
(* that was handed over and not written.                                   *)
LEMMA UnderwayFacts ==
  ASSUME Pool!IndInv, NEW s
  PROVE  /\ Underway(s) \subseteq Batches(s) \ Written(s)
         /\ \A a \in Written(s) : fate[a] = "accepted"
BY DEF Underway, Batches, Written, Pool!IndInv, Pool!WrittenOnce

(* A record that is not gone is in one of the places.                      *)
LEMMA SomewhereStill ==
  ASSUME BatchInv, NEW s \in Shards \ raced, NEW r \in Kept(s)
  PROVE  InDatabase(r, s) \/ InVector(r, s) \/ InHands(r, s) \/ AtWorker(r, s)
<1>1. CoverInv(s) /\ StoredInv(s) /\ HandInv
  BY DEF BatchInv, ShardInv
<1>2. r \in ToSet(putLog[s]) /\ r \notin Gone
  BY DEF Kept
<1>3. ASSUME NEW a \in Batches(s), r \in ToSet(payload[a])
      PROVE  InDatabase(r, s) \/ AtWorker(r, s)
  <2>1. a \in Actions /\ payload[a] # <<>> /\ ShardOfBatch(a) = s
    BY <1>3 DEF Batches
  <2>2. fate[a] # "dropped" /\ a \notin rejected
    BY <1>2, <1>3, <2>1 DEF Gone
  <2>3. fate[a] = "accepted"
    BY <1>1, <2>1, <2>2 DEF HandInv
  <2>4. writes[a] = 0 \/ writes[a] = 1
    BY <2>1 DEF BatchInv, IndInv, Pool!IndInv, Pool!TypeOK, Pool!WrittenOnce
  <2>5. CASE writes[a] = 0
    BY <1>3, <2>1, <2>3, <2>5 DEF AtWorker, Underway
  <2>6. CASE writes[a] = 1
    BY <1>1, <1>3, <2>2, <2>6 DEF InDatabase, Written, StoredInv
  <2> QED
    BY <2>4, <2>5, <2>6
<1> QED
  BY <1>1, <1>2, <1>3 DEF CoverInv, InVector, InHands

(* It is not in two places.                                                *)
LEMMA NowhereTwice ==
  ASSUME BatchInv, NEW s \in Shards \ raced, NEW r
  PROVE  /\ InDatabase(r, s) => ~InVector(r, s) /\ ~InHands(r, s) /\ ~AtWorker(r, s)
         /\ InVector(r, s) => ~InHands(r, s) /\ ~AtWorker(r, s)
         /\ InHands(r, s) => ~AtWorker(r, s)
         /\ \A t, u \in Holding(s) : r \in ToSet(taken[t]) /\ r \in ToSet(taken[u]) => t = u
         /\ \A a, b \in Underway(s) : r \in ToSet(payload[a]) /\ r \in ToSet(payload[b]) => a = b
<1>1. ApartInv(s) /\ StoredInv(s) /\ Underway(s) \subseteq Batches(s) \ Written(s)
  BY UnderwayFacts DEF BatchInv, ShardInv, IndInv
<1>2. Written(s) \subseteq Batches(s)
  BY DEF Written
<1>3. InDatabase(r, s) => \E a \in Written(s) : r \in ToSet(payload[a])
  BY <1>1 DEF InDatabase, StoredInv
<1>4. /\ \A t \in Holding(s) : ~(r \in ToSet(taken[t]) /\ r \in ToSet(records[s]))
      /\ \A a \in Batches(s) : ~(r \in ToSet(payload[a]) /\ r \in ToSet(records[s]))
      /\ \A t, u \in Holding(s) : t # u => ~(r \in ToSet(taken[t]) /\ r \in ToSet(taken[u]))
      /\ \A t \in Holding(s), a \in Batches(s) :
           ~(r \in ToSet(taken[t]) /\ r \in ToSet(payload[a]))
      /\ \A a, b \in Batches(s) : a # b => ~(r \in ToSet(payload[a]) /\ r \in ToSet(payload[b]))
  BY <1>1 DEF ApartInv, Apart
<1>5. InDatabase(r, s) => ~InVector(r, s) /\ ~InHands(r, s)
  BY <1>2, <1>3, <1>4 DEF InVector, InHands
<1>6. InDatabase(r, s) => ~AtWorker(r, s)
  BY <1>1, <1>2, <1>3, <1>4 DEF AtWorker
<1>7. InVector(r, s) => ~InHands(r, s) /\ ~AtWorker(r, s)
  BY <1>1, <1>4 DEF InVector, InHands, AtWorker
<1>8. InHands(r, s) => ~AtWorker(r, s)
  BY <1>1, <1>4 DEF InHands, AtWorker
<1>9. /\ \A t, u \in Holding(s) : r \in ToSet(taken[t]) /\ r \in ToSet(taken[u]) => t = u
      /\ \A a, b \in Underway(s) : r \in ToSet(payload[a]) /\ r \in ToSet(payload[b]) => a = b
  BY <1>1, <1>4
<1> QED
  BY <1>5, <1>6, <1>7, <1>8, <1>9

(* A set of which all members are the same has one or none.                *)
LEMMA OneOrNone ==
  ASSUME NEW S, \A x, y \in S : x = y
  PROVE  Cardinality(S) = IF S = {} THEN 0 ELSE 1
<1>1. CASE S = {}
  BY <1>1, FS_EmptySet
<1>2. CASE S # {}
  <2>1. PICK x \in S : TRUE
    BY <1>2
  <2>2. S = {x}
    BY <2>1
  <2> QED
    BY <1>2, <2>2, FS_Singleton
<1> QED
  BY <1>1, <1>2

(* How often an element occurs in a sequence without repetition.           *)
LEMMA OccursOnce ==
  ASSUME NEW seq, NEW r, Distinct(seq)
  PROVE  Cardinality({i \in DOMAIN seq : seq[i] = r}) = IF r \in ToSet(seq) THEN 1 ELSE 0
<1> DEFINE at == {i \in DOMAIN seq : seq[i] = r}
<1>1. \A i, j \in at : i = j
  BY DEF Distinct
<1>2. at = {} <=> r \notin ToSet(seq)
  BY DEF ToSet
<1> QED
  BY <1>1, <1>2, OneOrNone

(* A record that was put and is not gone is in one place, and there once,  *)
(* even if flush() is called by several threads: client.h:79-104.          *)
THEOREM EveryRecordIsSomewhere == Spec => []NothingLost
<1>1. ASSUME BatchInv PROVE NothingLost
  <2> SUFFICES ASSUME NEW s \in Shards \ raced, NEW r \in Kept(s)
               PROVE  Cardinality({i \in DOMAIN database[s] : database[s][i] = r})
                        + Cardinality({i \in DOMAIN records[s] : records[s][i] = r})
                        + Cardinality({a \in Underway(s) : r \in ToSet(payload[a])})
                        + Cardinality({t \in Holding(s) : r \in ToSet(taken[t])}) = 1
    BY DEF NothingLost
  <2>1. ShardTypes(s) /\ RunInv(s) /\ StoredInv(s)
    BY <1>1, TypesHold DEF BatchInv, ShardInv, IndInv, PutInv
  <2>2. Distinct(records[s]) /\ Distinct(database[s])
    <3>1. Run(records[s], putLog[s])
      BY <2>1, EndIsRun DEF RunInv
    <3> QED
      BY <2>1, <3>1, RunFacts DEF ShardTypes, StoredInv, Distinct
  <2>3. Cardinality({i \in DOMAIN database[s] : database[s][i] = r})
          = IF InDatabase(r, s) THEN 1 ELSE 0
    BY <2>2, OccursOnce DEF InDatabase
  <2>4. Cardinality({i \in DOMAIN records[s] : records[s][i] = r})
          = IF InVector(r, s) THEN 1 ELSE 0
    BY <2>2, OccursOnce DEF InVector
  <2>5. Cardinality({a \in Underway(s) : r \in ToSet(payload[a])})
          = IF AtWorker(r, s) THEN 1 ELSE 0
    <3>1. {a \in Underway(s) : r \in ToSet(payload[a])} = {} <=> ~AtWorker(r, s)
      BY DEF AtWorker
    <3> QED
      BY <1>1, <3>1, NowhereTwice, OneOrNone
  <2>6. Cardinality({t \in Holding(s) : r \in ToSet(taken[t])})
          = IF InHands(r, s) THEN 1 ELSE 0
    <3>1. {t \in Holding(s) : r \in ToSet(taken[t])} = {} <=> ~InHands(r, s)
      BY DEF InHands
    <3> QED
      BY <1>1, <3>1, NowhereTwice, OneOrNone
  <2>7. InDatabase(r, s) \/ InVector(r, s) \/ InHands(r, s) \/ AtWorker(r, s)
    BY <1>1, SomewhereStill
  <2>8. /\ InDatabase(r, s) => ~InVector(r, s) /\ ~InHands(r, s) /\ ~AtWorker(r, s)
        /\ InVector(r, s) => ~InHands(r, s) /\ ~AtWorker(r, s)
        /\ InHands(r, s) => ~AtWorker(r, s)
    BY <1>1, NowhereTwice
  <2> HIDE DEF InDatabase, InVector, InHands, AtWorker
  <2> QED
    BY <2>3, <2>4, <2>5, <2>6, <2>7, <2>8
<1> QED
  BY <1>1, BatchInvariance, PTL

(* What is in the database is not gone.                                    *)
LEMMA StoredIsKept ==
  ASSUME BatchInv, NEW s \in Shards \ raced, NEW r \in ToSet(database[s])
  PROVE  r \in Kept(s)
<1>1. ApartInv(s) /\ StoredInv(s) /\ RunInv(s) /\ ShardTypes(s) /\ HandInv /\ LogInv
  BY TypesHold DEF BatchInv, ShardInv, IndInv, PutInv
<1>2. PICK a \in Written(s) : r \in ToSet(payload[a])
  BY <1>1 DEF StoredInv
<1>3. a \in Batches(s) /\ a \in Actions /\ a \notin rejected /\ fate[a] = "accepted"
  BY UnderwayFacts DEF BatchInv, IndInv, Written, Batches
<1>4. r \in ToSet(putLog[s])
  BY <1>1, <1>2, <1>3, RunFacts DEF RunInv, ShardTypes
<1>5. ASSUME NEW b \in Actions, fate[b] = "dropped" \/ b \in rejected, r \in ToSet(payload[b])
      PROVE  FALSE
  <2>1. payload[b] # <<>>
    BY <1>5, EmptySet
  <2>2. ShardOfBatch(b) = s
    BY <1>1, <1>4, <1>5 DEF HandInv, LogInv
  <2>3. b \in Batches(s) /\ a # b
    BY <1>3, <1>5, <2>1, <2>2 DEF Batches
  <2> QED
    BY <1>1, <1>2, <1>3, <1>5, <2>3 DEF ApartInv, Apart
<1> QED
  BY <1>4, <1>5 DEF Kept, Gone

(* When ~WorkerPool has ended, no record of the client is elsewhere.       *)
LEMMA NothingLeft ==
  ASSUME BatchInv, cpc = "closed", NEW s \in Shards
  PROVE  records[s] = <<>> /\ Holding(s) = {} /\ Underway(s) = {}
<1> USE ConstantFacts
<1>1. TypeOK /\ PlaceInv /\ PermitInv /\ Pool!IndInv /\ EmptiedInv
  BY DEF BatchInv, IndInv
<1>2. pc[Owner] = "destroyed" /\ pc[Watcher] = "ended"
  BY <1>1 DEF PermitInv
<1>3. job[Owner] = "close"
  BY <1>1, <1>2, Domains DEF PlaceInv, Jobs, BatchPcs
<1>4. records[s] = <<>>
  BY <1>1, <1>2, <1>3 DEF EmptiedInv, BatchPcs
<1>5. Holding(s) = {}
  <2>1. \A t \in Threads : pc[t] \in {"destroyed", "ended", "idle"}
    BY <1>1, <1>2, <1>3 DEF PlaceInv
  <2> QED
    BY <2>1 DEF Holding
<1>6. ASSUME NEW a \in Underway(s) PROVE FALSE
  <2>1. a \in Actions /\ fate[a] = "accepted" /\ writes[a] = 0
    BY <1>6 DEF Underway
  <2>2. a \notin resolved
    BY <1>1, <2>1 DEF Pool!IndInv, Pool!WrittenOnce
  <2>3. PICK w \in Pool!Workers : status[w] = "BUSY"
    BY <1>1, <2>1, <2>2 DEF Pool!IndInv, Pool!AcceptedHasOneWorker
  <2>4. status[w] = "UNAVAILABLE"
    BY <1>1, PoolFacts DEF Pool!IndInv, Pool!CloseInv, Pool!Workers
  <2> QED
    BY <2>3, <2>4
<1> QED
  BY <1>4, <1>5, <1>6

(* When the destructor is done, the database has what was put and is not   *)
(* gone, and nothing else: client.h:62-77.                                 *)
THEOREM DestructorWritesAll == Spec => []CloseWritesAll
<1>1. ASSUME BatchInv PROVE CloseWritesAll
  <2> SUFFICES ASSUME cpc = "closed", NEW s \in Shards \ raced
               PROVE  ToSet(database[s]) = Kept(s)
    BY DEF CloseWritesAll
  <2>1. records[s] = <<>> /\ Holding(s) = {} /\ Underway(s) = {}
    BY <1>1, NothingLeft
  <2>2. \A r \in Kept(s) : ~InVector(r, s) /\ ~InHands(r, s) /\ ~AtWorker(r, s)
    BY <2>1, EmptySet DEF InVector, InHands, AtWorker
  <2>3. \A r \in Kept(s) : r \in ToSet(database[s])
    BY <1>1, <2>2, SomewhereStill DEF InDatabase
  <2>4. \A r \in ToSet(database[s]) : r \in Kept(s)
    BY <1>1, StoredIsKept
  <2> QED
    BY <2>3, <2>4
<1> QED
  BY <1>1, BatchInvariance, PTL
=============================================================================
