---------------------------- MODULE CollectorProofs ----------------------------
(***************************************************************************)
(* Proofs about Collector, for every number of threads, tables, records    *)
(* and configurations.  The inductive invariant is IndInv.                 *)
(***************************************************************************)
EXTENDS Collector, ShardingProofs, FiniteSetTheorems, TLAPS

(* Nothing is matched under a configuration that is not valid.             *)
ValidInv ==
  \/ ConfigValid(config)
  \/ /\ DOMAIN tables = {}
     /\ phase \in {"constructing", "pool", "rejected"}
     /\ \A t \in AppThreads : pc[t] = "idle"

(* What a thread knows where it is.                                        *)
KnownInv ==
  /\ pc[Watcher] \in {"idle", "sweep"}
  /\ \A t \in AppThreads :
       /\ pc[t] = "readSchema" => Table(t) \in DOMAIN schemas
       /\ pc[t] \in {"lookUp", "register", "match"} => Table(t) \in DOMAIN tables
       /\ pc[t] = "register" => next[t] < tables[Table(t)].numShards
       /\ pc[t] \notin {"register", "match"} => next[t] = 0

(* A shard of a known table is in the set, or a thread is on its way to    *)
(* put it there.                                                           *)
Coming(table, i) ==
  \E t \in AppThreads :
    /\ Table(t) = table
    /\ pc[t] = "lookUp" \/ (pc[t] = "register" /\ next[t] <= i)

RegInv ==
  \A table \in DOMAIN tables : \A i \in 0 .. tables[table].numShards - 1 :
    ShardOf(table, i) \in registered \/ Coming(table, i)

(* The one shard of a record.                                              *)
HoldersInv ==
  \A r \in Records : \A shard \in holders[r] :
    /\ TableOf[r] \in DOMAIN tables
    /\ IdOf[r] \in Int
    /\ tables[TableOf[r]].numShards > 0
    /\ shard = ShardOf(TableOf[r], Hash(IdOf[r], tables[TableOf[r]].numShards))

IndInv == TypeOK /\ OneNumber /\ ValidInv /\ KnownInv /\ RegInv /\ HoldersInv
-----------------------------------------------------------------------------
(* The constants, in the form the steps need.                              *)
LEMMA ConstantFacts ==
  /\ AppThreads \subseteq Threads /\ Watcher \in Threads /\ Watcher \notin AppThreads
  /\ \A r \in Records : TableOf[r] \in Tables
  /\ \A r \in Records : IdOf[r] # NotANumber => IdOf[r] \in Int
  /\ Answers \subseteq Nat /\ MaxPuts \in Nat
  /\ Configs \subseteq ConfigType
BY CollectorAssumption DEF Threads, Tables, ConfigType

(* A table gets a number of shards.                                        *)
LEMMA NumShardsNat ==
  ASSUME NEW c \in ConfigType, ConfigValid(c), NEW n \in Nat
  PROVE  NumShards(c, n) \in Nat
<1>1. CASE n = 0
  BY <1>1 DEF NumShards
<1>2. CASE n # 0
  BY <1>2, NumShardsIsMax
<1> QED
  BY <1>1, <1>2

(* The client starts with nothing known.                                   *)
LEMMA InitInv == Init => IndInv
<1> SUFFICES ASSUME Init PROVE IndInv
  OBVIOUS
<1> USE DEF Init
<1>1. DOMAIN tables = {} /\ DOMAIN schemas = {}
  OBVIOUS
<1>2. TypeOK
  <2>1. schemas \in [DOMAIN schemas -> Nat]
    BY <1>1
  <2>2. tables \in [DOMAIN tables -> [maker : AppThreads, numShards : Nat]]
    BY <1>1
  <2>3. AnyRecord \in Records
    BY CollectorAssumption DEF AnyRecord
  <2>4. holders \in [Records -> SUBSET UNION {Shards(table) : table \in DOMAIN tables}]
    OBVIOUS
  <2> QED
    BY <1>1, <2>1, <2>2, <2>3, <2>4, ConstantFacts DEF TypeOK, Phases, Pcs
<1> QED
  BY <1>1, <1>2, ConstantFacts DEF IndInv, OneNumber, ValidInv, KnownInv, RegInv, HoldersInv
-----------------------------------------------------------------------------
(* One lemma for each step.  First those that change nothing but where a   *)
(* thread is and what it has in hand.                                      *)
LEMMA QuietStep ==
  ASSUME IndInv, NEW t \in Threads, UNCHANGED <<config, sharedVars, holders>>,
         pc[t] \notin {"lookUp", "register"},
         \A u \in AppThreads \ {t} :
           pc'[u] = pc[u] /\ rec'[u] = rec[u] /\ next'[u] = next[u] /\ buckets'[u] = buckets[u]
  PROVE  /\ HoldersInv' /\ RegInv'
         /\ pc'[t] # "insertTable" \/ t \notin AppThreads => OneNumber'
         /\ ConfigValid(config) => ValidInv'
<1> USE DEF IndInv, sharedVars, ShardOf, Table
<1>1. HoldersInv'
  BY DEF HoldersInv
<1>2. ASSUME NEW table, NEW i, Coming(table, i) PROVE Coming(table, i)'
  <2>1. PICK u \in AppThreads :
          Table(u) = table /\ (pc[u] = "lookUp" \/ (pc[u] = "register" /\ next[u] <= i))
    BY <1>2 DEF Coming
  <2>2. u # t
    BY <2>1
  <2> QED
    BY <2>1, <2>2 DEF Coming
<1>3. RegInv'
  BY <1>2 DEF RegInv
<1>4. ASSUME pc'[t] # "insertTable" \/ t \notin AppThreads PROVE OneNumber'
  BY <1>4 DEF OneNumber
<1>5. ConfigValid(config) => ValidInv'
  BY DEF ValidInv
<1> QED
  BY <1>1, <1>3, <1>4, <1>5

LEMMA TypeStep ==
  ASSUME TypeOK, UNCHANGED <<config, sharedVars, holders>>,
         phase' \in Phases, pc' \in [Threads -> Pcs], rec' \in [AppThreads -> Records],
         buckets' \in [AppThreads -> Nat], next' \in [AppThreads -> Nat],
         scope' \in [Threads -> SUBSET registered], waiting' \subseteq waiting,
         puts' \in 0 .. MaxPuts, outcome' \in {"fine", "race", "divided by zero"}
  PROVE  TypeOK'
<1> USE DEF sharedVars
<1>1. \A table \in DOMAIN tables : Shards(table)' = Shards(table)
  BY DEF Shards, ShardOf
<1>2. UNION {Shards(table) : table \in DOMAIN tables}'
        = UNION {Shards(table) : table \in DOMAIN tables}
  BY <1>1
<1> DEFINE all == UNION {Shards(table) : table \in DOMAIN tables}
<1>3. registered' \subseteq all' /\ holders' \in [Records -> SUBSET all']
  BY <1>2 DEF TypeOK
<1>4. waiting' \subseteq UNION {holders'[r] : r \in Records}
  BY DEF TypeOK
<1> HIDE DEF all
<1>5. /\ config' \in Configs
      /\ schemas' \in [DOMAIN schemas' -> Nat] /\ DOMAIN schemas' \subseteq Tables
      /\ tables' \in [DOMAIN tables' -> [maker : AppThreads, numShards : Nat]]
      /\ DOMAIN tables' \subseteq DOMAIN schemas'
      /\ scope' \in [Threads -> SUBSET registered']
  BY DEF TypeOK
<1> QED
  BY <1>3, <1>4, <1>5 DEF TypeOK, all

(* A thread of the application that is not idle has a valid configuration. *)
LEMMA BusyIsValid ==
  ASSUME IndInv, NEW t \in AppThreads, pc[t] # "idle"
  PROVE  ConfigValid(config) /\ config \in ConfigType
BY ConstantFacts DEF IndInv, ValidInv, TypeOK

LEMMA StartPutInv ==
  ASSUME IndInv, ConfigValid(config), NEW t \in AppThreads, NEW r \in Records, StartPut(t, r)
  PROVE  IndInv'
<1> USE DEF StartPut, Goto, clientVars, sharedVars, sweepVars
<1>1. HoldersInv' /\ RegInv' /\ OneNumber' /\ ValidInv'
  BY QuietStep, ConstantFacts DEF IndInv, TypeOK
<1>2. TypeOK'
  <2>1. TypeOK
    BY DEF IndInv
  <2>2. /\ phase' \in Phases /\ pc' \in [Threads -> Pcs] /\ rec' \in [AppThreads -> Records]
        /\ buckets' \in [AppThreads -> Nat] /\ next' \in [AppThreads -> Nat]
        /\ scope' \in [Threads -> SUBSET registered] /\ waiting' \subseteq waiting
        /\ puts' \in 0 .. MaxPuts /\ outcome' \in {"fine", "race", "divided by zero"}
    <3>1. t \in Threads /\ MaxPuts \in Nat
      BY ConstantFacts
    <3>2. puts' \in 0 .. MaxPuts
      <4>1. puts \in 0 .. MaxPuts
        BY <2>1 DEF TypeOK
      <4> QED
        BY <3>1, <4>1
    <3>3. pc' \in [Threads -> Pcs] /\ rec' \in [AppThreads -> Records]
      BY <2>1, <3>1 DEF TypeOK, Pcs
    <3> QED
      BY <2>1, <3>2, <3>3 DEF TypeOK
  <2> QED
    BY <2>1, <2>2, TypeStep
<1>3. KnownInv'
  BY ConstantFacts DEF IndInv, TypeOK, KnownInv, Table
<1> QED
  BY <1>1, <1>2, <1>3 DEF IndInv

(* The steps that look for the table and its schema and ask the database.  *)
LEMMA AskInv ==
  ASSUME IndInv, NEW t \in AppThreads,
         Find(t) \/ FindSchema(t) \/ Retrieve(t) \/ RetrieveThrows(t)
  PROVE  IndInv'
<1> USE DEF Find, FindSchema, Retrieve, RetrieveThrows, Leave, Goto, Known,
            clientVars, sharedVars, matchVars, sweepVars
<1>0. AnyRecord \in Records
  BY CollectorAssumption DEF AnyRecord
<1>1. TypeOK
  BY DEF IndInv
<1>2. /\ buckets' \in [AppThreads -> Nat]
      /\ \A u \in AppThreads \ {t} : buckets'[u] = buckets[u]
  <2>1. CASE Find(t) \/ FindSchema(t)
    BY <1>1, <2>1 DEF TypeOK
  <2>2. CASE Retrieve(t)
    <3>1. PICK n \in Answers \union {1} : buckets' = [buckets EXCEPT ![t] = n]
      BY <2>2
    <3>2. n \in Nat
      BY ConstantFacts
    <3> QED
      BY <1>1, <3>1, <3>2 DEF TypeOK
  <2>3. CASE RetrieveThrows(t)
    BY <1>1, <2>3 DEF TypeOK
  <2> QED
    BY <2>1, <2>2, <2>3
<1>3. HoldersInv' /\ RegInv' /\ OneNumber' /\ ValidInv'
  <2>1. /\ pc[t] \notin {"idle", "lookUp", "register"} /\ pc'[t] # "insertTable"
        /\ UNCHANGED <<config, sharedVars, holders>>
    BY <1>1, ConstantFacts DEF TypeOK
  <2>2. ConfigValid(config) /\ t \in Threads
    BY <2>1, BusyIsValid, ConstantFacts
  <2>3. \A u \in AppThreads \ {t} : pc'[u] = pc[u] /\ rec'[u] = rec[u] /\ next'[u] = next[u]
    BY <1>1, ConstantFacts DEF TypeOK
  <2> QED
    BY <1>2, <2>1, <2>2, <2>3, QuietStep
<1>4. TypeOK'
  <2>1. /\ pc' \in [Threads -> Pcs] /\ rec' \in [AppThreads -> Records]
        /\ next' \in [AppThreads -> Nat]
    <3>1. PICK place \in Pcs : pc' = [pc EXCEPT ![t] = place]
      BY DEF Pcs
    <3>2. pc' \in [Threads -> Pcs]
      BY <1>1, <3>1 DEF TypeOK
    <3>3. /\ rec' = rec \/ rec' = [rec EXCEPT ![t] = AnyRecord]
          /\ next' = next \/ next' = [next EXCEPT ![t] = 0]
      OBVIOUS
    <3> HIDE DEF Find, FindSchema, Retrieve, RetrieveThrows
    <3>4. rec' \in [AppThreads -> Records]
      BY <1>0, <1>1, <3>3 DEF TypeOK
    <3>5. next' \in [AppThreads -> Nat]
      <4>1. next \in [AppThreads -> Nat]
        BY <1>1 DEF TypeOK
      <4>2. CASE next' = next
        BY <4>1, <4>2
      <4>3. CASE next' = [next EXCEPT ![t] = 0]
        BY <4>1, <4>3
      <4> QED
        BY <3>3, <4>2, <4>3
    <3> QED
      BY <3>2, <3>4, <3>5
  <2>2. /\ phase' \in Phases /\ UNCHANGED <<config, sharedVars, holders>>
        /\ scope' \in [Threads -> SUBSET registered] /\ waiting' \subseteq waiting
        /\ puts' \in 0 .. MaxPuts /\ outcome' \in {"fine", "race", "divided by zero"}
    BY <1>1 DEF TypeOK
  <2> QED
    BY <1>1, <1>2, <2>1, <2>2, TypeStep
<1>5. KnownInv'
  <2>1. /\ \A u \in Threads \ {t} : pc'[u] = pc[u]
        /\ \A u \in AppThreads \ {t} : rec'[u] = rec[u] /\ next'[u] = next[u]
        /\ UNCHANGED <<tables, schemas>> /\ t \in Threads
    BY <1>1, ConstantFacts DEF TypeOK
  <2>2. /\ pc'[t] = "readSchema" => rec'[t] = rec[t] /\ TableOf[rec[t]] \in DOMAIN schemas
        /\ pc'[t] = "match" => rec'[t] = rec[t] /\ TableOf[rec[t]] \in DOMAIN tables
        /\ pc'[t] \notin {"lookUp", "register"}
    BY <1>1, ConstantFacts DEF TypeOK, Table
  <2>3. next'[t] = 0 \/ (next'[t] = next[t] /\ pc[t] \notin {"register", "match"})
    BY <1>1 DEF TypeOK
  <2> HIDE DEF Find, FindSchema, Retrieve, RetrieveThrows
  <2>4. next'[t] = 0
    BY <2>3 DEF IndInv, KnownInv
  <2> QED
    BY <2>1, <2>2, <2>4, ConstantFacts DEF IndInv, KnownInv, Table
<1> QED
  BY <1>3, <1>4, <1>5 DEF IndInv

LEMMA ReadSchemaInv == ASSUME IndInv, NEW t \in AppThreads, ReadSchema(t) PROVE IndInv'
<1> USE DEF ReadSchema, CachedNumber, Goto, Table, clientVars, sharedVars, sweepVars
<1>0. Table(t) \in DOMAIN schemas /\ schemas[Table(t)] \in Nat
  BY DEF IndInv, KnownInv, TypeOK
<1>1. HoldersInv' /\ RegInv' /\ ValidInv'
  <2>1. pc[t] = "readSchema" /\ ConfigValid(config) /\ t \in Threads
    BY BusyIsValid, ConstantFacts
  <2>2. \A u \in AppThreads \ {t} :
          pc'[u] = pc[u] /\ rec'[u] = rec[u] /\ next'[u] = next[u] /\ buckets'[u] = buckets[u]
    BY ConstantFacts DEF IndInv, TypeOK
  <2> QED
    BY <2>1, <2>2, QuietStep
<1>2. OneNumber'
  BY <1>0, ConstantFacts DEF IndInv, OneNumber, TypeOK
<1>3. TypeOK'
  <2>1. TypeOK
    BY DEF IndInv
  <2>2. /\ phase' \in Phases /\ pc' \in [Threads -> Pcs] /\ rec' \in [AppThreads -> Records]
        /\ buckets' \in [AppThreads -> Nat] /\ next' \in [AppThreads -> Nat]
        /\ scope' \in [Threads -> SUBSET registered] /\ waiting' \subseteq waiting
        /\ puts' \in 0 .. MaxPuts /\ outcome' \in {"fine", "race", "divided by zero"}
    BY <1>0, <2>1, ConstantFacts DEF TypeOK, Pcs
  <2> QED
    BY <2>1, <2>2, TypeStep
<1>4. KnownInv'
  BY ConstantFacts DEF IndInv, TypeOK, KnownInv
<1> QED
  BY <1>1, <1>2, <1>3, <1>4 DEF IndInv

(* The loops over the set of shards.                                       *)
LEMMA SweepInv ==
  ASSUME IndInv, NEW t \in Threads, StartSweep(t) \/ EndSweep(t)
  PROVE  IndInv'
<1> USE DEF StartSweep, EndSweep, Goto, clientVars, sharedVars, matchVars
<1>1. HoldersInv' /\ RegInv' /\ OneNumber'
  BY QuietStep, ConstantFacts DEF IndInv, TypeOK
<1>2. ValidInv'
  BY ConstantFacts DEF IndInv, TypeOK, ValidInv
<1>3. TypeOK'
  <2>1. TypeOK
    BY DEF IndInv
  <2>2. /\ phase' \in Phases /\ pc' \in [Threads -> Pcs] /\ rec' \in [AppThreads -> Records]
        /\ buckets' \in [AppThreads -> Nat] /\ next' \in [AppThreads -> Nat]
        /\ scope' \in [Threads -> SUBSET registered] /\ waiting' \subseteq waiting
        /\ puts' \in 0 .. MaxPuts /\ outcome' \in {"fine", "race", "divided by zero"}
    <3>1. CASE StartSweep(t)
      BY <2>1, <3>1, ConstantFacts DEF TypeOK, Pcs
    <3>2. CASE EndSweep(t)
      BY <2>1, <3>2, ConstantFacts DEF TypeOK, Pcs, Phases
    <3> QED
      BY <3>1, <3>2
  <2> QED
    BY <2>1, <2>2, TypeStep
<1>4. KnownInv'
  BY ConstantFacts DEF IndInv, TypeOK, KnownInv, Table
<1> QED
  BY <1>1, <1>2, <1>3, <1>4 DEF IndInv

(* The construction of the client and the begin of its destruction.        *)
LEMMA ClientInv ==
  ASSUME IndInv, ConstructPool \/ Validate \/ StartClose
  PROVE  IndInv'
<1> USE DEF ConstructPool, Validate, StartClose, sharedVars, matchVars, sweepVars
<1>1. HoldersInv' /\ RegInv' /\ OneNumber'
  BY QuietStep, ConstantFacts DEF IndInv, TypeOK, KnownInv
<1>2. ValidInv'
  BY DEF IndInv, ValidInv
<1>3. TypeOK'
  <2>1. TypeOK
    BY DEF IndInv
  <2>2. /\ phase' \in Phases /\ pc' \in [Threads -> Pcs] /\ rec' \in [AppThreads -> Records]
        /\ buckets' \in [AppThreads -> Nat] /\ next' \in [AppThreads -> Nat]
        /\ scope' \in [Threads -> SUBSET registered] /\ waiting' \subseteq waiting
        /\ puts' \in 0 .. MaxPuts /\ outcome' \in {"fine", "race", "divided by zero"}
    BY <2>1, ConstantFacts DEF TypeOK, Pcs, Phases
  <2> QED
    BY <2>1, <2>2, TypeStep
<1>4. KnownInv'
  BY DEF IndInv, KnownInv, Table
<1> QED
  BY <1>1, <1>2, <1>3, <1>4 DEF IndInv
-----------------------------------------------------------------------------
(* The steps that change what the threads share.                           *)
LEMMA OutcomeType ==
  ASSUME NEW t, NEW places, MayRace(t, places)
  PROVE  outcome' \in {"fine", "race", "divided by zero"}
BY DEF MayRace

LEMMA InsertSchemaInv == ASSUME IndInv, NEW t \in AppThreads, InsertSchema(t) PROVE IndInv'
<1> USE DEF InsertSchema, Goto, clientVars, matchVars, sweepVars
<1> DEFINE table == Table(t)
<1>1. TypeOK /\ OneNumber /\ table \in Tables /\ buckets[t] \in Nat /\ t \in Threads
  BY ConstantFacts DEF IndInv, TypeOK, Table
<1>2. ConfigValid(config)
  BY BusyIsValid
<1>3. /\ DOMAIN schemas' = DOMAIN schemas \union {table}
      /\ \A k \in DOMAIN schemas : schemas'[k] = schemas[k]
      /\ table \notin DOMAIN schemas => schemas'[table] = buckets[t]
  BY DEF Insert
<1>4. TypeOK'
  <2>1. schemas' \in [DOMAIN schemas' -> Nat] /\ DOMAIN schemas' \subseteq Tables
    <3>1. schemas' = [k \in DOMAIN schemas' |-> schemas'[k]]
      BY DEF Insert
    <3>2. \A k \in DOMAIN schemas : schemas[k] \in Nat
      BY <1>1 DEF TypeOK
    <3>3. \A k \in DOMAIN schemas' : schemas'[k] \in Nat
      BY <1>1, <1>3, <3>2
    <3> QED
      BY <1>1, <1>3, <3>1, <3>3 DEF TypeOK
  <2>2. pc' \in [Threads -> Pcs]
    BY <1>1 DEF TypeOK, Pcs
  <2>3. outcome' \in {"fine", "race", "divided by zero"}
    BY OutcomeType
  <2>4. \A k \in DOMAIN tables : Shards(k)' = Shards(k)
    BY DEF Shards, ShardOf
  <2>5. UNION {Shards(k) : k \in DOMAIN tables}' = UNION {Shards(k) : k \in DOMAIN tables}
    BY <2>4
  <2>6. /\ registered' \subseteq UNION {Shards(k) : k \in DOMAIN tables}'
        /\ holders' \in [Records -> SUBSET UNION {Shards(k) : k \in DOMAIN tables}']
    BY <1>1, <2>5 DEF TypeOK
  <2>7. /\ tables' \in [DOMAIN tables' -> [maker : AppThreads, numShards : Nat]]
        /\ DOMAIN tables' \subseteq DOMAIN schemas'
    BY <1>1, <1>3 DEF TypeOK
  <2>8. /\ config' \in Configs /\ phase' \in Phases
        /\ rec' \in [AppThreads -> Records] /\ buckets' \in [AppThreads -> Nat]
        /\ next' \in [AppThreads -> Nat] /\ scope' \in [Threads -> SUBSET registered']
        /\ puts' \in 0 .. MaxPuts /\ waiting' \subseteq UNION {holders'[r] : r \in Records}
    BY <1>1 DEF TypeOK
  <2> QED
    BY <2>1, <2>2, <2>3, <2>6, <2>7, <2>8 DEF TypeOK
<1>5. OneNumber'
  <2>1. DOMAIN tables \subseteq DOMAIN schemas
    BY <1>1 DEF TypeOK
  <2>2. \A u \in AppThreads : pc'[u] = "insertTable" => pc[u] = "insertTable"
    BY <1>1, ConstantFacts DEF TypeOK
  <2> QED
    BY <1>1, <1>3, <2>1, <2>2 DEF OneNumber, Table
<1>6. ValidInv'
  BY <1>2 DEF ValidInv
<1>7. KnownInv'
  BY <1>1, <1>3, ConstantFacts DEF IndInv, TypeOK, KnownInv, Table
<1>8. RegInv'
  <2>1. \A k, i : Coming(k, i) => Coming(k, i)'
    BY <1>1, ConstantFacts DEF Coming, Table, TypeOK
  <2> QED
    BY <2>1 DEF IndInv, RegInv, ShardOf
<1>9. HoldersInv'
  BY DEF IndInv, HoldersInv, ShardOf
<1> QED
  BY <1>4, <1>5, <1>6, <1>7, <1>8, <1>9 DEF IndInv

LEMMA InsertTableInv == ASSUME IndInv, NEW t \in AppThreads, InsertTable(t) PROVE IndInv'
<1> USE DEF InsertTable, AddTable, Goto, clientVars, matchVars, sweepVars
<1> DEFINE table == Table(t)
<1>1. TypeOK /\ OneNumber /\ t \in Threads
  BY ConstantFacts DEF IndInv
<1>2. ConfigValid(config) /\ config \in ConfigType
  BY BusyIsValid
<1>3. table \in DOMAIN schemas /\ buckets[t] = schemas[table] /\ buckets[t] \in Nat
  BY <1>1 DEF OneNumber, TypeOK
<1>4. Made(t) \in [maker : AppThreads, numShards : Nat]
  BY <1>2, <1>3, NumShardsNat DEF Made
<1>5. /\ DOMAIN tables' = DOMAIN tables \union {table}
      /\ \A k \in DOMAIN tables : tables'[k] = tables[k]
      /\ table \notin DOMAIN tables => tables'[table] = Made(t)
  BY DEF Insert
<1>6. \A k \in DOMAIN tables : Shards(k)' = Shards(k) /\ \A i : ShardOf(k, i)' = ShardOf(k, i)
  BY <1>5 DEF Shards, ShardOf
<1>7. TypeOK'
  <2>1. tables' \in [DOMAIN tables' -> [maker : AppThreads, numShards : Nat]]
    <3>1. tables' = [k \in DOMAIN tables' |-> tables'[k]]
      BY DEF Insert
    <3>2. \A k \in DOMAIN tables : tables[k] \in [maker : AppThreads, numShards : Nat]
      BY <1>1 DEF TypeOK
    <3>3. \A k \in DOMAIN tables' : tables'[k] \in [maker : AppThreads, numShards : Nat]
      BY <1>4, <1>5, <3>2
    <3> QED
      BY <3>1, <3>3
  <2>2. pc' \in [Threads -> Pcs]
    BY <1>1 DEF TypeOK, Pcs
  <2>3. outcome' \in {"fine", "race", "divided by zero"}
    BY OutcomeType
  <2>4. UNION {Shards(k) : k \in DOMAIN tables} \subseteq UNION {Shards(k) : k \in DOMAIN tables}'
    BY <1>5, <1>6
  <2>5. /\ registered' \subseteq UNION {Shards(k) : k \in DOMAIN tables}'
        /\ holders' \in [Records -> SUBSET UNION {Shards(k) : k \in DOMAIN tables}']
    BY <1>1, <2>4 DEF TypeOK
  <2>6. DOMAIN tables' \subseteq DOMAIN schemas
    BY <1>1, <1>3, <1>5 DEF TypeOK
  <2>7. schemas' \in [DOMAIN schemas' -> Nat] /\ DOMAIN schemas' \subseteq Tables
    BY <1>1 DEF TypeOK
  <2>8. /\ config' \in Configs /\ phase' \in Phases
        /\ rec' \in [AppThreads -> Records] /\ buckets' \in [AppThreads -> Nat]
        /\ next' \in [AppThreads -> Nat] /\ scope' \in [Threads -> SUBSET registered']
        /\ puts' \in 0 .. MaxPuts /\ waiting' \subseteq UNION {holders'[r] : r \in Records}
    BY <1>1 DEF TypeOK
  <2> QED
    BY <2>1, <2>2, <2>3, <2>5, <2>6, <2>7, <2>8 DEF TypeOK
<1>8. OneNumber'
  <2>1. \A u \in AppThreads : pc'[u] = "insertTable" => pc[u] = "insertTable"
    BY <1>1, ConstantFacts DEF TypeOK
  <2>2. Made(t).numShards = NumShards(config, schemas[table])
    BY <1>3 DEF Made
  <2> QED
    BY <1>1, <1>5, <2>1, <2>2 DEF OneNumber, Table
<1>9. ValidInv'
  BY <1>2 DEF ValidInv
<1>10. KnownInv'
  <2>1. \A u \in AppThreads \ {t} : pc'[u] = pc[u]
    BY <1>1, ConstantFacts DEF TypeOK
  <2>2. pc'[t] = "lookUp" /\ pc'[Watcher] = pc[Watcher] /\ pc[t] = "insertTable"
    BY <1>1, ConstantFacts DEF TypeOK
  <2> QED
    BY <1>5, <2>1, <2>2 DEF IndInv, KnownInv, Table
<1>11. RegInv'
  <2>1. \A k, i : Coming(k, i) => Coming(k, i)'
    BY <1>1, ConstantFacts DEF Coming, Table, TypeOK
  <2>2. pc'[t] = "lookUp" /\ Table(t)' = table
    BY <1>1, ConstantFacts DEF Table, TypeOK
  <2> SUFFICES ASSUME NEW k \in DOMAIN tables', NEW i \in 0 .. tables'[k].numShards - 1
               PROVE  (ShardOf(k, i) \in registered)' \/ Coming(k, i)'
    BY DEF RegInv, ShardOf
  <2>3. CASE k = table
    BY <2>2, <2>3 DEF Coming
  <2>4. CASE k # table
    <3>1. k \in DOMAIN tables /\ i \in 0 .. tables[k].numShards - 1
      BY <1>5, <2>4
    <3>2. ShardOf(k, i) \in registered \/ Coming(k, i)
      BY <3>1 DEF IndInv, RegInv
    <3> QED
      BY <1>6, <2>1, <3>1, <3>2
  <2> QED
    BY <2>3, <2>4
<1>12. HoldersInv'
  BY <1>5, <1>6 DEF IndInv, HoldersInv
<1> QED
  BY <1>7, <1>8, <1>9, <1>10, <1>11, <1>12 DEF IndInv
(* A table that has no shards has none to register.                        *)
LEMMA LookUpInv == ASSUME IndInv, NEW t \in AppThreads, LookUp(t) PROVE IndInv'
<1> USE DEF LookUp, End, Goto, clientVars, sharedVars, matchVars, sweepVars
<1> DEFINE table == Table(t)  n == tables[table].numShards
<1>1. /\ TypeOK /\ t \in Threads /\ table \in DOMAIN tables /\ next[t] = 0
  BY ConstantFacts DEF IndInv, KnownInv
<1>2. n \in Nat
  BY <1>1 DEF TypeOK
<1>3. /\ pc'[t] = IF n = 0 THEN "match" ELSE "register"
      /\ \A u \in Threads \ {t} : pc'[u] = pc[u]
      /\ pc' \in [Threads -> Pcs]
  BY <1>1 DEF TypeOK, Pcs
<1>4. TypeOK'
  <2>1. /\ phase' \in Phases /\ rec' \in [AppThreads -> Records]
        /\ buckets' \in [AppThreads -> Nat] /\ next' \in [AppThreads -> Nat]
        /\ scope' \in [Threads -> SUBSET registered] /\ waiting' \subseteq waiting
        /\ puts' \in 0 .. MaxPuts /\ outcome' \in {"fine", "race", "divided by zero"}
    BY <1>1 DEF TypeOK
  <2> QED
    BY <1>1, <1>3, <2>1, TypeStep
<1>5. OneNumber'
  BY <1>1, <1>3, ConstantFacts DEF IndInv, OneNumber, Table
<1>6. ValidInv'
  BY BusyIsValid DEF ValidInv
<1>7. KnownInv'
  BY <1>1, <1>2, <1>3, ConstantFacts DEF IndInv, KnownInv, Table
<1>8. RegInv'
  <2> SUFFICES ASSUME NEW k \in DOMAIN tables, NEW i \in 0 .. tables[k].numShards - 1
               PROVE  ShardOf(k, i) \in registered \/ Coming(k, i)'
    BY DEF RegInv, ShardOf
  <2>1. CASE ShardOf(k, i) \in registered
    BY <2>1
  <2>2. CASE Coming(k, i)
    <3>1. PICK u \in AppThreads :
            Table(u) = k /\ (pc[u] = "lookUp" \/ (pc[u] = "register" /\ next[u] <= i))
      BY <2>2 DEF Coming
    <3>2. CASE u = t
      <4>1. n # 0 /\ next[t] <= i
        BY <1>1, <1>2, <3>1, <3>2
      <4> QED
        BY <1>3, <3>1, <3>2, <4>1 DEF Coming, Table
    <3>3. CASE u # t
      BY <1>3, <3>1, <3>3, ConstantFacts DEF Coming, Table
    <3> QED
      BY <3>2, <3>3
  <2> QED
    BY <2>1, <2>2 DEF IndInv, RegInv
<1>9. HoldersInv'
  BY DEF IndInv, HoldersInv, ShardOf
<1> QED
  BY <1>4, <1>5, <1>6, <1>7, <1>8, <1>9 DEF IndInv

LEMMA RegisterInv == ASSUME IndInv, NEW t \in AppThreads, Register(t) PROVE IndInv'
<1> USE DEF Register, End, Goto, clientVars
<1> DEFINE table == Table(t)  n == tables[table].numShards
<1>1. /\ TypeOK /\ t \in Threads /\ table \in DOMAIN tables /\ next[t] < n
  BY ConstantFacts DEF IndInv, KnownInv
<1>2. n \in Nat /\ next[t] \in Nat
  BY <1>1 DEF TypeOK
<1>3. /\ pc'[t] = IF next[t] + 1 < n THEN "register" ELSE "match"
      /\ \A u \in Threads \ {t} : pc'[u] = pc[u]
      /\ pc' \in [Threads -> Pcs]
  BY <1>1 DEF TypeOK, Pcs
<1>4. /\ next'[t] = next[t] + 1
      /\ \A u \in AppThreads \ {t} : next'[u] = next[u]
      /\ next' \in [AppThreads -> Nat]
  <2>1. next \in [AppThreads -> Nat] /\ next' = [next EXCEPT ![t] = next[t] + 1]
    BY <1>1 DEF TypeOK
  <2>2. next[t] + 1 \in Nat
    BY <1>2
  <2> HIDE DEF Register
  <2> QED
    BY <2>1, <2>2
<1>5. TypeOK'
  <2>1. \A k \in DOMAIN tables : Shards(k)' = Shards(k)
    BY DEF Shards, ShardOf
  <2>2. UNION {Shards(k) : k \in DOMAIN tables}' = UNION {Shards(k) : k \in DOMAIN tables}
    BY <2>1
  <2>3. ShardOf(table, next[t]) \in UNION {Shards(k) : k \in DOMAIN tables}
    BY <1>1, <1>2 DEF Shards
  <2>4. /\ registered' \subseteq UNION {Shards(k) : k \in DOMAIN tables}'
        /\ holders' \in [Records -> SUBSET UNION {Shards(k) : k \in DOMAIN tables}']
    BY <1>1, <2>2, <2>3 DEF TypeOK
  <2>5. outcome' \in {"fine", "race", "divided by zero"}
    BY OutcomeType
  <2>6. /\ tables' \in [DOMAIN tables' -> [maker : AppThreads, numShards : Nat]]
        /\ DOMAIN tables' \subseteq DOMAIN schemas'
        /\ schemas' \in [DOMAIN schemas' -> Nat] /\ DOMAIN schemas' \subseteq Tables
    BY <1>1 DEF TypeOK
  <2>7. /\ config' \in Configs /\ phase' \in Phases
        /\ rec' \in [AppThreads -> Records] /\ buckets' \in [AppThreads -> Nat]
        /\ scope' \in [Threads -> SUBSET registered']
        /\ puts' \in 0 .. MaxPuts /\ waiting' \subseteq UNION {holders'[r] : r \in Records}
    BY <1>1 DEF TypeOK
  <2> QED
    BY <1>3, <1>4, <2>4, <2>5, <2>6, <2>7 DEF TypeOK
<1>6. OneNumber'
  BY <1>1, <1>3, ConstantFacts DEF IndInv, OneNumber, Table
<1>7. ValidInv'
  BY BusyIsValid DEF ValidInv
<1>8. KnownInv'
  BY <1>1, <1>2, <1>3, <1>4, ConstantFacts DEF IndInv, KnownInv, Table
<1>9. RegInv'
  <2> SUFFICES ASSUME NEW k \in DOMAIN tables, NEW i \in 0 .. tables[k].numShards - 1
               PROVE  ShardOf(k, i) \in registered' \/ Coming(k, i)'
    BY DEF RegInv, ShardOf
  <2>1. CASE ShardOf(k, i) \in registered
    BY <2>1
  <2>2. CASE Coming(k, i)
    <3>1. PICK u \in AppThreads :
            Table(u) = k /\ (pc[u] = "lookUp" \/ (pc[u] = "register" /\ next[u] <= i))
      BY <2>2 DEF Coming
    <3>2. CASE u = t /\ i = next[t]
      BY <3>1, <3>2
    <3>3. CASE u = t /\ i # next[t]
      <4>1. next[t] + 1 <= i /\ i < n /\ next[t] + 1 < n
        BY <1>1, <1>2, <3>1, <3>3
      <4> QED
        BY <1>3, <1>4, <3>1, <3>3, <4>1 DEF Coming, Table
    <3>4. CASE u # t
      BY <1>3, <1>4, <3>1, <3>4, ConstantFacts DEF Coming, Table
    <3> QED
      BY <3>2, <3>3, <3>4
  <2> QED
    BY <2>1, <2>2 DEF IndInv, RegInv
<1>10. HoldersInv'
  BY DEF IndInv, HoldersInv, ShardOf
<1> QED
  BY <1>5, <1>6, <1>7, <1>8, <1>9, <1>10 DEF IndInv
(* The record is put into its shard, or the thread leaves with an          *)
(* exception, or the program is gone.                                      *)
LEMMA MatchInv == ASSUME IndInv, NEW t \in AppThreads, Match(t) PROVE IndInv'
<1> USE DEF clientVars, sharedVars
<1> DEFINE r == rec[t]  table == Table(t)  n == tables[table].numShards
           shard == ShardOf(table, Hash(IdOf[r], n))
           Puts == /\ IdOf[r] # NotANumber /\ n > 0
                   /\ holders' = [holders EXCEPT ![r] = @ \union {shard}]
                   /\ waiting' = waiting \union {shard}
                   /\ UNCHANGED outcome
<1>1. /\ TypeOK /\ t \in Threads /\ table \in DOMAIN tables /\ r \in Records
      /\ table = TableOf[r] /\ n \in Nat
  <2>1. TypeOK /\ t \in Threads /\ pc[t] = "match"
    BY ConstantFacts DEF IndInv, Match
  <2>2. table \in DOMAIN tables
    BY <2>1 DEF IndInv, KnownInv
  <2> QED
    BY <2>1, <2>2 DEF TypeOK, Table
<1>2. /\ pc[t] = "match" /\ UNCHANGED <<clientVars, sharedVars, scope, puts>>
      /\ pc' = [pc EXCEPT ![t] = "idle"] /\ rec' = [rec EXCEPT ![t] = AnyRecord]
      /\ buckets' = [buckets EXCEPT ![t] = 0] /\ next' = [next EXCEPT ![t] = 0]
      /\ Puts \/ (UNCHANGED <<holders, waiting>> /\ outcome' \in {outcome, "divided by zero"})
  BY DEF Match, Leave, Goto
<1>3. /\ pc'[t] = "idle" /\ next'[t] = 0
      /\ \A u \in Threads \ {t} : pc'[u] = pc[u]
      /\ \A u \in AppThreads \ {t} :
           rec'[u] = rec[u] /\ next'[u] = next[u] /\ buckets'[u] = buckets[u]
  BY <1>1, <1>2 DEF TypeOK
<1>4. /\ pc' \in [Threads -> Pcs] /\ rec' \in [AppThreads -> Records]
      /\ buckets' \in [AppThreads -> Nat] /\ next' \in [AppThreads -> Nat]
  <2>1. AnyRecord \in Records
    BY CollectorAssumption DEF AnyRecord
  <2>2. /\ pc \in [Threads -> Pcs] /\ rec \in [AppThreads -> Records]
        /\ buckets \in [AppThreads -> Nat] /\ next \in [AppThreads -> Nat]
    BY <1>1 DEF TypeOK
  <2>3. pc' \in [Threads -> Pcs]
    BY <1>2, <2>2 DEF Pcs
  <2>4. rec' \in [AppThreads -> Records]
    BY <1>2, <2>1, <2>2
  <2>5. buckets' \in [AppThreads -> Nat] /\ next' \in [AppThreads -> Nat]
    BY <1>2, <2>2
  <2> QED
    BY <2>3, <2>4, <2>5
<1>5. ASSUME Puts PROVE IdOf[r] \in Int /\ shard \in Shards(table)
  <2>1. IdOf[r] \in Int
    BY <1>1, <1>5, ConstantFacts
  <2>2. Hash(IdOf[r], n) \in 0 .. n - 1
    BY <1>1, <1>5, <2>1, HashInRange
  <2> QED
    BY <2>1, <2>2 DEF Shards
<1> HIDE DEF shard
<1>6. TypeOK'
  <2> DEFINE all == UNION {Shards(k) : k \in DOMAIN tables}
  <2>1. \A k \in DOMAIN tables : Shards(k)' = Shards(k)
    BY <1>2 DEF Shards, ShardOf
  <2>2. UNION {Shards(k) : k \in DOMAIN tables}' = all
    BY <1>2, <2>1
  <2>3. registered \subseteq all /\ holders \in [Records -> SUBSET all]
        /\ waiting \subseteq UNION {holders[q] : q \in Records}
    BY <1>1 DEF TypeOK
  <2>4. Puts => shard \in all
    BY <1>1, <1>5
  <2> HIDE DEF all
  <2>5. /\ holders' \in [Records -> SUBSET all]
        /\ waiting' \subseteq UNION {holders'[q] : q \in Records}
    <3>1. CASE Puts
      <4>1. holders' \in [Records -> SUBSET all]
        BY <1>1, <2>3, <2>4, <3>1
      <4>2. shard \in holders'[r] /\ \A q \in Records : holders[q] \subseteq holders'[q]
        BY <1>1, <2>3, <3>1
      <4> QED
        BY <1>1, <2>3, <3>1, <4>1, <4>2
    <3>2. CASE ~Puts
      BY <1>2, <2>3, <3>2
    <3> QED
      BY <3>1, <3>2
  <2>6. outcome' \in {"fine", "race", "divided by zero"}
    BY <1>1, <1>2 DEF TypeOK
  <2>7. /\ tables' \in [DOMAIN tables' -> [maker : AppThreads, numShards : Nat]]
        /\ DOMAIN tables' \subseteq DOMAIN schemas'
        /\ schemas' \in [DOMAIN schemas' -> Nat] /\ DOMAIN schemas' \subseteq Tables
        /\ config' \in Configs /\ phase' \in Phases
        /\ scope' \in [Threads -> SUBSET registered'] /\ puts' \in 0 .. MaxPuts
    BY <1>1, <1>2 DEF TypeOK
  <2> QED
    BY <1>2, <1>4, <2>2, <2>3, <2>5, <2>6, <2>7 DEF TypeOK
<1>7. OneNumber'
  BY <1>2, <1>3, ConstantFacts DEF IndInv, OneNumber, Table
<1>8. ValidInv'
  BY <1>2, BusyIsValid DEF ValidInv
<1>9. KnownInv'
  BY <1>2, <1>3, ConstantFacts DEF IndInv, KnownInv, Table
<1>10. RegInv'
  <2>1. \A k, i : Coming(k, i) => Coming(k, i)'
    BY <1>2, <1>3, ConstantFacts DEF Coming, Table
  <2> QED
    BY <1>2, <2>1 DEF IndInv, RegInv, ShardOf
<1>11. HoldersInv'
  <2> SUFFICES ASSUME NEW q \in Records, NEW s \in holders'[q]
               PROVE  /\ TableOf[q] \in DOMAIN tables /\ IdOf[q] \in Int
                      /\ tables[TableOf[q]].numShards > 0
                      /\ s = ShardOf(TableOf[q], Hash(IdOf[q], tables[TableOf[q]].numShards))
    BY <1>2 DEF HoldersInv, ShardOf
  <2>1. CASE s \in holders[q]
    BY <2>1 DEF IndInv, HoldersInv
  <2>2. CASE s \notin holders[q]
    <3>1. Puts
      BY <1>2, <2>2
    <3>2. DOMAIN holders = Records
      BY <1>1 DEF TypeOK
    <3>3. q = r /\ s = shard
      BY <2>2, <3>1, <3>2
    <3> QED
      BY <1>1, <1>5, <3>1, <3>3 DEF shard
  <2> QED
    BY <2>1, <2>2
<1> QED
  BY <1>6, <1>7, <1>8, <1>9, <1>10, <1>11 DEF IndInv
-----------------------------------------------------------------------------
(* A step is one of the actions, or changes nothing.                       *)
LEMMA StepCases ==
  ASSUME [Next]_vars
  PROVE  \/ ConstructPool \/ Validate \/ StartClose
         \/ \E t \in AppThreads, r \in Records : StartPut(t, r)
         \/ \E t \in AppThreads : Find(t) \/ FindSchema(t) \/ Retrieve(t) \/ RetrieveThrows(t)
         \/ \E t \in AppThreads : InsertSchema(t)
         \/ \E t \in AppThreads : ReadSchema(t)
         \/ \E t \in AppThreads : InsertTable(t)
         \/ \E t \in AppThreads : LookUp(t)
         \/ \E t \in AppThreads : Register(t)
         \/ \E t \in AppThreads : Match(t)
         \/ \E t \in Threads : StartSweep(t) \/ EndSweep(t)
         \/ UNCHANGED vars
BY DEF Next, Step, MatchStep

LEMMA IndStep == IndInv /\ [Next]_vars => IndInv'
<1> SUFFICES ASSUME IndInv, [Next]_vars PROVE IndInv'
  OBVIOUS
<1>1. CASE ConstructPool \/ Validate \/ StartClose
  BY <1>1, ClientInv
<1>2. ASSUME NEW t \in AppThreads, NEW r \in Records, StartPut(t, r) PROVE IndInv'
  <2>1. ConfigValid(config)
    BY <1>2 DEF StartPut, IndInv, ValidInv
  <2> QED
    BY <1>2, <2>1, StartPutInv
<1>3. ASSUME NEW t \in AppThreads,
             Find(t) \/ FindSchema(t) \/ Retrieve(t) \/ RetrieveThrows(t)
      PROVE  IndInv'
  BY <1>3, AskInv
<1>4. ASSUME NEW t \in AppThreads, InsertSchema(t) PROVE IndInv'
  BY <1>4, InsertSchemaInv
<1>5. ASSUME NEW t \in AppThreads, ReadSchema(t) PROVE IndInv'
  BY <1>5, ReadSchemaInv
<1>6. ASSUME NEW t \in AppThreads, InsertTable(t) PROVE IndInv'
  BY <1>6, InsertTableInv
<1>7. ASSUME NEW t \in AppThreads, LookUp(t) PROVE IndInv'
  BY <1>7, LookUpInv
<1>8. ASSUME NEW t \in AppThreads, Register(t) PROVE IndInv'
  BY <1>8, RegisterInv
<1>9. ASSUME NEW t \in AppThreads, Match(t) PROVE IndInv'
  BY <1>9, MatchInv
<1>10. ASSUME NEW t \in Threads, StartSweep(t) \/ EndSweep(t) PROVE IndInv'
  BY <1>10, SweepInv
<1>11. CASE UNCHANGED vars
  <2> USE DEF vars, clientVars, sharedVars, matchVars, sweepVars
  <2>1. HoldersInv' /\ RegInv' /\ OneNumber'
    BY <1>11, QuietStep, ConstantFacts DEF IndInv, KnownInv
  <2>2. ValidInv' /\ KnownInv'
    BY <1>11 DEF IndInv, ValidInv, KnownInv, Table
  <2>3. TypeOK'
    <3>1. /\ phase' \in Phases /\ pc' \in [Threads -> Pcs] /\ rec' \in [AppThreads -> Records]
          /\ buckets' \in [AppThreads -> Nat] /\ next' \in [AppThreads -> Nat]
          /\ scope' \in [Threads -> SUBSET registered] /\ waiting' \subseteq waiting
          /\ puts' \in 0 .. MaxPuts /\ outcome' \in {"fine", "race", "divided by zero"}
      BY <1>11 DEF IndInv, TypeOK
    <3> QED
      BY <1>11, <3>1, TypeStep DEF IndInv
  <2> QED
    BY <2>1, <2>2, <2>3 DEF IndInv
<1> QED
  BY <1>1, <1>2, <1>3, <1>4, <1>5, <1>6, <1>7, <1>8, <1>9, <1>10, <1>11, StepCases

(* The inductive invariant holds in every reachable state.                 *)
THEOREM Invariance == Spec => []IndInv
<1> QED
  BY InitInv, IndStep, PTL DEF Spec

(* Every variable keeps its type.                                          *)
THEOREM TypeCorrect == Spec => []TypeOK
<1>1. IndInv => TypeOK
  BY DEF IndInv
<1> QED
  BY <1>1, Invariance, PTL

(* doris_connector.h:123-126 and collector.h:34-36: threads that were told *)
(* different numbers for a table all go on with the one stored first.      *)
THEOREM NumbersAgree == Spec => []OneNumber
<1>1. IndInv => OneNumber
  BY DEF IndInv
<1> QED
  BY <1>1, Invariance, PTL

(* collector.h:36: whatever configuration was let through and whatever the *)
(* database says, the tables get the right number of shards.               *)
THEOREM ShardCountHolds == Spec => []ShardCount
<1>1. IndInv => ShardCount
  <2> SUFFICES ASSUME IndInv, NEW table \in DOMAIN tables, schemas[table] > 0
               PROVE  LET n == schemas[table]  k == tables[table].numShards
                      IN  Enough(config, k, n) /\ ~\E i \in 0 .. k - 1 : Enough(config, i, n)
    BY DEF ShardCount
  <2> DEFINE n == schemas[table]  k == tables[table].numShards
  <2>1. ConfigValid(config) /\ config \in ConfigType
    BY ConstantFacts DEF IndInv, ValidInv, TypeOK
  <2>2. n \in Nat \ {0} /\ k \in Nat /\ k = NumShards(config, n)
    <3>1. n \in Nat /\ k \in Nat
      BY DEF IndInv, TypeOK
    <3>2. k = NumShards(config, n)
      BY DEF IndInv, OneNumber
    <3> QED
      BY <3>1, <3>2
  <2> HIDE DEF n, k
  <2>3. Enough(config, k, n)
    BY <2>1, <2>2, ShardsAreEnough
  <2>4. ASSUME NEW i \in 0 .. k - 1, Enough(config, i, n) PROVE FALSE
    <3>1. i \in Nat /\ i < k
      BY <2>2
    <3>2. NumShards(config, n) <= i
      BY <2>1, <2>2, <2>4, <3>1, ShardsAreFew
    <3> QED
      BY <2>2, <3>1, <3>2
  <2> QED
    BY <2>3, <2>4 DEF n, k
<1> QED
  BY <1>1, Invariance, PTL

(* collector.h:34-43: no thread can leave a record in a shard that neither *)
(* flush nor the watcher nor the destructor will ever come by.             *)
THEOREM ShardsAreReachable == Spec => []Reachable
<1>1. IndInv => Reachable
  <2> SUFFICES ASSUME IndInv, NEW r \in Records, NEW shard \in holders[r],
                      shard \notin registered
               PROVE  \E t \in AppThreads :
                        pc[t] \in {"lookUp", "register"} /\ Table(t) = TableOf[r]
    BY DEF Reachable
  <2> DEFINE n == tables[TableOf[r]].numShards
  <2>1. /\ TableOf[r] \in DOMAIN tables /\ IdOf[r] \in Int /\ n > 0
        /\ shard = ShardOf(TableOf[r], Hash(IdOf[r], n))
    BY DEF IndInv, HoldersInv
  <2>2. n \in Nat
    BY <2>1 DEF IndInv, TypeOK
  <2>3. Hash(IdOf[r], n) \in 0 .. n - 1
    BY <2>1, <2>2, HashInRange
  <2>4. Coming(TableOf[r], Hash(IdOf[r], n))
    BY <2>1, <2>3 DEF IndInv, RegInv
  <2> QED
    BY <2>4 DEF Coming
<1> QED
  BY <1>1, Invariance, PTL

(* collector.h:37-43: the versions of a row meet in one shard, and only    *)
(* records of one table meet in a shard.                                   *)
THEOREM RecordsKeepTheirShard == Spec => []SameShard
<1>1. IndInv => SameShard
  <2> SUFFICES ASSUME IndInv, NEW r \in Records, holders[r] # {}
               PROVE  /\ holders[r] \subseteq Shards(TableOf[r])
                      /\ Cardinality(holders[r]) = 1
                      /\ \A q \in Records :
                           holders[q] \intersect holders[r] # {} => TableOf[q] = TableOf[r]
    BY DEF SameShard
  <2> DEFINE n == tables[TableOf[r]].numShards  home == ShardOf(TableOf[r], Hash(IdOf[r], n))
  <2>1. /\ TableOf[r] \in DOMAIN tables /\ IdOf[r] \in Int /\ n > 0
        /\ \A shard \in holders[r] : shard = home
    BY DEF IndInv, HoldersInv
  <2>2. n \in Nat
    BY <2>1 DEF IndInv, TypeOK
  <2>3. home \in Shards(TableOf[r])
    BY <2>1, <2>2, HashInRange DEF Shards
  <2>4. holders[r] = {home}
    BY <2>1
  <2>5. ASSUME NEW q \in Records, home \in holders[q] PROVE TableOf[q] = TableOf[r]
    BY <2>5 DEF IndInv, HoldersInv, ShardOf
  <2> HIDE DEF home
  <2> QED
    BY <2>3, <2>4, <2>5, FS_Singleton
<1> QED
  BY <1>1, Invariance, PTL

(* What module Client starts from: once every table is known and its       *)
(* shards are registered, no thread inserts any more.                      *)
THEOREM SettledStays == Spec => SettledForGood
<1> DEFINE Stays == Settled => Settled' /\ UNCHANGED sharedVars /\ outcome' # "race"
<1>1. ASSUME IndInv, Next, Settled PROVE Stays \/ UNCHANGED vars
  <2> DEFINE Places == {"idle", "find", "match", "sweep"}
  <2>1. ASSUME NEW t \in Threads, NEW place \in Places, pc' = [pc EXCEPT ![t] = place],
               UNCHANGED sharedVars, outcome' # "race"
        PROVE  Stays
    <3>1. pc \in [Threads -> Pcs]
      BY <1>1 DEF IndInv, TypeOK
    <3>2. \A u \in AppThreads : pc'[u] \in Places
      BY <1>1, <2>1, <3>1, ConstantFacts DEF Settled
    <3> QED
      BY <1>1, <2>1, <3>2 DEF Settled, sharedVars
  <2>2. CASE Done /\ UNCHANGED vars
    BY <2>2
  <2>3. CASE outcome = "fine" /\ (ConstructPool \/ Validate \/ StartClose)
    BY <1>1, <2>3 DEF ConstructPool, Validate, StartClose, sharedVars, Settled
  <2>4. ASSUME outcome = "fine", NEW t \in AppThreads, NEW r \in Records, StartPut(t, r)
        PROVE  Stays
    BY <2>1, <2>4, ConstantFacts DEF StartPut, Goto
  <2>5. ASSUME outcome = "fine", NEW t \in AppThreads, MatchStep(t) PROVE Stays
    <3>1. t \in Threads /\ pc[t] \in Places
      BY <1>1, ConstantFacts DEF Settled
    <3>2. CASE Find(t)
      <4>1. rec[t] \in Records
        BY <1>1 DEF IndInv, TypeOK
      <4>2. Table(t) \in DOMAIN tables
        BY <1>1, <4>1, ConstantFacts DEF Settled, Table
      <4> QED
        BY <2>1, <2>5, <3>1, <3>2, <4>2 DEF Find, Known, Goto
    <3>3. CASE Match(t)
      BY <2>1, <2>5, <3>1, <3>3 DEF Match, Leave, Goto
    <3> QED
      BY <2>5, <3>1, <3>2, <3>3 DEF MatchStep, FindSchema, Retrieve, RetrieveThrows,
           InsertSchema, ReadSchema, InsertTable, LookUp, Register
  <2>6. ASSUME outcome = "fine", NEW t \in Threads, StartSweep(t) \/ EndSweep(t) PROVE Stays
    BY <2>1, <2>6 DEF StartSweep, EndSweep, Goto
  <2> QED
    BY <1>1, <2>2, <2>3, <2>4, <2>5, <2>6 DEF Next, Step
<1>2. IndInv /\ [Next]_vars => [Stays]_vars
  BY <1>1
<1> QED
  BY <1>2, Invariance, PTL DEF Spec, SettledForGood
=============================================================================
