------------------------------- MODULE Collector -------------------------------
(***************************************************************************)
(* Which shard a record belongs to (src/src/collector/collector.h,         *)
(* table_collector.h), with the cache of schemas that it asks              *)
(* (src/include/doris_connector.h:112-157), from the construction of a     *)
(* client to its destruction.  Application threads match records and       *)
(* flush, the watcher and at the end the destructor go through the set of  *)
(* shards.  What becomes of a record in its shard is module Client's.      *)
(*                                                                         *)
(* Nothing here takes a lock.  A step is one access to a container that    *)
(* threads share.  When a thread inserts into one while another thread is  *)
(* about to use it, the two may overlap; what C++ makes of that is         *)
(* undefined, and the model ends there with outcome = "race".              *)
(***************************************************************************)
EXTENDS Sharding, FiniteSets

CONSTANTS
  AppThreads,   \* the threads of the application
  Owner,        \* the one that constructs and destroys the client
  Watcher,      \* the watcher thread
  Configs,      \* the configurations a client may be given
  Answers,      \* how many buckets the database may say a table has
  Records,      \* the records that are put
  TableOf,      \* record.getTableIdentifier()
  IdOf,         \* stoi(values[0]), or NotANumber
  NotANumber,   \* stoi throws
  MaxPuts       \* bound: calls of put

Threads == AppThreads \union {Watcher}
Tables == {TableOf[r] : r \in Records}

ASSUME CollectorAssumption ==
  /\ Owner \in AppThreads
  /\ Watcher \notin AppThreads
  /\ Answers \subseteq Nat
  /\ MaxPuts \in Nat
  /\ Records # {} /\ DOMAIN TableOf = Records
  /\ \A r \in Records : IdOf[r] = NotANumber \/ IdOf[r] \in Int
  /\ Configs \subseteq [numWorkers : Int, num : Int, den : Nat \ {0}, minNumShards : Int,
                        rest : BOOLEAN]

VARIABLES
  config,      \* Client::config
  phase,       \* of the client
  schemas,     \* DorisConnector::schemas
  tables,      \* Collector::tableCollectors: who made it, and its numShards
  registered,  \* Collector::shardCollectors
  pc,          \* where each thread is
  rec,         \* the record it matches
  buckets,     \* the number of buckets it was told
  next,        \* the index of its loop over the shards of a table
  scope,       \* the waiting shards its loop over the set is sure to reach
  (* history *)
  puts,        \* calls of put so far
  holders,     \* the shards each record was put into
  waiting,     \* shards that got a record no loop has come by for
  outcome      \* "fine", or how the run of the program ended

clientVars == <<config, phase>>
sharedVars == <<schemas, tables, registered>>
matchVars == <<rec, buckets, next>>
sweepVars == <<scope, waiting>>
vars == <<clientVars, sharedVars, pc, matchVars, sweepVars, puts, holders, outcome>>

Phases == {"constructing", "pool", "rejected", "running", "closing", "flushed"}
Pcs == {"idle", "find", "findSchema", "retrieve", "insertSchema", "readSchema",
        "insertTable", "lookUp", "register", "match", "sweep"}

(* Where a thread uses a container next.                                   *)
UsesSchemas == {"findSchema", "insertSchema", "readSchema"}
UsesTables == {"find", "insertTable", "lookUp", "match"}
UsesShards == {"register", "sweep"}

AnyRecord == CHOOSE r \in Records : TRUE
Table(t) == TableOf[rec[t]]

(* A shard is known by its table, the thread that made it, and its index.  *)
ShardOf(table, i) == <<table, tables[table].maker, i>>
Shards(table) == {ShardOf(table, i) : i \in 0 .. tables[table].numShards - 1}

Goto(t, place) == pc' = [pc EXCEPT ![t] = place]

(* Thread t inserts into a container that others use at these places.      *)
MayRace(t, places) ==
  outcome' \in IF \E u \in Threads \ {t} : pc[u] \in places
               THEN {"fine", "race"} ELSE {"fine"}

Init ==
  /\ config \in Configs
  /\ phase = "constructing"
  /\ schemas = <<>> /\ tables = <<>> /\ registered = {}
  /\ pc = [t \in Threads |-> "idle"]
  /\ rec = [t \in AppThreads |-> AnyRecord]
  /\ buckets = [t \in AppThreads |-> 0]
  /\ next = [t \in AppThreads |-> 0]
  /\ scope = [t \in Threads |-> {}]
  /\ puts = 0
  /\ holders = [r \in Records |-> {}]
  /\ waiting = {}
  /\ outcome = "fine"

-----------------------------------------------------------------------------
(* The constructor of the client.                                          *)

(* The pool is made before anybody looks at the configuration: a negative  *)
(* number of workers is a size that no vector can have, and resize throws. *)
ConstructPool ==
  /\ phase = "constructing"
  /\ phase' = IF config.numWorkers < 0 THEN "rejected" ELSE "pool"
  /\ UNCHANGED <<config, sharedVars, pc, matchVars, sweepVars, puts, holders, outcome>>

Validate ==
  /\ phase = "pool"
  /\ phase' = IF ConfigValid(config) THEN "running" ELSE "rejected"
  /\ UNCHANGED <<config, sharedVars, pc, matchVars, sweepVars, puts, holders, outcome>>

-----------------------------------------------------------------------------
(* Collector::match, called by put.                                        *)

StartPut(t, r) ==
  /\ phase = "running" /\ pc[t] = "idle" /\ puts < MaxPuts
  /\ puts' = puts + 1
  /\ rec' = [rec EXCEPT ![t] = r]
  /\ Goto(t, "find")
  /\ UNCHANGED <<clientVars, sharedVars, buckets, next, sweepVars, holders, outcome>>

(* Mutant: a table is looked for under another name than it was stored.    *)
NeverKnown(table) == FALSE

Known(table) == table \in DOMAIN tables

Find(t) ==
  /\ pc[t] = "find"
  /\ Goto(t, IF Known(Table(t)) THEN "match" ELSE "findSchema")
  /\ UNCHANGED <<clientVars, sharedVars, matchVars, sweepVars, puts, holders, outcome>>

(* DorisConnector::getNumShards.                                           *)
FindSchema(t) ==
  /\ pc[t] = "findSchema"
  /\ Goto(t, IF Table(t) \in DOMAIN schemas THEN "readSchema" ELSE "retrieve")
  /\ UNCHANGED <<clientVars, sharedVars, matchVars, sweepVars, puts, holders, outcome>>

(* retrieveSchema: the table may change between two answers.  One that     *)
(* names no number of buckets counts as 1.                                 *)
Retrieve(t) ==
  /\ pc[t] = "retrieve"
  /\ buckets' \in {[buckets EXCEPT ![t] = n] : n \in Answers \union {1}}
  /\ Goto(t, "insertSchema")
  /\ UNCHANGED <<clientVars, sharedVars, rec, next, sweepVars, puts, holders, outcome>>

(* An exception leaves put: the local variables are gone.                  *)
Leave(t) ==
  /\ Goto(t, "idle")
  /\ rec' = [rec EXCEPT ![t] = AnyRecord]
  /\ buckets' = [buckets EXCEPT ![t] = 0]
  /\ next' = [next EXCEPT ![t] = 0]

(* No answer, one that is not JSON, or one without a statement.            *)
RetrieveThrows(t) ==
  /\ pc[t] = "retrieve"
  /\ Leave(t)
  /\ UNCHANGED <<clientVars, sharedVars, sweepVars, puts, holders, outcome>>

(* The insert of a std::unordered_map keeps what is there already.         *)
Insert(map, key, value) ==
  [k \in DOMAIN map \union {key} |-> IF k \in DOMAIN map THEN map[k] ELSE value]

InsertSchema(t) ==
  /\ pc[t] = "insertSchema"
  /\ schemas' = Insert(schemas, Table(t), buckets[t])
  /\ MayRace(t, UsesSchemas)
  /\ Goto(t, "readSchema")
  /\ UNCHANGED <<clientVars, tables, registered, matchVars, sweepVars, puts, holders>>

(* Mutant: the answer is used, not what the cache has kept.                *)
OwnAnswer(t) == buckets[t]

(* schemas[tableIdentifier].numShards.                                     *)
CachedNumber(t) == schemas[Table(t)]

ReadSchema(t) ==
  /\ pc[t] = "readSchema"
  /\ buckets' = [buckets EXCEPT ![t] = CachedNumber(t)]
  /\ Goto(t, "insertTable")
  /\ UNCHANGED <<clientVars, sharedVars, rec, next, sweepVars, puts, holders, outcome>>

(* The table collector that the thread has made.                           *)
Made(t) == [maker |-> t, numShards |-> NumShards(config, buckets[t])]

(* Mutant: a second table collector replaces the first.                    *)
ReplaceTable(t) ==
  tables' = [k \in DOMAIN tables \union {Table(t)} |->
               IF k = Table(t) THEN Made(t) ELSE tables[k]]

(* It goes if the table has one by now.                                    *)
AddTable(t) == tables' = Insert(tables, Table(t), Made(t))

InsertTable(t) ==
  /\ pc[t] = "insertTable"
  /\ AddTable(t)
  /\ MayRace(t, UsesTables)
  /\ Goto(t, "lookUp")
  /\ UNCHANGED <<clientVars, schemas, registered, matchVars, sweepVars, puts, holders>>

(* Mutant: the loop ends before the last shard.                            *)
AllButOne(t) == tables[Table(t)].numShards - 1

(* shardCollectorsInTable.end().                                           *)
End(t) == tables[Table(t)].numShards

(* The loop that registers the shards of the table, whoever made it.       *)
LookUp(t) ==
  /\ pc[t] = "lookUp"
  /\ Goto(t, IF End(t) = 0 THEN "match" ELSE "register")
  /\ UNCHANGED <<clientVars, sharedVars, matchVars, sweepVars, puts, holders, outcome>>

(* A loop over the set that is under way may now miss shards, or come to   *)
(* some twice.                                                             *)
Register(t) ==
  /\ pc[t] = "register"
  /\ registered' = registered \union {ShardOf(Table(t), next[t])}
  /\ next' = [next EXCEPT ![t] = @ + 1]
  /\ scope' = [u \in Threads |-> {}]
  /\ MayRace(t, UsesShards)
  /\ Goto(t, IF next[t] + 1 < End(t) THEN "register" ELSE "match")
  /\ UNCHANGED <<clientVars, schemas, tables, rec, buckets, waiting, puts, holders>>

(* TableCollector::match; the record is then put into the shard.  A name   *)
(* where an id should be is an exception, no shards a division by zero.    *)
Match(t) ==
  LET id == IdOf[rec[t]]
      n == tables[Table(t)].numShards
      shard == ShardOf(Table(t), Hash(id, n))
  IN
  /\ pc[t] = "match"
  /\ Leave(t)
  /\ \/ id = NotANumber /\ UNCHANGED <<holders, waiting, outcome>>
     \/ id # NotANumber /\ n = 0 /\ outcome' = "divided by zero"
        /\ UNCHANGED <<holders, waiting>>
     \/ /\ id # NotANumber /\ n > 0
        /\ holders' = [holders EXCEPT ![rec[t]] = @ \union {shard}]
        /\ waiting' = waiting \union {shard}
        /\ UNCHANGED outcome
  /\ UNCHANGED <<clientVars, sharedVars, scope, puts>>

-----------------------------------------------------------------------------
(* The loops over the set of shards: flush, watcherRun and the destructor. *)

StartSweep(t) ==
  /\ pc[t] = "idle"
  /\ IF phase = "closing" THEN t = Owner ELSE phase = "running"
  /\ scope' = [scope EXCEPT ![t] = waiting \intersect registered]
  /\ Goto(t, "sweep")
  /\ UNCHANGED <<clientVars, sharedVars, matchVars, waiting, puts, holders, outcome>>

EndSweep(t) ==
  /\ pc[t] = "sweep"
  /\ waiting' = waiting \ scope[t]
  /\ scope' = [scope EXCEPT ![t] = {}]
  /\ Goto(t, "idle")
  /\ phase' = IF phase = "closing" /\ t = Owner THEN "flushed" ELSE phase
  /\ UNCHANGED <<config, sharedVars, matchVars, puts, holders, outcome>>

(* The destructor begins; the application has no thread in put or flush.   *)
StartClose ==
  /\ phase = "running"
  /\ \A t \in AppThreads : pc[t] = "idle"
  /\ phase' = "closing"
  /\ UNCHANGED <<config, sharedVars, pc, matchVars, sweepVars, puts, holders, outcome>>

-----------------------------------------------------------------------------
MatchStep(t) ==
  \/ Find(t) \/ FindSchema(t) \/ Retrieve(t) \/ RetrieveThrows(t) \/ InsertSchema(t)
  \/ ReadSchema(t) \/ InsertTable(t) \/ LookUp(t) \/ Register(t) \/ Match(t)

Step ==
  \/ ConstructPool \/ Validate \/ StartClose
  \/ \E t \in AppThreads : (\E r \in Records : StartPut(t, r)) \/ MatchStep(t)
  \/ \E t \in Threads : StartSweep(t) \/ EndSweep(t)

(* There is no client, its destructor has flushed, or the program is gone. *)
Done == phase \in {"rejected", "flushed"} \/ outcome # "fine"

Next == (outcome = "fine" /\ Step) \/ (Done /\ UNCHANGED vars)

(* Threads that can run do, and the database answers.  The watcher goes    *)
(* round as long as the client runs.                                       *)
Fairness ==
  /\ \A t \in AppThreads : WF_vars(outcome = "fine" /\ (MatchStep(t) \/ EndSweep(t)))
  /\ WF_vars(outcome = "fine" /\ (StartSweep(Watcher) \/ EndSweep(Watcher)))

Spec == Init /\ [][Next]_vars
FairSpec == Spec /\ Fairness

-----------------------------------------------------------------------------
(* Properties.                                                             *)

(* Every variable keeps its type.                                          *)
TypeOK ==
  /\ config \in Configs /\ phase \in Phases
  /\ schemas \in [DOMAIN schemas -> Nat] /\ DOMAIN schemas \subseteq Tables
  /\ tables \in [DOMAIN tables -> [maker : AppThreads, numShards : Nat]]
  /\ DOMAIN tables \subseteq DOMAIN schemas
  /\ registered \subseteq UNION {Shards(table) : table \in DOMAIN tables}
  /\ pc \in [Threads -> Pcs]
  /\ rec \in [AppThreads -> Records] /\ buckets \in [AppThreads -> Nat]
  /\ next \in [AppThreads -> Nat]
  /\ scope \in [Threads -> SUBSET registered]
  /\ puts \in 0 .. MaxPuts
  /\ holders \in [Records -> SUBSET UNION {Shards(table) : table \in DOMAIN tables}]
  /\ waiting \subseteq UNION {holders[r] : r \in Records}
  /\ outcome \in {"fine", "race", "divided by zero"}

(* A shard that holds a record is in the set that flush, the watcher and   *)
(* the destructor go through, or the thread that makes it known has still  *)
(* to come by: collector.h:34-43, where a second thread may use the table  *)
(* as soon as it is found.                                                 *)
Reachable ==
  \A r \in Records :
    \/ holders[r] \subseteq registered
    \/ \E t \in AppThreads : pc[t] \in {"lookUp", "register"} /\ Table(t) = TableOf[r]

(* A record is always put into the same shard of its table, and no shard   *)
(* has records of two tables, whoever made the shards and how often: the   *)
(* order of a row's versions, and the url that write takes from the first  *)
(* record of a batch, depend on it (collector.h:37-43).                    *)
SameShard ==
  \A r \in {q \in Records : holders[q] # {}} :
    /\ holders[r] \subseteq Shards(TableOf[r])
    /\ Cardinality(holders[r]) = 1
    /\ \A q \in Records : holders[q] \intersect holders[r] # {} => TableOf[q] = TableOf[r]

(* Threads that ask the database for the same table at the same time may   *)
(* be told different numbers; the first one stored counts for all          *)
(* (doris_connector.h:123-126), and for the shards of the table.           *)
OneNumber ==
  /\ \A t \in AppThreads :
       pc[t] = "insertTable" => Table(t) \in DOMAIN schemas /\ buckets[t] = schemas[Table(t)]
  /\ \A table \in DOMAIN tables :
       tables[table].numShards = NumShards(config, schemas[table])

(* collector.h:36: a table has the least number of shards that is at least *)
(* numShardsFactor times its buckets and, in whole multiples of them,      *)
(* reaches minNumShards; with a bucket it has a shard, whatever            *)
(* configuration was let through (config.h:40-63).                         *)
ShardCount ==
  \A table \in DOMAIN tables : LET n == schemas[table] k == tables[table].numShards IN
    n > 0 => Enough(config, k, n) /\ ~\E i \in 0 .. k - 1 : Enough(config, i, n)

(* Once all tables are known and registered, nothing here changes any more *)
(* and nobody races, so that a record always has the same shard: this is   *)
(* what module Client starts from.                                         *)
Settled ==
  /\ DOMAIN tables = Tables
  /\ \A t \in AppThreads : pc[t] \in {"idle", "find", "match", "sweep"}
SettledForGood ==
  [][Settled => Settled' /\ UNCHANGED sharedVars /\ outcome' # "race"]_vars

(* The watcher comes by all shards with a record again and again, without  *)
(* another call of the application, even if inserts by other threads spoil *)
(* some of its rounds (client.h:114-121).                                  *)
WatcherReaches == []<>(waiting = {} \/ phase # "running" \/ outcome # "fine")
=============================================================================
