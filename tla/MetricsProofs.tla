---------------------------- MODULE MetricsProofs ----------------------------
(***************************************************************************)
(* Proofs about Metrics, for every number of workers and threads, every    *)
(* set of events and every interval.  The inductive invariant is IndInv.   *)
(***************************************************************************)
EXTENDS Metrics, SequenceTheorems, TLAPS

(* Where the two reporters can be, and the index of their loops.           *)
PlaceInv ==
  /\ pc[Watcher] \in {"top", "test", "gather", "log", "reset", "ended"}
  /\ pc[Owner] \in {"away", "closing", "gather", "log", "join", "gone"}
  /\ \A t \in Reporters : pc[t] # "gather" => pos[t] = 0

(* An event is in one counter or in the hands of one thread.               *)
PlacesDiffer ==
  /\ \A g, h \in Holders : g # h => held[g] \intersect held[h] = {}
  /\ \A t \in Threads \union Workers : doing[t] # NoEvent =>
       doing[t] \in happened /\ doing[t] \notin Held \union Reported
  /\ \A t, u \in Threads \union Workers :
       t # u /\ doing[t] # NoEvent => doing[t] # doing[u]
  /\ Held \union Reported \subseteq happened \union Junk

(* What was logged is in the counters of the client until the next reset,  *)
(* and in no counter after it.                                             *)
ReportInv ==
  \A i \in DOMAIN reports :
    /\ reports[i].resets <= resets
    /\ reports[i].resets < resets => reports[i].events \intersect Held = {}
    /\ reports[i].resets = resets => reports[i].events \subseteq held[Client]
    /\ reports[i].resets = resets /\ reports[i].by = Watcher => pc[Watcher] = "reset"

(* Where there may still be uninitialised counters.                        *)
JunkInv ==
  /\ resets > 0 => Held \intersect Junk = {}
  /\ pc[Watcher] = "gather" =>
       \A w \in Workers : w < pos[Watcher] => held[w] \intersect Junk = {}
  /\ pc[Watcher] \in {"log", "reset"} => \A w \in Workers : held[w] \intersect Junk = {}

(* The reset of the watcher drops nothing that was not logged, but what    *)
(* came to the client's counters after the log.                            *)
ResetInv == pc[Watcher] = "reset" => held[Client] \subseteq Reported \union late \union caught

(* How far the destructor has got with what it is to report.               *)
DueInv ==
  /\ pc[Owner] = "gather" =>
       due \subseteq Reported \union late \union caught \union held[Client]
                     \union UNION {held[w] : w \in pos[Owner] .. NumWorkers - 1}
  /\ pc[Owner] = "log" => due \subseteq Reported \union late \union caught \union held[Client]
  /\ pc[Owner] \in {"join", "gone"} => due \subseteq Reported \union late \union caught

IndInv ==
  /\ TypeOK /\ WatcherNeverDivides /\ PlaceInv /\ PlacesDiffer /\ ReportInv /\ ReportedOnce
  /\ JunkInv /\ JunkOnce /\ ResetInv /\ NothingLost /\ DueInv
-----------------------------------------------------------------------------
(* The constants, in the form the steps need.                              *)
LEMMA WorkerFacts ==
  /\ NumWorkers \in Nat /\ NumWorkers > 0
  /\ \A w \in Workers : w \in Nat /\ w < NumWorkers
  /\ Workers = 0 .. NumWorkers - 1
  /\ NumWorkers .. NumWorkers - 1 = {}
BY MetricsAssumption DEF Workers

(* The loop over the workers goes on to a worker or to its end.            *)
LEMMA NextWorker ==
  ASSUME NEW i \in 0 .. NumWorkers, i < NumWorkers
  PROVE  i \in Workers /\ i \in Nat /\ i + 1 \in 0 .. NumWorkers
BY WorkerFacts

(* What the loop over the workers has still to come by.                    *)
LEMMA RestIsWorkers ==
  ASSUME NEW i \in 0 .. NumWorkers
  PROVE  i .. NumWorkers - 1 \subseteq Workers
BY WorkerFacts

(* The client is no worker, the reporters are two, and junk is no event.   *)
LEMMA ConstantFacts ==
  /\ Owner \in Threads /\ Watcher \in Threads /\ Owner # Watcher
  /\ Reporters = {Watcher, Owner}
  /\ NumWorkers \in Nat /\ NumWorkers > 0 /\ Interval \in Nat /\ Interval > 0
  /\ MaxClock \in Nat
  /\ Client \in Holders /\ Client \notin Workers /\ Workers \subseteq Holders
  /\ \A h \in Holders : h = Client \/ h \in Workers
  /\ Threads \intersect Workers = {}
  /\ Junk \intersect (Executions \union Waits) = {}
  /\ NoEvent \notin Executions \union Waits
BY MetricsAssumption DEF Threads, Reporters, Holders, Workers

(* At first all counters hold is junk.                                     *)
LEMMA InitInv == Init => IndInv
<1> SUFFICES ASSUME Init PROVE IndInv
  OBVIOUS
<1> USE DEF Init
<1>1. TypeOK
  <2>1. held \in [Holders -> SUBSET (Executions \union Waits \union Junk)]
    BY DEF Junk
  <2>2. /\ pc \in [Reporters -> Pcs] /\ pos \in [Reporters -> 0 .. NumWorkers]
    BY ConstantFacts DEF Pcs
  <2> QED
    BY <2>1, <2>2, ConstantFacts DEF TypeOK
<1>2. Held = Junk /\ Reported = {} /\ DOMAIN reports = {}
  BY DEF Held, Reported, Junk
<1>3. PlaceInv /\ WatcherNeverDivides
  BY ConstantFacts DEF PlaceInv, WatcherNeverDivides
<1>4. PlacesDiffer
  BY <1>2 DEF PlacesDiffer
<1>5. ReportInv /\ ReportedOnce /\ JunkOnce
  BY <1>2 DEF ReportInv, ReportedOnce, JunkOnce
<1>6. JunkInv /\ ResetInv /\ NothingLost /\ DueInv
  BY ConstantFacts DEF JunkInv, ResetInv, NothingLost, DueInv
<1> QED
  BY <1>1, <1>3, <1>4, <1>5, <1>6 DEF IndInv

-----------------------------------------------------------------------------
(* What TypeOK says of the times, and of everything else.                  *)
TimesOK ==
  /\ clock \in Nat /\ lastResetTime \in Nat /\ lastLoggingTime \in Nat
  /\ lastResetTime <= lastLoggingTime /\ lastLoggingTime <= clock /\ clock <= MaxClock

Reports == [by : Reporters, events : SUBSET (Executions \union Waits \union Junk), resets : Nat]

EventsOK ==
  /\ held \in [Holders -> SUBSET (Executions \union Waits \union Junk)]
  /\ doing \in [Threads \union Workers -> Executions \union Waits \union {NoEvent}]
  /\ pc \in [Reporters -> Pcs] /\ pos \in [Reporters -> 0 .. NumWorkers]
  /\ happened \subseteq Executions \union Waits
  /\ late \subseteq Executions \union Waits
  /\ caught \subseteq Executions \union Waits \union Junk
  /\ due \subseteq happened
  /\ reports \in Seq(Reports)
  /\ resets \in Nat
  /\ outcome \in {"fine", "race", "divided by zero"}

(* The two halves of TypeOK follow from it,                                *)
LEMMA TypeParts == ASSUME TypeOK PROVE TimesOK /\ EventsOK
<1>1. /\ clock \in 0 .. MaxClock
      /\ lastResetTime \in 0 .. lastLoggingTime /\ lastLoggingTime \in 0 .. clock
  BY DEF TypeOK
<1>2. TimesOK
  BY <1>1, ConstantFacts DEF TimesOK
<1> QED
  BY <1>2 DEF TypeOK, EventsOK, Reports

(* and make it up.                                                         *)
LEMMA TypeWhole == ASSUME TimesOK', EventsOK' PROVE TypeOK'
<1>1. /\ clock' \in 0 .. MaxClock
      /\ lastResetTime' \in 0 .. lastLoggingTime' /\ lastLoggingTime' \in 0 .. clock'
  BY ConstantFacts DEF TimesOK
<1> QED
  BY <1>1 DEF TypeOK, EventsOK, Reports

(* Steps that move no event.                                               *)
LEMMA QuietStep ==
  ASSUME IndInv, UNCHANGED <<held, doing, happened, reports, resets, late, caught>>,
         pc[Watcher] = "reset" => pc'[Watcher] = "reset"
  PROVE  /\ PlacesDiffer' /\ ReportInv' /\ ReportedOnce' /\ JunkOnce' /\ NothingLost'
         /\ Held' = Held /\ Reported' = Reported
<1>1. Held' = Held /\ Reported' = Reported /\ Adding' = Adding
  BY DEF Held, Reported, Adding
<1>2. PlacesDiffer' /\ NothingLost'
  BY <1>1 DEF IndInv, PlacesDiffer, NothingLost
<1>3. ReportInv' /\ ReportedOnce' /\ JunkOnce'
  BY <1>1 DEF IndInv, ReportInv, ReportedOnce, JunkOnce
<1> QED
  BY <1>1, <1>2, <1>3

(* The clock touches no counter.                                           *)
LEMMA TickInv == ASSUME IndInv, Tick PROVE IndInv'
<1> USE DEF Tick, historyVars
<1>1. /\ PlacesDiffer' /\ ReportInv' /\ ReportedOnce' /\ JunkOnce' /\ NothingLost'
      /\ Held' = Held /\ Reported' = Reported
  BY QuietStep
<1>2. TimesOK /\ EventsOK
  BY TypeParts DEF IndInv
<1>3. TimesOK' /\ EventsOK'
  <2>1. TimesOK'
    BY <1>2, ConstantFacts DEF TimesOK
  <2>2. EventsOK'
    BY <1>2 DEF EventsOK
  <2> QED
    BY <2>1, <2>2
<1>4. WatcherNeverDivides'
  BY <1>2, ConstantFacts DEF IndInv, WatcherNeverDivides, TimesOK
<1>5. PlaceInv' /\ JunkInv' /\ ResetInv' /\ DueInv'
  BY <1>1 DEF IndInv, PlaceInv, JunkInv, ResetInv, DueInv
<1> QED
  BY <1>1, <1>3, <1>4, <1>5, TypeWhole DEF IndInv

(* The watcher goes round and looks at the time.                           *)
LEMMA WatcherInv == ASSUME IndInv, Top \/ Test PROVE IndInv'
<1> USE DEF Top, Test, TimeToLog, Goto, timeVars, historyVars
<1>1. TimesOK /\ EventsOK /\ PlaceInv
  BY TypeParts DEF IndInv
<1>2. /\ pc[Watcher] \in {"top", "test"} /\ pc'[Watcher] \in {"top", "test", "gather", "ended"}
      /\ pc'[Watcher] = "gather" => clock - lastLoggingTime >= Interval
      /\ pc'[Owner] = pc[Owner] /\ pos[Watcher] = 0
      /\ pc' \in [Reporters -> Pcs]
  BY <1>1, ConstantFacts DEF EventsOK, PlaceInv, Pcs
<1>3. /\ PlacesDiffer' /\ ReportInv' /\ ReportedOnce' /\ JunkOnce' /\ NothingLost'
      /\ Held' = Held /\ Reported' = Reported
  BY <1>2, QuietStep
<1>4. TimesOK' /\ EventsOK'
  BY <1>1, <1>2 DEF TimesOK, EventsOK
<1>5. WatcherNeverDivides'
  BY <1>1, <1>2, ConstantFacts DEF WatcherNeverDivides, TimesOK
<1>6. PlaceInv'
  BY <1>1, <1>2, ConstantFacts DEF PlaceInv
<1>7. JunkInv'
  BY <1>2, <1>3, ConstantFacts DEF IndInv, JunkInv, Workers
<1>8. ResetInv' /\ DueInv'
  BY <1>2, <1>3 DEF IndInv, ResetInv, DueInv
<1> QED
  BY <1>3, <1>4, <1>5, <1>6, <1>7, <1>8, TypeWhole DEF IndInv

(* The destructor begins, begins to gather, and joins the watcher.         *)
LEMMA OwnerInv == ASSUME IndInv, StartClose \/ StartGather \/ Join PROVE IndInv'
<1> USE DEF StartClose, StartGather, Join, Goto, timeVars, historyVars
<1>1. TimesOK /\ EventsOK /\ PlaceInv
  BY TypeParts DEF IndInv
<1>2. /\ pc'[Watcher] = pc[Watcher] /\ pc' \in [Reporters -> Pcs] /\ pos[Owner] = 0
      /\ \/ pc'[Owner] = "closing" /\ due' = due
         \/ pc'[Owner] = "gather" /\ due' \subseteq happened \ Adding
         \/ pc[Owner] = "join" /\ pc'[Owner] = "gone" /\ due' = due
  BY <1>1, ConstantFacts DEF EventsOK, PlaceInv, Pcs, Adding
<1>3. /\ PlacesDiffer' /\ ReportInv' /\ ReportedOnce' /\ JunkOnce' /\ NothingLost'
      /\ Held' = Held /\ Reported' = Reported
  BY <1>2, QuietStep
<1>4. TimesOK' /\ EventsOK'
  BY <1>1, <1>2 DEF TimesOK, EventsOK
<1>5. WatcherNeverDivides'
  BY <1>2 DEF IndInv, WatcherNeverDivides
<1>6. PlaceInv'
  BY <1>1, <1>2, ConstantFacts DEF PlaceInv
<1>7. JunkInv' /\ ResetInv'
  BY <1>2, <1>3 DEF IndInv, JunkInv, ResetInv
<1>8. DueInv'
  <2>1. CASE pc'[Owner] = "gather" /\ due' \subseteq happened \ Adding
    <3>1. Held \subseteq held[Client] \union UNION {held[w] : w \in 0 .. NumWorkers - 1}
      BY ConstantFacts DEF Held, Holders, Workers
    <3>2. due' \subseteq Reported \union Held \union late \union caught
      BY <2>1 DEF IndInv, NothingLost
    <3> QED
      BY <1>2, <1>3, <2>1, <3>1, <3>2 DEF DueInv
  <2> QED
    BY <1>2, <1>3, <2>1 DEF IndInv, DueInv
<1> QED
  BY <1>3, <1>4, <1>5, <1>6, <1>7, <1>8, TypeWhole DEF IndInv

(* A reporter has come to its log, or divides by zero.                     *)
LEMMA EndGatherInv ==
  ASSUME IndInv, NEW t \in Reporters, EndGather(t) \/ DivideByZero(t)
  PROVE  IndInv'
<1> USE DEF EndGather, DivideByZero, NumAffliated, Goto, timeVars, historyVars
<1>1. TimesOK /\ EventsOK /\ PlaceInv
  BY TypeParts DEF IndInv
<1>2. CASE EndGather(t)
  <2>1. /\ pc[t] = "gather" /\ pos[t] = NumWorkers /\ pc'[t] = "log" /\ pos'[t] = 0
        /\ \A u \in Reporters \ {t} : pc'[u] = pc[u] /\ pos'[u] = pos[u]
        /\ pc' \in [Reporters -> Pcs] /\ pos' \in [Reporters -> 0 .. NumWorkers]
    <3>1. /\ pc \in [Reporters -> Pcs] /\ pos \in [Reporters -> 0 .. NumWorkers]
          /\ pc' = [pc EXCEPT ![t] = "log"] /\ pos' = [pos EXCEPT ![t] = 0]
          /\ pc[t] = "gather" /\ pos[t] >= NumWorkers
      BY <1>1, <1>2 DEF EventsOK
    <3>2. pos[t] = NumWorkers /\ 0 \in 0 .. NumWorkers
      BY <3>1, WorkerFacts
    <3> QED
      BY <3>1, <3>2 DEF Pcs
  <2>2. /\ PlacesDiffer' /\ ReportInv' /\ ReportedOnce' /\ JunkOnce' /\ NothingLost'
        /\ Held' = Held /\ Reported' = Reported
    BY <1>2, <2>1, QuietStep, ConstantFacts
  <2>3. TimesOK' /\ EventsOK'
    BY <1>1, <1>2, <2>1 DEF TimesOK, EventsOK
  <2>4. WatcherNeverDivides'
    BY <1>2, <2>1, ConstantFacts DEF IndInv, WatcherNeverDivides
  <2>5. PlaceInv'
    BY <1>1, <2>1, ConstantFacts DEF PlaceInv
  <2>6. JunkInv'
    BY <1>2, <2>1, <2>2, WorkerFacts, ConstantFacts DEF IndInv, JunkInv
  <2>7. ResetInv'
    BY <1>2, <2>1, <2>2, ConstantFacts DEF IndInv, ResetInv
  <2>8. DueInv'
    <3>1. UNION {held[w] : w \in NumWorkers .. NumWorkers - 1} = {}
      BY WorkerFacts
    <3> QED
      BY <1>2, <2>1, <2>2, <3>1, ConstantFacts DEF IndInv, DueInv
  <2> QED
    BY <2>2, <2>3, <2>4, <2>5, <2>6, <2>7, <2>8, TypeWhole DEF IndInv
<1>3. CASE DivideByZero(t)
  <2>1. /\ PlacesDiffer' /\ ReportInv' /\ ReportedOnce' /\ JunkOnce' /\ NothingLost'
        /\ Held' = Held /\ Reported' = Reported
    BY <1>3, QuietStep
  <2>2. TimesOK' /\ EventsOK'
    BY <1>1, <1>3 DEF TimesOK, EventsOK
  <2>3. WatcherNeverDivides' /\ PlaceInv' /\ JunkInv' /\ ResetInv' /\ DueInv'
    <3>1. WatcherNeverDivides' /\ PlaceInv'
      BY <1>3, <2>1 DEF IndInv, WatcherNeverDivides, PlaceInv
    <3>2. JunkInv'
      BY <1>3, <2>1 DEF IndInv, JunkInv
    <3>3. ResetInv' /\ DueInv'
      BY <1>3, <2>1 DEF IndInv, ResetInv, DueInv
    <3> QED
      BY <3>1, <3>2, <3>3
  <2> QED
    BY <2>1, <2>2, <2>3, TypeWhole DEF IndInv
<1> QED
  BY <1>2, <1>3
-----------------------------------------------------------------------------
(* The threads that count: an event appears, and goes into a counter.      *)
LEMMA HappenInv ==
  ASSUME IndInv, NEW t \in Threads \union Workers, NEW e \in Executions \union Waits, Happen(t, e)
  PROVE  IndInv'
<1> USE DEF timeVars
<1>1. TimesOK /\ EventsOK
  BY TypeParts DEF IndInv
<1>2. /\ doing[t] = NoEvent /\ e \notin happened /\ e # NoEvent /\ e \notin Junk
      /\ doing' = [doing EXCEPT ![t] = e] /\ happened' = happened \union {e}
      /\ UNCHANGED <<timeVars, held, pc, pos, reports, resets, late, caught, due, outcome>>
  BY ConstantFacts DEF Happen
<1>3. /\ doing'[t] = e
      /\ \A u \in (Threads \union Workers) \ {t} : doing'[u] = doing[u]
      /\ doing' \in [Threads \union Workers -> Executions \union Waits \union {NoEvent}]
  BY <1>1, <1>2 DEF EventsOK
<1>4. Held' = Held /\ Reported' = Reported /\ Adding' = Adding \union {e}
  BY <1>2, <1>3 DEF Held, Reported, Adding
<1>5. PlacesDiffer'
  <2>1. e \notin Held \union Reported
    BY <1>2 DEF IndInv, PlacesDiffer
  <2>2. \A u \in Threads \union Workers : doing[u] # NoEvent => doing[u] # e
    BY <1>2 DEF IndInv, PlacesDiffer
  <2> QED
    BY <1>2, <1>3, <1>4, <2>1, <2>2 DEF IndInv, PlacesDiffer
<1>6. NothingLost'
  BY <1>2, <1>4 DEF IndInv, NothingLost
<1>7. ReportInv' /\ ReportedOnce' /\ JunkOnce'
  BY <1>2, <1>4 DEF IndInv, ReportInv, ReportedOnce, JunkOnce
<1>8. TimesOK' /\ EventsOK'
  BY <1>1, <1>2, <1>3 DEF TimesOK, EventsOK
<1>9. WatcherNeverDivides' /\ PlaceInv' /\ JunkInv' /\ ResetInv' /\ DueInv'
  BY <1>2, <1>4 DEF IndInv, WatcherNeverDivides, PlaceInv, JunkInv, ResetInv, DueInv
<1> QED
  BY <1>5, <1>6, <1>7, <1>8, <1>9, TypeWhole DEF IndInv

(* An event leaves the hands of a thread for a counter.                    *)
LEMMA AddStep ==
  ASSUME IndInv, NEW t \in Threads \union Workers, NEW h \in Holders, doing[t] # NoEvent,
         held' = [held EXCEPT ![h] = @ \union {doing[t]}],
         doing' = [doing EXCEPT ![t] = NoEvent],
         UNCHANGED <<pc, pos, happened, reports, resets, caught, due, timeVars>>,
         late \subseteq late', late' \subseteq late \union {doing[t]},
         outcome' \in {"fine", "race", "divided by zero"}
  PROVE  /\ TypeOK' /\ WatcherNeverDivides' /\ PlaceInv' /\ PlacesDiffer' /\ ReportInv'
         /\ ReportedOnce' /\ JunkInv' /\ JunkOnce' /\ NothingLost' /\ DueInv'
         /\ Reported' = Reported
<1> USE DEF timeVars
<1> DEFINE e == doing[t]
<1>1. TimesOK /\ EventsOK
  BY TypeParts DEF IndInv
<1>2. e \in Executions \union Waits /\ e \notin Junk /\ e \in happened
      /\ e \notin Held \union Reported
  BY <1>1, ConstantFacts DEF EventsOK, IndInv, PlacesDiffer
<1>3. /\ held'[h] = held[h] \union {e} /\ \A g \in Holders \ {h} : held'[g] = held[g]
      /\ doing'[t] = NoEvent
      /\ \A u \in (Threads \union Workers) \ {t} : doing'[u] = doing[u]
      /\ held' \in [Holders -> SUBSET (Executions \union Waits \union Junk)]
      /\ doing' \in [Threads \union Workers -> Executions \union Waits \union {NoEvent}]
  BY <1>1 DEF EventsOK
<1>3a. \A g \in Holders : \A x : x \in held'[g] <=> x \in held[g] \/ (g = h /\ x = e)
  BY <1>3
<1>4. Held' = Held \union {e} /\ Reported' = Reported /\ Adding \subseteq Adding' \union {e}
  <2>1. Held' = Held \union {e}
    <3>1. /\ \A x : x \in Held <=> \E g \in Holders : x \in held[g]
          /\ \A x : x \in Held' <=> \E g \in Holders : x \in held'[g]
      BY DEF Held
    <3> HIDE DEF e
    <3> QED
      BY <1>3a, <3>1
  <2>2. Adding \subseteq Adding' \union {e}
    <3> SUFFICES ASSUME NEW u \in Threads \union Workers, doing[u] # NoEvent, u # t
                 PROVE  doing[u] \in Adding'
      BY DEF Adding
    <3> QED
      BY <1>3 DEF Adding
  <2> QED
    BY <2>1, <2>2 DEF Reported
<1>5. PlacesDiffer'
  <2>1. \A g \in Holders : e \notin held[g]
    BY <1>2 DEF Held
  <2>2. \A u \in Threads \union Workers : u # t => doing[u] # e
    BY DEF IndInv, PlacesDiffer
  <2>3. \A f, g \in Holders : f # g => held'[f] \intersect held'[g] = {}
    <3>1. \A f, g \in Holders : f # g => held[f] \intersect held[g] = {}
      BY DEF IndInv, PlacesDiffer
    <3> HIDE DEF e
    <3> SUFFICES ASSUME NEW f \in Holders, NEW g \in Holders, f # g,
                        NEW x, x \in held'[f], x \in held'[g]
                 PROVE  FALSE
      OBVIOUS
    <3>2. held[f] \intersect held[g] = {}
      BY <3>1
    <3>3. x \notin held[f] \/ x \notin held[g]
      BY <3>2
    <3>4. x # e
      <4>1. x = e => f = h /\ g = h
        BY <1>3a, <2>1
      <4> QED
        BY <4>1
    <3>5. x \in held[f]
      BY <1>3a, <3>4
    <3>6. x \in held[g]
      BY <1>3a, <3>4
    <3> QED
      BY <3>3, <3>5, <3>6
  <2>4. \A u \in Threads \union Workers : doing'[u] # NoEvent =>
          doing'[u] \in happened' /\ doing'[u] \notin Held' \union Reported'
    BY <1>3, <1>4, <2>2 DEF IndInv, PlacesDiffer
  <2>5. \A u, v \in Threads \union Workers : u # v /\ doing'[u] # NoEvent => doing'[u] # doing'[v]
    BY <1>3 DEF IndInv, PlacesDiffer
  <2>6. Held' \union Reported' \subseteq happened' \union Junk
    BY <1>2, <1>4 DEF IndInv, PlacesDiffer
  <2> QED
    BY <2>3, <2>4, <2>5, <2>6 DEF PlacesDiffer
<1>6. ReportInv'
  <2> SUFFICES ASSUME NEW i \in DOMAIN reports
               PROVE  /\ reports[i].resets <= resets
                      /\ reports[i].resets < resets => reports[i].events \intersect Held' = {}
                      /\ reports[i].resets = resets => reports[i].events \subseteq held'[Client]
                      /\ reports[i].resets = resets /\ reports[i].by = Watcher
                           => pc[Watcher] = "reset"
    BY DEF ReportInv
  <2>1. e \notin reports[i].events
    BY <1>2 DEF Reported
  <2>2. held[Client] \subseteq held'[Client]
    BY <1>3, ConstantFacts
  <2> QED
    BY <1>4, <2>1, <2>2 DEF IndInv, ReportInv
<1>7. ReportedOnce' /\ JunkOnce' /\ NothingLost'
  BY <1>4 DEF IndInv, ReportedOnce, JunkOnce, NothingLost
<1>8. JunkInv'
  <2>1. \A g \in Holders : held'[g] \intersect Junk = held[g] \intersect Junk
    <3> HIDE DEF e
    <3> SUFFICES ASSUME NEW g \in Holders, NEW x \in Junk
                 PROVE  x \in held'[g] <=> x \in held[g]
      OBVIOUS
    <3> QED
      BY <1>2, <1>3a
  <2>2. Held' \intersect Junk = Held \intersect Junk
    BY <1>2, <1>4
  <2>3. \A w \in Workers : held'[w] \intersect Junk = held[w] \intersect Junk
    BY <2>1, ConstantFacts
  <2> HIDE DEF e
  <2> QED
    BY <2>2, <2>3 DEF IndInv, JunkInv
<1>9. DueInv'
  <2>1. \A g \in Holders : held[g] \subseteq held'[g]
    BY <1>3
  <2>2. \A w \in pos[Owner] .. NumWorkers - 1 : w \in Holders
    <3>1. pos[Owner] \in 0 .. NumWorkers
      BY <1>1, ConstantFacts DEF EventsOK
    <3>2. pos[Owner] .. NumWorkers - 1 \subseteq Workers
      BY <3>1, RestIsWorkers
    <3> QED
      BY <3>2, ConstantFacts
  <2>3. UNION {held[w] : w \in pos[Owner] .. NumWorkers - 1}
          \subseteq UNION {held'[w] : w \in pos[Owner] .. NumWorkers - 1}
    BY <2>1, <2>2
  <2>4. held[Client] \subseteq held'[Client]
    BY <2>1, ConstantFacts
  <2> QED
    BY <1>4, <2>3, <2>4 DEF IndInv, DueInv
<1>10. TimesOK' /\ EventsOK'
  <2>1. late' \subseteq Executions \union Waits
    BY <1>1, <1>2 DEF EventsOK
  <2> QED
    BY <1>1, <1>3, <2>1 DEF TimesOK, EventsOK
<1>11. WatcherNeverDivides' /\ PlaceInv'
  BY DEF IndInv, WatcherNeverDivides, PlaceInv
<1> QED
  BY <1>4, <1>5, <1>6, <1>7, <1>8, <1>9, <1>10, <1>11, TypeWhole

(* A worker marks its own meter,                                           *)
LEMMA MarkInv == ASSUME IndInv, NEW w \in Workers, Mark(w) PROVE IndInv'
<1> USE DEF Mark, timeVars, historyVars
<1>1. TimesOK /\ EventsOK
  BY TypeParts DEF IndInv
<1>2. /\ TypeOK' /\ WatcherNeverDivides' /\ PlaceInv' /\ PlacesDiffer' /\ ReportInv'
      /\ ReportedOnce' /\ JunkInv' /\ JunkOnce' /\ NothingLost' /\ DueInv'
      /\ Reported' = Reported
  BY <1>1, AddStep, ConstantFacts DEF EventsOK
<1>3. ResetInv'
  <2>1. held'[Client] = held[Client]
    BY <1>1, ConstantFacts DEF EventsOK
  <2> QED
    BY <1>2, <2>1 DEF IndInv, ResetInv
<1> QED
  BY <1>2, <1>3 DEF IndInv

(* and a thread updates the client's histogram.                            *)
LEMMA UpdateInv == ASSUME IndInv, NEW t \in Threads, Update(t) PROVE IndInv'
<1> USE DEF Update, Unlogged, timeVars
<1>1. TimesOK /\ EventsOK
  BY TypeParts DEF IndInv
<1>2. outcome' \in {"fine", "race", "divided by zero"}
  BY DEF MayRace
<1>3. /\ TypeOK' /\ WatcherNeverDivides' /\ PlaceInv' /\ PlacesDiffer' /\ ReportInv'
      /\ ReportedOnce' /\ JunkInv' /\ JunkOnce' /\ NothingLost' /\ DueInv'
      /\ Reported' = Reported
  BY <1>2, AddStep, ConstantFacts
<1>4. ResetInv'
  <2>1. held'[Client] = held[Client] \union {doing[t]}
    BY <1>1, ConstantFacts DEF EventsOK
  <2> QED
    BY <1>3, <2>1 DEF IndInv, ResetInv
<1> QED
  BY <1>3, <1>4 DEF IndInv
-----------------------------------------------------------------------------
(* The threads that report: events go from a worker to the client, into a  *)
(* report, and away.                                                       *)
LEMMA ReporterOutcome ==
  ASSUME NEW t, NEW places, ReporterMayRace(t, places)
  PROVE  outcome' \in {"fine", "race", "divided by zero"}
BY DEF ReporterMayRace

(* The counters of one worker go over to the client's.                     *)
LEMMA GatherInv == ASSUME IndInv, NEW t \in Reporters, Gather(t) PROVE IndInv'
<1> USE DEF timeVars
<1> DEFINE w == pos[t]
<1>1. TimesOK /\ EventsOK /\ PlaceInv
  BY TypeParts DEF IndInv
<1>2. /\ pc[t] = "gather" /\ w < NumWorkers
      /\ held' = [held EXCEPT ![Client] = @ \union held[w], ![w] = {}]
      /\ pos' = [pos EXCEPT ![t] = w + 1]
      /\ caught' = caught \union Unlogged(held[w])
      /\ UNCHANGED <<timeVars, doing, pc, happened, reports, resets, late, due>>
      /\ outcome' \in {"fine", "race", "divided by zero"}
  BY ReporterOutcome DEF Gather, Take, NumAffliated
<1>3. w \in Workers /\ w \in Nat /\ w + 1 \in 0 .. NumWorkers
  <2>1. w \in 0 .. NumWorkers
    BY <1>1 DEF EventsOK
  <2> QED
    BY <1>2, <2>1, NextWorker
<1>4. w \in Holders /\ Client \in Holders /\ w # Client
  BY <1>3, ConstantFacts
<1>5. /\ pos'[t] = w + 1 /\ \A u \in Reporters \ {t} : pos'[u] = pos[u]
      /\ pos' \in [Reporters -> 0 .. NumWorkers]
  BY <1>1, <1>2, <1>3 DEF EventsOK
<1>6. /\ held'[w] = {} /\ held'[Client] = held[Client] \union held[w]
      /\ \A h \in Holders : h # w /\ h # Client => held'[h] = held[h]
      /\ held' \in [Holders -> SUBSET (Executions \union Waits \union Junk)]
  BY <1>1, <1>2, <1>4 DEF EventsOK
<1>7. Held' = Held /\ Reported' = Reported /\ Adding' = Adding
  <2>1. /\ \A x : x \in Held <=> \E g \in Holders : x \in held[g]
        /\ \A x : x \in Held' <=> \E g \in Holders : x \in held'[g]
    BY DEF Held
  <2>2. Held' = Held
    BY <1>4, <1>6, <2>1
  <2> QED
    BY <1>2, <2>2 DEF Reported, Adding
<1>8. /\ late' = late
      /\ caught \subseteq caught' /\ caught' \subseteq caught \union held[w]
      /\ pc[Watcher] = "reset" => held[w] \subseteq caught'
  BY <1>2 DEF Unlogged
<1>9. TimesOK' /\ EventsOK'
  <2>1. held[w] \subseteq Executions \union Waits \union Junk
    BY <1>1, <1>4 DEF EventsOK
  <2>2. caught' \subseteq Executions \union Waits \union Junk
    BY <1>1, <1>8, <2>1 DEF EventsOK
  <2> QED
    BY <1>1, <1>2, <1>5, <1>6, <1>8, <2>2 DEF TimesOK, EventsOK
<1>10. PlacesDiffer'
  <2>1. \A f, g \in Holders : f # g => held'[f] \intersect held'[g] = {}
    <3> SUFFICES ASSUME NEW f \in Holders, NEW g \in Holders, f # g
                 PROVE  held'[f] \intersect held'[g] = {}
      OBVIOUS
    <3>1. \A h \in Holders : h # w /\ h # Client =>
            held[h] \intersect held[w] = {} /\ held[h] \intersect held[Client] = {}
      BY <1>4 DEF IndInv, PlacesDiffer
    <3>2. held[f] \intersect held[g] = {}
      BY DEF IndInv, PlacesDiffer
    <3>3. CASE f = w \/ g = w
      BY <1>6, <3>3
    <3>4. CASE f # w /\ g # w /\ f = Client
      BY <1>6, <3>1, <3>4
    <3>5. CASE f # w /\ g # w /\ g = Client
      BY <1>6, <3>1, <3>5
    <3>6. CASE f # w /\ g # w /\ f # Client /\ g # Client
      BY <1>6, <3>2, <3>6
    <3> QED
      BY <3>3, <3>4, <3>5, <3>6
  <2> QED
    BY <1>2, <1>7, <2>1 DEF IndInv, PlacesDiffer
<1>11. ReportInv' /\ ReportedOnce' /\ JunkOnce' /\ NothingLost'
  <2>1. held[Client] \subseteq held'[Client]
    BY <1>6
  <2>2. ReportInv'
    BY <1>2, <1>7, <2>1 DEF IndInv, ReportInv
  <2>0. reports' = reports
    BY <1>2
  <2>3. ReportedOnce'
    BY <2>0 DEF IndInv, ReportedOnce
  <2>4. JunkOnce'
    BY <2>0 DEF IndInv, JunkOnce
  <2>5. NothingLost'
    <3>1. happened' = happened
      BY <1>2
    <3> QED
      BY <1>7, <1>8, <3>1 DEF IndInv, NothingLost
  <2> QED
    BY <2>2, <2>3, <2>4, <2>5
<1>12. JunkInv'
  <2>1. \A v \in Workers : held'[v] \subseteq held[v]
    BY <1>4, <1>6, ConstantFacts
  <2>2. ASSUME pc[Watcher] = "gather", NEW v \in Workers, v < pos'[Watcher]
        PROVE  held'[v] \intersect Junk = {}
    <3>1. CASE t = Watcher /\ v = w
      BY <1>6, <3>1
    <3>2. CASE ~(t = Watcher /\ v = w)
      <4>1. v < pos[Watcher]
        BY <1>3, <1>5, <2>2, <3>2, WorkerFacts, ConstantFacts
      <4> QED
        BY <2>1, <2>2, <4>1 DEF IndInv, JunkInv
    <3> QED
      BY <3>1, <3>2
  <2>3. ASSUME pc[Watcher] \in {"log", "reset"}, NEW v \in Workers
        PROVE  held'[v] \intersect Junk = {}
    BY <2>1, <2>3 DEF IndInv, JunkInv
  <2> QED
    BY <1>2, <1>7, <2>2, <2>3 DEF IndInv, JunkInv
<1>13. ResetInv'
  BY <1>2, <1>6, <1>7, <1>8 DEF IndInv, ResetInv
<1>14. DueInv'
  <2>1. held[Client] \subseteq held'[Client]
    BY <1>6
  <2>2. ASSUME pc[Owner] = "gather"
        PROVE  UNION {held[v] : v \in pos[Owner] .. NumWorkers - 1}
                 \subseteq held'[Client]
                             \union UNION {held'[v] : v \in pos'[Owner] .. NumWorkers - 1}
    <3> SUFFICES ASSUME NEW v \in pos[Owner] .. NumWorkers - 1
                 PROVE  \/ held[v] \subseteq held'[Client]
                        \/ v \in pos'[Owner] .. NumWorkers - 1 /\ held'[v] = held[v]
      OBVIOUS
    <3>1. pos[Owner] \in 0 .. NumWorkers
      BY <1>1, ConstantFacts DEF EventsOK
    <3>2. v \in Workers /\ v \in Holders /\ v # Client
      BY <3>1, RestIsWorkers, ConstantFacts
    <3>3. CASE v = w
      BY <1>6, <3>3
    <3>4. CASE v # w
      <4>1. held'[v] = held[v]
        BY <1>6, <3>2, <3>4
      <4>2. v \in pos'[Owner] .. NumWorkers - 1
        BY <1>3, <1>5, <3>1, <3>2, <3>4, WorkerFacts, ConstantFacts
      <4> QED
        BY <4>1, <4>2
    <3> QED
      BY <3>3, <3>4
  <2> QED
    BY <1>2, <1>7, <1>8, <2>1, <2>2 DEF IndInv, DueInv
<1>15. WatcherNeverDivides' /\ PlaceInv'
  BY <1>2, <1>5 DEF IndInv, WatcherNeverDivides, PlaceInv
<1> QED
  BY <1>9, <1>10, <1>11, <1>12, <1>13, <1>14, <1>15, TypeWhole DEF IndInv

(* What a report says of its events.                                       *)
LEMMA ReportFacts ==
  ASSUME EventsOK
  PROVE  \A i \in DOMAIN reports : reports[i].by \in Reporters /\ reports[i].resets \in Nat
<1>1. reports \in Seq(Reports)
  BY DEF EventsOK
<1>2. \A i \in DOMAIN reports : reports[i] \in Reports
  BY <1>1
<1> QED
  BY <1>2 DEF Reports

(* The reports after one more.                                             *)
LEMMA AppendFacts ==
  ASSUME NEW S, NEW seq \in Seq(S), NEW elt \in S
  PROVE  /\ Append(seq, elt) \in Seq(S) /\ Len(seq) + 1 \in Nat
         /\ Len(seq) + 1 \notin DOMAIN seq
         /\ DOMAIN Append(seq, elt) = DOMAIN seq \union {Len(seq) + 1}
         /\ \A i \in DOMAIN seq : Append(seq, elt)[i] = seq[i] /\ i \in Nat /\ i < Len(seq) + 1
         /\ Append(seq, elt)[Len(seq) + 1] = elt
<1>1. Len(seq) \in Nat /\ DOMAIN seq = 1 .. Len(seq)
  BY LenProperties
<1>2. /\ Append(seq, elt) \in Seq(S) /\ Len(Append(seq, elt)) = Len(seq) + 1
      /\ \A i \in 1 .. Len(seq) : Append(seq, elt)[i] = seq[i]
      /\ Append(seq, elt)[Len(seq) + 1] = elt
  BY AppendProperties
<1>3. DOMAIN Append(seq, elt) = 1 .. Len(seq) + 1
  BY <1>2, LenProperties
<1> QED
  BY <1>1, <1>2, <1>3

(* A report of what the client's counters hold.                            *)
LEMMA LogInv == ASSUME IndInv, NEW t \in Reporters, Log(t) PROVE IndInv'
<1> DEFINE new == [by |-> t, events |-> held[Client], resets |-> resets]
<1>1. TimesOK /\ EventsOK /\ PlaceInv
  BY TypeParts DEF IndInv
<1>2. /\ pc[t] = "log" /\ lastLoggingTime' = clock
      /\ reports' = Append(reports, new)
      /\ pc' = [pc EXCEPT ![t] = IF t = Watcher THEN "reset" ELSE "join"]
      /\ UNCHANGED <<clock, lastResetTime, held, doing, pos, happened, resets, late, caught,
                     due>>
      /\ outcome' \in {"fine", "race", "divided by zero"}
  BY ReporterOutcome DEF Log, Goto
<1>3. /\ pc'[t] = IF t = Watcher THEN "reset" ELSE "join"
      /\ \A u \in Reporters \ {t} : pc'[u] = pc[u]
      /\ pc' \in [Reporters -> Pcs]
  BY <1>1, <1>2, ConstantFacts DEF EventsOK, Pcs
<1>4. new \in Reports /\ held[Client] \subseteq Held
  BY <1>1, ConstantFacts DEF EventsOK, Reports, Held
<1> DEFINE last == Len(reports) + 1
<1>5. /\ new.by = t /\ new.events = held[Client] /\ new.resets = resets
      /\ resets \in Nat
  BY <1>1 DEF EventsOK
<1> HIDE DEF new
<1>6. /\ reports' \in Seq(Reports) /\ last \in Nat
      /\ last \notin DOMAIN reports /\ DOMAIN reports' = DOMAIN reports \union {last}
      /\ \A i \in DOMAIN reports : reports'[i] = reports[i] /\ i \in Nat /\ i < last
      /\ reports'[last] = new
  <2>1. reports \in Seq(Reports)
    BY <1>1 DEF EventsOK
  <2>2. reports' = Append(reports, new)
    BY <1>2
  <2> QED
    BY <1>4, <2>1, <2>2, AppendFacts
<1> HIDE DEF last
<1>7. Held' = Held /\ Adding' = Adding /\ Reported' = Reported \union held[Client]
  <2>1. /\ \A x : x \in Reported <=> \E i \in DOMAIN reports : x \in reports[i].events
        /\ \A x : x \in Reported' <=> \E i \in DOMAIN reports' : x \in reports'[i].events
    BY DEF Reported
  <2>2. Reported' = Reported \union held[Client]
    <3>1. \A x : (\E i \in DOMAIN reports' : x \in reports'[i].events)
                  <=> (\E i \in DOMAIN reports : x \in reports[i].events) \/ x \in held[Client]
      BY <1>5, <1>6
    <3> QED
      BY <2>1, <3>1
  <2> QED
    BY <1>2, <2>2 DEF Held, Adding
<1>8. TimesOK' /\ EventsOK'
  <2>1. TimesOK'
    <3>1. clock' = clock /\ lastResetTime' \in {lastResetTime, clock} /\ lastLoggingTime' = clock
      BY <1>2
    <3> QED
      BY <1>1, <3>1 DEF TimesOK
  <2>2. EventsOK'
    BY <1>1, <1>2, <1>3, <1>6 DEF EventsOK
  <2> QED
    BY <2>1, <2>2
<1>9. WatcherNeverDivides'
  BY <1>2, <1>3, ConstantFacts DEF IndInv, WatcherNeverDivides
<1>10. PlaceInv'
  <2>1. \A u \in Reporters : pc'[u] # "gather" => pos[u] = 0
    BY <1>1, <1>2, <1>3 DEF PlaceInv
  <2>2. CASE t = Watcher
    BY <1>1, <1>2, <1>3, <2>1, <2>2, ConstantFacts DEF PlaceInv
  <2>3. CASE t = Owner
    BY <1>1, <1>2, <1>3, <2>1, <2>3, ConstantFacts DEF PlaceInv
  <2> QED
    BY <2>2, <2>3, ConstantFacts
<1>11. PlacesDiffer'
  BY <1>2, <1>4, <1>7 DEF IndInv, PlacesDiffer
<1>12. ReportInv'
  <2> SUFFICES ASSUME NEW i \in DOMAIN reports'
               PROVE  LET r == reports'[i] IN
                      /\ r.resets <= resets
                      /\ r.resets < resets => r.events \intersect Held = {}
                      /\ r.resets = resets => r.events \subseteq held[Client]
                      /\ r.resets = resets /\ r.by = Watcher => pc'[Watcher] = "reset"
    BY <1>2, <1>7 DEF ReportInv
  <2>1. CASE i \in DOMAIN reports
    <3>1. pc[Watcher] = "reset" => pc'[Watcher] = "reset"
      BY <1>2, <1>3, ConstantFacts
    <3> QED
      BY <1>6, <2>1, <3>1 DEF IndInv, ReportInv
  <2>2. CASE i = last
    BY <1>3, <1>5, <1>6, <2>2
  <2> QED
    BY <1>6, <2>1, <2>2
<1>13. ReportedOnce'
  <2> SUFFICES ASSUME NEW i \in DOMAIN reports', NEW j \in DOMAIN reports', i < j,
                      reports'[i].events \intersect reports'[j].events # {}
               PROVE  /\ Owner \in {reports'[i].by, reports'[j].by}
                      /\ reports'[i].resets = reports'[j].resets
    BY DEF ReportedOnce
  <2>1. i \in DOMAIN reports
    BY <1>6
  <2>2. CASE j \in DOMAIN reports
    BY <1>6, <2>1, <2>2 DEF IndInv, ReportedOnce
  <2>3. CASE j = last
    <3>1. reports[i].events \intersect held[Client] # {}
      BY <1>5, <1>6, <2>1, <2>3
    <3>2. reports[i].events \intersect Held # {}
      BY <1>4, <3>1
    <3>3. reports[i].resets = resets
      <4>1. reports[i].resets \in Nat
        BY <1>1, <2>1, ReportFacts
      <4> QED
        BY <1>5, <2>1, <3>2, <4>1 DEF IndInv, ReportInv
    <3>4. Owner \in {reports[i].by, t}
      <4>1. reports[i].by \in Reporters
        BY <1>1, <2>1, ReportFacts
      <4>2. t = Watcher => reports[i].by # Watcher
        BY <1>2, <2>1, <3>3 DEF IndInv, ReportInv
      <4> QED
        BY <4>1, <4>2, ConstantFacts
    <3> QED
      BY <1>5, <1>6, <2>1, <2>3, <3>3, <3>4
  <2> QED
    BY <1>6, <2>2, <2>3
<1>14. JunkInv'
  BY <1>2, <1>3, <1>7, ConstantFacts DEF IndInv, JunkInv
<1>15. JunkOnce'
  <2>1. resets > 0 => held[Client] \intersect Junk = {}
    BY <1>4 DEF IndInv, JunkInv
  <2> QED
    BY <1>5, <1>6, <2>1 DEF IndInv, JunkOnce
<1>16. ResetInv' /\ NothingLost'
  BY <1>2, <1>7 DEF IndInv, ResetInv, NothingLost
<1>17. DueInv'
  <2>1. CASE t = Watcher
    <3>1. pc'[Owner] = pc[Owner] /\ Reported \subseteq Reported'
      BY <1>3, <1>7, <2>1, ConstantFacts
    <3>2. UNCHANGED <<held, pos, late, caught, due>>
      BY <1>2
    <3> QED
      BY <3>1, <3>2 DEF IndInv, DueInv
  <2>2. CASE t = Owner
    <3>1. pc[Owner] = "log" /\ pc'[Owner] = "join"
      BY <1>2, <1>3, <2>2, ConstantFacts
    <3>2. due \subseteq Reported \union late \union caught \union held[Client]
      BY <3>1 DEF IndInv, DueInv
    <3> QED
      BY <1>2, <1>7, <3>1, <3>2 DEF DueInv
  <2> QED
    BY <2>1, <2>2, ConstantFacts
<1> QED
  BY <1>8, <1>9, <1>10, <1>11, <1>12, <1>13, <1>14, <1>15, <1>16, <1>17, TypeWhole DEF IndInv

(* The watcher's reset, the only step that drops events.                   *)
LEMMA ResetInvStep == ASSUME IndInv, Reset PROVE IndInv'
<1>1. TimesOK /\ EventsOK /\ PlaceInv
  BY TypeParts DEF IndInv
<1>2. /\ pc[Watcher] = "reset" /\ held' = [held EXCEPT ![Client] = {}]
      /\ lastResetTime' = clock /\ lastLoggingTime' = clock /\ resets' = resets + 1
      /\ pc' = [pc EXCEPT ![Watcher] = "top"]
      /\ UNCHANGED <<clock, doing, pos, happened, reports, late, caught, due>>
      /\ outcome' \in {"fine", "race", "divided by zero"}
  BY ReporterOutcome DEF Reset, ResetCounters, SetLoggingTime, Goto
<1>3. /\ pc'[Watcher] = "top" /\ pc'[Owner] = pc[Owner] /\ pc' \in [Reporters -> Pcs]
  BY <1>1, <1>2, ConstantFacts DEF EventsOK, Pcs
<1>3a. resets \in Nat /\ resets' \in Nat /\ resets < resets'
  <2>1. resets \in Nat
    BY <1>1 DEF EventsOK
  <2>2. resets' = resets + 1
    BY <1>2
  <2> QED
    BY <2>1, <2>2
<1>4. /\ held'[Client] = {} /\ \A h \in Holders : h # Client => held'[h] = held[h]
      /\ \A h \in Holders : held'[h] \subseteq held[h]
      /\ held' \in [Holders -> SUBSET (Executions \union Waits \union Junk)]
  BY <1>1, <1>2, ConstantFacts DEF EventsOK
<1>5. /\ Held' \subseteq Held /\ Held \subseteq Held' \union held[Client]
      /\ \A x \in Held' : \E h \in Holders : h # Client /\ x \in held[h]
      /\ Reported' = Reported /\ Adding' = Adding
  <2>1. /\ \A x : x \in Held <=> \E g \in Holders : x \in held[g]
        /\ \A x : x \in Held' <=> \E g \in Holders : x \in held'[g]
    BY DEF Held
  <2>2. /\ Held' \subseteq Held /\ Held \subseteq Held' \union held[Client]
        /\ \A x \in Held' : \E h \in Holders : h # Client /\ x \in held[h]
    BY <1>4, <2>1
  <2> QED
    BY <1>2, <2>2 DEF Reported, Adding
<1>6. held[Client] \subseteq Reported \union late \union caught
  BY <1>2 DEF IndInv, ResetInv
<1>7. Held' \intersect held[Client] = {}
  <2> SUFFICES ASSUME NEW x \in Held', x \in held[Client] PROVE FALSE
    OBVIOUS
  <2>1. PICK h \in Holders : h # Client /\ x \in held[h]
    BY <1>5
  <2>2. held[h] \intersect held[Client] = {}
    BY <2>1, ConstantFacts DEF IndInv, PlacesDiffer
  <2> QED
    BY <2>1, <2>2
<1>8. TimesOK' /\ EventsOK'
  <2>1. TimesOK'
    <3>1. clock' = clock /\ lastResetTime' \in {lastResetTime, clock} /\ lastLoggingTime' = clock
      BY <1>2
    <3> QED
      BY <1>1, <3>1 DEF TimesOK
  <2>2. EventsOK'
    BY <1>1, <1>2, <1>3, <1>4, <1>3a DEF EventsOK
  <2> QED
    BY <2>1, <2>2
<1>9. WatcherNeverDivides' /\ ResetInv'
  BY <1>3 DEF WatcherNeverDivides, ResetInv
<1>10. PlaceInv'
  BY <1>1, <1>2, <1>3, ConstantFacts DEF PlaceInv
<1>11. PlacesDiffer'
  <2>1. \A f, g \in Holders : f # g => held'[f] \intersect held'[g] = {}
    <3> SUFFICES ASSUME NEW f \in Holders, NEW g \in Holders, f # g
                 PROVE  held'[f] \intersect held'[g] = {}
      OBVIOUS
    <3>1. held[f] \intersect held[g] = {}
      BY DEF IndInv, PlacesDiffer
    <3>2. held'[f] \subseteq held[f] /\ held'[g] \subseteq held[g]
      BY <1>4
    <3> QED
      BY <3>1, <3>2
  <2> QED
    BY <1>2, <1>5, <2>1 DEF IndInv, PlacesDiffer
<1>12. ReportInv'
  <2>1. ASSUME NEW i \in DOMAIN reports
        PROVE  /\ reports[i].resets < resets' /\ reports[i].resets # resets'
               /\ reports[i].resets <= resets'
               /\ reports[i].events \intersect Held' = {}
    <3>1. reports[i].resets \in Nat
      BY <1>1, ReportFacts
    <3>2. reports[i].resets <= resets
      BY DEF IndInv, ReportInv
    <3>3. CASE reports[i].resets < resets
      <4>1. reports[i].events \intersect Held = {}
        BY <3>3 DEF IndInv, ReportInv
      <4> QED
        BY <1>3a, <1>5, <3>1, <3>3, <4>1
    <3>4. CASE reports[i].resets = resets
      <4>1. reports[i].events \subseteq held[Client]
        BY <3>4 DEF IndInv, ReportInv
      <4> QED
        BY <1>3a, <1>7, <3>1, <3>4, <4>1
    <3> QED
      BY <1>3a, <3>1, <3>2, <3>3, <3>4
  <2> QED
    BY <1>2, <2>1 DEF ReportInv
<1>13. ReportedOnce' /\ JunkOnce'
  <2>1. ReportedOnce'
    BY <1>2 DEF IndInv, ReportedOnce
  <2>2. JunkOnce'
    BY <1>2 DEF IndInv, JunkOnce
  <2> QED
    BY <2>1, <2>2
<1>14. JunkInv'
  <2>1. \A w \in Workers : held[w] \intersect Junk = {}
    BY <1>2 DEF IndInv, JunkInv
  <2>2. Held' \intersect Junk = {}
    <3> SUFFICES ASSUME NEW x \in Held', x \in Junk PROVE FALSE
      OBVIOUS
    <3>1. PICK h \in Holders : h # Client /\ x \in held[h]
      BY <1>5
    <3> QED
      BY <2>1, <3>1, ConstantFacts
  <2> QED
    BY <1>3, <2>2 DEF JunkInv
<1>15. NothingLost'
  BY <1>2, <1>5, <1>6 DEF IndInv, NothingLost
<1>16. DueInv'
  <2>1. \A w \in Workers : held'[w] = held[w]
    BY <1>4, ConstantFacts
  <2>2. pos[Owner] .. NumWorkers - 1 \subseteq Workers
    BY <1>1, RestIsWorkers, ConstantFacts DEF EventsOK
  <2>3. UNION {held'[w] : w \in pos[Owner] .. NumWorkers - 1}
          = UNION {held[w] : w \in pos[Owner] .. NumWorkers - 1}
    BY <2>1, <2>2
  <2> QED
    BY <1>2, <1>3, <1>5, <1>6, <2>3 DEF IndInv, DueInv
<1> QED
  BY <1>8, <1>9, <1>10, <1>11, <1>12, <1>13, <1>14, <1>15, <1>16, TypeWhole DEF IndInv
-----------------------------------------------------------------------------
(* A step is one of the actions, or changes nothing.                       *)
LEMMA StepCases ==
  ASSUME [Next]_vars
  PROVE  \/ Tick
         \/ \E t \in Threads \union Workers, e \in Executions \union Waits : Happen(t, e)
         \/ \E w \in Workers : Mark(w)
         \/ \E t \in Threads : Update(t)
         \/ \E t \in Reporters : Gather(t)
         \/ \E t \in Reporters : EndGather(t) \/ DivideByZero(t)
         \/ \E t \in Reporters : Log(t)
         \/ Reset
         \/ Top \/ Test
         \/ StartClose \/ StartGather \/ Join
         \/ UNCHANGED vars
BY DEF Next, Step

(* No step leaves the invariant.                                           *)
LEMMA IndStep == IndInv /\ [Next]_vars => IndInv'
<1> SUFFICES ASSUME IndInv, [Next]_vars PROVE IndInv'
  OBVIOUS
<1>1. CASE Tick
  BY <1>1, TickInv
<1>2. ASSUME NEW t \in Threads \union Workers, NEW e \in Executions \union Waits, Happen(t, e)
      PROVE  IndInv'
  BY <1>2, HappenInv
<1>3. ASSUME NEW w \in Workers, Mark(w) PROVE IndInv'
  BY <1>3, MarkInv
<1>4. ASSUME NEW t \in Threads, Update(t) PROVE IndInv'
  BY <1>4, UpdateInv
<1>5. ASSUME NEW t \in Reporters, Gather(t) PROVE IndInv'
  BY <1>5, GatherInv
<1>6. ASSUME NEW t \in Reporters, EndGather(t) \/ DivideByZero(t) PROVE IndInv'
  BY <1>6, EndGatherInv
<1>7. ASSUME NEW t \in Reporters, Log(t) PROVE IndInv'
  BY <1>7, LogInv
<1>8. CASE Reset
  BY <1>8, ResetInvStep
<1>9. CASE Top \/ Test
  BY <1>9, WatcherInv
<1>10. CASE StartClose \/ StartGather \/ Join
  BY <1>10, OwnerInv
<1>11. CASE UNCHANGED vars
  <2> USE <1>11 DEF vars, timeVars, historyVars
  <2>1. TimesOK' /\ EventsOK'
    BY TypeParts DEF IndInv, TimesOK, EventsOK
  <2>2. /\ PlacesDiffer' /\ ReportInv' /\ ReportedOnce' /\ JunkOnce' /\ NothingLost'
        /\ Held' = Held /\ Reported' = Reported
    BY QuietStep
  <2>3. WatcherNeverDivides' /\ PlaceInv' /\ JunkInv' /\ ResetInv' /\ DueInv'
    BY <2>2 DEF IndInv, WatcherNeverDivides, PlaceInv, JunkInv, ResetInv, DueInv
  <2> QED
    BY <2>1, <2>2, <2>3, TypeWhole DEF IndInv
<1> QED
  BY <1>1, <1>2, <1>3, <1>4, <1>5, <1>6, <1>7, <1>8, <1>9, <1>10, <1>11, StepCases

(* The inductive invariant holds in every reachable state.                 *)
THEOREM Invariance == Spec => []IndInv
<1> QED
  BY InitInv, IndStep, PTL DEF Spec

(* Every variable keeps its type, and the times their order.               *)
THEOREM TypeCorrect == Spec => []TypeOK
<1>1. IndInv => TypeOK
  BY DEF IndInv
<1> QED
  BY <1>1, Invariance, PTL

(* client.h:122-126: no event is lost between the counters of a worker,    *)
(* the client's and the log, but those that a thread adds to the client's, *)
(* or the destructor gathers, between the watcher's log and its reset.     *)
THEOREM EventsAreKept == Spec => []NothingLost
<1>1. IndInv => NothingLost
  BY DEF IndInv
<1> QED
  BY <1>1, Invariance, PTL

(* client.h:73-75 and 122-126: only the destructor and the watcher can     *)
(* report the same event, and only between two resets.                     *)
THEOREM EventsAreReportedOnce == Spec => []ReportedOnce
<1>1. IndInv => ReportedOnce
  BY DEF IndInv
<1> QED
  BY <1>1, Invariance, PTL

(* metrics_histogram.h:26-29, metrics_meter.h:24-27: what uninitialised    *)
(* counters hold is gone with the first reset.                             *)
THEOREM JunkIsGone == Spec => []JunkOnce
<1>1. IndInv => JunkOnce
  BY DEF IndInv
<1> QED
  BY <1>1, Invariance, PTL

(* client.h:73-75: of all that was in a counter when the destructor began  *)
(* to gather, only what came to the client's counters between the          *)
(* watcher's log and its reset can be in no report at all: what a thread   *)
(* added there, and what the destructor took from a worker there.          *)
THEOREM FinalReportHolds == Spec => []FinalReport
<1>1. IndInv => FinalReport
  BY DEF IndInv, DueInv, FinalReport
<1> QED
  BY <1>1, Invariance, PTL

(* client.h:122, metrics_meter.h:56: the watcher never divides by 0.       *)
THEOREM WatcherDivides == Spec => []WatcherNeverDivides
<1>1. IndInv => WatcherNeverDivides
  BY DEF IndInv
<1> QED
  BY <1>1, Invariance, PTL
=============================================================================
