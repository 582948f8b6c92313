-------------------------------- MODULE Metrics --------------------------------
(***************************************************************************)
(* The metrics of a client and of its workers (src/src/metrics/), as the   *)
(* threads of src/include/client.h and src/src/worker.h use them.  Workers *)
(* count what they have executed, application threads what they have       *)
(* waited for, each under the mutex of the meter or histogram.  The        *)
(* watcher now and then, and the destructor at the end, gather the         *)
(* workers' metrics into the client's and log them; gather locks the       *)
(* metrics it reads and not those it adds to, log and reset lock none.     *)
(*                                                                         *)
(* A meter or histogram is the set of events that are in its numbers:      *)
(* adding two up is their union, a reset empties it.  The events of all    *)
(* names are in one set, so that gather is one step for each worker, log   *)
(* and reset are one step each.  If two threads are about to use the       *)
(* metrics of the client and one changes them, they may overlap: undefined *)
(* behaviour, and the model ends there with outcome = "race".              *)
(***************************************************************************)
EXTENDS Integers, Sequences

CONSTANTS
  AppThreads,    \* the threads of the application
  Owner,         \* the one that destroys the client
  Watcher,       \* the watcher thread
  Client,        \* stands for the client's own metrics
  NumWorkers,
  Executions,    \* the actions that are executed, each once
  Waits,         \* what the other threads measure, each once
  NoEvent,
  Interval,      \* config.metricsLoggingIntervalMs
  MaxClock       \* bound: milliseconds that may pass

Workers == 0 .. NumWorkers - 1
Holders == {Client} \union Workers
Threads == AppThreads \union {Watcher}
Reporters == {Watcher, Owner}

(* What an uninitialised counter holds: an event that never happened.      *)
Junk == {<<"junk", h>> : h \in Holders}

ASSUME MetricsAssumption ==
  /\ Owner \in AppThreads
  /\ Watcher \notin AppThreads
  /\ NumWorkers \in Nat \ {0}
  /\ Client \notin Workers
  /\ Threads \intersect Workers = {}
  /\ NoEvent \notin Executions \union Waits
  /\ Junk \intersect (Executions \union Waits) = {}
  /\ Interval \in Nat \ {0}
  /\ MaxClock \in Nat

VARIABLES
  clock,        \* steady_clock, in milliseconds
  lastResetTime, lastLoggingTime,   \* of the client's metrics
  held,         \* the events in the numbers of each metrics object
  doing,        \* the event that a thread has still to add
  pc,           \* where the watcher and the destroying thread are
  pos,          \* the index of their loop over the workers
  (* history *)
  happened,     \* the events so far
  reports,      \* what was logged, by whom, and after how many resets
  resets,       \* by the watcher
  late,         \* events that threads added to the client's between the watcher's
                \* log and its reset
  caught,       \* events that the destructor gathered from a worker between them
  due,          \* the events that were added before the destructor gathers
  outcome       \* "fine", or how the run of the program ended

timeVars == <<clock, lastResetTime, lastLoggingTime>>
historyVars == <<happened, reports, resets, late, caught, due>>
vars == <<timeVars, held, doing, pc, pos, historyVars, outcome>>

Pcs == {"top", "test", "gather", "log", "reset", "ended", "away", "closing", "join",
        "gone"}

Goto(t, place) == pc' = [pc EXCEPT ![t] = place]

(* Registered metrics are copies, and a copy takes the name only; reset()  *)
(* was called before there were any.                                       *)
Init ==
  /\ clock = 0 /\ lastResetTime = 0 /\ lastLoggingTime = 0
  /\ held = [h \in Holders |-> {<<"junk", h>>}]
  /\ doing = [t \in Threads \union Workers |-> NoEvent]
  /\ pc = [t \in Reporters |-> IF t = Watcher THEN "top" ELSE "away"]
  /\ pos = [t \in Reporters |-> 0]
  /\ happened = {}
  /\ reports = <<>>
  /\ resets = 0
  /\ late = {} /\ caught = {}
  /\ due = {}
  /\ outcome = "fine"

(* Thread t uses the metrics of the client, and a reporter is at one of    *)
(* these places.                                                           *)
MayRace(t, places) ==
  outcome' \in IF \E u \in Reporters \ {t} : pc[u] \in places
               THEN {"fine", "race"} ELSE {"fine"}

(* Reporter t does, and any other thread may be about to add to them.      *)
ReporterMayRace(t, places) ==
  outcome' \in IF \/ \E u \in Reporters \ {t} : pc[u] \in places
                  \/ \E u \in Threads : doing[u] # NoEvent
               THEN {"fine", "race"} ELSE {"fine"}

Tick ==
  /\ clock < MaxClock
  /\ clock' = clock + 1
  /\ UNCHANGED <<lastResetTime, lastLoggingTime, held, doing, pc, pos, historyVars, outcome>>

-----------------------------------------------------------------------------
(* The threads that count.                                                 *)

(* A worker has executed an action and set its promise; its metrics come   *)
(* after that.  Or a thread has waited in put, in the flush of the         *)
(* destructor or, the watcher, on its way through the shards.              *)
Happen(t, e) ==
  /\ pc[Owner] # "gone"
  /\ doing[t] = NoEvent
  /\ \/ t \in Workers /\ e \in Executions
     \/ t \in AppThreads /\ e \in Waits /\ pc[Owner] = "away"
     \/ t = Owner /\ e \in Waits /\ pc[Owner] = "closing"
     \/ t = Watcher /\ e \in Waits /\ pc[Watcher] = "test"
  /\ e \notin happened
  /\ doing' = [doing EXCEPT ![t] = e]
  /\ happened' = happened \union {e}
  /\ UNCHANGED <<timeVars, held, pc, pos, reports, resets, late, caught, due, outcome>>

(* Worker::exec adds to the worker's metrics, under their mutex.           *)
Mark(w) ==
  /\ doing[w] # NoEvent
  /\ held' = [held EXCEPT ![w] = @ \union {doing[w]}]
  /\ doing' = [doing EXCEPT ![w] = NoEvent]
  /\ UNCHANGED <<timeVars, pc, pos, historyVars, outcome>>

(* The events, if they come to the client's metrics between the watcher's  *)
(* log and its reset: they are not in its log.                             *)
Unlogged(events) == IF pc[Watcher] = "reset" THEN events ELSE {}

(* MetricsHistogram::update on the client's metrics, under their mutex.    *)
Update(t) ==
  /\ doing[t] # NoEvent
  /\ held' = [held EXCEPT ![Client] = @ \union {doing[t]}]
  /\ doing' = [doing EXCEPT ![t] = NoEvent]
  /\ late' = late \union Unlogged({doing[t]})
  /\ MayRace(t, {"gather", "log", "reset"})
  /\ UNCHANGED <<timeVars, pc, pos, happened, reports, resets, caught, due>>

-----------------------------------------------------------------------------
(* The threads that report.                                                *)

(* Mutant: the other counter is not reset.                                 *)
AddAndKeep(w) == held' = [held EXCEPT ![Client] = @ \union held[w]]

(* Mutant: the other counter is reset and not added.                       *)
Discard(w) == held' = [held EXCEPT ![w] = {}]

(* gather of a meter or histogram: add the other one and reset it.         *)
Take(w) == held' = [held EXCEPT ![Client] = @ \union held[w], ![w] = {}]

(* Mutant: the loop ends before the last worker.                           *)
AllButOne == NumWorkers - 1

(* affliatedMetrics.size().                                                *)
NumAffliated == NumWorkers

(* gatherAffliatedMetrics.                                                 *)
Gather(t) ==
  LET w == pos[t] IN
  /\ pc[t] = "gather" /\ w < NumAffliated
  /\ Take(w)
  /\ pos' = [pos EXCEPT ![t] = w + 1]
  /\ caught' = caught \union Unlogged(held[w])
  /\ ReporterMayRace(t, {"gather", "log", "reset"})
  /\ UNCHANGED <<timeVars, doing, pc, happened, reports, resets, late, due>>

EndGather(t) ==
  /\ pc[t] = "gather" /\ pos[t] >= NumAffliated
  /\ pos' = [pos EXCEPT ![t] = 0]
  /\ Goto(t, "log")
  /\ UNCHANGED <<timeVars, held, doing, historyVars, outcome>>

(* log divides by the milliseconds since the last reset.                   *)
Log(t) ==
  /\ pc[t] = "log" /\ clock > lastResetTime
  /\ lastLoggingTime' = clock
  /\ reports' = Append(reports, [by |-> t, events |-> held[Client], resets |-> resets])
  /\ ReporterMayRace(t, {"test", "gather", "log", "reset"})
  /\ Goto(t, IF t = Watcher THEN "reset" ELSE "join")
  /\ UNCHANGED <<clock, lastResetTime, held, doing, pos, happened, resets, late,
                 caught, due>>

DivideByZero(t) ==
  /\ pc[t] = "log" /\ clock = lastResetTime
  /\ outcome' = "divided by zero"
  /\ UNCHANGED <<timeVars, held, doing, pc, pos, historyVars>>

(* Mutant: the counters are not reset.                                     *)
KeepCounters == UNCHANGED held

(* meters and histograms of the client.                                    *)
ResetCounters == held' = [held EXCEPT ![Client] = {}]

(* Mutant: only lastResetTime is set.                                      *)
KeepLoggingTime == UNCHANGED lastLoggingTime

(* lastLoggingTime = lastResetTime.                                        *)
SetLoggingTime == lastLoggingTime' = clock

Reset ==
  /\ pc[Watcher] = "reset"
  /\ ResetCounters
  /\ lastResetTime' = clock
  /\ SetLoggingTime
  /\ resets' = resets + 1
  /\ ReporterMayRace(Watcher, {"gather", "log"})
  /\ Goto(Watcher, "top")
  /\ UNCHANGED <<clock, doing, pos, happened, reports, late, caught, due>>

(* The loop of the watcher reads status ...                                *)
Top ==
  /\ pc[Watcher] = "top"
  /\ Goto(Watcher, IF pc[Owner] = "away" THEN "test" ELSE "ended")
  /\ UNCHANGED <<timeVars, held, doing, pos, historyVars, outcome>>

(* metrics.getWaitingTimeMs() >= config.metricsLoggingIntervalMs.          *)
TimeToLog == clock - lastLoggingTime >= Interval

(* ... and, when it has been through the shards, looks at the time.        *)
Test ==
  /\ pc[Watcher] = "test" /\ doing[Watcher] = NoEvent
  /\ Goto(Watcher, IF TimeToLog THEN "gather" ELSE "top")
  /\ UNCHANGED <<timeVars, held, doing, pos, historyVars, outcome>>

(* ~Client sets status; it comes to the metrics when it has flushed and    *)
(* the results of all shards are there.                                    *)
StartClose ==
  /\ pc[Owner] = "away"
  /\ \A t \in AppThreads : doing[t] = NoEvent
  /\ Goto(Owner, "closing")
  /\ UNCHANGED <<timeVars, held, doing, pos, historyVars, outcome>>

StartGather ==
  /\ pc[Owner] = "closing" /\ doing[Owner] = NoEvent
  /\ due' = happened \ {doing[t] : t \in Threads \union Workers}
  /\ Goto(Owner, "gather")
  /\ UNCHANGED <<timeVars, held, doing, pos, happened, reports, resets, late, caught,
                 outcome>>

(* It joins the watcher.                                                   *)
Join ==
  /\ pc[Owner] = "join" /\ pc[Watcher] = "ended"
  /\ Goto(Owner, "gone")
  /\ UNCHANGED <<timeVars, held, doing, pos, historyVars, outcome>>

-----------------------------------------------------------------------------
Step ==
  \/ Tick
  \/ \E t \in Threads \union Workers : \E e \in Executions \union Waits : Happen(t, e)
  \/ \E w \in Workers : Mark(w)
  \/ \E t \in Threads : Update(t)
  \/ \E t \in Reporters : Gather(t) \/ EndGather(t) \/ Log(t) \/ DivideByZero(t)
  \/ Reset \/ Top \/ Test \/ StartClose \/ StartGather \/ Join

Done == pc[Owner] = "gone" \/ outcome # "fine"

Next == (outcome = "fine" /\ Step) \/ (Done /\ UNCHANGED vars)

Spec == Init /\ [][Next]_vars

-----------------------------------------------------------------------------
(* Properties.                                                             *)

(* Every variable keeps its type, and the times their order.               *)
TypeOK ==
  /\ clock \in 0 .. MaxClock
  /\ lastResetTime \in 0 .. lastLoggingTime /\ lastLoggingTime \in 0 .. clock
  /\ held \in [Holders -> SUBSET (Executions \union Waits \union Junk)]
  /\ doing \in [Threads \union Workers -> Executions \union Waits \union {NoEvent}]
  /\ pc \in [Reporters -> Pcs] /\ pos \in [Reporters -> 0 .. NumWorkers]
  /\ happened \subseteq Executions \union Waits
  /\ late \subseteq Executions \union Waits
  /\ caught \subseteq Executions \union Waits \union Junk
  /\ due \subseteq happened
  /\ reports \in Seq([by : Reporters, events : SUBSET (Executions \union Waits \union Junk),
                      resets : Nat])
  /\ resets \in Nat
  /\ outcome \in {"fine", "race", "divided by zero"}

Reported == UNION {reports[i].events : i \in DOMAIN reports}
Held == UNION {held[h] : h \in Holders}
Adding == {doing[t] : t \in Threads \union Workers} \ {NoEvent}

(* As long as no two threads overlap, an event is logged, or on its way    *)
(* into a log, but for what comes to the client's metrics between the      *)
(* watcher's log and its reset (client.h:124-125), which the reset drops:  *)
(* what a thread adds there, and what the destructor gathers there.        *)
NothingLost == happened \subseteq Reported \union Held \union Adding \union late \union caught

(* No two reports of the watcher have an event in common.  The destructor, *)
(* which does not wait for the watcher first, may repeat what the watcher  *)
(* has logged and not yet reset (client.h:73-75).                          *)
ReportedOnce ==
  \A i, j \in DOMAIN reports :
    i < j /\ reports[i].events \intersect reports[j].events # {} =>
      Owner \in {reports[i].by, reports[j].by} /\ reports[i].resets = reports[j].resets

(* Uninitialised counters, of the client and of every worker, are gone     *)
(* with the first reset: no later report contains them                     *)
(* (metrics_histogram.h:26-29, metrics_meter.h:24-27).                     *)
JunkOnce ==
  \A i \in DOMAIN reports : reports[i].resets > 0 => reports[i].events \intersect Junk = {}

(* When the client is gone, everything was logged that was in somebody's   *)
(* counters as the destructor began to gather (client.h:73-75), with two   *)
(* exceptions that nobody may ever report: what a thread had added to the  *)
(* client's counters between the watcher's log and its reset (late), and   *)
(* what the destructor itself takes from a worker there, for the reset     *)
(* then drops it before the destructor's own log (caught).  No other way   *)
(* in which the two gather, log and reset together loses any of it.  What  *)
(* a worker executed and has still to count is not in it: the promise is   *)
(* set first (worker.h:111-114).                                           *)
FinalReport == pc[Owner] = "gone" => due \subseteq Reported \union late \union caught

(* When the watcher logs, a full interval has passed since the last reset, *)
(* whatever the destructor did to lastLoggingTime, so that it never        *)
(* divides by 0 (client.h:122, metrics_meter.h:56).                        *)
WatcherNeverDivides ==
  pc[Watcher] \in {"gather", "log"} => clock - lastResetTime >= Interval
=============================================================================
