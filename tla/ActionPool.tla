------------------------------ MODULE ActionPool ------------------------------
(***************************************************************************)
(* What the worker pool promises to the threads that use it, with no       *)
(* threads, locks or permits: an action handed over is executed once and   *)
(* then resolved, at most Slots actions are in the pool's hands at a time, *)
(* and closing the pool waits for all of them.                             *)
(***************************************************************************)
EXTENDS Integers, FiniteSets

CONSTANTS
  Actions,  \* the actions that are ever handed to the pool
  Slots     \* how many it works on at a time

VARIABLES
  stage,    \* stage of each action
  phase     \* stage of the pool itself

vars == <<stage, phase>>

InHand == {a \in Actions : stage[a] \in {"accepted", "executed"}}

Init ==
  /\ stage = [a \in Actions |-> "fresh"]
  /\ phase = "open"

Advance(a, from, to) == stage[a] = from /\ stage' = [stage EXCEPT ![a] = to]

(* The pool takes an action if it has a free slot.                         *)
Accept(a) ==
  /\ phase = "open"
  /\ Cardinality(InHand) < Slots
  /\ Advance(a, "fresh", "accepted")
  /\ UNCHANGED phase

(* The pool may refuse an action: it is never executed.  The one who       *)
(* handed it over may not cope with that, which ends the process.          *)
Refuse(a) ==
  /\ phase = "open"
  /\ Advance(a, "fresh", "refused")
  /\ phase' \in {"open", "crashed"}

(* The batch of the action reaches the database.                           *)
Execute(a) ==
  /\ phase \in {"open", "closing"}
  /\ Advance(a, "accepted", "executed")
  /\ UNCHANGED phase

(* The one who waits for the action is told.                               *)
Resolve(a) ==
  /\ phase \in {"open", "closing"}
  /\ Advance(a, "executed", "resolved")
  /\ UNCHANGED phase

(* The destructor of a pool executes and resolves in one go what no thread *)
(* has begun.                                                              *)
Drain(a) ==
  /\ phase = "closing"
  /\ Advance(a, "accepted", "resolved")
  /\ UNCHANGED phase

StartClose == phase = "open" /\ phase' = "closing" /\ UNCHANGED stage

FinishClose ==
  /\ phase = "closing"
  /\ InHand = {}
  /\ phase' = "closed"
  /\ UNCHANGED stage

(* The process may end while an action is in hand.                         *)
Crash ==
  /\ phase \in {"open", "closing"}
  /\ InHand # {}
  /\ phase' = "crashed"
  /\ UNCHANGED stage

Next ==
  \/ \E a \in Actions : Accept(a) \/ Refuse(a) \/ Execute(a) \/ Resolve(a) \/ Drain(a)
  \/ StartClose \/ FinishClose \/ Crash

(* What was accepted is executed and resolved, and a close ends.           *)
Fairness ==
  /\ \A a \in Actions : WF_vars(Execute(a) \/ Drain(a)) /\ WF_vars(Resolve(a))
  /\ WF_vars(FinishClose)

Spec == Init /\ [][Next]_vars
FairSpec == Spec /\ Fairness
=============================================================================
