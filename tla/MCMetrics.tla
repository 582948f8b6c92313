------------------------------ MODULE MCMetrics ------------------------------
(* An instance of Metrics for TLC.                                         *)
EXTENDS Metrics, TLC

(* Events of one kind are interchangeable.                                 *)
Alike == Permutations(Executions) \union Permutations(Waits)
=============================================================================
