----------------------------- MODULE MCWorkerPool -----------------------------
(* Instances of WorkerPool for TLC.                                        *)
EXTENDS WorkerPool, TLC

(* Delivering threads and actions are interchangeable; workers are not:    *)
(* apply scans them in index order.                                        *)
Symmetry == Permutations(Deliverers) \union Permutations(Actions)
=============================================================================
