----------------------------- MODULE MCCollector -----------------------------
(* An instance of Collector for TLC.                                       *)
EXTENDS Collector, TLC

CONSTANTS a, b, r1, r2, r3

MCTableOf == (r1 :> a) @@ (r2 :> b) @@ (r3 :> b)
MCIdOf == (r1 :> -1) @@ (r2 :> 1) @@ (r3 :> NotANumber)

Config(workers, n, d, min, rest) ==
  [numWorkers |-> workers, num |-> n, den |-> d, minNumShards |-> min, rest |-> rest]

(* A minimum that is no multiple of two buckets, a factor that rounds up;  *)
(* one of every kind of error.                                             *)
MCConfigs ==
  {Config(1, 1, 2, 1, TRUE), Config(4, 3, 2, 0, TRUE),
   Config(-1, 2, 1, 0, TRUE), Config(0, 2, 1, 0, TRUE), Config(1, 0, 1, 0, TRUE),
   Config(1, -1, 2, 0, TRUE), Config(1, 2, 1, -1, TRUE), Config(1, 2, 1, 0, FALSE)}
=============================================================================
