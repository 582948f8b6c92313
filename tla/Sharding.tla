------------------------------- MODULE Sharding -------------------------------
(***************************************************************************)
(* The arithmetic of the shards: how many a table gets                     *)
(* (src/src/collector/collector.h:36) and which one a record goes to       *)
(* (src/include/doris_record.h:24-26), for the configurations that         *)
(* src/include/config.h lets through.                                      *)
(*                                                                         *)
(* numShardsFactor is a double; it is the fraction num / den here, with a  *)
(* product small enough to be exact in a double.  The quotient             *)
(* minNumShards / tableNumShards need not be exact: an int32_t is too      *)
(* small for the rounding to reach the next integer.                       *)
(***************************************************************************)
EXTENDS Integers

CONSTANT WordSize   \* how many values a size_t has: 2^64

ASSUME WordSizeAssumption == WordSize \in Nat \ {0}

(* numShardsFactor > 0.                                                    *)
FactorValid(config) == config.num > 0

(* Config::valid; everything that this module does not use is "rest".      *)
ConfigValid(config) ==
  /\ config.numWorkers > 0
  /\ FactorValid(config)
  /\ config.minNumShards >= 0
  /\ config.rest

(* Mutant: the quotient is cut off.                                        *)
FloorDiv(a, b) == a \div b

(* std::ceil(a / b).                                                       *)
CeilDiv(a, b) == (a + b - 1) \div b

(* The number of shards of a table that has n buckets.  With n = 0 the     *)
(* quotient is infinite or not a number, its product with 0 is not a       *)
(* number, and std::max(0.0, NaN) is 0.0.                                  *)
NumShards(config, n) ==
  LET byFactor == CeilDiv(config.num * n, config.den)
      byMinimum == CeilDiv(config.minNumShards, n) * n
  IN
  IF n = 0 THEN 0
  ELSE IF byFactor < byMinimum THEN byMinimum ELSE byFactor

(* What is expected of k shards for n buckets: there is one, they reach    *)
(* the factor, and whole multiples of the buckets among them reach the     *)
(* minimum.                                                                *)
Enough(config, k, n) ==
  /\ k > 0
  /\ k * config.den >= config.num * n
  /\ \E m \in 0 .. k : m * n <= k /\ m * n >= config.minNumShards

(* Mutant: the remainder is taken without the cast.                        *)
SignedHash(id, upperBound) ==
  IF id < 0 THEN -((-id) % upperBound) ELSE id % upperBound

(* (size_t)stoi(values[0]) % upperBound: a negative id becomes a very      *)
(* large number first.                                                     *)
Hash(id, upperBound) == (id % WordSize) % upperBound
=============================================================================
