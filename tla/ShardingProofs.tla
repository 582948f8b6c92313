---------------------------- MODULE ShardingProofs ----------------------------
(***************************************************************************)
(* The arithmetic of the shards, for every configuration that              *)
(* Config::valid lets through and every number of buckets.                 *)
(***************************************************************************)
EXTENDS Sharding, TLAPS

(* The configurations: numShardsFactor is num / den.                       *)
ConfigType == [numWorkers : Int, num : Int, den : Nat \ {0}, minNumShards : Int, rest : BOOLEAN]

(* A product of natural numbers is one, and grows with its factors.        *)
LEMMA ProductNat == ASSUME NEW a \in Nat, NEW b \in Nat PROVE a * b \in Nat
  OBVIOUS

LEMMA ProductMonotone ==
  ASSUME NEW a \in Int, NEW b \in Int, NEW c \in Nat, a <= b
  PROVE  a * c <= b * c
<1>1. (b - a) * c >= 0
  OBVIOUS
<1> QED
  BY <1>1

(* std::ceil of a quotient is the least integer that reaches it.           *)
LEMMA CeilDivBounds ==
  ASSUME NEW a \in Nat, NEW b \in Nat \ {0}
  PROVE  /\ CeilDiv(a, b) \in Nat
         /\ a <= CeilDiv(a, b) * b
         /\ CeilDiv(a, b) * b < a + b
  BY DEF CeilDiv

(* A quotient that is cut off above: whatever reaches a is no smaller.     *)
LEMMA CeilDivLeast ==
  ASSUME NEW a \in Nat, NEW b \in Nat \ {0}, NEW k \in Nat, a <= k * b
  PROVE  CeilDiv(a, b) <= k
<1> DEFINE c == CeilDiv(a, b)
<1>1. c \in Nat /\ c * b < a + b
  BY CeilDivBounds
<1>2. SUFFICES ASSUME k + 1 <= c PROVE FALSE
  BY <1>1
<1> HIDE DEF c
<1>3. (k + 1) * b <= c * b
  BY <1>1, <1>2, ProductMonotone
<1>4. (k + 1) * b = k * b + b
  OBVIOUS
<1>5. k * b \in Nat /\ c * b \in Nat
  BY <1>1
<1> QED
  BY <1>1, <1>3, <1>4, <1>5

(* The two numbers of shards that Collector::match takes the maximum of.   *)
LEMMA NumShardsIsMax ==
  ASSUME NEW config \in ConfigType, ConfigValid(config), NEW n \in Nat \ {0}
  PROVE  LET byFactor == CeilDiv(config.num * n, config.den)
             byMinimum == CeilDiv(config.minNumShards, n) * n
             k == NumShards(config, n)
         IN  /\ config.num \in Nat \ {0} /\ config.den \in Nat \ {0}
             /\ config.minNumShards \in Nat /\ config.num * n \in Nat
             /\ byFactor \in Nat /\ byMinimum \in Nat /\ k \in Nat
             /\ k >= byFactor /\ k >= byMinimum
             /\ k = byFactor \/ k = byMinimum
<1>1. /\ config.num \in Nat \ {0} /\ config.den \in Nat \ {0} /\ config.minNumShards \in Nat
  BY DEF ConfigType, ConfigValid, FactorValid
<1>2. config.num * n \in Nat
  BY <1>1, ProductNat
<1>3. CeilDiv(config.num * n, config.den) \in Nat /\ CeilDiv(config.minNumShards, n) \in Nat
  BY <1>1, <1>2, CeilDivBounds
<1>4. CeilDiv(config.minNumShards, n) * n \in Nat
  BY <1>3, ProductNat
<1> QED
  BY <1>1, <1>2, <1>3, <1>4 DEF NumShards

(* collector.h:36: a table with buckets gets enough shards.                *)
THEOREM ShardsAreEnough ==
  ASSUME NEW config \in ConfigType, ConfigValid(config), NEW n \in Nat \ {0}
  PROVE  Enough(config, NumShards(config, n), n)
<1> DEFINE num == config.num  den == config.den  min == config.minNumShards
           f == CeilDiv(num * n, den)  c == CeilDiv(min, n)  k == NumShards(config, n)
<1>1. /\ num \in Nat \ {0} /\ den \in Nat \ {0} /\ min \in Nat /\ num * n \in Nat
      /\ f \in Nat /\ c * n \in Nat /\ k \in Nat /\ k >= f /\ k >= c * n
  BY NumShardsIsMax
<1>2. num * n <= f * den
  BY <1>1, CeilDivBounds
<1>3. c \in Nat /\ min <= c * n
  BY <1>1, CeilDivBounds
<1> HIDE DEF f, c, k, num, den, min
<1>4. num * n <= k * den
  <2>1. f * den <= k * den
    BY <1>1, ProductMonotone
  <2>2. f * den \in Nat /\ k * den \in Nat
    BY <1>1, ProductNat
  <2> QED
    BY <1>1, <1>2, <2>1, <2>2
<1>5. num * n > 0
  BY <1>1
<1>6. k > 0
  BY <1>1, <1>4, <1>5
<1>7. c <= k
  <2>1. c * 1 <= c * n
    BY <1>3
  <2> QED
    BY <1>1, <1>3, <2>1
<1> QED
  BY <1>1, <1>3, <1>4, <1>6, <1>7 DEF Enough, num, den, min, k

(* And no smaller number is enough.                                        *)
THEOREM ShardsAreFew ==
  ASSUME NEW config \in ConfigType, ConfigValid(config), NEW n \in Nat \ {0},
         NEW i \in Nat, Enough(config, i, n)
  PROVE  NumShards(config, n) <= i
<1> DEFINE f == CeilDiv(config.num * n, config.den)  c == CeilDiv(config.minNumShards, n)
<1>1. /\ config.den \in Nat \ {0} /\ config.minNumShards \in Nat /\ config.num * n \in Nat
      /\ f \in Nat /\ c * n \in Nat
      /\ NumShards(config, n) = f \/ NumShards(config, n) = c * n
  BY NumShardsIsMax
<1>2. config.num * n <= i * config.den
  <2>1. i * config.den \in Nat
    BY <1>1, ProductNat
  <2> QED
    BY <1>1, <2>1 DEF Enough
<1>3. f <= i
  BY <1>1, <1>2, CeilDivLeast
<1>4. PICK m \in 0 .. i : m * n <= i /\ m * n >= config.minNumShards
  BY DEF Enough
<1>5. c <= m
  BY <1>1, <1>4, CeilDivLeast
<1>6. c \in Nat
  BY <1>1, CeilDivBounds
<1>7. c * n <= m * n
  BY <1>4, <1>5, <1>6, ProductMonotone
<1>8. m * n \in Nat
  BY <1>4, ProductNat
<1> QED
  BY <1>1, <1>3, <1>4, <1>7, <1>8

(* doris_record.h:25: the hash of any id is an index below the bound.      *)
THEOREM HashInRange ==
  ASSUME NEW id \in Int, NEW upperBound \in Nat \ {0}
  PROVE  Hash(id, upperBound) \in 0 .. upperBound - 1
<1>1. id % WordSize \in Int
  BY WordSizeAssumption
<1> QED
  BY <1>1 DEF Hash
=============================================================================
