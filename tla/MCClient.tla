------------------------------- MODULE MCClient -------------------------------
(* Instances of Client for TLC.                                            *)
EXTENDS Client, TLC

CONSTANTS r1, r2, r3, s1, s2

(* All records in one shard.                                               *)
OneShard == [r \in Records |-> s1]

(* r1 is as large as two others.                                           *)
OneLarge == [r \in Records |-> IF r = r1 THEN 2 ELSE 1]
AllSmall == [r \in Records |-> 1]

(* Records of the same size and shard are interchangeable.                 *)
SmallAlike == Permutations(Records \ {r1})
AllAlike == Permutations(Records)
=============================================================================
