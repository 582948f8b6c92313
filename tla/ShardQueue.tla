------------------------------ MODULE ShardQueue ------------------------------
(***************************************************************************)
(* What a client promises for the records of its shards, if flush() is not *)
(* called beside put: each shard is a queue.  Records are put at its end,  *)
(* and from its front one batch after the other goes to the database, or   *)
(* is lost as a whole.  When the client is closed the queues are empty.    *)
(***************************************************************************)
EXTENDS Sequences, Naturals

CONSTANTS Shards, Records, ShardOf

VARIABLES
  pending,   \* what was put into each shard and is not in the database
  stored,    \* the records of each shard in the database, in order
  state      \* "open", "closed" or "broken"

vars == <<pending, stored, state>>

Init ==
  /\ pending = [s \in Shards |-> <<>>]
  /\ stored = [s \in Shards |-> <<>>]
  /\ state = "open"

Put(r) ==
  /\ state = "open"
  /\ pending' = [pending EXCEPT ![ShardOf[r]] = Append(@, r)]
  /\ UNCHANGED <<stored, state>>

(* The first n records of a shard leave it.                                *)
Remove(s, n) ==
  /\ state = "open"
  /\ pending' = [pending EXCEPT ![s] = SubSeq(@, n + 1, Len(@))]
  /\ UNCHANGED state

Load(s, n) == Remove(s, n) /\ stored' = [stored EXCEPT ![s] = @ \o SubSeq(pending[s], 1, n)]

(* The database refuses the batch, or no worker takes it.                  *)
Lose(s, n) == Remove(s, n) /\ UNCHANGED stored

Close ==
  /\ state = "open"
  /\ \A s \in Shards : pending[s] = <<>>
  /\ state' = "closed"
  /\ UNCHANGED <<pending, stored>>

(* From here on nothing is promised.                                       *)
Break == state # "closed" /\ state' = "broken"

Next ==
  \/ \E r \in Records : Put(r)
  \/ \E s \in Shards : \E n \in 1 .. Len(pending[s]) : Load(s, n) \/ Lose(s, n)
  \/ Close \/ Break

Spec == Init /\ [][Next]_vars
=============================================================================
