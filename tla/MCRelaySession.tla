--------------------------- MODULE MCRelaySession ---------------------------
(* The instance of RelaySession that TLC checks. *)
EXTENDS RelaySession

MCWishes == {wish \in Nodes \X Nodes : wish[1] # wish[2]}
MCLives == [node \in Nodes |-> IF node = 1 THEN 2 ELSE 1]

\* There is always an id for the next session of the one pair: when it is made,
\* a node can hold its offer, a HELLO and a READY with others.
ASSUME EnoughIds ==
    /\ Cardinality(Nodes) = 2
    /\ Cardinality(Ids) > 3 * Cardinality(Nodes)
=============================================================================
