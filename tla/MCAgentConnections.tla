------------------------- MODULE MCAgentConnections -------------------------
(* Instances of AgentConnections small enough to explore.                  *)
EXTENDS AgentConnections, TLC

CONSTANTS e1, ws, stomp, i1, i2, p1, p2

\* Every partition belongs to the only process.
OneOwner == [p \in Partitions |-> i1]

\* Two processes share two partitions.
TwoOwners == (p1 :> i1) @@ (p2 :> i2)

Symmetry == Permutations(Protocols)
=============================================================================
