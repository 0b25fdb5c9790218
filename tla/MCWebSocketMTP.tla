---------------------------- MODULE MCWebSocketMTP ----------------------------
(* Instances of WebSocketMTP small enough to explore.                      *)
EXTENDS WebSocketMTP, TLC

CONSTANTS a1, a2, c1, c2, c3, n1, n2

\* Agents os::... and a controller self::..., the other way round than
\* configs/openusp.yml and configs/agents.yml.
AgentsFirst == [e \in Keys |-> IF e = Controller THEN 8 ELSE 1]

\* proto::... on both sides, as configured.
SameScheme == [e \in Keys |-> 0]

Symmetry == Permutations(Clients) \cup Permutations(Requests)
=============================================================================
