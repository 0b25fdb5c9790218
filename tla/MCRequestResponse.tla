-------------------------- MODULE MCRequestResponse --------------------------
(* Instances of RequestResponse small enough to explore.                   *)
EXTENDS RequestResponse

CONSTANTS r1, g1, g2

\* Every request at one gateway: the other only overhears.
OneHome == [r \in Requests |-> g1]
=============================================================================
