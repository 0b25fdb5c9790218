------------------------------ MODULE MCStompMTP ------------------------------
(* Instances of StompMTP small enough to explore.                          *)
EXTENDS StompMTP, TLC

CONSTANTS a1, a2, w1, n1, n2

Symmetry == Permutations(Requests)
=============================================================================
