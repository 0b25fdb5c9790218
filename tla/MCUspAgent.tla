------------------------------ MODULE MCUspAgent ------------------------------
(* The instance of UspAgent that is explored.                              *)
EXTENDS UspAgent
=============================================================================
