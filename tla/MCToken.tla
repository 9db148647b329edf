------------------------------- MODULE MCToken -------------------------------
(* Instances of TokenStore for TLC. *)
EXTENDS TokenStore

CONSTANTS c1, c2, c3
=============================================================================
