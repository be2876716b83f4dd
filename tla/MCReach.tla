------------------------------ MODULE MCReach -------------------------------
(* Instances of the way to an owner for TLC. *)
EXTENDS Reach
=============================================================================
