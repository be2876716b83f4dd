------------------------------ MODULE MCActors ------------------------------
(* Instances of the actors for TLC. *)
EXTENDS Actors
=============================================================================
