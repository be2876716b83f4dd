------------------------------ MODULE MCStore ------------------------------
(* Instances of the storage engine for TLC. *)
EXTENDS Store
=============================================================================
