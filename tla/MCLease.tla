------------------------------ MODULE MCLease ------------------------------
(* Instances of the lease protocol for TLC. *)
EXTENDS Lease, TLC

Symmetry == Permutations(Machines)
=============================================================================
