------------------------------ MODULE MCLeases ------------------------------
(* Instances of Leases for TLC. *)
EXTENDS Leases
=============================================================================
