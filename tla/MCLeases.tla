------------------------------ MODULE MCLeases -------------------------------
(* Model checking of Leases.                                               *)
EXTENDS Leases
=============================================================================
