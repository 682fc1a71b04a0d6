----------------------------- MODULE MCGoClient ------------------------------
(* Model checking of GoClient.                                             *)
EXTENDS GoClient
=============================================================================
