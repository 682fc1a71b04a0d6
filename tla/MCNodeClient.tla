---------------------------- MODULE MCNodeClient -----------------------------
(* Model checking of NodeClient.                                           *)
EXTENDS NodeClient
=============================================================================
