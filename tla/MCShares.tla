------------------------------ MODULE MCShares -------------------------------
(* Model checking of Shares, with Audit.                                   *)
EXTENDS Shares, TLC

Symmetry == Permutations(Requests)
=============================================================================
