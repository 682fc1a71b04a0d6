--------------------------- MODULE MCSecretStore ---------------------------
(* Model checking of SecretStore: requests are interchangeable, and so are *)
(* the keys.                                                               *)
EXTENDS SecretStore, TLC

Symmetry == Permutations(Requests) \cup Permutations(Keys)
=============================================================================
