----------------------------- MODULE MCAccounts ------------------------------
(* Model checking of Accounts.                                             *)
EXTENDS Accounts, TLC

Symmetry ==
    Permutations(Requests) \cup Permutations(Users) \cup Permutations(Orgs)
    \cup Permutations(Invites) \cup Permutations(Tokens)
=============================================================================
