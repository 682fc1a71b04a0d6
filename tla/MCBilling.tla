------------------------------ MODULE MCBilling ------------------------------
(* Model checking of Billing: the first subscription is of the starter     *)
(* plan, the second of the business plan.                                  *)
EXTENDS Billing, TLC

CONSTANTS s1, s2

TwoTiers == (s1 :> "starter" @@ s2 :> "business")
=============================================================================
