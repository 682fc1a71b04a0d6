----------------------------- MODULE MCRotation -----------------------------
(* Model checking of Rotation.                                             *)
EXTENDS Rotation, TLC

CONSTANTS s1, c1, c2, b1, b2

\* Two schedules of one secret, each with a backend of its own.
OneSecret == (c1 :> s1 @@ c2 :> s1)
TwoBackends == (c1 :> b1 @@ c2 :> b2)
=============================================================================
