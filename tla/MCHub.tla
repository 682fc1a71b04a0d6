-------------------------------- MODULE MCHub --------------------------------
(* Model checking of Hub.                                                  *)
EXTENDS Hub, TLC

CONSTANTS w1, w2, e1

\* Both connections watch the same environment.
OneEnv == (w1 :> e1) @@ (w2 :> e1)
=============================================================================
