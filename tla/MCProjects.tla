----------------------------- MODULE MCProjects ------------------------------
(* Model checking of Projects: the limits of the free and the business     *)
(* plan, and starter's scaled down.  Requests are interchangeable, and so  *)
(* are slugs.                                                              *)
EXTENDS Projects, TLC

ThreePlans == ("free"     :> [projects |-> 1, envs |-> 2]
            @@ "starter"  :> [projects |-> 2, envs |-> 3]
            @@ "business" :> [projects |-> 0, envs |-> 0])

Symmetry == Permutations(Requests) \cup Permutations(Slugs)
=============================================================================
