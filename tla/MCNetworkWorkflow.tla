-------------------------- MODULE MCNetworkWorkflow --------------------------
(* NetworkWorkflow on small instances: a road, an ungraded track that ends    *)
(* beyond the polygon and is filtered by default, a longer track apart from   *)
(* them, and a road that leaves the polygon and comes back.                   *)
EXTENDS NetworkWorkflow, TLC

MCTypesOf == [Road |-> {"road"}, Track |-> {"track"}]

MCOsm ==
    1 :> [highway |-> "road", tracktype |-> "none", nodes |-> <<1, 2, 3>>] @@
    2 :> [highway |-> "track", tracktype |-> "none", nodes |-> <<3, 4, 10, 11>>] @@
    3 :> [highway |-> "track", tracktype |-> "grade1", nodes |-> <<5, 6, 7, 8>>] @@
    4 :> [highway |-> "road", tracktype |-> "none", nodes |-> <<8, 10, 11, 9>>]

MCAreas == {1..9}

\* Bound: after a second upload, and while a submit is in flight, there is one
\* click less.
FewClicks == uploads + clicks + Cardinality(submits) <= 6

Symmetry == Permutations(Tab)
=============================================================================
