--------------------------- MODULE MCRouteOutputs ---------------------------
(* Small instances of RouteOutputs for TLC. *)
EXTENDS RouteOutputs, TLC

\* Web pods are interchangeable.
Symmetry == Permutations(WebDisk)
=============================================================================
