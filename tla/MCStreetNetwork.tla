-------------------------- MODULE MCStreetNetwork --------------------------
(* Small instances of StreetNetwork for TLC. *)
EXTENDS StreetNetwork, TLC

\* Web pods and downloads are interchangeable.
Symmetry == Permutations(WebDisk) \cup Permutations(Net)
=============================================================================
