--------------------------- MODULE MCRunLifecycle ---------------------------
(* Small instances of RunLifecycle for TLC. *)
EXTENDS RunLifecycle, TLC

\* Requests, workers and task ids are interchangeable (safety runs only).
Symmetry ==
    Permutations(Handler) \cup Permutations(Worker) \cup Permutations(Task)
=============================================================================
