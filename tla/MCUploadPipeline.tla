-------------------------- MODULE MCUploadPipeline --------------------------
(* Small instances of UploadPipeline for TLC. *)
EXTENDS UploadPipeline, TLC

\* Requests, workers and uploads are interchangeable (safety runs only).
Symmetry ==
    Permutations(Handler) \cup Permutations(Saver) \cup Permutations(Worker) \cup Permutations(Upload)
=============================================================================
