---------------------------- MODULE MCUploadPages ----------------------------
(* UploadPages on small instances. *)
EXTENDS UploadPages
=============================================================================
