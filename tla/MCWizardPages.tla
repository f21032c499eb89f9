---------------------------- MODULE MCWizardPages ----------------------------
(* WizardPages on small instances. *)
EXTENDS WizardPages
=============================================================================
