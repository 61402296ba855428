----------------------------- MODULE MCWorkflow -----------------------------
(***************************************************************************)
(* Small rollouts for TLC.                                                 *)
(***************************************************************************)
EXTENDS Workflow
=============================================================================
