----------------------------- MODULE MCRollout -----------------------------
(***************************************************************************)
(* A small fleet for TLC.                                                  *)
(***************************************************************************)
EXTENDS Rollout
=============================================================================
