------------------------------ MODULE MCAgent ------------------------------
(***************************************************************************)
(* Values for the constants of RecoveryAgent.                              *)
(***************************************************************************)
EXTENDS RecoveryAgent

CONSTANTS core, payment
=============================================================================
