----------------------------- MODULE MCRecovery -----------------------------
(***************************************************************************)
(* Values for the constants of Recovery.                                   *)
(***************************************************************************)
EXTENDS Recovery

CONSTANTS core, payment

\* services_config.json: payment escalates, core falls back.
ConfiguredStrategy ==
    [s \in Services |-> IF s = payment THEN "escalate" ELSE "fallback"]
=============================================================================
