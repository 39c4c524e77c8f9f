------------------------------ MODULE MCLambda ------------------------------
(***************************************************************************)
(* Values for the constants of LambdaMemory that a configuration cannot    *)
(* write.                                                                  *)
(***************************************************************************)
EXTENDS LambdaMemory

CONSTANTS core, payment

\* services_config.json: core falls back, payment escalates.
ConfiguredStrategy ==
    [s \in Services |-> IF s = payment THEN "escalate" ELSE "fallback"]
=============================================================================
