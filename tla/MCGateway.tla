----------------------------- MODULE MCGateway -----------------------------
(***************************************************************************)
(* Values for the constants of Gateway that a configuration cannot write.  *)
(***************************************************************************)
EXTENDS BreakerRefinement, TLC

CONSTANTS core, payment, movie

\* services_config.json: core and movie fall back, payment escalates.
ConfiguredStrategy ==
    [s \in Services |-> IF s = payment THEN "escalate" ELSE "fallback"]

SameRequests == Permutations(Requests)
=============================================================================
