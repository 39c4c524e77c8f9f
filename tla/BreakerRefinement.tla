-------------------------- MODULE BreakerRefinement --------------------------
(***************************************************************************)
(* The breaker of one service, between its concurrent callers, implements  *)
(* BreakerSpec: CircuitState, the probes that are counted and the ones     *)
(* that are not, and the connection pool are details.                      *)
(***************************************************************************)
EXTENDS Gateway

CONSTANT Watched   \* the service whose breaker is looked at

ASSUME WatchedAssumption == Watched \in Services \ NonObject

Circuit == INSTANCE BreakerSpec WITH
               Callers   <- Requests,
               Threshold <- FailureThreshold,
               Cooldown  <- RecoveryTimeout,
               Extra     <- HalfOpenMaxCalls,
               failed    <- breaker[Watched].failureCount,
               quiet     <- breaker[Watched].elapsed,
               calls     <- InFlight(Watched)

\* OPEN and HALF_OPEN with their two counters amount to a circuit that is
\* decided by the last calls, the time and the calls under way.
BreakerImplements == Circuit!Spec
=============================================================================
