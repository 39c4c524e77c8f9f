--------------------------- MODULE RecoveryPolicy ---------------------------
(***************************************************************************)
(* SmartRecoveryPolicy of the recovery Lambda, as operators without state. *)
(*                                                                         *)
(* The code keeps a list of timestamps per service and counts those of the *)
(* last five and ten minutes.  The counts are only compared with three     *)
(* thresholds, so the list is abstracted to the ages of its newest         *)
(* CriticalCount entries: h[k] is the age of the k-th newest failure, and  *)
(* TenMinutes when there is none in the window.  At least k failures lie   *)
(* in a window of length w exactly when h[k] < w.                          *)
(***************************************************************************)
EXTENDS Integers

CONSTANTS
    FiveMinutes, TenMinutes,   \* the two windows, in ticks
    MediumCount,               \* 2 in the code
    HighCount,                 \* 3 in the code
    CriticalCount              \* 5 in the code

ASSUME WindowAssumption == /\ FiveMinutes \in Nat /\ TenMinutes \in Nat
                           /\ 0 < FiveMinutes /\ FiveMinutes <= TenMinutes
ASSUME CountAssumption  == /\ CriticalCount \in Nat \ {0}
                           /\ HighCount \in 1..CriticalCount
                           /\ MediumCount \in 1..HighCount

Severities == {"LOW", "MEDIUM", "HIGH", "CRITICAL"}
Actions    == {"restart_service", "enable_fallback"}
Strategies == {"restart", "fallback", "escalate"}

History == [1..CriticalCount -> 0..TenMinutes]

NoFailures == [k \in 1..CriticalCount |-> TenMinutes]

\* _record_and_count: append now, forget what left the ten minutes.
Recorded(h) == [k \in 1..CriticalCount |-> IF k = 1 THEN 0 ELSE h[k - 1]]

\* Time passes for every timestamp.
Older(h) == [k \in 1..CriticalCount |->
                IF h[k] < TenMinutes THEN h[k] + 1 ELSE TenMinutes]

AtLeast(n, window, h) == h[n] < window

\* The ladder of decide(), the newest failure being recorded already.
Severity(h) ==
    IF AtLeast(CriticalCount, TenMinutes, h) THEN "CRITICAL"
    ELSE IF AtLeast(HighCount, FiveMinutes, h) THEN "HIGH"
    ELSE IF AtLeast(MediumCount, FiveMinutes, h) THEN "MEDIUM"
    ELSE "LOW"

\* Mutant of ActionFor: CRITICAL does not override the base action.
ActionForBase(failureType, severity) ==
    IF failureType = "slow" THEN "enable_fallback" ELSE "restart_service"

\* Mutant of ActionFor: the override names an action that the agent lacks.
ActionForUnknown(failureType, severity) ==
    IF \/ failureType = "slow"
       \/ severity = "CRITICAL" /\ failureType \in {"crash", "timeout"}
    THEN "fallback_on_critical" ELSE "restart_service"

\* _BASE_ACTION and its override; a type the map does not know restarts
\* whatever the severity.
ActionFor(failureType, severity) ==
    IF \/ failureType = "slow"
       \/ severity = "CRITICAL" /\ failureType \in {"crash", "timeout"}
    THEN "enable_fallback" ELSE "restart_service"

\* Step 4 of lambda_handler: services without a fallback start at HIGH.
Overridden(strategy, severity) ==
    IF strategy = "escalate" /\ severity \in {"LOW", "MEDIUM"}
    THEN "HIGH" ELSE severity

\* evaluate_recovery_outcome.
FinalSeverity(severity, succeeded) == IF succeeded THEN severity ELSE "CRITICAL"

\* Mutant of ClearsHistory: every success wipes the history.
ClearsHistoryAlways(action, succeeded) == succeeded

\* Mutant of ClearsHistory: nothing wipes it.
ClearsHistoryNever(action, succeeded) == FALSE

ClearsHistory(action, succeeded) == succeeded /\ action = "enable_fallback"
=============================================================================
