--------------------------- MODULE CircuitBreaker ---------------------------
(***************************************************************************)
(* The circuit breaker of api-service: the class CircuitBreaker of         *)
(* circuit_breaker.py as operators over one record, without the callers.   *)
(*                                                                         *)
(* The methods hold an RLock and never await, so each is one atomic step.  *)
(* `last_failure_time' is kept as the time elapsed since it was set, which *)
(* is all that can_call_core looks at; it stops at RecoveryTimeout, the    *)
(* only value it is compared with.  `failure_count' stops at               *)
(* FailureThreshold for the same reason.                                   *)
(***************************************************************************)
EXTENDS Integers

CONSTANTS
    FailureThreshold,   \* failure_threshold, 3 in the settings
    RecoveryTimeout,    \* recovery_timeout_seconds, in ticks
    HalfOpenMaxCalls    \* half_open_max_calls, 1 in the settings

ASSUME ThresholdAssumption == FailureThreshold \in Nat \ {0}
ASSUME TimeoutAssumption   == RecoveryTimeout \in Nat
ASSUME MaxCallsAssumption  == HalfOpenMaxCalls \in Nat

CircuitState == {"closed", "open", "half_open"}

Breaker == [state         : CircuitState,
            failureCount  : 0..FailureThreshold,
            elapsed       : 0..RecoveryTimeout,
            halfOpenCalls : 0..HalfOpenMaxCalls]

\* __init__: last_failure_time = 0.0 is long ago.
NewBreaker == [state |-> "closed", failureCount |-> 0,
               elapsed |-> RecoveryTimeout, halfOpenCalls |-> 0]

UpTo(bound, n) == IF n < bound THEN n ELSE bound

-----------------------------------------------------------------------------
\* can_call_core: its answer, and the breaker it leaves behind.

\* Mutant of CooldownOver: the elapsed time is not looked at.
CooldownIgnored(b) == b.state = "open"

CooldownOver(b) == b.state = "open" /\ b.elapsed >= RecoveryTimeout

\* Mutant of ProbeLeft: an off-by-one in the probe budget.
ProbeLeftInclusive(b) == b.state = "half_open" /\ b.halfOpenCalls <= HalfOpenMaxCalls

ProbeLeft(b) == b.state = "half_open" /\ b.halfOpenCalls < HalfOpenMaxCalls

CanCallCore(b) == b.state = "closed" \/ CooldownOver(b) \/ ProbeLeft(b)

\* Mutant of AfterCanCall: no probe is counted.
AfterCanCallUncounted(b) ==
    IF CooldownOver(b) THEN [b EXCEPT !.state = "half_open", !.halfOpenCalls = 0] ELSE b

\* The call that turns OPEN into HALF_OPEN is let through without being
\* counted in _half_open_calls.
AfterCanCall(b) ==
    CASE CooldownOver(b) -> [b EXCEPT !.state = "half_open", !.halfOpenCalls = 0]
      [] ProbeLeft(b)    -> [b EXCEPT !.halfOpenCalls = @ + 1]
      [] OTHER           -> b

\* Mutant of RecordSuccess: the counters are reset, the state is not.
RecordSuccessKeepsState(b) == [b EXCEPT !.failureCount = 0, !.halfOpenCalls = 0]

\* record_success closes whatever the state was, OPEN included.
RecordSuccess(b) ==
    [b EXCEPT !.state = "closed", !.failureCount = 0, !.halfOpenCalls = 0]

\* Mutants of RecordFailure: the threshold is one too high; the cooldown is
\* not restarted.
RecordFailureLate(b) ==
    [b EXCEPT !.failureCount = UpTo(FailureThreshold, @ + 1),
              !.elapsed = 0,
              !.state = IF @ = "half_open" \/ b.failureCount >= FailureThreshold
                        THEN "open" ELSE @]

RecordFailureOldTime(b) ==
    LET count == UpTo(FailureThreshold, b.failureCount + 1)
    IN  [b EXCEPT !.failureCount = count,
                  !.state = IF @ = "half_open" \/ count >= FailureThreshold
                            THEN "open" ELSE @]

\* record_failure restarts the cooldown in every state.
RecordFailure(b) ==
    LET count == UpTo(FailureThreshold, b.failureCount + 1)
        trips == b.state = "half_open" \/ count >= FailureThreshold
    IN  [b EXCEPT !.failureCount = count,
                  !.elapsed = 0,
                  !.state = IF trips THEN "open" ELSE @]

\* One tick of time.time().
Aged(b) == [b EXCEPT !.elapsed = UpTo(RecoveryTimeout, @ + 1)]
=============================================================================
