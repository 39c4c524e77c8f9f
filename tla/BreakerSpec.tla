---------------------------- MODULE BreakerSpec ----------------------------
(***************************************************************************)
(* What a circuit breaker promises for one service, in terms of what its   *)
(* callers can see and of nothing else: how many calls in a row have       *)
(* failed, how long ago the last failure was, and which calls are under    *)
(* way.  There is no state of the circuit and no counter of probes here:   *)
(* the circuit is open when Threshold calls in a row have failed, and it   *)
(* is probed when it has been quiet for a whole Cooldown.                  *)
(***************************************************************************)
EXTENDS Naturals, FiniteSets

CONSTANTS
    Callers,
    Threshold,   \* failures in a row that stop the traffic
    Cooldown,    \* how long the service is then left alone
    Extra        \* calls that may join the first one that tests it

VARIABLES
    failed,   \* failures in a row, up to Threshold
    quiet,    \* time since the last failure, up to Cooldown
    calls     \* callers whose call is under way

vars == <<failed, quiet, calls>>

Init ==
    /\ failed = 0
    /\ quiet = Cooldown
    /\ calls = {}

Tripped == failed = Threshold

\* A circuit that has tripped lets nothing through for a Cooldown, and then
\* no more than one call and Extra others at a time.
Call(r) ==
    /\ r \notin calls
    /\ Tripped => (quiet = Cooldown /\ Cardinality(calls) <= Extra)
    /\ calls' = calls \cup {r}
    /\ UNCHANGED <<failed, quiet>>

\* One success is enough to let all traffic through again.
Success(r) ==
    /\ r \in calls
    /\ calls' = calls \ {r}
    /\ failed' = 0
    /\ UNCHANGED quiet

\* Every failure starts the cooldown anew.
Failure(r) ==
    /\ r \in calls
    /\ calls' = calls \ {r}
    /\ failed' = IF Tripped THEN failed ELSE failed + 1
    /\ quiet' = 0

Age ==
    /\ quiet < Cooldown
    /\ quiet' = quiet + 1
    /\ UNCHANGED <<failed, calls>>

\* Nothing survives the process.
Restart ==
    /\ failed' = 0
    /\ quiet' = Cooldown
    /\ calls' = {}

Next ==
    \/ \E r \in Callers : Call(r) \/ Success(r) \/ Failure(r)
    \/ Age
    \/ Restart

Spec == Init /\ [][Next]_vars
=============================================================================
