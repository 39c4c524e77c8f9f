------------------------------ MODULE Monitor ------------------------------
(***************************************************************************)
(* The monitor: cycles of parallel health checks, the classification of    *)
(* their results, the cooldown of events and their publication.            *)
(*                                                                         *)
(* A cycle awaits all checks and then handles the results one by one in    *)
(* the order of the services, without awaiting, but put_events blocks: the *)
(* world goes on between two results.  `lastSent' and `reported' hold the  *)
(* time elapsed; Cooldown stands for "long ago" and for "never".           *)
(***************************************************************************)
EXTENDS Naturals, Sequences

CONSTANTS
    Order,        \* the services, in the order of the settings
    Conditions,   \* what the health endpoints of this instance can do
    Cooldown      \* cooldown_seconds, in ticks

Services == {Order[i] : i \in 1..Len(Order)}

\* The behaviours of a health endpoint: 200 within warn_ms, within slow_ms,
\* or later; another status; no answer in time; no connection.
AllConditions == {"fast", "sluggish", "crawling", "error", "hangs", "gone"}

ASSUME OrderAssumption    == Order \in Seq(Services)
ASSUME ConditionAssumption == Conditions \subseteq AllConditions
ASSUME CooldownAssumption == Cooldown \in Nat \ {0}

VARIABLES
    condition,   \* what each health endpoint does now
    busUp,       \* EventBridge accepts events
    phase,       \* where the loop of run_async is
    result,      \* raw_results of the cycle
    todo,        \* results that the cycle has not handled yet
    lastSent,    \* EventCooldown._last_sent
    reported     \* last event that reached the bus for each fingerprint
                 \* since the monitor has last seen the service up (history)

vars == <<condition, busUp, phase, result, todo, lastSent, reported>>

Statuses == {"UP", "SLOW", "VERY_SLOW", "DOWN", "TIMEOUT"}

FailureTypes == {"crash", "timeout", "slow"}

Timers == [FailureTypes -> 0..Cooldown]

NoTimers == [t \in FailureTypes |-> Cooldown]

TypeOK ==
    /\ condition \in [Services -> Conditions]
    /\ busUp \in BOOLEAN
    /\ phase \in {"sleeping", "checking", "processing"}
    /\ result \in [Services -> Statuses \cup {"none"}]
    /\ todo \in Seq(Services)
    /\ lastSent \in [Services -> Timers]
    /\ reported \in [Services -> Timers]

Init ==
    /\ condition \in [Services -> Conditions]
    /\ busUp \in BOOLEAN
    /\ phase = "sleeping"
    /\ result = [s \in Services |-> "none"]
    /\ todo = << >>
    /\ lastSent = [s \in Services |-> NoTimers]
    /\ reported = [s \in Services |-> NoTimers]

-----------------------------------------------------------------------------
\* HealthChecker.check_async and LatencyChecker.

\* Mutant of StatusOf: what the checker returns for a refused connection is
\* not a status that the rest of the monitor knows.
StatusOfUnknown(c) == IF c = "fast" THEN "UP" ELSE "UNREACHABLE"

\* The status of a check, the upgrade by classify() included.
StatusOf(c) ==
    CASE c = "fast"              -> "UP"
      [] c = "sluggish"          -> "SLOW"
      [] c = "crawling"          -> "VERY_SLOW"
      [] c = "hangs"             -> "TIMEOUT"
      [] c \in {"error", "gone"} -> "DOWN"

FailureType(status) ==
    CASE status = "DOWN"                  -> "crash"
      [] status = "TIMEOUT"               -> "timeout"
      [] status \in {"SLOW", "VERY_SLOW"} -> "slow"

-----------------------------------------------------------------------------
\* EventCooldown.

\* Mutant of ShouldSend: the timer is not compared with the cooldown.
ShouldSendAlways(s, t) == s \in Services /\ t \in FailureTypes

ShouldSend(s, t) == lastSent[s][t] >= Cooldown

Started(timers, s, t) == [timers EXCEPT ![s][t] = 0]

Cleared(timers, s) == [timers EXCEPT ![s] = NoTimers]

-----------------------------------------------------------------------------
\* MonitorService.

StartCycle ==
    /\ phase = "sleeping"
    /\ phase' = "checking"
    /\ result' = [s \in Services |-> "none"]
    /\ UNCHANGED <<condition, busUp, todo, lastSent, reported>>

Check(s) ==
    /\ phase = "checking"
    /\ result[s] = "none"
    /\ result' = [result EXCEPT ![s] = StatusOf(condition[s])]
    /\ UNCHANGED <<condition, busUp, phase, todo, lastSent, reported>>

Gathered ==
    /\ phase = "checking"
    /\ \A s \in Services : result[s] # "none"
    /\ phase' = "processing"
    /\ todo' = Order
    /\ UNCHANGED <<condition, busUp, result, lastSent, reported>>

\* should_send has started the timer by the time publish() is called, and
\* publish() reports failure without raising.
Publish(s, t) ==
    /\ ShouldSend(s, t)
    /\ lastSent' = Started(lastSent, s, t)
    /\ reported' = IF busUp THEN Started(reported, s, t) ELSE reported

\* Mutant of Suppress: a suppressed event restarts the timer.
SuppressRestarts(s, t) ==
    /\ ~ShouldSend(s, t)
    /\ lastSent' = Started(lastSent, s, t)
    /\ UNCHANGED reported

Suppress(s, t) ==
    /\ ~ShouldSend(s, t)
    /\ UNCHANGED <<lastSent, reported>>

Recovered(s) ==
    /\ lastSent' = Cleared(lastSent, s)
    /\ reported' = Cleared(reported, s)

\* _process_result for the next service, publication included.
Process ==
    /\ phase = "processing" /\ todo # << >>
    /\ LET s == Head(todo)
       IN  IF result[s] = "UP" THEN Recovered(s)
           ELSE \/ Publish(s, FailureType(result[s]))
                \/ Suppress(s, FailureType(result[s]))
    /\ todo' = Tail(todo)
    /\ UNCHANGED <<condition, busUp, phase, result>>

\* The results are handled: back to asyncio.sleep.
EndCycle ==
    /\ phase = "processing" /\ todo = << >>
    /\ phase' = "sleeping"
    /\ UNCHANGED <<condition, busUp, result, todo, lastSent, reported>>

\* A new process has no timers.
Restart ==
    /\ phase' = "sleeping"
    /\ result' = [s \in Services |-> "none"]
    /\ todo' = << >>
    /\ lastSent' = [s \in Services |-> NoTimers]
    /\ reported' = [s \in Services |-> NoTimers]
    /\ UNCHANGED <<condition, busUp>>

-----------------------------------------------------------------------------
\* The environment.

Older(timers) ==
    [s \in Services |-> [t \in FailureTypes |->
        IF timers[s][t] < Cooldown THEN timers[s][t] + 1 ELSE Cooldown]]

Tick ==
    /\ lastSent' = Older(lastSent)
    /\ reported' = Older(reported)
    /\ UNCHANGED <<condition, busUp, phase, result, todo>>

Changes(s, c) ==
    /\ condition' = [condition EXCEPT ![s] = c]
    /\ UNCHANGED <<busUp, phase, result, todo, lastSent, reported>>

BusChanges ==
    /\ busUp' = ~busUp
    /\ UNCHANGED <<condition, phase, result, todo, lastSent, reported>>

-----------------------------------------------------------------------------
Loop == StartCycle \/ (\E s \in Services : Check(s)) \/ Gathered \/ Process \/ EndCycle

Next ==
    \/ Loop
    \/ Restart
    \/ Tick
    \/ \E s \in Services, c \in Conditions : Changes(s, c)
    \/ BusChanges

Spec == Init /\ [][Next]_vars

\* Checks time out, put_events returns and time passes.
Fairness == WF_vars(Loop) /\ WF_vars(Tick)

\* A monitor that its supervisor does not restart for ever.
FairSpec == Spec /\ Fairness /\ <>[][~Restart]_vars

-----------------------------------------------------------------------------
\* Properties.

\* Two events with the same fingerprint reach the bus within one cooldown
\* only if the monitor has seen the service up in between, or was restarted
\* (event_cooldown.py 14-19), whatever the other types of failure of the
\* service and however often publishing fails.
NoDuplicates ==
    [][\A s \in Services, t \in FailureTypes :
            (reported'[s][t] = 0 /\ reported[s][t] # 0) => reported[s][t] = Cooldown]_vars

\* A service that keeps failing in one way is reported again and again as
\* long as EventBridge accepts events: no timer silences it for ever.
FailureIsReported ==
    \A s \in Services, t \in FailureTypes :
        <>[](busUp /\ condition[s] # "fast" /\ FailureType(StatusOf(condition[s])) = t)
            => []<>(reported[s][t] = 0)
=============================================================================
