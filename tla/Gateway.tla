------------------------------ MODULE Gateway ------------------------------
(***************************************************************************)
(* api-service: requests of clients going through GatewayService.call, one *)
(* circuit breaker per registered service, one HTTP connection pool for    *)
(* all of them, and the downstream services that fail and heal.            *)
(*                                                                         *)
(* The handlers are coroutines of one event loop: the code between two     *)
(* awaits is one step.  A request awaits twice at most, in client.call()   *)
(* for the primary service and in _call_fallback(), so it is in one of     *)
(* three places: "idle", "primary" or "fallback".                          *)
(***************************************************************************)
EXTENDS CircuitBreaker, FiniteSets

CONSTANTS
    Services,    \* names in the registry
    Fallback,    \* fallback-service, which has no breaker
    Requests,    \* slots for requests in flight
    Strategy,    \* Strategy[s] is the strategy of services_config.json
    CallBound,   \* longest a call can last, in ticks
    PoolWait,    \* httpx's pool timeout, in ticks
    PoolSize,    \* max_connections of the shared client
    NonObject,   \* services whose 200 carries JSON that is not an object
    AlwaysUp,    \* services the environment never breaks
    Lossy        \* services whose datapoints CloudWatch may refuse

ASSUME StrategyAssumption == Strategy \in [Services -> {"fallback", "escalate"}]
ASSUME BoundAssumption    == CallBound \in Nat /\ PoolWait \in 0..CallBound /\ PoolSize \in Nat
ASSUME FallbackAssumption == Fallback \notin Services
ASSUME RequestsAssumption == IsFiniteSet(Requests)

VARIABLES
    breaker,     \* config.circuit_breaker of each service
    pc,          \* where each request is
    svc,         \* the service it asked for
    age,         \* ticks spent in its current await
    admittedIn,  \* state of the breaker when can_call_core let it through
    conn,        \* requests that hold a connection of the pool
    refused,     \* requests whose last call ended in a 503
    gauge,       \* CircuitBreakerState of each service in CloudWatch
    streak,      \* consecutive failed calls of each service (history)
    up           \* services that answer 200 in time

vars == <<breaker, pc, svc, age, admittedIn, conn, refused, gauge, streak, up>>

Targets == Services \cup {Fallback}

InFlight(s) == {r \in Requests : pc[r] = "primary" /\ svc[r] = s}

\* CloudWatch's last datapoint; it is stale from a lost datapoint, or from a
\* restart that forgot another state, until the next one that arrives.
Gauge == [value : CircuitState \cup {"none"}, stale : BOOLEAN]

Waiting == {r \in Requests : pc[r] # "idle" /\ r \notin conn}

TypeOK ==
    /\ breaker \in [Services -> Breaker]
    /\ pc \in [Requests -> {"idle", "primary", "fallback"}]
    /\ svc \in [Requests -> Services]
    /\ age \in [Requests -> 0..CallBound]
    /\ admittedIn \in [Requests -> CircuitState]
    /\ conn \in SUBSET Requests
    /\ refused \in SUBSET Requests
    /\ gauge \in [Services -> Gauge]
    /\ streak \in [Services -> 0..FailureThreshold]
    /\ up \in SUBSET Targets

Init ==
    /\ breaker = [s \in Services |-> NewBreaker]
    /\ pc = [r \in Requests |-> "idle"]
    /\ svc \in [Requests -> Services]
    /\ age = [r \in Requests |-> 0]
    /\ admittedIn = [r \in Requests |-> "closed"]
    /\ conn = {}
    /\ refused = {}
    /\ gauge = [s \in Services |-> [value |-> "none", stale |-> FALSE]]
    /\ streak = [s \in Services |-> 0]
    /\ up = Targets

-----------------------------------------------------------------------------
\* Helpers.

Sent(g, s, state) == [g EXCEPT ![s] = [value |-> state, stale |-> FALSE]]

\* put_metric_data fails: the publisher logs it and forgets the datapoint.
Lost(g, s) == IF s \in Lossy THEN {[g EXCEPT ![s].stale = TRUE]} ELSE {}

\* Mutant of Emitted: the state from before the call is sent.
EmittedBefore(g, s, before, after) ==
    IF before = after THEN {g} ELSE {Sent(g, s, before)} \cup Lost(g, s)

\* _emit_state_change runs only when the state before and after differ.
Emitted(g, s, before, after) ==
    IF before = after THEN {g} ELSE {Sent(g, s, after)} \cup Lost(g, s)

\* A call takes a connection at once if one is free, and queues otherwise.
\* `others' are the holders that remain.
Acquired(r, others) ==
    IF Cardinality(others) < PoolSize THEN others \cup {r} ELSE others

\* The request returns to its client; `told' is the new set of the refused.
Ends(r, told) ==
    /\ pc' = [pc EXCEPT ![r] = "idle"]
    /\ refused' = told
    /\ age' = [age EXCEPT ![r] = 0]
    /\ admittedIn' = [admittedIn EXCEPT ![r] = "closed"]
    /\ conn' = conn \ {r}

\* _apply_strategy up to its await: call fallback-service, or raise, which
\* the route turns into a 503.
ApplyStrategy(r, s) ==
    \/ /\ Strategy[s] = "fallback"
       /\ pc' = [pc EXCEPT ![r] = "fallback"]
       /\ refused' = refused \ {r}
       /\ age' = [age EXCEPT ![r] = 0]
       /\ admittedIn' = [admittedIn EXCEPT ![r] = "closed"]
       /\ conn' = Acquired(r, conn \ {r})
    \/ /\ Strategy[s] = "escalate"
       /\ Ends(r, refused \cup {r})

-----------------------------------------------------------------------------
\* Steps of a request.

\* GET /{name} for a name that is not registered: registry.get raises.
CallUnknown(r) ==
    /\ pc[r] = "idle"
    /\ Ends(r, refused \ {r})
    /\ UNCHANGED <<breaker, svc, gauge, streak, up>>

\* GatewayService.call up to the await of client.call().
Admit(r, s) ==
    /\ pc[r] = "idle"
    /\ CanCallCore(breaker[s])
    /\ breaker' = [breaker EXCEPT ![s] = AfterCanCall(@)]
    /\ gauge' \in Emitted(gauge, s, breaker[s].state, breaker'[s].state)
    /\ pc' = [pc EXCEPT ![r] = "primary"]
    /\ svc' = [svc EXCEPT ![r] = s]
    /\ age' = [age EXCEPT ![r] = 0]
    /\ admittedIn' = [admittedIn EXCEPT ![r] = breaker[s].state]
    /\ conn' = Acquired(r, conn)
    /\ refused' = refused \ {r}
    /\ UNCHANGED <<streak, up>>

\* Mutant of Block: the strategy is not consulted.
BlockRaises(r, s) ==
    /\ pc[r] = "idle"
    /\ ~CanCallCore(breaker[s])
    /\ svc' = [svc EXCEPT ![r] = s]
    /\ Ends(r, refused \cup {r})
    /\ UNCHANGED <<breaker, gauge, streak, up>>

\* The breaker says no: the strategy is applied without a call.
Block(r, s) ==
    /\ pc[r] = "idle"
    /\ ~CanCallCore(breaker[s])
    /\ svc' = [svc EXCEPT ![r] = s]
    /\ ApplyStrategy(r, s)
    /\ UNCHANGED <<breaker, gauge, streak, up>>

\* A queued call gets a connection that was returned to the pool.
Connect(r) ==
    /\ r \in Waiting
    /\ Cardinality(conn) < PoolSize
    /\ conn' = conn \cup {r}
    /\ UNCHANGED <<breaker, pc, svc, age, admittedIn, refused, gauge, streak, up>>

\* The breaker and the gauge after the call of service s was recorded as a
\* success: the state is read again after the await.
SuccessRecorded(s) ==
    /\ breaker' = [breaker EXCEPT ![s] = RecordSuccess(@)]
    /\ gauge' \in Emitted(gauge, s, breaker[s].state, breaker'[s].state)
    /\ streak' = [streak EXCEPT ![s] = 0]

\* Mutant of FailureRecorded: one breaker for all services.
FailureRecordedForAll(s) ==
    /\ breaker' = [t \in Services |-> RecordFailure(breaker[t])]
    /\ gauge' \in Emitted(gauge, s, breaker[s].state, breaker'[s].state)
    /\ streak' = [streak EXCEPT ![s] = UpTo(FailureThreshold, @ + 1)]

FailureRecorded(s) ==
    /\ breaker' = [breaker EXCEPT ![s] = RecordFailure(@)]
    /\ gauge' \in Emitted(gauge, s, breaker[s].state, breaker'[s].state)
    /\ streak' = [streak EXCEPT ![s] = UpTo(FailureThreshold, @ + 1)]

PrimarySucceeds(r) ==
    /\ pc[r] = "primary" /\ r \in conn
    /\ svc[r] \in up \ NonObject
    /\ SuccessRecorded(svc[r])
    /\ Ends(r, refused \ {r})
    /\ UNCHANGED <<svc, up>>

\* A 200 whose JSON is not an object: record_success has run by the time
\* ProcessResponse(result=data) raises inside the same try, so the except
\* clause records a failure as well.
PrimaryMalformed(r) ==
    LET s    == svc[r]
        good == RecordSuccess(breaker[s])
        bad  == RecordFailure(good)
    IN  /\ pc[r] = "primary" /\ r \in conn
        /\ s \in up \cap NonObject
        /\ breaker' = [breaker EXCEPT ![s] = bad]
        /\ \E g \in Emitted(gauge, s, breaker[s].state, good.state) :
               gauge' \in Emitted(g, s, good.state, bad.state)
        /\ streak' = [streak EXCEPT ![s] = UpTo(FailureThreshold, @ + 1)]
        /\ ApplyStrategy(r, s)
        /\ UNCHANGED <<svc, up>>

\* The pool has had no connection for r for PoolWait ticks: httpx's PoolTimeout.
Starved(r) == r \in Waiting /\ age[r] >= PoolWait /\ Cardinality(conn) >= PoolSize

\* Mutant of CallRaises: no timeout on the call.
CallHangs(r, target) == Starved(r)

\* client.call() raises: the service is down, slow or answers an error; or
\* the pool had no connection.
CallRaises(r, target) ==
    \/ r \in conn /\ target \notin up
    \/ Starved(r)

PrimaryFails(r) ==
    /\ pc[r] = "primary"
    /\ CallRaises(r, svc[r])
    /\ FailureRecorded(svc[r])
    /\ ApplyStrategy(r, svc[r])
    /\ UNCHANGED <<svc, up>>

FallbackAnswers(r) ==
    /\ pc[r] = "fallback" /\ r \in conn
    /\ Fallback \in up
    /\ Ends(r, refused \ {r})
    /\ UNCHANGED <<breaker, svc, gauge, streak, up>>

FallbackFails(r) ==
    /\ pc[r] = "fallback"
    /\ CallRaises(r, Fallback)
    /\ Ends(r, refused \cup {r})
    /\ UNCHANGED <<breaker, svc, gauge, streak, up>>

-----------------------------------------------------------------------------
\* The environment.

\* Time passes.  The timeouts of httpx end every call within CallBound.
Tick ==
    /\ \A r \in Requests : pc[r] # "idle" => age[r] < CallBound
    /\ age' = [r \in Requests |-> IF pc[r] = "idle" THEN 0 ELSE age[r] + 1]
    /\ breaker' = [s \in Services |-> Aged(breaker[s])]
    /\ UNCHANGED <<pc, svc, admittedIn, conn, refused, gauge, streak, up>>

\* api-service restarts: the breakers are in memory only, and the requests
\* in flight are lost with their connections.  CloudWatch keeps its value.
Restart ==
    /\ breaker' = [s \in Services |-> NewBreaker]
    /\ pc' = [r \in Requests |-> "idle"]
    /\ age' = [r \in Requests |-> 0]
    /\ admittedIn' = [r \in Requests |-> "closed"]
    /\ conn' = {}
    /\ refused' = {}
    /\ gauge' = [s \in Services |->
                    [gauge[s] EXCEPT !.stale = gauge[s].value \notin {"none", "closed"}]]
    /\ streak' = [s \in Services |-> 0]
    /\ UNCHANGED <<svc, up>>

Break(t) ==
    /\ t \in up \ AlwaysUp
    /\ up' = up \ {t}
    /\ UNCHANGED <<breaker, pc, svc, age, admittedIn, conn, refused, gauge, streak>>

Heal(t) ==
    /\ t \notin up
    /\ up' = up \cup {t}
    /\ UNCHANGED <<breaker, pc, svc, age, admittedIn, conn, refused, gauge, streak>>

-----------------------------------------------------------------------------
Completes(r) ==
    \/ Connect(r)
    \/ PrimarySucceeds(r)
    \/ PrimaryMalformed(r)
    \/ PrimaryFails(r)
    \/ FallbackAnswers(r)
    \/ FallbackFails(r)

Next ==
    \/ \E r \in Requests : CallUnknown(r)
    \/ \E r \in Requests, s \in Services : Admit(r, s) \/ Block(r, s)
    \/ \E r \in Requests : Completes(r)
    \/ Tick
    \/ Restart
    \/ \E t \in Targets : Break(t) \/ Heal(t)

Spec == Init /\ [][Next]_vars

\* The event loop and httpx's timeouts finish every call; time passes; and
\* clients keep asking for every service, which is an assumption about them:
\* a breaker only leaves OPEN when somebody calls.
Fairness ==
    /\ \A r \in Requests : WF_vars(Completes(r))
    /\ WF_vars(Tick)
    /\ \A s \in Services : SF_vars(\E r \in Requests : Admit(r, s))

FairSpec == Spec /\ Fairness

-----------------------------------------------------------------------------
\* Safety.

\* HALF_OPEN is never a dead end: whenever the probe budget can refuse
\* calls, the call that opened the probing phase is still in flight, and
\* its end, whatever it is, leaves HALF_OPEN (circuit_breaker.py 90-110:
\* nothing else refills _half_open_calls and no timer leaves the state).
HalfOpenHasProbe ==
    \A s \in Services : breaker[s].state = "half_open" =>
        \E r \in InFlight(s) : admittedIn[r] = "open"

\* While a breaker is OPEN nothing new is admitted, so each call still in
\* flight is at least as old as the cooldown that runs (can_call_core 83-97
\* against record_failure 139, which restarts the cooldown).
OldCallsOnly ==
    \A s \in Services : breaker[s].state = "open" =>
        \A r \in InFlight(s) : age[r] >= breaker[s].elapsed

\* In HALF_OPEN the service is spared: every call in flight is a probe, and
\* there are exactly as many as the breaker has counted, plus the one that
\* made the transition uncounted.  So a further call is let through while no
\* more than half_open_max_calls are in flight: with the default of 1 the
\* code sends two test calls (lines 91-94, 100-108), where the comments on
\* lines 13 and 51 speak of one.  No call left over from before the outage
\* can decide the probing phase, because the cooldown outlasts any call.
HalfOpenOnlyProbes ==
    \A s \in Services : breaker[s].state = "half_open" =>
        /\ \A r \in InFlight(s) : admittedIn[r] # "closed"
        /\ Cardinality(InFlight(s)) = breaker[s].halfOpenCalls + 1
        /\ CanCallCore(breaker[s]) <=> Cardinality(InFlight(s)) <= HalfOpenMaxCalls

\* The breaker of a service that answers well-formed JSON is closed exactly
\* while fewer than FailureThreshold calls in a row have failed, in the order
\* in which their handlers resumed (record_failure and record_success after
\* the await, lines 103-117).
StreakTrips ==
    \A s \in Services \ NonObject :
        breaker[s].state = "closed" <=> streak[s] < FailureThreshold

\* Calls that fail on a malformed body trip the breaker as any others
\* (generic_client.py 76-77).
MalformedTrips ==
    \A s \in NonObject \cap Services :
        streak[s] >= FailureThreshold => breaker[s].state # "closed"

\* What CloudWatch holds is the state of the breaker unless the last datapoint
\* was lost or a restart forgot the state that was sent: emission compares two
\* reads around each call to the breaker and other handlers run during the
\* await (lines 86-91, 103-117), but no transition is missed or sent twice.
GaugeIsCurrent ==
    \A s \in Services : ~gauge[s].stale =>
        breaker[s].state = IF gauge[s].value = "none" THEN "closed" ELSE gauge[s].value

\* Services that always answer well-formed JSON in time.
Healthy == (AlwaysUp \cap Services) \ NonObject

\* A breaker of a service that never fails stays closed: "Circuit breakers are
\* independent per service" (lines 16-17).
HealthyStaysClosed ==
    \A s \in Healthy : breaker[s].state = "closed"

\* The breaker of a service that never fails is charged with a failure, or
\* opened, only for a call to that very service that got no connection out of
\* the pool that all services share; whatever other services answer, and
\* whatever their breakers do, it is not touched.
HealthyFailsStarved ==
    [][\A s \in Healthy :
            \/ breaker'[s].failureCount > breaker[s].failureCount
            \/ breaker'[s].state = "open" /\ breaker[s].state # "open"
            => \E r \in InFlight(s) : Starved(r) /\ pc'[r] # "primary"]_vars

\* A client of a service whose strategy is fallback is told 503 only at the
\* end of a call to fallback-service that failed as well: blocked by an open
\* circuit or after a failed call, no request skips the fallback, and none of
\* a service that escalates uses it (_apply_strategy, lines 127-152).
FallbackTried ==
    [][\A r \in Requests :
            /\ (r \in refused' \ refused /\ Strategy[svc'[r]] = "fallback")
                 => pc[r] = "fallback" /\ CallRaises(r, Fallback)
            /\ pc'[r] = "fallback" => Strategy[svc'[r]] = "fallback"]_vars

\* As long as api-service runs, an open circuit closes only by way of a
\* probe in HALF_OPEN.
OpenOnlyToHalfOpen ==
    [][\A s \in Services : (breaker[s].state = "open" /\ ~Restart) =>
            breaker'[s].state \in {"open", "half_open"}]_vars

\* While the cooldown of an open breaker runs nothing reaches the service:
\* no call is admitted, and the oldest leftover calls only finish.
OpenAdmitsNothing ==
    [][\A s \in Services :
            (breaker[s].state = "open" /\ breaker[s].elapsed < RecoveryTimeout)
                => InFlight(s)' \subseteq InFlight(s)]_vars

-----------------------------------------------------------------------------
\* Liveness.

\* A circuit whose service has healed for good, and whose calls get their
\* connections, closes for good.
HealedCircuitCloses ==
    \A s \in Services \ NonObject :
        <>[](s \in up /\ \A r \in InFlight(s) : ~Starved(r))
            => <>[](breaker[s].state = "closed")

\* Every request gets an answer, whatever is down.
EveryCallAnswered ==
    \A r \in Requests : pc[r] # "idle" ~> pc[r] = "idle"
=============================================================================
