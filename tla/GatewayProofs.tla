--------------------------- MODULE GatewayProofs ---------------------------
(***************************************************************************)
(* Theorems about Gateway for every set of services and requests, every    *)
(* threshold, timeout, pool size and probe budget.                         *)
(***************************************************************************)
EXTENDS Gateway, FiniteSetTheorems, TLAPS

USE DEF CircuitState

-----------------------------------------------------------------------------
\* The operators of CircuitBreaker.

\* Every operation of the breaker returns a breaker.
LEMMA BreakerClosed ==
    ASSUME NEW b \in Breaker
    PROVE  /\ NewBreaker \in Breaker
           /\ AfterCanCall(b) \in Breaker
           /\ RecordSuccess(b) \in Breaker
           /\ RecordFailure(b) \in Breaker
           /\ Aged(b) \in Breaker
<1>1. 0 \in 0..FailureThreshold /\ 0 \in 0..RecoveryTimeout /\ 0 \in 0..HalfOpenMaxCalls
      /\ RecoveryTimeout \in 0..RecoveryTimeout
  BY ThresholdAssumption, TimeoutAssumption, MaxCallsAssumption
<1>2. NewBreaker \in Breaker
  BY <1>1 DEF NewBreaker, Breaker
<1>3. AfterCanCall(b) \in Breaker
  <2>1. CASE CooldownOver(b)
    <3>1. ~ProbeLeft(b)
      BY <2>1 DEF CooldownOver, ProbeLeft
    <3>2. AfterCanCall(b) = [b EXCEPT !.state = "half_open", !.halfOpenCalls = 0]
      BY <2>1, <3>1 DEF AfterCanCall
    <3>3. QED
      BY <1>1, <3>2 DEF Breaker
  <2>2. CASE ProbeLeft(b) /\ ~CooldownOver(b)
    <3>1. b.halfOpenCalls + 1 \in 0..HalfOpenMaxCalls
      BY <2>2, MaxCallsAssumption DEF ProbeLeft, Breaker
    <3>2. QED
      BY <3>1, <2>2 DEF AfterCanCall, Breaker
  <2>3. CASE ~ProbeLeft(b) /\ ~CooldownOver(b)
    BY <2>3 DEF AfterCanCall
  <2>4. QED
    BY <2>1, <2>2, <2>3
<1>4. RecordSuccess(b) \in Breaker
  BY <1>1 DEF RecordSuccess, Breaker
<1>5. RecordFailure(b) \in Breaker
  <2>1. UpTo(FailureThreshold, b.failureCount + 1) \in 0..FailureThreshold
    BY ThresholdAssumption DEF UpTo, Breaker
  <2>2. QED
    BY <1>1, <2>1 DEF RecordFailure, Breaker
<1>6. Aged(b) \in Breaker
  BY TimeoutAssumption DEF Aged, UpTo, Breaker
<1>7. QED
  BY <1>2, <1>3, <1>4, <1>5, <1>6

\* record_success and record_failure never leave the breaker in HALF_OPEN,
\* and record_failure restarts the cooldown.
LEMMA RecordsLeaveHalfOpen ==
    ASSUME NEW b \in Breaker
    PROVE  /\ RecordSuccess(b).state = "closed"
           /\ RecordFailure(b).state # "half_open"
           /\ RecordFailure(b).elapsed = 0
  BY DEF Breaker, RecordSuccess, RecordFailure, UpTo

\* What can_call_core does to a breaker that lets the call through: nothing
\* when closed, the transition after the cooldown, or one more probe.
LEMMA AdmissionCases ==
    ASSUME NEW b \in Breaker, CanCallCore(b)
    PROVE  \/ b.state = "closed" /\ AfterCanCall(b) = b
           \/ /\ b.state = "open" /\ b.elapsed = RecoveryTimeout
              /\ AfterCanCall(b).state = "half_open"
              /\ AfterCanCall(b).halfOpenCalls = 0
           \/ /\ b.state = "half_open"
              /\ AfterCanCall(b).state = "half_open"
              /\ AfterCanCall(b).halfOpenCalls = b.halfOpenCalls + 1
  BY TimeoutAssumption, MaxCallsAssumption, SMTT(30)
  DEF Breaker, CanCallCore, AfterCanCall, CooldownOver, ProbeLeft

LEMMA AgedFields ==
    ASSUME NEW b \in Breaker
    PROVE  /\ Aged(b).state = b.state
           /\ Aged(b).halfOpenCalls = b.halfOpenCalls
           /\ Aged(b).failureCount = b.failureCount
           /\ Aged(b).elapsed \in Nat
           /\ Aged(b).elapsed <= b.elapsed + 1
  BY TimeoutAssumption DEF Breaker, Aged, UpTo

-----------------------------------------------------------------------------
\* Type correctness.

Leaving(r, s) == (\E told \in SUBSET Requests : Ends(r, told)) \/ ApplyStrategy(r, s)

\* When a request leaves its primary call, only its own entries change.
LEMMA Leaves ==
    ASSUME TypeOK, NEW r \in Requests, NEW s \in Services, Leaving(r, s)
    PROVE  /\ pc' \in [Requests -> {"idle", "primary", "fallback"}]
           /\ age' \in [Requests -> 0..CallBound]
           /\ admittedIn' \in [Requests -> CircuitState]
           /\ conn' \in SUBSET Requests
           /\ refused' \in SUBSET Requests
           /\ pc'[r] # "primary"
           /\ \A q \in Requests \ {r} : /\ pc'[q] = pc[q]
                                        /\ age'[q] = age[q]
                                        /\ admittedIn'[q] = admittedIn[q]
<1>1. 0 \in 0..CallBound
  BY BoundAssumption
<1>2. refused \cup {r} \in SUBSET Requests /\ refused \ {r} \in SUBSET Requests
  BY DEF TypeOK
<1>3. CASE \E told \in SUBSET Requests : Ends(r, told)
  BY <1>1, <1>3 DEF Ends, TypeOK
<1>4. CASE ApplyStrategy(r, s) /\ Strategy[s] = "fallback"
  <2>1. /\ pc' = [pc EXCEPT ![r] = "fallback"]
        /\ age' = [age EXCEPT ![r] = 0]
        /\ admittedIn' = [admittedIn EXCEPT ![r] = "closed"]
        /\ conn' = Acquired(r, conn \ {r})
        /\ refused' = refused \ {r}
    BY <1>4 DEF ApplyStrategy
  <2>2. conn' \in SUBSET Requests
    BY <2>1 DEF Acquired, TypeOK
  <2>3. QED
    BY <1>1, <1>2, <2>1, <2>2 DEF TypeOK
<1>5. CASE ApplyStrategy(r, s) /\ Strategy[s] = "escalate"
  BY <1>2, <1>3, <1>5 DEF ApplyStrategy
<1>6. QED
  BY <1>3, <1>4, <1>5 DEF Leaving, ApplyStrategy

\* What CloudWatch holds after an emission.
LEMMA EmittedType ==
    ASSUME NEW g \in [Services -> Gauge], NEW s \in Services,
           NEW before \in CircuitState, NEW after \in CircuitState,
           NEW h \in Emitted(g, s, before, after)
    PROVE  h \in [Services -> Gauge]
<1>1. [value |-> after, stale |-> FALSE] \in Gauge /\ [g[s] EXCEPT !.stale = TRUE] \in Gauge
  BY DEF Gauge
<1>2. h = g \/ h = Sent(g, s, after) \/ h = [g EXCEPT ![s].stale = TRUE]
  BY DEF Emitted, Lost
<1>3. QED
  BY <1>1, <1>2 DEF Sent

\* Every step preserves the types.
LEMMA TypeStep ==
    ASSUME TypeOK, [Next]_vars
    PROVE  TypeOK'
<1>1. ASSUME NEW r \in Requests, CallUnknown(r) PROVE TypeOK'
  BY <1>1, BoundAssumption DEF CallUnknown, Ends, TypeOK
<1>2. ASSUME NEW r \in Requests, NEW s \in Services, Admit(r, s) PROVE TypeOK'
  <2>1. breaker' = [breaker EXCEPT ![s] = AfterCanCall(breaker[s])]
    BY <1>2 DEF Admit
  <2>2. AfterCanCall(breaker[s]) \in Breaker
    BY BreakerClosed DEF TypeOK
  <2>3. breaker' \in [Services -> Breaker] /\ breaker'[s].state \in CircuitState
    BY <2>1, <2>2 DEF TypeOK, Breaker
  <2>4. gauge' \in [Services -> Gauge]
    <3>1. gauge' \in Emitted(gauge, s, breaker[s].state, breaker'[s].state)
          /\ breaker[s].state \in CircuitState
      BY <1>2 DEF Admit, TypeOK, Breaker
    <3>2. QED
      BY <2>3, <3>1, EmittedType DEF TypeOK
  <2>5. breaker[s].state \in CircuitState /\ 0 \in 0..CallBound
    BY BoundAssumption DEF TypeOK, Breaker
  <2>6. conn' \in SUBSET Requests
    BY <1>2 DEF Admit, Acquired, TypeOK
  <2>7. /\ pc' \in [Requests -> {"idle", "primary", "fallback"}]
        /\ svc' \in [Requests -> Services]
        /\ age' \in [Requests -> 0..CallBound]
        /\ admittedIn' \in [Requests -> CircuitState]
        /\ refused' \in SUBSET Requests
        /\ streak' = streak /\ up' = up
    BY <1>2, <2>5 DEF Admit, TypeOK
  <2>8. QED
    BY <2>3, <2>4, <2>6, <2>7 DEF TypeOK
<1>3. ASSUME NEW r \in Requests, NEW s \in Services, Block(r, s) PROVE TypeOK'
  <2>1. ApplyStrategy(r, s)
    BY <1>3 DEF Block
  <2>2. svc' \in [Requests -> Services] /\ UNCHANGED <<breaker, gauge, streak, up>>
    BY <1>3 DEF Block, TypeOK
  <2>3. QED
    BY <2>1, <2>2, Leaves DEF Leaving, TypeOK
<1>4. ASSUME NEW r \in Requests, Connect(r) PROVE TypeOK'
  BY <1>4 DEF Connect, TypeOK
<1>5. ASSUME NEW r \in Requests, PrimarySucceeds(r) PROVE TypeOK'
  <2>1. SuccessRecorded(svc[r]) /\ Ends(r, refused \ {r}) /\ svc[r] \in Services
    BY <1>5 DEF PrimarySucceeds, TypeOK
  <2>2. breaker' \in [Services -> Breaker] /\ streak' \in [Services -> 0..FailureThreshold]
    BY <2>1, BreakerClosed, ThresholdAssumption DEF SuccessRecorded, TypeOK
  <2>3. gauge' \in [Services -> Gauge]
    BY <2>1, <2>2, EmittedType DEF SuccessRecorded, TypeOK, Breaker
  <2>4. QED
    BY <1>5, <2>1, <2>2, <2>3, Leaves DEF Leaving, PrimarySucceeds, TypeOK
<1>6. ASSUME NEW r \in Requests, PrimaryMalformed(r) PROVE TypeOK'
  <2> DEFINE s    == svc[r]
             good == RecordSuccess(breaker[s])
             bad  == RecordFailure(good)
  <2>1. ApplyStrategy(r, s) /\ s \in Services
    BY <1>6 DEF PrimaryMalformed, TypeOK
  <2>2. good \in Breaker /\ bad \in Breaker
    BY <2>1, BreakerClosed DEF TypeOK
  <2>3. breaker' \in [Services -> Breaker]
    BY <1>6, <2>1, <2>2 DEF PrimaryMalformed, TypeOK
  <2>4. streak' \in [Services -> 0..FailureThreshold]
    BY <1>6, <2>1, ThresholdAssumption DEF PrimaryMalformed, UpTo, TypeOK
  <2>5. gauge' \in [Services -> Gauge]
    <3>1. good.state \in CircuitState /\ bad.state \in CircuitState
          /\ breaker[s].state \in CircuitState
      BY <2>1, <2>2 DEF Breaker, TypeOK
    <3>2. PICK g \in Emitted(gauge, s, breaker[s].state, good.state) :
                 gauge' \in Emitted(g, s, good.state, bad.state)
      BY <1>6 DEF PrimaryMalformed
    <3> HIDE DEF s, good, bad
    <3>3. g \in [Services -> Gauge]
      BY <2>1, <3>1, <3>2, EmittedType DEF TypeOK
    <3>4. QED
      BY <2>1, <3>1, <3>2, <3>3, EmittedType
  <2>6. QED
    BY <1>6, <2>1, <2>3, <2>4, <2>5, Leaves DEF Leaving, PrimaryMalformed, TypeOK
<1>7. ASSUME NEW r \in Requests, PrimaryFails(r) PROVE TypeOK'
  <2>1. FailureRecorded(svc[r]) /\ ApplyStrategy(r, svc[r]) /\ svc[r] \in Services
    BY <1>7 DEF PrimaryFails, TypeOK
  <2>2. breaker' \in [Services -> Breaker] /\ streak' \in [Services -> 0..FailureThreshold]
    BY <2>1, BreakerClosed, ThresholdAssumption DEF FailureRecorded, UpTo, TypeOK
  <2>3. gauge' \in [Services -> Gauge]
    BY <2>1, <2>2, EmittedType DEF FailureRecorded, TypeOK, Breaker
  <2>4. QED
    BY <1>7, <2>1, <2>2, <2>3, Leaves DEF Leaving, PrimaryFails, TypeOK
<1>8. ASSUME NEW r \in Requests, FallbackAnswers(r) PROVE TypeOK'
  BY <1>8, BoundAssumption DEF FallbackAnswers, Ends, TypeOK
<1>9. ASSUME NEW r \in Requests, FallbackFails(r) PROVE TypeOK'
  BY <1>9, BoundAssumption DEF FallbackFails, Ends, TypeOK
<1>10. CASE Tick
  <2>1. breaker' \in [Services -> Breaker]
    BY <1>10, BreakerClosed DEF Tick, TypeOK
  <2>2. age' \in [Requests -> 0..CallBound]
    BY <1>10, BoundAssumption DEF Tick, TypeOK
  <2>3. QED
    BY <1>10, <2>1, <2>2 DEF Tick, TypeOK
<1>11. CASE Restart
  <2>1. 0 \in 0..CallBound /\ 0 \in 0..FailureThreshold
    BY BoundAssumption, ThresholdAssumption
  <2>2. NewBreaker \in Breaker
    BY ThresholdAssumption, TimeoutAssumption, MaxCallsAssumption
    DEF NewBreaker, Breaker
  <2>3. gauge' \in [Services -> Gauge]
    BY <1>11 DEF Restart, TypeOK, Gauge
  <2>4. QED
    BY <1>11, <2>1, <2>2, <2>3 DEF Restart, TypeOK
<1>12. ASSUME NEW t \in Targets, Break(t) \/ Heal(t) PROVE TypeOK'
  BY <1>12 DEF Break, Heal, TypeOK
<1>13. CASE UNCHANGED vars
  BY <1>13 DEF vars, TypeOK
<1>14. QED
  BY <1>1, <1>2, <1>3, <1>4, <1>5, <1>6, <1>7, <1>8, <1>9, <1>10, <1>11,
     <1>12, <1>13 DEF Next, Completes

\* The state of every component has its type (the attributes set in
\* circuit_breaker.py 57-60 and the locals of gateway_service.py's call).
THEOREM TypeCorrect == Spec => []TypeOK
<1>1. Init => TypeOK
  <2>1. 0 \in 0..CallBound /\ 0 \in 0..FailureThreshold
    BY BoundAssumption, ThresholdAssumption
  <2>2. NewBreaker \in Breaker
    BY ThresholdAssumption, TimeoutAssumption, MaxCallsAssumption
    DEF NewBreaker, Breaker
  <2>3. QED
    BY <2>1, <2>2 DEF Init, TypeOK, Gauge
<1>2. TypeOK /\ [Next]_vars => TypeOK'
  BY TypeStep
<1>3. QED
  BY <1>1, <1>2, PTL DEF Spec

-----------------------------------------------------------------------------
\* What a step does to the breakers and to the calls in flight.

SameCalls(s) ==
    /\ InFlight(s)' = InFlight(s)
    /\ \A q \in InFlight(s) : age'[q] = age[q] /\ admittedIn'[q] = admittedIn[q]

\* Nothing happens to the breakers or to the primary calls.
QuietStep == \A s \in Services : breaker'[s] = breaker[s] /\ SameCalls(s)

\* A call of service s ends and is recorded.
RecordStep(s) ==
    /\ breaker'[s].state # "half_open"
    /\ breaker'[s].state = "open" => breaker'[s].elapsed = 0
    /\ InFlight(s)' \subseteq InFlight(s)
    /\ \A t \in Services \ {s} : breaker'[t] = breaker[t] /\ SameCalls(t)

\* Request r is let through to service s.
AdmitStep(r, s) ==
    /\ CanCallCore(breaker[s])
    /\ breaker'[s] = AfterCanCall(breaker[s])
    /\ r \notin InFlight(s)
    /\ InFlight(s)' = InFlight(s) \cup {r}
    /\ admittedIn'[r] = breaker[s].state
    /\ \A q \in InFlight(s) : age'[q] = age[q] /\ admittedIn'[q] = admittedIn[q]
    /\ \A t \in Services \ {s} : breaker'[t] = breaker[t] /\ SameCalls(t)

TimeStep ==
    \A s \in Services :
        /\ breaker'[s] = Aged(breaker[s])
        /\ InFlight(s)' = InFlight(s)
        /\ \A q \in InFlight(s) : /\ age'[q] = age[q] + 1
                                  /\ admittedIn'[q] = admittedIn[q]

RestartStep == \A s \in Services : breaker'[s].state = "closed" /\ InFlight(s)' = {}

\* A request that leaves its call, or never made one, takes at most itself
\* out of the calls in flight.
LEMMA LeavesInFlight ==
    ASSUME TypeOK, NEW r \in Requests, NEW s \in Services, Leaving(r, s),
           \A q \in Requests \ {r} : svc'[q] = svc[q]
    PROVE  \A t \in Services : /\ InFlight(t)' \subseteq InFlight(t)
                               /\ r \notin InFlight(t) => SameCalls(t)
<1>1. /\ pc'[r] # "primary"
      /\ \A q \in Requests \ {r} : /\ pc'[q] = pc[q]
                                   /\ age'[q] = age[q]
                                   /\ admittedIn'[q] = admittedIn[q]
  BY Leaves
<1>2. QED
  BY <1>1 DEF InFlight, SameCalls

\* A request that is let through.
LEMMA AdmitShape ==
    ASSUME TypeOK, NEW r \in Requests, NEW s \in Services, Admit(r, s)
    PROVE  AdmitStep(r, s)
<1>1. /\ pc[r] = "idle" /\ CanCallCore(breaker[s])
      /\ breaker' = [breaker EXCEPT ![s] = AfterCanCall(breaker[s])]
      /\ pc' = [pc EXCEPT ![r] = "primary"]
      /\ svc' = [svc EXCEPT ![r] = s]
      /\ age' = [age EXCEPT ![r] = 0]
      /\ admittedIn' = [admittedIn EXCEPT ![r] = breaker[s].state]
  BY DEF Admit
<1>2. \A q \in Requests \ {r} : /\ pc'[q] = pc[q] /\ svc'[q] = svc[q]
                                /\ age'[q] = age[q]
                                /\ admittedIn'[q] = admittedIn[q]
  BY <1>1 DEF TypeOK
<1>3. pc'[r] = "primary" /\ svc'[r] = s /\ admittedIn'[r] = breaker[s].state
  BY <1>1 DEF TypeOK
<1>4. breaker'[s] = AfterCanCall(breaker[s])
      /\ \A t \in Services \ {s} : breaker'[t] = breaker[t]
  BY <1>1 DEF TypeOK
<1>5. \A t \in Services : r \notin InFlight(t)
  BY <1>1 DEF InFlight
<1>6. InFlight(s)' = InFlight(s) \cup {r}
  BY <1>2, <1>3 DEF InFlight
<1>7. \A t \in Services \ {s} : SameCalls(t)
  BY <1>2, <1>3, <1>5 DEF InFlight, SameCalls
<1>8. QED
  BY <1>1, <1>2, <1>3, <1>4, <1>5, <1>6, <1>7 DEF AdmitStep, InFlight

\* Every step has one of five shapes.
LEMMA StepShapes ==
    ASSUME TypeOK, [Next]_vars
    PROVE  \/ QuietStep
           \/ \E s \in Services : RecordStep(s)
           \/ \E r \in Requests, s \in Services : AdmitStep(r, s)
           \/ TimeStep
           \/ RestartStep
<1>1. ASSUME NEW r \in Requests, CallUnknown(r) PROVE QuietStep
  BY <1>1 DEF CallUnknown, Ends, TypeOK, QuietStep, SameCalls, InFlight
<1>2. ASSUME NEW r \in Requests, NEW s \in Services, Admit(r, s) PROVE AdmitStep(r, s)
  BY <1>2, AdmitShape
<1>3. ASSUME NEW r \in Requests, NEW s \in Services, Block(r, s) PROVE QuietStep
  <2>1. ApplyStrategy(r, s) /\ pc[r] = "idle" /\ breaker' = breaker
        /\ \A q \in Requests \ {r} : svc'[q] = svc[q]
    BY <1>3 DEF Block, TypeOK
  <2>2. \A t \in Services : r \notin InFlight(t)
    BY <2>1 DEF InFlight
  <2>3. Leaving(r, s)
    BY <2>1 DEF Leaving
  <2>4. \A t \in Services : SameCalls(t)
    BY <2>1, <2>2, <2>3, LeavesInFlight
  <2>5. QED
    BY <2>1, <2>4 DEF QuietStep
<1>4. ASSUME NEW r \in Requests, Connect(r) PROVE QuietStep
  BY <1>4 DEF Connect, QuietStep, SameCalls, InFlight
<1>5. ASSUME NEW r \in Requests, NEW b \in Breaker,
             pc[r] = "primary", svc' = svc,
             breaker' = [breaker EXCEPT ![svc[r]] = b],
             b.state # "half_open", b.state = "open" => b.elapsed = 0,
             Leaving(r, svc[r])
      PROVE  RecordStep(svc[r])
  <2>1. svc[r] \in Services
    BY DEF TypeOK
  <2>2. \A t \in Services \ {svc[r]} : r \notin InFlight(t)
    BY DEF InFlight
  <2>3. \A t \in Services : /\ InFlight(t)' \subseteq InFlight(t)
                            /\ r \notin InFlight(t) => SameCalls(t)
    BY <1>5, <2>1, LeavesInFlight
  <2>4. breaker'[svc[r]] = b /\ \A t \in Services \ {svc[r]} : breaker'[t] = breaker[t]
    BY <1>5, <2>1 DEF TypeOK
  <2>5. QED
    BY <1>5, <2>1, <2>2, <2>3, <2>4 DEF RecordStep
<1>6. ASSUME NEW r \in Requests, PrimarySucceeds(r) PROVE RecordStep(svc[r])
  <2>1. RecordSuccess(breaker[svc[r]]) \in Breaker
        /\ RecordSuccess(breaker[svc[r]]).state = "closed"
    BY BreakerClosed, RecordsLeaveHalfOpen DEF TypeOK
  <2>2. breaker' = [breaker EXCEPT ![svc[r]] = RecordSuccess(breaker[svc[r]])]
        /\ pc[r] = "primary" /\ svc' = svc /\ Leaving(r, svc[r])
    BY <1>6 DEF PrimarySucceeds, SuccessRecorded, Leaving, TypeOK
  <2>3. QED
    BY <1>5, <2>1, <2>2
<1>7. ASSUME NEW r \in Requests, PrimaryMalformed(r) PROVE RecordStep(svc[r])
  <2> DEFINE b == RecordFailure(RecordSuccess(breaker[svc[r]]))
  <2>1. b \in Breaker /\ b.state # "half_open" /\ b.elapsed = 0
    BY BreakerClosed, RecordsLeaveHalfOpen DEF TypeOK
  <2>2. breaker' = [breaker EXCEPT ![svc[r]] = b]
        /\ pc[r] = "primary" /\ svc' = svc /\ Leaving(r, svc[r])
    BY <1>7 DEF PrimaryMalformed, Leaving
  <2> HIDE DEF b
  <2>3. QED
    BY <1>5, <2>1, <2>2
<1>8. ASSUME NEW r \in Requests, PrimaryFails(r) PROVE RecordStep(svc[r])
  <2>1. RecordFailure(breaker[svc[r]]) \in Breaker
        /\ RecordFailure(breaker[svc[r]]).state # "half_open"
        /\ RecordFailure(breaker[svc[r]]).elapsed = 0
    BY BreakerClosed, RecordsLeaveHalfOpen DEF TypeOK
  <2>2. breaker' = [breaker EXCEPT ![svc[r]] = RecordFailure(breaker[svc[r]])]
        /\ pc[r] = "primary" /\ svc' = svc /\ Leaving(r, svc[r])
    BY <1>8 DEF PrimaryFails, FailureRecorded, Leaving
  <2>3. QED
    BY <1>5, <2>1, <2>2
<1>9. ASSUME NEW r \in Requests, FallbackAnswers(r) \/ FallbackFails(r) PROVE QuietStep
  <2>1. pc[r] = "fallback" /\ breaker' = breaker /\ svc' = svc
        /\ (Ends(r, refused \ {r}) \/ Ends(r, refused \cup {r}))
    BY <1>9 DEF FallbackAnswers, FallbackFails
  <2>2. svc[r] \in Services /\ \A t \in Services : r \notin InFlight(t)
    BY <2>1 DEF InFlight, TypeOK
  <2>3. Leaving(r, svc[r])
    <3>1. refused \ {r} \in SUBSET Requests /\ refused \cup {r} \in SUBSET Requests
      BY DEF TypeOK
    <3>2. QED
      BY <2>1, <3>1 DEF Leaving
  <2>4. \A q \in Requests \ {r} : svc'[q] = svc[q]
    BY <2>1
  <2>5. \A t \in Services : SameCalls(t)
    BY <2>1, <2>2, <2>3, <2>4, LeavesInFlight
  <2>6. QED
    BY <2>1, <2>5 DEF QuietStep
<1>10. CASE Tick
  <2>1. TimeStep
    BY <1>10 DEF Tick, TimeStep, InFlight, TypeOK
  <2>2. QED
    BY <2>1
<1>11. CASE Restart
  <2>1. RestartStep
    BY <1>11 DEF Restart, RestartStep, InFlight, NewBreaker
  <2>2. QED
    BY <2>1
<1>12. ASSUME NEW t \in Targets, Break(t) \/ Heal(t) PROVE QuietStep
  BY <1>12 DEF Break, Heal, QuietStep, SameCalls, InFlight
<1>13. ASSUME UNCHANGED vars PROVE QuietStep
  BY <1>13 DEF vars, QuietStep, SameCalls, InFlight
<1>14. ASSUME NEW r \in Requests PROVE svc[r] \in Services
  BY DEF TypeOK
<1>15. QED
  BY <1>1, <1>2, <1>3, <1>4, <1>6, <1>7, <1>8, <1>9, <1>10, <1>11, <1>12,
     <1>13, <1>14 DEF Next, Completes

-----------------------------------------------------------------------------
\* The probing phase.

LEMMA HasProbeStep ==
    ASSUME TypeOK, HalfOpenHasProbe, [Next]_vars
    PROVE  HalfOpenHasProbe'
<1>1. CASE QuietStep
  BY <1>1 DEF QuietStep, SameCalls, HalfOpenHasProbe
<1>2. ASSUME NEW s \in Services, RecordStep(s) PROVE HalfOpenHasProbe'
  BY <1>2 DEF RecordStep, SameCalls, HalfOpenHasProbe
<1>3. ASSUME NEW r \in Requests, NEW s \in Services, AdmitStep(r, s)
      PROVE  HalfOpenHasProbe'
  <2>1. breaker[s] \in Breaker
    BY DEF TypeOK
  <2>2. CASE breaker[s].state = "closed" /\ AfterCanCall(breaker[s]) = breaker[s]
    BY <1>3, <2>2 DEF AdmitStep, SameCalls, HalfOpenHasProbe
  <2>3. CASE breaker[s].state = "open"
    BY <1>3, <2>3 DEF AdmitStep, SameCalls, HalfOpenHasProbe
  <2>4. CASE breaker[s].state = "half_open"
    BY <1>3, <2>4 DEF AdmitStep, SameCalls, HalfOpenHasProbe
  <2>5. QED
    BY <1>3, <2>1, <2>2, <2>3, <2>4, AdmissionCases DEF AdmitStep
<1>4. CASE TimeStep
  BY <1>4, AgedFields DEF TimeStep, HalfOpenHasProbe, TypeOK
<1>5. CASE RestartStep
  BY <1>5 DEF RestartStep, HalfOpenHasProbe
<1>6. QED
  BY <1>1, <1>2, <1>3, <1>4, <1>5, StepShapes

\* HALF_OPEN always has the call in flight whose end leaves it, for any
\* thresholds and timeouts (circuit_breaker.py 90-110: no timer does).
THEOREM ProbeInFlight == Spec => []HalfOpenHasProbe
<1>1. Init => HalfOpenHasProbe
  BY DEF Init, NewBreaker, HalfOpenHasProbe
<1>2. TypeOK /\ HalfOpenHasProbe /\ [Next]_vars => HalfOpenHasProbe'
  BY HasProbeStep
<1>3. QED
  BY <1>1, <1>2, TypeCorrect, PTL DEF Spec

LEMMA OldCallsStep ==
    ASSUME TypeOK, TypeOK', OldCallsOnly, [Next]_vars
    PROVE  OldCallsOnly'
<1>1. CASE QuietStep
  BY <1>1 DEF QuietStep, SameCalls, OldCallsOnly
<1>2. ASSUME NEW s \in Services, RecordStep(s) PROVE OldCallsOnly'
  <2>1. \A q \in Requests : age'[q] >= 0
    BY BoundAssumption DEF TypeOK
  <2>2. QED
    BY <1>2, <2>1 DEF RecordStep, SameCalls, OldCallsOnly, InFlight
<1>3. ASSUME NEW r \in Requests, NEW s \in Services, AdmitStep(r, s)
      PROVE  OldCallsOnly'
  <2>1. breaker'[s].state # "open"
    BY <1>3, AdmissionCases DEF AdmitStep, TypeOK
  <2>2. QED
    BY <1>3, <2>1 DEF AdmitStep, SameCalls, OldCallsOnly
<1>4. CASE TimeStep
  <2> SUFFICES ASSUME NEW s \in Services, breaker'[s].state = "open",
                      NEW q \in InFlight(s)'
               PROVE  age'[q] >= breaker'[s].elapsed
    BY DEF OldCallsOnly
  <2>1. /\ breaker[s] \in Breaker /\ breaker[s].elapsed \in Nat
        /\ breaker'[s] = Aged(breaker[s])
        /\ q \in InFlight(s) /\ age'[q] = age[q] + 1 /\ age[q] \in Nat
    BY <1>4, BoundAssumption, TimeoutAssumption DEF TimeStep, TypeOK, Breaker, InFlight
  <2>2. age[q] >= breaker[s].elapsed
    BY <2>1, AgedFields DEF OldCallsOnly
  <2>3. QED
    BY <2>1, <2>2, AgedFields
<1>5. CASE RestartStep
  BY <1>5 DEF RestartStep, OldCallsOnly
<1>6. QED
  BY <1>1, <1>2, <1>3, <1>4, <1>5, StepShapes

\* While OPEN the calls in flight are at least as old as the last failure.
THEOREM OldCalls == Spec => []OldCallsOnly
<1>1. Init => OldCallsOnly
  BY DEF Init, NewBreaker, OldCallsOnly
<1>2. TypeOK /\ TypeOK' /\ OldCallsOnly /\ [Next]_vars => OldCallsOnly'
  BY OldCallsStep
<1>3. QED
  BY <1>1, <1>2, TypeCorrect, PTL DEF Spec

\* The inductive part of HalfOpenOnlyProbes.
ProbesCounted ==
    \A s \in Services : breaker[s].state = "half_open" =>
        /\ \A r \in InFlight(s) : admittedIn[r] # "closed"
        /\ Cardinality(InFlight(s)) = breaker[s].halfOpenCalls + 1

LEMMA OnlyProbesStep ==
    ASSUME CallBound < RecoveryTimeout,
           TypeOK, OldCallsOnly, ProbesCounted, [Next]_vars
    PROVE  ProbesCounted'
<1>1. CASE QuietStep
  BY <1>1 DEF QuietStep, SameCalls, ProbesCounted
<1>2. ASSUME NEW s \in Services, RecordStep(s) PROVE ProbesCounted'
  BY <1>2 DEF RecordStep, SameCalls, ProbesCounted
<1>3. ASSUME NEW r \in Requests, NEW s \in Services, AdmitStep(r, s)
      PROVE  ProbesCounted'
  <2>1. \A t \in Services \ {s} : breaker'[t] = breaker[t] /\ SameCalls(t)
    BY <1>3 DEF AdmitStep
  <2>2. ASSUME breaker'[s].state = "half_open"
        PROVE  /\ \A q \in InFlight(s)' : admittedIn'[q] # "closed"
               /\ Cardinality(InFlight(s)') = breaker'[s].halfOpenCalls + 1
    <3>1. breaker[s] \in Breaker /\ breaker'[s] = AfterCanCall(breaker[s])
          /\ CanCallCore(breaker[s]) /\ r \notin InFlight(s)
          /\ InFlight(s)' = InFlight(s) \cup {r}
          /\ admittedIn'[r] = breaker[s].state
      BY <1>3 DEF AdmitStep, TypeOK
    <3>2. CASE breaker[s].state = "open" /\ breaker[s].elapsed = RecoveryTimeout
               /\ breaker'[s].halfOpenCalls = 0
      <4>1. InFlight(s) = {}
        <5> SUFFICES ASSUME NEW q \in InFlight(s) PROVE FALSE
          OBVIOUS
        <5>1. age[q] \in 0..CallBound /\ age[q] >= RecoveryTimeout
          BY <3>2 DEF OldCallsOnly, TypeOK, InFlight
        <5>2. QED
          BY <5>1, BoundAssumption, TimeoutAssumption
      <4>2. InFlight(s)' = {r}
        BY <3>1, <4>1
      <4>3. Cardinality(InFlight(s)') = 1
        BY <4>2, FS_Singleton
      <4>4. \A q \in InFlight(s)' : admittedIn'[q] # "closed"
        BY <3>1, <3>2, <4>2
      <4>5. QED
        BY <3>2, <4>3, <4>4
    <3>3. CASE breaker[s].state = "half_open"
               /\ breaker'[s].halfOpenCalls = breaker[s].halfOpenCalls + 1
      <4>1. IsFiniteSet(InFlight(s))
        BY RequestsAssumption, FS_Subset DEF InFlight
      <4>2. Cardinality(InFlight(s) \cup {r}) = Cardinality(InFlight(s)) + 1
        BY <3>1, <4>1, FS_AddElement
      <4>3. Cardinality(InFlight(s)) = breaker[s].halfOpenCalls + 1
            /\ \A q \in InFlight(s) : admittedIn[q] # "closed"
        BY <3>3 DEF ProbesCounted
      <4>4. \A q \in InFlight(s) : admittedIn'[q] = admittedIn[q]
        BY <1>3 DEF AdmitStep
      <4>5. Cardinality(InFlight(s)') = breaker'[s].halfOpenCalls + 1
        BY <3>1, <3>3, <4>2, <4>3
      <4>6. \A q \in InFlight(s)' : admittedIn'[q] # "closed"
        BY <3>1, <3>3, <4>3, <4>4
      <4>7. QED
        BY <4>5, <4>6
    <3>4. QED
      BY <2>2, <3>1, <3>2, <3>3, AdmissionCases
  <2>3. QED
    BY <2>1, <2>2 DEF ProbesCounted, SameCalls
<1>4. CASE TimeStep
  BY <1>4, AgedFields DEF TimeStep, ProbesCounted, TypeOK
<1>5. CASE RestartStep
  BY <1>5 DEF RestartStep, ProbesCounted
<1>6. QED
  BY <1>1, <1>2, <1>3, <1>4, <1>5, StepShapes

\* Provided the cooldown outlasts every call, only probes are in flight in
\* HALF_OPEN, one more than the breaker counts, and a further one is let
\* through while no more than half_open_max_calls are.
THEOREM OnlyProbes ==
    ASSUME CallBound < RecoveryTimeout
    PROVE  Spec => []HalfOpenOnlyProbes
<1>1. Init => ProbesCounted
  BY DEF Init, NewBreaker, ProbesCounted
<1>2. TypeOK /\ OldCallsOnly /\ ProbesCounted /\ [Next]_vars => ProbesCounted'
  BY OnlyProbesStep
<1>3. TypeOK /\ ProbesCounted => HalfOpenOnlyProbes
  <2> SUFFICES ASSUME TypeOK, ProbesCounted, NEW s \in Services,
                      breaker[s].state = "half_open"
               PROVE  CanCallCore(breaker[s]) <=> Cardinality(InFlight(s)) <= HalfOpenMaxCalls
    BY DEF ProbesCounted, HalfOpenOnlyProbes
  <2>1. breaker[s].halfOpenCalls \in Nat
        /\ Cardinality(InFlight(s)) = breaker[s].halfOpenCalls + 1
    BY MaxCallsAssumption DEF ProbesCounted, TypeOK, Breaker
  <2>2. CanCallCore(breaker[s]) <=> breaker[s].halfOpenCalls < HalfOpenMaxCalls
    BY DEF CanCallCore, CooldownOver, ProbeLeft
  <2>3. QED
    BY <2>1, <2>2, MaxCallsAssumption
<1>4. QED
  BY <1>1, <1>2, <1>3, TypeCorrect, OldCalls, PTL DEF Spec

-----------------------------------------------------------------------------
\* The cooldown as seen by the service, and the counters.

\* While the cooldown runs, no step lets a call through to the service.
THEOREM CooldownHolds == Spec => OpenAdmitsNothing
<1> DEFINE Spared == \A s \in Services :
                       (breaker[s].state = "open" /\ breaker[s].elapsed < RecoveryTimeout)
                         => InFlight(s)' \subseteq InFlight(s)
<1>1. TypeOK /\ [Next]_vars => Spared
  <2> SUFFICES ASSUME TypeOK, [Next]_vars, NEW s \in Services,
                      breaker[s].state = "open", breaker[s].elapsed < RecoveryTimeout
               PROVE  InFlight(s)' \subseteq InFlight(s)
    OBVIOUS
  <2>1. CASE QuietStep
    BY <2>1 DEF QuietStep, SameCalls
  <2>2. ASSUME NEW t \in Services, RecordStep(t) PROVE InFlight(s)' \subseteq InFlight(s)
    BY <2>2 DEF RecordStep, SameCalls
  <2>3. ASSUME NEW r \in Requests, NEW t \in Services, AdmitStep(r, t)
        PROVE  InFlight(s)' \subseteq InFlight(s)
    <3>1. breaker[s].elapsed \in Nat
      BY TimeoutAssumption DEF TypeOK, Breaker
    <3>2. s # t
      BY <2>3, <3>1, TimeoutAssumption
      DEF AdmitStep, CanCallCore, CooldownOver, ProbeLeft
    <3>3. QED
      BY <2>3, <3>2 DEF AdmitStep, SameCalls
  <2>4. CASE TimeStep
    BY <2>4 DEF TimeStep
  <2>5. CASE RestartStep
    BY <2>5 DEF RestartStep
  <2>6. QED
    BY <2>1, <2>2, <2>3, <2>4, <2>5, StepShapes
<1>2. QED
  BY <1>1, TypeCorrect, PTL DEF Spec, OpenAdmitsNothing

\* The counter of the breaker is the streak, and decides between closed and
\* the two other states, unless a success may be followed by a failure of the
\* same call.
CountsAgree ==
    \A s \in Services \ NonObject :
        /\ streak[s] = breaker[s].failureCount
        /\ breaker[s].state = "closed" <=> breaker[s].failureCount < FailureThreshold

\* What the three methods do to the counter.
LEMMA Counting ==
    ASSUME NEW b \in Breaker,
           b.state = "closed" <=> b.failureCount < FailureThreshold
    PROVE  /\ RecordSuccess(b).failureCount = 0
           /\ RecordSuccess(b).state = "closed"
           /\ RecordFailure(b).failureCount = UpTo(FailureThreshold, b.failureCount + 1)
           /\ RecordFailure(b).state = "closed"
                <=> RecordFailure(b).failureCount < FailureThreshold
           /\ AfterCanCall(b).failureCount = b.failureCount
           /\ AfterCanCall(b).state = "closed" <=> b.state = "closed"
<1>1. RecordSuccess(b).failureCount = 0 /\ RecordSuccess(b).state = "closed"
  BY DEF RecordSuccess, Breaker
<1>2. RecordFailure(b).failureCount = UpTo(FailureThreshold, b.failureCount + 1)
  BY DEF RecordFailure, Breaker
<1>3. RecordFailure(b).state = "closed" <=> RecordFailure(b).failureCount < FailureThreshold
  <2>1. RecordFailure(b).state =
          IF b.state = "half_open"
             \/ UpTo(FailureThreshold, b.failureCount + 1) >= FailureThreshold
          THEN "open" ELSE b.state
    BY DEF RecordFailure, Breaker
  <2>2. b.failureCount \in 0..FailureThreshold
    BY DEF Breaker
  <2>3. QED
    BY <1>2, <2>1, <2>2, ThresholdAssumption DEF UpTo
<1>4. AfterCanCall(b).failureCount = b.failureCount
      /\ (AfterCanCall(b).state = "closed" <=> b.state = "closed")
  BY DEF AfterCanCall, CooldownOver, ProbeLeft, Breaker
<1>5. QED
  BY <1>1, <1>2, <1>3, <1>4

LEMMA CountsStep ==
    ASSUME TypeOK, CountsAgree, [Next]_vars
    PROVE  CountsAgree'
<1>1. ASSUME breaker' = breaker, streak' = streak PROVE CountsAgree'
  BY <1>1 DEF CountsAgree
<1>2. ASSUME NEW s \in Services, NEW b, NEW n,
             breaker' = [breaker EXCEPT ![s] = b],
             streak' = [streak EXCEPT ![s] = n],
             s \notin NonObject => /\ n = b.failureCount
                                   /\ b.state = "closed" <=> b.failureCount < FailureThreshold
      PROVE  CountsAgree'
  BY <1>2 DEF CountsAgree, TypeOK
<1>3. ASSUME NEW s \in Services
      PROVE  /\ breaker[s] \in Breaker
             /\ s \notin NonObject =>
                  /\ streak[s] = breaker[s].failureCount
                  /\ breaker[s].state = "closed" <=> breaker[s].failureCount < FailureThreshold
  BY DEF TypeOK, CountsAgree
<1>4. ASSUME NEW r \in Requests, NEW s \in Services, Admit(r, s) PROVE CountsAgree'
  <2>1. /\ breaker' = [breaker EXCEPT ![s] = AfterCanCall(breaker[s])]
        /\ streak' = [streak EXCEPT ![s] = streak[s]]
    BY <1>4 DEF Admit, TypeOK
  <2>2. s \notin NonObject =>
          /\ streak[s] = AfterCanCall(breaker[s]).failureCount
          /\ AfterCanCall(breaker[s]).state = "closed"
               <=> AfterCanCall(breaker[s]).failureCount < FailureThreshold
    BY <1>3, Counting
  <2>3. QED
    BY <1>2, <2>1, <2>2
<1>5. ASSUME NEW s \in Services, SuccessRecorded(s) PROVE CountsAgree'
  <2>1. s \notin NonObject => /\ RecordSuccess(breaker[s]).failureCount = 0
                              /\ RecordSuccess(breaker[s]).state = "closed"
    BY <1>3, Counting
  <2>2. 0 < FailureThreshold
    BY ThresholdAssumption
  <2>3. QED
    BY <1>2, <1>5, <2>1, <2>2 DEF SuccessRecorded
<1>6. ASSUME NEW s \in Services, FailureRecorded(s) PROVE CountsAgree'
  <2>1. s \notin NonObject =>
          /\ RecordFailure(breaker[s]).failureCount = UpTo(FailureThreshold, streak[s] + 1)
          /\ RecordFailure(breaker[s]).state = "closed"
               <=> RecordFailure(breaker[s]).failureCount < FailureThreshold
    BY <1>3, Counting
  <2>2. QED
    BY <1>2, <1>6, <2>1 DEF FailureRecorded
<1>7. ASSUME NEW r \in Requests, PrimaryMalformed(r) PROVE CountsAgree'
  <2>1. svc[r] \in Services /\ svc[r] \in NonObject
    BY <1>7 DEF TypeOK, PrimaryMalformed
  <2>2. \A s \in Services \ NonObject : breaker'[s] = breaker[s] /\ streak'[s] = streak[s]
    BY <1>7, <2>1 DEF PrimaryMalformed, TypeOK
  <2>3. QED
    BY <2>2 DEF CountsAgree
<1>8. CASE Tick
  BY <1>8, AgedFields DEF Tick, CountsAgree, TypeOK
<1>9. CASE Restart
  BY <1>9, ThresholdAssumption DEF Restart, NewBreaker, CountsAgree
<1>10. ASSUME NEW r \in Requests, Completes(r) PROVE CountsAgree'
  <2>1. svc[r] \in Services
    BY DEF TypeOK
  <2>2. QED
    BY <1>1, <1>5, <1>6, <1>7, <1>10, <2>1
    DEF Completes, Connect, PrimarySucceeds, PrimaryFails, FallbackAnswers, FallbackFails
<1>11. QED
  BY <1>1, <1>4, <1>8, <1>9, <1>10 DEF Next, CallUnknown, Block, Break, Heal, vars

\* The breaker of a service whose every 200 carries an object is closed
\* exactly while fewer than FailureThreshold calls in a row have failed.
THEOREM StreakDecides == Spec => []StreakTrips
<1>1. Init => CountsAgree
  BY ThresholdAssumption DEF Init, NewBreaker, CountsAgree
<1>2. TypeOK /\ CountsAgree /\ [Next]_vars => CountsAgree'
  BY CountsStep
<1>3. CountsAgree => StreakTrips
  BY DEF CountsAgree, StreakTrips
<1>4. QED
  BY <1>1, <1>2, <1>3, TypeCorrect, PTL DEF Spec

-----------------------------------------------------------------------------
\* The metric.

LEMMA GaugeStep ==
    ASSUME TypeOK, GaugeIsCurrent, [Next]_vars
    PROVE  GaugeIsCurrent'
<1>1. ASSUME breaker' = breaker, gauge' = gauge PROVE GaugeIsCurrent'
  BY <1>1 DEF GaugeIsCurrent
<1>2. ASSUME NEW g \in [Services -> Gauge], NEW s \in Services,
             NEW before \in CircuitState, NEW after \in CircuitState,
             NEW h \in Emitted(g, s, before, after),
             ~g[s].stale => before = IF g[s].value = "none" THEN "closed" ELSE g[s].value
      PROVE  /\ ~h[s].stale => after = IF h[s].value = "none" THEN "closed" ELSE h[s].value
             /\ \A t \in Services \ {s} : h[t] = g[t]
  BY <1>2 DEF Emitted, Sent, Lost, Gauge
<1>3. ASSUME NEW s \in Services, NEW b \in Breaker,
             breaker' = [breaker EXCEPT ![s] = b],
             gauge' \in Emitted(gauge, s, breaker[s].state, b.state)
      PROVE  GaugeIsCurrent'
  <2>1. b.state \in CircuitState /\ breaker[s].state \in CircuitState
    BY DEF Breaker, TypeOK
  <2>2. ~gauge[s].stale =>
          breaker[s].state = IF gauge[s].value = "none" THEN "closed" ELSE gauge[s].value
    BY DEF GaugeIsCurrent
  <2>3. /\ ~gauge'[s].stale =>
             b.state = IF gauge'[s].value = "none" THEN "closed" ELSE gauge'[s].value
        /\ \A t \in Services \ {s} : gauge'[t] = gauge[t]
    BY <1>2, <1>3, <2>1, <2>2 DEF TypeOK
  <2>4. breaker'[s] = b /\ \A t \in Services \ {s} : breaker'[t] = breaker[t]
    BY <1>3 DEF TypeOK
  <2>5. QED
    BY <2>3, <2>4 DEF GaugeIsCurrent
<1>4. ASSUME NEW s \in Services, NEW b \in Breaker,
             breaker' = [breaker EXCEPT ![s] = b],
             gauge' \in Emitted(gauge, s, breaker[s].state, breaker'[s].state)
      PROVE  GaugeIsCurrent'
  BY <1>3, <1>4 DEF TypeOK
<1>5. ASSUME NEW s \in Services
      PROVE  /\ AfterCanCall(breaker[s]) \in Breaker
             /\ RecordSuccess(breaker[s]) \in Breaker
             /\ RecordFailure(breaker[s]) \in Breaker
  BY BreakerClosed DEF TypeOK
<1>6. ASSUME NEW s \in Services,
             \/ \E r \in Requests : Admit(r, s)
             \/ SuccessRecorded(s)
             \/ FailureRecorded(s)
      PROVE  GaugeIsCurrent'
  BY <1>4, <1>5, <1>6 DEF Admit, SuccessRecorded, FailureRecorded
<1>7. ASSUME NEW r \in Requests, PrimaryMalformed(r) PROVE GaugeIsCurrent'
  <2> DEFINE s    == svc[r]
             good == RecordSuccess(breaker[s])
             bad  == RecordFailure(good)
  <2>1. s \in Services
    BY DEF TypeOK
  <2>2. good \in Breaker /\ bad \in Breaker
    BY <2>1, BreakerClosed DEF TypeOK
  <2>3. good.state \in CircuitState /\ bad.state \in CircuitState
        /\ breaker[s].state \in CircuitState
    BY <2>1, <2>2 DEF Breaker, TypeOK
  <2>4. breaker' = [breaker EXCEPT ![s] = bad]
    BY <1>7 DEF PrimaryMalformed
  <2>5. PICK g \in Emitted(gauge, s, breaker[s].state, good.state) :
               gauge' \in Emitted(g, s, good.state, bad.state)
    BY <1>7 DEF PrimaryMalformed
  <2> HIDE DEF s, good, bad
  <2>6. g \in [Services -> Gauge]
    BY <2>1, <2>3, <2>5, EmittedType DEF TypeOK
  <2>7. ~gauge[s].stale =>
          breaker[s].state = IF gauge[s].value = "none" THEN "closed" ELSE gauge[s].value
    BY <2>1 DEF GaugeIsCurrent
  <2>8. /\ ~g[s].stale => good.state = IF g[s].value = "none" THEN "closed" ELSE g[s].value
        /\ \A t \in Services \ {s} : g[t] = gauge[t]
    BY <1>2, <2>1, <2>3, <2>5, <2>7 DEF TypeOK
  <2>9. /\ ~gauge'[s].stale =>
             bad.state = IF gauge'[s].value = "none" THEN "closed" ELSE gauge'[s].value
        /\ \A t \in Services \ {s} : gauge'[t] = g[t]
    BY <1>2, <2>1, <2>3, <2>5, <2>6, <2>8
  <2>10. breaker'[s] = bad /\ \A t \in Services \ {s} : breaker'[t] = breaker[t]
    BY <2>1, <2>4 DEF TypeOK
  <2>11. QED
    BY <2>1, <2>8, <2>9, <2>10 DEF GaugeIsCurrent
<1>8. CASE Tick
  BY <1>8, AgedFields DEF Tick, GaugeIsCurrent, TypeOK
<1>9. CASE Restart
  BY <1>9 DEF Restart, NewBreaker, GaugeIsCurrent, TypeOK, Gauge
<1>10. ASSUME NEW r \in Requests, Completes(r) PROVE GaugeIsCurrent'
  <2>1. svc[r] \in Services
    BY DEF TypeOK
  <2>2. QED
    BY <1>1, <1>6, <1>7, <1>10, <2>1
    DEF Completes, Connect, PrimarySucceeds, PrimaryFails, FallbackAnswers, FallbackFails
<1>11. QED
  BY <1>1, <1>6, <1>8, <1>9, <1>10 DEF Next, CallUnknown, Block, Break, Heal, vars

\* CloudWatch holds the state of the breaker unless its datapoint was lost or
\* a restart forgot the state that was sent.
THEOREM GaugeCorrect == Spec => []GaugeIsCurrent
<1>1. Init => GaugeIsCurrent
  BY DEF Init, NewBreaker, GaugeIsCurrent
<1>2. TypeOK /\ GaugeIsCurrent /\ [Next]_vars => GaugeIsCurrent'
  BY GaugeStep
<1>3. QED
  BY <1>1, <1>2, TypeCorrect, PTL DEF Spec

-----------------------------------------------------------------------------
\* Services that do not fail, and the fallback.

StaysUp == AlwaysUp \cap Targets \subseteq up

LEMMA StaysUpStep ==
    ASSUME StaysUp, [Next]_vars
    PROVE  StaysUp'
  BY DEF StaysUp, Next, Completes, CallUnknown, Admit, Block, Connect, PrimarySucceeds,
         PrimaryMalformed, PrimaryFails, FallbackAnswers, FallbackFails, Tick, Restart,
         Break, Heal, vars

\* A step charges a failure to the breaker of s, or opens it.
Charged(s) ==
    \/ breaker'[s].failureCount > breaker[s].failureCount
    \/ breaker'[s].state = "open" /\ breaker[s].state # "open"

\* What the operations other than record_failure do is no charge.
LEMMA NoCharge ==
    ASSUME TypeOK, NEW s \in Services,
           \/ breaker'[s] = breaker[s]
           \/ CanCallCore(breaker[s]) /\ breaker'[s] = AfterCanCall(breaker[s])
           \/ breaker'[s] = RecordSuccess(breaker[s])
           \/ breaker'[s] = Aged(breaker[s])
           \/ breaker'[s] = NewBreaker
    PROVE  ~Charged(s)
<1> DEFINE b == breaker[s]
<1>1. b \in Breaker /\ b.failureCount \in Nat
  BY ThresholdAssumption DEF TypeOK, Breaker
<1>2. /\ AfterCanCall(b).failureCount = b.failureCount
      /\ AfterCanCall(b).state = "open" => b.state = "open"
  BY <1>1 DEF AfterCanCall, CooldownOver, ProbeLeft, Breaker
<1>3. RecordSuccess(b).failureCount = 0 /\ RecordSuccess(b).state = "closed"
  BY <1>1 DEF RecordSuccess, Breaker
<1>4. Aged(b).failureCount = b.failureCount /\ Aged(b).state = b.state
  BY <1>1, AgedFields
<1>5. NewBreaker.failureCount = 0 /\ NewBreaker.state = "closed"
  BY DEF NewBreaker
<1>6. breaker'[s].failureCount <= b.failureCount
      /\ (breaker'[s].state = "open" => b.state = "open")
  <2> DEFINE c == breaker'[s]
  <2>1. c = b \/ c = AfterCanCall(b) \/ c = RecordSuccess(b) \/ c = Aged(b) \/ c = NewBreaker
    OBVIOUS
  <2>2. c.failureCount = b.failureCount \/ c.failureCount = 0
    BY <1>2, <1>3, <1>4, <1>5, <2>1
  <2>3. c.state = "open" => b.state = "open"
    BY <1>2, <1>3, <1>4, <1>5, <2>1
  <2> HIDE DEF b, c
  <2>4. QED
    BY <1>1, <2>2, <2>3 DEF c
<1>7. QED
  <2> DEFINE n == breaker'[s].failureCount
  <2>1. n <= b.failureCount /\ (n = b.failureCount \/ n = 0)
    BY <1>2, <1>3, <1>4, <1>5, <1>6
  <2> HIDE DEF n
  <2>2. ~(n > breaker[s].failureCount)
    BY <1>1, <2>1
  <2>3. QED
    BY <1>6, <2>2 DEF Charged, n

\* Whatever happens to the other services, a breaker of a service that is
\* always up is charged with a failure only for one of its own calls that got
\* no connection, for any size of the pool that all services share
\* (generic_client.py's client; one breaker per service).
THEOREM HealthyBreakers == Spec => HealthyFailsStarved
<1> DEFINE OwnStarved == \A s \in Healthy : Charged(s) =>
                           \E r \in InFlight(s) : Starved(r) /\ pc'[r] # "primary"
<1>1. TypeOK /\ StaysUp /\ [Next]_vars => OwnStarved
  <2> SUFFICES ASSUME TypeOK, StaysUp, [Next]_vars, NEW s \in Healthy, Charged(s)
               PROVE  \E r \in InFlight(s) : Starved(r) /\ pc'[r] # "primary"
    OBVIOUS
  <2>1. s \in Services /\ s \notin NonObject /\ s \in up
    BY DEF Healthy, StaysUp, Targets
  <2>2. breaker'[s] # breaker[s]
    BY <2>1, NoCharge
  <2>3. ASSUME NEW r \in Requests, PrimaryFails(r)
        PROVE  \E q \in InFlight(s) : Starved(q) /\ pc'[q] # "primary"
    <3>1. /\ pc[r] = "primary" /\ CallRaises(r, svc[r]) /\ svc[r] \in Services
          /\ breaker' = [breaker EXCEPT ![svc[r]] = RecordFailure(breaker[svc[r]])]
          /\ ApplyStrategy(r, svc[r])
      BY <2>3 DEF PrimaryFails, FailureRecorded, TypeOK
    <3>2. svc[r] = s
      BY <2>1, <2>2, <3>1 DEF TypeOK
    <3>3. Starved(r) /\ r \in InFlight(s)
      BY <2>1, <3>1, <3>2 DEF CallRaises, InFlight
    <3>4. pc'[r] # "primary"
      BY <3>1, Leaves DEF Leaving
    <3>5. QED
      BY <3>3, <3>4
  <2>4. ASSUME NEW r \in Requests, NEW t \in Services, Admit(r, t) PROVE FALSE
    BY <2>1, <2>2, <2>4, NoCharge DEF Admit, TypeOK
  <2>5. ASSUME NEW r \in Requests, PrimarySucceeds(r) PROVE FALSE
    BY <2>1, <2>2, <2>5, NoCharge DEF PrimarySucceeds, SuccessRecorded, TypeOK
  <2>6. ASSUME NEW r \in Requests, PrimaryMalformed(r) PROVE FALSE
    BY <2>1, <2>2, <2>6 DEF PrimaryMalformed, TypeOK
  <2>7. ~Tick /\ ~Restart
    BY <2>1, NoCharge DEF Tick, Restart
  <2>8. ASSUME breaker' = breaker PROVE FALSE
    BY <2>2, <2>8
  <2>9. QED
    BY <2>3, <2>4, <2>5, <2>6, <2>7, <2>8
    DEF Next, Completes, CallUnknown, Block, Connect, FallbackAnswers, FallbackFails,
        Break, Heal, vars
<1>2. Init => StaysUp
  BY DEF Init, StaysUp
<1>3. StaysUp /\ [Next]_vars => StaysUp'
  BY StaysUpStep
<1>4. OwnStarved => \A s \in Healthy :
                      \/ breaker'[s].failureCount > breaker[s].failureCount
                      \/ breaker'[s].state = "open" /\ breaker[s].state # "open"
                      => \E r \in InFlight(s) : Starved(r) /\ pc'[r] # "primary"
  BY DEF Charged
<1> HIDE DEF OwnStarved
<1>5. QED
  BY <1>1, <1>2, <1>3, <1>4, TypeCorrect, PTL DEF Spec, HealthyFailsStarved

\* A request of a service with the strategy fallback ends in a 503 only when
\* its call to fallback-service has failed too, and only such requests make
\* that call (gateway_service.py's _apply_strategy), for any pool and whatever
\* is down.
THEOREM FallbackHolds == Spec => FallbackTried
<1> DEFINE Escalating == \A r \in Requests : pc[r] = "fallback" => Strategy[svc[r]] = "fallback"
           Tried(r) == /\ (r \in refused' \ refused /\ Strategy[svc'[r]] = "fallback")
                            => pc[r] = "fallback" /\ CallRaises(r, Fallback)
                       /\ pc'[r] = "fallback" => Strategy[svc'[r]] = "fallback"
<1>1. Init => Escalating
  BY DEF Init
<1>2. TypeOK /\ Escalating /\ [Next]_vars => \A r \in Requests : Tried(r)
  <2> SUFFICES ASSUME TypeOK, Escalating, [Next]_vars, NEW r \in Requests
               PROVE  Tried(r)
    OBVIOUS
  <2>1. ASSUME pc'[r] = pc[r], svc'[r] = svc[r], r \in refused' => r \in refused
        PROVE  Tried(r)
    BY <2>1
  <2>2. ASSUME pc'[r] # "fallback", r \notin refused' PROVE Tried(r)
    BY <2>2
  <2>3. ASSUME NEW q \in Requests, NEW s \in Services, ApplyStrategy(q, s),
               svc' = svc \/ svc' = [svc EXCEPT ![q] = s], svc'[q] = s
        PROVE  Tried(r)
    <3>1. CASE q # r
      BY <2>1, <2>3, <3>1 DEF ApplyStrategy, Ends, TypeOK
    <3>2. CASE q = r /\ Strategy[s] = "fallback"
      BY <2>3, <3>2 DEF ApplyStrategy, Ends, TypeOK
    <3>3. CASE q = r /\ Strategy[s] = "escalate"
      BY <2>3, <3>3 DEF ApplyStrategy, Ends, TypeOK
    <3>4. QED
      BY <2>3, <3>1, <3>2, <3>3, StrategyAssumption
  <2>4. ASSUME NEW q \in Requests, NEW s \in Services, Block(q, s) PROVE Tried(r)
    <3>1. ApplyStrategy(q, s) /\ svc' = [svc EXCEPT ![q] = s] /\ svc'[q] = s
      BY <2>4 DEF Block, TypeOK
    <3>2. QED
      BY <2>3, <3>1
  <2>5. ASSUME NEW q \in Requests, PrimaryFails(q) \/ PrimaryMalformed(q) PROVE Tried(r)
    <3>1. ApplyStrategy(q, svc[q]) /\ svc' = svc /\ svc[q] \in Services
      BY <2>5 DEF PrimaryFails, PrimaryMalformed, TypeOK
    <3>2. QED
      BY <2>3, <3>1
  <2>6. ASSUME NEW q \in Requests, FallbackFails(q) PROVE Tried(r)
    <3>1. pc[q] = "fallback" /\ CallRaises(q, Fallback) /\ svc' = svc
          /\ pc' = [pc EXCEPT ![q] = "idle"] /\ refused' = refused \cup {q}
      BY <2>6 DEF FallbackFails, Ends
    <3>2. CASE q = r
      BY <3>1, <3>2 DEF TypeOK
    <3>3. CASE q # r
      BY <2>1, <3>1, <3>3 DEF TypeOK
    <3>4. QED
      BY <3>2, <3>3
  <2>7. ASSUME NEW q \in Requests, NEW s \in Services, Admit(q, s) PROVE Tried(r)
    <3>1. /\ pc' = [pc EXCEPT ![q] = "primary"] /\ svc' = [svc EXCEPT ![q] = s]
          /\ refused' = refused \ {q}
      BY <2>7 DEF Admit
    <3>2. CASE q = r
      BY <2>2, <3>1, <3>2 DEF TypeOK
    <3>3. CASE q # r
      BY <2>1, <3>1, <3>3 DEF TypeOK
    <3>4. QED
      BY <3>2, <3>3
  <2>8. ASSUME NEW q \in Requests,
               CallUnknown(q) \/ PrimarySucceeds(q) \/ FallbackAnswers(q)
        PROVE  Tried(r)
    <3>1. /\ pc' = [pc EXCEPT ![q] = "idle"] /\ svc' = svc
          /\ refused' = refused \ {q}
      BY <2>8 DEF CallUnknown, PrimarySucceeds, FallbackAnswers, Ends
    <3>2. CASE q = r
      BY <2>2, <3>1, <3>2 DEF TypeOK
    <3>3. CASE q # r
      BY <2>1, <3>1, <3>3 DEF TypeOK
    <3>4. QED
      BY <3>2, <3>3
  <2>9. CASE Restart
    BY <2>2, <2>9 DEF Restart
  <2>10. ASSUME UNCHANGED <<pc, svc, refused>> PROVE Tried(r)
    BY <2>1, <2>10
  <2> HIDE DEF Tried
  <2>11. QED
    BY <2>4, <2>5, <2>6, <2>7, <2>8, <2>9, <2>10
    DEF Next, Completes, Connect, Tick, Break, Heal, vars
<1>3. (\A r \in Requests : Tried(r)) => Escalating'
  OBVIOUS
<1>4. QED
  <2>1. Spec => [](Escalating)
    BY <1>1, <1>2, <1>3, TypeCorrect, PTL DEF Spec
  <2>2. QED
    BY <1>2, <2>1, TypeCorrect, PTL DEF Spec, FallbackTried
=============================================================================
