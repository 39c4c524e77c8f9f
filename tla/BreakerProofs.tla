---------------------------- MODULE BreakerProofs ----------------------------
(***************************************************************************)
(* The refinement of BreakerRefinement for every set of services and       *)
(* callers, every threshold, cooldown and probe budget, provided that the  *)
(* cooldown outlasts every call.                                           *)
(***************************************************************************)
EXTENDS BreakerRefinement, GatewayProofs

\* A primary call that ends leaves the calls of its service, and no others.
LEMMA EndsOnlyItself ==
    ASSUME TypeOK, NEW r \in Requests, pc[r] = "primary", svc' = svc,
           Leaving(r, svc[r])
    PROVE  /\ InFlight(svc[r])' = InFlight(svc[r]) \ {r}
           /\ \A t \in Services \ {svc[r]} : InFlight(t)' = InFlight(t)
<1>1. svc[r] \in Services
  BY DEF TypeOK
<1>2. pc'[r] # "primary" /\ \A q \in Requests \ {r} : pc'[q] = pc[q]
  BY <1>1, Leaves
<1>3. QED
  BY <1>2 DEF InFlight

\* The watched breaker is a breaker, and its counter tells whether it lets
\* traffic through.
LEMMA WatchedBreaker ==
    ASSUME TypeOK, CountsAgree
    PROVE  /\ Watched \in Services
           /\ breaker[Watched] \in Breaker
           /\ breaker[Watched].failureCount \in 0..FailureThreshold
           /\ breaker[Watched].elapsed \in 0..RecoveryTimeout
           /\ breaker[Watched].state = "closed"
                <=> breaker[Watched].failureCount # FailureThreshold
<1>1. Watched \in Services \ NonObject
  BY WatchedAssumption
<1>2. breaker[Watched] \in Breaker
  BY <1>1 DEF TypeOK
<1>3. breaker[Watched].failureCount \in 0..FailureThreshold
      /\ breaker[Watched].elapsed \in 0..RecoveryTimeout
  BY <1>2 DEF Breaker
<1>4. breaker[Watched].state = "closed"
        <=> breaker[Watched].failureCount < FailureThreshold
  BY <1>1 DEF CountsAgree
<1>5. QED
  BY <1>1, <1>2, <1>3, <1>4, ThresholdAssumption

\* Nothing restarts the cooldown in HALF_OPEN.
ProbesAfterCooldown ==
    \A s \in Services : breaker[s].state = "half_open" => breaker[s].elapsed = RecoveryTimeout

LEMMA AfterCooldownStep ==
    ASSUME TypeOK, ProbesAfterCooldown, [Next]_vars
    PROVE  ProbesAfterCooldown'
<1>1. CASE QuietStep
  BY <1>1 DEF QuietStep, ProbesAfterCooldown
<1>2. ASSUME NEW s \in Services, RecordStep(s) PROVE ProbesAfterCooldown'
  BY <1>2 DEF RecordStep, ProbesAfterCooldown
<1>3. ASSUME NEW r \in Requests, NEW s \in Services, AdmitStep(r, s)
      PROVE  ProbesAfterCooldown'
  <2>1. breaker[s] \in Breaker /\ breaker'[s] = AfterCanCall(breaker[s])
        /\ CanCallCore(breaker[s])
    BY <1>3 DEF AdmitStep, TypeOK
  <2>2. AfterCanCall(breaker[s]).elapsed = breaker[s].elapsed
    BY <2>1 DEF AfterCanCall, CooldownOver, ProbeLeft, Breaker
  <2>3. breaker'[s].state = "half_open" => breaker'[s].elapsed = RecoveryTimeout
    BY <2>1, <2>2, AdmissionCases DEF ProbesAfterCooldown
  <2>4. QED
    BY <1>3, <2>3 DEF AdmitStep, ProbesAfterCooldown
<1>4. CASE TimeStep
  <2> SUFFICES ASSUME NEW s \in Services, breaker'[s].state = "half_open"
               PROVE  breaker'[s].elapsed = RecoveryTimeout
    BY DEF ProbesAfterCooldown
  <2>1. breaker[s] \in Breaker /\ breaker'[s] = Aged(breaker[s])
    BY <1>4 DEF TimeStep, TypeOK
  <2>2. breaker[s].elapsed = RecoveryTimeout
    BY <2>1, AgedFields DEF ProbesAfterCooldown
  <2>3. Aged(breaker[s]).elapsed = UpTo(RecoveryTimeout, breaker[s].elapsed + 1)
    BY <2>1 DEF Aged, Breaker
  <2>4. QED
    BY <2>1, <2>2, <2>3, TimeoutAssumption DEF UpTo
<1>5. CASE RestartStep
  BY <1>5 DEF RestartStep, ProbesAfterCooldown
<1>6. QED
  BY <1>1, <1>2, <1>3, <1>4, <1>5, StepShapes

\* A call that is let through is one that BreakerSpec lets through.
LEMMA AdmissionImplements ==
    ASSUME CallBound < RecoveryTimeout,
           TypeOK, OldCallsOnly, HalfOpenOnlyProbes, ProbesAfterCooldown, CountsAgree,
           NEW r \in Requests, AdmitStep(r, Watched)
    PROVE  Circuit!Call(r)
<1> DEFINE b == breaker[Watched]
<1>1. /\ b \in Breaker /\ Watched \in Services
      /\ b.state = "closed" <=> b.failureCount # FailureThreshold
  BY WatchedBreaker
<1>2. /\ CanCallCore(b) /\ breaker'[Watched] = AfterCanCall(b)
      /\ r \notin InFlight(Watched)
      /\ InFlight(Watched)' = InFlight(Watched) \cup {r}
  BY DEF AdmitStep
<1>3. AfterCanCall(b).failureCount = b.failureCount /\ AfterCanCall(b).elapsed = b.elapsed
  BY <1>1 DEF AfterCanCall, CooldownOver, ProbeLeft, Breaker
<1>4. ASSUME b.failureCount = FailureThreshold
      PROVE  b.elapsed = RecoveryTimeout /\ Cardinality(InFlight(Watched)) <= HalfOpenMaxCalls
  <2>1. CASE b.state = "open" /\ b.elapsed = RecoveryTimeout
    <3>1. InFlight(Watched) = {}
      <4> SUFFICES ASSUME NEW q \in InFlight(Watched) PROVE FALSE
        OBVIOUS
      <4>1. age[q] \in 0..CallBound /\ age[q] >= RecoveryTimeout
        BY <1>1, <2>1 DEF OldCallsOnly, TypeOK, InFlight
      <4>2. QED
        BY <4>1, BoundAssumption, TimeoutAssumption
    <3>2. Cardinality(InFlight(Watched)) = 0
      BY <3>1, FS_EmptySet
    <3>3. QED
      BY <2>1, <3>2, MaxCallsAssumption
  <2>2. CASE b.state = "half_open"
    <3>1. Cardinality(InFlight(Watched)) = b.halfOpenCalls + 1
      BY <1>1, <2>2 DEF HalfOpenOnlyProbes
    <3>2. b.halfOpenCalls < HalfOpenMaxCalls /\ b.halfOpenCalls \in Nat
      BY <1>1, <1>2, <2>2, MaxCallsAssumption
      DEF CanCallCore, CooldownOver, ProbeLeft, Breaker
    <3>3. b.elapsed = RecoveryTimeout
      BY <1>1, <2>2 DEF ProbesAfterCooldown
    <3>4. QED
      BY <3>1, <3>2, <3>3, MaxCallsAssumption
  <2>3. QED
    BY <1>1, <1>2, <1>4, <2>1, <2>2, AdmissionCases
<1> HIDE DEF b
<1>5. Circuit!Cardinality(InFlight(Watched)) = Cardinality(InFlight(Watched))
  BY DEF Circuit!Cardinality, Cardinality
<1>6. QED
  BY <1>2, <1>3, <1>4, <1>5 DEF b, Circuit!Call, Circuit!Tripped

\* Every step of the gateway is a step of BreakerSpec or changes nothing
\* that it speaks of.
LEMMA StepImplements ==
    ASSUME CallBound < RecoveryTimeout,
           TypeOK, OldCallsOnly, HalfOpenOnlyProbes, ProbesAfterCooldown, CountsAgree,
           [Next]_vars
    PROVE  [Circuit!Next]_(Circuit!vars)
<1> DEFINE b    == breaker[Watched]
           Done == [Circuit!Next]_(Circuit!vars)
<1>1. /\ Watched \in Services /\ b \in Breaker
      /\ b.failureCount \in 0..FailureThreshold
      /\ b.elapsed \in 0..RecoveryTimeout
      /\ b.state = "closed" <=> b.failureCount # FailureThreshold
  BY WatchedBreaker
<1>2. ASSUME breaker'[Watched] = b, InFlight(Watched)' = InFlight(Watched) PROVE Done
  BY <1>2 DEF Circuit!vars
<1>3. ASSUME NEW r \in Requests, NEW s \in Services, AdmitStep(r, s) PROVE Done
  <2>1. CASE s = Watched
    BY <1>3, <2>1, AdmissionImplements DEF Circuit!Next
  <2>2. CASE s # Watched
    BY <1>1, <1>2, <1>3, <2>2 DEF AdmitStep, SameCalls
  <2>3. QED
    BY <2>1, <2>2
<1>4. CASE TimeStep
  <2>1. breaker'[Watched] = Aged(b) /\ InFlight(Watched)' = InFlight(Watched)
    BY <1>1, <1>4 DEF TimeStep
  <2>2. Aged(b).failureCount = b.failureCount
        /\ Aged(b).elapsed = UpTo(RecoveryTimeout, b.elapsed + 1)
    BY <1>1 DEF Aged, Breaker
  <2>3. CASE b.elapsed < RecoveryTimeout
    <3>1. UpTo(RecoveryTimeout, b.elapsed + 1) = b.elapsed + 1
      BY <1>1, <2>3, TimeoutAssumption DEF UpTo
    <3>2. Circuit!Age
      BY <2>1, <2>2, <2>3, <3>1 DEF Circuit!Age
    <3>3. QED
      BY <3>2 DEF Circuit!Next
  <2>4. CASE b.elapsed = RecoveryTimeout
    <3>1. UpTo(RecoveryTimeout, b.elapsed + 1) = b.elapsed
      BY <1>1, <2>4, TimeoutAssumption DEF UpTo
    <3>2. QED
      BY <2>1, <2>2, <3>1 DEF Circuit!vars
  <2>5. QED
    BY <1>1, <2>3, <2>4, TimeoutAssumption
<1>5. CASE Restart
  <2>1. breaker'[Watched] = NewBreaker /\ InFlight(Watched)' = {}
    BY <1>1, <1>5 DEF Restart, InFlight
  <2>2. Circuit!Restart
    BY <2>1 DEF Circuit!Restart, NewBreaker
  <2>3. QED
    BY <2>2 DEF Circuit!Next
<1>6. ASSUME NEW r \in Requests, PrimarySucceeds(r), svc[r] = Watched PROVE Done
  <2>1. /\ pc[r] = "primary" /\ r \in InFlight(Watched)
        /\ breaker'[Watched] = RecordSuccess(b)
        /\ svc' = svc /\ Leaving(r, Watched)
    BY <1>1, <1>6 DEF PrimarySucceeds, SuccessRecorded, Leaving, InFlight, TypeOK
  <2>2. InFlight(Watched)' = InFlight(Watched) \ {r}
    BY <1>6, <2>1, EndsOnlyItself
  <2>3. RecordSuccess(b).failureCount = 0 /\ RecordSuccess(b).elapsed = b.elapsed
    BY <1>1 DEF RecordSuccess, Breaker
  <2>4. Circuit!Success(r)
    BY <2>1, <2>2, <2>3 DEF Circuit!Success
  <2>5. QED
    BY <2>4 DEF Circuit!Next
<1>7. ASSUME NEW r \in Requests, PrimaryFails(r), svc[r] = Watched PROVE Done
  <2>1. /\ pc[r] = "primary" /\ r \in InFlight(Watched)
        /\ breaker'[Watched] = RecordFailure(b)
        /\ svc' = svc /\ Leaving(r, Watched)
    BY <1>1, <1>7 DEF PrimaryFails, FailureRecorded, Leaving, InFlight, TypeOK
  <2>2. InFlight(Watched)' = InFlight(Watched) \ {r}
    BY <1>7, <2>1, EndsOnlyItself
  <2>3. RecordFailure(b).failureCount = UpTo(FailureThreshold, b.failureCount + 1)
        /\ RecordFailure(b).elapsed = 0
    BY <1>1 DEF RecordFailure, Breaker
  <2>4. UpTo(FailureThreshold, b.failureCount + 1)
          = IF b.failureCount = FailureThreshold THEN b.failureCount ELSE b.failureCount + 1
    BY <1>1, ThresholdAssumption DEF UpTo
  <2>5. Circuit!Failure(r)
    BY <2>1, <2>2, <2>3, <2>4 DEF Circuit!Failure, Circuit!Tripped
  <2>6. QED
    BY <2>5 DEF Circuit!Next
<1>8. ASSUME NEW r \in Requests,
              PrimarySucceeds(r) \/ PrimaryMalformed(r) \/ PrimaryFails(r),
              svc[r] # Watched
       PROVE  Done
  <2>1. /\ pc[r] = "primary" /\ svc' = svc /\ svc[r] \in Services
        /\ breaker'[Watched] = b
        /\ Leaving(r, svc[r])
    BY <1>1, <1>8 DEF PrimarySucceeds, SuccessRecorded, PrimaryMalformed, PrimaryFails,
                       FailureRecorded, Leaving, TypeOK
  <2>2. InFlight(Watched)' = InFlight(Watched)
    BY <1>1, <1>8, <2>1, EndsOnlyItself
  <2>3. QED
    BY <1>2, <2>1, <2>2
<1>9. ASSUME NEW r \in Requests, PrimaryMalformed(r) PROVE svc[r] # Watched
  BY <1>9, WatchedAssumption DEF PrimaryMalformed
<1>10. ASSUME NEW r \in Requests,
              CallUnknown(r) \/ Connect(r) \/ FallbackAnswers(r) \/ FallbackFails(r)
       PROVE  Done
  <2>1. breaker'[Watched] = b
    BY <1>10 DEF CallUnknown, Connect, FallbackAnswers, FallbackFails
  <2>2. InFlight(Watched)' = InFlight(Watched)
    BY <1>10 DEF CallUnknown, Connect, FallbackAnswers, FallbackFails, Ends, InFlight, TypeOK
  <2>3. QED
    BY <1>2, <2>1, <2>2
<1>11. ASSUME NEW r \in Requests, NEW s \in Services, Block(r, s) PROVE Done
  <2>1. /\ ApplyStrategy(r, s) /\ pc[r] = "idle" /\ breaker' = breaker
        /\ \A q \in Requests \ {r} : svc'[q] = svc[q]
    BY <1>11 DEF Block, TypeOK
  <2>2. Leaving(r, s) /\ r \notin InFlight(Watched)
    BY <2>1 DEF Leaving, InFlight
  <2>3. SameCalls(Watched)
    BY <1>1, <2>1, <2>2, LeavesInFlight
  <2>4. QED
    BY <1>2, <2>1, <2>3 DEF SameCalls
<1>12. ASSUME NEW r \in Requests, NEW s \in Services, Admit(r, s) PROVE Done
  BY <1>3, <1>12, AdmitShape
<1>13. CASE Tick
  <2>1. TimeStep
    BY <1>13 DEF Tick, TimeStep, InFlight, TypeOK
  <2>2. QED
    BY <1>4, <2>1
<1>14. CASE (\E t \in Targets : Break(t) \/ Heal(t)) \/ UNCHANGED vars
  BY <1>2, <1>14 DEF Break, Heal, vars, InFlight
<1>15. ASSUME NEW r \in Requests, Completes(r) PROVE Done
  BY <1>6, <1>7, <1>8, <1>9, <1>10, <1>15 DEF Completes
<1>16. QED
  BY <1>5, <1>10, <1>11, <1>12, <1>13, <1>14, <1>15 DEF Next

\* A breaker between any number of concurrent calls is the circuit of
\* BreakerSpec, as long as the cooldown outlasts every call: the state
\* machine of circuit_breaker.py 73-150 with the callers of
\* gateway_service.py 81-117.
THEOREM BreakerRefines ==
    ASSUME CallBound < RecoveryTimeout
    PROVE  Spec => BreakerImplements
<1>1. Init => Circuit!Init
  <2>1. ASSUME Init PROVE Circuit!Init
    <3>1. breaker[Watched] = NewBreaker /\ InFlight(Watched) = {}
      BY <2>1, WatchedAssumption DEF Init, InFlight
    <3>2. QED
      BY <3>1 DEF Circuit!Init, NewBreaker
  <2>2. QED
    BY <2>1
<1>2. TypeOK /\ OldCallsOnly /\ HalfOpenOnlyProbes /\ ProbesAfterCooldown /\ CountsAgree
        /\ [Next]_vars => [Circuit!Next]_(Circuit!vars)
  BY StepImplements
<1>3. Init => ProbesAfterCooldown /\ CountsAgree
  BY ThresholdAssumption DEF Init, NewBreaker, ProbesAfterCooldown, CountsAgree
<1>4. TypeOK /\ ProbesAfterCooldown /\ [Next]_vars => ProbesAfterCooldown'
  BY AfterCooldownStep
<1>5. TypeOK /\ CountsAgree /\ [Next]_vars => CountsAgree'
  BY CountsStep
<1>6. Spec => []HalfOpenOnlyProbes
  BY OnlyProbes
<1>7. QED
  BY <1>1, <1>2, <1>3, <1>4, <1>5, <1>6, TypeCorrect, OldCalls, PTL
  DEF Spec, Circuit!Spec, BreakerImplements
=============================================================================
