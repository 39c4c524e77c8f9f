-------------------------- MODULE SelfHealingProofs --------------------------
(***************************************************************************)
(* Proofs about SelfHealing, for any thresholds, delays and windows that   *)
(* satisfy its assumptions, and any number of troubles: the loop of        *)
(* restarts ends, because every docker command is paid for.                *)
(***************************************************************************)
EXTENDS SelfHealing, FiniteSetTheorems, TLAPS

-----------------------------------------------------------------------------
\* Type correctness.

\* Every operation of the breaker returns a breaker.
LEMMA BreakerTypes ==
    ASSUME NEW b \in Breaker
    PROVE  /\ NewBreaker \in Breaker
           /\ Ended(AfterCanCall(b)) \in Breaker
           /\ Aged(b) \in Breaker
<1> USE ThresholdAssumption, TimeoutAssumption, MaxCallsAssumption DEF Breaker, CircuitState
<1>0. 0 \in 0..FailureThreshold /\ 0 \in 0..RecoveryTimeout /\ 0 \in 0..HalfOpenMaxCalls
  OBVIOUS
<1>1. NewBreaker \in Breaker /\ Aged(b) \in Breaker
  BY DEF NewBreaker, Aged, UpTo
<1>2. AfterCanCall(b) \in Breaker
  <2>1. CASE CooldownOver(b)
    <3>1. AfterCanCall(b) = [b EXCEPT !.state = "half_open", !.halfOpenCalls = 0]
      BY <2>1 DEF AfterCanCall, CooldownOver, ProbeLeft
    <3> QED
      BY <1>0, <3>1
  <2>2. CASE ~CooldownOver(b) /\ ProbeLeft(b)
    BY <2>2 DEF AfterCanCall, ProbeLeft
  <2>3. CASE ~CooldownOver(b) /\ ~ProbeLeft(b)
    BY <2>3 DEF AfterCanCall
  <2> QED
    BY <2>1, <2>2, <2>3
<1>3. ASSUME NEW c \in Breaker PROVE RecordSuccess(c) \in Breaker /\ RecordFailure(c) \in Breaker
  <2>1. RecordSuccess(c) \in Breaker
    BY <1>0 DEF RecordSuccess
  <2>2. UpTo(FailureThreshold, c.failureCount + 1) \in 0..FailureThreshold
    BY DEF UpTo
  <2>3. ASSUME NEW n \in 0..FailureThreshold, NEW t \in CircuitState
        PROVE  [c EXCEPT !.failureCount = n, !.elapsed = 0, !.state = t] \in Breaker
    BY <1>0
  <2>4. RecordFailure(c) \in Breaker
    BY <2>2, <2>3 DEF RecordFailure
  <2> QED
    BY <2>1, <2>4
<1> QED
  BY <1>1, <1>2, <1>3 DEF Ended

\* The operations of the policy return histories.
LEMMA HistoryTypes ==
    ASSUME NEW h \in History
    PROVE  NoFailures \in History /\ Recorded(h) \in History /\ Older(h) \in History
<1> USE WindowAssumption, CountAssumption DEF History
<1>1. NoFailures \in History /\ Older(h) \in History
  BY DEF NoFailures, Older
<1>2. \A k \in 1..CriticalCount : k # 1 => k - 1 \in 1..CriticalCount
  OBVIOUS
<1>3. Recorded(h) \in History
  BY <1>2 DEF Recorded
<1> QED
  BY <1>1, <1>3

Job == [action : Actions \cup {"none"}, age : 0..JobBound, took : BOOLEAN]

LEMMA JobFields ==
    ASSUME NEW j \in Job
    PROVE  /\ NoJob \in Job
           /\ [j EXCEPT !.took = TRUE] \in Job
           /\ [j EXCEPT !.took = TRUE].action = j.action
           /\ [j EXCEPT !.took = TRUE].took = TRUE
           /\ \A n \in 0..JobBound :
                /\ [j EXCEPT !.age = n] \in Job
                /\ [j EXCEPT !.age = n].action = j.action
                /\ [j EXCEPT !.age = n].age = n
                /\ [j EXCEPT !.age = n].took = j.took
<1>1. NoJob \in Job
  BY DelayAssumption DEF NoJob, Job
<1>2. [j EXCEPT !.took = TRUE] \in Job
  BY DEF Job
<1> QED
  BY <1>1, <1>2 DEF Job

\* An event gets older, and its first copy is delivered.
LEMMA EventFields ==
    ASSUME NEW e \in Event
    PROVE  /\ [e EXCEPT !.twice = FALSE] \in Event
           /\ [e EXCEPT !.twice = FALSE].age = e.age
           /\ [e EXCEPT !.twice = FALSE].twice = FALSE
           /\ e.age < EventDelay =>
                /\ [e EXCEPT !.age = e.age + 1] \in Event
                /\ [e EXCEPT !.age = e.age + 1].age = e.age + 1
                /\ [e EXCEPT !.age = e.age + 1].twice = e.twice
<1>1. [e EXCEPT !.twice = FALSE] \in Event
  BY DEF Event
<1>2. [e EXCEPT !.twice = FALSE].age = e.age /\ [e EXCEPT !.twice = FALSE].twice = FALSE
  BY DEF Event
<1>3. ASSUME e.age < EventDelay
      PROVE  /\ [e EXCEPT !.age = e.age + 1] \in Event
             /\ [e EXCEPT !.age = e.age + 1].age = e.age + 1
             /\ [e EXCEPT !.age = e.age + 1].twice = e.twice
  <2>1. e.age + 1 \in 0..EventDelay
    BY <1>3, DelayAssumption DEF Event
  <2>2. [e EXCEPT !.age = e.age + 1] \in Event
    BY <2>1 DEF Event
  <2>3. [e EXCEPT !.age = e.age + 1].age = e.age + 1
    BY DEF Event
  <2>4. [e EXCEPT !.age = e.age + 1].twice = e.twice
    BY DEF Event
  <2> QED
    BY <2>2, <2>3, <2>4
<1> QED
  BY <1>1, <1>2, <1>3

LEMMA EnoughIsNatural == Enough \in Nat
<1>1. \A m, n \in Nat : m * n \in Nat
  OBVIOUS
<1> QED
  BY <1>1, CountAssumption, DelayAssumption DEF Enough

\* What the shared parts of the actions leave behind has the right type.
LEMMA SharedTypes ==
    ASSUME TypeOK
    PROVE  /\ GoesWrong => troubles' \in 0..Troubles /\ commands' \in 0..Enough
           /\ UpTo(Enough, commands + 1) \in 0..Enough
           /\ UpTo(Cooldown, lastSent + 1) \in 0..Cooldown
           /\ Cooldown \in 0..Cooldown /\ 0 \in 0..Cooldown
           /\ \A action : Docker(action) =>
                /\ container' \in {"running", "starting", "stopped"}
                /\ starting' \in 0..StartBound
                /\ flags' \in SUBSET {"crashed", "slow"}
           /\ \A severity : ActionFor("crash", severity) \in Actions
<1>1. GoesWrong => troubles' \in 0..Troubles /\ commands' \in 0..Enough
  BY EnoughIsNatural, DelayAssumption DEF TypeOK, GoesWrong
<1>2. UpTo(Enough, commands + 1) \in 0..Enough
  BY EnoughIsNatural DEF TypeOK, UpTo
<1>3. /\ UpTo(Cooldown, lastSent + 1) \in 0..Cooldown
      /\ Cooldown \in 0..Cooldown /\ 0 \in 0..Cooldown
  BY DelayAssumption DEF TypeOK, UpTo
<1>4. ASSUME NEW action, Docker(action)
      PROVE  /\ container' \in {"running", "starting", "stopped"}
             /\ starting' \in 0..StartBound
             /\ flags' \in SUBSET {"crashed", "slow"}
  BY <1>4, DelayAssumption DEF Docker
<1>5. ASSUME NEW severity PROVE ActionFor("crash", severity) \in Actions
  BY DEF ActionFor, Actions
<1> QED
  BY <1>1, <1>2, <1>3, <1>4, <1>5

\* The sets of events that the actions leave behind.
LEMMA BusTypes ==
    ASSUME NEW b \in SUBSET Event
    PROVE  /\ \A f \in BOOLEAN : b \cup {[age |-> 0, twice |-> f]} \in SUBSET Event
           /\ \A e \in b : (b \ {e}) \cup (IF e.twice THEN {[e EXCEPT !.twice = FALSE]} ELSE {})
                              \in SUBSET Event
           /\ (\A e \in b : e.age < EventDelay) =>
                 {[e EXCEPT !.age = @ + 1] : e \in b} \in SUBSET Event
<1>1. ASSUME NEW f \in BOOLEAN PROVE b \cup {[age |-> 0, twice |-> f]} \in SUBSET Event
  BY DelayAssumption DEF Event
<1>2. ASSUME NEW e \in b
      PROVE  (b \ {e}) \cup (IF e.twice THEN {[e EXCEPT !.twice = FALSE]} ELSE {}) \in SUBSET Event
  <2>1. [e EXCEPT !.twice = FALSE] \in Event
    BY EventFields
  <2> QED
    BY <2>1
<1>3. ASSUME \A e \in b : e.age < EventDelay
      PROVE  {[e EXCEPT !.age = @ + 1] : e \in b} \in SUBSET Event
  BY <1>3, EventFields
<1> QED
  BY <1>1, <1>2, <1>3

LEMMA TypeStep == TypeOK /\ [Next]_vars => TypeOK'
<1> SUFFICES ASSUME TypeOK, [Next]_vars PROVE TypeOK'
  OBVIOUS
<1> USE SharedTypes DEF TypeOK
<1>1. ASSUME NEW flag \in {"crashed", "slow"}, Misbehaves(flag) PROVE TypeOK'
  BY <1>1 DEF Misbehaves
<1>2. CASE Recovers
  BY <1>2 DEF Recovers
<1>3. CASE Started
  BY <1>3, DelayAssumption DEF Started
<1>4. CASE Request
  <2>1. breaker' \in Breaker
    BY <1>4, BreakerTypes DEF Request
  <2> QED
    BY <1>4, <2>1 DEF Request
<1>5. CASE GatewayRestarts
  BY <1>5, BreakerTypes DEF GatewayRestarts
<1>6. CASE Reports
  <2>1. bus' \in SUBSET Event
    BY <1>6, BusTypes DEF Reports
  <2>2. commands' \in 0..Enough /\ troubles' \in 0..Troubles
    BY <1>6 DEF Reports
  <2> QED
    BY <1>6, <2>1, <2>2 DEF Reports
<1>7. CASE SeesUp
  BY <1>7 DEF SeesUp
<1>8. CASE MonitorRestarts
  BY <1>8 DEF MonitorRestarts
<1>9. ASSUME NEW e \in bus, Deliver(e) PROVE TypeOK'
  <2>1. bus' \in SUBSET Event /\ history' \in History
    BY <1>9, BusTypes, HistoryTypes DEF Deliver
  <2>2. job' \in [action : Actions \cup {"none"}, age : 0..JobBound, took : BOOLEAN]
    BY <1>9, DelayAssumption DEF Deliver
  <2> QED
    BY <1>9, <2>1, <2>2 DEF Deliver
<1>10. CASE TakesEffect
  <2>1. job' \in [action : Actions \cup {"none"}, age : 0..JobBound, took : BOOLEAN]
    BY <1>10, JobFields DEF TakesEffect, Job
  <2> QED
    BY <1>10, <2>1 DEF TakesEffect
<1>11. CASE Succeeds
  BY <1>11, JobFields, HistoryTypes DEF Succeeds, Job
<1>12. CASE Repeats
  BY <1>12 DEF Repeats
<1>13. CASE Fails
  <2>1. late' \in Actions \cup {"none"}
    BY <1>13 DEF Fails
  <2> QED
    BY <1>13, <2>1, JobFields DEF Fails, Job
<1>14. CASE ColdStart
  <2>1. bus' \in SUBSET Event
    BY <1>14, BusTypes DEF ColdStart
  <2> QED
    BY <1>14, <2>1, JobFields, HistoryTypes DEF ColdStart, Job
<1>15. CASE LateCommand
  BY <1>15 DEF LateCommand
<1>16. CASE Tick
  <2>1. bus' \in SUBSET Event
    BY <1>16, BusTypes DEF Tick
  <2>2. job' \in [action : Actions \cup {"none"}, age : 0..JobBound, took : BOOLEAN]
    <3>1. job # NoJob => job.age + 1 \in 0..JobBound
      BY <1>16, DelayAssumption DEF Tick
    <3> QED
      BY <1>16, <3>1, JobFields DEF Tick, Job
  <2>3. starting' \in 0..StartBound
    BY <1>16, DelayAssumption DEF Tick
  <2> QED
    BY <1>16, <2>1, <2>2, <2>3, BreakerTypes, HistoryTypes DEF Tick
<1>17. CASE UNCHANGED vars
  BY <1>17 DEF vars
<1> QED
  BY <1>1, <1>2, <1>3, <1>4, <1>5, <1>6, <1>7, <1>8, <1>9, <1>10, <1>11, <1>12, <1>13,
     <1>14, <1>15, <1>16, <1>17 DEF Next, Monitors, Handles

LEMMA TypeInit == Init => TypeOK
<1>1. NewBreaker \in Breaker
  BY ThresholdAssumption, TimeoutAssumption, MaxCallsAssumption
  DEF NewBreaker, Breaker, CircuitState
<1>2. NoFailures \in History
  BY WindowAssumption DEF NoFailures, History
<1>3. NoJob \in Job
  BY DelayAssumption DEF NoJob, Job
<1> QED
  BY <1>1, <1>2, <1>3, EnoughIsNatural, DelayAssumption DEF Init, TypeOK, Job

\* Every variable of the loop keeps its type.
THEOREM TypeCorrect == Spec => []TypeOK
<1> QED
  BY TypeInit, TypeStep, PTL DEF Spec

-----------------------------------------------------------------------------
\* Events that are still to be delivered, copies included.

Twice(b)  == {e \in b : e.twice}
Copies(b) == Cardinality(b) + Cardinality(Twice(b))

LEMMA OneMore ==
    ASSUME NEW S, IsFiniteSet(S), NEW x
    PROVE  /\ IsFiniteSet(S \cup {x})
           /\ Cardinality(S) \in Nat /\ Cardinality(S \cup {x}) \in Nat
           /\ Cardinality(S \cup {x}) <= Cardinality(S) + 1
  BY FS_AddElement, FS_CardinalityType

LEMMA CopiesCount ==
    ASSUME NEW b, IsFiniteSet(b)
    PROVE  /\ IsFiniteSet(Twice(b))
           /\ Cardinality(b) \in Nat /\ Cardinality(Twice(b)) \in Nat
           /\ Copies(b) \in Nat
           /\ b # {} => Copies(b) > 0
<1>1. Twice(b) \in SUBSET b
  BY DEF Twice
<1>2. IsFiniteSet(Twice(b)) /\ Cardinality(b) \in Nat /\ Cardinality(Twice(b)) \in Nat
  BY <1>1, FS_Subset, FS_CardinalityType
<1>3. b # {} => Cardinality(b) # 0
  BY FS_EmptySet
<1> QED
  BY <1>2, <1>3 DEF Copies

LEMMA CopiesAdded ==
    ASSUME NEW b, IsFiniteSet(b), NEW e
    PROVE  /\ IsFiniteSet(b \cup {e})
           /\ Copies(b \cup {e}) <= Copies(b) + 2
           /\ ~e.twice => Copies(b \cup {e}) <= Copies(b) + 1
<1>1. IsFiniteSet(b \cup {e}) /\ Cardinality(b \cup {e}) <= Cardinality(b) + 1
  BY FS_AddElement, CopiesCount
<1>2. CASE e.twice
  <2>1. Twice(b \cup {e}) = Twice(b) \cup {e}
    BY <1>2 DEF Twice
  <2>2. IsFiniteSet(Twice(b)) /\ Cardinality(Twice(b)) \in Nat
    BY CopiesCount
  <2>3. Cardinality(Twice(b) \cup {e}) <= Cardinality(Twice(b)) + 1
    BY <2>2, FS_AddElement
  <2> QED
    BY <1>1, <1>2, <2>1, <2>3, CopiesCount DEF Copies
<1>3. CASE ~e.twice
  <2>1. Twice(b \cup {e}) = Twice(b)
    BY <1>3 DEF Twice
  <2> QED
    BY <1>1, <2>1, CopiesCount DEF Copies
<1> QED
  BY <1>2, <1>3

\* A delivery uses up one copy.
LEMMA CopiesDelivered ==
    ASSUME NEW b \in SUBSET Event, IsFiniteSet(b), NEW e \in b, NEW c,
           c = (b \ {e}) \cup (IF e.twice THEN {[e EXCEPT !.twice = FALSE]} ELSE {})
    PROVE  IsFiniteSet(c) /\ Copies(c) <= Copies(b) - 1
<1>1. /\ IsFiniteSet(b \ {e}) /\ Cardinality(b \ {e}) = Cardinality(b) - 1
      /\ Cardinality(b) \in Nat /\ Cardinality(Twice(b)) \in Nat /\ IsFiniteSet(Twice(b))
  BY FS_RemoveElement, CopiesCount
<1>2. CASE e.twice
  <2> DEFINE d == [e EXCEPT !.twice = FALSE]
  <2>1. c = (b \ {e}) \cup {d} /\ ~d.twice
    BY <1>2, EventFields
  <2> HIDE DEF d
  <2>2. IsFiniteSet(c) /\ Cardinality(c) <= Cardinality(b)
    <3> DEFINE rest == b \ {e}
    <3>1. IsFiniteSet(rest) /\ Cardinality(rest) = Cardinality(b) - 1 /\ c = rest \cup {d}
      BY <1>1, <2>1
    <3> HIDE DEF rest
    <3>2. IsFiniteSet(rest \cup {d}) /\ Cardinality(rest \cup {d}) <= Cardinality(rest) + 1
      BY <3>1, OneMore
    <3>3. IsFiniteSet(c) /\ Cardinality(c) <= Cardinality(rest) + 1
      BY <3>1, <3>2, Zenon
    <3> QED
      BY <1>1, <3>1, <3>3
  <2>3. Twice(c) = Twice(b) \ {e}
    BY <2>1 DEF Twice
  <2>4. e \in Twice(b)
    BY <1>2 DEF Twice
  <2>5. Cardinality(Twice(b) \ {e}) = Cardinality(Twice(b)) - 1
    BY <1>1, <2>4, FS_RemoveElement
  <2>6. Cardinality(c) \in Nat /\ Cardinality(Twice(c)) = Cardinality(Twice(b)) - 1
    BY <2>2, <2>3, <2>5, FS_CardinalityType
  <2> QED
    BY <1>1, <2>2, <2>6 DEF Copies
<1>3. CASE ~e.twice
  <2>1. c = b \ {e} /\ Twice(c) = Twice(b)
    BY <1>3 DEF Twice
  <2>2. IsFiniteSet(c) /\ Cardinality(c) = Cardinality(b) - 1
    BY <1>1, <2>1
  <2>3. Cardinality(Twice(c)) = Cardinality(Twice(b))
    BY <2>1
  <2> QED
    BY <1>1, <2>2, <2>3 DEF Copies
<1> QED
  BY <1>2, <1>3

\* A function maps a finite set onto one that is no larger.
LEMMA ImageNoLarger ==
    ASSUME NEW S, IsFiniteSet(S), NEW f, f = [x \in S |-> f[x]],
           NEW T, T = {f[x] : x \in S}
    PROVE  IsFiniteSet(T) /\ Cardinality(T) <= Cardinality(S)
<1>1. f \in Surjection(S, T)
  BY DEF Surjection
<1> QED
  BY <1>1, FS_Surjection

LEMMA CopiesAged ==
    ASSUME NEW b \in SUBSET Event, IsFiniteSet(b), \A e \in b : e.age < EventDelay,
           NEW c, c = {[e EXCEPT !.age = @ + 1] : e \in b}
    PROVE  IsFiniteSet(c) /\ Copies(c) <= Copies(b)
<1> DEFINE f == [e \in b |-> [e EXCEPT !.age = e.age + 1]]
           g == [e \in Twice(b) |-> [e EXCEPT !.age = e.age + 1]]
<1>1. \A e \in b : [e EXCEPT !.age = e.age + 1].twice = e.twice
  BY EventFields
<1>2. c = {f[e] : e \in b} /\ Twice(c) = {g[e] : e \in Twice(b)}
  BY <1>1 DEF Twice
<1>3. IsFiniteSet(c) /\ Cardinality(c) <= Cardinality(b)
  <2>1. f = [e \in b |-> f[e]]
    OBVIOUS
  <2> HIDE DEF f
  <2> QED
    BY <1>2, <2>1, ImageNoLarger
<1>4. Cardinality(Twice(c)) <= Cardinality(Twice(b))
  <2>1. g = [e \in Twice(b) |-> g[e]]
    OBVIOUS
  <2> HIDE DEF g
  <2> QED
    BY <1>2, <2>1, ImageNoLarger, CopiesCount
<1> QED
  BY <1>3, <1>4, CopiesCount DEF Copies

-----------------------------------------------------------------------------
(***************************************************************************)
(* The accounts of the loop.  A token is something that is going to lead   *)
(* to a docker command: a copy of an event, an invocation whose command is *)
(* still to come, a request that is left at the agent, or a failure that   *)
(* the monitor is still going to report.  A command uses up a token but    *)
(* may cause a failure, so that the number of tokens stays what it is; it  *)
(* only grows by one with each trouble.  What ends the loop is the ladder: *)
(* CriticalCount commands later the container is stopped, and the token is *)
(* worth no more than the command that starts it again.                    *)
(***************************************************************************)

Num(b) == IF b THEN 1 ELSE 0

\* From the delivery of an event to the next failure and the delivery of its event.
Round == JobBound + StartBound + EventDelay

\* An invocation that has not carried out its command.
Pending == job.action # "none" /\ ~job.took
Stops   == job.action = "enable_fallback"

\* The service is down, but will be up again before the monitor may report it.
BackInTime ==
    \/ container = "starting" /\ lastSent + StartBound < starting + Cooldown
    \/ container # "starting" /\ Pending
         /\ lastSent + JobBound + StartBound < job.age + Cooldown
    \/ container # "starting" /\ \E e \in bus : lastSent + Round < e.age + Cooldown

Unreported == ~Healthy /\ ~BackInTime

InHand  == Num(Pending)
LateOne == Num(late # "none")
Outage  == Num(Unreported)

Tokens == Copies(bus) + InHand + LateOne + Outage
Weight == (CriticalCount + 1) * Tokens + LateOne
Budget == (CriticalCount + 2) * (Troubles - troubles)

WithinBudget == Weight <= Budget

\* Some token is early enough for its failure to belong to the same series
\* as the last one that was recorded.
InTime ==
    \/ \E e \in bus : history[1] <= JobBound + StartBound + e.age
    \/ Pending /\ history[1] <= job.age
    \/ container = "starting" /\ Unreported /\ history[1] <= JobBound + starting

\* The last k failures are a series.
Series(k) == \A j \in 1..k : history[j] <= history[1] + (j - 1) * Round

\* k commands have been made already by the tokens that there are.
Credit(k) ==
    \/ k = 0
    \/ Pending /\ Stops
    \/ k < CriticalCount /\ InTime /\ Series(k) /\ ~(job.took /\ Stops)

\* The container has been stopped at CRITICAL, and the ladder starts over.
StartedOver ==
    /\ container = "stopped"
    /\ \/ job = NoJob /\ history = NoFailures
       \/ job.took /\ Stops
       \/ Pending /\ ~Stops /\ \A k \in 2..CriticalCount : history[k] = TenMinutes

\* The commands that were made, and those that the tokens may lead to, are
\* paid for by the troubles.
Paid ==
    \/ StartedOver /\ commands + Weight - CriticalCount <= Budget
    \/ \E k \in 0..CriticalCount : Credit(k) /\ commands + Weight + InHand - k <= Budget

Orderly ==
    /\ Pending => history[1] <= job.age
    /\ container # "running" => flags = {}
    /\ job.action = "none" => job = NoJob

LoopInv == TypeOK /\ IsFiniteSet(bus) /\ Orderly /\ WithinBudget /\ Paid

-----------------------------------------------------------------------------
\* Arithmetic.

Counts ==
    /\ InHand \in 0..1 /\ LateOne \in 0..1 /\ Outage \in 0..1
    /\ Copies(bus) \in Nat /\ Tokens \in Nat
    /\ commands \in Nat /\ CriticalCount \in Nat /\ CriticalCount > 1
    /\ troubles \in 0..Troubles /\ Troubles \in Nat
    /\ Budget \in Nat

LEMMA Numbers == TypeOK /\ IsFiniteSet(bus) => Counts
<1> SUFFICES ASSUME TypeOK, IsFiniteSet(bus) PROVE Counts
  OBVIOUS
<1>1. InHand \in 0..1 /\ LateOne \in 0..1 /\ Outage \in 0..1
  BY DEF InHand, LateOne, Outage, Num
<1>2. Copies(bus) \in Nat
  BY CopiesCount
<1>3. commands \in Nat
  BY EnoughIsNatural DEF TypeOK
<1>4. \A m, n \in Nat : m * n \in Nat
  OBVIOUS
<1>5. Troubles - troubles \in Nat
  BY DelayAssumption DEF TypeOK
<1>6. Budget \in Nat
  BY <1>4, <1>5, CountAssumption DEF Budget
<1> QED
  BY <1>1, <1>2, <1>3, <1>6, CountAssumption, DelayAssumption, LadderAssumption
  DEF TypeOK, Tokens, Counts

LEMMA NumbersNext == TypeOK' /\ IsFiniteSet(bus)' => Counts'
  BY Numbers, PTL

LEMMA Scaled ==
    ASSUME NEW m \in Nat, NEW n \in Nat
    PROVE  /\ (CriticalCount + 1) * n \in Nat
           /\ m <= n => (CriticalCount + 1) * m <= (CriticalCount + 1) * n
           /\ m < n => (CriticalCount + 1) * m + CriticalCount + 1 <= (CriticalCount + 1) * n
           /\ m <= n + 1 => (CriticalCount + 1) * m <= (CriticalCount + 1) * n + CriticalCount + 1
<1> DEFINE K == CriticalCount + 1
<1>1. K \in Nat /\ K = CriticalCount + 1
  BY CountAssumption
<1> HIDE DEF K
<1>2. \A a, b \in Nat : K * a \in Nat /\ (a <= b => K * a <= K * b) /\ K * (a + 1) = K * a + K
  <2> SUFFICES ASSUME NEW a \in Nat, NEW b \in Nat
               PROVE  K * a \in Nat /\ (a <= b => K * a <= K * b) /\ K * (a + 1) = K * a + K
    OBVIOUS
  <2>1. K * a \in Nat /\ K * (a + 1) = K * a + K
    BY <1>1
  <2>2. ASSUME a <= b PROVE K * a <= K * b
    <3>1. PICK d \in Nat : b = a + d
      <4>1. b - a \in Nat /\ b = a + (b - a)
        BY <2>2
      <4> QED
        BY <4>1
    <3>2. K * d \in Nat /\ K * b = K * a + K * d
      BY <1>1, <3>1
    <3> QED
      BY <2>1, <3>2
  <2> QED
    BY <2>1, <2>2
<1>3. (m < n => m + 1 <= n) /\ m + 1 \in Nat /\ n + 1 \in Nat
  OBVIOUS
<1>4. m < n => K * m + K <= K * n
  BY <1>2, <1>3
<1>5. m <= n + 1 => K * m <= K * n + K
  BY <1>2, <1>3
<1>6. (CriticalCount + 1) * n = K * n /\ (CriticalCount + 1) * m = K * m
  BY DEF K
<1> QED
  BY <1>1, <1>2, <1>4, <1>5, <1>6, CountAssumption

-----------------------------------------------------------------------------
\* Steps and their price.

\* A step that makes no more commands than the tokens had room for.
Neutral ==
    /\ troubles' = troubles
    /\ Tokens' <= Tokens /\ LateOne' <= LateOne
    /\ commands' + LateOne' + InHand' <= commands + LateOne + InHand
    /\ \A k \in 0..CriticalCount : Credit(k) => Credit(k)' \/ Tokens' < Tokens
    /\ StartedOver => \/ StartedOver' /\ commands' + LateOne' <= commands + LateOne
                      \/ Tokens' < Tokens

LEMMA MoveIsPaid ==
    ASSUME Counts, Counts', WithinBudget, Paid, Neutral
    PROVE  WithinBudget' /\ Paid'
<1> DEFINE C == CriticalCount
           before == (C + 1) * Tokens
           after  == (C + 1) * Tokens'
           late1  == LateOne'
           hand1  == InHand'
           weight1 == Weight'
           budget1 == Budget'
           tokens1 == Tokens'
           commands1 == commands'
<1>1. /\ before \in Nat /\ after \in Nat /\ after <= before
      /\ tokens1 < Tokens => after + C + 1 <= before
  BY Scaled DEF Neutral, Counts
<1>2. Weight = before + LateOne /\ weight1 = after + late1 /\ budget1 = Budget
  BY DEF Weight, Budget, Neutral
<1>3. C \in Nat /\ C' = C
  BY DEF Counts
<1>4. /\ InHand \in 0..1 /\ LateOne \in 0..1 /\ commands \in Nat /\ Budget \in Nat
      /\ hand1 \in 0..1 /\ late1 \in 0..1 /\ commands1 \in Nat
  BY DEF Counts
<1>5. late1 <= LateOne /\ commands1 + late1 + hand1 <= commands + LateOne + InHand
  BY DEF Neutral
<1>6. StartedOver => (StartedOver' /\ commands1 + late1 <= commands + LateOne) \/ tokens1 < Tokens
  BY DEF Neutral
<1>7. ASSUME NEW k \in 0..C, Credit(k) PROVE Credit(k)' \/ tokens1 < Tokens
  BY <1>7 DEF Neutral
<1>8. ASSUME weight1 <= budget1 PROVE WithinBudget'
  BY <1>8 DEF WithinBudget
<1>9. ASSUME NEW k \in 0..C, Credit(k)', commands1 + weight1 + hand1 - k <= budget1 PROVE Paid'
  BY <1>3, <1>9 DEF Paid
<1>10. ASSUME StartedOver', commands1 + weight1 - C <= budget1 PROVE Paid'
  BY <1>3, <1>10 DEF Paid
<1> HIDE DEF C, before, after, late1, hand1, weight1, budget1, tokens1, commands1
<1>11. WithinBudget'
  <2>1. Weight <= Budget
    BY DEF WithinBudget
  <2> QED
    BY <1>1, <1>2, <1>4, <1>5, <1>8, <2>1
<1>12. CASE tokens1 < Tokens
  <2>1. commands1 + weight1 + hand1 <= commands + Weight + InHand - C - 1
    BY <1>1, <1>2, <1>3, <1>4, <1>5, <1>12
  <2>2. commands + Weight + InHand - C - 1 <= Budget
    <3>1. CASE commands + Weight - C <= Budget
      BY <1>1, <1>2, <1>3, <1>4, <3>1
    <3>2. ASSUME NEW k \in 0..C, commands + Weight + InHand - k <= Budget
          PROVE  commands + Weight + InHand - C - 1 <= Budget
      BY <1>1, <1>2, <1>3, <1>4, <3>2
    <3> QED
      BY <3>1, <3>2 DEF Paid, C
  <2>3. 0 \in 0..C /\ commands1 + weight1 + hand1 - 0 <= budget1
    BY <1>1, <1>2, <1>3, <1>4, <2>1, <2>2
  <2>4. Credit(0)'
    BY DEF Credit
  <2> QED
    BY <1>9, <1>11, <2>3, <2>4
<1>13. CASE ~(tokens1 < Tokens) /\ StartedOver /\ commands + Weight - C <= Budget
  <2>1. commands1 + weight1 - C <= budget1
    BY <1>1, <1>2, <1>3, <1>4, <1>6, <1>13
  <2> QED
    BY <1>6, <1>10, <1>11, <1>13, <2>1
<1>14. ASSUME ~(tokens1 < Tokens), NEW k \in 0..C, Credit(k), commands + Weight + InHand - k <= Budget
       PROVE  Paid'
  <2>1. commands1 + weight1 + hand1 - k <= budget1
    BY <1>1, <1>2, <1>3, <1>4, <1>5, <1>14
  <2> QED
    BY <1>7, <1>9, <1>14, <2>1
<1> QED
  BY <1>11, <1>12, <1>13, <1>14 DEF Paid, C

\* An invocation that has still to give its command has one of its own.
LEMMA HeldCredit == TypeOK /\ Orderly /\ Pending => Credit(1)
<1> SUFFICES ASSUME TypeOK, Orderly, Pending PROVE Credit(1)
  OBVIOUS
<1>1. InTime
  BY DEF Orderly, InTime
<1>2. Series(1)
  <2>1. history[1] \in Nat /\ Round \in Nat
    BY CountAssumption, WindowAssumption, DelayAssumption DEF TypeOK, History, Round
  <2>2. \A j \in 1..1 : j = 1
    OBVIOUS
  <2>3. history[1] <= history[1] + (1 - 1) * Round
    BY <2>1
  <2> QED
    BY <2>2, <2>3 DEF Series
<1>3. 1 < CriticalCount /\ ~(job.took /\ Stops)
  BY CountAssumption, LadderAssumption DEF Pending
<1> QED
  BY <1>1, <1>2, <1>3 DEF Credit

LEMMA HeldCreditNext == TypeOK' /\ Orderly' /\ Pending' => Credit(1)'
  BY HeldCredit, PTL

\* A trouble pays for one token and one late request more.
LEMMA TroubleIsPaid ==
    ASSUME Counts, Counts', TypeOK', Orderly', WithinBudget, GoesWrong,
           Tokens' <= Tokens + 1, LateOne' <= LateOne + 1
    PROVE  WithinBudget' /\ Paid'
<1> DEFINE C == CriticalCount
           before == (C + 1) * Tokens
           after  == (C + 1) * Tokens'
           late1  == LateOne'
           hand1  == InHand'
           weight1 == Weight'
           budget1 == Budget'
<1>1. before \in Nat /\ after \in Nat /\ after <= before + C + 1
  BY Scaled DEF Counts
<1>2. Weight = before + LateOne /\ weight1 = after + late1
  BY DEF Weight
<1>3. budget1 = Budget + C + 2
  <2> DEFINE n == Troubles - troubles
             K == C + 2
  <2>1. n \in Nat /\ K \in Nat /\ Troubles' - troubles' = n + 1 /\ C' = C
    BY DEF GoesWrong, Counts
  <2>2. Budget = K * n /\ budget1 = K * (n + 1)
    BY <2>1 DEF Budget
  <2>3. K = C + 2 /\ C \in Nat
    BY DEF Counts
  <2> HIDE DEF n, K, C, budget1
  <2>4. K * (n + 1) = K * n + K
    BY <2>1
  <2> QED
    BY <2>1, <2>2, <2>3, <2>4
<1>4. /\ C \in Nat /\ C > 1 /\ C' = C
      /\ LateOne \in 0..1 /\ late1 \in 0..1 /\ late1 <= LateOne + 1
      /\ Budget \in Nat /\ commands' = 0
  BY DEF Counts, GoesWrong
<1>5. ASSUME weight1 <= budget1 PROVE WithinBudget'
  BY <1>5 DEF WithinBudget
<1>6. ASSUME NEW k \in 0..C, Credit(k)', 0 + weight1 + hand1 - k <= budget1 PROVE Paid'
  BY <1>4, <1>6 DEF Paid
<1>7. (hand1 = 0 /\ Credit(0)') \/ (hand1 = 1 /\ Credit(1)')
  <2>1. Pending' => hand1 = 1 /\ Credit(1)'
    BY HeldCreditNext DEF InHand, Num
  <2>2. ~Pending' => hand1 = 0 /\ Credit(0)'
    BY DEF InHand, Num, Credit
  <2> QED
    BY <2>1, <2>2
<1> HIDE DEF C, before, after, late1, hand1, weight1, budget1
<1>8. weight1 <= budget1
  <2>1. Weight <= Budget
    BY DEF WithinBudget
  <2> QED
    BY <1>1, <1>2, <1>3, <1>4, <2>1
<1>9. weight1 \in Nat /\ budget1 \in Nat /\ 0 \in 0..C /\ 1 \in 0..C
  BY <1>1, <1>2, <1>3, <1>4
<1>10. CASE hand1 = 0 /\ Credit(0)'
  <2>1. 0 + weight1 + hand1 - 0 <= budget1
    BY <1>8, <1>9, <1>10
  <2> QED
    BY <1>5, <1>6, <1>8, <1>9, <1>10, <2>1
<1>11. CASE hand1 = 1 /\ Credit(1)'
  <2>1. 0 + weight1 + hand1 - 1 <= budget1
    BY <1>8, <1>9, <1>11
  <2> QED
    BY <1>5, <1>6, <1>8, <1>9, <1>11, <2>1
<1> QED
  BY <1>7, <1>10, <1>11

-----------------------------------------------------------------------------
\* Facts about the parts of the state that the accounts look at.

LEMMA HistoryEntries ==
    ASSUME NEW h \in History
    PROVE  /\ Recorded(h)[1] = 0
           /\ \A k \in 2..CriticalCount : Recorded(h)[k] = h[k - 1]
           /\ \A k \in 1..CriticalCount :
                /\ h[k] \in Nat /\ h[k] <= TenMinutes
                /\ Older(h)[k] = IF h[k] < TenMinutes THEN h[k] + 1 ELSE TenMinutes
                /\ NoFailures[k] = TenMinutes
           /\ 1 \in 1..CriticalCount
<1> USE WindowAssumption, CountAssumption DEF History
<1>1. 1 \in 1..CriticalCount /\ Recorded(h)[1] = 0
  BY DEF Recorded
<1>2. ASSUME NEW k \in 2..CriticalCount PROVE Recorded(h)[k] = h[k - 1]
  BY DEF Recorded
<1>3. ASSUME NEW k \in 1..CriticalCount
      PROVE  /\ h[k] \in Nat /\ h[k] <= TenMinutes
             /\ Older(h)[k] = IF h[k] < TenMinutes THEN h[k] + 1 ELSE TenMinutes
             /\ NoFailures[k] = TenMinutes
  BY DEF Older, NoFailures
<1> QED
  BY <1>1, <1>2, <1>3

\* What a delivery, a tick and the end of an invocation make of the job.
LEMMA JobSteps ==
    ASSUME TypeOK
    PROVE  /\ NoJob.action = "none" /\ ~NoJob.took
           /\ job.action # "none" => job # NoJob
           /\ \A e \in bus : Deliver(e) =>
                /\ job'.action = ActionFor("crash", Severity(Recorded(history)))
                /\ job'.action \in Actions
                /\ job'.age = 0 /\ ~job'.took
           /\ Tick => /\ job'.action = job.action /\ job'.took = job.took
                      /\ job # NoJob => job'.age = job.age + 1
                      /\ job = NoJob => job' = job
           /\ TakesEffect => job'.action = job.action /\ job'.took
<1>1. NoJob.action = "none" /\ ~NoJob.took
  BY DEF NoJob
<1>2. ASSUME NEW e \in bus, Deliver(e)
      PROVE  /\ job'.action = ActionFor("crash", Severity(Recorded(history)))
             /\ job'.action \in Actions
             /\ job'.age = 0 /\ ~job'.took
  BY <1>2, SharedTypes DEF Deliver
<1>3. ASSUME Tick
      PROVE  /\ job'.action = job.action /\ job'.took = job.took
             /\ job # NoJob => job'.age = job.age + 1
             /\ job = NoJob => job' = job
  <2>1. CASE job = NoJob
    BY <1>3, <2>1 DEF Tick
  <2>2. CASE job # NoJob
    <3>1. job \in Job /\ job.age + 1 \in 0..JobBound
      BY <1>3, <2>2, DelayAssumption DEF Tick, TypeOK, Job
    <3>2. job' = [job EXCEPT !.age = job.age + 1]
      BY <1>3, <2>2 DEF Tick
    <3> QED
      BY <2>2, <3>1, <3>2, JobFields
  <2> QED
    BY <2>1, <2>2
<1>4. ASSUME TakesEffect PROVE job'.action = job.action /\ job'.took
  BY <1>4, JobFields DEF TakesEffect, TypeOK, Job
<1> QED
  BY <1>1, <1>2, <1>3, <1>4

LEMMA OrderlyStep == TypeOK /\ Orderly /\ [Next]_vars => Orderly'
<1> SUFFICES ASSUME TypeOK, Orderly, [Next]_vars PROVE Orderly'
  OBVIOUS
<1> USE JobSteps DEF Orderly
<1>1. ASSUME UNCHANGED <<job, history, flags, container>> PROVE Orderly'
  BY <1>1 DEF Pending
<1>2. ASSUME NEW flag \in {"crashed", "slow"}, Misbehaves(flag) PROVE Orderly'
  BY <1>2 DEF Misbehaves, Pending
<1>3. CASE Recovers
  BY <1>3 DEF Recovers, Pending
<1>4. CASE Started
  BY <1>4 DEF Started, Pending
<1>5. CASE Request \/ GatewayRestarts \/ Reports \/ SeesUp \/ MonitorRestarts \/ UNCHANGED vars
  BY <1>1, <1>5 DEF Request, GatewayRestarts, Reports, SeesUp, MonitorRestarts, vars
<1>6. ASSUME NEW e \in bus, Deliver(e) PROVE Orderly'
  <2>1. history'[1] = 0 /\ job'.age = 0 /\ job'.action # "none"
    BY <1>6, HistoryEntries DEF Deliver, TypeOK, Actions
  <2> QED
    BY <1>6, <2>1 DEF Deliver
<1>7. CASE TakesEffect
  BY <1>7 DEF TakesEffect, Docker, Pending
<1>8. CASE Succeeds \/ Fails \/ ColdStart
  BY <1>8 DEF Succeeds, Fails, ColdStart, Pending
<1>9. CASE Repeats
  BY <1>9 DEF Repeats, Docker, Pending
<1>10. CASE LateCommand
  BY <1>10 DEF LateCommand, Docker, Pending
<1>11. CASE Tick
  <2>1. Pending' => Pending /\ job'.age = job.age + 1
    BY <1>11 DEF Pending
  <2>2. history'[1] = IF history[1] < TenMinutes THEN history[1] + 1 ELSE TenMinutes
    BY <1>11, HistoryEntries DEF Tick, TypeOK
  <2>3. history[1] \in Nat /\ job.age \in Nat /\ history[1] <= TenMinutes
    BY HistoryEntries DEF TypeOK
  <2>4. Pending' => history'[1] <= job'.age
    <3>1. Pending => history[1] <= job.age
      OBVIOUS
    <3> QED
      BY <2>1, <2>2, <2>3, <3>1, WindowAssumption
  <2>5. job'.action = "none" => job' = NoJob
    BY <1>11
  <2>6. container' # "running" => flags' = {}
    BY <1>11 DEF Tick
  <2> QED
    BY <2>4, <2>5, <2>6
<1> QED
  BY <1>2, <1>3, <1>4, <1>5, <1>6, <1>7, <1>8, <1>9, <1>10, <1>11 DEF Next, Monitors, Handles

-----------------------------------------------------------------------------
\* The steps that are free.

\* As long as the job and the history stay what they are, so does the credit,
\* if a token is still in time.
LEMMA CreditKept ==
    ASSUME job' = job, history' = history, InTime => InTime' \/ Tokens' < Tokens,
           NEW k \in 0..CriticalCount, Credit(k)
    PROVE  Credit(k)' \/ Tokens' < Tokens
  BY DEF Credit, Pending, Stops, Series

\* A step of the container, of the gateway, or of the monitor, after which the
\* service is up or as it was.
LEMMA QuietIsNeutral ==
    ASSUME TypeOK, IsFiniteSet(bus),
           UNCHANGED <<bus, history, job, late, commands, troubles>>,
           Unreported' => Unreported /\ UNCHANGED <<container, starting>>,
           container = "stopped" => container' = "stopped"
    PROVE  IsFiniteSet(bus') /\ Neutral
<1>1. IsFiniteSet(bus') /\ Copies(bus) \in Nat /\ Copies(bus') = Copies(bus)
  BY CopiesCount
<1>2. Pending' = Pending /\ Stops' = Stops /\ InHand' = InHand /\ LateOne' = LateOne
  BY DEF Pending, Stops, InHand, LateOne, Num
<1>3. Tokens' <= Tokens /\ (Unreported /\ ~Unreported' => Tokens' < Tokens)
  BY <1>1 DEF Tokens, InHand, LateOne, Outage, Num, Pending
<1>4. InTime => InTime' \/ Tokens' < Tokens
  BY <1>3 DEF InTime, Pending
<1>5. \A k \in 0..CriticalCount : Credit(k) => Credit(k)' \/ Tokens' < Tokens
  BY <1>4, CreditKept
<1>6. StartedOver => StartedOver'
  BY DEF StartedOver, Pending, Stops
<1>7. /\ LateOne' <= LateOne /\ commands' + LateOne' <= commands + LateOne
      /\ commands' + LateOne' + InHand' <= commands + LateOne + InHand
  BY EnoughIsNatural DEF LateOne, InHand, Num, Pending, TypeOK
<1> QED
  BY <1>1, <1>3, <1>5, <1>6, <1>7 DEF Neutral

LEMMA QuietSteps ==
    ASSUME TypeOK, IsFiniteSet(bus), Orderly,
           Recovers \/ Started \/ Request \/ SeesUp \/ UNCHANGED vars
    PROVE  IsFiniteSet(bus') /\ Neutral
<1>1. UNCHANGED <<bus, history, job, late, commands, troubles>>
  BY DEF Recovers, Started, Request, SeesUp, vars
<1>2. CASE Recovers \/ Started \/ SeesUp
  <2>1. ~Unreported' /\ container # "stopped"
    BY <1>2 DEF Recovers, Started, SeesUp, Orderly, Unreported, Healthy
  <2> QED
    BY <1>1, <2>1, QuietIsNeutral
<1>3. CASE Request \/ UNCHANGED vars
  <2>1. UNCHANGED <<flags, container, starting, lastSent>>
    BY <1>3 DEF Request, vars
  <2>2. Unreported' = Unreported
    BY <1>1, <2>1 DEF Unreported, Healthy, BackInTime, Pending
  <2> QED
    BY <1>1, <2>1, <2>2, QuietIsNeutral
<1> QED
  BY <1>2, <1>3

\* A check that finds the service down outside the cooldown turns the failure
\* into an event: the service cannot be on its way back (the monitor's
\* cooldown is longer than a round).
LEMMA ReportTurns ==
    ASSUME TypeOK, Reports
    PROVE  /\ Unreported
           /\ \A e \in bus' : e.age = 0 => ~Unreported'
<1> USE DelayAssumption DEF TypeOK
<1>1. /\ ~Healthy /\ ~Healthy' /\ lastSent = Cooldown /\ lastSent' = 0
      /\ UNCHANGED <<container, starting, job>>
  BY DEF Reports, MaySend, Healthy
<1>2. \A e \in bus : e.age <= EventDelay /\ e.age \in Nat
  BY DEF Event
<1>3. job.age \in Nat /\ job.age <= JobBound /\ starting \in Nat /\ starting <= StartBound
  OBVIOUS
<1>4. ~BackInTime
  BY <1>1, <1>2, <1>3 DEF BackInTime, Round
<1>5. ASSUME NEW e \in bus', e.age = 0 PROVE BackInTime'
  <2>1. 0 + Round < 0 + Cooldown /\ 0 + StartBound < starting + Cooldown
    BY <1>3 DEF Round
  <2> QED
    BY <1>1, <1>5, <2>1 DEF BackInTime
<1> QED
  BY <1>1, <1>4, <1>5 DEF Unreported

LEMMA ReportIsNeutral ==
    ASSUME TypeOK, TypeOK', IsFiniteSet(bus), Orderly, Reports, UNCHANGED <<commands, troubles>>
    PROVE  IsFiniteSet(bus') /\ Neutral
<1> DEFINE e == [age |-> 0, twice |-> FALSE]
<1>1. bus' = bus \cup {e}
  BY DEF Reports, GoesWrong, TypeOK
<1>2. e \in bus' /\ e.age = 0 /\ ~e.twice
  BY <1>1
<1> HIDE DEF e
<1>3. IsFiniteSet(bus') /\ Copies(bus') <= Copies(bus) + 1
  BY <1>1, <1>2, CopiesAdded
<1>4. Copies(bus) \in Nat /\ Copies(bus') \in Nat
  BY <1>3, CopiesCount
<1>5. UNCHANGED <<container, starting, history, job, late>>
  BY DEF Reports
<1>6. Unreported /\ ~Unreported'
  BY <1>2, ReportTurns
<1>7. Tokens' <= Tokens
  BY <1>3, <1>4, <1>5, <1>6 DEF Tokens, InHand, LateOne, Outage, Num, Pending
<1>8. InTime => InTime'
  <2>1. /\ history[1] \in Nat /\ starting \in Nat /\ starting <= StartBound
        /\ JobBound \in Nat /\ StartBound \in Nat
    BY HistoryEntries, DelayAssumption DEF TypeOK
  <2>2. history[1] <= JobBound + starting => history'[1] <= JobBound + StartBound + e.age
    BY <1>2, <1>5, <2>1
  <2> QED
    BY <1>1, <1>2, <1>5, <2>2 DEF InTime, Pending
<1>9. \A k \in 0..CriticalCount : Credit(k) => Credit(k)' \/ Tokens' < Tokens
  BY <1>5, <1>8, CreditKept
<1>10. StartedOver => StartedOver'
  BY <1>5 DEF StartedOver, Pending, Stops
<1>11. /\ LateOne' <= LateOne /\ commands' + LateOne' <= commands + LateOne
       /\ commands' + LateOne' + InHand' <= commands + LateOne + InHand
  BY <1>5, EnoughIsNatural DEF LateOne, InHand, Num, Pending, TypeOK
<1> QED
  BY <1>3, <1>7, <1>9, <1>10, <1>11 DEF Neutral

-----------------------------------------------------------------------------
\* The steps that something going wrong has paid for.

LEMMA ReportTrouble ==
    ASSUME TypeOK, IsFiniteSet(bus), Reports, GoesWrong
    PROVE  IsFiniteSet(bus') /\ Tokens' <= Tokens + 1 /\ LateOne' <= LateOne + 1
<1> DEFINE e == [age |-> 0, twice |-> TRUE]
<1>1. UNCHANGED <<job, late>>
  BY DEF Reports
<1>2. CASE bus' = bus
  <2>1. IsFiniteSet(bus') /\ Copies(bus) \in Nat /\ Copies(bus') = Copies(bus)
    BY <1>2, CopiesCount
  <2> QED
    BY <1>1, <2>1, ReportTurns DEF Tokens, InHand, LateOne, Outage, Num, Pending
<1>3. CASE bus' = bus \cup {e}
  <2>1. e \in bus' /\ e.age = 0
    BY <1>3
  <2> HIDE DEF e
  <2>2. IsFiniteSet(bus') /\ Copies(bus') <= Copies(bus) + 2
    BY <1>3, CopiesAdded
  <2>3. Copies(bus) \in Nat /\ Copies(bus') \in Nat
    BY <2>2, CopiesCount
  <2>4. Unreported /\ ~Unreported'
    BY <2>1, ReportTurns
  <2> QED
    BY <1>1, <2>2, <2>3, <2>4 DEF Tokens, InHand, LateOne, Outage, Num, Pending
<1>4. CASE bus' = bus \cup {[age |-> 0, twice |-> FALSE]} /\ UNCHANGED <<commands, troubles>>
  BY <1>4 DEF GoesWrong, TypeOK
<1> QED
  BY <1>2, <1>3, <1>4 DEF Reports

\* A crash, a slow service, a restart of the gateway or of the monitor and a
\* repeated command may make the service fail, and no more.
LEMMA FailureTrouble ==
    ASSUME TypeOK, IsFiniteSet(bus), UNCHANGED <<bus, job, late>>
    PROVE  IsFiniteSet(bus') /\ Tokens' <= Tokens + 1 /\ LateOne' <= LateOne + 1
<1>1. IsFiniteSet(bus') /\ Copies(bus) \in Nat /\ Copies(bus') = Copies(bus)
  BY CopiesCount
<1> QED
  BY <1>1 DEF Tokens, InHand, LateOne, Outage, Num, Pending

\* An invocation that had still to give its command may leave a request behind
\* and the failure as well: two for one.  Any other leaves one of them.
LEMMA FailsTrouble ==
    ASSUME TypeOK, IsFiniteSet(bus), Fails
    PROVE  IsFiniteSet(bus') /\ Tokens' <= Tokens + 1 /\ LateOne' <= LateOne + 1
<1>1. IsFiniteSet(bus') /\ Copies(bus) \in Nat /\ Copies(bus') = Copies(bus)
  BY CopiesCount DEF Fails
<1>2. ~Pending'
  BY JobSteps DEF Fails, Pending
<1>3. ~Pending => (Unreported' => Unreported)
  BY <1>2 DEF Fails, Unreported, Healthy, BackInTime
<1> QED
  BY <1>1, <1>2, <1>3 DEF Tokens, InHand, LateOne, Outage, Num

LEMMA ColdStartTrouble ==
    ASSUME TypeOK, IsFiniteSet(bus), Orderly, ColdStart
    PROVE  IsFiniteSet(bus') /\ Tokens' <= Tokens + 1 /\ LateOne' <= LateOne + 1
<1> DEFINE e == [age |-> 0, twice |-> FALSE]
<1>1. ~Pending' /\ late' = late
  BY JobSteps DEF ColdStart, Pending
<1>2. ~Pending => (Unreported' => Unreported)
  <2>1. \A f \in bus : f \in bus'
    BY DEF ColdStart
  <2> QED
    BY <2>1 DEF ColdStart, Unreported, Healthy, BackInTime
<1>3. CASE bus' = bus
  <2>1. IsFiniteSet(bus') /\ Copies(bus) \in Nat /\ Copies(bus') = Copies(bus)
    BY <1>3, CopiesCount
  <2> QED
    BY <1>1, <1>2, <2>1 DEF Tokens, InHand, LateOne, Outage, Num
<1>4. CASE bus' = bus \cup {e}
  <2>1. ~e.twice
    OBVIOUS
  <2> HIDE DEF e
  <2>2. IsFiniteSet(bus') /\ Copies(bus') <= Copies(bus) + 1
    BY <1>4, <2>1, CopiesAdded
  <2>3. Copies(bus) \in Nat /\ Copies(bus') \in Nat
    BY <2>2, CopiesCount
  <2> QED
    BY <1>1, <1>2, <2>2, <2>3 DEF Tokens, InHand, LateOne, Outage, Num
<1> QED
  BY <1>3, <1>4 DEF ColdStart

-----------------------------------------------------------------------------
\* The docker commands.

\* A service that would have been up before the next report is so as well if
\* it is restarted at once.
LEMMA RestartInTime ==
    ASSUME TypeOK, container = "stopped", ~Unreported,
           Docker("restart_service"), lastSent' = lastSent
    PROVE  ~Unreported'
<1> USE DelayAssumption DEF TypeOK
<1>1. BackInTime
  BY DEF Unreported, Healthy
<1>2. \A e \in bus : e.age <= EventDelay /\ e.age \in Nat
  BY DEF Event
<1>3. job.age \in Nat /\ job.age <= JobBound
  OBVIOUS
<1>4. lastSent + StartBound < 0 + Cooldown
  BY <1>1, <1>2, <1>3 DEF BackInTime, Round
<1>5. container' = "starting" /\ starting' = 0
  BY DEF Docker
<1> QED
  BY <1>4, <1>5 DEF Unreported, BackInTime

\* Whoever gives a command has one token, or late request, less.
LEMMA OneCommand ==
    ASSUME TypeOK, commands' \in {commands, UpTo(Enough, commands + 1)}
    PROVE  \A n \in Nat : /\ commands' + 0 <= commands + 1
                          /\ commands' + 0 + n <= commands + 1 + n
                          /\ commands' + n + 0 <= commands + n + 1
<1> DEFINE made == commands'
<1>1. commands \in Nat /\ made \in Nat /\ made <= commands + 1
  BY EnoughIsNatural DEF UpTo, TypeOK
<1> HIDE DEF made
<1>2. \A n \in Nat : /\ made + 0 <= commands + 1
                     /\ made + 0 + n <= commands + 1 + n
                     /\ made + n + 0 <= commands + n + 1
  BY <1>1
<1> QED
  BY <1>2 DEF made

LEMMA LateCommandIsNeutral ==
    ASSUME TypeOK, TypeOK', IsFiniteSet(bus), LateCommand
    PROVE  IsFiniteSet(bus') /\ Neutral
<1>1. /\ UNCHANGED <<lastSent, bus, history, job, troubles>>
      /\ late # "none" /\ late' = "none" /\ late \in {"restart_service", "enable_fallback"}
  BY DEF LateCommand, TypeOK, Actions
<1>2. IsFiniteSet(bus') /\ Copies(bus) \in Nat /\ Copies(bus') = Copies(bus)
  BY <1>1, CopiesCount
<1>3. commands' \in {commands, UpTo(Enough, commands + 1)}
  BY DEF LateCommand
<1>4. /\ LateOne' <= LateOne /\ commands' + LateOne' <= commands + LateOne
      /\ commands' + LateOne' + InHand' <= commands + LateOne + InHand
  <2>1. InHand' = InHand /\ InHand \in Nat
    BY <1>1 DEF InHand, Num, Pending
  <2>2. LateOne = 1 /\ LateOne' = 0
    BY <1>1 DEF LateOne, Num
  <2>3. commands' + 0 <= commands + 1 /\ commands' + 0 + InHand <= commands + 1 + InHand
    BY <1>3, <2>1, OneCommand
  <2> QED
    BY <2>1, <2>2, <2>3
<1>5. Tokens' <= Tokens /\ ((Unreported' => Unreported) => Tokens' < Tokens)
  BY <1>1, <1>2 DEF Tokens, InHand, LateOne, Outage, Num, Pending
<1>6. InTime => InTime' \/ Tokens' < Tokens
  BY <1>1, <1>5 DEF InTime, Pending
<1>7. \A k \in 0..CriticalCount : Credit(k) => Credit(k)' \/ Tokens' < Tokens
  BY <1>1, <1>6, CreditKept
<1>8. StartedOver => StartedOver' \/ Tokens' < Tokens
  <2>1. CASE UNCHANGED <<flags, container, starting>>
    <3>1. Unreported' => Unreported
      BY <1>1, <2>1 DEF Unreported, Healthy, BackInTime, Pending
    <3> QED
      BY <1>5, <3>1
  <2>2. CASE Docker("restart_service")
    <3>1. container = "stopped" => (Unreported' => Unreported)
      BY <1>1, <2>2, RestartInTime
    <3> QED
      BY <1>5, <3>1 DEF StartedOver
  <2>3. CASE Docker("enable_fallback")
    BY <1>1, <2>3 DEF Docker, StartedOver, Pending, Stops
  <2> QED
    BY <1>1, <2>1, <2>2, <2>3 DEF LateCommand
<1> QED
  BY <1>1, <1>2, <1>4, <1>5, <1>7, <1>8 DEF Neutral

\* An invocation that restarts the service hands its token to the failure that
\* the restart may be taken for.
LEMMA RestartIsNeutral ==
    ASSUME TypeOK, TypeOK', IsFiniteSet(bus), Orderly, TakesEffect, ~Stops
    PROVE  IsFiniteSet(bus') /\ Neutral
<1>1. /\ UNCHANGED <<lastSent, bus, history, late, troubles>>
      /\ job'.action = job.action /\ job'.took /\ ~job.took
      /\ Docker(job.action)
  BY JobSteps DEF TakesEffect
<1>2. job.action = "restart_service"
  BY DEF TakesEffect, Orderly, Stops, TypeOK, Actions
<1>3. Pending /\ ~Pending' /\ ~Stops'
  BY <1>1, <1>2 DEF Pending, Stops
<1>4. IsFiniteSet(bus') /\ Copies(bus) \in Nat /\ Copies(bus') = Copies(bus)
  BY <1>1, CopiesCount
<1>5. commands' = UpTo(Enough, commands + 1)
  BY DEF TakesEffect
<1>6. LateOne' <= LateOne /\ commands' + LateOne' + InHand' <= commands + LateOne + InHand
  <2>1. LateOne' = LateOne /\ LateOne \in Nat
    BY <1>1 DEF LateOne, Num
  <2>2. InHand = 1 /\ InHand' = 0
    BY <1>3 DEF InHand, Num
  <2>3. commands' + LateOne + 0 <= commands + LateOne + 1
    BY <1>5, <2>1, OneCommand
  <2> QED
    BY <2>1, <2>2, <2>3
<1>7. Tokens' <= Tokens /\ ((Unreported' => Unreported) => Tokens' < Tokens)
  BY <1>1, <1>3, <1>4 DEF Tokens, InHand, LateOne, Outage, Num
<1>8. InTime => InTime' \/ Tokens' < Tokens
  <2>1. container' = "starting" /\ starting' = 0
    BY <1>1, <1>2 DEF Docker
  <2>2. CASE \E e \in bus : history[1] <= JobBound + StartBound + e.age
    BY <1>1, <2>2 DEF InTime
  <2>3. CASE history[1] <= job.age
    <3>1. history[1] <= JobBound + starting'
      BY <2>1, <2>3, HistoryEntries, DelayAssumption DEF TypeOK
    <3> QED
      BY <1>1, <1>7, <2>1, <3>1 DEF InTime
  <2>4. CASE Unreported
    BY <1>7, <2>4
  <2> QED
    BY <2>2, <2>3, <2>4 DEF InTime
<1>9. ASSUME NEW k \in 0..CriticalCount, Credit(k) PROVE Credit(k)' \/ Tokens' < Tokens
  <2>1. k = 0 \/ (k < CriticalCount /\ InTime /\ Series(k))
    BY <1>9 DEF Credit
  <2>2. Series(k) => Series(k)'
    BY <1>1 DEF Series
  <2> QED
    BY <1>3, <1>8, <2>1, <2>2 DEF Credit
<1>10. StartedOver => Tokens' < Tokens
  <2>1. container = "stopped" => (Unreported' => Unreported)
    BY <1>1, <1>2, RestartInTime
  <2> QED
    BY <1>7, <2>1 DEF StartedOver
<1> QED
  BY <1>1, <1>4, <1>6, <1>7, <1>9, <1>10 DEF Neutral

\* The answer of docker ends the invocation; a stop has started the ladder
\* over.
LEMMA SucceedsIsNeutral ==
    ASSUME TypeOK, TypeOK', IsFiniteSet(bus), Succeeds
    PROVE  IsFiniteSet(bus') /\ Neutral
<1>1. /\ UNCHANGED <<flags, container, starting, lastSent, bus, late, commands, troubles>>
      /\ job.took /\ job' = NoJob
      /\ history' = IF Stops THEN NoFailures ELSE history
  BY DEF Succeeds, ClearsHistory, Stops
<1>2. ~Pending /\ ~Pending' /\ job # NoJob /\ ~job'.took
  BY <1>1, JobSteps DEF Pending
<1>3. IsFiniteSet(bus') /\ Copies(bus) \in Nat /\ Copies(bus') = Copies(bus)
  BY <1>1, CopiesCount
<1>4. Unreported' = Unreported
  BY <1>1, <1>2 DEF Unreported, Healthy, BackInTime
<1>5. Tokens' <= Tokens
  BY <1>1, <1>2, <1>3, <1>4 DEF Tokens, InHand, LateOne, Outage, Num
<1>6. /\ LateOne' <= LateOne /\ commands' + LateOne' <= commands + LateOne
      /\ commands' + LateOne' + InHand' <= commands + LateOne + InHand
  BY <1>1, <1>2, EnoughIsNatural DEF LateOne, InHand, Num, TypeOK
<1>7. ASSUME NEW k \in 0..CriticalCount, Credit(k) PROVE Credit(k)'
  <2>1. CASE k = 0
    BY <2>1 DEF Credit
  <2>2. CASE k # 0
    <3>1. k < CriticalCount /\ InTime /\ Series(k) /\ history' = history
      BY <1>1, <1>2, <1>7, <2>2 DEF Credit
    <3>2. InTime'
      BY <1>1, <1>2, <1>4, <3>1 DEF InTime
    <3>3. Series(k)'
      BY <3>1 DEF Series
    <3> QED
      BY <1>2, <3>1, <3>2, <3>3 DEF Credit
  <2> QED
    BY <2>1, <2>2
<1>8. StartedOver => StartedOver'
  BY <1>1, <1>2 DEF StartedOver
<1> QED
  BY <1>1, <1>3, <1>5, <1>6, <1>7, <1>8 DEF Neutral

LEMMA WithinKept ==
    ASSUME Counts, Counts', WithinBudget, troubles' = troubles,
           Tokens' <= Tokens, LateOne' <= LateOne
    PROVE  /\ WithinBudget' /\ Budget' = Budget
           /\ Weight \in Nat /\ Weight' \in Nat /\ Weight' <= Weight
<1> DEFINE before == (CriticalCount + 1) * Tokens
           after  == (CriticalCount + 1) * Tokens'
           late1  == LateOne'
           weight1 == Weight'
           budget1 == Budget'
<1>1. before \in Nat /\ after \in Nat /\ after <= before
  BY Scaled DEF Counts
<1>2. /\ Weight = before + LateOne /\ weight1 = after + late1 /\ budget1 = Budget
      /\ LateOne \in 0..1 /\ late1 \in 0..1 /\ late1 <= LateOne /\ Budget \in Nat
      /\ Weight <= Budget
  BY DEF Weight, Budget, Counts, WithinBudget
<1>3. ASSUME weight1 <= budget1 PROVE WithinBudget'
  BY <1>3 DEF WithinBudget
<1>4. ASSUME weight1 \in Nat, weight1 <= Weight PROVE Weight' \in Nat /\ Weight' <= Weight
  BY <1>4
<1>5. budget1 = Budget => Budget' = Budget
  OBVIOUS
<1> HIDE DEF before, after, late1, weight1, budget1
<1>6. Weight \in Nat /\ weight1 \in Nat /\ weight1 <= Weight /\ weight1 <= budget1
  BY <1>1, <1>2
<1> QED
  BY <1>2, <1>3, <1>4, <1>5, <1>6

\* The stop comes out of the credit of the commands before it.
LEMMA StopIsPaid ==
    ASSUME TypeOK, TypeOK', IsFiniteSet(bus), Orderly, WithinBudget, Paid, TakesEffect, Stops
    PROVE  IsFiniteSet(bus') /\ WithinBudget' /\ Paid'
<1>1. /\ UNCHANGED <<lastSent, bus, history, late, troubles>>
      /\ job'.action = job.action /\ job'.took /\ ~job.took
      /\ Docker("enable_fallback")
  BY JobSteps DEF TakesEffect, Stops
<1>2. Pending /\ ~Pending' /\ Stops' /\ StartedOver' /\ ~StartedOver
  BY <1>1, JobSteps DEF Pending, Stops, StartedOver, Docker
<1>3. IsFiniteSet(bus') /\ Copies(bus) \in Nat /\ Copies(bus') = Copies(bus)
  BY <1>1, CopiesCount
<1>4. Counts /\ Counts'
  BY <1>3, Numbers, NumbersNext
<1>5. Tokens' <= Tokens /\ LateOne' <= LateOne /\ InHand = 1
  BY <1>1, <1>2, <1>3 DEF Tokens, InHand, LateOne, Outage, Num
<1> DEFINE weight1 == Weight'
           budget1 == Budget'
           made    == commands'
           C       == CriticalCount
<1>6. /\ WithinBudget' /\ budget1 = Budget
      /\ Weight \in Nat /\ weight1 \in Nat /\ weight1 <= Weight
  BY <1>1, <1>4, <1>5, WithinKept
<1>7. /\ made \in Nat /\ made <= commands + 1
      /\ commands \in Nat /\ Budget \in Nat /\ C \in Nat
  BY <1>4, EnoughIsNatural DEF TakesEffect, UpTo, Counts
<1>8. PICK k \in 0..C : commands + Weight + 1 - k <= Budget
  BY <1>2, <1>5 DEF Paid
<1>9. ASSUME made + weight1 - C <= budget1 PROVE Paid'
  BY <1>2, <1>9 DEF Paid
<1> HIDE DEF weight1, budget1, made, C
<1>10. made + weight1 - C <= budget1
  BY <1>6, <1>7, <1>8
<1> QED
  BY <1>3, <1>6, <1>9, <1>10

\* A failure that is delivered in time is one more of its series, and the last
\* one of CriticalCount stops the service.
LEMMA CreditGrows ==
    ASSUME TypeOK, TypeOK', Orderly', NEW e \in bus, Deliver(e),
           NEW k \in 0..CriticalCount, Credit(k)
    PROVE  k + 1 \in 0..CriticalCount /\ Credit(k + 1)'
<1> USE DelayAssumption, CountAssumption, LadderAssumption
<1>1. /\ job = NoJob /\ history' = Recorded(history) /\ history \in History
      /\ job'.action = ActionFor("crash", Severity(history'))
      /\ job'.action # "none" /\ job'.age = 0 /\ ~job'.took
  BY JobSteps DEF Deliver, TypeOK, Actions
<1>2. ~Pending /\ ~job.took /\ Pending'
  BY <1>1, JobSteps DEF Pending
<1>3. CASE k = 0
  BY <1>2, <1>3, HeldCreditNext
<1>4. CASE k # 0
  <2>1. k \in 1..CriticalCount /\ k < CriticalCount /\ InTime /\ Series(k)
    BY <1>2, <1>4 DEF Credit
  <2>2. Round \in Nat /\ \A j \in 1..CriticalCount : history[j] \in Nat
    BY <1>1, HistoryEntries DEF Round
  <2>3. history[1] <= Round
    <3>1. /\ \A f \in bus : f.age \in Nat /\ f.age <= EventDelay
          /\ starting \in Nat /\ starting <= StartBound
      BY DEF TypeOK, Event
    <3> QED
      BY <1>2, <2>1, <2>2, <3>1 DEF InTime, Round
  <2>4. ASSUME NEW j \in 2..(k + 1) PROVE history'[j] <= (j - 1) * Round
    <3>1. j - 1 \in 1..k /\ history'[j] = history[j - 1] /\ history[j - 1] \in Nat
      BY <1>1, <2>1, <2>2, HistoryEntries
    <3>2. history[j - 1] <= history[1] + (j - 1 - 1) * Round
      BY <2>1, <3>1 DEF Series
    <3>3. (j - 1) * Round = (j - 1 - 1) * Round + Round /\ (j - 1 - 1) * Round \in Nat
      BY <2>2, <3>1
    <3> QED
      BY <2>2, <2>3, <3>1, <3>2, <3>3
  <2>5. CASE k + 1 < CriticalCount
    <3>1. InTime' /\ k + 1 \in 0..CriticalCount
      BY <1>1, <1>2, <2>5, HistoryEntries DEF InTime
    <3>2. Series(k + 1)'
      <4>1. ASSUME NEW j \in 1..(k + 1) PROVE history'[j] <= 0 + (j - 1) * Round
        <5>1. CASE j = 1
          BY <1>1, <2>2, <5>1, HistoryEntries
        <5>2. CASE j # 1
          <6>1. j \in 2..(k + 1) /\ history'[j] <= (j - 1) * Round
            BY <2>4, <5>2
          <6>2. (j - 1) * Round \in Nat
            BY <2>2
          <6> QED
            BY <6>1, <6>2
        <5> QED
          BY <5>1, <5>2
      <4>2. history'[1] = 0
        BY <1>1, HistoryEntries
      <4> QED
        BY <4>1, <4>2 DEF Series, Round
    <3> QED
      BY <1>1, <2>5, <3>1, <3>2 DEF Credit
  <2>6. CASE k + 1 = CriticalCount
    <3>1. history'[CriticalCount] <= (CriticalCount - 1) * Round
      BY <2>1, <2>4, <2>6
    <3>2. (CriticalCount - 1) * Round < TenMinutes
      <4>1. Round = EventDelay + JobBound + StartBound
        BY DEF Round
      <4> QED
        BY <4>1
    <3>3. (CriticalCount - 1) * Round \in Nat /\ history'[CriticalCount] \in Nat
      <4>1. history' \in History
        BY DEF TypeOK
      <4>2. history'[CriticalCount] \in Nat
        BY <4>1, HistoryEntries
      <4> QED
        BY <2>2, <4>2
    <3>4. history'[CriticalCount] < TenMinutes
      BY <3>1, <3>2, <3>3, WindowAssumption
    <3>5. Severity(history') = "CRITICAL"
      BY <3>4 DEF Severity, AtLeast
    <3> QED
      BY <1>1, <1>2, <2>6, <3>5 DEF Credit, Stops, ActionFor
  <2> QED
    BY <2>1, <2>5, <2>6
<1> QED
  BY <1>3, <1>4

\* After the successful stop the history is empty, and one failure restarts.
LEMMA StartsOverWithRestart ==
    ASSUME TypeOK, NEW e \in bus, Deliver(e), StartedOver
    PROVE  StartedOver'
<1> USE CountAssumption, LadderAssumption
<1>1. /\ job = NoJob /\ history' = Recorded(history) /\ history \in History
      /\ job'.action = ActionFor("crash", Severity(history'))
      /\ job'.action # "none" /\ ~job'.took /\ container' = container
  BY JobSteps DEF Deliver, TypeOK, Actions
<1>2. history = NoFailures
  BY <1>1, JobSteps DEF StartedOver, Pending
<1>3. ASSUME NEW k \in 2..CriticalCount PROVE history'[k] = TenMinutes
  <2>1. k - 1 \in 1..CriticalCount
    OBVIOUS
  <2> QED
    BY <1>1, <1>2, <2>1, HistoryEntries
<1>4. Severity(history') # "CRITICAL"
  <2>1. history'[CriticalCount] = TenMinutes
    BY <1>3
  <2> QED
    BY <2>1, WindowAssumption DEF Severity, AtLeast
<1>5. Pending' /\ ~Stops'
  BY <1>1, <1>4 DEF Pending, Stops, ActionFor
<1> QED
  BY <1>1, <1>3, <1>5 DEF StartedOver

LEMMA DeliveryIsPaid ==
    ASSUME TypeOK, TypeOK', IsFiniteSet(bus), Orderly', WithinBudget, Paid,
           NEW e \in bus, Deliver(e)
    PROVE  IsFiniteSet(bus') /\ WithinBudget' /\ Paid'
<1>1. /\ UNCHANGED <<flags, container, starting, lastSent, late, commands, troubles>>
      /\ job = NoJob /\ job'.action # "none" /\ job'.age = 0 /\ ~job'.took
      /\ bus' = (bus \ {e}) \cup (IF e.twice THEN {[e EXCEPT !.twice = FALSE]} ELSE {})
  BY JobSteps DEF Deliver, Actions
<1>2. ~Pending /\ Pending'
  BY <1>1, JobSteps DEF Pending
<1>3. IsFiniteSet(bus') /\ Copies(bus') <= Copies(bus) - 1
  BY <1>1, CopiesDelivered DEF TypeOK
<1>4. Copies(bus) \in Nat /\ Copies(bus') \in Nat
  BY <1>3, CopiesCount
<1>5. Counts /\ Counts'
  BY <1>3, Numbers, NumbersNext
<1>6. ASSUME ~Unreported PROVE ~Unreported'
  <2>1. CASE Healthy \/ container = "starting"
    BY <1>1, <1>6, <2>1 DEF Unreported, Healthy, BackInTime
  <2>2. CASE ~Healthy /\ container # "starting"
    <3>1. PICK f \in bus : lastSent + Round < f.age + Cooldown
      BY <1>2, <1>6, <2>2 DEF Unreported, BackInTime
    <3>2. f.age \in Nat /\ f.age <= EventDelay
      BY DEF TypeOK, Event
    <3>3. lastSent + JobBound + StartBound < 0 + Cooldown
      BY <3>1, <3>2, DelayAssumption DEF Round, TypeOK
    <3> QED
      BY <1>1, <1>2, <2>2, <3>3 DEF Unreported, BackInTime
  <2> QED
    BY <2>1, <2>2
<1>7. Tokens' <= Tokens /\ LateOne' <= LateOne /\ InHand = 0 /\ InHand' = 1
  BY <1>1, <1>2, <1>3, <1>4, <1>6 DEF Tokens, InHand, LateOne, Outage, Num
<1> DEFINE weight1 == Weight'
           budget1 == Budget'
           hand1   == InHand'
           C       == CriticalCount
<1>8. /\ WithinBudget' /\ budget1 = Budget /\ hand1 = 1
      /\ Weight \in Nat /\ weight1 \in Nat /\ weight1 <= Weight
      /\ commands \in Nat /\ Budget \in Nat /\ C \in Nat
  BY <1>1, <1>5, <1>7, WithinKept DEF Counts
<1>9. ASSUME StartedOver, commands + weight1 - C <= budget1 PROVE Paid'
  <2>1. StartedOver'
    BY <1>9, StartsOverWithRestart
  <2> QED
    BY <1>1, <1>9, <2>1 DEF Paid
<1>10. ASSUME NEW k \in 0..C, Credit(k), commands + weight1 + hand1 - (k + 1) <= budget1
       PROVE  Paid'
  <2>1. k + 1 \in 0..C /\ Credit(k + 1)'
    BY <1>10, CreditGrows
  <2> QED
    BY <1>1, <1>10, <2>1 DEF Paid
<1>11. \/ StartedOver /\ commands + Weight - C <= Budget
       \/ \E k \in 0..C : Credit(k) /\ commands + Weight + 0 - k <= Budget
  BY <1>7 DEF Paid
<1> HIDE DEF weight1, budget1, hand1, C
<1>12. CASE StartedOver /\ commands + Weight - C <= Budget
  <2>1. commands + weight1 - C <= budget1
    BY <1>8, <1>12
  <2> QED
    BY <1>3, <1>8, <1>9, <1>12, <2>1
<1>13. ASSUME NEW k \in 0..C, Credit(k), commands + Weight + 0 - k <= Budget
       PROVE  Paid'
  <2>1. commands + weight1 + hand1 - (k + 1) <= budget1
    BY <1>8, <1>13
  <2> QED
    BY <1>10, <1>13, <2>1
<1> QED
  BY <1>3, <1>8, <1>11, <1>12, <1>13

-----------------------------------------------------------------------------
\* Time.

LEMMA OlderNoFailures == Older(NoFailures) = NoFailures
  BY WindowAssumption DEF Older, NoFailures

LEMMA TickIsNeutral ==
    ASSUME TypeOK, TypeOK', IsFiniteSet(bus), Tick
    PROVE  IsFiniteSet(bus') /\ Neutral
<1> USE DelayAssumption, CountAssumption, WindowAssumption
<1>1. /\ UNCHANGED <<flags, container, late, commands, troubles>>
      /\ job'.action = job.action /\ job'.took = job.took
      /\ job # NoJob => job'.age = job.age + 1
      /\ job = NoJob => job' = job
      /\ lastSent' = UpTo(Cooldown, lastSent + 1)
      /\ starting' = IF container = "starting" THEN starting + 1 ELSE 0
      /\ history' = Older(history) /\ history \in History
      /\ bus \in SUBSET Event /\ \A e \in bus : e.age < EventDelay
      /\ bus' = {[e EXCEPT !.age = @ + 1] : e \in bus}
  BY JobSteps DEF Tick, TypeOK
<1>2. IsFiniteSet(bus') /\ Copies(bus') <= Copies(bus)
  BY <1>1, CopiesAged
<1>3. Copies(bus) \in Nat /\ Copies(bus') \in Nat
  BY <1>2, CopiesCount
<1>4. Pending' = Pending /\ Stops' = Stops /\ (Pending => job'.age = job.age + 1)
  BY <1>1, JobSteps DEF Pending, Stops
<1>5. ASSUME NEW e \in bus PROVE \E f \in bus' : f.age = e.age + 1
  <2>1. [e EXCEPT !.age = e.age + 1] \in bus' /\ [e EXCEPT !.age = e.age + 1].age = e.age + 1
    BY <1>1, EventFields
  <2> QED
    BY <2>1
<1>6. /\ lastSent \in Nat /\ lastSent' \in Nat /\ lastSent' <= lastSent + 1
      /\ starting \in Nat /\ job.age \in Nat /\ \A e \in bus : e.age \in Nat
  BY <1>1 DEF TypeOK, UpTo, Event
<1>7. ASSUME ~Unreported PROVE ~Unreported'
  <2>1. CASE Healthy
    BY <1>1, <2>1 DEF Unreported, Healthy
  <2>2. CASE BackInTime
    <3>1. CASE container = "starting" /\ lastSent + StartBound < starting + Cooldown
      BY <1>1, <1>6, <3>1 DEF Unreported, BackInTime
    <3>2. CASE container # "starting" /\ Pending
                 /\ lastSent + JobBound + StartBound < job.age + Cooldown
      BY <1>1, <1>4, <1>6, <3>2 DEF Unreported, BackInTime
    <3>3. ASSUME container # "starting", NEW e \in bus, lastSent + Round < e.age + Cooldown
          PROVE  ~Unreported'
      <4>1. PICK f \in bus' : f.age = e.age + 1
        BY <1>5
      <4>2. lastSent' + Round < f.age + Cooldown
        BY <1>6, <3>3, <4>1 DEF Round
      <4> QED
        BY <1>1, <3>3, <4>2 DEF Unreported, BackInTime, Round
    <3> QED
      BY <2>2, <3>1, <3>2, <3>3 DEF BackInTime
  <2> QED
    BY <1>7, <2>1, <2>2 DEF Unreported
<1>8. Tokens' <= Tokens /\ (Unreported /\ ~Unreported' => Tokens' < Tokens)
  BY <1>1, <1>2, <1>3, <1>4, <1>7 DEF Tokens, InHand, LateOne, Outage, Num
<1>9. /\ history[1] \in Nat /\ history'[1] \in Nat /\ history'[1] <= history[1] + 1
  BY <1>1, HistoryEntries
<1>10. InTime => InTime' \/ Tokens' < Tokens
  <2>1. ASSUME NEW e \in bus, history[1] <= JobBound + StartBound + e.age PROVE InTime'
    <3>1. PICK f \in bus' : f.age = e.age + 1
      BY <1>5
    <3>2. history'[1] <= JobBound + StartBound + f.age
      BY <1>6, <1>9, <2>1, <3>1
    <3> QED
      BY <3>2 DEF InTime
  <2>2. CASE Pending /\ history[1] <= job.age
    BY <1>4, <1>6, <1>9, <2>2 DEF InTime
  <2>3. CASE container = "starting" /\ Unreported /\ history[1] <= JobBound + starting
    <3>1. history'[1] <= JobBound + starting'
      BY <1>1, <1>6, <1>9, <2>3
    <3> QED
      BY <1>1, <1>8, <2>3, <3>1 DEF InTime
  <2> QED
    BY <2>1, <2>2, <2>3 DEF InTime
<1>11. ASSUME NEW k \in 0..CriticalCount, Series(k) PROVE Series(k)'
  <2>1. ASSUME NEW j \in 1..k PROVE history'[j] <= history'[1] + (j - 1) * Round
    <3>1. j \in 1..CriticalCount /\ (j - 1) * Round \in Nat
      BY DEF Round
    <3>2. history[j] <= history[1] + (j - 1) * Round
      BY <1>11 DEF Series
    <3> DEFINE more == (j - 1) * Round
    <3>3. more \in Nat /\ history[j] <= history[1] + more
      BY <3>1, <3>2
    <3> HIDE DEF more
    <3>4. history'[j] <= history'[1] + more
      BY <1>1, <3>1, <3>3, HistoryEntries
    <3> QED
      BY <3>4 DEF more
  <2> QED
    BY <2>1 DEF Series, Round
<1>12. ASSUME NEW k \in 0..CriticalCount, Credit(k) PROVE Credit(k)' \/ Tokens' < Tokens
  BY <1>1, <1>4, <1>10, <1>11, <1>12 DEF Credit
<1>13. StartedOver => StartedOver'
  <2>1. CASE job = NoJob /\ history = NoFailures
    BY <1>1, <2>1, OlderNoFailures DEF StartedOver
  <2>2. CASE job.took /\ Stops
    BY <1>1, <1>4, <2>2 DEF StartedOver
  <2>3. CASE Pending /\ ~Stops /\ \A k \in 2..CriticalCount : history[k] = TenMinutes
    <3>1. ASSUME NEW k \in 2..CriticalCount PROVE history'[k] = TenMinutes
      <4>1. k \in 1..CriticalCount /\ history[k] = TenMinutes
        BY <2>3
      <4> QED
        BY <1>1, <4>1, HistoryEntries
    <3> QED
      BY <1>1, <1>4, <2>3, <3>1 DEF StartedOver
  <2> QED
    BY <2>1, <2>2, <2>3 DEF StartedOver
<1>14. /\ LateOne' <= LateOne /\ commands' + LateOne' <= commands + LateOne
       /\ commands' + LateOne' + InHand' <= commands + LateOne + InHand
  BY <1>1, <1>4, EnoughIsNatural DEF LateOne, InHand, Num, TypeOK
<1> QED
  BY <1>1, <1>2, <1>8, <1>12, <1>13, <1>14 DEF Neutral

-----------------------------------------------------------------------------
\* The invariant.

LEMMA LoopInvStep == LoopInv /\ [Next]_vars => LoopInv'
<1> SUFFICES ASSUME LoopInv, [Next]_vars PROVE LoopInv'
  OBVIOUS
<1>1. /\ TypeOK /\ IsFiniteSet(bus) /\ Orderly /\ WithinBudget /\ Paid
      /\ TypeOK' /\ Orderly'
  BY TypeStep, OrderlyStep DEF LoopInv
<1>2. ASSUME IsFiniteSet(bus'), Neutral PROVE LoopInv'
  <2>1. Counts /\ Counts'
    BY <1>1, <1>2, Numbers, NumbersNext
  <2>2. WithinBudget' /\ Paid'
    BY <1>1, <1>2, <2>1, MoveIsPaid
  <2> QED
    BY <1>1, <1>2, <2>2 DEF LoopInv
<1>3. ASSUME IsFiniteSet(bus'), GoesWrong, Tokens' <= Tokens + 1, LateOne' <= LateOne + 1
      PROVE  LoopInv'
  <2>1. Counts /\ Counts'
    BY <1>1, <1>3, Numbers, NumbersNext
  <2>2. WithinBudget' /\ Paid'
    BY <1>1, <1>3, <2>1, TroubleIsPaid
  <2> QED
    BY <1>1, <1>3, <2>2 DEF LoopInv
<1>4. ASSUME IsFiniteSet(bus') /\ WithinBudget' /\ Paid' PROVE LoopInv'
  BY <1>1, <1>4 DEF LoopInv
<1>5. ASSUME NEW flag \in {"crashed", "slow"}, Misbehaves(flag) PROVE LoopInv'
  <2>1. GoesWrong /\ UNCHANGED <<bus, job, late>>
    BY <1>5 DEF Misbehaves
  <2> QED
    BY <1>1, <1>3, <2>1, FailureTrouble
<1>6. CASE GatewayRestarts \/ MonitorRestarts \/ Repeats
  <2>1. GoesWrong /\ UNCHANGED <<bus, job, late>>
    BY <1>6 DEF GatewayRestarts, MonitorRestarts, Repeats
  <2> QED
    BY <1>1, <1>3, <2>1, FailureTrouble
<1>7. CASE Recovers \/ Started \/ Request \/ SeesUp \/ UNCHANGED vars
  BY <1>1, <1>2, <1>7, QuietSteps
<1>8. CASE Reports
  <2>1. CASE UNCHANGED <<commands, troubles>>
    BY <1>1, <1>2, <1>8, <2>1, ReportIsNeutral
  <2>2. CASE GoesWrong
    BY <1>1, <1>3, <1>8, <2>2, ReportTrouble
  <2> QED
    BY <1>8, <2>1, <2>2 DEF Reports
<1>9. ASSUME NEW e \in bus, Deliver(e) PROVE LoopInv'
  BY <1>1, <1>4, <1>9, DeliveryIsPaid
<1>10. CASE TakesEffect
  <2>1. CASE Stops
    BY <1>1, <1>4, <1>10, <2>1, StopIsPaid
  <2>2. CASE ~Stops
    BY <1>1, <1>2, <1>10, <2>2, RestartIsNeutral
  <2> QED
    BY <2>1, <2>2
<1>11. CASE Succeeds
  BY <1>1, <1>2, <1>11, SucceedsIsNeutral
<1>12. CASE Fails
  <2>1. GoesWrong
    BY <1>12 DEF Fails
  <2> QED
    BY <1>1, <1>3, <1>12, <2>1, FailsTrouble
<1>13. CASE ColdStart
  <2>1. GoesWrong
    BY <1>13 DEF ColdStart
  <2> QED
    BY <1>1, <1>3, <1>13, <2>1, ColdStartTrouble
<1>14. CASE LateCommand
  BY <1>1, <1>2, <1>14, LateCommandIsNeutral
<1>15. CASE Tick
  BY <1>1, <1>2, <1>15, TickIsNeutral
<1> QED
  BY <1>5, <1>6, <1>7, <1>8, <1>9, <1>10, <1>11, <1>12, <1>13, <1>14, <1>15
  DEF Next, Monitors, Handles

\* Nothing is in hand and nothing has been spent at the start.
LEMMA LoopInvInit == Init => LoopInv
<1> SUFFICES ASSUME Init PROVE LoopInv
  OBVIOUS
<1>1. TypeOK
  BY TypeInit
<1>2. IsFiniteSet(bus) /\ Copies(bus) = 0
  <2>1. Twice({}) = {} /\ bus = {}
    BY DEF Twice, Init
  <2> QED
    BY <2>1, FS_EmptySet DEF Copies
<1>3. ~Pending /\ late = "none" /\ Healthy /\ Orderly
  BY DEF Init, NoJob, Pending, Healthy, Orderly
<1>4. Tokens = 0 /\ LateOne = 0 /\ InHand = 0
  BY <1>2, <1>3 DEF Tokens, InHand, LateOne, Outage, Unreported, Num
<1>5. Weight = 0 /\ Budget = 0 /\ commands = 0
  BY <1>4, CountAssumption, DelayAssumption DEF Weight, Budget, Init
<1>6. WithinBudget
  BY <1>5 DEF WithinBudget
<1>7. Paid
  <2>1. 0 \in 0..CriticalCount /\ Credit(0)
    BY CountAssumption DEF Credit
  <2>2. commands + Weight + InHand - 0 <= Budget
    BY <1>4, <1>5
  <2> QED
    BY <2>1, <2>2 DEF Paid
<1> QED
  BY <1>1, <1>2, <1>3, <1>6, <1>7 DEF LoopInv

\* Whoever has credit holds a token, and a token weighs more than any credit.
LEMMA CreditIsCovered ==
    ASSUME TypeOK, IsFiniteSet(bus)
    PROVE  /\ Tokens > 0 => Weight >= CriticalCount + 1
           /\ StartedOver => Tokens > 0
           /\ \A k \in 0..CriticalCount : Credit(k) => k = 0 \/ Tokens > 0
<1>1. Counts /\ Copies(bus) \in Nat /\ (bus # {} => Copies(bus) > 0)
  BY Numbers, CopiesCount
<1>2. Pending \/ Unreported \/ bus # {} => Tokens > 0
  BY <1>1 DEF Tokens, InHand, LateOne, Outage, Num
<1>3. Tokens > 0 => Weight >= CriticalCount + 1
  <2> DEFINE scaled == (CriticalCount + 1) * Tokens
  <2>1. Tokens \in Nat /\ LateOne \in 0..1 /\ CriticalCount \in Nat
    BY <1>1 DEF Counts
  <2>2. 0 \in Nat /\ (CriticalCount + 1) * 0 = 0
    BY <2>1
  <2>3. 0 < Tokens => 0 + CriticalCount + 1 <= scaled
    BY <2>1, <2>2, Scaled
  <2>4. scaled \in Nat /\ Weight = scaled + LateOne
    BY <2>1, Scaled DEF Weight
  <2> HIDE DEF scaled
  <2> QED
    BY <2>1, <2>3, <2>4
<1>4. StartedOver => Tokens > 0
  <2>1. container = "stopped" => Unreported \/ BackInTime
    BY DEF Unreported, Healthy
  <2>2. container = "stopped" /\ BackInTime => Pending \/ bus # {}
    BY DEF BackInTime
  <2> QED
    BY <1>2, <2>1, <2>2 DEF StartedOver
<1>5. InTime => Tokens > 0
  BY <1>2 DEF InTime
<1>6. \A k \in 0..CriticalCount : Credit(k) => k = 0 \/ Tokens > 0
  BY <1>2, <1>5 DEF Credit
<1> QED
  BY <1>3, <1>4, <1>6

LEMMA LoopInvEnds == LoopInv => RestartLoopEnds
<1> SUFFICES ASSUME LoopInv PROVE commands <= Budget
  BY DEF RestartLoopEnds, Budget
<1>1. TypeOK /\ IsFiniteSet(bus) /\ Paid
  BY DEF LoopInv
<1>2. /\ commands \in Nat /\ CriticalCount \in Nat /\ Tokens \in Nat
      /\ InHand \in 0..1 /\ LateOne \in 0..1 /\ Budget \in Nat
  BY <1>1, Numbers DEF Counts
<1>3. Weight \in Nat
  <2>1. (CriticalCount + 1) * Tokens \in Nat
    BY <1>2, Scaled
  <2> QED
    BY <1>2, <2>1 DEF Weight
<1>4. CASE StartedOver /\ commands + Weight - CriticalCount <= Budget
  BY <1>1, <1>2, <1>3, <1>4, CreditIsCovered
<1>5. ASSUME NEW k \in 0..CriticalCount, Credit(k), commands + Weight + InHand - k <= Budget
      PROVE  commands <= Budget
  <2>1. k = 0 \/ Weight >= CriticalCount + 1
    BY <1>1, <1>5, CreditIsCovered
  <2> QED
    BY <1>2, <1>3, <1>5, <2>1
<1> QED
  BY <1>1, <1>4, <1>5 DEF Paid

\* Since something went wrong for the last time, the loop has made no more
\* than CriticalCount + 2 commands for each trouble there has been: an event
\* that arrives when the service is up again starts a series of failures, and
\* the ladder ends every series (smart_recovery_policy.py 206-211).
THEOREM RestartsEnd == Spec => []RestartLoopEnds
<1> QED
  BY LoopInvInit, LoopInvStep, LoopInvEnds, PTL DEF Spec
=============================================================================
