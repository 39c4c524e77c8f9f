--------------------------- MODULE MonitorProofs ---------------------------
(***************************************************************************)
(* The type invariant of Monitor, and its cooldown.                        *)
(***************************************************************************)
EXTENDS Monitor, TLAPS

LEMMA Kinds ==
    /\ \A c \in AllConditions : StatusOf(c) \in Statuses
    /\ \A u \in Statuses \ {"UP"} : FailureType(u) \in FailureTypes
<1>1. \A c \in AllConditions : StatusOf(c) \in Statuses
  BY DEF AllConditions, StatusOf, Statuses
<1>2. \A u \in Statuses \ {"UP"} : FailureType(u) \in FailureTypes
  BY DEF Statuses, FailureType, FailureTypes
<1>3. QED
  BY <1>1, <1>2

\* The operations on the table of timers yield tables of timers.
LEMMA TimerOps ==
    ASSUME NEW x \in [Services -> Timers], NEW s \in Services, NEW t \in FailureTypes
    PROVE  /\ Started(x, s, t) \in [Services -> Timers]
           /\ Cleared(x, s) \in [Services -> Timers]
           /\ Older(x) \in [Services -> Timers]
<1>1. 0 \in 0..Cooldown /\ Cooldown \in 0..Cooldown
  BY CooldownAssumption
<1>2. NoTimers \in Timers
  BY <1>1 DEF NoTimers, Timers
<1>3. Started(x, s, t) \in [Services -> Timers]
  BY <1>1 DEF Started, Timers
<1>4. Cleared(x, s) \in [Services -> Timers]
  BY <1>2 DEF Cleared
<1>5. Older(x) \in [Services -> Timers]
  <2>1. \A u \in Services, v \in FailureTypes : x[u][v] \in 0..Cooldown
    BY DEF Timers
  <2>2. \A n \in 0..Cooldown : (IF n < Cooldown THEN n + 1 ELSE Cooldown) \in 0..Cooldown
    BY CooldownAssumption
  <2>3. QED
    BY <2>1, <2>2 DEF Older, Timers
<1>6. QED
  BY <1>3, <1>4, <1>5

\* Results are handled only when all checks have ended.
AllChecked == phase = "processing" => \A s \in Services : result[s] # "none"

LEMMA CheckedStep ==
    ASSUME TypeOK, AllChecked, [Next]_vars
    PROVE  AllChecked'
<1>1. CASE UNCHANGED vars
  BY <1>1 DEF AllChecked, vars
<1>2. CASE StartCycle
  BY <1>2 DEF AllChecked, StartCycle
<1>3. ASSUME NEW s \in Services, Check(s) PROVE AllChecked'
  BY <1>3 DEF AllChecked, Check
<1>4. CASE Gathered
  BY <1>4 DEF AllChecked, Gathered
<1>5. CASE Process
  BY <1>5 DEF AllChecked, Process
<1>6. CASE EndCycle
  BY <1>6 DEF AllChecked, EndCycle
<1>7. CASE Restart
  BY <1>7 DEF AllChecked, Restart
<1>8. CASE Tick \/ BusChanges \/ \E s \in Services, c \in Conditions : Changes(s, c)
  BY <1>8 DEF AllChecked, Tick, BusChanges, Changes
<1>9. QED
  BY <1>1, <1>2, <1>3, <1>4, <1>5, <1>6, <1>7, <1>8 DEF Next, Loop

\* What the handling of one result does to the timers.
LEMMA ProcessTimers ==
    ASSUME TypeOK, AllChecked, Process
    PROVE  \E s \in Services :
              \/ Recovered(s)
              \/ \E t \in FailureTypes : Publish(s, t) \/ Suppress(s, t)
<1>1. Head(todo) \in Services /\ result[Head(todo)] \in Statuses
  BY DEF TypeOK, AllChecked, Process
<1>2. CASE result[Head(todo)] = "UP"
  BY <1>1, <1>2 DEF Process
<1>3. CASE result[Head(todo)] # "UP"
  <2>1. FailureType(result[Head(todo)]) \in FailureTypes
    BY <1>1, <1>3, Kinds
  <2>2. \/ Publish(Head(todo), FailureType(result[Head(todo)]))
        \/ Suppress(Head(todo), FailureType(result[Head(todo)]))
    BY <1>3 DEF Process
  <2>3. QED
    BY <1>1, <2>1, <2>2
<1>4. QED
  BY <1>2, <1>3

LEMMA TypeStep ==
    ASSUME TypeOK, AllChecked, [Next]_vars
    PROVE  TypeOK'
<1>1. CASE UNCHANGED vars
  BY <1>1 DEF TypeOK, vars
<1>2. CASE StartCycle
  BY <1>2 DEF TypeOK, StartCycle
<1>3. ASSUME NEW s \in Services, Check(s) PROVE TypeOK'
  <2>1. StatusOf(condition[s]) \in Statuses
    BY Kinds, ConditionAssumption DEF TypeOK
  <2>2. QED
    BY <1>3, <2>1 DEF TypeOK, Check
<1>4. CASE Gathered
  BY <1>4, OrderAssumption DEF TypeOK, Gathered
<1>5. CASE Process
  <2>1. todo' \in Seq(Services)
    BY <1>5 DEF TypeOK, Process
  <2>2. lastSent' \in [Services -> Timers] /\ reported' \in [Services -> Timers]
    <3>1. PICK s \in Services : \/ Recovered(s)
                                \/ \E t \in FailureTypes : Publish(s, t) \/ Suppress(s, t)
      BY <1>5, ProcessTimers
    <3>2. CASE Recovered(s)
      <4>1. PICK t : t \in FailureTypes
        BY DEF FailureTypes
      <4>2. QED
        BY <3>2, <4>1, TimerOps DEF TypeOK, Recovered
    <3>3. ASSUME NEW t \in FailureTypes, Publish(s, t) \/ Suppress(s, t)
          PROVE  lastSent' \in [Services -> Timers] /\ reported' \in [Services -> Timers]
      <4>1. \A x \in [Services -> Timers] : Started(x, s, t) \in [Services -> Timers]
        BY TimerOps
      <4>2. lastSent \in [Services -> Timers] /\ reported \in [Services -> Timers]
        BY DEF TypeOK
      <4>3. QED
        BY <3>3, <4>1, <4>2 DEF Publish, Suppress
    <3>4. QED
      BY <3>1, <3>2, <3>3
  <2>3. QED
    BY <1>5, <2>1, <2>2 DEF TypeOK, Process
<1>6. CASE EndCycle
  BY <1>6 DEF TypeOK, EndCycle
<1>7. CASE Restart
  <2>1. NoTimers \in Timers
    BY CooldownAssumption DEF NoTimers, Timers
  <2>2. << >> \in Seq(Services)
    OBVIOUS
  <2>3. QED
    BY <1>7, <2>1, <2>2 DEF TypeOK, Restart
<1>8. CASE Tick
  <2>1. PICK t : t \in FailureTypes
    BY DEF FailureTypes
  <2>2. \A x \in [Services -> Timers] : Older(x) \in [Services -> Timers]
    <3>1. CASE Services = {}
      BY <3>1 DEF Older
    <3>2. CASE Services # {}
      BY <2>1, <3>2, TimerOps
    <3>3. QED
      BY <3>1, <3>2
  <2>3. QED
    BY <1>8, <2>2 DEF TypeOK, Tick
<1>9. CASE BusChanges
  BY <1>9 DEF TypeOK, BusChanges
<1>10. ASSUME NEW s \in Services, NEW c \in Conditions, Changes(s, c) PROVE TypeOK'
  BY <1>10 DEF TypeOK, Changes
<1>11. QED
  BY <1>1, <1>2, <1>3, <1>4, <1>5, <1>6, <1>7, <1>8, <1>9, <1>10 DEF Next, Loop

\* The types of the monitor's state hold for any services, conditions and
\* cooldown.
THEOREM TypeCorrect == Spec => [](TypeOK /\ AllChecked)
<1>1. Init => TypeOK /\ AllChecked
  <2>1. NoTimers \in Timers
    BY CooldownAssumption DEF NoTimers, Timers
  <2>2. << >> \in Seq(Services)
    OBVIOUS
  <2>3. QED
    BY <2>1, <2>2 DEF Init, TypeOK, AllChecked
<1>2. (TypeOK /\ AllChecked) /\ [Next]_vars => (TypeOK /\ AllChecked)'
  BY TypeStep, CheckedStep
<1>3. QED
  BY <1>1, <1>2, PTL DEF Spec

-----------------------------------------------------------------------------
\* The cooldown.

\* An event that the bus has seen in the present incident started a timer
\* that is at most as old as the event: younger if a later one was lost.
TimerCovers ==
    \A s \in Services, t \in FailureTypes : lastSent[s][t] <= reported[s][t]

\* One step of the monitor, seen by the timers.
LEMMA TimerSteps ==
    ASSUME TypeOK, AllChecked, [Next]_vars
    PROVE  \/ UNCHANGED <<lastSent, reported>>
           \/ \E s \in Services : Recovered(s)
           \/ \E s \in Services, t \in FailureTypes : Publish(s, t)
           \/ Restart
           \/ Tick
<1>1. CASE Process
  BY <1>1, ProcessTimers DEF Suppress
<1>2. QED
  BY <1>1 DEF Next, Loop, StartCycle, Check, Gathered, EndCycle, Changes, BusChanges, vars

LEMMA CoversStep ==
    ASSUME TypeOK, AllChecked, TimerCovers, [Next]_vars
    PROVE  /\ TimerCovers'
           /\ \A s \in Services, t \in FailureTypes :
                 (reported'[s][t] = 0 /\ reported[s][t] # 0) => reported[s][t] = Cooldown
<1> DEFINE Fresh == \A s \in Services, t \in FailureTypes :
                       (reported'[s][t] = 0 /\ reported[s][t] # 0) => reported[s][t] = Cooldown
<1>0. \A s \in Services, t \in FailureTypes :
        lastSent[s][t] \in 0..Cooldown /\ reported[s][t] \in 0..Cooldown
  BY DEF TypeOK, Timers
<1>1. CASE UNCHANGED <<lastSent, reported>>
  BY <1>1 DEF TimerCovers
<1>2. ASSUME NEW s \in Services, Recovered(s) PROVE TimerCovers' /\ Fresh
  <2>1. \A u \in Services, t \in FailureTypes :
          \/ lastSent'[u][t] = lastSent[u][t] /\ reported'[u][t] = reported[u][t]
          \/ lastSent'[u][t] = Cooldown /\ reported'[u][t] = Cooldown
    BY <1>2 DEF Recovered, Cleared, NoTimers, TypeOK
  <2>2. QED
    BY <1>0, <2>1, CooldownAssumption DEF TimerCovers
<1>3. ASSUME NEW s \in Services, NEW t \in FailureTypes, Publish(s, t)
      PROVE  TimerCovers' /\ Fresh
  <2>1. lastSent[s][t] = Cooldown /\ reported[s][t] = Cooldown
    BY <1>0, <1>3, CooldownAssumption DEF Publish, ShouldSend, TimerCovers
  <2>2. \A u \in Services, v \in FailureTypes : ~(u = s /\ v = t) =>
          lastSent'[u][v] = lastSent[u][v] /\ reported'[u][v] = reported[u][v]
    BY <1>3 DEF Publish, Started, TypeOK, Timers
  <2>3. lastSent'[s][t] = 0 /\ reported'[s][t] \in {0, Cooldown}
    BY <1>3, <2>1 DEF Publish, Started, TypeOK, Timers
  <2>4. QED
    BY <1>0, <2>1, <2>2, <2>3, CooldownAssumption DEF TimerCovers
<1>4. CASE Restart
  <2>1. \A u \in Services, v \in FailureTypes :
          lastSent'[u][v] = Cooldown /\ reported'[u][v] = Cooldown
    BY <1>4 DEF Restart, NoTimers
  <2>2. QED
    BY <2>1, CooldownAssumption DEF TimerCovers
<1>5. CASE Tick
  <2>1. \A u \in Services, v \in FailureTypes :
          /\ lastSent'[u][v] = IF lastSent[u][v] < Cooldown THEN lastSent[u][v] + 1 ELSE Cooldown
          /\ reported'[u][v] = IF reported[u][v] < Cooldown THEN reported[u][v] + 1 ELSE Cooldown
    BY <1>5 DEF Tick, Older
  <2>2. QED
    BY <1>0, <2>1, CooldownAssumption DEF TimerCovers
<1>6. QED
  BY <1>1, <1>2, <1>3, <1>4, <1>5, TimerSteps

\* One fingerprint is not published twice within a cooldown, for any number
\* of services, whatever publications fail.
THEOREM CooldownHolds == Spec => NoDuplicates
<1>1. Init => TimerCovers
  BY CooldownAssumption DEF Init, TimerCovers, NoTimers
<1>2. TypeOK /\ AllChecked /\ TimerCovers /\ [Next]_vars => TimerCovers'
  BY CoversStep
<1>3. TypeOK /\ AllChecked /\ TimerCovers /\ [Next]_vars =>
        [\A s \in Services, t \in FailureTypes :
            (reported'[s][t] = 0 /\ reported[s][t] # 0) => reported[s][t] = Cooldown]_vars
  BY CoversStep
<1>4. QED
  BY <1>1, <1>2, <1>3, TypeCorrect, PTL DEF Spec, NoDuplicates
=============================================================================
