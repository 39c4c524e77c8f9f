--------------------------- MODULE RecoveryProofs ---------------------------
(***************************************************************************)
(* Theorems about Recovery for every set of services, environments and     *)
(* slots, every window, threshold and number of retries.                   *)
(***************************************************************************)
EXTENDS Recovery, TLAPS

-----------------------------------------------------------------------------
\* The windows of SmartRecoveryPolicy.

LEMMA WindowOps ==
    ASSUME NEW h \in History
    PROVE  /\ NoFailures \in History
           /\ Recorded(h) \in History
           /\ Older(h) \in History
           /\ Severity(h) \in Severities
<1>1. TenMinutes \in 0..TenMinutes /\ 0 \in 0..TenMinutes
  BY WindowAssumption
<1>2. NoFailures \in History
  BY <1>1 DEF NoFailures, History
<1>3. Recorded(h) \in History
  <2>1. \A k \in 1..CriticalCount : k # 1 => k - 1 \in 1..CriticalCount
    BY CountAssumption
  <2>2. QED
    BY <1>1, <2>1 DEF Recorded, History
<1>4. Older(h) \in History
  BY WindowAssumption DEF Older, History
<1>5. Severity(h) \in Severities
  BY DEF Severity, Severities
<1>6. QED
  BY <1>2, <1>3, <1>4, <1>5

LEMMA Overriding ==
    ASSUME NEW strategy, NEW severity \in Severities
    PROVE  Overridden(strategy, severity) \in Severities
  BY DEF Overridden, Severities

LEMMA FinalSeverities ==
    ASSUME NEW succeeded \in BOOLEAN, NEW severity \in Severities
    PROVE  FinalSeverity(severity, succeeded) \in Severities
  BY DEF FinalSeverity, Severities

-----------------------------------------------------------------------------
\* Type correctness.

LEMMA RequestSets ==
    ASSUME NEW P \in SUBSET Request, NEW w \in Workers
    PROVE  GivenUp(P, w) \in SUBSET Request /\ Orphaned(P, w) \in SUBSET Request
<1>1. ASSUME NEW q \in Request
      PROVE  [q EXCEPT !.of = "invocation"] \in Request /\ [q EXCEPT !.of = "past"] \in Request
  BY DEF Request
<1>2. QED
  BY <1>1 DEF GivenUp, Orphaned

\* What an answer, or the lack of one, leaves behind has the right type.
LEMMA ReturnTypes ==
    ASSUME TypeOK, NEW w \in Workers, NEW answer, NEW P \in SUBSET Request,
           Returns(w, answer, P)
    PROVE  /\ history' \in [Workers -> [Services -> History]]
           /\ phase' \in [Workers -> {"idle", "calling", "waiting", "backoff"}]
           /\ pending' \in SUBSET Request
           /\ outcome' \in [Workers -> [result : {"none", "success", "failed"},
                                        severity : Severities]]
           /\ restarts' \in [Workers -> [Services -> History]]
<1>1. NoFailures \in History
  BY WindowAssumption DEF NoFailures, History
<1>2. ASSUME NEW succeeded \in BOOLEAN, Finishes(w, succeeded, P)
      PROVE  /\ history' \in [Workers -> [Services -> History]]
             /\ phase' \in [Workers -> {"idle", "calling", "waiting", "backoff"}]
             /\ pending' \in SUBSET Request
             /\ outcome' \in [Workers -> [result : {"none", "success", "failed"},
                                          severity : Severities]]
             /\ restarts' \in [Workers -> [Services -> History]]
  <2>1. history' \in [Workers -> [Services -> History]]
        /\ restarts' \in [Workers -> [Services -> History]]
    BY <1>1, <1>2 DEF Finishes, TypeOK
  <2>2. phase' \in [Workers -> {"idle", "calling", "waiting", "backoff"}]
    BY <1>2 DEF Finishes, TypeOK
  <2>3. pending' \in SUBSET Request
    BY <1>2, RequestSets DEF Finishes
  <2>4. decision[w].severity \in Severities
    BY DEF TypeOK
  <2>5. [result |-> IF succeeded THEN "success" ELSE "failed",
         severity |-> FinalSeverity(decision[w].severity, succeeded)]
          \in [result : {"none", "success", "failed"}, severity : Severities]
    BY <2>4, FinalSeverities
  <2>6. outcome' \in [Workers -> [result : {"none", "success", "failed"},
                                  severity : Severities]]
    BY <1>2, <2>5 DEF Finishes, TypeOK
  <2>7. QED
    BY <2>1, <2>2, <2>3, <2>6
<1>3. CASE Finishes(w, TRUE, P) \/ Finishes(w, FALSE, P)
  BY <1>2, <1>3
<1>4. CASE /\ phase' = [phase EXCEPT ![w] = "backoff"]
           /\ pending' = GivenUp(P, w)
           /\ UNCHANGED <<outcome, history, restarts>>
  BY <1>4, RequestSets DEF TypeOK
<1>5. QED
  BY <1>3, <1>4 DEF Returns

\* A pause is only taken when another attempt follows it.
AttemptsLeft == \A w \in Workers : phase[w] = "backoff" => attempt[w] < MaxRetries

LEMMA TypeStep ==
    ASSUME TypeOK, AttemptsLeft, [Next]_vars
    PROVE  TypeOK'
<1>1. ASSUME NEW e \in Events, Publish(e) PROVE TypeOK'
  BY <1>1 DEF Publish, TypeOK
<1>2. ASSUME NEW w \in Workers, NEW e \in Events, Start(w, e) PROVE TypeOK'
  <2> DEFINE h   == Recorded(history[w][e.svc])
             act == ActionFor(e.type, Severity(h))
             sev == Overridden(Strategy[e.svc], Severity(h))
  <2>1. e.svc \in Services
    BY DEF Events
  <2>2. h \in History /\ Recorded(restarts[w][e.svc]) \in History
    BY <2>1, WindowOps DEF TypeOK
  <2>3. act \in Actions /\ sev \in Severities
    BY <2>2, WindowOps, Overriding DEF ActionFor, Actions
  <2>4. [action |-> act, severity |-> sev] \in [action : Actions, severity : Severities]
    BY <2>3
  <2>5. /\ events' \in {events, events \ {e}}
        /\ history' = [history EXCEPT ![w][e.svc] = h]
        /\ phase' = [phase EXCEPT ![w] = "calling"]
        /\ event' = [event EXCEPT ![w] = e]
        /\ decision' = [decision EXCEPT ![w] = [action |-> act, severity |-> sev]]
        /\ attempt' = [attempt EXCEPT ![w] = 1]
        /\ runs' = [runs EXCEPT ![w] = 0]
        /\ outcome' = [outcome EXCEPT ![w] = NoOutcome]
        /\ restarts' = IF act = "restart_service"
                       THEN [restarts EXCEPT ![w][e.svc] = Recorded(restarts[w][e.svc])]
                       ELSE restarts
        /\ UNCHANGED <<pending, container, shielded>>
    BY <1>2 DEF Start
  <2>6. 1 \in 1..MaxRetries
    BY RetriesAssumption
  <2> HIDE DEF h, act, sev
  <2>7. history' \in [Workers -> [Services -> History]]
        /\ restarts' \in [Workers -> [Services -> History]]
    BY <2>1, <2>2, <2>5 DEF TypeOK
  <2>8. outcome' \in [Workers -> [result : {"none", "success", "failed"},
                                  severity : Severities]]
    BY <2>5 DEF TypeOK, NoOutcome, Severities
  <2>9. decision' \in [Workers -> [action : Actions, severity : Severities]]
    BY <2>4, <2>5 DEF TypeOK
  <2>10. QED
    BY <2>5, <2>6, <2>7, <2>8, <2>9 DEF TypeOK
<1>3. ASSUME NEW w \in Workers, Send(w) PROVE TypeOK'
  <2>1. PICK id \in Slots :
          pending' = pending \cup {[id |-> id, worker |-> w, svc |-> event[w].svc,
                                    action |-> decision[w].action, of |-> "attempt"]}
    BY <1>3 DEF Send
  <2>2. event[w].svc \in Services /\ decision[w].action \in Actions
    BY DEF TypeOK, Events
  <2>3. pending' \in SUBSET Request
    BY <2>1, <2>2 DEF Request, TypeOK
  <2>4. QED
    BY <1>3, <2>3 DEF Send, TypeOK
<1>4. ASSUME NEW w \in Workers, SendFails(w) \/ TimesOut(w) PROVE TypeOK'
  <2>1. Returns(w, "network", pending) /\ pending \in SUBSET Request
        /\ UNCHANGED <<events, event, decision, attempt, container, runs, shielded>>
    BY <1>4 DEF SendFails, TimesOut, TypeOK
  <2>2. QED
    BY <2>1, ReturnTypes DEF TypeOK
<1>5. ASSUME NEW w \in Workers, Retry(w) PROVE TypeOK'
  <2>1. attempt[w] + 1 \in 1..MaxRetries
    BY <1>5, RetriesAssumption DEF Retry, AttemptsLeft, TypeOK
  <2>2. QED
    BY <1>5, <2>1 DEF Retry, TypeOK
<1>6. ASSUME NEW w \in Workers, ColdStart(w) PROVE TypeOK'
  <2>1. NoFailures \in History
    BY WindowAssumption DEF NoFailures, History
  <2>2. history' \in [Workers -> [Services -> History]]
        /\ restarts' \in [Workers -> [Services -> History]]
    BY <1>6, <2>1 DEF ColdStart, TypeOK
  <2>3. pending' \in SUBSET Request
    BY <1>6, RequestSets DEF ColdStart, TypeOK
  <2>4. outcome' \in [Workers -> [result : {"none", "success", "failed"},
                                  severity : Severities]]
    BY <1>6 DEF ColdStart, TypeOK, NoOutcome, Severities
  <2>5. events' \in SUBSET Events
    BY <1>6 DEF ColdStart, TypeOK
  <2>6. QED
    BY <1>6, <2>2, <2>3, <2>4, <2>5 DEF ColdStart, TypeOK
<1>7. ASSUME NEW q \in pending, NEW answer, Answered(q, answer)
      PROVE  /\ history' \in [Workers -> [Services -> History]]
             /\ phase' \in [Workers -> {"idle", "calling", "waiting", "backoff"}]
             /\ pending' \in SUBSET Request
             /\ outcome' \in [Workers -> [result : {"none", "success", "failed"},
                                          severity : Severities]]
             /\ restarts' \in [Workers -> [Services -> History]]
  <2>1. q.worker \in Workers /\ pending \ {q} \in SUBSET Request
    BY DEF TypeOK, Request
  <2>2. CASE q.of = "attempt"
    <3>1. Returns(q.worker, answer, pending \ {q})
      BY <1>7, <2>2 DEF Answered
    <3>2. QED
      BY <2>1, <3>1, ReturnTypes
  <2>3. CASE q.of # "attempt"
    BY <1>7, <2>1, <2>3 DEF Answered, TypeOK
  <2>4. QED
    BY <2>2, <2>3
<1>8. ASSUME NEW q \in pending, NEW o \in DockerOutcomes, Execute(q, o) PROVE TypeOK'
  <2>1. q.worker \in Workers /\ q.svc \in Services
    BY DEF TypeOK, Request
  <2>2. Answered(q, o.answer) /\ UNCHANGED <<events, event, decision, attempt>>
    BY <1>8 DEF Execute
  <2>3. container' \in [Services -> {"running", "stopped"}]
    BY <1>8, <2>1 DEF Execute, Effect, TypeOK
  <2>4. shielded' \in SUBSET Services
    BY <1>8, <2>1 DEF Execute, TypeOK
  <2>5. runs' \in [Workers -> Nat]
    BY <1>8, <2>1 DEF Execute, TypeOK
  <2>6. QED
    BY <1>7, <2>2, <2>3, <2>4, <2>5 DEF TypeOK
<1>9. ASSUME NEW q \in pending, Reject(q) PROVE TypeOK'
  <2>1. Answered(q, "http")
        /\ UNCHANGED <<events, event, decision, attempt, container, runs, shielded>>
    BY <1>9 DEF Reject
  <2>2. QED
    BY <1>7, <2>1 DEF TypeOK
<1>10. ASSUME NEW s \in Services, OperatorStarts(s) PROVE TypeOK'
  BY <1>10 DEF OperatorStarts, TypeOK
<1>11. CASE Tick
  BY <1>11, WindowOps DEF Tick, TypeOK
<1>12. CASE UNCHANGED vars
  BY <1>12 DEF vars, TypeOK
<1>13. ASSUME NEW q \in pending, CliGivesUp(q) PROVE TypeOK'
  <2>1. Returns(q.worker, "failed", pending) /\ pending \in SUBSET Request
        /\ UNCHANGED <<events, event, decision, attempt, container, runs, shielded>>
    BY <1>13 DEF CliGivesUp, TypeOK
  <2>2. q.worker \in Workers
    BY DEF TypeOK, Request
  <2>3. QED
    BY <2>1, <2>2, ReturnTypes DEF TypeOK
<1>14. QED
  BY <1>1, <1>2, <1>3, <1>4, <1>5, <1>6, <1>8, <1>9, <1>10, <1>11, <1>12, <1>13
  DEF Next, Steps

\* After an answer, a pause means that another attempt is left.
LEMMA ReturnAttempts ==
    ASSUME TypeOK, AttemptsLeft, NEW w \in Workers, NEW answer, NEW P,
           Returns(w, answer, P), attempt' = attempt
    PROVE  AttemptsLeft'
<1>1. CASE Finishes(w, TRUE, P) \/ Finishes(w, FALSE, P)
  <2>1. phase' = [phase EXCEPT ![w] = "idle"]
    BY <1>1 DEF Finishes
  <2>2. QED
    BY <2>1 DEF AttemptsLeft, TypeOK
<1>2. CASE phase' = [phase EXCEPT ![w] = "backoff"] /\ attempt[w] < MaxRetries
  BY <1>2 DEF AttemptsLeft, TypeOK
<1>3. QED
  BY <1>1, <1>2 DEF Returns

LEMMA AttemptsStep ==
    ASSUME TypeOK, AttemptsLeft, [Next]_vars
    PROVE  AttemptsLeft'
<1>1. ASSUME phase' = phase, attempt' = attempt PROVE AttemptsLeft'
  BY <1>1 DEF AttemptsLeft
<1>2. ASSUME NEW w \in Workers, NEW e \in Events, Start(w, e) PROVE AttemptsLeft'
  BY <1>2 DEF Start, AttemptsLeft, TypeOK
<1>3. ASSUME NEW w \in Workers, Steps(w) \/ ColdStart(w) PROVE AttemptsLeft'
  <2>1. CASE SendFails(w) \/ TimesOut(w)
    BY <2>1, ReturnAttempts DEF SendFails, TimesOut
  <2>2. CASE Send(w) \/ Retry(w) \/ ColdStart(w)
    BY <2>2 DEF Send, Retry, ColdStart, AttemptsLeft, TypeOK
  <2>3. QED
    BY <1>3, <2>1, <2>2 DEF Steps
<1>4. ASSUME NEW q \in pending, NEW answer, Answered(q, answer), attempt' = attempt
      PROVE  AttemptsLeft'
  <2>1. q.worker \in Workers
    BY DEF TypeOK, Request
  <2>2. QED
    BY <1>1, <1>4, <2>1, ReturnAttempts DEF Answered
<1>5. ASSUME NEW q \in pending, NEW o \in DockerOutcomes, Execute(q, o)
      PROVE  AttemptsLeft'
  BY <1>4, <1>5 DEF Execute
<1>6. ASSUME NEW q \in pending, Reject(q) PROVE AttemptsLeft'
  BY <1>4, <1>6 DEF Reject
<1>7. ASSUME NEW q \in pending, CliGivesUp(q) PROVE AttemptsLeft'
  <2>1. q.worker \in Workers
    BY DEF TypeOK, Request
  <2>2. QED
    BY <1>7, <2>1, ReturnAttempts DEF CliGivesUp
<1>8. QED
  BY <1>1, <1>2, <1>3, <1>5, <1>6, <1>7 DEF Next, Publish, OperatorStarts, Tick, vars

\* The state of the Lambda environments, of the agent and of the containers
\* has its type, and the retry loop never runs past MaxRetries.
THEOREM TypeCorrect == Spec => [](TypeOK /\ AttemptsLeft)
<1>1. Init => TypeOK /\ AttemptsLeft
  <2>1. NoFailures \in History
    BY WindowAssumption DEF NoFailures, History
  <2>2. 1 \in 1..MaxRetries
    BY RetriesAssumption
  <2>3. QED
    BY <2>1, <2>2
    DEF Init, TypeOK, AttemptsLeft, NoOutcome, Severities, Actions
<1>2. (TypeOK /\ AttemptsLeft) /\ [Next]_vars => (TypeOK /\ AttemptsLeft)'
  BY TypeStep, AttemptsStep
<1>3. QED
  BY <1>1, <1>2, PTL DEF Spec

-----------------------------------------------------------------------------
\* The restart budget of one environment.

\* Counted failures h and decided restarts r: in order of age, and every
\* restart is one of the failures.
Ledger(h, r) ==
    /\ \A k \in 1..CriticalCount : h[k] <= r[k]
    /\ \A k \in 2..CriticalCount : h[k - 1] <= h[k]

LEMMA LedgerOps ==
    ASSUME NEW h \in History, NEW r \in History, Ledger(h, r)
    PROVE  /\ Ledger(Recorded(h), r)
           /\ Ledger(Recorded(h), Recorded(r))
           /\ Ledger(Older(h), Older(r))
           /\ Ledger(NoFailures, NoFailures)
<1>1. \A k \in 2..CriticalCount : k \in 1..CriticalCount /\ k - 1 \in 1..CriticalCount
  BY CountAssumption
<1>2. \A k \in 1..CriticalCount : k = 1 \/ k \in 2..CriticalCount
  BY CountAssumption
<1>3. \A k \in 1..CriticalCount : /\ h[k] \in 0..TenMinutes
                                  /\ r[k] \in 0..TenMinutes
                                  /\ Recorded(h)[k] = IF k = 1 THEN 0 ELSE h[k - 1]
                                  /\ Recorded(r)[k] = IF k = 1 THEN 0 ELSE r[k - 1]
  BY DEF History, Recorded
<1>4. \A k \in 2..CriticalCount : h[k - 1] <= h[k] /\ h[k] <= r[k] /\ h[k - 1] <= r[k - 1]
  BY <1>1 DEF Ledger
<1>5. \A k \in 1..CriticalCount : Recorded(h)[k] <= h[k] /\ h[k] <= r[k]
  BY <1>2, <1>3, <1>4, WindowAssumption DEF Ledger
<1>6. \A k \in 2..CriticalCount : Recorded(h)[k - 1] <= Recorded(h)[k]
  <2> SUFFICES ASSUME NEW k \in 2..CriticalCount
               PROVE  Recorded(h)[k - 1] <= Recorded(h)[k]
    OBVIOUS
  <2>1. k - 1 \in 1..CriticalCount /\ k # 1 /\ Recorded(h)[k] = h[k - 1]
    BY <1>1, <1>3
  <2>2. Recorded(h)[k - 1] <= h[k - 1]
    BY <2>1, <1>5
  <2>3. QED
    BY <2>1, <2>2
<1>7. Ledger(Recorded(h), r)
  <2>1. \A k \in 1..CriticalCount : Recorded(h)[k] <= r[k]
    <3>1. \A k \in 1..CriticalCount : Recorded(h)[k] \in 0..TenMinutes
      BY WindowOps DEF History
    <3>2. QED
      BY <1>3, <1>5, <3>1, WindowAssumption
  <2>2. QED
    BY <2>1, <1>6 DEF Ledger
<1>8. Ledger(Recorded(h), Recorded(r))
  <2>1. \A k \in 1..CriticalCount : Recorded(h)[k] <= Recorded(r)[k]
    BY <1>2, <1>3, <1>4
  <2>2. QED
    BY <2>1, <1>6 DEF Ledger
<1>9. Ledger(Older(h), Older(r))
  <2>1. \A k \in 1..CriticalCount :
          /\ Older(h)[k] = IF h[k] < TenMinutes THEN h[k] + 1 ELSE TenMinutes
          /\ Older(r)[k] = IF r[k] < TenMinutes THEN r[k] + 1 ELSE TenMinutes
    BY DEF Older
  <2>2. \A k \in 1..CriticalCount : Older(h)[k] <= Older(r)[k]
    BY <1>3, <2>1, WindowAssumption DEF Ledger
  <2>3. \A k \in 2..CriticalCount : Older(h)[k - 1] <= Older(h)[k]
    BY <1>1, <1>3, <1>4, <2>1, WindowAssumption
  <2>4. QED
    BY <2>2, <2>3 DEF Ledger
<1>10. Ledger(NoFailures, NoFailures)
  BY <1>1, WindowAssumption DEF Ledger, NoFailures
<1>11. QED
  BY <1>7, <1>8, <1>9, <1>10

\* The inductive invariant: the ledger of every environment and service, and
\* the budget.
BudgetInv ==
    \A w \in Workers, s \in Services :
        /\ Ledger(history[w][s], restarts[w][s])
        /\ restarts[w][s][CriticalCount] >= TenMinutes

\* Steps that do not record or decide leave both entries alone, or wipe both.
Kept ==
    \A w \in Workers, s \in Services :
        \/ history'[w][s] = history[w][s] /\ restarts'[w][s] = restarts[w][s]
        \/ history'[w][s] = NoFailures /\ restarts'[w][s] = NoFailures

LEMMA ReturnKeeps ==
    ASSUME TypeOK, NEW w \in Workers, NEW answer, NEW P, Returns(w, answer, P)
    PROVE  Kept
<1>1. CASE UNCHANGED <<history, restarts>>
  BY <1>1 DEF Kept
<1>2. CASE /\ history' = [history EXCEPT ![w][event[w].svc] = NoFailures]
           /\ restarts' = [restarts EXCEPT ![w][event[w].svc] = NoFailures]
  BY <1>2 DEF Kept, TypeOK
<1>3. QED
  BY <1>1, <1>2 DEF Returns, Finishes, ClearsHistory

LEMMA KeptBudget ==
    ASSUME TypeOK, BudgetInv, Kept
    PROVE  BudgetInv'
<1>1. Ledger(NoFailures, NoFailures) /\ NoFailures[CriticalCount] >= TenMinutes
  BY CountAssumption, WindowAssumption DEF Ledger, NoFailures
<1>2. QED
  BY <1>1 DEF BudgetInv, Kept

LEMMA BudgetStep ==
    ASSUME FailureTypes \subseteq {"crash", "timeout", "slow"},
           TypeOK, BudgetInv, [Next]_vars
    PROVE  BudgetInv'
<1>1. ASSUME history' = history, restarts' = restarts PROVE BudgetInv'
  BY <1>1 DEF BudgetInv
<1>2. ASSUME NEW w \in Workers, NEW e \in Events, Start(w, e) PROVE BudgetInv'
  <2> DEFINE s   == e.svc
             h   == Recorded(history[w][s])
             r   == restarts[w][s]
             act == ActionFor(e.type, Severity(h))
  <2>1. s \in Services /\ e.type \in {"crash", "timeout", "slow"}
    BY DEF Events
  <2>2. history[w][s] \in History /\ r \in History /\ Ledger(history[w][s], r)
        /\ r[CriticalCount] >= TenMinutes
    BY <2>1 DEF TypeOK, BudgetInv
  <2>3. Ledger(h, r) /\ Ledger(h, Recorded(r)) /\ h \in History /\ Recorded(r) \in History
    BY <2>2, LedgerOps, WindowOps
  <2>4. act = "restart_service" => Recorded(r)[CriticalCount] >= TenMinutes
    <3> SUFFICES ASSUME act = "restart_service"
                 PROVE  Recorded(r)[CriticalCount] >= TenMinutes
      OBVIOUS
    <3>1. Severity(h) # "CRITICAL"
      BY <2>1 DEF ActionFor
    <3>2. CriticalCount \in 1..CriticalCount /\ h[CriticalCount] >= TenMinutes
      BY <2>3, <3>1, CountAssumption, WindowAssumption DEF Severity, AtLeast, History
    <3>3. h[CriticalCount] <= Recorded(r)[CriticalCount]
          /\ h[CriticalCount] \in 0..TenMinutes /\ Recorded(r)[CriticalCount] \in 0..TenMinutes
      BY <2>3, <3>2 DEF Ledger, History
    <3>4. QED
      BY <3>2, <3>3, WindowAssumption
  <2>5. /\ history' = [history EXCEPT ![w][s] = h]
        /\ restarts' = IF act = "restart_service"
                       THEN [restarts EXCEPT ![w][s] = Recorded(r)] ELSE restarts
    BY <1>2 DEF Start
  <2> HIDE DEF s, h, r, act
  <2>6. \A v \in Workers, u \in Services : ~(v = w /\ u = s) =>
          history'[v][u] = history[v][u] /\ restarts'[v][u] = restarts[v][u]
    BY <2>1, <2>5 DEF TypeOK
  <2>7. /\ history'[w][s] = h
        /\ restarts'[w][s] = IF act = "restart_service" THEN Recorded(r) ELSE r
    BY <2>1, <2>5 DEF TypeOK, r
  <2>8. QED
    BY <2>1, <2>2, <2>3, <2>4, <2>6, <2>7 DEF BudgetInv
<1>3. ASSUME NEW w \in Workers, Steps(w) PROVE BudgetInv'
  BY <1>1, <1>3, ReturnKeeps, KeptBudget DEF Steps, Send, SendFails, TimesOut, Retry
<1>4. ASSUME NEW w \in Workers, ColdStart(w) PROVE BudgetInv'
  <2>1. Kept
    BY <1>4 DEF ColdStart, Kept, TypeOK
  <2>2. QED
    BY <2>1, KeptBudget
<1>5. ASSUME NEW q \in pending, NEW answer, Answered(q, answer) PROVE BudgetInv'
  <2>1. q.worker \in Workers
    BY DEF TypeOK, Request
  <2>2. CASE q.of = "attempt"
    <3>1. Returns(q.worker, answer, pending \ {q})
      BY <1>5, <2>2 DEF Answered
    <3>2. QED
      BY <2>1, <3>1, ReturnKeeps, KeptBudget
  <2>3. CASE q.of # "attempt"
    BY <1>1, <1>5, <2>3 DEF Answered
  <2>4. QED
    BY <2>2, <2>3
<1>6. ASSUME NEW q \in pending, NEW o \in DockerOutcomes, Execute(q, o) PROVE BudgetInv'
  BY <1>5, <1>6 DEF Execute
<1>7. ASSUME NEW q \in pending, Reject(q) PROVE BudgetInv'
  BY <1>5, <1>7 DEF Reject
<1>8. CASE Tick
  <2> SUFFICES ASSUME NEW w \in Workers, NEW s \in Services
               PROVE  /\ Ledger(history'[w][s], restarts'[w][s])
                      /\ restarts'[w][s][CriticalCount] >= TenMinutes
    BY DEF BudgetInv
  <2>1. history'[w][s] = Older(history[w][s]) /\ restarts'[w][s] = Older(restarts[w][s])
    BY <1>8 DEF Tick
  <2>2. history[w][s] \in History /\ restarts[w][s] \in History
        /\ Ledger(history[w][s], restarts[w][s])
        /\ restarts[w][s][CriticalCount] >= TenMinutes
    BY DEF TypeOK, BudgetInv
  <2>3. Older(restarts[w][s])[CriticalCount] >= TenMinutes
    BY <2>2, CountAssumption, WindowAssumption DEF Older, History
  <2>4. QED
    BY <2>1, <2>2, <2>3, LedgerOps
<1>9. ASSUME NEW q \in pending, CliGivesUp(q) PROVE BudgetInv'
  <2>1. q.worker \in Workers /\ Returns(q.worker, "failed", pending)
    BY <1>9 DEF TypeOK, Request, CliGivesUp
  <2>2. QED
    BY <2>1, ReturnKeeps, KeptBudget
<1>10. QED
  BY <1>1, <1>2, <1>3, <1>4, <1>6, <1>7, <1>8, <1>9
  DEF Next, Publish, OperatorStarts, vars

LEMMA BudgetInvariant ==
    ASSUME FailureTypes \subseteq {"crash", "timeout", "slow"}
    PROVE  Spec => []BudgetInv
<1>1. Init => BudgetInv
  <2>1. Ledger(NoFailures, NoFailures) /\ NoFailures[CriticalCount] >= TenMinutes
    BY CountAssumption, WindowAssumption DEF Ledger, NoFailures
  <2>2. QED
    BY <2>1 DEF Init, BudgetInv
<1>2. TypeOK /\ BudgetInv /\ [Next]_vars => BudgetInv'
  BY BudgetStep
<1>3. QED
  BY <1>1, <1>2, TypeCorrect, PTL DEF Spec

\* The monitor's failure types never make one environment decide
\* CriticalCount restarts of a service within ten minutes.
THEOREM BudgetHolds ==
    ASSUME FailureTypes \subseteq {"crash", "timeout", "slow"}
    PROVE  Spec => []RestartBudget
<1>1. BudgetInv => RestartBudget
  BY DEF BudgetInv, RestartBudget
<1>2. QED
  BY <1>1, BudgetInvariant, PTL

\* Every restart that was decided is one of the failures counted.
THEOREM LedgerHolds ==
    ASSUME FailureTypes \subseteq {"crash", "timeout", "slow"}
    PROVE  Spec => []RestartsAreFailures
<1>1. BudgetInv => RestartsAreFailures
  BY DEF BudgetInv, Ledger, RestartsAreFailures
<1>2. QED
  BY <1>1, BudgetInvariant, PTL
=============================================================================
