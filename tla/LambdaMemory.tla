---------------------------- MODULE LambdaMemory ----------------------------
(***************************************************************************)
(* One warm environment of the recovery Lambda and the two dictionaries    *)
(* that live in it: _failure_history of smart_recovery_policy.py, as the   *)
(* lists of timestamps that it is, and _rollback_state of                  *)
(* rollback_manager.py; with what lambda_handler makes of them.            *)
(*                                                                         *)
(* An environment runs one invocation at a time, which reads and writes    *)
(* the dictionaries before and after its call of the agent.  Timestamps    *)
(* are kept as ages, which stop at TenMinutes: `t > now - w' is `age < w'. *)
(***************************************************************************)
EXTENDS RecoveryPolicy, Sequences, FiniteSets

CONSTANTS
    Services,
    Strategy,       \* services_config.json of the Lambda package
    FailureTypes,
    MaxFailures,    \* bound of the model: failures beyond it within ten minutes
                    \* are not delivered; the code puts no bound on its lists
    MaxSuccesses    \* where the model stops counting recoveries

ASSUME RegistryAssumption == Strategy \in [Services -> Strategies]
ASSUME BoundsAssumption   == MaxFailures \in Nat /\ MaxSuccesses \in Nat

VARIABLES
    stamps,     \* _failure_history
    rollback,   \* _rollback_state
    phase,      \* "idle", or "calling" the agent
    service,    \* service_name of the event
    decision,   \* RecoveryDecision
    answer,     \* the response of the last invocation
    sent,       \* the metrics that it has published
    forgiven    \* services whose last failure ended in a successful
                \* enable_fallback (history variable)

vars == <<stamps, rollback, phase, service, decision, answer, sent, forgiven>>

Decision == [action : Actions, severity : Severities, count5 : 0..MaxFailures,
             count10 : 0..MaxFailures, escalated : BOOLEAN]

Answer == [status : {"none", "200", "400", "500"}, severity : Severities,
           escalated : BOOLEAN, recommended : BOOLEAN]

Metrics == {"IncidentSeverityCount", "EscalationCount", "RollbackRecommendedCount"}

TypeOK ==
    /\ stamps \in [Services -> Seq(0..TenMinutes)]
    /\ \A s \in Services : Len(stamps[s]) <= MaxFailures
    /\ rollback \in [Services -> [image : {"none", "latest"}, successes : 0..MaxSuccesses]]
    /\ phase \in {"idle", "calling"}
    /\ service \in Services
    /\ decision \in Decision
    /\ answer \in Answer
    /\ sent \in SUBSET Metrics
    /\ forgiven \in SUBSET Services

NoDecision == [action |-> "restart_service", severity |-> "LOW", count5 |-> 0,
               count10 |-> 0, escalated |-> FALSE]

NoAnswer == [status |-> "none", severity |-> "LOW", escalated |-> FALSE, recommended |-> FALSE]

\* The dictionaries of a new environment.
Forgotten == [s \in Services |-> << >>]
Unknown   == [s \in Services |-> [image |-> "none", successes |-> 0]]

Init ==
    /\ stamps = Forgotten
    /\ rollback = Unknown
    /\ phase = "idle"
    /\ service \in Services
    /\ decision = NoDecision
    /\ answer = NoAnswer
    /\ sent = {}
    /\ forgiven = {}

-----------------------------------------------------------------------------
\* _record_and_count.

Counted(list, window) == Cardinality({i \in DOMAIN list : list[i] < window})

\* Mutant of Pruned: the list is cut down to the last five minutes.
PrunedTooFar(list) ==
    SubSeq(list, Len(list) + 1 - Counted(list, FiveMinutes), Len(list))

\* The timestamps of the last ten minutes: time.monotonic() does not go back,
\* so they are the newest ones, at the end of the list.
Pruned(list) ==
    SubSeq(list, Len(list) + 1 - Counted(list, TenMinutes), Len(list))

\* The ladder of decide(), over the two counts.
Rung(count5, count10) ==
    IF count10 >= CriticalCount THEN "CRITICAL"
    ELSE IF count5 >= HighCount THEN "HIGH"
    ELSE IF count5 >= MediumCount THEN "MEDIUM"
    ELSE "LOW"

\* decide() for the list of a service, its new timestamp included, and
\* step 4 of lambda_handler.
Decided(list, type, strategy) ==
    LET rung     == Rung(Counted(list, FiveMinutes), Len(list))
        severity == Overridden(strategy, rung)
    IN  [action    |-> ActionFor(type, rung),
         severity  |-> severity,
         count5    |-> Counted(list, FiveMinutes),
         count10   |-> Len(list),
         escalated |-> severity \in {"HIGH", "CRITICAL"}]

\* Mutant of Baseline: the image is recorded once a recovery has succeeded.
BaselineLater(s) == rollback

\* record_baseline.
Baseline(s) == [rollback EXCEPT ![s].image = "latest"]

\* Steps 1 to 5, for a FailureEvent of service s.  MaxFailures is a bound of
\* the model, not a guard of the code, and what TypeOK says of the lengths
\* of the lists is no more than that bound.
Decides(s, type) ==
    LET list == Pruned(Append(stamps[s], 0))
    IN  /\ phase = "idle"
        /\ Len(list) <= MaxFailures
        /\ stamps' = [stamps EXCEPT ![s] = list]
        /\ decision' = Decided(list, type, Strategy[s])
        /\ rollback' = Baseline(s)
        /\ phase' = "calling"
        /\ service' = s
        /\ UNCHANGED <<answer, sent, forgiven>>

\* An event without `detail'.
Refuses ==
    /\ phase = "idle"
    /\ answer' = [NoAnswer EXCEPT !.status = "400"]
    /\ sent' = {}
    /\ UNCHANGED <<stamps, rollback, phase, service, decision, forgiven>>

-----------------------------------------------------------------------------
\* Mutant of Evaluated: a failed recovery does not count as escalated.
EvaluatedQuietly(d, succeeded) ==
    [d EXCEPT !.severity = FinalSeverity(@, succeeded)]

\* evaluate_recovery_outcome: its decision.
Evaluated(d, succeeded) ==
    [d EXCEPT !.severity = FinalSeverity(@, succeeded), !.escalated = @ \/ ~succeeded]

\* _clear_history.
Forgets(s, d, succeeded) ==
    IF ClearsHistory(d.action, succeeded) THEN [stamps EXCEPT ![s] = << >>] ELSE stamps

\* record_successful_recovery.
Stable(s, succeeded) ==
    [rollback EXCEPT ![s].successes =
        IF succeeded /\ @ < MaxSuccesses THEN @ + 1 ELSE @]

\* should_recommend and recommend_rollback.
Recommends(s, severity) == severity = "CRITICAL" /\ rollback[s].image # "none"

\* _emit_metrics.
Emits(a) ==
    {"IncidentSeverityCount"}
        \cup (IF a.escalated   THEN {"EscalationCount"}          ELSE {})
        \cup (IF a.recommended THEN {"RollbackRecommendedCount"} ELSE {})

\* Steps 7 to 9, once the agent has been called; the metrics go out in one
\* call, which may fail.
Finishes(succeeded) ==
    LET final == Evaluated(decision, succeeded)
        a     == [status      |-> IF succeeded THEN "200" ELSE "500",
                  severity    |-> final.severity,
                  escalated   |-> final.escalated,
                  recommended |-> Recommends(service, final.severity)]
    IN  /\ phase = "calling"
        /\ phase' = "idle"
        /\ stamps' = Forgets(service, decision, succeeded)
        /\ rollback' = Stable(service, succeeded)
        /\ answer' = a
        /\ sent' \in {{}, Emits(a)}
        /\ forgiven' = IF succeeded /\ decision.action = "enable_fallback"
                       THEN forgiven \cup {service} ELSE forgiven \ {service}
        /\ UNCHANGED <<service, decision>>

\* The environment is reclaimed, or its invocation killed.
ColdStart ==
    /\ stamps' = Forgotten
    /\ rollback' = Unknown
    /\ phase' = "idle"
    /\ decision' = NoDecision
    /\ answer' = NoAnswer
    /\ sent' = {}
    /\ forgiven' = {}
    /\ UNCHANGED service

\* time.monotonic() goes on, also while the agent is called.
Tick ==
    /\ stamps' = [s \in Services |->
                    [i \in DOMAIN stamps[s] |->
                        IF stamps[s][i] < TenMinutes THEN stamps[s][i] + 1 ELSE TenMinutes]]
    /\ UNCHANGED <<rollback, phase, service, decision, answer, sent, forgiven>>

Next ==
    \/ \E s \in Services, type \in FailureTypes : Decides(s, type)
    \/ Refuses
    \/ \E succeeded \in BOOLEAN : Finishes(succeeded)
    \/ ColdStart
    \/ Tick

Spec == Init /\ [][Next]_vars

-----------------------------------------------------------------------------
\* Properties.

\* A rollback is recommended by exactly the invocations that end CRITICAL,
\* whether the ladder has put them there or the failure of the recovery: the
\* baseline is in place by then, also in a new environment
\* (rollback_manager.py 103-112; recovery_handler.py 191, 227-229).  A HIGH
\* severity never leads to one, be it reached by failures or forced by the
\* "escalate" strategy.
RecommendsWhenCritical ==
    answer.recommended <=> answer.severity = "CRITICAL"

\* Whoever watches EscalationCount misses no recommended rollback: each is
\* published with an escalation (recovery_handler.py 284-316, with
\* smart_recovery_policy.py 145-160 and 213-233).
RollbackIsEscalated ==
    "RollbackRecommendedCount" \in sent => "EscalationCount" \in sent

\* After a successful fallback a service starts at the bottom of the ladder,
\* whatever happened to it, and to the others, before
\* (smart_recovery_policy.py 206-211).
StartsOver ==
    (phase = "calling" /\ service \in forgiven) =>
        decision.severity = Overridden(Strategy[service], Rung(1, 1))

-----------------------------------------------------------------------------
\* The ages of RecoveryPolicy: the k-th newest timestamp, if there is one.
Ages(list) ==
    [k \in 1..CriticalCount |->
        IF k <= Len(list) THEN list[Len(list) + 1 - k] ELSE TenMinutes]

Ladder == INSTANCE LadderSpec WITH
              ladder <- [s \in Services |-> Ages(stamps[s])],
              rung   <- Rung(decision.count5, decision.count10)

\* The lists, appended to, pruned and counted, climb the same ladder as the
\* ages that Recovery and SelfHealing work with.
ListsClimbTheLadder == Ladder!Spec
=============================================================================
