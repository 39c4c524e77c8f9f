------------------------------ MODULE Recovery ------------------------------
(***************************************************************************)
(* From a failure event on EventBridge to a docker command: the recovery   *)
(* Lambda in its warm environments, the HTTP calls it makes, and the       *)
(* recovery-agent that carries them out.                                   *)
(*                                                                         *)
(* EventBridge delivers at least once and in any order.  An environment    *)
(* runs one invocation at a time.  The agent's route handler never awaits, *)
(* so it carries out one action after the other, but a caller gives up     *)
(* after 15 seconds and its request stays: what it asked for may happen    *)
(* later, after its retry, or after the end of its invocation.             *)
(***************************************************************************)
EXTENDS RecoveryPolicy, FiniteSets

CONSTANTS
    Services,
    Workers,        \* warm execution environments of the Lambda
    FailureTypes,   \* failure_type of the events
    Strategy,       \* services_config.json in the Lambda package
    Allowed,        \* allowed_services of the agent
    MaxRetries,     \* MAX_RETRIES, 3 in the code
    Slots           \* bound on the requests that are at the agent

ASSUME StrategyAssumption == Strategy \in [Services -> Strategies]
ASSUME RetriesAssumption  == MaxRetries \in Nat \ {0}

VARIABLES
    events,       \* events that EventBridge has to deliver
    history,      \* _failure_history of each environment
    phase,        \* where each invocation is
    event,        \* the event it handles
    decision,     \* its RecoveryDecision
    attempt,      \* attempt of _call_recovery_agent_with_retry
    pending,      \* requests that reached the agent
    container,    \* what docker says of each service's container
    runs,         \* docker commands that took effect for the current or
                  \* last invocation before it ended (history variable)
    outcome,      \* how the last invocation ended, and with what severity
    restarts,     \* the restarts each environment has decided (history
                  \* variable), as ages like `history'
    shielded      \* services stopped by enable_fallback that nobody has
                  \* started by hand (history variable)

vars == <<events, history, phase, event, decision, attempt, pending,
          container, runs, outcome, restarts, shielded>>

Events == [svc : Services, type : FailureTypes]

\* A request at the agent.  `of' says who still cares: the attempt that
\* waits for it, only the invocation that has given up on it, or nobody.
Request == [id : Slots, worker : Workers, svc : Services, action : Actions,
            of : {"attempt", "invocation", "past"}]

TypeOK ==
    /\ events \in SUBSET Events
    /\ history \in [Workers -> [Services -> History]]
    /\ phase \in [Workers -> {"idle", "calling", "waiting", "backoff"}]
    /\ event \in [Workers -> Events]
    /\ decision \in [Workers -> [action : Actions, severity : Severities]]
    /\ attempt \in [Workers -> 1..MaxRetries]
    /\ pending \in SUBSET Request
    /\ container \in [Services -> {"running", "stopped"}]
    /\ runs \in [Workers -> Nat]
    /\ outcome \in [Workers -> [result : {"none", "success", "failed"},
                                severity : Severities]]
    /\ restarts \in [Workers -> [Services -> History]]
    /\ shielded \in SUBSET Services

NoOutcome == [result |-> "none", severity |-> "LOW"]

Init ==
    /\ events = {}
    /\ history = [w \in Workers |-> [s \in Services |-> NoFailures]]
    /\ phase = [w \in Workers |-> "idle"]
    /\ event \in [Workers -> Events]
    /\ decision = [w \in Workers |-> [action |-> "restart_service", severity |-> "LOW"]]
    /\ attempt = [w \in Workers |-> 1]
    /\ pending = {}
    /\ container = [s \in Services |-> "running"]
    /\ runs = [w \in Workers |-> 0]
    /\ outcome = [w \in Workers |-> NoOutcome]
    /\ restarts = [w \in Workers |-> [s \in Services |-> NoFailures]]
    /\ shielded = {}

-----------------------------------------------------------------------------
\* Helpers.

\* The requests P after the attempt, or the whole invocation, of w is over.
GivenUp(P, w) ==
    {IF q.worker = w /\ q.of = "attempt" THEN [q EXCEPT !.of = "invocation"] ELSE q : q \in P}

Orphaned(P, w) ==
    {IF q.worker = w THEN [q EXCEPT !.of = "past"] ELSE q : q \in P}

\* Steps 7 to 9 of lambda_handler.
Finishes(w, succeeded, P) ==
    LET d == decision[w]
        s == event[w].svc
    IN  /\ phase' = [phase EXCEPT ![w] = "idle"]
        /\ outcome' = [outcome EXCEPT ![w] =
                [result   |-> IF succeeded THEN "success" ELSE "failed",
                 severity |-> FinalSeverity(d.severity, succeeded)]]
        /\ history' = IF ClearsHistory(d.action, succeeded)
                      THEN [history EXCEPT ![w][s] = NoFailures] ELSE history
        /\ restarts' = IF succeeded /\ d.action = "enable_fallback"
                       THEN [restarts EXCEPT ![w][s] = NoFailures] ELSE restarts
        /\ pending' = Orphaned(P, w)

\* Mutant of Returns: one attempt too many.
ReturnsOneMore(w, answer, P) ==
    \/ /\ answer = "success"
       /\ Finishes(w, TRUE, P)
    \/ /\ answer = "http" \/ (answer \in {"failed", "network"} /\ attempt[w] > MaxRetries)
       /\ Finishes(w, FALSE, P)
    \/ /\ answer \in {"failed", "network"} /\ attempt[w] <= MaxRetries
       /\ phase' = [phase EXCEPT ![w] = "backoff"]
       /\ pending' = GivenUp(P, w)
       /\ UNCHANGED <<outcome, history, restarts>>

\* What _call_recovery_agent_with_retry does with an answer: success and
\* HTTP errors end the loop, everything else is retried after a pause while
\* attempts are left.  P are the requests left at the agent.
Returns(w, answer, P) ==
    \/ /\ answer = "success"
       /\ Finishes(w, TRUE, P)
    \/ /\ answer = "http" \/ (answer \in {"failed", "network"} /\ attempt[w] = MaxRetries)
       /\ Finishes(w, FALSE, P)
    \/ /\ answer \in {"failed", "network"} /\ attempt[w] < MaxRetries
       /\ phase' = [phase EXCEPT ![w] = "backoff"]
       /\ pending' = GivenUp(P, w)
       /\ UNCHANGED <<outcome, history, restarts>>

-----------------------------------------------------------------------------
\* The bus and the Lambda.

\* The monitor, or an operator, publishes a FailureEvent.
Publish(e) ==
    /\ e \notin events
    /\ events' = events \cup {e}
    /\ UNCHANGED <<history, phase, event, decision, attempt, pending,
                   container, runs, outcome, restarts, shielded>>

\* An event is delivered to w; delivery at least once may leave it there.
\* Steps 1 to 5 of lambda_handler: record, decide, apply the strategy.
Start(w, e) ==
    LET h   == Recorded(history[w][e.svc])
        act == ActionFor(e.type, Severity(h))
    IN  /\ phase[w] = "idle"
        /\ e \in events
        /\ events' \in {events, events \ {e}}
        /\ history' = [history EXCEPT ![w][e.svc] = h]
        /\ phase' = [phase EXCEPT ![w] = "calling"]
        /\ event' = [event EXCEPT ![w] = e]
        /\ decision' = [decision EXCEPT ![w] =
                [action   |-> act,
                 severity |-> Overridden(Strategy[e.svc], Severity(h))]]
        /\ attempt' = [attempt EXCEPT ![w] = 1]
        /\ runs' = [runs EXCEPT ![w] = 0]
        /\ outcome' = [outcome EXCEPT ![w] = NoOutcome]
        /\ restarts' = IF act = "restart_service"
                       THEN [restarts EXCEPT ![w][e.svc] = Recorded(@)] ELSE restarts
        /\ UNCHANGED <<pending, container, shielded>>

\* POST /action reaches the agent.
Send(w) ==
    /\ phase[w] = "calling"
    /\ \E id \in Slots :
        /\ \A q \in pending : q.id # id
        /\ pending' = pending \cup {[id |-> id, worker |-> w, svc |-> event[w].svc,
                                     action |-> decision[w].action, of |-> "attempt"]}
    /\ phase' = [phase EXCEPT ![w] = "waiting"]
    /\ UNCHANGED <<events, history, event, decision, attempt, container, runs,
                   outcome, restarts, shielded>>

\* Nobody answers at the agent's address.
SendFails(w) ==
    /\ phase[w] = "calling"
    /\ Returns(w, "network", pending)
    /\ UNCHANGED <<events, event, decision, attempt, container, runs, shielded>>

\* The 15 seconds of urlopen are over.
TimesOut(w) ==
    /\ phase[w] = "waiting"
    /\ Returns(w, "network", pending)
    /\ UNCHANGED <<events, event, decision, attempt, container, runs, shielded>>

\* Mutant of Retry: the attempt is not counted.
RetryUncounted(w) ==
    /\ phase[w] = "backoff"
    /\ phase' = [phase EXCEPT ![w] = "calling"]
    /\ UNCHANGED <<events, history, event, decision, attempt, pending, container,
                   runs, outcome, restarts, shielded>>

\* The pause of 2 * attempt seconds is over.
Retry(w) ==
    /\ phase[w] = "backoff"
    /\ attempt' = [attempt EXCEPT ![w] = @ + 1]
    /\ phase' = [phase EXCEPT ![w] = "calling"]
    /\ UNCHANGED <<events, history, event, decision, pending, container, runs,
                   outcome, restarts, shielded>>

\* The environment is reclaimed, or Lambda kills the invocation: its memory
\* is gone.  EventBridge delivers an unfinished event again, or drops it when
\* its retries are used up.
ColdStart(w) ==
    /\ \/ events' = events
       \/ phase[w] # "idle" /\ events' = events \cup {event[w]}
    /\ history' = [history EXCEPT ![w] = [s \in Services |-> NoFailures]]
    /\ restarts' = [restarts EXCEPT ![w] = [s \in Services |-> NoFailures]]
    /\ phase' = [phase EXCEPT ![w] = "idle"]
    /\ runs' = [runs EXCEPT ![w] = 0]
    /\ outcome' = [outcome EXCEPT ![w] = NoOutcome]
    /\ pending' = Orphaned(pending, w)
    /\ UNCHANGED <<event, decision, attempt, container, shielded>>

-----------------------------------------------------------------------------
\* The agent and docker.

\* Mutant of DockerOutcomes: the exit code of docker is not looked at.
DockerUnchecked ==
    {[took |-> TRUE,  answer |-> "success"], [took |-> FALSE, answer |-> "success"],
     [took |-> TRUE,  answer |-> "network"], [took |-> FALSE, answer |-> "network"]}

\* How a docker command can end: done, or refused; and the agent may die
\* before it answers.
DockerOutcomes ==
    {[took |-> TRUE,  answer |-> "success"], [took |-> FALSE, answer |-> "failed"],
     [took |-> TRUE,  answer |-> "network"], [took |-> FALSE, answer |-> "network"]}

\* The answer goes to the caller if it still waits for it.
Answered(q, answer) ==
    IF q.of = "attempt"
    THEN Returns(q.worker, answer, pending \ {q})
    ELSE /\ pending' = pending \ {q}
         /\ UNCHANGED <<phase, outcome, history, restarts>>

Effect(action) == IF action = "restart_service" THEN "running" ELSE "stopped"

\* execute_action for a service of the allowlist.
Execute(q, o) ==
    /\ q \in pending
    /\ q.svc \in Allowed
    /\ container' = IF o.took THEN [container EXCEPT ![q.svc] = Effect(q.action)]
                    ELSE container
    /\ shielded' = IF o.took /\ q.action = "enable_fallback"
                   THEN shielded \cup {q.svc} ELSE shielded
    /\ runs' = IF o.took /\ q.of # "past"
               THEN [runs EXCEPT ![q.worker] = @ + 1] ELSE runs
    /\ Answered(q, o.answer)
    /\ UNCHANGED <<events, event, decision, attempt>>

\* The CLI hits its 30 seconds and the caller is told that the action failed,
\* but the daemon still has the command: it may carry it out later, after
\* newer ones, or never.
CliGivesUp(q) ==
    /\ q \in pending
    /\ q.svc \in Allowed
    /\ q.of = "attempt"
    /\ Returns(q.worker, "failed", pending)
    /\ UNCHANGED <<events, event, decision, attempt, container, runs, shielded>>

\* The agent refuses before it does anything: 403 from the allowlist, 401 if
\* its token is not the Lambda's.
Reject(q) ==
    /\ q \in pending
    /\ Answered(q, "http")
    /\ UNCHANGED <<events, event, decision, attempt, container, runs, shielded>>

\* Somebody posts disable_fallback: docker start.
OperatorStarts(s) ==
    /\ s \in Allowed
    /\ container' = [container EXCEPT ![s] = "running"]
    /\ shielded' = shielded \ {s}
    /\ UNCHANGED <<events, history, phase, event, decision, attempt, pending,
                   runs, outcome, restarts>>

Tick ==
    /\ history' = [w \in Workers |-> [s \in Services |-> Older(history[w][s])]]
    /\ restarts' = [w \in Workers |-> [s \in Services |-> Older(restarts[w][s])]]
    /\ UNCHANGED <<events, phase, event, decision, attempt, pending, container,
                   runs, outcome, shielded>>

-----------------------------------------------------------------------------
Steps(w) == Send(w) \/ SendFails(w) \/ TimesOut(w) \/ Retry(w)

Next ==
    \/ \E e \in Events : Publish(e)
    \/ \E w \in Workers, e \in Events : Start(w, e)
    \/ \E w \in Workers : Steps(w) \/ ColdStart(w)
    \/ \E q \in pending, o \in DockerOutcomes : Execute(q, o)
    \/ \E q \in pending : CliGivesUp(q) \/ Reject(q)
    \/ \E s \in Services : OperatorStarts(s)
    \/ Tick

Spec == Init /\ [][Next]_vars

\* Lambda runs what it has started: urlopen has a timeout and sleeps end.
Fairness == \A w \in Workers : WF_vars(Steps(w))

FairSpec == Spec /\ Fairness

-----------------------------------------------------------------------------
\* Properties.

\* One warm environment never decides CriticalCount restarts of a service
\* within ten minutes, unless a successful enable_fallback in between has
\* wiped its history: repeated crashes escalate to stopping the container
\* (decide 145-168, _clear_history 73-81).  Types that decide() does not
\* know are not bounded in this way.
RestartBudget ==
    \A w \in Workers, s \in Services : restarts[w][s][CriticalCount] >= TenMinutes

\* Every restart that an environment has decided is one of the failures it
\* has counted, and the counted failures are in order of age.
RestartsAreFailures ==
    \A w \in Workers, s \in Services :
        /\ \A k \in 1..CriticalCount : history[w][s][k] <= restarts[w][s][k]
        /\ \A k \in 2..CriticalCount : history[w][s][k - 1] <= history[w][s][k]

\* The Lambda reports a recovery as successful only if docker has carried
\* the action out during that invocation (recovery_handler.py 202-213).
SuccessIsReal ==
    \A w \in Workers : outcome[w].result = "success" => runs[w] > 0

\* While its invocation runs, a recovery action takes effect at most once per
\* attempt: retries after lost answers repeat it, but never more than
\* MaxRetries times in all (329-375).  What requests that are left over at
\* its end may still do is not counted.
RunsWithinAttempts ==
    \A w \in Workers : runs[w] <= attempt[w]

\* An invocation ends, whatever the agent does.
InvocationEnds ==
    \A w \in Workers : phase[w] # "idle" ~> phase[w] = "idle"

\* A container that enable_fallback has stopped stays stopped until somebody
\* starts it by hand (README.md 369).
StoppedStays ==
    \A s \in shielded : container[s] = "stopped"
=============================================================================
