----------------------------- MODULE SelfHealing -----------------------------
(***************************************************************************)
(* The loop that heals core-service, end to end: the demo service and its  *)
(* container, the breaker of api-service, the monitor, EventBridge, the    *)
(* recovery Lambda and the docker commands of recovery-agent.              *)
(*                                                                         *)
(* Each part is reduced to what the others see of it; Gateway, Monitor,    *)
(* Recovery and RecoveryAgent have the details.  Anything that goes wrong, *)
(* from a crash to a lost answer, costs one of a finite number of          *)
(* Troubles: the loop is expected to come to rest in the end.              *)
(***************************************************************************)
EXTENDS CircuitBreaker, RecoveryPolicy

CONSTANTS
    Cooldown,     \* event_cooldown_seconds, in ticks
    EventDelay,   \* longest time from put_events to lambda_handler
    JobBound,     \* longest time from lambda_handler to its end
    StartBound,   \* longest time a container takes to answer /health
    Troubles      \* bound on the things that go wrong

\* A failure is dealt with before it may be reported again.
ASSUME DelayAssumption ==
    /\ Cooldown \in Nat /\ Troubles \in Nat
    /\ EventDelay \in Nat /\ JobBound \in Nat /\ StartBound \in Nat
    /\ EventDelay + JobBound + StartBound < Cooldown

\* A service that fails again as soon as it has been restarted reaches
\* CRITICAL before the first of its failures is forgotten; 5 and 600 s in
\* the code.
ASSUME LadderAssumption ==
    /\ CriticalCount > 1
    /\ (CriticalCount - 1) * (EventDelay + JobBound + StartBound) < TenMinutes

VARIABLES
    flags,       \* the flags of core-service's StateManager that are set
    container,   \* its container
    starting,    \* time since docker started it, until it answers
    breaker,     \* its breaker in api-service
    lastSent,    \* time since the monitor's last event, up to Cooldown
    bus,         \* events in EventBridge
    history,     \* _failure_history of the warm Lambda environment
    job,         \* its invocation, if there is one
    late,        \* request at the agent that no invocation waits for
    commands,    \* docker commands that have taken effect since something
                 \* went wrong for the last time (history variable)
    troubles     \* what may still go wrong

vars == <<flags, container, starting, breaker, lastSent, bus, history, job,
          late, commands, troubles>>

\* An event that EventBridge is going to deliver once more or twice.
Event == [age : 0..EventDelay, twice : BOOLEAN]

NoJob == [action |-> "none", age |-> 0, took |-> FALSE]

\* Where the count of commands stops: more than RestartLoopEnds allows.
Enough == (CriticalCount + 2) * Troubles + 1

TypeOK ==
    /\ flags \in SUBSET {"crashed", "slow"}
    /\ container \in {"running", "starting", "stopped"}
    /\ starting \in 0..StartBound
    /\ breaker \in Breaker
    /\ lastSent \in 0..Cooldown
    /\ bus \in SUBSET Event
    /\ history \in History
    /\ job \in [action : Actions \cup {"none"}, age : 0..JobBound, took : BOOLEAN]
    /\ late \in Actions \cup {"none"}
    /\ commands \in 0..Enough
    /\ troubles \in 0..Troubles

Init ==
    /\ flags = {}
    /\ container = "running"
    /\ starting = 0
    /\ breaker = NewBreaker
    /\ lastSent = Cooldown
    /\ bus = {}
    /\ history = NoFailures
    /\ job = NoJob
    /\ late = "none"
    /\ commands = 0
    /\ troubles = Troubles

GoesWrong == troubles > 0 /\ troubles' = troubles - 1 /\ commands' = 0

-----------------------------------------------------------------------------
\* core-service and its container.

\* /work answers in time.
Works == container = "running" /\ flags = {}

\* /health answers 200: health() does not look at slow mode.
Healthy == container = "running" /\ "crashed" \notin flags

\* POST /fail, POST /slow-mode.
Misbehaves(flag) ==
    /\ container = "running" /\ flag \notin flags
    /\ GoesWrong
    /\ flags' = flags \cup {flag}
    /\ UNCHANGED <<container, starting, breaker, lastSent, bus, history, job, late>>

\* POST /recover.
Recovers ==
    /\ container = "running" /\ flags # {}
    /\ flags' = {}
    /\ UNCHANGED <<container, starting, breaker, lastSent, bus, history, job,
                   late, commands, troubles>>

\* docker restart and docker stop; a new process has no flags.
Docker(action) ==
    /\ container' = IF action = "restart_service" THEN "starting" ELSE "stopped"
    /\ starting' = 0
    /\ flags' = {}

Started ==
    /\ container = "starting"
    /\ container' = "running"
    /\ starting' = 0
    /\ UNCHANGED <<flags, breaker, lastSent, bus, history, job, late, commands, troubles>>

-----------------------------------------------------------------------------
\* api-service: a request from the first line of call() to its end.

\* Mutant of Ended: the call has no timeout.
EndedLate(b) == IF Healthy THEN RecordSuccess(b) ELSE RecordFailure(b)

Ended(b) == IF Works THEN RecordSuccess(b) ELSE RecordFailure(b)

Request ==
    /\ CanCallCore(breaker)
    /\ breaker' = Ended(AfterCanCall(breaker))
    /\ UNCHANGED <<flags, container, starting, lastSent, bus, history, job, late,
                   commands, troubles>>

GatewayRestarts ==
    /\ GoesWrong
    /\ breaker' = NewBreaker
    /\ UNCHANGED <<flags, container, starting, lastSent, bus, history, job, late>>

-----------------------------------------------------------------------------
\* The monitor, and EventBridge.

\* Mutant of MaySend: events are not held back.
MaySendAlways == ~Healthy

MaySend == ~Healthy /\ lastSent = Cooldown

\* A check that finds the service down, outside the cooldown: the event may
\* get lost, or be delivered twice.  The rest of the monitor's cycle, in which
\* the result may grow stale, is part of the delay of the event.
Reports ==
    /\ MaySend
    /\ lastSent' = 0
    /\ \/ /\ bus' = bus \cup {[age |-> 0, twice |-> FALSE]}
          /\ UNCHANGED <<commands, troubles>>
       \/ /\ GoesWrong
          /\ bus' \in {bus, bus \cup {[age |-> 0, twice |-> TRUE]}}
    /\ UNCHANGED <<flags, container, starting, breaker, history, job, late>>

\* A check that finds it up clears the timer.
SeesUp ==
    /\ Healthy
    /\ lastSent' = Cooldown
    /\ UNCHANGED <<flags, container, starting, breaker, bus, history, job, late,
                   commands, troubles>>

MonitorRestarts ==
    /\ GoesWrong
    /\ lastSent' = Cooldown
    /\ UNCHANGED <<flags, container, starting, breaker, bus, history, job, late>>

-----------------------------------------------------------------------------
\* The Lambda and the agent.

\* lambda_handler up to its first request to the agent.
Deliver(e) ==
    LET h == Recorded(history)
    IN  /\ e \in bus /\ job = NoJob
        /\ bus' = (bus \ {e}) \cup (IF e.twice THEN {[e EXCEPT !.twice = FALSE]} ELSE {})
        /\ history' = h
        /\ job' = [action |-> ActionFor("crash", Severity(h)), age |-> 0, took |-> FALSE]
        /\ UNCHANGED <<flags, container, starting, breaker, lastSent, late, commands, troubles>>

\* The agent carries the command out.
TakesEffect ==
    /\ job # NoJob /\ ~job.took
    /\ Docker(job.action)
    /\ job' = [job EXCEPT !.took = TRUE]
    /\ commands' = UpTo(Enough, commands + 1)
    /\ UNCHANGED <<breaker, lastSent, bus, history, late, troubles>>

\* The answer gets lost, and the retry is carried out as well.
Repeats ==
    /\ job.took
    /\ GoesWrong
    /\ Docker(job.action)
    /\ UNCHANGED <<breaker, lastSent, bus, history, job, late>>

\* The answer gets back.
Succeeds ==
    /\ job.took
    /\ job' = NoJob
    /\ history' = IF ClearsHistory(job.action, TRUE) THEN NoFailures ELSE history
    /\ UNCHANGED <<flags, container, starting, breaker, lastSent, bus, late,
                   commands, troubles>>

\* All attempts fail; the agent may still have one of their requests.
Fails ==
    /\ job # NoJob
    /\ GoesWrong
    /\ late' \in {late, job.action}
    /\ job' = NoJob
    /\ UNCHANGED <<flags, container, starting, breaker, lastSent, bus, history>>

\* The environment is reclaimed; its event is delivered again, or dropped.
ColdStart ==
    /\ GoesWrong
    /\ bus' \in {bus} \cup (IF job = NoJob THEN {} ELSE {bus \cup {[age |-> 0, twice |-> FALSE]}})
    /\ history' = NoFailures
    /\ job' = NoJob
    /\ UNCHANGED <<flags, container, starting, breaker, lastSent, late>>

\* The agent turns to the request that nobody waits for, or docker refuses.
LateCommand ==
    /\ late # "none"
    /\ late' = "none"
    /\ \/ Docker(late) /\ commands' = UpTo(Enough, commands + 1)
       \/ UNCHANGED <<flags, container, starting, commands>>
    /\ UNCHANGED <<breaker, lastSent, bus, history, job, troubles>>

-----------------------------------------------------------------------------
\* Time passes, and nothing takes longer than its bound.
Tick ==
    /\ \A e \in bus : e.age < EventDelay
    /\ job # NoJob => job.age < JobBound
    /\ container = "starting" => starting < StartBound
    /\ bus' = {[e EXCEPT !.age = @ + 1] : e \in bus}
    /\ job' = IF job = NoJob THEN job ELSE [job EXCEPT !.age = @ + 1]
    /\ starting' = IF container = "starting" THEN starting + 1 ELSE 0
    /\ breaker' = Aged(breaker)
    /\ lastSent' = UpTo(Cooldown, lastSent + 1)
    /\ history' = Older(history)
    /\ UNCHANGED <<flags, container, late, commands, troubles>>

Monitors == Reports \/ SeesUp

Handles == TakesEffect \/ Succeeds

Next ==
    \/ \E flag \in {"crashed", "slow"} : Misbehaves(flag)
    \/ Recovers
    \/ Started
    \/ Request
    \/ GatewayRestarts
    \/ Monitors
    \/ MonitorRestarts
    \/ \E e \in bus : Deliver(e)
    \/ Handles
    \/ Repeats
    \/ Fails
    \/ ColdStart
    \/ LateCommand
    \/ Tick

Spec == Init /\ [][Next]_vars

\* The monitor's loop, EventBridge, Lambda, the agent and docker go on, time
\* passes, and clients keep asking for the service.
Fairness ==
    /\ WF_vars(Monitors) /\ WF_vars(\E e \in bus : Deliver(e)) /\ WF_vars(Handles)
    /\ WF_vars(LateCommand) /\ WF_vars(Started) /\ WF_vars(Tick)
    /\ SF_vars(Request)

FairSpec == Spec /\ Fairness

-----------------------------------------------------------------------------
\* Properties.

\* An event that arrives when the service is up again restarts it all the
\* same, its start is reported as the next failure, and so on; but the loop
\* ends: once nothing goes wrong any more, the ladder breaks it by stopping
\* the container, and the successful stop clears the history, so that one
\* more event starts the service for good (smart_recovery_policy.py 206-211).
RestartLoopEnds == commands <= (CriticalCount + 2) * (Troubles - troubles)

\* Whatever goes wrong, a finite number of times, crashes, lost and doubled
\* events, failing commands, late ones and restarts of every part included,
\* the service works again in the end and its circuit is closed; unless it
\* is left in slow mode.
Heals == <>[](flags = {"slow"}) \/ <>[](Works /\ breaker.state = "closed")

\* Slow mode is seen by the gateway and by nobody else: the circuit never
\* closes again, and the healing is never set in motion: /health answers
\* "healthy" although the slow flag is set (core_service.py 52 against 77-79).
SlowGoesUnnoticed ==
    <>[](flags = {"slow"} /\ container = "running") =>
        <>[](breaker.state # "closed" /\ bus = {} /\ job = NoJob)
=============================================================================
