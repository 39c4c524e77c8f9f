# Formal model of the self-healing system

TLA+ modules that model the running parts of this repository, TLC configurations
that check them on small instances, and TLAPS proofs of the main invariants for
every value of the constants.

## 1. Inventory

| Part | Source | State it keeps | Operations |
|---|---|---|---|
| circuit breaker | `api-service/app/services/circuit_breaker.py` | state, failure count, time of the last failure, probe count (in memory, one per service) | `can_call_core`, `record_success`, `record_failure` |
| gateway | `api-service/app/services/gateway_service.py`, `routes/api_routes.py` | the requests suspended in `await` | `call`, `_apply_strategy`, `_call_fallback`, `_emit_state_change`; 404, 503 |
| HTTP client | `api-service/app/clients/generic_client.py` | one shared pool of 100 connections | `call`, pool wait and timeout |
| service registry | `api-service/app/services/service_registry.py`, `services_config.json` | immutable map | `get`, `from_config_file` |
| monitor | `monitor/app/services/monitor_service.py`, `checkers/`, `event_cooldown.py` | results of a cycle, a timer per (service, failure type) | cycle of parallel checks, classification, cooldown, publication |
| EventBridge | AWS, through `eventbridge_publisher.py` | events to deliver | accept or refuse; deliver at least once, unordered |
| recovery policy | `aws/lambda/smart_recovery_policy.py` | failure timestamps per service, one dict per warm environment | `decide`, `evaluate_recovery_outcome` |
| recovery Lambda | `aws/lambda/recovery_handler.py` | the invocation under way | parse, decide, override, call the agent up to three times, evaluate |
| rollback manager | `aws/lambda/rollback_manager.py` | baseline image and successes per service, in the same warm environment; only recommends | `record_baseline`, `record_successful_recovery`, `should_recommend`, `recommend_rollback` |
| recovery agent | `recovery-agent/app/` | requests that wait for the event loop, history file, crash reports | `execute_action` (restart, stop, start) |
| containers | docker | running or stopped | — |
| demo services | `demo-services/`, `fallback-service/` | crashed and slow flags | work, health, fail, slow, recover |
| metrics, dashboards, scripts, UI | `*/publishers/`, `aws/cloudwatch`, `scripts`, `demo-ui` | none that the system reads back | — |

How they interact: a client's request goes through the gateway to a demo service or to
fallback-service; the monitor polls the health endpoints every 5 seconds and publishes a
`FailureEvent`; EventBridge invokes the Lambda, which decides an action and posts it to the
agent; the agent runs docker. The gateway and the recovery path share no state: they
meet only in the services that they call and restart.

What is hard here: requests of one event loop that interleave at two awaits; a breaker that
is consulted before and updated after an await; one connection pool for all services; a clock
in three places (cooldown of the breaker, cooldown of the events, windows of the policy);
memory that is lost on restarts and split between Lambda environments; a caller that
gives up after 15 seconds on an agent that may take 30; retries of actions that are under way;
events delivered twice. `PROJECT.json` lists each at its line under `hazards`, with
the properties that cover it or the reason why none does yet.

What makes the parts correct:

* breaker and gateway: nothing reaches a service during the cooldown; HALF_OPEN never
  wedges and is only decided by probes; the breaker trips after N failures in a row and only
  then; services affect each other through the pool only; every request is answered; a healed circuit closes;
* recovery: repeated failures escalate instead of restarting for ever; a reported success is real;
  retries repeat an action a bounded number of times; an invocation ends;
* Lambda memory: a rollback is recommended exactly when an invocation ends CRITICAL; a service that was given up starts over;
* agent: what it reports, counts and records has happened, whatever dies in between; logs are saved before a stop;
* monitor: no duplicate events within a cooldown; no failure is silenced for ever;
* the loop: restarts end, and the service and its circuit heal.

## 2. Modules

| Module | What it is | Correspondence |
|---|---|---|
| `CircuitBreaker` | the class as operators over one record | one operator per method; the lock makes each one step |
| `Gateway` | extends it with requests, pool, services and time | `pc[r]` is the await a request is in; `Admit`/`Block` are the code up to the first await, `Primary*` the code after it, `Fallback*` the code after the second |
| `BreakerSpec` | what one breaker promises in terms of failures in a row, time since the last one and calls under way, without a state or a probe counter | abstract |
| `BreakerRefinement` | the mapping of `Gateway` to `BreakerSpec`, for one watched service | `failureCount`, `elapsed` and the requests in their primary await |
| `RecoveryPolicy` | `SmartRecoveryPolicy` as operators without state | ladder, override, clearing, over the ages of the newest failures |
| `Recovery` | extends it with the bus, environments, retries, the agent and docker | `phase[w]` is where the invocation is: before a POST, waiting, in the pause between attempts; `pending` are the requests at the agent |
| `LambdaMemory` | one environment: the lists of `_failure_history` themselves, and `_rollback_state`, over several services | `Decides` is `lambda_handler` up to the call of the agent, `Finishes` the rest, with the metrics |
| `LadderSpec` | the ladder of a service, in ages | abstract; `LambdaMemory` implements it, so the representation of `RecoveryPolicy` is right |
| `RecoveryAgent` | `execute_action` step by step: report, S3, docker, history, metrics, answer | `stage[r]` is the statement a request is at |
| `AgentSpec` | what callers of the agent may rely on | abstract; `RecoveryAgent` implements it |
| `Monitor` | cycles, classification, cooldown, publication | `phase` is where `run_async` is; `Process` is one iteration of the loop over the results |
| `SelfHealing` | the whole loop around core-service and its flags, with the breaker and the ladder as they are and the other parts reduced to what the loop sees of them | `Reports`/`SeesUp` are a check of the monitor, `Deliver` and `job` an invocation, `TakesEffect` docker |
| `MCGateway`, `MCRecovery`, `MCLambda`, `MCAgent`, `MCMonitor` | constants for TLC (`SelfHealing` needs none) | — |
| `GatewayProofs`, `BreakerProofs`, `RecoveryProofs`, `RetryProofs`, `LambdaProofs`, `AgentProofs`, `MonitorProofs`, `SelfHealingProofs` | theorems and proofs | section 5 |

The operators whose comment starts with "Mutant of" are wrong versions of the definition
that follows them. No specification uses them: each shows, put in the place of the
right one, that some property would notice that mistake.

### Abstractions

* Time. A clock reading is kept as the time elapsed since it was taken, and stops at the
  value it is compared with (30 s, 60 s, 5 and 10 min). `Tick` may happen between any two steps; in the gateway
  it waits for calls that have used up `CallBound`, since httpx ends them. The breaker's
  clock is taken to be monotonic although the code reads the wall clock.
* Policy history. The list of timestamps is represented by the ages of its newest
  `CriticalCount` entries, in order. "At least k failures in the last w" is "the k-th newest is
  younger than w", which is all that the ladder asks. `LambdaMemory` keeps the lists, and `ListsClimbTheLadder` shows
  that appending, pruning and counting come to the same, and is proved to. The pruning of the code is a filter;
  `Pruned` takes the newest timestamps off the end instead, which is the same in a list in order (`ListsInOrder`).
* Names, texts, latencies, log lines, metrics. A latency is the side of the two thresholds
  it falls on; a metric is modelled only where a property is about it (the
  gauge, the counts of the agent, the three metrics of the Lambda). Datapoints of the gauge can get lost for the services in `Lossy`, and the
  gauge keeps its value over a restart of api-service; `stale` marks both. `put_metric_data` blocks the event loop of
  api-service for as long as it takes, which the model makes no time at all.
* The agent serves its requests in any order. Its token check runs in a thread pool before the
  handler, so arrival order is not kept; the handler itself never awaits, so one action
  runs at a time. `Reject` also stands for a wrong token: both are 4xx answers without effect.
* Docker. A command can be done, refused, done after its CLI has timed out, or done or not by an agent
  that dies before it answers. When the CLI gives up, the daemon may carry the command out at once, later and after newer ones, or never:
  in `Recovery` `CliGivesUp` leaves the request with the agent for that, in `RecoveryAgent` it is `late`.
  A restart that stops the container and then cannot start it counts as not done.
* Leftovers. What a request left at the agent by an ended invocation does later is an effect on the container, but is
  not counted in `runs`, which are those of the invocation under way.
* The agent's files. A crash report is whole or has failed. A line of the history parses or not, and the file ends with a
  newline, with a complete record or in the middle of one: a write can be cut short anywhere, and the next line is glued
  to what is left. Records are taken to be ASCII: a record torn inside a longer character would make the whole file unreadable, not
  the last lines only. Every request is posted once; a retry of the Lambda is another request.
* Lambda. An invocation that is killed is delivered again or dropped: how often EventBridge retries is not counted.
* `SelfHealing`. One service and one environment, failures of type "crash", a request to the gateway in one step.
  Everything that goes wrong, whatever it is, costs one of `Troubles`: without such a bound there is no "in the end".
  A check and the publication of what it found are one step, and the rest of the cycle, in which the result may grow stale, is part of the
  event's delay. What that leaves out is a service that recovers between a check and the end of its cycle exactly when its cooldown ends.

History variables (`streak`, `admittedIn`, `refused`, `runs`, `restarts`, `shielded`, `reported`, `forgiven`, `commands`, `wrote`, and
`answer` of `LambdaMemory`) appear in no guard: they only record what properties talk about. (`admittedIn` is reset when a request ends.)

## 3. Runs

Runs that pass:

| Run | Instance | Shows |
|---|---|---|
| `Gateway_breaker` | 1 service whose datapoints may get lost, 3 requests, 2 connections, threshold 2, cooldown 3, call bound 2 | the breaker's invariants and its cooldown, with restarts of api-service; the gateway implements `BreakerSpec`; a healed circuit closes for good |
| `Gateway_services` | 2 services, 2 requests, 1 connection: payment never fails, movie breaks and answers malformed bodies, fallback-service breaks | a healthy service is charged only for its own calls that got no connection; no 503 before the fallback has failed; every request is answered |
| `Recovery_invocations` | 1 environment, thresholds 2/3/5, windows 1 and 2, 3 attempts, 2 requests at the agent | the restart budget, across cold starts; success is real; effects are bounded by attempts; every invocation ends |
| `Lambda_memory` | 2 services of different strategies in one environment, windows 2 and 3, thresholds 2/3/4, up to 5 timestamps | rollbacks are recommended exactly by what ends CRITICAL, and counted as escalations; a service starts over after its fallback; the lists climb the ladder of `LadderSpec` |
| `Agent_actions` | 2 requests of any kind, 2 services of which one is allowed | the agent implements `AgentSpec`; reports come before stops; the bucket, the history and the counts claim nothing that did not happen; a torn record costs one more at most; every request ends |
| `Monitor_cooldown` | 2 services, three behaviours, cooldown 2 | no duplicates within a cooldown; a lasting failure is reported again and again |
| `SelfHealing_heals` | 1 service, 3 troubles, cooldown 4, delays 1 + 1 + 1, CRITICAL at the second failure | restart loops end; the service heals and its circuit closes, unless it is left in slow mode, which nobody but the gateway notices |

Runs that TLC refutes, each a place where the code and a document of the repository disagree
(`findings` quotes the lines):

| Run | What happens |
|---|---|
| `Gateway_late` | a late success closes an OPEN circuit without a probe |
| `Gateway_malformed` | a service that answers a JSON list never trips its breaker |
| `Gateway_starved` | calls that hang in a dead service hold the shared pool until the breaker of a healthy one opens |
| `Recovery_stopped` | a container stopped at CRITICAL is restarted by the next event |
| `Agent_report` | the answer names a crash report that could not be written |

Three more disagreements are findings of runs that pass, since the property that holds says the opposite of the document:

* `HalfOpenOnlyProbes`: two calls probe in HALF_OPEN when one is configured, because the call that opens HALF_OPEN is not counted
  (`circuit_breaker.py` 13 and README 344 say one; a unit test knows of two).
* `RecommendsWhenCritical`: a HIGH severity, forced or not, never leads to a rollback recommendation (README 1078 says that forcing HIGH
  makes them more frequent).
* `SlowGoesUnnoticed`: `/health` answers "healthy" while the slow flag is set (`core_service.py` 49 says "only when no failure flags are set").

What the models allow and no run states:

* A publication that EventBridge refuses starts the cooldown as an accepted one does: the failure is silent for
  that long. `FailureIsReported` holds because the monitor tries again afterwards.
* The restart budget is one of a warm environment. Two environments exceed it together.
* An answer that is lost, or comes after the 15 seconds of `urlopen`, makes a recovery that docker
  carried out a failed one with severity CRITICAL (`recovery_handler.py` 427). The caller cannot know better.
* In `SelfHealing` an event that arrives when the service is up again restarts it all the same. Its start is reported as a new
  failure, since the check that found it up has cleared the timer, and so on. The loop ends when the ladder reaches CRITICAL
  and stops the container: the success clears the history, the monitor reports that the service is down, and
  one more restart is the last. A single trouble leads to at most `CriticalCount + 1` docker commands in all.

Bounds. Three requests are one more than the threshold of 2 (the code's is 3): two trip the breaker while the
third is still in flight, and a further failure finds it OPEN. They are also one more than the connections, so
that a call has to queue; in `Gateway_services` and `Gateway_starved` two requests share one connection, as 300 would share the 100 of the code. The call bound is less than the cooldown (2 against 3), as in the code, where a call takes
seconds and the cooldown 30; two ticks let a call outlive the trip. The windows of
the ladder are 1 and 2 ticks, so that failures leave the short one before the long one; the counts of the ladder and
the attempts are those of the code. Two slots for
requests at the agent are enough for one that is awaited and one that was given up; `Send` waits when both
are taken, which only removes behaviours in which more stale requests are queued, and the proofs put no
bound on them. Requests are interchangeable, which the symmetry set uses in runs that check no liveness.
`MaxFailures` is one more than CRITICAL takes, so that a list is longer than the ages it stands for; it is a bound of the model, the lists of the code have none, and the length in `TypeOK` is no more than that bound; successes are counted up
to one, since nothing reads the number. Two requests are what it takes for a torn line to meet another record and for a command that
outlived its CLI to overtake one of a later request. In `SelfHealing` the cooldown is longer than the event, the invocation and the start
together (`DelayAssumption`), as in the code: 60 seconds against at most 51 (three attempts of 15 seconds and pauses of 2 and 4)
plus a start of a few seconds; delivery by EventBridge has to take no more than the rest. `LadderAssumption` says that a service which fails again as soon as it
has been restarted gets to CRITICAL before its first failure is forgotten: four rounds of less than 60 seconds against
600 in the code. It is as weak as it can be: when the four rounds (one, in the instance) fill the ten minutes exactly, or when
CRITICAL is the first rung, TLC finds restarts that never end. Three troubles let a late
command, a doubled event and a further crash meet.

## 4. Fairness

`Gateway`: each request's completion is weakly fair: the event loop runs handlers and httpx's
connect, read and pool timeouts end the awaits. Time passes. `Admit` is strongly fair for each service:
clients keep calling, an assumption about them without which an OPEN circuit never leaves its
state, since the code has no timer. It is strong because a call is possible only now and then.
`Recovery`: the steps of an invocation are weakly fair (Lambda runs it, `urlopen` has a timeout, pauses
end); the agent and the bus get no fairness at all. `Monitor`: the loop and time are weakly
fair, since checks time out and `put_events` returns, and the process is not restarted for ever.
`RecoveryAgent`: the steps of each request are weakly fair: docker's command line has a timeout of 30 seconds, boto3 and the disk return,
and the event loop takes the next request; a process that dies ends what it had. `SelfHealing`: the monitor, EventBridge, the
invocation, the agent, the start of a container and time are weakly fair, requests of clients strongly, as in `Gateway`; what goes wrong,
and `/recover`, are not fair. `LambdaMemory` states safety only.

## 5. Proofs

All for any constants that satisfy the assumptions next to their declaration.

* `GatewayProofs`. `TypeCorrect`, then three inductive invariants. `ProbeInFlight`: when the breaker
  is HALF_OPEN, the request that opened it is still in its await, because its end, whichever it is,
  leaves HALF_OPEN. `OldCalls`: while OPEN, calls in flight are as old as the cooldown. `OnlyProbes` needs
  `CallBound < RecoveryTimeout` and rests on `OldCalls`: when the cooldown is over, no earlier call can be left, so
  the calls in flight are those counted and the one that was not. `CooldownHolds` is
  the action property that the cooldown admits nothing; `StreakDecides` (for services whose bodies are well-formed)
  and `GaugeCorrect` relate the breaker to what has happened and to what was emitted. `HealthyBreakers` and
  `FallbackHolds` make no assumption on the pool: a healthy service only ever pays for its own calls that got no connection, which rests on the fact
  that a call to it which has one cannot fail, and no request of a service with a fallback ends in a 503 but by the failure of its fallback call.
* `BreakerProofs`. `BreakerRefines`: the gateway implements `BreakerSpec` for each service whose bodies are well-formed, if
  `CallBound < RecoveryTimeout`. The step that needs invariants is the admission of a call to a
  circuit that has tripped: the cooldown is over in HALF_OPEN as well, since nothing restarts it there
  (`ProbesAfterCooldown`), and the calls under way are no more than the probe and those counted (`OnlyProbes`).
* `RecoveryProofs`. `TypeCorrect` carries `AttemptsLeft` (a pause is only taken when an attempt
  is left). `BudgetHolds` rests on `BudgetInv`: restarts decided are a part of the failures counted,
  entry by entry, so the fifth newest restart is at least as old as the fifth newest failure,
  and when that one is younger than ten minutes the decision is not a restart. It assumes the three
  failure types that the policy knows: an unknown type restarts whatever the severity. `LedgerHolds` is the ledger itself.
* `RetryProofs`, for any number of environments, slots and attempts. The invariant keeps the accounts of each
  invocation: it awaits one request exactly while it waits, and the docker commands run for it together with
  the requests that it still has at the agent are no more than the attempts it has made. `RunsBounded`
  and `SuccessHolds` follow: an answer "done" can only come from the request that is awaited, which has just been carried out.
* `LambdaProofs`. `RecommendedWhenCritical` and `RollbackEscalated` rest on the facts that the baseline is in place
  whenever an invocation ends and that a decision is escalated when its severity is HIGH or CRITICAL. `TypeCorrect` carries
  `ListsInOrder`: timestamps are appended in order, and pruning and time keep it. From the order alone follows what counting needs
  (`CountedNewest`): those within a window are the last ones, as many as there are, which compares two intervals and takes no
  induction over the list. Then appending and pruning is recording (`AgesRecorded`), the two counts give the rung of the
  ages (`RungOfAges`), and `LadderImplemented` goes through the actions: a decision is a failure of `LadderSpec`, a successful fallback
  forgives, a cold start forgets. `StartsOverHolds` rests on `OverInv`: a service that was forgiven has no timestamps until
  its next failure is handled, so that this one counts as the first.
* `AgentProofs`. `AgentTypeCorrect`, then an inductive invariant that says, stage by stage, what a request has done so far. Most
  properties of `Agent_actions` follow from it, and `AgentImplements`: the agent implements `AgentSpec`. `HistoryCorrect` adds
  `LogInv` (one request at a time is worked on, and the lines follow the effects), `LossesAreLocal` adds `WroteInv`: the file ends with a
  newline just when its last record is whole, and nothing is ever appended to a line that has ended.
* `MonitorProofs`. `TypeCorrect` carries `AllChecked` (results are handled when all checks have ended).
  `CooldownHolds` rests on `TimerCovers`: a timer is never older than the event that it stands for, although a
  refused publication restarts it.

* `SelfHealingProofs`. `TypeCorrect`, then `RestartsEnd`, for any delays and windows that satisfy the two assumptions and any number
  of troubles. The number of commands is no invariant by itself: what is made must be weighed against what is still to come. A *token* is
  something that is going to lead to a command: a copy of an event, an invocation whose command is still to come, a
  request left at the agent, or an outage that the monitor is still going to report (`Unreported`: the service is down and will not
  be up again before the cooldown ends, which is where `DelayAssumption` enters, by `ReportTurns`). A command uses up a token and may cause an
  outage, which is one again; only a trouble adds a token (`Trouble` lemmas, one per kind). So `WithinBudget`: the
  tokens, each worth `CriticalCount + 1` commands and a late request one more, are covered by the troubles so far. That bounds the tokens,
  not the commands, since a token may restart the service over and over. `Paid` adds the ladder: `Credit(k)` says that the tokens there are have made `k` commands already, because
  some token is early enough to belong to the series of the `k` newest failures (`InTime`, `Series`). A delivery in time
  makes the series longer by one (`CreditGrows`), and its `CriticalCount`-th failure has severity CRITICAL by `LadderAssumption`, so it stops the
  service. The stop uses up the credit (`StopIsPaid`) and `StartedOver` takes its place: the history is empty, and the next failure
  restarts. That restart is the last, or some other token is used up on the way. Every action is one of three kinds: neutral
  (`MoveIsPaid`), paid by a trouble (`TroubleIsPaid`), or one of the two that move the credit. In the end whoever has credit
  holds a token, and a token weighs more than any credit (`CreditIsCovered`), so the commands alone are within the budget.
  TLC checked the invariant on instances with `CriticalCount` 2, 3 and 4 before it was proved.

Every invariant and action property of the passing runs, and the three refinements, are theorems. Only model-checked: all liveness
(`EveryCallAnswered`, `HealedCircuitCloses`, `InvocationEnds`, `EveryRequestEnds`, `FailureIsReported`, `Heals`,
`SlowGoesUnnoticed`), whose fairness is out of the prover's reach.

## 6. Not modelled

Parsing of configuration and events, Pydantic validation, the read-only endpoints. The latency and count metrics of the monitor and of api-service
beyond the gauge: nothing reads them back, and each is one call whose failure is logged and forgotten. CloudWatch
alarms and dashboards, IAM policies, scripts, UI. Jumps of the wall clock. A response that
trickles in for longer than `CallBound` (httpx limits the pause between two reads, not the whole call). Of the demo
services, core-service is in `SelfHealing`; the others are the same program with other names. Rotation of the agent's Docker
logs and retention of S3 objects, which are configuration.

## 7. Plan

Done: breaker and gateway, policy and recovery, monitor; then the agent step by step with its files, the memory of the Lambda and the
rollback manager, the loop end to end; `BreakerSpec`, `LadderSpec` and `AgentSpec` with their refinements; the proofs of section 5.

Left, in order of interest: `SelfHealing` with two environments and with concurrent requests; the service
registry's `from_config_file` as an operator over configuration entries, checked against the defaults it promises.
