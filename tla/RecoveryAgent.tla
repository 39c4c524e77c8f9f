--------------------------- MODULE RecoveryAgent ---------------------------
(***************************************************************************)
(* recovery-agent: RecoveryService.execute_action step by step, with the   *)
(* crash report, its copy in S3, docker, the history file and CloudWatch.  *)
(*                                                                         *)
(* The route is a coroutine that never awaits, so the event loop runs one  *)
(* request to its end before it takes the next one, although the callers   *)
(* may have left.  Between two steps the process may die; files, S3,       *)
(* CloudWatch and the docker daemon keep what they have.  Every request is *)
(* posted once: a retry of the Lambda is another request.                  *)
(***************************************************************************)
EXTENDS Naturals, Sequences

CONSTANTS
    Requests,
    Services,
    Allowed,     \* allowed_services
    S3Enabled,   \* S3_CRASH_REPORTS_BUCKET is set
    LastN        \* last_n of read_records, 50 by default

ASSUME AllowedAssumption == Allowed \subseteq Services
ASSUME EnabledAssumption == S3Enabled \in BOOLEAN
ASSUME LastNAssumption   == LastN \in Nat \ {0}

VARIABLES
    stage,     \* the step of execute_action each request is at
    req,       \* its body
    report,    \* its crash report on the disk of the agent
    mirror,    \* requests whose report has been copied to S3
    verdict,   \* cmd_result.success of its command
    late,      \* commands given up by the CLI that the daemon still has
    effects,   \* requests in the order in which their commands took effect
    log,       \* lines of recovery_history.jsonl
    tail,      \* how the file ends: after a newline or not
    wrote,     \* the records that have got into the file, whole or cut short:
               \* a history variable, which nothing reads
    counted    \* RecoverySuccessCount and RecoveryFailureCount, by request

vars == <<stage, req, report, mirror, verdict, late, effects, log, tail, wrote, counted>>

ActionTypes == {"restart_service", "enable_fallback", "disable_fallback"}

\* `test' is set when the reason starts with "[TEST]", which is looked at for
\* enable_fallback only.
ActionRequest ==
    {q \in [svc : Services, action : ActionTypes, test : BOOLEAN] :
        q.test => q.action = "enable_fallback"}

\* A line of the history begins with the record of a request; it parses or
\* it does not.
Line == [of : Requests, success : BOOLEAN, parses : BOOLEAN]

\* What became of an attempt to append the record of a request: `whole' with
\* its newline, or cut short before.
Entry == [of : Requests, whole : BOOLEAN]

Working == {"report", "upload", "docker", "history", "metrics", "respond"}
Over    == {"success", "failure", "forbidden", "lost"}

TypeOK ==
    /\ stage \in [Requests -> {"unsent", "queued"} \cup Working \cup Over]
    /\ req \in [Requests -> ActionRequest]
    /\ report \in [Requests -> {"none", "whole", "failed"}]
    /\ mirror \in SUBSET Requests
    /\ verdict \in [Requests -> BOOLEAN]
    /\ late \in SUBSET Requests
    /\ effects \in Seq(Requests)
    /\ log \in Seq(Line)
    /\ tail \in {"newline", "record", "torn"}
    /\ wrote \in Seq(Entry)
    /\ counted \in [Requests -> {"none", "success", "failure"}]

Init ==
    /\ stage = [r \in Requests |-> "unsent"]
    /\ req \in [Requests -> ActionRequest]
    /\ report = [r \in Requests |-> "none"]
    /\ mirror = {}
    /\ verdict = [r \in Requests |-> FALSE]
    /\ late = {}
    /\ effects = << >>
    /\ log = << >>
    /\ tail = "newline"
    /\ wrote = << >>
    /\ counted = [r \in Requests |-> "none"]

Carried == {effects[i] : i \in 1..Len(effects)}

MovesTo(r, next) == stage' = [stage EXCEPT ![r] = next]

-----------------------------------------------------------------------------
\* POST /action.

Post(r) ==
    /\ stage[r] = "unsent"
    /\ MovesTo(r, "queued")
    /\ UNCHANGED <<req, report, mirror, verdict, late, effects, log, tail, wrote, counted>>

\* Mutant of EventLoopFree: the route runs in a pool of threads.
EventLoopThreads == TRUE

EventLoopFree == \A r \in Requests : stage[r] \notin Working

\* Mutants of FirstStep: the allowlist is not consulted; the container is
\* stopped at once.
FirstStepUnchecked(q) == IF q.action = "enable_fallback" THEN "report" ELSE "docker"

FirstStepStops(q) == IF q.svc \in Allowed THEN "docker" ELSE "forbidden"

\* The allowlist, and the handler of the action.
FirstStep(q) ==
    CASE q.svc \notin Allowed -> "forbidden"
      [] q.svc \in Allowed /\ q.action = "enable_fallback" -> "report"
      [] OTHER -> "docker"

Begin(r) ==
    /\ stage[r] = "queued"
    /\ EventLoopFree
    /\ MovesTo(r, FirstStep(req[r]))
    /\ UNCHANGED <<req, report, mirror, verdict, late, effects, log, tail, wrote, counted>>

\* _write_crash_report up to its upload: the file gets the last log lines,
\* or an OSError is swallowed and the upload skipped.
WriteReport(r, o) ==
    /\ stage[r] = "report"
    /\ report' = [report EXCEPT ![r] = o]
    /\ MovesTo(r, IF o = "whole" THEN "upload" ELSE "docker")
    /\ UNCHANGED <<req, mirror, verdict, late, effects, log, tail, wrote, counted>>

\* Mutant of Uploads: a manual test is uploaded as an incident.
UploadsTests(r) == S3Enabled

Uploads(r) == S3Enabled /\ ~req[r].test

\* S3CrashReportPublisher.upload: errors are swallowed.
Upload(r) ==
    /\ stage[r] = "upload"
    /\ \/ Uploads(r) /\ mirror' = mirror \cup {r}
       \/ UNCHANGED mirror
    /\ MovesTo(r, "docker")
    /\ UNCHANGED <<req, report, verdict, late, effects, log, tail, wrote, counted>>

\* Mutant of DockerRuns: a command that has timed out counts as done.
DockerRunsTimeout(r) ==
    \/ /\ effects' = Append(effects, r)
       /\ verdict' = [verdict EXCEPT ![r] = TRUE]
       /\ UNCHANGED late
    \/ /\ late' = late \cup {r}
       /\ verdict' = [verdict EXCEPT ![r] = TRUE]
       /\ UNCHANGED effects

\* DockerExecutor._run: exit code 0; another one, or no docker CLI; or 30
\* seconds pass, the CLI is killed, and the daemon may still carry it out.
DockerRuns(r) ==
    \/ /\ effects' = Append(effects, r)
       /\ verdict' = [verdict EXCEPT ![r] = TRUE]
       /\ UNCHANGED late
    \/ /\ verdict' = [verdict EXCEPT ![r] = FALSE]
       /\ UNCHANGED <<effects, late>>
    \/ /\ late' = late \cup {r}
       /\ verdict' = [verdict EXCEPT ![r] = FALSE]
       /\ UNCHANGED effects

Docker(r) ==
    /\ stage[r] = "docker"
    /\ DockerRuns(r)
    /\ MovesTo(r, "history")
    /\ UNCHANGED <<req, report, mirror, log, tail, wrote, counted>>

\* Mutant of Written: the file is opened for writing, not for appending.
WrittenOver(r, end) == << [of |-> r, success |-> verdict[r], parses |-> TRUE] >>

\* Mutant of Written: the newline after the record is forgotten.
WrittenUnended(r, end) ==
    IF log = << >>
    THEN << [of |-> r, success |-> verdict[r], parses |-> end # "torn"] >>
    ELSE [log EXCEPT ![Len(log)].parses = FALSE]

\* The lines of the file after an attempt to append the record of r that
\* has got to `end': what follows a line without newline becomes part of
\* that line, which does not parse any more.
Written(r, end) ==
    IF tail = "newline"
    THEN Append(log, [of |-> r, success |-> verdict[r], parses |-> end # "torn"])
    ELSE [log EXCEPT ![Len(log)].parses = FALSE]

\* write_record: it never raises, but a full disk, or the end of the
\* process, cuts what it writes short.
WriteRecord(r) ==
    /\ stage[r] = "history"
    /\ \/ UNCHANGED <<log, tail, wrote>>
       \/ \E end \in {"newline", "record", "torn"} :
            /\ log' = Written(r, end)
            /\ wrote' = Append(wrote, [of |-> r, whole |-> end = "newline"])
            /\ tail' = IF tail = "newline" \/ end = "newline" THEN end ELSE "torn"
    /\ MovesTo(r, "metrics")
    /\ UNCHANGED <<req, report, mirror, verdict, late, effects, counted>>

\* The datapoints of CloudWatchMetricsPublisher, each of which may be lost.
EmitMetrics(r) ==
    /\ stage[r] = "metrics"
    /\ \/ counted' = [counted EXCEPT ![r] = IF verdict[r] THEN "success" ELSE "failure"]
       \/ UNCHANGED counted
    /\ MovesTo(r, "respond")
    /\ UNCHANGED <<req, report, mirror, verdict, late, effects, log, tail, wrote>>

\* Mutant of Respond: a failed command raises instead of answering.
RespondRaises(r) ==
    /\ stage[r] = "respond"
    /\ MovesTo(r, IF verdict[r] THEN "success" ELSE "error")
    /\ UNCHANGED <<req, report, mirror, verdict, late, effects, log, tail, wrote, counted>>

Respond(r) ==
    /\ stage[r] = "respond"
    /\ MovesTo(r, IF verdict[r] THEN "success" ELSE "failure")
    /\ UNCHANGED <<req, report, mirror, verdict, late, effects, log, tail, wrote, counted>>

\* The process dies.  What a step was writing at that moment is what the
\* step leaves behind when it fails.
Dies ==
    /\ stage' = [r \in Requests |->
                    IF stage[r] \in Working \cup {"queued"} THEN "lost" ELSE stage[r]]
    /\ UNCHANGED <<req, report, mirror, verdict, late, effects, log, tail, wrote, counted>>

\* The docker daemon finishes a command whose CLI is gone, or drops it.
DaemonFinishes(r) ==
    /\ r \in late
    /\ late' = late \ {r}
    /\ \/ effects' = Append(effects, r)
       \/ UNCHANGED effects
    /\ UNCHANGED <<stage, req, report, mirror, verdict, log, tail, wrote, counted>>

-----------------------------------------------------------------------------
\* Mutant of Steps: docker is run without a timeout and may hang.
StepsHang(r) ==
    \/ Begin(r)
    \/ \E o \in {"whole", "failed"} : WriteReport(r, o)
    \/ Upload(r)
    \/ WriteRecord(r)
    \/ EmitMetrics(r)
    \/ Respond(r)

Steps(r) ==
    \/ Begin(r)
    \/ \E o \in {"whole", "failed"} : WriteReport(r, o)
    \/ Upload(r)
    \/ Docker(r)
    \/ WriteRecord(r)
    \/ EmitMetrics(r)
    \/ Respond(r)

Next ==
    \/ \E r \in Requests : Post(r) \/ Steps(r) \/ DaemonFinishes(r)
    \/ Dies

Spec == Init /\ [][Next]_vars

\* subprocess.run, boto3 and the disk all return in the end, and the event
\* loop takes the next request.
FairSpec == Spec /\ \A r \in Requests : WF_vars(Steps(r))

-----------------------------------------------------------------------------
\* Properties.

\* A container is stopped for the fallback only after the attempt to save
\* its last log lines (recovery_service.py 187-191).
StopsAreReported ==
    \A r \in Carried : req[r].action = "enable_fallback" => report[r] # "none"

\* The bucket holds complete reports of real incidents of allowed services
\* and nothing else (recovery_service.py 226-278).
MirrorIsIncidents ==
    \A r \in mirror : report[r] = "whole" /\ ~req[r].test /\ req[r].svc \in Allowed

\* read_records: one line that does not parse empties the answer.  Lines that
\* are blank, which it skips, are never written.
ReadRecords ==
    LET first  == IF Len(log) > LastN THEN Len(log) - LastN + 1 ELSE 1
        recent == SubSeq(log, first, Len(log))
    IN  IF \A i \in 1..Len(recent) : recent[i].parses THEN recent ELSE << >>

\* The lines that can be read as successful recoveries are of commands that
\* did take effect, and stand in the order in which they did, whatever is
\* torn, lost or finished late in between (recovery_service.py 102-126,
\* recovery_routes.py 61).  The converse is not true: an effect may have no
\* record, or a failed one.
HistoryIsInOrder ==
    LET done == {i \in 1..Len(log) : log[i].parses /\ log[i].success}
    IN  /\ \A i \in done : log[i].of \in Carried
        /\ \A i, j \in done : i < j =>
                \E m, n \in 1..Len(effects) :
                    m < n /\ effects[m] = log[i].of /\ effects[n] = log[j].of

\* The record i got into the file whole, and no torn one stood before it.
Sound(i) == wrote[i].whole /\ (i > 1 => wrote[i - 1].whole)

\* A record that is cut short costs itself and the one after it and no
\* other: every other record still has a line that parses.  While none has
\* been cut short, read_records returns exactly the last of them, in order
\* (recovery_history.py 77-118).
LossIsLocal ==
    /\ \A i \in 1..Len(wrote) : Sound(i) =>
            \E k \in 1..Len(log) : log[k].parses /\ log[k].of = wrote[i].of
    /\ (\A i \in 1..Len(wrote) : wrote[i].whole) =>
            /\ Len(ReadRecords) = IF Len(wrote) > LastN THEN LastN ELSE Len(wrote)
            /\ \A i \in 1..Len(ReadRecords) :
                    ReadRecords[i].of = wrote[Len(wrote) - Len(ReadRecords) + i].of

\* A record that was written with its newline stays as it is, whatever is
\* torn after it (recovery_history.py 86-90).
AppendOnly ==
    [][\A i \in 1..Len(log) :
            (log[i].parses /\ (i < Len(log) \/ tail = "newline")) =>
                i <= Len(log') /\ log'[i] = log[i]]_vars

\* CloudWatch counts a recovery as successful only if docker has done it by
\* then: a command that outlives its timeout counts as failed whatever the
\* daemon makes of it (docker_executor.py 56, 74; recovery_service.py 130).
CountsAreReal ==
    \A r \in Requests : counted[r] = "success" => r \in Carried \ late

\* Every request ends with an answer, or with the process.
EveryRequestEnds ==
    \A r \in Requests : stage[r] = "queued" ~> stage[r] \in Over

\* An answer that says where the crash report was saved tells the truth
\* (recovery_service.py 198).
SavedReportExists ==
    \A r \in Requests :
        (stage[r] = "success" /\ req[r].action = "enable_fallback") => report[r] = "whole"

-----------------------------------------------------------------------------
\* How the caller sees the steps of the agent.
Seen(step) ==
    CASE step = "unsent"                      -> "unasked"
      [] step \in Working \cup {"queued"}     -> "asked"
      [] step \in Over                        -> step

Promise == INSTANCE AgentSpec WITH
               told    <- [r \in Requests |-> Seen(stage[r])],
               target  <- [r \in Requests |-> req[r].svc],
               carried <- Carried

\* The agent keeps the promise of AgentSpec.
KeepsPromise == Promise!Spec
=============================================================================
