---------------------------- MODULE AgentProofs ----------------------------
(***************************************************************************)
(* Proofs about RecoveryAgent, for any requests, services and allowlist.   *)
(***************************************************************************)
EXTENDS RecoveryAgent, TLAPS

Touched(r) == r \in Carried \cup late

AfterDocker == {"history", "metrics", "respond", "success", "failure"}

\* Where a request stands decides what it has left behind.
Progress ==
    \A r \in Requests :
        /\ stage[r] \in Working \cup AfterDocker => req[r].svc \in Allowed
        /\ stage[r] = "forbidden" => req[r].svc \notin Allowed
        /\ stage[r] \in {"upload", "docker"} \cup AfterDocker
              => (req[r].action = "enable_fallback" => report[r] # "none")
        /\ stage[r] = "upload" => report[r] = "whole"
        /\ stage[r] = "success" => verdict[r]

\* What docker was given, and what became of it.
DockerInv ==
    \A r \in Requests :
        /\ Touched(r) => /\ stage[r] \in AfterDocker \cup {"lost"}
                         /\ req[r].svc \in Allowed
                         /\ req[r].action = "enable_fallback" => report[r] # "none"
        /\ ~(r \in Carried /\ r \in late)
        /\ verdict[r] => r \in Carried
        /\ counted[r] = "success" => verdict[r]

MirrorInv ==
    \A r \in mirror : stage[r] \notin {"unsent", "queued", "report"}

AgentInv == TypeOK /\ Progress /\ DockerInv /\ MirrorInv /\ MirrorIsIncidents

LEMMA CarriedAppend ==
    ASSUME effects \in Seq(Requests), NEW r \in Requests, effects' = Append(effects, r)
    PROVE  Carried' = Carried \cup {r}
<1>1. Len(effects') = Len(effects) + 1 /\ Len(effects) \in Nat
  OBVIOUS
<1>2. \A i \in 1..Len(effects) : effects'[i] = effects[i]
  OBVIOUS
<1>3. effects'[Len(effects) + 1] = r
  OBVIOUS
<1>4. ASSUME NEW x PROVE x \in Carried' <=> x \in Carried \cup {r}
  <2>1. ASSUME x \in Carried' PROVE x \in Carried \cup {r}
    <3>1. PICK i \in 1..Len(effects') : x = effects'[i]
      BY <2>1 DEF Carried
    <3>2. CASE i = Len(effects) + 1
      BY <3>1, <3>2, <1>3
    <3>3. CASE i \in 1..Len(effects)
      BY <3>1, <3>3, <1>2 DEF Carried
    <3>4. QED
      BY <3>1, <3>2, <3>3, <1>1
  <2>2. ASSUME x \in Carried PROVE x \in Carried'
    <3>1. PICK i \in 1..Len(effects) : x = effects[i]
      BY <2>2 DEF Carried
    <3>2. i \in 1..Len(effects') /\ x = effects'[i]
      BY <3>1, <1>1, <1>2
    <3>3. QED
      BY <3>2 DEF Carried
  <2>3. ASSUME x = r PROVE x \in Carried'
    <3>1. Len(effects) + 1 \in 1..Len(effects')
      BY <1>1
    <3>2. QED
      BY <3>1, <1>3, <2>3 DEF Carried
  <2>4. QED
    BY <2>1, <2>2, <2>3
<1>5. QED
  BY <1>4

LEMMA CarriedSame == effects' = effects => Carried' = Carried
BY DEF Carried

LEMMA TypeStep == TypeOK /\ [Next]_vars => TypeOK'
<1> SUFFICES ASSUME TypeOK, [Next]_vars PROVE TypeOK'
  OBVIOUS
<1> USE DEF TypeOK, MovesTo, Working, Over
<1>1. ASSUME NEW r \in Requests, Post(r) PROVE TypeOK'
  BY <1>1 DEF Post
<1>2. ASSUME NEW r \in Requests, Begin(r) PROVE TypeOK'
  <2>1. FirstStep(req[r]) \in {"forbidden", "report", "docker"}
    BY Zenon DEF FirstStep
  <2>2. QED
    BY <1>2, <2>1 DEF Begin
<1>3. ASSUME NEW r \in Requests, NEW o \in {"whole", "failed"}, WriteReport(r, o) PROVE TypeOK'
  BY <1>3 DEF WriteReport
<1>4. ASSUME NEW r \in Requests, Upload(r) PROVE TypeOK'
  BY <1>4 DEF Upload
<1>5. ASSUME NEW r \in Requests, Docker(r) PROVE TypeOK'
  <2>1. Append(effects, r) \in Seq(Requests)
    OBVIOUS
  <2>2. QED
    BY <1>5, <2>1 DEF Docker, DockerRuns
<1>6. ASSUME NEW r \in Requests, WriteRecord(r) PROVE TypeOK'
  <2>1. CASE UNCHANGED <<log, tail, wrote>>
    BY <1>6, <2>1 DEF WriteRecord
  <2>2. ASSUME NEW end \in {"newline", "record", "torn"},
               log' = Written(r, end),
               wrote' = Append(wrote, [of |-> r, whole |-> end = "newline"]),
               tail' = IF tail = "newline" \/ end = "newline" THEN end ELSE "torn"
        PROVE  TypeOK'
    <3>1. Written(r, end) \in Seq(Line)
      <4>1. CASE tail = "newline"
        <5>1. [of |-> r, success |-> verdict[r], parses |-> end # "torn"] \in Line
          BY DEF Line
        <5>2. QED
          BY <4>1, <5>1 DEF Written
      <4>2. CASE tail # "newline"
        <5> DEFINE new == Written(r, end)
        <5>1. Written(r, end) = [log EXCEPT ![Len(log)].parses = FALSE]
          BY <4>2 DEF Written
        <5>2. DOMAIN new = 1..Len(log) /\ Len(log) \in Nat
          BY <5>1
        <5>3. ASSUME NEW i \in 1..Len(log) PROVE new[i] \in Line
          <6>1. log[i] \in Line
            OBVIOUS
          <6>2. [log[i] EXCEPT !.parses = FALSE] \in Line
            BY <6>1 DEF Line
          <6>3. new[i] = IF i = Len(log) THEN [log[i] EXCEPT !.parses = FALSE] ELSE log[i]
            BY <5>1, i \in DOMAIN log
          <6>4. QED
            BY <6>1, <6>2, <6>3
        <5>4. new \in [1..Len(log) -> Line]
          <6>1. new = [i \in 1..Len(log) |-> new[i]]
            BY <5>1, <5>2
          <6>2. QED
            BY <6>1, <5>3
        <5>5. QED
          BY <5>4, <5>2
      <4>3. QED
        BY <4>1, <4>2
    <3>2. Append(wrote, [of |-> r, whole |-> end = "newline"]) \in Seq(Entry)
      <4>1. [of |-> r, whole |-> end = "newline"] \in Entry
        BY DEF Entry
      <4>2. QED
        BY <4>1
    <3>3. QED
      BY <1>6, <2>2, <3>1, <3>2 DEF WriteRecord
  <2>3. QED
    BY <1>6, <2>1, <2>2 DEF WriteRecord
<1>7. ASSUME NEW r \in Requests, EmitMetrics(r) PROVE TypeOK'
  BY <1>7 DEF EmitMetrics
<1>8. ASSUME NEW r \in Requests, Respond(r) PROVE TypeOK'
  BY <1>8 DEF Respond
<1>9. ASSUME NEW r \in Requests, DaemonFinishes(r) PROVE TypeOK'
  <2>1. Append(effects, r) \in Seq(Requests)
    OBVIOUS
  <2>2. QED
    BY <1>9, <2>1 DEF DaemonFinishes
<1>10. CASE Dies
  BY <1>10 DEF Dies
<1>11. CASE UNCHANGED vars
  BY <1>11 DEF vars
<1>12. QED
  BY <1>1, <1>2, <1>3, <1>4, <1>5, <1>6, <1>7, <1>8, <1>9, <1>10, <1>11 DEF Next, Steps

\* The agent's state is well typed.
THEOREM AgentTypeCorrect == Spec => []TypeOK
<1>1. Init => TypeOK
  BY DEF Init, TypeOK, ActionRequest, ActionTypes, Over, Working, Line, Entry
<1>2. QED
  BY <1>1, TypeStep, PTL DEF Spec

-----------------------------------------------------------------------------
LEMMA InvInit == Init => AgentInv
<1> SUFFICES ASSUME Init PROVE AgentInv
  OBVIOUS
<1>1. TypeOK
  BY DEF Init, TypeOK, ActionRequest, ActionTypes, Over, Working, Line, Entry
<1>2. Carried = {}
  BY DEF Init, Carried
<1>3. QED
  BY <1>1, <1>2 DEF Init, AgentInv, Progress, DockerInv, Touched, MirrorInv,
                    MirrorIsIncidents, Working, AfterDocker

\* A request moves one step on; docker is left alone.
LEMMA InvQuietStep ==
    ASSUME AgentInv, TypeOK', req' = req, verdict' = verdict, late' = late, effects' = effects,
           NEW r \in Requests, NEW next, stage' = [stage EXCEPT ![r] = next],
           \A q \in Requests : q # r => report'[q] = report[q] /\ counted'[q] = counted[q],
           report'[r] = report[r] \/ (stage[r] = "report" /\ report'[r] # "none"),
           counted'[r] = "success" => verdict[r],
           mirror' = mirror \/ (stage[r] = "upload" /\ mirror' = mirror \cup {r} /\ ~req[r].test),
           \/ stage[r] = "unsent" /\ next = "queued"
           \/ stage[r] = "queued" /\ next = FirstStep(req[r])
           \/ stage[r] = "report" /\ next \in {"upload", "docker"} /\ report'[r] # "none"
                 /\ (next = "upload" => report'[r] = "whole")
           \/ stage[r] = "upload" /\ next = "docker"
           \/ stage[r] = "history" /\ next = "metrics"
           \/ stage[r] = "metrics" /\ next = "respond"
           \/ stage[r] = "respond" /\ next = (IF verdict[r] THEN "success" ELSE "failure")
    PROVE  AgentInv'
<1> USE DEF AgentInv, Working, AfterDocker
<1>1. Carried' = Carried
  BY CarriedSame
<1>2. next # "unsent" /\ (next \in {"queued", "report"} => stage[r] \in {"unsent", "queued"})
  BY Zenon DEF FirstStep
<1>3. /\ next = "forbidden" => req[r].svc \notin Allowed
      /\ stage[r] = "queued" /\ next # "forbidden" => req[r].svc \in Allowed
      /\ stage[r] = "queued" => next \in {"forbidden", "report", "docker"}
      /\ stage[r] = "queued" /\ next = "docker" => req[r].action # "enable_fallback"
  BY Zenon DEF FirstStep
<1>4. Progress'
  BY <1>2, <1>3 DEF Progress, TypeOK
<1>5. DockerInv'
  BY <1>1, <1>2, <1>3 DEF DockerInv, Progress, TypeOK, Touched
<1>6. MirrorInv'
  BY <1>2 DEF MirrorInv, TypeOK
<1>7. MirrorIsIncidents'
  BY DEF MirrorIsIncidents, MirrorInv, TypeOK, Progress
<1>8. QED
  BY <1>4, <1>5, <1>6, <1>7

\* A command takes effect, at once or late.
LEMMA InvDocker ==
    ASSUME AgentInv, TypeOK', NEW r \in Requests, Docker(r)
    PROVE  AgentInv'
<1> USE DEF AgentInv, Working, AfterDocker, MovesTo, Docker
<1>1. Carried' \in {Carried, Carried \cup {r}} /\ (verdict'[r] => r \in Carried' /\ late' = late)
         /\ (r \in Carried' => r \notin late')
         /\ (late' # late => late' = late \cup {r} /\ Carried' = Carried)
  <2>1. ~Touched(r)
    BY DEF DockerInv, TypeOK
  <2>2. QED
    BY <2>1, CarriedAppend, CarriedSame DEF DockerRuns, Touched, TypeOK
<1>0. \A q \in Requests : q # r => verdict'[q] = verdict[q]
  BY DEF DockerRuns, TypeOK
<1>2. Progress'
  BY <1>0 DEF Progress, TypeOK
<1>3. DockerInv'
  <2>2. /\ \A q \in Requests : q # r => (Touched(q)' <=> Touched(q))
                                        /\ (q \in Carried' <=> q \in Carried)
                                        /\ (q \in late' <=> q \in late)
    BY <1>1 DEF Touched
  <2>3. ~verdict[r] /\ counted[r] # "success"
    BY DEF DockerInv, Touched, TypeOK
  <2>4. QED
    BY <1>0, <1>1, <2>2, <2>3 DEF DockerInv, Progress, TypeOK
<1>4. MirrorInv' /\ MirrorIsIncidents'
  BY DEF MirrorInv, MirrorIsIncidents, TypeOK
<1>5. QED
  BY <1>2, <1>3, <1>4

LEMMA InvDaemon ==
    ASSUME AgentInv, TypeOK', NEW r \in Requests, DaemonFinishes(r)
    PROVE  AgentInv'
<1> USE DEF AgentInv, DaemonFinishes
<1>1. Carried' \in {Carried, Carried \cup {r}} /\ late' = late \ {r} /\ r \in late
  BY CarriedAppend, CarriedSame DEF TypeOK
<1>2. DockerInv'
  BY <1>1 DEF DockerInv, Touched
<1>3. Progress' /\ MirrorInv' /\ MirrorIsIncidents'
  BY DEF Progress, MirrorInv, MirrorIsIncidents
<1>4. QED
  BY <1>2, <1>3

LEMMA InvDies ==
    ASSUME AgentInv, TypeOK', Dies
    PROVE  AgentInv'
<1> USE DEF AgentInv, Dies, Working, AfterDocker
<1>1. Carried' = Carried
  BY CarriedSame
<1>2. DockerInv'
  BY <1>1 DEF DockerInv, Touched, TypeOK
<1>3. Progress' /\ MirrorInv' /\ MirrorIsIncidents'
  BY DEF Progress, MirrorInv, MirrorIsIncidents, TypeOK
<1>4. QED
  BY <1>2, <1>3

LEMMA InvStep == AgentInv /\ [Next]_vars => AgentInv'
<1> SUFFICES ASSUME AgentInv, [Next]_vars PROVE AgentInv'
  OBVIOUS
<1>0. TypeOK /\ TypeOK'
  BY TypeStep DEF AgentInv
<1>1. ASSUME NEW r \in Requests, Post(r) PROVE AgentInv'
  BY <1>0, <1>1, InvQuietStep DEF Post, MovesTo, AgentInv, DockerInv
<1>2. ASSUME NEW r \in Requests, Begin(r) PROVE AgentInv'
  BY <1>0, <1>2, InvQuietStep DEF Begin, MovesTo, AgentInv, DockerInv
<1>3. ASSUME NEW r \in Requests, NEW o \in {"whole", "failed"}, WriteReport(r, o) PROVE AgentInv'
  <2>1. report'[r] = o /\ \A q \in Requests : q # r => report'[q] = report[q]
    BY <1>0, <1>3 DEF WriteReport, TypeOK
  <2>2. QED
    BY <1>0, <1>3, <2>1, InvQuietStep DEF WriteReport, MovesTo, AgentInv, DockerInv
<1>4. ASSUME NEW r \in Requests, Upload(r) PROVE AgentInv'
  BY <1>0, <1>4, InvQuietStep DEF Upload, Uploads, MovesTo, AgentInv, DockerInv
<1>5. ASSUME NEW r \in Requests, WriteRecord(r) PROVE AgentInv'
  BY <1>0, <1>5, InvQuietStep DEF WriteRecord, MovesTo, AgentInv, DockerInv
<1>6. ASSUME NEW r \in Requests, EmitMetrics(r) PROVE AgentInv'
  <2>1. /\ counted'[r] = "success" => verdict[r]
        /\ \A q \in Requests : q # r => counted'[q] = counted[q]
    BY <1>0, <1>6 DEF EmitMetrics, TypeOK, AgentInv, DockerInv
  <2>2. QED
    BY <1>0, <1>6, <2>1, InvQuietStep DEF EmitMetrics, MovesTo, AgentInv
<1>7. ASSUME NEW r \in Requests, Respond(r) PROVE AgentInv'
  BY <1>0, <1>7, InvQuietStep DEF Respond, MovesTo, AgentInv, DockerInv
<1>8. CASE UNCHANGED vars
  <2>1. Carried' = Carried
    BY <1>8, CarriedSame DEF vars
  <2>2. QED
    BY <1>8, <2>1, <1>0 DEF vars, AgentInv, Progress, DockerInv, Touched, MirrorInv, MirrorIsIncidents
<1>9. QED
  BY <1>0, <1>1, <1>2, <1>3, <1>4, <1>5, <1>6, <1>7, <1>8, InvDocker, InvDaemon, InvDies
     DEF Next, Steps

LEMMA InvHolds == Spec => []AgentInv
BY InvInit, InvStep, PTL DEF Spec

\* No container is stopped for the fallback before the attempt to save its
\* logs.
THEOREM StopsReported == Spec => []StopsAreReported
<1>1. AgentInv => StopsAreReported
  <2>1. ASSUME TypeOK PROVE Carried \subseteq Requests
    BY <2>1 DEF Carried, TypeOK
  <2>2. QED
    BY <2>1 DEF AgentInv, DockerInv, Touched, StopsAreReported
<1>2. QED
  BY <1>1, InvHolds, PTL

\* The bucket holds whole reports of real incidents only.
THEOREM MirrorCorrect == Spec => []MirrorIsIncidents
<1>1. AgentInv => MirrorIsIncidents
  BY DEF AgentInv
<1>2. QED
  BY <1>1, InvHolds, PTL

\* A recovery counted as successful was one.
THEOREM CountsCorrect == Spec => []CountsAreReal
<1>1. AgentInv => CountsAreReal
  BY DEF AgentInv, DockerInv, CountsAreReal
<1>2. QED
  BY <1>1, InvHolds, PTL

-----------------------------------------------------------------------------
\* Every step of the agent is a step of AgentSpec, or changes nothing that
\* its callers can see.
LEMMA SeenValues ==
    /\ Seen("unsent") = "unasked"
    /\ Seen("queued") = "asked"
    /\ \A w \in Working : Seen(w) = "asked"
    /\ \A o \in Over : Seen(o) = o
BY DEF Seen, Working, Over

LEMMA PromiseInit == Init => Promise!Init
<1> SUFFICES ASSUME Init PROVE Promise!Init
  OBVIOUS
<1>1. Carried = {}
  BY DEF Init, Carried
<1>2. [r \in Requests |-> Seen(stage[r])] = [r \in Requests |-> "unasked"]
  <2>1. \A r \in Requests : Seen(stage[r]) = "unasked"
    BY SeenValues DEF Init
  <2>2. QED
    BY <2>1
<1>3. [r \in Requests |-> req[r].svc] \in [Requests -> Services]
  BY DEF Init, ActionRequest
<1>4. QED
  BY <1>1, <1>2, <1>3 DEF Promise!Init

\* A request moves between two steps that its caller cannot tell apart.
LEMMA PromiseUnseen ==
    ASSUME TypeOK, NEW r \in Requests, NEW next, MovesTo(r, next), Seen(next) = Seen(stage[r]),
           req' = req, effects' = effects
    PROVE  UNCHANGED Promise!vars
<1>1. Carried' = Carried
  BY CarriedSame
<1>2. [q \in Requests |-> Seen(stage'[q])] = [q \in Requests |-> Seen(stage[q])]
  BY DEF TypeOK, MovesTo
<1>3. QED
  BY <1>1, <1>2 DEF Promise!vars

LEMMA PromiseTold ==
    ASSUME TypeOK, NEW r \in Requests, NEW next, MovesTo(r, next)
    PROVE  [q \in Requests |-> Seen(stage'[q])] =
              [[q \in Requests |-> Seen(stage[q])] EXCEPT ![r] = Seen(next)]
BY DEF TypeOK, MovesTo

LEMMA PromiseStep == AgentInv /\ [Next]_vars => [Promise!Next]_(Promise!vars)
<1> SUFFICES ASSUME AgentInv, [Next]_vars PROVE [Promise!Next]_(Promise!vars)
  OBVIOUS
<1>0. TypeOK
  BY DEF AgentInv
<1>1. ASSUME NEW r \in Requests, Post(r) PROVE Promise!Ask(r)
  BY <1>0, <1>1, PromiseTold, SeenValues, CarriedSame DEF Post, Promise!Ask
<1>2. ASSUME NEW r \in Requests, Begin(r) PROVE [Promise!Next]_(Promise!vars)
  <2>1. CASE req[r].svc \in Allowed
    <3>1. FirstStep(req[r]) \in Working
      BY <2>1, Zenon DEF FirstStep, Working
    <3>2. UNCHANGED Promise!vars
      BY <1>0, <1>2, <3>1, PromiseUnseen, SeenValues DEF Begin
    <3>3. QED
      BY <3>2
  <2>2. CASE req[r].svc \notin Allowed
    <3>1. FirstStep(req[r]) = "forbidden" /\ "forbidden" \in Over
      BY <2>2, Zenon DEF FirstStep, Over
    <3>2. Promise!Tell(r, "forbidden")
      BY <1>0, <1>2, <2>2, <3>1, PromiseTold, SeenValues, CarriedSame DEF Begin, Promise!Tell
    <3>3. QED
      BY <3>2 DEF Promise!Next
  <2>3. QED
    BY <2>1, <2>2
<1>3. ASSUME NEW r \in Requests,
             \/ \E o \in {"whole", "failed"} : WriteReport(r, o)
             \/ Upload(r)
             \/ WriteRecord(r)
             \/ EmitMetrics(r)
      PROVE  UNCHANGED Promise!vars
  <2>1. /\ stage[r] \in Working /\ req' = req /\ effects' = effects
        /\ \E next \in Working : MovesTo(r, next)
    BY <1>3 DEF WriteReport, Upload, WriteRecord, EmitMetrics, Working
  <2>2. QED
    BY <1>0, <2>1, PromiseUnseen, SeenValues
<1>4. ASSUME NEW r \in Requests, Docker(r) PROVE [Promise!Next]_(Promise!vars)
  <2>1. [q \in Requests |-> Seen(stage'[q])] = [q \in Requests |-> Seen(stage[q])]
    BY <1>0, <1>4, SeenValues DEF Docker, MovesTo, Working, TypeOK
  <2>2. /\ Seen(stage[r]) = "asked" /\ req[r].svc \in Allowed /\ r \notin Carried
    BY <1>0, <1>4, SeenValues DEF Docker, Working, AgentInv, Progress, DockerInv, Touched, AfterDocker
  <2>3. CASE effects' = Append(effects, r)
    <3>1. Promise!CarryOut(r)
      BY <1>0, <1>4, <2>1, <2>2, <2>3, CarriedAppend DEF Docker, TypeOK, Promise!CarryOut
    <3>2. QED
      BY <3>1 DEF Promise!Next
  <2>4. CASE effects' = effects
    BY <1>4, <2>1, <2>4, CarriedSame DEF Docker, Promise!vars
  <2>5. QED
    BY <1>4, <2>3, <2>4 DEF Docker, DockerRuns
<1>5. ASSUME NEW r \in Requests, Respond(r) PROVE [Promise!Next]_(Promise!vars)
  <2> DEFINE verd == IF verdict[r] THEN "success" ELSE "failure"
  <2>1. /\ Seen(stage[r]) = "asked" /\ Seen(verd) = verd
        /\ req[r].svc \in Allowed /\ (verdict[r] => r \in Carried)
    BY <1>0, <1>5, SeenValues DEF Respond, Working, Over, AgentInv, Progress, DockerInv
  <2>2. Promise!Tell(r, verd)
    BY <1>0, <1>5, <2>1, PromiseTold, CarriedSame DEF Respond, Promise!Tell
  <2>3. QED
    BY <2>2 DEF Promise!Next
<1>6. ASSUME NEW r \in Requests, DaemonFinishes(r) PROVE [Promise!Next]_(Promise!vars)
  <2>1. /\ Seen(stage[r]) \in {"asked", "failure", "lost"}
        /\ req[r].svc \in Allowed /\ r \notin Carried
    BY <1>0, <1>6, SeenValues
       DEF DaemonFinishes, Working, Over, AgentInv, Progress, DockerInv, Touched, AfterDocker
  <2>2. CASE effects' = Append(effects, r)
    <3>1. Promise!CarryOut(r)
      BY <1>0, <1>6, <2>1, <2>2, CarriedAppend DEF DaemonFinishes, TypeOK, Promise!CarryOut
    <3>2. QED
      BY <3>1 DEF Promise!Next
  <2>3. CASE effects' = effects
    BY <1>6, <2>3, CarriedSame DEF DaemonFinishes, Promise!vars
  <2>4. QED
    BY <1>6, <2>2, <2>3 DEF DaemonFinishes
<1>7. CASE Dies
  <2>1. \A q \in Requests :
            Seen(stage'[q]) = IF Seen(stage[q]) = "asked" THEN "lost" ELSE Seen(stage[q])
    BY <1>0, <1>7, SeenValues DEF Dies, Working, Over, TypeOK
  <2>2. Promise!Die
    BY <1>7, <2>1, CarriedSame DEF Dies, Promise!Die
  <2>3. QED
    BY <2>2 DEF Promise!Next
<1>8. CASE UNCHANGED vars
  BY <1>8, CarriedSame DEF vars, Promise!vars
<1>9. QED
  BY <1>1, <1>2, <1>3, <1>4, <1>5, <1>6, <1>7, <1>8 DEF Next, Steps, Promise!Next

\* The agent keeps the promise of AgentSpec.
THEOREM AgentImplements == Spec => KeepsPromise
<1>1. Spec => [][Promise!Next]_(Promise!vars)
  BY InvHolds, PromiseStep, PTL DEF Spec
<1>2. QED
  BY <1>1, PromiseInit, PTL DEF Spec, KeepsPromise, Promise!Spec

-----------------------------------------------------------------------------
\* The history file.

\* The command of a took effect before that of b in the order e.
Before(e, a, b) ==
    \E m, n \in 1..Len(e) : m < n /\ e[m] = a /\ e[n] = b

\* Only one request is worked on; a record is written once its command has
\* ended, and the records so far are of commands that ended before that of
\* the request at hand.
LogInv ==
    /\ tail # "newline" => Len(log) > 0
    /\ \A q, r \in Requests : stage[q] \in Working /\ stage[r] \in Working => q = r
    /\ \A i \in 1..Len(log) : log[i].success =>
            /\ verdict[log[i].of]
            /\ stage[log[i].of] \in {"metrics", "respond", "success", "failure", "lost"}
    /\ \A i, j \in 1..Len(log) :
            i < j /\ log[i].success /\ log[j].success => Before(effects, log[i].of, log[j].of)
    /\ \A r \in Requests : stage[r] = "history" /\ verdict[r] =>
            \A i \in 1..Len(log) : log[i].success => Before(effects, log[i].of, r)

\* What has happened stays in its order.
LEMMA BeforeAppend ==
    ASSUME effects \in Seq(Requests), NEW r \in Requests, effects' = Append(effects, r)
    PROVE  /\ \A a, b : Before(effects, a, b) => Before(effects', a, b)
           /\ \A a \in Carried : Before(effects', a, r)
<1>1. /\ Len(effects) \in Nat /\ Len(effects') = Len(effects) + 1
      /\ \A i \in 1..Len(effects) : effects'[i] = effects[i]
      /\ effects'[Len(effects) + 1] = r
  OBVIOUS
<1>2. ASSUME NEW a, NEW b, Before(effects, a, b) PROVE Before(effects', a, b)
  <2>1. PICK m \in 1..Len(effects), n \in 1..Len(effects) :
            m < n /\ effects[m] = a /\ effects[n] = b
    BY <1>2 DEF Before
  <2>2. m \in 1..Len(effects') /\ n \in 1..Len(effects') /\ effects'[m] = a /\ effects'[n] = b
    BY <1>1, <2>1
  <2>3. QED
    BY <2>1, <2>2 DEF Before
<1>3. ASSUME NEW a \in Carried PROVE Before(effects', a, r)
  <2>1. PICK m \in 1..Len(effects) : effects[m] = a
    BY DEF Carried
  <2>2. /\ m \in 1..Len(effects') /\ Len(effects) + 1 \in 1..Len(effects')
        /\ m < Len(effects) + 1 /\ effects'[m] = a
    BY <1>1, <2>1
  <2>3. QED
    BY <1>1, <2>2 DEF Before
<1>4. QED
  BY <1>2, <1>3

LEMMA BeforeSame == effects' = effects => \A a, b : Before(effects, a, b) => Before(effects', a, b)
BY DEF Before

LEMMA LineTypes ==
    ASSUME TypeOK
    PROVE  \A i \in 1..Len(log) : log[i] \in Line /\ log[i].of \in Requests
<1>1. \A i \in 1..Len(log) : log[i] \in Line
  BY DEF TypeOK
<1>2. QED
  BY <1>1 DEF Line

\* The file is left alone and so is the order of the effects, except that
\* more may follow.
LEMMA LogInvKept ==
    ASSUME TypeOK, TypeOK', LogInv, log' = log, tail' = tail,
           \A a, b : Before(effects, a, b) => Before(effects', a, b),
           \A q, r \in Requests : stage'[q] \in Working /\ stage'[r] \in Working => q = r,
           \A q \in Requests : stage[q] \in {"metrics", "respond", "success", "failure", "lost"}
                => /\ verdict'[q] = verdict[q]
                   /\ stage'[q] \in {"metrics", "respond", "success", "failure", "lost"},
           \A q \in Requests : stage'[q] = "history" /\ verdict'[q] =>
                \/ stage[q] = "history" /\ verdict[q]
                \/ \A i \in 1..Len(log) : log[i].success => Before(effects', log[i].of, q)
    PROVE  LogInv'
<1>1. \A i \in 1..Len(log) : log[i].of \in Requests
  BY LineTypes
<1>2. \A i \in 1..Len(log') : log'[i].success =>
            /\ verdict'[log'[i].of]
            /\ stage'[log'[i].of] \in {"metrics", "respond", "success", "failure", "lost"}
  BY <1>1 DEF LogInv
<1>3. \A r \in Requests : stage'[r] = "history" /\ verdict'[r] =>
            \A i \in 1..Len(log') : log'[i].success => Before(effects', log'[i].of, r)
  BY DEF LogInv
<1>4. \A i, j \in 1..Len(log') :
            i < j /\ log'[i].success /\ log'[j].success => Before(effects', log'[i].of, log'[j].of)
  BY DEF LogInv
<1>5. QED
  BY <1>2, <1>3, <1>4 DEF LogInv

\* What an append does to the lines of the file.
LEMMA WrittenLines ==
    ASSUME TypeOK, LogInv, NEW r \in Requests, NEW end \in {"newline", "record", "torn"},
           log' = Written(r, end)
    PROVE  /\ Len(log) \in Nat /\ Len(log') \in Nat /\ Len(log') >= Len(log)
           /\ \A i \in 1..Len(log) : log'[i].success = log[i].success /\ log'[i].of = log[i].of
           /\ \A i \in 1..Len(log) : (i < Len(log) \/ tail = "newline") => log'[i] = log[i]
           /\ \A i \in 1..Len(log') : i \in 1..Len(log) \/
                    (i = Len(log) + 1 /\ log'[i].of = r /\ log'[i].success = verdict[r])
<1>1. CASE tail = "newline"
  <2>1. log' = Append(log, [of |-> r, success |-> verdict[r], parses |-> end # "torn"])
    BY <1>1 DEF Written
  <2>2. QED
    BY <1>1, <2>1 DEF TypeOK
<1>2. CASE tail # "newline"
  <2>1. log' = [log EXCEPT ![Len(log)].parses = FALSE] /\ Len(log) > 0
    BY <1>2 DEF Written, LogInv
  <2>2. Len(log') = Len(log) /\ Len(log) \in Nat
    BY <2>1 DEF TypeOK
  <2>3. \A i \in 1..Len(log) : log[i] \in Line
    BY DEF TypeOK
  <2>4. ASSUME NEW i \in 1..Len(log)
        PROVE  log'[i] = IF i = Len(log) THEN [log[i] EXCEPT !.parses = FALSE] ELSE log[i]
    <3>1. i \in DOMAIN log
      BY DEF TypeOK
    <3>2. QED
      BY <2>1, <3>1
  <2>5. ASSUME NEW i \in 1..Len(log)
        PROVE  log'[i].success = log[i].success /\ log'[i].of = log[i].of
    <3>1. CASE i = Len(log)
      BY <2>3, <2>4, <3>1 DEF Line
    <3>2. CASE i # Len(log)
      BY <2>4, <3>2
    <3>3. QED
      BY <3>1, <3>2
  <2>6. ASSUME NEW i \in 1..Len(log), i < Len(log)
        PROVE  log'[i] = log[i]
    <3>1. i # Len(log)
      BY <2>2, <2>6
    <3>2. QED
      BY <2>4, <3>1
  <2>7. QED
    BY <1>2, <2>2, <2>5, <2>6
<1>3. QED
  BY <1>1, <1>2

LEMMA LogInvWrite ==
    ASSUME AgentInv, TypeOK', LogInv, NEW r \in Requests, WriteRecord(r)
    PROVE  LogInv'
<1>0. TypeOK /\ \A a, b : Before(effects, a, b) => Before(effects', a, b)
  BY BeforeSame DEF AgentInv, WriteRecord
<1>1. /\ stage[r] = "history" /\ stage' = [stage EXCEPT ![r] = "metrics"] /\ verdict' = verdict
      /\ \A q \in Requests : stage'[q] = IF q = r THEN "metrics" ELSE stage[q]
  BY <1>0 DEF WriteRecord, MovesTo, TypeOK
<1>2. \A p, q \in Requests : stage'[p] \in Working /\ stage'[q] \in Working => p = q
  BY <1>1 DEF LogInv, Working
<1>3. CASE UNCHANGED <<log, tail, wrote>>
  BY <1>0, <1>1, <1>2, <1>3, LogInvKept
<1>4. ASSUME NEW end \in {"newline", "record", "torn"}, log' = Written(r, end),
             tail' = IF tail = "newline" \/ end = "newline" THEN end ELSE "torn"
      PROVE  LogInv'
  <2>1. /\ Len(log) \in Nat /\ Len(log') \in Nat /\ Len(log') >= Len(log)
        /\ \A i \in 1..Len(log) : log'[i].success = log[i].success /\ log'[i].of = log[i].of
        /\ \A i \in 1..Len(log') : i \in 1..Len(log) \/
                (i = Len(log) + 1 /\ log'[i].of = r /\ log'[i].success = verdict[r])
    BY <1>0, <1>4, WrittenLines
  <2>2. \A i \in 1..Len(log) : log[i].of \in Requests
    BY <1>0, LineTypes
  <2>3. \A i \in 1..Len(log') : log'[i].success =>
            /\ verdict'[log'[i].of]
            /\ stage'[log'[i].of] \in {"metrics", "respond", "success", "failure", "lost"}
    BY <1>1, <2>1, <2>2 DEF LogInv
  <2>4. \A i, j \in 1..Len(log') :
            i < j /\ log'[i].success /\ log'[j].success => Before(effects', log'[i].of, log'[j].of)
    <3> SUFFICES ASSUME NEW i \in 1..Len(log'), NEW j \in 1..Len(log'),
                        i < j, log'[i].success, log'[j].success
                 PROVE  Before(effects', log'[i].of, log'[j].of)
      OBVIOUS
    <3>1. i \in 1..Len(log) /\ log[i].success /\ log'[i].of = log[i].of
      BY <2>1
    <3>2. CASE j \in 1..Len(log)
      <4>1. Before(effects, log[i].of, log[j].of)
        BY <2>1, <3>1, <3>2 DEF LogInv
      <4>2. QED
        BY <1>0, <4>1, <3>1, <3>2, <2>1
    <3>3. CASE j = Len(log) + 1 /\ log'[j].of = r /\ verdict[r]
      <4>1. Before(effects, log[i].of, r)
        BY <1>1, <3>1, <3>3 DEF LogInv
      <4>2. QED
        BY <1>0, <4>1, <3>1, <3>3
    <3>4. QED
      BY <3>2, <3>3, <2>1
  <2>5. \A q \in Requests : stage'[q] # "history"
    BY <1>1 DEF LogInv, Working
  <2>6. tail' # "newline" => Len(log') > 0
    <3>1. CASE tail = "newline"
      BY <1>4, <3>1 DEF Written, TypeOK, AgentInv
    <3>2. CASE tail # "newline"
      BY <3>2, <2>1 DEF LogInv
    <3>3. QED
      BY <3>1, <3>2
  <2>7. QED
    BY <1>2, <2>3, <2>4, <2>5, <2>6 DEF LogInv
<1>5. QED
  BY <1>3, <1>4 DEF WriteRecord

LEMMA LogInvStep == AgentInv /\ LogInv /\ [Next]_vars => LogInv'
<1> SUFFICES ASSUME AgentInv, LogInv, [Next]_vars PROVE LogInv'
  OBVIOUS
<1>0. TypeOK /\ TypeOK'
  BY TypeStep DEF AgentInv
<1>1. ASSUME NEW r \in Requests,
             \/ Post(r)
             \/ Begin(r)
             \/ \E o \in {"whole", "failed"} : WriteReport(r, o)
             \/ Upload(r)
             \/ EmitMetrics(r)
             \/ Respond(r)
      PROVE  LogInv'
  <2>1. /\ log' = log /\ tail' = tail /\ effects' = effects /\ verdict' = verdict
        /\ stage[r] # "history"
        /\ \E next : /\ MovesTo(r, next) /\ next # "history"
                     /\ next \in Working => stage[r] \in Working \/ EventLoopFree
                     /\ stage[r] \in {"metrics", "respond", "success", "failure", "lost"}
                           => next \in {"metrics", "respond", "success", "failure", "lost"}
    <3>1. CASE Begin(r)
      <4>1. FirstStep(req[r]) # "history"
        BY Zenon DEF FirstStep
      <4>2. QED
        BY <3>1, <4>1 DEF Begin
    <3>2. CASE ~Begin(r)
      BY <1>1, <3>2 DEF Post, WriteReport, Upload, EmitMetrics, Respond, Working
    <3>3. QED
      BY <3>1, <3>2
  <2>2. PICK next : /\ stage' = [stage EXCEPT ![r] = next] /\ next # "history"
                    /\ next \in Working => stage[r] \in Working \/ EventLoopFree
                    /\ stage[r] \in {"metrics", "respond", "success", "failure", "lost"}
                          => next \in {"metrics", "respond", "success", "failure", "lost"}
    BY <2>1 DEF MovesTo
  <2>3. \A p, q \in Requests : stage'[p] \in Working /\ stage'[q] \in Working => p = q
    BY <1>0, <2>2 DEF LogInv, EventLoopFree, TypeOK
  <2>4. QED
    BY <1>0, <2>1, <2>2, <2>3, BeforeSame, LogInvKept DEF TypeOK
<1>2. ASSUME NEW r \in Requests, Docker(r) PROVE LogInv'
  <2>1. /\ log' = log /\ tail' = tail /\ stage[r] = "docker"
        /\ \A q \in Requests : stage'[q] = IF q = r THEN "history" ELSE stage[q]
        /\ \A q \in Requests : q # r => verdict'[q] = verdict[q]
    BY <1>0, <1>2 DEF Docker, DockerRuns, MovesTo, TypeOK
  <2>2. \A p, q \in Requests : stage'[p] \in Working /\ stage'[q] \in Working => p = q
    BY <2>1 DEF LogInv, Working
  <2>3. \A a, b : Before(effects, a, b) => Before(effects', a, b)
    BY <1>0, <1>2, BeforeAppend, BeforeSame DEF Docker, DockerRuns, TypeOK
  <2>4. ASSUME verdict'[r] PROVE \A i \in 1..Len(log) : log[i].success => Before(effects', log[i].of, r)
    <3>1. effects' = Append(effects, r)
      BY <1>0, <1>2, <2>4 DEF Docker, DockerRuns, TypeOK
    <3>2. \A i \in 1..Len(log) : log[i].success => log[i].of \in Carried
      BY <1>0, LineTypes DEF LogInv, AgentInv, DockerInv
    <3>3. QED
      BY <1>0, <3>1, <3>2, BeforeAppend DEF TypeOK
  <2>5. QED
    BY <1>0, <2>1, <2>2, <2>3, <2>4, LogInvKept
<1>3. ASSUME NEW r \in Requests, DaemonFinishes(r) PROVE LogInv'
  <2>1. \A a, b : Before(effects, a, b) => Before(effects', a, b)
    BY <1>0, <1>3, BeforeAppend, BeforeSame DEF DaemonFinishes, TypeOK
  <2>2. log' = log /\ tail' = tail /\ stage' = stage /\ verdict' = verdict
    BY <1>3 DEF DaemonFinishes
  <2>3. QED
    BY <1>0, <2>1, <2>2, LogInvKept DEF LogInv
<1>4. CASE Dies
  <2>1. /\ log' = log /\ tail' = tail /\ verdict' = verdict /\ effects' = effects
        /\ \A q \in Requests : stage'[q] = IF stage[q] \in Working \cup {"queued"}
                                           THEN "lost" ELSE stage[q]
    BY <1>4 DEF Dies
  <2>2. QED
    BY <1>0, <2>1, BeforeSame, LogInvKept DEF Working
<1>5. CASE UNCHANGED vars
  BY <1>0, <1>5, BeforeSame, LogInvKept DEF vars, LogInv
<1>6. QED
  BY <1>0, <1>1, <1>2, <1>3, <1>4, <1>5, LogInvWrite DEF Next, Steps

LEMMA LogInvHolds == Spec => [](AgentInv /\ LogInv)
<1>1. Init => LogInv
  BY DEF Init, LogInv, Working
<1>2. QED
  BY <1>1, InvInit, InvStep, LogInvStep, PTL DEF Spec

\* The history never reports a success that was none, nor two successes in
\* the wrong order.
THEOREM HistoryCorrect == Spec => []HistoryIsInOrder
<1>1. AgentInv /\ LogInv => HistoryIsInOrder
  BY LineTypes DEF AgentInv, DockerInv, LogInv, HistoryIsInOrder, Before
<1>2. QED
  BY <1>1, LogInvHolds, PTL

\* A finished line of the history stays as it is.
THEOREM HistoryAppendOnly == Spec => AppendOnly
<1> DEFINE Kept == \A i \in 1..Len(log) :
                     (log[i].parses /\ (i < Len(log) \/ tail = "newline")) =>
                        i <= Len(log') /\ log'[i] = log[i]
<1>1. AgentInv /\ LogInv /\ [Next]_vars => [Kept]_vars
  <2> SUFFICES ASSUME AgentInv, LogInv, [Next]_vars PROVE Kept
    OBVIOUS
  <2>0. TypeOK /\ Len(log) \in Nat
    BY DEF AgentInv, TypeOK
  <2>1. CASE log' = log
    BY <2>0, <2>1
  <2>2. ASSUME NEW r \in Requests, NEW end \in {"newline", "record", "torn"},
               log' = Written(r, end)
        PROVE  Kept
    BY <2>0, <2>2, WrittenLines
  <2>3. log' = log \/ \E r \in Requests, end \in {"newline", "record", "torn"} :
                          log' = Written(r, end)
    BY DEF Next, Steps, vars, Post, Begin, WriteReport, Upload, Docker, WriteRecord,
           EmitMetrics, Respond, DaemonFinishes, Dies
  <2>4. QED
    BY <2>1, <2>2, <2>3
<1>2. Spec => [][Kept]_vars
  BY <1>1, LogInvHolds, PTL DEF Spec
<1>3. QED
  BY <1>2 DEF AppendOnly

-----------------------------------------------------------------------------
\* What is lost of the history.

\* The file ends with a newline just when the last record that got into it
\* is whole; a record that has its line to itself keeps it, since nothing is
\* appended to a line that has ended; and as long as every record is whole,
\* the lines of the file are the records.
WroteInv ==
    /\ tail = "newline" <=> (Len(wrote) > 0 => wrote[Len(wrote)].whole)
    /\ \A i \in 1..Len(wrote) : Sound(i) =>
            \E k \in 1..Len(log) : /\ log[k].parses /\ log[k].of = wrote[i].of
                                   /\ k < Len(log) \/ tail = "newline"
    /\ (\A i \in 1..Len(wrote) : wrote[i].whole) =>
            /\ Len(log) = Len(wrote)
            /\ \A i \in 1..Len(log) : log[i].parses /\ log[i].of = wrote[i].of

\* A record follows the others.
LEMMA WroteAppend ==
    ASSUME TypeOK, NEW r \in Requests, NEW end \in {"newline", "record", "torn"},
           wrote' = Append(wrote, [of |-> r, whole |-> end = "newline"])
    PROVE  /\ Len(wrote) \in Nat /\ Len(wrote') = Len(wrote) + 1
           /\ \A i \in 1..Len(wrote) : wrote'[i] = wrote[i]
           /\ wrote'[Len(wrote')].of = r
           /\ wrote'[Len(wrote')].whole <=> end = "newline"
<1> DEFINE e == [of |-> r, whole |-> end = "newline"]
<1>1. e.of = r /\ (e.whole <=> end = "newline")
  OBVIOUS
<1>2. wrote \in Seq(Entry) /\ wrote' = Append(wrote, e)
  BY DEF TypeOK
<1> HIDE DEF e
<1>3. /\ Len(wrote) \in Nat /\ Len(wrote') = Len(wrote) + 1
      /\ \A i \in 1..Len(wrote) : wrote'[i] = wrote[i]
      /\ wrote'[Len(wrote) + 1] = e
  BY <1>2
<1>4. QED
  BY <1>1, <1>3

LEMMA WroteInvWrite ==
    ASSUME TypeOK, LogInv, WroteInv, NEW r \in Requests,
           NEW end \in {"newline", "record", "torn"},
           log' = Written(r, end),
           wrote' = Append(wrote, [of |-> r, whole |-> end = "newline"]),
           tail' = IF tail = "newline" \/ end = "newline" THEN end ELSE "torn"
    PROVE  WroteInv'
<1> DEFINE n == Len(wrote)
<1>1. /\ n \in Nat /\ Len(wrote') = n + 1
      /\ \A i \in 1..n : wrote'[i] = wrote[i]
      /\ wrote'[n + 1].of = r
      /\ wrote'[n + 1].whole <=> end = "newline"
  BY WroteAppend
<1>2. /\ Len(log) \in Nat /\ Len(log') \in Nat /\ Len(log') >= Len(log)
      /\ \A i \in 1..Len(log) : log'[i].of = log[i].of
      /\ \A i \in 1..Len(log) : (i < Len(log) \/ tail = "newline") => log'[i] = log[i]
  BY WrittenLines
<1>3. tail' = "newline" <=> end = "newline"
  OBVIOUS
<1>4. tail = "newline" =>
        /\ Len(log') = Len(log) + 1
        /\ log'[Len(log) + 1].of = r
        /\ log'[Len(log) + 1].parses <=> end # "torn"
  <2> DEFINE e == [of |-> r, success |-> verdict[r], parses |-> end # "torn"]
  <2>1. e.of = r /\ (e.parses <=> end # "torn")
    OBVIOUS
  <2>2. tail = "newline" => log' = Append(log, e)
    BY DEF Written
  <2> HIDE DEF e
  <2>3. tail = "newline" => Len(log') = Len(log) + 1 /\ log'[Len(log) + 1] = e
    BY <2>2 DEF TypeOK
  <2>4. QED
    BY <2>1, <2>3
<1>5. (tail' = "newline" <=> (Len(wrote') > 0 => wrote'[Len(wrote')].whole))
  BY <1>1, <1>3
<1>6. ASSUME NEW i \in 1..Len(wrote'), Sound(i)'
      PROVE  \E k \in 1..Len(log') : /\ log'[k].parses /\ log'[k].of = wrote'[i].of
                                     /\ k < Len(log') \/ tail' = "newline"
  <2>1. wrote'[i].whole /\ (i > 1 => wrote'[i - 1].whole)
    BY <1>6 DEF Sound
  <2>2. CASE i \in 1..n
    <3>1. Sound(i)
      BY <1>1, <2>1, <2>2 DEF Sound
    <3>2. PICK k \in 1..Len(log) : /\ log[k].parses /\ log[k].of = wrote[i].of
                                   /\ k < Len(log) \/ tail = "newline"
      BY <2>2, <3>1 DEF WroteInv
    <3>3. log'[k] = log[k] /\ k \in 1..Len(log') /\ (k < Len(log') \/ tail' = "newline")
      <4>1. log'[k] = log[k] /\ k \in 1..Len(log')
        BY <1>2, <3>2
      <4>2. CASE k < Len(log)
        BY <1>2, <4>2
      <4>3. CASE tail = "newline"
        BY <1>2, <1>4, <4>3
      <4>4. QED
        BY <3>2, <4>1, <4>2, <4>3
    <3>4. QED
      BY <1>1, <2>2, <3>2, <3>3
  <2>3. CASE i = n + 1
    <3>1. end = "newline"
      BY <1>1, <2>1, <2>3
    <3>2. n > 0 => wrote[n].whole
      <4>1. ASSUME n > 0 PROVE wrote[n].whole
        <5>1. i - 1 = n /\ i > 1 /\ n \in 1..n
          BY <1>1, <2>3, <4>1
        <5>2. QED
          BY <1>1, <2>1, <5>1
      <4>2. QED
        BY <4>1
    <3>3. tail = "newline"
      BY <3>2 DEF WroteInv
    <3>4. /\ Len(log) + 1 \in 1..Len(log')
          /\ log'[Len(log) + 1].parses /\ log'[Len(log) + 1].of = r
      BY <1>2, <1>4, <3>1, <3>3
    <3>5. QED
      BY <1>1, <1>3, <2>3, <3>1, <3>4
  <2>4. QED
    BY <1>1, <2>2, <2>3
<1>7. ASSUME \A i \in 1..Len(wrote') : wrote'[i].whole
      PROVE  /\ Len(log') = Len(wrote')
             /\ \A i \in 1..Len(log') : log'[i].parses /\ log'[i].of = wrote'[i].of
  <2>1. end = "newline" /\ \A i \in 1..n : wrote[i].whole
    <3>1. n + 1 \in 1..Len(wrote') /\ \A i \in 1..n : i \in 1..Len(wrote')
      BY <1>1
    <3>2. QED
      BY <1>1, <1>7, <3>1
  <2>2. /\ Len(log) = n
        /\ \A i \in 1..n : log[i].parses /\ log[i].of = wrote[i].of
    BY <2>1 DEF WroteInv
  <2>3. tail = "newline"
    BY <1>1, <2>1 DEF WroteInv
  <2>4. Len(log') = n + 1 /\ log'[n + 1].parses /\ log'[n + 1].of = r
    BY <1>4, <2>1, <2>2, <2>3
  <2>5. \A i \in 1..n : log'[i] = log[i]
    BY <1>2, <2>2, <2>3
  <2>6. QED
    BY <1>1, <2>2, <2>4, <2>5
<1>8. QED
  BY <1>5, <1>6, <1>7 DEF WroteInv

LEMMA WroteInvStep == AgentInv /\ LogInv /\ WroteInv /\ [Next]_vars => WroteInv'
<1> SUFFICES ASSUME AgentInv, LogInv, WroteInv, [Next]_vars PROVE WroteInv'
  OBVIOUS
<1>0. TypeOK
  BY DEF AgentInv
<1>1. \/ log' = log /\ tail' = tail /\ wrote' = wrote
      \/ \E r \in Requests, end \in {"newline", "record", "torn"} :
            /\ log' = Written(r, end)
            /\ wrote' = Append(wrote, [of |-> r, whole |-> end = "newline"])
            /\ tail' = IF tail = "newline" \/ end = "newline" THEN end ELSE "torn"
  BY DEF Next, Steps, vars, Post, Begin, WriteReport, Upload, Docker, WriteRecord,
         EmitMetrics, Respond, DaemonFinishes, Dies
<1>2. CASE log' = log /\ tail' = tail /\ wrote' = wrote
  BY <1>2 DEF WroteInv, Sound
<1>3. QED
  BY <1>0, <1>1, <1>2, WroteInvWrite

LEMMA WroteInvHolds == Spec => [](AgentInv /\ WroteInv)
<1>1. Init => WroteInv
  BY DEF Init, WroteInv
<1>2. AgentInv /\ LogInv /\ [Next]_vars /\ WroteInv => WroteInv'
  BY WroteInvStep
<1>3. QED
  BY <1>1, <1>2, LogInvHolds, PTL DEF Spec

\* While every line parses, read_records returns the last LastN of them.
LEMMA ReadsTheLast ==
    ASSUME TypeOK, \A i \in 1..Len(log) : log[i].parses
    PROVE  /\ Len(ReadRecords) = IF Len(log) > LastN THEN LastN ELSE Len(log)
           /\ \A i \in 1..Len(ReadRecords) :
                /\ Len(log) - Len(ReadRecords) + i \in 1..Len(log)
                /\ ReadRecords[i] = log[Len(log) - Len(ReadRecords) + i]
<1> DEFINE first == IF Len(log) > LastN THEN Len(log) - LastN + 1 ELSE 1
           recent == SubSeq(log, first, Len(log))
<1>1. Len(log) \in Nat /\ LastN \in Nat /\ LastN > 0 /\ log \in Seq(Line)
  BY LastNAssumption DEF TypeOK
<1>2. first \in 1..(Len(log) + 1)
  BY <1>1
<1>3. first = Len(log) - (IF Len(log) > LastN THEN LastN ELSE Len(log)) + 1
  BY <1>1
<1> HIDE DEF first
<1>4. /\ Len(recent) = Len(log) - first + 1
      /\ \A i \in 1..Len(recent) : recent[i] = log[first + i - 1] /\ first + i - 1 \in 1..Len(log)
  BY <1>1, <1>2
<1>5. ReadRecords = recent
  BY <1>4 DEF ReadRecords, first
<1> HIDE DEF recent
<1>6. Len(recent) = IF Len(log) > LastN THEN LastN ELSE Len(log)
  BY <1>1, <1>2, <1>3, <1>4
<1>7. \A i \in 1..Len(recent) : first + i - 1 = Len(log) - Len(recent) + i
  BY <1>1, <1>2, <1>4
<1>8. QED
  BY <1>4, <1>5, <1>6, <1>7

\* A record that is cut short costs itself and the one after it, and until
\* then read_records returns the last records that were written.
THEOREM LossesAreLocal == Spec => []LossIsLocal
<1>1. AgentInv /\ WroteInv => LossIsLocal
  <2> SUFFICES ASSUME AgentInv, WroteInv PROVE LossIsLocal
    OBVIOUS
  <2>0. TypeOK
    BY DEF AgentInv
  <2>1. \A i \in 1..Len(wrote) : Sound(i) =>
            \E k \in 1..Len(log) : log[k].parses /\ log[k].of = wrote[i].of
    BY DEF WroteInv
  <2>2. ASSUME \A i \in 1..Len(wrote) : wrote[i].whole
        PROVE  /\ Len(ReadRecords) = IF Len(wrote) > LastN THEN LastN ELSE Len(wrote)
               /\ \A i \in 1..Len(ReadRecords) :
                    ReadRecords[i].of = wrote[Len(wrote) - Len(ReadRecords) + i].of
    <3>1. /\ Len(log) = Len(wrote)
          /\ \A i \in 1..Len(log) : log[i].parses /\ log[i].of = wrote[i].of
      BY <2>2 DEF WroteInv
    <3>2. QED
      BY <2>0, <3>1, ReadsTheLast
  <2>3. QED
    BY <2>1, <2>2 DEF LossIsLocal
<1>2. QED
  BY <1>1, WroteInvHolds, PTL
=============================================================================
