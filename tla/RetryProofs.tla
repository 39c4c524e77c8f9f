----------------------------- MODULE RetryProofs -----------------------------
(***************************************************************************)
(* Proofs about the retry loop of Recovery: whose request is at the agent, *)
(* how often an action takes effect, and what a reported success means,    *)
(* for any number of environments, attempts and requests.                  *)
(***************************************************************************)
EXTENDS RecoveryProofs, FiniteSetTheorems

\* The requests in P that w waits for, and those that its current
\* invocation has made.
Awaited(P, w) == {q \in P : q.worker = w /\ q.of = "attempt"}
Live(P, w)    == {q \in P : q.worker = w /\ q.of # "past"}

\* The attempts that have sent a request, if the invocation is in phase ph
\* of attempt a.
Sent(ph, a) == IF ph = "calling" THEN a - 1 ELSE a

\* What holds of one environment: it waits for exactly one request or for
\* none, an ended invocation has none, and each attempt has led to at most
\* one request, which is either still at the agent or has taken effect.
Accounted(P, w, ph, a, r) ==
    /\ ph = "waiting" => \E q : Awaited(P, w) = {q}
    /\ ph # "waiting" => Awaited(P, w) = {}
    /\ ph = "idle" => Live(P, w) = {}
    /\ r + Cardinality(Live(P, w)) <= Sent(ph, a)

RetryInv ==
    /\ IsFiniteSet(pending)
    /\ \A w \in Workers : Accounted(pending, w, phase[w], attempt[w], runs[w])

-----------------------------------------------------------------------------
\* Operations on sets of requests.

LEMMA LiveFinite ==
    ASSUME NEW P, IsFiniteSet(P), NEW w
    PROVE  IsFiniteSet(Live(P, w)) /\ Cardinality(Live(P, w)) \in Nat
<1>1. Live(P, w) \subseteq P
  BY DEF Live
<1> QED
  BY <1>1, FS_Subset, FS_CardinalityType

\* A function maps a finite set onto one that is no larger.
LEMMA ImageFinite ==
    ASSUME NEW S, IsFiniteSet(S), NEW f, DOMAIN f = S,
           NEW T, T = {f[x] : x \in S}, f = [x \in S |-> f[x]]
    PROVE  IsFiniteSet(T) /\ Cardinality(T) <= Cardinality(S)
<1>1. f \in Surjection(S, T)
  BY DEF Surjection
<1> QED
  BY <1>1, FS_Surjection

\* Giving up on an attempt leaves the requests of the invocation, none of
\* them awaited.
LEMMA GivenUpRequests ==
    ASSUME NEW P \in SUBSET Request, IsFiniteSet(P), NEW w \in Workers
    PROVE  /\ IsFiniteSet(GivenUp(P, w))
           /\ Awaited(GivenUp(P, w), w) = {}
           /\ Cardinality(Live(GivenUp(P, w), w)) <= Cardinality(Live(P, w))
           /\ \A v \in Workers \ {w} : /\ Awaited(GivenUp(P, w), v) = Awaited(P, v)
                                       /\ Live(GivenUp(P, w), v) = Live(P, v)
<1> DEFINE g == [q \in P |-> IF q.worker = w /\ q.of = "attempt"
                             THEN [q EXCEPT !.of = "invocation"] ELSE q]
           l == [q \in Live(P, w) |-> g[q]]
<1>1. GivenUp(P, w) = {g[q] : q \in P}
  BY DEF GivenUp
<1>2. \A q \in P : /\ g[q].worker = q.worker
                   /\ g[q].of = IF q.worker = w /\ q.of = "attempt" THEN "invocation" ELSE q.of
                   /\ q.worker # w => g[q] = q
  BY DEF Request
<1>3. DOMAIN g = P /\ g = [q \in P |-> g[q]]
  OBVIOUS
<1>4. DOMAIN l = Live(P, w) /\ l = [q \in Live(P, w) |-> l[q]]
      /\ \A q \in Live(P, w) : l[q] = g[q]
  OBVIOUS
<1>5. Live(P, w) \subseteq P
  BY DEF Live
<1> HIDE DEF g, l
<1>6. IsFiniteSet(GivenUp(P, w))
  BY <1>1, <1>3, ImageFinite
<1>7. Awaited(GivenUp(P, w), w) = {}
  BY <1>1, <1>2 DEF Awaited
<1>8. Live(GivenUp(P, w), w) = {l[q] : q \in Live(P, w)}
  <2>1. \A q \in P : q \in Live(P, w) <=> g[q].worker = w /\ g[q].of # "past"
    BY <1>2 DEF Live
  <2>2. Live(GivenUp(P, w), w) \subseteq {l[q] : q \in Live(P, w)}
    <3> SUFFICES ASSUME NEW x \in Live(GivenUp(P, w), w)
                 PROVE  x \in {l[q] : q \in Live(P, w)}
      OBVIOUS
    <3>1. PICK q \in P : x = g[q]
      BY <1>1 DEF Live
    <3>2. x.worker = w /\ x.of # "past"
      BY DEF Live
    <3> QED
      BY <1>4, <2>1, <3>1, <3>2
  <2>3. \A q \in Live(P, w) : l[q] \in Live(GivenUp(P, w), w)
    BY <1>1, <1>4, <1>5, <2>1 DEF Live
  <2> QED
    BY <2>2, <2>3
<1>9. Cardinality(Live(GivenUp(P, w), w)) <= Cardinality(Live(P, w))
  BY <1>4, <1>8, LiveFinite, ImageFinite
<1>10. \A v \in Workers \ {w} : /\ Awaited(GivenUp(P, w), v) = Awaited(P, v)
                                /\ Live(GivenUp(P, w), v) = Live(P, v)
  BY <1>1, <1>2 DEF Awaited, Live
<1> QED
  BY <1>6, <1>7, <1>9, <1>10

\* The end of an invocation leaves none of its requests live.
LEMMA OrphanedRequests ==
    ASSUME NEW P \in SUBSET Request, IsFiniteSet(P), NEW w \in Workers
    PROVE  /\ IsFiniteSet(Orphaned(P, w))
           /\ Awaited(Orphaned(P, w), w) = {}
           /\ Live(Orphaned(P, w), w) = {}
           /\ \A v \in Workers \ {w} : /\ Awaited(Orphaned(P, w), v) = Awaited(P, v)
                                       /\ Live(Orphaned(P, w), v) = Live(P, v)
<1> DEFINE g == [q \in P |-> IF q.worker = w THEN [q EXCEPT !.of = "past"] ELSE q]
<1>1. Orphaned(P, w) = {g[q] : q \in P}
  BY DEF Orphaned
<1>2. \A q \in P : /\ g[q].worker = q.worker
                   /\ g[q].of = IF q.worker = w THEN "past" ELSE q.of
                   /\ q.worker # w => g[q] = q
  BY DEF Request
<1>3. DOMAIN g = P /\ g = [q \in P |-> g[q]]
  OBVIOUS
<1> HIDE DEF g
<1>4. IsFiniteSet(Orphaned(P, w))
  BY <1>1, <1>3, ImageFinite
<1>5. Awaited(Orphaned(P, w), w) = {} /\ Live(Orphaned(P, w), w) = {}
  BY <1>1, <1>2 DEF Awaited, Live
<1>6. \A v \in Workers \ {w} : /\ Awaited(Orphaned(P, w), v) = Awaited(P, v)
                               /\ Live(Orphaned(P, w), v) = Live(P, v)
  BY <1>1, <1>2 DEF Awaited, Live
<1> QED
  BY <1>4, <1>5, <1>6

\* A live request leaves the agent.
LEMMA RemovedRequest ==
    ASSUME NEW P, IsFiniteSet(P), NEW q \in P, q.of # "past"
    PROVE  Cardinality(Live(P \ {q}, q.worker)) = Cardinality(Live(P, q.worker)) - 1
<1>1. Live(P \ {q}, q.worker) = Live(P, q.worker) \ {q} /\ q \in Live(P, q.worker)
  BY DEF Live
<1> QED
  BY <1>1, LiveFinite, FS_RemoveElement

-----------------------------------------------------------------------------
\* What an answer, or its absence, does to the books of all environments:
\* P is left at the agent and R counts the commands that took effect.
LEMMA ReturnAccounts ==
    ASSUME TypeOK, NEW w \in Workers, NEW answer, NEW P \in SUBSET Request,
           IsFiniteSet(P), NEW R \in [Workers -> Nat], Returns(w, answer, P),
           phase[w] # "idle",
           R[w] + Cardinality(Live(P, w)) <= attempt[w],
           \A v \in Workers \ {w} : Accounted(P, v, phase[v], attempt[v], R[v])
    PROVE  /\ IsFiniteSet(pending')
           /\ \A v \in Workers : Accounted(pending', v, phase'[v], attempt[v], R[v])
<1>1. attempt[w] \in Nat /\ R[w] \in Nat
  BY RetriesAssumption DEF TypeOK
<1>2. CASE Finishes(w, TRUE, P) \/ Finishes(w, FALSE, P)
  <2>1. phase' = [phase EXCEPT ![w] = "idle"] /\ pending' = Orphaned(P, w)
    BY <1>2 DEF Finishes
  <2>2. phase'[w] = "idle" /\ \A v \in Workers \ {w} : phase'[v] = phase[v]
    BY <2>1 DEF TypeOK
  <2>3. Cardinality({}) = 0
    BY FS_EmptySet
  <2>4. R[w] <= attempt[w]
    BY <1>1, LiveFinite
  <2>5. Accounted(pending', w, phase'[w], attempt[w], R[w])
    BY <1>1, <2>1, <2>2, <2>3, <2>4, OrphanedRequests DEF Accounted, Sent
  <2>6. \A v \in Workers \ {w} : Accounted(pending', v, phase'[v], attempt[v], R[v])
    BY <2>1, <2>2, OrphanedRequests DEF Accounted
  <2> QED
    BY <2>1, <2>5, <2>6, OrphanedRequests
<1>3. CASE phase' = [phase EXCEPT ![w] = "backoff"] /\ pending' = GivenUp(P, w)
  <2>1. phase'[w] = "backoff" /\ \A v \in Workers \ {w} : phase'[v] = phase[v]
    BY <1>3 DEF TypeOK
  <2>2. IsFiniteSet(pending')
    BY <1>3, GivenUpRequests
  <2>3. /\ Cardinality(Live(pending', w)) <= Cardinality(Live(P, w))
        /\ Cardinality(Live(pending', w)) \in Nat /\ Cardinality(Live(P, w)) \in Nat
    BY <1>3, <2>2, GivenUpRequests, LiveFinite
  <2>4. R[w] + Cardinality(Live(pending', w)) <= attempt[w]
    BY <1>1, <2>3
  <2>5. Accounted(pending', w, phase'[w], attempt[w], R[w])
    BY <1>3, <2>1, <2>4, GivenUpRequests DEF Accounted, Sent
  <2>6. \A v \in Workers \ {w} : Accounted(pending', v, phase'[v], attempt[v], R[v])
    <3>1. \A v \in Workers \ {w} : /\ Awaited(pending', v) = Awaited(P, v)
                                   /\ Live(pending', v) = Live(P, v)
      BY <1>3, GivenUpRequests
    <3> QED
      BY <2>1, <3>1 DEF Accounted
  <2> QED
    BY <2>2, <2>5, <2>6
<1> QED
  BY <1>2, <1>3 DEF Returns

\* A request that leaves the agent with an answer for its caller, if that
\* still waits; R counts its effect.
LEMMA AnswerAccounts ==
    ASSUME TypeOK, RetryInv, NEW q \in pending, NEW answer, Answered(q, answer),
           NEW R \in [Workers -> Nat],
           \A v \in Workers : v # q.worker => R[v] = runs[v],
           q.of = "past" => R[q.worker] = runs[q.worker],
           R[q.worker] <= runs[q.worker] + 1
    PROVE  /\ IsFiniteSet(pending')
           /\ \A v \in Workers : Accounted(pending', v, phase'[v], attempt[v], R[v])
<1> DEFINE w == q.worker
           P == pending \ {q}
<1>1. w \in Workers /\ P \in SUBSET Request /\ q.of \in {"attempt", "invocation", "past"}
  BY DEF TypeOK, Request
<1>2. IsFiniteSet(pending) /\ \A v \in Workers :
                                  Accounted(pending, v, phase[v], attempt[v], runs[v])
  BY DEF RetryInv
<1>3. /\ attempt[w] \in Nat /\ runs[w] \in Nat /\ R[w] \in Nat
      /\ R[w] <= runs[w] + 1
  BY <1>1, RetriesAssumption DEF TypeOK
<1>4. IsFiniteSet(P)
  BY <1>2, FS_RemoveElement
<1>5. \A v \in Workers \ {w} : Accounted(P, v, phase[v], attempt[v], R[v])
  <2>1. \A v \in Workers \ {w} : /\ Awaited(P, v) = Awaited(pending, v)
                                 /\ Live(P, v) = Live(pending, v)
                                 /\ R[v] = runs[v]
    BY DEF Awaited, Live
  <2> QED
    BY <1>2, <2>1 DEF Accounted
<1>6. q.of # "past" => R[w] + Cardinality(Live(P, w)) <= Sent(phase[w], attempt[w])
  <2> SUFFICES ASSUME q.of # "past"
               PROVE  R[w] + Cardinality(Live(P, w)) <= Sent(phase[w], attempt[w])
    OBVIOUS
  <2>1. Cardinality(Live(P, w)) = Cardinality(Live(pending, w)) - 1
    BY <1>2, RemovedRequest
  <2>2. runs[w] + Cardinality(Live(pending, w)) <= Sent(phase[w], attempt[w])
    BY <1>1, <1>2 DEF Accounted
  <2>3. Cardinality(Live(pending, w)) \in Nat /\ Sent(phase[w], attempt[w]) \in Int
    BY <1>2, <1>3, LiveFinite DEF Sent
  <2> QED
    BY <1>3, <2>1, <2>2, <2>3
<1>7. CASE q.of = "attempt"
  <2>1. q \in Awaited(pending, w)
    BY <1>7 DEF Awaited
  <2>2. phase[w] = "waiting"
    BY <1>1, <1>2, <2>1 DEF Accounted
  <2>3. R[w] + Cardinality(Live(P, w)) <= attempt[w]
    BY <1>6, <1>7, <2>2 DEF Sent
  <2>4. Returns(w, answer, P)
    BY <1>7 DEF Answered
  <2>5. phase[w] # "idle"
    BY <2>2
  <2> HIDE DEF w, P
  <2> QED
    BY <1>1, <1>4, <1>5, <2>3, <2>4, <2>5, ReturnAccounts
<1>8. CASE q.of # "attempt"
  <2>1. pending' = P /\ phase' = phase
    BY <1>8 DEF Answered
  <2>2. Awaited(P, w) = Awaited(pending, w)
    BY <1>8 DEF Awaited
  <2>3. R[w] + Cardinality(Live(P, w)) <= Sent(phase[w], attempt[w])
    <3>1. CASE q.of = "past"
      <4>1. Live(P, w) = Live(pending, w) /\ R[w] = runs[w]
        BY <3>1 DEF Live
      <4> QED
        BY <1>1, <1>2, <4>1 DEF Accounted
    <3> QED
      BY <1>6, <3>1
  <2>4. phase[w] = "idle" => Live(P, w) = {}
    <3>1. Live(P, w) \subseteq Live(pending, w)
      BY DEF Live
    <3> QED
      BY <1>1, <1>2, <3>1 DEF Accounted
  <2>5. Accounted(P, w, phase[w], attempt[w], R[w])
    BY <1>1, <1>2, <2>2, <2>3, <2>4 DEF Accounted
  <2> QED
    BY <1>4, <1>5, <2>1, <2>5
<1> QED
  BY <1>7, <1>8

-----------------------------------------------------------------------------
LEMMA RetryStep ==
    ASSUME TypeOK, RetryInv, [Next]_vars
    PROVE  RetryInv'
<1>1. IsFiniteSet(pending) /\ \A v \in Workers :
                                  Accounted(pending, v, phase[v], attempt[v], runs[v])
  BY DEF RetryInv
<1>2. \A v \in Workers : attempt[v] \in Nat /\ runs[v] \in Nat
  BY RetriesAssumption DEF TypeOK
<1>3. runs \in [Workers -> Nat] /\ pending \in SUBSET Request
  BY DEF TypeOK
<1>4. ASSUME UNCHANGED <<pending, phase, attempt, runs>> PROVE RetryInv'
  BY <1>1, <1>4 DEF RetryInv
<1>5. ASSUME NEW w \in Workers, NEW e \in Events, Start(w, e) PROVE RetryInv'
  <2>1. /\ phase' = [phase EXCEPT ![w] = "calling"] /\ attempt' = [attempt EXCEPT ![w] = 1]
        /\ runs' = [runs EXCEPT ![w] = 0] /\ pending' = pending /\ phase[w] = "idle"
    BY <1>5 DEF Start
  <2>2. Live(pending, w) = {} /\ Awaited(pending, w) = {} /\ Cardinality({}) = 0
    BY <1>1, <2>1, FS_EmptySet DEF Accounted
  <2>3. phase'[w] = "calling" /\ attempt'[w] = 1 /\ runs'[w] = 0
        /\ \A v \in Workers \ {w} : /\ phase'[v] = phase[v] /\ attempt'[v] = attempt[v]
                                    /\ runs'[v] = runs[v]
    BY <2>1 DEF TypeOK
  <2>4. Accounted(pending', w, phase'[w], attempt'[w], runs'[w])
    BY <2>1, <2>2, <2>3 DEF Accounted, Sent
  <2> QED
    BY <1>1, <2>1, <2>3, <2>4 DEF RetryInv
<1>6. ASSUME NEW w \in Workers, Send(w) PROVE RetryInv'
  <2>1. PICK id \in Slots :
           pending' = pending \cup {[id |-> id, worker |-> w, svc |-> event[w].svc,
                                     action |-> decision[w].action, of |-> "attempt"]}
    BY <1>6 DEF Send
  <2> DEFINE q == [id |-> id, worker |-> w, svc |-> event[w].svc,
                   action |-> decision[w].action, of |-> "attempt"]
  <2>2. q.worker = w /\ q.of = "attempt" /\ pending' = pending \cup {q}
    BY <2>1
  <2> HIDE DEF q
  <2>3. phase' = [phase EXCEPT ![w] = "waiting"] /\ phase[w] = "calling"
        /\ attempt' = attempt /\ runs' = runs
    BY <1>6 DEF Send
  <2>4. phase'[w] = "waiting" /\ \A v \in Workers \ {w} : phase'[v] = phase[v]
    BY <2>3 DEF TypeOK
  <2>5. \A v \in Workers \ {w} : /\ Awaited(pending', v) = Awaited(pending, v)
                                 /\ Live(pending', v) = Live(pending, v)
    BY <2>2 DEF Awaited, Live
  <2>6. Awaited(pending, w) = {} /\ Awaited(pending', w) = Awaited(pending, w) \cup {q}
        /\ Live(pending', w) = Live(pending, w) \cup {q}
    BY <1>1, <2>2, <2>3 DEF Awaited, Live, Accounted
  <2>7. Cardinality(Live(pending', w)) <= Cardinality(Live(pending, w)) + 1
        /\ Cardinality(Live(pending', w)) \in Nat /\ Cardinality(Live(pending, w)) \in Nat
        /\ IsFiniteSet(pending')
    <3>1. IsFiniteSet(pending')
      BY <1>1, <2>2, FS_AddElement
    <3>2. IsFiniteSet(Live(pending, w)) /\ Cardinality(Live(pending, w)) \in Nat
      BY <1>1, LiveFinite
    <3>3. Cardinality(Live(pending, w) \cup {q}) <= Cardinality(Live(pending, w)) + 1
      <4>1. Cardinality(Live(pending, w) \cup {q})
                = IF q \in Live(pending, w) THEN Cardinality(Live(pending, w))
                                            ELSE Cardinality(Live(pending, w)) + 1
        BY <3>2, FS_AddElement
      <4> QED
        BY <3>2, <4>1
    <3> QED
      BY <2>6, <3>1, <3>2, <3>3, LiveFinite
  <2>8. runs[w] + Cardinality(Live(pending, w)) <= attempt[w] - 1
    BY <1>1, <2>3 DEF Accounted, Sent
  <2>9. runs[w] + Cardinality(Live(pending', w)) <= attempt[w]
    BY <1>2, <2>7, <2>8
  <2>10. Accounted(pending', w, phase'[w], attempt'[w], runs'[w])
    BY <2>3, <2>4, <2>6, <2>9 DEF Accounted, Sent
  <2>11. \A v \in Workers \ {w} :
            Accounted(pending', v, phase'[v], attempt'[v], runs'[v])
    BY <1>1, <2>3, <2>4, <2>5 DEF Accounted
  <2> QED
    BY <2>7, <2>10, <2>11 DEF RetryInv
<1>7. ASSUME NEW w \in Workers, SendFails(w) \/ TimesOut(w) PROVE RetryInv'
  <2>1. Returns(w, "network", pending) /\ attempt' = attempt /\ runs' = runs
        /\ phase[w] \in {"calling", "waiting"}
    BY <1>7 DEF SendFails, TimesOut
  <2>2. runs[w] + Cardinality(Live(pending, w)) <= attempt[w]
    <3>1. runs[w] + Cardinality(Live(pending, w)) <= Sent(phase[w], attempt[w])
      BY <1>1 DEF Accounted
    <3>2. Cardinality(Live(pending, w)) \in Nat
      BY <1>1, LiveFinite
    <3> QED
      BY <1>2, <3>1, <3>2 DEF Sent
  <2>3. phase[w] # "idle"
    BY <2>1
  <2> QED
    BY <1>1, <1>3, <2>1, <2>2, <2>3, ReturnAccounts DEF RetryInv
<1>8. ASSUME NEW w \in Workers, Retry(w) PROVE RetryInv'
  <2>1. /\ phase' = [phase EXCEPT ![w] = "calling"] /\ phase[w] = "backoff"
        /\ attempt' = [attempt EXCEPT ![w] = @ + 1]
        /\ pending' = pending /\ runs' = runs
    BY <1>8 DEF Retry
  <2>2. phase'[w] = "calling" /\ attempt'[w] = attempt[w] + 1
        /\ \A v \in Workers \ {w} : phase'[v] = phase[v] /\ attempt'[v] = attempt[v]
    BY <2>1 DEF TypeOK
  <2>3. Accounted(pending', w, phase'[w], attempt'[w], runs'[w])
    BY <1>1, <1>2, <2>1, <2>2 DEF Accounted, Sent
  <2> QED
    BY <1>1, <2>1, <2>2, <2>3 DEF RetryInv
<1>9. ASSUME NEW w \in Workers, ColdStart(w) PROVE RetryInv'
  <2>1. /\ phase' = [phase EXCEPT ![w] = "idle"] /\ runs' = [runs EXCEPT ![w] = 0]
        /\ pending' = Orphaned(pending, w) /\ attempt' = attempt
    BY <1>9 DEF ColdStart
  <2>2. phase'[w] = "idle" /\ runs'[w] = 0
        /\ \A v \in Workers \ {w} : phase'[v] = phase[v] /\ runs'[v] = runs[v]
    BY <2>1 DEF TypeOK
  <2>3. Accounted(pending', w, phase'[w], attempt'[w], runs'[w])
    <3>1. Awaited(pending', w) = {} /\ Live(pending', w) = {} /\ Cardinality({}) = 0
      BY <1>1, <1>3, <2>1, OrphanedRequests, FS_EmptySet
    <3> QED
      BY <1>2, <2>1, <2>2, <3>1 DEF Accounted, Sent
  <2>4. \A v \in Workers \ {w} : /\ Awaited(pending', v) = Awaited(pending, v)
                                 /\ Live(pending', v) = Live(pending, v)
    BY <1>1, <1>3, <2>1, OrphanedRequests
  <2>5. \A v \in Workers \ {w} :
           Accounted(pending', v, phase'[v], attempt'[v], runs'[v])
    BY <1>1, <2>1, <2>2, <2>4 DEF Accounted
  <2>6. IsFiniteSet(pending')
    BY <1>1, <1>3, <2>1, OrphanedRequests
  <2> QED
    BY <2>3, <2>5, <2>6 DEF RetryInv
<1>10. ASSUME NEW q \in pending, NEW o \in DockerOutcomes, Execute(q, o) PROVE RetryInv'
  <2>1. Answered(q, o.answer) /\ attempt' = attempt
        /\ runs' = IF o.took /\ q.of # "past"
                   THEN [runs EXCEPT ![q.worker] = @ + 1] ELSE runs
    BY <1>10 DEF Execute
  <2>2. q.worker \in Workers
    BY DEF TypeOK, Request
  <2>3. /\ runs' \in [Workers -> Nat]
        /\ \A v \in Workers : v # q.worker => runs'[v] = runs[v]
        /\ q.of = "past" => runs'[q.worker] = runs[q.worker]
        /\ runs'[q.worker] <= runs[q.worker] + 1
    BY <1>2, <1>3, <2>1, <2>2
  <2>4. /\ IsFiniteSet(pending')
        /\ \A v \in Workers : Accounted(pending', v, phase'[v], attempt[v], runs'[v])
    BY <2>1, <2>3, AnswerAccounts
  <2> QED
    BY <2>1, <2>4 DEF RetryInv
<1>11. ASSUME NEW q \in pending, Reject(q) PROVE RetryInv'
  <2>1. Answered(q, "http") /\ attempt' = attempt /\ runs' = runs
    BY <1>11 DEF Reject
  <2>2. q.worker \in Workers /\ runs[q.worker] <= runs[q.worker] + 1
    BY <1>2 DEF TypeOK, Request
  <2>3. /\ IsFiniteSet(pending')
        /\ \A v \in Workers : Accounted(pending', v, phase'[v], attempt[v], runs[v])
    BY <1>3, <2>1, <2>2, AnswerAccounts
  <2> QED
    BY <2>1, <2>3 DEF RetryInv
<1>12. ASSUME NEW q \in pending, CliGivesUp(q) PROVE RetryInv'
  <2> DEFINE w == q.worker
  <2>1. w \in Workers /\ Returns(w, "failed", pending) /\ attempt' = attempt /\ runs' = runs
    BY <1>12 DEF CliGivesUp, TypeOK, Request
  <2>2. phase[w] = "waiting"
    <3>1. q \in Awaited(pending, w)
      BY <1>12 DEF CliGivesUp, Awaited
    <3> QED
      BY <1>1, <2>1, <3>1 DEF Accounted
  <2> HIDE DEF w
  <2>3. runs[w] + Cardinality(Live(pending, w)) <= attempt[w]
    BY <1>1, <2>1, <2>2 DEF Accounted, Sent
  <2>4. phase[w] # "idle"
    BY <2>2
  <2> QED
    BY <1>1, <1>3, <2>1, <2>3, <2>4, ReturnAccounts DEF RetryInv
<1> QED
  BY <1>4, <1>5, <1>6, <1>7, <1>8, <1>9, <1>10, <1>11, <1>12
  DEF Next, Steps, Publish, OperatorStarts, Tick, vars

LEMMA RetryInvariant == Spec => []RetryInv
<1>1. Init => RetryInv
  <2> SUFFICES ASSUME Init PROVE RetryInv
    OBVIOUS
  <2>1. pending = {} /\ IsFiniteSet({}) /\ Cardinality({}) = 0
    BY FS_EmptySet DEF Init
  <2>2. \A w \in Workers : Awaited(pending, w) = {} /\ Live(pending, w) = {}
    BY <2>1 DEF Awaited, Live
  <2>3. \A w \in Workers : phase[w] = "idle" /\ attempt[w] = 1 /\ runs[w] = 0
    BY DEF Init
  <2> QED
    BY <2>1, <2>2, <2>3 DEF RetryInv, Accounted, Sent
<1>2. TypeOK /\ RetryInv /\ [Next]_vars => RetryInv'
  BY RetryStep
<1> QED
  BY <1>1, <1>2, TypeCorrect, PTL DEF Spec

\* While its invocation runs, an action takes effect at most once per attempt
\* (recovery_handler.py 329-375).
THEOREM RunsBounded == Spec => []RunsWithinAttempts
<1>1. TypeOK /\ RetryInv => RunsWithinAttempts
  <2> SUFFICES ASSUME TypeOK, RetryInv, NEW w \in Workers PROVE runs[w] <= attempt[w]
    BY DEF RunsWithinAttempts
  <2>1. runs[w] \in Nat /\ attempt[w] \in Nat /\ Cardinality(Live(pending, w)) \in Nat
    BY RetriesAssumption, LiveFinite DEF TypeOK, RetryInv
  <2>2. runs[w] + Cardinality(Live(pending, w)) <= Sent(phase[w], attempt[w])
    BY DEF RetryInv, Accounted
  <2> QED
    BY <2>1, <2>2 DEF Sent
<1> QED
  BY <1>1, RetryInvariant, TypeCorrect, PTL

-----------------------------------------------------------------------------
\* Without a success, what an answer leaves as the outcome is no success.
LEMMA ReturnOutcomes ==
    ASSUME TypeOK, NEW w \in Workers, NEW answer, NEW P, Returns(w, answer, P)
    PROVE  /\ \A v \in Workers \ {w} : outcome'[v] = outcome[v]
           /\ answer # "success" => \/ outcome'[w] = outcome[w]
                                    \/ outcome'[w].result = "failed"
<1>1. CASE Finishes(w, TRUE, P) /\ answer = "success"
  BY <1>1 DEF Finishes, TypeOK
<1>2. CASE Finishes(w, FALSE, P)
  BY <1>2 DEF Finishes, TypeOK
<1>3. CASE outcome' = outcome
  BY <1>3
<1> QED
  BY <1>1, <1>2, <1>3 DEF Returns

LEMMA SuccessStep ==
    ASSUME TypeOK, SuccessIsReal, [Next]_vars
    PROVE  SuccessIsReal'
<1>1. \A w \in Workers : runs[w] \in Nat
  BY DEF TypeOK
<1>2. ASSUME outcome' = outcome, runs' = runs PROVE SuccessIsReal'
  BY <1>2 DEF SuccessIsReal
<1>3. ASSUME NEW w \in Workers, ColdStart(w) \/ \E e \in Events : Start(w, e)
      PROVE SuccessIsReal'
  <2>1. outcome' = [outcome EXCEPT ![w] = NoOutcome] /\ runs' = [runs EXCEPT ![w] = 0]
    BY <1>3 DEF Start, ColdStart
  <2> QED
    BY <2>1 DEF SuccessIsReal, NoOutcome, TypeOK
<1>4. ASSUME NEW w \in Workers, NEW answer, NEW P, Returns(w, answer, P),
             answer # "success", \A v \in Workers : runs'[v] \in Nat /\ runs'[v] >= runs[v]
      PROVE  SuccessIsReal'
  BY <1>1, <1>4, ReturnOutcomes DEF SuccessIsReal
<1>5. ASSUME NEW w \in Workers, Steps(w) PROVE SuccessIsReal'
  <2>1. CASE SendFails(w) \/ TimesOut(w)
    BY <1>1, <1>4, <2>1 DEF SendFails, TimesOut
  <2> QED
    BY <1>2, <1>5, <2>1 DEF Steps, Send, Retry
<1>6. ASSUME NEW q \in pending, NEW o \in DockerOutcomes, Execute(q, o) PROVE SuccessIsReal'
  <2>1. q.worker \in Workers
    BY DEF TypeOK, Request
  <2>2. Answered(q, o.answer)
        /\ runs' = IF o.took /\ q.of # "past"
                   THEN [runs EXCEPT ![q.worker] = @ + 1] ELSE runs
    BY <1>6 DEF Execute
  <2>3. \A v \in Workers : runs'[v] \in Nat /\ runs'[v] >= runs[v]
    BY <1>1, <2>1, <2>2 DEF TypeOK
  <2>4. CASE q.of # "attempt"
    BY <1>1, <2>2, <2>3, <2>4 DEF Answered, SuccessIsReal
  <2>5. CASE q.of = "attempt" /\ o.answer # "success"
    BY <1>4, <2>1, <2>2, <2>3, <2>5 DEF Answered
  <2>6. CASE q.of = "attempt" /\ o.answer = "success"
    <3>1. o.took = TRUE
      BY <2>6 DEF DockerOutcomes
    <3>2. runs'[q.worker] > 0
      BY <1>1, <2>1, <2>2, <2>6, <3>1 DEF TypeOK
    <3>3. \A v \in Workers \ {q.worker} : outcome'[v] = outcome[v]
      BY <2>1, <2>2, <2>6, ReturnOutcomes DEF Answered
    <3> QED
      BY <1>1, <2>3, <3>2, <3>3 DEF SuccessIsReal
  <2> QED
    BY <2>4, <2>5, <2>6
<1>7. ASSUME NEW q \in pending, CliGivesUp(q) PROVE SuccessIsReal'
  <2>1. q.worker \in Workers /\ Returns(q.worker, "failed", pending) /\ runs' = runs
    BY <1>7 DEF TypeOK, Request, CliGivesUp
  <2> QED
    BY <1>1, <1>4, <2>1
<1>8. ASSUME NEW q \in pending, Reject(q) PROVE SuccessIsReal'
  <2>1. q.worker \in Workers /\ Answered(q, "http") /\ runs' = runs
    BY <1>8 DEF TypeOK, Request, Reject
  <2>2. CASE q.of = "attempt"
    BY <1>1, <1>4, <2>1, <2>2 DEF Answered
  <2>3. CASE q.of # "attempt"
    BY <1>2, <2>1, <2>3 DEF Answered
  <2> QED
    BY <2>2, <2>3
<1> QED
  BY <1>2, <1>3, <1>5, <1>6, <1>7, <1>8 DEF Next, Publish, OperatorStarts, Tick, vars

\* A reported success means that docker has carried the action out during
\* that invocation (recovery_handler.py 202-213).
THEOREM SuccessHolds == Spec => []SuccessIsReal
<1>1. Init => SuccessIsReal
  BY DEF Init, SuccessIsReal, NoOutcome
<1>2. TypeOK /\ SuccessIsReal /\ [Next]_vars => SuccessIsReal'
  BY SuccessStep
<1> QED
  BY <1>1, <1>2, TypeCorrect, PTL DEF Spec
=============================================================================
