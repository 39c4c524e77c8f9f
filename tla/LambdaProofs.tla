---------------------------- MODULE LambdaProofs ----------------------------
(***************************************************************************)
(* Proofs about LambdaMemory, for any registry, thresholds and windows:    *)
(* what the recommendation of a rollback says of an invocation; that a     *)
(* service which was given up starts over; and that the lists of           *)
(* timestamps climb the ladder of LadderSpec.                              *)
(***************************************************************************)
EXTENDS LambdaMemory, FiniteSetTheorems, SequenceTheorems, TLAPS

\* A decision has its five fields, so that one of them can be replaced.
Shaped(d) == d = [action |-> d.action, severity |-> d.severity, count5 |-> d.count5,
                  count10 |-> d.count10, escalated |-> d.escalated]

Images == [Services -> [image : {"none", "latest"}, successes : 0..MaxSuccesses]]

\* While the agent is called, the baseline of the service is in place and a
\* CRITICAL decision is an escalated one.
Prepared ==
    /\ rollback \in Images
    /\ service \in Services
    /\ phase = "calling" =>
         /\ rollback[service].image = "latest"
         /\ Shaped(decision)
         /\ decision.escalated \in BOOLEAN
         /\ decision.severity = "CRITICAL" => decision.escalated

\* What the last answer says, and what was published of it.
Consistent ==
    /\ answer.recommended \in BOOLEAN
    /\ answer.recommended = (answer.severity = "CRITICAL")
    /\ answer.recommended => answer.escalated
    /\ sent = {} \/ sent = Emits(answer)

LInv == Prepared /\ Consistent

-----------------------------------------------------------------------------
\* What a decision says of its own severity, whatever the counts are.
LEMMA DecisionShape ==
    ASSUME NEW list, NEW type, NEW strategy, NEW d, d = Decided(list, type, strategy)
    PROVE  /\ Shaped(d)
           /\ d.escalated \in BOOLEAN
           /\ d.severity = "CRITICAL" => d.escalated
<1>1. PICK a, v, c5, c10, e :
         /\ d = [action |-> a, severity |-> v, count5 |-> c5, count10 |-> c10, escalated |-> e]
         /\ e = (v \in {"HIGH", "CRITICAL"})
  BY Zenon DEF Decided
<1>2. d.severity = v /\ d.escalated = e
  BY <1>1
<1>3. e \in BOOLEAN /\ (v = "CRITICAL" => e)
  <2>1. v = "CRITICAL" => v \in {"HIGH", "CRITICAL"}
    OBVIOUS
  <2>2. (v \in {"HIGH", "CRITICAL"}) \in BOOLEAN
    OBVIOUS
  <2> QED
    BY <1>1, <2>1, <2>2, Zenon
<1>4. Shaped(d)
  BY <1>1, Zenon DEF Shaped
<1> QED
  BY <1>2, <1>3, <1>4, Zenon

\* Replacing one field of an entry of _rollback_state.
LEMMA EntryFields ==
    ASSUME NEW entry \in [image : {"none", "latest"}, successes : 0..MaxSuccesses], NEW n
    PROVE  /\ [entry EXCEPT !.image = "latest"]
                = [image |-> "latest", successes |-> entry.successes]
           /\ [entry EXCEPT !.successes = n]
                = [image |-> entry.image, successes |-> n]
<1>1. entry = [image |-> entry.image, successes |-> entry.successes]
  OBVIOUS
<1>2. DOMAIN entry = {"image", "successes"}
  BY <1>1
<1> QED
  BY <1>1, <1>2

-----------------------------------------------------------------------------
\* The first half of an invocation prepares the second (recovery_handler.py
\* 131-191).
LEMMA DecidesPrepares ==
    ASSUME LInv, NEW s \in Services, NEW type, Decides(s, type)
    PROVE  LInv'
<1> DEFINE list == Pruned(Append(stamps[s], 0))
<1>1. Prepared'
  <2>1. rollback' = [rollback EXCEPT ![s].image = "latest"] /\ service' = s
    BY DEF Decides, Baseline
  <2>2. rollback[s] \in [image : {"none", "latest"}, successes : 0..MaxSuccesses]
    BY DEF LInv, Prepared, Images
  <2>3. [rollback[s] EXCEPT !.image = "latest"]
            = [image |-> "latest", successes |-> rollback[s].successes]
    BY <2>2, EntryFields
  <2>4. rollback' = [rollback EXCEPT ![s] = [image |-> "latest",
                                             successes |-> rollback[s].successes]]
    BY <2>1, <2>3
  <2>5. rollback' \in Images /\ rollback'[s].image = "latest"
    BY <2>2, <2>4 DEF LInv, Prepared, Images
  <2>6. decision' = Decided(list, type, Strategy[s])
    BY DEF Decides
  <2>7. /\ Shaped(decision')
        /\ decision'.escalated \in BOOLEAN
        /\ decision'.severity = "CRITICAL" => decision'.escalated
    BY <2>6, DecisionShape
  <2>8. Shaped(decision)'
    BY <2>7 DEF Shaped
  <2> QED
    BY <2>1, <2>5, <2>7, <2>8 DEF Prepared
<1>2. Consistent'
  BY DEF Decides, LInv, Consistent, Emits
<1> QED
  BY <1>1, <1>2 DEF LInv

\* The second half recommends, escalates and publishes (recovery_handler.py
\* 213-252; smart_recovery_policy.py 205-232).
LEMMA FinishesConsistent ==
    ASSUME LInv, NEW succeeded \in BOOLEAN, Finishes(succeeded)
    PROVE  LInv'
<1> DEFINE final == Evaluated(decision, succeeded)
<1>1. /\ phase' = "idle" /\ service' = service
      /\ rollback' = Stable(service, succeeded)
  BY DEF Finishes
<1>2. Prepared'
  <2>1. rollback[service] \in [image : {"none", "latest"}, successes : 0..MaxSuccesses]
    BY DEF LInv, Prepared, Images
  <2>2. \E n \in 0..MaxSuccesses :
           rollback' = [rollback EXCEPT ![service] =
                            [image |-> rollback[service].image, successes |-> n]]
    <3> DEFINE k == rollback[service].successes
               n == IF succeeded /\ k < MaxSuccesses THEN k + 1 ELSE k
    <3>1. n \in 0..MaxSuccesses
      BY <2>1, BoundsAssumption
    <3>2. [rollback[service] EXCEPT !.successes = n]
              = [image |-> rollback[service].image, successes |-> n]
      BY <2>1, EntryFields
    <3>3. rollback' = [rollback EXCEPT ![service] = [rollback[service] EXCEPT !.successes = n]]
      BY <1>1 DEF Stable
    <3> QED
      BY <3>1, <3>2, <3>3
  <2> QED
    BY <1>1, <2>1, <2>2 DEF LInv, Prepared, Images
<1>3. /\ phase = "calling"
      /\ answer' = [status      |-> IF succeeded THEN "200" ELSE "500",
                    severity    |-> final.severity,
                    escalated   |-> final.escalated,
                    recommended |-> Recommends(service, final.severity)]
      /\ sent' = {} \/ sent' = Emits(answer')
  BY DEF Finishes
<1>4. rollback[service].image = "latest"
  BY <1>3 DEF LInv, Prepared
<1>5. /\ final.severity = FinalSeverity(decision.severity, succeeded)
      /\ final.escalated = (decision.escalated \/ ~succeeded)
  BY <1>3 DEF Evaluated, LInv, Prepared, Shaped
<1>6. final.severity = "CRITICAL" => final.escalated
  BY <1>3, <1>5 DEF FinalSeverity, LInv, Prepared
<1>7. Consistent'
  BY <1>3, <1>4, <1>6 DEF Consistent, Recommends, Emits
<1> QED
  BY <1>2, <1>7 DEF LInv

LEMMA LambdaInvariant == Spec => []LInv
<1>1. ASSUME Init PROVE LInv
  <2>1. Unknown \in Images
    BY BoundsAssumption DEF Unknown, Images
  <2> QED
    BY <1>1, <2>1 DEF Init, LInv, Prepared, Consistent, NoAnswer
<1>2. ASSUME LInv, [Next]_vars PROVE LInv'
  <2>1. ASSUME NEW s \in Services, NEW type \in FailureTypes, Decides(s, type) PROVE LInv'
    BY <1>2, <2>1, DecidesPrepares
  <2>2. CASE Refuses
    BY <1>2, <2>2 DEF Refuses, LInv, Prepared, Consistent, NoAnswer, Shaped
  <2>3. ASSUME NEW succeeded \in BOOLEAN, Finishes(succeeded) PROVE LInv'
    BY <1>2, <2>3, FinishesConsistent
  <2>4. CASE ColdStart
    <3>1. Unknown \in Images
      BY BoundsAssumption DEF Unknown, Images
    <3> QED
      BY <1>2, <2>4, <3>1 DEF ColdStart, LInv, Prepared, Consistent, NoAnswer
  <2>5. CASE Tick
    BY <1>2, <2>5 DEF Tick, LInv, Prepared, Consistent, Shaped, Emits
  <2>6. CASE UNCHANGED vars
    BY <1>2, <2>6 DEF vars, LInv, Prepared, Consistent, Shaped, Emits
  <2> QED
    BY <1>2, <2>1, <2>2, <2>3, <2>4, <2>5, <2>6 DEF Next
<1> QED
  BY <1>1, <1>2, PTL DEF Spec

\* A rollback is recommended by exactly the invocations that end CRITICAL:
\* record_baseline has always run by then (recovery_handler.py 191, 227-229).
THEOREM RecommendedWhenCritical == Spec => []RecommendsWhenCritical
<1>1. LInv => RecommendsWhenCritical
  BY DEF LInv, Consistent, RecommendsWhenCritical
<1> QED
  BY <1>1, LambdaInvariant, PTL

\* A published recommendation is published with an escalation
\* (recovery_handler.py 284-316; smart_recovery_policy.py 145-160, 213-233).
THEOREM RollbackEscalated == Spec => []RollbackIsEscalated
<1>1. LInv => RollbackIsEscalated
  BY DEF LInv, Consistent, RollbackIsEscalated, Emits
<1> QED
  BY <1>1, LambdaInvariant, PTL

-----------------------------------------------------------------------------
(***************************************************************************)
(* Lists of timestamps, and the ages that they stand for.                  *)
(***************************************************************************)

Lists == Seq(0..TenMinutes)

\* The oldest timestamp comes first.
InOrder(list) == \A i, j \in 1..Len(list) : i <= j => list[j] <= list[i]

LEMMA ListFacts ==
    ASSUME NEW list \in Lists
    PROVE  /\ Len(list) \in Nat /\ DOMAIN list = 1..Len(list)
           /\ \A i \in 1..Len(list) : list[i] \in Nat /\ list[i] <= TenMinutes
<1>1. \A i \in 1..Len(list) : list[i] \in 0..TenMinutes
  BY ElementOfSeq DEF Lists
<1> QED
  BY <1>1, LenProperties, WindowAssumption DEF Lists

\* In a list that is in order, those within a window are its last ones.
LEMMA CountedNewest ==
    ASSUME NEW list \in Lists, InOrder(list), NEW w \in Nat
    PROVE  /\ Counted(list, w) \in 0..Len(list)
           /\ \A i \in 1..Len(list) : list[i] < w <=> i > Len(list) - Counted(list, w)
<1> DEFINE S == {i \in DOMAIN list : list[i] < w}
           L == Len(list)
           n == Cardinality(S)
<1>1. L \in Nat /\ S \in SUBSET (1..L) /\ Counted(list, w) = n
  BY ListFacts DEF Counted
<1>2. \A i \in 1..L : i \in S <=> list[i] < w
  BY ListFacts
<1>3. ASSUME NEW i \in S, NEW j \in i..L PROVE j \in S
  <2>1. i \in 1..L /\ j \in 1..L /\ list[j] <= list[i] /\ list[i] < w
    BY <1>1, <1>2, <1>3 DEF InOrder
  <2>2. list[j] \in Nat /\ list[i] \in Nat
    BY <2>1, ListFacts
  <2> QED
    BY <1>2, <2>1, <2>2
<1> HIDE DEF S, L
<1>4. IsFiniteSet(S) /\ n \in Nat /\ n <= L
  <2>1. IsFiniteSet(1..L) /\ Cardinality(1..L) = IF 1 > L THEN 0 ELSE L - 1 + 1
    BY <1>1, FS_Interval
  <2>2. IsFiniteSet(S) /\ Cardinality(S) <= Cardinality(1..L)
    BY <1>1, <2>1, FS_Subset
  <2> QED
    BY <1>1, <2>1, <2>2, FS_CardinalityType
<1>5. ASSUME NEW i \in 1..L, i \in S PROVE i > L - n
  <2>1. (i..L) \in SUBSET S
    BY <1>3, <1>5
  <2>2. Cardinality(i..L) = L - i + 1
    BY <1>1, FS_Interval
  <2>3. Cardinality(i..L) <= Cardinality(S)
    BY <1>4, <2>1, FS_Subset
  <2> QED
    BY <1>1, <1>4, <2>2, <2>3
<1>6. ASSUME NEW i \in 1..L, i \notin S PROVE i <= L - n
  <2>1. S \in SUBSET ((i + 1)..L)
    <3> SUFFICES ASSUME NEW j \in S PROVE j \in (i + 1)..L
      OBVIOUS
    <3>1. j \in 1..L
      BY <1>1
    <3>2. ~(j <= i)
      BY <1>3, <1>6, <3>1
    <3> QED
      BY <1>1, <3>1, <3>2
  <2>2. IsFiniteSet((i + 1)..L) /\ Cardinality((i + 1)..L) = L - i
    <3>1. i + 1 \in Int /\ L \in Int /\ i <= L
      BY <1>1
    <3>2. /\ IsFiniteSet((i + 1)..L)
          /\ Cardinality((i + 1)..L) = IF i + 1 > L THEN 0 ELSE L - (i + 1) + 1
      BY <3>1, FS_Interval
    <3> QED
      BY <3>1, <3>2
  <2>3. Cardinality(S) <= Cardinality((i + 1)..L)
    BY <2>1, <2>2, FS_Subset
  <2> QED
    BY <1>1, <1>4, <2>2, <2>3
<1>7. \A i \in 1..L : list[i] < w <=> i > L - n
  BY <1>1, <1>2, <1>4, <1>5, <1>6
<1> QED
  BY <1>1, <1>4, <1>7 DEF L

\* The list that is left, and the counts of what is left.
LEMMA PrunedList ==
    ASSUME NEW list \in Lists, InOrder(list),
           NEW L, L = Len(list), NEW n, n = Counted(list, TenMinutes)
    PROVE  /\ Pruned(list) \in Lists /\ InOrder(Pruned(list))
           /\ Len(Pruned(list)) = n /\ n \in 0..L
           /\ \A i \in 1..n : /\ Pruned(list)[i] = list[L - n + i]
                              /\ Pruned(list)[i] < TenMinutes
           /\ \A i \in 1..(L - n) : list[i] = TenMinutes
<1> DEFINE p == Pruned(list)
<1>1. /\ L \in Nat /\ n \in 0..L
      /\ \A i \in 1..L : list[i] < TenMinutes <=> i > L - n
  BY ListFacts, CountedNewest, WindowAssumption
<1>2. p = SubSeq(list, L + 1 - n, L)
  BY DEF Pruned
<1>3. /\ p \in Lists
      /\ Len(p) = n
      /\ \A i \in 1..n : p[i] = list[L - n + i]
  <2>1. L + 1 - n \in 1..(L + 1) /\ L \in 0..L
    BY <1>1
  <2>2. \A i \in (L + 1 - n)..L : list[i] \in 0..TenMinutes
    BY <1>1, <2>1, ListFacts, WindowAssumption
  <2> DEFINE m == L + 1 - n
  <2>3. /\ m \in Int /\ L \in Int /\ L - m + 1 = n /\ (IF m <= L THEN L - m + 1 ELSE 0) = n
        /\ \A i \in 1..n : m + i - 1 = L - n + i
    BY <1>1
  <2>4. p = SubSeq(list, m, L) /\ \A i \in m..L : list[i] \in 0..TenMinutes
    BY <1>2, <2>2
  <2> HIDE DEF m, p
  <2>5. /\ p \in Seq(0..TenMinutes)
        /\ Len(p) = IF m <= L THEN L - m + 1 ELSE 0
        /\ \A i \in 1..(L - m + 1) : p[i] = list[m + i - 1]
    BY <2>3, <2>4, SubSeqProperties
  <2> QED
    BY <2>3, <2>5 DEF Lists
<1> HIDE DEF p
<1>4. \A i \in 1..n : p[i] < TenMinutes
  BY <1>1, <1>3
<1>5. InOrder(p)
  <2>1. \A i, j \in 1..n : i <= j => /\ L - n + i \in 1..L /\ L - n + j \in 1..L
                                     /\ L - n + i <= L - n + j
    BY <1>1
  <2> QED
    BY <1>3, <2>1 DEF InOrder
<1>6. ASSUME NEW i \in 1..(L - n) PROVE list[i] = TenMinutes
  <2>1. i \in 1..L /\ ~(list[i] < TenMinutes)
    BY <1>1
  <2> QED
    BY <2>1, ListFacts, WindowAssumption
<1> QED
  BY <1>1, <1>3, <1>4, <1>5, <1>6 DEF p

\* A new timestamp at the end of a list.
LEMMA AppendedList ==
    ASSUME NEW list \in Lists, InOrder(list)
    PROVE  /\ Append(list, 0) \in Lists /\ InOrder(Append(list, 0))
           /\ Len(Append(list, 0)) = Len(list) + 1
           /\ \A i \in 1..Len(list) : Append(list, 0)[i] = list[i]
           /\ Append(list, 0)[Len(list) + 1] = 0
<1> DEFINE L == Len(list)
           a == Append(list, 0)
<1>1. /\ a \in Lists /\ Len(a) = L + 1 /\ a[L + 1] = 0
      /\ \A i \in 1..L : a[i] = list[i]
  BY WindowAssumption, AppendProperties DEF Lists
<1>2. L \in Nat /\ \A i \in 1..L : list[i] \in Nat
  BY ListFacts
<1>3. ASSUME NEW i \in 1..(L + 1), NEW j \in 1..(L + 1), i <= j PROVE a[j] <= a[i]
  <2>1. CASE j = L + 1
    <3>1. a[i] \in Nat
      BY <1>1, ListFacts
    <3> QED
      BY <1>1, <2>1, <3>1
  <2>2. CASE j # L + 1
    <3>1. i \in 1..L /\ j \in 1..L
      BY <1>2, <1>3, <2>2
    <3> QED
      BY <1>1, <1>3, <3>1 DEF InOrder
  <2> QED
    BY <2>1, <2>2
<1> QED
  BY <1>1, <1>3 DEF InOrder

\* The ages are a history, and those of a list without timestamps an empty one.
LEMMA AgesType ==
    ASSUME NEW list \in Lists
    PROVE  Ages(list) \in History /\ (Len(list) = 0 => Ages(list) = NoFailures)
<1> USE CountAssumption, WindowAssumption
<1>1. ASSUME NEW k \in 1..CriticalCount, k <= Len(list)
      PROVE  list[Len(list) + 1 - k] \in 0..TenMinutes
  <2>1. Len(list) + 1 - k \in 1..Len(list)
    BY <1>1, ListFacts
  <2> QED
    BY <2>1, ListFacts
<1>2. Ages(list) \in History
  BY <1>1 DEF Ages, History
<1>3. Len(list) = 0 => Ages(list) = NoFailures
  BY DEF Ages, NoFailures
<1> QED
  BY <1>2, <1>3

\* The two counts of a pruned list put a failure on the rung of its ages.
LEMMA RungOfAges ==
    ASSUME NEW list \in Lists, InOrder(list), \A i \in 1..Len(list) : list[i] < TenMinutes
    PROVE  Rung(Counted(list, FiveMinutes), Len(list)) = Severity(Ages(list))
<1> DEFINE L == Len(list)
           n == Counted(list, FiveMinutes)
<1> USE CountAssumption, WindowAssumption
<1>1. /\ L \in Nat /\ n \in 0..L
      /\ \A i \in 1..L : list[i] < FiveMinutes <=> i > L - n
      /\ \A i \in 1..L : list[i] < TenMinutes
      /\ \A i \in 1..L : list[i] \in Nat
  BY ListFacts, CountedNewest
<1>2. \A k \in 1..CriticalCount :
         Ages(list)[k] = IF k <= L THEN list[L + 1 - k] ELSE TenMinutes
  BY DEF Ages
<1> HIDE DEF L, n
<1>3. ASSUME NEW k \in 1..CriticalCount
      PROVE  /\ AtLeast(k, TenMinutes, Ages(list)) <=> L >= k
             /\ AtLeast(k, FiveMinutes, Ages(list)) <=> n >= k
  <2>1. CASE k <= L
    <3> DEFINE i == L + 1 - k
    <3>1. i \in 1..L /\ Ages(list)[k] = list[i]
      BY <1>1, <1>2, <2>1
    <3>2. i > L - n <=> n >= k
      BY <1>1, <2>1
    <3> HIDE DEF i
    <3> QED
      BY <1>1, <2>1, <3>1, <3>2 DEF AtLeast
  <2>2. CASE ~(k <= L)
    BY <1>1, <1>2, <2>2 DEF AtLeast
  <2> QED
    BY <2>1, <2>2
<1>4. /\ CriticalCount \in 1..CriticalCount
      /\ HighCount \in 1..CriticalCount /\ MediumCount \in 1..CriticalCount
  OBVIOUS
<1>5. Rung(n, L) = Severity(Ages(list))
  BY <1>3, <1>4 DEF Rung, Severity
<1> QED
  BY <1>5 DEF L, n

\* Appending and pruning comes to recording a failure.
LEMMA AgesRecorded ==
    ASSUME NEW list \in Lists, InOrder(list)
    PROVE  Ages(Pruned(Append(list, 0))) = Recorded(Ages(list))
<1> DEFINE L == Len(list)
           a == Append(list, 0)
           n == Counted(a, TenMinutes)
           p == Pruned(a)
<1> USE CountAssumption, WindowAssumption
<1>1. /\ L \in Nat /\ Len(a) = L + 1 /\ a[L + 1] = 0 /\ a \in Lists /\ InOrder(a)
      /\ \A i \in 1..L : a[i] = list[i]
  BY ListFacts, AppendedList
<1>2. /\ Len(p) = n /\ n \in 0..(L + 1)
      /\ \A i \in 1..n : p[i] = a[L + 1 - n + i]
      /\ \A i \in 1..(L + 1 - n) : a[i] = TenMinutes
  <2> DEFINE M == L + 1
  <2>1. a \in Lists /\ InOrder(a) /\ M = Len(a)
    BY <1>1
  <2> HIDE DEF M, a
  <2>2. /\ Len(p) = n /\ n \in 0..M
        /\ \A i \in 1..n : p[i] = a[M - n + i]
        /\ \A i \in 1..(M - n) : a[i] = TenMinutes
    BY <2>1, PrunedList
  <2> QED
    BY <2>2 DEF M
<1>3. n >= 1
  <2>1. ASSUME n = 0 PROVE FALSE
    <3>1. L + 1 \in 1..(L + 1 - n)
      BY <1>1, <2>1
    <3> QED
      BY <1>1, <1>2, <3>1
  <2> QED
    BY <1>2, <2>1
<1> HIDE DEF L, a, n, p
<1>4. ASSUME NEW k \in 1..CriticalCount
      PROVE  (IF k <= n THEN p[n + 1 - k] ELSE TenMinutes)
               = IF k = 1 THEN 0 ELSE IF k - 1 <= L THEN list[L + 1 - (k - 1)] ELSE TenMinutes
  <2>1. CASE k = 1
    <3>1. n \in 1..n /\ p[n] = a[L + 1 - n + n] /\ L + 1 - n + n = L + 1
      BY <1>1, <1>2, <1>3
    <3>2. n + 1 - k = n /\ k <= n
      BY <1>2, <1>3, <2>1
    <3> QED
      BY <1>1, <2>1, <3>1, <3>2
  <2>2. CASE k # 1 /\ k <= n
    <3>1. /\ n + 1 - k \in 1..n /\ L + 1 - n + (n + 1 - k) = L + 2 - k
          /\ L + 2 - k \in 1..L /\ L + 1 - (k - 1) = L + 2 - k /\ k - 1 <= L
      BY <1>1, <1>2, <2>2
    <3>2. p[n + 1 - k] = a[L + 2 - k] /\ a[L + 2 - k] = list[L + 2 - k]
      BY <1>1, <1>2, <3>1
    <3> QED
      BY <2>2, <3>1, <3>2
  <2>3. CASE k # 1 /\ ~(k <= n) /\ k - 1 <= L
    <3>1. L + 2 - k \in 1..(L + 1 - n) /\ L + 2 - k \in 1..L /\ L + 1 - (k - 1) = L + 2 - k
      BY <1>1, <1>2, <2>3
    <3> QED
      BY <1>1, <1>2, <2>3, <3>1
  <2>4. CASE k # 1 /\ ~(k <= n) /\ ~(k - 1 <= L)
    BY <2>4
  <2> QED
    BY <2>1, <2>2, <2>3, <2>4
<1>5. Ages(p) = [k \in 1..CriticalCount |-> IF k <= n THEN p[n + 1 - k] ELSE TenMinutes]
  BY <1>2 DEF Ages
<1>6. Recorded(Ages(list))
        = [k \in 1..CriticalCount |->
              IF k = 1 THEN 0 ELSE IF k - 1 <= L THEN list[L + 1 - (k - 1)] ELSE TenMinutes]
  <2>1. ASSUME NEW k \in 1..CriticalCount, k # 1
        PROVE  Ages(list)[k - 1] = IF k - 1 <= L THEN list[L + 1 - (k - 1)] ELSE TenMinutes
    <3>1. k - 1 \in 1..CriticalCount
      BY <2>1
    <3> QED
      BY <3>1 DEF Ages, L
  <2> QED
    BY <2>1 DEF Recorded
<1>7. Ages(p) = Recorded(Ages(list))
  BY <1>4, <1>5, <1>6
<1> QED
  BY <1>7 DEF p, a

\* What Tick makes of a list.
Aging(list) == [i \in DOMAIN list |-> IF list[i] < TenMinutes THEN list[i] + 1 ELSE TenMinutes]

LEMMA AgesOlder ==
    ASSUME NEW list \in Lists, InOrder(list)
    PROVE  /\ Aging(list) \in Lists /\ InOrder(Aging(list)) /\ Len(Aging(list)) = Len(list)
           /\ Ages(Aging(list)) = Older(Ages(list))
<1> DEFINE L == Len(list)
           b == Aging(list)
<1> USE CountAssumption, WindowAssumption
<1>1. /\ L \in Nat /\ DOMAIN list = 1..L
      /\ \A i \in 1..L : list[i] \in Nat /\ list[i] <= TenMinutes
  BY ListFacts
<1>2. b = [i \in 1..L |-> IF list[i] < TenMinutes THEN list[i] + 1 ELSE TenMinutes]
  BY <1>1 DEF Aging
<1>3. b \in [1..L -> 0..TenMinutes]
  BY <1>1, <1>2
<1>4. b \in Lists
  BY <1>1, <1>3, SeqDef DEF Lists
<1>5. Len(b) = L
  BY <1>1, <1>3, <1>4, LenProperties DEF Lists
<1> HIDE DEF b
<1>6. InOrder(b)
  BY <1>1, <1>2, <1>5 DEF InOrder
<1>7. Ages(b) = Older(Ages(list))
  <2>1. ASSUME NEW k \in 1..CriticalCount PROVE Ages(b)[k] = Older(Ages(list))[k]
    <3>1. CASE k <= L
      <4>1. L + 1 - k \in 1..L
        BY <1>1, <3>1
      <4> QED
        BY <1>1, <1>2, <1>5, <3>1, <4>1 DEF Ages, Older
    <3>2. CASE ~(k <= L)
      BY <1>5, <3>2 DEF Ages, Older
    <3> QED
      BY <3>1, <3>2
  <2> QED
    BY <2>1 DEF Ages, Older
<1> QED
  BY <1>4, <1>5, <1>6, <1>7 DEF b

-----------------------------------------------------------------------------
\* Type correctness; the lists stay in order.

ListsInOrder == \A s \in Services : InOrder(stamps[s])

TypeInv == TypeOK /\ ListsInOrder

LEMMA EmptyList == << >> \in Lists /\ Len(<< >>) = 0 /\ InOrder(<< >>)
<1>1. << >> \in Lists /\ Len(<< >>) = 0
  BY EmptySeq DEF Lists
<1> QED
  BY <1>1 DEF InOrder

LEMMA NothingType ==
    /\ Forgotten \in [Services -> Lists]
    /\ \A s \in Services : Len(Forgotten[s]) = 0 /\ InOrder(Forgotten[s])
    /\ Unknown \in Images
    /\ NoDecision \in Decision
    /\ NoAnswer \in Answer
<1>1. 0 \in 0..MaxFailures /\ 0 \in 0..MaxSuccesses
  BY BoundsAssumption
<1>2. /\ Forgotten \in [Services -> Lists]
      /\ \A s \in Services : Len(Forgotten[s]) = 0 /\ InOrder(Forgotten[s])
  BY EmptyList DEF Forgotten
<1>3. Unknown \in Images
  BY <1>1 DEF Unknown, Images
<1>4. NoDecision \in Decision
  BY <1>1 DEF NoDecision, Decision, Actions, Severities
<1>5. NoAnswer \in Answer
  BY DEF NoAnswer, Answer, Severities
<1> QED
  BY <1>2, <1>3, <1>4, <1>5

\* The type of a decision about a list that is no longer than MaxFailures.
LEMMA DecidedType ==
    ASSUME NEW list \in Lists, InOrder(list), Len(list) <= MaxFailures, NEW type, NEW strategy
    PROVE  Decided(list, type, strategy) \in Decision
<1> DEFINE c5   == Counted(list, FiveMinutes)
           L    == Len(list)
           rung == Rung(c5, L)
           v    == Overridden(strategy, rung)
           a    == ActionFor(type, rung)
           e    == (v \in {"HIGH", "CRITICAL"})
<1>1. c5 \in 0..MaxFailures /\ L \in 0..MaxFailures
  BY CountedNewest, ListFacts, WindowAssumption, BoundsAssumption
<1>2. rung \in Severities
  BY DEF Rung, Severities
<1>3. v \in Severities /\ a \in Actions
  BY <1>2 DEF Overridden, ActionFor, Severities, Actions
<1>4. e \in BOOLEAN
  OBVIOUS
<1>5. Decided(list, type, strategy)
        = [action |-> a, severity |-> v, count5 |-> c5, count10 |-> L, escalated |-> e]
  BY Zenon DEF Decided
<1> HIDE DEF c5, L, rung, v, a, e
<1> QED
  BY <1>1, <1>3, <1>4, <1>5 DEF Decision

LEMMA EvaluatedFields ==
    ASSUME NEW d \in Decision, NEW succeeded \in BOOLEAN
    PROVE  /\ Evaluated(d, succeeded).severity \in Severities
           /\ Evaluated(d, succeeded).escalated \in BOOLEAN
  BY DEF Evaluated, Decision, FinalSeverity, Severities

LEMMA TypeStep == TypeInv /\ [Next]_vars => TypeInv'
<1> SUFFICES ASSUME TypeInv, [Next]_vars PROVE TypeInv'
  OBVIOUS
<1>1. /\ stamps \in [Services -> Lists]
      /\ \A s \in Services : Len(stamps[s]) <= MaxFailures /\ InOrder(stamps[s])
      /\ rollback \in Images
  BY DEF TypeInv, TypeOK, ListsInOrder, Lists, Images
<1>2. ASSUME stamps' \in [Services -> Lists],
             \A s \in Services : Len(stamps'[s]) <= MaxFailures /\ InOrder(stamps'[s]),
             rollback' \in Images,
             phase' \in {"idle", "calling"} /\ service' \in Services,
             decision' \in Decision /\ answer' \in Answer,
             sent' \in SUBSET Metrics /\ forgiven' \in SUBSET Services
      PROVE  TypeInv'
  BY <1>2 DEF TypeInv, TypeOK, ListsInOrder, Lists, Images, Decision, Answer
<1> USE DEF TypeInv, TypeOK
<1>3. ASSUME NEW s \in Services, NEW type, Decides(s, type) PROVE TypeInv'
  <2> DEFINE list == Pruned(Append(stamps[s], 0))
  <2>1. list \in Lists /\ InOrder(list)
    BY <1>1, AppendedList, PrunedList
  <2>2. Len(list) <= MaxFailures /\ decision' = Decided(list, type, Strategy[s])
    BY <1>3 DEF Decides
  <2>3. decision' \in Decision
    BY <2>1, <2>2, DecidedType
  <2>4. stamps' = [stamps EXCEPT ![s] = list]
    BY <1>3 DEF Decides
  <2>5. rollback' \in Images
    <3>1. rollback[s] \in [image : {"none", "latest"}, successes : 0..MaxSuccesses]
      BY <1>1 DEF Images
    <3>2. [rollback[s] EXCEPT !.image = "latest"]
              = [image |-> "latest", successes |-> rollback[s].successes]
      BY <3>1, EntryFields
    <3>3. rollback' = [rollback EXCEPT ![s] = [rollback[s] EXCEPT !.image = "latest"]]
      BY <1>3 DEF Decides, Baseline
    <3> QED
      BY <1>1, <3>1, <3>2, <3>3 DEF Images
  <2>6. /\ phase' \in {"idle", "calling"} /\ service' \in Services
        /\ answer' \in Answer /\ sent' \in SUBSET Metrics /\ forgiven' \in SUBSET Services
    BY <1>3 DEF Decides
  <2> HIDE DEF list, TypeInv, TypeOK
  <2>7. stamps' \in [Services -> Lists]
    BY <1>1, <2>1, <2>4
  <2>8. \A r \in Services : Len(stamps'[r]) <= MaxFailures /\ InOrder(stamps'[r])
    BY <1>1, <2>1, <2>2, <2>4
  <2> QED
    BY <1>2, <2>3, <2>5, <2>6, <2>7, <2>8
<1>4. CASE Refuses
  <2>1. answer' \in Answer
    BY <1>4 DEF Refuses, NoAnswer, Answer, Severities
  <2> QED
    BY <1>1, <1>2, <1>4, <2>1 DEF Refuses
<1>5. ASSUME NEW succeeded \in BOOLEAN, Finishes(succeeded) PROVE TypeInv'
  <2> DEFINE final == Evaluated(decision, succeeded)
  <2>1. stamps' \in [Services -> Lists] /\ \A s \in Services : Len(stamps'[s]) <= MaxFailures
                                                                /\ InOrder(stamps'[s])
    <3>1. stamps' = stamps \/ stamps' = [stamps EXCEPT ![service] = << >>]
      BY <1>5 DEF Finishes, Forgets
    <3>2. << >> \in Lists /\ Len(<< >>) <= MaxFailures /\ InOrder(<< >>)
      <4>1. 0 <= MaxFailures
        BY BoundsAssumption
      <4> QED
        BY <4>1, EmptyList
    <3>3. ASSUME NEW none \in Lists, Len(none) <= MaxFailures, InOrder(none),
                 stamps' = [stamps EXCEPT ![service] = none]
          PROVE  /\ stamps' \in [Services -> Lists]
                 /\ \A s \in Services : Len(stamps'[s]) <= MaxFailures /\ InOrder(stamps'[s])
      BY <1>1, <3>3
    <3> QED
      BY <1>1, <3>1, <3>2, <3>3
  <2>2. rollback' \in Images
    <3> DEFINE k == rollback[service].successes
               n == IF succeeded /\ k < MaxSuccesses THEN k + 1 ELSE k
    <3>1. rollback[service] \in [image : {"none", "latest"}, successes : 0..MaxSuccesses]
      BY <1>1 DEF Images
    <3>2. n \in 0..MaxSuccesses
      BY <3>1, BoundsAssumption
    <3>3. [rollback[service] EXCEPT !.successes = n]
              = [image |-> rollback[service].image, successes |-> n]
      BY <3>1, EntryFields
    <3>4. rollback' = [rollback EXCEPT ![service] = [rollback[service] EXCEPT !.successes = n]]
      BY <1>5 DEF Finishes, Stable
    <3> HIDE DEF n
    <3> QED
      BY <1>1, <3>1, <3>2, <3>3, <3>4 DEF Images
  <2>3. /\ answer' = [status      |-> IF succeeded THEN "200" ELSE "500",
                      severity    |-> final.severity,
                      escalated   |-> final.escalated,
                      recommended |-> Recommends(service, final.severity)]
        /\ sent' = {} \/ sent' = Emits(answer')
    BY <1>5 DEF Finishes
  <2>4. answer' \in Answer
    <3>1. final.severity \in Severities /\ final.escalated \in BOOLEAN
      BY EvaluatedFields
    <3>2. Recommends(service, final.severity) \in BOOLEAN
      BY DEF Recommends
    <3> HIDE DEF final
    <3> QED
      BY <2>3, <3>1, <3>2 DEF Answer
  <2>5. sent' \in SUBSET Metrics
    BY <2>3 DEF Emits, Metrics
  <2>6. forgiven' \in SUBSET Services
    BY <1>5 DEF Finishes
  <2> QED
    BY <1>2, <1>5, <2>1, <2>2, <2>4, <2>5, <2>6 DEF Finishes
<1>6. CASE ColdStart
  <2>1. 0 <= MaxFailures
    BY BoundsAssumption
  <2> QED
    BY <1>2, <1>6, <2>1, NothingType DEF ColdStart
<1>7. CASE Tick
  <2>1. stamps' = [s \in Services |-> Aging(stamps[s])]
    BY <1>7 DEF Tick, Aging
  <2>2. /\ stamps' \in [Services -> Lists]
        /\ \A s \in Services : Len(stamps'[s]) <= MaxFailures /\ InOrder(stamps'[s])
    BY <1>1, <2>1, AgesOlder
  <2> QED
    BY <1>1, <1>2, <1>7, <2>2 DEF Tick
<1>8. CASE UNCHANGED vars
  BY <1>8 DEF vars, ListsInOrder
<1> QED
  BY <1>3, <1>4, <1>5, <1>6, <1>7, <1>8 DEF Next

LEMMA TypeInit == Init => TypeInv
<1>1. 0 <= MaxFailures
  BY BoundsAssumption
<1> QED
  BY <1>1, NothingType DEF Init, TypeInv, TypeOK, ListsInOrder, Lists, Images

LEMMA TypeInvariant == Spec => []TypeInv
  BY TypeInit, TypeStep, PTL DEF Spec

\* Both dictionaries, the decision and the answer keep their types, and no
\* list outgrows its bound (smart_recovery_policy.py 84-102).
THEOREM TypeCorrect == Spec => []TypeOK
<1>1. TypeInv => TypeOK
  BY DEF TypeInv
<1> QED
  BY <1>1, TypeInvariant, PTL

-----------------------------------------------------------------------------
\* Starting over.

\* The failure of a service without timestamps counts as one.
LEMMA FirstFailure ==
    ASSUME NEW list \in Lists, Len(list) = 0, InOrder(list),
           NEW new, new = Pruned(Append(list, 0))
    PROVE  Len(new) = 1 /\ Counted(new, FiveMinutes) = 1
<1> DEFINE a == Append(list, 0)
<1>1. a \in Lists /\ InOrder(a) /\ 1 = Len(a) /\ a[1] = 0
  <2>1. 0 + 1 = 1
    OBVIOUS
  <2>2. a \in Lists /\ InOrder(a) /\ Len(a) = Len(list) + 1 /\ a[Len(list) + 1] = 0
    BY AppendedList
  <2>3. Len(a) = 0 + 1 /\ a[0 + 1] = 0
    BY <2>2
  <2> QED
    BY <2>1, <2>2, <2>3
<1> HIDE DEF a
<1>2. ASSUME NEW l \in Lists, InOrder(l), Len(l) = 1, l[1] = 0, NEW w \in Nat, 0 < w
      PROVE  Counted(l, w) = 1
  <2> DEFINE c == Counted(l, w)
  <2>1. c \in 0..Len(l) /\ \A i \in 1..Len(l) : l[i] < w <=> i > Len(l) - c
    BY <1>2, CountedNewest
  <2> HIDE DEF c
  <2>2. c \in 0..1 /\ \A i \in 1..1 : l[i] < w <=> i > 1 - c
    BY <1>2, <2>1
  <2>3. 1 \in 1..1 /\ l[1] < w
    BY <1>2
  <2>4. c = 1
    BY <2>2, <2>3
  <2> QED
    BY <2>4 DEF c
<1>3. 1 = Counted(a, TenMinutes) /\ new = Pruned(a)
  BY <1>1, <1>2, WindowAssumption DEF a
<1>4. new \in Lists /\ InOrder(new) /\ Len(new) = 1 /\ new[1] = a[1]
  <2>1. 1 \in 1..1 /\ 1 - 1 + 1 = 1
    OBVIOUS
  <2>2. /\ Pruned(a) \in Lists /\ InOrder(Pruned(a)) /\ Len(Pruned(a)) = 1
        /\ \A i \in 1..1 : Pruned(a)[i] = a[1 - 1 + i]
    <3> DEFINE M == Len(a)
               n == Counted(a, TenMinutes)
    <3>1. M = 1 /\ n = 1
      BY <1>1, <1>3
    <3>2. M = Len(a) /\ n = Counted(a, TenMinutes)
      OBVIOUS
    <3>3. a \in Lists /\ InOrder(a)
      BY <1>1
    <3> HIDE DEF M, n
    <3>4. /\ Pruned(a) \in Lists /\ InOrder(Pruned(a)) /\ Len(Pruned(a)) = n
          /\ \A i \in 1..n : Pruned(a)[i] = a[M - n + i]
      BY <3>2, <3>3, PrunedList
    <3> QED
      BY <3>1, <3>4
  <2> QED
    BY <1>3, <2>1, <2>2
<1>5. Counted(new, FiveMinutes) = 1
  BY <1>1, <1>2, <1>4, WindowAssumption
<1> QED
  BY <1>4, <1>5

\* Until its next failure is handled, a service that was forgiven has no timestamps.
OverInv ==
    /\ TypeInv
    /\ \A s \in forgiven : (phase = "calling" /\ service = s) \/ Len(stamps[s]) = 0
    /\ StartsOver

LEMMA OverStep == OverInv /\ [Next]_vars => OverInv'
<1> SUFFICES ASSUME OverInv, [Next]_vars PROVE OverInv'
  OBVIOUS
<1>1. TypeInv' /\ TypeInv
  BY TypeStep DEF OverInv
<1>2. /\ stamps \in [Services -> Lists] /\ service \in Services
      /\ forgiven \in SUBSET Services
      /\ \A s \in Services : InOrder(stamps[s])
      /\ \A s \in forgiven : (phase = "calling" /\ service = s) \/ Len(stamps[s]) = 0
  BY <1>1 DEF OverInv, TypeInv, TypeOK, ListsInOrder, Lists
<1>3. ASSUME NEW s \in Services, NEW type, Decides(s, type) PROVE OverInv'
  <2> DEFINE list == Pruned(Append(stamps[s], 0))
  <2>1. /\ phase = "idle" /\ phase' = "calling" /\ service' = s /\ forgiven' = forgiven
        /\ stamps' = [stamps EXCEPT ![s] = list]
        /\ decision' = Decided(list, type, Strategy[s])
    BY <1>3 DEF Decides
  <2>2. ASSUME s \in forgiven
        PROVE  decision'.severity = Overridden(Strategy[s], Rung(1, 1))
    <3>1. Len(list) = 1 /\ Counted(list, FiveMinutes) = 1
      BY <1>2, <2>1, <2>2, FirstFailure
    <3>2. decision'.severity
            = Overridden(Strategy[s], Rung(Counted(list, FiveMinutes), Len(list)))
      BY <2>1 DEF Decided
    <3> QED
      BY <3>1, <3>2
  <2>3. StartsOver'
    BY <2>1, <2>2 DEF StartsOver
  <2>4. \A r \in forgiven' : (phase' = "calling" /\ service' = r) \/ Len(stamps'[r]) = 0
    BY <1>2, <2>1
  <2> QED
    BY <1>1, <2>3, <2>4 DEF OverInv
<1>4. ASSUME NEW succeeded \in BOOLEAN, Finishes(succeeded) PROVE OverInv'
  <2>1. /\ phase = "calling" /\ phase' = "idle" /\ service' = service
        /\ stamps' = Forgets(service, decision, succeeded)
        /\ forgiven' = IF succeeded /\ decision.action = "enable_fallback"
                       THEN forgiven \cup {service} ELSE forgiven \ {service}
    BY <1>4 DEF Finishes
  <2>2. Len(<< >>) = 0
    BY EmptyList
  <2>3. ASSUME NEW r \in forgiven' PROVE Len(stamps'[r]) = 0
    <3>1. CASE r = service
      <4>1. stamps' = [stamps EXCEPT ![service] = << >>]
        BY <2>1, <2>3, <3>1 DEF Forgets, ClearsHistory
      <4> QED
        BY <1>2, <2>2, <3>1, <4>1
    <3>2. CASE r # service
      <4>1. r \in forgiven /\ Len(stamps[r]) = 0
        BY <1>2, <2>1, <2>3, <3>2
      <4>2. stamps'[r] = stamps[r]
        BY <1>2, <2>1, <3>2, <4>1 DEF Forgets
      <4> QED
        BY <4>1, <4>2
    <3> QED
      BY <3>1, <3>2
  <2>4. StartsOver'
    BY <2>1 DEF StartsOver
  <2> QED
    BY <1>1, <2>3, <2>4 DEF OverInv
<1>5. CASE ColdStart
  BY <1>1, <1>5 DEF ColdStart, OverInv, StartsOver
<1>6. CASE Tick
  <2>1. /\ stamps' = [s \in Services |-> Aging(stamps[s])]
        /\ UNCHANGED <<phase, service, decision, forgiven>>
    BY <1>6 DEF Tick, Aging
  <2>2. \A s \in Services : Len(stamps'[s]) = Len(stamps[s])
    BY <1>2, <2>1, AgesOlder
  <2>3. StartsOver'
    BY <2>1 DEF OverInv, StartsOver
  <2> QED
    BY <1>1, <1>2, <2>1, <2>2, <2>3 DEF OverInv
<1>7. CASE Refuses \/ UNCHANGED vars
  <2>1. UNCHANGED <<stamps, phase, service, decision, forgiven>>
    BY <1>7 DEF Refuses, vars
  <2> QED
    BY <1>1, <1>2, <2>1 DEF OverInv, StartsOver
<1> QED
  BY <1>3, <1>4, <1>5, <1>6, <1>7 DEF Next

\* After a successful fallback the next failure of a service is its first one,
\* whatever became of the other services of the environment in between
\* (smart_recovery_policy.py 73-81, 206-211).
THEOREM StartsOverHolds == Spec => []StartsOver
<1>1. Init => OverInv
  BY TypeInit DEF Init, OverInv, StartsOver
<1>2. OverInv => StartsOver
  BY DEF OverInv
<1> QED
  BY <1>1, <1>2, OverStep, PTL DEF Spec

-----------------------------------------------------------------------------
\* The lists implement the ladder.

Mapped == [s \in Services |-> Ages(stamps[s])]

LEMMA LadderInit == Init => Ladder!Init
<1> SUFFICES ASSUME Init PROVE Ladder!Init
  OBVIOUS
<1>1. \A s \in Services : Ages(stamps[s]) = NoFailures
  BY NothingType, AgesType DEF Init
<1>2. Rung(decision.count5, decision.count10) = "LOW"
  BY CountAssumption DEF Init, NoDecision, Rung
<1> QED
  BY <1>1, <1>2 DEF Ladder!Init, Ladder!NoFailures, NoFailures

LEMMA LadderStep == TypeInv /\ [Next]_vars => [Ladder!Next]_(Ladder!vars)
<1> DEFINE rungNow == Rung(decision.count5, decision.count10)
<1> SUFFICES ASSUME TypeInv, [Next]_vars PROVE [Ladder!Next]_(Ladder!vars)
  OBVIOUS
<1>1. /\ stamps \in [Services -> Lists] /\ service \in Services
      /\ \A s \in Services : InOrder(stamps[s])
  BY DEF TypeInv, TypeOK, ListsInOrder, Lists
<1>2. /\ \A h : /\ Ladder!Recorded(h) = Recorded(h) /\ Ladder!Older(h) = Older(h)
                /\ Ladder!Severity(h) = Severity(h)
      /\ Ladder!NoFailures = NoFailures
  BY DEF Ladder!Recorded, Recorded, Ladder!Older, Older, Ladder!NoFailures, NoFailures,
         Ladder!Severity, Severity, Ladder!AtLeast, AtLeast
<1>3. ASSUME NEW s \in Services, NEW type, Decides(s, type) PROVE Ladder!Fail(s)
  <2> DEFINE list == Pruned(Append(stamps[s], 0))
  <2>1. /\ stamps' = [stamps EXCEPT ![s] = list]
        /\ decision' = Decided(list, type, Strategy[s])
    BY <1>3 DEF Decides
  <2>2. /\ list \in Lists /\ InOrder(list) /\ \A i \in 1..Len(list) : list[i] < TenMinutes
        /\ Ages(list) = Recorded(Ages(stamps[s]))
    BY <1>1, AppendedList, PrunedList, AgesRecorded
  <2>3. decision'.count5 = Counted(list, FiveMinutes) /\ decision'.count10 = Len(list)
    BY <2>1 DEF Decided
  <2>4. Rung(Counted(list, FiveMinutes), Len(list)) = Severity(Recorded(Ages(stamps[s])))
    BY <2>2, RungOfAges
  <2>5. rungNow' = Severity(Recorded(Ages(stamps[s])))
    BY <2>3, <2>4
  <2>6. Mapped' = [Mapped EXCEPT ![s] = Recorded(Mapped[s])]
    <3> HIDE DEF list
    <3> QED
      BY <1>1, <2>1, <2>2 DEF Mapped
  <2>7. Mapped[s] = Ages(stamps[s])
    BY DEF Mapped
  <2> QED
    BY <1>2, <2>5, <2>6, <2>7 DEF Ladder!Fail, Mapped
<1>4. ASSUME NEW succeeded \in BOOLEAN, Finishes(succeeded)
      PROVE  Ladder!Forgive(service) \/ UNCHANGED Ladder!vars
  <2>1. decision' = decision /\ stamps' = Forgets(service, decision, succeeded)
    BY <1>4 DEF Finishes
  <2>2. CASE stamps' = stamps
    BY <2>1, <2>2 DEF Ladder!vars
  <2>3. CASE stamps' = [stamps EXCEPT ![service] = << >>]
    <3>1. Mapped' = [Mapped EXCEPT ![service] = NoFailures]
      BY <1>1, <2>3, EmptyList, AgesType DEF Mapped
    <3> QED
      BY <1>2, <2>1, <3>1 DEF Ladder!Forgive, Mapped
  <2> QED
    BY <2>1, <2>2, <2>3 DEF Forgets
<1>5. ASSUME ColdStart PROVE Ladder!Forget
  <2>1. \A s \in Services : Ages(stamps'[s]) = NoFailures
    BY <1>5, NothingType, AgesType DEF ColdStart
  <2>2. rungNow' = "LOW"
    BY <1>5, CountAssumption DEF ColdStart, NoDecision, Rung
  <2> QED
    BY <1>2, <2>1, <2>2 DEF Ladder!Forget
<1>6. ASSUME Tick PROVE Ladder!Pass
  <2>1. stamps' = [s \in Services |-> Aging(stamps[s])] /\ decision' = decision
    BY <1>6 DEF Tick, Aging
  <2>2. \A s \in Services : Ages(stamps'[s]) = Older(Mapped[s])
    BY <1>1, <2>1, AgesOlder DEF Mapped
  <2> QED
    BY <1>2, <2>1, <2>2 DEF Ladder!Pass, Mapped
<1>7. ASSUME Refuses \/ UNCHANGED vars PROVE UNCHANGED Ladder!vars
  BY <1>7 DEF Refuses, vars, Ladder!vars
<1> QED
  BY <1>1, <1>3, <1>4, <1>5, <1>6, <1>7 DEF Next, Ladder!Next

\* The lists of timestamps, appended to, pruned and counted, put every failure
\* of every service on the rung that the ages of RecoveryPolicy put it on: what
\* is checked and proved of Recovery and SelfHealing holds of the lists
\* (smart_recovery_policy.py 66-102, 141-162).
THEOREM LadderImplemented == Spec => ListsClimbTheLadder
  BY LadderInit, LadderStep, TypeInvariant, PTL DEF Spec, ListsClimbTheLadder, Ladder!Spec
=============================================================================
