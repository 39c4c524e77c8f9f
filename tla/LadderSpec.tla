----------------------------- MODULE LadderSpec -----------------------------
(***************************************************************************)
(* What the severity ladder of a warm Lambda environment promises, service *)
(* by service, with the ages of RecoveryPolicy for a memory: a failure     *)
(* climbs to the rung that the recent failures call for, success of the    *)
(* fallback starts it over, and a cold start forgets everything.           *)
(***************************************************************************)
EXTENDS RecoveryPolicy

CONSTANT Services

VARIABLES
    ladder,   \* ages of the recent failures of each service
    rung      \* severity of the failure that was reported last

vars == <<ladder, rung>>

Init ==
    /\ ladder = [s \in Services |-> NoFailures]
    /\ rung = "LOW"

Fail(s) ==
    /\ ladder' = [ladder EXCEPT ![s] = Recorded(@)]
    /\ rung' = Severity(Recorded(ladder[s]))

Forgive(s) ==
    /\ ladder' = [ladder EXCEPT ![s] = NoFailures]
    /\ UNCHANGED rung

Forget ==
    /\ ladder' = [s \in Services |-> NoFailures]
    /\ rung' = "LOW"

Pass ==
    /\ ladder' = [s \in Services |-> Older(ladder[s])]
    /\ UNCHANGED rung

Next == (\E s \in Services : Fail(s) \/ Forgive(s)) \/ Forget \/ Pass

Spec == Init /\ [][Next]_vars
=============================================================================
