----------------------------- MODULE AgentSpec -----------------------------
(***************************************************************************)
(* What recovery-agent promises to those who post actions, whatever it     *)
(* does with files, metrics and docker in between: an action is carried    *)
(* out at most once per request and never for a service that is not        *)
(* allowed; a caller told of success is told the truth; a caller told of   *)
(* failure, or not answered at all, learns nothing, since the command may  *)
(* have taken effect or may still do so.                                   *)
(***************************************************************************)
CONSTANTS
    Requests,   \* POST /action, one by one
    Services,
    Allowed     \* allowed_services

VARIABLES
    told,      \* where each request stands with its caller
    target,    \* the service it names
    carried    \* requests whose docker command has taken effect

vars == <<told, target, carried>>

Init ==
    /\ told = [r \in Requests |-> "unasked"]
    /\ target \in [Requests -> Services]
    /\ carried = {}

Ask(r) ==
    /\ told[r] = "unasked"
    /\ told' = [told EXCEPT ![r] = "asked"]
    /\ UNCHANGED <<target, carried>>

CarryOut(r) ==
    /\ told[r] \in {"asked", "failure", "lost"}
    /\ target[r] \in Allowed
    /\ r \notin carried
    /\ carried' = carried \cup {r}
    /\ UNCHANGED <<told, target>>

Tell(r, verdict) ==
    /\ told[r] = "asked"
    /\ \/ verdict = "success"   /\ r \in carried
       \/ verdict = "failure"   /\ target[r] \in Allowed
       \/ verdict = "forbidden" /\ target[r] \notin Allowed
    /\ told' = [told EXCEPT ![r] = verdict]
    /\ UNCHANGED <<target, carried>>

\* The process dies with everything it was asked.
Die ==
    /\ told' = [r \in Requests |-> IF told[r] = "asked" THEN "lost" ELSE told[r]]
    /\ UNCHANGED <<target, carried>>

Next ==
    \/ \E r \in Requests : Ask(r) \/ CarryOut(r)
    \/ \E r \in Requests, verdict \in {"success", "failure", "forbidden"} : Tell(r, verdict)
    \/ Die

Spec == Init /\ [][Next]_vars
=============================================================================
