----------------------------- MODULE MCProgress -----------------------------
(***************************************************************************)
(* Instances for TLC of two components in which something must happen in   *)
(* the end: the delivery of events to the workflow, and the client of the  *)
(* sandbox control API.  They share no state: a behaviour is one of one of *)
(* them, `part`, while the other stays as it starts.                       *)
(***************************************************************************)
EXTENDS Orchestration, ControlClient

VARIABLE part

progressVars == <<allVars, clientVars, part>>

ProgressInit == part \in {"delivery", "client"} /\ OrchestrationInit /\ ClientInit

Delivers == part = "delivery" /\ UNCHANGED <<clientVars, part>>
Calls == part = "client" /\ UNCHANGED <<allVars, part>>

ProgressNext == (Delivers /\ OrchestrationNext) \/ (Calls /\ ClientNext)

\* The fairness of Orchestration and of ControlClient, each in its part.
ProgressFairness ==
    /\ \A p \in Publisher : WF_progressVars(Delivers /\ PublisherStep(p))
    /\ WF_progressVars(Delivers /\ \E i \in Record : AbandonedClaimExpires(i))
    /\ WF_progressVars(Delivers /\ WorkflowStep)
    /\ \A t \in Thread :
          /\ WF_progressVars(Calls /\ SendRequest(t))
          /\ WF_progressVars(Calls /\ finishAttempt(t))
          /\ WF_progressVars(Calls /\ \E failed \in BOOLEAN : applyAuthorization(t, failed))
    /\ \A x \in Closer : WF_progressVars(Calls /\ CloseReturns(x))

ProgressSpec == ProgressInit /\ [][ProgressNext]_progressVars /\ ProgressFairness

\* Two Turns without a fault, or one Turn with faults.  Only an admission and a
\* fault leave the scope, and neither is subject to fairness: every behaviour that
\* stays inside can go on as fairly as before.
ProgressScope ==
    part = "delivery" => faults = 0 \/ \A t \in Turn : t > 1 => turn[t] = "none"

\* Every command is bound to the versions it finds: they guard nothing here.
ProgressView == <<OrchestrationView, clientVars, part>>


\* A caller that waits in Close is not left there by calls that began before it
\* (Close, finishAttempt).
ClosersReturn == part = "client" => CloseIsServed
=============================================================================
