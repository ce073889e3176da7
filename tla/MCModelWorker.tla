--------------------------- MODULE MCModelWorker ----------------------------
(***************************************************************************)
(* Instances of ModelWorker for TLC. In the part "race" all workers race   *)
(* for the invocations of one Turn; in the part "progress" one worker      *)
(* serves two Turns and no tool is asked for.                              *)
(***************************************************************************)
EXTENDS ModelWorker, TLC

CONSTANTS Lone,           \* the worker of the part "progress"
          ProgressFaults  \* its bound on faults

VARIABLE part

partVars == <<allVars, part>>

InPart ==
    IF part = "race" THEN \A t \in Turn : t > 1 => turn'[t] = "none"
    ELSE /\ \A w \in Worker \ {Lone} : pc'[w] = pc[w]
         /\ \A k \in Key : provider'[k] # "tool"
         /\ faults' <= ProgressFaults

\* The policy matters to tool requests only.
PartInit ==
    /\ ModelInit
    /\ part \in {"race", "progress"}
    /\ part = "progress" => requiresApproval = TRUE

PartNext == ModelNext /\ InPart /\ UNCHANGED part

\* The fairness of FairModelSpec, for the worker there is.
ProgressFairness ==
    /\ WF_partVars(part = "progress" /\ WorkerStep(Lone) /\ UNCHANGED part)
    /\ \A k \in Key :
          /\ SF_partVars(part = "progress" /\ ClaimRecord(Lone, k) /\ UNCHANGED part)
          /\ WF_partVars(part = "progress" /\ AbandonedClaimExpires(k) /\ UNCHANGED part)
          /\ WF_partVars(part = "progress" /\ Finish(k) /\ InPart /\ UNCHANGED part)

PartSpec == PartInit /\ [][PartNext]_partVars /\ ProgressFairness

\* The part "progress" is about what eventually happens.
AnswersAreRecorded == part = "progress" => AnswerIsRecorded

\* Events are appended by every command and guard nothing.
ModelView ==
    <<session, sessionVersion, turn, turnVersion, invocation, toolIntent, approval, overdue,
      grant, outbox, requiresApproval, receipt, workerVars, holder, provider, invoked, faults, part>>
=============================================================================
