----------------------------- MODULE ToolWorker -----------------------------
(***************************************************************************)
(* internal/runtimetool composed with the state authority: workers that    *)
(* scan the outbox of a tenant, turn approved grants into tool executions, *)
(* lease the execution record, submit the external effect or reconcile it, *)
(* record its outcome and settle the Turn.                                 *)
(*                                                                         *)
(* Every load-plan-persist of a worker is one step of RuntimeState; what   *)
(* the worker carries from one to the next (the page it scanned, the lease *)
(* it holds, the answer of the adapter, the versions it settles with) is   *)
(* its own.  A command the planner refuses ends the scan.  A worker may    *)
(* also stop anywhere: a crash, a lost context and a failing store or      *)
(* content read all leave the durable state as it is and drop the rest.    *)
(*                                                                         *)
(* An execution has the identifier of its grant (op_tool_<grant>) and one  *)
(* outbox record.  The adapter and the system behind it are external: an   *)
(* operation that is submitted runs and ends once per OperationID.         *)
(***************************************************************************)
EXTENDS RuntimeState, Outbox

CONSTANTS
    Worker,       \* replicas of the tool worker
    MaxFaults,    \* bound on the stops of workers and on leases lost while held
    MaxRenewals   \* bound on the renewals of a lease

ASSUME ToolWorkerAssumption ==
    /\ MaxOperations = MaxApprovals
    /\ MaxFaults \in Nat
    /\ MaxRenewals \in Nat
    /\ 0 \notin Worker

VARIABLES
    outbox,       \* the outbox record of every execution
    failure,      \* the Failure of every execution record
    pc,           \* where each worker is in ScanOnce
    page,         \* the state of the records in the page it read
    lease,        \* its toolClaimLease, and what process carries
    holder,       \* the worker whose claim of the record is the latest
    effect,       \* the external operation
    submitted,    \* the times it was submitted
    faults,
    renewals

workerVars == <<pc, page, lease>>
externalVars == <<effect, submitted>>
bounds == <<faults, renewals>>
allVars == <<vars, outbox, failure, workerVars, holder, externalVars, bounds>>

Answer == {"none", "succeeded", "failed", "uncertain", "refused", "descriptor", "oversize"}
Phase == {"idle", "admit", "consume", "begin", "read", "scan", "process", "dispatch",
          "wait", "register", "outcome", "settle", "acknowledge"}

\* No operation leased.  op is also the grant while a grant is being admitted.
NoLease == [op |-> 0, version |-> 0, renewing |-> FALSE, lost |-> FALSE, recover |-> FALSE,
            answer |-> "none", sessionVersion |-> 0, turnVersion |-> 0]

\* The phases during which the renewal loop of the lease runs.
Leased == {"process", "dispatch", "wait", "register", "outcome", "settle", "acknowledge"}

InitWorkers ==
    /\ outbox = [o \in Operation |-> NoRecord]
    /\ failure = [o \in Operation |-> "none"]
    /\ pc = [w \in Worker |-> "idle"]
    /\ page = [w \in Worker |-> [o \in Operation |-> "none"]]
    /\ lease = [w \in Worker |-> NoLease]
    /\ holder = [o \in Operation |-> 0]
    /\ effect = [o \in Operation |-> "none"]
    /\ submitted = [o \in Operation |-> 0]
    /\ faults = 0
    /\ renewals = 0

ToolInit == Init /\ InitWorkers

(***************************************************************************)
(* The worker's control.                                                   *)
(***************************************************************************)
Goto(w, phase) == pc' = [pc EXCEPT ![w] = phase]

\* ScanOnce returns: page, lease and answer are gone.
Return(w) ==
    /\ Goto(w, "idle")
    /\ page' = [page EXCEPT ![w] = [o \in Operation |-> "none"]]
    /\ lease' = [lease EXCEPT ![w] = NoLease]

TurnOf(o) == approval[execution[o].grant].turn

\* retireExpiredGrants: one overdue grant, if there is one.
Retire(w) ==
    /\ pc[w] = "idle"
    /\ LET due == {g \in Approval : grant[g].issued /\ ~grant[g].revoked /\ g \in overdue}
       IN \/ due = {} /\ UNCHANGED vars
          \/ \E g \in due : ExpireGrant(g)
    /\ Goto(w, "admit")
    /\ UNCHANGED <<outbox, failure, page, lease, holder, externalVars, bounds>>

Admissible(g) ==
    /\ grant[g].issued
    /\ ~grant[g].revoked
    /\ g \notin overdue
    /\ \A o \in Operation : execution[o].grant # g
    /\ approval[g].state = "approved"
    /\ turn[approval[g].turn] = "running"

\* admitApprovedGrants up to its first command: one grant at most per scan,
\* chosen from the state the worker loaded.
AdmitGrant(w) ==
    /\ pc[w] = "admit"
    /\ \/ /\ \A g \in Approval : ~Admissible(g)
          /\ Goto(w, "read")
          /\ UNCHANGED lease
       \/ \E g \in Approval :
             /\ Admissible(g)
             /\ Goto(w, IF grant[g].uses = 0 THEN "consume" ELSE "begin")
             /\ lease' = [lease EXCEPT ![w].op = g]
    /\ UNCHANGED <<vars, outbox, failure, page, holder, externalVars, bounds>>

\* ConsumeCapabilityGrant under the key tool-consume-<grant>: once the grant
\* was consumed the receipt is replayed.
Consume(w) ==
    LET g == lease[w].op
    IN /\ pc[w] = "consume"
       /\ \/ /\ grant[g].uses # 0
             /\ Goto(w, "begin")
             /\ UNCHANGED <<vars, page, lease>>
          \/ /\ grant[g].uses = 0
             /\ ConsumeGrant(g)
             /\ Goto(w, "begin")
             /\ UNCHANGED <<page, lease>>
          \/ /\ grant[g].uses = 0
             /\ turn[approval[g].turn] # "running" \/ grant[g].revoked \/ g \in overdue
             /\ Return(w)
             /\ UNCHANGED vars
       /\ UNCHANGED <<outbox, failure, holder, externalVars, bounds>>

\* BeginToolExecution under the key tool-begin-<grant>: the intent and its
\* outbox record commit together, and a second attempt replays the receipt.
BeginExecution(w) ==
    LET g == lease[w].op
    IN /\ pc[w] = "begin"
       /\ \/ /\ execution[g].state # "none"
             /\ Goto(w, "read")
             /\ lease' = [lease EXCEPT ![w] = NoLease]
             /\ UNCHANGED <<vars, outbox, page>>
          \/ /\ BeginToolExecution(g, g)
             /\ outbox' = [outbox EXCEPT ![g] = NewRecord]
             /\ Goto(w, "read")
             /\ lease' = [lease EXCEPT ![w] = NoLease]
             /\ UNCHANGED page
          \/ /\ execution[g].state = "none"
             /\ turn[approval[g].turn] # "running" \/ g \in overdue
             /\ Return(w)
             /\ UNCHANGED <<vars, outbox>>
       /\ UNCHANGED <<failure, holder, externalVars, bounds>>

\* ReadOutbox: a page with copies of the records that are not published.
ReadPage(w) ==
    /\ pc[w] = "read"
    /\ page' = [page EXCEPT ![w] = [o \in Operation |->
                  IF outbox[o].state \in {"pending", "claimed"} THEN outbox[o].state ELSE "none"]]
    /\ Goto(w, "scan")
    /\ UNCHANGED <<vars, outbox, failure, lease, holder, externalVars, bounds>>

Remaining(w) == {o \in Operation : page[w][o] # "none"}

\* The next record of the page is claimed at the version it has by now.  Whether
\* the claim recovers an earlier one is decided from the copy in the page.
ClaimRecord(w, o) ==
    /\ pc[w] = "scan"
    /\ o \in Remaining(w)
    /\ Claimable(outbox[o])
    /\ outbox' = [outbox EXCEPT ![o] = Claim(@)]
    /\ holder' = [holder EXCEPT ![o] = w]
    /\ lease' = [lease EXCEPT ![w] = [NoLease EXCEPT !.op = o, !.version = outbox[o].version + 1,
                                                     !.recover = page[w][o] = "claimed"]]
    /\ page' = [page EXCEPT ![w][o] = "none"]
    /\ Goto(w, "process")
    /\ UNCHANGED <<vars, failure, externalVars, bounds>>

\* A record under a live claim is passed over when the copy in the page shows
\* the claim, and ends the scan when it does not.
PassOver(w, o) ==
    /\ pc[w] = "scan"
    /\ o \in Remaining(w)
    /\ ~Claimable(outbox[o])
    /\ \/ /\ page[w][o] = "claimed"
          /\ page' = [page EXCEPT ![w][o] = "none"]
          /\ UNCHANGED <<pc, lease>>
       \/ Return(w)
    /\ UNCHANGED <<vars, outbox, failure, holder, externalVars, bounds>>

EndScan(w) ==
    /\ pc[w] = "scan"
    /\ Remaining(w) = {}
    /\ Return(w)
    /\ UNCHANGED <<vars, outbox, failure, holder, externalVars, bounds>>

(***************************************************************************)
(* process: one leased record.                                             *)
(***************************************************************************)
Fenced(w) ==
    /\ ~lease[w].lost
    /\ LeaseFenceCurrent(outbox[lease[w].op], lease[w].version)

\* executionDispatchAllowed, on the state loaded by process.
DispatchAllowed(o) ==
    /\ turn[TurnOf(o)] = "running"
    /\ ~grant[execution[o].grant].revoked
    /\ execution[o].grant \notin overdue

\* process loads the state: an execution that has an outcome is acknowledged,
\* one without authority is refused, and the others are dispatched.
Process(w) ==
    /\ pc[w] = "process"
    /\ LET o == lease[w].op
       IN \/ /\ execution[o].state # "intent"
             /\ Goto(w, "acknowledge")
             /\ UNCHANGED lease
          \/ /\ execution[o].state = "intent"
             /\ ~DispatchAllowed(o)
             /\ Goto(w, "outcome")
             /\ lease' = [lease EXCEPT ![w].answer = "refused"]
          \/ /\ execution[o].state = "intent"
             /\ DispatchAllowed(o)
             /\ Goto(w, "dispatch")
             /\ UNCHANGED lease
    /\ UNCHANGED <<vars, outbox, failure, page, holder, externalVars, bounds>>

Answered(w, answer, phase) ==
    /\ lease' = [lease EXCEPT ![w].answer = answer]
    /\ Goto(w, phase)

\* recordDescriptorFailure: the descriptor is missing or does not verify.
DescriptorInvalid(w) ==
    /\ pc[w] = "dispatch"
    /\ Answered(w, "descriptor", "outcome")
    /\ UNCHANGED <<vars, outbox, failure, page, holder, externalVars, bounds>>

\* Execute submits the operation.  A lost lease cancels the context of the
\* adapter, which a submission on its way does not notice.
Execute(w) ==
    /\ pc[w] = "dispatch"
    /\ ~lease[w].recover
    /\ submitted' = [submitted EXCEPT ![lease[w].op] = @ + 1]
    /\ effect' = [effect EXCEPT ![lease[w].op] = IF @ = "none" THEN "running" ELSE @]
    /\ Goto(w, "wait")
    /\ UNCHANGED <<vars, outbox, failure, page, lease, holder, bounds>>

\* Reconcile only asks for the operation.
Reconcile(w) ==
    /\ pc[w] = "dispatch"
    /\ lease[w].recover
    /\ Goto(w, "wait")
    /\ UNCHANGED <<vars, outbox, failure, page, lease, holder, externalVars, bounds>>

\* A response that takes an operation still running for a finished one.
ResponsesHasty(o) ==
    CASE effect[o] = "failed" -> {"failed", "uncertain"}
      [] OTHER -> {"succeeded", "uncertain"}

\* What the adapter may answer: an error of any kind is uncertain, Execute waits
\* for the end of the operation and Reconcile does not.
Responses(o) ==
    CASE effect[o] = "succeeded" -> {"succeeded", "oversize", "uncertain"}
      [] effect[o] = "failed" -> {"failed", "uncertain"}
      [] OTHER -> {"uncertain"}

\* The adapter returns; a lost lease ends the scan here.
Respond(w) ==
    /\ pc[w] = "wait"
    /\ \/ /\ lease[w].lost
          /\ Return(w)
       \/ /\ ~lease[w].lost
          /\ \E answer \in Responses(lease[w].op) :
                Answered(w, answer, IF answer = "succeeded" THEN "register" ELSE "outcome")
          /\ UNCHANGED page
    /\ UNCHANGED <<vars, outbox, failure, holder, externalVars, bounds>>

\* RegisterArtifact under the fence: the output that cannot be registered makes
\* the outcome uncertain.
Register(w) ==
    /\ pc[w] = "register"
    /\ \/ Fenced(w) /\ Goto(w, "outcome") /\ UNCHANGED lease
       \/ Answered(w, "uncertain", "outcome")
    /\ UNCHANGED <<vars, outbox, failure, page, holder, externalVars, bounds>>

OutcomeOf(answer) == IF answer \in {"succeeded", "uncertain"} THEN answer ELSE "failed"

\* The first half of recordToolOutcomeAndSettle.  The versions for the second
\* half are those of the state this one commits.
RecordOutcomeFenced(w) ==
    LET o == lease[w].op
    IN /\ pc[w] = "outcome"
       /\ Fenced(w)
       /\ RecordToolOutcome(o, OutcomeOf(lease[w].answer))
       /\ failure' = [failure EXCEPT ![o] = IF lease[w].answer = "succeeded" THEN "none"
                                                                              ELSE lease[w].answer]
       /\ IF turn[TurnOf(o)] = "running"
          THEN /\ Goto(w, "settle")
               /\ lease' = [lease EXCEPT ![w].sessionVersion = sessionVersion,
                                         ![w].turnVersion = turnVersion[TurnOf(o)]]
          ELSE Goto(w, "acknowledge") /\ UNCHANGED lease
       /\ UNCHANGED <<outbox, page, holder, externalVars, bounds>>

\* The second half: SettleTurn at the versions of the first.
SettleFenced(w) ==
    LET o == lease[w].op
    IN /\ pc[w] = "settle"
       /\ Fenced(w)
       /\ Settle(TurnOf(o), lease[w].sessionVersion, lease[w].turnVersion, 0,
                 IF lease[w].answer = "succeeded" THEN "succeeded" ELSE "failed")
       /\ Goto(w, "acknowledge")
       /\ UNCHANGED <<outbox, failure, page, lease, holder, externalVars, bounds>>

\* The fence does not hold, or the Session or the Turn has moved on: all
\* attempts of persistFenced are refused.
FencedRefused(w) ==
    LET o == lease[w].op
    IN /\ \/ pc[w] = "outcome" /\ (~Fenced(w) \/ execution[o].state # "intent")
          \/ pc[w] = "settle" /\ (\/ ~Fenced(w)
                                  \/ lease[w].sessionVersion # sessionVersion
                                  \/ lease[w].turnVersion # turnVersion[TurnOf(o)])
       /\ Return(w)
       /\ UNCHANGED <<vars, outbox, failure, holder, externalVars, bounds>>

\* acknowledge stops the renewals and publishes the claim it holds, if it still
\* does.  A settled record leaves the worker with the rest of its page.
AcknowledgeRecord(w) ==
    LET o == lease[w].op
    IN /\ pc[w] = "acknowledge"
       /\ ~lease[w].renewing
       /\ IF Fenced(w)
          THEN /\ outbox' = [outbox EXCEPT ![o] = Acknowledge(@)]
               /\ Goto(w, "scan")
               /\ lease' = [lease EXCEPT ![w] = NoLease]
               /\ UNCHANGED page
          ELSE Return(w) /\ UNCHANGED outbox
       /\ UNCHANGED <<vars, failure, holder, externalVars, bounds>>

(***************************************************************************)
(* The renewal loop, the clock, the external system and faults.            *)
(***************************************************************************)
\* renew persists the renewal first ...
RenewLease(w) ==
    LET o == lease[w].op
    IN /\ pc[w] \in Leased
       /\ ~lease[w].renewing
       /\ ~lease[w].lost
       /\ renewals < MaxRenewals
       /\ renewals' = renewals + 1
       /\ IF LeaseFenceCurrent(outbox[o], lease[w].version)
          THEN /\ outbox' = [outbox EXCEPT ![o] = Renew(@)]
               /\ lease' = [lease EXCEPT ![w].renewing = TRUE]
          ELSE /\ lease' = [lease EXCEPT ![w].lost = TRUE]
               /\ UNCHANGED outbox
       /\ UNCHANGED <<vars, failure, pc, page, holder, externalVars, faults>>

\* ... and then replaces the record in memory.
RenewInMemory(w) ==
    /\ lease[w].renewing
    /\ lease' = [lease EXCEPT ![w].renewing = FALSE, ![w].version = @ + 1]
    /\ UNCHANGED <<vars, outbox, failure, pc, page, holder, externalVars, bounds>>

Held(o) == \E w \in Worker : pc[w] \in Leased /\ lease[w].op = o /\ holder[o] = w

\* The lease of a worker that is gone runs out.
AbandonedLeaseExpires(o) ==
    /\ outbox[o].state = "claimed"
    /\ ~outbox[o].expired
    /\ ~Held(o)
    /\ outbox' = [outbox EXCEPT ![o] = Expire(@)]
    /\ UNCHANGED <<vars, failure, workerVars, holder, externalVars, bounds>>

\* The renewals of a worker that holds the lease come too late.
HeldLeaseExpires(o) ==
    /\ outbox[o].state = "claimed"
    /\ ~outbox[o].expired
    /\ Held(o)
    /\ faults < MaxFaults
    /\ faults' = faults + 1
    /\ outbox' = [outbox EXCEPT ![o] = Expire(@)]
    /\ UNCHANGED <<vars, failure, workerVars, holder, externalVars, renewals>>

\* The external operation ends.
Finish(o) ==
    /\ effect[o] = "running"
    /\ \E end \in {"succeeded", "failed"} : effect' = [effect EXCEPT ![o] = end]
    /\ UNCHANGED <<vars, outbox, failure, workerVars, holder, submitted, bounds>>

\* The worker stops, or a store or content read fails and ScanOnce returns.
Stop(w) ==
    /\ pc[w] # "idle"
    /\ faults < MaxFaults
    /\ faults' = faults + 1
    /\ Return(w)
    /\ UNCHANGED <<vars, outbox, failure, holder, externalVars, renewals>>

\* What the API, the model worker and the clock do meanwhile: the commands that
\* reach a Turn with a tool call, and the Inputs that move the Session along.
Environment ==
    /\ \/ \E t \in Turn : Admit(t) \/ Cancel(t)
       \/ \E a \in Approval, t \in Turn, c \in ToolCall, p \in Policy : AdmitToolApproval(a, t, c, p)
       \/ \E a \in Approval : DeadlinePasses(a) \/ RevokeGrant(a) \/ DecideApproval(a, "approved")
    /\ UNCHANGED <<outbox, failure, workerVars, holder, externalVars, bounds>>

WorkerStep(w) ==
    \/ Retire(w) \/ AdmitGrant(w) \/ Consume(w) \/ BeginExecution(w) \/ ReadPage(w)
    \/ \E o \in Operation : ClaimRecord(w, o) \/ PassOver(w, o)
    \/ EndScan(w) \/ Process(w) \/ DescriptorInvalid(w) \/ Execute(w) \/ Reconcile(w)
    \/ Respond(w) \/ Register(w) \/ RecordOutcomeFenced(w) \/ SettleFenced(w)
    \/ FencedRefused(w) \/ AcknowledgeRecord(w)

ToolNext ==
    \/ Environment
    \/ \E w \in Worker : WorkerStep(w) \/ RenewLease(w) \/ RenewInMemory(w) \/ Stop(w)
    \/ \E o \in Operation : AbandonedLeaseExpires(o) \/ HeldLeaseExpires(o) \/ Finish(o)

ToolSpec == ToolInit /\ [][ToolNext]_allVars

\* Each worker process keeps scanning and its renewal loop keeps running, an
\* abandoned lease runs out, and a submitted operation ends.  Which command
\* comes next, and every fault, is left to chance.
ToolFairness ==
    /\ \A w \in Worker : WF_allVars(WorkerStep(w)) /\ WF_allVars(RenewInMemory(w))
    /\ \A o \in Operation : WF_allVars(AbandonedLeaseExpires(o)) /\ WF_allVars(Finish(o))

FairToolSpec == ToolSpec /\ ToolFairness

(***************************************************************************)
(* Properties.                                                             *)
(***************************************************************************)
\* Every variable has the type of what it stands for.
ToolTypeOK ==
    /\ RecordsOK
    /\ outbox \in [Operation -> OutboxRecord]
    /\ failure \in [Operation -> Answer]
    /\ pc \in [Worker -> Phase]
    /\ page \in [Worker -> [Operation -> {"none", "pending", "claimed"}]]
    /\ lease \in [Worker -> [op : Approval \cup {0}, version : Nat, renewing : BOOLEAN,
                            lost : BOOLEAN, recover : BOOLEAN, answer : Answer,
                            sessionVersion : Nat, turnVersion : Nat]]
    /\ holder \in [Operation -> Worker \cup {0}]
    /\ effect \in [Operation -> {"none", "running", "succeeded", "failed"}]
    /\ submitted \in [Operation -> Nat]

\* A success in the durable record is a success of the external operation,
\* whichever worker recorded it and however often leases were lost: an answer
\* that is not known is never upgraded.
SucceededIsReal ==
    \A o \in Operation : execution[o].state = "succeeded" => effect[o] = "succeeded"

\* No operation is dropped: the record of an execution is published only after
\* the execution has its outcome, so a worker that stops in between leaves work
\* that another one finds.
PublishedIsDecided ==
    \A o \in Operation : outbox[o].state = "published" => execution[o].state # "intent"

\* Workers racing to admit one approved grant use it once, whatever MaximumUses
\* allows: the idempotency key is derived from the grant.
GrantConsumedOnce == \A g \in Approval : grant[g].uses <= 1

\* A stale claimant never finalizes: the outcome of an execution and the
\* publication of its record come from the worker whose claim is the latest.
LatestClaimantFinalizes ==
    [][\A o \in Operation :
          (execution'[o].state # execution[o].state /\ execution[o].state = "intent")
          \/ (outbox[o].state = "claimed" /\ outbox'[o].state = "published")
          => holder[o] # 0 /\ lease[holder[o]].op = o /\ pc'[holder[o]] # pc[holder[o]]]_allVars

\* A committed intent is eventually decided, through stops, lost leases and
\* withdrawn authority, as long as workers keep scanning.
IntentIsDecided ==
    \A o \in Operation : execution[o].state = "intent" ~> execution[o].state # "intent"

(***************************************************************************)
(* What the documents say and the worker does not guarantee.               *)
(***************************************************************************)
\* A superseded claim is reconciled under the same OperationID, never
\* submitted again.
NeverResubmitted == \A o \in Operation : submitted[o] <= 1

\* A failed execution is one whose operation ended in failure; what recovery
\* cannot prove is uncertain.  An execution that was refused was not submitted.
RefusedWasNotSubmitted ==
    \A o \in Operation : failure[o] = "refused" => submitted[o] = 0

\* A completed Tool does not leave the Turn running: when the record of the
\* execution is published, its Turn has been settled.
PublishedIsSettled ==
    \A o \in Operation : outbox[o].state = "published" => turn[TurnOf(o)] # "running"

\* An execution's end is earned: a recorded success is the adapter's (finalize), nothing
\* is acknowledged undecided (process) and one approval pays for one execution
\* (consumeAndBegin).
ExecutionIsEarned == SucceededIsReal /\ PublishedIsDecided /\ GrantConsumedOnce

\* What tells two states apart for TLC: events are appended by every command and guard
\* nothing.
ToolView ==
    <<session, sessionVersion, turn, turnVersion, toolIntent, approval, overdue, grant,
      execution, outbox, failure, workerVars, holder, externalVars, bounds>>
=============================================================================
