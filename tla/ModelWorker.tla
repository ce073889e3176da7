---------------------------- MODULE ModelWorker -----------------------------
(***************************************************************************)
(* internal/runtimemodel composed with the state authority: workers that   *)
(* claim the outbox record of a model invocation, invoke the provider or   *)
(* reconcile with it, record the outcome, settle the Turn or hand a tool   *)
(* request to the broker, and acknowledge the record.                      *)
(*                                                                         *)
(* Unlike the tool worker, the model worker never renews its claim and     *)
(* fences no command with it: versions and idempotency keys have to keep a *)
(* late worker from doing harm.  A refused command ends the scan; a        *)
(* refused claim only skips the record.                                    *)
(*                                                                         *)
(* The provider is external: an operation that is invoked ends once, with  *)
(* an output, a failure or a tool request.  Registering the output as an   *)
(* Artifact guards nothing; that it can fail is part of the answer.        *)
(***************************************************************************)
EXTENDS RuntimeState, Outbox

CONSTANTS
    Worker,         \* replicas of the model worker
    ProviderEnd,    \* how the provider may end an operation
    PolicyDecision, \* whether the policy may require an approval of the tool asked for
    MaxFaults       \* bound on the stops of workers and on claims that run out in use

ASSUME ModelWorkerAssumption ==
    /\ MaxFaults \in Nat
    /\ 0 \notin Worker
    /\ ProviderEnd \subseteq {"succeeded", "failed", "tool"}
    /\ PolicyDecision \subseteq BOOLEAN

\* An invocation is a Turn and an ordinal.
Key == Turn \X (1..MaxInvocations)

VARIABLES
    outbox,             \* the outbox record of every invocation intent
    requiresApproval,   \* the decision of the policy on the tool the model asks for
    receipt,            \* what the key model-outcome-<operation>-<fence> was used with
    pc,
    page,
    work,               \* what process carries
    holder,             \* the worker whose claim is the latest
    provider,           \* the external operation
    invoked,            \* the times it was invoked
    faults

workerVars == <<pc, page, work>>
allVars == <<vars, outbox, requiresApproval, receipt, workerVars, holder, provider, invoked, faults>>

NoWork == [key |-> <<0, 0>>, recover |-> FALSE, answer |-> "none",
           sessionVersion |-> 0, turnVersion |-> 0]

Answer == {"none", "succeeded", "failed", "uncertain", "tool"}
Phase == {"idle", "scan", "process", "dispatch", "wait", "admit", "outcome", "settle", "acknowledge"}
InProcess == Phase \ {"idle", "scan"}

ModelInit ==
    /\ Init
    /\ outbox = [k \in Key |-> NoRecord]
    /\ requiresApproval \in PolicyDecision
    /\ receipt = [k \in Key |-> NoWork]
    /\ pc = [w \in Worker |-> "idle"]
    /\ page = [w \in Worker |-> [k \in Key |-> "none"]]
    /\ work = [w \in Worker |-> NoWork]
    /\ holder = [k \in Key |-> 0]
    /\ provider = [k \in Key |-> "none"]
    /\ invoked = [k \in Key |-> 0]
    /\ faults = 0

State(k) == IF k[2] \in DOMAIN invocation[k[1]] THEN invocation[k[1]][k[2]] ELSE "none"

Goto(w, phase) == pc' = [pc EXCEPT ![w] = phase]

\* ScanOnce returns.
Return(w) ==
    /\ Goto(w, "idle")
    /\ page' = [page EXCEPT ![w] = [k \in Key |-> "none"]]
    /\ work' = [work EXCEPT ![w] = NoWork]

\* What a step of a worker that leaves the state authority alone keeps.
Frame == UNCHANGED <<vars, requiresApproval, receipt>>

(***************************************************************************)
(* scanTenant.                                                             *)
(***************************************************************************)
ReadPage(w) ==
    /\ pc[w] = "idle"
    /\ page' = [page EXCEPT ![w] = [k \in Key |->
                  IF outbox[k].state \in {"pending", "claimed"} THEN outbox[k].state ELSE "none"]]
    /\ Goto(w, "scan")
    /\ Frame /\ UNCHANGED <<outbox, work, holder, provider, invoked, faults>>

Remaining(w) == {k \in Key : page[w][k] # "none"}

\* The record is claimed at its current version; recovering comes from the page.
ClaimRecord(w, k) ==
    /\ pc[w] = "scan"
    /\ k \in Remaining(w)
    /\ Claimable(outbox[k])
    /\ outbox' = [outbox EXCEPT ![k] = Unversioned(Claim(@))]
    /\ holder' = [holder EXCEPT ![k] = w]
    /\ work' = [work EXCEPT ![w] = [NoWork EXCEPT !.key = k, !.recover = page[w][k] = "claimed"]]
    /\ page' = [page EXCEPT ![w][k] = "none"]
    /\ Goto(w, "process")
    /\ Frame /\ UNCHANGED <<provider, invoked, faults>>

\* A record under a live claim is skipped, whether the page shows it or the
\* claim is refused.
PassOver(w, k) ==
    /\ pc[w] = "scan"
    /\ k \in Remaining(w)
    /\ ~Claimable(outbox[k])
    /\ page' = [page EXCEPT ![w][k] = "none"]
    /\ Frame /\ UNCHANGED <<outbox, pc, work, holder, provider, invoked, faults>>

EndScan(w) ==
    /\ pc[w] = "scan"
    /\ Remaining(w) = {}
    /\ Return(w)
    /\ Frame /\ UNCHANGED <<outbox, holder, provider, invoked, faults>>

(***************************************************************************)
(* process and finalize.                                                   *)
(***************************************************************************)
\* process loads the state, with the versions the outcome will be bound to.  It
\* looks at the invocation, not at the Turn.
Process(w) ==
    /\ pc[w] = "process"
    /\ LET k == work[w].key
       IN IF State(k) # "intent"
          THEN Goto(w, "acknowledge") /\ UNCHANGED work
          ELSE /\ Goto(w, "dispatch")
               /\ work' = [work EXCEPT ![w].sessionVersion = sessionVersion,
                                       ![w].turnVersion = turnVersion[k[1]]]
    /\ Frame /\ UNCHANGED <<outbox, page, holder, provider, invoked, faults>>

Invoke(w) ==
    /\ pc[w] = "dispatch"
    /\ ~work[w].recover
    /\ invoked' = [invoked EXCEPT ![work[w].key] = @ + 1]
    /\ provider' = [provider EXCEPT ![work[w].key] = IF @ = "none" THEN "running" ELSE @]
    /\ Goto(w, "wait")
    /\ Frame /\ UNCHANGED <<outbox, page, work, holder, faults>>

Reconcile(w) ==
    /\ pc[w] = "dispatch"
    /\ work[w].recover
    /\ Goto(w, "wait")
    /\ Frame /\ UNCHANGED <<outbox, page, work, holder, provider, invoked, faults>>

\* An adapter that takes a broken stream for a complete one.
AnswersHasty(k) ==
    IF provider[k] \in {"failed", "tool"} THEN {provider[k], "uncertain"} ELSE {"succeeded", "uncertain"}

\* An error of the adapter, and an output that cannot be registered, make the
\* outcome uncertain.
Answers(k) ==
    IF provider[k] \in {"succeeded", "failed", "tool"} THEN {provider[k], "uncertain"}
    ELSE {"uncertain"}

Respond(w) ==
    /\ pc[w] = "wait"
    /\ \E answer \in Answers(work[w].key) :
          /\ work' = [work EXCEPT ![w].answer = answer]
          /\ Goto(w, IF answer = "tool" THEN "admit" ELSE "outcome")
    /\ Frame /\ UNCHANGED <<outbox, page, holder, provider, invoked, faults>>

\* The tool request goes through Broker.Admit.  A receipt or a pending approval
\* of this request is replayed; a policy that does not require an approval denies
\* it, which process returns as an error.
AdmitTool(w) ==
    LET t == work[w].key[1]
        admitted == {a \in Approval : approval[a].turn = t}
    IN /\ pc[w] = "admit"
       /\ \/ /\ requiresApproval
             /\ admitted # {}
             /\ Goto(w, "acknowledge")
             /\ UNCHANGED <<vars, page, work>>
          \/ /\ requiresApproval
             /\ admitted = {}
             /\ \E a \in Approval, c \in ToolCall, p \in Policy : AdmitToolApproval(a, t, c, p)
             /\ Goto(w, "acknowledge")
             /\ UNCHANGED <<page, work>>
          \/ /\ ~requiresApproval \/ (admitted = {} /\ turn[t] # "running")
             /\ Return(w)
             /\ UNCHANGED vars
       /\ UNCHANGED <<outbox, requiresApproval, receipt, holder, provider, invoked, faults>>

Replays(w) ==
    LET r == receipt[work[w].key]
    IN /\ r.answer = work[w].answer
       /\ r.sessionVersion = work[w].sessionVersion
       /\ r.turnVersion = work[w].turnVersion

\* RecordInvocationOutcome at the versions of process.  The same command under
\* the same key replays.  The settlement is bound to the versions it finds here.
RecordOutcomeAt(w) ==
    LET k == work[w].key
        answer == work[w].answer
    IN /\ pc[w] = "outcome"
       /\ \/ /\ RecordOutcome(k[1], work[w].sessionVersion, work[w].turnVersion, k[2], answer)
             /\ receipt' = [receipt EXCEPT ![k] = work[w]]
          \/ Replays(w) /\ UNCHANGED <<vars, receipt>>
       /\ Goto(w, "settle")
       /\ work' = [work EXCEPT ![w].sessionVersion = sessionVersion,
                               ![w].turnVersion = turnVersion[k[1]]]
       /\ UNCHANGED <<outbox, requiresApproval, page, holder, provider, invoked, faults>>

Moved(w) ==
    \/ work[w].sessionVersion # sessionVersion
    \/ work[w].turnVersion # turnVersion[work[w].key[1]]
    \/ turn[work[w].key[1]] # "running"

\* The Session or the Turn moved on, or another worker recorded an outcome.
OutcomeRefused(w) ==
    /\ pc[w] = "outcome"
    /\ Moved(w) \/ State(work[w].key) # "intent"
    /\ Return(w)
    /\ Frame /\ UNCHANGED <<outbox, holder, provider, invoked, faults>>

SettleAt(w) ==
    LET k == work[w].key
    IN /\ pc[w] = "settle"
       /\ Settle(k[1], work[w].sessionVersion, work[w].turnVersion, k[2],
                 IF work[w].answer = "succeeded" THEN "succeeded" ELSE "failed")
       /\ Goto(w, "acknowledge")
       /\ UNCHANGED <<outbox, requiresApproval, receipt, page, work, holder, provider, invoked, faults>>

SettleRefused(w) ==
    /\ pc[w] = "settle"
    /\ Moved(w)
    /\ Return(w)
    /\ Frame /\ UNCHANGED <<outbox, holder, provider, invoked, faults>>

\* acknowledge takes the record at its current version: any live claim will do.
AcknowledgeRecord(w) ==
    LET k == work[w].key
    IN /\ pc[w] = "acknowledge"
       /\ IF LeaseFenceCurrent(outbox[k], outbox[k].version)
          THEN /\ outbox' = [outbox EXCEPT ![k] = Unversioned(Acknowledge(@))]
               /\ Goto(w, "scan")
               /\ work' = [work EXCEPT ![w] = NoWork]
               /\ UNCHANGED page
          ELSE Return(w) /\ UNCHANGED outbox
       /\ Frame /\ UNCHANGED <<holder, provider, invoked, faults>>

(***************************************************************************)
(* The clock, the provider, faults and the rest of the system.             *)
(***************************************************************************)
Held(k) == \E w \in Worker : pc[w] \in InProcess /\ work[w].key = k /\ holder[k] = w

\* The claim of a worker that is gone runs out.
AbandonedClaimExpires(k) ==
    /\ outbox[k].state = "claimed"
    /\ ~outbox[k].expired
    /\ ~Held(k)
    /\ outbox' = [outbox EXCEPT ![k] = Expire(@)]
    /\ Frame /\ UNCHANGED <<workerVars, holder, provider, invoked, faults>>

\* The provider takes longer than claimDuration.
HeldClaimExpires(k) ==
    /\ outbox[k].state = "claimed"
    /\ ~outbox[k].expired
    /\ Held(k)
    /\ faults < MaxFaults
    /\ faults' = faults + 1
    /\ outbox' = [outbox EXCEPT ![k] = Expire(@)]
    /\ Frame /\ UNCHANGED <<workerVars, holder, provider, invoked>>

\* The provider ends the operation.
Finish(k) ==
    /\ provider[k] = "running"
    /\ \E end \in ProviderEnd : provider' = [provider EXCEPT ![k] = end]
    /\ Frame /\ UNCHANGED <<outbox, workerVars, holder, invoked, faults>>

\* The worker stops, or a store or content read fails.
Stop(w) ==
    /\ pc[w] # "idle"
    /\ faults < MaxFaults
    /\ faults' = faults + 1
    /\ Return(w)
    /\ Frame /\ UNCHANGED <<outbox, holder, provider, invoked>>

\* The dispatcher begins the invocation of a running Turn, with its record.
BeginInvocation(t) ==
    /\ invocation[t] = <<>>
    /\ Begin(t, sessionVersion, turnVersion[t], 0)
    /\ outbox' = [outbox EXCEPT ![<<t, 1>>] = NewRecord]
    /\ UNCHANGED <<requiresApproval, receipt, workerVars, holder, provider, invoked, faults>>

\* Inputs, cancellation, approval, and the tool worker's settlement.
Environment ==
    /\ \/ \E t \in Turn : Admit(t) \/ Cancel(t)
       \/ \E a \in Approval : DecideApproval(a, "approved")
       \/ \E a \in Approval, outcome \in {"succeeded", "failed"} :
             /\ approval[a].state = "approved"
             /\ Settle(approval[a].turn, sessionVersion, turnVersion[approval[a].turn], 0, outcome)
    /\ UNCHANGED <<outbox, requiresApproval, receipt, workerVars, holder, provider, invoked, faults>>

WorkerStep(w) ==
    \/ ReadPage(w) \/ EndScan(w) \/ Process(w) \/ Invoke(w) \/ Reconcile(w) \/ Respond(w)
    \/ AdmitTool(w) \/ RecordOutcomeAt(w) \/ OutcomeRefused(w) \/ SettleAt(w)
    \/ SettleRefused(w) \/ AcknowledgeRecord(w)
    \/ \E k \in Key : ClaimRecord(w, k) \/ PassOver(w, k)

ModelNext ==
    \/ Environment
    \/ \E t \in Turn : BeginInvocation(t)
    \/ \E w \in Worker : WorkerStep(w) \/ Stop(w)
    \/ \E k \in Key : AbandonedClaimExpires(k) \/ HeldClaimExpires(k) \/ Finish(k)

ModelSpec == ModelInit /\ [][ModelNext]_allVars

\* Worker processes keep scanning, abandoned claims run out and the provider
\* ends what it was asked.  A claim outlives many scans, so that a record whose
\* processing fails is skipped by the next scans and takes no other record's turn:
\* a record that is claimable again and again is claimed.
ModelFairness ==
    /\ \A w \in Worker : WF_allVars(WorkerStep(w))
    /\ \A k \in Key : SF_allVars(\E w \in Worker : ClaimRecord(w, k))
    /\ \A k \in Key : WF_allVars(AbandonedClaimExpires(k)) /\ WF_allVars(Finish(k))

FairModelSpec == ModelSpec /\ ModelFairness

(***************************************************************************)
(* Properties.                                                             *)
(***************************************************************************)
\* Every variable has the type of what it stands for.
ModelTypeOK ==
    /\ RecordsOK
    /\ outbox \in [Key -> OutboxRecord]
    /\ pc \in [Worker -> Phase]
    /\ page \in [Worker -> [Key -> {"none", "pending", "claimed"}]]
    /\ \A w \in Worker : work[w].key \in Key \cup {<<0, 0>>} /\ work[w].answer \in Answer
    /\ holder \in [Key -> Worker \cup {0}]
    /\ provider \in [Key -> {"none", "running", "succeeded", "failed", "tool"}]

\* A recorded success is a success of the provider, whichever of several workers
\* recorded it and whether it invoked or reconciled.
ModelSuccessIsReal ==
    \A k \in Key : State(k) = "succeeded" => provider[k] = "succeeded"

\* No invocation is dropped: a record is published only once its invocation has
\* an outcome or has become a tool request with an approval.
PublishedIsAnswered ==
    \A k \in Key : outbox[k].state = "published" =>
        State(k) # "intent" \/ \E a \in Approval : approval[a].turn = k[1]

\* The Turn tells the outcome of its invocation: whatever workers race, a Turn
\* that did not go through an approval succeeds exactly if its invocation did.
TurnTellsOutcome ==
    \A k \in Key :
        (turn[k[1]] \in {"succeeded", "failed"} /\ \A a \in Approval : approval[a].turn # k[1])
        => /\ State(k) \in {"succeeded", "failed", "uncertain"}
           /\ (turn[k[1]] = "succeeded") = (State(k) = "succeeded")

\* The answer of a provider reaches the state: an output or a failure is
\* eventually recorded, unless the Turn was cancelled meanwhile.
AnswerIsRecorded ==
    \A k \in Key : provider[k] \in {"succeeded", "failed"} ~>
        State(k) # "intent" \/ turn[k[1]] # "running"

(***************************************************************************)
(* What the documents say and the worker does not guarantee.               *)
(***************************************************************************)
\* Invoke is called exactly once for a durable intent.
NeverReinvoked == \A k \in Key : invoked[k] <= 1

\* A Turn ends in exactly one terminal outcome: an invocation whose record is
\* published leaves no running Turn that nobody will settle.
PublishedTurnIsSettled ==
    \A k \in Key : outbox[k].state = "published" /\ State(k) # "intent"
                      => turn[k[1]] # "running"

\* A Turn whose tool request is refused ends.
RefusedTurnEnds ==
    \A k \in Key : (provider[k] = "tool" /\ ~requiresApproval) ~> turn[k[1]] # "running"

\* An invocation's answer is neither invented nor lost: a recorded success is the
\* provider's, nothing is acknowledged unanswered, and the Turn ends as its answer says
\* (finalize).
AnswerIsFaithful == ModelSuccessIsReal /\ PublishedIsAnswered /\ TurnTellsOutcome
=============================================================================
