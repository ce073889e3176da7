---------------------------- MODULE SandboxHost -----------------------------
(***************************************************************************)
(* internal/sandboxhostprocess and internal/sandboxhostjournal composed    *)
(* with the ledger: one process per enrolled generation, with a journal    *)
(* file of its own, that pulls an assignment, journals it, acknowledges    *)
(* it, journals and reports that it starts, causes the effect, and         *)
(* journals and reports its outputs and its result.  A process may crash   *)
(* at any step and an answer of the control plane may be lost; the next    *)
(* poll replays what the journal holds before it pulls.                    *)
(*                                                                         *)
(* A message that is signed and journalled once is named by its binding:   *)
(* a replay carries the same bytes.  The executor is external: it honours  *)
(* the deadline of its lease, stops at the first output it cannot deliver  *)
(* and completes a data-plane operation only with its receipt.             *)
(***************************************************************************)
EXTENDS SandboxControl, Sequences

CONSTANTS
    MaximumReceipts, \* entries the journal of a host may hold
    MaxOutput,       \* bound on the outputs of one execution
    MaxFaults        \* bound on crashes and lost answers

ASSUME SandboxHostAssumption ==
    /\ MaximumReceipts \in Nat \ {0}
    /\ {MaxOutput, MaxFaults} \subseteq Nat

VARIABLES
    pc,       \* where the process of a host is
    env,      \* the binding of the envelope it works on
    ran,      \* whether the execution it is in had its effect
    journal,  \* per host, the entry of every receipt key
    effects,  \* per operation, the assignments that had their effect, in order
    evidence, \* per operation, the version an operator has evidence of cleanup for
    faults

hostVars == <<pc, env, ran, journal, effects>>
allVars == <<controlVars, hostVars, evidence, faults>>

NoEnvelope == [op |-> "none", assignment |-> 0, epoch |-> 0, fence |-> 0]

\* A receipt key: the operation and its assignment; the lease epoch is not part of it.
Key == [op : Operation, assignment : 1..MaxAssignments]
receiptKey(b) == [op |-> b.op, assignment |-> b.assignment]

Entry ==
    [epoch : Nat, fence : Nat, started : {"no", "staged", "acknowledged"},
     output : 0..MaxOutput, acknowledged : 0..MaxOutput, data : {"no", "staged", "acknowledged"},
     result : {"none", "succeeded", "uncertain"}, settled : BOOLEAN]

NewEntry(b) ==
    [epoch |-> b.epoch, fence |-> b.fence, started |-> "no", output |-> 0, acknowledged |-> 0,
     data |-> "no", result |-> "none", settled |-> FALSE]

HostTypeOK ==
    /\ ControlTypeOK
    /\ pc \in [Host -> {"idle", "pulled", "accepted", "receipted", "staged", "started",
                        "executing", "emitting", "finishing"}]
    /\ \A h \in Host : env[h] \in Binding \cup {NoEnvelope} /\ (env[h] = NoEnvelope <=> pc[h] = "idle")
    /\ ran \in [Host -> BOOLEAN]
    /\ \A h \in Host : DOMAIN journal[h] \subseteq Key /\ \A k \in DOMAIN journal[h] : journal[h][k] \in Entry
    /\ effects \in [Operation -> Seq(1..MaxAssignments)]
    /\ evidence \in [Operation -> Nat]
    /\ faults \in 0..MaxFaults

HostInit ==
    /\ ControlInit
    /\ pc = [h \in Host |-> "idle"]
    /\ env = [h \in Host |-> NoEnvelope]
    /\ ran = [h \in Host |-> FALSE]
    /\ journal = [h \in Host |-> << >>]
    /\ effects = [o \in Operation |-> << >>]
    /\ evidence = [o \in Operation |-> 0]
    /\ faults = 0

-----------------------------------------------------------------------------
(* The poll that a process is in.                                          *)

EntryOf(h) == journal[h][receiptKey(env[h])]
Over(b) == b.fence <= expired[b.op]

Continue(h, next) == pc' = [pc EXCEPT ![h] = next] /\ UNCHANGED <<env, ran, effects>>

\* The poll ends, in success or in an error; what it kept in memory is gone.
Stop(h) ==
    /\ pc' = [pc EXCEPT ![h] = "idle"]
    /\ env' = [env EXCEPT ![h] = NoEnvelope]
    /\ ran' = [ran EXCEPT ![h] = FALSE]
    /\ UNCHANGED effects

Journalled(h, k, entry) == journal' = [journal EXCEPT ![h] = [@ EXCEPT ![k] = entry]]

\* The control plane commits, its answer does not reach the host.  (A request that is
\* lost changes nothing and ends the poll as a crash does.)
AnswerLost(h) ==
    /\ faults < MaxFaults
    /\ faults' = faults + 1
    /\ Stop(h)
    /\ UNCHANGED journal

\* The API takes a refused call for a violation.
Refused(h) ==
    /\ QuarantineHost(h)
    /\ Stop(h)
    /\ UNCHANGED <<journal, faults>>

\* The journal is synced before each step that relies on it.
Crash(h) ==
    /\ pc[h] # "idle"
    /\ faults < MaxFaults
    /\ faults' = faults + 1
    /\ Stop(h)
    /\ UNCHANGED <<controlVars, journal, evidence>>

\* A generation that is no longer active is denied at its next call.
Denied(h) ==
    /\ pc[h] \in {"accepted", "staged", "emitting", "finishing"}
    /\ ~Authenticated(h)
    /\ Stop(h)
    /\ UNCHANGED <<controlVars, journal, evidence, faults>>

-----------------------------------------------------------------------------
(* What the journal holds for a poll to replay, in the order it does.      *)

BindingAt(h, k) ==
    [op |-> k.op, assignment |-> k.assignment, epoch |-> journal[h][k].epoch, fence |-> journal[h][k].fence]

PendingStarts(h) == {k \in DOMAIN journal[h] : journal[h][k].started = "staged"}
PendingOutputs(h) == {k \in DOMAIN journal[h] : journal[h][k].acknowledged < journal[h][k].output}
PendingTransferReceipts(h) == {k \in DOMAIN journal[h] : journal[h][k].data = "staged"}
PendingExecutions(h) == {k \in DOMAIN journal[h] : journal[h][k].started # "no" /\ journal[h][k].result = "none"}
PendingResults(h) == {k \in DOMAIN journal[h] : journal[h][k].result # "none" /\ ~journal[h][k].settled}

Pending(h) ==
    PendingStarts(h) \cup PendingOutputs(h) \cup PendingTransferReceipts(h)
        \cup PendingExecutions(h) \cup PendingResults(h)

\* The answer of a replayed call: the journal records it, or it is lost.
Answered(h, k, entry) ==
    \/ Journalled(h, k, entry) /\ UNCHANGED <<pc, env, ran, effects, faults>>
    \/ AnswerLost(h)

ReplayStart(h, k) ==
    /\ pc[h] = "idle"
    /\ k \in PendingStarts(h)
    /\ \/ /\ RecordAuthenticatedHostResult(h, BindingAt(h, k), "started")
          /\ Answered(h, k, [journal[h][k] EXCEPT !.started = "acknowledged"])
       \/ ~ResultAllowed(h, BindingAt(h, k), "started") /\ Refused(h)
    /\ UNCHANGED evidence

ReplayOutput(h, k) ==
    /\ pc[h] = "idle"
    /\ PendingStarts(h) = {}
    /\ k \in PendingOutputs(h)
    /\ LET sequence == journal[h][k].acknowledged + 1
       IN  \/ /\ RecordAuthenticatedHostOutput(h, BindingAt(h, k), sequence)
              /\ Answered(h, k, [journal[h][k] EXCEPT !.acknowledged = sequence])
           \/ ~OutputAllowed(h, BindingAt(h, k), sequence) /\ Refused(h)
    /\ UNCHANGED evidence

ReplayDataReceipt(h, k) ==
    /\ pc[h] = "idle"
    /\ PendingStarts(h) \cup PendingOutputs(h) = {}
    /\ k \in PendingTransferReceipts(h)
    /\ \/ /\ RecordAuthenticatedDataPlaneReceipt(h, BindingAt(h, k))
          /\ Answered(h, k, [journal[h][k] EXCEPT !.data = "acknowledged"])
       \/ ~DataReceiptAllowed(h, BindingAt(h, k)) /\ Refused(h)
    /\ UNCHANGED evidence

\* recoverIncompleteExecutions journals an uncertain result, which the poll then sends,
\* with the results that were pending before it.
RecoverIncompleteExecution(h, k) ==
    /\ pc[h] = "idle"
    /\ PendingStarts(h) \cup PendingOutputs(h) \cup PendingTransferReceipts(h) = {}
    /\ k \in PendingExecutions(h)
    /\ Journalled(h, k, [journal[h][k] EXCEPT !.result = "uncertain"])
    /\ UNCHANGED <<controlVars, pc, env, ran, effects, evidence, faults>>

ReplayResult(h, k) ==
    /\ pc[h] = "idle"
    /\ PendingStarts(h) \cup PendingOutputs(h) \cup PendingTransferReceipts(h) = {}
    /\ k \in PendingResults(h)
    /\ LET next == journal[h][k].result
       IN  \/ /\ RecordAuthenticatedHostResult(h, BindingAt(h, k), next)
              /\ Answered(h, k, [journal[h][k] EXCEPT !.settled = TRUE])
           \/ ~ResultAllowed(h, BindingAt(h, k), next) /\ Refused(h)
    /\ UNCHANGED evidence

-----------------------------------------------------------------------------
(* A poll with nothing to replay.                                          *)

Pull(h) ==
    /\ pc[h] = "idle"
    /\ Pending(h) = {}
    /\ \E o \in Operation :
          /\ PullHostAssignment(h, o)
          /\ \/ /\ pc' = [pc EXCEPT ![h] = "pulled"]
                /\ env' = [env EXCEPT ![h] = BindingOf(o)']
                /\ UNCHANGED <<ran, effects, journal, faults>>
             \/ AnswerLost(h)
    /\ UNCHANGED evidence

\* Journal.Accept: a first receipt while there is room, the same envelope again, or
\* the renewed envelope of an assignment that was not started.
Acceptable(h, b) ==
    LET k == receiptKey(b)
    IN  IF k \in DOMAIN journal[h]
        THEN \/ BindingAt(h, k) = b
             \/ /\ b.epoch > journal[h][k].epoch
                /\ b.fence > journal[h][k].fence
                /\ journal[h][k].started = "no"
                /\ journal[h][k].result = "none"
        ELSE Cardinality(DOMAIN journal[h]) < MaximumReceipts

\* The entry that Accept leaves: a renewed one keeps what it had.
AcceptedEntry(h, b) ==
    IF receiptKey(b) \in DOMAIN journal[h]
    THEN [journal[h][receiptKey(b)] EXCEPT !.epoch = b.epoch, !.fence = b.fence]
    ELSE NewEntry(b)

AcceptEnvelope(h) ==
    /\ pc[h] = "pulled"
    /\ IF ~Over(env[h]) /\ Acceptable(h, env[h])
       THEN /\ journal' = [journal EXCEPT ![h] =
                             [k \in DOMAIN @ \cup {receiptKey(env[h])} |->
                                IF k = receiptKey(env[h]) THEN AcceptedEntry(h, env[h]) ELSE @[k]]]
            /\ Continue(h, "accepted")
       ELSE Stop(h) /\ UNCHANGED journal
    /\ UNCHANGED <<controlVars, evidence, faults>>

SendReceipt(h) ==
    /\ pc[h] = "accepted"
    /\ \/ /\ AcknowledgeHostAssignment(h, env[h])
          /\ \/ Continue(h, "receipted") /\ UNCHANGED <<journal, faults>>
             \/ AnswerLost(h)
       \/ ~ReceiptAllowed(h, env[h]) /\ Refused(h)
    /\ UNCHANGED evidence

\* executeEnvelope up to the durable intent: an intent that is there already is
\* never executed, it becomes an uncertain result.
StageStarted(h) ==
    /\ pc[h] = "receipted"
    /\ IF Over(env[h])
       THEN Stop(h) /\ UNCHANGED journal
       ELSE IF EntryOf(h).started # "no"
            THEN /\ Journalled(h, receiptKey(env[h]), [EntryOf(h) EXCEPT !.result = "uncertain"])
                 /\ Continue(h, "finishing")
            ELSE /\ Journalled(h, receiptKey(env[h]), [EntryOf(h) EXCEPT !.started = "staged"])
                 /\ Continue(h, "staged")
    /\ UNCHANGED <<controlVars, evidence, faults>>

SendStarted(h) ==
    /\ pc[h] = "staged"
    /\ \/ /\ RecordAuthenticatedHostResult(h, env[h], "started")
          /\ \/ /\ Journalled(h, receiptKey(env[h]), [EntryOf(h) EXCEPT !.started = "acknowledged"])
                /\ Continue(h, "started")
                /\ UNCHANGED faults
             \/ AnswerLost(h)
       \/ ~ResultAllowed(h, env[h], "started") /\ Refused(h)
    /\ UNCHANGED evidence

\* The executor causes the effect, or fails before it; past the deadline of the
\* lease it causes none.
Execute(h) ==
    /\ pc[h] = "started"
    /\ pc' = [pc EXCEPT ![h] = "executing"]
    /\ \E effect \in BOOLEAN :
          /\ effect => ~Over(env[h])
          /\ ran' = [ran EXCEPT ![h] = effect]
          /\ effects' = [effects EXCEPT ![env[h].op] = IF effect THEN Append(@, env[h].assignment) ELSE @]
    /\ UNCHANGED <<controlVars, env, journal, evidence, faults>>

\* The executor emits an output, or the receipt of its data plane: journalled first.
StageOutput(h) ==
    /\ pc[h] = "executing"
    /\ ran[h]
    /\ IF env[h].op \in DataPlane
       THEN /\ EntryOf(h).data = "no"
            /\ Journalled(h, receiptKey(env[h]), [EntryOf(h) EXCEPT !.data = "staged"])
       ELSE /\ EntryOf(h).output < MaxOutput
            /\ Journalled(h, receiptKey(env[h]), [EntryOf(h) EXCEPT !.output = @ + 1])
    /\ Continue(h, "emitting")
    /\ UNCHANGED <<controlVars, evidence, faults>>

SendOutput(h) ==
    /\ pc[h] = "emitting"
    /\ env[h].op \notin DataPlane
    /\ \/ /\ RecordAuthenticatedHostOutput(h, env[h], EntryOf(h).output)
          /\ \/ /\ Journalled(h, receiptKey(env[h]), [EntryOf(h) EXCEPT !.acknowledged = EntryOf(h).output])
                /\ Continue(h, "executing")
                /\ UNCHANGED faults
             \/ AnswerLost(h)
       \/ ~OutputAllowed(h, env[h], EntryOf(h).output) /\ Refused(h)
    /\ UNCHANGED evidence

SendDataReceipt(h) ==
    /\ pc[h] = "emitting"
    /\ env[h].op \in DataPlane
    /\ \/ /\ RecordAuthenticatedDataPlaneReceipt(h, env[h])
          /\ \/ /\ Journalled(h, receiptKey(env[h]), [EntryOf(h) EXCEPT !.data = "acknowledged"])
                /\ Continue(h, "executing")
                /\ UNCHANGED faults
             \/ AnswerLost(h)
       \/ ~DataReceiptAllowed(h, env[h]) /\ Refused(h)
    /\ UNCHANGED evidence

\* The deadline of the lease cancels a call of the executor.  A result cannot be staged
\* before its outputs are acknowledged, so that the poll ends.
Cancelled(h) ==
    /\ pc[h] = "emitting"
    /\ Over(env[h])
    /\ Stop(h)
    /\ UNCHANGED <<controlVars, journal, evidence, faults>>

\* A success needs an executor that returned in time; anything else is uncertain.
Finish(h) ==
    /\ pc[h] = "executing"
    /\ \E result \in {"succeeded", "uncertain"} :
          /\ result = "succeeded" =>
                /\ ran[h]
                /\ ~Over(env[h])
                /\ env[h].op \in DataPlane => EntryOf(h).data = "acknowledged"
          /\ Journalled(h, receiptKey(env[h]), [EntryOf(h) EXCEPT !.result = result])
    /\ receiptKey(env[h]) \notin PendingOutputs(h) \cup PendingTransferReceipts(h)
    /\ Continue(h, "finishing")
    /\ UNCHANGED <<controlVars, evidence, faults>>

SendResult(h) ==
    /\ pc[h] = "finishing"
    /\ \/ /\ RecordAuthenticatedHostResult(h, env[h], EntryOf(h).result)
          /\ \/ /\ Journalled(h, receiptKey(env[h]), [EntryOf(h) EXCEPT !.settled = TRUE])
                /\ Stop(h)
                /\ UNCHANGED faults
             \/ AnswerLost(h)
       \/ ~ResultAllowed(h, env[h], EntryOf(h).result) /\ Refused(h)
    /\ UNCHANGED evidence

\* The API renews the lease of an assignment for a host that asks for it.
Heartbeat(h, o) ==
    /\ RenewHostAssignment(h, BindingOf(o))
    /\ UNCHANGED <<hostVars, evidence, faults>>

-----------------------------------------------------------------------------
(* The operator.  Evidence of cleanup is external: no process is past its  *)
(* started observation, and what a crashed one left behind is removed.     *)

Executing(h, o) == pc[h] \in {"started", "executing", "emitting"} /\ env[h].op = o

ProveCleanup(o) ==
    /\ op[o].state \in {"uncertain", "cleanup-pending"}
    /\ \A h \in Host : ~Executing(h, o)
    /\ evidence[o] # op[o].version
    /\ evidence' = [evidence EXCEPT ![o] = op[o].version]
    /\ UNCHANGED <<controlVars, hostVars, faults>>

Operate(o) ==
    /\ \/ ConfirmHostCleanupAndRequeue(o, evidence[o])
       \/ Transition(o, evidence[o], "cleanup-confirmed")
       \/ Transition(o, op[o].version, "cancelled")
    /\ UNCHANGED <<hostVars, evidence, faults>>

Enroll(h) ==
    /\ ProvisionHost(h) \/ RevokeHost(h) \/ EnrollmentExpires(h)
    /\ UNCHANGED <<hostVars, evidence, faults>>

Submit(o) == Accept(o) /\ UNCHANGED <<hostVars, evidence, faults>>
Elapse(o) == LeaseExpires(o) /\ UNCHANGED <<hostVars, evidence, faults>>
Outlive(o) == RetentionExpires(o) /\ UNCHANGED <<hostVars, evidence, faults>>

\* ReconcileOnce calls the three passes in this order; another process may step between them.
Recover == RecoverExpiredAssignments /\ UNCHANGED <<hostVars, evidence, faults>>
Claim == ClaimExpiredCleanup /\ UNCHANGED <<hostVars, evidence, faults>>
Bury == Reap /\ UNCHANGED <<hostVars, evidence, faults>>

Process(h) ==
    \/ \E k \in DOMAIN journal[h] :
          \/ ReplayStart(h, k)
          \/ ReplayOutput(h, k)
          \/ ReplayDataReceipt(h, k)
          \/ RecoverIncompleteExecution(h, k)
          \/ ReplayResult(h, k)
    \/ Pull(h)
    \/ AcceptEnvelope(h)
    \/ SendReceipt(h)
    \/ StageStarted(h)
    \/ SendStarted(h)
    \/ Execute(h)
    \/ StageOutput(h)
    \/ SendOutput(h)
    \/ SendDataReceipt(h)
    \/ Cancelled(h)
    \/ Finish(h)
    \/ SendResult(h)
    \/ Denied(h)

HostNext ==
    \/ \E h \in Host : Process(h) \/ Crash(h) \/ Enroll(h)
    \/ \E h \in Host, o \in Operation : Heartbeat(h, o)
    \/ \E o \in Operation : Submit(o) \/ Elapse(o) \/ Outlive(o) \/ ProveCleanup(o) \/ Operate(o)
    \/ Recover
    \/ Claim
    \/ Bury

HostSpec == HostInit /\ [][HostNext]_allVars

\* The reaper and the hosts run in loops; a host process that a refusal ends is started
\* again by its supervisor.  A lease ends.  Nothing obliges a caller or an operator.
HostFairness ==
    /\ \A h \in Host : WF_allVars(Process(h))
    /\ \A o \in Operation : WF_allVars(Elapse(o))
    /\ WF_allVars(Recover) /\ WF_allVars(Claim) /\ WF_allVars(Bury)

FairHostSpec == HostSpec /\ HostFairness

-----------------------------------------------------------------------------
(* Properties.                                                             *)

\* At most one process is past the started observation of an operation: the fence, the
\* version that an operator confirms and the journal keep a second one out.
OneExecutor ==
    \A o \in Operation : Cardinality({h \in Host : Executing(h, o)}) <= 1

\* The effects of an operation belong to different assignments, in the order of the
\* assignments: a crash or a lost answer never repeats an effect, and a fenced host
\* never has one after its successor.
EffectsInOrder ==
    \A o \in Operation : \A i, j \in DOMAIN effects[o] : i < j => effects[o][i] < effects[o][j]

\* An operation that the ledger calls succeeded had its effect under the assignment it
\* names, the last of its effects, and every output that its host journalled is recorded.
SuccessIsReal ==
    \A o \in Operation : op[o].state = "succeeded" =>
        LET entry == journal[op[o].host][[op |-> o, assignment |-> op[o].assignment]]
        IN  /\ effects[o] # << >>
            /\ effects[o][Len(effects[o])] = op[o].assignment
            /\ entry.result = "succeeded"
            /\ entry.output = op[o].output
            /\ o \in DataPlane => op[o].data

\* Cleanup that is confirmed stays true: no process executes an operation whose cleanup
\* was required once it is confirmed or tombstoned.
CleanupIsReal ==
    \A o \in Cleanup : op[o].state \in {"cleanup-confirmed", "tombstoned"} =>
        \A h \in Host : ~Executing(h, o)

\* What a host works on or has yet to deliver.
Held(h) ==
    (IF pc[h] = "idle" THEN {} ELSE {env[h]}) \cup {BindingAt(h, k) : k \in Pending(h)}

\* Every host of the model follows the protocol.  One is quarantined only when it has
\* lost what it holds: its binding was replaced, its lease is over, or the operation was
\* cancelled.  A crash or a lost answer alone never costs a host its enrollment.
QuarantineIsEarned ==
    [][\A h \in Host : enrolled[h] = "active" /\ enrolled'[h] = "quarantined" =>
          \E b \in Held(h) : ~Bound(h, b) \/ Over(b) \/ op[b.op].state = "cancelled"]_allVars

\* A dispatched operation does not stay with a host that is gone: the lease ends and
\* the reaper makes it uncertain, unless the host resolves it before.
LeaseIsResolved ==
    \A o \in Operation :
        op[o].state \in {"dispatched", "started"} ~> op[o].state \notin {"dispatched", "started"}

\* What the journal of an active host has staged is eventually acknowledged, whatever
\* order its calls were lost in: no entry blocks those behind it for ever.
JournalDrains ==
    \A h \in Host : Pending(h) # {} ~> (Pending(h) = {} \/ ~Authenticated(h))

\* Past its retention an operation that was dispatched is claimed for cleanup when
\* cleanup is required, and tombstoned when it is not.
RetentionIsEnforced ==
    \A o \in Operation :
        (o \in overdue /\ op[o].state \notin {"absent", "accepted"}) ~>
            (IF o \in Cleanup THEN op[o].state \in {"cleanup-pending", "cleanup-confirmed", "tombstoned"}
                              ELSE op[o].state = "tombstoned")

\* Successive hosts never overlap: one process executes an operation, and a confirmed
\* cleanup means that none does (ConfirmHostCleanupAndRequeue, Reap), while effects
\* follow the order of their assignments and are not repeated (execute, recovery).
SuccessionIsClean == OneExecutor /\ CleanupIsReal /\ EffectsInOrder /\ SuccessIsReal

\* What is under way ends: a lease is resolved and a retention that ran out is enforced
\* (the reaper), and the journal of a host that can authenticate drains (poll).
WorkIsSettled == LeaseIsResolved /\ RetentionIsEnforced /\ JournalDrains
=============================================================================
