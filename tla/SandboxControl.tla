--------------------------- MODULE SandboxControl ---------------------------
(***************************************************************************)
(* internal/sandboxcontrol: the durable ledger of sandbox operations, the  *)
(* enrolled generations of an execution host, and the assignment of one to *)
(* the other under a lease, a lease epoch and a fencing token.             *)
(*                                                                         *)
(* Every action is one serializable transaction of the ledger.  An         *)
(* AssignmentID is the number of the assignment among those of its         *)
(* operation: the code draws a fresh random one.  Time is what has         *)
(* expired: the leases of o whose fence is at most expired[o], the         *)
(* retention of the operations in `overdue`, the enrollment of a host.     *)
(* Versions count the outbox records of an operation: each change of its   *)
(* row appends one in the same transaction.                                *)
(***************************************************************************)
EXTENDS Integers, FiniteSets

CONSTANTS
    Operation,      \* operation identities
    Generations,    \* enrolled generations of the host, 1..Generations
    Cleanup,        \* the operations with CleanupRequired
    DataPlane,      \* the operations whose success needs a data-plane receipt
    PageSize,       \* rows one pass of the reaper handles
    MaxAssignments, \* bound on the assignments of one operation
    MaxEpoch        \* bound on the lease epochs of one assignment

ASSUME SandboxControlAssumption ==
    /\ {Generations, PageSize, MaxAssignments, MaxEpoch} \subseteq Nat \ {0}
    /\ Cleanup \subseteq Operation
    /\ DataPlane \subseteq Operation

VARIABLES
    op,       \* the row of every operation with its dispatch
    enrolled, \* the status of every generation of the host
    expired,  \* per operation, the greatest fence whose lease is over
    overdue   \* the operations whose retention is over

ledger == <<op, enrolled>>
time == <<expired, overdue>>
controlVars == <<op, enrolled, expired, overdue>>

Host == 1..Generations
NoHost == 0

State ==
    {"absent", "accepted", "dispatched", "started", "succeeded", "failed", "cancelled",
     "uncertain", "cleanup-pending", "cleanup-confirmed", "tombstoned"}
Observed == {"started", "succeeded", "failed", "uncertain"}

\* The binding an envelope, a receipt, an output and a result carry.
Binding == [op : Operation, assignment : Nat, epoch : Nat, fence : Nat]

\* A row keeps the number of its latest assignment when it loses its host.
Row ==
    [state : State, version : Nat, host : {NoHost} \cup Host, assignment : Nat, epoch : Nat,
     fence : Nat, receipt : BOOLEAN, result : Observed \cup {"none"}, output : Nat, data : BOOLEAN]

EmptyRow ==
    [state |-> "absent", version |-> 0, host |-> NoHost, assignment |-> 0, epoch |-> 0,
     fence |-> 0, receipt |-> FALSE, result |-> "none", output |-> 0, data |-> FALSE]

ControlTypeOK ==
    /\ op \in [Operation -> Row]
    /\ enrolled \in [Host -> {"unknown", "active", "attestation-failed", "quarantined", "revoked", "expired"}]
    /\ expired \in [Operation -> Nat]
    /\ overdue \subseteq Operation

ControlInit ==
    /\ op = [o \in Operation |-> EmptyRow]
    /\ enrolled = [h \in Host |-> "unknown"]
    /\ expired = [o \in Operation |-> 0]
    /\ overdue = {}

-----------------------------------------------------------------------------
\* The transitions of an operation that the ledger allows.
permits(current, next) ==
    \/ current = "accepted" /\ next \in {"dispatched", "cancelled", "cleanup-pending"}
    \/ current = "dispatched" /\ next \in Observed \cup {"cancelled", "cleanup-pending"}
    \/ current = "started" /\ next \in {"succeeded", "failed", "cancelled", "uncertain", "cleanup-pending"}
    \/ current = "uncertain" /\ next \in {"dispatched", "succeeded", "failed", "cleanup-pending"}
    \/ current = "cleanup-pending" /\ next \in {"cleanup-confirmed", "tombstoned"}
    \/ current \in {"cleanup-confirmed", "succeeded", "failed", "cancelled"} /\ next = "tombstoned"

isTerminalState(state) ==
    state \in {"succeeded", "failed", "cancelled", "cleanup-confirmed", "tombstoned"}

LeaseLive(o) == op[o].fence > expired[o]

\* The row r in a new state, its outbox record appended.
Advance(r, state) == [r EXCEPT !.state = state, !.version = r.version + 1]

\* A row without its host: the assignment is cleared, the fence moves on.
Fenced(r, state) ==
    [Advance(r, state) EXCEPT !.host = NoHost, !.epoch = 0, !.fence = r.fence + 1]

\* A row whose dispatch is deleted.
Undispatched(r) == [r EXCEPT !.receipt = FALSE, !.result = "none", !.data = FALSE]

-----------------------------------------------------------------------------
(* The public API and the operator.                                        *)

\* Accept: a first submission; a repeated one changes nothing, and a tombstone
\* is never accepted again.
Accept(o) ==
    /\ op[o].state = "absent"
    /\ op' = [op EXCEPT ![o] = Advance(@, "accepted")]
    /\ UNCHANGED <<enrolled, time>>

Transition(o, version, next) ==
    /\ op[o].version = version
    /\ permits(op[o].state, next)
    /\ op' = [op EXCEPT ![o] = Advance(@, next)]
    /\ UNCHANGED <<enrolled, time>>

\* Provisioning a generation a second time changes nothing or is a conflict.
ProvisionHost(h) ==
    /\ enrolled[h] = "unknown"
    /\ \A newer \in Host : newer > h => enrolled[newer] = "unknown"
    /\ \E status \in {"active", "attestation-failed"} : enrolled' = [enrolled EXCEPT ![h] = status]
    /\ UNCHANGED <<op, time>>

\* fenceHostLocked: the operations a host holds, and their rows once it is fenced.
HeldBy(h) == {o \in Operation : op[o].host = h /\ ~isTerminalState(op[o].state)}

FenceHost(h) ==
    op' = [o \in Operation |->
             IF o \in HeldBy(h) THEN Undispatched(Fenced(op[o], "uncertain")) ELSE op[o]]

RevokeHost(h) ==
    /\ enrolled[h] # "unknown"
    /\ enrolled' = [enrolled EXCEPT ![h] = "revoked"]
    /\ FenceHost(h)
    /\ UNCHANGED time

\* A confirmation that does not compare the version.
ConfirmAnyVersion(o, version) ==
    /\ op[o].state = "uncertain"
    /\ o \in Cleanup
    /\ op' = [op EXCEPT ![o] =
                Undispatched(IF @.host = NoHost THEN Advance(@, "accepted") ELSE Fenced(@, "accepted"))]
    /\ UNCHANGED <<enrolled, time>>

\* An operator that has the evidence of cleanup for the version it names.
ConfirmHostCleanupAndRequeue(o, version) ==
    /\ op[o].state = "uncertain"
    /\ op[o].version = version
    /\ o \in Cleanup
    /\ op' = [op EXCEPT ![o] =
                Undispatched(IF @.host = NoHost THEN Advance(@, "accepted") ELSE Fenced(@, "accepted"))]
    /\ UNCHANGED <<enrolled, time>>

-----------------------------------------------------------------------------
(* The host API.  A call is answered, or it is refused as a violation and  *)
(* the API quarantines the generation; a generation that is not active is  *)
(* denied before either.                                                   *)

Authenticated(h) == enrolled[h] = "active"

\* assignmentLocked, and the lease epoch that every signed message adds.
Holds(h, b) ==
    /\ op[b.op].host = h
    /\ op[b.op].assignment = b.assignment
    /\ op[b.op].fence = b.fence
Bound(h, b) == Holds(h, b) /\ op[b.op].epoch = b.epoch

BindingOf(o) ==
    [op |-> o, assignment |-> op[o].assignment, epoch |-> op[o].epoch, fence |-> op[o].fence]

\* The envelope that a pull returns verbatim to the host that holds it.
Current(h, o) ==
    op[o].host = h /\ op[o].state \in {"dispatched", "started"} /\ LeaseLive(o)

\* A fresh assignment of an accepted operation.
Assigned(r, h) ==
    [Undispatched(Advance(r, "dispatched")) EXCEPT
        !.host = h, !.assignment = r.assignment + 1, !.epoch = 1, !.fence = r.fence + 1, !.output = 0]

PullHostAssignment(h, o) ==
    /\ Authenticated(h)
    /\ \/ Current(h, o) /\ UNCHANGED op
       \/ /\ \A other \in Operation : ~Current(h, other)
          /\ op[o].state = "accepted"
          /\ op[o].assignment < MaxAssignments
          /\ op' = [op EXCEPT ![o] = Assigned(@, h)]
    /\ UNCHANGED <<enrolled, time>>

ReceiptAllowed(h, b) == Holds(h, b) /\ LeaseLive(b.op)

AcknowledgeHostAssignment(h, b) ==
    /\ Authenticated(h)
    /\ ReceiptAllowed(h, b)
    /\ op' = [op EXCEPT ![b.op].receipt = TRUE]
    /\ UNCHANGED <<enrolled, time>>

RenewAllowed(h, b) ==
    /\ Holds(h, b)
    /\ op[b.op].state \in {"dispatched", "started"}
    /\ LeaseLive(b.op)

\* The renewed lease is a new dispatch: what was received under the old one is gone.
RenewHostAssignment(h, b) ==
    /\ Authenticated(h)
    /\ RenewAllowed(h, b)
    /\ op[b.op].epoch < MaxEpoch
    /\ op' = [op EXCEPT ![b.op] =
                 [Undispatched(Advance(@, @.state)) EXCEPT !.epoch = @ + 1, !.fence = @ + 1]]
    /\ UNCHANGED <<enrolled, time>>

\* Outputs are numbered from one per assignment; an exact retry is a duplicate.
OutputAllowed(h, b, sequence) ==
    /\ Bound(h, b)
    /\ \/ sequence <= op[b.op].output
       \/ /\ op[b.op].state \in {"dispatched", "started"}
          /\ LeaseLive(b.op)
          /\ sequence = op[b.op].output + 1

RecordAuthenticatedHostOutput(h, b, sequence) ==
    /\ Authenticated(h)
    /\ OutputAllowed(h, b, sequence)
    /\ op' = [op EXCEPT ![b.op].output = IF sequence > @ THEN sequence ELSE @]
    /\ UNCHANGED <<enrolled, time>>

DataReceiptAllowed(h, b) ==
    /\ Bound(h, b)
    /\ ~op[b.op].data => op[b.op].state = "started" /\ LeaseLive(b.op)

RecordAuthenticatedDataPlaneReceipt(h, b) ==
    /\ Authenticated(h)
    /\ DataReceiptAllowed(h, b)
    /\ op' = [op EXCEPT ![b.op].data = TRUE]
    /\ UNCHANGED <<enrolled, time>>

\* The exact result that is recorded may be repeated at any time; another one
\* needs the lease, and a transition that the state permits.
Replayed(b, next) == op[b.op].state = next /\ op[b.op].result = next

\* A ledger that takes the repetition of a result for a violation.
ResultAllowedOnce(h, b, next) ==
    /\ Bound(h, b)
    /\ op[b.op].receipt
    /\ LeaseLive(b.op)
    /\ permits(op[b.op].state, next)

ResultAllowed(h, b, next) ==
    /\ Bound(h, b)
    /\ op[b.op].receipt
    /\ \/ Replayed(b, next)
       \/ /\ op[b.op].state # next
          /\ next = "succeeded" /\ b.op \in DataPlane => op[b.op].data
          /\ LeaseLive(b.op)
          /\ permits(op[b.op].state, next)

RecordAuthenticatedHostResult(h, b, next) ==
    /\ Authenticated(h)
    /\ ResultAllowed(h, b, next)
    /\ op' = [op EXCEPT ![b.op] =
                 IF Replayed(b, next) THEN @ ELSE [Advance(@, next) EXCEPT !.result = next]]
    /\ UNCHANGED <<enrolled, time>>

QuarantineHost(h) ==
    /\ Authenticated(h)
    /\ enrolled' = [enrolled EXCEPT ![h] = "quarantined"]
    /\ FenceHost(h)
    /\ UNCHANGED time

-----------------------------------------------------------------------------
(* The reaper: three passes, each over a page of the operations it finds.  *)

\* The pages a pass may handle: all that is due, or a full page of it.
Page(due) ==
    {S \in SUBSET due : Cardinality(S) = IF Cardinality(due) < PageSize THEN Cardinality(due) ELSE PageSize}

\* A reaper that leaves what a host has started to the host.
AbandonedDispatches ==
    {o \in Operation : op[o].host # NoHost /\ ~LeaseLive(o) /\ op[o].state = "dispatched"}

Abandoned ==
    {o \in Operation : op[o].host # NoHost /\ ~LeaseLive(o) /\ op[o].state \in {"dispatched", "started"}}

RecoverExpiredAssignments ==
    /\ Abandoned # {}
    /\ \E page \in Page(Abandoned) :
          op' = [o \in Operation |-> IF o \in page THEN Fenced(op[o], "uncertain") ELSE op[o]]
    /\ UNCHANGED <<enrolled, time>>

Unclean ==
    {o \in Cleanup \cap overdue : op[o].state \notin {"absent", "cleanup-pending", "cleanup-confirmed", "tombstoned"}}

ClaimExpiredCleanup ==
    /\ Unclean # {}
    /\ \E page \in Page(Unclean) :
          op' = [o \in Operation |-> IF o \in page THEN Fenced(op[o], "cleanup-pending") ELSE op[o]]
    /\ UNCHANGED <<enrolled, time>>

\* What may be tombstoned: cleanup that is required has to be confirmed first.
Reapable ==
    {o \in overdue :
        /\ o \in Cleanup => op[o].state = "cleanup-confirmed"
        /\ op[o].state \in {"succeeded", "failed", "cancelled", "uncertain", "cleanup-confirmed"}}

\* The fence of a tombstone stays: no host holds it any more.
Tombstone(r) == [Advance(r, "tombstoned") EXCEPT !.host = NoHost, !.epoch = 0]

Reap ==
    /\ Reapable # {}
    /\ \E page \in Page(Reapable) :
          op' = [o \in Operation |-> IF o \in page THEN Tombstone(op[o]) ELSE op[o]]
    /\ UNCHANGED <<enrolled, time>>

-----------------------------------------------------------------------------
(* Time.  The leases of an operation end in the order they were granted:   *)
(* all of them last as long.                                               *)

LeaseExpires(o) ==
    /\ \E fence \in (expired[o] + 1)..op[o].fence : expired' = [expired EXCEPT ![o] = fence]
    /\ UNCHANGED <<ledger, overdue>>

RetentionExpires(o) ==
    /\ op[o].state # "absent"
    /\ o \notin overdue
    /\ overdue' = overdue \cup {o}
    /\ UNCHANGED <<ledger, expired>>

EnrollmentExpires(h) ==
    /\ enrolled[h] = "active"
    /\ enrolled' = [enrolled EXCEPT ![h] = "expired"]
    /\ UNCHANGED <<op, time>>

=============================================================================
