------------------------------ MODULE DataPlane ------------------------------
(***************************************************************************)
(* The data-plane authorities of the Firecracker host: the transfer, the    *)
(* snapshot restore and the mount authority with its jailed sharing daemon, *)
(* reached through HostProcessExecutor, and the durable ownership record of *)
(* a direct launch.                                                         *)
(*                                                                          *)
(* There is one authority of each kind and one signed command for each.     *)
(* Several calls of Execute for the same command may be under way (a retry  *)
(* beside a delayed delivery), and the reaper may come at any time.  The    *)
(* receipt of a command lives in the host journal, which may refuse a write. *)
(***************************************************************************)
EXTENDS Naturals, FiniteSets

CONSTANTS Delivery,    \* the deliveries of the commands that may be under way
          Create       \* the create requests a direct launch may be claimed for

Authority == {"transfer", "snapshot-restore", "mount"}

VARIABLES journalEntry, \* per authority: the receipt and the result of its command
          delivery,     \* per delivery: the authority and the place in Execute
          workspace,    \* TransferExecutionAuthority.workspace: "open" or "closed"
          restored,     \* the snapshot sink: "empty", "restored" or "reaped"
          share,        \* the daemon: attached, detached; and the mounts it made
          lease,        \* the mount's and the snapshot's lease in the resource store
          ownership     \* DirectLaunchOwnership: lock, record in memory and on disk

dataVars == <<journalEntry, delivery, workspace, restored, share, lease, ownership>>

Unreceipted == [receipt |-> "none", result |-> "none"]

\* The door a delivery takes is chosen by its operation kind; a started intent is in
\* the journal before any of them runs, and the command must be the exact one of its
\* authority.  A staged receipt is replayed, and emitted again until acknowledged.
ExecuteAuthenticatedWithDataPlaneReceipt(d, a) ==
    /\ delivery[d].at = "idle"
    /\ delivery' = [delivery EXCEPT ![d] =
          [authority |-> a,
           at |-> IF journalEntry[a].receipt # "none" THEN "idle"
                  ELSE IF a = "mount" THEN "observe" ELSE "effect"]]
    /\ UNCHANGED <<journalEntry, workspace, restored, share, lease, ownership>>

Gives(d, place) == delivery' = [delivery EXCEPT ![d].at = place]

(* MountExecutionAuthority and LinuxJailedSharingDaemon *)

\* ObserveMountSource re-stats the pinned descriptor, then the lease is validated.
ObserveMountSource(d) ==
    /\ delivery[d].at = "observe"
    /\ \/ Gives(d, "idle")
       \/ lease.mount = "held" /\ Gives(d, "effect")
    /\ UNCHANGED <<journalEntry, workspace, restored, share, lease, ownership>>

\* A tuple that was detached is never attached again and one that is attached is
\* not mounted a second time.  The bind, or its sealing remount, may fail.
Attach(d) ==
    /\ delivery[d] = [authority |-> "mount", at |-> "effect"]
    /\ \/ share.open /\ share.attached /\ Gives(d, "stage") /\ UNCHANGED share
       \/ /\ share.open /\ ~share.attached /\ ~share.detached
          /\ share' = [share EXCEPT !.attached = TRUE, !.mounts = @ + 1]
          /\ Gives(d, "stage")
       \/ Gives(d, "idle") /\ UNCHANGED share
    /\ UNCHANGED <<journalEntry, workspace, restored, lease, ownership>>


Detach ==
    \/ share.open /\ share.detached /\ UNCHANGED share
    \/ /\ share.open /\ share.attached
       /\ share' = [share EXCEPT !.attached = FALSE, !.detached = TRUE, !.mounts = @ - 1]

\* MountExecutionAuthority.Reap: the share is detached, then the lease released.
ReapMount ==
    /\ lease.reaping = FALSE
    /\ Detach
    /\ lease' = [lease EXCEPT !.reaping = TRUE]
    /\ UNCHANGED <<journalEntry, delivery, workspace, restored, ownership>>

ReleaseAfterDetach ==
    /\ lease.reaping
    /\ \E saved \in BOOLEAN :
          lease' = [lease EXCEPT !.reaping = FALSE, !.mount = IF saved THEN "released" ELSE @]
    /\ UNCHANGED <<journalEntry, delivery, workspace, restored, share, ownership>>

CloseDaemon ==
    /\ share.open /\ ~share.attached
    /\ share' = [share EXCEPT !.open = FALSE]
    /\ UNCHANGED <<journalEntry, delivery, workspace, restored, lease, ownership>>

(* TransferExecutionAuthority and SnapshotRestoreExecutionAuthority *)

\* CopyIn, CopyArchiveIn or CopyOut through the descriptor-rooted workspace.
CopyThroughWorkspace(d) ==
    /\ delivery[d] = [authority |-> "transfer", at |-> "effect"]
    /\ \/ workspace = "open" /\ Gives(d, "stage")
       \/ Gives(d, "idle")
    /\ UNCHANGED <<journalEntry, workspace, restored, share, lease, ownership>>

RestoreFromSnapshot(d) ==
    /\ delivery[d] = [authority |-> "snapshot-restore", at |-> "effect"]
    /\ \/ /\ lease.snapshot = "held" /\ restored' = "restored" /\ Gives(d, "stage")
       \/ Gives(d, "idle") /\ UNCHANGED restored
    /\ UNCHANGED <<journalEntry, workspace, share, lease, ownership>>

\* The receipt is fsynced before it is emitted.  A second receipt of the command is
\* another digest (its completion time differs), which the journal refuses.
StageTypedTransferReceipt(d) ==
    LET a == delivery[d].authority IN
    /\ delivery[d].at = "stage"
    /\ Gives(d, "idle")
    /\ \/ journalEntry[a].receipt = "none" /\ journalEntry' = [journalEntry EXCEPT ![a].receipt = "staged"]
       \/ UNCHANGED journalEntry
    /\ UNCHANGED <<workspace, restored, share, lease, ownership>>

AcknowledgeReceipt(a) ==
    /\ journalEntry[a].receipt = "staged"
    /\ journalEntry' = [journalEntry EXCEPT ![a].receipt = "acknowledged"]
    /\ UNCHANGED <<delivery, workspace, restored, share, lease, ownership>>

\* The host process stages the generic result once the receipt is acknowledged, or
\* an uncertain one when there is no receipt; control acknowledges it later.
ResultIsAcknowledged(a) ==
    /\ journalEntry[a].result = "none" /\ journalEntry[a].receipt # "staged"
    /\ journalEntry' = [journalEntry EXCEPT ![a].result = "acknowledged"]
    /\ UNCHANGED <<delivery, workspace, restored, share, lease, ownership>>

ReapTransfer ==
    /\ journalEntry["transfer"].receipt = "acknowledged"
    /\ journalEntry["transfer"].result = "acknowledged"
    /\ workspace' = "closed"
    /\ UNCHANGED <<journalEntry, delivery, restored, share, lease, ownership>>

\* A staged receipt that is not acknowledged keeps the sink; without a receipt the
\* sink may be reaped, and then the lease is released (or was already).
ReapSnapshotRestore ==
    /\ journalEntry["snapshot-restore"].receipt = "none"
          \/ journalEntry["snapshot-restore"] = [receipt |-> "acknowledged", result |-> "acknowledged"]
    /\ restored' = "reaped"
    /\ \E saved \in BOOLEAN : lease' = [lease EXCEPT !.snapshot = IF saved THEN "released" ELSE @]
    /\ UNCHANGED <<journalEntry, delivery, workspace, share, ownership>>

(* DirectLaunchOwnership *)

\* The record is renamed into place and the directory synced; a failure before or
\* after the rename is an error to the caller either way.
persist(c) ==
    \/ ownership' = [ownership EXCEPT !.disk = c, !.memory = c, !.told = @ \cup {c}]
    \/ ownership' = [ownership EXCEPT !.disk = c]
    \/ UNCHANGED ownership

\* One create owns the plan: the same record is acknowledged again, another refused.
ClaimCreate(c) ==
    /\ ownership.lock
    /\ IF ownership.memory = "none" THEN persist(c)
       ELSE /\ ownership.memory = c
            /\ ownership' = [ownership EXCEPT !.told = @ \cup {c}]
    /\ UNCHANGED <<journalEntry, delivery, workspace, restored, share, lease>>

\* An exec is bound to the create in memory.
BindExec ==
    /\ ownership.lock /\ ownership.memory # "none"
    /\ ownership' = [ownership EXCEPT !.bound = @ \cup {ownership.memory}]
    /\ UNCHANGED <<journalEntry, delivery, workspace, restored, share, lease>>

\* Close, or the end of the process, releases the lock without deleting the record.
CloseOwnership ==
    /\ ownership.lock
    /\ ownership' = [ownership EXCEPT !.lock = FALSE, !.memory = "none"]
    /\ UNCHANGED <<journalEntry, delivery, workspace, restored, share, lease>>

OpenDirectLaunchOwnership ==
    /\ ~ownership.lock
    /\ ownership' = [ownership EXCEPT !.lock = TRUE, !.memory = ownership.disk]
    /\ UNCHANGED <<journalEntry, delivery, workspace, restored, share, lease>>

DataInit ==
    /\ journalEntry = [a \in Authority |-> Unreceipted]
    /\ delivery = [d \in Delivery |-> [authority |-> "none", at |-> "idle"]]
    /\ workspace = "open" /\ restored = "empty"
    /\ share = [open |-> TRUE, attached |-> FALSE, detached |-> FALSE, mounts |-> 0]
    /\ lease = [mount |-> "held", snapshot |-> "held", reaping |-> FALSE]
    /\ ownership = [lock |-> FALSE, memory |-> "none", disk |-> "none", told |-> {}, bound |-> {}]

OwnershipStep ==
    \/ \E c \in Create : ClaimCreate(c)
    \/ BindExec \/ CloseOwnership \/ OpenDirectLaunchOwnership

AuthorityStep(a) ==
    \/ \E d \in Delivery :
          \/ ExecuteAuthenticatedWithDataPlaneReceipt(d, a)
          \/ delivery[d].authority = a /\ StageTypedTransferReceipt(d)
          \/ a = "mount" /\ (ObserveMountSource(d) \/ Attach(d))
          \/ a = "transfer" /\ CopyThroughWorkspace(d)
          \/ a = "snapshot-restore" /\ RestoreFromSnapshot(d)
    \/ AcknowledgeReceipt(a) \/ ResultIsAcknowledged(a)
    \/ a = "mount" /\ (ReapMount \/ ReleaseAfterDetach \/ CloseDaemon)
    \/ a = "transfer" /\ ReapTransfer
    \/ a = "snapshot-restore" /\ ReapSnapshotRestore

DataNext == (\E a \in Authority : AuthorityStep(a)) \/ OwnershipStep

\* Once the reaper has released a mount lease the share is not mounted, and a delayed
\* delivery that had already validated the lease cannot mount it again.
ReleasedIsDetached == lease.mount = "released" => share.mounts = 0

\* The transfer workspace closes only when control holds the receipt of the effect:
\* until then a retry of the command still finds its workspace.
WorkspaceOutlivesReceipt ==
    workspace = "closed" => journalEntry["transfer"].receipt = "acknowledged"

\* At most one create request is ever told that it owns the foundation plan or has an
\* exec bound to it, over failed saves, retries and restarts.
OneCreateOwns == Cardinality(ownership.told \cup ownership.bound) <= 1

=============================================================================
