--------------------------- MODULE ResourceStore ----------------------------
(***************************************************************************)
(* The resource authority of a sandbox host: volumes with attachment       *)
(* generations, mount leases, and encrypted snapshots with restore leases. *)
(*                                                                         *)
(* An operation changes the manifests in memory under the lock and saves   *)
(* all of them; saveLocked may fail before or after the new file is in     *)
(* place, and the process may stop at either point.  What an operation     *)
(* undoes when its save fails differs from one to the next.                *)
(***************************************************************************)
EXTENDS Naturals, FiniteSets

CONSTANTS
    Volume, Mount, Snapshot,
    Creator,        \* concurrent callers of CreateSnapshot
    Holder,         \* callers that lease a snapshot to restore or delete it
    MaxProvenance,  \* provenance entries a valid taint has at most
    MaxGeneration,  \* bound on generations
    MaxTime         \* bound on the clock

ASSUME ResourceAssumption == MaxProvenance \in Nat /\ MaxGeneration \in Nat /\ MaxTime \in Nat

VARIABLES
    up,         \* the store is open
    memory,     \* the manifests of the open store
    disk,       \* the manifests in the file
    payload,    \* whose content each published snapshot file holds
    stage,      \* CreateSnapshot calls that have staged their content
    holding,    \* the snapshot generation each holder was last given
    told,       \* history: what callers were told
    now

resourceVars == <<up, memory, disk, payload, stage, holding, told, now>>

NoManifest == [exists |-> FALSE]
NoLease == [generation |-> 0]
NoContent == "none"

(***************************************************************************)
(* Saving.                                                                 *)
(***************************************************************************)
Outcome == {"saved", "kept", "replaced", "stopped", "stopped_after"}

writeState(next, outcome) ==
    /\ disk' = IF outcome \in {"saved", "replaced", "stopped_after"} THEN next ELSE disk
    /\ up' = (outcome \notin {"stopped", "stopped_after"})

\* Memory after an operation: next, or back when the operation undoes a failed save.
Remember(next, back, outcome) ==
    memory' = CASE outcome = "saved" -> next
                [] outcome \in {"kept", "replaced"} -> back
                [] OTHER -> memory

validState(state) == \A v \in Volume : state.volumes[v].exists => state.volumes[v].provenance <= MaxProvenance

ProcessStops ==
    /\ up /\ up' = FALSE
    /\ stage' = [c \in Creator |-> NoContent]
    /\ UNCHANGED <<memory, disk, payload, holding, told, now>>

OpenStore ==
    /\ ~up /\ validState(disk)
    /\ up' = TRUE /\ memory' = disk
    /\ stage' = [c \in Creator |-> NoContent]
    /\ UNCHANGED <<disk, payload, holding, told, now>>

TimePasses ==
    /\ now < MaxTime
    /\ now' = now + 1
    /\ UNCHANGED <<up, memory, disk, payload, stage, holding, told>>

(***************************************************************************)
(* Volumes.                                                                *)
(***************************************************************************)
Live(manifest) == manifest.exists /\ ~manifest.dead

\* A change of one volume that is kept in memory even if its save fails.
ChangeVolume(v, manifest, outcome) ==
    LET next == [memory EXCEPT !.volumes[v] = manifest]
    IN  /\ writeState(next, outcome)
        /\ Remember(next, next, outcome)
        /\ UNCHANGED <<payload, stage, holding, now>>

CreateVolume(v, outcome) ==
    LET next == [memory EXCEPT !.volumes[v] =
            [exists |-> TRUE, dead |-> FALSE, generation |-> 0, attached |-> NoLease, provenance |-> 0]]
    IN  /\ up /\ ~memory.volumes[v].exists
        /\ writeState(next, outcome)
        /\ Remember(next, memory, outcome)
        /\ UNCHANGED <<payload, stage, holding, told, now>>

\* An attachment that answers before it is saved.
AttachUnsaved(v, outcome) ==
    LET generation == memory.volumes[v].generation + 1
    IN  /\ up /\ Live(memory.volumes[v]) /\ memory.volumes[v].attached = NoLease
        /\ generation <= MaxGeneration
        /\ ChangeVolume(v, [memory.volumes[v] EXCEPT !.generation = generation,
                                !.attached = [generation |-> generation, expires |-> now + 1]], outcome)
        /\ told' = [told EXCEPT !.attached[v] = generation]

AttachVolume(v, outcome) ==
    LET generation == memory.volumes[v].generation + 1
    IN  /\ up /\ Live(memory.volumes[v]) /\ memory.volumes[v].attached = NoLease
        /\ generation <= MaxGeneration
        /\ ChangeVolume(v, [memory.volumes[v] EXCEPT !.generation = generation,
                                !.attached = [generation |-> generation, expires |-> now + 1]], outcome)
        /\ told' = IF outcome = "saved" THEN [told EXCEPT !.attached[v] = generation] ELSE told

DetachVolume(v, generation, outcome) ==
    /\ up /\ memory.volumes[v].exists /\ memory.volumes[v].attached # NoLease
    /\ memory.volumes[v].attached.generation = generation
    /\ ChangeVolume(v, [memory.volumes[v] EXCEPT !.attached = NoLease], outcome)
    /\ UNCHANGED told

ExpiredAttachment(manifest) == manifest.exists /\ manifest.attached # NoLease /\ manifest.attached.expires <= now

ReconcileExpiredAttachments(outcome) ==
    LET next == [memory EXCEPT !.volumes = [v \in Volume |->
                    IF ExpiredAttachment(@[v]) THEN [@[v] EXCEPT !.attached = NoLease] ELSE @[v]]]
    IN  /\ up /\ \E v \in Volume : ExpiredAttachment(memory.volumes[v])
        /\ writeState(next, outcome)
        /\ Remember(next, next, outcome)
        /\ UNCHANGED <<payload, stage, holding, told, now>>

TombstoneVolume(v, generation, outcome) ==
    /\ up /\ Live(memory.volumes[v]) /\ memory.volumes[v].attached = NoLease
    /\ memory.volumes[v].generation = generation
    /\ ChangeVolume(v, [memory.volumes[v] EXCEPT !.dead = TRUE], outcome)
    /\ UNCHANGED told

\* Merging appends the provenance of the new taint.
MarkVolumeTainted(v, outcome) ==
    /\ up /\ memory.volumes[v].exists /\ memory.volumes[v].provenance <= MaxProvenance
    /\ ChangeVolume(v, [memory.volumes[v] EXCEPT !.provenance = @ + 1], outcome)
    /\ UNCHANGED told

(***************************************************************************)
(* Mount leases: a released lease hands its generation on.                 *)
(***************************************************************************)
ChangeMount(m, lease, outcome) ==
    LET next == [memory EXCEPT !.mounts[m] = lease]
    IN  /\ writeState(next, outcome)
        /\ Remember(next, next, outcome)
        /\ UNCHANGED <<payload, stage, holding, now>>

AcquireMount(m, outcome) ==
    LET prior == memory.mounts[m]
        generation == IF prior.exists THEN prior.generation + 1 ELSE 1
    IN  /\ up /\ (prior.exists => prior.released) /\ generation <= MaxGeneration
        /\ ChangeMount(m, [exists |-> TRUE, generation |-> generation, released |-> FALSE, expires |-> now + 1], outcome)
        /\ told' = IF outcome = "saved" THEN [told EXCEPT !.mounted[m] = generation] ELSE told

ValidateMountLease(m, generation) ==
    /\ memory.mounts[m].exists /\ memory.mounts[m].generation = generation
    /\ ~memory.mounts[m].released /\ memory.mounts[m].expires > now

ReleaseMount(m, generation, outcome) ==
    /\ up /\ memory.mounts[m].exists /\ ~memory.mounts[m].released
    /\ memory.mounts[m].generation = generation
    /\ ChangeMount(m, [memory.mounts[m] EXCEPT !.released = TRUE], outcome)
    /\ UNCHANGED told

(***************************************************************************)
(* Snapshots.                                                              *)
(***************************************************************************)
\* Outside the lock: the content is read, encrypted and written to a file of its own.
StageSnapshot(c, s) ==
    /\ up /\ stage[c] = NoContent
    /\ stage' = [stage EXCEPT ![c] = s]
    /\ UNCHANGED <<up, memory, disk, payload, holding, told, now>>

\* Publish refuses a file that is there; the manifest is saved after it, and a failed save
\* takes both back.
CreateSnapshot(c, s, outcome) ==
    LET next == [memory EXCEPT !.snapshots[s] = [exists |-> TRUE, dead |-> FALSE, content |-> c, lease |-> NoLease]]
    IN  /\ up /\ stage[c] = s /\ ~memory.snapshots[s].exists /\ payload[s] = NoContent
        /\ writeState(next, outcome)
        /\ Remember(next, memory, outcome)
        /\ payload' = [payload EXCEPT ![s] = IF outcome \in {"kept", "replaced"} THEN NoContent ELSE c]
        /\ stage' = [stage EXCEPT ![c] = NoContent]
        /\ told' = IF outcome = "saved" THEN [told EXCEPT !.created[s] = c] ELSE told
        /\ UNCHANGED <<holding, now>>

\* A name that is taken, in the manifests or on disk; the staged file is discarded.
RefuseSnapshot(c, s) ==
    /\ up /\ stage[c] = s /\ (memory.snapshots[s].exists \/ payload[s] # NoContent)
    /\ stage' = [stage EXCEPT ![c] = NoContent]
    /\ UNCHANGED <<up, memory, disk, payload, holding, told, now>>

ChangeLease(s, lease, outcome) ==
    LET next == [memory EXCEPT !.snapshots[s].lease = lease]
    IN  /\ writeState(next, outcome)
        /\ Remember(next, next, outcome)
        /\ UNCHANGED <<payload, stage, now>>

\* The generation continues over an expired lease and starts again after a released one.
AcquireSnapshotLease(h, s, outcome) ==
    LET lease == memory.snapshots[s].lease
        generation == lease.generation + 1
    IN  /\ up /\ Live(memory.snapshots[s])
        /\ (lease # NoLease => lease.expires <= now)
        /\ generation <= MaxGeneration
        /\ ChangeLease(s, [holder |-> h, generation |-> generation, expires |-> now + 1], outcome)
        /\ holding' = IF outcome = "saved" THEN [holding EXCEPT ![h][s] = generation] ELSE holding
        /\ UNCHANGED told

\* A holder releases the generation it was given, and may repeat the call.
ReleaseSnapshotLease(h, s, outcome) ==
    LET lease == memory.snapshots[s].lease
    IN  /\ up /\ memory.snapshots[s].exists /\ lease # NoLease
        /\ lease.generation = holding[h][s]
        /\ ChangeLease(s, NoLease, outcome)
        /\ told' = [told EXCEPT !.released = @ \cup {[caller |-> h, holder |-> lease.holder]}]
        /\ UNCHANGED holding

\* The payload goes first; a file that is already gone is no error.
TombstoneSnapshot(s, outcome) ==
    LET next == [memory EXCEPT !.snapshots[s].dead = TRUE]
    IN  /\ up /\ Live(memory.snapshots[s]) /\ memory.snapshots[s].lease = NoLease
        /\ payload' = [payload EXCEPT ![s] = NoContent]
        /\ writeState(next, outcome)
        /\ Remember(next, next, outcome)
        /\ told' = [told EXCEPT !.deleting = @ \cup {s}]
        /\ UNCHANGED <<stage, holding, now>>

EmptyState ==
    [volumes |-> [v \in Volume |-> NoManifest], mounts |-> [m \in Mount |-> NoManifest],
     snapshots |-> [s \in Snapshot |-> NoManifest]]

ResourceInit ==
    /\ up = TRUE /\ memory = EmptyState /\ disk = EmptyState /\ now = 0
    /\ payload = [s \in Snapshot |-> NoContent]
    /\ stage = [c \in Creator |-> NoContent]
    /\ holding = [h \in Holder |-> [s \in Snapshot |-> 0]]
    /\ told = [attached |-> [v \in Volume |-> 0], mounted |-> [m \in Mount |-> 0],
               created |-> [s \in Snapshot |-> NoContent], deleting |-> {}, released |-> {}]

VolumeStep(o) ==
    \/ \E v \in Volume :
        \/ CreateVolume(v, o) \/ AttachVolume(v, o) \/ MarkVolumeTainted(v, o)
        \/ \E generation \in 0..MaxGeneration : DetachVolume(v, generation, o) \/ TombstoneVolume(v, generation, o)
    \/ ReconcileExpiredAttachments(o)
    \/ \E m \in Mount : AcquireMount(m, o) \/ \E generation \in 1..MaxGeneration : ReleaseMount(m, generation, o)

SnapshotStep(o) ==
    \E s \in Snapshot :
        \/ \E c \in Creator : CreateSnapshot(c, s, o)
        \/ \E h \in Holder : AcquireSnapshotLease(h, s, o) \/ ReleaseSnapshotLease(h, s, o)
        \/ TombstoneSnapshot(s, o)

ResourceNext ==
    \/ \E o \in Outcome : VolumeStep(o) \/ SnapshotStep(o)
    \/ \E c \in Creator, s \in Snapshot : StageSnapshot(c, s) \/ RefuseSnapshot(c, s)
    \/ ProcessStops \/ OpenStore \/ TimePasses

(***************************************************************************)
(* Properties.                                                             *)
(***************************************************************************)
\* The next attachment or mount of a resource gets a generation that no caller was ever
\* given, also after saves that failed and processes that stopped at any point of them
\* (AttachVolume, AcquireMount, saveLocked).
GenerationsAreFresh ==
    LET covers(state) ==
            /\ \A v \in Volume : told.attached[v] > 0 => state.volumes[v].exists /\ told.attached[v] <= state.volumes[v].generation
            /\ \A m \in Mount : told.mounted[m] > 0 => state.mounts[m].exists /\ told.mounted[m] <= state.mounts[m].generation
    IN  covers(disk) /\ (up => covers(memory))

\* A snapshot whose creation was acknowledged keeps its own content and manifest until
\* someone asks to delete it, whatever other creations of its name fail around it
\* (CreateSnapshot, Publish, Discard).
CreatedSnapshotIsReadable ==
    \A s \in Snapshot : told.created[s] # NoContent /\ s \notin told.deleting =>
        /\ payload[s] = told.created[s]
        /\ Live(disk.snapshots[s]) /\ disk.snapshots[s].content = told.created[s]
        /\ up => memory.snapshots[s] # NoManifest /\ memory.snapshots[s].content = told.created[s]

\* Only the latest lease of a mount that a caller was given validates, also when the save
\* of a later one failed (AcquireMount, ValidateMountLease).
StaleLeaseIsRefused ==
    \A m \in Mount, generation \in 0 .. MaxGeneration : up /\ ValidateMountLease(m, generation) => generation >= told.mounted[m]

\* What the store told a caller survives its failed saves and stops: the generations it
\* gave out are never given again (AttachVolume, AcquireMount), the snapshots it
\* acknowledged stay readable (CreateSnapshot) and a stale mount lease is refused.
ToldIsDurable == GenerationsAreFresh /\ CreatedSnapshotIsReadable /\ StaleLeaseIsRefused
=============================================================================
