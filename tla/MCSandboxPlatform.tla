------------------------- MODULE MCSandboxPlatform --------------------------
(***************************************************************************)
(* Instances of the sandbox components for TLC.  They share no state: a    *)
(* behaviour is one of one component, `part`, while the others stay as     *)
(* they start.                                                             *)
(***************************************************************************)
EXTENDS SandboxCore, OutputSpool, ResourceStore, JailerHost, GuestChannel,
        GuestAgent, DataPlane, BootProbe, WorkspaceTransfer, EgressProxy, ResourceProjection,
        ControlApi, TLC

CONSTANTS PlatformPart,  \* the parts that are checked
          Local, Second, Remote,  \* the clients of SandboxCore; the first two share a principal
          Alice, Bob

VARIABLE part

platformVars ==
    <<coreVars, spoolVars, resourceVars, jailerVars, guestVars, guestAgentVars,
      dataVars, probeVars, transferVars, proxyVars, projectionVars, controlApiVars, part>>

-----------------------------------------------------------------------------
(* Values of the constants *)

ClientOwner == (Local :> Alice) @@ (Second :> Alice) @@ (Remote :> Bob)

Limits(default, maximum, image) ==
    [defaults |-> default, maximum |-> maximum, canonicalizer |-> "v1", capability |-> "declared",
     images |-> ("i" :> image), operations |-> 2, globalOperations |-> 2, processes |-> 1,
     globalProcesses |-> 1, watches |-> 2, globalWatches |-> 2]

\* Two clients of one principal disagree on the default and on the image.
ClientPolicy ==
    (Local :> Limits(1, 2, "x")) @@ (Second :> Limits(2, 2, "y")) @@ (Remote :> Limits(1, 1, "x"))

CallerDraft(kind) ==
    [kind |-> kind, resources |-> 0, form |-> "valid", image |-> "i", requires |-> "", overwrite |-> ""]
Drafts == <<CallerDraft("create_sandbox"), CallerDraft("exec_process")>>

\* Secrets of which one ends as it begins, and begins inside the other.
Secrets == <<<<"a", "b", "a">>, <<"b", "c">>>>
Chunks == {<<"a">>, <<"b">>, <<"a", "b">>, <<"c", "a", "b">>}

\* The two concurrent actors or names of each part are interchangeable: they are the same
\* two model values, permuted together.
Interchangeable == Permutations(Exchange)

-----------------------------------------------------------------------------
(* The parts *)

\* The boot probe starts in one of many states in its own parts only.
PlatformInit ==
    /\ part \in PlatformPart
    /\ CoreInit /\ SpoolInit /\ ResourceInit /\ JailerInit /\ GuestInit /\ AgentInit
    /\ DataInit /\ ProbeInit /\ TransferInit /\ ProxyInit /\ ProjectionInit /\ ControlApiInit
    /\ part # "lease" => guard.initial = [issued |-> 0, expires |-> 1] /\ guard.fence = 1
    /\ part # "session" => session.chain = <<[issued |-> 0, expires |-> 1]>>

\* A follower depends on one operation's records, a view on the operations that
\* replace one row; a listing only on which resources exist.
ProjectionPart ==
    \A o \in ProjectedOperation : open'[o].open =>
        /\ part = "follows" => open'[o].body \in {"m1", "none"}
        /\ open'[o].operation.binding.resource = 1

\* Two transfers at a time, or three one after the other.
WorkspacePart == begun' > 2 => Cardinality(UnderWay') < 2

StoreRuns == ProcessStops \/ OpenStore \/ TimePasses

SandboxStep ==
    \/ part = "core" /\ CoreNext
    \/ part = "spool" /\ SpoolNext
    \/ part = "volumes" /\ (StoreRuns \/ \E o \in Outcome : VolumeStep(o))
    \/ part = "snapshots" /\
          (StoreRuns \/ (\E o \in Outcome : SnapshotStep(o))
             \/ \E c \in Creator, s \in Snapshot : StageSnapshot(c, s) \/ RefuseSnapshot(c, s))
    \/ part = "jailer" /\ JailerNext
    \/ part = "guest" /\ GuestNext
    \/ part = "agent" /\ AgentStep
    \/ part = "secret" /\ SecretStep
    \/ part \in Authority /\ AuthorityStep(part)
    \/ part = "ownership" /\ OwnershipStep
    \/ part = "session" /\ SessionStep
    \/ part = "handoff" /\ HandoffStep
    \/ part = "lease" /\ LeaseStep
    \/ part = "workspace" /\ TransferNext /\ WorkspacePart
    \/ part = "proxy" /\ ProxyNext
    \/ part = "lists" /\ (ProjectionAccepts \/ Lists)
    \/ part = "follows" /\ (ProjectionWrites \/ Follows) /\ ProjectionPart
    \/ part = "views" /\ (ProjectionWrites \/ Views) /\ ProjectionPart
    \/ part = "api" /\ ControlApiNext

PlatformNext ==
    /\ SandboxStep
    /\ UNCHANGED part
    /\ part # "core" => UNCHANGED coreVars
    /\ part # "spool" => UNCHANGED spoolVars
    /\ part \notin {"volumes", "snapshots"} => UNCHANGED resourceVars
    /\ part # "jailer" => UNCHANGED jailerVars
    /\ part # "guest" => UNCHANGED guestVars
    /\ part \notin {"agent", "secret"} => UNCHANGED guestAgentVars
    /\ part \notin Authority \cup {"ownership"} => UNCHANGED dataVars
    /\ part \notin {"session", "handoff", "lease"} => UNCHANGED probeVars
    /\ part # "workspace" => UNCHANGED transferVars
    /\ part # "proxy" => UNCHANGED proxyVars
    /\ part \notin {"lists", "follows", "views"} => UNCHANGED projectionVars
    /\ part # "api" => UNCHANGED controlApiVars

PlatformSpec == PlatformInit /\ [][PlatformNext]_platformVars

-----------------------------------------------------------------------------
(* Properties. The configuration lists the components' own; these combine or confine *)
(* theirs to the parts in which they are evaluated.                                *)

\* The clients of one sandbox core share its ledger: a retry is recognised under any
\* client's defaults, an operation ID has one principal, every watch is released once,
\* and nobody waits for a process that has ended (Submit, releaseWatch, Close,
\* completeProcessLocked).
CoreIsShared == part = "core" => LedgerIsShared

\* Whatever chunks a process writes, a reader is shown its output redacted, in order and
\* from the tail that is retained, and is told of what it missed (appendOutput, Read).
OutputIsRead == part = "spool" => OutputIsAccounted

\* What the resource store answered survives a stop of the process at any step
\* (AttachVolume, CreateSnapshot, openResourceStore).
StoreIsDurable == part \in {"volumes", "snapshots"} => ToldIsDurable


\* A boot probe that passed has proved its machine, and one session launched it once
\* (LinuxHost, BootProbeSession).
ProbeIsProved ==
    /\ part = "jailer" => EvidenceIsEarned
    /\ part \in {"session", "handoff", "lease"} => ProbeIsSingular

\* A caller of the control API reads what was accepted and committed, in its order
\* (Server, PostgresResourceReadModel).
ControlReadsTrue ==
    /\ part = "api" => ControlTellsTheTruth
    /\ part \in {"lists", "follows", "views"} => ProjectionsAreTruthful
====
