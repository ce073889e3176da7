---------------------------- MODULE WorkspaceTransfer ----------------------------
(***************************************************************************)
(* Transfers between immutable artifacts and the workspace of a sandbox    *)
(* (internal/sandboxtransfer).  A file copied in is streamed into a        *)
(* staging file, verified and renamed over its target; an archive is       *)
(* staged, verified, validated, extracted member by member into a staging  *)
(* directory and renamed; a copy out hashes what it read before it hands   *)
(* the bytes to the sink.  Transfers of one host process run beside each   *)
(* other and beside the guest, which writes and removes files of its own,  *)
(* and the process may stop anywhere: its staging entries then stay.       *)
(* Content is a number of parts: chunks of a file, members of a directory.  *)
(***************************************************************************)
EXTENDS Naturals, Sequences

CONSTANTS Transfer,       \* transfers that may be under way together
          Target,         \* paths of the workspace that transfers name
          Artifact,       \* immutable artifacts
          Parts,          \* the parts of every artifact
          MaxStagings,    \* bound: staging names one process hands out
          MaxTransfers    \* bound: transfers begun

VARIABLES fs,            \* the entry at each name of the workspace
          xfer,          \* what each transfer is doing
          nextStaging,   \* the counter of the process's Workspace
          leftover,      \* staging names of processes that stopped
          retained,      \* artifacts the sink holds, with what they hold
          begun          \* transfers begun so far

transferVars == <<fs, xfer, nextStaging, leftover, retained, begun>>

StagingName == (1..MaxStagings) \X {"", ".tar"}

Entry(kind, of, got) == [kind |-> kind, of |-> of, got |-> got]
Absent == Entry("absent", "nothing", 0)

IdleTransfer == [pc |-> "idle"]
UnderWay == {p \in Transfer : xfer[p].pc # "idle"}
TransferAt(p, pc) == xfer[p].pc = pc
Proceeds(p, pc) == xfer' = [xfer EXCEPT ![p].pc = pc]
Ends(p) == xfer' = [xfer EXCEPT ![p] = IdleTransfer]

TransferInit ==
  /\ fs = [name \in Target \cup StagingName |-> Absent]
  /\ xfer = [p \in Transfer |-> IdleTransfer]
  /\ nextStaging = 0
  /\ leftover = {}
  /\ retained = {}
  /\ begun = 0

--------------------------------------------------------------------------------
(* A path outside the workspace, a malformed reference and a source larger   *)
(* than the workspace admits are refused before anything is read: nothing    *)
(* changes.  What is admitted then meets its target.  An existing file may   *)
(* be replaced only if the request says so, a directory never, and an        *)
(* archive replaces nothing.                                                 *)
checkTarget(target, overwrite) ==
  fs[target].kind = "absent" \/ (fs[target].kind = "file" /\ overwrite)

checkArchiveTarget(target) == fs[target].kind = "absent"

Begin(p, op, target, artifact) ==
  /\ TransferAt(p, "idle")
  /\ begun < MaxTransfers
  /\ begun' = begun + 1
  /\ xfer' = [xfer EXCEPT ![p] = [pc |-> "checked", op |-> op, target |-> target,
                                  of |-> artifact, names |-> <<>>]]
  /\ UNCHANGED <<fs, nextStaging, leftover, retained>>

BeginCopyIn(p, target, artifact, overwrite) ==
  /\ checkTarget(target, overwrite)
  /\ Begin(p, "copyIn", target, artifact)

BeginCopyArchiveIn(p, target, artifact) ==
  /\ checkArchiveTarget(target)
  /\ Begin(p, "archiveIn", target, artifact)

(* The source of a copy out is there: a directory is archived, a file is     *)
(* opened, and `of` is then what the open file holds.                        *)
BeginCopyOut(p, target) ==
  \/ /\ fs[target].kind = "directory"
     /\ Begin(p, "directoryOut", target, "nothing")
  \/ /\ fs[target].kind = "file"
     /\ Begin(p, "fileOut", target, fs[target].of)

(* Names come from a counter of the Workspace; an archive takes one for the  *)
(* archive and the next for the directory it is extracted to.                *)
stagingName(op) ==
  CASE op = "copyIn" -> <<<<nextStaging + 1, "">>>>
    [] op = "archiveIn" -> <<<<nextStaging + 1, ".tar">>, <<nextStaging + 2, "">>>>
    [] op = "directoryOut" -> <<<<nextStaging + 1, ".tar">>>>

Names(names) == {names[i] : i \in DOMAIN names}
Without(names) == [name \in DOMAIN fs |-> IF name \in Names(names) THEN Absent ELSE fs[name]]

(* The staging file is created exclusively.  A copy in leaves one it found   *)
(* alone; the other two have registered their cleanup by then and remove it. *)
CreateStaging(p) ==
  LET names == stagingName(xfer[p].op)
  IN  /\ TransferAt(p, "checked")
      /\ xfer[p].op # "fileOut"
      /\ nextStaging + Len(names) <= MaxStagings
      /\ nextStaging' = nextStaging + Len(names)
      /\ IF fs[names[1]] # Absent
         THEN /\ Ends(p)
              /\ fs' = IF xfer[p].op = "copyIn" THEN fs ELSE Without(names)
         ELSE /\ \E delivered \in {xfer[p].of} \cup
                      (IF xfer[p].op = "directoryOut" THEN {} ELSE {"damaged"}) :
                   fs' = [fs EXCEPT ![names[1]] = Entry("file", delivered, 0)]
              /\ xfer' = [xfer EXCEPT ![p].pc = "stream", ![p].names = names]
      /\ UNCHANGED <<leftover, retained, begun>>

(* A failure or a cancelled request: whatever the transfer staged goes.      *)
TransferFails(p) ==
  /\ p \in UnderWay
  /\ fs' = Without(xfer[p].names)
  /\ Ends(p)
  /\ UNCHANGED <<nextStaging, leftover, retained, begun>>

Staged(p) == fs[xfer[p].names[1]]

(* The source's bytes arrive; it may end early.                              *)
StreamIn(p) ==
  /\ TransferAt(p, "stream")
  /\ xfer[p].op \in {"copyIn", "archiveIn"}
  /\ \/ /\ Staged(p).got < Parts
        /\ fs' = [fs EXCEPT ![xfer[p].names[1]].got = @ + 1]
        /\ UNCHANGED xfer
     \/ /\ Proceeds(p, "verify")
        /\ UNCHANGED fs
  /\ UNCHANGED <<nextStaging, leftover, retained, begun>>

(* The length and the digest of what was streamed.                           *)
Verified(p) == Staged(p).got = Parts /\ Staged(p).of = xfer[p].of

(* rename replaces a file, whatever was checked before, and no directory.    *)
CommitCopyIn(p) ==
  /\ TransferAt(p, "verify")
  /\ xfer[p].op = "copyIn"
  /\ Verified(p)
  /\ fs[xfer[p].target].kind # "directory"
  /\ fs' = [fs EXCEPT ![xfer[p].target] = Staged(p), ![xfer[p].names[1]] = Absent]
  /\ Ends(p)
  /\ UNCHANGED <<nextStaging, leftover, retained, begun>>

--------------------------------------------------------------------------------
(* Every member is validated, its path, kind, size and overlap with the      *)
(* others, before the directory to extract into is made.                     *)
ValidateArchive(p) ==
  /\ TransferAt(p, "verify")
  /\ xfer[p].op = "archiveIn"
  /\ Verified(p)
  /\ IF fs[xfer[p].names[2]] = Absent
     THEN /\ fs' = [fs EXCEPT ![xfer[p].names[2]] = Entry("directory", xfer[p].of, 0)]
          /\ Proceeds(p, "extract")
     ELSE /\ fs' = Without(xfer[p].names)
          /\ Ends(p)
  /\ UNCHANGED <<nextStaging, leftover, retained, begun>>

Extracted(p) == fs[xfer[p].names[2]]

extractArchiveFile(p) ==
  /\ TransferAt(p, "extract")
  /\ Extracted(p).got < Parts
  /\ fs' = [fs EXCEPT ![xfer[p].names[2]].got = @ + 1]
  /\ UNCHANGED <<xfer, nextStaging, leftover, retained, begun>>

(* The extracted directory takes the target's place once every validated     *)
(* member was found again; rename lets a directory replace an empty one.     *)
CommitEarly(p) ==
  /\ TransferAt(p, "extract")
  /\ fs[xfer[p].target].kind = "absent"
  /\ fs' = [fs EXCEPT ![xfer[p].target] = Extracted(p), ![xfer[p].names[2]] = Absent]
  /\ Proceeds(p, "archived")
  /\ UNCHANGED <<nextStaging, leftover, retained, begun>>
CommitArchiveIn(p) ==
  /\ TransferAt(p, "extract")
  /\ Extracted(p).got = Parts
  /\ fs[xfer[p].target] \in {Absent, Entry("directory", "guest", 0)}
  /\ fs' = [fs EXCEPT ![xfer[p].target] = Extracted(p), ![xfer[p].names[2]] = Absent]
  /\ Proceeds(p, "archived")
  /\ UNCHANGED <<nextStaging, leftover, retained, begun>>

RemoveArchive(p) ==
  /\ TransferAt(p, "archived")
  /\ fs' = [fs EXCEPT ![xfer[p].names[1]] = Absent]
  /\ Ends(p)
  /\ UNCHANGED <<nextStaging, leftover, retained, begun>>

--------------------------------------------------------------------------------
(* A directory going out is written to a staging archive member by member,   *)
(* each as it is when its turn comes.                                        *)
writeArchiveDirectory(p) ==
  LET source == fs[xfer[p].target]
      read == IF Staged(p).of \in {"nothing", source.of} THEN source.of ELSE "mixture"
  IN  /\ TransferAt(p, "stream")
      /\ xfer[p].op = "directoryOut"
      /\ source.kind = "directory"
      /\ IF Staged(p).got < source.got
         THEN /\ fs' = [fs EXCEPT ![xfer[p].names[1]] = Entry("file", read, @.got + 1)]
              /\ UNCHANGED xfer
         ELSE /\ Proceeds(p, "hash")
              /\ UNCHANGED fs
      /\ UNCHANGED <<nextStaging, leftover, retained, begun>>

(* The digest of what is about to be sent, from a first reading: of the      *)
(* staging archive, or of the open file itself.                              *)
HashOut(p) ==
  /\ \/ TransferAt(p, "hash")
     \/ TransferAt(p, "checked") /\ xfer[p].op = "fileOut"
  /\ LET read == IF xfer[p].op = "fileOut" THEN xfer[p].of ELSE Staged(p).of
     IN  xfer' = [xfer EXCEPT ![p] = [pc |-> "put", op |-> @.op, target |-> @.target,
                                     of |-> @.of, names |-> @.names, digest |-> read]]
  /\ UNCHANGED <<fs, nextStaging, leftover, retained, begun>>

(* The sink reads the bytes again and retains them only under the digest     *)
(* they have.                                                                *)
Retains(digest, content) == digest = content

PutOut(p) ==
  LET sent == IF xfer[p].op = "fileOut" THEN xfer[p].of ELSE Staged(p).of
  IN  /\ TransferAt(p, "put")
      /\ Retains(xfer[p].digest, sent)
      /\ retained' = retained \cup {[digest |-> xfer[p].digest, content |-> sent]}
      /\ fs' = Without(xfer[p].names)
      /\ Ends(p)
      /\ UNCHANGED <<nextStaging, leftover, begun>>

--------------------------------------------------------------------------------
(* The guest's own programs write, make directories and remove; a file they  *)
(* write in place changes under a transfer that has it open.                 *)
GuestChanges(target, entry, inPlace) ==
  /\ entry # fs[target]
  /\ inPlace => entry.kind = "file" /\ fs[target].kind = "file"
  /\ fs' = [fs EXCEPT ![target] = entry]
  /\ xfer' = [p \in Transfer |->
       IF inPlace /\ p \in UnderWay /\ xfer[p].op = "fileOut" /\ xfer[p].target = target
       THEN [xfer[p] EXCEPT !.of = entry.of] ELSE xfer[p]]
  /\ UNCHANGED <<nextStaging, leftover, retained, begun>>

GuestEntry == {Absent, Entry("file", "guest", Parts),
               Entry("directory", "guest", 0), Entry("directory", "guest", Parts)}

(* The process stops and another opens the workspace: its counter starts     *)
(* again, and what was staged stays.                                         *)
OpenWorkspace ==
  /\ UnderWay # {}
  /\ xfer' = [p \in Transfer |-> IdleTransfer]
  /\ leftover' = {name \in StagingName : fs[name] # Absent}
  /\ nextStaging' = 0
  /\ UNCHANGED <<fs, retained, begun>>

TransferStep(p) ==
  \/ \E t \in Target, a \in Artifact, overwrite \in BOOLEAN : BeginCopyIn(p, t, a, overwrite)
  \/ \E t \in Target, a \in Artifact : BeginCopyArchiveIn(p, t, a)
  \/ \E t \in Target : BeginCopyOut(p, t)
  \/ CreateStaging(p) \/ StreamIn(p) \/ CommitCopyIn(p)
  \/ ValidateArchive(p) \/ extractArchiveFile(p) \/ CommitArchiveIn(p) \/ RemoveArchive(p)
  \/ writeArchiveDirectory(p) \/ HashOut(p) \/ PutOut(p) \/ TransferFails(p)

TransferNext ==
  \/ \E p \in Transfer : TransferStep(p)
  \/ \E t \in Target, entry \in GuestEntry, inPlace \in BOOLEAN : GuestChanges(t, entry, inPlace)
  \/ OpenWorkspace

TransferSpec == TransferInit /\ [][TransferNext]_transferVars

--------------------------------------------------------------------------------
(* What a transfer puts at a path of the workspace is the whole of an        *)
(* artifact that was verified, never a part of one or damaged bytes: a       *)
(* failure, a cancellation or a stop at any step leaves the path as it was.  *)
TargetsAreWhole ==
  \A t \in Target : fs[t] # Absent /\ fs[t].of # "guest" =>
    fs[t].of \in Artifact /\ fs[t].got = Parts

(* No transfer removes or overwrites what another one under way has staged,  *)
(* and every staging entry belongs to a transfer under way or was left by a  *)
(* process that stopped.                                                     *)
StagingIsOwned ==
  /\ \A p \in UnderWay : xfer[p].names # <<>> => Staged(p).kind = "file"
  /\ \A name \in StagingName : fs[name] # Absent =>
       name \in leftover \/ \E p \in UnderWay : name \in Names(xfer[p].names)

(* What the sink holds under a digest is what has that digest, although the  *)
(* guest writes to the file between the two readings.                        *)
RetainedIsExact == \A r \in retained : r.digest = r.content

(* Transfers are all or nothing beside each other, the guest and a stop of   *)
(* their process, in both directions.                                        *)
TransfersAreWhole == TargetsAreWhole /\ StagingIsOwned /\ RetainedIsExact

================================================================================
