------------------------------ MODULE BootProbe ------------------------------
(***************************************************************************)
(* The private Firecracker boot probe, in its three independent parts:      *)
(*                                                                          *)
(*  - the v2 session (firecrackerbootprobev2): a chain of deliveries and an *)
(*    irreversible lifecycle in one record, changed by coordinators through *)
(*    compare-and-swap against a snapshot that may be stale;                *)
(*  - the handoff: host runs (firecrackerbootprobecomposition) submit a     *)
(*    stage-ready record that the control ledger seals into one command     *)
(*    (sandboxcontrol/bootprobe_v2.go), with lost replies, retries, crashes *)
(*    and a fence that may come at any time; the host-instance journal      *)
(*    (firecrackerbootprobejournal) keeps one launch intent;                *)
(*  - the v1 lease guard (firecrackerbootprobelease), whose callers pass    *)
(*    the time, which need not be monotonic.                                *)
(*                                                                          *)
(* Bindings, digests and signatures are abstracted to "exact": a record     *)
(* that is not exact is refused before any state is read.  A delivery's     *)
(* identifiers are fresh (control draws them at random).                    *)
(***************************************************************************)
EXTENDS Naturals, Sequences, FiniteSets

CONSTANTS Coordinator,     \* callers of the v2 coordinator
          maximumHistory,  \* superseded deliveries a session may keep
          MaxClock,        \* bound on time
          HostRun,         \* runs of the M4 composition, each with its own guest nonce
          RetryAttempts,
          MaxUint          \* the largest fence, where renewal must stop

ASSUME ProbeAssumption ==
    /\ maximumHistory \in Nat /\ MaxClock \in Nat
    /\ RetryAttempts \in Nat \ {0} /\ MaxUint \in Nat \ {0}

VARIABLES session,   \* the stored session: version, chain, phase, launch
          snapshot,  \* per coordinator: the snapshot it holds
          started,   \* every delivery that was recorded as started
          row,       \* the ledger's session: phase, sealed stage, command, fenced
          hostRun,   \* per run: place, attempts, the command it holds
          consumed,  \* the commands a stage consumed
          intent,    \* the host-instance journal: file, memory, holder, told
          guard,     \* the lease guard's state
          clock

chainVars == <<session, snapshot, started>>
handoffVars == <<row, hostRun, consumed, intent>>
probeVars == <<session, snapshot, started, row, hostRun, consumed, intent, guard, clock>>

ClockTicks ==
    /\ clock < MaxClock /\ clock' = clock + 1
    /\ UNCHANGED <<chainVars, handoffVars, guard>>

------------------------------------------------------------------------------
(* The v2 session *)

\* A delivery is its lifetime; its epoch and fence are its place in the chain.
Lifetime == {d \in [issued : 0 .. MaxClock, expires : 0 .. MaxClock] : d.issued < d.expires}

Current(s) == s.chain[Len(s.chain)]

NewSession(d) == [version |-> 1, chain |-> <<d>>, phase |-> "prepared", launch |-> 0]

isExactSuccessor(previous, d) == d.issued > previous.issued /\ d.expires > previous.expires

validSuccessor(s, d) ==
    /\ Len(s.chain) - 1 < maximumHistory
    /\ clock < Current(s).expires /\ d.issued <= clock /\ clock < d.expires
    /\ isExactSuccessor(Current(s), d)

\* Each transition returns the sessions it may yield: none when it is refused.
BeginCleanup(s) ==
    IF s.phase \in {"prepared", "launch-authorized", "launch-started"}
    THEN {[s EXCEPT !.phase = "cleanup-pending"]} ELSE {}

AuthorizeLaunch(s) ==
    CASE s.phase # "prepared" \/ clock < Current(s).issued -> {}
      [] clock >= Current(s).expires -> BeginCleanup(s)
      [] OTHER -> {[s EXCEPT !.phase = "launch-authorized", !.launch = Len(s.chain)]}

RecordLaunchStarted(s) ==
    CASE s.phase # "launch-authorized" \/ s.launch # Len(s.chain) \/ clock < Current(s).issued -> {}
      [] clock >= Current(s).expires -> BeginCleanup(s)
      [] OTHER -> {[s EXCEPT !.phase = "launch-started"]}

ConfirmCleanup(s) ==
    IF s.phase = "cleanup-pending" THEN {[s EXCEPT !.phase = "cleanup-confirmed"]} ELSE {}

\* A renewal of an authorized but not started session leads to cleanup: the renewed
\* delivery never reuses the authorization.
AcceptAuthenticatedSuccessor(s) ==
    IF s.phase = "cleanup-confirmed" THEN {}
    ELSE {[s EXCEPT !.chain = Append(@, d),
                    !.phase = IF @ = "launch-authorized" THEN "cleanup-pending" ELSE @] :
            d \in {l \in Lifetime : validSuccessor(s, l)}}

validLifecycleSuccessor(p, s) ==
    \/ /\ p.phase = "prepared" /\ s.phase = "launch-authorized" /\ s.launch = Len(p.chain)
       /\ Current(p).issued <= clock /\ clock < Current(p).expires
    \/ p.phase = "prepared" /\ s.phase = "cleanup-pending" /\ s.launch = 0
    \/ /\ p.phase = "launch-authorized" /\ s.phase = "launch-started" /\ s.launch = p.launch
       /\ Current(p).issued <= clock /\ clock < Current(p).expires
    \/ /\ p.phase \in {"launch-authorized", "launch-started"}
       /\ s.phase = "cleanup-pending" /\ s.launch = p.launch
    \/ p.phase = "cleanup-pending" /\ s.phase = "cleanup-confirmed" /\ s.launch = p.launch

validateSessionSuccessor(p, s) ==
    IF p.chain = s.chain THEN validLifecycleSuccessor(p, s)
    ELSE s \in AcceptAuthenticatedSuccessor(p)

Stores(s) ==
    /\ session' = [s EXCEPT !.version = session.version + 1]
    /\ started' = IF s.phase = "launch-started" /\ session.phase # "launch-started"
                  THEN started \cup {<<session.version, s.launch>>} ELSE started

\* The mutant of CompareAndSwap: the stored record is not compared.
SwapBlindly(c, s) ==
    /\ Stores(s)
    /\ snapshot' = [snapshot EXCEPT ![c] = session']

\* One transition of exactly the expected version and bytes is stored.
CompareAndSwap(c, s) ==
    /\ snapshot[c] = session
    /\ validateSessionSuccessor(session, s)
    /\ Stores(s)
    /\ snapshot' = [snapshot EXCEPT ![c] = session']

CoordinatorLoads(c) ==
    /\ snapshot[c] # session
    /\ snapshot' = [snapshot EXCEPT ![c] = session]
    /\ UNCHANGED <<session, started, handoffVars, guard, clock>>

\* RenewAuthenticated, AuthorizeLaunch, RecordLaunchStarted, BeginCleanup and
\* ConfirmCleanup of the coordinator: each from the snapshot its caller holds.
CoordinatorSwaps(c) ==
    /\ snapshot[c].version > 0
    /\ \E s \in AcceptAuthenticatedSuccessor(snapshot[c]) \cup AuthorizeLaunch(snapshot[c])
               \cup RecordLaunchStarted(snapshot[c]) \cup BeginCleanup(snapshot[c])
               \cup ConfirmCleanup(snapshot[c]) :
          CompareAndSwap(c, s)
    /\ UNCHANGED <<handoffVars, guard, clock>>

SessionStep == ClockTicks \/ \E c \in Coordinator : CoordinatorLoads(c) \/ CoordinatorSwaps(c)

\* A session records at most one launch start, and only of the delivery that was
\* authorized while it was current, whatever stale snapshots its coordinators hold.
LaunchStartsOnce ==
    /\ Cardinality(started) <= 1
    /\ session.phase = "launch-started" => \E s \in started : s[2] = session.launch
    /\ session.phase = "launch-authorized" => session.launch = Len(session.chain)

------------------------------------------------------------------------------
(* The handoff *)

At2(r, place) == hostRun' = [hostRun EXCEPT ![r].at = place]

\* The stage is compiled, then the nonce and the observation key are obtained.
Compile(r) ==
    /\ hostRun[r].at = "compile"
    /\ \E ok \in BOOLEAN : At2(r, IF ok THEN "submit" ELSE "cleanup")
    /\ UNCHANGED <<chainVars, row, consumed, intent, guard, clock>>

\* A byte-identical retry gets the command that was sealed, another stage-ready
\* record is refused; only the prepared session is authorized.
SealBootProbeStageReady(r) ==
    /\ ~row.fenced
    /\ IF row.command # "none" THEN row.stage = r /\ UNCHANGED row
       ELSE /\ row.phase = "prepared"
            /\ row' = [row EXCEPT !.phase = "launch-authorized", !.stage = r, !.command = r]

\* SubmitStageReady: the request or its reply may be lost, and is sent again.
SubmitStageReady(r) ==
    /\ hostRun[r].at = "submit" /\ hostRun[r].attempts < RetryAttempts
    /\ \/ /\ SealBootProbeStageReady(r)
          /\ hostRun' = [hostRun EXCEPT ![r].at = "record", ![r].command = row'.command]
       \/ SealBootProbeStageReady(r) /\ hostRun' = [hostRun EXCEPT ![r].attempts = @ + 1]
       \/ UNCHANGED row /\ hostRun' = [hostRun EXCEPT ![r].attempts = @ + 1]
    /\ UNCHANGED <<chainVars, consumed, intent, guard, clock>>

SubmitGivesUp(r) ==
    /\ hostRun[r].at = "submit" /\ hostRun[r].attempts = RetryAttempts
    /\ At2(r, "cleanup")
    /\ UNCHANGED <<chainVars, row, consumed, intent, guard, clock>>

\* The host instance's journal: an exclusive lock, and one intent for its whole life.
\* A save that fails after the rename leaves the file changed and the memory not.
StageLaunchIntent(r) ==
    /\ hostRun[r].at = "record" /\ intent.holder = r
    /\ LET c == hostRun[r].command IN
       \/ /\ intent.memory \in {"none", c}
          /\ intent' = [intent EXCEPT !.file = c, !.memory = c]
          /\ At2(r, "consume")
       \/ /\ intent.memory = "none" /\ intent' = [intent EXCEPT !.file = c] /\ At2(r, "cleanup")
       \/ UNCHANGED intent /\ At2(r, "cleanup")
    /\ UNCHANGED <<chainVars, row, consumed, guard, clock>>

OpenProbeJournal(r) ==
    /\ intent.holder = "none" /\ hostRun[r].at \notin {"done", "crashed"}
    /\ intent' = [intent EXCEPT !.holder = r, !.memory = intent.file]
    /\ UNCHANGED <<chainVars, row, hostRun, consumed, guard, clock>>

\* The command is consumed only after it was recorded.
Consume(r) ==
    /\ hostRun[r].at = "consume"
    /\ \E ok \in BOOLEAN :
          consumed' = IF ok THEN consumed \cup {hostRun[r].command} ELSE consumed
    /\ At2(r, "cleanup")
    /\ UNCHANGED <<chainVars, row, intent, guard, clock>>

Released(r) == [intent EXCEPT !.holder = IF @ = r THEN "none" ELSE @]

CleanupStage(r) ==
    /\ hostRun[r].at = "cleanup"
    /\ At2(r, "done") /\ intent' = Released(r)
    /\ UNCHANGED <<chainVars, row, consumed, guard, clock>>

RunCrashes(r) ==
    /\ hostRun[r].at \notin {"done", "crashed"}
    /\ At2(r, "crashed") /\ intent' = Released(r)
    /\ UNCHANGED <<chainVars, row, consumed, guard, clock>>

\* fencePostgresHost: the enrolment ends and the session converges to cleanup.
FenceHost ==
    /\ ~row.fenced
    /\ row' = [row EXCEPT !.fenced = TRUE, !.phase = "cleanup-pending"]
    /\ UNCHANGED <<chainVars, hostRun, consumed, intent, guard, clock>>

HandoffStep ==
    \/ FenceHost
    \/ \E r \in HostRun :
          \/ Compile(r) \/ SubmitStageReady(r) \/ SubmitGivesUp(r) \/ OpenProbeJournal(r)
          \/ StageLaunchIntent(r) \/ Consume(r) \/ CleanupStage(r) \/ RunCrashes(r)

\* One host-instance session yields one command: every command a run holds or has
\* consumed is the one the ledger sealed, over lost replies, retries, restarts of the
\* host and a fence, and a consumed command is the one in the journal.
OneCommandPerSession ==
    /\ \A r \in HostRun : hostRun[r].command \in {"none", row.command}
    /\ consumed \subseteq {row.command} \ {"none"}
    /\ consumed # {} => intent.file \in consumed

------------------------------------------------------------------------------
(* The v1 lease guard *)

\* The guard keeps the initial and the current grant, the renewals between them, and
\* two latches: the probe's start and the expiry.
\* State.Validate: the check a snapshot must pass to be encoded or restored.
ValidateLease(g) ==
    /\ g.fence <= MaxUint - g.renewals
    /\ g.renewals = 0 => g.current = g.initial
    /\ g.renewals > 0 => isExactSuccessor(g.initial, g.current)
    /\ g.probe => g.initial.issued <= g.startedAt /\ g.startedAt < g.current.expires
    /\ g.phase = "expired-cleanup-pending" => g.current.expires <= g.pendingAt

advanceTimeLocked(g, now) ==
    IF g.phase = "active" /\ now >= g.current.expires
    THEN [g EXCEPT !.phase = "expired-cleanup-pending", !.pendingAt = now] ELSE g

AdvanceTime(now) == guard' = advanceTimeLocked(guard, now)

\* Expiry is recorded even when the start is then refused.
RecordProbeStarted(now) ==
    LET g == advanceTimeLocked(guard, now) IN
    guard' = IF g.phase = "active" /\ ~g.probe /\ now >= g.current.issued
             THEN [g EXCEPT !.probe = TRUE, !.startedAt = now] ELSE g

\* Exactly the next grant; at the largest fence there is none.
RenewAuthenticated(now) ==
    LET g == advanceTimeLocked(guard, now) IN
    \/ guard' = g
    \/ /\ g.phase = "active" /\ g.fence + g.renewals < MaxUint
       /\ \E d \in Lifetime :
             /\ isExactSuccessor(g.current, d) /\ d.issued <= now /\ now < d.expires
             /\ guard' = [g EXCEPT !.current = d, !.renewals = @ + 1]

LeaseStep ==
    /\ \E now \in 0 .. MaxClock : AdvanceTime(now) \/ RecordProbeStarted(now) \/ RenewAuthenticated(now)
    /\ UNCHANGED <<chainVars, handoffVars, clock>>

\* No transition, with whatever clock reading, turns a valid lease state into one
\* that Restore and Encode would refuse after a restart.
LeaseStaysValid == ValidateLease(guard)

------------------------------------------------------------------------------
ProbeInit ==
    /\ clock = 0
    /\ \E d \in Lifetime : d.issued = 0 /\ session = NewSession(d)
    /\ snapshot = [c \in Coordinator |-> session] /\ started = {}
    /\ row = [phase |-> "prepared", stage |-> "none", command |-> "none", fenced |-> FALSE]
    /\ hostRun = [r \in HostRun |-> [at |-> "compile", attempts |-> 0, command |-> "none"]]
    /\ consumed = {}
    /\ intent = [file |-> "none", memory |-> "none", holder |-> "none"]
    /\ \E d \in Lifetime, f \in {1, MaxUint} :
          guard = [initial |-> d, current |-> d, fence |-> f, renewals |-> 0, phase |-> "active",
                   probe |-> FALSE, startedAt |-> 0, pendingAt |-> 0]

\* A boot probe is authorized, started and leased once: racing coordinators record one
\* launch (CompareAndSwap), racing and crashing host runs consume one command
\* (SealBootProbeStageReady, StageLaunchIntent), and no clock reading leaves a lease
\* state that a restart would refuse (Guard).
ProbeIsSingular == LaunchStartsOnce /\ OneCommandPerSession /\ LeaseStaysValid
=============================================================================
