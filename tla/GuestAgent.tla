----------------------------- MODULE GuestAgent -----------------------------
(***************************************************************************)
(* The guest agent (tools/firecracker/guest-agent), the init program of a  *)
(* microVM. Two parts, with no variable in common:                         *)
(*  - the control server (main.go, runner.go): one connection under one    *)
(*    deadline, CONNECT, one operation, its frames, and shutdown;          *)
(*  - the secret runner (secret_runner_linux.go, secret_sink_linux.go,     *)
(*    secret_containment_linux.go): a secret is sealed in a memfd, passed  *)
(*    to one command by descriptor, and withdrawn once the whole process   *)
(*    tree is gone. The agent does not compose the runner yet, so a secret *)
(*    dispatch is answered UNAVAILABLE.                                    *)
(* The host end of the connection, the cgroup and the kernel are external. *)
(***************************************************************************)
EXTENDS Integers, Sequences

CONSTANTS maximumGuestCommandOutputBytes,
          MaxProduced,     \* bound on what a command writes to a stream
          MaxDescendants   \* bound on processes a secret command starts

ASSUME AgentAssumption ==
    {maximumGuestCommandOutputBytes, MaxProduced, MaxDescendants} \subseteq Nat

VARIABLES agent,      \* the control server
          runner,     \* the secret runner
          secretFile, \* the sink's delivery for the process
          area,       \* whether the non-snapshot area holds the secret
          tree        \* the recipient: leader alive or not, descendants alive

agentVars == <<agent>>
secretVars == <<runner, secretFile, area, tree>>
guestAgentVars == <<agent, runner, secretFile, area, tree>>
-----------------------------------------------------------------------------
(***************************************************************************)
(* The control server.                                                     *)
(***************************************************************************)
NewAgent == [at |-> "listening", sent |-> <<>>, produced |-> 0, kept |-> 0,
             overflow |-> FALSE, exit |-> "none"]

AgentMoves(place) == agent' = [agent EXCEPT !.at = place]

Frame(kind, whole) == [kind |-> kind, whole |-> whole]

Plain(kind) == Frame(kind, TRUE)

\* A frame is written, or the write fails: the host is gone or the deadline passed.
Writes(frame, place) ==
    \/ agent' = [agent EXCEPT !.at = place, !.sent = Append(@, frame)]
    \/ AgentMoves("failed")

\* listen and the serial marker; then one connection within the deadline.
Accept ==
    /\ agent.at = "listening"
    /\ AgentMoves("connected") \/ AgentMoves("failed")

\* serveGuestHandshake: CONNECT must name this VM and fixture; OK answers it.
serveGuestHandshake ==
    /\ agent.at = "connected"
    /\ Writes(Plain("OK"), "operation") \/ AgentMoves("failed")

\* serveGuestOperation: the frame is one of the known operations and valid for this
\* VM, or the agent fails. A secret dispatch and any dispatch that is not a command
\* are answered UNAVAILABLE, the latter after its marker output.
serveGuestOperation ==
    /\ agent.at = "operation"
    /\ \/ Writes(Plain("PONG"), "shutdown")
       \/ Writes(Plain("CANCELLED"), "shutdown")
       \/ Writes(Plain("OUTPUT"), "unavailable")
       \/ AgentMoves("unavailable")
       \/ AgentMoves("command")
       \/ Writes(Plain("PROXY_OPEN"), "proxy")
       \/ AgentMoves("failed")

Unavailable ==
    /\ agent.at = "unavailable"
    /\ Writes(Plain("RESULT UNAVAILABLE"), "shutdown")

\* runGuestCommand up to Start: a payload that is no valid command, or a program
\* that cannot be started, is a FAILED result without output or observation.
startCommand ==
    /\ agent.at = "command"
    /\ AgentMoves("running") \/ AgentMoves("FAILED")

\* boundedGuestOutput.Write: bytes over the limit are dropped and marked.
commandWrites ==
    /\ agent.at = "running"
    /\ agent.produced < MaxProduced
    /\ agent' = [agent EXCEPT
          !.produced = @ + 1,
          !.kept = IF @ < maximumGuestCommandOutputBytes THEN @ + 1 ELSE @,
          !.overflow = agent.kept >= maximumGuestCommandOutputBytes]

\* Wait returns. A command that failed keeps the bytes that were kept; one that
\* succeeded is refused, without output, when a stream overflowed.
commandExits ==
    /\ agent.at = "running"
    /\ \E exit \in {"zero", "nonzero"} :
          agent' = IF exit = "zero" /\ agent.overflow
                   THEN [agent EXCEPT !.exit = "refused", !.at = "observation"]
                   ELSE [agent EXCEPT !.exit = exit, !.at = "output"]

\* writeGuestOutput: an empty stream writes no frame.
sendOutput ==
    /\ agent.at = "output"
    /\ IF agent.kept = 0 THEN AgentMoves("observation")
       ELSE Writes(Frame("OUTPUT", agent.kept = agent.produced), "observation")

\* The terminal observation of a child that was reaped, and the result.
sendObservation ==
    /\ agent.at = "observation"
    /\ Writes(Plain("GUEST_OBSERVATION"), IF agent.exit = "zero" THEN "SUCCEEDED" ELSE "FAILED")

sendResult ==
    /\ agent.at \in {"SUCCEEDED", "FAILED"}
    /\ Writes(Plain(IF agent.at = "SUCCEEDED" THEN "RESULT SUCCEEDED" ELSE "RESULT FAILED"), "shutdown")

\* serveGuestProxyOperation: PROXY_CONNECTED, the input, at most one PROXY_OUTPUT and
\* PROXY_RESULT; any other frame fails the agent before output is passed on.
serveGuestProxyOperation ==
    /\ agent.at = "proxy"
    /\ \/ \E kept \in 0..1 :
            agent' = [agent EXCEPT !.at = "proxied", !.sent = Append(@, Plain("PROXY_DATA")),
                                   !.kept = kept, !.produced = kept]
       \/ AgentMoves("failed")

sendProxied ==
    /\ agent.at = "proxied"
    /\ IF agent.kept = 0 THEN AgentMoves("SUCCEEDED")
       ELSE Writes(Plain("OUTPUT"), "SUCCEEDED")

\* Shutdown after an operation; a failed agent exits without it.
Shutdown ==
    /\ agent.at = "shutdown"
    /\ AgentMoves("off") \/ AgentMoves("failed")

AgentStep ==
    /\ \/ Accept \/ serveGuestHandshake \/ serveGuestOperation \/ Unavailable
       \/ startCommand \/ commandWrites \/ commandExits \/ sendOutput
       \/ sendObservation \/ sendResult \/ serveGuestProxyOperation \/ sendProxied
       \/ Shutdown
    /\ UNCHANGED secretVars
-----------------------------------------------------------------------------
(***************************************************************************)
(* The secret runner.                                                      *)
(***************************************************************************)
NoFile == [open |-> FALSE, bound |-> FALSE, reaped |-> FALSE, revoked |-> FALSE, active |-> FALSE]

RunnerMoves(place) == runner' = [runner EXCEPT !.at = place]

RunnerAt(place) == runner.at = place

Nobody == [leader |-> FALSE, descendants |-> 0]

\* Manager.Deliver through guestSecretSink.Deliver: the area begins, the memfd is
\* written and sealed, the delivery is registered; a failure ends the area again.
DeliverSecret ==
    /\ RunnerAt("new")
    /\ \/ /\ secretFile' = [NoFile EXCEPT !.open = TRUE, !.active = TRUE]
          /\ area' = TRUE
          /\ RunnerMoves("delivered")
       \/ RunnerMoves("failed") /\ UNCHANGED <<secretFile, area>>
    /\ UNCHANGED <<agent, tree>>

\* AttachToCommand and Start: the leader begins with the descriptor.
StartSecretCommand ==
    /\ RunnerAt("delivered")
    /\ \/ RunnerMoves("started") /\ tree' = [Nobody EXCEPT !.leader = TRUE]
       \/ RunnerMoves("abort") /\ UNCHANGED tree
    /\ UNCHANGED <<agent, secretFile, area>>

\* The parent's duplicate is closed. When that fails the leader is killed and
\* awaited, and the delivery is aborted as if the command had not started.
CloseChild ==
    /\ RunnerAt("started")
    /\ \/ RunnerMoves("contain") /\ UNCHANGED tree
       \/ RunnerMoves("abort") /\ tree' = [tree EXCEPT !.leader = FALSE]
    /\ UNCHANGED <<agent, secretFile, area>>

\* VerifyProcessContained and BindRunningProcess. Either may refuse: the leader is
\* killed and awaited and the delivery is kept, since the descriptor may have been
\* passed on.
BindRunningProcess ==
    /\ RunnerAt("contain")
    /\ \/ /\ RunnerMoves("waiting")
          /\ secretFile' = [secretFile EXCEPT !.bound = TRUE]
          /\ UNCHANGED tree
       \/ /\ RunnerMoves("failed")
          /\ tree' = [tree EXCEPT !.leader = FALSE]
          /\ UNCHANGED secretFile
    /\ UNCHANGED <<agent, area>>

\* waitForGuestSecretProcess: the leader exits, or is terminated and then killed.
waitForGuestSecretProcess ==
    /\ RunnerAt("waiting")
    /\ tree' = [tree EXCEPT !.leader = FALSE]
    /\ \E exit \in {"zero", "nonzero"} :
          runner' = [runner EXCEPT !.at = "exited", !.exit = exit]
    /\ UNCHANGED <<agent, secretFile, area>>

\* ConfirmTreeReaped: the leader's pidfd is ready and cgroup.procs is empty; if not,
\* the command returns without output and the delivery stays.
ConfirmTreeReaped ==
    /\ RunnerAt("exited")
    /\ IF tree = Nobody
       THEN RunnerMoves("reaped") /\ secretFile' = [secretFile EXCEPT !.reaped = TRUE]
       ELSE RunnerMoves("failed") /\ UNCHANGED secretFile
    /\ UNCHANGED <<agent, area, tree>>

\* RevokeAfterTreeReap: the descriptors are closed before the area is released; a
\* failure of either step returns without output.
RevokeSecret ==
    /\ RunnerAt("reaped")
    /\ secretFile.reaped
    /\ \/ /\ secretFile' = [NoFile EXCEPT !.reaped = TRUE, !.revoked = TRUE]
          /\ area' = FALSE
          /\ RunnerMoves("revoked")
       \/ /\ \E open \in BOOLEAN :
                secretFile' = [secretFile EXCEPT !.revoked = TRUE, !.open = open]
          /\ UNCHANGED area
          /\ RunnerMoves("failed")
    /\ UNCHANGED <<agent, tree>>

\* The redacted output is returned, unless a stream overflowed.
ReturnOutput ==
    /\ RunnerAt("revoked")
    /\ RunnerMoves("returned") \/ RunnerMoves("failed")
    /\ UNCHANGED <<agent, secretFile, area, tree>>

\* AbortBeforeStart: only a delivery no process was bound to; its descriptor is
\* closed, then the area is released.
AbortBeforeStart ==
    /\ RunnerAt("abort")
    /\ ~secretFile.bound
    /\ \/ secretFile' = [NoFile EXCEPT !.revoked = TRUE] /\ area' = FALSE
       \/ secretFile' = [secretFile EXCEPT !.revoked = TRUE] /\ UNCHANGED area
    /\ RunnerMoves("failed")
    /\ UNCHANGED <<agent, tree>>

\* External: the leader starts processes that inherit the descriptor; they end when
\* they like and outlive a signal to the leader's group.
DescendantStarts ==
    /\ tree.leader
    /\ tree.descendants < MaxDescendants
    /\ tree' = [tree EXCEPT !.descendants = @ + 1]
    /\ UNCHANGED <<agent, runner, secretFile, area>>

DescendantEnds ==
    /\ tree.descendants > 0
    /\ tree' = [tree EXCEPT !.descendants = @ - 1]
    /\ UNCHANGED <<agent, runner, secretFile, area>>

SecretStep ==
    \/ DeliverSecret \/ StartSecretCommand \/ CloseChild \/ BindRunningProcess
    \/ waitForGuestSecretProcess \/ ConfirmTreeReaped \/ RevokeSecret
    \/ ReturnOutput \/ AbortBeforeStart \/ DescendantStarts \/ DescendantEnds
-----------------------------------------------------------------------------
AgentInit ==
    /\ agent = NewAgent
    /\ runner = [at |-> "new", exit |-> "none"]
    /\ secretFile = NoFile
    /\ area = FALSE
    /\ tree = Nobody

AgentNext == AgentStep \/ SecretStep
-----------------------------------------------------------------------------
(***************************************************************************)
(* Properties.                                                             *)
(***************************************************************************)

Sent(kind) == \E n \in DOMAIN agent.sent : agent.sent[n].kind = kind

\* runGuestCommandWithSecret returns output only when the secret is withdrawn: the
\* whole tree is gone, the sealed file is closed and the area released. While a bound
\* delivery is not yet revoked the area is held, and SUCCEEDED is sent for a command
\* that exited zero, after its whole output.
GuestTellsAfterwards ==
    /\ RunnerAt("returned") => tree = Nobody /\ ~secretFile.open /\ ~area
    /\ secretFile.bound => area
    /\ Sent("RESULT SUCCEEDED") => \A n \in DOMAIN agent.sent : agent.sent[n].whole
=============================================================================
