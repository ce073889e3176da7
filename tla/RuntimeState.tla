---------------------------- MODULE RuntimeState ----------------------------
(***************************************************************************)
(* The state authority of the runtime: internal/runtimestate.  One Session *)
(* of one tenant, with its Turns, model invocations, tool intents,         *)
(* approvals, capability grants, tool executions and product events.       *)
(*                                                                         *)
(* RuntimeStatePlanner.Plan turns a prior state and a command into a whole *)
(* next state or an error, and both stores replace the state atomically,   *)
(* so a command is one step and a refused command is no step at all.       *)
(*                                                                         *)
(* Identifiers are small naturals in allocation order: a Turn is its       *)
(* position in the Session, an invocation is its ordinal in its Turn       *)
(* (ordinal and fence are both one more than the greatest of the Turn), and *)
(* a grant has the identifier of the approval that issued it.  The clock   *)
(* appears as the set of approvals whose ExpiresAt has passed; a grant     *)
(* inherits the ExpiresAt of its approval.  Audit facts and their outbox   *)
(* routes are appended by every command and read by none: they are left    *)
(* out.  Leases on outbox records are in module Outbox.                    *)
(***************************************************************************)
EXTENDS Naturals, Sequences, FiniteSets, SequencesExt

CONSTANTS
    MaxTurns,        \* bound on the Inputs admitted to the Session
    MaxInvocations,  \* bound on the model invocations of one Turn
    MaxApprovals,    \* bound on the approvals requested in the Session
    MaxOperations,   \* bound on the tool executions of the Session
    MaximumUses,     \* the MaximumUses every approval of the instance asks for
    ToolCall,        \* identifiers of tool calls
    Policy           \* names of policies

ASSUME ConstantsAssumption ==
    /\ MaxTurns \in Nat
    /\ MaxInvocations \in Nat
    /\ MaxApprovals \in Nat
    /\ MaxOperations \in Nat
    /\ MaximumUses \in Nat \ {0}
    /\ Policy # {}

VARIABLES
    session,         \* the state of the Session
    sessionVersion,
    turn,            \* the state of every Turn, "none" before admission
    turnVersion,
    invocation,      \* for every Turn the states of its invocations
    toolIntent,      \* pairs of a Turn and a tool call
    approval,
    overdue,         \* approvals whose ExpiresAt is not after the clock
    grant,
    execution,       \* tool executions by OperationID
    events           \* the product events of the Session, in sequence order

vars == <<session, sessionVersion, turn, turnVersion, invocation, toolIntent,
          approval, overdue, grant, execution, events>>

Turn == 1..MaxTurns
Approval == 1..MaxApprovals
Operation == 1..MaxOperations

SessionState == {"open", "closing", "completed", "cancelled", "failed"}
Terminal == {"succeeded", "failed", "cancelled"}
TurnState == {"none", "queued", "running", "waiting_for_approval"} \cup Terminal
InvocationState == {"intent", "succeeded", "failed", "cancelled", "uncertain"}
ApprovalState == {"none", "pending", "approved", "denied", "expired", "cancelled"}
ExecutionState == {"none", "intent", "succeeded", "failed", "uncertain"}
EventKind == {"session.created", "input.accepted", "turn.queued", "turn.started",
              "turn.succeeded", "turn.failed", "turn.cancelled", "producer.gap",
              "approval.resolved", "approval.expired", "approval.cancelled",
              "sandbox_operation.finalized", "session.closing",
              "session.completed", "session.cancelled", "session.failed"}

NoApproval == [state |-> "none", turn |-> 0, policy |-> CHOOSE p \in Policy : TRUE]

(***************************************************************************)
(* Helpers.                                                                *)
(***************************************************************************)
\* A product event carries the Turn it was recorded for, 0 for the Session.
Event(kind, t) == [kind |-> kind, turn |-> t]

HasPending(ts) ==
    \E t \in Turn : ts[t] \in {"queued", "running", "waiting_for_approval"}

\* The part of validateState that a lifecycle command can fail: unique
\* identifiers hold by allocation, a second running Turn does not.
ValidateState(ts) ==
    \A s, t \in Turn : ts[s] = "running" /\ ts[t] = "running" => s = t

\* The queued Turn of lowest position, as a set of at most one Turn.
Promoted(ts) ==
    {t \in Turn : ts[t] = "queued" /\ \A u \in Turn : ts[u] = "queued" => t <= u}

Promote(ts) == [t \in Turn |-> IF t \in Promoted(ts) THEN "running" ELSE ts[t]]

\* Plan commits the Turns only if the resulting state validates.  Every change
\* of a Turn's state advances its version by one.
CommitTurns(ts) ==
    /\ ValidateState(ts)
    /\ turn' = ts
    /\ turnVersion' = [t \in Turn |-> IF ts[t] # turn[t] THEN turnVersion[t] + 1
                                                         ELSE turnVersion[t]]

\* A planner that reports every unsuccessful end as a failure.
TerminalEventCoarse(state) ==
    IF state = "succeeded" THEN "turn.succeeded" ELSE "turn.failed"

TerminalEvent(state) ==
    CASE state = "succeeded" -> "turn.succeeded"
      [] state = "cancelled" -> "turn.cancelled"
      [] OTHER -> "turn.failed"

Init ==
    /\ session = "open"
    /\ sessionVersion = 1
    /\ turn = [t \in Turn |-> "none"]
    /\ turnVersion = [t \in Turn |-> 0]
    /\ invocation = [t \in Turn |-> <<>>]
    /\ toolIntent = {}
    /\ approval = [a \in Approval |-> NoApproval]
    /\ overdue = {}
    /\ grant = [a \in Approval |-> [issued |-> FALSE, uses |-> 0, revoked |-> FALSE]]
    /\ execution = [o \in Operation |-> [state |-> "none", grant |-> 0]]
    /\ events = <<Event("session.created", 0)>>

(***************************************************************************)
(* Session and Turn lifecycle.                                             *)
(***************************************************************************)
\* AdmitInput: the Turn runs at once unless another Turn is running.
Admit(t) ==
    /\ session = "open"
    /\ turn[t] = "none"
    /\ \A u \in Turn : u < t => turn[u] # "none"
    /\ LET active == \E u \in Turn : turn[u] = "running"
       IN /\ CommitTurns([turn EXCEPT ![t] = IF active THEN "queued" ELSE "running"])
          /\ events' = events \o <<Event("input.accepted", t),
                                   Event(IF active THEN "turn.queued" ELSE "turn.started", t)>>
    /\ sessionVersion' = sessionVersion + 1
    /\ UNCHANGED <<session, invocation, toolIntent, approval, overdue, grant, execution>>

\* BeginInvocationAttempt: a durable provider intent, one ordinal and one fence
\* after those of the Turn.
Begin(t, sv, tv, fence) ==
    /\ sv = sessionVersion
    /\ tv = turnVersion[t]
    /\ turn[t] = "running"
    /\ fence \in {0, Len(invocation[t])}
    /\ Len(invocation[t]) < MaxInvocations
    /\ invocation' = [invocation EXCEPT ![t] = Append(@, "intent")]
    /\ turnVersion' = [turnVersion EXCEPT ![t] = @ + 1]
    /\ sessionVersion' = sessionVersion + 1
    /\ UNCHANGED <<session, turn, toolIntent, approval, overdue, grant, execution, events>>

\* RecordInvocationOutcome.
RecordOutcome(t, sv, tv, i, outcome) ==
    /\ sv = sessionVersion
    /\ tv = turnVersion[t]
    /\ i \in DOMAIN invocation[t]
    /\ invocation[t][i] = "intent"
    /\ turn[t] = "running"
    /\ invocation' = [invocation EXCEPT ![t][i] = outcome]
    /\ UNCHANGED <<session, sessionVersion, turn, turnVersion, toolIntent, approval,
                   overdue, grant, execution, events>>

\* SettleTurn, bound to the outcome of invocation i, or to none when i = 0.
Settle(t, sv, tv, i, outcome) ==
    /\ sv = sessionVersion
    /\ tv = turnVersion[t]
    /\ turn[t] = "running"
    /\ i # 0 => invocation[t][i] \in {"succeeded", "failed", "uncertain"}
    /\ LET ended == [turn EXCEPT ![t] = outcome]
           promoted == Promoted(ended) # {}
           completed == ~promoted /\ session = "closing"
           gap == i # 0 /\ invocation[t][i] = "uncertain"
       IN /\ CommitTurns(Promote(ended))
          /\ session' = IF completed THEN "completed" ELSE session
          /\ events' = events
                \o (IF gap THEN <<Event("producer.gap", t)>> ELSE <<>>)
                \o <<Event(TerminalEvent(outcome), t)>>
                \o (IF promoted THEN <<Event("turn.started", t)>> ELSE <<>>)
                \o (IF completed THEN <<Event("session.completed", t)>> ELSE <<>>)
    /\ sessionVersion' = sessionVersion + 1
    /\ UNCHANGED <<invocation, toolIntent, approval, overdue, grant, execution>>

\* A cancellation that leaves the approvals of its Turn pending.
PendingOfForgotten(t) == {}

PendingOf(t) == {a \in Approval : approval[a].turn = t /\ approval[a].state = "pending"}

Cancellable(t) == turn[t] \in {"running", "waiting_for_approval", "queued"}

\* CancelTurn: withdraws the Turn, its pending approvals and its unused grants.
Cancel(t) ==
    /\ Cancellable(t)
    /\ LET ended == [turn EXCEPT ![t] = "cancelled"]
           promoted == turn[t] # "queued" /\ Promoted(ended) # {}
           next == IF turn[t] # "queued" THEN Promote(ended) ELSE ended
           completed == ~promoted /\ session = "closing" /\ ~HasPending(next)
           withdrawn == PendingOf(t)
       IN /\ CommitTurns(next)
          /\ session' = IF completed THEN "completed" ELSE session
          /\ approval' = [a \in Approval |-> IF a \in withdrawn
                             THEN [approval[a] EXCEPT !.state = "cancelled"] ELSE approval[a]]
          /\ grant' = [a \in Approval |->
                         IF approval[a].turn = t /\ grant[a].issued /\ grant[a].uses = 0
                         THEN [grant[a] EXCEPT !.revoked = TRUE] ELSE grant[a]]
          /\ events' = events
                \o <<Event("turn.cancelled", t)>>
                \o (IF promoted THEN <<Event("turn.started", t)>> ELSE <<>>)
                \o (IF completed THEN <<Event("session.completed", t)>> ELSE <<>>)
                \o [i \in 1..Cardinality(withdrawn) |-> Event("approval.cancelled", t)]
    /\ sessionVersion' = sessionVersion + 1
    /\ UNCHANGED <<invocation, toolIntent, overdue, execution>>

\* CloseSession.
Close ==
    /\ session = "open"
    /\ LET drained == ~HasPending(turn)
       IN /\ session' = IF drained THEN "completed" ELSE "closing"
          /\ events' = events \o <<Event("session.closing", 0)>>
                \o (IF drained THEN <<Event("session.completed", 0)>> ELSE <<>>)
    /\ sessionVersion' = sessionVersion + 1
    /\ UNCHANGED <<turn, turnVersion, invocation, toolIntent, approval, overdue, grant, execution>>

\* CancelSession and FailSession differ in the terminal state only.
EndSession(state) ==
    /\ session \in {"open", "closing"}
    /\ ~HasPending(turn)
    /\ session' = state
    /\ sessionVersion' = sessionVersion + 1
    /\ events' = Append(events, Event(IF state = "failed" THEN "session.failed"
                                                          ELSE "session.cancelled", 0))
    /\ UNCHANGED <<turn, turnVersion, invocation, toolIntent, approval, overdue, grant, execution>>

CancelSession == EndSession("cancelled")
FailSession == EndSession("failed")

(***************************************************************************)
(* Tool intents, approvals and policies.                                   *)
(***************************************************************************)
\* ExpiresAt of a requested approval passes on the clock of the planner.
DeadlinePasses(a) ==
    /\ approval[a].state # "none"
    /\ a \notin overdue
    /\ overdue' = overdue \cup {a}
    /\ UNCHANGED <<session, sessionVersion, turn, turnVersion, invocation, toolIntent,
                   approval, grant, execution, events>>

RecordToolIntent(t, c) ==
    /\ turn[t] # "none"
    /\ toolIntent' = toolIntent \cup {<<t, c>>}
    /\ UNCHANGED <<session, sessionVersion, turn, turnVersion, invocation, approval,
                   overdue, grant, execution, events>>

\* What requestApproval and admitToolApproval have in common: the running Turn
\* is paused and a pending approval with a fresh identifier is stored.
PauseForApproval(a, t, p) ==
    /\ turn[t] = "running"
    /\ approval[a].state = "none"
    /\ \A b \in Approval : b < a => approval[b].state # "none"
    /\ CommitTurns([turn EXCEPT ![t] = "waiting_for_approval"])
    /\ approval' = [approval EXCEPT ![a] = [state |-> "pending", turn |-> t, policy |-> p]]
    /\ UNCHANGED <<session, sessionVersion, invocation, overdue, grant, execution, events>>

RequestApproval(a, t, c, p) ==
    /\ <<t, c>> \in toolIntent
    /\ PauseForApproval(a, t, p)
    /\ UNCHANGED toolIntent

AdmitToolApproval(a, t, c, p) ==
    /\ <<t, c>> \notin toolIntent
    /\ PauseForApproval(a, t, p)
    /\ toolIntent' = toolIntent \cup {<<t, c>>}

\* DecideApproval on an approval past its expiry records the expiry and leaves
\* the Turn as it is.
ExpireApproval(a) ==
    /\ approval[a].state = "pending"
    /\ a \in overdue
    /\ approval' = [approval EXCEPT ![a].state = "expired"]
    /\ events' = Append(events, Event("approval.expired", approval[a].turn))
    /\ UNCHANGED <<session, sessionVersion, turn, turnVersion, invocation, toolIntent,
                   overdue, grant, execution>>

Deny(a) ==
    /\ approval[a].state = "pending"
    /\ a \notin overdue
    /\ approval' = [approval EXCEPT ![a].state = "denied"]
    /\ events' = Append(events, Event("approval.resolved", approval[a].turn))
    /\ UNCHANGED <<session, sessionVersion, turn, turnVersion, invocation, toolIntent,
                   overdue, grant, execution>>

Approve(a) ==
    /\ approval[a].state = "pending"
    /\ a \notin overdue
    /\ turn[approval[a].turn] = "waiting_for_approval"
    /\ CommitTurns([turn EXCEPT ![approval[a].turn] = "running"])
    /\ approval' = [approval EXCEPT ![a].state = "approved"]
    /\ grant' = [grant EXCEPT ![a].issued = TRUE]
    /\ events' = Append(events, Event("approval.resolved", approval[a].turn))
    /\ UNCHANGED <<session, sessionVersion, invocation, toolIntent, overdue, execution>>

\* DecideApproval.
DecideApproval(a, decision) ==
    \/ ExpireApproval(a)
    \/ decision = "approved" /\ Approve(a)
    \/ decision = "denied" /\ Deny(a)

PendingUnder(p) ==
    {a \in Approval : approval[a].state = "pending" /\ approval[a].policy = p}

\* RegisterPolicyRevision: a new revision of p withdraws, one after the other,
\* every approval pending under p, cancels its Turn and promotes a queued one.
\* It fails as a whole when a Turn is not waiting or two Turns would run.
RegisterPolicy(p) ==
    LET stale == PendingUnder(p)
        order == SetToSortSeq(stale, <)
        queued == {t \in Turn : turn[t] = "queued"}
        withdrawn == {approval[a].turn : a \in stale}
        promoted == {t \in queued : Cardinality({u \in queued : u < t}) < Cardinality(stale)}
        invalidated(i) ==
            <<Event("turn.cancelled", approval[order[i]].turn)>>
            \o (IF i <= Cardinality(queued)
                THEN <<Event("turn.started", approval[order[i]].turn)>> ELSE <<>>)
            \o <<Event("approval.cancelled", approval[order[i]].turn)>>
    IN /\ \A t \in withdrawn : turn[t] = "waiting_for_approval"
       /\ CommitTurns([t \in Turn |-> IF t \in withdrawn THEN "cancelled"
                                      ELSE IF t \in promoted THEN "running" ELSE turn[t]])
       /\ approval' = [a \in Approval |-> IF a \in stale
                          THEN [approval[a] EXCEPT !.state = "cancelled"] ELSE approval[a]]
       /\ sessionVersion' = sessionVersion + Cardinality(stale)
       /\ events' = events \o FlattenSeq([i \in 1..Cardinality(stale) |-> invalidated(i)])
       /\ UNCHANGED <<session, invocation, toolIntent, overdue, grant, execution>>

(***************************************************************************)
(* Capability grants and tool executions.                                  *)
(***************************************************************************)

\* A consumption that does not look at the phase of the Turn.
ConsumeGrantAnyPhase(g) ==
    /\ grant[g].issued
    /\ ~grant[g].revoked
    /\ g \notin overdue
    /\ grant[g].uses < MaximumUses
    /\ grant' = [grant EXCEPT ![g].uses = @ + 1]
    /\ UNCHANGED <<session, sessionVersion, turn, turnVersion, invocation, toolIntent,
                   approval, overdue, execution, events>>

\* ConsumeCapabilityGrant: one use, only while the Turn runs.
ConsumeGrant(g) ==
    /\ grant[g].issued
    /\ turn[approval[g].turn] = "running"
    /\ ~grant[g].revoked
    /\ g \notin overdue
    /\ grant[g].uses < MaximumUses
    /\ grant' = [grant EXCEPT ![g].uses = @ + 1]
    /\ UNCHANGED <<session, sessionVersion, turn, turnVersion, invocation, toolIntent,
                   approval, overdue, execution, events>>

RevokeGrant(g) ==
    /\ grant[g].issued
    /\ grant[g].uses = 0
    /\ ~grant[g].revoked
    /\ g \notin overdue
    /\ \A o \in Operation : execution[o].grant # g
    /\ grant' = [grant EXCEPT ![g].revoked = TRUE]
    /\ UNCHANGED <<session, sessionVersion, turn, turnVersion, invocation, toolIntent,
                   approval, overdue, execution, events>>

ExpireGrant(g) ==
    /\ grant[g].issued
    /\ ~grant[g].revoked
    /\ g \in overdue
    /\ grant' = [grant EXCEPT ![g].revoked = TRUE]
    /\ UNCHANGED <<session, sessionVersion, turn, turnVersion, invocation, toolIntent,
                   approval, overdue, execution, events>>

\* An intent that does not require a consumed grant.
BeginToolExecutionUnconsumed(o, g) ==
    /\ grant[g].issued
    /\ turn[approval[g].turn] = "running"
    /\ execution[o].state = "none"
    /\ g \notin overdue
    /\ execution' = [execution EXCEPT ![o] = [state |-> "intent", grant |-> g]]
    /\ UNCHANGED <<session, sessionVersion, turn, turnVersion, invocation, toolIntent,
                   approval, overdue, grant, events>>

\* BeginToolExecution: the durable intent of one external effect.
BeginToolExecution(o, g) ==
    /\ grant[g].issued
    /\ turn[approval[g].turn] = "running"
    /\ execution[o].state = "none"
    /\ grant[g].uses # 0
    /\ g \notin overdue
    /\ execution' = [execution EXCEPT ![o] = [state |-> "intent", grant |-> g]]
    /\ UNCHANGED <<session, sessionVersion, turn, turnVersion, invocation, toolIntent,
                   approval, overdue, grant, events>>

\* RecordToolExecutionOutcome: the outcome also revokes the grant.
RecordToolOutcome(o, outcome) ==
    /\ execution[o].state = "intent"
    /\ LET g == execution[o].grant
       IN /\ execution' = [execution EXCEPT ![o].state = outcome]
          /\ grant' = [grant EXCEPT ![g].revoked = TRUE]
          /\ events' = Append(events, Event("sandbox_operation.finalized", approval[g].turn))
    /\ UNCHANGED <<session, sessionVersion, turn, turnVersion, invocation, toolIntent,
                   approval, overdue>>

-----------------------------------------------------------------------------
SessionNext == Close \/ CancelSession \/ FailSession

TurnNext(t) ==
    \/ Admit(t)
    \/ Begin(t, sessionVersion, turnVersion[t], Len(invocation[t]))
    \/ \E i \in DOMAIN invocation[t], outcome \in InvocationState \ {"intent"} :
           RecordOutcome(t, sessionVersion, turnVersion[t], i, outcome)
    \/ \E i \in {0} \cup DOMAIN invocation[t], outcome \in Terminal :
           Settle(t, sessionVersion, turnVersion[t], i, outcome)
    \/ Cancel(t)
    \/ \E c \in ToolCall : RecordToolIntent(t, c)
    \/ \E a \in Approval, c \in ToolCall, p \in Policy :
           RequestApproval(a, t, c, p) \/ AdmitToolApproval(a, t, c, p)

ApprovalNext(a) ==
    \/ DeadlinePasses(a)
    \/ \E decision \in {"approved", "denied"} : DecideApproval(a, decision)
    \/ ConsumeGrant(a)
    \/ RevokeGrant(a)
    \/ ExpireGrant(a)
    \/ \E o \in Operation : BeginToolExecution(o, a)

Next ==
    \/ SessionNext
    \/ \E t \in Turn : TurnNext(t)
    \/ \E a \in Approval : ApprovalNext(a)
    \/ \E p \in Policy : RegisterPolicy(p)
    \/ \E o \in Operation, outcome \in {"succeeded", "failed", "uncertain"} :
           RecordToolOutcome(o, outcome)

Spec == Init /\ [][Next]_vars

(***************************************************************************)
(* Properties.                                                             *)
(***************************************************************************)
\* The records of the state are well formed; a grant is never used more often
\* than its approval allows.
RecordsOK ==
    /\ session \in SessionState
    /\ sessionVersion \in Nat
    /\ turn \in [Turn -> TurnState]
    /\ turnVersion \in [Turn -> Nat]
    /\ invocation \in [Turn -> Seq(InvocationState)]
    /\ toolIntent \subseteq Turn \X ToolCall
    /\ approval \in [Approval -> [state : ApprovalState, turn : Turn \cup {0}, policy : Policy]]
    /\ overdue \subseteq Approval
    /\ grant \in [Approval -> [issued : BOOLEAN, uses : 0..MaximumUses, revoked : BOOLEAN]]
    /\ execution \in [Operation -> [state : ExecutionState, grant : Approval \cup {0}]]

\* Every variable has the type of the records it stands for.
TypeOK ==
    /\ RecordsOK
    /\ events \in Seq([kind : EventKind, turn : Turn \cup {0}])

\* TurnRunning is the only Turn allowed to progress a Session: whatever mix of
\* admissions, promotions, approvals and policy changes, at most one runs.
OneRunningTurn ==
    \A s, t \in Turn : turn[s] = "running" /\ turn[t] = "running" => s = t

\* A pending approval pauses exactly its own Turn: the Turn waits as long as
\* the approval is pending and no Turn has two pending approvals, so neither
\* Approve nor RegisterPolicy is ever refused because the Turn moved on.
PendingApprovalPausesTurn ==
    \A a \in Approval : approval[a].state = "pending" =>
        /\ turn[approval[a].turn] = "waiting_for_approval"
        /\ \A b \in Approval : b # a /\ approval[b].state = "pending"
               => approval[b].turn # approval[a].turn

\* Promotion is never missed: while a Turn is queued some Turn is running or
\* waiting, whose end will promote it.
NoStrandedQueue ==
    (\E t \in Turn : turn[t] = "queued")
        => \E t \in Turn : turn[t] \in {"running", "waiting_for_approval"}

\* The Turns of a Session take their turns: one runs, a paused one stays paused for its
\* approval alone, and no queued one is left behind (admitInput, requestApproval,
\* decideApproval, promote).
TurnsAreOrderly == OneRunningTurn /\ PendingApprovalPausesTurn /\ NoStrandedQueue

TerminalEventsOf(t) ==
    SelectSeq(events, LAMBDA e : e.turn = t /\
                  e.kind \in {"turn.succeeded", "turn.failed", "turn.cancelled"})

\* The event log tells every outcome exactly once: a Turn has one terminal
\* event when it is terminal, none before, and the event names the outcome.
OneTerminalEvent ==
    LET told == [succeeded |-> "turn.succeeded", failed |-> "turn.failed",
                 cancelled |-> "turn.cancelled"]
    IN \A t \in Turn : TerminalEventsOf(t) = IF turn[t] \in Terminal
                                             THEN <<Event(told[turn[t]], t)>> ELSE <<>>

\* A tool execution rests on an approved approval whose grant was consumed,
\* and no outcome leaves the grant usable.
ExecutionIsAuthorized ==
    \A o \in Operation : execution[o].state # "none" =>
        LET g == execution[o].grant
        IN /\ approval[g].state = "approved"
           /\ grant[g].uses # 0
           /\ execution[o].state # "intent" => grant[g].revoked

\* A step adds attempts to a Turn and decides those that are open, unless the Turn is over.
OutcomesStand ==
    \A t \in Turn :
        /\ Len(invocation'[t]) >= Len(invocation[t])
        /\ \A i \in DOMAIN invocation[t] :
              invocation'[t][i] # invocation[t][i] =>
                  invocation[t][i] = "intent" /\ turn'[t] \notin Terminal

\* A step consumes no grant of a Turn that is over and begins no execution under it.
AuthorityEnds ==
    \A a \in Approval : approval[a].state # "none" /\ turn[approval[a].turn] \in Terminal =>
        /\ grant'[a].uses = grant[a].uses
        /\ grant'[a].issued = grant[a].issued
        /\ \A o \in Operation : execution'[o].grant = a => execution[o].grant = a

\* What a Turn has settled is not revised: attempts are only added to it, a recorded
\* outcome is never replaced, nothing is recorded for a Turn that is over, and its end
\* is the last thing that happens to its authority: no grant of it is consumed and no
\* execution begun afterwards (recordModelOutcome, consumeApprovalGrant,
\* beginToolExecution).
NothingIsRevised == [][OutcomesStand /\ AuthorityEnds]_vars

(***************************************************************************)
(* What the documents say and the planner does not guarantee.              *)
(***************************************************************************)
\* "v1 serializes turns": an Input admitted while a Turn is active, be it
\* running or paused for an approval, is queued behind it.
TurnsSerialized ==
    \A s, t \in Turn :
        /\ turn[s] \in {"running", "waiting_for_approval"}
        /\ turn[t] \in {"running", "waiting_for_approval"}
        => s = t

\* A completed Session has drained: every accepted Turn is terminal.
CompletedIsDrained == session = "completed" => ~HasPending(turn)

\* The transition that drains a closing Session completes it.
ClosingHasWork == session = "closing" => HasPending(turn)

\* turn.started reports that a Turn became active: every running Turn has one.
StartIsReported ==
    \A t \in Turn : turn[t] = "running" =>
        \E i \in DOMAIN events : events[i] = Event("turn.started", t)

\* A Turn waiting for an approval remains cancellable.
WaitingIsCancellable ==
    \A t \in Turn : turn[t] = "waiting_for_approval" =>
        ValidateState(Promote([turn EXCEPT ![t] = "cancelled"]))

\* A cancelled or failed Session rejects every further mutation: its event log
\* has ended.
TerminalSessionIsSilent ==
    [][(session \in {"cancelled", "failed"}) => events' = events]_vars

=============================================================================
