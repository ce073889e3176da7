--------------------------- MODULE Orchestration ----------------------------
(***************************************************************************)
(* internal/runtimeorchestration composed with the state authority:        *)
(* publishers that signal the committed events of a Session to its         *)
(* Temporal workflow, the workflow that dispatches them one by one, and    *)
(* the activity that turns an accepted Input into a model invocation.      *)
(*                                                                         *)
(* Event i of the Session has sequence i and outbox record i; a page lists *)
(* the records in that order.  Temporal is external: a signal is queued,   *)
(* SignalWithStart starts a run when none is open, a run that ends takes   *)
(* the signals it did not receive with it, and one that continues as new   *)
(* may lose some of them.                                                  *)
(***************************************************************************)
EXTENDS RuntimeState, Outbox

CONSTANTS
    Publisher,      \* replicas of the orchestration process
    ContinueAfter,  \* commands of one run before it continues as new
    MaxFaults       \* bound on failed routes, lost answers and late acknowledgements

ASSUME OrchestrationAssumption ==
    /\ ContinueAfter \in Nat \ {0}
    /\ MaxFaults \in Nat
    /\ 0 \notin Publisher

VARIABLES
    outbox,     \* the record of every event
    phase,      \* of a publisher: idle, scan, route, acknowledge
    cursor,     \* the record it is at
    limit,      \* the records there were when it read its page
    holder,     \* the publisher whose claim of a record is the latest
    workflow,   \* the open run of the Session workflow
    signals,    \* the commands it has not received
    signalled,  \* the records whose route Temporal accepted
    handled,    \* the commands that were dispatched
    skipped,    \* the commands that were skipped as duplicates
    faults

publisherVars == <<phase, cursor, limit, holder>>
temporalVars == <<workflow, signals, signalled, handled, skipped>>
allVars == <<vars, outbox, publisherVars, temporalVars, faults>>

Record == 1..Len(events)

NoRun == [open |-> FALSE, nextSequence |-> 0, dispatched |-> 0]
NewRun == [open |-> TRUE, nextSequence |-> 0, dispatched |-> 0]

SessionEnd == {"session.completed", "session.cancelled", "session.failed"}

\* The events that route signals to the workflow.
Routed ==
    {"input.accepted", "turn.succeeded", "turn.failed", "turn.cancelled",
     "approval.resolved", "approval.expired", "approval.cancelled",
     "sandbox_operation.finalized", "session.closing"} \cup SessionEnd

OrchestrationInit ==
    /\ Init
    /\ outbox = <<NewRecord>>
    /\ phase = [p \in Publisher |-> "idle"]
    /\ cursor = [p \in Publisher |-> 0]
    /\ limit = [p \in Publisher |-> 0]
    /\ holder = <<0>>
    /\ workflow = NoRun
    /\ signals = <<>>
    /\ signalled = {} /\ handled = {} /\ skipped = {}
    /\ faults = 0

(***************************************************************************)
(* publishTenant.                                                          *)
(***************************************************************************)
Return(p) ==
    /\ phase' = [phase EXCEPT ![p] = "idle"]
    /\ cursor' = [cursor EXCEPT ![p] = 0]
    /\ limit' = [limit EXCEPT ![p] = 0]

ReadPage(p) ==
    /\ phase[p] = "idle"
    /\ phase' = [phase EXCEPT ![p] = "scan"]
    /\ cursor' = [cursor EXCEPT ![p] = 1]
    /\ limit' = [limit EXCEPT ![p] = Len(events)]
    /\ UNCHANGED <<vars, outbox, holder, temporalVars, faults>>

ClaimRecord(p) ==
    LET i == cursor[p]
    IN /\ phase[p] = "scan"
       /\ i <= limit[p]
       /\ Claimable(outbox[i])
       /\ outbox' = [outbox EXCEPT ![i] = Unversioned(Claim(@))]
       /\ holder' = [holder EXCEPT ![i] = p]
       /\ phase' = [phase EXCEPT ![p] = "route"]
       /\ UNCHANGED <<vars, cursor, limit, temporalVars, faults>>

\* A published record and one under a live claim are skipped, as the page shows
\* them or because the claim is refused.
PassOver(p) ==
    /\ phase[p] = "scan"
    /\ cursor[p] <= limit[p]
    /\ ~Claimable(outbox[cursor[p]])
    /\ cursor' = [cursor EXCEPT ![p] = @ + 1]
    /\ UNCHANGED <<vars, outbox, phase, limit, holder, temporalVars, faults>>

EndScan(p) ==
    /\ phase[p] = "scan"
    /\ cursor[p] > limit[p]
    /\ Return(p)
    /\ UNCHANGED <<vars, outbox, holder, temporalVars, faults>>

\* The call to Temporal that route makes for event i: StartSession for the first
\* event, SignalSession for a routed one, none for the others.
Send(i) ==
    /\ workflow' = IF workflow.open \/ (events[i].kind \notin Routed \cup {"session.created"})
                   THEN workflow ELSE NewRun
    /\ signals' = IF events[i].kind \in Routed THEN Append(signals, i) ELSE signals
    /\ signalled' = signalled \cup {i}
    /\ UNCHANGED <<handled, skipped>>

Route(p) ==
    /\ phase[p] = "route"
    /\ Send(cursor[p])
    /\ phase' = [phase EXCEPT ![p] = "acknowledge"]
    /\ UNCHANGED <<vars, outbox, cursor, limit, holder, faults>>

\* The call fails, or the process stops, before or after Temporal took the
\* signal.  The error ends the process, which is started again.
RouteFails(p) ==
    /\ phase[p] = "route"
    /\ faults < MaxFaults
    /\ faults' = faults + 1
    /\ Send(cursor[p]) \/ UNCHANGED temporalVars
    /\ Return(p)
    /\ UNCHANGED <<vars, outbox, holder>>

\* The record is acknowledged at its current version: any live claim will do.
AcknowledgeRecord(p) ==
    LET i == cursor[p]
    IN /\ phase[p] = "acknowledge"
       /\ IF LeaseFenceCurrent(outbox[i], outbox[i].version)
          THEN /\ outbox' = [outbox EXCEPT ![i] = Unversioned(Acknowledge(@))]
               /\ cursor' = [cursor EXCEPT ![p] = i + 1]
               /\ phase' = [phase EXCEPT ![p] = "scan"]
               /\ UNCHANGED limit
          ELSE Return(p) /\ UNCHANGED outbox
       /\ UNCHANGED <<vars, holder, temporalVars, faults>>

Held(i) == \E p \in Publisher :
               phase[p] \in {"route", "acknowledge"} /\ cursor[p] = i /\ holder[i] = p

AbandonedClaimExpires(i) ==
    /\ outbox[i].state = "claimed"
    /\ ~outbox[i].expired
    /\ ~Held(i)
    /\ outbox' = [outbox EXCEPT ![i] = Expire(@)]
    /\ UNCHANGED <<vars, publisherVars, temporalVars, faults>>

\* A claim runs out between the route and its acknowledgement.
HeldClaimExpires(i) ==
    /\ outbox[i].state = "claimed"
    /\ ~outbox[i].expired
    /\ Held(i)
    /\ faults < MaxFaults
    /\ faults' = faults + 1
    /\ outbox' = [outbox EXCEPT ![i] = Expire(@)]
    /\ UNCHANGED <<vars, publisherVars, temporalVars>>

(***************************************************************************)
(* SessionWorkflow and the activity DispatchStateCommand.                  *)
(***************************************************************************)
\* A dispatcher that does not look for the invocation of an earlier dispatch.
BeginInvocationAgain(t) ==
    IF turn[t] = "running" /\ Len(invocation[t]) < MaxInvocations
    THEN Begin(t, sessionVersion, turnVersion[t], 0)
    ELSE UNCHANGED vars

\* beginInvocation: only a running Turn without the invocation of this record.
BeginInvocation(t) ==
    IF turn[t] = "running" /\ invocation[t] = <<>>
    THEN Begin(t, sessionVersion, turnVersion[t], 0)
    ELSE UNCHANGED vars

Dispatch(i) ==
    IF events[i].kind = "input.accepted" THEN BeginInvocation(events[i].turn)
    ELSE UNCHANGED vars

Received == workflow.open /\ signals # <<>>

Stale(i) == i <= workflow.nextSequence

SkipCommand ==
    /\ Received
    /\ Stale(Head(signals))
    /\ signals' = Tail(signals)
    /\ skipped' = skipped \cup {Head(signals)}
    /\ UNCHANGED <<vars, outbox, publisherVars, workflow, signalled, handled, faults>>

Continued(i) == [NewRun EXCEPT !.nextSequence = i]

DispatchCommand ==
    LET i == Head(signals)
        dispatched == workflow.dispatched + 1
    IN /\ Received
       /\ ~Stale(i)
       /\ Dispatch(i)
       /\ handled' = handled \cup {i}
       /\ CASE events[i].kind \in SessionEnd ->
                  workflow' = NoRun /\ signals' = <<>>
            [] events[i].kind \notin SessionEnd /\ dispatched >= ContinueAfter ->
                  /\ workflow' = Continued(i)
                  /\ \E n \in 1..Len(signals) : signals' = SubSeq(signals, n + 1, Len(signals))
            [] OTHER ->
                  /\ workflow' = [workflow EXCEPT !.nextSequence = i, !.dispatched = dispatched]
                  /\ signals' = Tail(signals)
       /\ UNCHANGED <<outbox, publisherVars, signalled, skipped, faults>>

\* The activity committed, but its answer was lost: it will run again.
DispatchRepeats ==
    /\ Received
    /\ ~Stale(Head(signals))
    /\ faults < MaxFaults
    /\ faults' = faults + 1
    /\ Dispatch(Head(signals))
    /\ UNCHANGED <<outbox, publisherVars, temporalVars>>

\* The activity failed MaximumAttempts times, or for good: the run fails.
DispatchFails ==
    /\ Received
    /\ ~Stale(Head(signals))
    /\ faults < MaxFaults
    /\ faults' = faults + 1
    /\ workflow' = NoRun
    /\ signals' = <<>>
    /\ UNCHANGED <<vars, outbox, publisherVars, signalled, handled, skipped>>

(***************************************************************************)
(* The clients and the model worker.                                       *)
(***************************************************************************)
\* Every event a command records comes with a pending outbox record.  A failed
\* Turn is routed like one that succeeds.
Environment ==
    /\ \/ CancelSession
       \/ \E t \in Turn : Admit(t) \/ Cancel(t)
       \/ \E t \in Turn :
             \/ RecordOutcome(t, sessionVersion, turnVersion[t], 1, "succeeded")
             \/ /\ invocation[t] # <<>>
                /\ Settle(t, sessionVersion, turnVersion[t], 1, "succeeded")
    /\ outbox' = outbox \o [i \in 1..(Len(events') - Len(events)) |-> NewRecord]
    /\ holder' = holder \o [i \in 1..(Len(events') - Len(events)) |-> 0]
    /\ UNCHANGED <<phase, cursor, limit, temporalVars, faults>>

PublisherStep(p) ==
    ReadPage(p) \/ ClaimRecord(p) \/ PassOver(p) \/ EndScan(p) \/ Route(p) \/ AcknowledgeRecord(p)

WorkflowStep == SkipCommand \/ DispatchCommand

OrchestrationNext ==
    \/ Environment
    \/ \E p \in Publisher : PublisherStep(p) \/ RouteFails(p)
    \/ \E i \in Record : AbandonedClaimExpires(i) \/ HeldClaimExpires(i)
    \/ WorkflowStep \/ DispatchRepeats \/ DispatchFails

OrchestrationSpec == OrchestrationInit /\ [][OrchestrationNext]_allVars

\* Publishers keep scanning, the clock advances and Temporal runs its workflow.
OrchestrationFairness ==
    /\ \A p \in Publisher : WF_allVars(PublisherStep(p))
    /\ WF_allVars(\E i \in Record : AbandonedClaimExpires(i))
    /\ WF_allVars(WorkflowStep)

FairOrchestrationSpec == OrchestrationSpec /\ OrchestrationFairness

(***************************************************************************)
(* Properties.                                                             *)
(***************************************************************************)
\* Every variable has the type of what it stands for; a cursor stays in its page.
OrchestrationTypeOK ==
    /\ RecordsOK
    /\ outbox \in Seq(OutboxRecord) /\ Len(outbox) = Len(events)
    /\ phase \in [Publisher -> {"idle", "scan", "route", "acknowledge"}]
    /\ \A p \in Publisher : limit[p] <= Len(events) /\ cursor[p] <= limit[p] + 1
    /\ \A i \in DOMAIN signals : signals[i] \in Record
    /\ workflow.nextSequence \in 0..Len(events)

\* One Input is one model invocation, however often its route is signalled, its
\* activity repeated or its workflow started again.
OneInvocationPerInput == \A t \in Turn : Len(invocation[t]) <= 1

\* A record is published only after Temporal accepted its route.
PublishedIsSignalled == \A i \in Record : outbox[i].state = "published" => i \in signalled

\* Every event is eventually published: again and again nothing is left over.
EventIsPublished == []<>(\A i \in Record : outbox[i].state = "published")

StartedAtAdmission(t) ==
    \E i \in Record : /\ events[i] = Event("input.accepted", t)
                      /\ events[i + 1] = Event("turn.started", t)

\* With one publisher, a Turn that its admission started is invoked unless it
\* ends before or a fault happens.
StartedTurnIsInvoked ==
    \A t \in Turn : StartedAtAdmission(t) ~>
        invocation[t] # <<>> \/ turn[t] # "running" \/ faults > 0

(***************************************************************************)
(* What the documents say and the code does not guarantee.                 *)
(***************************************************************************)
\* What the workflow skips as a duplicate has been dispatched.
SkippedIsDuplicate == skipped \subseteq handled

\* A Turn that leaves the queue makes progress: it is invoked or ends.
RunningTurnIsInvoked ==
    \A t \in Turn : turn[t] = "running" ~> invocation[t] # <<>> \/ turn[t] # "running"

\* Every event is eventually published, and without a fault a Turn that its admission
\* started is eventually invoked or over (publisher loop, session workflow).
EventsTakeEffect == EventIsPublished /\ StartedTurnIsInvoked

\* However a signal is repeated, lost or sent to a later run, an Input is invoked once at
\* most and no record is acknowledged that was not signalled (publisher, dispatcher).
SignalledAndOnce == OneInvocationPerInput /\ PublishedIsSignalled

\* What tells two states apart for TLC: every command is bound to the versions it finds,
\* so they guard nothing here.
OrchestrationView ==
    <<session, turn, invocation, events, outbox, publisherVars, temporalVars, faults>>
=============================================================================
