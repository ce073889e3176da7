------------------------------ MODULE Backfill ------------------------------
(***************************************************************************)
(* The Agent-spec backfill controller (internal/agentspecbackfill): the    *)
(* custom resources that hold one immutable request and its terminal       *)
(* status each, the controller replicas that list, watch and reconcile     *)
(* them, and the archive exporter that copies terminal evidence out.       *)
(*                                                                         *)
(* A request is a place in the list order: List sorts the canonical wires, *)
(* so that request 1 is always reconciled before request 2. Time is a      *)
(* counter; a request is admitted from its creation until it expires. A    *)
(* malformed object, wire or status is refused by requestFromObject,       *)
(* ParseRequest and statusFromObject before any step taken here.           *)
(***************************************************************************)
EXTENDS Integers, Sequences, FiniteSets

CONSTANTS Controller,  \* replicas of the controller process
          Requests,    \* number of requests
          Created,     \* when each request is admitted, by place
          Expires,     \* when each request expires, by place
          MaxNow,      \* bound on the clock
          MaxFaults    \* bound on Kubernetes API failures

ASSUME BackfillAssumption ==
    /\ Requests \in Nat \ {0}
    /\ MaxNow \in Nat
    /\ MaxFaults \in Nat
    /\ \A r \in 1..Requests : Created[r] < Expires[r]

VARIABLES clock,       \* now
          frozen,      \* what the fenced legacy set looks like to Verify
          resource,    \* each custom resource: its version and its status
          controller,  \* each replica: where it is and what it holds
          answered,    \* the statuses reconciliation has returned, by request
          archive,     \* the archived status of each request
          faults       \* API failures so far

backfillVars == <<clock, frozen, resource, controller, answered, archive, faults>>

\* "none" stands for a field the code leaves empty.
NoStatus == [phase |-> "none", reason |-> "none", at |-> 0]

StatusOf(phase, reason, at) == [phase |-> phase, reason |-> reason, at |-> at]

\* Status.ValidateFor at time `now`: a verified or refused status must lie inside
\* the request's window, and a Verified one is valid only until the request
\* expires; not_admitted and expired lie outside the window by definition.
ValidateFor(r, s, now) ==
    /\ s.phase \in {"Verified", "Refused"}
    /\ s.at <= now
    /\ CASE s.reason = "not_admitted" -> s.at < Created[r]
         [] s.reason = "expired"      -> s.at >= Expires[r]
         [] OTHER -> s.at >= Created[r] /\ s.at < Expires[r] /\ now < Expires[r]

\* classifyVerificationError and the checks of Verify: how a look at the frozen
\* set ends. "error" is a cancelled context or an unclassified failure.
Verdict(r, now, found) ==
    CASE now < Created[r]    -> StatusOf("Refused", "not_admitted", now)
      [] now >= Expires[r]   -> StatusOf("Refused", "expired", now)
      [] found = "stale"     -> StatusOf("Refused", "snapshot", now)
      [] found = "corrupt"   -> StatusOf("Refused", "content", now)
      [] OTHER               -> StatusOf("Verified", "none", now)

NewController ==
    [at |-> "list", queue |-> <<>>, watching |-> FALSE, now |-> 0,
     version |-> 0, candidate |-> NoStatus, seen |-> [r \in 1..Requests |-> 0]]

ReplicaAt(c, place) == controller[c].at = place

Reconciling(c) == Head(controller[c].queue)

ReplicaMoves(c, k) == controller' = [controller EXCEPT ![c] = k]

\* An API call that fails. Only MaxFaults of them do.
KubeUnavailable == faults < MaxFaults /\ faults' = faults + 1

\* ReconcileWire of the request at the head of the queue ended without an error.
Reconciled(k) ==
    [NewController EXCEPT
        !.at = IF Len(k.queue) > 1 THEN "begin" ELSE IF k.watching THEN "next" ELSE "watch",
        !.queue = Tail(k.queue), !.watching = k.watching, !.seen = k.seen]

\* It ended with one: from the list, Run returns it and the process ends; from the
\* watch, Run closes the watch, waits and lists again.
ReconcileFailed(k) ==
    [NewController EXCEPT !.at = IF k.watching THEN "list" ELSE "stopped"]

\* Reconcile's last step: the stored status is returned if it is valid at the
\* instant this reconciliation began.
validateTerminal(c, k, s) ==
    LET r == Reconciling(c)
    IN  IF ValidateFor(r, s, k.now)
        THEN /\ ReplicaMoves(c, Reconciled(k))
             /\ answered' = [answered EXCEPT ![r] = @ \cup {s}]
        ELSE ReplicaMoves(c, ReconcileFailed(k)) /\ UNCHANGED answered
-----------------------------------------------------------------------------
Tick ==
    /\ clock < MaxNow
    /\ clock' = clock + 1
    /\ UNCHANGED <<frozen, resource, controller, answered, archive, faults>>

\* The legacy set stops matching the request, or its content stops verifying.
LegacySetChanges ==
    /\ frozen = "intact"
    /\ frozen' \in {"stale", "corrupt"}
    /\ UNCHANGED <<clock, resource, controller, answered, archive, faults>>

ListRequests(c) ==
    LET k == controller[c]
    IN  /\ ReplicaAt(c, "list")
        /\ \/ /\ ReplicaMoves(c, [k EXCEPT !.at = "begin",
                                    !.queue = [r \in 1..Requests |-> r],
                                    !.seen = [r \in 1..Requests |-> resource[r].version]])
              /\ UNCHANGED faults
           \/ KubeUnavailable /\ ReplicaMoves(c, [k EXCEPT !.at = "stopped"])
        /\ UNCHANGED <<clock, frozen, resource, answered, archive>>

\* The watch opens at the version of the preceding list, or fails and Run lists
\* again after the retry interval.
OpenWatch(c) ==
    LET k == controller[c]
    IN  /\ ReplicaAt(c, "watch")
        /\ \/ ReplicaMoves(c, [k EXCEPT !.at = "next", !.watching = TRUE]) /\ UNCHANGED faults
           \/ KubeUnavailable /\ ReplicaMoves(c, NewController)
        /\ UNCHANGED <<clock, frozen, resource, answered, archive>>

\* watchReader.Next: a modified object newer than what was seen, or the end of
\* the stream.
WatchNext(c) ==
    LET k == controller[c]
    IN  /\ ReplicaAt(c, "next")
        /\ \/ /\ \E r \in 1..Requests :
                    /\ resource[r].version > k.seen[r]
                    /\ ReplicaMoves(c, [k EXCEPT !.at = "begin", !.queue = <<r>>,
                                          !.seen[r] = resource[r].version])
              /\ UNCHANGED faults
           \/ KubeUnavailable /\ ReplicaMoves(c, ReconcileFailed(k))
        /\ UNCHANGED <<clock, frozen, resource, answered, archive>>

\* ReconcileWire fixes the instant of this reconciliation, then ReadTerminal.
ReconcileWire(c) ==
    LET k == [controller[c] EXCEPT !.now = clock]
        s == resource[Reconciling(c)].status
    IN  /\ ReplicaAt(c, "begin")
        /\ \/ /\ s # NoStatus
              /\ validateTerminal(c, k, s)
              /\ UNCHANGED faults
           \/ /\ s = NoStatus
              /\ ReplicaMoves(c, [k EXCEPT !.at = "verify"])
              /\ UNCHANGED <<answered, faults>>
           \/ KubeUnavailable /\ ReplicaMoves(c, ReconcileFailed(k)) /\ UNCHANGED answered
        /\ UNCHANGED <<clock, frozen, resource, archive>>

VerifyFrozen(c) ==
    LET k == controller[c]
    IN  /\ ReplicaAt(c, "verify")
        /\ \/ /\ ReplicaMoves(c, [k EXCEPT !.at = "read",
                                    !.candidate = Verdict(Reconciling(c), k.now, frozen)])
              /\ UNCHANGED faults
           \/ KubeUnavailable /\ ReplicaMoves(c, ReconcileFailed(k))
        /\ UNCHANGED <<clock, frozen, resource, answered, archive>>

\* CreateTerminal, first half: the object is read again; a terminal status that
\* is there by now is the winner.
CreateTerminal(c) ==
    LET k == controller[c]
        o == resource[Reconciling(c)]
    IN  /\ ReplicaAt(c, "read")
        /\ \/ /\ o.status # NoStatus
              /\ validateTerminal(c, k, o.status)
              /\ UNCHANGED faults
           \/ /\ o.status = NoStatus
              /\ ReplicaMoves(c, [k EXCEPT !.at = "update", !.version = o.version])
              /\ UNCHANGED <<answered, faults>>
           \/ KubeUnavailable /\ ReplicaMoves(c, ReconcileFailed(k)) /\ UNCHANGED answered
        /\ UNCHANGED <<clock, frozen, resource, archive>>

\* The mutated form of UpdateStatus that writes whatever the version is.
UpdateBlindly(c) ==
    LET k == controller[c]
        r == Reconciling(c)
    IN  /\ ReplicaAt(c, "update")
        /\ resource' = [resource EXCEPT ![r] = [version |-> @.version + 1,
                                                status  |-> k.candidate]]
        /\ validateTerminal(c, k, k.candidate)
        /\ UNCHANGED <<clock, frozen, archive, faults>>

\* CreateTerminal, second half. The API server refuses a stale version; the
\* conflict is resolved by reading the winner. A failed call may have written.
UpdateStatus(c) ==
    LET k == controller[c]
        r == Reconciling(c)
        written == [resource EXCEPT ![r] = [version |-> @.version + 1,
                                            status  |-> k.candidate]]
        fits == resource[r].version = k.version
    IN  /\ ReplicaAt(c, "update")
        /\ \/ /\ fits
              /\ resource' = written
              /\ validateTerminal(c, k, k.candidate)
              /\ UNCHANGED faults
           \/ /\ fits
              /\ KubeUnavailable
              /\ resource' \in {written, resource}
              /\ ReplicaMoves(c, ReconcileFailed(k))
              /\ UNCHANGED answered
           \/ /\ ~fits
              /\ ReplicaMoves(c, [k EXCEPT !.at = "conflict"])
              /\ UNCHANGED <<resource, answered, faults>>
        /\ UNCHANGED <<clock, frozen, archive>>

resolveConflict(c) ==
    LET k == controller[c]
        s == resource[Reconciling(c)].status
    IN  /\ ReplicaAt(c, "conflict")
        /\ IF s # NoStatus THEN validateTerminal(c, k, s)
           ELSE ReplicaMoves(c, ReconcileFailed(k)) /\ UNCHANGED answered
        /\ UNCHANGED <<clock, frozen, resource, archive, faults>>

\* The Deployment starts the process again once Run has returned.
ControllerRestarts(c) ==
    /\ ReplicaAt(c, "stopped")
    /\ ReplicaMoves(c, NewController)
    /\ UNCHANGED <<clock, frozen, resource, answered, archive, faults>>

\* Another writer touches the object without giving it a terminal status, which
\* moves its version.
ObjectTouched(r) ==
    /\ resource[r].status = NoStatus
    /\ resource[r].version = 1
    /\ resource' = [resource EXCEPT ![r].version = 2]
    /\ UNCHANGED <<clock, frozen, controller, answered, archive, faults>>

\* The exporter's RunOnce for one item: NewArchiveBundle validates the status at
\* its own completion time, and the archive keeps what it already has.
Export(r) ==
    LET s == resource[r].status
    IN  /\ s # NoStatus
        /\ s.at <= clock
        /\ ValidateFor(r, s, s.at)
        /\ archive[r] = NoStatus
        /\ archive' = [archive EXCEPT ![r] = s]
        /\ UNCHANGED <<clock, frozen, resource, controller, answered, faults>>
-----------------------------------------------------------------------------
BackfillInit ==
    /\ clock = 0
    /\ frozen = "intact"
    /\ resource = [r \in 1..Requests |-> [version |-> 1, status |-> NoStatus]]
    /\ controller = [c \in Controller |-> NewController]
    /\ answered = [r \in 1..Requests |-> {}]
    /\ archive = [r \in 1..Requests |-> NoStatus]
    /\ faults = 0

ControllerStep(c) ==
    \/ ListRequests(c) \/ OpenWatch(c) \/ WatchNext(c) \/ ReconcileWire(c) \/ VerifyFrozen(c)
    \/ CreateTerminal(c) \/ UpdateStatus(c) \/ resolveConflict(c)

BackfillNext ==
    \/ Tick
    \/ LegacySetChanges
    \/ \E c \in Controller : ControllerStep(c) \/ ControllerRestarts(c)
    \/ \E r \in 1..Requests : ObjectTouched(r) \/ Export(r)

BackfillSpec == BackfillInit /\ [][BackfillNext]_backfillVars
-----------------------------------------------------------------------------
(***************************************************************************)
(* Properties.                                                             *)
(***************************************************************************)

\* There is one verdict per request: whatever replicas race, retry after a lost
\* answer or resolve a version conflict, every status a reconciliation returned
\* and the archived one are the status the resource holds.
OneVerdict ==
    \A r \in 1..Requests :
        /\ answered[r] \subseteq {resource[r].status}
        /\ archive[r] # NoStatus => archive[r] = resource[r].status
=============================================================================
