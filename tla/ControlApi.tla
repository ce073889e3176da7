------------------------------ MODULE ControlApi ------------------------------
(* The sandbox.control/v1 handlers (sandboxcontrolapi/server.go) over the operation
   ledger of one principal.

   A client binds once and sends its assertion with every request.  A submission
   fixes its times when the request arrives and is accepted by the ledger later; a
   watch reads the operation's outbox records and then, in a second query, the
   operation itself; a wait polls until the operation is terminal.  Hosts move the
   operations meanwhile and answers may be lost. *)
EXTENDS Integers, Sequences, FiniteSets

CONSTANTS
    BoundClient,           \* clients of the principal
    ControlID,             \* operation ids they use
    ControlDigest,         \* canonical inputs
    VolumeInput,           \* those that create a volume (OperationCreateVolume)
    BindingLifetime,       \* config.BindingLifetime
    ControlRetention,      \* config.Retention
    maxOperationEventPage,
    MaxControlTime,        \* bound: clock readings
    MaxControlVersion,     \* bound: versions of one operation
    MaxControlRequests     \* bound: requests sent

VARIABLES
    instant,    \* config.Clock
    binding,    \* per client, the expiry of its assertion
    request,    \* per client, the request being served
    operation,  \* the ledger
    accepted,   \* the successful answers to submissions
    events,     \* per client and operation, the events it was sent
    requests    \* requests sent

controlApiVars == <<instant, binding, request, operation, accepted, events, requests>>

NoControlRequest == [at |-> "none"]
Unaccepted == [digest |-> "none", acceptedAt |-> 0, volume |-> 0, states |-> <<>>]

ControlApiInit ==
    /\ instant = 1
    /\ binding = [c \in BoundClient |-> 0]
    /\ request = [c \in BoundClient |-> NoControlRequest]
    /\ operation = [o \in ControlID |-> Unaccepted]
    /\ accepted = {}
    /\ events = [c \in BoundClient |-> [o \in ControlID |-> <<>>]]
    /\ requests = 0

ClockMoves ==
    /\ instant < MaxControlTime
    /\ instant' = instant + 1
    /\ UNCHANGED <<binding, request, operation, accepted, events, requests>>

-----------------------------------------------------------------------------
(* Binding and authentication *)

bindClient(c) ==
    /\ request[c] = NoControlRequest
    /\ binding' = [binding EXCEPT ![c] = instant + BindingLifetime]
    /\ UNCHANGED <<instant, request, operation, accepted, events, requests>>

\* The assertion names this identity and has not expired.
authenticateBound(c) == binding[c] > instant

\* A handler starts: r is its request, or the request is denied.
Arrives(c, r) ==
    /\ request[c] = NoControlRequest
    /\ requests < MaxControlRequests
    /\ requests' = requests + 1
    /\ request' = IF authenticateBound(c) THEN [request EXCEPT ![c] = r] ELSE request
    /\ UNCHANGED <<instant, binding, operation, accepted, events>>

\* The answer is written; whatever it says the handler is done.
Answered(c) == request' = [request EXCEPT ![c] = NoControlRequest]

\* The client gives up, the connection or the process is lost.
ClientGivesUp(c) ==
    /\ request[c] # NoControlRequest
    /\ Answered(c)
    /\ UNCHANGED <<instant, binding, operation, accepted, events, requests>>

-----------------------------------------------------------------------------
(* Submissions *)

\* toRecord, and for a volume the metadata that is admitted with it: it holds the
\* time its retention ends.
toRecord(digest) ==
    [digest |-> digest, acceptedAt |-> instant,
     volume |-> IF digest \in VolumeInput THEN instant + ControlRetention ELSE 0, states |-> <<"accepted">>]

submit(c, o, digest) == Arrives(c, [at |-> "submit", id |-> o, record |-> toRecord(digest)])

\* ErrOperationIDExpired is answered as a denial, ErrConflict as a conflict.
Reconnects(o, record) ==
    /\ operation[o].states # <<>>
    /\ operation[o].states[Len(operation[o].states)] # "tombstoned"
    /\ operation[o].digest = record.digest
    /\ operation[o].volume = record.volume

fromRecord(o, record) == [id |-> o, digest |-> record.digest, acceptedAt |-> record.acceptedAt]

\* Store.Accept or AcceptVolume: the operation as it is stored is the answer.
Accepts(c) ==
    LET r == request[c]
    IN /\ r.at = "submit"
       /\ operation' = IF operation[r.id] = Unaccepted THEN [operation EXCEPT ![r.id] = r.record] ELSE operation
       /\ accepted' = IF operation[r.id] = Unaccepted \/ Reconnects(r.id, r.record)
                      THEN accepted \cup {fromRecord(r.id, operation'[r.id])} ELSE accepted
       /\ Answered(c)
       /\ UNCHANGED <<instant, binding, events, requests>>

\* The ledger has committed and the answer is lost.
AcceptsUnheard(c) ==
    /\ request[c].at = "submit"
    /\ operation[request[c].id] = Unaccepted
    /\ operation' = [operation EXCEPT ![request[c].id] = request[c].record]
    /\ Answered(c)
    /\ UNCHANGED <<instant, binding, accepted, events, requests>>

-----------------------------------------------------------------------------
(* Observation *)

terminal(state) == state \in {"succeeded", "uncertain", "tombstoned"}

StateOf(o) == operation[o].states[Len(operation[o].states)]

get(c, o) == Arrives(c, [at |-> "get", id |-> o])
wait(c, o) == Arrives(c, [at |-> "wait", id |-> o])

\* The cursor a client resumes after is the one of the last event it was sent.
watch(c, o) == Arrives(c, [at |-> "watch", id |-> o, after |-> Len(events[c][o])])

\* Store.Get: get answers what it finds, wait only what is terminal, and asks again.
Gets(c) ==
    LET o == request[c].id
    IN /\ request[c].at \in {"get", "wait"}
       /\ IF request[c].at = "get" \/ operation[o] = Unaccepted
          THEN Answered(c)
          ELSE terminal(StateOf(o)) /\ Answered(c)
       /\ UNCHANGED <<instant, binding, operation, accepted, events, requests>>

\* The records after the cursor, a page of them; none is an answer of its own.
ReadsRecords(c) ==
    LET r == request[c]
        n == Len(operation[r.id].states)
        last == IF r.after + maxOperationEventPage < n THEN r.after + maxOperationEventPage ELSE n
    IN /\ r.at = "watch"
       /\ request' = [request EXCEPT ![c] =
             IF operation[r.id] = Unaccepted \/ last = r.after THEN NoControlRequest
             ELSE [at |-> "current", id |-> r.id,
                   records |-> [i \in 1..last - r.after |->
                                   [version |-> r.after + i, state |-> operation[r.id].states[r.after + i]]]]]
       /\ UNCHANGED <<instant, binding, operation, accepted, events, requests>>

\* Mutant: the state of the events is the one the second query found.
EventsOfCurrent(c) ==
    [i \in DOMAIN request[c].records |->
        [cursor |-> request[c].records[i].version, state |-> StateOf(request[c].id)]]

\* Every event is the current operation with the record's state and cursor.
OperationEvents(c) ==
    [i \in DOMAIN request[c].records |->
        [cursor |-> request[c].records[i].version, state |-> request[c].records[i].state]]

ReadsCurrent(c) ==
    /\ request[c].at = "current"
    /\ events' = [events EXCEPT ![c][request[c].id] = @ \o OperationEvents(c)]
    /\ Answered(c)
    /\ UNCHANGED <<instant, binding, operation, accepted, requests>>

\* Hosts and the reaper move an operation along.
OperationMoves(o) ==
    /\ operation[o] # Unaccepted
    /\ Len(operation[o].states) < MaxControlVersion
    /\ \E next \in CASE StateOf(o) = "accepted" -> {"dispatched"}
                     [] StateOf(o) = "dispatched" -> {"succeeded", "uncertain"}
                     [] StateOf(o) = "uncertain" -> {"dispatched", "succeeded"}
                     [] StateOf(o) = "succeeded" -> {"tombstoned"}
                     [] OTHER -> {} :
           operation' = [operation EXCEPT ![o].states = Append(@, next)]
    /\ UNCHANGED <<instant, binding, request, accepted, events, requests>>

-----------------------------------------------------------------------------
ControlApiNext ==
    \/ ClockMoves
    \/ \E o \in ControlID : OperationMoves(o)
    \/ \E c \in BoundClient :
        \/ bindClient(c)
        \/ \E o \in ControlID :
            \/ \E digest \in ControlDigest : submit(c, o, digest)
            \/ get(c, o)
            \/ wait(c, o)
            \/ watch(c, o)
        \/ Accepts(c) \/ AcceptsUnheard(c) \/ Gets(c) \/ ReadsRecords(c) \/ ReadsCurrent(c)
        \/ ClientGivesUp(c)

ControlApiSpec == ControlApiInit /\ [][ControlApiNext]_controlApiVars

-----------------------------------------------------------------------------
\* All successful answers for one operation id describe one operation: its input, and
\* the time it was first accepted, however often and by whom it was submitted (submit).
SubmissionsReconnect == \A a, b \in accepted : a.id = b.id => a = b

\* The events of an operation are its versions in order, none missing, each with the
\* state of its own version, although the operation moves between the two queries (watch).
EventsTellTheirVersion ==
    \A c \in BoundClient, o \in ControlID :
        events[c][o] = [i \in 1..Len(events[c][o]) |-> [cursor |-> i, state |-> operation[o].states[i]]]

\* What the control API tells its clients.
ControlTellsTheTruth == SubmissionsReconnect /\ EventsTellTheirVersion

\* A submission whose input is the stored one reconnects while the id has not expired
\* (seams-and-invariants.md: "same ID reconnects; different canonical request
\* conflicts"; volumeID: "stable for a principal/operation retry").
SameInputReconnects ==
    \A c \in BoundClient :
        LET r == request[c]
        IN (r.at = "submit" /\ operation[r.id] # Unaccepted /\ StateOf(r.id) # "tombstoned"
            /\ operation[r.id].digest = r.record.digest)
           => Reconnects(r.id, r.record)
=============================================================================
