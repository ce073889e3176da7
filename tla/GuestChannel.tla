---------------------------- MODULE GuestChannel ----------------------------
(***************************************************************************)
(* The host's private channel to one Firecracker guest (guest_channel.go),   *)
(* with the command secret Manager and the proxy session of                 *)
(* internal/sandboxauthority that two kinds of exchange carry.              *)
(*                                                                          *)
(* Each exchange runs in a goroutine of its own: it dials, is admitted to   *)
(* the channel's table, shakes hands and then follows the protocol of its   *)
(* kind.  Close empties the table.  The guest answers each frame well or    *)
(* not at all, and any exchange may lose its context.                       *)
(***************************************************************************)
EXTENDS Naturals, FiniteSets

CONSTANTS Exchange,                 \* the goroutines that use the channel
          maximumGuestOutputChunks

ASSUME GuestAssumption == maximumGuestOutputChunks \in Nat

VARIABLES channelClosed, \* channel.closed
          exchange,      \* the state of each exchange
          closing        \* the goroutine that calls Close: where it stands

guestVars == <<channelClosed, exchange, closing>>

\* An exchange: its private connection ("dialled" is not yet in the table), the
\* output frames read and whether a terminal observation followed them, the host's
\* copy of the secret, what is known of the guest's process tree, the durable
\* output, the proxy session and its connection to the outside.
newExchange == [at |-> "idle", kind |-> "none", connection |-> "none", outputs |-> 0, observed |-> FALSE,
           active |-> FALSE, audited |-> TRUE, reaped |-> FALSE, settled |-> "no",
           emitted |-> FALSE, session |-> "none", remote |-> "none", answer |-> "none"]

Becomes(x, e) == exchange' = [exchange EXCEPT ![x] = e]

Usable(x) == exchange[x].connection = "open"

\* The deferred calls of an exchange that returns: the connection leaves the table
\* and is closed, the proxy session is revoked with its connection, and a secret
\* that was delivered and not settled is abandoned to the Jailer's reaper.
Finish(x, e, answer) ==
    Becomes(x, [e EXCEPT !.at = "done", !.answer = answer,
                  !.connection = IF @ = "none" THEN @ ELSE "closed",
                  !.session = IF @ = "none" THEN @ ELSE "closed",
                  !.remote = IF @ = "none" THEN @ ELSE "closed",
                  !.active = @ /\ e.settled = "no" /\ ~e.audited,
                  !.settled = IF e.active /\ e.audited /\ e.settled = "no"
                              THEN "lost-contact-reaper-required" ELSE @])

Fails(x) == Finish(x, exchange[x], "unavailable")

\* An exchange for another VM, or a malformed command, is refused before the dial.
\* A proxy exchange enters its session in the table first.
BeginExchange(x) ==
    /\ exchange[x].at = "idle"
    /\ \/ Fails(x)
       \/ \E kind \in {"ping", "dispatch", "secret", "proxy"} :
             /\ kind = "proxy" => ~channelClosed
             /\ Becomes(x, [exchange[x] EXCEPT !.at = "open", !.kind = kind,
                              !.session = IF kind = "proxy" THEN "open" ELSE @])
    /\ UNCHANGED <<channelClosed, closing>>

\* open(): the table is read, then the socket is dialled outside the mutex.
OpenSocket(x) ==
    /\ exchange[x].at = "open"
    /\ IF channelClosed THEN Fails(x)
       ELSE Becomes(x, [exchange[x] EXCEPT !.at = "dial"])
    /\ UNCHANGED <<channelClosed, closing>>

\* Only a ping waits for the socket to appear, and only before a connection exists.
Dial(x) ==
    /\ exchange[x].at = "dial"
    /\ \/ Becomes(x, [exchange[x] EXCEPT !.at = "register", !.connection = "dialled"])
       \/ exchange[x].kind = "ping" /\ Becomes(x, [exchange[x] EXCEPT !.at = "open"])
       \/ Fails(x)
    /\ UNCHANGED <<channelClosed, closing>>


Register(x) ==
    /\ exchange[x].at = "register"
    /\ IF channelClosed THEN Fails(x)
       ELSE Becomes(x, [exchange[x] EXCEPT !.at = "handshake", !.connection = "open"])
    /\ UNCHANGED <<channelClosed, closing>>

\* One frame written and its one expected answer read.
Exchanged(x, place, e) ==
    /\ exchange[x].at = place
    /\ \/ Usable(x) /\ Becomes(x, e)
       \/ Fails(x)
    /\ UNCHANGED <<channelClosed, closing>>

Handshake(x) == Exchanged(x, "handshake", [exchange[x] EXCEPT !.at = "request"])

\* PING/PONG, DISPATCH, SECRET_DISPATCH with the guest's echo of the request, or
\* PROXY with the guest's PROXY_OPEN.
Request(x) ==
    /\ exchange[x].at = "request"
    /\ CASE exchange[x].kind = "ping" -> (Usable(x) /\ Finish(x, exchange[x], "pong")) \/ Fails(x)
         [] exchange[x].kind = "dispatch" ->
              (Usable(x) /\ Becomes(x, [exchange[x] EXCEPT !.at = "reading"])) \/ Fails(x)
         [] exchange[x].kind = "secret" ->
              (Usable(x) /\ Becomes(x, [exchange[x] EXCEPT !.at = "deliver"])) \/ Fails(x)
         [] OTHER ->
              (Usable(x) /\ Becomes(x, [exchange[x] EXCEPT !.at = "connect"])) \/ Fails(x)
    /\ UNCHANGED <<channelClosed, closing>>

(* readGuestDispatchResult: bounded output, at most one observation, one result *)

ReadOutput(x) ==
    /\ exchange[x].outputs < maximumGuestOutputChunks /\ ~exchange[x].observed
    /\ Exchanged(x, "reading", [exchange[x] EXCEPT !.outputs = @ + 1])

ReadObservation(x) ==
    /\ ~exchange[x].observed
    /\ Exchanged(x, "reading", [exchange[x] EXCEPT !.observed = TRUE])

ReadResult(x) ==
    /\ exchange[x].at = "reading" /\ Usable(x)
    /\ \E state \in {"SUCCEEDED", "FAILED", "UNAVAILABLE"} :
          /\ exchange[x].observed => state # "UNAVAILABLE"
          /\ Finish(x, exchange[x], state)
    /\ UNCHANGED <<channelClosed, closing>>

(* DispatchAuthenticatedSecret *)

\* Manager.Deliver: the resolver, the sink's SECRET_VALUE and SECRET_READY, then the
\* retained copy and its audit record.  A failed record returns an error although
\* the copy is retained, and the exchange then has nothing it would settle.
Deliver(x) ==
    /\ exchange[x].at = "deliver"
    /\ \/ Fails(x)
       \/ /\ Usable(x)
          /\ \E recorded \in BOOLEAN :
               LET e == [exchange[x] EXCEPT !.active = TRUE, !.audited = recorded] IN
               IF recorded THEN Becomes(x, [e EXCEPT !.at = "running"])
                           ELSE Finish(x, e, "unavailable")
    /\ UNCHANGED <<channelClosed, closing>>

\* SECRET_START and the output held back until SECRET_TREE_REAPED.
ReadHeldOutput(x) ==
    /\ exchange[x].outputs < maximumGuestOutputChunks
    /\ Exchanged(x, "running", [exchange[x] EXCEPT !.outputs = @ + 1])

TreeReaped(x) ==
    Exchanged(x, "running", [exchange[x] EXCEPT !.at = "revoke", !.reaped = TRUE])

\* The sink confirms the revocation, then the only retained copy is overwritten.
RevokeAfterTreeReap(x) ==
    /\ exchange[x].active /\ exchange[x].reaped
    /\ Exchanged(x, "revoke", [exchange[x] EXCEPT !.at = "terminal", !.active = FALSE,
                                 !.settled = "revoked-after-tree-reap"])

\* The terminal frame, then the redacted output is handed to its durable owner.
EmitHeldOutput(x) ==
    /\ exchange[x].at = "terminal"
    /\ \/ Fails(x)
       \/ /\ Usable(x)
          /\ \E state \in {"SUCCEEDED", "unavailable"} :
                Finish(x, [exchange[x] EXCEPT !.emitted = exchange[x].outputs > 0], state)
    /\ UNCHANGED <<channelClosed, closing>>

(* ProxyAuthenticated and ProxySession.Connect *)

\* The session is read, the destination resolved and dialled outside its mutex, and
\* the session is read again before the connection is retained.
ConnectRemote(x) ==
    /\ exchange[x].at = "connect"
    /\ \/ Fails(x)
       \/ /\ exchange[x].session = "open"
          /\ Becomes(x, [exchange[x] EXCEPT !.at = "attach", !.remote = "dialled"])
    /\ UNCHANGED <<channelClosed, closing>>

AttachRemote(x) ==
    /\ exchange[x].at = "attach"
    /\ IF exchange[x].session = "closed" THEN Fails(x)
       ELSE Becomes(x, [exchange[x] EXCEPT !.at = "relay", !.remote = "open"])
    /\ UNCHANGED <<channelClosed, closing>>

\* PROXY_CONNECTED, the signed input out, the bounded output back, PROXY_RESULT.
Relay(x) == Exchanged(x, "relay", [exchange[x] EXCEPT !.at = "reading"])

\* The context ends: the deadline, or the AfterFunc of a secret or proxy exchange,
\* makes the connection unusable and revokes the proxy session.
Revoke(e) ==
    [e EXCEPT !.connection = IF @ = "open" THEN "closed" ELSE @,
              !.session = IF @ = "open" THEN "closed" ELSE @,
              !.remote = IF @ = "open" THEN "closed" ELSE @]

ExchangeCancelled(x) ==
    /\ exchange[x].at \notin {"idle", "done"} /\ exchange[x].connection = "open"
    /\ Becomes(x, Revoke(exchange[x]))
    /\ UNCHANGED <<channelClosed, closing>>

(* Close *)

BeginClose ==
    /\ closing = "idle"
    /\ channelClosed' = TRUE /\ closing' = "revoking"
    /\ UNCHANGED exchange

\* Every connection and session that was in the table when it was closed.  A context
\* that has ended leaves the sessions open and Close reports the error.
FinishClose ==
    /\ closing = "revoking"
    /\ \/ /\ exchange' = [x \in Exchange |-> Revoke(exchange[x])]
          /\ closing' = "closed"
       \/ /\ exchange' = [x \in Exchange |->
                            [exchange[x] EXCEPT !.connection = IF @ = "open" THEN "closed" ELSE @]]
          /\ closing' = "failed"
    /\ UNCHANGED channelClosed

GuestInit ==
    /\ channelClosed = FALSE /\ closing = "idle"
    /\ exchange = [x \in Exchange |-> newExchange]

GuestNext ==
    \/ BeginClose \/ FinishClose
    \/ \E x \in Exchange :
          \/ BeginExchange(x) \/ OpenSocket(x) \/ Dial(x) \/ Register(x) \/ Handshake(x)
          \/ Request(x) \/ ReadOutput(x) \/ ReadObservation(x) \/ ReadResult(x)
          \/ Deliver(x) \/ ReadHeldOutput(x) \/ TreeReaped(x) \/ RevokeAfterTreeReap(x)
          \/ EmitHeldOutput(x) \/ ConnectRemote(x) \/ AttachRemote(x) \/ Relay(x)
          \/ ExchangeCancelled(x)

\* When Close has returned without error, no exchange holds a usable connection to
\* the guest and no proxied connection to the outside is open, whatever a dial that
\* was under way during Close delivers afterwards.
ClosedIsQuiet ==
    closing = "closed" =>
        \A x \in Exchange : exchange[x].connection # "open" /\ exchange[x].remote # "open"

\* A secret exchange hands output to its durable owner only after the guest's process
\* tree was reaped and the sink confirmed the revocation; and one that has returned
\* keeps no copy of a value whose delivery was recorded, whether it revoked the
\* value or had to abandon it.
SecretIsSettled ==
    \A x \in Exchange :
        /\ exchange[x].emitted =>
              exchange[x].reaped /\ exchange[x].settled = "revoked-after-tree-reap"
        /\ (exchange[x].at = "done" /\ exchange[x].audited) => ~exchange[x].active

\* An exchange with the guest leaves nothing behind: no connection survives a Close that
\* returned (open, Close), and no secret outlives its exchange or reaches an output
\* before it is revoked (DispatchAuthenticatedSecret).
ExchangesAreSettled == ClosedIsQuiet /\ SecretIsSettled
=============================================================================
