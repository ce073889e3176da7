------------------------------ MODULE EgressProxy ------------------------------
(***************************************************************************)
(* The egress proxy process (internal/egressproxy, cmd/egress-proxy): one  *)
(* handler per request, the registry of hijacked CONNECT tunnels with the  *)
(* channel that is closed when the last of them drains, and the shutdown   *)
(* that stops the server, closes the tunnels it finds and waits.           *)
(***************************************************************************)
EXTENDS Naturals, FiniteSets

CONSTANTS ProxyRequest,       \* requests the proxy is sent, one handler each
          Declared       \* those of them that name a declared target

VARIABLES handler,       \* what the handler of each request holds
          tunnels,       \* the registry: active, drained, closed
          stopping       \* the shutdown of the process

proxyVars == <<handler, tunnels, stopping>>

\* A handler's two connections, and which copies of a tunnel still run.
NewHandler == [at |-> "new", client |-> "none", upstream |-> "none", copying |-> {}]
HandlerAt(r, at) == handler[r].at = at

newTunnelRegistry == [active |-> {}, drained |-> 0, closed |-> {0}, panicked |-> FALSE]

ProxyInit ==
    /\ handler = [r \in ProxyRequest |-> NewHandler]
    /\ tunnels = newTunnelRegistry
    /\ stopping = [at |-> "serving", ended |-> FALSE, late |-> FALSE, found |-> {}, waits |-> 0, owed |-> {}]

HandlerBecomes(r, h) == handler' = [handler EXCEPT ![r] = h] /\ UNCHANGED <<tunnels, stopping>>
closeConnection(c) == IF c = "open" THEN "closed" ELSE c
Finished(h) == [h EXCEPT !.at = "done", !.client = closeConnection(@),
                         !.upstream = closeConnection(@), !.copying = {}]

--------------------------------------------------------------------------------
(* ServeHTTP and connect *)

\* Nothing runs any more once run has returned.
ProxyRuns == stopping.at \notin {"stopped", "failed"}

\* The listener is closed by Shutdown; a target that is not declared is refused.
ServeHTTP(r) ==
    /\ stopping.at = "serving"
    /\ HandlerAt(r, "new")
    /\ \E at \in IF r \in Declared THEN {"plain", "connect"} ELSE {"done"} :
          HandlerBecomes(r, [handler[r] EXCEPT !.at = at])

\* The target is checked again, resolved, and the first public address that answers
\* is dialled; there may be none.
dialResolved(r) ==
    /\ HandlerAt(r, "plain") \/ HandlerAt(r, "connect")
    /\ ProxyRuns
    /\ \/ HandlerBecomes(r, Finished(handler[r]))
       \/ HandlerBecomes(r, [handler[r] EXCEPT !.upstream = "open",
                                !.at = IF @ = "plain" THEN "roundtrip" ELSE "dialled"])

\* The answer of an ordinary request is copied to its end, or it fails.
RoundTrip(r) ==
    /\ HandlerAt(r, "roundtrip")
    /\ ProxyRuns
    /\ HandlerBecomes(r, Finished(handler[r]))

\* From here on the server no longer knows the connection.
Hijack(r) ==
    /\ HandlerAt(r, "dialled")
    /\ ProxyRuns
    /\ \/ HandlerBecomes(r, Finished(handler[r]))
       \/ HandlerBecomes(r, [handler[r] EXCEPT !.at = "hijacked", !.client = "open"])

\* "200 Connection Established" is written and flushed.
Established(r) ==
    /\ HandlerAt(r, "hijacked")
    /\ ProxyRuns
    /\ \/ HandlerBecomes(r, Finished(handler[r]))
       \/ HandlerBecomes(r, [handler[r] EXCEPT !.at = "established"])

register(r) ==
    /\ HandlerAt(r, "established")
    /\ ProxyRuns
    /\ tunnels' = [tunnels EXCEPT !.active = @ \cup {r},
                                  !.drained = IF tunnels.active = {} THEN @ + 1 ELSE @]
    /\ handler' = [handler EXCEPT ![r].at = "tunnel", ![r].copying = {"up", "down"}]
    /\ UNCHANGED stopping

\* A copy ends when either of its connections does; it then closes the one it wrote to.
CopyEnds(r, direction) ==
    /\ HandlerAt(r, "tunnel")
    /\ ProxyRuns
    /\ direction \in handler[r].copying
    /\ LET h == [handler[r] EXCEPT !.copying = @ \ {direction}]
       IN  HandlerBecomes(r, IF direction = "up"
                             THEN [h EXCEPT !.upstream = closeConnection(@)]
                             ELSE [h EXCEPT !.client = closeConnection(@)])

\* Both have: the tunnel leaves the registry, and the last one closes the channel.
untrack(r) ==
    /\ HandlerAt(r, "tunnel")
    /\ ProxyRuns
    /\ handler[r].copying = {}
    /\ LET left == tunnels.active \ {r}
       IN  tunnels' = [tunnels EXCEPT !.active = left,
              !.closed = IF left = {} THEN @ \cup {tunnels.drained} ELSE @,
              !.panicked = @ \/ (left = {} /\ tunnels.drained \in tunnels.closed)]
    /\ handler' = [handler EXCEPT ![r].at = "done"]
    /\ UNCHANGED stopping

--------------------------------------------------------------------------------
(* run: the shutdown *)

Stops(s) == stopping' = s /\ UNCHANGED <<handler, tunnels>>

\* A signal, or a listener that fails: then run returns at once.
Signalled ==
    /\ stopping.at = "serving"
    /\ \E at \in {"shutdown", "failed"} : Stops([stopping EXCEPT !.at = at])

\* Requests the server still knows: hijacked ones are not among them.
Serving == {r \in ProxyRequest : handler[r].at \in {"plain", "connect", "roundtrip", "dialled"}}

\* shutdownGrace passes.
GraceEnds ==
    /\ stopping.at \in {"shutdown", "close", "closing", "wait", "waiting"}
    /\ ~stopping.ended
    /\ Stops([stopping EXCEPT !.ended = TRUE])

ShutdownServer ==
    /\ stopping.at = "shutdown"
    /\ Serving # {} => stopping.ended
    /\ Stops([stopping EXCEPT !.at = "close", !.late = Serving # {}])

\* The tunnels are listed under the lock and closed after it.
closeAll ==
    /\ stopping.at = "close"
    /\ Stops([stopping EXCEPT !.at = "closing", !.found = tunnels.active])

CloseFound ==
    /\ stopping.at = "closing"
    /\ handler' = [r \in ProxyRequest |->
          IF r \in stopping.found
          THEN [handler[r] EXCEPT !.client = closeConnection(@), !.upstream = closeConnection(@)]
          ELSE handler[r]]
    /\ stopping' = [stopping EXCEPT !.at = "wait"]
    /\ UNCHANGED tunnels

\* The channel of this moment is what is waited for; `owed` are the tunnels of this moment.
WaitForTunnels ==
    /\ stopping.at = "wait"
    /\ Stops([stopping EXCEPT !.at = "waiting", !.waits = tunnels.drained, !.owed = tunnels.active])

\* Either may be chosen when the channel is closed and the grace is over; a Shutdown
\* that left requests running is reported.
WaitEnds ==
    /\ stopping.at = "waiting"
    /\ \/ /\ stopping.waits \in tunnels.closed
          /\ Stops([stopping EXCEPT !.at = IF stopping.late THEN "failed" ELSE "stopped"])
       \/ /\ stopping.ended
          /\ Stops([stopping EXCEPT !.at = "failed"])

ProxyNext ==
    \/ \E r \in ProxyRequest :
          \/ ServeHTTP(r) \/ dialResolved(r) \/ RoundTrip(r) \/ Hijack(r) \/ Established(r)
          \/ register(r) \/ untrack(r) \/ \E direction \in {"up", "down"} : CopyEnds(r, direction)
    \/ Signalled \/ GraceEnds \/ ShutdownServer \/ closeAll \/ CloseFound \/ WaitForTunnels \/ WaitEnds

ProxySpec == ProxyInit /\ [][ProxyNext]_proxyVars

--------------------------------------------------------------------------------
\* The channel a shutdown waits for is open exactly while tunnels are registered, across
\* busy and quiet periods, and no busy period closes a channel twice (register, untrack).
DrainedFollowsActive ==
    ~tunnels.panicked /\ (tunnels.drained \in tunnels.closed <=> tunnels.active = {})

\* A shutdown that reports success has waited for every tunnel that was registered when
\* it began to wait, late registrations included (closeAll, WaitForTunnels).
StoppedMeansDrained == stopping.at = "stopped" => stopping.owed \cap tunnels.active = {}

\* A handler that has returned leaves no connection open, whichever step failed (connect).
HandlersLeaveNothing ==
    \A r \in ProxyRequest : HandlerAt(r, "done") =>
        handler[r].client # "open" /\ handler[r].upstream # "open" /\ r \notin tunnels.active

================================================================================
