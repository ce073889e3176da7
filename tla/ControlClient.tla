--------------------------- MODULE ControlClient ----------------------------
(***************************************************************************)
(* The HTTP control client of the sandbox SDK: one client bound to the     *)
(* control service, threads that call its methods, the credential source   *)
(* they ask for an authorization, and callers of Close.                    *)
(*                                                                         *)
(* The client's lock makes the entry of a call, its end and the first half *)
(* of Close atomic.  A closed client cancels its lifetime; the cancellation*)
(* reaches the context of each call in a goroutine of its own, so later.   *)
(***************************************************************************)
EXTENDS Naturals, FiniteSets

CONSTANTS Thread, Closer,
    MaxSets,    \* bound on the authorizations a source sets in one call
    MaxCalls    \* bound on the calls of a thread

ASSUME ControlAssumption == MaxSets \in Nat /\ MaxCalls \in Nat

VARIABLES
    bound,      \* the binding: "none", "live" or "expired"
    closed,     \* Close has begun
    inFlight, drained,
    call,       \* the call of each thread
    sink,       \* the credential sink of that call
    closer,     \* callers of Close
    sent        \* history: what reached the service after its call began

clientVars == <<bound, closed, inFlight, drained, call, sink, closer, sent>>

NoCall == [pc |-> "idle", cancelled |-> FALSE, assertion |-> FALSE, left |-> MaxCalls]
NewSink == [sets |-> 0, held |-> FALSE, invalid |-> FALSE, revoked |-> FALSE]

At(t, pc) == call[t].pc = pc

(***************************************************************************)
(* The credential sink.                                                    *)
(***************************************************************************)
Revoked(s) == [s EXCEPT !.held = FALSE, !.revoked = TRUE]

SetAuthorization(s, valid) ==
    IF s.revoked THEN s
    ELSE IF s.sets # 0 \/ ~valid THEN [s EXCEPT !.sets = @ + 1, !.invalid = TRUE]
    ELSE [s EXCEPT !.sets = @ + 1, !.held = TRUE]

Consumable(s) == ~s.revoked /\ ~s.invalid /\ s.sets = 1 /\ s.held

\* The source sets an authorization during the call or from a goroutine it left behind.
\* A context cancelled before is refused, and one cancelled meanwhile clears the sink.
SourceSets(t) ==
    /\ ~At(t, "idle") /\ sink[t].sets < MaxSets
    /\ \/ \E valid \in BOOLEAN : sink' = [sink EXCEPT ![t] = SetAuthorization(@, valid)]
       \/ call[t].cancelled /\ sink' = [sink EXCEPT ![t] = Revoked(@)]
    /\ UNCHANGED <<bound, closed, inFlight, drained, call, closer, sent>>

(***************************************************************************)
(* A call.                                                                 *)
(***************************************************************************)
\* newHTTPControlClient returns a client only if its bind succeeded.
bind ==
    /\ bound = "none"
    /\ bound' = "live"
    /\ UNCHANGED <<closed, inFlight, drained, call, sink, closer, sent>>

BindingExpires ==
    /\ bound = "live"
    /\ bound' = "expired"
    /\ UNCHANGED <<closed, inFlight, drained, call, sink, closer, sent>>

\* An entry that counts itself after the lock is released.
EnterUncounted(t) ==
    /\ bound # "none" /\ ~closed /\ At(t, "idle") /\ call[t].left > 0
    /\ call' = [call EXCEPT ![t] = [pc |-> "credentials", cancelled |-> FALSE, assertion |-> bound = "live", left |-> @.left - 1]]
    /\ sink' = [sink EXCEPT ![t] = NewSink]
    /\ inFlight' = IF inFlight = 0 THEN 1 ELSE inFlight
    /\ UNCHANGED <<bound, closed, drained, closer, sent>>

\* do, under the lock: a closed client refuses.
Enter(t) ==
    /\ bound # "none" /\ ~closed /\ At(t, "idle") /\ call[t].left > 0
    /\ call' = [call EXCEPT ![t] = [pc |-> "credentials", cancelled |-> FALSE, assertion |-> bound = "live", left |-> @.left - 1]]
    /\ sink' = [sink EXCEPT ![t] = NewSink]
    /\ inFlight' = inFlight + 1
    /\ UNCHANGED <<bound, closed, drained, closer, sent>>

\* The caller's context, the request timeout, or the lifetime of a closed client.
CallCancelled(t) ==
    /\ ~At(t, "idle") /\ ~call[t].cancelled
    /\ call' = [call EXCEPT ![t].cancelled = TRUE]
    /\ UNCHANGED <<bound, closed, inFlight, drained, sink, closer, sent>>

\* A source that fails, a cancelled context or an unusable sink ends the attempt.
applyAuthorization(t, failed) ==
    /\ At(t, "credentials")
    /\ call' = [call EXCEPT ![t].pc =
            IF ~call[t].assertion \/ failed \/ call[t].cancelled \/ ~Consumable(sink[t]) THEN "finishing" ELSE "sending"]
    /\ sink' = [sink EXCEPT ![t] = Revoked(@)]
    /\ UNCHANGED <<bound, closed, inFlight, drained, closer, sent>>

\* The transport sends the request unless its context is cancelled by then.
SendRequest(t) ==
    /\ At(t, "sending")
    /\ call' = [call EXCEPT ![t].pc = "finishing"]
    /\ \/ ~call[t].cancelled /\ sent' = sent \cup {[thread |-> t, sets |-> sink[t].sets, quiet |-> \E x \in Closer : closer[x] = "returned"]}
       \/ UNCHANGED sent
    /\ UNCHANGED <<bound, closed, inFlight, drained, sink, closer>>

\* The last attempt compares the count before its own departure.
FinishMiscounted(t) ==
    /\ At(t, "finishing")
    /\ call' = [call EXCEPT ![t].pc = "idle"]
    /\ inFlight' = inFlight - 1
    /\ drained' = (drained \/ (closed /\ inFlight = 0))
    /\ UNCHANGED <<bound, closed, sink, closer, sent>>

\* The response was read, or the attempt failed.
finishAttempt(t) ==
    /\ At(t, "finishing")
    /\ call' = [call EXCEPT ![t].pc = "idle"]
    /\ inFlight' = inFlight - 1
    /\ drained' = (drained \/ (closed /\ inFlight' = 0))
    /\ UNCHANGED <<bound, closed, sink, closer, sent>>

(***************************************************************************)
(* Close.                                                                  *)
(***************************************************************************)
CloseControl(x) ==
    /\ bound # "none" /\ closer[x] = "idle"
    /\ closed' = TRUE
    /\ bound' = IF closed THEN bound ELSE "expired"
    /\ drained' = (drained \/ (~closed /\ inFlight = 0))
    /\ closer' = [closer EXCEPT ![x] = "waiting"]
    /\ UNCHANGED <<inFlight, call, sink, sent>>

CloseReturns(x) ==
    /\ closer[x] = "waiting" /\ drained
    /\ closer' = [closer EXCEPT ![x] = "returned"]
    /\ UNCHANGED <<bound, closed, inFlight, drained, call, sink, sent>>

\* Its own context ends; the caller may try again.
CloseGivesUp(x) ==
    /\ closer[x] = "waiting"
    /\ closer' = [closer EXCEPT ![x] = "idle"]
    /\ UNCHANGED <<bound, closed, inFlight, drained, call, sink, sent>>

ClientInit ==
    /\ bound = "none" /\ closed = FALSE /\ inFlight = 0 /\ drained = FALSE
    /\ call = [t \in Thread |-> NoCall]
    /\ sink = [t \in Thread |-> NewSink]
    /\ closer = [x \in Closer |-> "idle"]
    /\ sent = {}

ClientNext ==
    \/ bind \/ BindingExpires
    \/ \E t \in Thread :
        \/ Enter(t) \/ SourceSets(t) \/ CallCancelled(t) \/ SendRequest(t) \/ finishAttempt(t)
        \/ \E failed \in BOOLEAN : applyAuthorization(t, failed)
    \/ \E x \in Closer : CloseControl(x) \/ CloseReturns(x) \/ CloseGivesUp(x)

\* Close ends when the calls it waits for end: a source returns from Apply, and the
\* transport answers or gives up at the request timeout.
ClientFairness ==
    /\ \A t \in Thread :
        /\ WF_clientVars(SendRequest(t)) /\ WF_clientVars(finishAttempt(t))
        /\ WF_clientVars(\E failed \in BOOLEAN : applyAuthorization(t, failed))
    /\ \A x \in Closer : WF_clientVars(CloseReturns(x))

(***************************************************************************)
(* Properties.                                                             *)
(***************************************************************************)
\* Once a Close has returned without error no call is in flight and none reaches the
\* service any more, whenever the calls and other callers of Close began (do, Close,
\* finishAttempt).
CloseIsQuiet ==
    /\ (\E x \in Closer : closer[x] = "returned") => \A t \in Thread : At(t, "idle")
    /\ \A s \in sent : ~s.quiet

\* A request goes out only with the one authorization its source set during the call: a
\* source that sets two, sets an invalid one or sets one too late sends nothing
\* (credentialSink, applyAuthorization).
SentWithOneAuthorization == \A s \in sent : s.sets = 1

\* A caller that waits in Close is not left there by calls that began before it.
CloseIsServed == \A x \in Closer : closer[x] = "waiting" ~> closer[x] # "waiting"

\* The client sends nothing it may not send: each request has the one authorization of
\* its own call (credentialSink), and none is under way or follows once a Close has
\* returned (do, Close, finishAttempt).
SendsOnlyWhatItMay == CloseIsQuiet /\ SentWithOneAuthorization
=============================================================================
