---------------------------- MODULE ExactlyOnce -----------------------------
(***************************************************************************)
(* What the state authority promises its callers: a command under an       *)
(* idempotency key takes effect in one step, at most once, and a caller    *)
(* that hears "done" has its own command in effect.  Any other answer may  *)
(* be given without effect; only "unavailable" may hide an effect.         *)
(***************************************************************************)
EXTENDS Sequences

CONSTANTS Caller, IdempotencyKey, Request, NoRequest

VARIABLES
    log,        \* the commands that took effect, in order
    receipt,    \* the request that took effect under a key
    call,       \* the key and the request of a caller
    reply       \* what the caller heard, or "none" while it waits

specVars == <<log, receipt, call, reply>>

Command == [key : IdempotencyKey, request : Request]

Init ==
    /\ log = <<>>
    /\ receipt = [k \in IdempotencyKey |-> NoRequest]
    /\ call \in [Caller -> Command]
    /\ reply = [c \in Caller |-> "unavailable"]

Ask(c) ==
    /\ reply[c] # "none"
    /\ reply' = [reply EXCEPT ![c] = "none"]
    /\ \E command \in Command : call' = [call EXCEPT ![c] = command]
    /\ UNCHANGED <<log, receipt>>

Perform(c) ==
    /\ reply[c] = "none"
    /\ receipt[call[c].key] = NoRequest
    /\ log' = Append(log, call[c])
    /\ receipt' = [receipt EXCEPT ![call[c].key] = call[c].request]
    /\ \E answer \in {"done", "unavailable"} : reply' = [reply EXCEPT ![c] = answer]
    /\ UNCHANGED call

Repeat(c) ==
    /\ reply[c] = "none"
    /\ receipt[call[c].key] = call[c].request
    /\ reply' = [reply EXCEPT ![c] = "done"]
    /\ UNCHANGED <<log, receipt, call>>

Refuse(c) ==
    /\ reply[c] = "none"
    /\ \E answer \in {"refused", "conflict", "expired", "unavailable"} :
          reply' = [reply EXCEPT ![c] = answer]
    /\ UNCHANGED <<log, receipt, call>>

Next == \E c \in Caller : Ask(c) \/ Perform(c) \/ Repeat(c) \/ Refuse(c)

Spec == Init /\ [][Next]_specVars
=============================================================================
