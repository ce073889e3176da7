-------------------------- MODULE TransitionStore ---------------------------
(***************************************************************************)
(* How a command reaches the state of a tenant: a caller loads a copy,     *)
(* plans against it and persists the plan if the state still equals that   *)
(* copy, starting over after a conflict (StateRuntime.apply and persist of *)
(* the workers); or the store plans under its lock (ApplyCompiledMutation).*)
(* The plan of a command carries its receipt, so that a command repeated   *)
(* under its key is found and not applied again.                           *)
(*                                                                         *)
(* The state is its effects, as the log of the commands in it, and its     *)
(* receipts.  The order in which commands take effect here is the order of *)
(* the steps of the other modules, which take a command to be one step:    *)
(* Implements is what entitles them to.                                    *)
(***************************************************************************)
EXTENDS Integers, Sequences, FiniteSets

CONSTANTS
    Caller,
    IdempotencyKey,
    Request,        \* digests of canonical requests
    NoRequest,
    MaxAttempts,    \* attempts of one call: three of the API, eight of the tool worker
    MaxCalls        \* bound on the calls

ASSUME StoreAssumption ==
    /\ MaxAttempts \in Nat \ {0}
    /\ MaxCalls \in Nat
    /\ NoRequest \notin Request

VARIABLES
    log, receipt,   \* the state of the tenant
    expired,        \* keys whose receipt is past its retention
    call, reply,
    pc,             \* of a caller: idle, load, plan, persist
    base, planned,  \* the copy it loaded, and the replacement
    attempt,
    calls

vars == <<log, receipt, expired, call, reply, pc, base, planned, attempt, calls>>

Command == [key : IdempotencyKey, request : Request]
Reply == {"none", "done", "refused", "conflict", "expired", "unavailable"}
Snapshot == [log : Seq(Command), receipt : [IdempotencyKey -> Request \cup {NoRequest}]]

State == [log |-> log, receipt |-> receipt]

Init ==
    /\ log = <<>>
    /\ receipt = [k \in IdempotencyKey |-> NoRequest]
    /\ expired = {}
    /\ call \in [Caller -> Command]
    /\ reply = [c \in Caller |-> "unavailable"]
    /\ pc = [c \in Caller |-> "idle"]
    /\ base = [c \in Caller |-> State]
    /\ planned = [c \in Caller |-> State]
    /\ attempt = [c \in Caller |-> 0]
    /\ calls = 0

Goto(c, place) == pc' = [pc EXCEPT ![c] = place]

Answer(c, answer) == Goto(c, "idle") /\ reply' = [reply EXCEPT ![c] = answer]

\* A caller compiles a command, a new one or one it repeats.
Call(c) ==
    /\ pc[c] = "idle"
    /\ calls < MaxCalls
    /\ calls' = calls + 1
    /\ \E command \in Command : call' = [call EXCEPT ![c] = command]
    /\ reply' = [reply EXCEPT ![c] = "none"]
    /\ attempt' = [attempt EXCEPT ![c] = 0]
    /\ Goto(c, "load")
    /\ UNCHANGED <<log, receipt, expired, base, planned>>

Load(c) ==
    /\ pc[c] = "load"
    /\ base' = [base EXCEPT ![c] = State]
    /\ Goto(c, "plan")
    /\ UNCHANGED <<log, receipt, expired, call, reply, planned, attempt, calls>>

\* Plan against s: an expired receipt and one of another request are refused, the
\* receipt of this request replays, and without one the command is refused or
\* takes effect together with its receipt.
Plan(c, s, answer, replacement) ==
    LET k == call[c].key
        r == call[c].request
    IN \/ /\ s.receipt[k] # NoRequest /\ k \in expired
          /\ answer = "expired" /\ replacement = s
       \/ /\ s.receipt[k] # NoRequest /\ k \notin expired /\ s.receipt[k] # r
          /\ answer = "conflict" /\ replacement = s
       \/ /\ s.receipt[k] = r /\ k \notin expired
          /\ answer = "done" /\ replacement = s
       \/ /\ s.receipt[k] = NoRequest
          /\ answer = "refused" /\ replacement = s
       \/ /\ s.receipt[k] = NoRequest
          /\ answer = "done"
          /\ replacement = [log |-> Append(s.log, call[c]), receipt |-> [s.receipt EXCEPT ![k] = r]]

Answers == {"done", "refused", "conflict", "expired"}

\* The replacements Plan can come to: the state itself, or the state with the command.
Replacements(c, s) ==
    {s, [log |-> Append(s.log, call[c]),
         receipt |-> [s.receipt EXCEPT ![call[c].key] = call[c].request]]}

PlanAgainstBase(c) ==
    /\ pc[c] = "plan"
    /\ \E answer \in Answers, replacement \in Replacements(c, base[c]) :
          /\ Plan(c, base[c], answer, replacement)
          /\ \/ /\ answer = "done"
                /\ planned' = [planned EXCEPT ![c] = replacement]
                /\ Goto(c, "persist")
                /\ UNCHANGED reply
             \/ /\ answer # "done"
                /\ Answer(c, answer)
                /\ UNCHANGED planned
    /\ UNCHANGED <<log, receipt, expired, call, base, attempt, calls>>

\* The transaction commits; its caller hears so, or loses the answer.
Commit(c, s) ==
    /\ log' = s.log
    /\ receipt' = s.receipt
    /\ \E answer \in {"done", "unavailable"} : Answer(c, answer)

\* A store that replaces the state without comparing it.
PersistBlindly(c) ==
    /\ pc[c] = "persist"
    /\ Commit(c, planned[c])
    /\ UNCHANGED <<expired, call, base, planned, attempt, calls>>

\* PersistTransitionPlan.
Persist(c) ==
    /\ pc[c] = "persist"
    /\ State = base[c]
    /\ Commit(c, planned[c])
    /\ UNCHANGED <<expired, call, base, planned, attempt, calls>>

\* Another command took effect since the copy was loaded.
Conflict(c) ==
    /\ pc[c] = "persist"
    /\ State # base[c]
    /\ attempt' = [attempt EXCEPT ![c] = @ + 1]
    /\ IF attempt[c] + 1 < MaxAttempts THEN Goto(c, "load") /\ UNCHANGED reply
                                       ELSE Answer(c, "conflict")
    /\ UNCHANGED <<log, receipt, expired, call, base, planned, calls>>

\* ApplyCompiledMutation: load, plan and persist under the lock of the tenant.
ApplyCompiledMutation(c) ==
    /\ pc[c] = "load"
    /\ \E answer \in Answers, replacement \in Replacements(c, State) :
          /\ Plan(c, State, answer, replacement)
          /\ IF answer = "done" THEN Commit(c, replacement)
             ELSE Answer(c, answer) /\ UNCHANGED <<log, receipt>>
    /\ UNCHANGED <<expired, call, base, planned, attempt, calls>>

\* The database or the caller is gone before the commit.
Unavailable(c) ==
    /\ pc[c] # "idle"
    /\ Answer(c, "unavailable")
    /\ UNCHANGED <<log, receipt, expired, call, base, planned, attempt, calls>>

ReceiptExpires(k) ==
    /\ receipt[k] # NoRequest
    /\ expired' = expired \cup {k}
    /\ UNCHANGED <<log, receipt, call, reply, pc, base, planned, attempt, calls>>

Next ==
    \/ \E c \in Caller :
          \/ Call(c) \/ Load(c) \/ PlanAgainstBase(c) \/ Persist(c) \/ Conflict(c)
          \/ ApplyCompiledMutation(c) \/ Unavailable(c)
    \/ \E k \in IdempotencyKey : ReceiptExpires(k)

Spec == Init /\ [][Next]_vars

(***************************************************************************)
(* Properties.                                                             *)
(***************************************************************************)
\* Every variable has its type, and no call is tried more often than allowed.
StoreTypeOK ==
    /\ State \in Snapshot
    /\ expired \subseteq IdempotencyKey
    /\ call \in [Caller -> Command]
    /\ reply \in [Caller -> Reply]
    /\ pc \in [Caller -> {"idle", "load", "plan", "persist"}]
    /\ base \in [Caller -> Snapshot]
    /\ planned \in [Caller -> Snapshot]
    /\ attempt \in [Caller -> 0..MaxAttempts]
    /\ \A c \in Caller : pc[c] # "idle" => attempt[c] < MaxAttempts

\* An idempotency key takes effect at most once, however callers race, repeat
\* calls whose answer was lost and come back after the receipt has expired.
AppliedOnce ==
    \A i, j \in DOMAIN log : log[i].key = log[j].key => i = j

\* No effect is lost: a transition only adds to what the state holds, whatever
\* copies other callers still work with.
LogGrows ==
    [][Len(log') >= Len(log) /\ SubSeq(log', 1, Len(log)) = log]_vars

Abstract == INSTANCE ExactlyOnce

\* The store keeps the promise of ExactlyOnce: each command is one atomic step.
Implements == Abstract!Spec
=============================================================================
