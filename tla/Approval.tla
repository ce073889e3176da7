------------------------------ MODULE Approval ------------------------------
(***************************************************************************)
(* The approval state machine (internal/approval) and the policy seam that *)
(* creates one (internal/toolpolicy). An Approval is an immutable value:   *)
(* every method takes the caller's clock and returns the next value. The   *)
(* model has one holder that keeps the value a call returns, as the        *)
(* reconciler or read path that calls Expire and Inspect does. Identifiers *)
(* and digests are well formed or not (Wellformed); the clock of a caller  *)
(* is any time, since callers are different processes.                     *)
(***************************************************************************)
EXTENDS Integers, FiniteSets

CONSTANTS Actor,                  \* tenant and principal pairs that may call
          ApprovalOwner, TenantAdmin,   \* the owner; admins of the owner's tenant
          DecisionKey,            \* idempotency keys
          maximumScopeUses,
          maximumApprovalWindow,
          MaxInstant              \* bound on the callers' clocks

ASSUME ApprovalAssumption ==
    /\ ApprovalOwner \in Actor
    /\ TenantAdmin \subseteq Actor
    /\ {maximumScopeUses, maximumApprovalWindow, MaxInstant} \subseteq Nat

VARIABLE approval      \* the Approval value the holder has, or NoApproval

NoApproval == [state |-> "none"]

Instant == 0..MaxInstant

Uses == 0..(maximumScopeUses + 1)

NoScope == [uses |-> 0, expires |-> 0]

ScopeOf(uses, expires) == [uses |-> uses, expires |-> expires]

validScope(scope) == scope.uses \in 1..maximumScopeUses

\* validProjection and validateProposal: the approval window is open and bounded, and
\* the proposed scope ends inside it.
validProjection(scope, expires, now) ==
    /\ validScope(scope)
    /\ now < expires
    /\ expires <= now + maximumApprovalWindow
    /\ now < scope.expires
    /\ scope.expires <= expires

narrowerThan(scope, proposed) ==
    validScope(scope) /\ scope.uses <= proposed.uses /\ scope.expires <= proposed.expires

authorized(actor) == actor = ApprovalOwner \/ actor \in TenantAdmin

\* matches: the same actor repeats the same command.
matches(value, actor, command) ==
    value.hasDecision /\ value.actor = actor /\ value.command = command
-----------------------------------------------------------------------------
\* Each method answers with the value it returns and the error beside it.
ApprovalAnswer(value, err) == [value |-> value, err |-> err]

validateNow(value, now) == now >= value.created

\* expire: any pending value, whatever its deadline.
expire(value, now) ==
    IF value.state = "pending"
    THEN [value EXCEPT !.state = "expired", !.terminalAt = now]
    ELSE value

\* The mutated form of Decide that overlooks the deadline of the proposal.
DecideLate(value, actor, command, now) ==
    IF ~authorized(actor) \/ now < value.created THEN ApprovalAnswer(NoApproval, "refused")
    ELSE IF value.state # "pending"
    THEN IF matches(value, actor, command) THEN ApprovalAnswer(value, "ok")
         ELSE ApprovalAnswer(NoApproval, "conflict")
    ELSE IF command.decision = "approved" => narrowerThan(command.scope, value.scope)
    THEN ApprovalAnswer([value EXCEPT !.state = command.decision, !.hasDecision = TRUE,
                    !.actor = actor, !.command = command, !.terminalAt = now], "ok")
    ELSE ApprovalAnswer(NoApproval, "scope")

\* Decide: authorization, the caller's clock, then an exact repeat or a conflict for a
\* decided value, the deadline, and the scope: an approval may only narrow the
\* proposal and must still be open, a denial carries no scope.
Decide(value, actor, command, now) ==
    IF ~authorized(actor) THEN ApprovalAnswer(NoApproval, "not found or denied")
    ELSE IF ~validateNow(value, now) THEN ApprovalAnswer(NoApproval, "invalid time")
    ELSE IF value.state # "pending"
    THEN IF matches(value, actor, command) THEN ApprovalAnswer(value, "ok")
         ELSE ApprovalAnswer(NoApproval, "conflict")
    ELSE IF now >= value.expires THEN ApprovalAnswer(expire(value, now), "expired")
    ELSE IF IF command.decision = "approved"
            THEN \/ ~narrowerThan(command.scope, value.scope)
                 \/ command.scope.expires > value.expires
                 \/ command.scope.expires <= now
            ELSE command.scope # NoScope
    THEN ApprovalAnswer(NoApproval, "scope")
    ELSE ApprovalAnswer([value EXCEPT !.state = command.decision, !.hasDecision = TRUE,
                    !.actor = actor, !.command = command, !.terminalAt = now], "ok")

\* endPending, for Cancel and Invalidate.
endPending(value, next, now) ==
    IF ~validateNow(value, now) THEN ApprovalAnswer(NoApproval, "invalid time")
    ELSE IF value.state # "pending"
    THEN IF value.state = next THEN ApprovalAnswer(value, "ok") ELSE ApprovalAnswer(NoApproval, "conflict")
    ELSE IF now >= value.expires THEN ApprovalAnswer(expire(value, now), "expired")
    ELSE ApprovalAnswer([value EXCEPT !.state = next, !.terminalAt = now], "ok")

Expire(value, now) ==
    IF ~validateNow(value, now) THEN ApprovalAnswer(NoApproval, "invalid time")
    ELSE ApprovalAnswer(expire(value, now), "ok")

Inspect(value, actor, now) ==
    IF ~authorized(actor) THEN ApprovalAnswer(NoApproval, "not found or denied")
    ELSE Expire(value, now)

\* The holder keeps what it was given, also the expired value that comes with an error.
Keeps(answer) == approval' = IF answer.value = NoApproval THEN approval ELSE answer.value
-----------------------------------------------------------------------------
\* toolpolicy.Evaluate and approval.New: a projection that matches the intent and is
\* valid now makes a pending approval; anything else is denied and makes none.
Evaluate ==
    /\ approval = NoApproval
    /\ \E wellformed \in BOOLEAN, uses \in Uses, until, expires, now \in Instant :
          approval' = IF wellformed /\ validProjection(ScopeOf(uses, until), expires, now)
                      THEN [state |-> "pending", scope |-> ScopeOf(uses, until),
                            created |-> now, expires |-> expires, hasDecision |-> FALSE,
                            actor |-> "none", command |-> [decision |-> "none"], terminalAt |-> 0]
                      ELSE NoApproval

Commands == [key : DecisionKey, decision : {"approved", "denied"},
             scope : {ScopeOf(u, e) : u \in Uses, e \in Instant}]

Decides ==
    /\ approval # NoApproval
    /\ \E actor \in Actor, command \in Commands, now \in Instant :
          Keeps(Decide(approval, actor, command, now))

EndsPending ==
    /\ approval # NoApproval
    /\ \E next \in {"cancelled", "invalidated"}, now \in Instant :
          Keeps(endPending(approval, next, now))

\* A reconciler calls Expire, a reader Inspect.
Inspects ==
    /\ approval # NoApproval
    /\ \E actor \in Actor, now \in Instant :
          Keeps(Inspect(approval, actor, now)) \/ Keeps(Expire(approval, now))

ApprovalInit == approval = NoApproval

ApprovalNext == Evaluate \/ Decides \/ EndsPending \/ Inspects

ApprovalSpec == ApprovalInit /\ [][ApprovalNext]_approval
-----------------------------------------------------------------------------
(***************************************************************************)
(* Properties.                                                             *)
(***************************************************************************)

SoundlyApproved(value) ==
    /\ authorized(value.actor)
    /\ value.terminalAt < value.expires
    /\ value.terminalAt < value.command.scope.expires
    /\ narrowerThan(value.command.scope, value.scope)
    /\ \A actor \in Actor, now \in Instant :
          LET repeat == Decide(value, actor, value.command, now)
          IN  repeat.err = "ok" => actor = value.actor /\ repeat.value = value

\* What a change of the value may be.
DecisionHolds ==
    /\ approval.state \in {"none", "pending"}
    /\ approval'.state = "approved" => SoundlyApproved(approval')

\* A decision stands. Whatever calls follow in whatever clock order, a terminal value
\* never changes; an approved one was approved by someone authorized, before its
\* deadline, for a scope that was open then and within what was proposed; and the
\* same actor repeating the command is answered with it, everyone else is not.
DecisionStands == [][DecisionHolds]_approval

\* An approval expires when its window closes: a value is expired at its deadline or
\* later, as the comment on ErrExpired, "a decision received at or after the immutable
\* Approval expiry", and the deadline transition Expire makes explicit have it.
ExpiresWhenDue ==
    approval.state = "expired" => approval.terminalAt >= approval.expires
=============================================================================
