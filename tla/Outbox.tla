------------------------------- MODULE Outbox -------------------------------
(***************************************************************************)
(* The lease on one durable outbox record: the four operations of the      *)
(* planner that publishers and workers use to own a record.  They are      *)
(* operators on records, shared by the modules that compose the state      *)
(* authority with a worker.                                                *)
(*                                                                         *)
(* ClaimUntil appears as the flag expired: it is not after the clock of    *)
(* the planner.  ClaimedBy is left out: every replica of a worker is       *)
(* configured with the same claimer name, so the name tells no two of them *)
(* apart and the version is the whole fence.                               *)
(***************************************************************************)
EXTENDS Naturals

OutboxState == {"none", "pending", "claimed", "published"}

OutboxRecord == [state : OutboxState, version : Nat, expired : BOOLEAN]

NoRecord == [state |-> "none", version |-> 0, expired |-> FALSE]

\* A record as the planner appends it.
NewRecord == [state |-> "pending", version |-> 1, expired |-> FALSE]

\* A claim that never takes over an expired one.
ClaimableFresh(r) == r.state = "pending"

Claimable(r) == r.state = "pending" \/ (r.state = "claimed" /\ r.expired)

Claim(r) == [state |-> "claimed", version |-> r.version + 1, expired |-> FALSE]

\* A fence that looks at the claimer but not at the version of the claim.
FenceIgnoresVersion(r, version) == r.state = "claimed" /\ ~r.expired

\* outboxLeaseFenceCurrent: the record is still exactly the claim of version.
\* renew and acknowledge state the same condition.
LeaseFenceCurrent(r, version) ==
    /\ r.version = version
    /\ r.state = "claimed"
    /\ ~r.expired

Renew(r) == [r EXCEPT !.version = @ + 1]

Acknowledge(r) == [state |-> "published", version |-> r.version + 1, expired |-> FALSE]

\* The lease runs out on the clock of the planner.
Expire(r) == [r EXCEPT !.expired = TRUE]

\* A worker that presents the current version of a record with every command is
\* not fenced by it: its record needs no version.
Unversioned(r) == [r EXCEPT !.version = 0]
=============================================================================
