----------------------------- MODULE Milestone -----------------------------
(***************************************************************************)
(* The milestone notifier (internal/milestone, cmd/milestone-notify): one  *)
(* milestone's retained record, and any number of command invocations that *)
(* publish it or retry its delivery, each a process of its own. A record   *)
(* is a file that is linked into place once and replaced by rename; a      *)
(* retry holds a file lock while it delivers, a publication does not.      *)
(***************************************************************************)
EXTENDS Integers, FiniteSets

CONSTANTS Invocation,   \* command invocations
          Requirement,  \* the accepted requirements
          Owned,        \* those the milestone owns
          MaxDeliveries   \* bound on marked attempts

ASSUME MilestoneAssumption ==
    /\ Owned \subseteq Requirement
    /\ Owned # {}
    /\ MaxDeliveries \in Nat

VARIABLES ledger,      \* the status of each requirement, as the ledger file has it
          record,      \* the retained record; delivery "absent" before Retain
          claim,       \* the invocation that holds the lock file
          invocation,  \* where each invocation is
          received     \* the reports the topic received

milestoneVars == <<ledger, record, claim, invocation, received>>

RequirementStatus == {"completed", "in_progress", "blocked", "not_started"}

\* "none" stands for a field the code leaves empty.
NoRecord == [delivery |-> "absent", status |-> "none", failure |-> "none", attempts |-> 0]

Nobody == "nobody"

\* BuildRecord for the milestone's own requirements, or "refused": a blocked one
\* blocks the report, an unfinished one or any uncertainty keeps it in progress,
\* and an unfinished report must state an uncertainty.
BuildRecord(entries, uncertain) ==
    LET status == CASE \E q \in Owned : entries[q] = "blocked" -> "blocked"
                    [] (\E q \in Owned : entries[q] # "completed") \/ uncertain -> "in_progress"
                    [] OTHER -> "completed"
    IN  IF status # "completed" /\ ~uncertain THEN "refused" ELSE status

InvocationMoves(i, place) == invocation' = [invocation EXCEPT ![i] = place]
-----------------------------------------------------------------------------
\* The ledger file is edited between two invocations.
LedgerEdited(q) ==
    /\ ledger[q] # "completed"
    /\ \E s \in RequirementStatus : ledger' = [ledger EXCEPT ![q] = s]
    /\ UNCHANGED <<record, claim, invocation, received>>

\* The mutated form of Publish that leaves the record to be written after delivery.
PublishFirst(i, uncertain) ==
    /\ invocation[i] = "new"
    /\ BuildRecord(ledger, uncertain) # "refused"
    /\ InvocationMoves(i, "delivering")
    /\ UNCHANGED <<ledger, claim, received, record>>

\* Publish: the record is built from the ledger and linked into place, unless one
\* is there already. Only then is it delivered.
Publish(i, uncertain) ==
    LET status == BuildRecord(ledger, uncertain)
    IN  /\ invocation[i] = "new"
        /\ IF status = "refused" \/ record # NoRecord
           THEN InvocationMoves(i, "ended") /\ UNCHANGED record
           ELSE /\ record' = [delivery |-> "pending", status |-> status,
                              failure |-> "none", attempts |-> 0]
                /\ InvocationMoves(i, "delivering")
        /\ UNCHANGED <<ledger, claim, received>>

\* Retry: a lock that is held refuses it; with the lock, a record that is pending
\* or failed for a reason other than a rejection is delivered again.
Retry(i) ==
    /\ invocation[i] = "new"
    /\ IF claim # Nobody
       THEN InvocationMoves(i, "ended") /\ UNCHANGED claim
       ELSE IF record.delivery \in {"failed", "pending"} /\ record.failure # "rejected"
       THEN InvocationMoves(i, "delivering") /\ claim' = i
       ELSE InvocationMoves(i, "ended") /\ UNCHANGED claim
    /\ UNCHANGED <<ledger, record, received>>

\* NtfyNotifier.Deliver: the topic may take the report and the answer still be
\* lost, which is reported as unavailable.
Deliver(i) ==
    /\ invocation[i] = "delivering"
    /\ \/ received' = received \cup {record.status} /\ InvocationMoves(i, "delivered")
       \/ received' = received \cup {record.status} /\ InvocationMoves(i, "unavailable")
       \/ InvocationMoves(i, "unavailable") /\ UNCHANGED received
       \/ InvocationMoves(i, "rejected") /\ UNCHANGED received
    /\ UNCHANGED <<ledger, record, claim>>

Unlocked(i) == IF claim = i THEN Nobody ELSE claim

\* MarkSent and MarkFailed read the file, change the delivery and replace it. A
\* replacement that fails leaves the earlier record.
MarkSent(i) ==
    /\ invocation[i] = "delivered"
    /\ record.attempts < MaxDeliveries
    /\ record' \in {record, [record EXCEPT !.delivery = "sent", !.failure = "none",
                                           !.attempts = @ + 1]}
    /\ InvocationMoves(i, "ended")
    /\ claim' = Unlocked(i)
    /\ UNCHANGED <<ledger, received>>

MarkFailed(i) ==
    /\ invocation[i] \in {"unavailable", "rejected"}
    /\ record.attempts < MaxDeliveries
    /\ record' \in {record, [record EXCEPT !.delivery = "failed",
                                           !.failure = invocation[i],
                                           !.attempts = @ + 1]}
    /\ InvocationMoves(i, "ended")
    /\ claim' = Unlocked(i)
    /\ UNCHANGED <<ledger, received>>

\* The invocation dies; the operating system drops its lock.
InvocationDies(i) ==
    /\ invocation[i] \notin {"new", "ended"}
    /\ InvocationMoves(i, "ended")
    /\ claim' = Unlocked(i)
    /\ UNCHANGED <<ledger, record, received>>
-----------------------------------------------------------------------------
MilestoneInit ==
    /\ ledger \in [Requirement -> {"completed", "in_progress", "blocked"}]
    /\ record = NoRecord
    /\ claim = Nobody
    /\ invocation = [i \in Invocation |-> "new"]
    /\ received = {}

MilestoneNext ==
    \/ \E q \in Requirement : LedgerEdited(q)
    \/ \E i \in Invocation, uncertain \in BOOLEAN : Publish(i, uncertain)
    \/ \E i \in Invocation :
        Retry(i) \/ Deliver(i) \/ MarkSent(i) \/ MarkFailed(i) \/ InvocationDies(i)

MilestoneSpec == MilestoneInit /\ [][MilestoneNext]_milestoneVars
-----------------------------------------------------------------------------
(***************************************************************************)
(* Properties.                                                             *)
(***************************************************************************)

\* Whatever the topic was told is retained evidence: every report it received is
\* the one in the record file, however publications, retries, lost answers and
\* crashes interleave; a record marked sent was received; and a report that calls
\* the milestone completed was built when everything the milestone owns was.
ToldIsRetained ==
    /\ received \subseteq {record.status} \ {"none"}
    /\ record.delivery = "sent" => received = {record.status}
    /\ record.status = "completed" => \A q \in Owned : ledger[q] = "completed"
=============================================================================
