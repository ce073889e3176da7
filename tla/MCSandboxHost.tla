--------------------------- MODULE MCSandboxHost ----------------------------
(***************************************************************************)
(* SandboxHost on small instances, in three regions.                       *)
(***************************************************************************)
EXTENDS SandboxHost

CONSTANTS o1, o2

OneOperation == \E o \in Operation : \A other \in Operation \ {o} : op[other].state = "absent"

\* One operation that requires cleanup, two generations of the host, cleanup confirmed
\* and a second assignment; a crash or a lost answer, or else the end of the retention.
Succession ==
    /\ op[o2].state = "absent"
    /\ overdue = {} \/ faults = 0
    /\ op[o1].epoch <= 1
    /\ \A h \in Host : enrolled[h] \notin {"attestation-failed", "expired"}

\* One operation on one host through renewals, the end of its retention and
\* its tombstone.
Lifetime ==
    /\ OneOperation
    /\ enrolled[2] = "unknown"
    /\ faults = 0
    /\ \A o \in Operation : op[o].state = "accepted" => op[o].assignment = 0

\* Two operations in the journal of one host, each assigned once, one fault.
Backlog ==
    /\ overdue = {}
    /\ enrolled[1] \in {"unknown", "active", "quarantined"}
    /\ enrolled[2] = "unknown"
    /\ \A o \in Operation : op[o].epoch <= 1 /\ op[o].state # "cancelled"
    /\ \A o \in Operation : op[o].state = "accepted" => op[o].assignment = 0

\* Where progress is checked: only steps without fairness lead out of it.
InScope == Lifetime \/ Backlog
=============================================================================
