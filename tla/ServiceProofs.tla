--------------------------- MODULE ServiceProofs ---------------------------
(***************************************************************************)
(* Proofs about the services beside the runtime state: approvals           *)
(* (Approval), the milestone notifier (Milestone) and the back-fill        *)
(* controller (Backfill), for any number of callers, invocations and       *)
(* replicas. They share no state.                                          *)
(***************************************************************************)
EXTENDS Approval, Milestone, Backfill, SequenceTheorems, TLAPS

(***************************************************************************)
(* Approvals.                                                              *)
(***************************************************************************)
Ends == {"approved", "denied", "expired", "cancelled", "invalidated"}

\* The values an Approval takes after New.
ApprovalValue ==
    [state : Ends \cup {"pending"}, scope : [uses : Nat, expires : Nat],
     created : Instant, expires : Instant, hasDecision : BOOLEAN,
     actor : Actor \cup {"none"}, command : Commands \cup {[decision |-> "none"]},
     terminalAt : Instant]

HeldValue == approval = NoApproval \/ approval \in ApprovalValue

\* A pending value that is decided, ended or expired is a value.
LEMMA PendingEnds ==
    ASSUME NEW v \in ApprovalValue, NEW now \in Instant
    PROVE  /\ expire(v, now) \in ApprovalValue
           /\ \A next \in Ends : [v EXCEPT !.state = next, !.terminalAt = now] \in ApprovalValue
           /\ \A actor \in Actor, command \in Commands :
                [v EXCEPT !.state = command.decision, !.hasDecision = TRUE, !.actor = actor,
                          !.command = command, !.terminalAt = now] \in ApprovalValue
<1>1. \A next \in Ends : [v EXCEPT !.state = next, !.terminalAt = now] \in ApprovalValue
  BY DEF ApprovalValue
<1>2. expire(v, now) \in ApprovalValue
  BY <1>1 DEF expire, Ends
<1>3. ASSUME NEW actor \in Actor, NEW command \in Commands
      PROVE  [v EXCEPT !.state = command.decision, !.hasDecision = TRUE, !.actor = actor,
                       !.command = command, !.terminalAt = now] \in ApprovalValue
  <2>1. command.decision \in Ends
    BY DEF Commands, Ends
  <2> QED
    BY <2>1 DEF ApprovalValue
<1> QED
  BY <1>1, <1>2, <1>3

\* What a call may answer about a value v: nothing, the value itself, or, for a
\* pending one, a value whose approval is sound.
MayAnswer(v, w) ==
    \/ w = NoApproval
    \/ w = v
    \/ /\ v.state = "pending" /\ w \in ApprovalValue
       /\ w.state = "approved" => SoundlyApproved(w)

\* An expired value is an answer.
LEMMA ExpireAnswers ==
    ASSUME NEW v \in ApprovalValue, NEW now \in Instant
    PROVE  MayAnswer(v, expire(v, now))
<1>1. CASE v.state = "pending"
  <2>1. expire(v, now) \in ApprovalValue
    BY PendingEnds
  <2>2. expire(v, now).state = "expired"
    BY <1>1 DEF expire, ApprovalValue
  <2> QED
    BY <1>1, <2>1, <2>2 DEF MayAnswer
<1>2. CASE v.state # "pending"
  BY <1>2 DEF expire, MayAnswer
<1> QED
  BY <1>1, <1>2

\* The value an approval makes of a pending one is soundly approved.
LEMMA ApprovalIsSound ==
    ASSUME NEW v \in ApprovalValue, NEW now \in Instant, NEW actor \in Actor,
           NEW command \in Commands, authorized(actor), now < v.expires,
           narrowerThan(command.scope, v.scope), now < command.scope.expires,
           NEW w,
           w = [v EXCEPT !.state = command.decision, !.hasDecision = TRUE, !.actor = actor,
                         !.command = command, !.terminalAt = now],
           command.decision = "approved"
    PROVE  SoundlyApproved(w)
<1>1. /\ w.state = "approved" /\ w.hasDecision = TRUE /\ w.actor = actor
      /\ w.command = command /\ w.terminalAt = now /\ w.expires = v.expires /\ w.scope = v.scope
  BY DEF ApprovalValue
<1>2. ASSUME NEW other \in Actor, NEW later \in Instant,
             Decide(w, other, w.command, later).err = "ok"
      PROVE  other = w.actor /\ Decide(w, other, w.command, later).value = w
  <2>1. authorized(other) /\ validateNow(w, later) /\ matches(w, other, w.command)
    BY <1>1, <1>2 DEF Decide, ApprovalAnswer
  <2>2. Decide(w, other, w.command, later) = ApprovalAnswer(w, "ok")
    BY <1>1, <2>1 DEF Decide
  <2> QED
    BY <2>1, <2>2 DEF matches, ApprovalAnswer
<1> QED
  BY <1>1, <1>2 DEF SoundlyApproved

\* Decide's answer.
LEMMA DecideAnswers ==
    ASSUME NEW v \in ApprovalValue, NEW now \in Instant, NEW actor \in Actor, NEW command \in Commands
    PROVE  MayAnswer(v, Decide(v, actor, command, now).value)
<1> DEFINE w == [v EXCEPT !.state = command.decision, !.hasDecision = TRUE, !.actor = actor,
                          !.command = command, !.terminalAt = now]
           answer == Decide(v, actor, command, now)
<1>1. w \in ApprovalValue /\ w.state = command.decision
  <2>1. w \in ApprovalValue
    BY PendingEnds
  <2> QED
    BY <2>1 DEF ApprovalValue
<1>2. CASE ~authorized(actor) \/ ~validateNow(v, now)
  BY <1>2 DEF Decide, ApprovalAnswer, MayAnswer
<1>3. CASE authorized(actor) /\ validateNow(v, now) /\ v.state # "pending"
  BY <1>3 DEF Decide, ApprovalAnswer, MayAnswer
<1>4. CASE authorized(actor) /\ validateNow(v, now) /\ v.state = "pending" /\ now >= v.expires
  <2>1. answer.value = expire(v, now)
    BY <1>4 DEF Decide, ApprovalAnswer
  <2> QED
    BY <2>1, ExpireAnswers
<1>5. CASE /\ authorized(actor) /\ validateNow(v, now) /\ v.state = "pending" /\ ~ (now >= v.expires)
           /\ command.decision # "approved"
  <2>1. answer.value = NoApproval \/ answer.value = w
    BY <1>5 DEF Decide, ApprovalAnswer
  <2> HIDE DEF w, answer
  <2> QED
    BY <1>1, <1>5, <2>1 DEF MayAnswer, answer
<1>6. CASE /\ authorized(actor) /\ validateNow(v, now) /\ v.state = "pending" /\ ~ (now >= v.expires)
           /\ command.decision = "approved"
  <2>1. /\ v.expires \in Nat /\ now \in Nat /\ command.scope.expires \in Nat
    BY ApprovalAssumption DEF ApprovalValue, Commands, Instant, ScopeOf
  <2>2. \/ answer.value = NoApproval
        \/ /\ answer.value = w /\ narrowerThan(command.scope, v.scope)
           /\ ~ (command.scope.expires <= now)
    BY <1>6 DEF Decide, ApprovalAnswer
  <2>3. CASE narrowerThan(command.scope, v.scope) /\ ~ (command.scope.expires <= now)
    <3>1. now < v.expires /\ now < command.scope.expires
      BY <1>6, <2>1, <2>3
    <3>2. SoundlyApproved(w)
      BY <1>6, <2>3, <3>1, ApprovalIsSound
    <3> HIDE DEF w, answer
    <3> QED
      BY <1>1, <1>6, <2>2, <3>2 DEF MayAnswer, answer
  <2> HIDE DEF w
  <2> QED
    BY <2>2, <2>3 DEF MayAnswer
<1> QED
  BY <1>2, <1>3, <1>4, <1>5, <1>6

\* Cancel and Invalidate's answer, and those of Expire and Inspect.
LEMMA EndingAnswers ==
    ASSUME NEW v \in ApprovalValue, NEW now \in Instant
    PROVE  /\ \A next \in {"cancelled", "invalidated"} : MayAnswer(v, endPending(v, next, now).value)
           /\ MayAnswer(v, Expire(v, now).value)
           /\ \A actor \in Actor : MayAnswer(v, Inspect(v, actor, now).value)
<1>1. ASSUME NEW next \in {"cancelled", "invalidated"}
      PROVE  MayAnswer(v, endPending(v, next, now).value)
  <2> DEFINE w == [v EXCEPT !.state = next, !.terminalAt = now]
             answer == endPending(v, next, now)
  <2>1. w \in ApprovalValue /\ w.state # "approved"
    <3>1. next \in Ends /\ next # "approved"
      BY DEF Ends
    <3>2. w \in ApprovalValue
      BY <3>1, PendingEnds
    <3> QED
      BY <3>1, <3>2 DEF ApprovalValue
  <2>2. \/ answer.value \in {NoApproval, v}
        \/ answer.value = expire(v, now)
        \/ v.state = "pending" /\ answer.value = w
    BY DEF endPending, ApprovalAnswer
  <2>3. MayAnswer(v, expire(v, now))
    BY ExpireAnswers
  <2> HIDE DEF w, answer
  <2> QED
    BY <2>1, <2>2, <2>3 DEF MayAnswer, answer
<1>2. MayAnswer(v, Expire(v, now).value)
  <2>1. Expire(v, now).value \in {NoApproval, expire(v, now)}
    BY DEF Expire, ApprovalAnswer
  <2>2. MayAnswer(v, expire(v, now)) /\ MayAnswer(v, NoApproval)
    BY ExpireAnswers DEF MayAnswer
  <2> QED
    BY <2>1, <2>2
<1>3. ASSUME NEW actor \in Actor PROVE MayAnswer(v, Inspect(v, actor, now).value)
  <2>1. Inspect(v, actor, now).value \in {NoApproval, Expire(v, now).value}
    BY DEF Inspect, ApprovalAnswer
  <2>2. MayAnswer(v, NoApproval)
    BY DEF MayAnswer
  <2> QED
    BY <1>2, <2>1, <2>2
<1> QED
  BY <1>1, <1>2, <1>3

\* A holder that keeps an answer keeps a value, and changes it only as a decision may.
LEMMA KeepsAnswer ==
    ASSUME approval \in ApprovalValue, NEW answer, MayAnswer(approval, answer.value), Keeps(answer)
    PROVE  HeldValue' /\ (approval' = approval \/ DecisionHolds)
<1>1. \/ approval' = approval
      \/ /\ approval.state = "pending" /\ approval' \in ApprovalValue
         /\ approval'.state = "approved" => SoundlyApproved(approval')
  BY DEF Keeps, MayAnswer
<1> QED
  BY <1>1 DEF HeldValue, DecisionHolds

\* Evaluate makes a pending value or none.
LEMMA EvaluateHolds ==
    ASSUME Evaluate
    PROVE  HeldValue' /\ (approval' = approval \/ DecisionHolds)
<1>1. PICK wellformed \in BOOLEAN, uses \in Uses, until \in Instant, expires \in Instant, now \in Instant :
          approval' = IF wellformed /\ validProjection(ScopeOf(uses, until), expires, now)
                      THEN [state |-> "pending", scope |-> ScopeOf(uses, until),
                            created |-> now, expires |-> expires, hasDecision |-> FALSE,
                            actor |-> "none", command |-> [decision |-> "none"], terminalAt |-> 0]
                      ELSE NoApproval
  BY DEF Evaluate
<1>2. approval = NoApproval /\ approval.state = "none"
  BY DEF Evaluate, NoApproval
<1>3. ScopeOf(uses, until) \in [uses : Nat, expires : Nat] /\ 0 \in Instant
  BY ApprovalAssumption DEF ScopeOf, Uses, Instant
<1>4. CASE wellformed /\ validProjection(ScopeOf(uses, until), expires, now)
  <2>1. approval' \in ApprovalValue /\ approval'.state = "pending"
    BY <1>1, <1>3, <1>4 DEF ApprovalValue
  <2> QED
    BY <1>2, <2>1 DEF HeldValue, DecisionHolds
<1>5. CASE ~ (wellformed /\ validProjection(ScopeOf(uses, until), expires, now))
  BY <1>1, <1>2, <1>5 DEF HeldValue
<1> QED
  BY <1>4, <1>5

\* For any actors, keys, windows and clocks: a terminal Approval never changes again,
\* and one that is approved was so by someone authorized, within the proposal and
\* before its deadline, and answers only the exact repeat of that decision (Decide,
\* Cancel, Invalidate, Expire and Inspect in any order).
THEOREM DecisionsStand == ApprovalSpec => DecisionStands
<1>1. ApprovalInit => HeldValue
  BY DEF ApprovalInit, HeldValue
<1>2. HeldValue /\ [ApprovalNext]_approval => HeldValue' /\ [DecisionHolds]_approval
  <2> SUFFICES ASSUME HeldValue, ApprovalNext
               PROVE  HeldValue' /\ (approval' = approval \/ DecisionHolds)
    BY DEF HeldValue
  <2>1. CASE Evaluate
    BY <2>1, EvaluateHolds
  <2>2. ASSUME approval # NoApproval PROVE approval \in ApprovalValue
    BY <2>2 DEF HeldValue
  <2>3. CASE Decides
    <3>1. PICK actor \in Actor, command \in Commands, now \in Instant :
              Keeps(Decide(approval, actor, command, now))
      BY <2>3 DEF Decides
    <3>2. approval \in ApprovalValue
      BY <2>2, <2>3 DEF Decides
    <3>3. MayAnswer(approval, Decide(approval, actor, command, now).value)
      BY <3>2, DecideAnswers
    <3> QED
      BY <3>1, <3>2, <3>3, KeepsAnswer
  <2>4. CASE EndsPending
    <3>1. PICK next \in {"cancelled", "invalidated"}, now \in Instant :
              Keeps(endPending(approval, next, now))
      BY <2>4 DEF EndsPending
    <3>2. approval \in ApprovalValue
      BY <2>2, <2>4 DEF EndsPending
    <3>3. MayAnswer(approval, endPending(approval, next, now).value)
      BY <3>2, EndingAnswers
    <3> QED
      BY <3>1, <3>2, <3>3, KeepsAnswer
  <2>5. CASE Inspects
    <3>1. PICK actor \in Actor, now \in Instant :
              Keeps(Inspect(approval, actor, now)) \/ Keeps(Expire(approval, now))
      BY <2>5 DEF Inspects
    <3>2. approval \in ApprovalValue
      BY <2>2, <2>5 DEF Inspects
    <3>3. /\ MayAnswer(approval, Inspect(approval, actor, now).value)
          /\ MayAnswer(approval, Expire(approval, now).value)
      BY <3>2, EndingAnswers
    <3> QED
      BY <3>1, <3>2, <3>3, KeepsAnswer
  <2> QED
    BY <2>1, <2>3, <2>4, <2>5 DEF ApprovalNext
<1> QED
  BY <1>1, <1>2, PTL DEF ApprovalSpec, DecisionStands

(***************************************************************************)
(* The milestone notifier.                                                 *)
(***************************************************************************)
ReportStatus == {"blocked", "in_progress", "completed"}

RetainedRecord ==
    [delivery : {"pending", "sent", "failed"}, status : ReportStatus,
     failure : {"none", "unavailable", "rejected"}, attempts : Nat]

\* A record that Retain has linked into place.
Retained ==
    /\ record \in RetainedRecord
    /\ record.status = "completed" => \A q \in Owned : ledger[q] = "completed"

\* An invocation past Publish or Retry has a record to deliver, one whose delivery
\* was answered has been received, and so has a record that is marked sent.
DeliveryInv ==
    /\ ledger = [q \in Requirement |-> ledger[q]]
    /\ invocation = [i \in Invocation |-> invocation[i]]
    /\ record = NoRecord \/ Retained
    /\ record = NoRecord => received = {}
    /\ received \subseteq {record.status}
    /\ record.delivery = "sent" => received = {record.status}
    /\ \A i \in Invocation :
          /\ invocation[i] \in {"delivering", "delivered", "unavailable", "rejected"} => record # NoRecord
          /\ invocation[i] = "delivered" => received = {record.status}

\* What BuildRecord may say of the ledger.
LEMMA ReportIsBuilt ==
    ASSUME NEW uncertain \in BOOLEAN
    PROVE  /\ BuildRecord(ledger, uncertain) \in ReportStatus \cup {"refused"}
           /\ BuildRecord(ledger, uncertain) = "completed" => \A q \in Owned : ledger[q] = "completed"
BY DEF BuildRecord, ReportStatus

\* Where an invocation goes, and that the others stay.
LEMMA InvocationIsAt ==
    ASSUME invocation = [i \in Invocation |-> invocation[i]], NEW i \in Invocation,
           NEW place, InvocationMoves(i, place)
    PROVE  /\ invocation' = [j \in Invocation |-> invocation'[j]]
           /\ invocation'[i] = place
           /\ \A j \in Invocation : j # i => invocation'[j] = invocation[j]
<1>1. invocation' = [invocation EXCEPT ![i] = place]
  BY DEF InvocationMoves
<1> QED
  BY <1>1

\* Publish retains the record before it delivers it.
LEMMA PublishKeepsDelivery ==
    ASSUME DeliveryInv, NEW i \in Invocation, NEW uncertain \in BOOLEAN, Publish(i, uncertain)
    PROVE  DeliveryInv'
<1> DEFINE status == BuildRecord(ledger, uncertain)
<1>1. /\ status \in ReportStatus \cup {"refused"}
      /\ status = "completed" => \A q \in Owned : ledger[q] = "completed"
  BY ReportIsBuilt
<1> HIDE DEF status
<1>2. invocation = [j \in Invocation |-> invocation[j]]
  BY DEF DeliveryInv
<1>3. UNCHANGED <<ledger, received>>
  BY DEF Publish
<1>4. CASE InvocationMoves(i, "ended") /\ UNCHANGED record
  BY <1>2, <1>3, <1>4, InvocationIsAt DEF DeliveryInv, Retained
<1>5. CASE /\ status # "refused" /\ record = NoRecord /\ InvocationMoves(i, "delivering")
           /\ record' = [delivery |-> "pending", status |-> status, failure |-> "none", attempts |-> 0]
  <2>1. Retained' /\ record'.delivery = "pending" /\ record' # NoRecord /\ received' = {}
    BY <1>1, <1>3, <1>5 DEF Retained, RetainedRecord, DeliveryInv, NoRecord
  <2>2. \A j \in Invocation : invocation'[j] # "delivered"
    BY <1>2, <1>5, InvocationIsAt DEF DeliveryInv
  <2> QED
    BY <1>2, <1>3, <1>5, <2>1, <2>2, InvocationIsAt DEF DeliveryInv
<1> QED
  BY <1>4, <1>5 DEF Publish, status

\* A mark changes the delivery of a record, and its report stays.
LEMMA MarkedRecord ==
    ASSUME NEW r \in RetainedRecord, NEW d \in {"sent", "failed"},
           NEW f \in {"none", "unavailable", "rejected"}
    PROVE  LET w == [r EXCEPT !.delivery = d, !.failure = f, !.attempts = @ + 1]
           IN  w \in RetainedRecord /\ w.status = r.status /\ w.delivery = d
<1> DEFINE w == [r EXCEPT !.delivery = d, !.failure = f, !.attempts = @ + 1]
           x == [r EXCEPT !.delivery = d, !.failure = f]
<1>1. r.attempts + 1 \in Nat
  BY DEF RetainedRecord
<1>2. x \in RetainedRecord /\ x.status = r.status /\ x.delivery = d
  BY DEF RetainedRecord
<1>3. w = [x EXCEPT !.attempts = r.attempts + 1]
  OBVIOUS
<1> HIDE DEF w, x
<1>4. w \in RetainedRecord /\ w.status = x.status /\ w.delivery = x.delivery
  BY <1>1, <1>2, <1>3 DEF RetainedRecord
<1> QED
  BY <1>2, <1>4 DEF w

\* A mark leaves what was told as it was.
LEMMA MarkKeepsDelivery ==
    ASSUME DeliveryInv, NEW i \in Invocation, MarkSent(i) \/ MarkFailed(i)
    PROVE  DeliveryInv'
<1>1. /\ invocation[i] \in {"delivered", "unavailable", "rejected"}
      /\ invocation[i] = "delivered" => received = {record.status}
      /\ invocation = [j \in Invocation |-> invocation[j]]
      /\ InvocationMoves(i, "ended") /\ UNCHANGED <<ledger, received>>
  BY DEF MarkSent, MarkFailed, DeliveryInv
<1>2. Retained /\ record # NoRecord
  BY <1>1 DEF DeliveryInv
<1>3. /\ Retained' /\ record'.status = record.status
      /\ record'.delivery = "sent" => received = {record.status}
  <2>1. CASE record' = record
    BY <1>1, <1>2, <2>1 DEF Retained, DeliveryInv
  <2>2. CASE /\ MarkSent(i)
             /\ record' = [record EXCEPT !.delivery = "sent", !.failure = "none", !.attempts = @ + 1]
    <3>1. record \in RetainedRecord
      BY <1>2 DEF Retained
    <3>2. /\ record' \in RetainedRecord /\ record'.status = record.status
          /\ record'.delivery = "sent"
      BY <2>2, <3>1, MarkedRecord
    <3>3. Retained'
      BY <1>1, <1>2, <3>2 DEF Retained
    <3>4. invocation[i] = "delivered"
      BY <2>2 DEF MarkSent
    <3> QED
      BY <1>1, <3>2, <3>3, <3>4
  <2>3. CASE /\ MarkFailed(i)
             /\ record' = [record EXCEPT !.delivery = "failed", !.failure = invocation[i],
                                         !.attempts = @ + 1]
    <3>1. record \in RetainedRecord
      BY <1>2 DEF Retained
    <3>2. /\ record' \in RetainedRecord /\ record'.status = record.status
          /\ record'.delivery = "failed"
      <4>1. invocation[i] \in {"none", "unavailable", "rejected"}
        BY <2>3 DEF MarkFailed
      <4> QED
        BY <2>3, <3>1, <4>1, MarkedRecord
    <3>3. Retained'
      BY <1>1, <1>2, <3>2 DEF Retained
    <3> QED
      BY <3>2, <3>3
  <2> QED
    BY <2>1, <2>2, <2>3 DEF MarkSent, MarkFailed
<1>4. record' # NoRecord
  BY <1>3 DEF Retained, RetainedRecord, NoRecord
<1> QED
  BY <1>1, <1>3, <1>4, InvocationIsAt DEF DeliveryInv

\* For any number of invocations and requirements: every report the topic received is
\* the one in the record file, a record marked sent was received, and a completed
\* report was built from completed requirements (Publish, Retry, Deliver, MarkSent
\* and MarkFailed, with invocations that die in between).
THEOREM ReportsAreRetained == MilestoneSpec => []ToldIsRetained
<1>1. MilestoneInit => DeliveryInv
  BY DEF MilestoneInit, DeliveryInv, NoRecord
<1>2. DeliveryInv /\ [MilestoneNext]_milestoneVars => DeliveryInv'
  <2> SUFFICES ASSUME DeliveryInv, [MilestoneNext]_milestoneVars PROVE DeliveryInv'
    OBVIOUS
  <2>1. ASSUME NEW q \in Requirement, LedgerEdited(q) PROVE DeliveryInv'
    <3>1. PICK s \in RequirementStatus : ledger' = [ledger EXCEPT ![q] = s]
      BY <2>1 DEF LedgerEdited
    <3>2. /\ ledger' = [p \in Requirement |-> ledger'[p]]
          /\ \A p \in Requirement : p # q => ledger'[p] = ledger[p]
      BY <3>1 DEF DeliveryInv
    <3>3. ledger[q] # "completed" /\ UNCHANGED <<record, claim, invocation, received>>
      BY <2>1 DEF LedgerEdited
    <3>4. Retained => Retained'
      BY <3>2, <3>3, MilestoneAssumption DEF Retained
    <3> QED
      BY <3>2, <3>3, <3>4 DEF DeliveryInv
  <2>2. ASSUME NEW i \in Invocation, NEW uncertain \in BOOLEAN, Publish(i, uncertain) PROVE DeliveryInv'
    BY <2>2, PublishKeepsDelivery
  <2>3. ASSUME NEW i \in Invocation, Retry(i) PROVE DeliveryInv'
    <3>1. /\ UNCHANGED <<ledger, record, received>>
          /\ \/ InvocationMoves(i, "ended")
             \/ InvocationMoves(i, "delivering") /\ record.delivery \in {"failed", "pending"}
      BY <2>3 DEF Retry
    <3>2. record.delivery \in {"failed", "pending"} => record # NoRecord
      BY DEF NoRecord
    <3> QED
      BY <3>1, <3>2, InvocationIsAt DEF DeliveryInv, Retained
  <2>4. ASSUME NEW i \in Invocation, Deliver(i) PROVE DeliveryInv'
    <3>1. /\ UNCHANGED <<ledger, record>> /\ invocation[i] = "delivering"
          /\ \/ received' = received \cup {record.status}
                /\ (InvocationMoves(i, "delivered") \/ InvocationMoves(i, "unavailable"))
             \/ received' = received /\ (InvocationMoves(i, "unavailable") \/ InvocationMoves(i, "rejected"))
      BY <2>4 DEF Deliver
    <3>2. record # NoRecord /\ Retained /\ Retained'
      BY <3>1 DEF DeliveryInv, Retained
    <3>3. received \subseteq received' /\ received' \subseteq {record.status}
      BY <3>1 DEF DeliveryInv
    <3>4. received' = received \cup {record.status} => received' = {record.status}
      BY DEF DeliveryInv
    <3> QED
      BY <3>1, <3>2, <3>3, <3>4, InvocationIsAt DEF DeliveryInv
  <2>5. ASSUME NEW i \in Invocation, MarkSent(i) \/ MarkFailed(i) PROVE DeliveryInv'
    BY <2>5, MarkKeepsDelivery
  <2>6. ASSUME NEW i \in Invocation, InvocationDies(i) PROVE DeliveryInv'
    <3>1. InvocationMoves(i, "ended") /\ UNCHANGED <<ledger, record, received>>
      BY <2>6 DEF InvocationDies
    <3> QED
      BY <3>1, InvocationIsAt DEF DeliveryInv, Retained
  <2>7. CASE UNCHANGED milestoneVars
    BY <2>7 DEF milestoneVars, DeliveryInv, Retained
  <2> QED
    BY <2>1, <2>2, <2>3, <2>4, <2>5, <2>6, <2>7 DEF MilestoneNext
<1>3. DeliveryInv => ToldIsRetained
  <2> SUFFICES ASSUME DeliveryInv PROVE ToldIsRetained
    OBVIOUS
  <2>1. CASE record = NoRecord
    BY <2>1 DEF DeliveryInv, ToldIsRetained, NoRecord
  <2>2. CASE Retained
    BY <2>2 DEF DeliveryInv, ToldIsRetained, Retained, RetainedRecord, ReportStatus
  <2> QED
    BY <2>1, <2>2 DEF DeliveryInv
<1> QED
  BY <1>1, <1>2, <1>3, PTL DEF MilestoneSpec

(***************************************************************************)
(* The back-fill controller.                                               *)
(***************************************************************************)
Place == {"list", "watch", "next", "begin", "verify", "read", "update", "conflict", "stopped"}

\* Where a replica reconciles the request at the head of its queue.
Busy == {"begin", "verify", "read", "update", "conflict"}

BackfillStatus ==
    [phase : {"none", "Verified", "Refused"},
     reason : {"none", "not_admitted", "expired", "snapshot", "content"}, at : Nat]

BackfillObject == [version : Nat, status : BackfillStatus]

Replica ==
    [at : Place, queue : Seq(1..Requests), watching : BOOLEAN, now : Nat, version : Nat,
     candidate : BackfillStatus, seen : [1..Requests -> Nat]]

\* A replica has a request while it reconciles, a verdict before it writes one, and
\* the version it read is one at which the object, if it still has it, has no verdict.
Sound(k, objects) ==
    /\ k \in Replica
    /\ k.at \in Busy => k.queue # <<>>
    /\ k.at \in {"read", "update"} => k.candidate # NoStatus
    /\ k.at = "update" =>
          LET o == objects[Head(k.queue)]
          IN  k.version <= o.version /\ (k.version = o.version => o.status = NoStatus)

VerdictInv ==
    /\ clock \in Nat
    /\ resource \in [1..Requests -> BackfillObject]
    /\ controller = [c \in Controller |-> controller[c]]
    /\ answered = [r \in 1..Requests |-> answered[r]]
    /\ archive = [r \in 1..Requests |-> archive[r]]
    /\ \A c \in Controller : Sound(controller[c], resource)
    /\ \A r \in 1..Requests :
          /\ answered[r] \subseteq {resource[r].status} \ {NoStatus}
          /\ archive[r] \in {NoStatus, resource[r].status}

\* An object changes only while it has no verdict, and its version moves then.
Grows(objects, later) ==
    \A r \in 1..Requests :
        \/ later[r] = objects[r]
        \/ later[r].version > objects[r].version /\ objects[r].status = NoStatus

\* The head of a queue, and what is behind it.
LEMMA QueueParts ==
    ASSUME NEW q \in Seq(1..Requests), q # <<>>
    PROVE  /\ Head(q) \in 1..Requests /\ Tail(q) \in Seq(1..Requests)
           /\ Len(q) > 1 => Tail(q) # <<>>
<1>1. Len(Tail(q)) = Len(q) - 1 /\ Len(q) \in Nat
  BY HeadTailProperties
<1>2. Tail(q) = <<>> => Len(Tail(q)) = 0
  <2>1. Len(<<>>) = 0
    OBVIOUS
  <2> QED
    BY <2>1, Zenon
<1>3. Head(q) \in 1..Requests /\ Tail(q) \in Seq(1..Requests)
  BY HeadTailProperties
<1> QED
  BY <1>1, <1>2, <1>3

\* A replica is as sound after another's write as before.
LEMMA SoundStays ==
    ASSUME NEW objects \in [1..Requests -> BackfillObject],
           NEW later \in [1..Requests -> BackfillObject], Grows(objects, later),
           NEW k, Sound(k, objects)
    PROVE  Sound(k, later)
<1>1. CASE k.at # "update"
  BY <1>1 DEF Sound
<1>2. CASE k.at = "update"
  <2> DEFINE r == Head(k.queue)
  <2>1. k.queue # <<>> /\ k.queue \in Seq(1..Requests) /\ k.version \in Nat
    BY <1>2 DEF Sound, Busy, Replica
  <2>2. r \in 1..Requests
    BY <2>1, QueueParts, Zenon
  <2>3. k.version <= objects[r].version /\ (k.version = objects[r].version => objects[r].status = NoStatus)
    BY <1>2 DEF Sound
  <2>4. objects[r].version \in Nat /\ later[r].version \in Nat
    BY <2>2 DEF BackfillObject
  <2>5. k.version <= later[r].version /\ (k.version = later[r].version => later[r].status = NoStatus)
    <3>1. \/ later[r] = objects[r]
          \/ later[r].version > objects[r].version /\ objects[r].status = NoStatus
      BY <2>2 DEF Grows
    <3> HIDE DEF r
    <3> QED
      BY <2>1, <2>3, <2>4, <3>1
  <2> QED
    BY <2>5 DEF Sound
<1> QED
  BY <1>1, <1>2

\* A replica that goes idle, that begins, or that ends a reconciliation is sound.
LEMMA EndsSound ==
    ASSUME NEW k \in Replica, NEW objects
    PROVE  /\ Sound(NewController, objects)
           /\ Sound(ReconcileFailed(k), objects)
           /\ k.queue # <<>> => Sound(Reconciled(k), objects)
<1>1. /\ NewController \in Replica /\ NewController.at = "list"
      /\ \A place \in Place : [NewController EXCEPT !.at = place] \in Replica
      /\ \A place \in Place : [NewController EXCEPT !.at = place].at = place
  <2>1. NoStatus \in BackfillStatus /\ <<>> \in Seq(1..Requests) /\ [r \in 1..Requests |-> 0] \in [1..Requests -> Nat]
    BY DEF NoStatus, BackfillStatus
  <2>2. NewController \in Replica
    BY <2>1 DEF NewController, Replica, Place
  <2> QED
    BY <2>2 DEF Replica, NewController
<1>2. Sound(NewController, objects)
  BY <1>1 DEF Sound, Busy
<1>3. Sound(ReconcileFailed(k), objects)
  <2>1. PICK place \in {"list", "stopped"} : ReconcileFailed(k) = [NewController EXCEPT !.at = place]
    BY DEF ReconcileFailed
  <2>2. ReconcileFailed(k) \in Replica /\ ReconcileFailed(k).at \in {"list", "stopped"}
    BY <1>1, <2>1 DEF Place
  <2> QED
    BY <2>2 DEF Sound, Busy
<1>4. ASSUME k.queue # <<>> PROVE Sound(Reconciled(k), objects)
  <2> DEFINE place == IF Len(k.queue) > 1 THEN "begin" ELSE IF k.watching THEN "next" ELSE "watch"
  <2>1. /\ k.queue \in Seq(1..Requests) /\ k.watching \in BOOLEAN /\ k.seen \in [1..Requests -> Nat]
        /\ place \in Place
    BY DEF Replica, Place
  <2>2. Tail(k.queue) \in Seq(1..Requests) /\ (Len(k.queue) > 1 => Tail(k.queue) # <<>>)
    BY <1>4, <2>1, QueueParts, Zenon
  <2>3. Reconciled(k) = [NewController EXCEPT !.at = place, !.queue = Tail(k.queue),
                                              !.watching = k.watching, !.seen = k.seen]
    BY DEF Reconciled
  <2> HIDE DEF place
  <2>4. /\ Reconciled(k) \in Replica /\ Reconciled(k).at = place /\ Reconciled(k).queue = Tail(k.queue)
    <3> DEFINE x == [NewController EXCEPT !.at = place, !.queue = Tail(k.queue)]
               y == [x EXCEPT !.watching = k.watching]
    <3>1. x \in Replica /\ x.at = place /\ x.queue = Tail(k.queue)
      BY <1>1, <2>1, <2>2 DEF Replica
    <3>2. Reconciled(k) = [y EXCEPT !.seen = k.seen]
      BY <2>3
    <3> HIDE DEF x
    <3>3. y \in Replica /\ y.at = x.at /\ y.queue = x.queue
      BY <2>1, <3>1 DEF Replica
    <3> HIDE DEF y
    <3>4. Reconciled(k) \in Replica /\ Reconciled(k).at = y.at /\ Reconciled(k).queue = y.queue
      BY <2>1, <3>2, <3>3 DEF Replica
    <3> QED
      BY <3>1, <3>3, <3>4
  <2>5. Sound(Reconciled(k), objects)
    BY <2>2, <2>4 DEF place, Sound, Busy
  <2> QED
    BY <2>5
<1> QED
  BY <1>2, <1>3, <1>4

\* The answers given so far stay true when objects grow.
LEMMA AnswersStay ==
    ASSUME VerdictInv, Grows(resource, resource')
    PROVE  \A r \in 1..Requests :
              /\ answered[r] \subseteq {resource'[r].status} \ {NoStatus}
              /\ archive[r] \in {NoStatus, resource'[r].status}
<1> SUFFICES ASSUME NEW r \in 1..Requests
             PROVE  /\ answered[r] \subseteq {resource'[r].status} \ {NoStatus}
                    /\ archive[r] \in {NoStatus, resource'[r].status}
  OBVIOUS
<1>1. /\ answered[r] \subseteq {resource[r].status} \ {NoStatus}
      /\ archive[r] \in {NoStatus, resource[r].status}
  BY DEF VerdictInv
<1>2. resource'[r] = resource[r] \/ resource[r].status = NoStatus
  BY DEF Grows
<1> QED
  BY <1>1, <1>2

\* A replica's step: it stays sound, and what it answers is what the object holds.
LEMMA ReplicaStep ==
    ASSUME VerdictInv, NEW c \in Controller, NEW k, ReplicaMoves(c, k), Sound(k, resource'),
           resource' \in [1..Requests -> BackfillObject], Grows(resource, resource'),
           UNCHANGED <<clock, archive>>,
           answered' = [r \in 1..Requests |-> answered'[r]],
           \A r \in 1..Requests : answered'[r] \subseteq {resource'[r].status} \ {NoStatus}
    PROVE  VerdictInv'
<1>1. /\ resource \in [1..Requests -> BackfillObject]
      /\ controller = [d \in Controller |-> controller[d]]
      /\ \A d \in Controller : Sound(controller[d], resource)
  BY DEF VerdictInv
<1>2. controller' = [controller EXCEPT ![c] = k]
  BY DEF ReplicaMoves
<1>3. /\ controller' = [d \in Controller |-> controller'[d]]
      /\ controller'[c] = k /\ \A d \in Controller : d # c => controller'[d] = controller[d]
  BY <1>1, <1>2
<1>4. \A d \in Controller : Sound(controller'[d], resource')
  BY <1>1, <1>3, SoundStays
<1>5. \A r \in 1..Requests : archive[r] \in {NoStatus, resource'[r].status}
  BY AnswersStay
<1> QED
  BY <1>3, <1>4, <1>5 DEF VerdictInv

\* A replica's step that touches neither objects nor answers.
LEMMA QuietStep ==
    ASSUME VerdictInv, NEW c \in Controller, NEW k, ReplicaMoves(c, k), Sound(k, resource),
           UNCHANGED <<clock, resource, answered, archive>>
    PROVE  VerdictInv'
<1>1. /\ resource' \in [1..Requests -> BackfillObject] /\ Grows(resource, resource')
      /\ answered' = [r \in 1..Requests |-> answered'[r]]
      /\ \A r \in 1..Requests : answered'[r] \subseteq {resource'[r].status} \ {NoStatus}
      /\ Sound(k, resource')
  BY DEF VerdictInv, Grows
<1> QED
  BY <1>1, ReplicaStep

\* validateTerminal returns the object's own status or fails.
LEMMA TerminalStep ==
    ASSUME VerdictInv, NEW c \in Controller, NEW k \in Replica, NEW s,
           k.queue = controller[c].queue, k.queue # <<>>, validateTerminal(c, k, s),
           s = resource'[Reconciling(c)].status,
           resource' \in [1..Requests -> BackfillObject], Grows(resource, resource'),
           UNCHANGED <<clock, archive>>
    PROVE  VerdictInv'
<1> DEFINE r == Reconciling(c)
<1>1. r \in 1..Requests
  <2>1. k.queue \in Seq(1..Requests) /\ r = Head(k.queue)
    BY DEF Replica, Reconciling
  <2> QED
    BY <2>1, QueueParts, Zenon
<1>2. answered = [q \in 1..Requests |-> answered[q]]
  BY DEF VerdictInv
<1>3. \A q \in 1..Requests : answered[q] \subseteq {resource'[q].status} \ {NoStatus}
  BY AnswersStay
<1>4. CASE ValidateFor(r, s, k.now)
  <2>1. ReplicaMoves(c, Reconciled(k)) /\ answered' = [answered EXCEPT ![r] = @ \cup {s}]
    BY <1>4 DEF validateTerminal
  <2>2. s # NoStatus
    BY <1>4 DEF ValidateFor, NoStatus
  <2>3. /\ answered' = [q \in 1..Requests |-> answered'[q]]
        /\ \A q \in 1..Requests : answered'[q] = IF q = r THEN answered[q] \cup {s} ELSE answered[q]
    BY <1>1, <1>2, <2>1
  <2>4. \A q \in 1..Requests : answered'[q] \subseteq {resource'[q].status} \ {NoStatus}
    BY <1>3, <2>2, <2>3
  <2>5. Sound(Reconciled(k), resource')
    BY EndsSound
  <2> QED
    BY <2>1, <2>3, <2>4, <2>5, ReplicaStep
<1>5. CASE ~ ValidateFor(r, s, k.now)
  <2>1. ReplicaMoves(c, ReconcileFailed(k)) /\ answered' = answered
    BY <1>5 DEF validateTerminal
  <2>2. Sound(ReconcileFailed(k), resource')
    BY EndsSound
  <2>3. /\ answered' = [q \in 1..Requests |-> answered'[q]]
        /\ \A q \in 1..Requests : answered'[q] \subseteq {resource'[q].status} \ {NoStatus}
    BY <1>2, <1>3, <2>1
  <2> QED
    BY <2>1, <2>2, <2>3, ReplicaStep
<1> QED
  BY <1>4, <1>5

\* A verdict is a status, and a terminal one.
LEMMA VerdictIsTerminal ==
    ASSUME NEW r, NEW now \in Nat, NEW found
    PROVE  Verdict(r, now, found) \in BackfillStatus /\ Verdict(r, now, found) # NoStatus
<1>1. /\ \A reason \in {"not_admitted", "expired", "snapshot", "content"} :
           StatusOf("Refused", reason, now) \in BackfillStatus /\ StatusOf("Refused", reason, now) # NoStatus
      /\ StatusOf("Verified", "none", now) \in BackfillStatus /\ StatusOf("Verified", "none", now) # NoStatus
  BY DEF StatusOf, BackfillStatus, NoStatus
<1> QED
  BY <1>1 DEF Verdict

\* The changes a replica makes to what it holds, one field at a time.
LEMMA ReplicaFields ==
    ASSUME NEW k \in Replica
    PROVE  /\ \A p \in Place :
                LET w == [k EXCEPT !.at = p]
                IN  /\ w \in Replica /\ w.at = p /\ w.queue = k.queue /\ w.candidate = k.candidate
                    /\ w.version = k.version
           /\ \A q \in Seq(1..Requests) :
                LET w == [k EXCEPT !.queue = q] IN w \in Replica /\ w.at = k.at /\ w.queue = q
           /\ \A f \in [1..Requests -> Nat] :
                LET w == [k EXCEPT !.seen = f] IN w \in Replica /\ w.at = k.at /\ w.queue = k.queue
           /\ LET w == [k EXCEPT !.watching = TRUE] IN w \in Replica /\ w.at = k.at
           /\ \A n \in Nat :
                LET w == [k EXCEPT !.now = n] IN w \in Replica /\ w.at = k.at /\ w.queue = k.queue
           /\ \A s \in BackfillStatus :
                LET w == [k EXCEPT !.candidate = s]
                IN  w \in Replica /\ w.at = k.at /\ w.queue = k.queue /\ w.candidate = s
           /\ \A v \in Nat :
                LET w == [k EXCEPT !.version = v]
                IN  /\ w \in Replica /\ w.at = k.at /\ w.queue = k.queue /\ w.candidate = k.candidate
                    /\ w.version = v
<1>1. \A p \in Place :
          LET w == [k EXCEPT !.at = p]
          IN  /\ w \in Replica /\ w.at = p /\ w.queue = k.queue /\ w.candidate = k.candidate
              /\ w.version = k.version
  BY DEF Replica
<1>2. \A q \in Seq(1..Requests) :
          LET w == [k EXCEPT !.queue = q] IN w \in Replica /\ w.at = k.at /\ w.queue = q
  BY DEF Replica
<1>3. \A f \in [1..Requests -> Nat] :
          LET w == [k EXCEPT !.seen = f] IN w \in Replica /\ w.at = k.at /\ w.queue = k.queue
  BY DEF Replica
<1>4. /\ LET w == [k EXCEPT !.watching = TRUE] IN w \in Replica /\ w.at = k.at
      /\ \A n \in Nat :
           LET w == [k EXCEPT !.now = n] IN w \in Replica /\ w.at = k.at /\ w.queue = k.queue
  BY DEF Replica
<1>5. \A s \in BackfillStatus :
          LET w == [k EXCEPT !.candidate = s]
          IN  w \in Replica /\ w.at = k.at /\ w.queue = k.queue /\ w.candidate = s
  BY DEF Replica
<1>6. \A v \in Nat :
          LET w == [k EXCEPT !.version = v]
          IN  /\ w \in Replica /\ w.at = k.at /\ w.queue = k.queue /\ w.candidate = k.candidate
              /\ w.version = v
  BY DEF Replica
<1> QED
  BY <1>1, <1>2, <1>3, <1>4, <1>5, <1>6

\* What a replica holds, and what its request's object is, before its step.
LEMMA ReplicaHolds ==
    ASSUME VerdictInv, NEW c \in Controller
    PROVE  /\ controller[c] \in Replica /\ Sound(controller[c], resource)
           /\ controller[c].at \in Busy =>
                /\ controller[c].queue # <<>>
                /\ Reconciling(c) \in 1..Requests
                /\ resource[Reconciling(c)] \in BackfillObject
<1>1. Sound(controller[c], resource) /\ controller[c] \in Replica
  BY DEF VerdictInv, Sound
<1>2. ASSUME controller[c].at \in Busy
      PROVE  /\ controller[c].queue # <<>>
             /\ Reconciling(c) \in 1..Requests
             /\ resource[Reconciling(c)] \in BackfillObject
  <2>1. controller[c].queue # <<>> /\ controller[c].queue \in Seq(1..Requests)
    BY <1>1, <1>2 DEF Sound, Replica
  <2>2. Reconciling(c) \in 1..Requests
    BY <2>1, QueueParts, Zenon DEF Reconciling
  <2> QED
    BY <2>1, <2>2 DEF VerdictInv
<1> QED
  BY <1>1, <1>2

\* ListRequests, OpenWatch and WatchNext leave every object and answer alone.
LEMMA IntakeKeepsVerdict ==
    ASSUME VerdictInv, NEW c \in Controller, ListRequests(c) \/ OpenWatch(c) \/ WatchNext(c)
    PROVE  VerdictInv'
<1> DEFINE k == controller[c]
<1>0. UNCHANGED <<clock, resource, answered, archive>>
  BY DEF ListRequests, OpenWatch, WatchNext
<1>1. k \in Replica /\ \A r \in 1..Requests : resource[r].version \in Nat
  BY ReplicaHolds DEF VerdictInv, BackfillObject
<1>2. SUFFICES \E w : ReplicaMoves(c, w) /\ Sound(w, resource)
  BY <1>0, QuietStep
<1>3. /\ Sound(NewController, resource) /\ Sound(ReconcileFailed(k), resource)
  BY <1>1, EndsSound
<1>4. ASSUME ListRequests(c) PROVE \E w : ReplicaMoves(c, w) /\ Sound(w, resource)
  <2> DEFINE q == [r \in 1..Requests |-> r]
             f == [r \in 1..Requests |-> resource[r].version]
             x == [k EXCEPT !.at = "begin"]
             y == [x EXCEPT !.queue = q]
             z == [y EXCEPT !.seen = f]
             w == [k EXCEPT !.at = "stopped"]
  <2>1. ReplicaMoves(c, z) \/ ReplicaMoves(c, w)
    BY <1>4 DEF ListRequests
  <2>2. q \in Seq(1..Requests) /\ q # <<>> /\ f \in [1..Requests -> Nat]
    <3>1. Requests \in Nat /\ 1 \in 1..Requests
      BY BackfillAssumption
    <3>2. q \in Seq(1..Requests) /\ DOMAIN q # {}
      BY <3>1
    <3> QED
      BY <1>1, <3>2
  <2>3. "begin" \in Place /\ "stopped" \in Place
    BY DEF Place
  <2> HIDE DEF q, f, k
  <2>4. w \in Replica /\ w.at = "stopped" /\ x \in Replica /\ x.at = "begin"
    BY <1>1, <2>3, ReplicaFields
  <2> HIDE DEF x, w
  <2>5. y \in Replica /\ y.at = "begin" /\ y.queue = q
    BY <2>2, <2>4, ReplicaFields
  <2> HIDE DEF y
  <2>6. z \in Replica /\ z.at = "begin" /\ z.queue = q
    BY <2>2, <2>5, ReplicaFields
  <2> HIDE DEF z
  <2>7. Sound(z, resource) /\ Sound(w, resource)
    BY <2>2, <2>4, <2>6 DEF Sound, Busy
  <2> QED
    BY <2>1, <2>7
<1>5. ASSUME OpenWatch(c) PROVE \E w : ReplicaMoves(c, w) /\ Sound(w, resource)
  <2> DEFINE x == [k EXCEPT !.at = "next"]
             y == [x EXCEPT !.watching = TRUE]
  <2>1. ReplicaMoves(c, y) \/ ReplicaMoves(c, NewController)
    BY <1>5 DEF OpenWatch
  <2>2. "next" \in Place
    BY DEF Place
  <2> HIDE DEF k
  <2>3. x \in Replica /\ x.at = "next"
    BY <1>1, <2>2, ReplicaFields
  <2> HIDE DEF x
  <2>4. y \in Replica /\ y.at = "next"
    BY <2>3, ReplicaFields
  <2> HIDE DEF y
  <2>5. Sound(y, resource)
    BY <2>4 DEF Sound, Busy
  <2> QED
    BY <1>3, <2>1, <2>5
<1>6. ASSUME WatchNext(c) PROVE \E w : ReplicaMoves(c, w) /\ Sound(w, resource)
  <2>1. CASE ReplicaMoves(c, ReconcileFailed(k))
    BY <1>3, <2>1
  <2>2. ASSUME NEW r \in 1..Requests,
               ReplicaMoves(c, [k EXCEPT !.at = "begin", !.queue = <<r>>, !.seen[r] = resource[r].version])
        PROVE  \E w : ReplicaMoves(c, w) /\ Sound(w, resource)
    <3> DEFINE q == <<r>>
               f == [k.seen EXCEPT ![r] = resource[r].version]
               x == [k EXCEPT !.at = "begin"]
               y == [x EXCEPT !.queue = q]
               z == [y EXCEPT !.seen = f]
    <3>1. /\ q \in Seq(1..Requests) /\ q # <<>> /\ f \in [1..Requests -> Nat] /\ "begin" \in Place
      BY <1>1 DEF Replica, Place
    <3>2. x \in Replica /\ x.at = "begin" /\ x.seen = k.seen
      BY <1>1, <3>1 DEF Replica
    <3>3. ReplicaMoves(c, z)
      BY <1>1, <2>2, <3>2 DEF Replica
    <3> HIDE DEF q, f, x
    <3>4. y \in Replica /\ y.at = "begin" /\ y.queue = q
      BY <3>1, <3>2, ReplicaFields
    <3> HIDE DEF y
    <3>5. z \in Replica /\ z.at = "begin" /\ z.queue = q
      BY <3>1, <3>4, ReplicaFields
    <3> HIDE DEF z
    <3>6. Sound(z, resource)
      BY <3>1, <3>5 DEF Sound, Busy
    <3> QED
      BY <3>3, <3>6
  <2> QED
    BY <1>6, <2>1, <2>2 DEF WatchNext
<1> QED
  BY <1>4, <1>5, <1>6

\* ReconcileWire answers from the object, or goes on to verify.
LEMMA ReconcileKeepsVerdict ==
    ASSUME VerdictInv, NEW c \in Controller, ReconcileWire(c)
    PROVE  VerdictInv'
<1> DEFINE old == controller[c]
           k   == [old EXCEPT !.now = clock]
           w   == [k EXCEPT !.at = "verify"]
           s   == resource[Reconciling(c)].status
<1>0. UNCHANGED <<clock, resource, archive>> /\ old.at = "begin"
  BY DEF ReconcileWire, ReplicaAt
<1>1. old \in Replica /\ old.queue # <<>> /\ clock \in Nat /\ "verify" \in Place
  BY <1>0, ReplicaHolds DEF Busy, VerdictInv, Place
<1>2. \/ validateTerminal(c, k, s)
      \/ ReplicaMoves(c, w) /\ UNCHANGED answered
      \/ ReplicaMoves(c, ReconcileFailed(k)) /\ UNCHANGED answered
  BY DEF ReconcileWire
<1>3. Grows(resource, resource') /\ resource' \in [1..Requests -> BackfillObject]
  BY <1>0 DEF Grows, VerdictInv
<1>4. s = resource'[Reconciling(c)].status
  <2>1. Reconciling(c) \in 1..Requests
    BY <1>0, ReplicaHolds DEF Busy
  <2> QED
    BY <1>0
<1> HIDE DEF s
<1>5. k \in Replica /\ k.queue = controller[c].queue
  BY <1>1, ReplicaFields
<1> HIDE DEF k
<1>6. w \in Replica /\ w.at = "verify" /\ w.queue = k.queue
  BY <1>1, <1>5, ReplicaFields
<1> HIDE DEF w
<1>7. Sound(w, resource)
  BY <1>1, <1>5, <1>6 DEF Sound
<1>8. Sound(ReconcileFailed(k), resource)
  BY <1>5, EndsSound
<1>9. CASE validateTerminal(c, k, s)
  BY <1>0, <1>1, <1>3, <1>4, <1>5, <1>9, TerminalStep
<1> QED
  BY <1>0, <1>2, <1>7, <1>8, <1>9, QuietStep

\* VerifyFrozen leaves the replica with a verdict.
LEMMA VerifyKeepsVerdict ==
    ASSUME VerdictInv, NEW c \in Controller, VerifyFrozen(c)
    PROVE  VerdictInv'
<1> DEFINE k == controller[c]
           v == Verdict(Reconciling(c), k.now, frozen)
           x == [k EXCEPT !.at = "read"]
           w == [x EXCEPT !.candidate = v]
<1>0. UNCHANGED <<clock, resource, answered, archive>> /\ k.at = "verify"
  BY DEF VerifyFrozen, ReplicaAt
<1>1. k \in Replica /\ k.queue # <<>> /\ k.now \in Nat /\ "read" \in Place
  BY <1>0, ReplicaHolds DEF Busy, Replica, Place
<1>2. v \in BackfillStatus /\ v # NoStatus
  BY <1>1, VerdictIsTerminal
<1>3. ReplicaMoves(c, w) \/ ReplicaMoves(c, ReconcileFailed(k))
  BY DEF VerifyFrozen
<1>4. Sound(ReconcileFailed(k), resource)
  BY <1>1, EndsSound
<1> HIDE DEF k, v
<1>5. x \in Replica /\ x.at = "read" /\ x.queue = k.queue
  BY <1>1, ReplicaFields
<1> HIDE DEF x
<1>6. w \in Replica /\ w.at = "read" /\ w.queue = k.queue /\ w.candidate = v
  BY <1>2, <1>5, ReplicaFields
<1> HIDE DEF w
<1>7. Sound(w, resource)
  BY <1>1, <1>2, <1>6 DEF Sound
<1> QED
  BY <1>0, <1>3, <1>4, <1>7, QuietStep

\* CreateTerminal's read finds the winner, or the version at which there is none yet.
LEMMA ReadKeepsVerdict ==
    ASSUME VerdictInv, NEW c \in Controller, CreateTerminal(c)
    PROVE  VerdictInv'
<1> DEFINE k == controller[c]
           r == Reconciling(c)
           o == resource[r]
           x == [k EXCEPT !.at = "update"]
           w == [x EXCEPT !.version = o.version]
<1>0. UNCHANGED <<clock, resource, archive>> /\ k.at = "read"
  BY DEF CreateTerminal, ReplicaAt
<1>1. /\ k \in Replica /\ k.queue # <<>> /\ k.candidate # NoStatus /\ "update" \in Place
      /\ r \in 1..Requests /\ o \in BackfillObject /\ o.version \in Nat /\ r = Head(k.queue)
  BY <1>0, ReplicaHolds DEF Busy, Sound, Place, BackfillObject, Reconciling
<1>2. \/ validateTerminal(c, k, o.status)
      \/ o.status = NoStatus /\ ReplicaMoves(c, w) /\ UNCHANGED answered
      \/ ReplicaMoves(c, ReconcileFailed(k)) /\ UNCHANGED answered
  BY DEF CreateTerminal
<1>3. Grows(resource, resource') /\ resource' \in [1..Requests -> BackfillObject]
  BY <1>0 DEF Grows, VerdictInv
<1>4. CASE validateTerminal(c, k, o.status)
  <2>1. o.status = resource'[Reconciling(c)].status
    BY <1>0, <1>1
  <2> HIDE DEF o
  <2> QED
    BY <1>0, <1>1, <1>3, <1>4, <2>1, TerminalStep
<1>5. Sound(ReconcileFailed(k), resource)
  BY <1>1, EndsSound
<1> HIDE DEF k
<1>6. /\ x \in Replica /\ x.at = "update" /\ x.queue = k.queue /\ x.candidate = k.candidate
  BY <1>1, ReplicaFields
<1> HIDE DEF x
<1>7. /\ w \in Replica /\ w.at = "update" /\ w.queue = k.queue /\ w.candidate = k.candidate
      /\ w.version = o.version
  BY <1>1, <1>6, ReplicaFields
<1> HIDE DEF w
<1>8. o.status = NoStatus => Sound(w, resource)
  BY <1>1, <1>7 DEF Sound
<1> QED
  BY <1>0, <1>2, <1>4, <1>5, <1>8, QuietStep

\* resolveConflict returns the winner or fails.
LEMMA ConflictKeepsVerdict ==
    ASSUME VerdictInv, NEW c \in Controller, resolveConflict(c)
    PROVE  VerdictInv'
<1> DEFINE k == controller[c]
           s == resource[Reconciling(c)].status
<1>0. UNCHANGED <<clock, resource, archive>> /\ k.at = "conflict"
  BY DEF resolveConflict, ReplicaAt
<1>1. k \in Replica /\ k.queue # <<>> /\ Reconciling(c) \in 1..Requests
  BY <1>0, ReplicaHolds DEF Busy
<1>2. \/ validateTerminal(c, k, s)
      \/ ReplicaMoves(c, ReconcileFailed(k)) /\ UNCHANGED answered
  BY DEF resolveConflict
<1>3. Grows(resource, resource') /\ resource' \in [1..Requests -> BackfillObject]
  BY <1>0 DEF Grows, VerdictInv
<1>4. s = resource'[Reconciling(c)].status
  BY <1>0, <1>1
<1>5. Sound(ReconcileFailed(k), resource)
  BY <1>1, EndsSound
<1> HIDE DEF s
<1>6. CASE validateTerminal(c, k, s)
  BY <1>0, <1>1, <1>3, <1>4, <1>6, TerminalStep
<1> QED
  BY <1>0, <1>2, <1>5, <1>6, QuietStep

\* UpdateStatus writes only at the version that was read, where there is no verdict.
LEMMA UpdateKeepsVerdict ==
    ASSUME VerdictInv, NEW c \in Controller, UpdateStatus(c)
    PROVE  VerdictInv'
<1> DEFINE k == controller[c]
           r == Reconciling(c)
           o == [version |-> resource[r].version + 1, status |-> k.candidate]
           written == [resource EXCEPT ![r] = o]
           fits == resource[r].version = k.version
           w == [k EXCEPT !.at = "conflict"]
<1>0. UNCHANGED <<clock, archive>> /\ k.at = "update"
  BY DEF UpdateStatus, ReplicaAt
<1>1. /\ k \in Replica /\ k.queue # <<>> /\ k.candidate \in BackfillStatus /\ "conflict" \in Place
      /\ r \in 1..Requests /\ resource[r] \in BackfillObject
      /\ fits => resource[r].status = NoStatus
  <2>1. Sound(k, resource) /\ r = Head(k.queue)
    BY ReplicaHolds DEF Reconciling
  <2> QED
    BY <1>0, <2>1, ReplicaHolds DEF Busy, Sound, Place, Replica
<1>2. \/ fits /\ resource' = written /\ validateTerminal(c, k, k.candidate)
      \/ /\ fits /\ resource' \in {written, resource} /\ UNCHANGED answered
         /\ ReplicaMoves(c, ReconcileFailed(k))
      \/ resource' = resource /\ UNCHANGED answered /\ ReplicaMoves(c, w)
  BY DEF UpdateStatus
<1>3. resource \in [1..Requests -> BackfillObject]
  BY DEF VerdictInv
<1>4. ASSUME resource' = resource
      PROVE  Grows(resource, resource') /\ resource' \in [1..Requests -> BackfillObject]
  BY <1>3, <1>4 DEF Grows
<1>5. ASSUME fits, resource' = written
      PROVE  /\ Grows(resource, resource') /\ resource' \in [1..Requests -> BackfillObject]
             /\ resource'[r].status = k.candidate
  <2>1. resource[r].version \in Nat /\ o \in BackfillObject
    BY <1>1 DEF BackfillObject
  <2>2. o.version > resource[r].version /\ o.status = k.candidate
    BY <2>1
  <2> HIDE DEF o
  <2>3. /\ resource' \in [1..Requests -> BackfillObject]
        /\ resource'[r] = o /\ \A q \in 1..Requests : q # r => resource'[q] = resource[q]
    BY <1>1, <1>3, <1>5, <2>1
  <2> QED
    BY <1>1, <1>5, <2>2, <2>3 DEF Grows
<1> HIDE DEF written
<1>6. CASE fits /\ resource' = written /\ validateTerminal(c, k, k.candidate)
  BY <1>0, <1>1, <1>5, <1>6, TerminalStep
<1>7. ASSUME NEW m, ReplicaMoves(c, m), UNCHANGED answered, \A objects : Sound(m, objects),
             Grows(resource, resource'), resource' \in [1..Requests -> BackfillObject]
      PROVE  VerdictInv'
  <2>1. /\ answered' = [q \in 1..Requests |-> answered'[q]]
        /\ \A q \in 1..Requests : answered'[q] \subseteq {resource'[q].status} \ {NoStatus}
    BY <1>7, AnswersStay DEF VerdictInv
  <2> QED
    BY <1>0, <1>7, <2>1, ReplicaStep
<1>8. \A objects : Sound(ReconcileFailed(k), objects)
  BY <1>1, EndsSound
<1>9. \A objects : Sound(w, objects)
  <2> HIDE DEF k
  <2>1. w \in Replica /\ w.at = "conflict" /\ w.queue = k.queue
    BY <1>1, ReplicaFields
  <2> HIDE DEF w
  <2> QED
    BY <1>1, <2>1 DEF Sound
<1> HIDE DEF w, k, fits
<1> QED
  BY <1>2, <1>4, <1>5, <1>6, <1>7, <1>8, <1>9

\* For any number of replicas and requests: every status that a reconciliation
\* returned and the archived one are the status the object holds, whatever replicas
\* race, retry after a lost answer or resolve a conflict (UpdateStatus,
\* resolveConflict, Export).
THEOREM VerdictIsOne == BackfillSpec => []OneVerdict
<1>1. BackfillInit => VerdictInv
  <2> SUFFICES ASSUME BackfillInit PROVE VerdictInv
    OBVIOUS
  <2>1. NoStatus \in BackfillStatus
    BY DEF NoStatus, BackfillStatus
  <2>2. [version |-> 1, status |-> NoStatus] \in BackfillObject
    BY <2>1 DEF BackfillObject
  <2>3. NewController \in Replica
    BY <2>1 DEF NewController, Replica, Place
  <2>4. \A c \in Controller : Sound(controller[c], resource)
    BY <2>3, EndsSound DEF BackfillInit
  <2> QED
    BY <2>2, <2>4 DEF BackfillInit, VerdictInv
<1>2. VerdictInv /\ [BackfillNext]_backfillVars => VerdictInv'
  <2> SUFFICES ASSUME VerdictInv, [BackfillNext]_backfillVars PROVE VerdictInv'
    OBVIOUS
  <2>1. CASE Tick \/ LegacySetChanges \/ UNCHANGED backfillVars
    <3>1. clock' \in Nat /\ UNCHANGED <<resource, controller, answered, archive>>
      BY <2>1 DEF Tick, LegacySetChanges, backfillVars, VerdictInv
    <3> QED
      BY <3>1 DEF VerdictInv
  <2>2. ASSUME NEW c \in Controller, ControllerStep(c) PROVE VerdictInv'
    BY <2>2, IntakeKeepsVerdict, ReconcileKeepsVerdict, VerifyKeepsVerdict, ReadKeepsVerdict,
       UpdateKeepsVerdict, ConflictKeepsVerdict DEF ControllerStep
  <2>3. ASSUME NEW c \in Controller, ControllerRestarts(c) PROVE VerdictInv'
    <3>1. ReplicaMoves(c, NewController) /\ UNCHANGED <<clock, resource, answered, archive>>
      BY <2>3 DEF ControllerRestarts
    <3>2. Sound(NewController, resource)
      BY ReplicaHolds, EndsSound
    <3> QED
      BY <3>1, <3>2, QuietStep
  <2>4. ASSUME NEW r \in 1..Requests, ObjectTouched(r) PROVE VerdictInv'
    <3>1. /\ resource[r].status = NoStatus /\ resource[r].version = 1
          /\ resource' = [resource EXCEPT ![r].version = 2]
          /\ UNCHANGED <<clock, controller, answered, archive>>
      BY <2>4 DEF ObjectTouched
    <3>2. resource \in [1..Requests -> BackfillObject]
      BY DEF VerdictInv
    <3>3. /\ resource' \in [1..Requests -> BackfillObject] /\ resource'[r].version = 2
          /\ \A q \in 1..Requests : q # r => resource'[q] = resource[q]
      <4> DEFINE o == [resource[r] EXCEPT !.version = 2]
      <4>1. o \in BackfillObject /\ o.version = 2
        BY <3>2 DEF BackfillObject
      <4>2. resource' = [resource EXCEPT ![r] = o]
        BY <3>1
      <4> HIDE DEF o
      <4> QED
        BY <3>2, <4>1, <4>2
    <3>4. Grows(resource, resource')
      BY <3>1, <3>3 DEF Grows
    <3>5. \A c \in Controller : Sound(controller'[c], resource')
      BY <3>1, <3>2, <3>3, <3>4, SoundStays DEF VerdictInv
    <3> QED
      BY <3>1, <3>3, <3>4, <3>5, AnswersStay DEF VerdictInv
  <2>5. ASSUME NEW r \in 1..Requests, Export(r) PROVE VerdictInv'
    <3>1. /\ archive' = [archive EXCEPT ![r] = resource[r].status]
          /\ UNCHANGED <<clock, resource, controller, answered>>
      BY <2>5 DEF Export
    <3>2. /\ archive' = [q \in 1..Requests |-> archive'[q]] /\ archive'[r] = resource[r].status
          /\ \A q \in 1..Requests : q # r => archive'[q] = archive[q]
      BY <3>1 DEF VerdictInv
    <3> QED
      BY <3>1, <3>2 DEF VerdictInv
  <2> QED
    BY <2>1, <2>2, <2>3, <2>4, <2>5 DEF BackfillNext
<1>3. VerdictInv => OneVerdict
  BY DEF VerdictInv, OneVerdict
<1> QED
  BY <1>1, <1>2, <1>3, PTL DEF BackfillSpec
=============================================================================
