------------------------- MODULE RuntimeStateProofs -------------------------
(***************************************************************************)
(* Proofs about RuntimeState, for any number of Turns, approvals,          *)
(* invocations and operations.  One inductive invariant carries them all:  *)
(* IInv adds to the safety properties the types of the records and where   *)
(* an approval, a grant and an execution come from.                        *)
(***************************************************************************)
EXTENDS RuntimeState, WellFoundedInduction, FiniteSetTheorems, TLAPS

\* An approval that exists belongs to a Turn.
ApprovalsHaveTurns ==
    \A a \in Approval : approval[a].state # "none" => approval[a].turn \in Turn

\* A grant is issued by the approval of its identifier, and only an issued
\* grant is consumed.
GrantsAreApproved ==
    \A a \in Approval :
        /\ grant[a].issued => approval[a].state = "approved"
        /\ grant[a].uses # 0 => grant[a].issued

\* An execution belongs to a grant.
ExecutionsHaveGrants ==
    \A o \in Operation : execution[o].state # "none" => execution[o].grant \in Approval

IInv ==
    /\ RecordsOK
    /\ ApprovalsHaveTurns
    /\ GrantsAreApproved
    /\ ExecutionsHaveGrants
    /\ OneRunningTurn
    /\ PendingApprovalPausesTurn
    /\ NoStrandedQueue
    /\ ExecutionIsAuthorized

(***************************************************************************)
(* Promotion.                                                              *)
(***************************************************************************)
\* A non-empty set of Turns has one of lowest position.
LEMMA LowestTurn ==
    ASSUME NEW S \in SUBSET Turn, S # {}
    PROVE  \E t \in S : \A u \in S : t <= u
<1>1. S \subseteq Nat
  BY ConstantsAssumption DEF Turn
<1>2. PICK t \in S : \A u \in S : ~ (<<u, t>> \in OpToRel(<, Nat))
  BY <1>1, NatLessThanWellFounded, WFMin
<1>3. OpToRel(<, Nat) = {ss \in Nat \X Nat : ss[1] < ss[2]}
  BY DEF OpToRel
<1>4. \A u \in S : ~ (u < t)
  BY <1>1, <1>2, <1>3
<1>5. \A u \in S : t <= u
  BY <1>1, <1>4
<1> QED
  BY <1>5

\* promote finds a Turn whenever one is queued.
LEMMA SomeoneIsPromoted ==
    ASSUME NEW ts, NEW q \in Turn, ts[q] = "queued"
    PROVE  \E t \in Turn : t \in Promoted(ts)
<1> DEFINE Queued == {t \in Turn : ts[t] = "queued"}
<1>1. PICK t \in Queued : \A u \in Queued : t <= u
  BY LowestTurn
<1> QED
  BY <1>1 DEF Promoted

(***************************************************************************)
(* The invariant holds initially.                                          *)
(***************************************************************************)
LEMMA InitIInv == Init => IInv
<1> SUFFICES ASSUME Init PROVE IInv
  OBVIOUS
<1> USE ConstantsAssumption
<1>1. RecordsOK
  BY DEF Init, RecordsOK, NoApproval, Turn, Approval, Operation, SessionState, TurnState,
         InvocationState, ApprovalState, ExecutionState
<1>2. ApprovalsHaveTurns /\ PendingApprovalPausesTurn
  BY DEF Init, ApprovalsHaveTurns, PendingApprovalPausesTurn, NoApproval
<1>3. GrantsAreApproved /\ ExecutionsHaveGrants /\ ExecutionIsAuthorized
  BY DEF Init, GrantsAreApproved, ExecutionsHaveGrants, ExecutionIsAuthorized
<1>4. OneRunningTurn /\ NoStrandedQueue
  BY DEF Init, OneRunningTurn, NoStrandedQueue
<1> QED
  BY <1>1, <1>2, <1>3, <1>4 DEF IInv

(***************************************************************************)
(* What a step leaves alone.                                               *)
(***************************************************************************)
\* The lifecycle part of the invariant is about Turns and approvals only.
LEMMA LifecycleUntouched ==
    ASSUME IInv, UNCHANGED <<turn, approval>>
    PROVE  ApprovalsHaveTurns' /\ OneRunningTurn' /\ PendingApprovalPausesTurn' /\ NoStrandedQueue'
  BY DEF IInv, ApprovalsHaveTurns, OneRunningTurn, PendingApprovalPausesTurn, NoStrandedQueue

\* The authority part is about approvals, grants and executions only.
LEMMA AuthorityUntouched ==
    ASSUME IInv, UNCHANGED <<approval, grant, execution>>
    PROVE  GrantsAreApproved' /\ ExecutionsHaveGrants' /\ ExecutionIsAuthorized'
  BY DEF IInv, GrantsAreApproved, ExecutionsHaveGrants, ExecutionIsAuthorized

\* Updating one field keeps a record well formed.
LEMMA ApprovalRecordUpdate ==
    ASSUME NEW S, NEW T, NEW P, NEW r \in [state : S, turn : T, policy : P], NEW s \in S
    PROVE  [r EXCEPT !.state = s] \in [state : S, turn : T, policy : P]
  OBVIOUS

LEMMA GrantRecordUpdate ==
    ASSUME NEW S, NEW T, NEW P, NEW r \in [issued : S, uses : T, revoked : P], NEW s \in T
    PROVE  [r EXCEPT !.uses = s] \in [issued : S, uses : T, revoked : P]
  OBVIOUS

\* A command that commits its Turns leaves at most one of them running.
LEMMA CommittedTurnsAreValid ==
    ASSUME NEW ts, CommitTurns(ts)
    PROVE  OneRunningTurn'
  BY DEF CommitTurns, ValidateState, OneRunningTurn

\* Versions stay natural numbers and Turns keep their states.
LEMMA CommittedTurnsAreTyped ==
    ASSUME NEW ts \in [Turn -> TurnState], CommitTurns(ts), turnVersion \in [Turn -> Nat]
    PROVE  turn' \in [Turn -> TurnState] /\ turnVersion' \in [Turn -> Nat]
  BY DEF CommitTurns

LEMMA PromoteTyped ==
    ASSUME NEW ts \in [Turn -> TurnState]
    PROVE  Promote(ts) \in [Turn -> TurnState]
  BY DEF Promote, TurnState

\* After a promotion no Turn is stranded in the queue.
LEMMA PromotionServesTheQueue ==
    ASSUME NEW ts, NEW q \in Turn, Promote(ts)[q] = "queued"
    PROVE  \E t \in Turn : Promote(ts)[t] = "running"
<1>1. ts[q] = "queued"
  BY DEF Promote
<1>2. PICK t \in Turn : t \in Promoted(ts)
  BY <1>1, SomeoneIsPromoted
<1> QED
  BY <1>2 DEF Promote

(***************************************************************************)
(* Session and Turn lifecycle.                                             *)
(***************************************************************************)
LEMMA AdmitStep ==
    ASSUME IInv, NEW t \in Turn, Admit(t)
    PROVE  IInv'
<1> USE DEF IInv, RecordsOK, Admit
<1>1. RecordsOK'
  <2>1. turn' \in [Turn -> TurnState] /\ turnVersion' \in [Turn -> Nat]
    BY DEF CommitTurns, TurnState
  <2> QED
    BY <2>1
<1>2. OneRunningTurn'
  BY CommittedTurnsAreValid
<1>3. ApprovalsHaveTurns' /\ PendingApprovalPausesTurn'
  BY DEF CommitTurns, ApprovalsHaveTurns, PendingApprovalPausesTurn
<1>4. NoStrandedQueue'
  BY DEF CommitTurns, NoStrandedQueue
<1> QED
  BY <1>1, <1>2, <1>3, <1>4, AuthorityUntouched

LEMMA BeginStep ==
    ASSUME IInv, NEW t \in Turn, NEW sv, NEW tv, NEW fence, Begin(t, sv, tv, fence)
    PROVE  IInv'
<1>1. RecordsOK'
  BY DEF IInv, RecordsOK, Begin, InvocationState
<1> QED
  BY <1>1, LifecycleUntouched, AuthorityUntouched DEF IInv, Begin

LEMMA RecordOutcomeStep ==
    ASSUME IInv, NEW t \in Turn, NEW sv, NEW tv, NEW i, NEW outcome \in InvocationState,
           RecordOutcome(t, sv, tv, i, outcome)
    PROVE  IInv'
<1>1. invocation' \in [Turn -> Seq(InvocationState)]
  <2>1. invocation[t] \in Seq(InvocationState) /\ i \in DOMAIN invocation[t]
    BY DEF IInv, RecordsOK, RecordOutcome
  <2>2. [invocation[t] EXCEPT ![i] = outcome] \in Seq(InvocationState)
    BY <2>1
  <2> QED
    BY <2>2 DEF IInv, RecordsOK, RecordOutcome
<1>2. RecordsOK'
  BY <1>1 DEF IInv, RecordsOK, RecordOutcome
<1> QED
  BY <1>2, LifecycleUntouched, AuthorityUntouched DEF IInv, RecordOutcome

LEMMA SettleStep ==
    ASSUME IInv, NEW t \in Turn, NEW sv, NEW tv, NEW i, NEW outcome \in Terminal,
           Settle(t, sv, tv, i, outcome)
    PROVE  IInv'
<1> DEFINE ended == [turn EXCEPT ![t] = outcome]
<1>1. ended \in [Turn -> TurnState] /\ CommitTurns(Promote(ended))
  BY DEF IInv, RecordsOK, Settle, TurnState
<1>2. RecordsOK'
  <2>1. Promote(ended) \in [Turn -> TurnState]
    BY <1>1, PromoteTyped
  <2>2. turn' \in [Turn -> TurnState] /\ turnVersion' \in [Turn -> Nat]
    BY <1>1, <2>1, CommittedTurnsAreTyped DEF IInv, RecordsOK
  <2>3. session' \in SessionState
    BY DEF IInv, RecordsOK, Settle, SessionState
  <2>4. /\ sessionVersion' = sessionVersion + 1
        /\ UNCHANGED <<invocation, toolIntent, approval, overdue, grant, execution>>
    BY DEF Settle
  <2> QED
    BY <2>2, <2>3, <2>4 DEF IInv, RecordsOK
<1>3. OneRunningTurn'
  BY <1>1, CommittedTurnsAreValid
<1>4. ApprovalsHaveTurns'
  BY DEF IInv, Settle, ApprovalsHaveTurns
<1>5. \A u \in Turn : turn[u] = "waiting_for_approval" => turn'[u] = "waiting_for_approval"
  BY <1>1 DEF IInv, RecordsOK, Settle, CommitTurns, Promote, Promoted
<1>6. PendingApprovalPausesTurn'
  BY <1>5 DEF IInv, Settle, ApprovalsHaveTurns, PendingApprovalPausesTurn
<1>7. NoStrandedQueue'
  BY <1>1, PromotionServesTheQueue DEF CommitTurns, NoStrandedQueue
<1> QED
  BY <1>2, <1>3, <1>4, <1>6, <1>7, AuthorityUntouched DEF IInv, Settle

LEMMA CancelStep ==
    ASSUME IInv, NEW t \in Turn, Cancel(t)
    PROVE  IInv'
<1> DEFINE ended == [turn EXCEPT ![t] = "cancelled"]
<1> DEFINE next == IF turn[t] # "queued" THEN Promote(ended) ELSE ended
<1>1. ended \in [Turn -> TurnState] /\ next \in [Turn -> TurnState] /\ CommitTurns(next)
  <2>1. ended \in [Turn -> TurnState]
    BY DEF IInv, RecordsOK, TurnState, Terminal
  <2>2. Promote(ended) \in [Turn -> TurnState]
    BY <2>1, PromoteTyped
  <2> QED
    BY <2>1, <2>2 DEF Cancel
<1>2. \A a \in Approval :
        /\ approval'[a].turn = approval[a].turn
        /\ approval'[a].state = IF a \in PendingOf(t) THEN "cancelled" ELSE approval[a].state
  BY DEF IInv, RecordsOK, Cancel
<1>3. \A a \in Approval :
        grant'[a].issued = grant[a].issued /\ grant'[a].uses = grant[a].uses
        /\ (grant[a].revoked => grant'[a].revoked)
  BY DEF IInv, RecordsOK, Cancel
<1>4. RecordsOK'
  <2>1. approval' \in [Approval -> [state : ApprovalState, turn : Turn \cup {0}, policy : Policy]]
    <3>1. \A a \in Approval : [approval[a] EXCEPT !.state = "cancelled"]
             \in [state : ApprovalState, turn : Turn \cup {0}, policy : Policy]
      BY DEF IInv, RecordsOK, ApprovalState
    <3>2. approval' = [a \in Approval |-> IF a \in PendingOf(t)
                          THEN [approval[a] EXCEPT !.state = "cancelled"] ELSE approval[a]]
      BY DEF Cancel
    <3> QED
      BY <3>1, <3>2 DEF IInv, RecordsOK
  <2>2. grant' \in [Approval -> [issued : BOOLEAN, uses : 0..MaximumUses, revoked : BOOLEAN]]
    BY DEF IInv, RecordsOK, Cancel
  <2>3. turn' \in [Turn -> TurnState] /\ turnVersion' \in [Turn -> Nat]
    BY <1>1, CommittedTurnsAreTyped DEF IInv, RecordsOK
  <2>4. session' \in SessionState
    BY DEF IInv, RecordsOK, Cancel, SessionState
  <2>5. sessionVersion' = sessionVersion + 1 /\ UNCHANGED <<invocation, toolIntent, overdue, execution>>
    BY DEF Cancel
  <2> QED
    BY <2>1, <2>2, <2>3, <2>4, <2>5 DEF IInv, RecordsOK
<1>5. OneRunningTurn'
  BY <1>1, CommittedTurnsAreValid
<1>6. ApprovalsHaveTurns'
  BY <1>2 DEF IInv, ApprovalsHaveTurns, PendingOf
<1>7. PendingApprovalPausesTurn'
  <2>1. \A u \in Turn : u # t /\ turn[u] = "waiting_for_approval"
                           => turn'[u] = "waiting_for_approval"
    BY <1>1 DEF IInv, RecordsOK, CommitTurns, Promote, Promoted
  <2> QED
    BY <1>2, <2>1 DEF IInv, ApprovalsHaveTurns, PendingApprovalPausesTurn, PendingOf
<1>8. NoStrandedQueue'
  <2>1. CASE turn[t] = "queued"
    BY <1>1, <2>1 DEF IInv, RecordsOK, CommitTurns, NoStrandedQueue
  <2>2. CASE turn[t] # "queued"
    BY <1>1, <2>2, PromotionServesTheQueue DEF CommitTurns, NoStrandedQueue
  <2> QED
    BY <2>1, <2>2
<1>9. GrantsAreApproved' /\ ExecutionsHaveGrants' /\ ExecutionIsAuthorized'
  BY <1>2, <1>3 DEF IInv, Cancel, PendingOf, GrantsAreApproved, ExecutionsHaveGrants,
                    ExecutionIsAuthorized
<1> QED
  BY <1>4, <1>5, <1>6, <1>7, <1>8, <1>9 DEF IInv

LEMMA SessionStep ==
    ASSUME IInv, SessionNext
    PROVE  IInv'
<1>1. RecordsOK' /\ UNCHANGED <<turn, approval, grant, execution>>
  BY DEF IInv, RecordsOK, SessionNext, Close, CancelSession, FailSession, EndSession, SessionState
<1> QED
  BY <1>1, LifecycleUntouched, AuthorityUntouched DEF IInv

(***************************************************************************)
(* Tool intents, approvals and policies.                                   *)
(***************************************************************************)
LEMMA PauseStep ==
    ASSUME IInv, NEW a \in Approval, NEW t \in Turn, NEW p \in Policy, PauseForApproval(a, t, p),
           toolIntent' \subseteq Turn \X ToolCall
    PROVE  IInv'
<1> DEFINE paused == [turn EXCEPT ![t] = "waiting_for_approval"]
<1>1. paused \in [Turn -> TurnState] /\ CommitTurns(paused)
  BY DEF IInv, RecordsOK, PauseForApproval, TurnState
<1>2. \A b \in Approval : approval'[b] =
        IF b = a THEN [state |-> "pending", turn |-> t, policy |-> p] ELSE approval[b]
  BY DEF IInv, RecordsOK, PauseForApproval
<1>3. turn[t] = "running" /\ approval[a].state = "none"
      /\ UNCHANGED <<session, sessionVersion, invocation, overdue, grant, execution>>
  BY DEF PauseForApproval
<1>4. RecordsOK'
  <2>1. approval' \in [Approval -> [state : ApprovalState, turn : Turn \cup {0}, policy : Policy]]
    BY DEF IInv, RecordsOK, PauseForApproval, ApprovalState
  <2>2. turn' \in [Turn -> TurnState] /\ turnVersion' \in [Turn -> Nat]
    BY <1>1, CommittedTurnsAreTyped DEF IInv, RecordsOK
  <2> QED
    BY <1>3, <2>1, <2>2 DEF IInv, RecordsOK
<1>5. OneRunningTurn'
  BY <1>1, CommittedTurnsAreValid
<1>6. ApprovalsHaveTurns'
  BY <1>2 DEF IInv, ApprovalsHaveTurns
<1>7. PendingApprovalPausesTurn'
  <2>1. \A b \in Approval : b # a /\ approval[b].state = "pending" =>
          approval[b].turn \in Turn \ {t} /\ turn[approval[b].turn] = "waiting_for_approval"
    BY <1>3 DEF IInv, ApprovalsHaveTurns, PendingApprovalPausesTurn
  <2>2. turn'[t] = "waiting_for_approval" /\ \A u \in Turn \ {t} : turn'[u] = turn[u]
    BY <1>1 DEF IInv, RecordsOK, CommitTurns
  <2>3. \A b, c \in Approval : b # c /\ approval[b].state = "pending" /\ approval[c].state = "pending"
          => approval[b].turn # approval[c].turn
    BY DEF IInv, PendingApprovalPausesTurn
  <2> QED
    BY <1>2, <2>1, <2>2, <2>3 DEF PendingApprovalPausesTurn
<1>8. NoStrandedQueue'
  BY <1>1, <1>3 DEF IInv, RecordsOK, NoStrandedQueue, CommitTurns
<1>9. GrantsAreApproved' /\ ExecutionsHaveGrants' /\ ExecutionIsAuthorized'
  BY <1>2, <1>3 DEF IInv, GrantsAreApproved, ExecutionsHaveGrants, ExecutionIsAuthorized
<1> QED
  BY <1>4, <1>5, <1>6, <1>7, <1>8, <1>9 DEF IInv

\* Expiry and denial only end a pending approval.
LEMMA WithdrawStep ==
    ASSUME IInv, NEW a \in Approval, ExpireApproval(a) \/ Deny(a)
    PROVE  IInv'
<1>1. PICK final \in {"expired", "denied"} : approval' = [approval EXCEPT ![a].state = final]
  BY DEF ExpireApproval, Deny
<1>2. approval[a].state = "pending"
      /\ UNCHANGED <<session, sessionVersion, turn, turnVersion, invocation, toolIntent,
                     overdue, grant, execution>>
  BY DEF ExpireApproval, Deny
<1>3. approval' \in [Approval -> [state : ApprovalState, turn : Turn \cup {0}, policy : Policy]]
  <2>1. final \in ApprovalState
    BY <1>1 DEF ApprovalState
  <2>2. approval[a] \in [state : ApprovalState, turn : Turn \cup {0}, policy : Policy]
    BY DEF IInv, RecordsOK
  <2>3. [approval[a] EXCEPT !.state = final]
           \in [state : ApprovalState, turn : Turn \cup {0}, policy : Policy]
    BY <2>1, <2>2, ApprovalRecordUpdate
  <2> QED
    BY <1>1, <2>3 DEF IInv, RecordsOK
<1>4. \A b \in Approval : approval'[b].turn = approval[b].turn
        /\ approval'[b].state = IF b = a THEN final ELSE approval[b].state
  BY <1>1 DEF IInv, RecordsOK
<1>5. RecordsOK'
  BY <1>2, <1>3 DEF IInv, RecordsOK
<1>6. ApprovalsHaveTurns' /\ OneRunningTurn' /\ PendingApprovalPausesTurn' /\ NoStrandedQueue'
  BY <1>2, <1>4 DEF IInv, ApprovalsHaveTurns, OneRunningTurn, PendingApprovalPausesTurn,
                    NoStrandedQueue
<1>7. GrantsAreApproved' /\ ExecutionsHaveGrants' /\ ExecutionIsAuthorized'
  BY <1>2, <1>4 DEF IInv, GrantsAreApproved, ExecutionsHaveGrants, ExecutionIsAuthorized
<1> QED
  BY <1>5, <1>6, <1>7 DEF IInv

LEMMA ApproveStep ==
    ASSUME IInv, NEW a \in Approval, Approve(a)
    PROVE  IInv'
<1> DEFINE t == approval[a].turn
<1> DEFINE resumed == [turn EXCEPT ![t] = "running"]
<1>1. t \in Turn /\ turn[t] = "waiting_for_approval" /\ approval[a].state = "pending"
      /\ UNCHANGED <<session, sessionVersion, invocation, toolIntent, overdue, execution>>
  BY DEF IInv, ApprovalsHaveTurns, Approve
<1>2. resumed \in [Turn -> TurnState] /\ CommitTurns(resumed)
  BY DEF IInv, RecordsOK, Approve, TurnState
<1>3. approval' \in [Approval -> [state : ApprovalState, turn : Turn \cup {0}, policy : Policy]]
      /\ \A b \in Approval : approval'[b].turn = approval[b].turn
            /\ approval'[b].state = IF b = a THEN "approved" ELSE approval[b].state
  BY DEF IInv, RecordsOK, Approve, ApprovalState
<1>4. grant' \in [Approval -> [issued : BOOLEAN, uses : 0..MaximumUses, revoked : BOOLEAN]]
      /\ \A b \in Approval : grant'[b].uses = grant[b].uses /\ grant'[b].revoked = grant[b].revoked
            /\ grant'[b].issued = IF b = a THEN TRUE ELSE grant[b].issued
  BY DEF IInv, RecordsOK, Approve
<1>5. RecordsOK'
  <2>1. turn' \in [Turn -> TurnState] /\ turnVersion' \in [Turn -> Nat]
    BY <1>2, CommittedTurnsAreTyped DEF IInv, RecordsOK
  <2> QED
    BY <1>1, <1>3, <1>4, <2>1 DEF IInv, RecordsOK
<1>6. OneRunningTurn'
  BY <1>2, CommittedTurnsAreValid
<1>7. ApprovalsHaveTurns' /\ PendingApprovalPausesTurn'
  <2>1. \A b \in Approval : b # a /\ approval[b].state = "pending" =>
          approval[b].turn \in Turn \ {t} /\ turn[approval[b].turn] = "waiting_for_approval"
    BY <1>1 DEF IInv, ApprovalsHaveTurns, PendingApprovalPausesTurn
  <2>2. \A u \in Turn \ {t} : turn'[u] = turn[u]
    BY <1>2 DEF IInv, RecordsOK, CommitTurns
  <2>3. \A b, c \in Approval : b # c /\ approval[b].state = "pending" /\ approval[c].state = "pending"
          => approval[b].turn # approval[c].turn
    BY DEF IInv, PendingApprovalPausesTurn
  <2>4. PendingApprovalPausesTurn'
    BY <1>3, <2>1, <2>2, <2>3 DEF PendingApprovalPausesTurn
  <2>5. ApprovalsHaveTurns'
    BY <1>1, <1>3 DEF IInv, ApprovalsHaveTurns
  <2> QED
    BY <2>4, <2>5
<1>8. NoStrandedQueue'
  BY <1>1, <1>2 DEF IInv, RecordsOK, NoStrandedQueue, CommitTurns
<1>9. GrantsAreApproved' /\ ExecutionsHaveGrants' /\ ExecutionIsAuthorized'
  <2>1. GrantsAreApproved'
    BY <1>3, <1>4 DEF IInv, GrantsAreApproved
  <2>2. ExecutionsHaveGrants'
    BY <1>1 DEF IInv, ExecutionsHaveGrants
  <2>3. \A b \in Approval : /\ approval[b].state = "approved" => approval'[b].state = "approved"
                            /\ grant'[b].uses = grant[b].uses
                            /\ grant'[b].revoked = grant[b].revoked
    BY <1>3, <1>4
  <2>4. ExecutionIsAuthorized'
    BY <1>1, <2>3 DEF IInv, ExecutionsHaveGrants, ExecutionIsAuthorized
  <2> QED
    BY <2>1, <2>2, <2>4
<1> QED
  BY <1>5, <1>6, <1>7, <1>8, <1>9 DEF IInv

\* A policy change that withdraws an approval promotes the lowest queued Turn.
LEMMA RegisterPolicyStep ==
    ASSUME IInv, NEW p \in Policy, RegisterPolicy(p)
    PROVE  IInv'
<1> DEFINE stale == PendingUnder(p)
           queued == {t \in Turn : turn[t] = "queued"}
           withdrawn == {approval[a].turn : a \in stale}
           promoted == {t \in queued : Cardinality({u \in queued : u < t}) < Cardinality(stale)}
           ts == [t \in Turn |-> IF t \in withdrawn THEN "cancelled"
                                 ELSE IF t \in promoted THEN "running" ELSE turn[t]]
<1>1. /\ CommitTurns(ts)
      /\ approval' = [a \in Approval |-> IF a \in stale
                        THEN [approval[a] EXCEPT !.state = "cancelled"] ELSE approval[a]]
      /\ sessionVersion' = sessionVersion + Cardinality(stale)
      /\ UNCHANGED <<session, invocation, toolIntent, overdue, grant, execution>>
  BY DEF RegisterPolicy
<1>2. IsFiniteSet(Approval) /\ IsFiniteSet(stale) /\ Cardinality(stale) \in Nat
  <2>1. IsFiniteSet(Approval)
    BY ConstantsAssumption, FS_Interval DEF Approval
  <2>2. stale \in SUBSET Approval
    BY DEF PendingUnder
  <2> QED
    BY <2>1, <2>2, FS_Subset, FS_CardinalityType
<1>3. ts \in [Turn -> TurnState]
  BY DEF IInv, RecordsOK, TurnState, Terminal
<1>4. approval' \in [Approval -> [state : ApprovalState, turn : Turn \cup {0}, policy : Policy]]
  <2>1. \A a \in Approval : [approval[a] EXCEPT !.state = "cancelled"]
           \in [state : ApprovalState, turn : Turn \cup {0}, policy : Policy]
    BY DEF IInv, RecordsOK, ApprovalState
  <2> QED
    BY <1>1, <2>1 DEF IInv, RecordsOK
<1>5. \A a \in Approval : approval'[a].turn = approval[a].turn
        /\ approval'[a].state = IF a \in stale THEN "cancelled" ELSE approval[a].state
  BY <1>1 DEF IInv, RecordsOK
<1>6. RecordsOK'
  <2>1. turn' \in [Turn -> TurnState] /\ turnVersion' \in [Turn -> Nat]
    BY <1>1, <1>3, CommittedTurnsAreTyped DEF IInv, RecordsOK
  <2>2. sessionVersion' \in Nat
    BY <1>1, <1>2 DEF IInv, RecordsOK
  <2> QED
    BY <1>1, <1>4, <2>1, <2>2 DEF IInv, RecordsOK
<1>7. OneRunningTurn'
  BY <1>1, CommittedTurnsAreValid
<1>8. ApprovalsHaveTurns'
  BY <1>5 DEF IInv, ApprovalsHaveTurns, PendingUnder
<1>9. PendingApprovalPausesTurn'
  <2> SUFFICES ASSUME NEW a \in Approval, approval'[a].state = "pending"
               PROVE  /\ turn'[approval'[a].turn] = "waiting_for_approval"
                      /\ \A b \in Approval : b # a /\ approval'[b].state = "pending"
                             => approval'[b].turn # approval'[a].turn
    BY DEF PendingApprovalPausesTurn
  <2>1. a \notin stale /\ approval[a].state = "pending" /\ approval[a].turn \in Turn
    BY <1>5 DEF IInv, ApprovalsHaveTurns
  <2>2. approval[a].turn \notin withdrawn /\ turn[approval[a].turn] = "waiting_for_approval"
    BY <2>1 DEF IInv, PendingApprovalPausesTurn, PendingUnder
  <2>3. turn'[approval[a].turn] = "waiting_for_approval"
    BY <1>1, <2>1, <2>2 DEF CommitTurns
  <2> QED
    BY <1>5, <2>1, <2>3 DEF IInv, PendingApprovalPausesTurn
<1>10. NoStrandedQueue'
  <2> SUFFICES ASSUME NEW q \in Turn, turn'[q] = "queued"
               PROVE  \E t \in Turn : turn'[t] \in {"running", "waiting_for_approval"}
    BY DEF NoStrandedQueue
  <2>1. turn' = ts /\ turn[q] = "queued"
    BY <1>1 DEF CommitTurns
  <2>2. CASE stale = {}
    <3>1. \A t \in Turn : t \notin withdrawn
      BY <2>2
    <3>2. PICK t \in Turn : turn[t] \in {"running", "waiting_for_approval"}
      BY <2>1 DEF IInv, NoStrandedQueue
    <3> QED
      BY <2>1, <3>1, <3>2
  <2>3. CASE stale # {}
    <3>1. PICK t \in queued : \A u \in queued : t <= u
      BY <2>1, LowestTurn
    <3>2. {u \in queued : u < t} = {}
      BY <3>1, ConstantsAssumption DEF Turn
    <3>3. Cardinality({u \in queued : u < t}) < Cardinality(stale)
      BY <1>2, <2>3, <3>2, FS_EmptySet
    <3>4. t \notin withdrawn
      BY <3>1 DEF IInv, PendingApprovalPausesTurn, PendingUnder
    <3> QED
      BY <2>1, <3>1, <3>3, <3>4
  <2> QED
    BY <2>2, <2>3
<1>11. GrantsAreApproved' /\ ExecutionsHaveGrants' /\ ExecutionIsAuthorized'
  BY <1>1, <1>5 DEF IInv, PendingUnder, GrantsAreApproved, ExecutionsHaveGrants,
                    ExecutionIsAuthorized
<1> QED
  BY <1>6, <1>7, <1>8, <1>9, <1>10, <1>11 DEF IInv

(***************************************************************************)
(* Grants and executions.                                                  *)
(***************************************************************************)
\* Consuming, revoking and expiring change the counters of one issued grant.
LEMMA GrantStep ==
    ASSUME IInv, NEW a \in Approval, ConsumeGrant(a) \/ RevokeGrant(a) \/ ExpireGrant(a)
    PROVE  IInv'
<1>1. grant[a].issued
      /\ UNCHANGED <<session, sessionVersion, turn, turnVersion, invocation, toolIntent,
                     approval, overdue, execution>>
  BY DEF ConsumeGrant, RevokeGrant, ExpireGrant
<1>2. grant' \in [Approval -> [issued : BOOLEAN, uses : 0..MaximumUses, revoked : BOOLEAN]]
      /\ \A b \in Approval : /\ grant'[b].issued = grant[b].issued
                             /\ grant[b].uses # 0 => grant'[b].uses # 0
                             /\ b # a => grant'[b].uses = grant[b].uses
                             /\ grant[b].revoked => grant'[b].revoked
  <2>1. CASE ConsumeGrant(a)
    <3>1. grant' = [grant EXCEPT ![a].uses = grant[a].uses + 1]
          /\ grant[a].uses + 1 \in 0..MaximumUses /\ grant[a].uses \in Nat
      BY <2>1, ConstantsAssumption DEF IInv, RecordsOK, ConsumeGrant
    <3>2. [grant[a] EXCEPT !.uses = grant[a].uses + 1]
             \in [issued : BOOLEAN, uses : 0..MaximumUses, revoked : BOOLEAN]
      BY <3>1, GrantRecordUpdate DEF IInv, RecordsOK
    <3>3. grant' \in [Approval -> [issued : BOOLEAN, uses : 0..MaximumUses, revoked : BOOLEAN]]
      BY <3>1, <3>2 DEF IInv, RecordsOK
    <3>4. \A b \in Approval : /\ grant'[b].issued = grant[b].issued
                              /\ grant'[b].revoked = grant[b].revoked
                              /\ grant'[b].uses = IF b = a THEN grant[a].uses + 1 ELSE grant[b].uses
      BY <3>1 DEF IInv, RecordsOK
    <3> QED
      BY <3>1, <3>3, <3>4
  <2>2. CASE RevokeGrant(a) \/ ExpireGrant(a)
    <3>1. grant' = [grant EXCEPT ![a].revoked = TRUE]
      BY <2>2 DEF RevokeGrant, ExpireGrant
    <3>2. grant' \in [Approval -> [issued : BOOLEAN, uses : 0..MaximumUses, revoked : BOOLEAN]]
      BY <3>1 DEF IInv, RecordsOK
    <3>3. \A b \in Approval : grant'[b].issued = grant[b].issued /\ grant'[b].uses = grant[b].uses
      BY <3>1 DEF IInv, RecordsOK
    <3>4. \A b \in Approval : grant[b].revoked => grant'[b].revoked
      BY <3>1 DEF IInv, RecordsOK
    <3> QED
      BY <3>2, <3>3, <3>4
  <2> QED
    BY <2>1, <2>2
<1>3. RecordsOK'
  BY <1>1, <1>2 DEF IInv, RecordsOK
<1>4. GrantsAreApproved' /\ ExecutionsHaveGrants'
  BY <1>1, <1>2 DEF IInv, GrantsAreApproved, ExecutionsHaveGrants
<1>5. ExecutionIsAuthorized'
  BY <1>1, <1>2 DEF IInv, ExecutionsHaveGrants, ExecutionIsAuthorized
<1> QED
  BY <1>1, <1>3, <1>4, <1>5, LifecycleUntouched DEF IInv

LEMMA BeginToolExecutionStep ==
    ASSUME IInv, NEW o \in Operation, NEW a \in Approval, BeginToolExecution(o, a)
    PROVE  IInv'
<1>1. \A x \in Operation : execution'[x] =
        IF x = o THEN [state |-> "intent", grant |-> a] ELSE execution[x]
  BY DEF IInv, RecordsOK, BeginToolExecution
<1>2. RecordsOK'
  BY DEF IInv, RecordsOK, BeginToolExecution, ExecutionState
<1>3. GrantsAreApproved' /\ ExecutionsHaveGrants'
  BY <1>1 DEF IInv, BeginToolExecution, GrantsAreApproved, ExecutionsHaveGrants
<1>4. ExecutionIsAuthorized'
  BY <1>1 DEF IInv, BeginToolExecution, GrantsAreApproved, ExecutionIsAuthorized
<1> QED
  BY <1>2, <1>3, <1>4, LifecycleUntouched DEF IInv, BeginToolExecution

LEMMA RecordToolOutcomeStep ==
    ASSUME IInv, NEW o \in Operation, NEW outcome \in {"succeeded", "failed", "uncertain"},
           RecordToolOutcome(o, outcome)
    PROVE  IInv'
<1> DEFINE g == execution[o].grant
<1>1. g \in Approval /\ execution[o].state = "intent"
      /\ UNCHANGED <<session, sessionVersion, turn, turnVersion, invocation, toolIntent,
                     approval, overdue>>
  BY DEF IInv, ExecutionsHaveGrants, RecordToolOutcome
<1>2. execution' \in [Operation -> [state : ExecutionState, grant : Approval \cup {0}]]
      /\ \A x \in Operation : execution'[x].grant = execution[x].grant
            /\ execution'[x].state = IF x = o THEN outcome ELSE execution[x].state
  BY DEF IInv, RecordsOK, RecordToolOutcome, ExecutionState
<1>3. grant' \in [Approval -> [issued : BOOLEAN, uses : 0..MaximumUses, revoked : BOOLEAN]]
      /\ \A b \in Approval : /\ grant'[b].issued = grant[b].issued
                             /\ grant'[b].uses = grant[b].uses
                             /\ grant[b].revoked \/ b = g => grant'[b].revoked
  BY <1>1 DEF IInv, RecordsOK, RecordToolOutcome
<1>4. RecordsOK'
  BY <1>1, <1>2, <1>3 DEF IInv, RecordsOK
<1>5. GrantsAreApproved' /\ ExecutionsHaveGrants'
  BY <1>1, <1>2, <1>3 DEF IInv, GrantsAreApproved, ExecutionsHaveGrants
<1>6. ExecutionIsAuthorized'
  BY <1>1, <1>2, <1>3 DEF IInv, ExecutionsHaveGrants, ExecutionIsAuthorized
<1> QED
  BY <1>1, <1>4, <1>5, <1>6, LifecycleUntouched DEF IInv

(***************************************************************************)
(* The invariant is inductive.                                             *)
(***************************************************************************)
LEMMA NextIInv == IInv /\ [Next]_vars => IInv'
<1> SUFFICES ASSUME IInv, [Next]_vars PROVE IInv'
  OBVIOUS
<1>1. CASE SessionNext
  BY <1>1, SessionStep
<1>2. ASSUME NEW t \in Turn, TurnNext(t) PROVE IInv'
  <2>1. CASE Admit(t)
    BY <2>1, AdmitStep
  <2>2. CASE Begin(t, sessionVersion, turnVersion[t], Len(invocation[t]))
    BY <2>2, BeginStep
  <2>3. ASSUME NEW i \in DOMAIN invocation[t], NEW outcome \in InvocationState \ {"intent"},
               RecordOutcome(t, sessionVersion, turnVersion[t], i, outcome)
        PROVE  IInv'
    BY <2>3, RecordOutcomeStep
  <2>4. ASSUME NEW i \in {0} \cup DOMAIN invocation[t], NEW outcome \in Terminal,
               Settle(t, sessionVersion, turnVersion[t], i, outcome)
        PROVE  IInv'
    BY <2>4, SettleStep
  <2>5. CASE Cancel(t)
    BY <2>5, CancelStep
  <2>6. ASSUME NEW c \in ToolCall, RecordToolIntent(t, c) PROVE IInv'
    <3>1. RecordsOK'
      BY <2>6 DEF IInv, RecordsOK, RecordToolIntent
    <3> QED
      BY <2>6, <3>1, LifecycleUntouched, AuthorityUntouched DEF IInv, RecordToolIntent
  <2>7. ASSUME NEW a \in Approval, NEW c \in ToolCall, NEW p \in Policy,
               RequestApproval(a, t, c, p) \/ AdmitToolApproval(a, t, c, p)
        PROVE  IInv'
    <3>1. PauseForApproval(a, t, p) /\ toolIntent' \subseteq Turn \X ToolCall
      BY <2>7 DEF IInv, RecordsOK, RequestApproval, AdmitToolApproval
    <3> QED
      BY <3>1, PauseStep
  <2> QED
    BY <1>2, <2>1, <2>2, <2>3, <2>4, <2>5, <2>6, <2>7 DEF TurnNext
<1>3. ASSUME NEW a \in Approval, ApprovalNext(a) PROVE IInv'
  <2>1. CASE DeadlinePasses(a)
    <3>1. RecordsOK'
      BY <2>1 DEF IInv, RecordsOK, DeadlinePasses
    <3> QED
      BY <2>1, <3>1, LifecycleUntouched, AuthorityUntouched DEF IInv, DeadlinePasses
  <2>2. CASE ExpireApproval(a) \/ Deny(a)
    BY <2>2, WithdrawStep
  <2>3. CASE Approve(a)
    BY <2>3, ApproveStep
  <2>4. CASE ConsumeGrant(a) \/ RevokeGrant(a) \/ ExpireGrant(a)
    BY <2>4, GrantStep
  <2>5. ASSUME NEW o \in Operation, BeginToolExecution(o, a) PROVE IInv'
    BY <2>5, BeginToolExecutionStep
  <2> QED
    BY <1>3, <2>1, <2>2, <2>3, <2>4, <2>5 DEF ApprovalNext, DecideApproval
<1>4. ASSUME NEW p \in Policy, RegisterPolicy(p) PROVE IInv'
  BY <1>4, RegisterPolicyStep
<1>5. ASSUME NEW o \in Operation, NEW outcome \in {"succeeded", "failed", "uncertain"},
             RecordToolOutcome(o, outcome)
      PROVE  IInv'
  BY <1>5, RecordToolOutcomeStep
<1>6. CASE UNCHANGED vars
  <2>1. RecordsOK'
    BY <1>6 DEF IInv, RecordsOK, vars
  <2> QED
    BY <1>6, <2>1, LifecycleUntouched, AuthorityUntouched DEF IInv, vars
<1> QED
  BY <1>1, <1>2, <1>3, <1>4, <1>5, <1>6 DEF Next

\* In every reachable state of the planner the inductive invariant holds.
THEOREM Invariance == Spec => []IInv
  BY InitIInv, NextIInv, PTL DEF Spec

\* The records keep their types and no grant is used more often than allowed.
THEOREM RecordsAreTyped == Spec => []RecordsOK
<1>1. IInv => RecordsOK
  BY DEF IInv
<1> QED
  BY <1>1, Invariance, PTL

\* Whatever the commands and their order, at most one Turn of a Session runs.
THEOREM AtMostOneRuns == Spec => []OneRunningTurn
<1>1. IInv => OneRunningTurn
  BY DEF IInv
<1> QED
  BY <1>1, Invariance, PTL

\* A pending approval holds exactly its own Turn, so a decision or a policy
\* change never meets a Turn that has moved on.
THEOREM ApprovalsHoldTheirTurns == Spec => []PendingApprovalPausesTurn
<1>1. IInv => PendingApprovalPausesTurn
  BY DEF IInv
<1> QED
  BY <1>1, Invariance, PTL

\* Promotion is never missed: a queued Turn always has an active one before it.
THEOREM QueueIsServed == Spec => []NoStrandedQueue
<1>1. IInv => NoStrandedQueue
  BY DEF IInv
<1> QED
  BY <1>1, Invariance, PTL

\* The Turns of a Session take their turns, whatever is admitted, approved, cancelled or
\* withdrawn meanwhile.
THEOREM TurnsStayOrderly == Spec => []TurnsAreOrderly
<1>1. IInv => TurnsAreOrderly
  BY DEF IInv, TurnsAreOrderly
<1> QED
  BY <1>1, Invariance, PTL

\* Every tool execution rests on an approved approval with a consumed grant.
THEOREM ExecutionsAreAuthorized == Spec => []ExecutionIsAuthorized
<1>1. IInv => ExecutionIsAuthorized
  BY DEF IInv
<1> QED
  BY <1>1, Invariance, PTL

(***************************************************************************)
(* What a step may not do.                                                 *)
(***************************************************************************)
\* Outcomes and authority are safe from a step that leaves the attempts, the uses of the
\* grants and the grants of the executions alone.
LEMMA UntouchedStand ==
    ASSUME UNCHANGED <<invocation, execution>>,
           \A a \in Approval : grant'[a].uses = grant[a].uses /\ grant'[a].issued = grant[a].issued
    PROVE  OutcomesStand /\ AuthorityEnds
<1>1. OutcomesStand
  <2> SUFFICES ASSUME NEW t \in Turn
               PROVE  Len(invocation'[t]) >= Len(invocation[t])
    BY DEF OutcomesStand
  <2> QED
    OBVIOUS
<1>2. AuthorityEnds
  BY DEF AuthorityEnds
<1> QED
  BY <1>1, <1>2

\* An attempt is added behind the others, and only an open one is decided.
LEMMA AttemptsStand ==
    ASSUME IInv, NEW t \in Turn,
           \/ Begin(t, sessionVersion, turnVersion[t], Len(invocation[t]))
           \/ \E i \in DOMAIN invocation[t], outcome \in InvocationState \ {"intent"} :
                 RecordOutcome(t, sessionVersion, turnVersion[t], i, outcome)
    PROVE  OutcomesStand /\ AuthorityEnds
<1>1. turn[t] = "running" /\ UNCHANGED <<turn, grant, execution>>
  BY DEF Begin, RecordOutcome
<1>2. invocation \in [Turn -> Seq(InvocationState)]
  BY DEF IInv, RecordsOK
<1>3. ASSUME NEW u \in Turn, u # t PROVE invocation'[u] = invocation[u]
  BY <1>2, <1>3 DEF Begin, RecordOutcome
<1> DEFINE OnlyOpenDecided ==
             /\ Len(invocation'[t]) >= Len(invocation[t])
             /\ \A i \in DOMAIN invocation[t] :
                   invocation'[t][i] # invocation[t][i] => invocation[t][i] = "intent"
<1>4. OnlyOpenDecided
  <2>1. CASE Begin(t, sessionVersion, turnVersion[t], Len(invocation[t]))
    <3>1. invocation'[t] = Append(invocation[t], "intent") /\ invocation[t] \in Seq(InvocationState)
      BY <1>2, <2>1 DEF Begin
    <3> QED
      BY <3>1
  <2>2. ASSUME NEW i \in DOMAIN invocation[t], NEW outcome \in InvocationState \ {"intent"},
               RecordOutcome(t, sessionVersion, turnVersion[t], i, outcome)
        PROVE  OnlyOpenDecided
    <3>1. invocation'[t] = [invocation[t] EXCEPT ![i] = outcome]
          /\ invocation[t] \in Seq(InvocationState) /\ invocation[t][i] = "intent"
      BY <1>2, <2>2 DEF RecordOutcome
    <3> QED
      BY <3>1
  <2> QED
    BY <2>1, <2>2
<1>5. OutcomesStand
  <2> SUFFICES ASSUME NEW u \in Turn
               PROVE  /\ Len(invocation'[u]) >= Len(invocation[u])
                      /\ \A i \in DOMAIN invocation[u] :
                            invocation'[u][i] # invocation[u][i] =>
                                invocation[u][i] = "intent" /\ turn'[u] \notin Terminal
    BY DEF OutcomesStand
  <2>1. CASE u = t
    BY <1>1, <1>4, <2>1 DEF Terminal
  <2>2. CASE u # t
    BY <1>2, <1>3, <2>2
  <2> QED
    BY <2>1, <2>2
<1>6. AuthorityEnds
  BY <1>1 DEF AuthorityEnds
<1> QED
  BY <1>5, <1>6

\* A grant is issued, consumed and executed only while its Turn waits or runs.
LEMMA AuthorityStands ==
    ASSUME IInv, NEW a \in Approval,
           Approve(a) \/ ConsumeGrant(a) \/ \E o \in Operation : BeginToolExecution(o, a)
    PROVE  OutcomesStand /\ AuthorityEnds
<1>1. UNCHANGED invocation /\ turn[approval[a].turn] \notin Terminal
  BY DEF Approve, ConsumeGrant, BeginToolExecution, Terminal
<1>2. OutcomesStand
  <2> SUFFICES ASSUME NEW t \in Turn
               PROVE  Len(invocation'[t]) >= Len(invocation[t])
    BY <1>1 DEF OutcomesStand
  <2> QED
    BY <1>1
<1>3. \A b \in Approval \ {a} : grant'[b] = grant[b]
  BY DEF IInv, RecordsOK, Approve, ConsumeGrant, BeginToolExecution
<1>4. \A b \in Approval \ {a}, o \in Operation : execution'[o].grant = b => execution[o].grant = b
  <2>1. CASE Approve(a) \/ ConsumeGrant(a)
    BY <2>1 DEF Approve, ConsumeGrant
  <2>2. ASSUME NEW x \in Operation, BeginToolExecution(x, a)
        PROVE  <1>4
    <3>1. \A o \in Operation : execution'[o].grant = IF o = x THEN a ELSE execution[o].grant
      BY <2>2 DEF IInv, RecordsOK, BeginToolExecution
    <3> QED
      BY <3>1
  <2> QED
    BY <2>1, <2>2
<1>5. AuthorityEnds
  BY <1>1, <1>3, <1>4 DEF AuthorityEnds
<1> QED
  BY <1>2, <1>5

\* Whatever a Turn has settled stays settled, over every command of the planner.
LEMMA StepRevisesNothing == IInv /\ [Next]_vars => OutcomesStand /\ AuthorityEnds
<1> SUFFICES ASSUME IInv, [Next]_vars PROVE OutcomesStand /\ AuthorityEnds
  OBVIOUS
<1>1. CASE SessionNext
  BY <1>1, UntouchedStand DEF SessionNext, Close, CancelSession, FailSession, EndSession
<1>2. ASSUME NEW t \in Turn, TurnNext(t) PROVE OutcomesStand /\ AuthorityEnds
  <2>1. CASE Admit(t)
    BY <2>1, UntouchedStand DEF Admit
  <2>2. CASE \/ Begin(t, sessionVersion, turnVersion[t], Len(invocation[t]))
             \/ \E i \in DOMAIN invocation[t], outcome \in InvocationState \ {"intent"} :
                   RecordOutcome(t, sessionVersion, turnVersion[t], i, outcome)
    BY <2>2, AttemptsStand
  <2>3. ASSUME NEW i \in {0} \cup DOMAIN invocation[t], NEW outcome \in Terminal,
               Settle(t, sessionVersion, turnVersion[t], i, outcome)
        PROVE  OutcomesStand /\ AuthorityEnds
    BY <2>3, UntouchedStand DEF Settle
  <2>4. CASE Cancel(t)
    <3>1. \A a \in Approval : grant'[a].uses = grant[a].uses /\ grant'[a].issued = grant[a].issued
      BY <2>4 DEF IInv, RecordsOK, Cancel
    <3> QED
      BY <2>4, <3>1, UntouchedStand DEF Cancel
  <2>5. ASSUME NEW c \in ToolCall, RecordToolIntent(t, c) PROVE OutcomesStand /\ AuthorityEnds
    BY <2>5, UntouchedStand DEF RecordToolIntent
  <2>6. ASSUME NEW a \in Approval, NEW c \in ToolCall, NEW p \in Policy,
               RequestApproval(a, t, c, p) \/ AdmitToolApproval(a, t, c, p)
        PROVE  OutcomesStand /\ AuthorityEnds
    BY <2>6, UntouchedStand DEF RequestApproval, AdmitToolApproval, PauseForApproval
  <2> QED
    BY <1>2, <2>1, <2>2, <2>3, <2>4, <2>5, <2>6 DEF TurnNext
<1>3. ASSUME NEW a \in Approval, ApprovalNext(a) PROVE OutcomesStand /\ AuthorityEnds
  <2>1. CASE DeadlinePasses(a) \/ ExpireApproval(a) \/ Deny(a)
    BY <2>1, UntouchedStand DEF DeadlinePasses, ExpireApproval, Deny
  <2>2. CASE Approve(a) \/ ConsumeGrant(a) \/ \E o \in Operation : BeginToolExecution(o, a)
    BY <2>2, AuthorityStands
  <2>3. CASE RevokeGrant(a) \/ ExpireGrant(a)
    <3>1. \A b \in Approval : grant'[b].uses = grant[b].uses /\ grant'[b].issued = grant[b].issued
      <4>1. grant' = [grant EXCEPT ![a].revoked = TRUE]
        BY <2>3 DEF RevokeGrant, ExpireGrant
      <4> QED
        BY <4>1 DEF IInv, RecordsOK
    <3> QED
      BY <2>3, <3>1, UntouchedStand DEF RevokeGrant, ExpireGrant
  <2> QED
    BY <1>3, <2>1, <2>2, <2>3 DEF ApprovalNext, DecideApproval
<1>4. ASSUME NEW p \in Policy, RegisterPolicy(p) PROVE OutcomesStand /\ AuthorityEnds
  BY <1>4, UntouchedStand DEF RegisterPolicy
<1>5. ASSUME NEW o \in Operation, NEW outcome \in {"succeeded", "failed", "uncertain"},
             RecordToolOutcome(o, outcome)
      PROVE  OutcomesStand /\ AuthorityEnds
  <2>1. OutcomesStand
    <3> SUFFICES ASSUME NEW t \in Turn
                 PROVE  Len(invocation'[t]) >= Len(invocation[t])
      BY <1>5 DEF OutcomesStand, RecordToolOutcome
    <3> QED
      BY <1>5 DEF RecordToolOutcome
  <2>2. AuthorityEnds
    <3>1. \A x \in Operation : execution'[x].grant = execution[x].grant
      BY <1>5 DEF IInv, RecordsOK, RecordToolOutcome
    <3>2. \A b \in Approval : grant'[b].uses = grant[b].uses /\ grant'[b].issued = grant[b].issued
      BY <1>5 DEF IInv, RecordsOK, RecordToolOutcome
    <3> QED
      BY <3>1, <3>2 DEF AuthorityEnds
  <2> QED
    BY <2>1, <2>2
<1>6. CASE UNCHANGED vars
  BY <1>6, UntouchedStand DEF vars
<1> QED
  BY <1>1, <1>2, <1>3, <1>4, <1>5, <1>6 DEF Next

\* A recorded outcome is final and the end of a Turn ends its authority, for any number of
\* Turns, attempts, approvals and executions.
THEOREM SettledStaysSettled == Spec => NothingIsRevised
<1>1. IInv /\ [Next]_vars => [OutcomesStand /\ AuthorityEnds]_vars
  BY StepRevisesNothing
<1> QED
  BY <1>1, Invariance, PTL DEF Spec, NothingIsRevised
=============================================================================
