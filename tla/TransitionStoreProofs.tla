------------------------ MODULE TransitionStoreProofs -----------------------
(***************************************************************************)
(* TransitionStore implements ExactlyOnce, for any callers, keys, requests *)
(* and numbers of attempts and calls.                                      *)
(***************************************************************************)
EXTENDS TransitionStore, SequenceTheorems, TLAPS

With(c, s) ==
    [log |-> Append(s.log, call[c]),
     receipt |-> [s.receipt EXCEPT ![call[c].key] = call[c].request]]

\* What a caller holds between its steps: a plan repeats the base, which has the
\* receipt of the call, or adds the call to a base without a receipt of its key.
PlansAreSound ==
    \A c \in Caller :
        /\ pc[c] # "idle" <=> reply[c] = "none"
        /\ pc[c] = "persist" =>
              \/ planned[c] = base[c] /\ base[c].receipt[call[c].key] = call[c].request
              \/ planned[c] = With(c, base[c]) /\ base[c].receipt[call[c].key] = NoRequest

\* Whatever took effect has left its receipt.
EffectsHaveReceipts ==
    \A i \in DOMAIN log : receipt[log[i].key] # NoRequest

IInv == StoreTypeOK /\ PlansAreSound /\ EffectsHaveReceipts /\ AppliedOnce

\* Adding the call of c to a snapshot makes a snapshot.
LEMMA WithType ==
    ASSUME NEW c \in Caller, StoreTypeOK, NEW s \in Snapshot
    PROVE  /\ call[c] \in Command
           /\ With(c, s) \in Snapshot
           /\ With(c, s).log = Append(s.log, call[c])
           /\ With(c, s).receipt = [s.receipt EXCEPT ![call[c].key] = call[c].request]
<1>1. call[c] \in Command
  BY DEF StoreTypeOK
<1>2. Append(s.log, call[c]) \in Seq(Command)
  BY <1>1 DEF Snapshot
<1>3. [s.receipt EXCEPT ![call[c].key] = call[c].request] \in [IdempotencyKey -> Request \cup {NoRequest}]
  BY <1>1 DEF Snapshot, Command
<1> QED BY <1>1, <1>2, <1>3 DEF With, Snapshot

\* The outcomes of planning the call of c against a snapshot.
LEMMA PlanOutcomes ==
    ASSUME NEW c \in Caller, StoreTypeOK, NEW s \in Snapshot,
           NEW answer \in Answers, NEW replacement \in Replacements(c, s),
           Plan(c, s, answer, replacement)
    PROVE  /\ replacement \in Snapshot
           /\ answer = "done" =>
                 \/ replacement = s /\ s.receipt[call[c].key] = call[c].request
                 \/ replacement = With(c, s) /\ s.receipt[call[c].key] = NoRequest
<1>1. replacement = s \/ replacement = With(c, s)
  BY DEF Replacements, With
<1>2. replacement \in Snapshot
  BY <1>1, WithType
<1>3. answer = "done" => \/ replacement = s /\ s.receipt[call[c].key] = call[c].request
                         \/ replacement = With(c, s) /\ s.receipt[call[c].key] = NoRequest
  BY DEF Plan, With
<1> QED BY <1>2, <1>3

\* Committing a sound plan is the effect of the call or leaves the state alone,
\* and keeps what the invariant says of the state.
LEMMA CommitIsOneEffect ==
    ASSUME NEW c \in Caller, IInv, NEW s, Commit(c, s),
           \/ s = State /\ receipt[call[c].key] = call[c].request
           \/ s = With(c, State) /\ receipt[call[c].key] = NoRequest
    PROVE  /\ State' \in Snapshot
           /\ EffectsHaveReceipts' /\ AppliedOnce'
           /\ Len(log') >= Len(log) /\ SubSeq(log', 1, Len(log)) = log
<1> USE DEF IInv
<1>1. State \in Snapshot /\ call[c] \in Command
  BY DEF StoreTypeOK
<1>2. /\ log \in Seq(Command)
      /\ receipt \in [IdempotencyKey -> Request \cup {NoRequest}]
  BY <1>1 DEF State, Snapshot
<1>3. CASE s = State
  <2>1. log' = log /\ receipt' = receipt
    BY <1>3 DEF Commit, State
  <2>2. SubSeq(log, 1, Len(log)) = log
    BY <1>2
  <2> QED BY <2>1, <2>2, <1>1, <1>2 DEF State, EffectsHaveReceipts, AppliedOnce
<1>4. CASE s = With(c, State) /\ receipt[call[c].key] = NoRequest
  <2>1. /\ log' = Append(log, call[c])
        /\ receipt' = [receipt EXCEPT ![call[c].key] = call[c].request]
    BY <1>1, <1>4, WithType DEF Commit, State
  <2>2. State' \in Snapshot
    <3>1. log' \in Seq(Command)
      BY <2>1, <1>1, <1>2
    <3>2. receipt' \in [IdempotencyKey -> Request \cup {NoRequest}]
      BY <2>1, <1>1, <1>2 DEF Command
    <3> QED BY <3>1, <3>2 DEF State, Snapshot
  <2>3. /\ DOMAIN log = 1..Len(log) /\ DOMAIN log' = 1..(Len(log) + 1)
        /\ Len(log) \in Nat
        /\ \A i \in 1..Len(log) : log'[i] = log[i] /\ log[i] \in Command
        /\ log'[Len(log) + 1] = call[c]
    BY <2>1, <1>1, <1>2
  <2>4. EffectsHaveReceipts'
    BY <2>1, <2>3, <1>1, <1>2, StoreAssumption DEF EffectsHaveReceipts, Command
  <2>5. AppliedOnce'
    <3>1. \A i \in 1..Len(log) : log[i].key # call[c].key
      BY <2>3, <1>4 DEF EffectsHaveReceipts
    <3> QED BY <3>1, <2>3 DEF AppliedOnce
  <2>6. Len(log') >= Len(log) /\ SubSeq(log', 1, Len(log)) = log
    BY <2>1, <1>1, <1>2
  <2> QED BY <2>2, <2>4, <2>5, <2>6
<1> QED BY <1>3, <1>4 DEF State

\* Every step of a caller keeps the invariant.
LEMMA CallerStep ==
    ASSUME IInv, NEW c \in Caller,
           \/ Call(c) \/ Load(c) \/ PlanAgainstBase(c) \/ Persist(c) \/ Conflict(c)
           \/ ApplyCompiledMutation(c) \/ Unavailable(c)
    PROVE  IInv'
<1> USE DEF IInv
<1>a. State \in Snapshot /\ call[c] \in Command
  BY DEF StoreTypeOK
<1>1. CASE Call(c)
  <2>1. UNCHANGED <<State, log, receipt>>
    BY <1>1 DEF Call, State
  <2>2. StoreTypeOK'
    BY <1>1, <2>1, StoreAssumption DEF Call, Goto, StoreTypeOK, Reply
  <2>3. PlansAreSound'
    BY <1>1 DEF Call, Goto, StoreTypeOK, PlansAreSound, With
  <2> QED BY <2>1, <2>2, <2>3 DEF EffectsHaveReceipts, AppliedOnce
<1>2. CASE Load(c)
  <2>1. UNCHANGED <<State, log, receipt>>
    BY <1>2 DEF Load, State
  <2>2. StoreTypeOK'
    BY <1>2, <2>1, <1>a DEF Load, Goto, StoreTypeOK
  <2>3. PlansAreSound'
    BY <1>2 DEF Load, Goto, StoreTypeOK, PlansAreSound, With
  <2> QED BY <2>1, <2>2, <2>3 DEF EffectsHaveReceipts, AppliedOnce
<1>3. CASE PlanAgainstBase(c)
  <2>1. UNCHANGED <<State, log, receipt, expired, call, base, attempt>>
    BY <1>3 DEF PlanAgainstBase, State
  <2>2. PICK answer \in Answers, replacement \in Replacements(c, base[c]) :
          /\ Plan(c, base[c], answer, replacement)
          /\ \/ /\ answer = "done"
                /\ planned' = [planned EXCEPT ![c] = replacement]
                /\ Goto(c, "persist")
                /\ UNCHANGED reply
             \/ /\ answer # "done"
                /\ Answer(c, answer)
                /\ UNCHANGED planned
    BY <1>3 DEF PlanAgainstBase
  <2>3. base[c] \in Snapshot
    BY DEF StoreTypeOK
  <2>4. /\ replacement \in Snapshot
        /\ answer = "done" =>
              \/ replacement = base[c] /\ base[c].receipt[call[c].key] = call[c].request
              \/ replacement = With(c, base[c]) /\ base[c].receipt[call[c].key] = NoRequest
    BY <2>2, <2>3, PlanOutcomes
  <2>5. pc[c] = "plan"
    BY <1>3 DEF PlanAgainstBase
  <2>6. StoreTypeOK'
    BY <2>1, <2>2, <2>4, <2>5 DEF StoreTypeOK, Goto, Answer, Answers, Reply
  <2>7. PlansAreSound'
    <3> SUFFICES ASSUME NEW d \in Caller
                 PROVE  /\ pc'[d] # "idle" <=> reply'[d] = "none"
                        /\ pc'[d] = "persist" =>
                              \/ planned'[d] = base[d] /\ base[d].receipt[call[d].key] = call[d].request
                              \/ planned'[d] = With(d, base[d]) /\ base[d].receipt[call[d].key] = NoRequest
      BY <2>1 DEF PlansAreSound, With
    <3>1. CASE d # c
      BY <3>1, <2>2, <2>6 DEF PlansAreSound, Goto, Answer, StoreTypeOK
    <3>2. CASE d = c
      BY <3>2, <2>2, <2>4, <2>5 DEF PlansAreSound, Goto, Answer, StoreTypeOK, Answers
    <3> QED BY <3>1, <3>2
  <2> QED BY <2>1, <2>6, <2>7 DEF EffectsHaveReceipts, AppliedOnce
<1>4. CASE Persist(c)
  <2>1. /\ Commit(c, planned[c]) /\ UNCHANGED <<expired, call, base, planned, attempt>>
        /\ pc[c] = "persist" /\ State = base[c]
    BY <1>4 DEF Persist
  <2>2. \/ planned[c] = State /\ receipt[call[c].key] = call[c].request
        \/ planned[c] = With(c, State) /\ receipt[call[c].key] = NoRequest
    BY <2>1 DEF PlansAreSound, State
  <2>3. State' \in Snapshot /\ EffectsHaveReceipts' /\ AppliedOnce'
    BY <2>1, <2>2, CommitIsOneEffect
  <2>4. StoreTypeOK'
    BY <2>1, <2>3 DEF StoreTypeOK, Commit, Answer, Goto, Reply
  <2>5. PlansAreSound'
    BY <2>1 DEF PlansAreSound, Commit, Answer, Goto, StoreTypeOK, With
  <2> QED BY <2>3, <2>4, <2>5
<1>5. CASE Conflict(c)
  <2>1. UNCHANGED <<State, log, receipt, expired, call, base, planned>>
    BY <1>5 DEF Conflict, State
  <2>2. StoreTypeOK'
    <3>1. attempt[c] \in 0..MaxAttempts /\ attempt[c] < MaxAttempts
      BY <1>5 DEF Conflict, StoreTypeOK
    <3>2. attempt' = [attempt EXCEPT ![c] = attempt[c] + 1]
      BY <1>5 DEF Conflict
    <3>3. attempt' \in [Caller -> 0..MaxAttempts]
      BY <3>1, <3>2, StoreAssumption DEF StoreTypeOK
    <3>4. /\ pc' \in [Caller -> {"idle", "load", "plan", "persist"}]
          /\ reply' \in [Caller -> Reply]
      BY <1>5 DEF Conflict, StoreTypeOK, Goto, Answer, Reply
    <3>5. \A d \in Caller : pc'[d] # "idle" => attempt'[d] < MaxAttempts
      BY <1>5, <3>1, <3>2, StoreAssumption DEF Conflict, StoreTypeOK, Goto, Answer
    <3> QED BY <2>1, <3>3, <3>4, <3>5 DEF StoreTypeOK
  <2>3. PlansAreSound'
    BY <1>5, <2>1 DEF PlansAreSound, Conflict, Answer, Goto, StoreTypeOK, With
  <2> QED BY <2>1, <2>2, <2>3 DEF EffectsHaveReceipts, AppliedOnce
<1>6. CASE ApplyCompiledMutation(c)
  <2>1. UNCHANGED <<expired, call, base, planned, attempt>> /\ pc[c] = "load"
    BY <1>6 DEF ApplyCompiledMutation
  <2>2. PICK answer \in Answers, replacement \in Replacements(c, State) :
          /\ Plan(c, State, answer, replacement)
          /\ IF answer = "done" THEN Commit(c, replacement)
             ELSE Answer(c, answer) /\ UNCHANGED <<log, receipt>>
    BY <1>6 DEF ApplyCompiledMutation
  <2>3. answer = "done" =>
              \/ replacement = State /\ receipt[call[c].key] = call[c].request
              \/ replacement = With(c, State) /\ receipt[call[c].key] = NoRequest
    <3>1. State.receipt = receipt
      BY DEF State
    <3> QED BY <2>2, <3>1, <1>a, PlanOutcomes
  <2>4. State' \in Snapshot /\ EffectsHaveReceipts' /\ AppliedOnce'
    <3>1. CASE answer = "done"
      BY <3>1, <2>2, <2>3, CommitIsOneEffect
    <3>2. CASE answer # "done"
      BY <3>2, <2>2, <1>a DEF State, EffectsHaveReceipts, AppliedOnce
    <3> QED BY <3>1, <3>2
  <2>5. \E a \in Reply \ {"none"} : Answer(c, a)
    BY <2>2 DEF Commit, Answers, Reply
  <2>6. StoreTypeOK'
    BY <2>1, <2>4, <2>5 DEF StoreTypeOK, Answer, Goto
  <2>7. PlansAreSound'
    BY <2>1, <2>5 DEF PlansAreSound, Answer, Goto, StoreTypeOK, With
  <2> QED BY <2>4, <2>6, <2>7
<1>7. CASE Unavailable(c)
  <2>1. UNCHANGED <<State, log, receipt, expired, call, base, planned, attempt>>
    BY <1>7 DEF Unavailable, State
  <2>2. StoreTypeOK'
    BY <1>7, <2>1 DEF StoreTypeOK, Unavailable, Answer, Goto, Reply
  <2>3. PlansAreSound'
    BY <1>7, <2>1 DEF PlansAreSound, Unavailable, Answer, Goto, StoreTypeOK, With
  <2> QED BY <2>1, <2>2, <2>3 DEF EffectsHaveReceipts, AppliedOnce
<1> QED BY <1>1, <1>2, <1>3, <1>4, <1>5, <1>6, <1>7

\* The invariant holds in every state of the store: its plans stay sound while
\* other commands take effect, since a plan is persisted on its base only.
THEOREM StoreInvariance == Spec => []IInv
<1>1. Init => IInv
  <2> SUFFICES ASSUME Init PROVE IInv
    OBVIOUS
  <2>1. State \in Snapshot
    BY DEF Init, State, Snapshot
  <2> QED BY <2>1, StoreAssumption DEF Init, IInv, StoreTypeOK, PlansAreSound,
             EffectsHaveReceipts, AppliedOnce, Reply
<1>2. IInv /\ [Next]_vars => IInv'
  <2> SUFFICES ASSUME IInv, [Next]_vars PROVE IInv'
    OBVIOUS
  <2>1. CASE \E c \in Caller :
          \/ Call(c) \/ Load(c) \/ PlanAgainstBase(c) \/ Persist(c) \/ Conflict(c)
          \/ ApplyCompiledMutation(c) \/ Unavailable(c)
    BY <2>1, CallerStep
  <2>2. CASE \E k \in IdempotencyKey : ReceiptExpires(k)
    BY <2>2 DEF ReceiptExpires, IInv, StoreTypeOK, PlansAreSound, State, With,
             EffectsHaveReceipts, AppliedOnce
  <2>3. CASE UNCHANGED vars
    BY <2>3 DEF vars, IInv, StoreTypeOK, PlansAreSound, State, With,
             EffectsHaveReceipts, AppliedOnce
  <2> QED BY <2>1, <2>2, <2>3 DEF Next
<1> QED BY <1>1, <1>2, PTL DEF Spec

\* A key takes effect at most once, whatever callers race, repeat or come late.
THEOREM KeysAreAppliedOnce == Spec => []AppliedOnce
<1>1. IInv => AppliedOnce
  BY DEF IInv
<1> QED BY <1>1, StoreInvariance, PTL

\* What a step of a caller is to the abstract store: nothing, or one of its steps
\* on the same log, receipts, calls and replies.
LEMMA CallerRefines ==
    ASSUME IInv, NEW c \in Caller,
           \/ Call(c) \/ Load(c) \/ PlanAgainstBase(c) \/ Persist(c) \/ Conflict(c)
           \/ ApplyCompiledMutation(c) \/ Unavailable(c)
    PROVE  \/ Abstract!Ask(c) \/ Abstract!Perform(c) \/ Abstract!Repeat(c) \/ Abstract!Refuse(c)
           \/ UNCHANGED <<log, receipt, call, reply>>
<1> USE DEF IInv
<1>a. State \in Snapshot /\ call[c] \in Command
  BY DEF StoreTypeOK
<1>b. State.log = log /\ State.receipt = receipt
  BY DEF State
<1>c. pc[c] # "idle" <=> reply[c] = "none"
  BY DEF PlansAreSound
<1>d. ASSUME NEW s, Commit(c, s), UNCHANGED call, pc[c] # "idle",
             \/ s = State /\ receipt[call[c].key] = call[c].request
             \/ s = With(c, State) /\ receipt[call[c].key] = NoRequest
      PROVE  \/ Abstract!Perform(c) \/ Abstract!Repeat(c) \/ Abstract!Refuse(c)
  <2>1. CASE s = State /\ receipt[call[c].key] = call[c].request
    BY <1>b, <1>c, <1>d, <2>1 DEF Commit, Answer, Abstract!Repeat, Abstract!Refuse
  <2>2. CASE s = With(c, State) /\ receipt[call[c].key] = NoRequest
    BY <1>a, <1>b, <1>c, <1>d, <2>2, WithType DEF Commit, Answer, Abstract!Perform
  <2> QED BY <1>d, <2>1, <2>2
<1>1. CASE Call(c)
  BY <1>1, <1>c DEF Call, Abstract!Ask, Abstract!Command, Command
<1>2. CASE Load(c)
  BY <1>2 DEF Load
<1>3. CASE PlanAgainstBase(c)
  BY <1>3, <1>c DEF PlanAgainstBase, Answer, Answers, Abstract!Refuse
<1>4. CASE Persist(c)
  <2>1. \/ planned[c] = State /\ receipt[call[c].key] = call[c].request
        \/ planned[c] = With(c, State) /\ receipt[call[c].key] = NoRequest
    BY <1>4, <1>b DEF Persist, PlansAreSound
  <2> QED BY <1>4, <1>d, <2>1 DEF Persist
<1>5. CASE Conflict(c)
  BY <1>5, <1>c DEF Conflict, Answer, Abstract!Refuse
<1>6. CASE ApplyCompiledMutation(c)
  <2>1. PICK answer \in Answers, replacement \in Replacements(c, State) :
          /\ Plan(c, State, answer, replacement)
          /\ IF answer = "done" THEN Commit(c, replacement)
             ELSE Answer(c, answer) /\ UNCHANGED <<log, receipt>>
    BY <1>6 DEF ApplyCompiledMutation
  <2>2. UNCHANGED call /\ pc[c] = "load"
    BY <1>6 DEF ApplyCompiledMutation
  <2>3. CASE answer = "done"
    <3>1. \/ replacement = State /\ receipt[call[c].key] = call[c].request
          \/ replacement = With(c, State) /\ receipt[call[c].key] = NoRequest
      BY <1>a, <1>b, <2>1, <2>3, PlanOutcomes
    <3> QED BY <1>d, <2>1, <2>2, <2>3, <3>1
  <2>4. CASE answer # "done"
    BY <1>c, <2>1, <2>2, <2>4 DEF Answer, Answers, Abstract!Refuse
  <2> QED BY <2>3, <2>4
<1>7. CASE Unavailable(c)
  BY <1>7, <1>c DEF Unavailable, Answer, Abstract!Refuse
<1> QED BY <1>1, <1>2, <1>3, <1>4, <1>5, <1>6, <1>7

\* The store of copies, plans and comparisons implements the store in which a
\* command is one step: the commands of the other modules may be single steps.
THEOREM StoreImplements == Spec => Implements
<1>1. Init => Abstract!Init
  BY DEF Init, Abstract!Init, Command, Abstract!Command
<1>2. IInv /\ [Next]_vars => [Abstract!Next]_(Abstract!specVars)
  <2> SUFFICES ASSUME IInv, [Next]_vars
               PROVE  Abstract!Next \/ UNCHANGED <<log, receipt, call, reply>>
    BY DEF Abstract!specVars
  <2>1. CASE \E c \in Caller :
          \/ Call(c) \/ Load(c) \/ PlanAgainstBase(c) \/ Persist(c) \/ Conflict(c)
          \/ ApplyCompiledMutation(c) \/ Unavailable(c)
    BY <2>1, CallerRefines DEF Abstract!Next
  <2>2. CASE \E k \in IdempotencyKey : ReceiptExpires(k)
    BY <2>2 DEF ReceiptExpires
  <2>3. CASE UNCHANGED vars
    BY <2>3 DEF vars
  <2> QED BY <2>1, <2>2, <2>3 DEF Next
<1> QED BY <1>1, <1>2, StoreInvariance, PTL DEF Spec, Implements, Abstract!Spec

\* No effect is lost: the log of a state is a beginning of the log of the next.
THEOREM EffectsAreKept == Spec => LogGrows
<1>1. IInv /\ [Next]_vars => [Len(log') >= Len(log) /\ SubSeq(log', 1, Len(log)) = log]_vars
  <2> SUFFICES ASSUME IInv, [Next]_vars
               PROVE  Len(log') >= Len(log) /\ SubSeq(log', 1, Len(log)) = log
    OBVIOUS
  <2>1. log \in Seq(Command)
    BY DEF IInv, StoreTypeOK, State, Snapshot
  <2>2. log' = log => Len(log') >= Len(log) /\ SubSeq(log', 1, Len(log)) = log
    BY <2>1
  <2>3. Abstract!Next \/ UNCHANGED <<log, receipt, call, reply>>
    <3>1. CASE \E c \in Caller :
            \/ Call(c) \/ Load(c) \/ PlanAgainstBase(c) \/ Persist(c) \/ Conflict(c)
            \/ ApplyCompiledMutation(c) \/ Unavailable(c)
      BY <3>1, CallerRefines DEF Abstract!Next
    <3>2. CASE \E k \in IdempotencyKey : ReceiptExpires(k)
      BY <3>2 DEF ReceiptExpires
    <3>3. CASE UNCHANGED vars
      BY <3>3 DEF vars
    <3> QED BY <3>1, <3>2, <3>3 DEF Next
  <2>4. log' = log \/ \E c \in Caller : log' = Append(log, call[c])
    BY <2>3 DEF Abstract!Next, Abstract!Ask, Abstract!Perform, Abstract!Repeat, Abstract!Refuse
  <2>5. \A c \in Caller : call[c] \in Command
    BY DEF IInv, StoreTypeOK
  <2> QED BY <2>1, <2>2, <2>4, <2>5
<1> QED BY <1>1, StoreInvariance, PTL DEF Spec, LogGrows
=============================================================================
