---------------------------- MODULE KernelProofs ----------------------------
(***************************************************************************)
(* Proofs about Kernel, for any keys, contents and bounds: the kernel      *)
(* implements the queue that a Session promises, and its event log and its *)
(* idempotency records tell the truth.                                     *)
(*                                                                         *)
(* The refinement rests on InLine: among the turns without an outcome the  *)
(* first one runs, alone.  CloseSession and SendInput look at the running  *)
(* turn only, so they agree with the queue exactly because of it.          *)
(***************************************************************************)
EXTENDS Kernel, SequenceTheorems, WellFoundedInduction, TLAPS

TurnState == {"queued", "running"} \cup Terminal

UnfinishedOf(s) == {i \in DOMAIN s : s[i] \notin Terminal}

\* The first unfinished turn runs, and no other does.
InLine(s) ==
    /\ \A i \in DOMAIN s : s[i] = "running" => \A j \in UnfinishedOf(s) : i <= j
    /\ \A i \in DOMAIN s : s[i] = "queued" => \E j \in DOMAIN s : s[j] = "running"

QueueInv == turns \in Seq(TurnState) /\ InLine(turns)

(***************************************************************************)
(* The first turn in a state.                                              *)
(***************************************************************************)
\* A non-empty set of numbers has a least one.
LEMMA LeastNumber ==
    ASSUME NEW S \in SUBSET Nat, S # {}
    PROVE  \E n \in S : \A m \in S : n <= m
<1>1. PICK n \in S : \A m \in S : ~ (<<m, n>> \in OpToRel(<, Nat))
  BY NatLessThanWellFounded, WFMin
<1>2. OpToRel(<, Nat) = {ss \in Nat \X Nat : ss[1] < ss[2]}
  BY DEF OpToRel
<1>3. \A m \in S : ~ (m < n)
  BY <1>1, <1>2
<1> QED
  BY <1>3

\* FirstIn finds the first turn in a state whenever there is one, and 0 otherwise.
LEMMA FirstInFinds ==
    ASSUME NEW T, NEW s \in Seq(T), NEW state
    PROVE  /\ (\E i \in DOMAIN s : s[i] = state) =>
                 /\ FirstIn(s, state) \in DOMAIN s
                 /\ s[FirstIn(s, state)] = state
                 /\ \A j \in DOMAIN s : s[j] = state => FirstIn(s, state) <= j
           /\ ~(\E i \in DOMAIN s : s[i] = state) => FirstIn(s, state) = 0
<1>1. ASSUME \E i \in DOMAIN s : s[i] = state
      PROVE  \E i \in DOMAIN s : s[i] = state /\ \A j \in DOMAIN s : s[j] = state => i <= j
  <2> DEFINE In == {i \in DOMAIN s : s[i] = state}
  <2>1. In \in SUBSET Nat /\ In # {}
    BY <1>1
  <2>2. PICK i \in In : \A j \in In : i <= j
    BY <2>1, LeastNumber
  <2> QED
    BY <2>2
<1> QED
  BY <1>1 DEF FirstIn

\* In a line, the active turn is the head of the unfinished ones, and there is none exactly
\* when all turns have their outcome.
LEMMA ActiveIsHead ==
    ASSUME NEW s \in Seq(TurnState), InLine(s)
    PROVE  /\ Queue!Serves(activeTurnIndex(s), UnfinishedOf(s))
           /\ activeTurnIndex(s) = 0 <=> UnfinishedOf(s) = {}
           /\ activeTurnIndex(s) # 0 => activeTurnIndex(s) \in DOMAIN s /\ s[activeTurnIndex(s)] = "running"
<1>1. \A i \in DOMAIN s : s[i] \in TurnState /\ i \in Nat \ {0}
  OBVIOUS
<1>2. CASE \E i \in DOMAIN s : s[i] = "running"
  <2>1. activeTurnIndex(s) \in DOMAIN s /\ s[activeTurnIndex(s)] = "running"
    BY <1>2, FirstInFinds DEF activeTurnIndex
  <2>2. activeTurnIndex(s) \in UnfinishedOf(s) /\ activeTurnIndex(s) # 0
    BY <1>1, <2>1 DEF UnfinishedOf, Terminal
  <2>3. \A j \in UnfinishedOf(s) : activeTurnIndex(s) <= j
    BY <2>1 DEF InLine
  <2> QED
    BY <2>1, <2>2, <2>3 DEF Queue!Serves
<1>3. CASE ~ \E i \in DOMAIN s : s[i] = "running"
  <2>1. activeTurnIndex(s) = 0
    BY <1>3, FirstInFinds DEF activeTurnIndex
  <2>2. UnfinishedOf(s) = {}
    BY <1>1, <1>3 DEF UnfinishedOf, InLine, TurnState
  <2> QED
    BY <2>1, <2>2 DEF Queue!Serves
<1> QED
  BY <1>2, <1>3

(***************************************************************************)
(* A turn leaves the line.                                                 *)
(***************************************************************************)
LEMMA SetTurn ==
    ASSUME NEW s \in Seq(TurnState), NEW q \in DOMAIN s, NEW state \in TurnState
    PROVE  /\ [s EXCEPT ![q] = state] \in Seq(TurnState)
           /\ DOMAIN [s EXCEPT ![q] = state] = DOMAIN s
           /\ Len([s EXCEPT ![q] = state]) = Len(s)
<1>1. q \in 1..Len(s)
  OBVIOUS
<1> QED
  BY <1>1, ExceptSeq

\* When no turn runs, Started starts the first queued one, if there is one.
LEMMA StartNext ==
    ASSUME NEW s \in Seq(TurnState), \A j \in DOMAIN s : s[j] # "running"
    PROVE  /\ activeTurnIndex(s) = 0
           /\ queuedTurnIndex(s) = 0 <=> UnfinishedOf(s) = {}
           /\ Started(s) \in Seq(TurnState) /\ Len(Started(s)) = Len(s)
           /\ InLine(Started(s))
           /\ UnfinishedOf(Started(s)) = UnfinishedOf(s)
<1>1. \A j \in DOMAIN s : j \in Nat \ {0} /\ s[j] \in TurnState
  OBVIOUS
<1>2. activeTurnIndex(s) = 0
  BY FirstInFinds DEF activeTurnIndex
<1>3. CASE \E j \in DOMAIN s : s[j] = "queued"
  <2> DEFINE q == queuedTurnIndex(s)
  <2>1. q \in DOMAIN s /\ s[q] = "queued" /\ \A j \in DOMAIN s : s[j] = "queued" => q <= j
    BY <1>3, FirstInFinds DEF queuedTurnIndex
  <2>2. q # 0
    BY <1>1, <2>1
  <2>3. Started(s) = [s EXCEPT ![q] = "running"]
    BY <1>2, <2>2 DEF Started
  <2> HIDE DEF q
  <2>4. Started(s) \in Seq(TurnState) /\ DOMAIN Started(s) = DOMAIN s /\ Len(Started(s)) = Len(s)
    <3>1. "running" \in TurnState
      BY DEF TurnState
    <3> QED
      BY <2>1, <2>3, <3>1, SetTurn
  <2>5. \A j \in DOMAIN s : Started(s)[j] = IF j = q THEN "running" ELSE s[j]
    BY <2>3
  <2>6. UnfinishedOf(Started(s)) = UnfinishedOf(s)
    BY <2>1, <2>4, <2>5 DEF UnfinishedOf, Terminal
  <2>7. \A j \in UnfinishedOf(s) : s[j] = "queued" /\ q <= j
    BY <1>1, <2>1 DEF UnfinishedOf, TurnState
  <2>8. InLine(Started(s))
    <3>1. \A j \in DOMAIN Started(s) : Started(s)[j] = "running" => j = q
      BY <2>4, <2>5
    <3>2. Started(s)[q] = "running" /\ q \in DOMAIN Started(s)
      BY <2>1, <2>4, <2>5
    <3> QED
      BY <2>6, <2>7, <3>1, <3>2 DEF InLine
  <2>9. q \in UnfinishedOf(s)
    BY <2>1 DEF UnfinishedOf, Terminal
  <2> QED
    BY <1>2, <2>2, <2>4, <2>6, <2>8, <2>9 DEF q
<1>4. CASE ~ \E j \in DOMAIN s : s[j] = "queued"
  <2>1. queuedTurnIndex(s) = 0
    BY <1>4, FirstInFinds DEF queuedTurnIndex
  <2>2. Started(s) = s
    BY <2>1 DEF Started
  <2>3. UnfinishedOf(s) = {}
    BY <1>1, <1>4 DEF UnfinishedOf, TurnState
  <2>4. InLine(s)
    BY <1>4 DEF InLine
  <2> QED
    BY <1>2, <2>1, <2>2, <2>3, <2>4
<1> QED
  BY <1>3, <1>4

\* advance after the outcome of turn i: i has left the line, nobody else has, and the
\* new head runs.
LEMMA AdvanceKeepsLine ==
    ASSUME QueueInv, NEW i \in DOMAIN turns, turns[i] \notin Terminal, NEW o \in Terminal,
           NEW s, s = [turns EXCEPT ![i] = o]
    PROVE  /\ s \in Seq(TurnState)
           /\ Started(s) \in Seq(TurnState) /\ Len(Started(s)) = Len(turns)
           /\ InLine(Started(s))
           /\ UnfinishedOf(Started(s)) = UnfinishedOf(turns) \ {i}
           /\ activeTurnIndex(s) = 0 /\ queuedTurnIndex(s) = 0 <=> UnfinishedOf(turns) \ {i} = {}
<1>1. s \in Seq(TurnState) /\ DOMAIN s = DOMAIN turns /\ Len(s) = Len(turns)
  BY DEF QueueInv, TurnState
<1>2. \A j \in DOMAIN s : s[j] = IF j = i THEN o ELSE turns[j]
  BY DEF QueueInv
<1>3. \A j \in DOMAIN s : j \in Nat \ {0} /\ s[j] \in TurnState
  BY <1>1
<1>4. UnfinishedOf(s) = UnfinishedOf(turns) \ {i}
  BY <1>1, <1>2 DEF UnfinishedOf
<1>5. CASE turns[i] = "running"
  <2>1. \A j \in DOMAIN s : s[j] # "running"
    <3> SUFFICES ASSUME NEW j \in DOMAIN s, s[j] = "running" PROVE FALSE
      OBVIOUS
    <3>1. j # i /\ turns[j] = "running" /\ j \in DOMAIN turns
      BY <1>1, <1>2 DEF Terminal
    <3>2. i <= j /\ j <= i
      BY <1>5, <3>1 DEF QueueInv, InLine, UnfinishedOf, Terminal
    <3> QED
      BY <1>1, <1>3, <3>1, <3>2
  <2> QED
    BY <1>1, <1>4, <2>1, StartNext
<1>6. CASE turns[i] = "queued"
  <2>1. PICK r \in DOMAIN turns : turns[r] = "running"
    BY <1>6 DEF QueueInv, InLine
  <2>2. r \in DOMAIN s /\ s[r] = "running"
    BY <1>1, <1>2, <1>6, <2>1
  <2>3. activeTurnIndex(s) # 0
    BY <1>1, <1>3, <2>2, FirstInFinds DEF activeTurnIndex
  <2>4. Started(s) = s
    BY <2>3 DEF Started
  <2>5. \A j \in DOMAIN s : s[j] = "running" \/ s[j] = "queued" => turns[j] = s[j]
    BY <1>2 DEF Terminal
  <2>6. \A j \in DOMAIN s : s[j] = "running" => \A k \in UnfinishedOf(s) : j <= k
    BY <1>1, <1>4, <2>5 DEF QueueInv, InLine
  <2>7. InLine(s)
    BY <2>2, <2>6 DEF InLine
  <2>8. UnfinishedOf(s) # {}
    BY <2>2 DEF UnfinishedOf, Terminal
  <2> QED
    BY <1>1, <1>4, <2>3, <2>4, <2>7, <2>8
<1>7. turns[i] \in {"running", "queued"}
  BY DEF QueueInv, TurnState
<1> QED
  BY <1>5, <1>6, <1>7

(***************************************************************************)
(* The line is kept.                                                       *)
(***************************************************************************)
LEMMA SendKeepsLine ==
    ASSUME QueueInv, NEW k \in Key, NEW c \in Content, SendInput(k, c)
    PROVE  /\ QueueInv'
           /\ Len(turns') = Len(turns) + 1
           /\ UnfinishedOf(turns') = UnfinishedOf(turns) \cup {Len(turns) + 1}
<1> DEFINE n == Len(turns) + 1
           new == IF activeTurnIndex(turns) = 0 THEN "running" ELSE "queued"
<1>1. turns' = Append(turns, new) /\ new \in {"running", "queued"}
  BY DEF SendInput
<1>2. new = "queued" => \E j \in DOMAIN turns : turns[j] = "running"
  BY ActiveIsHead DEF QueueInv
<1>3. new = "running" => UnfinishedOf(turns) = {}
  BY ActiveIsHead DEF QueueInv
<1>4. turns \in Seq(TurnState) /\ Len(turns) \in Nat /\ DOMAIN turns = 1..Len(turns)
  BY DEF QueueInv
<1> HIDE DEF new
<1>5. /\ turns' \in Seq(TurnState) /\ Len(turns') = n /\ DOMAIN turns' = 1..n
      /\ turns'[n] = new /\ \A j \in DOMAIN turns : turns'[j] = turns[j]
  BY <1>1, <1>4 DEF TurnState
<1>6. UnfinishedOf(turns') = UnfinishedOf(turns) \cup {n}
  BY <1>1, <1>4, <1>5 DEF UnfinishedOf, Terminal
<1>7. InLine(turns')
  <2>1. ASSUME NEW i \in DOMAIN turns', turns'[i] = "running", NEW j \in UnfinishedOf(turns')
        PROVE  i <= j
    <3>1. CASE new = "running"
      <4>1. j = n
        BY <1>3, <1>6, <3>1
      <4> QED
        BY <1>4, <1>5, <4>1
    <3>2. CASE new = "queued"
      <4>1. i \in DOMAIN turns /\ turns[i] = "running"
        BY <1>4, <1>5, <2>1, <3>2
      <4>2. CASE j \in UnfinishedOf(turns)
        BY <4>1, <4>2 DEF QueueInv, InLine
      <4>3. CASE j = n
        BY <1>4, <4>1, <4>3
      <4> QED
        BY <1>6, <4>2, <4>3
    <3> QED
      BY <1>1, <3>1, <3>2
  <2>2. ASSUME NEW i \in DOMAIN turns', turns'[i] = "queued"
        PROVE  \E j \in DOMAIN turns' : turns'[j] = "running"
    <3>1. CASE i = n
      BY <1>2, <1>4, <1>5, <2>2, <3>1
    <3>2. CASE i \in DOMAIN turns
      <4>1. PICK j \in DOMAIN turns : turns[j] = "running"
        BY <1>5, <2>2, <3>2 DEF QueueInv, InLine
      <4> QED
        BY <1>4, <1>5, <4>1
    <3> QED
      BY <1>4, <1>5, <3>1, <3>2
  <2> QED
    BY <2>1, <2>2 DEF InLine
<1> QED
  BY <1>5, <1>6, <1>7 DEF QueueInv

\* CompleteTurn and CancelTurn: an unfinished turn gets its outcome and advance runs.
LEMMA EndKeepsLine ==
    ASSUME QueueInv, NEW i \in DOMAIN turns, turns[i] \notin Terminal, NEW o \in Terminal, NEW es,
           advance([turns EXCEPT ![i] = o], es)
    PROVE  /\ QueueInv'
           /\ Len(turns') = Len(turns)
           /\ UnfinishedOf(turns') = UnfinishedOf(turns) \ {i}
           /\ phase' = IF phase = "closing" /\ UnfinishedOf(turns') = {} THEN "completed" ELSE phase
<1> DEFINE s == [turns EXCEPT ![i] = o]
<1>1. turns' = Started(s)
      /\ phase' = IF activeTurnIndex(s) = 0 /\ queuedTurnIndex(s) = 0 /\ phase = "closing"
                  THEN "completed" ELSE phase
  BY DEF advance
<1> HIDE DEF s
<1>2. /\ Started(s) \in Seq(TurnState) /\ Len(Started(s)) = Len(turns) /\ InLine(Started(s))
      /\ UnfinishedOf(Started(s)) = UnfinishedOf(turns) \ {i}
      /\ activeTurnIndex(s) = 0 /\ queuedTurnIndex(s) = 0 <=> UnfinishedOf(turns) \ {i} = {}
  BY AdvanceKeepsLine DEF s
<1> QED
  BY <1>1, <1>2 DEF QueueInv

(***************************************************************************)
(* The kernel implements the session queue.                                *)
(***************************************************************************)
\* Serving the active turn is serving the head of the line.
LEMMA ActiveServes ==
    ASSUME NEW s \in Seq(TurnState), InLine(s)
    PROVE  Queue!Serves(activeTurnIndex(s), UnfinishedOf(s))
  BY ActiveIsHead DEF Queue!Serves

\* The steps that leave the turns alone keep the line.
LEMMA SameTurns ==
    ASSUME QueueInv, UNCHANGED turns
    PROVE  QueueInv' /\ Unfinished' = Unfinished /\ UNCHANGED activeTurnIndex(turns)
  BY DEF QueueInv, InLine, UnfinishedOf, Unfinished, activeTurnIndex, FirstIn

\* Every step of the kernel keeps the line and is a step of the queue, or leaves the
\* queue alone.
LEMMA StepServes ==
    ASSUME QueueInv, [KernelNext]_kernelVars
    PROVE  QueueInv' /\ [Queue!QueueNext]_(Queue!queueVars)
<1>0. /\ Unfinished = UnfinishedOf(turns) /\ Unfinished' = UnfinishedOf(turns')
      /\ Queue!Serves(activeTurnIndex(turns), UnfinishedOf(turns))
  BY ActiveServes DEF Unfinished, UnfinishedOf, QueueInv
<1>1. ASSUME UNCHANGED <<turns, phase>> PROVE QueueInv' /\ UNCHANGED Queue!queueVars
  BY <1>1, SameTurns DEF Queue!queueVars
<1>2. ASSUME NEW k \in Key, NEW c \in Content, CreateAgent(k, c) \/ ReviseAgent(k, c)
      PROVE  QueueInv' /\ UNCHANGED Queue!queueVars
  BY <1>1, <1>2 DEF CreateAgent, ReviseAgent
<1>3. ASSUME NEW k \in Key, NEW r \in 1..MaxRevisions, CreateSession(k, r)
      PROVE  QueueInv' /\ Queue!OpenSession
  <2>1. phase = "none" /\ phase' = "open" /\ UNCHANGED turns
    BY <1>3 DEF CreateSession
  <2> QED
    BY <2>1, SameTurns DEF Queue!OpenSession
<1>4. ASSUME NEW k \in Key, NEW c \in Content, SendInput(k, c)
      PROVE  QueueInv' /\ Queue!Accept
  <2>1. phase = "open" /\ Len(turns) < MaxTurns /\ UNCHANGED phase
    BY <1>4 DEF SendInput
  <2>2. /\ QueueInv'
        /\ Len(turns') = Len(turns) + 1
        /\ UnfinishedOf(turns') = UnfinishedOf(turns) \cup {Len(turns) + 1}
    BY <1>4, SendKeepsLine
  <2>3. Queue!Serves(activeTurnIndex(turns'), UnfinishedOf(turns'))
    BY <2>2, ActiveServes DEF QueueInv
  <2> QED
    BY <1>0, <2>1, <2>2, <2>3 DEF Queue!Accept, Queue!Serves
<1>5. ASSUME NEW i \in DOMAIN turns, turns[i] \notin Terminal, NEW o \in Terminal, NEW es,
             advance([turns EXCEPT ![i] = o], es)
      PROVE  QueueInv' /\ Queue!Leave(i)
  <2>1. /\ QueueInv'
        /\ Len(turns') = Len(turns)
        /\ UnfinishedOf(turns') = UnfinishedOf(turns) \ {i}
        /\ phase' = IF phase = "closing" /\ UnfinishedOf(turns') = {} THEN "completed" ELSE phase
    BY <1>5, EndKeepsLine
  <2>2. Queue!Serves(activeTurnIndex(turns'), UnfinishedOf(turns'))
    BY <2>1, ActiveServes DEF QueueInv
  <2> QED
    BY <1>0, <2>1, <2>2 DEF Queue!Leave, Queue!Serves
<1>6. ASSUME NEW i \in 1..MaxTurns, NEW o \in {"succeeded", "failed"}, CompleteTurn(i, o)
      PROVE  QueueInv' /\ Queue!FinishTurn
  <2>1. i \in DOMAIN turns /\ turns[i] = "running" /\ turns[i] \notin Terminal /\ o \in Terminal
    BY <1>6 DEF CompleteTurn, Terminal
  <2>2. QueueInv' /\ Queue!Leave(i)
    BY <1>5, <1>6, <2>1 DEF CompleteTurn
  <2>3. i \in Nat \ {0} /\ i \in Unfinished /\ \A j \in Unfinished : i <= j
    BY <1>0, <2>1 DEF QueueInv, InLine, UnfinishedOf
  <2>4. activeTurnIndex(turns) = i
    <3>1. activeTurnIndex(turns) \in Unfinished /\ activeTurnIndex(turns) <= i
      BY <1>0, <2>3 DEF Queue!Serves
    <3> QED
      BY <2>3, <3>1 DEF Unfinished, QueueInv
  <2> QED
    BY <2>2, <2>3, <2>4 DEF Queue!FinishTurn
<1>7. ASSUME NEW k \in Key, NEW i \in 1..MaxTurns, CancelTurn(k, i)
      PROVE  QueueInv' /\ Queue!GiveUpTurn
  <2>1. i \in DOMAIN turns /\ turns[i] \notin Terminal /\ "cancelled" \in Terminal
    BY <1>7 DEF CancelTurn, Terminal
  <2>2. QueueInv' /\ Queue!Leave(i)
    BY <1>5, <1>7, <2>1 DEF CancelTurn
  <2> QED
    BY <2>1, <2>2 DEF Queue!GiveUpTurn, Unfinished
<1>8. ASSUME NEW k \in Key, CloseSession(k)
      PROVE  QueueInv' /\ Queue!EndIntake
  <2>1. /\ phase = "open" /\ UNCHANGED turns
        /\ phase' = IF activeTurnIndex(turns) = 0 THEN "completed" ELSE "closing"
    BY <1>8 DEF CloseSession
  <2>2. activeTurnIndex(turns) = 0 <=> Unfinished = {}
    BY <1>0, ActiveIsHead DEF QueueInv
  <2> QED
    BY <2>1, <2>2, SameTurns DEF Queue!EndIntake
<1>9. ASSUME NEW k \in Key, CancelSession(k)
      PROVE  QueueInv' /\ Queue!Abandon
  <2>1. /\ phase \in {"open", "closing"} /\ phase' = "cancelled" /\ UNCHANGED turns
        /\ activeTurnIndex(turns) = 0
    BY <1>9 DEF CancelSession
  <2>2. Unfinished = {}
    BY <1>0, <2>1, ActiveIsHead DEF QueueInv
  <2> QED
    BY <2>1, <2>2, SameTurns DEF Queue!Abandon
<1>10. ASSUME NEW n \in PageLimits, CompactEvents(n) \/ Events(n)
       PROVE  QueueInv' /\ UNCHANGED Queue!queueVars
  BY <1>1, <1>10 DEF CompactEvents, Events
<1>11. CASE UNCHANGED kernelVars
  BY <1>1, <1>11 DEF kernelVars
<1>12. CASE KernelNext
  BY <1>2, <1>3, <1>4, <1>6, <1>7, <1>8, <1>9, <1>10, <1>12 DEF KernelNext, Queue!QueueNext
<1> QED
  BY <1>11, <1>12

\* For any keys and any number of turns, the kernel implements the session queue.
\* SendInput, CompleteTurn, CancelTurn and advance serve the turns one at a time in
\* order of acceptance, and CloseSession completes a Session exactly when its line
\* is empty.
THEOREM KernelServes == KernelSpec => ServesInOrder
<1>1. KernelInit => QueueInv /\ Queue!QueueInit
  <2> SUFFICES ASSUME KernelInit PROVE QueueInv /\ Queue!QueueInit
    OBVIOUS
  <2>1. turns = <<>> /\ phase = "none"
    BY DEF KernelInit
  <2>2. turns \in Seq(TurnState) /\ Len(turns) = 0 /\ DOMAIN turns = {}
    BY <2>1
  <2>3. QueueInv /\ Unfinished = {}
    BY <2>2 DEF QueueInv, InLine, Unfinished
  <2>4. activeTurnIndex(turns) = 0
    BY <2>2 DEF activeTurnIndex, FirstIn
  <2> QED
    BY <2>1, <2>2, <2>3, <2>4 DEF Queue!QueueInit
<1>2. QueueInv /\ [KernelNext]_kernelVars => QueueInv' /\ [Queue!QueueNext]_(Queue!queueVars)
  BY StepServes
<1> QED
  BY <1>1, <1>2, PTL DEF KernelSpec, ServesInOrder, Queue!QueueSpec

(***************************************************************************)
(* The event log and its reader.                                           *)
(***************************************************************************)
EventKind ==
    {"session.created", "session.closing", "session.completed", "session.cancelled",
     "input.accepted", "turn.queued", "turn.started",
     "turn.succeeded", "turn.failed", "turn.cancelled"}

LogEvent == [kind : EventKind, turn : Nat]

\* What an event's kind tells of its turn.
Tells(kind) ==
    CASE kind = "turn.queued"    -> "queued"
      [] kind = "turn.started"   -> "running"
      [] kind = "turn.succeeded" -> "succeeded"
      [] kind = "turn.failed"    -> "failed"
      [] kind = "turn.cancelled" -> "cancelled"
      [] OTHER                   -> "untold"

\* Event n of a log is its last one about turn i.
LastAbout(events, n, i) ==
    /\ n \in 1..Len(events)
    /\ events[n].turn = i
    /\ \A m \in 1..Len(events) : events[m].turn = i => m <= n

\* The log names accepted turns only, and the last event about a turn tells its state.
LogTells ==
    /\ eventLog \in Seq(LogEvent)
    /\ \A n \in 1..Len(eventLog) : eventLog[n].turn <= Len(turns)
    /\ \A i \in DOMAIN turns :
          \E n \in 1..Len(eventLog) :
              LastAbout(eventLog, n, i) /\ Tells(eventLog[n].kind) = turns[i]

\* The reader is inside the log and holds the stretch up to its cursor.
ReaderHolds ==
    /\ trimmed \in 0..Len(eventLog)
    /\ reader.cursor \in 0..Len(eventLog)
    /\ reader.from \in 0..Len(eventLog)
    /\ reader.cursor # 0 => reader.from <= reader.cursor
    /\ reader.read = SubSeq(eventLog, reader.from + 1, reader.cursor)

\* The events es of a step tell every turn that the step changes.
StepIsTold(es) ==
    /\ Len(turns) <= Len(turns')
    /\ \A m \in 1..Len(es) : es[m].turn <= Len(turns')
    /\ \A i \in DOMAIN turns' :
          \/ \E n \in 1..Len(es) : LastAbout(es, n, i) /\ Tells(es[n].kind) = turns'[i]
          \/ /\ i \in DOMAIN turns /\ turns'[i] = turns[i]
             /\ \A m \in 1..Len(es) : es[m].turn # i

\* Log c is log s followed by the events t.
Extends(s, t, c) ==
    /\ c \in Seq(LogEvent) /\ Len(c) = Len(s) + Len(t)
    /\ \A j \in 1..Len(s) : c[j] = s[j]
    /\ \A j \in (Len(s) + 1)..(Len(s) + Len(t)) : c[j] = t[j - Len(s)]

\* The told state of a turn is what the last event about it tells.
LEMMA ToldByTheLast ==
    ASSUME eventLog \in Seq(LogEvent), NEW i, NEW n, LastAbout(eventLog, n, i)
    PROVE  ToldState(i) = Tells(eventLog[n].kind)
<1> DEFINE about == {m \in 1..Len(eventLog) : eventLog[m].turn = i}
           last  == CHOOSE m \in about : \A l \in about : l <= m
<1>1. n \in about /\ \A l \in about : l <= n
  BY DEF LastAbout
<1>2. last \in about /\ \A l \in about : l <= last
  BY <1>1
<1>3. about \subseteq Nat
  OBVIOUS
<1>4. last = n
  <2> HIDE DEF about, last
  <2> QED
    BY <1>1, <1>2, <1>3
<1> QED
  BY <1>4 DEF ToldState, Tells

\* Appending leaves a stretch of the log as it was.
LEMMA StretchStays ==
    ASSUME NEW s \in Seq(LogEvent), NEW t \in Seq(LogEvent), NEW c, Extends(s, t, c),
           NEW from \in 0..Len(s), NEW to \in 0..Len(s)
    PROVE  SubSeq(c, from + 1, to) = SubSeq(s, from + 1, to)
<1>1. Len(s) \in Nat /\ \A j \in 1..Len(s) : c[j] = s[j]
  BY DEF Extends
<1>2. ASSUME NEW j \in (from + 1)..to PROVE c[j] = s[j]
  <2>1. j \in 1..Len(s)
    BY <1>1
  <2> QED
    BY <1>1, <2>1
<1> QED
  BY <1>2

\* When events t are appended to log s, the last of the new ones about turn i is the
\* last of all about it ...
LEMMA LastOfNew ==
    ASSUME NEW s \in Seq(LogEvent), NEW t \in Seq(LogEvent), NEW i,
           NEW c, Extends(s, t, c), NEW n \in 1..Len(t), LastAbout(t, n, i)
    PROVE  LastAbout(c, Len(s) + n, i)
<1>1. /\ Len(c) = Len(s) + Len(t) /\ Len(s) \in Nat /\ Len(t) \in Nat
      /\ \A j \in 1..Len(s) : c[j] = s[j]
      /\ \A j \in (Len(s) + 1)..(Len(s) + Len(t)) : c[j] = t[j - Len(s)]
  BY DEF Extends
<1>2. n \in 1..Len(t) /\ t[n].turn = i /\ \A m \in 1..Len(t) : t[m].turn = i => m <= n
  BY DEF LastAbout
<1>3. Len(s) + n \in (Len(s) + 1)..(Len(s) + Len(t)) /\ (Len(s) + n) - Len(s) = n
  BY <1>1, <1>2
<1>4. c[Len(s) + n] = t[n]
  BY <1>1, <1>3
<1>5. ASSUME NEW m \in 1..Len(c), c[m].turn = i
      PROVE  m <= Len(s) + n
  <2>1. CASE m <= Len(s)
    BY <1>1, <1>2, <2>1
  <2>2. CASE ~ (m <= Len(s))
    <3>1. c[m] = t[m - Len(s)] /\ m - Len(s) \in 1..Len(t)
      BY <1>1, <2>2
    <3>2. m - Len(s) <= n
      BY <1>2, <1>5, <3>1
    <3> QED
      BY <1>1, <1>2, <3>2
  <2> QED
    BY <2>1, <2>2
<1> QED
  BY <1>1, <1>2, <1>3, <1>4, <1>5 DEF LastAbout

\* ... and the last one there was stays the last when none of the new ones is about it.
LEMMA LastOfOld ==
    ASSUME NEW s \in Seq(LogEvent), NEW t \in Seq(LogEvent), NEW i,
           NEW c, Extends(s, t, c), NEW n \in 1..Len(s), LastAbout(s, n, i),
           \A m \in 1..Len(t) : t[m].turn # i
    PROVE  LastAbout(c, n, i) /\ c[n] = s[n]
<1>1. /\ Len(c) = Len(s) + Len(t) /\ Len(s) \in Nat /\ Len(t) \in Nat
      /\ \A j \in 1..Len(s) : c[j] = s[j]
      /\ \A j \in (Len(s) + 1)..(Len(s) + Len(t)) : c[j] = t[j - Len(s)]
  BY DEF Extends
<1>2. n \in 1..Len(s) /\ s[n].turn = i /\ \A m \in 1..Len(s) : s[m].turn = i => m <= n
  BY DEF LastAbout
<1>3. c[n] = s[n]
  BY <1>1, <1>2
<1>4. ASSUME NEW m \in 1..Len(c), c[m].turn = i
      PROVE  m <= n
  <2>1. CASE m <= Len(s)
    BY <1>1, <1>2, <1>4, <2>1
  <2>2. CASE ~ (m <= Len(s))
    <3>1. c[m] = t[m - Len(s)] /\ m - Len(s) \in 1..Len(t)
      BY <1>1, <2>2
    <3> QED
      BY <1>4, <3>1
  <2> QED
    BY <2>1, <2>2
<1> QED
  BY <1>1, <1>2, <1>3, <1>4 DEF LastAbout

\* An event's turn is a number.
LEMMA EventTurn == ASSUME NEW e \in LogEvent PROVE e.turn \in Nat
  BY DEF LogEvent

\* Appending events extends the log.
LEMMA AppendExtends ==
    ASSUME eventLog \in Seq(LogEvent), NEW es \in Seq(LogEvent), appendEvents(es)
    PROVE  Extends(eventLog, es, eventLog')
<1>1. /\ eventLog' \in Seq(LogEvent)
      /\ Len(eventLog') = Len(eventLog) + Len(es) /\ Len(eventLog) \in Nat /\ Len(es) \in Nat
      /\ \A j \in 1..Len(eventLog) + Len(es) :
            eventLog'[j] = IF j <= Len(eventLog) THEN eventLog[j] ELSE es[j - Len(eventLog)]
  BY ConcatProperties DEF appendEvents
<1>2. \A j \in 1..Len(eventLog) : eventLog'[j] = eventLog[j]
  BY <1>1
<1>3. \A j \in (Len(eventLog) + 1)..(Len(eventLog) + Len(es)) :
          eventLog'[j] = es[j - Len(eventLog)]
  BY <1>1
<1> QED
  BY <1>1, <1>2, <1>3 DEF Extends

\* The log stays true when the events of a step tell every turn that the step changes.
LEMMA AppendKeepsLog ==
    ASSUME LogTells, QueueInv, QueueInv', NEW es \in Seq(LogEvent), appendEvents(es),
           StepIsTold(es)
    PROVE  LogTells'
<1>1. Extends(eventLog, es, eventLog') /\ eventLog \in Seq(LogEvent)
  BY AppendExtends DEF LogTells
<1>2. /\ Len(turns) \in Nat /\ Len(turns') \in Nat /\ Len(turns) <= Len(turns')
      /\ Len(eventLog) \in Nat /\ Len(es) \in Nat /\ Len(eventLog') = Len(eventLog) + Len(es)
      /\ eventLog' \in Seq(LogEvent)
  BY <1>1 DEF QueueInv, Extends, StepIsTold
<1>3. ASSUME NEW n \in 1..Len(eventLog')
      PROVE  eventLog'[n].turn <= Len(turns')
  <2>1. CASE n <= Len(eventLog)
    <3>1. eventLog'[n] = eventLog[n] /\ n \in 1..Len(eventLog)
      BY <1>1, <1>2, <2>1 DEF Extends
    <3>2. eventLog[n].turn \in Nat
      BY <1>1, <3>1, EventTurn
    <3>3. eventLog[n].turn <= Len(turns)
      BY <3>1 DEF LogTells
    <3> QED
      BY <1>2, <3>1, <3>2, <3>3
  <2>2. CASE ~ (n <= Len(eventLog))
    <3>1. eventLog'[n] = es[n - Len(eventLog)] /\ n - Len(eventLog) \in 1..Len(es)
      BY <1>1, <1>2, <2>2 DEF Extends
    <3> QED
      BY <3>1 DEF StepIsTold
  <2> QED
    BY <2>1, <2>2
<1>5. ASSUME NEW i, NEW n \in 1..Len(es), LastAbout(es, n, i)
      PROVE  LastAbout(eventLog', Len(eventLog) + n, i) /\ eventLog'[Len(eventLog) + n] = es[n]
  <2>1. LastAbout(eventLog', Len(eventLog) + n, i)
    BY <1>1, <1>5, LastOfNew, Zenon
  <2>2. /\ Len(eventLog) + n \in (Len(eventLog) + 1)..(Len(eventLog) + Len(es))
        /\ (Len(eventLog) + n) - Len(eventLog) = n
    BY <1>2
  <2>3. eventLog'[Len(eventLog) + n] = es[n]
    BY <1>1, <2>2 DEF Extends
  <2> QED
    BY <2>1, <2>3
<1>6. ASSUME NEW i, NEW n \in 1..Len(eventLog), LastAbout(eventLog, n, i),
             \A m \in 1..Len(es) : es[m].turn # i
      PROVE  LastAbout(eventLog', n, i) /\ eventLog'[n] = eventLog[n]
  BY <1>1, <1>6, LastOfOld
<1>4. ASSUME NEW i \in DOMAIN turns'
      PROVE  \E n \in 1..Len(eventLog') :
                LastAbout(eventLog', n, i) /\ Tells(eventLog'[n].kind) = turns'[i]
  <2>1. CASE \E n \in 1..Len(es) : LastAbout(es, n, i) /\ Tells(es[n].kind) = turns'[i]
    <3>1. PICK n \in 1..Len(es) : LastAbout(es, n, i) /\ Tells(es[n].kind) = turns'[i]
      BY <2>1
    <3>2. LastAbout(eventLog', Len(eventLog) + n, i) /\ eventLog'[Len(eventLog) + n] = es[n]
      BY <1>5, <3>1
    <3>3. Len(eventLog) + n \in 1..Len(eventLog')
      BY <1>2
    <3> QED
      BY <3>1, <3>2, <3>3
  <2>2. CASE /\ i \in DOMAIN turns /\ turns'[i] = turns[i]
             /\ \A m \in 1..Len(es) : es[m].turn # i
    <3>1. PICK n \in 1..Len(eventLog) :
                LastAbout(eventLog, n, i) /\ Tells(eventLog[n].kind) = turns[i]
      BY <2>2 DEF LogTells
    <3>2. LastAbout(eventLog', n, i) /\ eventLog'[n] = eventLog[n]
      BY <1>6, <2>2, <3>1
    <3>3. n \in 1..Len(eventLog')
      BY <1>2
    <3> QED
      BY <2>2, <3>1, <3>2, <3>3
  <2> QED
    BY <2>1, <2>2 DEF StepIsTold
<1> QED
  BY <1>2, <1>3, <1>4 DEF LogTells

\* Appending leaves the reader what it holds.
LEMMA AppendKeepsReader ==
    ASSUME eventLog \in Seq(LogEvent), ReaderHolds, NEW es \in Seq(LogEvent),
           appendEvents(es), UNCHANGED <<trimmed, reader>>
    PROVE  ReaderHolds'
<1>1. Extends(eventLog, es, eventLog')
  BY AppendExtends
<1>2. Len(eventLog) \in Nat /\ Len(es) \in Nat /\ Len(eventLog') = Len(eventLog) + Len(es)
  BY <1>1 DEF Extends
<1>3. reader.from \in 0..Len(eventLog) /\ reader.cursor \in 0..Len(eventLog)
  BY DEF ReaderHolds
<1>4. SubSeq(eventLog', reader.from + 1, reader.cursor)
        = SubSeq(eventLog, reader.from + 1, reader.cursor)
  <2>1. \A from, to \in 0..Len(eventLog) :
            SubSeq(eventLog', from + 1, to) = SubSeq(eventLog, from + 1, to)
    BY <1>1, StretchStays
  <2> QED
    BY <1>3, <2>1, Zenon
<1>5. 0..Len(eventLog) \subseteq 0..Len(eventLog')
  BY <1>2
<1> QED
  BY <1>4, <1>5 DEF ReaderHolds

\* Log es is the two events a and b.
IsPair(es, a, b) == es \in {<<a, b>>, <<a>> \o <<b>>}

\* The turns s are the present ones with outcome o at turn i.
Ended(s, i, o) == s = [turns EXCEPT ![i] = o]

\* What is known of a log of one event, and of one of two.
OneEvent(es, a) ==
    es \in Seq(LogEvent) /\ Len(es) = 1 /\ es[1] = a /\ LastAbout(es, 1, a.turn)

TwoEvents(es, a, b) ==
    /\ es \in Seq(LogEvent) /\ Len(es) = 2 /\ es[1] = a /\ es[2] = b
    /\ LastAbout(es, 2, b.turn)
    /\ a.turn # b.turn => LastAbout(es, 1, a.turn)

\* What advance makes of each turn once turn i got outcome o, in the turns s: the
\* first queued turn runs when none does, and only turn i and that one changed.
Advanced(s, i, o) ==
    LET q == queuedTurnIndex(s)
        starts == activeTurnIndex(s) = 0 /\ q # 0
    IN  /\ q # 0 => q \in DOMAIN turns /\ q # i
        /\ \A j \in DOMAIN turns :
             Started(s)[j] = IF starts /\ j = q THEN "running"
                             ELSE IF j = i THEN o ELSE turns[j]

\* One or two events as a log.
LEMMA ShortLog ==
    ASSUME NEW a \in LogEvent, NEW b \in LogEvent, NEW es, IsPair(es, a, b)
    PROVE  <<a>> \o <<>> = <<a>> /\ OneEvent(<<a>>, a) /\ TwoEvents(es, a, b)
<1>1. /\ <<a>> \in Seq(LogEvent) /\ Len(<<a>>) = 1 /\ <<a>>[1] = a
      /\ <<b>> \in Seq(LogEvent) /\ Len(<<b>>) = 1 /\ <<b>>[1] = b
      /\ <<a, b>> \in Seq(LogEvent) /\ Len(<<a, b>>) = 2
      /\ <<a, b>>[1] = a /\ <<a, b>>[2] = b
  OBVIOUS
<1>2. <<a>> \o <<>> = <<a>>
  BY <1>1, ConcatEmptySeq
<1>3. /\ <<a>> \o <<b>> \in Seq(LogEvent) /\ Len(<<a>> \o <<b>>) = 2
      /\ (<<a>> \o <<b>>)[1] = a /\ (<<a>> \o <<b>>)[2] = b
  BY <1>1, ConcatProperties
<1>4. es \in Seq(LogEvent) /\ Len(es) = 2 /\ es[1] = a /\ es[2] = b
  BY <1>1, <1>3 DEF IsPair
<1>5. \A m \in 1..2 : m = 1 \/ m = 2
  OBVIOUS
<1> QED
  BY <1>1, <1>2, <1>4, <1>5 DEF LastAbout, OneEvent, TwoEvents

\* advance starts the first queued turn, and leaves the others alone.
LEMMA AdvanceTurns ==
    ASSUME QueueInv, NEW i \in DOMAIN turns, NEW o \in Terminal, NEW s, Ended(s, i, o)
    PROVE  Advanced(s, i, o)
<1> DEFINE q == queuedTurnIndex(s)
           starts == activeTurnIndex(s) = 0 /\ q # 0
<1>1. s \in Seq(TurnState) /\ DOMAIN s = DOMAIN turns
  BY DEF Ended, QueueInv, TurnState
<1>2. \A j \in DOMAIN s : s[j] = IF j = i THEN o ELSE turns[j]
  BY DEF Ended, QueueInv
<1>3. q # 0 => q \in DOMAIN s /\ s[q] = "queued"
  BY <1>1, FirstInFinds DEF queuedTurnIndex
<1>4. q # 0 => q # i
  BY <1>1, <1>2, <1>3 DEF Terminal
<1>5. Started(s) = IF starts THEN [s EXCEPT ![q] = "running"] ELSE s
  BY DEF Started
<1> HIDE DEF q
<1>6. ASSUME NEW j \in DOMAIN turns
      PROVE  Started(s)[j] = IF starts /\ j = q THEN "running" ELSE s[j]
  BY <1>1, <1>3, <1>5, <1>6
<1> QED
  BY <1>1, <1>2, <1>3, <1>4, <1>6 DEF q, Advanced

\* The events about the Session alone tell a step that leaves the turns alone.
LEMMA SessionEventsTell ==
    ASSUME QueueInv, UNCHANGED turns, NEW es \in Seq(LogEvent),
           \A m \in 1..Len(es) : es[m].turn = 0
    PROVE  StepIsTold(es)
<1>1. Len(turns) \in Nat /\ turns' = turns /\ \A i \in DOMAIN turns : i # 0
  BY DEF QueueInv
<1> QED
  BY <1>1 DEF StepIsTold

\* SendInput tells the turn it accepts.
LEMMA SendTells ==
    ASSUME QueueInv, NEW k \in Key, NEW c \in Content, SendInput(k, c)
    PROVE  \E es \in Seq(LogEvent) : appendEvents(es) /\ StepIsTold(es)
<1> DEFINE n == Len(turns) + 1
           idle == activeTurnIndex(turns) = 0
           a == Event("input.accepted", n)
           b == Event(IF idle THEN "turn.started" ELSE "turn.queued", n)
           es == <<a, b>>
<1>1. /\ turns' = Append(turns, IF idle THEN "running" ELSE "queued")
      /\ appendEvents(es)
  BY DEF SendInput
<1>2. n \in Nat /\ Len(turns) \in Nat /\ DOMAIN turns = 1..Len(turns)
  BY DEF QueueInv
<1>3. a \in LogEvent /\ b \in LogEvent /\ a.turn = n /\ b.turn = n
      /\ b.kind = IF idle THEN "turn.started" ELSE "turn.queued"
  <2> HIDE DEF n
  <2>1. a \in LogEvent /\ a.turn = n
    BY <1>2 DEF Event, LogEvent, EventKind
  <2>2. CASE idle
    <3>1. b = Event("turn.started", n)
      BY <2>2
    <3> HIDE DEF a, b
    <3>2. b \in LogEvent /\ b.turn = n /\ b.kind = "turn.started"
      BY <1>2, <3>1 DEF Event, LogEvent, EventKind
    <3> QED
      BY <2>1, <2>2, <3>2
  <2>3. CASE ~idle
    <3>1. b = Event("turn.queued", n)
      BY <2>3
    <3> HIDE DEF a, b
    <3>2. b \in LogEvent /\ b.turn = n /\ b.kind = "turn.queued"
      BY <1>2, <3>1 DEF Event, LogEvent, EventKind
    <3> QED
      BY <2>1, <2>3, <3>2
  <2> QED
    BY <2>2, <2>3
<1>4. /\ Len(turns') = n /\ DOMAIN turns' = 1..n
      /\ turns'[n] = IF idle THEN "running" ELSE "queued"
      /\ \A i \in DOMAIN turns : turns'[i] = turns[i]
  BY <1>1, <1>2 DEF QueueInv
<1>5. Tells(b.kind) = turns'[n]
  BY <1>3, <1>4 DEF Tells
<1> HIDE DEF a, b, idle
<1>6. /\ es \in Seq(LogEvent) /\ Len(es) = 2 /\ es[1] = a /\ es[2] = b
      /\ LastAbout(es, 2, n)
  <2>1. IsPair(es, a, b)
    BY DEF IsPair
  <2>2. TwoEvents(es, a, b)
    BY <1>3, <2>1, ShortLog, Zenon
  <2> QED
    BY <1>3, <2>2 DEF TwoEvents
<1> HIDE DEF es
<1>7. \A m \in 1..Len(es) : es[m].turn = n
  <2>1. \A m \in 1..2 : m = 1 \/ m = 2
    OBVIOUS
  <2> QED
    BY <1>3, <1>6, <2>1
<1>8. ASSUME NEW i \in DOMAIN turns'
      PROVE  \/ \E j \in 1..Len(es) : LastAbout(es, j, i) /\ Tells(es[j].kind) = turns'[i]
             \/ /\ i \in DOMAIN turns /\ turns'[i] = turns[i]
                /\ \A m \in 1..Len(es) : es[m].turn # i
  <2>1. CASE i = n
    <3>1. 2 \in 1..Len(es) /\ LastAbout(es, 2, i) /\ Tells(es[2].kind) = turns'[i]
      BY <1>5, <1>6, <2>1
    <3> QED
      BY <3>1
  <2>2. CASE i # n
    BY <1>2, <1>4, <1>7, <2>2
  <2> QED
    BY <2>1, <2>2
<1>9. StepIsTold(es)
  BY <1>2, <1>4, <1>7, <1>8 DEF StepIsTold
<1> QED
  BY <1>1, <1>6, <1>9

\* advance tells the outcome of turn i and the turn that starts after it.
LEMMA AdvanceTells ==
    ASSUME QueueInv, QueueInv', NEW i \in DOMAIN turns, NEW o \in Terminal,
           NEW kind \in EventKind, Tells(kind) = o,
           NEW s, Ended(s, i, o), advance(s, <<Event(kind, i)>>)
    PROVE  \E es \in Seq(LogEvent) : appendEvents(es) /\ StepIsTold(es)
<1> DEFINE q == queuedTurnIndex(s)
           idle == activeTurnIndex(s) = 0
           ends == idle /\ q = 0 /\ phase = "closing"
           a == Event(kind, i)
           b == Event("turn.started", q)
           d == SessionEvent("session.completed")
<1>1. /\ turns' = Started(s)
      /\ appendEvents(<<a>> \o (IF idle /\ q # 0 THEN <<b>> ELSE IF ends THEN <<d>> ELSE <<>>))
  BY DEF advance
<1>2. /\ q # 0 => q \in DOMAIN turns /\ q # i
      /\ \A j \in DOMAIN turns :
            turns'[j] = IF (idle /\ q # 0) /\ j = q THEN "running" ELSE IF j = i THEN o ELSE turns[j]
  <2>1. /\ q # 0 => q \in DOMAIN turns /\ q # i
        /\ \A j \in DOMAIN turns :
              Started(s)[j] = IF (idle /\ q # 0) /\ j = q THEN "running"
                              ELSE IF j = i THEN o ELSE turns[j]
    <3>1. Advanced(s, i, o)
      BY AdvanceTurns, Zenon
    <3> QED
      BY <3>1 DEF Advanced
  <2> HIDE DEF q, idle
  <2> QED
    BY <1>1, <2>1, Zenon
<1>3. /\ Len(turns) \in Nat /\ DOMAIN turns = 1..Len(turns)
      /\ DOMAIN turns' = DOMAIN turns /\ Len(turns') = Len(turns)
  <2>1. s \in Seq(TurnState) /\ Len(s) = Len(turns)
    BY DEF Ended, QueueInv, TurnState
  <2>2. Len(turns') = Len(turns)
    <3>1. Started(s) = s \/ Started(s) = [s EXCEPT ![q] = "running"]
      BY DEF Started
    <3>2. Len([s EXCEPT ![q] = "running"]) = Len(s)
      BY <2>1
    <3> QED
      BY <1>1, <2>1, <3>1, <3>2
  <2> QED
    BY <2>2 DEF QueueInv
<1> HIDE DEF q, idle
<1>4. a \in LogEvent /\ a.turn = i /\ a.kind = kind
  BY <1>3 DEF Event, LogEvent
<1>5. q # 0 => b \in LogEvent /\ b.turn = q /\ b.kind = "turn.started"
  BY <1>2, <1>3 DEF Event, LogEvent, EventKind
<1>6. d \in LogEvent /\ d.turn = 0
  BY DEF SessionEvent, Event, LogEvent, EventKind
<1> HIDE DEF a, b, d
<1>7. CASE idle /\ q # 0
  <2> DEFINE es == <<a>> \o <<b>>
  <2>1. IsPair(es, a, b) /\ a.turn # b.turn
    BY <1>2, <1>4, <1>5, <1>7 DEF IsPair
  <2>2. /\ es \in Seq(LogEvent) /\ Len(es) = 2 /\ es[1] = a /\ es[2] = b
        /\ LastAbout(es, 2, b.turn) /\ LastAbout(es, 1, a.turn)
    <3>1. a \in LogEvent /\ b \in LogEvent
      BY <1>4, <1>5, <1>7
    <3> HIDE DEF es
    <3>2. TwoEvents(es, a, b)
      BY <2>1, <3>1, ShortLog, Zenon
    <3> QED
      BY <2>1, <3>2 DEF TwoEvents
  <2>3. appendEvents(es)
    BY <1>1, <1>7
  <2> HIDE DEF es
  <2>4. \A m \in 1..Len(es) : es[m].turn \in {i, q}
    <3>1. \A m \in 1..2 : m = 1 \/ m = 2
      OBVIOUS
    <3> QED
      BY <1>4, <1>5, <1>7, <2>2, <3>1
  <2>5. \A m \in 1..Len(es) : es[m].turn <= Len(turns')
    BY <1>2, <1>3, <1>7, <2>4
  <2>6. 1 \in 1..Len(es) /\ LastAbout(es, 1, i) /\ Tells(es[1].kind) = turns'[i]
    BY <1>2, <1>4, <1>7, <2>2
  <2>7. 2 \in 1..Len(es) /\ LastAbout(es, 2, q) /\ Tells(es[2].kind) = turns'[q]
    BY <1>2, <1>5, <1>7, <2>2 DEF Tells
  <2>8. \A j \in DOMAIN turns' : j \notin {i, q} =>
            j \in DOMAIN turns /\ turns'[j] = turns[j] /\ \A m \in 1..Len(es) : es[m].turn # j
    BY <1>2, <1>3, <2>4
  <2>9. StepIsTold(es)
    BY <1>3, <2>5, <2>6, <2>7, <2>8 DEF StepIsTold
  <2> QED
    BY <2>2, <2>3, <2>9
<1>8. CASE ~ (idle /\ q # 0)
  <2>1. PICK es \in Seq(LogEvent) :
            /\ appendEvents(es) /\ 1 \in 1..Len(es) /\ es[1] = a /\ LastAbout(es, 1, i)
            /\ \A m \in 1..Len(es) : es[m].turn \in {i, 0}
    <3>1. CASE ends
      <4> DEFINE es == <<a>> \o <<d>>
      <4>1. IsPair(es, a, d) /\ a.turn # d.turn
        BY <1>3, <1>4, <1>6 DEF IsPair
      <4>2. /\ es \in Seq(LogEvent) /\ Len(es) = 2 /\ es[1] = a /\ es[2] = d
            /\ LastAbout(es, 1, a.turn)
        <5>1. TwoEvents(es, a, d)
          BY <1>4, <1>6, <4>1, ShortLog, Zenon
        <5> QED
          BY <4>1, <5>1 DEF TwoEvents
      <4>3. appendEvents(es)
        BY <1>1, <1>8, <3>1
      <4> HIDE DEF es
      <4>4. \A m \in 1..2 : m = 1 \/ m = 2
        OBVIOUS
      <4>5. 1 \in 1..Len(es) /\ \A m \in 1..Len(es) : es[m].turn \in {i, 0}
        BY <1>4, <1>6, <4>2, <4>4
      <4>6. LastAbout(es, 1, i)
        BY <1>4, <4>2
      <4> QED
        BY <4>2, <4>3, <4>5, <4>6
    <3>2. CASE ~ends
      <4>1. appendEvents(<<a>> \o <<>>)
        BY <1>1, <1>8, <3>2
      <4>2. IsPair(<<a, a>>, a, a)
        BY DEF IsPair
      <4>3. <<a>> \o <<>> = <<a>> /\ OneEvent(<<a>>, a)
        BY <1>4, <4>2, ShortLog, Zenon
      <4>4. PICK es : es = <<a>> /\ appendEvents(es) /\ OneEvent(es, a)
        BY <4>1, <4>3
      <4>5. /\ es \in Seq(LogEvent) /\ Len(es) = 1 /\ es[1] = a
            /\ appendEvents(es) /\ LastAbout(es, 1, a.turn)
        BY <4>4 DEF OneEvent
      <4>6. 1 \in 1..Len(es) /\ \A m \in 1..Len(es) : es[m] = a
        BY <4>5
      <4> QED
        BY <1>4, <4>5, <4>6
    <3> QED
      BY <3>1, <3>2
  <2>2. \A m \in 1..Len(es) : es[m].turn <= Len(turns')
    BY <1>3, <2>1
  <2>3. Tells(es[1].kind) = turns'[i]
    BY <1>2, <1>4, <1>8, <2>1
  <2>4. \A j \in DOMAIN turns' : j # i =>
            j \in DOMAIN turns /\ turns'[j] = turns[j] /\ \A m \in 1..Len(es) : es[m].turn # j
    BY <1>2, <1>3, <1>8, <2>1
  <2>5. StepIsTold(es)
    BY <1>3, <2>1, <2>2, <2>3, <2>4 DEF StepIsTold
  <2> QED
    BY <2>1, <2>5
<1> QED
  BY <1>7, <1>8

\* Two stretches of a log that meet are one stretch, and one that ends before the
\* first event adds nothing to the next.
LEMMA StretchesMeet ==
    ASSUME NEW s \in Seq(LogEvent)
    PROVE  /\ \A from, start, to \in 0..Len(s) :
                SubSeq(s, from + 1, 0) \o SubSeq(s, start + 1, to) = SubSeq(s, start + 1, to)
           /\ \A from, mid, to \in 0..Len(s) :
                from <= mid /\ mid <= to =>
                SubSeq(s, from + 1, mid) \o SubSeq(s, mid + 1, to) = SubSeq(s, from + 1, to)
<1>1. ASSUME NEW from \in 0..Len(s), NEW start \in 0..Len(s), NEW to \in 0..Len(s)
      PROVE  SubSeq(s, from + 1, 0) \o SubSeq(s, start + 1, to) = SubSeq(s, start + 1, to)
  <2>1. SubSeq(s, from + 1, 0) = <<>>
    BY SubSeqEmpty
  <2>2. SubSeq(s, start + 1, to) \in Seq(LogEvent)
    <3>1. \A j \in start + 1..to : s[j] \in LogEvent
      OBVIOUS
    <3> QED
      BY <3>1, SubSeqProperties
  <2>3. <<>> \o SubSeq(s, start + 1, to) = SubSeq(s, start + 1, to)
    BY <2>2, ConcatEmptySeq
  <2> QED
    BY <2>1, <2>3
<1>2. ASSUME NEW from \in 0..Len(s), NEW mid \in 0..Len(s), NEW to \in 0..Len(s),
             from <= mid, mid <= to
      PROVE  SubSeq(s, from + 1, mid) \o SubSeq(s, mid + 1, to) = SubSeq(s, from + 1, to)
  <2>1. from + 1 \in 1..Len(s) + 1 /\ mid \in (from + 1) - 1..Len(s) /\ to \in mid..Len(s)
    BY <1>2
  <2> QED
    BY <2>1, ConcatAdjacentSubSeq
<1> QED
  BY <1>1, <1>2, Zenon

\* A page, or the news of a gap, leaves the reader with a stretch of the log.
LEMMA EventsKeepReader ==
    ASSUME eventLog \in Seq(LogEvent), ReaderHolds, NEW limit \in PageLimits, Events(limit)
    PROVE  ReaderHolds'
<1> DEFINE n     == Len(eventLog)
           start == IF reader.cursor = 0 THEN trimmed ELSE reader.cursor
           end   == IF start + limit > n THEN n ELSE start + limit
<1>1. /\ n \in Nat /\ limit \in Nat \ {0} /\ start \in 0..n /\ end \in 0..n
      /\ start <= end
  BY KernelAssumption DEF ReaderHolds
<1>2. UNCHANGED <<eventLog, trimmed>>
  BY DEF Events
<1>3. /\ \A from, mid, to \in 0..n :
           SubSeq(eventLog, from + 1, 0) \o SubSeq(eventLog, mid + 1, to) = SubSeq(eventLog, mid + 1, to)
      /\ \A from, mid, to \in 0..n :
           from <= mid /\ mid <= to =>
           SubSeq(eventLog, from + 1, mid) \o SubSeq(eventLog, mid + 1, to) = SubSeq(eventLog, from + 1, to)
  BY StretchesMeet, Zenon
<1>4. CASE ~ Found(reader.cursor)
  <2>1. reader' = [cursor |-> n, from |-> n, read |-> <<>>]
    BY <1>4 DEF Events
  <2>2. SubSeq(eventLog, n + 1, n) = <<>>
    BY <1>1, SubSeqEmpty
  <2> QED
    BY <1>1, <1>2, <2>1, <2>2 DEF ReaderHolds
<1>5. CASE Found(reader.cursor) /\ end = start
  <2>1. reader' = reader
    BY <1>5 DEF Events, Page
  <2> QED
    BY <1>2, <2>1 DEF ReaderHolds
<1>6. CASE Found(reader.cursor) /\ end # start
  <2>1. reader' = [cursor |-> end,
                   from   |-> IF reader.cursor = 0 THEN start ELSE reader.from,
                   read   |-> reader.read \o SubSeq(eventLog, start + 1, end)]
    BY <1>6 DEF Events, Page
  <2>2. CASE reader.cursor = 0
    <3>1. reader.read = SubSeq(eventLog, reader.from + 1, 0) /\ reader.from \in 0..n
      BY <2>2 DEF ReaderHolds
    <3> HIDE DEF start, end
    <3>2. reader.read \o SubSeq(eventLog, start + 1, end) = SubSeq(eventLog, start + 1, end)
      <4>1. SubSeq(eventLog, reader.from + 1, 0) \o SubSeq(eventLog, start + 1, end)
              = SubSeq(eventLog, start + 1, end)
        BY <1>1, <1>3, <3>1, Zenon
      <4> QED
        BY <3>1, <4>1
    <3> QED
      BY <1>1, <1>2, <2>1, <2>2, <3>2 DEF ReaderHolds
  <2>3. CASE reader.cursor # 0
    <3>1. /\ reader.read = SubSeq(eventLog, reader.from + 1, start) /\ reader.from \in 0..n
          /\ reader.from <= start
      BY <2>3 DEF ReaderHolds
    <3> HIDE DEF start, end
    <3>2. reader.read \o SubSeq(eventLog, start + 1, end) = SubSeq(eventLog, reader.from + 1, end)
      <4>1. SubSeq(eventLog, reader.from + 1, start) \o SubSeq(eventLog, start + 1, end)
              = SubSeq(eventLog, reader.from + 1, end)
        BY <1>1, <1>3, <3>1, Zenon
      <4> QED
        BY <3>1, <4>1
    <3>3. reader.from <= end
      BY <1>1, <3>1
    <3> QED
      BY <1>1, <1>2, <2>1, <2>3, <3>1, <3>2, <3>3 DEF ReaderHolds
  <2> QED
    BY <2>2, <2>3
<1> QED
  BY <1>4, <1>5, <1>6

\* CompactEvents never trims past the log, and leaves the reader what it holds.
LEMMA CompactKeepsReader ==
    ASSUME eventLog \in Seq(LogEvent), ReaderHolds, NEW keep \in PageLimits, CompactEvents(keep)
    PROVE  ReaderHolds'
<1>1. Len(eventLog) \in Nat /\ keep \in Nat /\ trimmed \in Nat
  BY KernelAssumption DEF ReaderHolds
<1>2. /\ trimmed' = Len(eventLog) - keep /\ Len(eventLog) - trimmed > keep
      /\ UNCHANGED <<eventLog, reader>>
  BY DEF CompactEvents
<1>3. trimmed' \in 0..Len(eventLog)
  BY <1>1, <1>2
<1> QED
  BY <1>2, <1>3 DEF ReaderHolds

\* Every step keeps the log true and the reader with a stretch of it.
LEMMA StepTells ==
    ASSUME LogTells, ReaderHolds, QueueInv, QueueInv', [KernelNext]_kernelVars
    PROVE  LogTells' /\ ReaderHolds'
<1>0. eventLog \in Seq(LogEvent)
  BY DEF LogTells
<1>1. ASSUME \E es \in Seq(LogEvent) : appendEvents(es) /\ StepIsTold(es),
             UNCHANGED <<trimmed, reader>>
      PROVE  LogTells' /\ ReaderHolds'
  <2>1. PICK es \in Seq(LogEvent) : appendEvents(es) /\ StepIsTold(es)
    BY <1>1
  <2>2. LogTells'
    BY <2>1, AppendKeepsLog
  <2>3. ReaderHolds'
    BY <1>0, <1>1, <2>1, AppendKeepsReader
  <2> QED
    BY <2>2, <2>3
<1>2. ASSUME UNCHANGED <<turns, eventLog>> PROVE LogTells'
  BY <1>2 DEF LogTells, LastAbout
<1>3. ASSUME UNCHANGED <<turns, eventLog, trimmed, reader>> PROVE LogTells' /\ ReaderHolds'
  BY <1>2, <1>3 DEF ReaderHolds
<1>4. ASSUME NEW a \in LogEvent, a.turn = 0, NEW es, es = <<a>>,
             appendEvents(es), UNCHANGED <<turns, trimmed, reader>>
      PROVE  LogTells' /\ ReaderHolds'
  <2>1. es \in Seq(LogEvent) /\ \A m \in 1..Len(es) : es[m].turn = 0
    BY <1>4
  <2>2. StepIsTold(es)
    BY <1>4, <2>1, SessionEventsTell
  <2> QED
    BY <1>1, <1>4, <2>1, <2>2
<1>5. ASSUME NEW k \in Key, NEW r \in 1..MaxRevisions, CreateSession(k, r)
      PROVE  LogTells' /\ ReaderHolds'
  <2> DEFINE a == SessionEvent("session.created")
  <2>1. a \in LogEvent /\ a.turn = 0
    BY DEF SessionEvent, Event, LogEvent, EventKind
  <2>2. appendEvents(<<a>>) /\ UNCHANGED <<turns, trimmed, reader>>
    BY <1>5 DEF CreateSession
  <2> HIDE DEF a
  <2> QED
    BY <1>4, <2>1, <2>2
<1>6. ASSUME NEW k \in Key, CancelSession(k)
      PROVE  LogTells' /\ ReaderHolds'
  <2> DEFINE a == SessionEvent("session.cancelled")
  <2>1. a \in LogEvent /\ a.turn = 0
    BY DEF SessionEvent, Event, LogEvent, EventKind
  <2>2. appendEvents(<<a>>) /\ UNCHANGED <<turns, trimmed, reader>>
    BY <1>6 DEF CancelSession
  <2> HIDE DEF a
  <2> QED
    BY <1>4, <2>1, <2>2
<1>7. ASSUME NEW k \in Key, CloseSession(k)
      PROVE  LogTells' /\ ReaderHolds'
  <2> DEFINE a == SessionEvent("session.closing")
             b == SessionEvent("session.completed")
  <2>1. a \in LogEvent /\ a.turn = 0 /\ b \in LogEvent /\ b.turn = 0
    BY DEF SessionEvent, Event, LogEvent, EventKind
  <2>2. /\ appendEvents(<<a>> \o <<b>>) \/ appendEvents(<<a>> \o <<>>)
        /\ UNCHANGED <<turns, trimmed, reader>>
    BY <1>7 DEF CloseSession
  <2> HIDE DEF a, b
  <2>3. PICK es : es = <<a>> \o <<b>>
    OBVIOUS
  <2>4. IsPair(es, a, b)
    BY <2>3 DEF IsPair
  <2>5. <<a>> \o <<>> = <<a>> /\ TwoEvents(es, a, b)
    BY <2>1, <2>4, ShortLog, Zenon
  <2>6. CASE appendEvents(es)
    <3>1. es \in Seq(LogEvent) /\ Len(es) = 2 /\ es[1] = a /\ es[2] = b
      BY <2>5 DEF TwoEvents
    <3>2. \A m \in 1..2 : m = 1 \/ m = 2
      OBVIOUS
    <3>3. \A m \in 1..Len(es) : es[m].turn = 0
      BY <2>1, <3>1, <3>2
    <3>4. StepIsTold(es)
      BY <2>2, <3>1, <3>3, SessionEventsTell
    <3> QED
      BY <1>1, <2>2, <2>6, <3>1, <3>4
  <2>7. CASE appendEvents(<<a>>)
    BY <1>4, <2>1, <2>2, <2>7
  <2> QED
    BY <2>2, <2>3, <2>5, <2>6, <2>7
<1>8. ASSUME NEW k \in Key, NEW c \in Content, SendInput(k, c)
      PROVE  LogTells' /\ ReaderHolds'
  <2>1. UNCHANGED <<trimmed, reader>>
    BY <1>8 DEF SendInput
  <2> QED
    BY <1>1, <1>8, <2>1, SendTells
<1>9. ASSUME NEW i \in DOMAIN turns, NEW o \in Terminal, NEW kind \in EventKind, Tells(kind) = o,
             advance([turns EXCEPT ![i] = o], <<Event(kind, i)>>), UNCHANGED <<trimmed, reader>>
      PROVE  LogTells' /\ ReaderHolds'
  <2>1. PICK s : Ended(s, i, o) /\ advance(s, <<Event(kind, i)>>)
    BY <1>9 DEF Ended
  <2>2. \E es \in Seq(LogEvent) : appendEvents(es) /\ StepIsTold(es)
    BY <1>9, <2>1, AdvanceTells, Zenon
  <2> QED
    BY <1>1, <1>9, <2>2
<1>10. ASSUME NEW i \in 1..MaxTurns, NEW o \in {"succeeded", "failed"}, CompleteTurn(i, o)
       PROVE  LogTells' /\ ReaderHolds'
  <2> DEFINE kind == IF o = "failed" THEN "turn.failed" ELSE "turn.succeeded"
  <2>1. kind \in EventKind /\ Tells(kind) = o /\ o \in Terminal
    BY DEF EventKind, Tells, Terminal
  <2>2. /\ i \in DOMAIN turns /\ UNCHANGED <<trimmed, reader>>
        /\ advance([turns EXCEPT ![i] = o], <<Event(kind, i)>>)
    BY <1>10 DEF CompleteTurn
  <2> HIDE DEF kind
  <2> QED
    BY <1>9, <2>1, <2>2, Zenon
<1>11. ASSUME NEW k \in Key, NEW i \in 1..MaxTurns, CancelTurn(k, i)
       PROVE  LogTells' /\ ReaderHolds'
  <2>1. "turn.cancelled" \in EventKind /\ Tells("turn.cancelled") = "cancelled" /\ "cancelled" \in Terminal
    BY DEF EventKind, Tells, Terminal
  <2>2. /\ i \in DOMAIN turns /\ UNCHANGED <<trimmed, reader>>
        /\ advance([turns EXCEPT ![i] = "cancelled"], <<Event("turn.cancelled", i)>>)
    BY <1>11 DEF CancelTurn
  <2> QED
    BY <1>9, <2>1, <2>2, Zenon
<1>12. ASSUME NEW k \in Key, NEW c \in Content, CreateAgent(k, c) \/ ReviseAgent(k, c)
       PROVE  LogTells' /\ ReaderHolds'
  BY <1>3, <1>12 DEF CreateAgent, ReviseAgent
<1>13. ASSUME NEW n \in PageLimits, CompactEvents(n) \/ Events(n)
       PROVE  LogTells' /\ ReaderHolds'
  <2>1. UNCHANGED <<turns, eventLog>>
    BY <1>13 DEF CompactEvents, Events
  <2> QED
    BY <1>0, <1>2, <1>13, <2>1, CompactKeepsReader, EventsKeepReader
<1>14. CASE UNCHANGED kernelVars
  BY <1>3, <1>14 DEF kernelVars
<1>15. CASE KernelNext
  BY <1>5, <1>6, <1>7, <1>8, <1>10, <1>11, <1>12, <1>13, <1>15 DEF KernelNext
<1> QED
  BY <1>14, <1>15

(***************************************************************************)
(* The keys of the inputs.                                                 *)
(***************************************************************************)
\* What SendInput records under its key.
InputRecord(c, i) == [command |-> "send_input", digest |-> c, turn |-> i]

\* Every input is recorded under a key, no key is recorded for an input that was not
\* accepted, and no two for the same one.
KeysStand ==
    /\ inputs \in Seq(Content)
    /\ idempotency = [k \in Key |-> idempotency[k]]
    /\ \A i \in 1..Len(inputs) : \E k \in Key : idempotency[k] = InputRecord(inputs[i], i)
    /\ \A k \in Key : idempotency[k].command = "send_input" => idempotency[k].turn \in 1..Len(inputs)
    /\ \A k, other \in Key :
          /\ idempotency[k].command = "send_input" /\ idempotency[other].command = "send_input"
          /\ idempotency[k].turn = idempotency[other].turn
          => k = other

\* What Remember leaves under each key.
LEMMA Remembered ==
    ASSUME idempotency = [k \in Key |-> idempotency[k]], NEW k \in Key, NEW r, Remember(k, r)
    PROVE  /\ idempotency' = [o \in Key |-> idempotency'[o]]
           /\ idempotency'[k] = r
           /\ \A o \in Key : o # k => idempotency'[o] = idempotency[o]
<1>1. idempotency' = [idempotency EXCEPT ![k] = r]
  BY DEF Remember
<1> QED
  BY <1>1

\* A fresh key was not recorded for an input.
LEMMA FreshIsNoInput ==
    ASSUME NEW k \in Key, Fresh(k)
    PROVE  /\ idempotency[k].command # "send_input"
           /\ \A c, i : idempotency[k] # InputRecord(c, i)
<1>1. idempotency[k] = Unrecorded /\ Unrecorded.command # "send_input"
  BY DEF Fresh, Unrecorded
<1>2. \A c, i : InputRecord(c, i).command = "send_input"
  BY DEF InputRecord
<1> QED
  BY <1>1, <1>2

\* A key recorded for another mutation leaves the keys of the inputs as they were.
LEMMA OtherKeyStands ==
    ASSUME KeysStand, NEW k \in Key, Fresh(k), NEW r, r.command # "send_input",
           Remember(k, r), UNCHANGED inputs
    PROVE  KeysStand'
<1>1. /\ idempotency' = [o \in Key |-> idempotency'[o]]
      /\ idempotency'[k] = r
      /\ \A o \in Key : o # k => idempotency'[o] = idempotency[o]
  BY Remembered DEF KeysStand
<1>2. /\ idempotency[k].command # "send_input"
      /\ \A c, i : idempotency[k] # InputRecord(c, i)
  BY FreshIsNoInput
<1>3. \A i \in 1..Len(inputs) : \E o \in Key : idempotency'[o] = InputRecord(inputs[i], i)
  BY <1>1, <1>2 DEF KeysStand
<1>4. \A o \in Key : idempotency'[o].command = "send_input" => o # k /\ idempotency'[o] = idempotency[o]
  BY <1>1
<1> QED
  BY <1>1, <1>3, <1>4 DEF KeysStand

\* SendInput records its key for the input it accepts.
LEMMA SendKeyStands ==
    ASSUME KeysStand, Len(inputs) = Len(turns), NEW k \in Key, NEW c \in Content, SendInput(k, c)
    PROVE  KeysStand' /\ Len(inputs') = Len(inputs) + 1
<1> DEFINE n == Len(inputs) + 1
           r == InputRecord(c, n)
<1>1. Fresh(k) /\ inputs' = Append(inputs, c) /\ Remember(k, r)
  BY DEF SendInput, InputRecord
<1>2. /\ inputs \in Seq(Content) /\ Len(inputs) \in Nat
      /\ inputs' \in Seq(Content) /\ Len(inputs') = n /\ inputs'[n] = c
      /\ \A i \in 1..Len(inputs) : inputs'[i] = inputs[i]
  BY <1>1 DEF KeysStand
<1>3. r.command = "send_input" /\ r.turn = n
  BY DEF InputRecord
<1> HIDE DEF r
<1>4. /\ idempotency' = [o \in Key |-> idempotency'[o]]
      /\ idempotency'[k] = r
      /\ \A o \in Key : o # k => idempotency'[o] = idempotency[o]
  BY <1>1, Remembered DEF KeysStand
<1>5. /\ idempotency[k].command # "send_input"
      /\ \A d, i : idempotency[k] # InputRecord(d, i)
  BY <1>1, FreshIsNoInput
<1>6. \A i \in 1..Len(inputs) : \E o \in Key : idempotency'[o] = InputRecord(inputs[i], i)
  BY <1>4, <1>5 DEF KeysStand
<1>7. \A i \in 1..Len(inputs') : \E o \in Key : idempotency'[o] = InputRecord(inputs'[i], i)
  <2>1. \A i \in 1..Len(inputs') : i \in 1..Len(inputs) \/ i = n
    BY <1>2
  <2>2. idempotency'[k] = InputRecord(inputs'[n], n)
    BY <1>2, <1>4 DEF r
  <2> QED
    BY <1>2, <1>6, <2>1, <2>2
<1>8. \A o \in Key : idempotency'[o].command = "send_input" =>
        \/ o = k /\ idempotency'[o].turn = n
        \/ /\ o # k /\ idempotency'[o] = idempotency[o]
           /\ idempotency'[o].turn \in 1..Len(inputs)
  BY <1>3, <1>4 DEF KeysStand
<1>9. n \notin 1..Len(inputs) /\ 1..Len(inputs) \subseteq 1..Len(inputs') /\ n \in 1..Len(inputs')
  BY <1>2
<1> HIDE DEF n
<1>10. \A o \in Key : idempotency'[o].command = "send_input" => idempotency'[o].turn \in 1..Len(inputs')
  BY <1>8, <1>9
<1>11. \A o, p \in Key :
          /\ idempotency'[o].command = "send_input" /\ idempotency'[p].command = "send_input"
          /\ idempotency'[o].turn = idempotency'[p].turn
          => o = p
  BY <1>8, <1>9 DEF KeysStand
<1> QED
  BY <1>2, <1>4, <1>7, <1>10, <1>11 DEF KeysStand, n

\* Every step keeps the keys of the inputs, and one input for each turn.
LEMMA StepKeepsKeys ==
    ASSUME KeysStand, Len(inputs) = Len(turns), QueueInv, [KernelNext]_kernelVars
    PROVE  KeysStand' /\ Len(inputs') = Len(turns')
<1>1. ASSUME UNCHANGED <<inputs, idempotency>> PROVE KeysStand'
  BY <1>1 DEF KeysStand
<1>2. ASSUME NEW k \in Key, NEW r, Fresh(k), r.command # "send_input", Remember(k, r),
             UNCHANGED inputs
      PROVE  KeysStand'
  BY <1>2, OtherKeyStands
<1>3. ASSUME NEW k \in Key, NEW c \in Content, SendInput(k, c)
      PROVE  KeysStand' /\ Len(inputs') = Len(turns')
  BY <1>3, SendKeyStands, SendKeepsLine
<1>4. ASSUME NEW k \in Key, NEW c \in Content, CreateAgent(k, c) \/ ReviseAgent(k, c)
      PROVE  KeysStand' /\ Len(inputs') = Len(turns')
  <2>1. UNCHANGED <<inputs, turns>>
    BY <1>4 DEF CreateAgent, ReviseAgent
  <2>2. \E r : Fresh(k) /\ r.command # "send_input" /\ Remember(k, r)
    BY <1>4 DEF CreateAgent, ReviseAgent
  <2> QED
    BY <1>2, <2>1, <2>2
<1>5. ASSUME NEW k \in Key, NEW r \in 1..MaxRevisions, CreateSession(k, r)
      PROVE  KeysStand' /\ Len(inputs') = Len(turns')
  <2>1. UNCHANGED <<inputs, turns>>
    BY <1>5 DEF CreateSession
  <2>2. \E record : Fresh(k) /\ record.command # "send_input" /\ Remember(k, record)
    BY <1>5 DEF CreateSession
  <2> QED
    BY <1>2, <2>1, <2>2
<1>6. ASSUME NEW k \in Key, CloseSession(k) \/ CancelSession(k)
      PROVE  KeysStand' /\ Len(inputs') = Len(turns')
  <2>1. UNCHANGED <<inputs, turns>>
    BY <1>6 DEF CloseSession, CancelSession
  <2>2. \E r : Fresh(k) /\ r.command # "send_input" /\ Remember(k, r)
    BY <1>6 DEF CloseSession, CancelSession
  <2> QED
    BY <1>2, <2>1, <2>2
<1>7. ASSUME NEW k \in Key, NEW i \in 1..MaxTurns, CancelTurn(k, i)
      PROVE  KeysStand' /\ Len(inputs') = Len(turns')
  <2>1. /\ i \in DOMAIN turns /\ turns[i] \notin Terminal /\ "cancelled" \in Terminal
        /\ advance([turns EXCEPT ![i] = "cancelled"], <<Event("turn.cancelled", i)>>)
        /\ UNCHANGED inputs
    BY <1>7 DEF CancelTurn, Terminal
  <2>2. Len(turns') = Len(turns)
    BY <2>1, EndKeepsLine
  <2>3. \E r : Fresh(k) /\ r.command # "send_input" /\ Remember(k, r)
    BY <1>7 DEF CancelTurn
  <2> QED
    BY <1>2, <2>1, <2>2, <2>3
<1>8. ASSUME NEW i \in 1..MaxTurns, NEW o \in {"succeeded", "failed"}, CompleteTurn(i, o)
      PROVE  KeysStand' /\ Len(inputs') = Len(turns')
  <2>1. PICK es : /\ i \in DOMAIN turns /\ turns[i] \notin Terminal /\ o \in Terminal
                  /\ advance([turns EXCEPT ![i] = o], es)
                  /\ UNCHANGED <<inputs, idempotency>>
    BY <1>8 DEF CompleteTurn, Terminal
  <2>2. Len(turns') = Len(turns)
    BY <2>1, EndKeepsLine
  <2> QED
    BY <1>1, <2>1, <2>2
<1>9. ASSUME NEW n \in PageLimits, CompactEvents(n) \/ Events(n)
      PROVE  KeysStand' /\ Len(inputs') = Len(turns')
  BY <1>1, <1>9 DEF CompactEvents, Events
<1>10. CASE UNCHANGED kernelVars
  BY <1>1, <1>10 DEF kernelVars
<1>11. CASE KernelNext
  BY <1>3, <1>4, <1>5, <1>6, <1>7, <1>8, <1>9, <1>11 DEF KernelNext
<1> QED
  BY <1>10, <1>11

(***************************************************************************)
(* The kernel's answers.                                                   *)
(***************************************************************************)
TruthInv ==
    QueueInv /\ LogTells /\ ReaderHolds /\ KeysStand /\ Len(inputs) = Len(turns)

\* For any keys, contents and page limits, and any compaction between two pages:
\* the last event about a turn tells the state InspectTurn returns, the pages of
\* Events join to the stretch of the log up to the cursor, and each accepted input
\* stands under exactly one key, with its content.
THEOREM AnswersAreTrue == KernelSpec => []KernelIsTruthful
<1>1. KernelInit => TruthInv
  <2> SUFFICES ASSUME KernelInit PROVE TruthInv
    OBVIOUS
  <2>1. /\ turns = <<>> /\ inputs = <<>> /\ eventLog = <<>> /\ trimmed = 0
        /\ idempotency = [k \in Key |-> Unrecorded]
        /\ reader = [cursor |-> 0, from |-> 0, read |-> <<>>]
    BY DEF KernelInit
  <2>2. QueueInv
    BY <2>1 DEF QueueInv, InLine
  <2>3. LogTells
    BY <2>1 DEF LogTells
  <2>4. ReaderHolds
    <3>1. SubSeq(eventLog, 0 + 1, 0) = <<>>
      BY SubSeqEmpty
    <3> QED
      BY <2>1, <3>1 DEF ReaderHolds
  <2>5. KeysStand /\ Len(inputs) = Len(turns)
    BY <2>1 DEF KeysStand, Unrecorded
  <2> QED
    BY <2>2, <2>3, <2>4, <2>5 DEF TruthInv
<1>2. TruthInv /\ [KernelNext]_kernelVars => TruthInv'
  BY StepServes, StepTells, StepKeepsKeys DEF TruthInv
<1>3. TruthInv => KernelIsTruthful
  <2> SUFFICES ASSUME TruthInv PROVE KernelIsTruthful
    OBVIOUS
  <2>1. \A i \in DOMAIN turns : ToldState(i) = turns[i]
    BY ToldByTheLast DEF TruthInv, LogTells
  <2>2. reader.read = SubSeq(eventLog, reader.from + 1, reader.cursor)
    BY DEF TruthInv, ReaderHolds
  <2>3. ASSUME NEW i \in DOMAIN turns
        PROVE  \E k \in Key :
                  /\ idempotency[k] = [command |-> "send_input", digest |-> inputs[i], turn |-> i]
                  /\ \A other \in Key \ {k} : idempotency[other] # idempotency[k]
    <3>1. i \in 1..Len(inputs)
      BY DEF TruthInv, QueueInv
    <3>2. PICK k \in Key : idempotency[k] = InputRecord(inputs[i], i)
      BY <3>1 DEF TruthInv, KeysStand
    <3>3. idempotency[k].command = "send_input"
      BY <3>2 DEF InputRecord
    <3>4. \A other \in Key \ {k} : idempotency[other] # idempotency[k]
      BY <3>3 DEF TruthInv, KeysStand
    <3> QED
      BY <3>2, <3>4 DEF InputRecord
  <2> QED
    BY <2>1, <2>2, <2>3 DEF KernelIsTruthful, ReaderKnowsTheSession, EveryInputHasItsKey
<1> QED
  BY <1>1, <1>2, <1>3, PTL DEF KernelSpec
=============================================================================
