------------------------------- MODULE Kernel -------------------------------
(***************************************************************************)
(* The in-memory runtime kernel (internal/runtime/kernel): one Session of  *)
(* one owner, its turns and inputs, the owner's idempotency records, the   *)
(* agent's immutable revisions, and the Session's event log with a reader  *)
(* that pages through it while the log is compacted.                       *)
(*                                                                         *)
(* Every mutation is one Transact: the change runs on a clone of the       *)
(* owner's state under one lock and the clone replaces the state only when *)
(* the change succeeded and the context is still alive. A mutation is      *)
(* therefore one step or nothing. An answer may be lost, so any key may be *)
(* sent again at any time, with its own request or with another.           *)
(*                                                                         *)
(* eventLog is the whole event history; the retained events are those past *)
(* `trimmed`. An event's sequence number is its place in the log, a cursor *)
(* stands for the sequence number of the event that carries it.            *)
(***************************************************************************)
EXTENDS Integers, Sequences, FiniteSets

CONSTANTS Key,           \* idempotency keys
          Content,       \* contents of an input
          MaxTurns,      \* bound on accepted inputs
          MaxRevisions,  \* bound on the revisions of the agent
          PageLimits     \* page limits a reader asks for

ASSUME KernelAssumption ==
    /\ MaxTurns \in Nat
    /\ MaxRevisions \in Nat
    /\ PageLimits \subseteq Nat \ {0}

VARIABLES revisions,    \* contents of the agent's revisions, in order
          phase,        \* the Session's state; "none" before it is created
          pinned,       \* the revision the Session was created from
          turns,        \* state of each turn, in order of acceptance
          inputs,       \* content of each turn's input
          idempotency,  \* what each key was recorded for
          eventLog,          \* every event appended to the Session
          trimmed,      \* how many of them were compacted away
          reader        \* the paging reader: its cursor and what it was told

kernelVars ==
    <<revisions, phase, pinned, turns, inputs, idempotency, eventLog, trimmed, reader>>

Unrecorded == [command |-> "none"]

Terminal == {"succeeded", "failed", "cancelled"}

\* activeTurnIndex and queuedTurnIndex: the first such turn, 0 for the code's -1.
FirstIn(s, state) ==
    IF \E i \in DOMAIN s : s[i] = state
    THEN CHOOSE i \in DOMAIN s :
            s[i] = state /\ \A j \in DOMAIN s : s[j] = state => i <= j
    ELSE 0

activeTurnIndex(s) == FirstIn(s, "running")

queuedTurnIndex(s) == FirstIn(s, "queued")

Event(kind, turn) == [kind |-> kind, turn |-> turn]

SessionEvent(kind) == Event(kind, 0)

\* A key that is not recorded yet and passes validateIdempotencyKey. A recorded
\* key answers its own request from the record and conflicts with any other;
\* neither changes the state.
Fresh(k) == idempotency[k] = Unrecorded

Remember(k, record) == idempotency' = [idempotency EXCEPT ![k] = record]

appendEvents(es) == eventLog' = eventLog \o es
-----------------------------------------------------------------------------
(***************************************************************************)
(* Agents.                                                                 *)
(***************************************************************************)

CreateAgent(k, c) ==
    /\ Fresh(k)
    /\ revisions = <<>>
    /\ MaxRevisions > 0
    /\ revisions' = <<c>>
    /\ Remember(k, [command |-> "create_agent", digest |-> c, revision |-> 1])
    /\ UNCHANGED <<phase, pinned, turns, inputs, eventLog, trimmed, reader>>

ReviseAgent(k, c) ==
    /\ Fresh(k)
    /\ revisions # <<>>
    /\ Len(revisions) < MaxRevisions
    /\ revisions' = Append(revisions, c)
    /\ Remember(k, [command |-> "revise_agent", digest |-> c,
                    revision |-> Len(revisions) + 1])
    /\ UNCHANGED <<phase, pinned, turns, inputs, eventLog, trimmed, reader>>

\* ResolveAgentRevision in the tenant's scope, then CreateSessionFromRevision in
\* the principal's. A revision never changes, so the two transactions are one step.
CreateSession(k, r) ==
    /\ Fresh(k)
    /\ r \in 1..Len(revisions)
    /\ phase = "none"
    /\ phase' = "open"
    /\ pinned' = revisions[r]
    /\ appendEvents(<<SessionEvent("session.created")>>)
    /\ Remember(k, [command |-> "create_session", digest |-> r])
    /\ UNCHANGED <<revisions, turns, inputs, trimmed, reader>>
-----------------------------------------------------------------------------
(***************************************************************************)
(* Turns.                                                                  *)
(***************************************************************************)

SendInput(k, c) ==
    LET n    == Len(turns) + 1
        idle == activeTurnIndex(turns) = 0
    IN  /\ Fresh(k)
        /\ phase = "open"
        /\ Len(turns) < MaxTurns
        /\ turns' = Append(turns, IF idle THEN "running" ELSE "queued")
        /\ inputs' = Append(inputs, c)
        /\ appendEvents(<<Event("input.accepted", n),
                          Event(IF idle THEN "turn.started" ELSE "turn.queued", n)>>)
        /\ Remember(k, [command |-> "send_input", digest |-> c, turn |-> n])
        /\ UNCHANGED <<revisions, phase, pinned, trimmed, reader>>

\* What advance makes of the turns and the Session once a turn ended: nothing
\* while another runs, otherwise the first queued turn starts, otherwise a
\* closing Session completes.
Started(s) ==
    LET q == queuedTurnIndex(s)
    IN  IF activeTurnIndex(s) # 0 \/ q = 0 THEN s ELSE [s EXCEPT ![q] = "running"]

\* The mutated form of advance that completes a closing Session as soon as no
\* turn runs, without looking for a queued one.
advanceEagerly(s, es) ==
    LET idle == activeTurnIndex(s) = 0
    IN  /\ turns' = s
        /\ phase' = IF idle /\ phase = "closing" THEN "completed" ELSE phase
        /\ appendEvents(es \o (IF idle /\ phase = "closing"
                               THEN <<SessionEvent("session.completed")>> ELSE <<>>))

\* s is the turns with the ended one's outcome, es the event that tells it.
advance(s, es) ==
    LET idle == activeTurnIndex(s) = 0
        next == queuedTurnIndex(s)
        ends == idle /\ next = 0 /\ phase = "closing"
    IN  /\ turns' = Started(s)
        /\ phase' = IF ends THEN "completed" ELSE phase
        /\ appendEvents(es \o (IF idle /\ next # 0 THEN <<Event("turn.started", next)>>
                               ELSE IF ends THEN <<SessionEvent("session.completed")>>
                               ELSE <<>>))

\* CompleteTurn: a second call with the recorded outcome is answered from the
\* turn, one with another outcome conflicts; neither changes the state.
CompleteTurn(i, outcome) ==
    /\ i \in DOMAIN turns
    /\ turns[i] = "running"
    /\ advance([turns EXCEPT ![i] = outcome],
               <<Event(IF outcome = "failed" THEN "turn.failed" ELSE "turn.succeeded", i)>>)
    /\ UNCHANGED <<revisions, pinned, inputs, idempotency, trimmed, reader>>

CancelTurn(k, i) ==
    /\ Fresh(k)
    /\ i \in DOMAIN turns
    /\ turns[i] \notin Terminal
    /\ advance([turns EXCEPT ![i] = "cancelled"], <<Event("turn.cancelled", i)>>)
    /\ Remember(k, [command |-> "cancel_turn", digest |-> i])
    /\ UNCHANGED <<revisions, pinned, inputs, trimmed, reader>>

CloseSession(k) ==
    LET idle == activeTurnIndex(turns) = 0
    IN  /\ Fresh(k)
        /\ phase = "open"
        /\ phase' = IF idle THEN "completed" ELSE "closing"
        /\ appendEvents(<<SessionEvent("session.closing")>>
                        \o (IF idle THEN <<SessionEvent("session.completed")>> ELSE <<>>))
        /\ Remember(k, [command |-> "close_session"])
        /\ UNCHANGED <<revisions, pinned, turns, inputs, trimmed, reader>>

CancelSession(k) ==
    /\ Fresh(k)
    /\ phase \in {"open", "closing"}
    /\ activeTurnIndex(turns) = 0
    /\ queuedTurnIndex(turns) = 0
    /\ phase' = "cancelled"
    /\ appendEvents(<<SessionEvent("session.cancelled")>>)
    /\ Remember(k, [command |-> "cancel_session"])
    /\ UNCHANGED <<revisions, pinned, turns, inputs, trimmed, reader>>
-----------------------------------------------------------------------------
(***************************************************************************)
(* Events.                                                                 *)
(***************************************************************************)

\* CompactEvents keeps the last `keep` of the retained events.
CompactEvents(keep) ==
    /\ keep >= 1
    /\ Len(eventLog) - trimmed > keep
    /\ trimmed' = Len(eventLog) - keep
    /\ UNCHANGED <<revisions, phase, pinned, turns, inputs, idempotency, eventLog, reader>>

\* eventAfter finds a cursor among the retained events only. 0 is the empty
\* cursor, which starts at the earliest retained event.
Found(cursor) == cursor = 0 \/ cursor \in (trimmed + 1)..Len(eventLog)

\* The page a reader takes: the events after place `start`, at most `limit`.
Page(start, limit) ==
    LET end == IF start + limit > Len(eventLog) THEN Len(eventLog) ELSE start + limit
    IN  reader' = IF end = start THEN reader
                  ELSE [cursor |-> end,
                        from   |-> IF reader.cursor = 0 THEN start ELSE reader.from,
                        read   |-> reader.read \o SubSeq(eventLog, start + 1, end)]

\* The mutated form of Events that answers a trimmed cursor with the earliest
\* retained events in place of a Gap.
EventsWithoutGap(limit) ==
    /\ phase # "none"
    /\ Page(IF reader.cursor > trimmed THEN reader.cursor ELSE trimmed, limit)
    /\ UNCHANGED <<revisions, phase, pinned, turns, inputs, idempotency, eventLog, trimmed>>

\* One page for the reader. A cursor that is not found is answered by a Gap: the
\* reader then inspects the Session and goes on from its newest event.
Events(limit) ==
    /\ phase # "none"
    /\ IF Found(reader.cursor)
       THEN Page(IF reader.cursor = 0 THEN trimmed ELSE reader.cursor, limit)
       ELSE reader' = [cursor |-> Len(eventLog), from |-> Len(eventLog), read |-> <<>>]
    /\ UNCHANGED <<revisions, phase, pinned, turns, inputs, idempotency, eventLog, trimmed>>
-----------------------------------------------------------------------------
KernelInit ==
    /\ revisions = <<>>
    /\ phase = "none"
    /\ pinned = "none"
    /\ turns = <<>>
    /\ inputs = <<>>
    /\ idempotency = [k \in Key |-> Unrecorded]
    /\ eventLog = <<>>
    /\ trimmed = 0
    /\ reader = [cursor |-> 0, from |-> 0, read |-> <<>>]

KernelNext ==
    \/ \E k \in Key, c \in Content : CreateAgent(k, c) \/ ReviseAgent(k, c)
    \/ \E k \in Key, r \in 1..MaxRevisions : CreateSession(k, r)
    \/ \E k \in Key, c \in Content : SendInput(k, c)
    \/ \E i \in 1..MaxTurns, o \in {"succeeded", "failed"} : CompleteTurn(i, o)
    \/ \E k \in Key, i \in 1..MaxTurns : CancelTurn(k, i)
    \/ \E k \in Key : CloseSession(k) \/ CancelSession(k)
    \/ \E keep \in PageLimits : CompactEvents(keep)
    \/ \E limit \in PageLimits : Events(limit)

KernelSpec == KernelInit /\ [][KernelNext]_kernelVars
-----------------------------------------------------------------------------
(***************************************************************************)
(* Properties.                                                             *)
(***************************************************************************)

\* The turns with no outcome, in the order they were accepted.
Unfinished == {i \in DOMAIN turns : turns[i] \notin Terminal}

\* The Session as its caller may think of it. The running turn is the one served.
Queue == INSTANCE SessionQueue
            WITH Limit    <- MaxTurns,
                 phase    <- phase,
                 accepted <- Len(turns),
                 waiting  <- Unfinished,
                 serving  <- activeTurnIndex(turns)

\* The kernel implements the session queue: SendInput, CompleteTurn, CancelTurn and
\* advance serve the turns one at a time in order of acceptance, whatever is
\* cancelled in between, and CloseSession, which looks at the active turn only,
\* completes a Session exactly when no turn is left in it.
ServesInOrder == Queue!QueueSpec

\* The state the events tell of turn i: that of the last event that names it.
ToldState(i) ==
    LET about == {n \in 1..Len(eventLog) : eventLog[n].turn = i}
        last  == CHOOSE n \in about : \A m \in about : m <= n
        kind  == eventLog[last].kind
    IN  CASE kind = "turn.queued"    -> "queued"
          [] kind = "turn.started"   -> "running"
          [] kind = "turn.succeeded" -> "succeeded"
          [] kind = "turn.failed"    -> "failed"
          [] kind = "turn.cancelled" -> "cancelled"
          [] OTHER                   -> "untold"

\* The event log is the truth and a reader gets all of it: the last event about each
\* turn tells the state that InspectTurn returns, and what a reader has collected
\* page by page since it started (or since it was last told of a Gap) is the
\* stretch of the eventLog up to its cursor, with nothing missing and nothing twice,
\* while CompactEvents trims the eventLog between two pages.
ReaderKnowsTheSession ==
    /\ \A i \in DOMAIN turns : ToldState(i) = turns[i]
    /\ reader.read = SubSeq(eventLog, reader.from + 1, reader.cursor)

\* A retried mutation is applied once: every accepted turn is the one recorded by
\* exactly one SendInput key, with the content that key was sent with, so that a
\* retry whose first answer was lost finds its turn instead of adding another.
EveryInputHasItsKey ==
    \A i \in DOMAIN turns :
        \E k \in Key :
            /\ idempotency[k] = [command |-> "send_input", digest |-> inputs[i], turn |-> i]
            /\ \A other \in Key \ {k} : idempotency[other] # idempotency[k]

\* Neither a retry nor a slow reader is misled: a key stands for one turn and its content
\* (SendInput), and the pages of the event log, gaps told, are the Session's history
\* (Events, CompactEvents).
KernelIsTruthful == ReaderKnowsTheSession /\ EveryInputHasItsKey
=============================================================================
