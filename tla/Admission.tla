----------------------------- MODULE Admission -----------------------------
(***************************************************************************)
(* Input admission (internal/runtimeadmission): SendInput authorizes the   *)
(* artifacts it names, stages the content, admits the input in one         *)
(* PostgreSQL transaction, and reads the content back through the locator  *)
(* of the admitted input. The transaction takes the advisory lock of the   *)
(* idempotency key first and the session's row lock second; other          *)
(* transactions of the session (a turn that ends, a close) take the row    *)
(* lock only. One owner and one session are modelled; content stands for   *)
(* its digest, so a request is the same exactly when its content is.       *)
(***************************************************************************)
EXTENDS Integers, Sequences, FiniteSets

CONSTANTS Sender,       \* concurrent SendInput calls; a retry is another sender
          InputKey,     \* idempotency keys
          Digest,       \* contents of an input
          MaxAdmitted   \* bound on admitted inputs

ASSUME AdmissionAssumption == MaxAdmitted \in Nat

VARIABLES sender,      \* each call: where it is, its key and content, its input
          staged,      \* contents in the content store
          admitted,    \* the inputs table, in order of admission
          turnState,   \* the turns table, by position
          open,        \* whether the session's state is open
          keyLock,     \* who holds each key's advisory lock
          rowLock      \* who holds the session's row lock

admissionVars == <<sender, staged, admitted, turnState, open, keyLock, rowLock>>

Free == "free"

NewCall == [at |-> "new", key |-> "none", content |-> "none", input |-> 0]

SenderAt(s, place) == sender[s].at = place

SenderMoves(s, place) == sender' = [sender EXCEPT ![s].at = place]

\* The transaction of s ends, by commit or by rollback.
ReleaseLocks(s) ==
    /\ keyLock' = [k \in InputKey |-> IF keyLock[k] = s THEN Free ELSE keyLock[k]]
    /\ rowLock' = IF rowLock = s THEN Free ELSE rowLock

\* The input an earlier transaction committed under key k, 0 if there is none.
Prior(k) ==
    IF \E n \in DOMAIN admitted : admitted[n].key = k
    THEN CHOOSE n \in DOMAIN admitted : admitted[n].key = k
    ELSE 0
-----------------------------------------------------------------------------
\* validateRequest, AuthorizeInputReferences and PutInput. A refused artifact ends
\* the call before anything is staged; content is stored once and never replaced.
StageInput(s, k, c) ==
    /\ SenderAt(s, "new")
    /\ \/ /\ sender' = [sender EXCEPT ![s] = [at |-> "staged", key |-> k,
                                              content |-> c, input |-> 0]]
          /\ staged' = staged \cup {c}
       \/ SenderMoves(s, "ended") /\ UNCHANGED staged
    /\ UNCHANGED <<admitted, turnState, open, keyLock, rowLock>>

\* The mutated form of LockKey that begins the transaction without the advisory lock.
LockNothing(s) ==
    /\ SenderAt(s, "staged")
    /\ SenderMoves(s, "locked")
    /\ UNCHANGED <<staged, admitted, turnState, open, keyLock, rowLock>>

\* pg_advisory_xact_lock on the key: waits for the transaction that holds it.
LockKey(s) ==
    /\ SenderAt(s, "staged")
    /\ keyLock[sender[s].key] = Free
    /\ keyLock' = [keyLock EXCEPT ![sender[s].key] = s]
    /\ SenderMoves(s, "locked")
    /\ UNCHANGED <<staged, admitted, turnState, open, rowLock>>

\* The key's input is looked up. An exact match is replayed, any other use of the
\* key is a conflict.
ReadPrior(s) ==
    LET n == Prior(sender[s].key)
    IN  /\ SenderAt(s, "locked")
        /\ IF n = 0 THEN SenderMoves(s, "fresh") /\ UNCHANGED <<keyLock, rowLock>>
           ELSE IF admitted[n].content # sender[s].content
           THEN SenderMoves(s, "ended") /\ ReleaseLocks(s)
           ELSE /\ sender' = [sender EXCEPT ![s].at = "replay", ![s].input = n]
                /\ UNCHANGED <<keyLock, rowLock>>
        /\ UNCHANGED <<staged, admitted, turnState, open>>

\* SELECT ... FOR UPDATE of the session, for a replay as for a new input.
LockSession(s) ==
    /\ sender[s].at \in {"fresh", "replay"}
    /\ rowLock = Free
    /\ rowLock' = s
    /\ SenderMoves(s, IF SenderAt(s, "fresh") THEN "writing" ELSE "replaying")
    /\ UNCHANGED <<staged, admitted, turnState, open, keyLock>>

\* The rest of the transaction: a session that is not open refuses the input;
\* otherwise the next position is allocated, the turn starts if none runs, and
\* input, turn, events, audit and outbox facts are committed together. A failed
\* commit may have been carried out although the caller is told it failed.
CommitInput(s) ==
    LET hasRunning == \E n \in DOMAIN turnState : turnState[n] = "running"
        written == /\ admitted' = Append(admitted, [key |-> sender[s].key,
                                                    content |-> sender[s].content])
                   /\ turnState' = Append(turnState,
                                          IF hasRunning THEN "queued" ELSE "running")
    IN  /\ SenderAt(s, "writing")
        /\ Len(admitted) < MaxAdmitted
        /\ \/ ~open /\ SenderMoves(s, "ended") /\ UNCHANGED <<admitted, turnState>>
           \/ /\ open
              /\ written
              /\ sender' = [sender EXCEPT ![s].at = "admitted",
                                          ![s].input = Len(admitted) + 1]
           \/ open /\ written /\ SenderMoves(s, "ended")
           \/ open /\ SenderMoves(s, "ended") /\ UNCHANGED <<admitted, turnState>>
        /\ ReleaseLocks(s)
        /\ UNCHANGED <<staged, open>>

\* readTurn and the commit of a replay.
CommitReplay(s) ==
    /\ SenderAt(s, "replaying")
    /\ \E place \in {"admitted", "ended"} : SenderMoves(s, place)
    /\ ReleaseLocks(s)
    /\ UNCHANGED <<staged, admitted, turnState, open>>

\* AuthorizeInputRead and GetInput: the content is read back by the digest in the
\* input's row.
ReadBack(s) ==
    /\ SenderAt(s, "admitted")
    /\ SenderMoves(s, IF admitted[sender[s].input].content \in staged
                      THEN "answered" ELSE "ended")
    /\ UNCHANGED <<staged, admitted, turnState, open, keyLock, rowLock>>

\* Another transaction of the session, under its row lock: the running turn ends
\* and the next queued one starts, or the session closes.
TurnEnds ==
    /\ rowLock = Free
    /\ \E n \in DOMAIN turnState :
          /\ turnState[n] = "running"
          /\ turnState' = [m \in DOMAIN turnState |->
                IF m = n THEN "ended"
                ELSE IF m = n + 1 THEN "running" ELSE turnState[m]]
    /\ UNCHANGED <<sender, staged, admitted, open, keyLock, rowLock>>

SessionCloses ==
    /\ rowLock = Free
    /\ open
    /\ open' = FALSE
    /\ UNCHANGED <<sender, staged, admitted, turnState, keyLock, rowLock>>
-----------------------------------------------------------------------------
AdmissionInit ==
    /\ sender = [s \in Sender |-> NewCall]
    /\ staged = {}
    /\ admitted = <<>>
    /\ turnState = <<>>
    /\ open = TRUE
    /\ keyLock = [k \in InputKey |-> Free]
    /\ rowLock = Free

AdmissionNext ==
    \/ \E s \in Sender, k \in InputKey, c \in Digest : StageInput(s, k, c)
    \/ \E s \in Sender :
        \/ LockKey(s) \/ ReadPrior(s) \/ LockSession(s) \/ CommitInput(s)
        \/ CommitReplay(s) \/ ReadBack(s)
    \/ TurnEnds
    \/ SessionCloses

AdmissionSpec == AdmissionInit /\ [][AdmissionNext]_admissionVars
-----------------------------------------------------------------------------
(***************************************************************************)
(* Properties.                                                             *)
(***************************************************************************)

\* Admit admits an input once: no key has two inputs, however many calls race or
\* retry under it; the turns after the running one are queued, so that none runs
\* out of turn; and a call that is answered is answered with the content it sent.
AdmittedExactly ==
    /\ \A m, n \in DOMAIN admitted : admitted[m].key = admitted[n].key => m = n
    /\ \A m, n \in DOMAIN turnState :
          turnState[m] = "running" /\ n > m => turnState[n] = "queued"
    /\ \A s \in Sender : SenderAt(s, "answered") =>
          admitted[sender[s].input] = [key |-> sender[s].key,
                                       content |-> sender[s].content]
=============================================================================
