---------------------------- MODULE SessionQueue ----------------------------
(***************************************************************************)
(* What a Session promises its caller, with nothing of how it is kept:     *)
(* accepted turns are served one at a time in the order of acceptance, an  *)
(* outcome is only reported for the turn being served, a cancelled turn    *)
(* leaves the line wherever it stands, and a session that is closing ends  *)
(* exactly when its line is empty.                                         *)
(***************************************************************************)
EXTENDS Integers

CONSTANT Limit \* the most turns a session accepts

VARIABLES phase,     \* "none", "open", "closing", "completed", "cancelled"
          accepted,  \* the number of turns accepted so far
          waiting,   \* the accepted turns with no outcome yet
          serving    \* the turn being served, 0 when there is none

queueVars == <<phase, accepted, waiting, serving>>

\* The turn at the head of a line: the one accepted first.
Serves(s, line) ==
    IF line = {} THEN s = 0 ELSE s \in line /\ \A i \in line : s <= i

QueueInit ==
    /\ phase = "none"
    /\ accepted = 0
    /\ waiting = {}
    /\ serving = 0

OpenSession ==
    /\ phase = "none"
    /\ phase' = "open"
    /\ UNCHANGED <<accepted, waiting, serving>>

Accept ==
    /\ phase = "open"
    /\ accepted < Limit
    /\ accepted' = accepted + 1
    /\ waiting' = waiting \cup {accepted + 1}
    /\ Serves(serving', waiting')
    /\ UNCHANGED phase

\* Turn i leaves the line. A closing session whose line is now empty ends.
Leave(i) ==
    /\ waiting' = waiting \ {i}
    /\ Serves(serving', waiting')
    /\ phase' = IF phase = "closing" /\ waiting' = {} THEN "completed" ELSE phase
    /\ UNCHANGED accepted

FinishTurn == serving # 0 /\ Leave(serving)

GiveUpTurn == \E i \in waiting : Leave(i)

EndIntake ==
    /\ phase = "open"
    /\ phase' = IF waiting = {} THEN "completed" ELSE "closing"
    /\ UNCHANGED <<accepted, waiting, serving>>

Abandon ==
    /\ phase \in {"open", "closing"}
    /\ waiting = {}
    /\ phase' = "cancelled"
    /\ UNCHANGED <<accepted, waiting, serving>>

QueueNext ==
    OpenSession \/ Accept \/ FinishTurn \/ GiveUpTurn \/ EndIntake \/ Abandon

QueueSpec == QueueInit /\ [][QueueNext]_queueVars
=============================================================================
