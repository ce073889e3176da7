--------------------------- MODULE MCRuntimeState ---------------------------
(***************************************************************************)
(* An instance of RuntimeState for TLC.  The full product of three Turns,  *)
(* two approvals, three invocations and two operations is out of reach;    *)
(* InScope keeps three regions of it, one for each group of properties.    *)
(* What a region bounds only grows, so that every state of a region is     *)
(* reached inside it.                                                      *)
(***************************************************************************)
EXTENDS RuntimeState

Invoked == {t \in Turn : invocation[t] # <<>>}
Executed == {o \in Operation : execution[o].state # "none"}
Consumed == {a \in Approval : grant[a].uses > 0}

\* Turns and approvals in every order, without the work they lead to.
Lifecycle == Invoked = {} /\ Executed = {} /\ Consumed = {}

\* The attempts of one Turn, with one approval.
Attempts == turn[2] = "none" /\ approval[2].state = "none" /\ Executed = {} /\ Consumed = {}

\* Executions under two approvals of two Turns: one grant is used up to its maximum,
\* or both are used while no approval is overdue.
Authority ==
    /\ turn[3] = "none"
    /\ Invoked = {}
    /\ \/ Cardinality(Consumed) <= 1
       \/ overdue = {} /\ \A a \in Consumed : grant[a].uses = 1

InScope == Lifecycle \/ Attempts \/ Authority

\* One representative of the states that no property can tell apart: no event
\* guards a step, so the terminal ones of each Turn are enough, and every command
\* is issued with the versions it finds.
StateView ==
    <<session, turn, invocation, toolIntent, approval, overdue, grant, execution,
      [t \in Turn |-> TerminalEventsOf(t)]>>
=============================================================================
