------------------------------ MODULE McpTool ------------------------------
(***************************************************************************)
(* The MCP tool client (internal/mcptool). Every operation opens a fresh   *)
(* session: initialize, the initialized notification, tools/list page by   *)
(* page until the pinned tool is found with its pinned schema and accepts  *)
(* the arguments, and one tools/call. Execute calls the effect tool,       *)
(* Reconcile the server's status tool. Each request is one POST with its   *)
(* own timeout. The server is external: it runs an effect under the        *)
(* operation ID that the call carries, and may finish it later. A caller   *)
(* executes an operation once and afterwards only reconciles it            *)
(* (module ToolWorker).                                                    *)
(***************************************************************************)
EXTENDS Integers

CONSTANTS McpOperation,        \* operation IDs
          maximumToolPages,
          MaxReconciles        \* bound on the reconciliations of an operation

ASSUME McpAssumption == {maximumToolPages, MaxReconciles} \subseteq Nat \ {0}

VARIABLES mcpCall,     \* the request in progress for each operation, and its answer
          effect,      \* the server's status of the operation, and how often it ran
          reconciled   \* reconciliations begun

mcpVars == <<mcpCall, effect, reconciled>>

McpAt(o, place) == mcpCall[o].at = place

McpMoves(o, place) == mcpCall' = [mcpCall EXCEPT ![o].at = place]

\* What the caller is told: output, a terminal error, uncertainty, or another error.
RpcAnswers(o, answer) ==
    mcpCall' = [mcpCall EXCEPT ![o].at = "answered", ![o].answer = answer, ![o].page = 0]

\* The fate of one POST: answered; refused without being delivered (no credential,
\* no connection); delivered but its response lost or unusable (connection reset,
\* status, media type, size, a stream that ends early); or timed out, delivered or not.
Fate == {"answered", "refused", "lost", "timed out", "timed out late"}

Delivered(fate) == fate \in {"answered", "lost", "timed out late"}

\* request: a timeout is uncertain, except for initialize; other failures are errors.
FailureOf(method, fate) ==
    IF fate \in {"timed out", "timed out late"} /\ method # "initialize"
    THEN "uncertain" ELSE "error"

\* session.cancel: the best-effort notification after a timeout. A server that
\* receives it may cancel an effect that still runs.
MayCancel(o) ==
    \/ UNCHANGED effect
    \/ effect[o].state = "running" /\ effect' = [effect EXCEPT ![o].state = "cancelled"]
-----------------------------------------------------------------------------
\* resolve and appendOperationID: a descriptor that is malformed, names a server or
\* tool outside the configuration, or sets another operation ID is refused before
\* any request.
Execute(o) ==
    /\ McpAt(o, "new")
    /\ \/ mcpCall' = [mcpCall EXCEPT ![o].at = "initialize", ![o].mode = "execute"]
       \/ RpcAnswers(o, "error")
    /\ UNCHANGED <<effect, reconciled>>

\* The mutated form of Reconcile that submits the effect tool again.
ReconcileExecute(o) ==
    /\ McpAt(o, "answered")
    /\ mcpCall[o].answer \in {"uncertain", "error"}
    /\ reconciled[o] < MaxReconciles
    /\ reconciled' = [reconciled EXCEPT ![o] = @ + 1]
    /\ mcpCall' = [mcpCall EXCEPT ![o] = [at |-> "initialize", mode |-> "execute",
                                          page |-> 0, answer |-> "none"]]
    /\ UNCHANGED effect

\* Reconcile: the same session steps, for the status tool.
McpReconcile(o) ==
    /\ McpAt(o, "answered")
    /\ mcpCall[o].answer \in {"uncertain", "error"}
    /\ reconciled[o] < MaxReconciles
    /\ reconciled' = [reconciled EXCEPT ![o] = @ + 1]
    /\ mcpCall' = [mcpCall EXCEPT ![o] = [at |-> "initialize", mode |-> "reconcile",
                                          page |-> 0, answer |-> "none"]]
    /\ UNCHANGED effect

\* initialize: the server must negotiate the protocol version and tools.
initialize(o) ==
    /\ McpAt(o, "initialize")
    /\ \E fate \in Fate :
          IF fate = "answered"
          THEN McpMoves(o, "notify") \/ RpcAnswers(o, "error")
          ELSE RpcAnswers(o, FailureOf("initialize", fate))
    /\ UNCHANGED <<effect, reconciled>>

\* notification: any failure, a timeout too, is an error.
notification(o) ==
    /\ McpAt(o, "notify")
    /\ McpMoves(o, "list") \/ RpcAnswers(o, "error")
    /\ UNCHANGED <<effect, reconciled>>

\* validateTool, one page: the tool is found and its schema and the arguments are
\* right, or they are not, or the next page is asked for while pages remain.
validateTool(o) ==
    /\ McpAt(o, "list")
    /\ \E fate \in Fate :
          IF fate # "answered" THEN RpcAnswers(o, FailureOf("tools/list", fate))
          ELSE \/ McpMoves(o, "call")
               \/ RpcAnswers(o, "error")
               \/ /\ mcpCall[o].page + 1 < maximumToolPages
                  /\ mcpCall' = [mcpCall EXCEPT ![o].page = @ + 1]
    /\ UNCHANGED <<effect, reconciled>>

\* call, for Execute: the server runs the effect when the request is delivered, and
\* answers with its outcome. An invalid or oversized result is an error.
callEffect(o) ==
    /\ McpAt(o, "call")
    /\ mcpCall[o].mode = "execute"
    /\ \E fate \in Fate, outcome \in {"running", "succeeded", "failed"} :
          /\ fate = "answered" => outcome # "running"
          /\ effect' = IF Delivered(fate)
                       THEN [effect EXCEPT ![o] = [state |-> outcome, runs |-> @.runs + 1]]
                       ELSE effect
          /\ IF fate # "answered" THEN RpcAnswers(o, FailureOf("tools/call", fate))
             ELSE \/ RpcAnswers(o, IF outcome = "failed" THEN "terminal" ELSE "output")
                  \/ RpcAnswers(o, "error")
    /\ UNCHANGED reconciled

\* call, for Reconcile: the status tool says how the exact operation stands; a tool
\* error, another operation's status and a state that is not terminal are uncertain.
callStatus(o) ==
    /\ McpAt(o, "call")
    /\ mcpCall[o].mode = "reconcile"
    /\ \E fate \in Fate :
          IF fate # "answered" THEN RpcAnswers(o, FailureOf("tools/call", fate))
          ELSE \/ RpcAnswers(o, CASE effect[o].state = "succeeded" -> "output"
                               [] effect[o].state \in {"failed", "cancelled"} -> "terminal"
                               [] OTHER -> "uncertain")
               \/ RpcAnswers(o, "uncertain")
               \/ RpcAnswers(o, "error")
    /\ UNCHANGED <<effect, reconciled>>

\* The cancellation notice of a timed-out call arrives, or never does.
CancelArrives(o) ==
    /\ McpAt(o, "answered")
    /\ mcpCall[o].answer = "uncertain"
    /\ MayCancel(o)
    /\ UNCHANGED <<mcpCall, reconciled>>

\* External: the server finishes an effect that was still running.
EffectFinishes(o) ==
    /\ effect[o].state = "running"
    /\ \E outcome \in {"succeeded", "failed"} :
          effect' = [effect EXCEPT ![o].state = outcome]
    /\ UNCHANGED <<mcpCall, reconciled>>
-----------------------------------------------------------------------------
McpInit ==
    /\ mcpCall = [o \in McpOperation |-> [at |-> "new", mode |-> "execute",
                                          page |-> 0, answer |-> "none"]]
    /\ effect = [o \in McpOperation |-> [state |-> "unknown", runs |-> 0]]
    /\ reconciled = [o \in McpOperation |-> 0]

McpNext ==
    \E o \in McpOperation :
        \/ Execute(o) \/ McpReconcile(o) \/ initialize(o) \/ notification(o)
        \/ validateTool(o) \/ callEffect(o) \/ callStatus(o)
        \/ CancelArrives(o) \/ EffectFinishes(o)

McpSpec == McpInit /\ [][McpNext]_mcpVars
-----------------------------------------------------------------------------
(***************************************************************************)
(* Properties.                                                             *)
(***************************************************************************)

\* Execute and Reconcile report what happened: the effect runs at most once however
\* often an operation is reconciled; an output is reported only for an operation that
\* succeeded and a terminal error only for one that failed or was cancelled.
McpAnswerIsReal ==
    \A o \in McpOperation :
        /\ effect[o].runs <= 1
        /\ mcpCall[o].answer = "output" => effect[o].state = "succeeded"
        /\ mcpCall[o].answer = "terminal" => effect[o].state \in {"failed", "cancelled"}
=============================================================================
