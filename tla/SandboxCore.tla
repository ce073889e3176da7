---------------------------- MODULE SandboxCore -----------------------------
(***************************************************************************)
(* The in-memory control core of the sandbox SDK.  Clients of several      *)
(* principals, each with its own policy, share one ledger: they submit     *)
(* operations under caller-chosen IDs, wait for them, watch them and close.*)
(* An adapter reports the processes of exec operations.                    *)
(*                                                                         *)
(* A method runs under the ledger's lock, so it is one action; Close and   *)
(* WaitOperation release it half-way and are two.  A caller's request is a *)
(* draft: Submit resolves its defaults in the caller's own memory.         *)
(***************************************************************************)
EXTENDS Integers, FiniteSets, FiniteSetsExt

CONSTANTS
    Principal, CoreClient, OperationID,
    Owner,          \* the principal of each client
    Policy,         \* the limit policy of each client
    Draft,          \* requests the callers hold
    FirstDraft,     \* what each of them is at first
    Slot,           \* streams a client can hold: bounds the watches of a client
    Waiter,
    ProducedBytes   \* bound on what a process writes: the produced-output limit and one more

ASSUME CoreAssumption ==
    /\ Owner \in [CoreClient -> Principal]
    /\ \A c \in CoreClient : Policy[c].defaults <= Policy[c].maximum

VARIABLES
    draft,          \* the callers' requests
    operations,     \* the accepted operations of each principal
    processes,      \* the processes of exec operations
    sandboxes,      \* the sandboxes reserved by create operations
    watches,        \* the watch count of each principal
    core,           \* the clients: closed, their open streams, the streams Close has left to close
    waiter

coreVars == <<draft, operations, processes, sandboxes, watches, core, waiter>>

NotThere == [state |-> "absent"]

Accepted(p) == {id \in OperationID : operations[p][id] # NotThere}
ProcessesOf(p) == {id \in OperationID : processes[p][id] # NotThere}

isTerminalOperation(state) == state \in {"succeeded", "failed", "cancelled"}

(***************************************************************************)
(* Admission.                                                              *)
(***************************************************************************)
resolveLimits(value, defaults) == IF value = 0 THEN defaults ELSE value
withinLimits(value, maximum) == value <= maximum

\* A request's form is "valid" or names the one check that refuses it.
validateCanonicalStrings(request) == request.form # "strings"
requestBodies(request) == request.form # "body"
validSandboxSpecGuestPaths(request) == request.form # "path"
validateGrant(request) == request.form # "grant"
validateCommand(request) == request.form \notin {"command", "path"} /\ validateGrant(request)
validTaggedTarget(request) == request.form \notin {"target", "path"}

\* What normalizeRequest leaves in the caller's request, and whose digest it takes.
frozenRequest(request, defaults) ==
    CASE request.kind = "create_sandbox" -> [request EXCEPT !.resources = resolveLimits(@, defaults)]
      [] request.kind = "copy_in" -> [request EXCEPT !.overwrite = IF @ = "" THEN "fail_if_exists" ELSE @]
      [] OTHER -> request

normalizeRequest(request, limits) ==
    IF ~validateCanonicalStrings(request) \/ ~requestBodies(request) THEN "InvalidArgument"
    ELSE CASE request.kind = "create_sandbox" ->
                IF ~validSandboxSpecGuestPaths(request) THEN "InvalidArgument"
                ELSE IF withinLimits(resolveLimits(request.resources, limits.defaults), limits.maximum) THEN ""
                ELSE "ResourceLimitExceeded"
           [] request.kind = "exec_process" -> IF validateCommand(request) THEN "" ELSE "InvalidArgument"
           [] OTHER -> IF validTaggedTarget(request) THEN "" ELSE "InvalidArgument"

admitImage(image, policy) == policy.images[image]

capabilityAtLeast(actual, required) ==
    \/ actual = "enforced"
    \/ actual = "declared" /\ required = "declared"

validateCapabilityRequirements(request, policy) ==
    request.requires = "" \/ capabilityAtLeast(policy.capability, request.requires)

newEffectiveSpec(request, policy) ==
    IF request.kind # "create_sandbox" THEN ""
    ELSE IF admitImage(request.image, policy) = "none" THEN "CapabilityUnavailable"
    ELSE IF ~validateCapabilityRequirements(request, policy) THEN "CapabilityUnavailable"
    ELSE ""

EffectiveLimits(request, policy) ==
    IF request.kind = "create_sandbox" THEN request.resources ELSE policy.defaults

compatiblePersistedSpec(entry, policy) ==
    /\ withinLimits(entry.limits, policy.maximum)
    /\ entry.canonicalizer = policy.canonicalizer
    /\ entry.capability = policy.capability
    /\ entry.request.kind = "create_sandbox" => entry.image = admitImage(entry.request.image, policy)

GlobalOperations == MapThenSumSet(LAMBDA p : Cardinality(Accepted(p)), Principal)
GlobalProcesses == MapThenSumSet(LAMBDA p : Cardinality(ProcessesOf(p)), Principal)
GlobalWatches == MapThenSumSet(LAMBDA p : watches[p], Principal)

\* A retry resolved with the defaults of today.
RetryWithCurrentDefaults(c, id, request) ==
    LET prior == operations[Owner[c]][id]
        failure == normalizeRequest(request, Policy[c])
    IN  IF failure # "" THEN failure
        ELSE IF frozenRequest(request, Policy[c].defaults) # prior.request THEN "OperationConflict"
        ELSE IF ~compatiblePersistedSpec(prior, Policy[c]) THEN "IncompatiblePersistedPolicy"
        ELSE "prior"

\* A retry is resolved with the limits of the accepted operation.
RetryAnswer(c, id, request) ==
    LET prior == operations[Owner[c]][id]
        failure == normalizeRequest(request, [defaults |-> prior.limits, maximum |-> prior.limits])
    IN  IF failure # "" THEN failure
        ELSE IF frozenRequest(request, prior.limits) # prior.request THEN "OperationConflict"
        ELSE IF ~compatiblePersistedSpec(prior, Policy[c]) THEN "IncompatiblePersistedPolicy"
        ELSE "prior"

\* The refusals of Submit in their order, or the answer to a request it takes.
SubmitAnswer(c, id, request) ==
    LET p == Owner[c]
        policy == Policy[c]
        exec == request.kind = "exec_process"
    IN  IF core[c].closed THEN "Unavailable"
        ELSE IF id \in Accepted(p) THEN RetryAnswer(c, id, request)
        ELSE IF \E q \in Principal \ {p} : id \in Accepted(q) THEN "NotFoundOrDenied"
        ELSE IF \/ Cardinality(Accepted(p)) >= policy.operations
                \/ GlobalOperations >= policy.globalOperations
                \/ exec /\ Cardinality(ProcessesOf(p)) >= policy.processes
                \/ exec /\ GlobalProcesses >= policy.globalProcesses
        THEN "ControlQuotaExceeded"
        ELSE IF normalizeRequest(request, policy) # "" THEN normalizeRequest(request, policy)
        ELSE IF newEffectiveSpec(request, policy) # "" THEN newEffectiveSpec(request, policy)
        ELSE "accepted"

\* What is left in the caller's request: defaults are resolved unless it was refused before that.
ResolvedDraft(c, id, request) ==
    IF SubmitAnswer(c, id, request) \in {"Unavailable", "NotFoundOrDenied", "ControlQuotaExceeded", "InvalidArgument"} THEN request
    ELSE frozenRequest(request, IF id \in Accepted(Owner[c]) THEN operations[Owner[c]][id].limits ELSE Policy[c].defaults)

\* The sandbox or the process an accepted operation will have.
reserveAcceptedResourcesLocked(p, id, request) ==
    /\ sandboxes' = IF request.kind = "create_sandbox" THEN [sandboxes EXCEPT ![p] = @ \cup {id}] ELSE sandboxes
    /\ processes' = IF request.kind = "exec_process"
                    THEN [processes EXCEPT ![p][id] = [state |-> "accepted", produced |-> 0, spool |-> "open"]]
                    ELSE processes

Submit(c, id, d) ==
    LET p == Owner[c]
        request == ResolvedDraft(c, id, draft[d])
    IN  /\ draft' = [draft EXCEPT ![d] = request]
        /\ IF SubmitAnswer(c, id, draft[d]) = "accepted"
           THEN /\ operations' = [operations EXCEPT ![p][id] =
                        [state |-> "accepted", done |-> FALSE, sent |-> draft[d], request |-> request,
                         limits |-> EffectiveLimits(request, Policy[c]),
                         canonicalizer |-> Policy[c].canonicalizer, capability |-> Policy[c].capability,
                         image |-> admitImage(request.image, Policy[c])]]
                /\ reserveAcceptedResourcesLocked(p, id, request)
           ELSE UNCHANGED <<operations, sandboxes, processes>>
        /\ UNCHANGED <<watches, core, waiter>>

(***************************************************************************)
(* Reading, waiting and watching.                                          *)
(***************************************************************************)
GetOperation(c, id) ==
    IF core[c].closed THEN "Unavailable"
    ELSE IF id \in Accepted(Owner[c]) THEN "found" ELSE "NotFoundOrDenied"

\* GetSandbox and GetProcess.
GetResource(c, id) ==
    IF core[c].closed THEN "Unavailable"
    ELSE IF id \in sandboxes[Owner[c]] \cup ProcessesOf(Owner[c]) THEN "found" ELSE "NotFoundOrDenied"

Idle == [phase |-> "idle"]

WaitOperation(w, c, id) ==
    LET p == Owner[c]
    IN  /\ waiter[w] = Idle
        /\ ~core[c].closed /\ id \in Accepted(p)
        /\ ~isTerminalOperation(operations[p][id].state)
        /\ waiter' = [waiter EXCEPT ![w] = [phase |-> "waiting", client |-> c, id |-> id]]
        /\ UNCHANGED <<draft, operations, processes, sandboxes, watches, core>>

\* Woken by the operation: GetOperation answers, or fails because the client was closed.
WaitReturns(w) ==
    /\ waiter[w].phase = "waiting"
    /\ operations[Owner[waiter[w].client]][waiter[w].id].done
    /\ waiter' = [waiter EXCEPT ![w] = Idle]
    /\ UNCHANGED <<draft, operations, processes, sandboxes, watches, core>>

WaitCancelled(w) ==
    /\ waiter[w].phase = "waiting"
    /\ waiter' = [waiter EXCEPT ![w] = Idle]
    /\ UNCHANGED <<draft, operations, processes, sandboxes, watches, core>>

WatchOperation(c, id, s) ==
    LET p == Owner[c]
    IN  /\ ~core[c].closed /\ id \in Accepted(p)
        /\ watches[p] < Policy[c].watches
        /\ GlobalWatches < Policy[c].globalWatches
        /\ s \notin core[c].streams
        /\ watches' = [watches EXCEPT ![p] = @ + 1]
        /\ core' = [core EXCEPT ![c].streams = @ \cup {s}]
        /\ UNCHANGED <<draft, operations, processes, sandboxes, waiter>>

releaseWatch(c, s) ==
    /\ watches' = [watches EXCEPT ![Owner[c]] = IF @ > 0 THEN @ - 1 ELSE @]
    /\ core' = [core EXCEPT ![c].streams = @ \ {s}, ![c].closing = @ \ {s}]

\* By the reader or by Close; only the first call releases the watch.
StreamClose(c, s) ==
    /\ s \in core[c].streams
    /\ releaseWatch(c, s)
    /\ UNCHANGED <<draft, operations, processes, sandboxes, waiter>>

\* Close, under the lock; it then closes the collected streams one by one (StreamClose).
CloseClient(c) ==
    /\ core' = [core EXCEPT ![c].closed = TRUE, ![c].closing = @ \cup core[c].streams]
    /\ UNCHANGED <<draft, operations, processes, sandboxes, watches, waiter>>

(***************************************************************************)
(* The adapter's reports.                                                  *)
(***************************************************************************)
Completed(process) == [process EXCEPT !.state = "terminal", !.spool = "closed"]

completeProcessLocked(p, id, process) ==
    /\ processes' = [processes EXCEPT ![p][id] = Completed(process)]
    /\ operations' = IF isTerminalOperation(operations[p][id].state) THEN operations
                     ELSE [operations EXCEPT ![p][id].state = "succeeded", ![p][id].done = TRUE]

Running(p, id) == id \in ProcessesOf(p) /\ processes[p][id].state # "terminal"

completeProcess(p, id) ==
    /\ Running(p, id)
    /\ completeProcessLocked(p, id, processes[p][id])
    /\ UNCHANGED <<draft, sandboxes, watches, core, waiter>>

\* A start whose context is already cancelled ends the process.
startProcess(p, id, cancelled) ==
    /\ Running(p, id)
    /\ IF cancelled THEN completeProcessLocked(p, id, processes[p][id])
       ELSE /\ processes[p][id].state \in {"accepted", "starting"}
            /\ processes' = [processes EXCEPT ![p][id].state = "running"]
            /\ UNCHANGED operations
    /\ UNCHANGED <<draft, sandboxes, watches, core, waiter>>

\* A write that exceeds the produced-output limit ends the process; a closed spool refuses it.
appendProcessOutput(p, id) ==
    /\ id \in ProcessesOf(p) /\ processes[p][id].spool = "open"
    /\ IF processes[p][id].produced + 1 > ProducedBytes
       THEN completeProcessLocked(p, id, processes[p][id])
       ELSE /\ processes' = [processes EXCEPT ![p][id].produced = @ + 1]
            /\ UNCHANGED operations
    /\ UNCHANGED <<draft, sandboxes, watches, core, waiter>>

CoreInit ==
    /\ draft = FirstDraft
    /\ operations = [p \in Principal |-> [id \in OperationID |-> NotThere]]
    /\ processes = [p \in Principal |-> [id \in OperationID |-> NotThere]]
    /\ sandboxes = [p \in Principal |-> {}]
    /\ watches = [p \in Principal |-> 0]
    /\ core = [c \in CoreClient |-> [closed |-> FALSE, streams |-> {}, closing |-> {}]]
    /\ waiter = [w \in Waiter |-> Idle]

CoreNext ==
    \/ \E c \in CoreClient, id \in OperationID :
        \/ \E d \in Draft : Submit(c, id, d)
        \/ \E w \in Waiter : WaitOperation(w, c, id)
        \/ \E s \in Slot : WatchOperation(c, id, s)
    \/ \E w \in Waiter : WaitReturns(w) \/ WaitCancelled(w)
    \/ \E c \in CoreClient : CloseClient(c) \/ \E s \in Slot : StreamClose(c, s)
    \/ \E p \in Principal, id \in OperationID :
        completeProcess(p, id) \/ (\E cancelled \in BOOLEAN : startProcess(p, id, cancelled)) \/ appendProcessOutput(p, id)

(***************************************************************************)
(* Properties.                                                             *)
(***************************************************************************)
\* The request that was accepted, sent again through any client of its principal, is
\* recognised whatever that client's defaults are; it is refused only if the client is
\* closed or its policy no longer covers the operation, never as a conflict or as too
\* large (Submit on a prior operation).
RetryIsRecognised ==
    \A c \in CoreClient : \A id \in Accepted(Owner[c]) :
        SubmitAnswer(c, id, operations[Owner[c]][id].sent) \in {"prior", "Unavailable", "IncompatiblePersistedPolicy"}

\* A principal's watch count is the number of streams its clients hold open, and a client
\* whose Close has closed all it collected holds none, whoever closed the streams and in
\* whatever order (WatchOperation, releaseWatch, Close).
WatchesAreReleased ==
    /\ \A p \in Principal : watches[p] = MapThenSumSet(LAMBDA c : Cardinality(core[c].streams), {c \in CoreClient : Owner[c] = p})
    /\ \A c \in CoreClient : core[c].closed => core[c].streams = core[c].closing

\* A waiter never waits for a process that has ended: an ended process has ended its
\* operation and woken those who wait (completeProcessLocked).
EndedProcessEndsOperation ==
    \A p \in Principal : \A id \in ProcessesOf(p) :
        processes[p][id].state = "terminal" => operations[p][id].done /\ isTerminalOperation(operations[p][id].state)

\* An operation ID is read by the clients of one principal only, and what an operation
\* reserved is read exactly where the operation is (Submit, GetOperation, GetSandbox,
\* GetProcess).
IDHasOnePrincipal ==
    /\ \A c, d \in CoreClient : \A id \in OperationID :
        GetOperation(c, id) = "found" /\ GetOperation(d, id) = "found" => Owner[c] = Owner[d]
    /\ \A c \in CoreClient : \A id \in OperationID : GetResource(c, id) = "found" => GetOperation(c, id) = "found"

\* What several clients of one ledger rely on: a retry is recognised under any client's
\* defaults (Submit), an ID has one principal, every watch is released once
\* (releaseWatch, Close), and no waiter waits for a process that has ended
\* (completeProcessLocked).
LedgerIsShared == RetryIsRecognised /\ IDHasOnePrincipal /\ WatchesAreReleased /\ EndedProcessEndsOperation
=============================================================================
