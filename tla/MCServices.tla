----------------------------- MODULE MCServices -----------------------------
(***************************************************************************)
(* Instances for TLC of the services around the runtime state: the API,    *)
(* the store of transitions, approvals, the SDK's kernel, the back-fill    *)
(* and milestone controllers and the stack operator.  They share no state: *)
(* a behaviour is one of one of them, `part`, while the others stay as     *)
(* they start.                                                             *)
(***************************************************************************)
EXTENDS TransitionStore, Kernel, Backfill, Milestone, Approval, StackOperator, TLC

CONSTANTS ServicePart,                 \* the parts that are checked
          ApiCaller, ApiKey, MaxApiCalls, EventPageLimit

VARIABLES part, tenant, apiCall, told, shown, page, sentCalls

apiVars == <<tenant, apiCall, told, shown, page, sentCalls>>

-----------------------------------------------------------------------------
(* The API *)

Asked(name, arg, expected) == [op |-> name, arg |-> arg, expected |-> expected]
Plainly(names) == {Asked(name, "", 0) : name \in names}

Mutations == Plainly({"CreateAgent", "ReviseAgent", "CreatePolicy"}) \cup {Asked("RevisePolicy", "", 1)}
SessionCalls == Plainly({"CancelTurn"}) \cup {Asked("DecideApproval", "approved", 0)}
Views == Plainly({"InspectTurn", "InspectToolCalls", "Events"})
Lookups ==
    Plainly({"IdempotencyStatus", "GetAgentRevision", "GetPolicy", "ReadArtifact", "ListSessionArtifacts",
             "InspectApproval", "ListApprovals", "InspectSession"})
Opening ==
    Plainly({"CreateSession", "CloseSession", "CancelSession"})
        \cup {Asked("SendInput", "text", 0), Asked("SendInput", "artifact", 0),
              Asked("DecideApproval", "denied", 0), Asked("RevisePolicy", "", 1)}

ApiRequests == Mutations \cup SessionCalls \cup Views \cup Lookups \cup Opening

Offered ==
    CASE part = "catalog" -> Mutations \cup Plainly({"IdempotencyStatus"})
      [] part = "lookups" -> Lookups \cup Opening
      [] part = "session" -> SessionCalls
      [] part = "views"   -> Views

Api == INSTANCE RuntimeApi WITH call <- apiCall, ApiRequest <- ApiRequests

\* An agent and a policy exist, and then a Session with a running Turn.
Catalog == [Api!EmptyTenant EXCEPT !.agents = <<<<0>>>>, !.policies = 1]
Begun ==
    [Catalog EXCEPT !.session = "open", !.turn = "running",
                    !.events = <<"session.created", "input.accepted", "turn.started">>]

ApiStart ==
    Api!ApiBegins(CASE part = "lookups" -> Catalog
                    [] part \in {"session", "views"} -> Begun
                    [] OTHER -> Api!EmptyTenant)

-----------------------------------------------------------------------------
(* Values of the other constants *)

CreatedAt == <<1, 0>>
ExpiresAt == <<2, 2>>

Objects == <<"a", "b">>

\* The numbers of turns are taken in order: a key is used only after those before it.
KeysInOrder ==
    \A i, j \in Key : i < j /\ idempotency[i] = Unrecorded => idempotency[j] = Unrecorded

-----------------------------------------------------------------------------
(* The parts *)

NoDependencies == [x \in Resource |-> {}]
NoMigrations == [r \in Rendering |-> <<>>]

\* Documents that matter to the part: dependencies to the order of a teardown, and
\* migrations, with or without a conflict, to an upgrade.
DocumentsOfPart ==
    /\ part # "order" => declared.dependsOn = NoDependencies
    /\ part # "migrate" => ~declared.journalled /\ declared.migrations = NoMigrations
    /\ part = "migrate" =>
          /\ declared.migrations[1] = <<"a">>
          /\ declared.migrations[2] \in IF declared.journalled THEN {<<"a", "b">>, <<"c">>} ELSE {<<"a", "b">>}

\* Keys and requests are alike: one caller may as well begin with the first of them.
FirstCommand ==
    LET first == CHOOSE m \in Command : TRUE
    IN  IF part = "store" THEN \E c \in Caller : call[c] = first ELSE \A c \in Caller : call[c] = first

ServicesInit ==
    /\ part \in ServicePart
    /\ KernelInit /\ BackfillInit /\ ApprovalInit /\ ApiStart
    /\ Init /\ FirstCommand
    /\ MilestoneInit /\ (part # "milestone" => ledger = [q \in Requirement |-> "blocked"])
    /\ StackInit /\ DocumentsOfPart

\* Others interfere while a teardown is under way: before, it has not looked yet.
TearingDown == part = "teardown" /\ \E o \in Operator : op[o].act = "teardown"

\* Of two operators at work, one tears down.
OneTearsDown == (\A o \in Operator : op'[o].at # "idle") => \E o \in Operator : op'[o].act = "teardown"

ActionsOfPart ==
    CASE part = "teardown" -> {"reconcile", "transition", "teardown"}
      [] part = "order"    -> {"reconcile", "providers", "teardown"}
      [] part = "migrate"  -> {"apply", "rollback", "transition"}

\* Two operators on one Namespace, one at a time on every dependency graph, or two that
\* migrate.
StackStep ==
    \/ NamespaceIsGone \/ SecretGenerated
    \/ TearingDown /\ (NamespaceDeletedElsewhere \/ ObjectReplaced)
    \/ \E o \in Operator :
          /\ part = "order" => \A other \in Operator \ {o} : op[other].at = "idle"
          /\ OperatorStep(o, ActionsOfPart)
          /\ part = "teardown" => OneTearsDown

StackPart == {"teardown", "order", "migrate"}
ApiPart == {"catalog", "lookups", "session", "views"}

ServiceStep ==
    \/ part = "store" /\ Next
    \/ part = "kernel" /\ KernelNext
    \/ part = "backfill" /\ BackfillNext
    \/ part = "milestone" /\ MilestoneNext
    \/ part = "approval" /\ ApprovalNext
    \/ part \in StackPart /\ StackStep /\ (part = "migrate" => lastUID' < MaxUID)
    \/ part \in ApiPart /\ Api!ApiStep(Offered) /\ (part = "session" => sentCalls' < MaxApiCalls)

ServicesNext ==
    /\ ServiceStep
    /\ UNCHANGED part
    /\ part # "store" => UNCHANGED vars
    /\ part # "kernel" => UNCHANGED kernelVars
    /\ part # "backfill" => UNCHANGED backfillVars
    /\ part # "milestone" => UNCHANGED milestoneVars
    /\ part # "approval" => UNCHANGED approval
    /\ part \notin StackPart => UNCHANGED stackVars
    /\ part \notin ApiPart => UNCHANGED apiVars

servicesVars ==
    <<vars, kernelVars, backfillVars, milestoneVars, approval, stackVars, apiVars, part>>

\* The processes of a part are alike, and so are its keys.
Alike == Permutations(Caller) \cup Permutations(ApiKey)

\* What may differ between two states of a part.
ServicesView ==
    <<part, CASE part = "store" -> vars
              [] part = "kernel" -> kernelVars
              [] part = "backfill" -> backfillVars
              [] part = "milestone" -> milestoneVars
              [] part = "approval" -> approval
              [] part \in StackPart -> stackVars
              [] part \in ApiPart -> apiVars>>

ServicesSpec == ServicesInit /\ [][ServicesNext]_servicesVars

-----------------------------------------------------------------------------
(* Properties. The configuration lists the components' own; these combine or confine *)
(* theirs to the parts in which they are evaluated.                                *)

====
