------------------------------- MODULE RuntimeApi -------------------------------
(***************************************************************************)
(* The public HTTP API over the durable runtime state of one tenant:       *)
(* internal/runtimeapi (the handlers of server.go and StateRuntime), with  *)
(* the read side of the state store.  A mutation reads what it needs,      *)
(* stages its content, plans on a snapshot of the tenant and persists the  *)
(* plan if the snapshot is still current, three times at most, and then    *)
(* reads its result back; most reads take two snapshots one after the      *)
(* other.  Callers, retries of lost answers and the workers interleave     *)
(* between these steps.  The tenant holds agents (each the sequence of     *)
(* the revisions its authors had read), one policy name, one Session with  *)
(* one Turn and one Tool call: RuntimeState has the whole lifecycle.       *)
(***************************************************************************)
EXTENDS Naturals, Sequences, FiniteSets, SequencesExt

CONSTANTS ApiCaller,       \* client processes
          ApiKey,          \* idempotency keys they use
          ApiRequest,      \* the requests offered, records [op, arg, expected]
          MaxApiCalls,     \* bound: requests sent
          EventPageLimit   \* the limit a reader of events asks for

VARIABLES tenant,     \* the runtime state snapshot of the tenant
          call,       \* what each caller's request is doing
          told,       \* the successful answers to mutations and to status reads
          shown,      \* the last Turn each caller was shown
          page,       \* the events each caller has read, by pages
          sentCalls   \* requests sent so far

apiVars == <<tenant, call, told, shown, page, sentCalls>>

Idle == [pc |-> "idle"]
NotShown == [turn |-> "none", output |-> FALSE, tool |-> "none"]

--------------------------------------------------------------------------------
(* The handlers of server.go: who may call, and whether the request must    *)
(* carry an idempotency key and one JSON body.                              *)

Handler(admin, mutates) == [admin |-> admin, mutates |-> mutates]
createAgent == Handler(TRUE, TRUE)
reviseAgent == Handler(TRUE, TRUE)
getAgentRevision == Handler(TRUE, FALSE)
createPolicy == Handler(TRUE, TRUE)
revisePolicy == Handler(TRUE, TRUE)
getPolicy == Handler(TRUE, FALSE)
readArtifact == Handler(FALSE, FALSE)
listSessionArtifacts == Handler(FALSE, FALSE)
inspectApproval == Handler(FALSE, FALSE)
listApprovals == Handler(FALSE, FALSE)
decideApprovalHandler == Handler(FALSE, TRUE)
idempotencyStatus == Handler(FALSE, FALSE)
createSessionHandler == Handler(FALSE, TRUE)
sendInput == Handler(FALSE, TRUE)
inspectSession == Handler(FALSE, FALSE)
inspectTurn == Handler(FALSE, FALSE)
inspectToolCalls == Handler(FALSE, FALSE)
events == Handler(FALSE, FALSE)
cancelTurn == Handler(FALSE, TRUE)
closeSession == Handler(FALSE, TRUE)
cancelSessionHandler == Handler(FALSE, TRUE)

NewHandler ==
  [CreateAgent |-> createAgent, ReviseAgent |-> reviseAgent,
   GetAgentRevision |-> getAgentRevision, CreatePolicy |-> createPolicy,
   RevisePolicy |-> revisePolicy, GetPolicy |-> getPolicy,
   ReadArtifact |-> readArtifact, ListSessionArtifacts |-> listSessionArtifacts,
   InspectApproval |-> inspectApproval, ListApprovals |-> listApprovals,
   DecideApproval |-> decideApprovalHandler,
   IdempotencyStatus |-> idempotencyStatus, CreateSession |-> createSessionHandler,
   SendInput |-> sendInput, InspectSession |-> inspectSession,
   InspectTurn |-> inspectTurn, InspectToolCalls |-> inspectToolCalls,
   Events |-> events, CancelTurn |-> cancelTurn, CloseSession |-> closeSession,
   CancelSession |-> cancelSessionHandler]

(* The scope a request is recorded under.                                   *)
administratorScope == "administrator"
ownerScope == "owner"
ScopeOf(op, identity) ==
  IF NewHandler[op].admin THEN administratorScope ELSE ownerScope
StatusScope(identity) ==
  IF identity = "admin" THEN administratorScope ELSE ownerScope

--------------------------------------------------------------------------------
(* Planning one command on a snapshot t.  A second Session or Turn is       *)
(* refused by the bound of the model ("bound"), not by the code.            *)

Refused(verdict) == [verdict |-> verdict]
Planned(t, result) == [verdict |-> "ok", state |-> t, result |-> result]

hasPending(t) == t.turn \in {"running", "waiting_for_approval"}

register(t, agent, expected) ==
  IF agent = 0
  THEN Planned([t EXCEPT !.agents = Append(@, <<0>>)], <<"agent", Len(t.agents) + 1, 1>>)
  ELSE IF Len(t.agents[agent]) # expected
       THEN Refused("conflict")
       ELSE Planned([t EXCEPT !.agents[agent] = Append(@, expected)],
                    <<"agent", agent, expected + 1>>)

(* A new revision of the policy withdraws the approval still pending under  *)
(* an earlier one and cancels the Turn that waits for it.                   *)
registerPolicy(t, expected) ==
  IF t.policies # expected THEN Refused("conflict")
  ELSE Planned(IF t.approval = "pending"
               THEN [t EXCEPT !.policies = @ + 1, !.approval = "cancelled",
                              !.turn = "cancelled",
                              !.events = @ \o <<"turn.cancelled", "approval.cancelled">>]
               ELSE [t EXCEPT !.policies = @ + 1],
               <<"policy", 0, expected + 1>>)

createSession(t) ==
  IF t.agents = <<>> THEN Refused("notfound")
  ELSE IF t.session # "none" THEN Refused("bound")
  ELSE Planned([t EXCEPT !.session = "open", !.events = Append(@, "session.created")],
               <<"session", 0, 1>>)

admit(t) ==
  CASE t.session = "none" -> Refused("notfound")
    [] t.session \notin {"none", "open"} -> Refused("conflict")
    [] t.session = "open" /\ t.turn # "none" -> Refused("bound")
    [] OTHER -> Planned([t EXCEPT !.turn = "running",
                                  !.events = @ \o <<"input.accepted", "turn.started">>],
                        <<"turn", 0, 1>>)

decideApproval(t, decision) ==
  CASE t.approval = "none" -> Refused("notfound")
    [] t.approval \notin {"none", "pending"} -> Refused("conflict")
    [] t.approval = "pending" /\ t.due ->
         Planned([t EXCEPT !.approval = "expired", !.events = Append(@, "approval.expired")],
                 <<"approval", 0, 1>>)
    [] t.approval = "pending" /\ ~t.due ->
         Planned([t EXCEPT !.approval = decision,
                           !.grant = IF decision = "approved" THEN "unused" ELSE @,
                           !.turn = IF decision = "approved" THEN "running" ELSE @,
                           !.events = Append(@, "approval.resolved")],
                 <<"approval", 0, 1>>)

(* A Session that is closing is complete when its last Turn is.             *)
Completes(t) ==
  IF t.session = "closing" /\ ~hasPending(t)
  THEN [t EXCEPT !.session = "completed", !.events = Append(@, "session.completed")]
  ELSE t

cancel(t) ==
  CASE t.turn = "none" -> Refused("notfound")
    [] t.turn # "none" /\ ~hasPending(t) -> Refused("conflict")
    [] OTHER ->
         LET ended == Completes([t EXCEPT !.turn = "cancelled",
                        !.approval = IF @ = "pending" THEN "cancelled" ELSE @,
                        !.grant = IF @ = "unused" THEN "revoked" ELSE @,
                        !.events = Append(@, "turn.cancelled")])
         IN  Planned(IF t.approval = "pending"
                     THEN [ended EXCEPT !.events = Append(@, "approval.cancelled")]
                     ELSE ended,
                     <<"turn", 0, 1>>)

close(t) ==
  CASE t.session = "none" -> Refused("notfound")
    [] t.session \notin {"none", "open"} -> Refused("conflict")
    [] OTHER -> Planned(Completes([t EXCEPT !.session = "closing",
                                            !.events = Append(@, "session.closing")]),
                        <<"session", 0, 1>>)

cancelSession(t) ==
  CASE t.session = "none" -> Refused("notfound")
    [] t.session # "none" /\ (t.session \notin {"open", "closing"} \/ hasPending(t)) ->
         Refused("conflict")
    [] OTHER -> Planned([t EXCEPT !.session = "cancelled",
                                  !.events = Append(@, "session.cancelled")],
                        <<"session", 0, 1>>)

(* What each StateRuntime method plans; q is the call.                      *)
CreateAgent(t, q) == register(t, 0, 0)
ReviseAgent(t, q) == register(t, 1, q.latest)
CreatePolicy(t, q) == registerPolicy(t, 0)
RevisePolicy(t, q) == registerPolicy(t, q.expected)
CreateSession(t, q) == createSession(t)
SendInput(t, q) == admit(t)
DecideApproval(t, q) == decideApproval(t, q.arg)
CancelTurn(t, q) == cancel(t)
CloseSession(t, q) == close(t)
CancelSession(t, q) == cancelSession(t)

Compiled(t, q) ==
  CASE q.op = "CreateAgent" -> CreateAgent(t, q)
    [] q.op = "ReviseAgent" -> ReviseAgent(t, q)
    [] q.op = "CreatePolicy" -> CreatePolicy(t, q)
    [] q.op = "RevisePolicy" -> RevisePolicy(t, q)
    [] q.op = "CreateSession" -> CreateSession(t, q)
    [] q.op = "SendInput" -> SendInput(t, q)
    [] q.op = "DecideApproval" -> DecideApproval(t, q)
    [] q.op = "CancelTurn" -> CancelTurn(t, q)
    [] q.op = "CloseSession" -> CloseSession(t, q)
    [] q.op = "CancelSession" -> CancelSession(t, q)

Receipts(t, scope, key) == {r \in t.receipts : r.scope = scope /\ r.key = key}

(* A retained receipt answers a repeated request and refuses another one.   *)
Plan(t, q) ==
  LET receipts == Receipts(t, q.scope, q.key)
      planned == Compiled(t, q)
  IN  IF receipts # {}
      THEN LET r == CHOOSE r \in receipts : TRUE
           IN  IF r.op = q.op /\ r.arg = q.arg /\ r.expected = q.expected THEN Planned(t, r.result)
               ELSE Refused("conflict")
      ELSE IF planned.verdict # "ok" THEN planned
      ELSE Planned([planned.state EXCEPT
                      !.receipts = @ \cup {[scope |-> q.scope, key |-> q.key, op |-> q.op,
                                            arg |-> q.arg, expected |-> q.expected,
                                            result |-> planned.result]}],
                   planned.result)

--------------------------------------------------------------------------------
(* The reads: what they find in one snapshot.                               *)

GetTurn(t) == t.turn # "none"
GetSessionView(t) == t.session # "none"
GetArtifact(t) == t.artifact
GetAgentRevision(t) == t.agents # <<>>
GetPolicyRevision(t) == t.policies > 0
InspectApproval(t) == t.approval # "none"
InspectSession(t) == GetSessionView(t)
GetPolicy(t) == GetPolicyRevision(t)

(* The output of a Turn is shown once the invocation that produced it has   *)
(* succeeded and its Artifact is registered.                                *)
latestInvocationOutput(t) == t.invocation = "succeeded" /\ t.artifact

(* The public state of the Tool call: its approval, the grant and the       *)
(* execution each override what came before.                                *)
publicToolExecution(t) ==
  IF t.execution = "intent" THEN "executing" ELSE t.execution
InspectToolCalls(t) ==
  CASE t.execution # "none" -> publicToolExecution(t)
    [] t.execution = "none" /\ t.approval = "pending" -> "awaiting_approval"
    [] t.execution = "none" /\ t.approval # "pending" /\ t.grant # "none" -> "authorized"
    [] OTHER -> IF t.approval = "none" THEN "none" ELSE "intent"

(* The events after a cursor, which is a position in the Session's events.  *)
ReadEvents(t, after) ==
  SubSeq(t.events, after + 1, IF after + EventPageLimit < Len(t.events)
                              THEN after + EventPageLimit ELSE Len(t.events))

ReadsTwice == {"InspectTurn", "InspectToolCalls", "ListSessionArtifacts", "ReadArtifact"}

(* The record a read has to find before it answers.                         *)
Found(t, op) ==
  CASE op \in {"InspectTurn", "InspectToolCalls"} -> GetTurn(t)
    [] op = "InspectSession" -> InspectSession(t)
    [] op \in {"ListSessionArtifacts", "Events"} -> GetSessionView(t)
    [] op = "ReadArtifact" -> GetArtifact(t)
    [] op = "GetAgentRevision" -> GetAgentRevision(t)
    [] op = "GetPolicy" -> GetPolicy(t)
    [] op = "ListApprovals" -> TRUE \* an empty inbox is a page too
    [] op = "InspectApproval" -> InspectApproval(t)

--------------------------------------------------------------------------------
EmptyTenant ==
  [agents |-> <<>>, policies |-> 0, session |-> "none", turn |-> "none", approval |-> "none",
   due |-> FALSE, grant |-> "none", execution |-> "none", invocation |-> "none",
   artifact |-> FALSE, events |-> <<>>, receipts |-> {}]

\* No request was sent since the tenant became what it is.
ApiBegins(t) ==
  /\ tenant = t
  /\ call = [c \in ApiCaller |-> Idle]
  /\ told = {}
  /\ shown = [c \in ApiCaller |-> NotShown]
  /\ page = [c \in ApiCaller |-> <<>>]
  /\ sentCalls = 0

ApiInit == ApiBegins(EmptyTenant)

(* Everything before the Runtime is called: a request without a credential, *)
(* from a caller that is no administrator where one is needed, or malformed *)
(* is answered at once.                                                     *)
decodeMutation(c, request, key, identity) ==
  call' = [call EXCEPT ![c] =
    [pc |-> IF request.op = "ReviseAgent" THEN "latest"
            ELSE IF request.op = "SendInput" THEN "authorize" ELSE "load",
     op |-> request.op, arg |-> request.arg, expected |-> request.expected, key |-> key,
     scope |-> ScopeOf(request.op, identity), latest |-> 0, attempt |-> 1, base |-> <<>>]]

BeginRead(c, request, key, identity) ==
  call' = [call EXCEPT ![c] =
    [pc |-> "read", op |-> request.op, key |-> key, scope |-> StatusScope(identity),
     seen |-> "none"]]

ServeHTTP(c, request, key, identity, wellFormed) ==
  /\ call[c] = Idle
  /\ sentCalls < MaxApiCalls
  /\ sentCalls' = sentCalls + 1
  /\ IF identity = "nobody" \/ ~wellFormed
        \/ (NewHandler[request.op].admin /\ identity # "admin")
     THEN UNCHANGED call
     ELSE IF NewHandler[request.op].mutates
          THEN decodeMutation(c, request, key, identity)
          ELSE BeginRead(c, request, key, identity)
  /\ UNCHANGED <<tenant, told, shown, page>>

(* The answer is written: a failure of any kind, or a result.               *)
Answer(c) == call' = [call EXCEPT ![c] = Idle]

Fails(c) ==
  /\ call[c] # Idle
  /\ Answer(c)
  /\ UNCHANGED <<tenant, told, shown, page, sentCalls>>

(* ReviseAgent reads the latest revision before it stages the next one.     *)
latestRevision(c) ==
  /\ call[c].pc = "latest"
  /\ IF tenant.agents = <<>>
     THEN Answer(c)
     ELSE call' = [call EXCEPT ![c].latest = Len(tenant.agents[1]), ![c].pc = "load"]
  /\ UNCHANGED <<tenant, told, shown, page, sentCalls>>

(* An Input that names an Artifact must name one its sender owns.           *)
authorizeInputArtifacts(c) ==
  /\ call[c].pc = "authorize"
  /\ IF call[c].arg = "artifact" /\ ~GetArtifact(tenant)
     THEN Answer(c)
     ELSE call' = [call EXCEPT ![c].pc = "load"]
  /\ UNCHANGED <<tenant, told, shown, page, sentCalls>>

LoadRuntimeState(c) ==
  /\ call[c].pc = "load"
  /\ call' = [call EXCEPT ![c].base = tenant, ![c].pc = "persist"]
  /\ UNCHANGED <<tenant, told, shown, page, sentCalls>>

ReadsBack == {"CreateAgent", "ReviseAgent", "SendInput", "DecideApproval"}

Told(q, result, state) ==
  told' = told \cup {[scope |-> q.scope, key |-> q.key, op |-> q.op, arg |-> q.arg,
                      result |-> result, state |-> state]}

(* One attempt of apply: the plan is persisted if the snapshot it was made  *)
(* on is still the tenant's, and made again otherwise.                      *)
PersistTransitionPlan(c) ==
  LET q == call[c]
      plan == Plan(q.base, q)
  IN  /\ q.pc = "persist"
      /\ CASE plan.verdict # "ok" -> Answer(c) /\ UNCHANGED <<tenant, told>>
           [] plan.verdict = "ok" /\ tenant # q.base ->
                /\ IF q.attempt = 3 THEN Answer(c)
                   ELSE call' = [call EXCEPT ![c].attempt = @ + 1, ![c].pc = "load"]
                /\ UNCHANGED <<tenant, told>>
           [] OTHER ->
                /\ tenant' = plan.state
                /\ IF q.op \in ReadsBack
                   THEN /\ call' = [call EXCEPT ![c].pc = "readback"]
                        /\ UNCHANGED told
                   ELSE Answer(c) /\ Told(q, plan.result, "")
      /\ UNCHANGED <<shown, page, sentCalls>>

(* The commit reaches the database and its acknowledgement is lost.         *)
CommitUnacknowledged(c) ==
  LET plan == Plan(call[c].base, call[c])
  IN  /\ call[c].pc = "persist"
      /\ plan.verdict = "ok"
      /\ tenant = call[c].base
      /\ tenant' = plan.state
      /\ Answer(c)
      /\ UNCHANGED <<told, shown, page, sentCalls>>

(* The result is read back from the state as it is by then; a decision that *)
(* found the approval expired is reported as a conflict.                    *)
ReadBack(c) ==
  LET q == call[c]
      receipt == CHOOSE r \in Receipts(tenant, q.scope, q.key) : TRUE
  IN  /\ q.pc = "readback"
      /\ Answer(c)
      /\ IF q.op = "DecideApproval" /\ tenant.approval = "expired"
         THEN UNCHANGED told
         ELSE Told(q, receipt.result, IF q.op = "DecideApproval" THEN tenant.approval ELSE "")
      /\ UNCHANGED <<tenant, shown, page, sentCalls>>

(* The first snapshot of a read; an absent record is the answer.            *)
Read(c) ==
  /\ call[c].pc = "read"
  /\ call[c].op # "IdempotencyStatus"
  /\ IF Found(tenant, call[c].op) /\ call[c].op \in ReadsTwice
     THEN call' = [call EXCEPT ![c].pc = "again", ![c].seen = tenant.turn]
     ELSE Answer(c)
  /\ page' = IF call[c].op = "Events" /\ Found(tenant, "Events")
             THEN [page EXCEPT ![c] = @ \o ReadEvents(tenant, Len(@))]
             ELSE page
  /\ UNCHANGED <<tenant, told, shown, sentCalls>>

InspectTurn(c) ==
  /\ call[c].op = "InspectTurn"
  /\ shown' = [shown EXCEPT ![c].turn = call[c].seen,
                            ![c].output = latestInvocationOutput(tenant)]
ReadAgain(c) ==
  /\ call[c].pc = "again"
  /\ Answer(c)
  /\ \/ InspectTurn(c)
     \/ /\ call[c].op = "InspectToolCalls"
        /\ shown' = [shown EXCEPT ![c].tool = InspectToolCalls(tenant)]
     \/ /\ call[c].op \in {"ReadArtifact", "ListSessionArtifacts"}
        /\ UNCHANGED shown
  /\ UNCHANGED <<tenant, told, page, sentCalls>>

(* The retained receipt of a key, in the caller's own scope.                *)
IdempotencyStatus(c) ==
  /\ call[c].pc = "read"
  /\ call[c].op = "IdempotencyStatus"
  /\ Answer(c)
  /\ IF Receipts(tenant, call[c].scope, call[c].key) = {}
     THEN UNCHANGED told
     ELSE LET r == CHOOSE r \in Receipts(tenant, call[c].scope, call[c].key) : TRUE
          IN  Told(r, r.result, "")
  /\ UNCHANGED <<tenant, shown, page, sentCalls>>

--------------------------------------------------------------------------------
(* What the workers do to the tenant meanwhile, in the order of their code: *)
(* the Artifact is registered before the outcome that names it, and the     *)
(* outcome is recorded before the Turn is settled.                          *)

registerArtifact ==
  /\ tenant.turn = "running"
  /\ ~tenant.artifact
  /\ tenant' = [tenant EXCEPT !.artifact = TRUE]

WorkerTransition ==
  \/ /\ tenant.turn = "running" /\ tenant.invocation = "none"
     /\ tenant' = [tenant EXCEPT !.invocation = "intent"]
  \/ registerArtifact
  \/ /\ tenant.turn = "running" /\ tenant.invocation = "intent" /\ tenant.artifact
     /\ tenant' = [tenant EXCEPT !.invocation = "succeeded"]
  \/ /\ tenant.turn = "running" /\ tenant.invocation = "succeeded"
     /\ tenant' = Completes([tenant EXCEPT !.turn = "succeeded",
                                           !.events = Append(@, "turn.succeeded")])
  \/ /\ tenant.turn = "running" /\ tenant.approval = "none"
     /\ tenant' = [tenant EXCEPT !.turn = "waiting_for_approval", !.approval = "pending"]
  \/ /\ tenant.approval = "pending" /\ ~tenant.due
     /\ tenant' = [tenant EXCEPT !.due = TRUE]
  \/ /\ tenant.grant = "unused" /\ tenant.turn = "running"
     /\ tenant' = [tenant EXCEPT !.grant = "used", !.execution = "intent"]
  \/ /\ tenant.execution = "intent"
     /\ \E outcome \in {"succeeded", "failed", "uncertain"} :
          tenant' = [tenant EXCEPT !.execution = outcome,
                                   !.events = Append(@, "sandbox_operation.finalized")]

WorkerStep ==
  /\ WorkerTransition
  /\ UNCHANGED <<call, told, shown, page, sentCalls>>

(* A step while the callers send only requests of one set.                  *)
ApiStep(offered) ==
  \/ \E c \in ApiCaller :
       \/ \E request \in offered, key \in ApiKey, identity \in {"nobody", "owner", "admin"},
            wellFormed \in BOOLEAN : ServeHTTP(c, request, key, identity, wellFormed)
       \/ Fails(c) \/ latestRevision(c) \/ authorizeInputArtifacts(c)
       \/ LoadRuntimeState(c) \/ PersistTransitionPlan(c) \/ CommitUnacknowledged(c)
       \/ ReadBack(c) \/ Read(c) \/ ReadAgain(c) \/ IdempotencyStatus(c)
  \/ WorkerStep

ApiNext == ApiStep(ApiRequest)

--------------------------------------------------------------------------------
(* Every successful answer for one idempotency key, whether to the request, *)
(* to a retry of it or to a status read, names the one effect the key had,  *)
(* and no two keys are told the same revision of an agent or a policy.      *)
AnswersAgree ==
  /\ \A a \in told : \E r \in Receipts(tenant, a.scope, a.key) :
       r.op = a.op /\ r.arg = a.arg /\ r.result = a.result
  /\ \A a, b \in told :
       (a.result = b.result /\ a.result[1] \in {"agent", "policy"})
         => a.scope = b.scope /\ a.key = b.key

(* Every revision of an agent was written by a caller that had read the     *)
(* revision just before it, whoever else revised the agent meanwhile.       *)
RevisionFollowsRead ==
  \A a \in DOMAIN tenant.agents : \A i \in DOMAIN tenant.agents[a] :
    tenant.agents[a][i] = i - 1

(* A caller that is told its decision took effect is told the decision it   *)
(* made, and the approval keeps it.                                         *)
DecisionIsOwn ==
  \A a \in told : a.op = "DecideApproval" /\ a.state # "" =>
    a.state = a.arg /\ tenant.approval = a.arg

(* A Turn shown as succeeded is shown with its output although the two come *)
(* from different snapshots; a Tool call shown as authorized or beyond has  *)
(* an approval; and pages followed by their cursor give every event of the  *)
(* Session once and in order.                                               *)
ViewsAreConsistent ==
  /\ \A c \in ApiCaller : shown[c].turn = "succeeded" => shown[c].output
  /\ \A c \in ApiCaller :
       shown[c].tool \in {"authorized", "executing", "succeeded", "failed", "uncertain"}
         => tenant.approval = "approved"
  /\ \A c \in ApiCaller : IsPrefix(page[c], tenant.events)


================================================================================
