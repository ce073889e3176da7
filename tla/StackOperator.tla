--------------------------- MODULE StackOperator ---------------------------
(***************************************************************************)
(* stackctl's audited operator actions on one Stack (internal/stack):       *)
(* bootstrap, apply, reconcile, rollback, transition and teardown, each a   *)
(* sequence of kubectl commands issued by a process that may stop between   *)
(* any two of them, while other operators act with the same capability file *)
(* and other controllers replace objects or the Namespace.                  *)
(*                                                                          *)
(* A UID stands for the UID and the resource version together: a change of  *)
(* either makes a delete precondition fail.  A Rendering stands for a       *)
(* reviewed document, its digest included; the renderings of one behaviour  *)
(* have one identity and differ in their migrations.  Every kubectl command *)
(* may fail without effect (OperatorStops); the ones that change the        *)
(* cluster may also take effect and lose their answer.                      *)
(***************************************************************************)
EXTENDS Naturals, Sequences, FiniteSets, SequencesExt

CONSTANTS Operator,    \* concurrent stackctl processes
          Rendering,   \* reviewed documents, a set of numbers
          Object,      \* Kubernetes resources every rendering declares, in identifier order
          MaxUID       \* bound on the UIDs the cluster assigns

ASSUME StackAssumption == MaxUID \in Nat /\ Object \in Seq(STRING) /\ Rendering \subseteq Nat

VARIABLES declared,    \* what the documents say: dependencies, migrations, journalled or legacy
          namespace,   \* the Namespace: uid, nonce digest, phase
          objects,     \* per resource: its UID and the Namespace it was made in
          secret,      \* the local-generated Secret
          providers,   \* the Temporal namespace and the blob bucket
          schema,      \* per migration version: the artifact in effect
          journal,     \* stack_migration_journal
          capability,  \* the private capability file
          op,          \* per operator: where it is
          wrong,       \* objects deleted that the plan did not observe in its own Namespace
          raced,       \* a transition replaced a capability that had changed meanwhile
          lastUID

stackVars == <<declared, namespace, objects, secret, providers, schema, journal, capability, op,
               wrong, raced, lastUID>>
cluster == <<namespace, objects, secret, providers, schema, journal, lastUID>>
history == <<wrong, raced, declared>>

Resource == ToSet(Object)
Version == 1 .. 2
Absent == [uid |-> 0, in |-> 0]
NoNamespace == [uid |-> 0, nonce |-> 0, phase |-> "absent"]
NoCapability == [uid |-> 0, nonce |-> 0, render |-> 0, deleted |-> 0]
Torn == [NoCapability EXCEPT !.render = -1]
Idle1 == [at |-> "idle", act |-> "none", cap |-> NoCapability, plan |-> <<>>, todo |-> <<>>,
          to |-> 0, told |-> "none"]

Moves(o, place) == op' = [op EXCEPT ![o].at = place]
Ends(o) == op' = [op EXCEPT ![o] = Idle1]

\* The provider answered, the authority holds, and a resource is missing: the refusal
\* is remembered when the Namespace's own deletion is already under way.
Refuses(o) ==
    op' = [op EXCEPT ![o] = [Idle1 EXCEPT !.told = IF namespace.phase = "terminating" THEN "refused" ELSE "none"]]

\* validateBootstrapAuthority: the capability is for exactly the rendering presented.
validateBootstrapAuthority(cap, r) == cap.uid # 0 /\ cap.render = r

\* The Namespace, its labels and its nonce digest are read again before each mutation.
verifyBootstrapAuthority(o) ==
    /\ namespace.phase # "absent"
    /\ namespace.uid = op[o].cap.uid /\ namespace.nonce = op[o].cap.nonce

------------------------------------------------------------------------------
(* The order of a teardown *)

\* Depth first in identifier order, a resource after its dependencies, then reversed.
RECURSIVE visit(_, _, _)
visit(ids, deps, ordered) ==
    FoldLeft(LAMBDA done, id :
                IF \E i \in DOMAIN done : done[i] = id THEN done
                ELSE Append(visit(SelectSeq(Object, LAMBDA d : d \in deps[id]), deps, done), id),
             ordered, ids)

reverseDependencyOrder(deps) == Reverse(visit(Object, deps, <<>>))

\* validateDependencyGraph refuses a cycle when the document is parsed.
validateDependencyGraph(deps) ==
    \E rank \in [Resource -> 1 .. Cardinality(Resource)] :
        \A x \in Resource : \A d \in deps[x] : rank[d] < rank[x]

------------------------------------------------------------------------------
(* Beginning an action *)

\* migrations in the order they run; a rollback passes over those of the previous rendering.
Upgrades(r) == SetToSortSeq(DOMAIN declared.migrations[r], LAMBDA a, b : a < b)
Reverts(r, previous) ==
    SetToSortSeq({v \in DOMAIN declared.migrations[r] :
                    ~(v \in DOMAIN declared.migrations[previous]
                        /\ declared.migrations[previous][v] = declared.migrations[r][v])},
                 LAMBDA a, b : a > b)

FirstPlace(act) ==
    CASE act = "apply" -> "apply"
      [] act = "reconcile" -> "diff"
      [] act \in {"providers", "rollback"} -> "migrate"
      [] act = "transition" -> "rebind"
      [] act = "teardown" -> "preflight"

\* run: the capability file is read once, prepare and validateBootstrapAuthority follow.
BeginAction(o, acts) ==
    /\ op[o].at = "idle"
    /\ capability \notin {NoCapability, Torn}
    /\ \E act \in acts, r \in Rendering, to \in Rendering :
          /\ validateBootstrapAuthority(capability, r)
          /\ (act = "transition") => (to # r)
          /\ (act \notin {"transition", "rollback"}) => (to = r)
          /\ op' = [op EXCEPT ![o] = [Idle1 EXCEPT !.at = FirstPlace(act), !.act = act,
                        !.cap = capability, !.to = to,
                        !.todo = IF act = "rollback" THEN Reverts(r, to) ELSE Upgrades(r)]]
    /\ UNCHANGED <<cluster, capability, history>>

\* A kubectl command or the audit log fails, the context ends or the process dies.
OperatorStops(o) ==
    /\ op[o].at # "idle"
    /\ Ends(o)
    /\ UNCHANGED <<cluster, capability, history>>

\* BootstrapNamespace: only an absent Namespace is created.
BootstrapNamespace(o) ==
    /\ op[o].at = "idle" /\ namespace.phase = "absent" /\ lastUID < MaxUID
    /\ namespace' = [uid |-> lastUID + 1, nonce |-> lastUID + 1, phase |-> "active"]
    /\ lastUID' = lastUID + 1
    /\ \E r \in Rendering :
          op' = [op EXCEPT ![o] = [Idle1 EXCEPT !.at = "bootstrapped", !.act = "bootstrap",
                    !.cap = [uid |-> lastUID', nonce |-> lastUID', render |-> r, deleted |-> 0]]]
    /\ UNCHANGED <<objects, secret, providers, schema, journal, capability, history>>

\* The file is created exclusively, after the audit record.
WriteBootstrapAuthority(o) ==
    /\ op[o].at = "bootstrapped"
    /\ IF capability = NoCapability
       THEN capability' = op[o].cap /\ Ends(o)
       ELSE UNCHANGED capability /\ Ends(o)
    /\ UNCHANGED <<cluster, history>>

\* Bootstrap, with its intent validated and the created Namespace observed again.
Bootstrap(o) == BootstrapNamespace(o) \/ WriteBootstrapAuthority(o)

------------------------------------------------------------------------------
(* Apply, reconcile and rollback *)

NextPlace(o) ==
    CASE op[o].at = "apply" /\ op[o].act = "rollback" -> "audit"
      [] op[o].at = "apply" -> "migrate"
      [] op[o].at = "migrate" /\ op[o].act = "rollback" -> "apply"
      [] op[o].at = "migrate" /\ op[o].act = "reconcile" -> "providers"
      [] op[o].at = "migrate" -> "post"
      [] op[o].at = "post" -> "providers"
      [] op[o].at = "providers" -> "audit"

\* Server-side apply: some of the objects may be made before it fails.
Apply(o) ==
    /\ op[o].at = "apply" /\ verifyBootstrapAuthority(o) /\ namespace.phase = "active"
    /\ \E applied \in SUBSET Resource :
          LET made == {x \in applied : objects[x] = Absent} IN
          /\ made # {} => lastUID < MaxUID
          /\ lastUID' = IF made = {} THEN lastUID ELSE lastUID + 1
          /\ objects' = [x \in Resource |->
                            IF x \in made THEN [uid |-> lastUID', in |-> namespace.uid] ELSE objects[x]]
          /\ IF applied = Resource THEN Moves(o, NextPlace(o)) ELSE Ends(o)
    /\ UNCHANGED <<namespace, secret, providers, schema, journal, capability, history>>

\* Diff: reconciliation applies only when the cluster differs from the manifests.
Reconcile(o) ==
    /\ op[o].at = "diff"
    /\ Moves(o, IF \E x \in Resource : objects[x] = Absent THEN "apply" ELSE "providers")
    /\ UNCHANGED <<cluster, capability, history>>

Artifact(o) == declared.migrations[op[o].cap.render][Head(op[o].todo)]
Skips(o) == op' = [op EXCEPT ![o].todo = Tail(@)]
PlainVersion == declared.journalled = FALSE

\* migrationRecorded or legacyMigrationRecorded: the read before the SQL.
observeMigration(o) ==
    LET v == Head(op[o].todo) IN
    /\ op[o].at = "migrate" /\ op[o].todo # <<>>
    /\ \A x \in Resource : objects[x] # Absent
    /\ CASE op[o].act = "rollback" -> Moves(o, "execute")
         [] PlainVersion -> IF v > 1 /\ schema[v] # "none" THEN Skips(o) ELSE Moves(o, "execute")
         [] journal[v] = Artifact(o) -> Skips(o)
         [] journal[v] = "none" -> Moves(o, "execute")
         [] OTHER -> Ends(o)
    /\ UNCHANGED <<cluster, capability, history>>

\* Artifact and journal row in one transaction, aborted by another digest's row.
journalUpgradeSQL(v, digest) ==
    /\ journal[v] \in {"none", digest}
    /\ schema' = [schema EXCEPT ![v] = digest]
    /\ journal' = [journal EXCEPT ![v] = digest]

journalRollbackSQL(v, digest) ==
    /\ journal[v] \in {"none", digest}
    /\ schema' = [schema EXCEPT ![v] = "none"]
    /\ journal' = [journal EXCEPT ![v] = "none"]

\* runMigrations: authority is verified, then psql runs; its answer may be lost.
runMigrations(o) ==
    LET v == Head(op[o].todo) IN
    /\ op[o].at = "execute" /\ verifyBootstrapAuthority(o)
    /\ \A x \in Resource : objects[x] # Absent
    /\ CASE ~PlainVersion /\ op[o].act # "rollback" -> journalUpgradeSQL(v, Artifact(o))
         [] ~PlainVersion -> journalRollbackSQL(v, Artifact(o))
         [] OTHER -> /\ schema' = [schema EXCEPT ![v] = IF op[o].act = "rollback" THEN "none"
                                                        ELSE Artifact(o)]
                     /\ UNCHANGED journal
    /\ \/ op' = [op EXCEPT ![o].at = "migrate", ![o].todo = Tail(@)]
       \/ Ends(o)
    /\ UNCHANGED <<namespace, objects, secret, providers, lastUID, capability, history>>

MigrationsDone(o) ==
    /\ op[o].at = "migrate" /\ op[o].todo = <<>>
    /\ Moves(o, NextPlace(o))
    /\ UNCHANGED <<cluster, capability, history>>

\* ApplyPostMigration: the suspended Jobs are resumed and awaited.
ApplyPostMigration(o) ==
    /\ op[o].at = "post" /\ verifyBootstrapAuthority(o)
    /\ Moves(o, NextPlace(o))
    /\ UNCHANGED <<cluster, capability, history>>

\* ReconcileOrchestration: described, then created or its retention corrected; a
\* create that finds the namespace made meanwhile corrects it too.
ReconcileOrchestration == providers' = [providers EXCEPT !.temporal = "declared"]

\* ReconcileDeclared: the Secret is verified, the rest made or verified, one by one.
ReconcileDeclared(o) ==
    /\ op[o].at = "providers" /\ verifyBootstrapAuthority(o)
    /\ secret.in = namespace.uid
    /\ \A x \in Resource : objects[x] # Absent
    /\ \/ providers.temporal # "declared" /\ ReconcileOrchestration /\ UNCHANGED op
       \/ ~providers.bucket /\ providers' = [providers EXCEPT !.bucket = TRUE] /\ UNCHANGED op
       \/ /\ providers.temporal = "declared" /\ providers.bucket /\ UNCHANGED providers
          /\ Moves(o, NextPlace(o))
    /\ UNCHANGED <<namespace, objects, secret, schema, journal, lastUID, capability, history>>

recordAudit(o) ==
    /\ op[o].at = "audit" /\ Ends(o)
    /\ UNCHANGED <<cluster, capability, history>>

------------------------------------------------------------------------------
(* The capability file *)

\* Transition: the authority is verified and the file must still be the one read ...
Transition(o) ==
    /\ op[o].at = "rebind" /\ verifyBootstrapAuthority(o)
    /\ IF capability = op[o].cap THEN Moves(o, "rename") ELSE Ends(o)
    /\ UNCHANGED <<cluster, capability, history>>

\* ... TransitionBootstrapAuthority then renames a temporary file over it.
TransitionBootstrapAuthority(o) ==
    /\ op[o].at = "rename"
    /\ capability' = [op[o].cap EXCEPT !.render = op[o].to]
    /\ raced' = (raced \/ capability # op[o].cap)
    /\ Ends(o)
    /\ UNCHANGED <<cluster, wrong, declared>>

\* The progress of a Secret's deletion is written in place: a crash tears the file.
RecordDeletedSecret(o) ==
    /\ op[o].at = "record"
    /\ IF capability.uid = op[o].cap.uid /\ capability.render = op[o].cap.render
          /\ capability.deleted \in {0, secret.uid} /\ secret.uid # 0
       THEN \/ /\ capability' = [capability EXCEPT !.deleted = secret.uid]
               /\ op' = [op EXCEPT ![o].at = "secret", ![o].plan = <<secret.uid>>]
            \/ capability' = Torn /\ Ends(o)
       ELSE UNCHANGED capability /\ Ends(o)
    /\ UNCHANGED <<cluster, history>>

RemoveBootstrapAuthority(o) ==
    /\ op[o].at = "remove"
    /\ capability' = IF capability = Torn THEN capability ELSE NoCapability
    /\ Ends(o)
    /\ UNCHANGED <<cluster, history>>

------------------------------------------------------------------------------
(* Teardown *)

\* A Secret that is gone is accepted only when the capability says it was deleted.
preflightLocalGeneratedSecretDelete(o) ==
    IF secret = Absent THEN op[o].cap.deleted # 0
    ELSE secret.in = namespace.uid /\ op[o].cap.deleted \in {0, secret.uid}

\* TeardownDeclared: all the preflights, then the bucket and the Temporal namespace,
\* which need their workloads, then the Secret.
TeardownDeclared(o) ==
    /\ op[o].at = "preflight"
    /\ IF ~verifyBootstrapAuthority(o) \/ ~preflightLocalGeneratedSecretDelete(o)
       THEN (IF verifyBootstrapAuthority(o) THEN Refuses(o) ELSE Ends(o)) /\ UNCHANGED providers
       ELSE IF \E x \in Resource : objects[x] = Absent
       THEN Refuses(o) /\ UNCHANGED providers
       ELSE /\ providers' = [temporal |-> "none", bucket |-> FALSE]
            /\ Moves(o, IF secret = Absent THEN "plan" ELSE "record")
    /\ UNCHANGED <<namespace, objects, secret, schema, journal, lastUID, capability, history>>

\* deleteVerifiedSecret: the UID is a precondition; the answer may be lost.
deleteVerifiedSecret(o) ==
    /\ op[o].at = "secret" /\ secret.uid = op[o].plan[1]
    /\ secret' = Absent
    /\ Moves(o, "plan") \/ Ends(o)
    /\ UNCHANGED <<namespace, objects, providers, schema, journal, lastUID, capability, history>>

\* Teardown, observeState and PlanKubernetesTeardown: every object must be there.
planTeardown(o) ==
    /\ op[o].at = "plan"
    /\ IF ~verifyBootstrapAuthority(o) THEN Ends(o)
       ELSE IF \E x \in Resource : objects[x] = Absent THEN Refuses(o)
       ELSE op' = [op EXCEPT ![o].at = "delete", ![o].plan = [x \in Resource |-> objects[x].uid],
                             ![o].todo = reverseDependencyOrder(declared.dependsOn)]
    /\ UNCHANGED <<cluster, capability, history>>


\* The object is read again and deleted with its UID as precondition.
deleteObserved(o, x) == objects[x] # Absent /\ objects[x].uid = op[o].plan[x]

TeardownObject(o) ==
    LET x == Head(op[o].todo) IN
    /\ op[o].at = "delete" /\ op[o].todo # <<>>
    /\ deleteObserved(o, x)
    /\ objects' = [objects EXCEPT ![x] = Absent]
    /\ wrong' = IF objects[x] = [uid |-> op[o].plan[x], in |-> op[o].cap.uid] THEN wrong ELSE wrong \cup {x}
    /\ Skips(o) \/ Ends(o)
    /\ UNCHANGED <<namespace, secret, providers, schema, journal, lastUID, capability, raced, declared>>

\* The empty Namespace is deleted with its UID as precondition; finalizers may hold it.
TeardownNamespace(o) ==
    /\ op[o].at = "delete" /\ op[o].todo = <<>>
    /\ namespace.uid = op[o].cap.uid
    /\ secret = Absent /\ \A x \in Resource : objects[x] = Absent   \* verifyNamespaceEmpty
    /\ namespace' = [namespace EXCEPT !.phase = "terminating"]
    /\ Moves(o, "wait")
    /\ UNCHANGED <<objects, secret, providers, schema, journal, lastUID, capability, history>>

\* The wait succeeds when the Namespace is gone; until then it may time out.
AwaitDeletion(o) ==
    /\ op[o].at = "wait" /\ namespace.uid # op[o].cap.uid
    /\ Moves(o, "remove")
    /\ UNCHANGED <<cluster, capability, history>>

------------------------------------------------------------------------------
(* The rest of the cluster *)

\* External: the garbage collector finishes the deletion of the Namespace.
NamespaceIsGone ==
    /\ namespace.phase = "terminating"
    /\ namespace' = NoNamespace
    /\ schema' = [v \in Version |-> "none"] /\ journal' = [v \in Version |-> "none"]
    /\ UNCHANGED <<objects, secret, providers, lastUID, capability, op, history>>

\* External: someone deletes the Namespace with everything in it.
NamespaceDeletedElsewhere ==
    /\ namespace.phase = "active"
    /\ namespace' = NoNamespace /\ objects' = [x \in Resource |-> Absent] /\ secret' = Absent
    /\ schema' = [v \in Version |-> "none"] /\ journal' = [v \in Version |-> "none"]
    /\ providers' = [temporal |-> "none", bucket |-> FALSE]
    /\ UNCHANGED <<lastUID, capability, op, history>>

\* External: the declared Secret controller populates the Secret once per Namespace.
SecretGenerated ==
    /\ namespace.phase = "active" /\ secret = Absent /\ lastUID < MaxUID
    /\ capability.deleted = 0
    /\ \A x \in Resource : objects[x] = Absent
    /\ secret' = [uid |-> lastUID + 1, in |-> namespace.uid] /\ lastUID' = lastUID + 1
    /\ UNCHANGED <<namespace, objects, providers, schema, journal, capability, op, history>>

\* External: a controller replaces an object, or corrects the Temporal namespace.
ObjectReplaced ==
    /\ namespace.phase = "active" /\ lastUID < MaxUID
    /\ \E x \in Resource :
          /\ objects[x] # Absent
          /\ objects' = [objects EXCEPT ![x].uid = lastUID + 1]
    /\ lastUID' = lastUID + 1
    /\ UNCHANGED <<namespace, secret, providers, schema, journal, capability, op, history>>

StackInit ==
    /\ \E deps \in [Resource -> SUBSET Resource], journalled \in BOOLEAN,
          migrations \in [Rendering -> {<<>>, <<"a">>, <<"a", "b">>, <<"c">>}] :
          /\ validateDependencyGraph(deps)
          /\ declared = [dependsOn |-> deps, migrations |-> migrations, journalled |-> journalled]
    /\ namespace = NoNamespace /\ objects = [x \in Resource |-> Absent] /\ secret = Absent
    /\ providers = [temporal |-> "none", bucket |-> FALSE]
    /\ schema = [v \in Version |-> "none"] /\ journal = [v \in Version |-> "none"]
    /\ capability = NoCapability
    /\ op = [o \in Operator |-> Idle1]
    /\ wrong = {} /\ raced = FALSE /\ lastUID = 0

Actions == {"apply", "reconcile", "providers", "rollback", "transition", "teardown"}

\* A step of an operator that runs only the given actions.
OperatorStep(o, acts) ==
    \/ BeginAction(o, acts) \/ OperatorStops(o) \/ Bootstrap(o) \/ Apply(o) \/ Reconcile(o)
    \/ observeMigration(o) \/ runMigrations(o) \/ MigrationsDone(o) \/ ApplyPostMigration(o)
    \/ ReconcileDeclared(o) \/ recordAudit(o) \/ Transition(o) \/ TransitionBootstrapAuthority(o)
    \/ RecordDeletedSecret(o) \/ RemoveBootstrapAuthority(o) \/ TeardownDeclared(o)
    \/ deleteVerifiedSecret(o) \/ planTeardown(o) \/ TeardownObject(o) \/ TeardownNamespace(o)
    \/ AwaitDeletion(o)

ClusterStep == NamespaceIsGone \/ NamespaceDeletedElsewhere \/ SecretGenerated \/ ObjectReplaced

StackNext == ClusterStep \/ \E o \in Operator : OperatorStep(o, Actions)

------------------------------------------------------------------------------
\* A teardown deletes only objects it observed in the Namespace its capability was made
\* for, whatever is replaced between its reads and its deletes.
DeletesOnlyItsOwn == wrong = {}

\* A teardown under way has deleted no resource that another, still present one of its
\* plan depends on, for every dependency graph a document may declare.
DependentsGoFirst ==
    \A o \in Operator : op[o].at = "delete" =>
        \A i, j \in DOMAIN op[o].todo :
            (i < j) => (op[o].todo[i] \notin declared.dependsOn[op[o].todo[j]])

\* The migration journal and the artifact in effect agree at every version, over
\* concurrent operators with conflicting documents, rollbacks and lost answers.
MigrationJournalIsTrue == declared.journalled => schema = journal

\* A Secret a teardown has deleted from a Namespace that is still there is recorded in
\* the capability (unless a crash tore the file or a concurrent transition replaced it),
\* so that the retry passes over it.
SecretDeletionResumes ==
    \A o \in Operator :
        (op[o].at \in {"plan", "delete"} /\ namespace.uid = op[o].cap.uid /\ ~raced
           /\ capability.uid = op[o].cap.uid)
           => (capability.deleted # 0 \/ op[o].cap.deleted # 0)

=============================================================================
