----------------------------- MODULE Retention ------------------------------
(***************************************************************************)
(* The lifecycle of immutable content of one tenant: requests stage an     *)
(* object and then commit a record that refers to it; an operator collects *)
(* expired records or erases the tenant.  Metadata is removed and the      *)
(* intent to delete objects recorded in one transaction; the objects are   *)
(* deleted in a second one, which holds the lock of the tenant, so that an *)
(* uncertain deletion leaves the intent for a retry.                       *)
(*                                                                         *)
(* A reference is a digest and a media type; the key of an object is the   *)
(* digest alone.                                                           *)
(***************************************************************************)
EXTENDS Integers, FiniteSets

CONSTANTS
    Digest, Media,
    RevisionMedia, DescriptorMedia,     \* of Agent revisions and of tool intents
    Authorized,     \* actions the authorizer accepts
    Writer,         \* requests that stage content and commit a record of it
    Operator,       \* lifecycle requests
    NoReference,
    MaxRecords,     \* bound on the records ever committed
    MaxDeletionFaults   \* bound on failed deletions and lost operators

ASSUME RetentionAssumption ==
    /\ MaxRecords \in Nat
    /\ MaxDeletionFaults \in Nat
    /\ Authorized \subseteq {"collect_expired", "erase_tenant"}

VARIABLES
    records,    \* revisions, other content, and tool descriptors
    expired,    \* identities of records past their retention
    sessions,   \* identities of the revisions that Sessions name
    tenant,     \* the catalog row and the retention job exist
    pending,    \* references in pending_content_deletions
    objects,    \* digests in the object store
    staged,     \* the reference a request has staged
    pc, todo,   \* of a lifecycle request: its place, and what it still has to delete
    left,       \* history: digests dropped without an intent to delete them
    created, deletionFaults

metadata == <<records, expired, sessions, tenant>>
retentionVars == <<metadata, pending, objects, staged, pc, todo, left, created, deletionFaults>>

Reference == [digest : Digest, media : Media]
ContentRecord == [id : 1..MaxRecords, ref : Reference]

IsRevision(r) == r.ref.media = RevisionMedia
IsDescriptor(r) == r.ref.media = DescriptorMedia

Digests(refs) == {ref.digest : ref \in refs}
References(rs) == {r.ref : r \in rs}

RetentionInit ==
    /\ records = {} /\ expired = {} /\ sessions = {} /\ tenant = FALSE
    /\ pending = {} /\ objects = {}
    /\ staged = [w \in Writer |-> NoReference]
    /\ pc = [o \in Operator |-> "idle"] /\ todo = [o \in Operator |-> {}]
    /\ left = {} /\ created = 0 /\ deletionFaults = 0

\* The lock of the tenant, held across steps by a reconciliation only.
Unlocked == \A o \in Operator : pc[o] # "delete"

(***************************************************************************)
(* Requests.                                                               *)
(***************************************************************************)
\* putVerified: the object is written unless it is there.
Stage(w) ==
    /\ staged[w] = NoReference
    /\ created < MaxRecords
    /\ \E ref \in Reference :
          /\ staged' = [staged EXCEPT ![w] = ref]
          /\ objects' = objects \cup {ref.digest}
    /\ UNCHANGED <<metadata, pending, pc, todo, left, created, deletionFaults>>

\* The command that refers to the staged object commits; the first one of a tenant
\* creates its catalog row and its retention job.
CommitRecord(w) ==
    /\ staged[w] # NoReference
    /\ Unlocked
    /\ created < MaxRecords
    /\ created' = created + 1
    /\ records' = records \cup {[id |-> created + 1, ref |-> staged[w]]}
    /\ tenant' = TRUE
    /\ staged' = [staged EXCEPT ![w] = NoReference]
    /\ UNCHANGED <<expired, sessions, pending, objects, pc, todo, left, deletionFaults>>

\* The command is refused, or its caller is gone: the object stays.
Abandon(w) ==
    /\ staged[w] # NoReference
    /\ staged' = [staged EXCEPT ![w] = NoReference]
    /\ left' = left \cup {staged[w].digest}
    /\ UNCHANGED <<metadata, pending, objects, pc, todo, created, deletionFaults>>

\* createSession names a revision of the state.
CreateSession(r) ==
    /\ Unlocked
    /\ IsRevision(r)
    /\ sessions' = sessions \cup {r.id}
    /\ UNCHANGED <<records, expired, tenant, pending, objects, staged, pc, todo, left, created, deletionFaults>>

ExpireRecord(r) ==
    /\ expired' = expired \cup {r.id}
    /\ UNCHANGED <<records, sessions, tenant, pending, objects, staged, pc, todo, left, created, deletionFaults>>

(***************************************************************************)
(* Lifecycle requests.                                                     *)
(***************************************************************************)
\* A collector that does not look at Sessions.
RemovableUnpinned == {r \in records : ~IsDescriptor(r) /\ r.id \in expired}

\* compactExpiredContentMetadata; descriptors belong to tool intents, which stay.
Removable ==
    {r \in records :
        /\ ~IsDescriptor(r)
        /\ r.id \in expired
        /\ IsRevision(r) => r.id \notin sessions}

\* stateReferences.
StateReferences(rs) == References({r \in rs : ~IsDescriptor(r)})


\* unreferenced(candidates, referenceSet(stateReferences(compacted))).
Unreferenced(removed) == References(removed) \ StateReferences(records \ removed)

\* CollectExpiredAndContent up to its commit.
CollectExpired(o) ==
    /\ pc[o] = "idle"
    /\ "collect_expired" \in Authorized
    /\ Unlocked
    /\ tenant
    /\ records' = records \ Removable
    /\ pending' = pending \cup Unreferenced(Removable)
    /\ pc' = [pc EXCEPT ![o] = "reconcile"]
    /\ UNCHANGED <<expired, sessions, tenant, objects, staged, todo, left, created, deletionFaults>>

\* An erasure that is refused once the tenant is gone.
EraseTenantAndContentOnce(o) ==
    /\ pc[o] = "idle"
    /\ "erase_tenant" \in Authorized
    /\ Unlocked
    /\ tenant
    /\ pending' = pending \cup StateReferences(records)
    /\ left' = left \cup Digests(References(records) \ StateReferences(records))
    /\ records' = {} /\ sessions' = {} /\ tenant' = FALSE
    /\ pc' = [pc EXCEPT ![o] = "reconcile"]
    /\ UNCHANGED <<expired, objects, staged, todo, created, deletionFaults>>

\* EraseTenantAndContent up to its commit; without a tenant it is accepted as long
\* as intents are pending.
EraseTenantAndContent(o) ==
    /\ pc[o] = "idle"
    /\ "erase_tenant" \in Authorized
    /\ Unlocked
    /\ tenant \/ StateReferences(records) # {} \/ pending # {}
    /\ pending' = pending \cup StateReferences(records)
    /\ left' = left \cup Digests(References(records) \ StateReferences(records))
    /\ records' = {} /\ sessions' = {} /\ tenant' = FALSE
    /\ pc' = [pc EXCEPT ![o] = "reconcile"]
    /\ UNCHANGED <<expired, objects, staged, todo, created, deletionFaults>>

\* EraseTenant: the metadata only; content is a separate operator action.
EraseTenant(o) ==
    /\ pc[o] = "idle"
    /\ "erase_tenant" \in Authorized
    /\ Unlocked
    /\ tenant
    /\ left' = left \cup Digests(References(records))
    /\ records' = {} /\ sessions' = {} /\ tenant' = FALSE
    /\ UNCHANGED <<expired, pending, objects, staged, pc, todo, created, deletionFaults>>

\* reconcilePendingContentDeletions takes the lock and reads the intents.
Reconcile(o) ==
    /\ pc[o] = "reconcile"
    /\ Unlocked
    /\ todo' = [todo EXCEPT ![o] = pending]
    /\ pc' = [pc EXCEPT ![o] = "delete"]
    /\ UNCHANGED <<metadata, pending, objects, staged, left, created, deletionFaults>>

\* TenantErasureController.Erase of one reference.
DeleteExact(o) ==
    /\ pc[o] = "delete"
    /\ \E ref \in todo[o] :
          /\ objects' = objects \ {ref.digest}
          /\ todo' = [todo EXCEPT ![o] = @ \ {ref}]
    /\ UNCHANGED <<metadata, pending, staged, pc, left, created, deletionFaults>>

\* The request ends early: the next object is deleted or not, no intent is cleared.
DeleteFails(o) ==
    /\ pc[o] # "idle"
    /\ deletionFaults < MaxDeletionFaults
    /\ deletionFaults' = deletionFaults + 1
    /\ \E gone \in SUBSET Digests(todo[o]) :
          Cardinality(gone) <= 1 /\ objects' = objects \ gone
    /\ pc' = [pc EXCEPT ![o] = "idle"]
    /\ todo' = [todo EXCEPT ![o] = {}]
    /\ UNCHANGED <<metadata, pending, staged, left, created>>

\* All objects are gone: the intents of the tenant are cleared.
FinishReconcile(o) ==
    /\ pc[o] = "delete"
    /\ todo[o] = {}
    /\ pending' = {}
    /\ pc' = [pc EXCEPT ![o] = "idle"]
    /\ UNCHANGED <<metadata, objects, staged, todo, left, created, deletionFaults>>

Lifecycle(o) ==
    \/ CollectExpired(o) \/ EraseTenantAndContent(o) \/ EraseTenant(o)
    \/ Reconcile(o) \/ DeleteExact(o) \/ DeleteFails(o) \/ FinishReconcile(o)

RetentionNext ==
    \/ \E w \in Writer : Stage(w) \/ CommitRecord(w) \/ Abandon(w)
    \/ \E r \in records : CreateSession(r)
    \/ \E r \in records : ExpireRecord(r)
    \/ \E o \in Operator : Lifecycle(o)

RetentionSpec == RetentionInit /\ [][RetentionNext]_retentionVars

\* An operator retries while intents are pending: a collection, or an erasure where
\* the tenant is gone.
Retry(o) ==
    /\ pending # {}
    /\ CollectExpired(o) \/ (~tenant /\ EraseTenantAndContent(o))

RetentionFairness ==
    \A o \in Operator :
        /\ SF_retentionVars(Retry(o))
        /\ SF_retentionVars(Reconcile(o))
        /\ WF_retentionVars(DeleteExact(o))
        /\ WF_retentionVars(FinishReconcile(o))

FairRetentionSpec == RetentionSpec /\ RetentionFairness

(***************************************************************************)
(* Properties.                                                             *)
(***************************************************************************)
\* Every variable has its type, one request at most is deleting, and it has only
\* pending references to delete.
RetentionTypeOK ==
    /\ records \subseteq ContentRecord
    /\ expired \subseteq 1..MaxRecords /\ sessions \subseteq 1..MaxRecords
    /\ tenant \in BOOLEAN
    /\ pending \subseteq Reference
    /\ objects \subseteq Digest /\ left \subseteq Digest
    /\ staged \in [Writer -> Reference \cup {NoReference}]
    /\ pc \in [Operator -> {"idle", "reconcile", "delete"}]
    /\ \A o \in Operator : todo[o] \subseteq pending
    /\ \A o, p \in Operator : pc[o] = "delete" /\ pc[p] = "delete" => o = p
    /\ created \in 0..MaxRecords /\ deletionFaults \in 0..MaxDeletionFaults

\* The revision that a Session names is never collected behind it.
SessionKeepsRevision ==
    \A id \in sessions : \E r \in records : r.id = id /\ IsRevision(r)

\* No object is forgotten by a collection or an erasure with content, wherever it
\* is interrupted: an object has a record, a pending intent or a request that has
\* staged it, unless it was dropped by a refused request or an erasure of metadata.
NothingIsForgotten ==
    \A d \in objects :
        \/ d \in Digests(References(records))
        \/ d \in Digests(pending)
        \/ \E w \in Writer : staged[w] # NoReference /\ staged[w].digest = d
        \/ d \in left


\* An intent to delete is carried out, however often deletions fail and whatever
\* becomes of the tenant, as long as an operator retries.
IntentIsCarriedOut ==
    \A ref \in Reference : ref \in pending ~> ref \notin pending

\* What the comment of LifecycleCollectExpired says: a collection removes only
\* unreferenced objects; here, none of a record whose reference is not marked.
UnmarkedIsKept ==
    [][\A r \in records : r.ref \notin pending => r.ref.digest \notin objects \ objects']_retentionVars

\* The same of a record whose reference was marked before the record was committed.
DeletedIsUnreferenced ==
    [][\A r \in records : r.ref.digest \notin objects \ objects']_retentionVars

\* Collection and erasure keep what is needed and forget nothing: a Session's revision
\* stays (removable revisions), and every object is referred to, intended for deletion,
\* being written or known to be left over (lifecycle deletion intents).
ContentIsAccounted == SessionKeepsRevision /\ NothingIsForgotten
=============================================================================
