------------------------- MODULE ResourceProjection -------------------------
(* What callers read of their sandboxes, processes, volumes and snapshots
   (sandboxcontrol/postgres_resource_read_model.go and resource_read_model.go),
   kept beside the operations that change them.

   A transaction writes an operation, the projection of the resource it targets
   and one outbox record, and commits them together;
   the rows it wrote are locked until it ends.  Readers see what has been
   committed: one row, one page of volumes, or the next records of one operation. *)
EXTENDS FiniteSets, Integers, Sequences, SequencesExt

CONSTANTS
    ProjectedOperation, \* operation ids of one principal
    Resources,          \* resource ids are 1..Resources, in the order of their strings
    Metadata,           \* complete metadata of a resource
    PageLimit,          \* page.Limit
    MaxOperationVersion \* bound: versions of one operation

VARIABLES
    operationRows,  \* committed runtime.sandbox_operations rows
    projections, \* committed runtime.sandbox_resource_projections rows
    published,   \* committed runtime.sandbox_operation_outbox rows
    open,        \* per operation, the transaction that holds its row
    lister,      \* a caller walking ListVolumes
    follower,    \* per operation, the versions a caller following its events was shown
    viewed       \* per resource, the row a caller last read

projectionVars == <<operationRows, projections, published, open, lister, follower, viewed>>

Resource == 1..Resources
NoTransaction == [open |-> FALSE]
NoRow == [operation |-> "none", version |-> 0, body |-> "none"]

\* What an operation was admitted to do: replace the snapshot of one resource.
NewResourceProjectionBinding(r, body) == [resource |-> r, admitted |-> body]
sameResourceProjectionBinding(left, right) == left = right

ProjectionInit ==
    /\ operationRows = [o \in ProjectedOperation |->
                        [state |-> "none", version |-> 0, binding |-> NewResourceProjectionBinding(0, "none")]]
    /\ projections = [r \in Resource |-> NoRow]
    /\ published = {}
    /\ open = [o \in ProjectedOperation |-> NoTransaction]
    /\ lister = [at |-> "idle", cursor |-> 0, items |-> <<>>, owed |-> {}]
    /\ follower = [o \in ProjectedOperation |-> <<>>]
    /\ viewed = [r \in Resource |-> NoRow]

Readers == <<lister, follower, viewed>>

-----------------------------------------------------------------------------
(* The writers *)

\* The rows of the resources that have one.
Projected == {r \in Resource : projections[r] # NoRow}

\* SELECT ... FOR UPDATE, and INSERT ... ON CONFLICT against an open insert, wait.
lockedOperation(o) == ~open[o].open

\* The upsert waits for the transaction that wrote the row.
RowIsFree(r) == \A o \in ProjectedOperation : ~(open[o].open /\ open[o].writes /\ open[o].operation.binding.resource = r)

upsertResourceProjection(o) ==
    LET t == open[o]
    IN IF t.writes
       THEN [projections EXCEPT ![t.operation.binding.resource] =
                [operation |-> o, version |-> t.operation.version, body |-> t.body]]
       ELSE projections

\* The transaction has run its statements: the last one is insertOutbox.
insertOutbox(o, operation, writes, body) ==
    /\ open' = [open EXCEPT ![o] = [open |-> TRUE, operation |-> operation, writes |-> writes,
                                    body |-> body]]
    /\ UNCHANGED <<operationRows, projections, published, Readers>>

\* A transaction that changes nothing: it only answers.
Answers == UNCHANGED projectionVars

resourceProjectionMatches(r, body) == projections[r].body = body

\* An accepted operation is reissued: it reconnects and overwrites nothing.
Reissued(o, r, body) ==
    /\ operationRows[o].state \notin {"none", "tombstoned"}
    /\ sameResourceProjectionBinding(operationRows[o].binding, NewResourceProjectionBinding(r, body))
    /\ operationRows[o].version = 1 => resourceProjectionMatches(r, body)
    /\ Answers

\* ErrOperationIDExpired, or ErrConflict: another input under this id, or the first
\* snapshot is no longer the one that is projected.
AcceptRefused(o, r, body) ==
    /\ operationRows[o].state # "none"
    /\ \/ operationRows[o].state = "tombstoned"
       \/ ~sameResourceProjectionBinding(operationRows[o].binding, NewResourceProjectionBinding(r, body))
       \/ operationRows[o].version = 1 /\ ~resourceProjectionMatches(r, body)
    /\ Answers

\* A new operation; the binding names its target and the digest of exactly this body.
Inserted(o, r, body) ==
    /\ operationRows[o].state = "none"
    /\ RowIsFree(r)
    /\ insertOutbox(o, [state |-> "accepted", version |-> 1, binding |-> NewResourceProjectionBinding(r, body)], TRUE, body)

acceptProjection(o, r, body) ==
    /\ lockedOperation(o)
    /\ Inserted(o, r, body) \/ Reissued(o, r, body) \/ AcceptRefused(o, r, body)

\* AcceptSandbox, AcceptProcess and AcceptVolume differ in the kind they bind.
AcceptResource(o, r, body) == acceptProjection(o, r, body)

\* permits, with the host's states between dispatch and an outcome folded into "dispatched".
projectionPermits(state) ==
    CASE state = "accepted" -> {"dispatched", "cancelled"}
      [] state = "dispatched" -> {"succeeded", "uncertain"}
      [] state = "uncertain" -> {"dispatched", "succeeded"}
      [] state \in {"cancelled", "succeeded"} -> {"tombstoned"}
      [] OTHER -> {}

Advanced(o, next) == [operationRows[o] EXCEPT !.state = next, !.version = @ + 1]

\* The version the caller read is still the current one.
CurrentVersion(o, version) ==
    /\ lockedOperation(o)
    /\ operationRows[o].version = version
    /\ version \in 1..MaxOperationVersion - 1

transitionProjection(o, version, next, body) ==
    /\ CurrentVersion(o, version)
    /\ next \in projectionPermits(operationRows[o].state)
    /\ RowIsFree(operationRows[o].binding.resource)
    /\ insertOutbox(o, Advanced(o, next), TRUE, body)

\* TransitionSandbox, TransitionProcess, TransitionVolume.
TransitionResource(o, version, next, body) == transitionProjection(o, version, next, body)

\* The ledger's own Transition advances the operation and leaves the projection.
ledgerTransition(o, version, next) ==
    /\ CurrentVersion(o, version)
    /\ next \in projectionPermits(operationRows[o].state)
    /\ insertOutbox(o, Advanced(o, next), FALSE, "none")

Commits(o) ==
    /\ open[o].open
    /\ operationRows' = [operationRows EXCEPT ![o] = open[o].operation]
    /\ projections' = upsertResourceProjection(o)
    /\ published' = published \cup {[operation |-> o, version |-> open[o].operation.version]}
    /\ open' = [open EXCEPT ![o] = NoTransaction]
    /\ UNCHANGED Readers

\* Rolled back: a serialization failure, a lost connection, a stopped process.
RollsBack(o) ==
    /\ open[o].open
    /\ open' = [open EXCEPT ![o] = NoTransaction]
    /\ UNCHANGED <<operationRows, projections, published, Readers>>

-----------------------------------------------------------------------------
(* The readers *)

readResourceProjection(r) == projections[r]

\* GetSandbox, GetProcess, GetVolume: one committed row, or ErrNotFoundOrDenied.
ReadResource(r) ==
    /\ readResourceProjection(r) # NoRow
    /\ viewed' = [viewed EXCEPT ![r] = readResourceProjection(r)]
    /\ UNCHANGED <<operationRows, projections, published, open, lister, follower>>

Ascending(ids) == SetToSortSeq(ids, <)

\* The SQL page: one row more than the limit tells whether there is a next page.
VolumePage(cursor) ==
    LET rows == Ascending({r \in Projected : r > cursor})
        items == SubSeq(rows, 1, IF Len(rows) < PageLimit THEN Len(rows) ELSE PageLimit)
    IN [items |-> items, next |-> IF Len(rows) > PageLimit THEN items[PageLimit] ELSE 0]

\* The first index whose id is after the cursor; an empty cursor is 0.
projectionCursorStart(cursor, ids) ==
    IF cursor = 0 THEN 0 ELSE Cardinality({i \in DOMAIN ids : ids[i] <= cursor})

\* The in-memory page: a slice of the sorted ids.
pageVolumes(cursor) ==
    LET ids == Ascending(Projected)
        start == projectionCursorStart(cursor, ids)
        end == IF start + PageLimit > Len(ids) THEN Len(ids) ELSE start + PageLimit
    IN [items |-> SubSeq(ids, start + 1, end), next |-> IF end < Len(ids) THEN ids[end] ELSE 0]

\* A caller lists its volumes from the start ...
BeginsListing ==
    /\ lister.at = "idle"
    /\ lister' = [at |-> "paging", cursor |-> 0, items |-> <<>>, owed |-> Projected]
    /\ UNCHANGED <<operationRows, projections, published, open, follower, viewed>>

\* ... and asks for the next page while there is one.
ListVolumes ==
    /\ lister.at = "paging"
    /\ LET page == VolumePage(lister.cursor)
       IN lister' = [lister EXCEPT !.items = @ \o page.items, !.cursor = page.next,
                                   !.at = IF page.next = 0 THEN "listed" ELSE "paging"]
    /\ UNCHANGED <<operationRows, projections, published, open, follower, viewed>>

\* The versions of one operation's records after the last one shown, in their order.
Records(o, after) == Ascending({e.version : e \in {e \in published : e.operation = o /\ e.version > after}})

ReadOperationOutbox(o) ==
    LET shown == follower[o]
        more == Records(o, IF shown = <<>> THEN 0 ELSE Last(shown))
    IN /\ more # <<>>
       /\ follower' = [follower EXCEPT ![o] = shown \o SubSeq(more, 1, IF Len(more) < PageLimit THEN Len(more) ELSE PageLimit)]
       /\ UNCHANGED <<operationRows, projections, published, open, lister, viewed>>

-----------------------------------------------------------------------------
ProjectionAccepts ==
    \E o \in ProjectedOperation :
        \/ \E r \in Resource, body \in Metadata : AcceptResource(o, r, body)
        \/ Commits(o)
        \/ RollsBack(o)

ProjectionWrites ==
    \/ ProjectionAccepts
    \/ \E o \in ProjectedOperation :
        \E version \in 1..MaxOperationVersion, next \in {"dispatched", "cancelled", "succeeded", "uncertain", "tombstoned"} :
            \/ \E body \in Metadata : TransitionResource(o, version, next, body)
            \/ ledgerTransition(o, version, next)

Lists == BeginsListing \/ ListVolumes
Follows == \E o \in ProjectedOperation : ReadOperationOutbox(o)
Views == \E r \in Resource : ReadResource(r)

-----------------------------------------------------------------------------
\* A projection shows no more than its operation has reached, and what a caller read of
\* an operation's work is never replaced by an earlier state of the same operation: a
\* reissued acceptance does not undo what was projected after it.
NothingIsUndone ==
    \A r \in Resource :
        LET row == projections[r]
        IN /\ row # NoRow => row.version <= operationRows[row.operation].version
           /\ viewed[r].operation = row.operation => viewed[r].version <= row.version

\* A listing that reached its last page named every volume that existed when it began,
\* each once and in order, whatever was created meanwhile; the in-memory page and the
\* SQL page are the same.
ListingIsComplete ==
    /\ lister.at = "listed" => lister.owed \subseteq ToSet(lister.items)
    /\ \A i, j \in DOMAIN lister.items : i < j => lister.items[i] < lister.items[j]
    /\ \A cursor \in 0..Resources : pageVolumes(cursor) = VolumePage(cursor)

\* Following one operation by its versions skips no record and shows none that
\* was not committed, whichever transactions failed between two reads.
FollowersMissNothing ==
    \A o \in ProjectedOperation :
        /\ follower[o] = [i \in 1..Len(follower[o]) |-> i]
        /\ \A e \in published : e.operation = o => e.version <= operationRows[o].version
        /\ Len(follower[o]) <= operationRows[o].version

\* What the read model promises its callers (acceptProjection, transitionProjection,
\* ListVolumes, ReadOperationOutbox).
ProjectionsAreTruthful == NothingIsUndone /\ ListingIsComplete /\ FollowersMissNothing
=============================================================================
