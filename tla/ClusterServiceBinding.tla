----------------------- MODULE ClusterServiceBinding -----------------------
(***************************************************************************)
(* How the document of a cluster, node pool or external auth is bound to   *)
(* its object in Cluster Service, and unbound when it is deleted.          *)
(*                                                                         *)
(* A cluster's identity in Cluster Service is chosen by the backend and    *)
(* persisted before the POST that creates it; a nested resource's identity *)
(* follows from its name.  Five controllers work on the document, each     *)
(* with one sync at a time: assign (clusters only), create, dispatch (of   *)
(* the delete), clear (of the identity) and delete (of the document).      *)
(* They start from an informer cache, which may be arbitrarily old, read   *)
(* the live document, call Cluster Service and replace the document under  *)
(* the etag they read.  A POST whose caller has given up may still be      *)
(* carried out.                                                            *)
(***************************************************************************)
EXTENDS Integers, FiniteSets

CONSTANTS
    ID,                   \* identities of objects in Cluster Service
    NoID,                 \* no identity recorded
    Kinds,                \* the resource types the document may be of
    MaxETag,              \* bound: other writers replace the document below this etag
    MaxRestarts,          \* bound: restarts of the backend
    MaxAssignments,       \* bound: identities assign gives the document
    TimeoutOutlivesCreate \* do the 120 s wait and an uninstall outlast a create sync
                          \* (15 s of Cluster Service calls) and its POST?

ASSUME IDAssumption == NoID \notin ID /\ ID # {}
ASSUME KindsAssumption == Kinds \subseteq {"cluster", "nodepool", "externalauth"}
ASSUME BoundAssumption == MaxETag \in Nat /\ MaxRestarts \in Nat /\ MaxAssignments \in Nat
ASSUME TimeoutAssumption == TimeoutOutlivesCreate \in BOOLEAN

Controllers == {"assign", "create", "dispatch", "clear", "delete"}

VARIABLES
    document,   \* the resource document in Cosmos DB
    cache,      \* the copy of it in the backend's informer
    sync,       \* the sync of each controller
    firstSeen,  \* the dispatch's firstSeenDeletionTimestampCache
    posts,      \* identities of POSTs Cluster Service has not yet decided
    object,     \* the objects in Cluster Service
    restarts,   \* restarts of the backend so far
    assignments \* identities assign gave the document so far

vars == <<document, cache, sync, firstSeen, posts, object, restarts, assignments>>

NoSync == [phase |-> "idle", etag |-> 0, id |-> NoID]

Init ==
    /\ document \in [kind : Kinds, stored : {TRUE}, etag : {1}, deletionTimestamp : {FALSE},
                     pendingID : {NoID}, clusterServiceID : {NoID},
                     csDeletionTimestamp : {FALSE}]
    /\ cache = document
    /\ sync = [c \in Controllers |-> NoSync]
    /\ firstSeen = "never"
    /\ posts = {}
    /\ object = [i \in ID |-> "none"]
    /\ restarts = 0
    /\ assignments = 0

\* Controller c has no sync in flight.
Free(c) == sync[c].phase \in {"idle", "failed"}

\* Controller c moves to a phase with the live document's etag and identity id.
Reads(c, phase, id) ==
    sync' = [sync EXCEPT ![c] = [phase |-> phase, etag |-> document.etag, id |-> id]]

Ends(c) == sync' = [sync EXCEPT ![c] = NoSync]

\* Controller c replaces the document by new unless its copy is stale (412).
Replaces(c, new) ==
    /\ document' = IF document.stored /\ document.etag = sync[c].etag
                   THEN [new EXCEPT !.etag = @ + 1] ELSE document
    /\ Ends(c)

----------------------------------------------------------------------------
(* ClusterPendingClusterServiceIDAssign.                                    *)

NeedsAssignment(doc) ==
    /\ doc.kind = "cluster" /\ doc.stored /\ ~doc.deletionTimestamp
    /\ doc.pendingID = NoID /\ doc.clusterServiceID = NoID

\* needsWork is asked of the cached document only,
CheckToAssign ==
    /\ Free("assign")
    /\ NeedsAssignment(cache)
    /\ assignments < MaxAssignments
    /\ sync' = [sync EXCEPT !["assign"].phase = "checked"]
    /\ UNCHANGED <<document, cache, firstSeen, posts, object, restarts, assignments>>

\* and not again of the live one.
ReadToAssign ==
    /\ sync["assign"].phase = "checked"
    /\ IF document.stored THEN Reads("assign", "read", NoID) ELSE Ends("assign")
    /\ UNCHANGED <<document, cache, firstSeen, posts, object, restarts, assignments>>

\* A fresh identity; one the document never had.
AssignPendingID ==
    /\ sync["assign"].phase = "read"
    /\ \E i \in ID :
          /\ i \notin posts /\ object[i] = "none"
          /\ i \notin {document.pendingID, document.clusterServiceID}
          /\ \A c \in Controllers : sync[c].id # i
          /\ Replaces("assign", [document EXCEPT !.pendingID = i])
    /\ assignments' = IF document' = document THEN assignments ELSE assignments + 1
    /\ UNCHANGED <<cache, firstSeen, posts, object, restarts>>

----------------------------------------------------------------------------
(* The Cluster Service create controllers.                                  *)

NeedsCreationWithoutPendingID(doc) ==
    doc.stored /\ ~doc.deletionTimestamp /\ doc.clusterServiceID = NoID

NeedsCreation(doc) ==
    /\ doc.stored /\ ~doc.deletionTimestamp /\ doc.clusterServiceID = NoID
    /\ doc.kind = "cluster" => doc.pendingID # NoID

\* The identity the create controller gives an object: of a nested resource,
\* always the same one.
ObjectToCreate(doc) ==
    IF doc.kind = "cluster" THEN doc.pendingID ELSE CHOOSE i \in ID : TRUE

ReadToCreate ==
    /\ Free("create")
    /\ NeedsCreation(cache) /\ NeedsCreation(document)
    /\ Reads("create", "read", ObjectToCreate(document))
    /\ UNCHANGED <<document, cache, firstSeen, posts, object, restarts, assignments>>

Existing == {i \in ID : object[i] # "none"}

\* An object that is there is adopted; two of them are an error.
FindObject ==
    /\ sync["create"].phase = "read"
    /\ CASE Existing = {} -> sync' = [sync EXCEPT !["create"].phase = "absent"]
         [] Cardinality(Existing) > 1 -> Ends("create")
         [] OTHER -> \E i \in Existing :
                        sync' = [sync EXCEPT !["create"].phase = "found", !["create"].id = i]
    /\ UNCHANGED <<document, cache, firstSeen, posts, object, restarts, assignments>>

PostObject ==
    /\ sync["create"].phase = "absent"
    /\ posts' = posts \cup {sync["create"].id}
    /\ sync' = [sync EXCEPT !["create"].phase = "posted"]
    /\ UNCHANGED <<document, cache, firstSeen, object, restarts, assignments>>

\* The POST was refused.
PostFails ==
    /\ sync["create"].phase = "posted" /\ sync["create"].id \notin posts
    /\ Ends("create")
    /\ UNCHANGED <<document, cache, firstSeen, posts, object, restarts, assignments>>

RecordClusterServiceID ==
    /\ sync["create"].phase = "found"
    /\ Replaces("create", [document EXCEPT !.pendingID = NoID,
                                           !.clusterServiceID = sync["create"].id])
    /\ UNCHANGED <<cache, firstSeen, posts, object, restarts, assignments>>

----------------------------------------------------------------------------
(* The delete dispatch controllers.                                         *)

NeedsDispatch(doc) == doc.stored /\ doc.deletionTimestamp /\ ~doc.csDeletionTimestamp

NeverRecovers(doc) == FALSE

\* A POST may have been accepted and its answer, or the write that records it, lost.
recoverPendingDeletionTarget(doc) == doc.clusterServiceID = NoID /\ doc.pendingID # NoID

WaitsForever(elapsed) == FALSE

\* Has the dispatch waited for missingClusterServiceIDTimeout?
GivesUp(elapsed) == elapsed = "elapsed"

\* The live read, and what it leads to without a call of Cluster Service.
ReadToDispatch ==
    /\ Free("dispatch")
    /\ NeedsDispatch(cache) /\ NeedsDispatch(document)
    /\ firstSeen' = IF firstSeen = "never" THEN "seen" ELSE firstSeen
    /\ CASE recoverPendingDeletionTarget(document) -> Reads("dispatch", "recover", document.pendingID)
         [] document.clusterServiceID # NoID -> Reads("dispatch", "read", document.clusterServiceID)
         [] OTHER -> IF GivesUp(firstSeen) THEN Reads("dispatch", "dispatched", NoID)
                     ELSE Ends("dispatch")
    /\ UNCHANGED <<document, cache, posts, object, restarts, assignments>>

RecoverTarget ==
    /\ sync["dispatch"].phase = "recover"
    /\ Replaces("dispatch", [document EXCEPT !.pendingID = NoID,
                                             !.clusterServiceID = sync["dispatch"].id])
    /\ UNCHANGED <<cache, firstSeen, posts, object, restarts, assignments>>

\* The DELETE; a 404 counts once the wait is over.  Cluster Service also deletes
\* a nested object whose parent it uninstalls, which counts as the DELETE.
DeleteObject ==
    /\ sync["dispatch"].phase = "read"
    /\ LET i == sync["dispatch"].id IN
       IF object[i] # "none"
       THEN /\ object' = [object EXCEPT ![i] = "deleting"]
            /\ sync' = [sync EXCEPT !["dispatch"].phase = "dispatched"]
       ELSE /\ IF GivesUp(firstSeen) THEN sync' = [sync EXCEPT !["dispatch"].phase = "dispatched"]
               ELSE Ends("dispatch")
            /\ UNCHANGED object
    /\ UNCHANGED <<document, cache, firstSeen, posts, restarts, assignments>>

StampDispatched ==
    /\ sync["dispatch"].phase = "dispatched"
    /\ Replaces("dispatch", [document EXCEPT !.csDeletionTimestamp = TRUE])
    /\ firstSeen' = IF document'.csDeletionTimestamp THEN "never" ELSE firstSeen
    /\ UNCHANGED <<cache, posts, object, restarts, assignments>>

----------------------------------------------------------------------------
(* The ID clearers and the deletion controllers.                            *)

NeedsClearing(doc) ==
    doc.stored /\ doc.deletionTimestamp /\ doc.csDeletionTimestamp /\ doc.clusterServiceID # NoID

ReadToClear ==
    /\ Free("clear")
    /\ NeedsClearing(cache) /\ NeedsClearing(document)
    /\ Reads("clear", "read", document.clusterServiceID)
    /\ UNCHANGED <<document, cache, firstSeen, posts, object, restarts, assignments>>

AnyAnswer(i) == TRUE

\* GetClusterStatus and its siblings answer 404.
NotFound(i) == object[i] = "none"

CheckGone ==
    /\ sync["clear"].phase = "read"
    /\ IF NotFound(sync["clear"].id) THEN sync' = [sync EXCEPT !["clear"].phase = "gone"]
       ELSE Ends("clear")
    /\ UNCHANGED <<document, cache, firstSeen, posts, object, restarts, assignments>>

ClearClusterServiceID ==
    /\ sync["clear"].phase = "gone"
    /\ Replaces("clear", [document EXCEPT !.clusterServiceID = NoID])
    /\ UNCHANGED <<cache, firstSeen, posts, object, restarts, assignments>>

NeedsRemoval(doc) ==
    doc.stored /\ doc.deletionTimestamp /\ doc.csDeletionTimestamp /\ doc.clusterServiceID = NoID

\* A sync that finds child documents left ends (AbandonSync).
ReadToDelete ==
    /\ Free("delete")
    /\ NeedsRemoval(cache) /\ NeedsRemoval(document)
    /\ Reads("delete", "read", NoID)
    /\ UNCHANGED <<document, cache, firstSeen, posts, object, restarts, assignments>>

\* Delete is by name and unconditional.
DeleteDocument ==
    /\ sync["delete"].phase = "read"
    /\ document' = [document EXCEPT !.stored = FALSE]
    /\ Ends("delete")
    /\ UNCHANGED <<cache, firstSeen, posts, object, restarts, assignments>>

MatchesNothing == {}

\* ClusterServiceMatchingClusters deletes the clusters of Cluster Service that
\* have no document and are older than an hour; other kinds have no such scan.
Unmatched ==
    {i \in ID : document.kind = "cluster" /\ ~document.stored /\ object[i] = "live"}

MatchClusters ==
    /\ \E i \in Unmatched : object' = [object EXCEPT ![i] = "deleting"]
    /\ UNCHANGED <<document, cache, sync, firstSeen, posts, restarts, assignments>>

----------------------------------------------------------------------------
(* The surroundings.                                                        *)

\* The frontend accepts a DELETE (ResourceOperations' CommitDelete).
RequestDeletion ==
    /\ document.stored /\ ~document.deletionTimestamp
    /\ document' = [document EXCEPT !.deletionTimestamp = TRUE, !.etag = @ + 1]
    /\ UNCHANGED <<cache, sync, firstSeen, posts, object, restarts, assignments>>

\* Any other writer of the document.
TouchDocument ==
    /\ document.stored /\ document.etag < MaxETag
    /\ document' = [document EXCEPT !.etag = @ + 1]
    /\ UNCHANGED <<cache, sync, firstSeen, posts, object, restarts, assignments>>

\* The change feed, or a relist, brings the cache up to date.
UpdateCache ==
    /\ cache # document
    /\ cache' = document
    /\ UNCHANGED <<document, sync, firstSeen, posts, object, restarts, assignments>>

\* Where the timing assumption is made, no create sync or POST is in flight.
CreateSettled == TimeoutOutlivesCreate => posts = {} /\ Free("create")

\* The 120 seconds from the first sight of DeletionTimestamp pass.
TimeoutElapses ==
    /\ firstSeen = "seen"
    /\ CreateSettled
    /\ firstSeen' = "elapsed"
    /\ UNCHANGED <<document, cache, sync, posts, object, restarts, assignments>>

\* A failed call, an unmet precondition or a context's end.
AbandonSync(c) ==
    /\ ~Free(c)
    /\ sync' = [sync EXCEPT ![c] = [NoSync EXCEPT !.phase = "failed"]]
    /\ UNCHANGED <<document, cache, firstSeen, posts, object, restarts, assignments>>

\* The backend restarts, or another replica takes over its lease.
Restart ==
    /\ restarts < MaxRestarts
    /\ restarts' = restarts + 1
    /\ sync' = [c \in Controllers |-> NoSync]
    /\ firstSeen' = "never"
    /\ cache' = document
    /\ UNCHANGED <<document, posts, object, assignments>>

\* Cluster Service decides a POST: a second object of an identity is refused.
AcceptPost(i) ==
    /\ i \in posts /\ object[i] = "none"
    /\ posts' = posts \ {i}
    /\ object' = [object EXCEPT ![i] = "live"]
    /\ sync' = IF sync["create"].phase = "posted" /\ sync["create"].id = i
               THEN [sync EXCEPT !["create"].phase = "found"] ELSE sync
    /\ UNCHANGED <<document, cache, firstSeen, restarts, assignments>>

RefusePost(i) ==
    /\ i \in posts
    /\ posts' = posts \ {i}
    /\ UNCHANGED <<document, cache, sync, firstSeen, object, restarts, assignments>>

FinishDeletion(i) ==
    /\ object[i] = "deleting"
    /\ CreateSettled
    /\ object' = [object EXCEPT ![i] = "none"]
    /\ UNCHANGED <<document, cache, sync, firstSeen, posts, restarts, assignments>>

----------------------------------------------------------------------------
Assign == CheckToAssign \/ ReadToAssign \/ AssignPendingID

Create == ReadToCreate \/ FindObject \/ PostObject \/ PostFails \/ RecordClusterServiceID

Dispatch == ReadToDispatch \/ RecoverTarget \/ DeleteObject \/ StampDispatched

Clear == ReadToClear \/ CheckGone \/ ClearClusterServiceID

Delete == ReadToDelete \/ DeleteDocument

ClusterService == \E i \in ID : AcceptPost(i) \/ RefusePost(i) \/ FinishDeletion(i)

Step ==
    \/ Assign \/ Create \/ Dispatch \/ Clear \/ Delete \/ MatchClusters
    \/ RequestDeletion \/ TouchDocument \/ UpdateCache \/ TimeoutElapses
    \/ Restart
    \/ ClusterService

Next == Step \/ \E c \in Controllers : AbandonSync(c)

Spec == Init /\ [][Next]_vars

(***************************************************************************)
(* Work queues and resyncs bring every controller back to the document,    *)
(* the change feed delivers, time passes and Cluster Service answers; calls*)
(* do not fail for ever.                                                   *)
(***************************************************************************)
Fairness ==
    /\ WF_vars(Create) /\ WF_vars(Dispatch) /\ WF_vars(Clear) /\ WF_vars(Delete)
    /\ WF_vars(MatchClusters) /\ WF_vars(UpdateCache) /\ WF_vars(TimeoutElapses)
    /\ \A i \in ID : WF_vars(AcceptPost(i) \/ RefusePost(i)) /\ WF_vars(FinishDeletion(i))
    /\ <>[][Step]_vars

LiveSpec == Spec /\ Fairness

----------------------------------------------------------------------------
DocumentType ==
    [kind : Kinds, stored : BOOLEAN, etag : Nat, deletionTimestamp : BOOLEAN,
     pendingID : ID \cup {NoID}, clusterServiceID : ID \cup {NoID},
     csDeletionTimestamp : BOOLEAN]

\* The document, its cached copy, the syncs and Cluster Service's objects are
\* well formed, and a sync that acts on an identity has one.
TypeOK ==
    /\ document \in DocumentType /\ cache \in DocumentType
    /\ sync \in [Controllers ->
                    [phase : {"idle", "failed", "checked", "read", "absent", "posted", "found",
                              "recover", "dispatched", "gone"},
                     etag : Nat, id : ID \cup {NoID}]]
    /\ sync["create"].phase \in {"read", "absent", "posted", "found"} => sync["create"].id \in ID
    /\ sync["dispatch"].phase \in {"read", "recover"} => sync["dispatch"].id \in ID
    /\ firstSeen \in {"never", "seen", "elapsed"}
    /\ posts \subseteq ID
    /\ object \in [ID -> {"none", "live", "deleting"}]
    /\ restarts \in 0..MaxRestarts /\ assignments \in 0..MaxAssignments

\* The comment in the cluster delete dispatch: the persisted target is recovered
\* "instead of timing out and abandoning CS".  Once the document is gone, Cluster
\* Service has no object of it and no POST that could still make one.
NoAbandonedObject == ~document.stored => posts = {} /\ Existing = {}

(***************************************************************************)
(* For a cluster that assign gave only one identity the comment holds: a POST *)
(* whose answer or record was lost, a restart that forgets firstSeen, a    *)
(* deletion that overtakes the create controller's write do not leave an   *)
(* object behind.                                                          *)
(***************************************************************************)
TargetIsNotAbandoned ==
    document.kind = "cluster" /\ assignments <= 1 => NoAbandonedObject

(***************************************************************************)
(* The recorded identity is never exchanged for another one, and it is     *)
(* dropped (by the ID clearers, or with the document) only when Cluster    *)
(* Service has no object of it and will not get one.                       *)
(***************************************************************************)
BindingIsStable ==
    [][LET i == document.clusterServiceID IN
       i # NoID /\ (document'.clusterServiceID # i \/ ~document'.stored)
          => document'.clusterServiceID = NoID /\ i \notin posts /\ object[i] = "none"]_vars

\* A requested deletion ends with the document gone: dispatch, ID clearer and
\* deletion controller hand over to one another through the document.
DeletionCompletes == document.deletionTimestamp ~> ~document.stored

\* ClusterServiceMatchingClusters is the backstop: what a deleted cluster left
\* behind in Cluster Service is eventually deleted there.
LeftoversAreDeleted ==
    document.kind = "cluster" /\ ~document.stored ~> Existing = {}
============================================================================
