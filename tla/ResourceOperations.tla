------------------------ MODULE ResourceOperations ------------------------
(***************************************************************************)
(* The life of one ARM resource (a cluster, a node pool or an external     *)
(* auth) and of the asynchronous operations on it.                         *)
(*                                                                         *)
(* The frontend accepts PUT and DELETE requests by writing an operation    *)
(* document and the resource document in one Cosmos DB transactional       *)
(* batch; the backend's operation controllers, which read informer caches  *)
(* or live documents, move both documents to a terminal provisioning       *)
(* state; the resource controllers attach the resource to Cluster Service  *)
(* and, once its deletion was requested, detach it and remove its document.*)
(* Every replace is conditional on the etag of the copy it was made from.  *)
(*                                                                         *)
(* An informer cache is an old copy of a document, so a controller that    *)
(* works from one is a read of the document followed, any number of steps  *)
(* of the others later, by what it does with the copy.  Cluster Service is *)
(* outside the model: each read of it returns any answer.                  *)
(***************************************************************************)
EXTENDS ProvisioningState

CONSTANTS
    Operation,        \* names of operation documents, one per accepted request
    NoOperation,      \* the empty ActiveOperationID
    Kinds,            \* the resource types: "cluster", "nodepool", "externalauth"
    NotificationURIs, \* may a request carry an async notification URI? (set of Booleans)
    MaxOperationETag, \* bound: non-terminal statuses are written below this etag
    TombstoneOutlivesResync \* does the 30 s tombstone outlast the 10 s resync
                            \* of a delete operation and the sync it starts?

ASSUME OperationAssumption == NoOperation \notin Operation
ASSUME KindAssumption == Kinds \subseteq {"cluster", "nodepool", "externalauth"}
ASSUME NotificationAssumption == NotificationURIs \subseteq BOOLEAN
ASSUME BoundAssumption == MaxOperationETag \in Nat
ASSUME TombstoneAssumption == TombstoneOutlivesResync \in BOOLEAN

VARIABLES
    resource,        \* the resource document; its kind is part of its name
    operation,       \* the operation documents; etag 0 is "not stored"
    request,         \* the frontend handlers in flight
    sync,            \* the operation controllers' syncs in flight
    notified         \* operations whose outcome was posted to ARM

vars == <<resource, operation, request, sync, notified>>

NoRequest == [phase |-> "idle", verb |-> "Create", etag |-> 0, cancels |-> {}]

NoSync == [phase |-> "idle", opETag |-> 0, status |-> "Accepted", resETag |-> 0]

Init ==
    /\ \E kind \in Kinds :
          resource = [kind |-> kind, stored |-> "absent", etag |-> 0, generation |-> 0,
                      provisioningState |-> "Succeeded", activeOperationID |-> NoOperation,
                      deletionTimestamp |-> FALSE, clusterServiceID |-> FALSE,
                      csDeletionTimestamp |-> FALSE, deadlinePassed |-> FALSE]
    /\ operation = [o \in Operation |->
                       [etag |-> 0, request |-> "Create", status |-> "Accepted",
                        notificationURI |-> FALSE, generation |-> 0]]
    /\ request = [o \in Operation |-> NoRequest]
    /\ sync = [o \in Operation |-> NoSync]
    /\ notified = {}

Present == resource.stored = "present"
Stored(o) == operation[o].etag > 0
Active(o) == Stored(o) /\ ~IsTerminal(operation[o].status)

----------------------------------------------------------------------------
(* The frontend.  A request that is refused changes no document, so only    *)
(* requests that pass the checks on what they read are steps.               *)

ConflictOnlyOnDelete(verb, state) == verb = "Delete" /\ state = "Deleting"

checkForProvisioningStateConflict(verb, state) ==
    \/ verb = "Delete" /\ state = "Deleting"
    \/ verb = "Update" /\ ~IsTerminal(state)

AdmitAlways(res) == TRUE

\* Admission of an update: clusters being deleted are refused, the others are not.
AdmitCluster(res) == res.kind = "cluster" => ~res.deletionTimestamp

\* PUT of a resource that the handler's read does not find.
ReceiveCreate(o) ==
    /\ request[o].phase = "idle"
    /\ ~Stored(o)
    /\ ~Present
    /\ request' = [request EXCEPT ![o] = [NoRequest EXCEPT !.phase = "ready"]]
    /\ UNCHANGED <<resource, operation, sync, notified>>

\* PUT or PATCH of a resource that it finds.
ReceiveUpdate(o) ==
    /\ request[o].phase = "idle"
    /\ ~Stored(o)
    /\ Present
    /\ ~checkForProvisioningStateConflict("Update", resource.provisioningState)
    /\ AdmitCluster(resource)
    /\ request' = [request EXCEPT ![o] =
                      [phase |-> "ready", verb |-> "Update", etag |-> resource.etag, cancels |-> {}]]
    /\ UNCHANGED <<resource, operation, sync, notified>>

ReceiveDelete(o) ==
    /\ request[o].phase = "idle"
    /\ ~Stored(o)
    /\ Present
    /\ ~checkForProvisioningStateConflict("Delete", resource.provisioningState)
    /\ request' = [request EXCEPT ![o] =
                      [phase |-> "read", verb |-> "Delete", etag |-> resource.etag, cancels |-> {}]]
    /\ UNCHANGED <<resource, operation, sync, notified>>

\* CancelActiveOperations lists the active operations on the resource and adds
\* a conditional replace of each to the transaction.
CancelActiveOperations(o) ==
    /\ request[o].phase = "read"
    /\ request' = [request EXCEPT
                      ![o].phase = "ready",
                      ![o].cancels = {<<p, operation[p].etag>> : p \in {q \in Operation : Active(q)}}]
    /\ UNCHANGED <<resource, operation, sync, notified>>

\* The document NewOperation makes for request o.
NewOperation(o, uri) ==
    [etag |-> 1, request |-> request[o].verb, status |-> InitialStatus(request[o].verb),
     notificationURI |-> uri, generation |-> resource'.generation]

\* The batch of a create: it conflicts with a document, or tombstone, of that name.
CommitCreate(o) ==
    /\ request[o].phase = "ready" /\ request[o].verb = "Create"
    /\ resource.stored = "absent"
    /\ resource' = [kind |-> resource.kind, stored |-> "present", etag |-> resource.etag + 1,
                    generation |-> resource.generation + 1,
                    provisioningState |-> "Accepted", activeOperationID |-> o,
                    deletionTimestamp |-> FALSE, clusterServiceID |-> FALSE,
                    csDeletionTimestamp |-> FALSE, deadlinePassed |-> FALSE]
    /\ \E uri \in NotificationURIs :
          operation' = [operation EXCEPT ![o] = NewOperation(o, uri)]
    /\ request' = [request EXCEPT ![o] = NoRequest]
    /\ UNCHANGED <<sync, notified>>

CommitUpdate(o) ==
    /\ request[o].phase = "ready" /\ request[o].verb = "Update"
    /\ Present /\ resource.etag = request[o].etag
    /\ resource' = [resource EXCEPT !.etag = @ + 1, !.activeOperationID = o,
                                    !.provisioningState = "Accepted",
                                    !.deadlinePassed = FALSE]
    /\ \E uri \in NotificationURIs :
          operation' = [operation EXCEPT ![o] = NewOperation(o, uri)]
    /\ request' = [request EXCEPT ![o] = NoRequest]
    /\ UNCHANGED <<sync, notified>>

CancelsNothing(o) == operation

\* CancelOperation on the listed operations, then the new operation.
CanceledBy(o) ==
    [p \in Operation |->
        IF p \in {c[1] : c \in request[o].cancels}
        THEN [operation[p] EXCEPT !.status = "Canceled", !.etag = @ + 1]
        ELSE operation[p]]

CommitDelete(o) ==
    /\ request[o].phase = "ready" /\ request[o].verb = "Delete"
    /\ Present /\ resource.etag = request[o].etag
    /\ \A c \in request[o].cancels : operation[c[1]].etag = c[2]
    /\ resource' = [resource EXCEPT !.etag = @ + 1, !.activeOperationID = o,
                                    !.provisioningState = "Deleting",
                                    !.deletionTimestamp = TRUE,
                                    !.deadlinePassed = FALSE]
    /\ \E uri \in NotificationURIs :
          operation' = [CanceledBy(o) EXCEPT ![o] = NewOperation(o, uri)]
    /\ request' = [request EXCEPT ![o] = NoRequest]
    /\ UNCHANGED <<sync, notified>>

\* A failed batch, a failed validation, a cancelled context, a frontend crash.
DropRequest(o) ==
    /\ request[o].phase # "idle"
    /\ request' = [request EXCEPT ![o] = NoRequest]
    /\ UNCHANGED <<resource, operation, sync, notified>>

----------------------------------------------------------------------------
(* The controllers that bind the resource to Cluster Service and remove its *)
(* document.  Each re-reads the live document and replaces it under its     *)
(* etag, so its effect on the document is one step.                         *)

\* The Cluster Service create controllers record the identity of the object.
RecordClusterServiceID ==
    /\ Present /\ ~resource.deletionTimestamp /\ ~resource.clusterServiceID
    /\ resource' = [resource EXCEPT !.etag = @ + 1, !.clusterServiceID = TRUE]
    /\ UNCHANGED <<operation, request, sync, notified>>

\* The cluster delete dispatch adopts a pending identity whose creation may
\* have reached Cluster Service unrecorded.
RecoverPendingDeletionTarget ==
    /\ resource.kind = "cluster"
    /\ Present /\ resource.deletionTimestamp /\ ~resource.csDeletionTimestamp
    /\ ~resource.clusterServiceID
    /\ resource' = [resource EXCEPT !.etag = @ + 1, !.clusterServiceID = TRUE]
    /\ UNCHANGED <<operation, request, sync, notified>>

\* The delete dispatch controllers stamp ClusterServiceDeletionTimestamp.
DispatchClusterServiceDelete ==
    /\ Present /\ resource.deletionTimestamp /\ ~resource.csDeletionTimestamp
    /\ resource' = [resource EXCEPT !.etag = @ + 1, !.csDeletionTimestamp = TRUE]
    /\ UNCHANGED <<operation, request, sync, notified>>

\* The ID clearers act on Cluster Service's 404.
ClearClusterServiceID ==
    /\ Present /\ resource.deletionTimestamp /\ resource.csDeletionTimestamp
    /\ resource.clusterServiceID
    /\ resource' = [resource EXCEPT !.etag = @ + 1, !.clusterServiceID = FALSE]
    /\ UNCHANGED <<operation, request, sync, notified>>

\* The deletion controllers soft-delete the document.
DeleteResourceDocument ==
    /\ Present /\ resource.deletionTimestamp /\ resource.csDeletionTimestamp
    /\ ~resource.clusterServiceID
    /\ resource' = [resource EXCEPT !.etag = @ + 1, !.stored = "tombstone"]
    /\ UNCHANGED <<operation, request, sync, notified>>

\* Cosmos DB removes a soft-deleted document when its TTL ends.  Where the
\* timing assumption is made, every delete operation has been resynced by then,
\* and no sync of one is still on its way to delete by name: the sync of an
\* operation that a second DELETE canceled goes on from the copy it read.
TombstoneExpires ==
    /\ resource.stored = "tombstone"
    /\ TombstoneOutlivesResync =>
          \A o \in Operation : operation[o].request = "Delete" =>
              ~Active(o) /\ sync[o].phase \notin {"read", "completing"}
    /\ resource' = [resource EXCEPT !.stored = "absent"]
    /\ UNCHANGED <<operation, request, sync, notified>>

\* The completion deadline that the last accepted request recorded in the
\* document passes: clusters have one for every request, node pools for
\* creation and update, external auths none.
DeadlinePasses ==
    /\ Present /\ resource.activeOperationID # NoOperation /\ ~resource.deadlinePassed
    /\ \/ resource.kind = "cluster"
       \/ resource.kind = "nodepool" /\ operation[resource.activeOperationID].request # "Delete"
    /\ resource' = [resource EXCEPT !.deadlinePassed = TRUE]
    /\ UNCHANGED <<operation, request, sync, notified>>

----------------------------------------------------------------------------
(* The operation controllers.                                               *)

NeedToPatchOperation(old, uri, new) ==
    \/ old # new
    \/ new = "Failed"          \* the error is a fresh pointer
    \/ uri /\ IsTerminal(new)

\* What determineOperationState of each controller may return: the worst of
\* Cluster Service's status and of the other sources.
ClusterCreateOutcomes(status) ==
    {PickWorst(cs, other) :
        cs \in IF ~resource.clusterServiceID THEN {"Provisioning"}
              ELSE UNION {ConvertClusterStatus("Create", status, c) : c \in ClusterServiceStates},
        other \in {"Succeeded", "Provisioning", "Accepted", "Failed"}}

ClusterUpdateOutcomes(status) ==
    {PickWorst(cs, other) :
        cs \in UNION {ConvertClusterStatus("Update", status, c) : c \in ClusterServiceStates},
        other \in {"Succeeded", "Provisioning", "Accepted", "Updating", "Failed"}}

NodePoolCreateOutcomes(status) ==
    {PickWorst(cs, other) :
        cs \in UNION {ConvertNodePoolStatus("Create", status, c) : c \in ClusterServiceStates},
        other \in {"Succeeded", "Provisioning"}}

NodePoolUpdateOutcomes(status) ==
    {PickWorst(cs, other) :
        cs \in UNION {ConvertNodePoolStatus("Update", status, c) : c \in ClusterServiceStates},
        other \in {"Succeeded", "Accepted", "Updating", "Failed"}}

\* An external auth that Cluster Service knows is created;
ExternalAuthCreateOutcomes == {"Succeeded"}

\* it is updated once Cluster Service and the hosted cluster have its spec.
ExternalAuthUpdateOutcomes == {"Succeeded", "Updating"}

IgnoreDeadline(s) == s

\* A passed deadline turns what is not terminal into a failure.
ApplyDeadline(s) == IF resource.deadlinePassed /\ ~IsTerminal(s) THEN "Failed" ELSE s

ReadOperationEvenTerminal(o) ==
    /\ sync[o].phase \in {"idle", "failed"}
    /\ Stored(o)
    /\ sync' = [sync EXCEPT ![o] = [phase |-> "read", opETag |-> operation[o].etag,
                                    status |-> operation[o].status, resETag |-> 0]]
    /\ UNCHANGED <<resource, operation, request, notified>>

\* A sync starts from the operation: a copy in the active-operation cache for
\* the create and update controllers, a live read for the delete controllers.
ReadOperation(o) ==
    /\ sync[o].phase \in {"idle", "failed"}
    /\ Active(o)
    /\ sync' = [sync EXCEPT ![o] = [phase |-> "read", opETag |-> operation[o].etag,
                                    status |-> operation[o].status, resETag |-> 0]]
    /\ UNCHANGED <<resource, operation, request, notified>>

\* A sync whose computed status needs no write ends.
Decide(o, new) ==
    IF /\ NeedToPatchOperation(sync[o].status, operation[o].notificationURI, new)
       /\ IsTerminal(new) \/ sync[o].opETag < MaxOperationETag
    THEN [sync[o] EXCEPT !.phase = "decided", !.status = new]
    ELSE NoSync

\* The create and update controllers decide from the cached resource; they
\* leave alone a resource that is missing, owned by another operation or not
\* ready (shouldReconcileOperationAndResourceStatus).
Synchronize(o, ready, outcomes) ==
    /\ sync[o].phase = "read"
    /\ IF Present /\ resource.activeOperationID = o /\ ready
       THEN \E s \in outcomes : sync' = [sync EXCEPT ![o] = Decide(o, ApplyDeadline(s))]
       ELSE sync' = [sync EXCEPT ![o] = NoSync]
    /\ UNCHANGED <<resource, operation, request, notified>>

operationClusterCreate(o) ==
    /\ resource.kind = "cluster" /\ operation[o].request = "Create"
    /\ Synchronize(o, ~resource.deletionTimestamp, ClusterCreateOutcomes(sync[o].status))

operationClusterUpdate(o) ==
    /\ resource.kind = "cluster" /\ operation[o].request = "Update"
    /\ Synchronize(o, ~resource.deletionTimestamp /\ resource.clusterServiceID,
                   ClusterUpdateOutcomes(sync[o].status))

operationNodePoolCreate(o) ==
    /\ resource.kind = "nodepool" /\ operation[o].request = "Create"
    /\ Synchronize(o, ~resource.deletionTimestamp /\ resource.clusterServiceID,
                   NodePoolCreateOutcomes(sync[o].status))

operationNodePoolUpdate(o) ==
    /\ resource.kind = "nodepool" /\ operation[o].request = "Update"
    /\ Synchronize(o, ~resource.deletionTimestamp /\ resource.clusterServiceID,
                   NodePoolUpdateOutcomes(sync[o].status))

operationExternalAuthCreate(o) ==
    /\ resource.kind = "externalauth" /\ operation[o].request = "Create"
    /\ Synchronize(o, ~resource.deletionTimestamp /\ resource.clusterServiceID,
                   ExternalAuthCreateOutcomes)

operationExternalAuthUpdate(o) ==
    /\ resource.kind = "externalauth" /\ operation[o].request = "Update"
    /\ Synchronize(o, ~resource.deletionTimestamp /\ resource.clusterServiceID,
                   ExternalAuthUpdateOutcomes)

\* Before the dispatch, at a "ready" object and at a 404 a delete controller
\* waits: the status stays.  Otherwise the operation follows Cluster Service.
DeleteOutcomes(status, reported) ==
    IF resource.deletionTimestamp /\ resource.csDeletionTimestamp /\ resource.clusterServiceID
    THEN {status} \cup reported ELSE {status}

CompleteOnceTheIDIsCleared(o, outcomes) ==
    /\ sync[o].phase = "read"
    /\ IF Present /\ ~(resource.csDeletionTimestamp /\ ~resource.clusterServiceID)
       THEN \E s \in outcomes : sync' = [sync EXCEPT ![o] = Decide(o, s)]
       ELSE sync' = [sync EXCEPT ![o].phase = "deleted"]
    /\ UNCHANGED <<resource, operation, request, notified>>

\* The delete controllers read the live resource and complete the operation
\* when there is none.
SynchronizeDelete(o, outcomes) ==
    /\ sync[o].phase = "read"
    /\ IF Present
       THEN \E s \in outcomes : sync' = [sync EXCEPT ![o] = Decide(o, s)]
       ELSE sync' = [sync EXCEPT ![o].phase = "completing"]
    /\ UNCHANGED <<resource, operation, request, notified>>

\* Only a cluster's deletion has a deadline.
operationClusterDelete(o) ==
    /\ resource.kind = "cluster" /\ operation[o].request = "Delete"
    /\ SynchronizeDelete(o,
          IF resource.deletionTimestamp /\ resource.deadlinePassed THEN {"Failed"}
          ELSE DeleteOutcomes(sync[o].status,
                  UNION {ConvertClusterStatus("Delete", sync[o].status, c) :
                            c \in ClusterServiceStates \ {"ready"}}))

operationNodePoolDelete(o) ==
    /\ resource.kind = "nodepool" /\ operation[o].request = "Delete"
    /\ SynchronizeDelete(o,
          DeleteOutcomes(sync[o].status,
             UNION {ConvertNodePoolStatus("Delete", sync[o].status, c) :
                       c \in ClusterServiceStates \ {"ready"}}))

operationExternalAuthDelete(o) ==
    /\ resource.kind = "externalauth" /\ operation[o].request = "Delete"
    /\ SynchronizeDelete(o,
          DeleteOutcomes(sync[o].status,
             UNION {ConvertExternalAuthStatus("Delete", sync[o].status, c) :
                       c \in ClusterServiceStates \ {"ready"}}))

SynchronizeOperation(o) ==
    \/ operationClusterCreate(o) \/ operationClusterUpdate(o) \/ operationClusterDelete(o)
    \/ operationNodePoolCreate(o) \/ operationNodePoolUpdate(o) \/ operationNodePoolDelete(o)
    \/ operationExternalAuthCreate(o) \/ operationExternalAuthUpdate(o)
    \/ operationExternalAuthDelete(o)

\* get{Cluster,NodePool,ExternalAuth}ForUpdate: the live resource, or nothing to
\* update (etag 0) when it is gone, owned by another operation or up to date.
GetResourceForUpdate(o) ==
    /\ sync[o].phase = "decided"
    /\ sync' = [sync EXCEPT
                   ![o].phase = "prepared",
                   ![o].resETag =
                      IF /\ Present
                         /\ resource.activeOperationID = o
                         /\ \/ resource.provisioningState # sync[o].status
                            \/ IsTerminal(sync[o].status)
                      THEN resource.etag ELSE 0]
    /\ UNCHANGED <<resource, operation, request, notified>>

NotifyEveryStatus(o, s) ==
    IF operation[o].notificationURI THEN [NoSync EXCEPT !.phase = "notify"] ELSE NoSync

\* What a sync does once its operation is stored with status s.
AfterWrite(o, s) ==
    IF IsTerminal(s) /\ operation[o].notificationURI
    THEN [NoSync EXCEPT !.phase = "notify"] ELSE NoSync

UpdateOperationStatusAlone(o) ==
    /\ sync[o].phase = "prepared"
    /\ operation' = [operation EXCEPT ![o].etag = @ + 1, ![o].status = sync[o].status]
    /\ sync' = [sync EXCEPT ![o] = AfterWrite(o, sync[o].status)]
    /\ UNCHANGED <<resource, request, notified>>

\* UpdateOperationStatus: both documents in one batch, or neither (412).
UpdateOperationStatus(o) ==
    /\ sync[o].phase = "prepared"
    /\ IF /\ operation[o].etag = sync[o].opETag
          /\ sync[o].resETag # 0 => Present /\ resource.etag = sync[o].resETag
       THEN /\ operation' = [operation EXCEPT ![o].etag = @ + 1, ![o].status = sync[o].status]
            /\ resource' = IF sync[o].resETag = 0 THEN resource
                           ELSE [resource EXCEPT
                                   !.etag = @ + 1,
                                   !.provisioningState = sync[o].status,
                                   !.activeOperationID = IF IsTerminal(sync[o].status)
                                                         THEN NoOperation ELSE @]
            /\ sync' = [sync EXCEPT ![o] = AfterWrite(o, sync[o].status)]
       ELSE /\ sync' = [sync EXCEPT ![o] = NoSync]
            /\ UNCHANGED <<resource, operation>>
    /\ UNCHANGED <<request, notified>>

\* SetDeleteOperationAsCompleted deletes whatever document has the name,
DeleteNamedResource(o) ==
    /\ sync[o].phase = "completing"
    /\ resource' = IF Present THEN [resource EXCEPT !.etag = @ + 1, !.stored = "tombstone"]
                   ELSE resource
    /\ sync' = [sync EXCEPT ![o].phase = "deleted"]
    /\ UNCHANGED <<operation, request, notified>>

\* and then patches the operation, if it is still the copy it read.
PatchOperation(o) ==
    /\ sync[o].phase = "deleted"
    /\ IF operation[o].etag = sync[o].opETag
       THEN /\ operation' = [operation EXCEPT ![o].etag = @ + 1, ![o].status = "Succeeded"]
            /\ sync' = [sync EXCEPT ![o] = AfterWrite(o, "Succeeded")]
       ELSE /\ sync' = [sync EXCEPT ![o] = NoSync]
            /\ UNCHANGED operation
    /\ UNCHANGED <<resource, request, notified>>

\* notifyOperationOwner: a failed post is only logged.
PostAsyncNotification(o) ==
    /\ sync[o].phase = "notify"
    /\ notified' = notified \cup {o}
    /\ sync' = [sync EXCEPT ![o].phase = "posted"]
    /\ UNCHANGED <<resource, operation, request>>

\* It clears the URI of a re-read operation in a write of its own.
ClearNotificationURI(o) ==
    /\ sync[o].phase = "posted"
    /\ operation' = [operation EXCEPT ![o].etag = @ + 1, ![o].notificationURI = FALSE]
    /\ sync' = [sync EXCEPT ![o] = NoSync]
    /\ UNCHANGED <<resource, request, notified>>

\* A failed call or a restart of the backend ends a sync wherever it is; the
\* key is queued again.
AbandonSync(o) ==
    /\ sync[o].phase \notin {"idle", "failed"}
    /\ sync' = [sync EXCEPT ![o] = [NoSync EXCEPT !.phase = "failed"]]
    /\ UNCHANGED <<resource, operation, request, notified>>

----------------------------------------------------------------------------
FrontendNext ==
    \E o \in Operation :
        \/ ReceiveCreate(o) \/ ReceiveUpdate(o) \/ ReceiveDelete(o)
        \/ CancelActiveOperations(o)
        \/ CommitCreate(o) \/ CommitUpdate(o) \/ CommitDelete(o)
        \/ DropRequest(o)

ResourceNext ==
    \/ RecordClusterServiceID \/ RecoverPendingDeletionTarget
    \/ DispatchClusterServiceDelete \/ ClearClusterServiceID
    \/ DeleteResourceDocument \/ TombstoneExpires \/ DeadlinePasses

SyncStep(o) ==
    \/ ReadOperation(o) \/ SynchronizeOperation(o) \/ GetResourceForUpdate(o)
    \/ UpdateOperationStatus(o)
    \/ DeleteNamedResource(o) \/ PatchOperation(o)
    \/ PostAsyncNotification(o) \/ ClearNotificationURI(o)

BackendNext ==
    \E o \in Operation :
        SyncStep(o) \/ AbandonSync(o)

Next == FrontendNext \/ ResourceNext \/ BackendNext

Spec == Init /\ [][Next]_vars

(***************************************************************************)
(* The work queues retry a key until its sync succeeds, so a sync that     *)
(* can take a step takes one; calls do not fail, and the backend does not  *)
(* restart, for ever; and time passes.                                     *)
(***************************************************************************)
Fairness ==
    /\ \A o \in Operation : WF_vars(SyncStep(o))
    /\ <>[][\A o \in Operation : ~AbandonSync(o)]_vars
    /\ WF_vars(DeadlinePasses)

LiveSpec == Spec /\ Fairness

----------------------------------------------------------------------------
ResourceType ==
    [kind : Kinds, stored : {"absent", "present", "tombstone"}, etag : Nat, generation : Nat,
     provisioningState : ProvisioningStates,
     activeOperationID : Operation \cup {NoOperation},
     deletionTimestamp : BOOLEAN, clusterServiceID : BOOLEAN,
     csDeletionTimestamp : BOOLEAN, deadlinePassed : BOOLEAN]

OperationType ==
    [etag : Nat, request : OperationRequests, status : ProvisioningStates,
     notificationURI : BOOLEAN, generation : Nat]

RequestType ==
    [phase : {"idle", "read", "ready"}, verb : OperationRequests, etag : Nat,
     cancels : SUBSET (Operation \X Nat)]

SyncType ==
    [phase : {"idle", "failed", "read", "decided", "prepared", "completing",
              "deleted", "notify", "posted"},
     opETag : Nat, status : ProvisioningStates, resETag : Nat]

\* Every document, request in flight and sync in flight is well formed.
TypeOK ==
    /\ resource \in ResourceType
    /\ operation \in [Operation -> OperationType]
    /\ request \in [Operation -> RequestType]
    /\ sync \in [Operation -> SyncType]
    /\ notified \subseteq Operation

(***************************************************************************)
(* A resource and the operation in charge of it agree: the operation runs, *)
(* was accepted for this very document, and the resource shows its status; *)
(* a resource no operation is in charge of is in a terminal state.  This   *)
(* is what UpdateOperationStatus's single batch and the frontend's batches *)
(* are for.                                                                *)
(***************************************************************************)
ResourceMirrorsOperation ==
    Present =>
        LET o == resource.activeOperationID IN
        IF o = NoOperation THEN IsTerminal(resource.provisioningState)
        ELSE /\ Active(o)
             /\ operation[o].generation = resource.generation
             /\ operation[o].status = resource.provisioningState

(***************************************************************************)
(* The operations of a resource keep the contract: AdmitCluster's and      *)
(* checkForProvisioningStateConflict's decisions on what a handler read,   *)
(* CancelActiveOperations' list, and every late sync included.             *)
(***************************************************************************)
OperationState ==
    [o \in Operation |-> IF ~Stored(o) THEN "none"
                         ELSE IF IsTerminal(operation[o].status) THEN operation[o].status
                         ELSE "running"]

Owner == IF Present THEN resource.activeOperationID ELSE NoOperation

Contract == INSTANCE OperationContract WITH state <- OperationState, owner <- Owner

ContractSpec == Contract!Spec

(***************************************************************************)
(* Once a cluster's deletion was accepted no other operation is ever in    *)
(* charge of it again, however old the copy an update was admitted on.     *)
(***************************************************************************)
DeletingResourceIsNotUpdated ==
    LET o == resource.activeOperationID IN
    Present /\ resource.kind = "cluster" /\ resource.deletionTimestamp /\ o # NoOperation
        => operation[o].request = "Delete"

(***************************************************************************)
(* A deletion reported as succeeded is one: the document it was accepted   *)
(* for is gone (the delete controllers' 404, SetDeleteOperationAsCompleted *)
(* deleting the document before it patches the operation).                 *)
(***************************************************************************)
SucceededDeleteIsGone ==
    \A o \in Operation :
        Stored(o) /\ operation[o].request = "Delete" /\ operation[o].status = "Succeeded"
            => ~(Present /\ resource.generation = operation[o].generation)

(***************************************************************************)
(* A create or update operation that runs on a cluster is in charge of a   *)
(* stored cluster: it is never left behind by a deletion, where no         *)
(* controller would ever end it.  Node pools and external auths can be:    *)
(* no rule like AdmitCluster's refuses an update once a failed deletion    *)
(* has left them in a terminal state, and their deletion goes on.          *)
(***************************************************************************)
RunningOperationHasItsResource ==
    \A o \in Operation :
        resource.kind = "cluster" /\ Active(o) /\ operation[o].request # "Delete"
            => Present /\ resource.activeOperationID = o

(***************************************************************************)
(* A resource document is removed only after its deletion was requested:   *)
(* SetDeleteOperationAsCompleted, which deletes by name, never takes a     *)
(* document that a later PUT created under the same name.                  *)
(***************************************************************************)
OnlyRequestedDeletions ==
    [][Present /\ resource'.stored = "tombstone" => resource.deletionTimestamp]_vars

(***************************************************************************)
(* The outcome posted to ARM stays the operation's outcome.                *)
(***************************************************************************)
PostedOutcomeIsFinal ==
    [][\A o \in notified : /\ IsTerminal(operation[o].status)
                           /\ operation'[o].status = operation[o].status]_vars

----------------------------------------------------------------------------
(* Why these hold: a copy whose etag is still the document's is still true. *)

\* What the handler of request o knows.
RequestKnows(o) ==
    /\ ~Stored(o)
    /\ request[o].etag <= resource.etag
    /\ Present /\ request[o].etag = resource.etag =>
          /\ request[o].verb = "Update" =>
                IsTerminal(resource.provisioningState) /\ AdmitCluster(resource)
          /\ request[o].verb = "Delete" /\ request[o].phase = "ready" =>
                \A p \in Operation : Active(p) => \E c \in request[o].cancels : c[1] = p
    /\ \A c \in request[o].cancels :
          c[2] <= operation[c[1]].etag /\ (c[2] = operation[c[1]].etag => Active(c[1]))

\* What the sync of operation o knows.
SyncKnows(o) ==
    /\ Stored(o)
    /\ sync[o].opETag <= operation[o].etag
    /\ sync[o].phase \notin {"notify", "posted"} /\ sync[o].opETag = operation[o].etag => Active(o)
    /\ sync[o].phase = "read" => ~IsTerminal(sync[o].status)
    /\ sync[o].phase \in {"decided", "prepared"} /\ operation[o].request = "Delete" =>
          sync[o].status # "Succeeded"
    /\ sync[o].phase = "prepared" =>
          /\ sync[o].resETag <= resource.etag
          /\ Present /\ sync[o].resETag = resource.etag => resource.activeOperationID = o
          /\ Present /\ resource.activeOperationID = o /\ sync[o].resETag = 0 =>
                /\ ~IsTerminal(sync[o].status)
                /\ sync[o].status = resource.provisioningState
    /\ sync[o].phase \in {"completing", "deleted"} =>
          ~(Present /\ resource.activeOperationID = o)
          /\ ~(Present /\ resource.generation = operation[o].generation)

\* The inductive invariant: the properties above, and what handlers and syncs know.
OperationInvariant ==
    /\ TypeOK
    /\ ResourceMirrorsOperation
    /\ DeletingResourceIsNotUpdated
    /\ SucceededDeleteIsGone
    /\ Present => resource.etag > 0
    /\ \A o \in Operation :
          /\ operation[o].generation <= resource.generation
          /\ request[o].phase # "idle" => RequestKnows(o)
          /\ sync[o].phase \notin {"idle", "failed"} => SyncKnows(o)

----------------------------------------------------------------------------
\* If Cluster Service accepts the resource eventually, every accepted operation
\* reaches a terminal status: the create, update and delete controllers'
\* completion deadlines make it so.
OperationsEnd ==
    WF_vars(RecordClusterServiceID)
        => \A o \in Operation : Active(o) ~> (Stored(o) /\ ~Active(o))

\* types_nodepool.go on CreateOperationCompletionDeadline: an operation that is
\* not complete by this time will be marked as failed.
CreateDeadlineEndsOperation ==
    \A o \in Operation : (Active(o) /\ operation[o].request = "Create") /\ resource.deadlinePassed
        ~> ~Active(o) \/ ~resource.deadlinePassed
============================================================================
