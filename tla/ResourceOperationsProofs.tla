---------------------- MODULE ResourceOperationsProofs ----------------------
(***************************************************************************)
(* Proofs about ResourceOperations for every set of operations, resource   *)
(* type and bound: the inductive invariant, the safety properties that     *)
(* follow from it, that the operations keep the contract, that a posted    *)
(* outcome is final, and, where tombstones outlive the syncs that saw      *)
(* their documents, that only requested deletions happen and no running    *)
(* operation loses its cluster.                                            *)
(***************************************************************************)
EXTENDS ResourceOperations, TLAPS

\* The worse of two provisioning states is one of the two.
LEMMA PickWorstType ==
    ASSUME NEW s, NEW t
    PROVE  PickWorst(s, t) \in {s, t}
  BY Zenon DEF PickWorst

\* What the create and update controllers determine is a provisioning state.
LEMMA OutcomeType ==
    ASSUME NEW status \in ProvisioningStates
    PROVE  /\ ClusterCreateOutcomes(status) \subseteq ProvisioningStates
           /\ ClusterUpdateOutcomes(status) \subseteq ProvisioningStates
           /\ NodePoolCreateOutcomes(status) \subseteq ProvisioningStates
           /\ NodePoolUpdateOutcomes(status) \subseteq ProvisioningStates
           /\ ExternalAuthCreateOutcomes \subseteq ProvisioningStates
           /\ ExternalAuthUpdateOutcomes \subseteq ProvisioningStates
  <1>1. ASSUME NEW verb \in {"Create", "Update"}, NEW c \in ClusterServiceStates
        PROVE  /\ ConvertClusterStatus(verb, status, c) \subseteq ProvisioningStates
               /\ ConvertNodePoolStatus(verb, status, c) \subseteq ProvisioningStates
    BY Zenon, <1>1 DEF ConvertClusterStatus, ConvertNodePoolStatus, ProvisioningStates, ClusterServiceStates
  <1>2. ASSUME NEW s \in ProvisioningStates, NEW t \in ProvisioningStates
        PROVE  PickWorst(s, t) \in ProvisioningStates
    BY Zenon, <1>2, PickWorstType
  <1>3. {"Succeeded", "Provisioning", "Accepted", "Updating", "Failed"} \subseteq ProvisioningStates
    BY Zenon DEF ProvisioningStates
  <1>4. ClusterCreateOutcomes(status) \subseteq ProvisioningStates
    BY <1>1, <1>2, <1>3 DEF ClusterCreateOutcomes
  <1>5. ClusterUpdateOutcomes(status) \subseteq ProvisioningStates
    BY <1>1, <1>2, <1>3 DEF ClusterUpdateOutcomes
  <1>6. NodePoolCreateOutcomes(status) \subseteq ProvisioningStates
    BY <1>1, <1>2, <1>3 DEF NodePoolCreateOutcomes
  <1>7. NodePoolUpdateOutcomes(status) \subseteq ProvisioningStates
    BY <1>1, <1>2, <1>3 DEF NodePoolUpdateOutcomes
  <1> QED
    BY Zenon, <1>3, <1>4, <1>5, <1>6, <1>7 DEF ExternalAuthCreateOutcomes, ExternalAuthUpdateOutcomes

\* A delete controller never computes success from a document that is there:
\* ConvertClusterStatus and its siblings do not map any state other than
\* "ready" to it, and "ready" is not read as the end of a deletion.
LEMMA DeleteOutcomeType ==
    ASSUME NEW status \in ProvisioningStates \ {"Succeeded"},
           NEW c \in ClusterServiceStates \ {"ready"},
           NEW s \in ConvertClusterStatus("Delete", status, c)
                     \cup ConvertNodePoolStatus("Delete", status, c)
                     \cup ConvertExternalAuthStatus("Delete", status, c)
    PROVE  s \in ProvisioningStates \ {"Succeeded"}
  BY Zenon DEF ConvertClusterStatus, ConvertNodePoolStatus, ConvertExternalAuthStatus,
     ProvisioningStates, ClusterServiceStates

\* What a create or update controller does with the status it determined.
LEMMA SynchronizeResult ==
    ASSUME NEW o \in Operation, NEW ready, NEW outcomes \in SUBSET ProvisioningStates,
           Synchronize(o, ready, outcomes)
    PROVE  /\ sync[o].phase = "read" /\ UNCHANGED <<resource, operation, request, notified>>
           /\ \/ sync' = [sync EXCEPT ![o] = NoSync]
              \/ \E s \in ProvisioningStates : sync' = [sync EXCEPT ![o] = Decide(o, s)]
  <1>1. \A s \in outcomes : ApplyDeadline(s) \in ProvisioningStates
    BY Zenon DEF ApplyDeadline, ProvisioningStates
  <1> QED
    BY Zenon, <1>1 DEF Synchronize

\* The three ways in which an operation controller goes on from its copy of the
\* operation: it ends, it decided a status, or it completes a deletion.
LEMMA SynchronizeOperationResult ==
    ASSUME NEW o \in Operation, SynchronizeOperation(o),
           sync[o].status \in ProvisioningStates, sync[o].phase = "read" => ~IsTerminal(sync[o].status)
    PROVE  /\ sync[o].phase = "read" /\ UNCHANGED <<resource, operation, request, notified>>
           /\ \/ sync' = [sync EXCEPT ![o] = NoSync]
              \/ \E s \in ProvisioningStates :
                    /\ operation[o].request = "Delete" => s # "Succeeded"
                    /\ sync' = [sync EXCEPT ![o] = Decide(o, s)]
              \/ /\ ~Present /\ operation[o].request = "Delete"
                 /\ sync' = [sync EXCEPT ![o].phase = "completing"]
  <1> DEFINE st == sync[o].status
             Result == \/ sync' = [sync EXCEPT ![o] = NoSync]
                       \/ \E s \in ProvisioningStates : sync' = [sync EXCEPT ![o] = Decide(o, s)]
  <1>1. CASE \/ operationClusterCreate(o) \/ operationClusterUpdate(o)
             \/ operationNodePoolCreate(o) \/ operationNodePoolUpdate(o)
             \/ operationExternalAuthCreate(o) \/ operationExternalAuthUpdate(o)
    <2>1. operation[o].request # "Delete"
      BY Zenon, <1>1 DEF operationClusterCreate, operationClusterUpdate, operationNodePoolCreate,
         operationNodePoolUpdate, operationExternalAuthCreate, operationExternalAuthUpdate
    <2>2. sync[o].phase = "read" /\ UNCHANGED <<resource, operation, request, notified>> /\ Result
      <3> USE OutcomeType, SynchronizeResult
      <3>1. CASE operationClusterCreate(o)
        BY Zenon, <3>1 DEF operationClusterCreate
      <3>2. CASE operationClusterUpdate(o)
        BY Zenon, <3>2 DEF operationClusterUpdate
      <3>3. CASE operationNodePoolCreate(o)
        BY Zenon, <3>3 DEF operationNodePoolCreate
      <3>4. CASE operationNodePoolUpdate(o)
        BY Zenon, <3>4 DEF operationNodePoolUpdate
      <3>5. CASE operationExternalAuthCreate(o)
        BY Zenon, <3>5 DEF operationExternalAuthCreate
      <3>6. CASE operationExternalAuthUpdate(o)
        BY Zenon, <3>6 DEF operationExternalAuthUpdate
      <3> QED
        BY Zenon, <1>1, <3>1, <3>2, <3>3, <3>4, <3>5, <3>6
    <2> QED
      BY Zenon, <2>1, <2>2
  <1>2. CASE operationClusterDelete(o) \/ operationNodePoolDelete(o) \/ operationExternalAuthDelete(o)
    <2>1. sync[o].phase = "read" /\ operation[o].request = "Delete"
      BY Zenon, <1>2 DEF operationClusterDelete, operationNodePoolDelete, operationExternalAuthDelete,
         SynchronizeDelete
    <2>2. st \in ProvisioningStates \ {"Succeeded"} /\ "Failed" \in ProvisioningStates \ {"Succeeded"}
      BY Zenon, <2>1 DEF IsTerminal, ProvisioningStates
    <2>3. PICK outcomes \in SUBSET (ProvisioningStates \ {"Succeeded"}) : SynchronizeDelete(o, outcomes)
      <3> USE <2>2, DeleteOutcomeType
      <3>1. CASE operationClusterDelete(o)
        BY <3>1 DEF operationClusterDelete, DeleteOutcomes
      <3>2. CASE operationNodePoolDelete(o)
        BY <3>2 DEF operationNodePoolDelete, DeleteOutcomes
      <3>3. CASE operationExternalAuthDelete(o)
        BY <3>3 DEF operationExternalAuthDelete, DeleteOutcomes
      <3> QED
        BY Zenon, <1>2, <3>1, <3>2, <3>3
    <2> QED
      BY Zenon, <2>1, <2>3 DEF SynchronizeDelete
  <1> QED
    BY Zenon, <1>1, <1>2 DEF SynchronizeOperation

\* Before the first request the invariant holds: nothing is stored, nothing is read.
LEMMA InitInvariant == Init => OperationInvariant
  <1> SUFFICES ASSUME Init PROVE OperationInvariant
    BY Zenon
  <1>0. resource \in ResourceType /\ resource.stored = "absent"
    BY DEF Init, ResourceType, ProvisioningStates
  <1>1. TypeOK
    BY Zenon, <1>0 DEF Init, TypeOK, OperationType, RequestType, SyncType, NoRequest, NoSync,
           ProvisioningStates, OperationRequests
  <1>2. resource.generation = 0
    BY DEF Init
  <1> QED
    BY <1>0, <1>1, <1>2 DEF Init, OperationInvariant, Present, Stored, NoRequest, NoSync,
       ResourceMirrorsOperation, DeletingResourceIsNotUpdated, SucceededDeleteIsGone

----------------------------------------------------------------------------
(* Steps that only move a request.                                          *)

\* It is enough to look at the request that moves.
LEMMA RequestStep ==
    ASSUME OperationInvariant, NEW o \in Operation, NEW r \in RequestType,
           request' = [request EXCEPT ![o] = r],
           UNCHANGED <<resource, operation, sync, notified>>,
           r.phase # "idle" => RequestKnows(o)'
    PROVE  OperationInvariant'
  <1>1. TypeOK'
    BY Zenon DEF OperationInvariant, TypeOK
  <1>2. \A p \in Operation : request'[p].phase # "idle" => RequestKnows(p)'
    <2> SUFFICES ASSUME NEW p \in Operation, request'[p].phase # "idle"
                 PROVE  RequestKnows(p)'
      BY Zenon
    <2>1. CASE p = o
      BY Zenon, <2>1 DEF OperationInvariant, TypeOK
    <2>2. CASE p # o
      <3>1. request'[p] = request[p]
        BY Zenon, <2>2 DEF OperationInvariant, TypeOK
      <3> QED
        BY <3>1 DEF OperationInvariant, RequestKnows, Stored, Active, Present
    <2> QED
      BY Zenon, <2>1, <2>2
  <1>3. \A p \in Operation : sync'[p].phase \notin {"idle", "failed"} => SyncKnows(p)'
    BY DEF OperationInvariant, SyncKnows, Stored, Active, Present
  <1> QED
    BY Zenon, <1>1, <1>2, <1>3 DEF OperationInvariant, ResourceMirrorsOperation,
       DeletingResourceIsNotUpdated, SucceededDeleteIsGone, Stored, Active, Present

\* The frontend's reads.
LEMMA FrontendReads ==
    ASSUME OperationInvariant, NEW o \in Operation,
           \/ ReceiveCreate(o) \/ ReceiveUpdate(o) \/ ReceiveDelete(o)
           \/ CancelActiveOperations(o) \/ DropRequest(o)
    PROVE  OperationInvariant'
  <1> USE DEF OperationInvariant
  <1>0. /\ request \in [Operation -> RequestType]
        /\ resource.etag \in Nat
        /\ operation \in [Operation -> OperationType]
    BY Zenon DEF TypeOK, ResourceType
  <1>1. CASE ReceiveCreate(o)
    <2> DEFINE r == [NoRequest EXCEPT !.phase = "ready"]
    <2>1. r \in RequestType /\ r.cancels = {} /\ r.etag = 0 /\ r.verb = "Create"
      BY Zenon DEF NoRequest, RequestType, OperationRequests
    <2>2. request' = [request EXCEPT ![o] = r] /\ request'[o] = r
      BY Zenon, <1>0, <1>1 DEF ReceiveCreate
    <2>3. RequestKnows(o)'
      BY <1>0, <1>1, <2>1, <2>2 DEF ReceiveCreate, RequestKnows, Stored, Present
    <2> HIDE DEF r
    <2> QED
      BY Zenon, <1>1, <2>1, <2>2, <2>3, RequestStep, Zenon DEF ReceiveCreate
  <1>2. CASE ReceiveUpdate(o)
    <2> DEFINE r == [phase |-> "ready", verb |-> "Update", etag |-> resource.etag, cancels |-> {}]
    <2>1. r \in RequestType
      BY Zenon, <1>0 DEF RequestType, OperationRequests
    <2>2. request' = [request EXCEPT ![o] = r] /\ request'[o] = r
      BY Zenon, <1>0, <1>2 DEF ReceiveUpdate
    <2>3. RequestKnows(o)'
      BY <1>0, <1>2, <2>2 DEF ReceiveUpdate, RequestKnows, Stored, Present, AdmitCluster,
         checkForProvisioningStateConflict
    <2> HIDE DEF r
    <2> QED
      BY Zenon, <1>2, <2>1, <2>2, <2>3, RequestStep, Zenon DEF ReceiveUpdate
  <1>3. CASE ReceiveDelete(o)
    <2> DEFINE r == [phase |-> "read", verb |-> "Delete", etag |-> resource.etag, cancels |-> {}]
    <2>1. r \in RequestType
      BY Zenon, <1>0 DEF RequestType, OperationRequests
    <2>2. request' = [request EXCEPT ![o] = r] /\ request'[o] = r
      BY Zenon, <1>0, <1>3 DEF ReceiveDelete
    <2>3. RequestKnows(o)'
      BY <1>0, <1>3, <2>2 DEF ReceiveDelete, RequestKnows, Stored, Present
    <2> HIDE DEF r
    <2> QED
      BY Zenon, <1>3, <2>1, <2>2, <2>3, RequestStep, Zenon DEF ReceiveDelete
  <1>4. CASE CancelActiveOperations(o)
    <2> DEFINE C == {<<p, operation[p].etag>> : p \in {q \in Operation : Active(q)}}
               r == [request[o] EXCEPT !.phase = "ready", !.cancels = C]
    <2>1. C \in SUBSET (Operation \X Nat)
      BY <1>0 DEF OperationType
    <2>2. r \in RequestType /\ r.cancels = C /\ r.etag = request[o].etag
                          /\ r.verb = request[o].verb
      BY Zenon, <1>0, <2>1, Zenon DEF RequestType
    <2>3. request' = [request EXCEPT ![o] = r] /\ request'[o] = r
      BY Zenon, <1>0, <1>4, Zenon DEF CancelActiveOperations
    <2>4. RequestKnows(o)
      BY Zenon, <1>4 DEF CancelActiveOperations
    <2>5. \A p \in Operation : Active(p) => \E c \in C : c[1] = p
      <3> SUFFICES ASSUME NEW p \in Operation, Active(p) PROVE \E c \in C : c[1] = p
        BY Zenon
      <3> WITNESS <<p, operation[p].etag>> \in C
      <3> QED BY Zenon
    <2>6. \A c \in C : c[2] <= operation[c[1]].etag /\ (c[2] = operation[c[1]].etag => Active(c[1]))
      BY <1>0 DEF OperationType
    <2> HIDE DEF C, r
    <2>7. UNCHANGED <<resource, operation, sync, notified>>
      BY Zenon, <1>4 DEF CancelActiveOperations
    <2>8. RequestKnows(o)'
      BY <2>2, <2>3, <2>4, <2>5, <2>6, <2>7 DEF RequestKnows, Stored, Present, Active,
         AdmitCluster
    <2> QED
      BY Zenon, <2>2, <2>3, <2>7, <2>8, RequestStep, Zenon
  <1>5. CASE DropRequest(o)
    BY Zenon, <1>5, RequestStep, Zenon DEF DropRequest, NoRequest, RequestType, OperationRequests
  <1> QED
    BY Zenon, <1>1, <1>2, <1>3, <1>4, <1>5
----------------------------------------------------------------------------
(* Steps that only move a sync.                                             *)

\* It is enough to look at the sync that moves.
LEMMA SyncMove ==
    ASSUME OperationInvariant, NEW o \in Operation, NEW r \in SyncType,
           sync' = [sync EXCEPT ![o] = r],
           UNCHANGED <<resource, operation, request>>, notified' \subseteq Operation,
           r.phase \notin {"idle", "failed"} => SyncKnows(o)'
    PROVE  OperationInvariant'
  <1>1. TypeOK'
    BY Zenon DEF OperationInvariant, TypeOK
  <1>2. \A p \in Operation : request'[p].phase # "idle" => RequestKnows(p)'
    BY DEF OperationInvariant, RequestKnows, Stored, Active, Present
  <1>3. \A p \in Operation : sync'[p].phase \notin {"idle", "failed"} => SyncKnows(p)'
    <2> SUFFICES ASSUME NEW p \in Operation, sync'[p].phase \notin {"idle", "failed"}
                 PROVE  SyncKnows(p)'
      BY Zenon
    <2>1. CASE p = o
      BY Zenon, <2>1 DEF OperationInvariant, TypeOK
    <2>2. CASE p # o
      <3>1. sync'[p] = sync[p]
        BY Zenon, <2>2 DEF OperationInvariant, TypeOK
      <3> QED
        BY <3>1 DEF OperationInvariant, SyncKnows, Stored, Active, Present
    <2> QED
      BY Zenon, <2>1, <2>2
  <1> QED
    BY Zenon, <1>1, <1>2, <1>3 DEF OperationInvariant, ResourceMirrorsOperation,
       DeletingResourceIsNotUpdated, SucceededDeleteIsGone, Stored, Active, Present

\* A sync that ends, or fails, knows nothing.
LEMMA SyncEnds ==
    ASSUME OperationInvariant, NEW o \in Operation,
           NEW ph \in {"idle", "failed"},
           sync' = [sync EXCEPT ![o] = [NoSync EXCEPT !.phase = ph]],
           UNCHANGED <<resource, operation, request>>, notified' \subseteq Operation
    PROVE  OperationInvariant'
  <1> DEFINE r == [NoSync EXCEPT !.phase = ph]
  <1>1. r \in SyncType /\ r.phase = ph
    BY Zenon DEF NoSync, SyncType, ProvisioningStates
  <1> HIDE DEF r
  <1>2. sync' = [sync EXCEPT ![o] = r]
    BY Zenon DEF r
  <1> QED
    BY Zenon, <1>1, <1>2, SyncMove, Zenon

\* The state of a controller between two syncs is that of an idle one.
LEMMA NoSyncIsIdle == NoSync = [NoSync EXCEPT !.phase = "idle"]
  BY DEF NoSync

\* A status that a sync in phase "read" decides on.
LEMMA DecideStep ==
    ASSUME OperationInvariant, NEW o \in Operation, sync[o].phase = "read",
           NEW s \in ProvisioningStates,
           operation[o].request = "Delete" => s # "Succeeded",
           sync' = [sync EXCEPT ![o] = Decide(o, s)],
           UNCHANGED <<resource, operation, request, notified>>
    PROVE  OperationInvariant'
  <1>0. /\ sync \in [Operation -> SyncType] /\ sync[o] \in SyncType
        /\ notified' \subseteq Operation
    BY Zenon DEF OperationInvariant, TypeOK
  <1>1. CASE Decide(o, s) = NoSync
    BY Zenon, <1>0, <1>1, SyncEnds, NoSyncIsIdle, Zenon
  <1>2. CASE Decide(o, s) # NoSync
    <2> DEFINE r == [sync[o] EXCEPT !.phase = "decided", !.status = s]
    <2>1. Decide(o, s) = r
      BY Zenon, <1>2 DEF Decide
    <2>2. r \in SyncType /\ r.phase = "decided" /\ r.status = s /\ r.opETag = sync[o].opETag
      BY Zenon, <1>0, Zenon DEF SyncType
    <2> HIDE DEF r
    <2>3. sync' = [sync EXCEPT ![o] = r] /\ sync'[o] = r
      BY Zenon, <1>0, <2>1
    <2>4. SyncKnows(o)
      BY Zenon DEF OperationInvariant
    <2>5. SyncKnows(o)'
      BY Zenon, <2>2, <2>3, <2>4 DEF SyncKnows, Stored, Active
    <2> QED
      BY Zenon, <1>0, <2>2, <2>3, <2>5, SyncMove, Zenon
  <1> QED
    BY Zenon, <1>1, <1>2

\* The operation controllers' reads.
LEMMA BackendReads ==
    ASSUME OperationInvariant, NEW o \in Operation,
           \/ ReadOperation(o) \/ SynchronizeOperation(o)
           \/ GetResourceForUpdate(o) \/ PostAsyncNotification(o) \/ AbandonSync(o)
    PROVE  OperationInvariant'
  <1>0. /\ sync \in [Operation -> SyncType] /\ sync[o] \in SyncType
        /\ operation[o].etag \in Nat /\ operation[o].status \in ProvisioningStates
        /\ resource.etag \in Nat /\ notified \subseteq Operation
    BY Zenon DEF OperationInvariant, TypeOK, ResourceType, OperationType
  <1>1. CASE ReadOperation(o)
    <2> DEFINE r == [phase |-> "read", opETag |-> operation[o].etag,
                     status |-> operation[o].status, resETag |-> 0]
    <2>1. r \in SyncType
      BY Zenon, <1>0 DEF SyncType
    <2>2. sync' = [sync EXCEPT ![o] = r] /\ sync'[o] = r
      BY Zenon, <1>0, <1>1 DEF ReadOperation
    <2>3. SyncKnows(o)'
      BY <1>0, <1>1, <2>2 DEF ReadOperation, SyncKnows, Active, Stored
    <2> HIDE DEF r
    <2> QED
      BY Zenon, <1>0, <1>1, <2>1, <2>2, <2>3, SyncMove, Zenon DEF ReadOperation
  <1>2. CASE SynchronizeOperation(o)
    <2>0. sync[o].status \in ProvisioningStates
          /\ (sync[o].phase = "read" => ~IsTerminal(sync[o].status) /\ SyncKnows(o))
      BY Zenon, <1>0 DEF OperationInvariant, SyncKnows, SyncType
    <2>1. sync[o].phase = "read" /\ UNCHANGED <<resource, operation, request, notified>>
      BY Zenon, <1>2, <2>0, SynchronizeOperationResult
    <2>2. CASE sync' = [sync EXCEPT ![o] = NoSync]
      BY Zenon, <1>0, <2>1, <2>2, SyncEnds, NoSyncIsIdle, Zenon
    <2>3. CASE \E s \in ProvisioningStates :
                  /\ operation[o].request = "Delete" => s # "Succeeded"
                  /\ sync' = [sync EXCEPT ![o] = Decide(o, s)]
      BY Zenon, <2>1, <2>3, DecideStep, Zenon
    <2>4. CASE /\ ~Present /\ operation[o].request = "Delete"
               /\ sync' = [sync EXCEPT ![o].phase = "completing"]
      <3> DEFINE r == [sync[o] EXCEPT !.phase = "completing"]
      <3>1. r \in SyncType /\ r.phase = "completing" /\ r.opETag = sync[o].opETag
        BY Zenon, <1>0 DEF SyncType
      <3>2. sync' = [sync EXCEPT ![o] = r] /\ sync'[o] = r
        BY Zenon, <1>0, <2>4
      <3> HIDE DEF r
      <3>3. SyncKnows(o)'
        BY Zenon, <2>0, <2>1, <2>4, <3>1, <3>2 DEF SyncKnows, Stored, Active, Present
      <3> QED
        BY Zenon, <1>0, <2>1, <3>1, <3>2, <3>3, SyncMove, Zenon
    <2> QED
      BY Zenon, <1>2, <2>0, <2>2, <2>3, <2>4, SynchronizeOperationResult
  <1>4. CASE GetResourceForUpdate(o)
    <2> DEFINE cond == /\ Present
                       /\ resource.activeOperationID = o
                       /\ \/ resource.provisioningState # sync[o].status
                          \/ IsTerminal(sync[o].status)
               r == [sync[o] EXCEPT !.phase = "prepared",
                                    !.resETag = IF cond THEN resource.etag ELSE 0]
    <2>1. /\ r \in SyncType /\ r.phase = "prepared" /\ r.opETag = sync[o].opETag
          /\ r.status = sync[o].status /\ r.resETag = IF cond THEN resource.etag ELSE 0
      BY Zenon, <1>0, Zenon DEF SyncType
    <2>2. sync' = [sync EXCEPT ![o] = r] /\ sync'[o] = r
      BY Zenon, <1>0, <1>4, Zenon DEF GetResourceForUpdate
    <2> HIDE DEF r
    <2>3. SyncKnows(o) /\ (Present => resource.etag > 0)
      BY Zenon, <1>4 DEF OperationInvariant, GetResourceForUpdate
    <2>4. UNCHANGED <<resource, operation, request, notified>> /\ sync[o].phase = "decided"
      BY Zenon, <1>4 DEF GetResourceForUpdate
    <2>5. SyncKnows(o)'
      BY <1>0, <2>1, <2>2, <2>3, <2>4 DEF SyncKnows, Stored, Active, Present
    <2> QED
      BY Zenon, <1>0, <2>1, <2>2, <2>4, <2>5, SyncMove, Zenon
  <1>5. CASE PostAsyncNotification(o)
    <2> DEFINE r == [sync[o] EXCEPT !.phase = "posted"]
    <2>1. r \in SyncType /\ r.phase = "posted" /\ r.opETag = sync[o].opETag
      BY Zenon, <1>0 DEF SyncType
    <2>2. sync' = [sync EXCEPT ![o] = r] /\ sync'[o] = r /\ notified' \subseteq Operation
      BY Zenon, <1>0, <1>5 DEF PostAsyncNotification
    <2> HIDE DEF r
    <2>3. SyncKnows(o)
      BY Zenon, <1>5 DEF OperationInvariant, PostAsyncNotification
    <2>4. SyncKnows(o)'
      BY Zenon, <1>5, <2>1, <2>2, <2>3 DEF SyncKnows, Stored, PostAsyncNotification
    <2> QED
      BY Zenon, <1>0, <1>5, <2>1, <2>2, <2>4, SyncMove, Zenon DEF PostAsyncNotification
  <1>6. CASE AbandonSync(o)
    BY Zenon, <1>0, <1>6, SyncEnds, Zenon DEF AbandonSync
  <1> QED
    BY Zenon, <1>1, <1>2, <1>4, <1>5, <1>6
----------------------------------------------------------------------------
(* Steps that only change the resource document.                            *)

\* A write that keeps the fields operations depend on.
LEMMA ResourceTouched ==
    ASSUME OperationInvariant, TypeOK',
           UNCHANGED <<operation, request, sync>>,
           resource'.etag \in {resource.etag, resource.etag + 1},
           resource'.kind = resource.kind,
           resource'.stored = resource.stored,
           resource'.generation = resource.generation,
           resource'.provisioningState = resource.provisioningState,
           resource'.activeOperationID = resource.activeOperationID,
           resource'.deletionTimestamp = resource.deletionTimestamp
    PROVE  OperationInvariant'
  <1>0. resource.etag \in Nat /\ request \in [Operation -> RequestType]
        /\ sync \in [Operation -> SyncType]
    BY Zenon DEF OperationInvariant, TypeOK, ResourceType
  <1>1. \A p \in Operation : request'[p].phase # "idle" => RequestKnows(p)'
    <2> SUFFICES ASSUME NEW p \in Operation, request'[p].phase # "idle"
                 PROVE  RequestKnows(p)'
      BY Zenon
    <2>1. RequestKnows(p) /\ request[p].etag \in Nat
      BY Zenon, <1>0 DEF OperationInvariant, RequestType
    <2> QED
      BY <1>0, <2>1 DEF RequestKnows, Stored, Active, Present, AdmitCluster
  <1>2. \A p \in Operation : sync'[p].phase \notin {"idle", "failed"} => SyncKnows(p)'
    <2> SUFFICES ASSUME NEW p \in Operation, sync'[p].phase \notin {"idle", "failed"}
                 PROVE  SyncKnows(p)'
      BY Zenon
    <2>1. SyncKnows(p) /\ sync[p].resETag \in Nat
      BY Zenon, <1>0 DEF OperationInvariant, SyncType
    <2> QED
      BY <1>0, <2>1 DEF SyncKnows, Stored, Active, Present
  <1> QED
    BY <1>0, <1>1, <1>2 DEF OperationInvariant, ResourceMirrorsOperation,
       DeletingResourceIsNotUpdated, SucceededDeleteIsGone, Stored, Active, Present

\* The document goes; a sync may move from deleting it to patching its operation.
LEMMA ResourceGone ==
    ASSUME OperationInvariant, TypeOK',
           UNCHANGED <<operation, request>>,
           resource'.etag \in {resource.etag, resource.etag + 1},
           resource'.stored # "present",
           resource'.generation = resource.generation,
           \A p \in Operation :
              \/ sync'[p] = sync[p]
              \/ /\ sync[p].phase = "completing" /\ sync'[p].phase = "deleted"
                 /\ sync'[p].opETag = sync[p].opETag
    PROVE  OperationInvariant'
  <1>0. resource.etag \in Nat /\ request \in [Operation -> RequestType]
        /\ sync \in [Operation -> SyncType]
    BY Zenon DEF OperationInvariant, TypeOK, ResourceType
  <1>1. \A p \in Operation : request'[p].phase # "idle" => RequestKnows(p)'
    <2> SUFFICES ASSUME NEW p \in Operation, request'[p].phase # "idle"
                 PROVE  RequestKnows(p)'
      BY Zenon
    <2>1. RequestKnows(p) /\ request[p].etag \in Nat
      BY Zenon, <1>0 DEF OperationInvariant, RequestType
    <2> QED
      BY <1>0, <2>1 DEF RequestKnows, Stored, Active, Present
  <1>2. \A p \in Operation : sync'[p].phase \notin {"idle", "failed"} => SyncKnows(p)'
    <2> SUFFICES ASSUME NEW p \in Operation, sync'[p].phase \notin {"idle", "failed"}
                 PROVE  SyncKnows(p)'
      BY Zenon
    <2>1. SyncKnows(p) /\ sync[p].resETag \in Nat
      BY Zenon, <1>0 DEF OperationInvariant, SyncType
    <2>2. CASE sync'[p] = sync[p]
      BY <1>0, <2>1, <2>2 DEF SyncKnows, Stored, Active, Present
    <2>3. CASE sync'[p] # sync[p]
      BY Zenon, <1>0, <2>1, <2>3 DEF SyncKnows, Stored, Active, Present
    <2> QED
      BY Zenon, <2>2, <2>3
  <1> QED
    BY Zenon, <1>0, <1>1, <1>2 DEF OperationInvariant, ResourceMirrorsOperation,
       DeletingResourceIsNotUpdated, SucceededDeleteIsGone, Stored, Active, Present

\* The controllers of the resource, Cosmos DB's clock and the deadline's.
LEMMA ResourceSteps ==
    ASSUME OperationInvariant, ResourceNext
    PROVE  OperationInvariant'
  <1>0. TypeOK /\ resource \in ResourceType /\ resource.etag + 1 \in Nat
    BY DEF OperationInvariant, TypeOK, ResourceType
  <1>1. CASE RecordClusterServiceID
    <2>1. resource' \in ResourceType
      BY Zenon, <1>0, <1>1, Zenon DEF ResourceType, RecordClusterServiceID
    <2>2. TypeOK'
      BY Zenon, <1>0, <1>1, <2>1 DEF TypeOK, RecordClusterServiceID
    <2> QED
      BY Zenon, <1>0, <1>1, <2>2, ResourceTouched DEF ResourceType, RecordClusterServiceID
  <1>2. CASE RecoverPendingDeletionTarget
    <2>1. resource' \in ResourceType
      BY Zenon, <1>0, <1>2, Zenon DEF ResourceType, RecoverPendingDeletionTarget
    <2>2. TypeOK'
      BY Zenon, <1>0, <1>2, <2>1 DEF TypeOK, RecoverPendingDeletionTarget
    <2> QED
      BY Zenon, <1>0, <1>2, <2>2, ResourceTouched, Zenon DEF ResourceType, RecoverPendingDeletionTarget
  <1>3. CASE DispatchClusterServiceDelete
    <2>1. resource' \in ResourceType
      BY Zenon, <1>0, <1>3, Zenon DEF ResourceType, DispatchClusterServiceDelete
    <2>2. TypeOK'
      BY Zenon, <1>0, <1>3, <2>1 DEF TypeOK, DispatchClusterServiceDelete
    <2> QED
      BY Zenon, <1>0, <1>3, <2>2, ResourceTouched, Zenon DEF ResourceType, DispatchClusterServiceDelete
  <1>4. CASE ClearClusterServiceID
    <2>1. resource' \in ResourceType
      BY Zenon, <1>0, <1>4, Zenon DEF ResourceType, ClearClusterServiceID
    <2>2. TypeOK'
      BY Zenon, <1>0, <1>4, <2>1 DEF TypeOK, ClearClusterServiceID
    <2> QED
      BY Zenon, <1>0, <1>4, <2>2, ResourceTouched, Zenon DEF ResourceType, ClearClusterServiceID
  <1>5. CASE DeadlinePasses
    <2>1. resource' \in ResourceType
      BY Zenon, <1>0, <1>5, Zenon DEF ResourceType, DeadlinePasses
    <2>2. TypeOK'
      BY Zenon, <1>0, <1>5, <2>1 DEF TypeOK, DeadlinePasses
    <2> QED
      BY Zenon, <1>0, <1>5, <2>2, ResourceTouched DEF ResourceType, DeadlinePasses
  <1>6. CASE DeleteResourceDocument
    <2>1. resource' \in ResourceType
      BY Zenon, <1>0, <1>6, Zenon DEF ResourceType, DeleteResourceDocument
    <2>2. TypeOK'
      BY Zenon, <1>0, <1>6, <2>1 DEF TypeOK, DeleteResourceDocument
    <2> QED
      BY Zenon, <1>0, <1>6, <2>2, ResourceGone DEF ResourceType, DeleteResourceDocument
  <1>7. CASE TombstoneExpires
    <2>1. resource' \in ResourceType
      BY Zenon, <1>0, <1>7 DEF ResourceType, TombstoneExpires
    <2>2. TypeOK'
      BY Zenon, <1>0, <1>7, <2>1 DEF TypeOK, TombstoneExpires
    <2> QED
      BY Zenon, <1>0, <1>7, <2>2, ResourceGone DEF ResourceType, TombstoneExpires
  <1> QED
    BY Zenon, <1>1, <1>2, <1>3, <1>4, <1>5, <1>6, <1>7 DEF ResourceNext

\* SetDeleteOperationAsCompleted's first half.
LEMMA DeleteNamedResourceStep ==
    ASSUME OperationInvariant, NEW o \in Operation, DeleteNamedResource(o)
    PROVE  OperationInvariant'
  <1>0. /\ TypeOK /\ resource \in ResourceType /\ sync[o] \in SyncType
        /\ resource.etag + 1 \in Nat
    BY DEF OperationInvariant, TypeOK, ResourceType
  <1> DEFINE r == [sync[o] EXCEPT !.phase = "deleted"]
  <1>1. r \in SyncType /\ r.phase = "deleted" /\ r.opETag = sync[o].opETag
    BY Zenon, <1>0 DEF SyncType
  <1>2. sync' = [sync EXCEPT ![o] = r]
    BY Zenon DEF DeleteNamedResource
  <1> HIDE DEF r
  <1>3. TypeOK'
    <2>1. resource' \in ResourceType
      BY Zenon, <1>0, Zenon DEF DeleteNamedResource, ResourceType
    <2> QED
      BY Zenon, <1>0, <1>1, <1>2, <2>1 DEF TypeOK, DeleteNamedResource
  <1>4. \A p \in Operation :
           \/ sync'[p] = sync[p]
           \/ /\ sync[p].phase = "completing" /\ sync'[p].phase = "deleted"
              /\ sync'[p].opETag = sync[p].opETag
    BY Zenon, <1>0, <1>1, <1>2 DEF TypeOK, DeleteNamedResource
  <1>5. /\ resource'.etag \in {resource.etag, resource.etag + 1}
        /\ resource'.stored # "present"
        /\ resource'.generation = resource.generation
        /\ UNCHANGED <<operation, request>>
    BY Zenon, <1>0 DEF ResourceType, DeleteNamedResource, Present
  <1> QED
    BY Zenon, <1>3, <1>4, <1>5, ResourceGone

----------------------------------------------------------------------------
(* The frontend's batches.                                                  *)

\* A batch that stores operation o and puts it in charge of the resource.
LEMMA ResourceClaimed ==
    ASSUME OperationInvariant, TypeOK', NEW o \in Operation,
           request[o].phase # "idle",
           request' = [request EXCEPT ![o] = NoRequest], UNCHANGED sync,
           resource'.etag = resource.etag + 1, resource'.stored = "present",
           resource'.activeOperationID = o,
           \/ ~Present /\ resource'.generation = resource.generation + 1
           \/ Present /\ resource'.generation = resource.generation,
           operation'[o].etag = 1,
           operation'[o].generation = resource'.generation,
           operation'[o].status = resource'.provisioningState,
           ~IsTerminal(operation'[o].status),
           \A p \in Operation \ {o} :
              \/ operation'[p] = operation[p]
              \/ /\ Active(p)
                 /\ operation'[p].etag = operation[p].etag + 1
                 /\ operation'[p].request = operation[p].request
                 /\ operation'[p].generation = operation[p].generation
                 /\ operation'[p].status = "Canceled",
           resource'.kind = "cluster" /\ resource'.deletionTimestamp => operation'[o].request = "Delete"
    PROVE  OperationInvariant'
  <1>0. /\ resource.etag \in Nat /\ resource.generation \in Nat
        /\ request \in [Operation -> RequestType]
        /\ sync \in [Operation -> SyncType]
        /\ \A p \in Operation : operation[p].etag \in Nat /\ operation[p].generation \in Nat
    BY Zenon DEF OperationInvariant, TypeOK, ResourceType, OperationType
  <1>1. ~Stored(o)
    BY Zenon DEF OperationInvariant, RequestKnows
  <1>2. o # NoOperation
    BY Zenon, OperationAssumption
  <1>3. ResourceMirrorsOperation'
    BY <1>2 DEF ResourceMirrorsOperation, Active, Stored
  <1>4. DeletingResourceIsNotUpdated'
    BY Zenon DEF DeletingResourceIsNotUpdated
  <1>5. \A p \in Operation : operation'[p].generation <= resource'.generation
    <2> TAKE p \in Operation
    <2>1. operation[p].generation <= resource.generation
      BY Zenon DEF OperationInvariant
    <2> QED
      BY <1>0, <2>1
  <1>6. SucceededDeleteIsGone'
    <2> SUFFICES ASSUME NEW p \in Operation,
                        operation'[p].etag > 0, operation'[p].status = "Succeeded",
                        operation'[p].request = "Delete"
                 PROVE  resource'.generation # operation'[p].generation
      BY Zenon DEF SucceededDeleteIsGone, Stored, Present
    <2>1. p # o
      BY Zenon DEF IsTerminal
    <2>2. operation'[p] = operation[p]
      BY Zenon, <2>1
    <2>3. ~(Present /\ resource.generation = operation[p].generation)
      BY <2>2 DEF OperationInvariant, SucceededDeleteIsGone, Stored
    <2>4. operation[p].generation <= resource.generation
      BY Zenon DEF OperationInvariant
    <2> QED
      BY <1>0, <2>2, <2>3, <2>4
  <1>7. \A p \in Operation : request'[p].phase # "idle" => RequestKnows(p)'
    <2> SUFFICES ASSUME NEW p \in Operation, request'[p].phase # "idle"
                 PROVE  RequestKnows(p)'
      BY Zenon
    <2>1. p # o
      BY Zenon, <1>0 DEF NoRequest
    <2>2. request'[p] = request[p] /\ request[p].etag \in Nat
          /\ request[p].cancels \subseteq Operation \X Nat
      BY Zenon, <1>0, <2>1 DEF RequestType
    <2>3. RequestKnows(p)
      BY Zenon, <2>2 DEF OperationInvariant
    <2>4. ~Stored(p)'
      BY Zenon, <2>1, <2>3 DEF RequestKnows, Stored, Active
    <2>5. request'[p].etag <= resource'.etag /\ request'[p].etag # resource'.etag
      BY <1>0, <2>2, <2>3 DEF RequestKnows
    <2>6. ASSUME NEW c \in request'[p].cancels
          PROVE  /\ c[2] <= operation'[c[1]].etag
                 /\ c[2] = operation'[c[1]].etag => Active(c[1])'
      <3>1. c[1] \in Operation /\ c[2] \in Nat
        BY <2>2, <2>6
      <3>2. c[2] <= operation[c[1]].etag /\ (c[2] = operation[c[1]].etag => Active(c[1]))
        BY Zenon, <2>2, <2>3, <2>6 DEF RequestKnows
      <3>3. c[1] # o
        BY <1>0, <1>1, <3>1, <3>2 DEF Active, Stored
      <3> QED
        BY <1>0, <3>1, <3>2, <3>3 DEF Active, Stored
    <2> QED
      BY Zenon, <2>4, <2>5, <2>6 DEF RequestKnows
  <1>8. \A p \in Operation : sync'[p].phase \notin {"idle", "failed"} => SyncKnows(p)'
    <2> SUFFICES ASSUME NEW p \in Operation, sync'[p].phase \notin {"idle", "failed"}
                 PROVE  SyncKnows(p)'
      BY Zenon
    <2>1. SyncKnows(p) /\ sync[p].resETag \in Nat /\ sync[p].opETag \in Nat
      BY Zenon, <1>0 DEF OperationInvariant, SyncType
    <2>2. p # o
      BY Zenon, <1>1, <2>1 DEF SyncKnows
    <2>3. Stored(p)' /\ sync'[p].opETag <= operation'[p].etag
      BY <1>0, <2>1, <2>2 DEF SyncKnows, Stored
    <2>4. sync'[p].opETag = operation'[p].etag => operation'[p] = operation[p]
      BY <1>0, <2>1, <2>2 DEF SyncKnows
    <2>5. operation'[p].request = operation[p].request
          /\ operation'[p].generation = operation[p].generation
      BY Zenon, <2>2
    <2>6. sync'[p].phase = "prepared" => sync'[p].resETag <= resource'.etag
                                         /\ sync'[p].resETag # resource'.etag
      BY <1>0, <2>1 DEF SyncKnows
    <2>7. sync'[p].phase \in {"completing", "deleted"} =>
             resource'.generation # operation'[p].generation
      <3>1. operation[p].generation <= resource.generation
        BY Zenon DEF OperationInvariant
      <3> QED
        BY <1>0, <2>1, <2>5, <3>1 DEF SyncKnows
    <2> QED
      BY Zenon, <2>1, <2>2, <2>3, <2>4, <2>5, <2>6, <2>7 DEF SyncKnows, Active, Stored
  <1> QED
    BY <1>0, <1>3, <1>4, <1>5, <1>6, <1>7, <1>8 DEF OperationInvariant
\* What the three batches share: the request's knowledge and the new document.
LEMMA NewOperationType ==
    ASSUME OperationInvariant, NEW o \in Operation, NEW uri \in NotificationURIs,
           resource' \in ResourceType
    PROVE  /\ NewOperation(o, uri) \in OperationType
           /\ NewOperation(o, uri).etag = 1
           /\ NewOperation(o, uri).request = request[o].verb
           /\ NewOperation(o, uri).status = InitialStatus(request[o].verb)
           /\ NewOperation(o, uri).generation = resource'.generation
  <1>1. request[o].verb \in OperationRequests
    BY Zenon DEF OperationInvariant, TypeOK, RequestType
  <1>2. InitialStatus(request[o].verb) \in ProvisioningStates
    BY Zenon DEF InitialStatus, ProvisioningStates
  <1>3. uri \in BOOLEAN /\ resource'.generation \in Nat
    BY Zenon, NotificationAssumption DEF ResourceType
  <1> QED
    BY Zenon, <1>1, <1>2, <1>3 DEF NewOperation, OperationType

\* The batch that creates a resource with its first operation keeps the invariant.
LEMMA CommitCreateStep ==
    ASSUME OperationInvariant, NEW o \in Operation, CommitCreate(o)
    PROVE  OperationInvariant'
  <1>0. /\ TypeOK /\ resource.etag + 1 \in Nat /\ resource.generation + 1 \in Nat
        /\ resource.kind \in Kinds
    BY DEF OperationInvariant, TypeOK, ResourceType
  <1>1. resource' \in ResourceType
    BY Zenon, <1>0 DEF CommitCreate, ResourceType, ProvisioningStates
  <1>2. PICK uri \in NotificationURIs :
           operation' = [operation EXCEPT ![o] = NewOperation(o, uri)]
    BY Zenon DEF CommitCreate
  <1>3. NoRequest \in RequestType
    BY Zenon DEF NoRequest, RequestType, OperationRequests
  <1>4. TypeOK'
    BY Zenon, <1>0, <1>1, <1>2, <1>3, NewOperationType, Zenon DEF TypeOK, CommitCreate
  <1>5. operation'[o] = NewOperation(o, uri)
        /\ \A p \in Operation \ {o} : operation'[p] = operation[p]
    BY Zenon, <1>0, <1>2 DEF TypeOK
  <1>6. operation'[o].status = "Accepted" /\ operation'[o].etag = 1
        /\ operation'[o].generation = resource'.generation
    <2>1. request[o].verb = "Create"
      BY Zenon DEF CommitCreate
    <2> QED
      BY <1>1, <1>5, <2>1, NewOperationType DEF InitialStatus
  <1> QED
    BY Zenon, <1>0, <1>4, <1>5, <1>6, ResourceClaimed, Zenon DEF CommitCreate, Present, IsTerminal

\* The batch that replaces a resource with an update operation keeps the invariant.
LEMMA CommitUpdateStep ==
    ASSUME OperationInvariant, NEW o \in Operation, CommitUpdate(o)
    PROVE  OperationInvariant'
  <1>0. /\ TypeOK /\ resource \in ResourceType /\ resource.etag + 1 \in Nat
    BY DEF OperationInvariant, TypeOK, ResourceType
  <1>1. resource' \in ResourceType
    BY Zenon, <1>0, Zenon DEF CommitUpdate, ResourceType, ProvisioningStates
  <1>2. PICK uri \in NotificationURIs :
           operation' = [operation EXCEPT ![o] = NewOperation(o, uri)]
    BY Zenon DEF CommitUpdate
  <1>3. NoRequest \in RequestType
    BY Zenon DEF NoRequest, RequestType, OperationRequests
  <1>4. TypeOK'
    BY Zenon, <1>0, <1>1, <1>2, <1>3, NewOperationType DEF TypeOK, CommitUpdate
  <1>5. operation'[o] = NewOperation(o, uri)
        /\ \A p \in Operation \ {o} : operation'[p] = operation[p]
    BY Zenon, <1>0, <1>2 DEF TypeOK
  <1>6. operation'[o].status = "Accepted" /\ operation'[o].etag = 1
        /\ operation'[o].generation = resource'.generation
    <2>1. request[o].verb = "Update"
      BY Zenon DEF CommitUpdate
    <2> QED
      BY <1>1, <1>5, <2>1, NewOperationType DEF InitialStatus
  <1>7. resource.kind = "cluster" => ~resource.deletionTimestamp
    BY Zenon DEF OperationInvariant, CommitUpdate, RequestKnows, AdmitCluster
  <1>8. /\ resource'.etag = resource.etag + 1 /\ resource'.stored = "present"
        /\ resource'.activeOperationID = o /\ resource'.generation = resource.generation
        /\ resource'.provisioningState = "Accepted"
        /\ resource'.deletionTimestamp = resource.deletionTimestamp
        /\ resource'.kind = resource.kind
    BY Zenon, <1>0 DEF CommitUpdate, ResourceType, Present
  <1> QED
    BY Zenon, <1>4, <1>5, <1>6, <1>7, <1>8, ResourceClaimed, ZenonT(30) DEF CommitUpdate, IsTerminal

\* The batch that cancels the active operations and starts a deletion keeps it.
LEMMA CommitDeleteStep ==
    ASSUME OperationInvariant, NEW o \in Operation, CommitDelete(o)
    PROVE  OperationInvariant'
  <1>0. /\ TypeOK /\ resource \in ResourceType /\ resource.etag + 1 \in Nat
        /\ operation \in [Operation -> OperationType]
    BY DEF OperationInvariant, TypeOK, ResourceType
  <1>1. resource' \in ResourceType
    BY Zenon, <1>0, Zenon DEF CommitDelete, ResourceType, ProvisioningStates
  <1>2. PICK uri \in NotificationURIs :
           operation' = [CanceledBy(o) EXCEPT ![o] = NewOperation(o, uri)]
    BY Zenon DEF CommitDelete
  <1>3. NoRequest \in RequestType
    BY Zenon DEF NoRequest, RequestType, OperationRequests
  <1>4. \A p \in Operation :
           /\ CanceledBy(o)[p] \in OperationType
           /\ \/ CanceledBy(o)[p] = operation[p]
              \/ /\ p \in {c[1] : c \in request[o].cancels}
                 /\ CanceledBy(o)[p].etag = operation[p].etag + 1
                 /\ CanceledBy(o)[p].request = operation[p].request
                 /\ CanceledBy(o)[p].generation = operation[p].generation
                 /\ CanceledBy(o)[p].status = "Canceled"
    <2> TAKE p \in Operation
    <2>1. operation[p] \in OperationType /\ operation[p].etag + 1 \in Nat
      BY <1>0 DEF OperationType
    <2>2. CASE p \in {c[1] : c \in request[o].cancels}
      <3>1. CanceledBy(o)[p] = [operation[p] EXCEPT !.status = "Canceled",
                                                    !.etag = operation[p].etag + 1]
        BY Zenon, <2>2 DEF CanceledBy
      <3> QED
        BY Zenon, <2>1, <2>2, <3>1, Zenon DEF OperationType, ProvisioningStates
    <2>3. CASE p \notin {c[1] : c \in request[o].cancels}
      BY Zenon, <2>1, <2>3 DEF CanceledBy
    <2> QED
      BY Zenon, <2>2, <2>3
  <1>5. CanceledBy(o) \in [Operation -> OperationType]
    BY Zenon, <1>4, Zenon DEF CanceledBy
  <1>6. operation'[o] = NewOperation(o, uri)
        /\ \A p \in Operation \ {o} : operation'[p] = CanceledBy(o)[p]
    BY Zenon, <1>2, <1>5
  <1>7. TypeOK'
    BY Zenon, <1>0, <1>1, <1>2, <1>3, <1>5, NewOperationType DEF TypeOK, CommitDelete
  <1>8. operation'[o].status = "Deleting" /\ operation'[o].etag = 1
        /\ operation'[o].generation = resource'.generation
        /\ operation'[o].request = "Delete"
    BY <1>1, <1>6, NewOperationType DEF CommitDelete, InitialStatus
  <1>9. \A p \in Operation : p \in {c[1] : c \in request[o].cancels} => Active(p)
    <2> SUFFICES ASSUME NEW c \in request[o].cancels PROVE Active(c[1])
      BY Zenon
    <2> QED
      BY Zenon DEF OperationInvariant, CommitDelete, RequestKnows
  <1>10. /\ resource'.etag = resource.etag + 1 /\ resource'.stored = "present"
         /\ resource'.activeOperationID = o /\ resource'.generation = resource.generation
         /\ resource'.provisioningState = "Deleting"
    BY Zenon, <1>0 DEF CommitDelete, ResourceType, Present
  <1>11. \A p \in Operation \ {o} :
            \/ operation'[p] = operation[p]
            \/ /\ Active(p)
               /\ operation'[p].etag = operation[p].etag + 1
               /\ operation'[p].request = operation[p].request
               /\ operation'[p].generation = operation[p].generation
               /\ operation'[p].status = "Canceled"
    BY <1>4, <1>6, <1>9
  <1>12. /\ Present /\ request[o].phase # "idle" /\ UNCHANGED sync
         /\ request' = [request EXCEPT ![o] = NoRequest]
    BY Zenon DEF CommitDelete
  <1>13. /\ ~IsTerminal(operation'[o].status)
         /\ operation'[o].status = resource'.provisioningState
         /\ resource'.kind = "cluster" /\ resource'.deletionTimestamp => operation'[o].request = "Delete"
    BY Zenon, <1>8, <1>10 DEF IsTerminal
  <1> QED
    BY Zenon, <1>7, <1>8, <1>10, <1>11, <1>12, <1>13, ResourceClaimed, Zenon
----------------------------------------------------------------------------
(* The operation controllers' writes.                                       *)

\* What a sync is after a write.
LEMMA AfterWriteType ==
    ASSUME NEW o, NEW s
    PROVE  /\ AfterWrite(o, s) \in SyncType
           /\ AfterWrite(o, s).phase \in {"idle", "notify"} /\ AfterWrite(o, s).opETag = 0
  BY Zenon DEF AfterWrite, NoSync, SyncType, ProvisioningStates

\* With a write of operation o the resource is left alone, or it is in o's
\* charge and follows.
ResourceFollows(o) ==
    \/ /\ resource' = resource
       /\ Present /\ resource.activeOperationID = o =>
             operation'[o].status = resource.provisioningState
             /\ ~IsTerminal(operation'[o].status)
    \/ /\ Present /\ resource.activeOperationID = o
       /\ resource'.stored = "present" /\ resource'.etag = resource.etag + 1
       /\ resource'.generation = resource.generation
       /\ resource'.deletionTimestamp = resource.deletionTimestamp
       /\ resource'.kind = resource.kind
       /\ resource'.provisioningState = operation'[o].status
       /\ resource'.activeOperationID = IF IsTerminal(operation'[o].status)
                                        THEN NoOperation ELSE o

\* Operation o is written under the next etag; a terminal status stays, and a
\* deletion succeeds only when its document is gone.
OperationReplaced(o) ==
    /\ \A p \in Operation \ {o} : operation'[p] = operation[p]
    /\ operation'[o].etag = operation[o].etag + 1
    /\ operation'[o].request = operation[o].request
    /\ operation'[o].generation = operation[o].generation
    /\ operation'[o].status = operation[o].status \/ Active(o)
    /\ operation[o].request = "Delete" /\ operation'[o].status = "Succeeded" =>
          ~(Present /\ resource.generation = operation[o].generation)

\* A write of operation o, which a sync made of a copy it still has.
LEMMA OperationWritten ==
    ASSUME OperationInvariant, TypeOK', NEW o \in Operation, Stored(o),
           NEW r \in SyncType, r.phase \in {"idle", "notify"}, r.opETag = 0,
           UNCHANGED request, sync' = [sync EXCEPT ![o] = r],
           OperationReplaced(o), ResourceFollows(o)
    PROVE  OperationInvariant'
  <1>0. /\ resource.etag \in Nat /\ resource.generation \in Nat
        /\ resource.activeOperationID \in Operation \cup {NoOperation}
        /\ request \in [Operation -> RequestType]
        /\ sync \in [Operation -> SyncType]
        /\ \A p \in Operation : operation[p].etag \in Nat /\ operation[p].generation \in Nat
    BY Zenon DEF OperationInvariant, TypeOK, ResourceType, OperationType
  <1>1. o # NoOperation
    BY Zenon, OperationAssumption
  <1>2. /\ resource'.generation = resource.generation /\ (Present' <=> Present)
        /\ resource' = resource \/ resource'.etag = resource.etag + 1
    BY Zenon DEF Present, ResourceFollows
  <1>3. Present' /\ resource'.etag = resource.etag => resource' = resource
    BY <1>0, <1>2
  <1>4. \A p \in Operation :
           /\ operation'[p].generation = operation[p].generation
           /\ operation'[p].request = operation[p].request
           /\ operation'[p] = operation[p] \/ operation'[p].etag = operation[p].etag + 1
           /\ p # o => operation'[p] = operation[p]
    BY Zenon DEF OperationReplaced
  <1>5. \A p \in Operation : (Stored(p)' <=> Stored(p)) /\ (Active(p)' => Active(p))
    <2>1. Stored(o)'
      BY <1>0 DEF OperationReplaced, Stored
    <2>2. Active(o)' => Active(o)
      BY Zenon DEF OperationReplaced, Active
    <2> QED
      BY Zenon, <1>4, <2>1, <2>2 DEF Active, Stored
  <1>6. ResourceMirrorsOperation'
    <2>1. ResourceMirrorsOperation
      BY Zenon DEF OperationInvariant
    <2>2. CASE resource' = resource
      <3>1. Present /\ resource.activeOperationID = o =>
               operation'[o].status = resource.provisioningState
               /\ ~IsTerminal(operation'[o].status)
        BY <1>0, <2>2 DEF ResourceFollows
      <3>2. CASE resource.activeOperationID = o
        <4>1. Present => Active(o)' /\ operation'[o].generation = resource.generation
          BY Zenon, <1>1, <1>4, <1>5, <2>1, <3>1, <3>2 DEF ResourceMirrorsOperation, Active
        <4> QED
          BY Zenon, <1>1, <2>2, <3>1, <3>2, <4>1 DEF ResourceMirrorsOperation, Present
      <3>3. CASE resource.activeOperationID # o
        BY Zenon, <1>0, <1>4, <2>1, <2>2, <3>3 DEF ResourceMirrorsOperation, Active, Stored, Present
      <3> QED
        BY Zenon, <3>2, <3>3
    <2>3. CASE resource' # resource
      <3>1. /\ Present /\ resource.activeOperationID = o
            /\ resource'.provisioningState = operation'[o].status
            /\ resource'.activeOperationID = IF IsTerminal(operation'[o].status)
                                             THEN NoOperation ELSE o
        BY Zenon, <2>3 DEF ResourceFollows
      <3>2. operation'[o].generation = resource'.generation /\ Stored(o)'
        BY Zenon, <1>1, <1>2, <1>4, <1>5, <2>1, <3>1 DEF ResourceMirrorsOperation
      <3> QED
        BY Zenon, <1>1, <3>1, <3>2 DEF ResourceMirrorsOperation, Active, Stored, Present
    <2> QED
      BY Zenon, <2>2, <2>3
  <1>7. DeletingResourceIsNotUpdated'
    <2>1. CASE resource' = resource
      BY Zenon, <1>0, <1>4, <2>1 DEF OperationInvariant, DeletingResourceIsNotUpdated, Present
    <2>2. CASE resource' # resource
      BY Zenon, <1>1, <1>4, <2>2, Zenon DEF OperationInvariant, DeletingResourceIsNotUpdated, Present,
                              ResourceFollows
    <2> QED
      BY Zenon, <2>1, <2>2
  <1>8. SucceededDeleteIsGone'
    <2>1. SucceededDeleteIsGone
      BY Zenon DEF OperationInvariant
    <2> QED
      BY <1>2, <1>4, <1>5, <2>1 DEF SucceededDeleteIsGone, OperationReplaced
  <1>9. \A p \in Operation : operation'[p].generation <= resource'.generation
    BY Zenon, <1>2, <1>4 DEF OperationInvariant
  <1>10. \A p \in Operation : request'[p].phase # "idle" => RequestKnows(p)'
    <2> SUFFICES ASSUME NEW p \in Operation, request'[p].phase # "idle"
                 PROVE  RequestKnows(p)'
      BY Zenon
    <2>1. /\ RequestKnows(p) /\ request[p].etag \in Nat
          /\ request[p].cancels \subseteq Operation \X Nat
      BY Zenon, <1>0 DEF OperationInvariant, RequestType
    <2>2. ~Stored(p)'
      BY Zenon, <1>5, <2>1 DEF RequestKnows
    <2>3. request'[p].etag <= resource.etag
      BY Zenon, <2>1 DEF RequestKnows
    <2>4. request'[p].etag <= resource'.etag
          /\ (Present' /\ request'[p].etag = resource'.etag => resource' = resource)
      BY <1>0, <1>2, <2>1, <2>3
    <2>5. ASSUME NEW c \in request'[p].cancels
          PROVE  /\ c[2] <= operation'[c[1]].etag
                 /\ c[2] = operation'[c[1]].etag => Active(c[1])'
      <3>1. c[1] \in Operation /\ c[2] \in Nat
        BY Zenon, <2>1, <2>5
      <3>2. c[2] <= operation[c[1]].etag /\ (c[2] = operation[c[1]].etag => Active(c[1]))
        BY Zenon, <2>1, <2>5 DEF RequestKnows
      <3>3. CASE operation'[c[1]] = operation[c[1]]
        BY Zenon, <3>2, <3>3 DEF Active, Stored
      <3>4. CASE operation'[c[1]].etag = operation[c[1]].etag + 1
        BY <1>0, <3>1, <3>2, <3>4
      <3> QED
        BY Zenon, <1>4, <3>1, <3>3, <3>4
    <2>6. Present' /\ request'[p].etag = resource'.etag =>
             /\ request'[p].verb = "Update" =>
                   IsTerminal(resource'.provisioningState) /\ AdmitCluster(resource')
             /\ request'[p].verb = "Delete" /\ request'[p].phase = "ready" =>
                   \A x \in Operation : Active(x) => \E c \in request'[p].cancels : c[1] = x
      BY Zenon, <1>2, <2>1, <2>4 DEF RequestKnows
    <2> QED
      BY Zenon, <1>5, <2>2, <2>4, <2>5, <2>6 DEF RequestKnows, AdmitCluster
  <1>11. \A p \in Operation : sync'[p].phase \notin {"idle", "failed"} => SyncKnows(p)'
    <2> SUFFICES ASSUME NEW p \in Operation, sync'[p].phase \notin {"idle", "failed"}
                 PROVE  SyncKnows(p)'
      BY Zenon
    <2>1. CASE p = o
      <3>1. sync'[o] = r /\ Stored(o)' /\ operation'[o].etag \in Nat /\ operation'[o].etag > 0
        BY <1>0, <1>4, <1>5 DEF Stored
      <3> QED
        BY <2>1, <3>1 DEF SyncKnows
    <2>2. CASE p # o
      <3>1. sync'[p] = sync[p] /\ operation'[p] = operation[p]
        BY Zenon, <1>0, <1>4, <2>2
      <3>2. SyncKnows(p) /\ sync[p].resETag \in Nat
        BY Zenon, <1>0, <3>1 DEF OperationInvariant, SyncType
      <3>3. CASE resource' = resource
        BY <3>1, <3>2, <3>3 DEF SyncKnows, Active, Stored, Present
      <3>4. CASE resource' # resource
        <4>1. resource'.etag = resource.etag + 1 /\ resource'.activeOperationID # p
          BY Zenon, <2>2, <3>4, OperationAssumption DEF ResourceFollows
        <4>2. sync'[p].phase = "prepared" => sync'[p].resETag <= resource'.etag
                                             /\ sync'[p].resETag # resource'.etag
          BY <1>0, <3>1, <3>2, <4>1 DEF SyncKnows
        <4>3. sync'[p].phase \in {"completing", "deleted"} =>
                 ~(Present' /\ resource'.generation = operation'[p].generation)
          BY Zenon, <1>2, <3>1, <3>2 DEF SyncKnows
        <4> QED
          BY Zenon, <3>1, <3>2, <4>1, <4>2, <4>3, Zenon DEF SyncKnows, Active, Stored
      <3> QED
        BY Zenon, <3>3, <3>4
    <2> QED
      BY Zenon, <2>1, <2>2
  <1>12. Present' => resource'.etag > 0
    <2>1. Present => resource.etag > 0
      BY Zenon DEF OperationInvariant
    <2> QED
      BY <1>0, <1>2, <2>1
  <1>13. \A p \in Operation :
            /\ operation'[p].generation <= resource'.generation
            /\ request'[p].phase # "idle" => RequestKnows(p)'
            /\ sync'[p].phase \notin {"idle", "failed"} => SyncKnows(p)'
    BY Zenon, <1>9, <1>10, <1>11
  <1> QED
    BY Zenon, <1>6, <1>7, <1>8, <1>12, <1>13, Zenon DEF OperationInvariant

\* A controller's write of an operation's next status keeps the invariant.
LEMMA UpdateOperationStatusStep ==
    ASSUME OperationInvariant, NEW o \in Operation, UpdateOperationStatus(o)
    PROVE  OperationInvariant'
  <1> DEFINE matches == /\ operation[o].etag = sync[o].opETag
                        /\ sync[o].resETag # 0 => Present /\ resource.etag = sync[o].resETag
             s == sync[o].status
             d == [operation[o] EXCEPT !.etag = operation[o].etag + 1, !.status = s]
             r == AfterWrite(o, s)
  <1>0. /\ TypeOK /\ resource \in ResourceType /\ resource.etag + 1 \in Nat
        /\ operation[o] \in OperationType /\ operation[o].etag + 1 \in Nat
        /\ s \in ProvisioningStates
    BY DEF OperationInvariant, TypeOK, ResourceType, OperationType, SyncType
  <1>1. CASE ~matches
    BY Zenon, <1>0, <1>1, SyncEnds, NoSyncIsIdle DEF UpdateOperationStatus, TypeOK
  <1>2. CASE matches
    <2>1. SyncKnows(o) /\ Active(o)
      BY Zenon, <1>2 DEF UpdateOperationStatus, OperationInvariant, SyncKnows
    <2>2. d \in OperationType /\ d.etag = operation[o].etag + 1 /\ d.status = s
          /\ d.request = operation[o].request /\ d.generation = operation[o].generation
      BY Zenon, <1>0, Zenon DEF OperationType
    <2>3. operation' = [operation EXCEPT ![o] = d]
      BY Zenon, <1>2, Zenon DEF UpdateOperationStatus
    <2>4. sync' = [sync EXCEPT ![o] = r] /\ UNCHANGED <<request, notified>>
      BY Zenon, <1>2 DEF UpdateOperationStatus
    <2>5. r \in SyncType /\ r.phase \in {"idle", "notify"} /\ r.opETag = 0
      BY Zenon, AfterWriteType
    <2>6. operation'[o] = d /\ \A p \in Operation \ {o} : operation'[p] = operation[p]
      BY Zenon, <1>0, <2>3 DEF TypeOK
    <2>7. operation[o].request = "Delete" => s # "Succeeded"
      BY Zenon, <2>1 DEF SyncKnows, UpdateOperationStatus
    <2> HIDE DEF r
    <2>8. CASE sync[o].resETag = 0
      <3>1. resource' = resource
        BY Zenon, <1>2, <2>8 DEF UpdateOperationStatus
      <3>2. Present /\ resource.activeOperationID = o =>
               s = resource.provisioningState /\ ~IsTerminal(s)
        BY Zenon, <2>1, <2>8 DEF SyncKnows, UpdateOperationStatus
      <3>3. TypeOK'
        BY Zenon, <1>0, <2>2, <2>3, <2>4, <2>5, <3>1 DEF TypeOK
      <3> HIDE DEF d, s
      <3>4. ResourceFollows(o)
        BY Zenon, <2>2, <2>6, <3>1, <3>2 DEF ResourceFollows
      <3>5. OperationReplaced(o)
        BY Zenon, <2>1, <2>2, <2>6, <2>7 DEF OperationReplaced
      <3> QED
        BY Zenon, <2>1, <2>4, <2>5, <3>3, <3>4, <3>5, OperationWritten, Zenon DEF Active
    <2>9. CASE sync[o].resETag # 0
      <3>1. resource' = [resource EXCEPT
                           !.etag = resource.etag + 1, !.provisioningState = s,
                           !.activeOperationID = IF IsTerminal(s) THEN NoOperation
                                                 ELSE resource.activeOperationID]
        BY Zenon, <1>2, <2>9 DEF UpdateOperationStatus
      <3>2. Present /\ resource.activeOperationID = o
        BY Zenon, <1>2, <2>1, <2>9 DEF SyncKnows, UpdateOperationStatus
      <3> HIDE DEF s
      <3>3. /\ resource' \in ResourceType /\ resource'.stored = "present"
            /\ resource'.etag = resource.etag + 1
            /\ resource'.generation = resource.generation
            /\ resource'.deletionTimestamp = resource.deletionTimestamp
            /\ resource'.kind = resource.kind
            /\ resource'.provisioningState = s
            /\ resource'.activeOperationID = IF IsTerminal(s) THEN NoOperation ELSE o
        BY Zenon, <1>0, <3>1, <3>2, Zenon DEF ResourceType, Present
      <3>4. TypeOK'
        BY Zenon, <1>0, <2>2, <2>3, <2>4, <2>5, <3>3 DEF TypeOK
      <3> HIDE DEF d
      <3>5. ResourceFollows(o)
        BY Zenon, <2>2, <2>6, <3>2, <3>3 DEF ResourceFollows
      <3>6. OperationReplaced(o)
        BY Zenon, <2>1, <2>2, <2>6, <2>7 DEF OperationReplaced
      <3> QED
        BY Zenon, <2>1, <2>4, <2>5, <3>4, <3>5, <3>6, OperationWritten, Zenon DEF Active
    <2> QED
      BY Zenon, <2>8, <2>9
  <1> QED
    BY Zenon, <1>1, <1>2

\* The write that ends a deletion whose document is gone keeps the invariant.
LEMMA PatchOperationStep ==
    ASSUME OperationInvariant, NEW o \in Operation, PatchOperation(o)
    PROVE  OperationInvariant'
  <1> DEFINE d == [operation[o] EXCEPT !.etag = operation[o].etag + 1, !.status = "Succeeded"]
             r == AfterWrite(o, "Succeeded")
  <1>0. /\ TypeOK /\ operation[o] \in OperationType /\ operation[o].etag + 1 \in Nat
    BY DEF OperationInvariant, TypeOK, OperationType
  <1>1. CASE operation[o].etag # sync[o].opETag
    BY Zenon, <1>0, <1>1, SyncEnds, NoSyncIsIdle DEF PatchOperation, TypeOK
  <1>2. CASE operation[o].etag = sync[o].opETag
    <2>1. /\ Stored(o) /\ Active(o)
          /\ ~(Present /\ resource.activeOperationID = o)
          /\ ~(Present /\ resource.generation = operation[o].generation)
      BY Zenon, <1>2 DEF PatchOperation, OperationInvariant, SyncKnows
    <2>2. d \in OperationType /\ d.etag = operation[o].etag + 1 /\ d.status = "Succeeded"
          /\ d.request = operation[o].request /\ d.generation = operation[o].generation
      BY Zenon, <1>0, Zenon DEF OperationType, ProvisioningStates
    <2>3. operation' = [operation EXCEPT ![o] = d]
      BY Zenon, <1>2, Zenon DEF PatchOperation
    <2>4. sync' = [sync EXCEPT ![o] = r] /\ UNCHANGED <<resource, request, notified>>
      BY Zenon, <1>2 DEF PatchOperation
    <2>5. r \in SyncType /\ r.phase \in {"idle", "notify"} /\ r.opETag = 0
      BY Zenon, AfterWriteType
    <2>6. operation'[o] = d /\ \A p \in Operation \ {o} : operation'[p] = operation[p]
      BY Zenon, <1>0, <2>3 DEF TypeOK
    <2> HIDE DEF r, d
    <2>7. TypeOK'
      BY Zenon, <1>0, <2>2, <2>3, <2>4, <2>5 DEF TypeOK
    <2>8. ResourceFollows(o)
      BY Zenon, <2>1, <2>4 DEF ResourceFollows
    <2>9. OperationReplaced(o)
      BY Zenon, <2>1, <2>2, <2>6 DEF OperationReplaced
    <2> QED
      BY Zenon, <2>1, <2>4, <2>5, <2>7, <2>8, <2>9, OperationWritten, Zenon
  <1> QED
    BY Zenon, <1>1, <1>2

\* Clearing the notification URI once it is posted keeps the invariant.
LEMMA ClearNotificationURIStep ==
    ASSUME OperationInvariant, NEW o \in Operation, ClearNotificationURI(o)
    PROVE  OperationInvariant'
  <1> DEFINE d == [operation[o] EXCEPT !.etag = operation[o].etag + 1, !.notificationURI = FALSE]
  <1>0. /\ TypeOK /\ operation[o] \in OperationType /\ operation[o].etag + 1 \in Nat
    BY DEF OperationInvariant, TypeOK, OperationType
  <1>1. Stored(o)
    BY Zenon DEF ClearNotificationURI, OperationInvariant, SyncKnows
  <1>2. d \in OperationType /\ d.etag = operation[o].etag + 1 /\ d.status = operation[o].status
        /\ d.request = operation[o].request /\ d.generation = operation[o].generation
    BY Zenon, <1>0, Zenon DEF OperationType
  <1>3. operation' = [operation EXCEPT ![o] = d]
    BY Zenon DEF ClearNotificationURI
  <1>4. sync' = [sync EXCEPT ![o] = NoSync] /\ UNCHANGED <<resource, request, notified>>
    BY Zenon DEF ClearNotificationURI
  <1>5. NoSync \in SyncType /\ NoSync.phase = "idle" /\ NoSync.opETag = 0
    BY Zenon DEF NoSync, SyncType, ProvisioningStates
  <1>6. operation'[o] = d /\ \A p \in Operation \ {o} : operation'[p] = operation[p]
    BY Zenon, <1>0, <1>3 DEF TypeOK
  <1> HIDE DEF d
  <1>7. TypeOK'
    BY Zenon, <1>0, <1>2, <1>3, <1>4, <1>5 DEF TypeOK
  <1>8. Present /\ resource.activeOperationID = o =>
           operation[o].status = resource.provisioningState /\ ~IsTerminal(operation[o].status)
    BY Zenon, OperationAssumption DEF OperationInvariant, ResourceMirrorsOperation, Active
  <1>9. operation[o].request = "Delete" /\ operation[o].status = "Succeeded" =>
           ~(Present /\ resource.generation = operation[o].generation)
    BY Zenon, <1>1 DEF OperationInvariant, SucceededDeleteIsGone
  <1>10. ResourceFollows(o)
    BY Zenon, <1>2, <1>4, <1>6, <1>8 DEF ResourceFollows
  <1>11. OperationReplaced(o)
    BY Zenon, <1>2, <1>6, <1>9 DEF OperationReplaced
  <1> QED
    BY Zenon, <1>1, <1>4, <1>5, <1>7, <1>10, <1>11, OperationWritten, Zenon


----------------------------------------------------------------------------
\* A step that changes nothing keeps the invariant.
LEMMA StutterStep ==
    ASSUME OperationInvariant, UNCHANGED vars
    PROVE  OperationInvariant'
  <1>1. TypeOK'
    BY Zenon DEF OperationInvariant, vars, TypeOK
  <1>2. ResourceMirrorsOperation' /\ DeletingResourceIsNotUpdated'
    BY Zenon DEF OperationInvariant, vars, ResourceMirrorsOperation,
       DeletingResourceIsNotUpdated, Present, Stored, Active
  <1>3. SucceededDeleteIsGone'
    BY Zenon DEF OperationInvariant, vars, SucceededDeleteIsGone, Present, Stored, Active
  <1>4. ASSUME NEW o \in Operation, request[o]'.phase # "idle" PROVE RequestKnows(o)'
    BY Zenon, <1>4 DEF OperationInvariant, vars, RequestKnows, Present, Stored, Active
  <1>5. ASSUME NEW o \in Operation, sync[o]'.phase \notin {"idle", "failed"}
        PROVE  SyncKnows(o)'
    BY Zenon, <1>5 DEF OperationInvariant, vars, SyncKnows, Present, Stored, Active
  <1>6. /\ Present' => resource'.etag > 0
        /\ \A o \in Operation : operation'[o].generation <= resource'.generation
    BY Zenon DEF OperationInvariant, vars, Present
  <1> QED BY Zenon, <1>1, <1>2, <1>3, <1>4, <1>5, <1>6 DEF OperationInvariant

\* Every step of the frontend, the resource controllers and the operation
\* controllers preserves the invariant.
LEMMA InvariantStep ==
    ASSUME OperationInvariant, [Next]_vars
    PROVE  OperationInvariant'
  <1>1. CASE FrontendNext
    BY Zenon, <1>1, FrontendReads, CommitCreateStep, CommitUpdateStep, CommitDeleteStep DEF FrontendNext
  <1>2. CASE ResourceNext
    BY Zenon, <1>2, ResourceSteps
  <1>3. CASE BackendNext
    BY Zenon, <1>3, BackendReads, UpdateOperationStatusStep, DeleteNamedResourceStep,
       PatchOperationStep, ClearNotificationURIStep DEF BackendNext, SyncStep
  <1>4. CASE UNCHANGED vars
    BY Zenon, <1>4, StutterStep
  <1> QED
    BY Zenon, <1>1, <1>2, <1>3, <1>4 DEF Next

\* The invariant holds in every state, whatever the interleaving of requests,
\* syncs, failures and restarts.
THEOREM InvariantHolds == Spec => []OperationInvariant
  BY InitInvariant, InvariantStep, PTL DEF Spec

\* Every document, request in flight and sync in flight stays well formed.
THEOREM TypeCorrect == Spec => []TypeOK
  <1>1. OperationInvariant => TypeOK
    BY Zenon DEF OperationInvariant
  <1> QED
    BY <1>1, InvariantHolds, PTL

\* A resource and the operation in charge of it always agree.
THEOREM MirrorCorrect == Spec => []ResourceMirrorsOperation
  <1>1. OperationInvariant => ResourceMirrorsOperation
    BY Zenon DEF OperationInvariant
  <1> QED
    BY <1>1, InvariantHolds, PTL

\* A deletion reported as succeeded has removed its document.
THEOREM DeleteCorrect == Spec => []SucceededDeleteIsGone
  <1>1. OperationInvariant => SucceededDeleteIsGone
    BY Zenon DEF OperationInvariant
  <1> QED
    BY <1>1, InvariantHolds, PTL

\* A cluster whose deletion was accepted is never put in an update's charge.
THEOREM DeletingCorrect == Spec => []DeletingResourceIsNotUpdated
  <1>1. OperationInvariant => DeletingResourceIsNotUpdated
    BY Zenon DEF OperationInvariant
  <1> QED
    BY <1>1, InvariantHolds, PTL
----------------------------------------------------------------------------
(* The operations keep the contract.                                        *)

\* Nothing the contract sees changes.
LEMMA ContractStutter ==
    ASSUME UNCHANGED operation, Owner' = Owner
    PROVE  UNCHANGED Contract!cvars
  BY Zenon DEF Contract!cvars, OperationState, Stored

\* A write of operation o alone that leaves it running, or as it had ended.
LEMMA ContractKeepsState ==
    ASSUME OperationInvariant, NEW o \in Operation, Stored(o), Stored(o)',
           \A p \in Operation \ {o} : operation'[p] = operation[p],
           \/ operation'[o].status = operation[o].status
           \/ Active(o) /\ ~IsTerminal(operation'[o].status)
    PROVE  OperationState' = OperationState
  BY Zenon DEF OperationState, Stored, Active

\* A batch that accepts operation o while nothing is in charge.
LEMMA ContractAccepts ==
    ASSUME OperationInvariant, NEW o \in Operation, ~Stored(o), Owner = NoOperation,
           resource'.stored = "present", resource'.activeOperationID = o,
           \A p \in Operation \ {o} : operation'[p] = operation[p],
           operation'[o].etag = 1, ~IsTerminal(operation'[o].status)
    PROVE  Contract!Accept(o)
  <1>1. OperationState[o] = "none" /\ Owner' = o
    BY Zenon DEF OperationState, Owner, Present
  <1>2. \A p \in Operation : OperationState'[p] = IF p = o THEN "running" ELSE OperationState[p]
    BY DEF OperationState, Stored
  <1>3. OperationState' = [OperationState EXCEPT ![o] = "running"]
    BY Zenon, <1>2, Zenon DEF OperationState
  <1> QED
    BY Zenon, <1>1, <1>3 DEF Contract!Accept

\* A write that ends operation o.
LEMMA ContractEnds ==
    ASSUME OperationInvariant, NEW o \in Operation, Active(o), Stored(o)',
           \A p \in Operation \ {o} : operation'[p] = operation[p],
           IsTerminal(operation'[o].status),
           Owner' = IF Owner = o THEN NoOperation ELSE Owner
    PROVE  Contract!End(o)
  <1>1. OperationState[o] = "running"
    BY Zenon DEF OperationState, Active
  <1>2. OperationState' = [OperationState EXCEPT ![o] = operation'[o].status]
    BY Zenon DEF OperationState, Stored
  <1>3. operation'[o].status \in Contract!Ends
    BY Zenon DEF IsTerminal, Contract!Ends
  <1> QED
    BY Zenon, <1>1, <1>2, <1>3, Zenon DEF Contract!End

\* Every step of a frontend handler is a step of the contract, or none.
LEMMA ContractFrontend ==
    ASSUME OperationInvariant, FrontendNext
    PROVE  [Contract!Next]_(Contract!cvars)
  <1> PICK o \in Operation :
        \/ ReceiveCreate(o) \/ ReceiveUpdate(o) \/ ReceiveDelete(o)
        \/ CancelActiveOperations(o) \/ DropRequest(o)
        \/ CommitCreate(o) \/ CommitUpdate(o) \/ CommitDelete(o)
    BY Zenon DEF FrontendNext
  <1>0. TypeOK /\ operation \in [Operation -> OperationType] /\ resource \in ResourceType
    BY Zenon DEF OperationInvariant, TypeOK
  <1>1. CASE ReceiveCreate(o) \/ ReceiveUpdate(o) \/ ReceiveDelete(o)
             \/ CancelActiveOperations(o) \/ DropRequest(o)
    <2>1. UNCHANGED <<resource, operation>>
      BY Zenon, <1>1 DEF ReceiveCreate, ReceiveUpdate, ReceiveDelete, CancelActiveOperations, DropRequest
    <2> QED
      BY Zenon, <2>1, ContractStutter DEF Owner, Present
  <1>2. CASE CommitCreate(o)
    <2>1. ~Stored(o) /\ request[o].verb = "Create"
      BY Zenon, <1>2, Zenon DEF CommitCreate, OperationInvariant, RequestKnows
    <2>2. PICK uri \in NotificationURIs :
             operation' = [operation EXCEPT ![o] = NewOperation(o, uri)]
      BY Zenon, <1>2, Zenon DEF CommitCreate
    <2>3. NewOperation(o, uri).etag = 1 /\ NewOperation(o, uri).status = "Accepted"
      BY Zenon, <2>1, Zenon DEF NewOperation, InitialStatus
    <2>4. Contract!Accept(o)
      BY <1>0, <1>2, <2>1, <2>2, <2>3, ContractAccepts
         DEF CommitCreate, Owner, Present, IsTerminal
    <2> QED
      BY Zenon, <2>4 DEF Contract!Next
  <1>3. CASE CommitUpdate(o)
    <2>1. ~Stored(o) /\ request[o].verb = "Update" /\ IsTerminal(resource.provisioningState)
      BY <1>3 DEF CommitUpdate, OperationInvariant, RequestKnows
    <2>2. Owner = NoOperation
      BY Zenon, <1>3, <2>1 DEF CommitUpdate, Owner, OperationInvariant, ResourceMirrorsOperation, Active
    <2>3. PICK uri \in NotificationURIs :
             operation' = [operation EXCEPT ![o] = NewOperation(o, uri)]
      BY Zenon, <1>3, Zenon DEF CommitUpdate
    <2>4. NewOperation(o, uri).etag = 1 /\ NewOperation(o, uri).status = "Accepted"
      BY Zenon, <2>1 DEF NewOperation, InitialStatus
    <2>5. resource'.stored = "present" /\ resource'.activeOperationID = o
      BY Zenon, <1>0, <1>3 DEF CommitUpdate, Present, ResourceType
    <2>6. Contract!Accept(o)
      BY Zenon, <1>0, <2>1, <2>2, <2>3, <2>4, <2>5, ContractAccepts DEF IsTerminal
    <2> QED
      BY Zenon, <2>6 DEF Contract!Next
  <1>4. CASE CommitDelete(o)
    <2>1. RequestKnows(o) /\ request[o].verb = "Delete" /\ Present
          /\ request[o].etag = resource.etag /\ request[o].phase = "ready"
      BY Zenon, <1>4 DEF CommitDelete, OperationInvariant
    <2>2. \A p \in Operation : p \in {c[1] : c \in request[o].cancels} <=> Active(p)
      <3>1. \A p \in Operation : Active(p) => p \in {c[1] : c \in request[o].cancels}
        BY Zenon, <2>1 DEF RequestKnows
      <3>2. \A c \in request[o].cancels : Active(c[1])
        BY Zenon, <1>4, <2>1 DEF RequestKnows, CommitDelete
      <3> QED
        BY Zenon, <3>1, <3>2
    <2>3. PICK uri \in NotificationURIs :
             operation' = [CanceledBy(o) EXCEPT ![o] = NewOperation(o, uri)]
      BY Zenon, <1>4, Zenon DEF CommitDelete
    <2>4. NewOperation(o, uri).etag = 1 /\ NewOperation(o, uri).status = "Deleting"
      BY Zenon, <2>1 DEF NewOperation, InitialStatus
    <2>5. ~Stored(o)
      BY Zenon, <2>1 DEF RequestKnows
    <2>6. \A p \in Operation \ {o} :
             operation'[p] = IF Active(p)
                             THEN [operation[p] EXCEPT !.status = "Canceled",
                                                       !.etag = operation[p].etag + 1]
                             ELSE operation[p]
      BY Zenon, <2>2, <2>3, Zenon DEF CanceledBy
    <2>7. operation'[o] = NewOperation(o, uri)
      BY Zenon, <2>3, Zenon DEF CanceledBy
    <2>8. ASSUME NEW p \in Operation
          PROVE  OperationState'[p] = IF p = o THEN "running"
                                      ELSE IF OperationState[p] = "running" THEN "Canceled"
                                      ELSE OperationState[p]
      <3>1. CASE p = o
        BY <2>4, <2>7, <3>1 DEF OperationState, Stored, IsTerminal
      <3>2. CASE p # o /\ Active(p)
        <4>1. operation'[p] = [operation[p] EXCEPT !.status = "Canceled",
                                                   !.etag = operation[p].etag + 1]
          BY Zenon, <2>6, <3>2, Zenon
        <4>2. operation[p] \in OperationType /\ operation[p].etag + 1 > 0
          BY <1>0 DEF OperationType
        <4>3. operation'[p].status = "Canceled" /\ operation'[p].etag > 0
          BY Zenon, <4>1, <4>2 DEF OperationType
        <4> QED
          BY Zenon, <3>2, <4>3 DEF OperationState, Stored, Active, IsTerminal
      <3>3. CASE p # o /\ ~Active(p)
        <4>1. operation'[p] = operation[p]
          BY Zenon, <2>6, <3>3, Zenon
        <4> QED
          BY Zenon, <3>3, <4>1 DEF OperationState, Stored, Active, IsTerminal
      <3> QED
        BY Zenon, <3>1, <3>2, <3>3
    <2>9. OperationState' = [p \in Operation |->
                               IF p = o THEN "running"
                               ELSE IF OperationState[p] = "running" THEN "Canceled"
                               ELSE OperationState[p]]
      BY Zenon, <2>8 DEF OperationState
    <2>10. OperationState[o] = "none"
      BY Zenon, <2>5 DEF OperationState
    <2>11. Owner' = o
      BY Zenon, <1>0, <1>4, <2>1 DEF CommitDelete, Owner, Present, ResourceType
    <2>12. Contract!Supersede(o)
      BY Zenon, <2>9, <2>10, <2>11 DEF Contract!Supersede
    <2> QED
      BY Zenon, <2>12 DEF Contract!Next
  <1> QED
    BY Zenon, <1>1, <1>2, <1>3, <1>4
\* Every step on the resource document or the clock is a step of the contract, or none.
LEMMA ContractResource ==
    ASSUME OperationInvariant, ResourceNext
    PROVE  [Contract!Next]_(Contract!cvars)
  <1>0. UNCHANGED operation /\ resource \in ResourceType
    BY Zenon DEF OperationInvariant, TypeOK, ResourceNext, RecordClusterServiceID,
       RecoverPendingDeletionTarget, DispatchClusterServiceDelete, ClearClusterServiceID,
       DeleteResourceDocument, TombstoneExpires, DeadlinePasses
  <1>1. CASE DeleteResourceDocument
    <2>1. Owner' = NoOperation
      BY Zenon, <1>0, <1>1 DEF DeleteResourceDocument, Owner, Present, ResourceType
    <2>2. OperationState' = OperationState
      BY Zenon, <1>0 DEF OperationState, Stored
    <2> QED
      BY Zenon, <2>1, <2>2 DEF Contract!Next, Contract!Detach
  <1>2. CASE ~DeleteResourceDocument
    <2>1. Owner' = Owner
      BY Zenon, <1>0, <1>2, Zenon DEF ResourceNext, RecordClusterServiceID,
         RecoverPendingDeletionTarget, DispatchClusterServiceDelete, ClearClusterServiceID,
         TombstoneExpires, DeadlinePasses, Owner, Present, ResourceType
    <2> QED
      BY Zenon, <1>0, <2>1, ContractStutter
  <1> QED
    BY Zenon, <1>1, <1>2

\* A controller's status write is a step of the contract, or none.
LEMMA ContractUpdate ==
    ASSUME OperationInvariant, NEW o \in Operation, UpdateOperationStatus(o)
    PROVE  [Contract!Next]_(Contract!cvars)
  <1> DEFINE matches == /\ operation[o].etag = sync[o].opETag
                        /\ sync[o].resETag # 0 => Present /\ resource.etag = sync[o].resETag
             s == sync[o].status
  <1>0. /\ operation \in [Operation -> OperationType] /\ operation[o] \in OperationType
        /\ resource \in ResourceType /\ operation[o].etag + 1 > 0
    BY DEF OperationInvariant, TypeOK, OperationType
  <1>1. CASE ~matches
    BY Zenon, <1>1, ContractStutter DEF UpdateOperationStatus, Owner, Present
  <1>2. CASE matches
    <2>1. SyncKnows(o) /\ Active(o) /\ Stored(o)
      BY Zenon, <1>2 DEF UpdateOperationStatus, OperationInvariant, SyncKnows
    <2>2. operation' = [operation EXCEPT ![o] = [operation[o] EXCEPT
                           !.etag = operation[o].etag + 1, !.status = s]]
      BY Zenon, <1>2, Zenon DEF UpdateOperationStatus
    <2>3. \A p \in Operation \ {o} : operation'[p] = operation[p]
      BY Zenon, <1>0, <2>2
    <2>4. operation'[o].status = s /\ Stored(o)'
      BY Zenon, <1>0, <2>2 DEF OperationType, Stored
    <2>5. CASE sync[o].resETag = 0
      <3>1. Owner' = Owner
        BY Zenon, <1>2, <2>5 DEF UpdateOperationStatus, Owner, Present
      <3>2. IsTerminal(s) => Owner # o
        BY Zenon, <2>1, <2>5, OperationAssumption DEF SyncKnows, UpdateOperationStatus, Owner
      <3>3. CASE IsTerminal(s)
        BY Zenon, <2>1, <2>3, <2>4, <3>1, <3>2, <3>3, ContractEnds DEF Contract!Next
      <3>4. CASE ~IsTerminal(s)
        <4>1. OperationState' = OperationState
          BY Zenon, <2>1, <2>3, <2>4, <3>4, ContractKeepsState
        <4> QED
          BY Zenon, <3>1, <4>1 DEF Contract!cvars
      <3> QED
        BY Zenon, <3>3, <3>4
    <2>6. CASE sync[o].resETag # 0
      <3>1. Present /\ resource.activeOperationID = o
        BY Zenon, <1>2, <2>1, <2>6 DEF SyncKnows, UpdateOperationStatus
      <3>2. resource' = [resource EXCEPT
                           !.etag = resource.etag + 1, !.provisioningState = s,
                           !.activeOperationID = IF IsTerminal(s) THEN NoOperation
                                                 ELSE resource.activeOperationID]
        BY Zenon, <1>2, <2>6 DEF UpdateOperationStatus
      <3> HIDE DEF s
      <3>3. Owner = o /\ Owner' = IF IsTerminal(s) THEN NoOperation ELSE o
        BY Zenon, <1>0, <3>1, <3>2 DEF Owner, Present, ResourceType
      <3>4. CASE IsTerminal(s)
        BY Zenon, <2>1, <2>3, <2>4, <3>3, <3>4, ContractEnds DEF Contract!Next
      <3>5. CASE ~IsTerminal(s)
        <4>1. OperationState' = OperationState
          BY Zenon, <2>1, <2>3, <2>4, <3>5, ContractKeepsState
        <4> QED
          BY Zenon, <3>3, <3>5, <4>1 DEF Contract!cvars
      <3> QED
        BY Zenon, <3>4, <3>5
    <2> QED
      BY Zenon, <2>5, <2>6
  <1> QED
    BY Zenon, <1>1, <1>2

\* Every step of a sync is a step of the contract, or none.
LEMMA ContractBackend ==
    ASSUME OperationInvariant, BackendNext
    PROVE  [Contract!Next]_(Contract!cvars)
  <1> PICK o \in Operation : SyncStep(o) \/ AbandonSync(o)
    BY Zenon DEF BackendNext
  <1>0. /\ operation \in [Operation -> OperationType] /\ operation[o] \in OperationType
        /\ resource \in ResourceType /\ operation[o].etag + 1 > 0
    BY DEF OperationInvariant, TypeOK, OperationType
  <1>1. CASE ReadOperation(o) \/ SynchronizeOperation(o)
             \/ GetResourceForUpdate(o) \/ PostAsyncNotification(o) \/ AbandonSync(o)
    <2>1. UNCHANGED <<resource, operation>>
      BY Zenon, <1>1 DEF ReadOperation, SynchronizeOperation, Synchronize, SynchronizeDelete,
         operationClusterCreate, operationClusterUpdate, operationClusterDelete,
         operationNodePoolCreate, operationNodePoolUpdate, operationNodePoolDelete,
         operationExternalAuthCreate, operationExternalAuthUpdate, operationExternalAuthDelete,
         GetResourceForUpdate, PostAsyncNotification, AbandonSync
    <2> QED
      BY Zenon, <2>1, ContractStutter DEF Owner, Present
  <1>2. CASE UpdateOperationStatus(o)
    BY Zenon, <1>2, ContractUpdate
  <1>3. CASE DeleteNamedResource(o)
    <2>1. Owner' = NoOperation
      BY Zenon, <1>0, <1>3 DEF DeleteNamedResource, Owner, Present, ResourceType
    <2>2. OperationState' = OperationState
      BY Zenon, <1>3 DEF DeleteNamedResource, OperationState, Stored
    <2> QED
      BY Zenon, <2>1, <2>2 DEF Contract!Next, Contract!Detach
  <1>4. CASE PatchOperation(o)
    <2>1. CASE operation[o].etag # sync[o].opETag
      BY Zenon, <1>4, <2>1, ContractStutter DEF PatchOperation, Owner, Present
    <2>2. CASE operation[o].etag = sync[o].opETag
      <3>1. Active(o) /\ ~(Present /\ resource.activeOperationID = o)
        BY <1>4, <2>2 DEF PatchOperation, OperationInvariant, SyncKnows
      <3>2. operation' = [operation EXCEPT ![o] = [operation[o] EXCEPT
                             !.etag = operation[o].etag + 1, !.status = "Succeeded"]]
        BY Zenon, <1>4, <2>2, Zenon DEF PatchOperation
      <3>3. \A p \in Operation \ {o} : operation'[p] = operation[p]
        BY Zenon, <1>0, <3>2
      <3>4. operation'[o].status = "Succeeded" /\ Stored(o)'
        BY Zenon, <1>0, <3>2 DEF OperationType, Stored
      <3>5. Owner' = Owner /\ Owner # o
        BY Zenon, <1>4, <3>1, OperationAssumption DEF PatchOperation, Owner, Present
      <3> QED
        BY Zenon, <3>1, <3>3, <3>4, <3>5, ContractEnds DEF IsTerminal, Contract!Next
    <2> QED
      BY Zenon, <2>1, <2>2
  <1>5. CASE ClearNotificationURI(o)
    <2>1. Stored(o)
      BY Zenon, <1>5 DEF ClearNotificationURI, OperationInvariant, SyncKnows
    <2>2. operation' = [operation EXCEPT ![o] = [operation[o] EXCEPT
                           !.etag = operation[o].etag + 1, !.notificationURI = FALSE]]
      BY Zenon, <1>5, Zenon DEF ClearNotificationURI
    <2>3. \A p \in Operation \ {o} : operation'[p] = operation[p]
      BY Zenon, <1>0, <2>2
    <2>4. operation'[o].status = operation[o].status /\ Stored(o)'
      BY Zenon, <1>0, <2>2 DEF OperationType, Stored
    <2>5. OperationState' = OperationState
      BY Zenon, <2>1, <2>3, <2>4, ContractKeepsState
    <2>6. Owner' = Owner
      BY Zenon, <1>5 DEF ClearNotificationURI, Owner, Present
    <2> QED
      BY Zenon, <2>5, <2>6 DEF Contract!cvars
  <1> QED
    BY Zenon, <1>1, <1>2, <1>3, <1>4, <1>5 DEF SyncStep

\* Every step is a step of the contract, or none.
LEMMA ContractStep ==
    ASSUME OperationInvariant, [Next]_vars
    PROVE  [Contract!Next]_(Contract!cvars)
  <1>1. CASE UNCHANGED vars
    BY Zenon, <1>1, ContractStutter DEF vars, Owner, Present
  <1> QED
    BY Zenon, <1>1, ContractFrontend, ContractResource, ContractBackend DEF Next

\* The operations of a resource keep the contract: accepted once, ended once,
\* at most one of them in charge of the resource, and a request accepted only
\* when none is or by canceling all that run.
THEOREM ContractKept == Spec => ContractSpec
  <1>1. Init => Contract!Init
    BY DEF Init, Contract!Init, OperationState, Owner, Stored, Present
  <1> QED
    BY <1>1, ContractStep, InvariantHolds, PTL DEF Spec, ContractSpec, Contract!Spec

----------------------------------------------------------------------------
(* What an operation's end is worth.                                        *)

\* What the contract says of an operation that ended, of the document itself.
LEMMA EndedStays ==
    ASSUME OperationInvariant, [Next]_vars, NEW o \in Operation,
           Stored(o), IsTerminal(operation[o].status)
    PROVE  Stored(o)' /\ operation'[o].status = operation[o].status
  <1>1. OperationState[o] = operation[o].status /\ OperationState[o] \notin {"none", "running"}
    BY Zenon DEF OperationState, IsTerminal
  <1>2. [Contract!Next]_(Contract!cvars) /\ DOMAIN OperationState = Operation
    BY Zenon, ContractStep DEF OperationState
  <1>3. OperationState'[o] = OperationState[o]
    <2>1. CASE \E p \in Operation : Contract!Accept(p)
      BY Zenon, <1>1, <1>2, <2>1 DEF Contract!Accept
    <2>2. CASE \E p \in Operation : Contract!Supersede(p)
      BY Zenon, <1>1, <1>2, <2>2 DEF Contract!Supersede
    <2>3. CASE \E p \in Operation : Contract!End(p)
      BY Zenon, <1>1, <1>2, <2>3 DEF Contract!End
    <2>4. CASE Contract!Detach \/ UNCHANGED Contract!cvars
      BY Zenon, <2>4 DEF Contract!Detach, Contract!cvars
    <2> QED
      BY Zenon, <1>2, <2>1, <2>2, <2>3, <2>4 DEF Contract!Next
  <1>4. OperationState'[o] = IF ~Stored(o)' THEN "none"
                             ELSE IF IsTerminal(operation'[o].status) THEN operation'[o].status
                             ELSE "running"
    BY Zenon DEF OperationState
  <1> QED
    BY Zenon, <1>1, <1>3, <1>4

\* Where the phases of a sync that matter here come from: a sync notifies of a
\* terminal status it has stored, reads a running operation, and completes the
\* deletion of a resource it did not find.
LEMMA SyncPhases ==
    ASSUME OperationInvariant, NEW p \in Operation, SyncStep(p) \/ AbandonSync(p)
    PROVE  /\ \A o \in Operation \ {p} : sync'[o] = sync[o]
           /\ sync'[p].phase = "notify" => Stored(p)' /\ IsTerminal(operation'[p].status)
           /\ sync'[p].phase = "posted" => sync[p].phase = "notify"
           /\ \/ notified' = notified
              \/ notified' = notified \cup {p} /\ sync[p].phase = "notify"
           /\ sync'[p].phase = "read" => Active(p) /\ UNCHANGED <<resource, operation>>
           /\ sync'[p].phase = "completing" =>
                 /\ sync[p].phase = "read" /\ ~Present /\ operation[p].request = "Delete"
                 /\ UNCHANGED <<resource, operation>>
  <1>0. /\ sync \in [Operation -> SyncType] /\ sync[p] \in SyncType
        /\ operation \in [Operation -> OperationType] /\ operation[p] \in OperationType
        /\ operation[p].etag + 1 > 0
    BY DEF OperationInvariant, TypeOK, OperationType
  <1>1. CASE ReadOperation(p)
    <2>1. sync'[p].phase = "read" /\ \A o \in Operation \ {p} : sync'[o] = sync[o]
      BY Zenon, <1>0, <1>1 DEF ReadOperation
    <2> QED
      BY Zenon, <1>1, <2>1 DEF ReadOperation
  <1>2. CASE SynchronizeOperation(p)
    <2>1. sync[p].phase = "read" => ~IsTerminal(sync[p].status)
      BY Zenon DEF OperationInvariant, SyncKnows
    <2>2. sync[p].status \in ProvisioningStates
      BY Zenon, <1>0 DEF SyncType
    <2>3. /\ sync[p].phase = "read" /\ UNCHANGED <<resource, operation, request, notified>>
          /\ \/ sync' = [sync EXCEPT ![p] = NoSync]
             \/ \E s \in ProvisioningStates : sync' = [sync EXCEPT ![p] = Decide(p, s)]
             \/ /\ ~Present /\ operation[p].request = "Delete"
                /\ sync' = [sync EXCEPT ![p].phase = "completing"]
      BY Zenon, <1>2, <2>1, <2>2, SynchronizeOperationResult
    <2>4. ASSUME NEW s \in ProvisioningStates PROVE Decide(p, s).phase \in {"idle", "decided"}
      BY Zenon, <1>0 DEF Decide, NoSync, SyncType
    <2>5. NoSync.phase = "idle"
      BY Zenon DEF NoSync
    <2>6. CASE \/ sync' = [sync EXCEPT ![p] = NoSync]
               \/ \E s \in ProvisioningStates : sync' = [sync EXCEPT ![p] = Decide(p, s)]
      <3>1. /\ sync'[p].phase \in {"idle", "decided"}
            /\ \A o \in Operation \ {p} : sync'[o] = sync[o]
        BY Zenon, <1>0, <2>4, <2>5, <2>6
      <3> QED
        BY Zenon, <2>3, <3>1
    <2>7. CASE /\ ~Present /\ operation[p].request = "Delete"
               /\ sync' = [sync EXCEPT ![p].phase = "completing"]
      <3>1. /\ sync'[p].phase = "completing"
            /\ \A o \in Operation \ {p} : sync'[o] = sync[o]
        BY Zenon, <1>0, <2>7 DEF SyncType
      <3> QED
        BY Zenon, <2>3, <2>7, <3>1
    <2> QED
      BY Zenon, <2>3, <2>6, <2>7
  <1>3. CASE GetResourceForUpdate(p)
    <2>1. sync'[p].phase = "prepared" /\ \A o \in Operation \ {p} : sync'[o] = sync[o]
      BY <1>0, <1>3 DEF GetResourceForUpdate, SyncType
    <2> QED
      BY Zenon, <1>3, <2>1 DEF GetResourceForUpdate
  <1>4. CASE UpdateOperationStatus(p)
    <2> DEFINE s == sync[p].status
    <2>1. CASE operation'[p].status = s /\ Stored(p)' /\ sync' = [sync EXCEPT ![p] = AfterWrite(p, s)]
      <3>1. sync'[p] = AfterWrite(p, s) /\ \A o \in Operation \ {p} : sync'[o] = sync[o]
        BY Zenon, <1>0, <2>1
      <3>2. sync'[p].phase \in {"idle", "notify"} /\ (sync'[p].phase = "notify" => IsTerminal(s))
        BY <3>1 DEF AfterWrite, NoSync
      <3> QED
        BY Zenon, <1>4, <2>1, <3>1, <3>2 DEF UpdateOperationStatus
    <2>2. CASE sync' = [sync EXCEPT ![p] = NoSync]
      <3>1. sync'[p].phase = "idle" /\ \A o \in Operation \ {p} : sync'[o] = sync[o]
        BY Zenon, <1>0, <2>2 DEF NoSync
      <3> QED
        BY Zenon, <1>4, <3>1 DEF UpdateOperationStatus
    <2>3. operation' = [operation EXCEPT ![p] = [operation[p] EXCEPT
                           !.etag = operation[p].etag + 1, !.status = s]]
            => operation'[p].status = s /\ Stored(p)'
      BY Zenon, <1>0 DEF OperationType, Stored
    <2> QED
      BY Zenon, <1>4, <2>1, <2>2, <2>3, Zenon DEF UpdateOperationStatus
  <1>5. CASE DeleteNamedResource(p)
    <2>1. sync'[p].phase = "deleted" /\ \A o \in Operation \ {p} : sync'[o] = sync[o]
      BY Zenon, <1>0, <1>5 DEF DeleteNamedResource, SyncType
    <2> QED
      BY Zenon, <1>5, <2>1 DEF DeleteNamedResource
  <1>6. CASE PatchOperation(p)
    <2>1. operation' = [operation EXCEPT ![p] = [operation[p] EXCEPT
                           !.etag = operation[p].etag + 1, !.status = "Succeeded"]]
            => operation'[p].status = "Succeeded" /\ Stored(p)'
      BY Zenon, <1>0 DEF OperationType, Stored
    <2>2. CASE operation[p].etag = sync[p].opETag
      <3>1. /\ sync' = [sync EXCEPT ![p] = AfterWrite(p, "Succeeded")]
            /\ operation'[p].status = "Succeeded" /\ Stored(p)'
        BY Zenon, <1>6, <2>1, <2>2, Zenon DEF PatchOperation
      <3>2. sync'[p] = AfterWrite(p, "Succeeded") /\ \A o \in Operation \ {p} : sync'[o] = sync[o]
        BY Zenon, <1>0, <3>1
      <3>3. sync'[p].phase \in {"idle", "notify"}
        BY <3>2 DEF AfterWrite, NoSync
      <3> QED
        BY Zenon, <1>6, <3>1, <3>2, <3>3 DEF PatchOperation, IsTerminal
    <2>3. CASE operation[p].etag # sync[p].opETag
      <3>1. sync'[p].phase = "idle" /\ \A o \in Operation \ {p} : sync'[o] = sync[o]
        BY <1>0, <1>6, <2>3 DEF NoSync, PatchOperation
      <3> QED
        BY Zenon, <1>6, <3>1 DEF PatchOperation
    <2> QED
      BY Zenon, <2>2, <2>3
  <1>7. CASE PostAsyncNotification(p)
    <2>1. sync'[p].phase = "posted" /\ \A o \in Operation \ {p} : sync'[o] = sync[o]
      BY Zenon, <1>0, <1>7 DEF PostAsyncNotification, SyncType
    <2> QED
      BY Zenon, <1>7, <2>1 DEF PostAsyncNotification
  <1>8. CASE ClearNotificationURI(p)
    <2>1. sync'[p].phase = "idle" /\ \A o \in Operation \ {p} : sync'[o] = sync[o]
      BY Zenon, <1>0, <1>8 DEF ClearNotificationURI, NoSync
    <2> QED
      BY Zenon, <1>8, <2>1 DEF ClearNotificationURI
  <1>9. CASE AbandonSync(p)
    <2>1. sync'[p].phase = "failed" /\ \A o \in Operation \ {p} : sync'[o] = sync[o]
      BY Zenon, <1>0, <1>9 DEF AbandonSync, NoSync
    <2> QED
      BY Zenon, <1>9, <2>1 DEF AbandonSync
  <1> QED
    BY Zenon, <1>1, <1>2, <1>3, <1>4, <1>5, <1>6, <1>7, <1>8, <1>9 DEF SyncStep

\* An operation whose outcome is to be posted, or was, has ended.
PostedInv ==
    \A o \in Operation :
        sync[o].phase \in {"notify", "posted"} \/ o \in notified
            => Stored(o) /\ IsTerminal(operation[o].status)

\* Only the sync that stored an outcome posts it.
LEMMA PostedStep ==
    ASSUME OperationInvariant, PostedInv, [Next]_vars
    PROVE  PostedInv'
  <1>1. ASSUME NEW o \in Operation,
               sync[o].phase \in {"notify", "posted"} \/ o \in notified
        PROVE  Stored(o)' /\ IsTerminal(operation'[o].status)
    BY Zenon, <1>1, EndedStays DEF PostedInv
  <1>2. CASE BackendNext
    <2> PICK p \in Operation : SyncStep(p) \/ AbandonSync(p)
      BY Zenon, <1>2 DEF BackendNext
    <2>1. /\ \A o \in Operation \ {p} : sync'[o] = sync[o]
          /\ sync'[p].phase = "notify" => Stored(p)' /\ IsTerminal(operation'[p].status)
          /\ sync'[p].phase = "posted" => sync[p].phase = "notify"
          /\ \/ notified' = notified
             \/ notified' = notified \cup {p} /\ sync[p].phase = "notify"
      BY Zenon, SyncPhases
    <2> QED
      BY Zenon, <1>1, <2>1 DEF PostedInv
  <1>3. CASE UNCHANGED <<sync, notified>>
    BY Zenon, <1>1, <1>3 DEF PostedInv
  <1>4. FrontendNext \/ ResourceNext \/ UNCHANGED vars => UNCHANGED <<sync, notified>>
    BY Zenon DEF FrontendNext, ReceiveCreate, ReceiveUpdate, ReceiveDelete, CancelActiveOperations,
       CommitCreate, CommitUpdate, CommitDelete, DropRequest, ResourceNext, RecordClusterServiceID,
       RecoverPendingDeletionTarget, DispatchClusterServiceDelete, ClearClusterServiceID,
       DeleteResourceDocument, TombstoneExpires, DeadlinePasses, vars
  <1> QED
    BY Zenon, <1>2, <1>3, <1>4 DEF Next

\* The outcome posted to ARM stays the operation's outcome.
THEOREM PostedOutcomeKept == Spec => PostedOutcomeIsFinal
  <1>1. Init => PostedInv
    BY DEF Init, PostedInv, NoSync
  <1>2. Spec => [](OperationInvariant /\ PostedInv)
    BY <1>1, InitInvariant, InvariantStep, PostedStep, PTL DEF Spec
  <1>3. ASSUME OperationInvariant, PostedInv, [Next]_vars
        PROVE  [\A o \in notified : /\ IsTerminal(operation[o].status)
                                    /\ operation'[o].status = operation[o].status]_vars
    <2>1. notified \subseteq Operation
      BY Zenon, <1>3 DEF OperationInvariant, TypeOK
    <2>2. ASSUME NEW o \in notified
          PROVE  IsTerminal(operation[o].status) /\ operation'[o].status = operation[o].status
      <3>1. o \in Operation /\ Stored(o) /\ IsTerminal(operation[o].status)
        BY Zenon, <1>3, <2>1, <2>2 DEF PostedInv
      <3> QED
        BY Zenon, <1>3, <3>1, EndedStays
    <2> QED
      BY Zenon, <2>2
  <1> QED
    BY <1>2, <1>3, PTL DEF Spec, PostedOutcomeIsFinal
----------------------------------------------------------------------------
(* Deletions, where a tombstone outlives the syncs that saw its document.   *)

\* While a delete operation runs, or a sync of one is on its way to delete by
\* name, the name is taken; and such a sync has found the document gone.
DeletionsHoldTheName ==
    \A o \in Operation :
        /\ /\ operation[o].request = "Delete"
           /\ Active(o) \/ sync[o].phase \in {"read", "completing"}
           => resource.stored # "absent"
        /\ sync[o].phase = "completing" => operation[o].request = "Delete" /\ ~Present

\* What a sync may write: its own operation, without reviving it, and with it
\* the resource that is in the operation's charge, or the resource's deletion.
LEMMA SyncWrites ==
    ASSUME OperationInvariant, NEW p \in Operation, SyncStep(p) \/ AbandonSync(p)
    PROVE  /\ \A o \in Operation : /\ operation'[o].request = operation[o].request
                                   /\ o # p => operation'[o] = operation[o]
                                   /\ Active(o)' => Active(o)
           /\ resource'.kind = resource.kind
           /\ \/ resource' = resource
              \/ /\ Present /\ resource.activeOperationID = p /\ resource'.stored = "present"
                 /\ Active(p)' => resource'.activeOperationID = p
              \/ /\ Present /\ sync[p].phase = "completing" /\ resource'.stored = "tombstone"
  <1>0. /\ operation \in [Operation -> OperationType] /\ operation[p] \in OperationType
        /\ resource \in ResourceType /\ operation[p].etag + 1 > 0
    BY DEF OperationInvariant, TypeOK, OperationType
  <1>1. CASE ReadOperation(p) \/ SynchronizeOperation(p)
             \/ GetResourceForUpdate(p) \/ PostAsyncNotification(p) \/ AbandonSync(p)
    <2>1. UNCHANGED <<resource, operation>>
      BY Zenon, <1>1 DEF ReadOperation, SynchronizeOperation, Synchronize, SynchronizeDelete,
         operationClusterCreate, operationClusterUpdate, operationClusterDelete,
         operationNodePoolCreate, operationNodePoolUpdate, operationNodePoolDelete,
         operationExternalAuthCreate, operationExternalAuthUpdate, operationExternalAuthDelete,
         GetResourceForUpdate, PostAsyncNotification, AbandonSync
    <2> QED
      BY Zenon, <2>1 DEF Active, Stored
  <1>2. CASE UpdateOperationStatus(p)
    <2> DEFINE s == sync[p].status
    <2>1. CASE UNCHANGED <<resource, operation>>
      BY Zenon, <2>1 DEF Active, Stored
    <2>2. CASE ~UNCHANGED <<resource, operation>>
      <3>1. /\ operation[p].etag = sync[p].opETag
            /\ sync[p].resETag # 0 => Present /\ resource.etag = sync[p].resETag
            /\ sync[p].phase = "prepared"
            /\ operation' = [operation EXCEPT ![p] = [operation[p] EXCEPT
                                !.etag = operation[p].etag + 1, !.status = s]]
            /\ \/ resource' = resource
               \/ /\ sync[p].resETag # 0
                  /\ resource' = [resource EXCEPT
                                    !.etag = resource.etag + 1, !.provisioningState = s,
                                    !.activeOperationID = IF IsTerminal(s) THEN NoOperation
                                                          ELSE resource.activeOperationID]
        BY Zenon, <1>2, <2>2, Zenon DEF UpdateOperationStatus
      <3>2. Active(p)
        BY Zenon, <3>1 DEF OperationInvariant, SyncKnows
      <3>3. /\ operation'[p].request = operation[p].request /\ operation'[p].status = s
            /\ \A o \in Operation : o # p => operation'[o] = operation[o]
        BY Zenon, <1>0, <3>1 DEF OperationType
      <3>4. \A o \in Operation : /\ operation'[o].request = operation[o].request
                                 /\ o # p => operation'[o] = operation[o]
                                 /\ Active(o)' => Active(o)
        BY Zenon, <3>2, <3>3 DEF Active, Stored
      <3>5. CASE sync[p].resETag # 0 /\ resource' # resource
        <4>1. Present /\ resource.activeOperationID = p
          BY Zenon, <3>1, <3>5 DEF OperationInvariant, SyncKnows
        <4>2. /\ resource'.kind = resource.kind /\ resource'.stored = resource.stored
              /\ resource'.activeOperationID = IF IsTerminal(s) THEN NoOperation ELSE p
          BY Zenon, <1>0, <3>1, <3>5, <4>1 DEF ResourceType
        <4>3. Active(p)' => resource'.activeOperationID = p
          BY Zenon, <3>3, <4>2 DEF Active
        <4> QED
          BY Zenon, <3>4, <4>1, <4>2, <4>3 DEF Present
      <3> QED
        BY Zenon, <3>1, <3>4, <3>5
    <2> QED
      BY Zenon, <2>1, <2>2
  <1>3. CASE DeleteNamedResource(p)
    <2>1. Present => resource'.stored = "tombstone" /\ resource'.kind = resource.kind
      BY Zenon, <1>0, <1>3 DEF DeleteNamedResource, ResourceType
    <2> QED
      BY Zenon, <1>3, <2>1 DEF DeleteNamedResource, Active, Stored
  <1>4. CASE PatchOperation(p)
    <2>1. CASE UNCHANGED operation
      BY Zenon, <1>4, <2>1 DEF PatchOperation, Active, Stored
    <2>2. CASE ~UNCHANGED operation
      <3>1. operation' = [operation EXCEPT ![p] = [operation[p] EXCEPT
                             !.etag = operation[p].etag + 1, !.status = "Succeeded"]]
        BY Zenon, <1>4, <2>2, Zenon DEF PatchOperation
      <3>2. /\ operation'[p].request = operation[p].request /\ operation'[p].status = "Succeeded"
            /\ \A o \in Operation : o # p => operation'[o] = operation[o]
        BY Zenon, <1>0, <3>1 DEF OperationType
      <3> QED
        BY Zenon, <1>4, <3>2 DEF PatchOperation, Active, Stored, IsTerminal
    <2> QED
      BY Zenon, <2>1, <2>2
  <1>5. CASE ClearNotificationURI(p)
    <2>1. operation' = [operation EXCEPT ![p] = [operation[p] EXCEPT
                           !.etag = operation[p].etag + 1, !.notificationURI = FALSE]]
      BY Zenon, <1>5, Zenon DEF ClearNotificationURI
    <2>2. /\ operation'[p].request = operation[p].request
          /\ operation'[p].status = operation[p].status
          /\ \A o \in Operation : o # p => operation'[o] = operation[o]
      BY Zenon, <1>0, <2>1 DEF OperationType
    <2>3. Stored(p)
      BY Zenon, <1>5 DEF ClearNotificationURI, OperationInvariant, SyncKnows
    <2> QED
      BY Zenon, <1>5, <2>2, <2>3 DEF ClearNotificationURI, Active, Stored
  <1> QED
    BY Zenon, <1>1, <1>2, <1>3, <1>4, <1>5 DEF SyncStep

\* The frontend's batches find the name free or the document in place, and
\* leave the document in place.
LEMMA CommitWrites ==
    ASSUME OperationInvariant, NEW p \in Operation,
           CommitCreate(p) \/ CommitUpdate(p) \/ CommitDelete(p)
    PROVE  /\ resource.stored = "absent" \/ Present
           /\ resource'.stored = "present" /\ resource'.kind = resource.kind
           /\ resource'.activeOperationID = p
           /\ UNCHANGED <<sync, notified>>
  <1>1. resource \in ResourceType
    BY Zenon DEF OperationInvariant, TypeOK
  <1>2. CASE CommitCreate(p)
    BY Zenon, <1>2 DEF CommitCreate
  <1>3. CASE CommitUpdate(p)
    BY Zenon, <1>1, <1>3 DEF CommitUpdate, Present, ResourceType
  <1>4. CASE CommitDelete(p)
    BY Zenon, <1>1, <1>4 DEF CommitDelete, Present, ResourceType
  <1> QED
    BY Zenon, <1>2, <1>3, <1>4

\* The resource controllers and the clock remove only a document whose
\* deletion was requested, and free its name only when its tombstone expires.
LEMMA ResourceWrites ==
    ASSUME OperationInvariant, ResourceNext
    PROVE  /\ UNCHANGED <<operation, sync, notified>>
           /\ resource'.kind = resource.kind
           /\ \/ /\ Present /\ resource'.stored = "present"
                 /\ resource'.activeOperationID = resource.activeOperationID
              \/ /\ Present /\ resource.deletionTimestamp /\ resource'.stored = "tombstone"
              \/ TombstoneExpires /\ resource'.stored = "absent"
  <1>1. resource \in ResourceType
    BY Zenon DEF OperationInvariant, TypeOK
  <1>2. CASE TombstoneExpires
    BY Zenon, <1>1, <1>2 DEF TombstoneExpires, ResourceType
  <1>3. CASE DeleteResourceDocument
    BY Zenon, <1>1, <1>3 DEF DeleteResourceDocument, ResourceType
  <1>4. CASE \/ RecordClusterServiceID \/ RecoverPendingDeletionTarget \/ DeadlinePasses
             \/ DispatchClusterServiceDelete \/ ClearClusterServiceID
    <2>1. /\ Present
          /\ resource'.kind = resource.kind /\ resource'.stored = resource.stored
          /\ resource'.activeOperationID = resource.activeOperationID
      BY Zenon, <1>1, <1>4 DEF RecordClusterServiceID, RecoverPendingDeletionTarget, DeadlinePasses,
         DispatchClusterServiceDelete, ClearClusterServiceID, ResourceType
    <2> QED
      BY Zenon, <1>4, <2>1 DEF RecordClusterServiceID, RecoverPendingDeletionTarget, DeadlinePasses,
         DispatchClusterServiceDelete, ClearClusterServiceID, Present
  <1> QED
    BY Zenon, <1>2, <1>3, <1>4 DEF ResourceNext

\* A step is one of a handler's read, a batch, the resource's, or a sync's.
LEMMA StepKinds ==
    ASSUME [Next]_vars
    PROVE  \/ UNCHANGED <<resource, operation, sync, notified>>
           \/ \E p \in Operation : CommitCreate(p) \/ CommitUpdate(p) \/ CommitDelete(p)
           \/ ResourceNext
           \/ \E p \in Operation : SyncStep(p) \/ AbandonSync(p)
  BY Zenon DEF Next, FrontendNext, BackendNext, vars, ReceiveCreate, ReceiveUpdate, ReceiveDelete,
     CancelActiveOperations, DropRequest

\* The name stays taken until the deletions are over.
LEMMA DeletionsStep ==
    ASSUME TombstoneOutlivesResync, OperationInvariant, DeletionsHoldTheName, [Next]_vars
    PROVE  DeletionsHoldTheName'
  <1>1. CASE UNCHANGED <<resource, operation, sync, notified>>
    BY Zenon, <1>1 DEF DeletionsHoldTheName, Active, Stored, Present
  <1>2. CASE \E p \in Operation : CommitCreate(p) \/ CommitUpdate(p) \/ CommitDelete(p)
    <2>1. resource'.stored = "present" /\ UNCHANGED sync /\ (resource.stored = "absent" \/ Present)
      BY Zenon, <1>2, CommitWrites
    <2>2. \A o \in Operation : sync[o].phase # "completing"
      BY Zenon, <2>1 DEF DeletionsHoldTheName
    <2> QED
      BY Zenon, <2>1, <2>2 DEF DeletionsHoldTheName
  <1>3. CASE ResourceNext
    <2>1. CASE TombstoneExpires /\ resource'.stored = "absent"
      BY Zenon, <1>3, <2>1, ResourceWrites DEF DeletionsHoldTheName, TombstoneExpires, Active, Stored, Present
    <2>2. CASE Present /\ resource'.stored \in {"present", "tombstone"}
      BY Zenon, <1>3, <2>2, ResourceWrites DEF DeletionsHoldTheName, Present
    <2> QED
      BY Zenon, <1>3, <2>1, <2>2, ResourceWrites
  <1>4. CASE \E p \in Operation : SyncStep(p) \/ AbandonSync(p)
    <2> PICK p \in Operation : SyncStep(p) \/ AbandonSync(p)
      BY Zenon, <1>4
    <2>1. /\ resource'.stored = "absent" => resource.stored = "absent"
          /\ Present' => Present
          /\ \A o \in Operation : /\ operation'[o].request = operation[o].request
                                  /\ Active(o)' => Active(o)
      BY Zenon, SyncWrites DEF Present
    <2>2. /\ \A o \in Operation \ {p} : sync'[o] = sync[o]
          /\ sync'[p].phase = "read" => Active(p)
          /\ sync'[p].phase = "completing" =>
                sync[p].phase = "read" /\ ~Present /\ operation[p].request = "Delete"
      BY Zenon, SyncPhases
    <2> QED
      BY Zenon, <2>1, <2>2 DEF DeletionsHoldTheName
  <1> QED
    BY Zenon, <1>1, <1>2, <1>3, <1>4, StepKinds

\* Deleting by name finds the tombstone, never a document.
LEMMA NamedDeletionFindsNothing ==
    ASSUME TombstoneOutlivesResync, OperationInvariant, DeletionsHoldTheName, [Next]_vars,
           Present, resource'.stored = "tombstone"
    PROVE  resource.deletionTimestamp
  <1>1. \A o \in Operation : sync[o].phase # "completing"
    BY Zenon DEF DeletionsHoldTheName
  <1>2. CASE UNCHANGED <<resource, operation, sync, notified>>
    BY Zenon, <1>2 DEF Present
  <1>3. CASE \E p \in Operation : CommitCreate(p) \/ CommitUpdate(p) \/ CommitDelete(p)
    BY Zenon, <1>3, CommitWrites
  <1>4. CASE ResourceNext
    BY Zenon, <1>4, ResourceWrites
  <1>5. CASE \E p \in Operation : SyncStep(p) \/ AbandonSync(p)
    BY Zenon, <1>1, <1>5, SyncWrites DEF Present
  <1> QED
    BY Zenon, <1>2, <1>3, <1>4, <1>5, StepKinds

\* No step leaves a running create or update of a cluster behind.
LEMMA RunningStep ==
    ASSUME TombstoneOutlivesResync, OperationInvariant, DeletionsHoldTheName,
           RunningOperationHasItsResource, [Next]_vars
    PROVE  RunningOperationHasItsResource'
  <1>0. SUFFICES ASSUME NEW o \in Operation, resource'.kind = "cluster", Active(o)',
                        operation'[o].request # "Delete"
                 PROVE  Present' /\ resource'.activeOperationID = o
    BY Zenon DEF RunningOperationHasItsResource
  <1>1. CASE UNCHANGED <<resource, operation, sync, notified>>
    BY Zenon, <1>0, <1>1 DEF RunningOperationHasItsResource, Active, Stored, Present
  <1>2. CASE ResourceNext
    <2>1. Present /\ resource.activeOperationID = o /\ resource.kind = "cluster" /\ o # NoOperation
      BY Zenon, <1>0, <1>2, ResourceWrites, OperationAssumption
         DEF RunningOperationHasItsResource, Active, Stored
    <2>2. ~resource.deletionTimestamp
      BY Zenon, <1>0, <1>2, <2>1, ResourceWrites DEF OperationInvariant, DeletingResourceIsNotUpdated
    <2> QED
      BY Zenon, <1>2, <2>1, <2>2, ResourceWrites DEF Present, TombstoneExpires
  <1>3. CASE \E p \in Operation : SyncStep(p) \/ AbandonSync(p)
    <2> PICK p \in Operation : SyncStep(p) \/ AbandonSync(p)
      BY Zenon, <1>3
    <2>1. Active(o) /\ operation[o].request # "Delete" /\ resource.kind = "cluster"
      BY Zenon, <1>0, SyncWrites
    <2>2. Present /\ resource.activeOperationID = o
      BY Zenon, <2>1 DEF RunningOperationHasItsResource
    <2>3. sync[p].phase # "completing"
      BY Zenon, <2>2 DEF DeletionsHoldTheName
    <2> QED
      BY Zenon, <1>0, <2>2, <2>3, SyncWrites DEF Present
  <1>4. CASE \E p \in Operation : CommitCreate(p) \/ CommitUpdate(p) \/ CommitDelete(p)
    <2> PICK p \in Operation : CommitCreate(p) \/ CommitUpdate(p) \/ CommitDelete(p)
      BY Zenon, <1>4
    <2>1. resource'.stored = "present" /\ resource'.activeOperationID = p /\ resource.kind = "cluster"
      BY Zenon, <1>0, CommitWrites
    <2>2. ASSUME o # p PROVE FALSE
      <3>0. operation \in [Operation -> OperationType] /\ operation[o] \in OperationType
        BY Zenon DEF OperationInvariant, TypeOK
      <3>1. CASE CommitCreate(p)
        <4>1. operation'[o] = operation[o] /\ ~Present
          BY Zenon, <2>2, <3>0, <3>1 DEF CommitCreate, Present
        <4> QED
          BY Zenon, <1>0, <2>1, <4>1 DEF RunningOperationHasItsResource, Active, Stored
      <3>2. CASE CommitUpdate(p)
        <4>1. operation'[o] = operation[o]
          BY Zenon, <2>2, <3>0, <3>2 DEF CommitUpdate
        <4>2. IsTerminal(resource.provisioningState) /\ Present
          BY Zenon, <3>2 DEF CommitUpdate, OperationInvariant, RequestKnows
        <4>3. resource.activeOperationID = NoOperation
          BY Zenon, <4>2 DEF OperationInvariant, ResourceMirrorsOperation, Active
        <4> QED
          BY Zenon, <1>0, <2>1, <4>1, <4>3, OperationAssumption
             DEF RunningOperationHasItsResource, Active, Stored
      <3>3. CASE CommitDelete(p)
        <4>1. operation'[o] = CanceledBy(p)[o]
          BY Zenon, <2>2, <3>3, Zenon DEF CommitDelete, CanceledBy
        <4>2. Active(o) => o \in {c[1] : c \in request[p].cancels}
          <5>1. /\ RequestKnows(p) /\ Present /\ request[p].etag = resource.etag
                /\ request[p].verb = "Delete" /\ request[p].phase = "ready"
            BY Zenon, <3>3 DEF CommitDelete, OperationInvariant
          <5> QED
            BY Zenon, <5>1 DEF RequestKnows
        <4>3. CASE o \in {c[1] : c \in request[p].cancels}
          <5>1. operation'[o].status = "Canceled"
            BY Zenon, <3>0, <4>1, <4>3 DEF CanceledBy, OperationType
          <5> QED
            BY Zenon, <1>0, <5>1 DEF Active, IsTerminal
        <4>4. CASE o \notin {c[1] : c \in request[p].cancels}
          BY Zenon, <1>0, <4>1, <4>2, <4>4 DEF CanceledBy, Active, Stored
        <4> QED
          BY Zenon, <4>3, <4>4
      <3> QED
        BY Zenon, <3>1, <3>2, <3>3
    <2> QED
      BY Zenon, <2>1, <2>2 DEF Present
  <1> QED
    BY Zenon, <1>1, <1>2, <1>3, <1>4, StepKinds

\* Where tombstones outlive syncs, the deletions in flight hold their name and
\* every running create or update of a cluster has its resource.
LEMMA DeletionInvariant ==
    ASSUME TombstoneOutlivesResync
    PROVE  Spec => [](OperationInvariant /\ DeletionsHoldTheName /\ RunningOperationHasItsResource)
  <1>1. Init => DeletionsHoldTheName /\ RunningOperationHasItsResource
    BY DEF Init, DeletionsHoldTheName, RunningOperationHasItsResource, NoSync, Active, Stored, Present
  <1>2. /\ OperationInvariant /\ DeletionsHoldTheName /\ RunningOperationHasItsResource
        /\ [Next]_vars
        => (OperationInvariant /\ DeletionsHoldTheName /\ RunningOperationHasItsResource)'
    BY Zenon, InvariantStep, DeletionsStep, RunningStep
  <1> QED
    BY <1>1, <1>2, InitInvariant, PTL DEF Spec

\* A create or update operation that runs on a cluster is in charge of a stored
\* cluster, whatever was deleted and created again under its name.
THEOREM RunningHasResource ==
    ASSUME TombstoneOutlivesResync
    PROVE  Spec => []RunningOperationHasItsResource
  BY DeletionInvariant, PTL

\* A resource document is removed only after its deletion was requested.
THEOREM DeletionsRequested ==
    ASSUME TombstoneOutlivesResync
    PROVE  Spec => OnlyRequestedDeletions
  <1>1. OperationInvariant /\ DeletionsHoldTheName /\ [Next]_vars
          => [Present /\ resource'.stored = "tombstone" => resource.deletionTimestamp]_vars
    BY Zenon, NamedDeletionFindsNothing
  <1> QED
    BY <1>1, DeletionInvariant, PTL DEF Spec, OnlyRequestedDeletions

============================================================================
