# Verification of the ARO-HCP resource provider

TLA+ models of the asynchronous core of the ARO-HCP resource provider, with TLC
configurations and TLAPS proofs. Paths are relative to the repository root (`src/`).

## 1. The system

| Part | State | Operations |
|---|---|---|
| Frontend (`frontend/pkg/frontend`) | none; reads and writes Cosmos DB | PUT, PATCH, DELETE, credential requests and revocations; one transactional batch each |
| Cosmos DB (`internal/database`) | resource, operation and child documents with etags; tombstones with a TTL; change feed | conditional replace, batch, soft delete |
| Informers (`internal/database/informers`) | caches of documents | list, watch by the change feed, list again |
| Operation controllers (`backend/pkg/controllers/*/operations`, `backend/pkg/utils/operationutils`) | informer caches | bring an operation to its end, mirror it in the resource, notify ARM |
| Creation and deletion controllers (`.../creation`, `.../deletion`) | informer caches, an in-memory time of first sight | bind a document to its Cluster Service object and unbind it; create and remove what is below a cluster |
| Credential controllers (`.../credentialrequest`, `.../credentialrevocation`) | informer caches | issue, revoke and remove admin credentials |
| Billing controllers (`.../billing`) | informer caches | open and close billing documents |
| Placement (`.../cluster/placement`, `fleet/pkg/controllers/capacityreporting`) | informer caches | choose a management cluster for a cluster, with reservations; report what is there |
| Mismatch controllers (`.../mismatch`) | none | periodic scans for leftovers |
| kube-applier (`kube-applier/pkg/controllers`) | watches on a management cluster | carry out ApplyDesires, mirror objects into ReadDesires |
| Other backend controllers, fleet, mgmt-agent, sessiongate, swift-recorder, admin | | see `PROJECT.json` |
| Cluster Service, Maestro, Hypershift | outside the repository | |

Parts interact only through documents and calls. No part holds a lock:
correctness rests on etags, on batches, and on each controller reading again
before it acts. What makes it hard is that admission and every sync act on
copies, that calls may be carried out after their caller gave up, that a restart
forgets what is in memory, and that names are reused after deletion.
`PROJECT.json` lists all parts, and the hazards at their lines.

## 2. Modules

| Module | Models |
|---|---|
| `ProvisioningState` | provisioning states and the pure conversions of `operationutils` |
| `ResourceOperations` | one resource of any kind, its operations, frontend handlers and the nine operation controllers |
| `OperationContract` | abstract: what is promised of the operations of one resource |
| `ClusterServiceBinding` | one document, five controllers, their cache, and Cluster Service |
| `ChangeFeedInformer` | a store with its change feed, and one filtered informer |
| `AdminCredentials` | credential requests and revocations: frontend, dispatchers, polls, marking, completion |
| `CredentialDesires` | the desires of one credential request: backend, kube-applier, management cluster |
| `ReadDesireMirror` | one ReadDesire, the manager of its watch and the watch's workers |
| `ClusterTree` | a cluster, a node pool and the ServiceProviderCluster below it; deletion and orphan sweep |
| `BillingDocuments` | the billing documents of the clusters of one name |
| `Placement` | clusters, management clusters, their scheduling documents, placement, cleanup and capacity report |
| `...Proofs` | see section 5 |
| `MC...` | symmetry sets and scenarios for TLC, or nothing but the module |

**ResourceOperations.** A handler is `Receive...` (read and admission), for a
deletion `CancelActiveOperations` (list), then `Commit...` (the batch); it fails
as a whole if an etag moved. A sync is `ReadOperation`, one action per controller
(`operationClusterCreate`, ...), `GetResourceForUpdate`, `UpdateOperationStatus`,
`PostAsyncNotification`, `ClearNotificationURI`; a completed deletion goes through
`DeleteNamedResource` and `PatchOperation`; the child documents deleted in between
are not in this module. `AbandonSync` ends a sync anywhere: a
crash or a failed call. An informer cache is an old copy, so working from a cache
is an early read followed by the rest of the sync any number of steps later.
Cluster Service may give any answer at each read. An answer the conversion
rejects is a failed call; liveness therefore assumes that Cluster Service does
not give such an answer for ever. The kind is a field of the resource, chosen in
`Init` from `Kinds`.

**ClusterServiceBinding.** Here the cache is explicit, since what is checked on
it and what on the live document differ by controller. A POST is in `posts` until
Cluster Service decides it, also when its caller is gone. Preconditions on other
documents are syncs that end (`AbandonSync`). Cluster Service deleting a nested
object with its parent counts as the DELETE. External auths behave as node pools
here. The model ends with the document's deletion; re-creation is in
`ResourceOperations`, `ClusterTree` and `BillingDocuments`.

**ChangeFeedInformer.** A write takes the next position of the feed, which keeps
the last write of each document only. `StartList` starts a watcher a little in
the past (`StartToken`), `ListKey` is the query coming to one document, and
`FinishList` hands the listed versions to the watcher. `ReadPage`, `ProcessItem`
and `StoreToken` are one feed range's goroutine. `View` is the filter of the
active operations' informer. `early` remembers tombstones that expired unread:
only a relist makes up for them. The model is why the other modules may take a
cache to be an older copy that catches up.

**AdminCredentials.** `CheckRequest` and `AcceptRequest`, `ListRequests` and
`AcceptRevoke` are the two halves of the frontend's handlers. The cluster's
`RevokeCredentialsOperationID` is `sentinel`, and `cache` is what the poll of
a revocation sees of it. The desires of a revocation are one step
(`ObserveRevoked`): their protocol is the one of `CredentialDesires`. A cluster's
deletion also marks revocations; that is not in the model.

**CredentialDesires.** An ApplyDesire applies an object or deletes it. The
backend creates it (`EnsureApplyDesire`), turns it into a deletion (`Flipped`)
and purges it once it says `SuccessfullyDeleted`. kube-applier fetches it, acts,
and writes a status under the etag of what it fetched last (`UpdateStatus`). Two
cleanups work at the same time: after issuance and upon deletion.

**ReadDesireMirror.** An `Instance` is one running controller for one target; a
cancelled one may still finish what it has begun. Content is the target it was
read from, or none.

**ClusterTree.** `old` are documents past the sweep's grace period. A sweep
decides on one listing of all documents and deletes later. The deletion
controller checks cache, live document, node pools and children in steps of its
own, and then deletes by name. One node pool stands for node pools and external
auths, the ServiceProviderCluster for the documents the cleanup removes.

**BillingDocuments.** `page` is what the change feed has read of the cluster and
not yet delivered. `FailToMark` is a patch of several documents that stops half
way.

**Placement.** A sync is `Select` (all that precedes the first write, on cached
documents), `reservePendingAssignment` and `recordPlacementDecision`; the cleanup
is `StartCleanup` and `WriteCleanup`. `spcCopies` and `schedCopies` are the caches
and syncs whose copy has the stored etag: a Replace by any other fails. A
management cluster's `observed` stands for the ready and not ready control planes
of its report, which are set aside the same NICs; a report that is late is a late
`persistObservedResources`. `TouchSPC` is any other write of the
ServiceProviderCluster, the note that nothing fits included.

## 3. Runs

| Run | Result | Distinct states |
|---|---|---|
| `resource_operations` | pass | 427,363 |
| `cluster_liveness` | pass | 135,500 |
| `cluster_service_binding` | pass | 79,578 |
| `change_feed` | pass | 886,886 |
| `admin_credentials` | pass | 34,473 |
| `credential_desires` | pass | 249,706 |
| `read_desire_mirror` | pass | 288,136 |
| `cluster_tree` | pass | 143,557 |
| `billing_documents` | pass | 37,917 |
| `placement` | pass | 162,198 |
| two runs of section 4 | violation | |

What each run asks is in `PROJECT.json`; each property is explained where it is
defined. `resource_operations` and `cluster_service_binding` check all three kinds
in one run.

**Bounds.**

- `Operation`: three requests let a creation, a deletion and a re-creation or
  second deletion overlap; liveness takes two. `MaxOperationETag` bounds writes of
  non-terminal statuses.
- `ID`, `MaxAssignments`: two identities, so that one can replace another.
  `MaxETag`: other writers replace the document while its etag is below 3.
  `MaxRestarts`: one. Safety is proved for all values of these.
- `change_feed`: two documents in one feed range and four writes, so that a
  document is created, changed, deleted and created again around a list. A second
  range would be a second goroutine with a token of its own; the proof has any
  number.
- `admin_credentials`: one request and two revocations, so that a stale poll of
  one meets the sentinel of the other. Safety is proved for any number.
- `credential_desires`: the CSR's desire alone. Its approval's is created after it
  and removed by the same steps; safety is proved for any set of desires, but
  `RequestSettles` is checked for the one.
- `read_desire_mirror`: two targets, and two instances, the running one and one
  that outlives its cancellation. Safety is proved for any number of both.
- `cluster_tree`: two clusters of a name, so that a document of the first can
  fall to the second. `billing_documents`: three, since with two no cache can skip
  a whole cluster. Safety is proved for any number.
- `placement`: two clusters and one management cluster, so that they compete, or
  one cluster and two management clusters, so that one placed again can change
  its place; `Ceiling` has room for the larger cluster alone. Safety is proved for
  any number of either and any ceiling. Two disturbances
  (`MaxDisturbances`): a failure and a retry, or an interrupted sync and a
  deletion. Two clusters and two management clusters with one disturbance were
  checked as well (713,690 states), and are too many to check every time.

Deadlock is not checked where a life ends or nothing need happen.

**Timing assumptions.** None of them is enforced by the code.

- `TombstoneOutlivesResync` (a 30 s tombstone outlasts the 10 s resync of a delete
  operation and the sync it starts): both runs of `ResourceOperations` make it, and
  `RunningOperationHasItsResource` and `OnlyRequestedDeletions` need it, as do
  their proofs; the other proofs do not. That the operation has ended is not
  enough: a deletion canceled by a second one may have a sync under way, which
  deletes by name from the copy it read. That takes four requests (creation, two
  deletions, re-creation), one more than the run has; the proof brought it up. TLC
  with four requests on a cluster confirms the case, and that none is left with
  the assumption as it is now (9,310,574 states, too many to check every time).
- `TimeoutOutlivesCreate` (a 120 s wait and an uninstall outlast a create sync and
  its POST): all binding runs make it, and the proofs of `TargetIsNotAbandoned` and
  `BindingIsStable`.
- `LagBound` in `BillingDocuments`: a cluster's life outlasts the lag of the
  cluster cache, so that the deletion does not act on a cached cluster that was
  an earlier one of the name. Without it TLC finds, with three clusters of a name, that
  the cleanup closes the document of a live cluster.

**Fairness.** Work queues and periodic resyncs bring each controller back (weak
fairness of its steps); the change feed delivers, finalizers end, signers and
Cluster Service decide; calls do not fail for ever. The 48 h collector of
credential requests is not among them, so `RequestSettles` says what the
controllers achieve before it comes; its second part says what holds once it has
come, and makes the assumption there. Where a failure can change the
same variables as a normal step, the last is stated as "in the end every step is
one of `Step`", which leaves out no normal step; in `Placement` the bound on
disturbances does the same. `OperationsEnd` also supposes, in
the property itself, that Cluster Service comes to know the cluster. Nobody need
send a request.

**Exceptions in the properties.** Some hold with an exception the code has, and
say so:

- `RunningOperationHasItsResource` and `DeletingResourceIsNotUpdated` are about
  clusters. Once a deletion's operation has failed, an update of a node pool or
  external auth is admitted; the deletion goes on and leaves it running.
- `RequestsEnd`: a request whose credential goes before the poll saw its outcome
  is polled for ever.
- `RevocationsEnd`: a stale poll of an earlier revocation can clear the sentinel
  of the next before that is dispatched, which is then never dispatched. One that
  was dispatched ends, sentinel or not.
- `RequestSettles`: a request that a revocation marked while it was pending can go
  back and forth between the desires creator, which does not look at the deletion
  timestamp, and the cleanup. The collector, which runs hourly and takes
  every request that is 48 h old, ends this (second part of the property).
- `OnlyDeletedClustersGo` is about the deletion controller. The other delete of a
  cluster by name, in `SetDeleteOperationAsCompleted`, is the subject of
  `OnlyRequestedDeletions`, under `TombstoneOutlivesResync`.
- `RevokedCredentialsGo` is about the credentials that were there when the
  revocation was accepted. A dispatcher in flight may create one after the
  revocation's list; its operation stays canceled (`EndedRequestsAreFinal`), and
  the next revocation or the collector removes the credential.
- `DeletionEnds`: a node pool admitted before the cluster's deletion and created
  after its list of node pools holds the cluster until another DELETE.
- `BillingCloses`: the document of a cluster that is gone is not looked for while
  the name is taken again.
- `NoOverbooking` leaves out clusters that have failed. The cleanup drops the
  reservation of a failed cluster while the cache does not show the decision, be
  it recorded or about to be; if the cluster is then updated, it is placed without
  a reservation until its control plane is observed.
- `WaitingClusterIsPlaced` counts a cluster's own reservation as taken, as
  `availableResources` does; see section 4.

## 4. Where comments and code differ

Each of these is a run that TLC refutes, with the quotation in `PROJECT.json`.

- `abandoned_cluster`: assign checks only its cache, so it can replace a pending
  identity whose POST is in flight; the deletion then recovers the wrong one. The
  hourly matching scan is the backstop (`LeftoversAreDeleted`).
- `late_desire`: the creator of a pending request's desires does not look at the
  request's deletion timestamp, so a desire can be created after the cleanup's list
  and be there when the cleanup deletes the request. The sweep removes the desire's
  document (`RequestSettles`), but not what kube-applier applied for it. A
  cluster's deletion stops the creator, once cached; a revocation does not.

These were met while modelling and have no run here.

- Notifications. A sync that ends between the terminal write and the post is not
  followed by another, because terminal operations are not processed
  (`operation_cluster_create.go:116`); `operationutils/utils.go:299` speaks of
  rewriting the status "when we missed a notification".
- Interrupted placements. `placement_controller.go:250` says that a crash between
  reservation and decision is safe, since a re-run picks a management cluster.
  `availableResources` counts the cluster's own reservation, so on the last free
  NICs the re-run finds no room, and the cleanup keeps the reservation: the
  cluster waits until its creation's deadline.
- Deadlines. `internal/api/coreapi/types_nodepool.go:128` and `types_cluster.go:185`
  say that an operation fails at its deadline; in
  `operation_node_pool_create.go:144`, `operation_cluster_update.go:124` and
  `operation_node_pool_update.go:206` an early return precedes the check for as
  long as the resource has no ClusterServiceID.
- Node pools Cluster Service accepted without its answer being recorded.
  `node_pool_cluster_service_delete_dispatch_controller.go:117` takes the missing
  identity to mean "never created". Node pools have no matching scan.
- `delete_orphaned_cosmos.go:85` speaks of a point read that confirms that the
  parent is gone; `canDeleteOrphan` decides on the listing. `ClusterGetsSPC` shows
  that a ServiceProviderCluster deleted in this way comes back.
- `orphaned_billing_cleanup.go:82` skips closed documents on the cached copy, so
  one closed since is given a second deletion time.

## 5. Proofs

| Module | Theorems | For every |
|---|---|---|
| `ResourceOperationsProofs` | `InvariantHolds`, `TypeCorrect`, `MirrorCorrect`, `DeleteCorrect`, `DeletingCorrect`, `ContractKept`, `PostedOutcomeKept`, `RunningHasResource`, `DeletionsRequested` | set of operations, set of kinds, bound |
| `ClusterServiceBindingProofs` | `BindingTypeCorrect`, `TargetIsKept`, `BindingStability` | set of identities, kind, bound |
| `ChangeFeedInformerProofs` | `FeedCovers`, `CacheAdvances` | set of documents, feed ranges and number of writes |
| `AdminCredentialsProofs` | `SentinelNeverStale`, `RevocationMarksAll`, `EndedRequestsStay` | set of requests and revocations |
| `DesireProofs` | `DeletionReports` (`CredentialDesires`) | set of desires |
| | `MirrorTypeCorrect`, `OneWatch` (`ReadDesireMirror`) | set of targets and of instances |
| `ClusterTreeProofs` | `OnlyDeletedGo`, `TreeTypeCorrect` | number of clusters of the name |
| `BillingDocumentsProofs` | `BillingKept` | number of clusters of the name |
| `PlacementProofs` | `Capacity`, `Hosting` | finite set of clusters, set of management clusters, ceiling, bound |

Each module extends the component it is about; `DesireProofs` extends two, which is
why the definitions of `ReadDesireMirror` have names of their own (`MirrorSpec`,
`MirrorNext`).

Assumptions are the named ASSUMEs of the modules. None of the safety properties is
inductive: whether a write keeps one depends on what its sync read steps ago.
Each invariant adds what the copies and the syncs in flight know.

- **ResourceOperations.** `RequestKnows` says what an unchanged etag implies for a
  handler in flight, `SyncKnows` the same for a sync. A step either moves the etag,
  and the copy is stale, or leaves the facts alone. The properties and the
  refinement of `OperationContract` follow, with one lemma per action
  or group of actions. A posted outcome is final since
  only the sync that stored an outcome posts it (`PostedInv`), and no operation
  that has ended is written again. The deletions need that the name stays taken
  while a delete operation runs or a sync of one is on its way to delete by name
  (`DeletionsHoldTheName`): such a sync then finds the tombstone and deletes nothing.
- **ClusterServiceBinding.** A sync whose etag is still the document's knows the
  document (`SyncInv`). `ClusterServiceDeletionTimestamp` is set only once the
  recorded object is going, or gone with no POST left that could bring it back
  (`Doomed`), and Cluster Service has, or may get, objects of no identity but the
  recorded and the pending one (`OnlyTarget`).
- **ChangeFeedInformer.** A document whose latest write is behind the token was
  listed, or processed, in that state or a later one; items of a page and listed
  documents are older states of the store's.
- **AdminCredentials.** A revocation that has ended, or is about to, is not named
  by the sentinel. A marking in progress has in its list, or has marked, every
  credential that was there when the revocation was accepted. For
  `EndedRequestsStay`: what a revocation has listed to cancel was active then, and
  its transaction needs it unchanged (`CancelInv`).
- **CredentialDesires.** A desire that reports its deletion has no apply of
  kube-applier under way, and a sync that found the object gone is right until it
  has written its status: kube-applier has one sync per desire at a time, and
  turning a desire into a deletion clears its conditions.
- **ReadDesireMirror.** An instance runs if and only if the manager has its target
  on record, and the manager starts one only when none runs (`Tracked`).
- **ClusterTree.** As long as a sync of the deletion controller is under way, the
  stored cluster is marked and gone from Cluster Service: no other writer takes the
  mark back or removes the cluster, so the name is not free before the sync ends.
- **BillingDocuments.** What the cluster cache and the page show follow each other
  in the cluster's order. A stored cluster that has a document is the one the
  cluster cache shows, since the document is created only on the cache's word; so
  the cleanup, which finds no cluster in the cache, never has that document. With
  `LagBound` the same holds of the deletion.
- **Placement.** Capacity is about reservations and `NoOverbooking` about decisions,
  which no transaction joins. An accepted cluster's reservation stays from when it
  is made until its control plane is observed (`Reserved`): a cleanup that would
  drop it has read a document that has changed since. The accepted clusters that
  are reserved or observed fit (`Room`), since a reservation is written only to
  the document in which there was room for it, and reservations are never counted
  for less than their clusters need (`NICsOfPending`). A decision is recorded once,
  and an old copy shows it or none (`Known`). NICs are counted by cardinalities,
  three for each cluster and one for each with a single replica, because the
  prover has no induction for sums.

Model-checked only: liveness, which is out of the prover's reach. Every safety
property and every action property of a passing run is proved, some under a timing
assumption of section 3. Conversely the types of `ResourceOperations`,
`ChangeFeedInformer`, `AdminCredentials`, `CredentialDesires`, `ClusterTree`,
`BillingDocuments` and `Placement` are part of the invariants proved, and not of the runs.

## 6. Not modelled

- Of **placement**, the choice by contention (clusters without NICs) and changes of
  a management cluster's ceiling.
- **Versions** and their roll-out, **backups**, the **fleet**, **management agent**,
  **sessiongate**, **admin API** and **swift recorder** were not studied in depth.
- **Several node pools** of one cluster: whether one is the last is decided on a
  cache (`frontend/pkg/frontend/node_pool.go:696`).
- **Re-creation while the matching scan runs**: `ClusterServiceBinding` has one
  life of a name.
- **Azure resources** (deny assignments, DNS, identities, managed resource group):
  a model would be a model of Azure.
- Formatting, conversion between API versions, field validation, logging and
  metrics: functions of one request, or reports.

The models cover a small share of the repository's lines. What they cover is the
code in which several actors write the same documents.
