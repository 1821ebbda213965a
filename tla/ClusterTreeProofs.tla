------------------------- MODULE ClusterTreeProofs -------------------------
(***************************************************************************)
(* That only clusters on their way out are removed, and that the documents *)
(* and what the controllers know of them keep their types, for any number  *)
(* of clusters that have the name one after another.  From the check of    *)
(* the stored cluster to the delete, the cluster stays one that needs      *)
(* removing (Removable): nothing else removes it, so none can be created   *)
(* under the name, and no write takes back its mark or its cleared ID,     *)
(* given that a marked cluster is never in a state from which it is        *)
(* provisioned.                                                            *)
(***************************************************************************)
EXTENDS ClusterTree, TLAPS

MarkedInv ==
    /\ cluster \in ClusterType /\ made \in 0..MaxUID
    /\ cluster.marked => cluster.state \in {"Deleting", "Failed"}

Removable == deleter # "idle" => NeedsWork(cluster)

IInv == MarkedInv /\ Removable

\* A marked cluster's ID in Cluster Service stays cleared: every writer of the
\* cluster but the deletion controller keeps MarkedInv and Removable.
LEMMA WritersKeep ==
    ASSUME IInv,
           CreateCluster \/ AcceptDelete \/ Provision \/ ClearService \/ ExpireDelete
    PROVE  IInv' /\ (cluster' = NoCluster => cluster = NoCluster)
<1> USE DEF IInv, MarkedInv, Removable, NeedsWork, syncVars
<1>1. CASE CreateCluster
  <2>1. cluster' = [uid |-> made + 1, state |-> "Accepted", marked |-> FALSE, service |-> "none"]
    BY Zenon, <1>1 DEF CreateCluster, NoCluster
  <2>2. cluster = NoCluster /\ made' = made + 1 /\ made' \in 0..MaxUID /\ deleter' = deleter
    BY <1>1, MaxUIDAssumption DEF CreateCluster, Exists
  <2> QED
    BY <2>1, <2>2 DEF ClusterType, NoCluster
<1>2. CASE AcceptDelete
  <2>1. CASE cluster' = cluster
    BY <1>2, <2>1 DEF AcceptDelete
  <2>2. CASE cluster' = [cluster EXCEPT !.state = "Deleting", !.marked = TRUE]
    BY Zenon, <1>2, <2>2 DEF AcceptDelete, ClusterType, NoCluster
  <2> QED
    BY <1>2, <2>1, <2>2 DEF AcceptDelete
<1>3. CASE Provision
  BY Zenon, <1>3 DEF Provision, Change, ClusterType, NoCluster
<1>4. CASE ClearService
  BY <1>4 DEF ClearService, Change, ClusterType, NoCluster
<1>5. CASE ExpireDelete
  BY <1>5 DEF ExpireDelete, Change, ClusterType, NoCluster
<1> QED
  BY <1>1, <1>2, <1>3, <1>4, <1>5

\* The deletion controller starts on a cluster that needs removing.
LEMMA DeleterKeeps ==
    ASSUME IInv, DeletionController
    PROVE  IInv' /\ (cluster' = NoCluster => cluster = NoCluster \/ NeedsWork(cluster))
<1> USE DEF IInv, MarkedInv, Removable
<1>1. CASE CheckCluster
  BY <1>1 DEF CheckCluster, Confirmed, Deleter, NeedsWork
<1>2. CASE CheckNodePools \/ CheckChildren
  BY <1>2 DEF CheckNodePools, CheckChildren, Deleter, NeedsWork
<1>3. CASE DeleteCluster
  BY <1>3, MaxUIDAssumption DEF DeleteCluster, Deleter, ClusterType, NoCluster
<1> QED
  BY <1>1, <1>2, <1>3 DEF DeletionController

\* Every other step leaves the cluster alone and starts no removal.
LEMMA OthersKeep ==
    ASSUME IInv,
           \/ AdmitNodePool \/ CreateNodePool \/ ReadForDelete \/ RemoveNodePool
           \/ RefreshClusters \/ RefreshSPC \/ SPCController \/ CleanupController
           \/ (\E d \in Child : Age(d)) \/ Sweeper \/ Abandon \/ UNCHANGED vars
    PROVE  IInv' /\ cluster' = cluster
<1>1. cluster' = cluster /\ made' = made /\ (deleter' = deleter \/ deleter' = "idle")
  BY Zenon DEF AdmitNodePool, CreateNodePool, ReadForDelete, RemoveNodePool, RefreshClusters, RefreshSPC,
     SPCController, EnsureSPC, CreateSPC, CleanupController, StartCleanup, RemoveChildren,
     Age, Sweeper, StartSweep, SweepOrphan, Abandon, vars, syncVars
<1> QED
  BY <1>1 DEF IInv, MarkedInv, Removable, NeedsWork

\* The documents' part of the type invariant: what a document's removal and the
\* sweep have to agree on.
LEMMA DocumentTypes ==
    ASSUME TypeOK,
           \/ CreateNodePool \/ RemoveNodePool \/ CreateSPC \/ RemoveChildren
           \/ (\E d \in Child : Age(d)) \/ (\E d \in Child : SweepOrphan(d))
    PROVE  /\ pool' \in {"none", "live", "marked"} /\ spc' \in BOOLEAN
           /\ old' \subseteq {d \in Child : Stored(d)'} /\ sweep' \subseteq Child
<1> USE DEF TypeOK, Child, Stored
<1>1. CASE CreateNodePool \/ RemoveNodePool
  BY Zenon, <1>1 DEF CreateNodePool, RemoveNodePool, syncVars
<1>2. CASE CreateSPC \/ RemoveChildren
  BY Zenon, <1>2 DEF CreateSPC, RemoveChildren
<1>3. CASE \E d \in Child : Age(d)
  BY <1>3 DEF Age, syncVars
<1>4. CASE \E d \in Child : SweepOrphan(d)
  BY <1>4 DEF SweepOrphan
<1> QED
  BY <1>1, <1>2, <1>3, <1>4

\* Every step keeps the types.
LEMMA TypeStep == TypeOK /\ IInv /\ IInv' /\ [Next]_vars => TypeOK'
<1> SUFFICES ASSUME TypeOK, IInv, IInv', [Next]_vars PROVE TypeOK'
  OBVIOUS
<1>0. cluster' \in ClusterType /\ made' \in 0..MaxUID
  BY DEF IInv, MarkedInv
<1>1. CASE CreateCluster \/ Provision \/ ClearService \/ ExpireDelete \/ RefreshClusters \/ RefreshSPC
  <2>1. CASE CreateCluster \/ Provision \/ ClearService \/ ExpireDelete
    <3>1. UNCHANGED <<clusterCache, requestVars, childVars, syncVars>>
      BY <2>1 DEF CreateCluster, Provision, ClearService, ExpireDelete, Change
    <3> QED
      BY <1>0, <3>1 DEF TypeOK, requestVars, childVars, syncVars, Stored
  <2>2. CASE RefreshClusters \/ RefreshSPC
    BY Zenon, <1>0, <2>2 DEF TypeOK, RefreshClusters, RefreshSPC, requestVars, childVars, syncVars, Stored
  <2> QED
    BY <1>1, <2>1, <2>2
<1>2. CASE AdmitNodePool \/ ReadForDelete
  <2>1. CASE AdmitNodePool
    BY <1>0, <2>1 DEF TypeOK, AdmitNodePool, childVars, syncVars, Stored
  <2>2. CASE ReadForDelete
    <3>1. deleting' \in [cluster : ClusterType, pool : {"none", "live", "marked"}]
      BY <2>2 DEF TypeOK, ReadForDelete
    <3> QED
      BY <1>0, <2>2, <3>1 DEF TypeOK, ReadForDelete, childVars, syncVars, Stored
  <2> QED
    BY <1>2, <2>1, <2>2
<1>3. CASE AcceptDelete
  <2>1. deleting' \in [cluster : ClusterType, pool : {"none", "live", "marked"}]
    BY <1>3, MaxUIDAssumption DEF AcceptDelete, NotDeleting, NoCluster, ClusterType
  <2>2. pool' \in {"none", "live", "marked"} /\ (pool # "none" => pool' # "none")
    BY <1>3 DEF AcceptDelete, MarkedChild, TypeOK
  <2> QED
    BY <1>0, <1>3, <2>1, <2>2 DEF TypeOK, AcceptDelete, syncVars, Stored
<1>4. CASE CreateNodePool \/ RemoveNodePool
  BY Zenon, <1>0, <1>4, DocumentTypes DEF TypeOK, CreateNodePool, RemoveNodePool, requestVars, syncVars
<1>5. CASE SPCController \/ CleanupController
  <2>1. CASE EnsureSPC \/ StartCleanup
    BY Zenon, <1>0, <2>1 DEF TypeOK, EnsureSPC, StartCleanup, requestVars, childVars, Stored
  <2>2. CASE CreateSPC \/ RemoveChildren
    BY Zenon, <1>0, <2>2, DocumentTypes DEF TypeOK, CreateSPC, RemoveChildren, requestVars
  <2> QED
    BY <1>5, <2>1, <2>2 DEF SPCController, CleanupController
<1>6. CASE DeletionController
  BY Zenon, <1>0, <1>6 DEF TypeOK, DeletionController, CheckCluster, CheckNodePools, CheckChildren,
     DeleteCluster, Deleter, requestVars, childVars, Stored
<1>7. CASE \E d \in Child : Age(d)
  <2>1. UNCHANGED <<clusterCache, requestVars, pool, spc, spcCache, syncVars>>
    BY <1>7 DEF Age
  <2> QED
    BY <1>0, <1>7, <2>1, DocumentTypes DEF TypeOK, requestVars, syncVars
<1>8. CASE Sweeper
  <2>1. CASE StartSweep
    BY Zenon, <1>0, <2>1 DEF TypeOK, StartSweep, Orphans, requestVars, childVars, Stored
  <2>2. CASE \E d \in Child : SweepOrphan(d)
    BY <1>0, <2>2, DocumentTypes DEF TypeOK, SweepOrphan, requestVars
  <2> QED
    BY <1>8, <2>1, <2>2 DEF Sweeper
<1>9. CASE Abandon
  <2>1. NotDeleting \in [cluster : ClusterType, pool : {"none", "live", "marked"}]
    BY MaxUIDAssumption DEF NotDeleting, NoCluster, ClusterType
  <2> QED
    BY Zenon, <1>0, <1>9, <2>1 DEF TypeOK, Abandon, requestVars, childVars, syncVars, Stored
<1>10. CASE UNCHANGED vars
  BY <1>10 DEF TypeOK, vars, requestVars, childVars, syncVars, Stored
<1> QED
  BY <1>1, <1>2, <1>3, <1>4, <1>5, <1>6, <1>7, <1>8, <1>9, <1>10 DEF Next, Step

\* The invariant holds initially, every step keeps it, and no step removes a
\* cluster that does not need removing.
LEMMA TreeSteps ==
    /\ Init => IInv
    /\ IInv /\ [Next]_vars
        => IInv' /\ (cluster' = NoCluster => cluster = NoCluster \/ NeedsWork(cluster))
<1>1. Init => IInv
  BY MaxUIDAssumption DEF Init, IInv, MarkedInv, Removable, ClusterType, NoCluster
<1>2. IInv /\ [Next]_vars
        => IInv' /\ (cluster' = NoCluster => cluster = NoCluster \/ NeedsWork(cluster))
  BY WritersKeep, DeleterKeeps, OthersKeep DEF Next, Step
<1> QED
  BY <1>1, <1>2

\* The deletion controller's delete is unconditional and comes after many other
\* reads, and yet removes only a cluster that is marked and gone from Cluster
\* Service, whatever requests, failures and restarts come in between.
THEOREM OnlyDeletedGo == Spec => OnlyDeletedClustersGo
<1>1. IInv /\ [Next]_vars
        => [cluster' = NoCluster => cluster = NoCluster \/ NeedsWork(cluster)]_vars
  BY TreeSteps
<1>2. IInv /\ [Next]_vars => IInv'
  BY TreeSteps
<1> QED
  BY <1>1, <1>2, TreeSteps, PTL DEF Spec, OnlyDeletedClustersGo

\* Every document, cache, request and sync keeps its type; a document that is
\* past the grace period is stored.
THEOREM TreeTypeCorrect == Spec => []TypeOK
<1>1. Init => TypeOK
  <2>1. NoCluster \in ClusterType /\ 0 \in 0..MaxUID
    BY MaxUIDAssumption DEF NoCluster, ClusterType
  <2>2. NotDeleting \in [cluster : ClusterType, pool : {"none", "live", "marked"}]
    BY <2>1 DEF NotDeleting
  <2> QED
    BY Zenon, <2>1, <2>2 DEF Init, TypeOK
<1>2. IInv /\ TypeOK /\ [Next]_vars => TypeOK'
  BY TreeSteps, TypeStep
<1>3. IInv /\ [Next]_vars => IInv'
  BY TreeSteps
<1> QED
  BY <1>1, <1>2, <1>3, TreeSteps, PTL DEF Spec
=============================================================================
