---------------------------- MODULE ClusterTree ----------------------------
(***************************************************************************)
(* The documents of one cluster name: the cluster, which may be deleted    *)
(* and created again, and below it a node pool and the                     *)
(* ServiceProviderCluster.  Creating a child is conditional on nothing the *)
(* parent's deletion changes, and the backend's controllers decide on      *)
(* caches that lag, so a child can outlive its cluster; a sweep removes it.*)
(*                                                                         *)
(* The operations on the cluster are ResourceOperations' subject and the   *)
(* exchange with Cluster Service ClusterServiceBinding's: here they are    *)
(* single steps.  The node pool stands for external auths, and the         *)
(* ServiceProviderCluster for every child that the cleanup removes; the    *)
(* references its gate waits for are cleared by their own controllers.     *)
(***************************************************************************)
EXTENDS Naturals

CONSTANT MaxUID  \* bound on the clusters that have the name, one after another

ASSUME MaxUIDAssumption == MaxUID \in Nat \ {0}

VARIABLES
    cluster,       \* the stored cluster, or NoCluster
    clusterCache,  \* what the backend's cluster lister shows
    made,          \* the ClusterUIDs used so far
    pool,          \* the node pool document
    spc,           \* whether there is a ServiceProviderCluster
    spcCache,      \* what its lister shows
    old,           \* the child documents that are past the sweep's grace period
    creating,      \* the frontend's handler of a node pool creation
    deleting,      \* its handler of a cluster deletion: what it has read
    ensuring,      \* the sync that creates the ServiceProviderCluster
    cleaning,      \* the sync that removes the children
    deleter,       \* the sync that removes the cluster
    sweep          \* the documents the orphan sweep has yet to delete

requestVars == <<creating, deleting>>
childVars == <<pool, spc, spcCache, old>>
syncVars == <<ensuring, cleaning, deleter, sweep>>
vars == <<cluster, clusterCache, made, requestVars, childVars, syncVars>>

Child == {"pool", "spc"}
NoCluster == [uid |-> 0, state |-> "none", marked |-> FALSE, service |-> "none"]
NotDeleting == [cluster |-> NoCluster, pool |-> "none"]

Init ==
    /\ cluster = NoCluster /\ clusterCache = NoCluster /\ made = 0
    /\ pool = "none" /\ spc = FALSE /\ spcCache = FALSE /\ old = {}
    /\ creating = FALSE /\ deleting = NotDeleting
    /\ ensuring = FALSE /\ cleaning = FALSE /\ deleter = "idle" /\ sweep = {}

Exists == cluster # NoCluster
Stored(d) == IF d = "pool" THEN pool # "none" ELSE spc

-----------------------------------------------------------------------------
(* The frontend. *)

CreateCluster ==
    /\ ~Exists /\ made < MaxUID
    /\ made' = made + 1
    /\ cluster' = [NoCluster EXCEPT !.uid = made + 1, !.state = "Accepted"]
    /\ UNCHANGED <<clusterCache, requestVars, childVars, syncVars>>

\* createNodePool reads the cluster and checks its provisioning state.
AdmitNodePool ==
    /\ ~creating
    /\ Exists /\ cluster.service = "set" /\ cluster.state # "Deleting"
    /\ creating' = TRUE
    /\ UNCHANGED <<cluster, clusterCache, made, deleting, childVars, syncVars>>

\* Its transaction fails only if there is such a node pool.
CreateNodePool ==
    /\ creating
    /\ creating' = FALSE
    /\ pool' = IF pool = "none" THEN "live" ELSE pool
    /\ UNCHANGED <<cluster, clusterCache, made, deleting, spc, spcCache, old, syncVars>>

\* DeleteCluster reads the cluster and lists the node pools.
ReadForDelete ==
    /\ deleting = NotDeleting
    /\ Exists /\ cluster.state # "Deleting"
    /\ deleting' = [cluster |-> cluster, pool |-> pool]
    /\ UNCHANGED <<cluster, clusterCache, made, creating, childVars, syncVars>>

\* A node pool that was listed and not yet marked.
MarkedChild == IF deleting.pool = "live" THEN "marked" ELSE pool

\* Its transaction marks them together, if they are as they were read.
AcceptDelete ==
    /\ deleting # NotDeleting
    /\ deleting' = NotDeleting
    /\ IF cluster = deleting.cluster /\ (deleting.pool = "live" => pool = "live")
       THEN /\ cluster' = [cluster EXCEPT !.state = "Deleting", !.marked = TRUE]
            /\ pool' = MarkedChild
       ELSE UNCHANGED <<cluster, pool>>
    /\ UNCHANGED <<clusterCache, made, creating, spc, spcCache, old, syncVars>>

-----------------------------------------------------------------------------
(* The cluster's and the node pool's life outside of this module. *)

Change(c) ==
    /\ cluster' = c
    /\ UNCHANGED <<clusterCache, made, requestVars, childVars, syncVars>>

Provision ==
    /\ cluster.state = "Accepted"
    /\ Change([cluster EXCEPT !.state = "Succeeded", !.service = "set"])

\* Cluster Service no longer has the cluster, and its ID is cleared.
ClearService ==
    /\ cluster.marked /\ cluster.service # "cleared"
    /\ Change([cluster EXCEPT !.service = "cleared"])

\* The delete operation's deadline passes.
ExpireDelete ==
    /\ cluster.state = "Deleting"
    /\ Change([cluster EXCEPT !.state = "Failed"])

RemoveNodePool ==
    /\ pool = "marked"
    /\ pool' = "none"
    /\ old' = old \ {"pool"}
    /\ UNCHANGED <<cluster, clusterCache, made, requestVars, spc, spcCache, syncVars>>

-----------------------------------------------------------------------------
(* The backend's caches. *)

RefreshClusters ==
    /\ clusterCache' = cluster
    /\ UNCHANGED <<cluster, made, requestVars, childVars, syncVars>>

RefreshSPC ==
    /\ spcCache' = spc
    /\ UNCHANGED <<cluster, clusterCache, made, requestVars, pool, spc, old, syncVars>>

-----------------------------------------------------------------------------
(* Creating and removing the children. *)

NeedsSPCToTheEnd == clusterCache # NoCluster
NeedsSPCAtFirst == clusterCache.state = "Accepted"

NeedsSPC == clusterCache # NoCluster /\ ~clusterCache.marked

\* The ServiceProviderCluster is missing, by the caches.
EnsureSPC ==
    /\ ~ensuring
    /\ NeedsSPC
    /\ ~spcCache
    /\ ensuring' = TRUE
    /\ UNCHANGED <<cluster, clusterCache, made, requestVars, childVars, cleaning, deleter, sweep>>

\* GetOrCreateServiceProviderCluster.
CreateSPC ==
    /\ ensuring
    /\ ensuring' = FALSE
    /\ spc' = TRUE
    /\ UNCHANGED <<cluster, clusterCache, made, requestVars, pool, spcCache, old, cleaning, deleter, sweep>>

NeedsWork(c) == c.marked /\ c.service = "cleared"

\* The node pools must be gone first.
StartCleanup ==
    /\ ~cleaning
    /\ NeedsWork(clusterCache) /\ NeedsWork(cluster)
    /\ pool = "none"
    /\ cleaning' = TRUE
    /\ UNCHANGED <<cluster, clusterCache, made, requestVars, childVars, ensuring, deleter, sweep>>

RemoveChildren ==
    /\ cleaning
    /\ cleaning' = FALSE
    /\ spc' = FALSE /\ old' = old \ {"spc"}
    /\ UNCHANGED <<cluster, clusterCache, made, requestVars, pool, spcCache, ensuring, deleter, sweep>>

-----------------------------------------------------------------------------
(* Removing the cluster: one check after another, then the cluster, whatever *)
(* has changed since. *)

Deleter(from, to) ==
    /\ deleter = from
    /\ deleter' = to
    /\ UNCHANGED <<clusterCache, made, requestVars, childVars, ensuring, cleaning, sweep>>

ConfirmedByCache == NeedsWork(clusterCache)

\* The cached cluster and the stored one have come to this.
Confirmed == NeedsWork(clusterCache) /\ NeedsWork(cluster)

CheckCluster ==
    /\ Confirmed
    /\ Deleter("idle", "pools")
    /\ UNCHANGED cluster

CheckNodePools ==
    /\ Deleter("pools", IF pool = "none" THEN "children" ELSE "idle")
    /\ UNCHANGED cluster

CheckChildren ==
    /\ Deleter("children", IF spc THEN "idle" ELSE "delete")
    /\ UNCHANGED cluster

DeleteCluster ==
    /\ Deleter("delete", "idle")
    /\ cluster' = NoCluster

-----------------------------------------------------------------------------
(* The sweep of orphaned documents. *)

Age(d) ==
    /\ Stored(d) /\ d \notin old
    /\ old' = old \cup {d}
    /\ UNCHANGED <<cluster, clusterCache, made, requestVars, pool, spc, spcCache, syncVars>>

OrphansButNodePools == {d \in old : ~Exists /\ d # "pool"}

\* Their parent is not in the listing, and they are past the grace period.
Orphans == {d \in old : ~Exists}

\* One listing of all documents tells the orphans.
StartSweep ==
    /\ sweep = {} /\ Orphans # {}
    /\ sweep' = Orphans
    /\ UNCHANGED <<cluster, clusterCache, made, requestVars, childVars, ensuring, cleaning, deleter>>

\* They are deleted by their Cosmos IDs.
SweepOrphan(d) ==
    /\ d \in sweep
    /\ sweep' = sweep \ {d}
    /\ old' = old \ {d}
    /\ pool' = IF d = "pool" THEN "none" ELSE pool
    /\ spc' = (spc /\ d # "spc")
    /\ UNCHANGED <<cluster, clusterCache, made, requestVars, spcCache, ensuring, cleaning, deleter>>

-----------------------------------------------------------------------------
(* A request or a sync fails, or its process restarts. *)

Abandon ==
    /\ \/ creating' = FALSE /\ creating /\ UNCHANGED <<deleting, syncVars>>
       \/ deleting' = NotDeleting /\ deleting # NotDeleting /\ UNCHANGED <<creating, syncVars>>
       \/ /\ <<ensuring, cleaning, deleter, sweep>> # <<FALSE, FALSE, "idle", {}>>
          /\ ensuring' = FALSE /\ cleaning' = FALSE /\ deleter' = "idle" /\ sweep' = {}
          /\ UNCHANGED requestVars
    /\ UNCHANGED <<cluster, clusterCache, made, childVars>>

SPCController == EnsureSPC \/ CreateSPC
CleanupController == StartCleanup \/ RemoveChildren
DeletionController ==
    CheckCluster \/ CheckNodePools \/ CheckChildren \/ DeleteCluster
Sweeper == StartSweep \/ \E d \in Child : SweepOrphan(d)

Step ==
    \/ CreateCluster \/ AdmitNodePool \/ CreateNodePool \/ ReadForDelete \/ AcceptDelete
    \/ Provision \/ ClearService \/ ExpireDelete \/ RemoveNodePool
    \/ RefreshClusters \/ RefreshSPC
    \/ SPCController \/ CleanupController \/ DeletionController
    \/ (\E d \in Child : Age(d)) \/ Sweeper

Next == Step \/ Abandon

Spec == Init /\ [][Next]_vars

\* The work queues and resyncs keep the controllers going, caches follow, time
\* passes, and Cluster Service removes what it is told to; in the end no call
\* fails.  Nobody need send another request.
Fairness ==
    /\ WF_vars(ClearService) /\ WF_vars(RemoveNodePool)
    /\ WF_vars(RefreshClusters) /\ WF_vars(RefreshSPC)
    /\ WF_vars(SPCController) /\ WF_vars(CleanupController) /\ WF_vars(DeletionController)
    /\ (\A d \in Child : WF_vars(Age(d))) /\ WF_vars(Sweeper)
    /\ <>[][Step]_vars

LiveSpec == Spec /\ Fairness

-----------------------------------------------------------------------------
ClusterType ==
    [uid : 0..MaxUID, state : {"none", "Accepted", "Succeeded", "Deleting", "Failed"},
     marked : BOOLEAN, service : {"none", "set", "cleared"}]

\* Every variable has its type.
TypeOK ==
    /\ cluster \in ClusterType /\ clusterCache \in ClusterType /\ made \in 0..MaxUID
    /\ pool \in {"none", "live", "marked"} /\ spc \in BOOLEAN /\ spcCache \in BOOLEAN
    /\ old \subseteq {d \in Child : Stored(d)}
    /\ creating \in BOOLEAN
    /\ deleting \in [cluster : ClusterType, pool : {"none", "live", "marked"}]
    /\ ensuring \in BOOLEAN /\ cleaning \in BOOLEAN
    /\ deleter \in {"idle", "pools", "children", "delete"}
    /\ sweep \subseteq Child

\* The cluster that the deletion controller removes is marked for deletion and
\* gone from Cluster Service, although the delete names no version and comes long
\* after the checks: a cluster that was created again under the name is never
\* taken for the one before it.  The other delete by name, that of
\* SetDeleteOperationAsCompleted, is not in this module; OnlyRequestedDeletions of
\* ResourceOperations is about it.
OnlyDeletedClustersGo ==
    [][cluster' = NoCluster => cluster = NoCluster \/ NeedsWork(cluster)]_vars

\* A marked cluster goes, and with it the ServiceProviderCluster that a stale
\* cache may create again, unless a node pool was admitted before the deletion
\* and created after its list of node pools: nothing but another DELETE marks
\* that one, and it holds the cluster.
DeletionEnds ==
    cluster.marked ~> cluster = NoCluster \/ pool = "live"

\* A document that has outlived its cluster goes, or finds itself below a new
\* cluster of the name.
OrphansGo ==
    \A d \in Child : Stored(d) /\ ~Exists ~> ~Stored(d) \/ Exists

\* A cluster that is not marked has its ServiceProviderCluster time and again,
\* also when it took over an orphan that a sweep then deletes.
ClusterGetsSPC ==
    []<>(spc \/ ~Exists \/ cluster.marked)
=============================================================================
