-------------------------- MODULE BillingDocuments --------------------------
(***************************************************************************)
(* The billing documents of the clusters that have one name, one after     *)
(* another.  A document is open from when the cluster is provisioned until *)
(* a deletion time is written to it.  It is in a container of its own, so  *)
(* that no transaction covers it and the cluster: one controller creates   *)
(* it and then notes it on the cluster, the cluster's deletion closes it   *)
(* and then removes the cluster, and a cleanup closes what they leave      *)
(* open.  Each decides on caches that lag behind the database.             *)
(*                                                                         *)
(* The checks on children that precede a cluster's removal are             *)
(* ClusterTree's subject: here a cluster that is being deleted is ready.   *)
(***************************************************************************)
EXTENDS Naturals

CONSTANT MaxUID  \* bound on the clusters that have the name

ASSUME MaxUIDAssumption == MaxUID \in Nat \ {0}

UID == 1..MaxUID

VARIABLES
    cluster,       \* the stored cluster, or NoCluster
    page,          \* what the change feed has read of it and not yet delivered
    clusterCache,  \* what the cluster lister shows
    made,          \* the ClusterUIDs used so far
    billing,       \* the billing document of each ClusterUID
    billingCache,  \* what the billing lister shows
    biller,        \* the sync of CreateBillingDoc: whose document, and how far
    deleter,       \* the sync of the cluster's deletion
    todo,          \* the documents the orphan cleanup has yet to look at
    closing        \* the ones it has found to be orphans and not yet patched

feedVars == <<page, clusterCache>>
docVars == <<billing, billingCache>>
cleanupVars == <<todo, closing>>
vars == <<cluster, feedVars, made, docVars, biller, deleter, cleanupVars>>

NoCluster == [uid |-> 0, state |-> "none", billed |-> FALSE]
NoBiller == [uid |-> 0, step |-> "idle", fresh |-> FALSE]

Init ==
    /\ cluster = NoCluster /\ page = NoCluster /\ clusterCache = NoCluster /\ made = 0
    /\ billing = [u \in UID |-> "none"] /\ billingCache = billing
    /\ biller = NoBiller /\ deleter = "idle"
    /\ todo = {} /\ closing = {}

-----------------------------------------------------------------------------
(* The cluster's life: requests, and the operations that carry them out.  *)

\* A write moves the cluster's ETag on: a sync that has read the cluster cannot
\* replace it any more.
Write(c) ==
    /\ cluster' = c
    /\ biller' = [biller EXCEPT !.fresh = FALSE]

Life(from, to) ==
    /\ cluster.state \in from
    /\ Write([cluster EXCEPT !.state = to])
    /\ UNCHANGED <<feedVars, made, docVars, deleter, cleanupVars>>

CreateCluster ==
    /\ cluster = NoCluster /\ made < MaxUID
    /\ made' = made + 1
    /\ Write([NoCluster EXCEPT !.uid = made + 1, !.state = "Accepted"])
    /\ UNCHANGED <<feedVars, docVars, deleter, cleanupVars>>

Provision == Life({"Accepted", "Updating"}, "Succeeded")
Update == Life({"Succeeded"}, "Updating")
Delete == Life({"Accepted", "Succeeded", "Updating"}, "Deleting")

-----------------------------------------------------------------------------
(* The caches.  A cluster's state is delivered some time after it was read. *)

ReadFeed ==
    /\ page = clusterCache
    /\ page' = cluster
    /\ UNCHANGED <<cluster, clusterCache, made, docVars, biller, deleter, cleanupVars>>

Deliver ==
    /\ clusterCache' = page
    /\ UNCHANGED <<cluster, page, made, docVars, biller, deleter, cleanupVars>>

RelistBilling ==
    /\ billingCache' = billing
    /\ UNCHANGED <<cluster, feedVars, made, billing, biller, deleter, cleanupVars>>

-----------------------------------------------------------------------------
(* CreateBillingDoc. *)

NeedsWork(c) == c.state = "Succeeded" /\ ~c.billed

NeedsBillingByDatabase == NeedsWork(cluster)

\* By the cache, and still by the database.
NeedsBilling == NeedsWork(clusterCache) /\ NeedsWork(cluster)

ReadForBilling ==
    /\ biller = NoBiller
    /\ NeedsBilling
    /\ biller' = [uid |-> cluster.uid, step |-> "create", fresh |-> TRUE]
    /\ UNCHANGED <<cluster, feedVars, made, docVars, deleter, cleanupVars>>

NotedIfCreated ==
    IF billing[biller.uid] = "none" THEN [biller EXCEPT !.step = "note"] ELSE NoBiller

\* It is noted on the cluster whether newly created or already existing.
Noted == [biller EXCEPT !.step = "note"]

\* The document may be there from a sync that got no further.
CreateBillingDoc ==
    /\ biller.step = "create"
    /\ biller' = Noted
    /\ billing' = [billing EXCEPT ![biller.uid] = IF @ = "none" THEN "open" ELSE @]
    /\ UNCHANGED <<cluster, feedVars, made, billingCache, deleter, cleanupVars>>

\* The cluster is replaced if it is as it was read.
NoteBillingDoc ==
    /\ biller.step = "note"
    /\ biller' = NoBiller
    /\ cluster' = IF biller.fresh THEN [cluster EXCEPT !.billed = TRUE] ELSE cluster
    /\ UNCHANGED <<feedVars, made, docVars, deleter, cleanupVars>>

-----------------------------------------------------------------------------
(* The cluster's deletion. *)

\* The model's bound on the cache's lag: a cluster's life, from its creation
\* until Cluster Service has removed it, outlasts the lag, so the cached cluster
\* is not an earlier one of the name.  The code compares no IDs.
LagBound == clusterCache.uid = cluster.uid

ConfirmDeletion ==
    /\ deleter = "idle"
    /\ LagBound
    /\ clusterCache.state = "Deleting" /\ cluster.state = "Deleting"
    /\ deleter' = "close"
    /\ UNCHANGED <<cluster, feedVars, made, docVars, biller, cleanupVars>>

\* Every open document of the name is patched, whichever cluster's it is.
Closed(docs) ==
    [u \in UID |-> IF u \in docs /\ billing[u] = "open" THEN "closed" ELSE billing[u]]

MarkBillingDocumentDeleted ==
    /\ deleter = "close"
    /\ deleter' = "delete"
    /\ billing' = Closed(UID)
    /\ UNCHANGED <<cluster, feedVars, made, billingCache, biller, cleanupVars>>

\* They are patched one by one: when one fails, some are closed.
FailToMark ==
    /\ deleter = "close"
    /\ deleter' = "idle"
    /\ \E docs \in SUBSET UID : billing' = Closed(docs)
    /\ UNCHANGED <<cluster, feedVars, made, billingCache, biller, cleanupVars>>

DeleteCluster ==
    /\ deleter = "delete"
    /\ deleter' = "idle"
    /\ Write(NoCluster)
    /\ UNCHANGED <<feedVars, made, docVars, cleanupVars>>

-----------------------------------------------------------------------------
(* The cleanup of orphaned billing documents. *)

ListBillingDocs ==
    /\ todo = {} /\ closing = {}
    /\ todo' = {u \in UID : billingCache[u] = "open"}
    /\ UNCHANGED <<cluster, feedVars, made, docVars, biller, deleter, closing>>

ClusterIsGoing == clusterCache.state = "Deleting"

\* The lister has no cluster of the name.
ClusterIsGone == clusterCache = NoCluster

CheckDoc(u) ==
    /\ closing = {} /\ u \in todo
    /\ todo' = todo \ {u}
    /\ closing' = IF ClusterIsGone THEN {u} ELSE {}
    /\ UNCHANGED <<cluster, feedVars, made, docVars, biller, deleter>>

\* A document that has a deletion time is given another.
CloseDoc(u) ==
    /\ u \in closing
    /\ closing' = {}
    /\ billing' = [billing EXCEPT ![u] = "closed"]
    /\ UNCHANGED <<cluster, feedVars, made, billingCache, biller, deleter, todo>>

-----------------------------------------------------------------------------
(* A sync fails, or the backend restarts. *)

Abandon ==
    /\ \/ biller # NoBiller /\ biller' = NoBiller /\ UNCHANGED <<deleter, cleanupVars>>
       \/ deleter # "idle" /\ deleter' = "idle" /\ UNCHANGED <<biller, cleanupVars>>
       \/ /\ todo \cup closing # {} /\ todo' = {} /\ closing' = {}
          /\ UNCHANGED <<biller, deleter>>
    /\ UNCHANGED <<cluster, feedVars, made, docVars>>

Biller == ReadForBilling \/ CreateBillingDoc \/ NoteBillingDoc
Deleter == ConfirmDeletion \/ MarkBillingDocumentDeleted \/ DeleteCluster
Cleanup == ListBillingDocs \/ \E u \in UID : CheckDoc(u) \/ CloseDoc(u)

Step ==
    \/ CreateCluster \/ Provision \/ Update \/ Delete
    \/ ReadFeed \/ Deliver \/ RelistBilling
    \/ Biller \/ Deleter \/ Cleanup

Next == Step \/ Abandon \/ FailToMark

Spec == Init /\ [][Next]_vars

\* Informers and controllers are run time and again, and in the end no call
\* fails.  Nobody need send a request, and no operation need end.
Fairness ==
    /\ WF_vars(ReadFeed) /\ WF_vars(Deliver) /\ WF_vars(RelistBilling)
    /\ WF_vars(Biller) /\ WF_vars(Deleter) /\ WF_vars(Cleanup)
    /\ <>[][Step]_vars

LiveSpec == Spec /\ Fairness

-----------------------------------------------------------------------------
ClusterType ==
    [uid : 0..MaxUID, billed : BOOLEAN,
     state : {"none", "Accepted", "Updating", "Succeeded", "Deleting"}]

DocType == [UID -> {"none", "open", "closed"}]

\* Every variable has its type.
TypeOK ==
    /\ cluster \in ClusterType /\ page \in ClusterType /\ clusterCache \in ClusterType
    /\ made \in 0..MaxUID
    /\ billing \in DocType /\ billingCache \in DocType
    /\ biller \in {NoBiller} \cup [uid : UID, step : {"create", "note"}, fresh : BOOLEAN]
    /\ deleter \in {"idle", "close", "delete"}
    /\ todo \subseteq UID /\ closing \subseteq UID

\* The billing of a cluster that nobody has asked to delete is not closed, and
\* is open once the cluster says so: the cleanup never takes the cluster for
\* gone on the word of a lagging cache, the deletion of the name's previous
\* cluster never reaches its document, and a sync that failed half way or a
\* write that was refused never leaves a mark without a document.
LiveClusterIsBilled ==
    cluster # NoCluster /\ cluster.state # "Deleting"
        => billing[cluster.uid] \in (IF cluster.billed THEN {"open"} ELSE {"none", "open"})

\* The document of a cluster that is gone is closed, also when it was created
\* only after the deletion had closed the others, unless the name is taken
\* again: while it is, nothing looks for the document.
BillingCloses ==
    \A u \in UID :
        billing[u] = "open" /\ cluster = NoCluster
            ~> billing[u] = "closed" \/ cluster # NoCluster

\* A cluster that stays provisioned is billed.
ClusterIsBilled ==
    ~<>[](cluster.state = "Succeeded" /\ ~cluster.billed)
=============================================================================
