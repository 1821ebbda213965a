----------------------- MODULE BillingDocumentsProofs -----------------------
(***************************************************************************)
(* That a cluster keeps its billing, for any number of clusters that have  *)
(* the name one after another.                                             *)
(*                                                                         *)
(* The cleanup must not find the cluster missing from the cache when it    *)
(* has a document.  The document is created only after the cache was seen  *)
(* to need it (SeenWhenBilled), which must then mean this cluster and not  *)
(* an earlier one: the cache shows an earlier one only as being deleted    *)
(* (Cached), because the deletion waits for the cache to show it so        *)
(* (DeleterInv), and once the cache shows the cluster it goes on showing   *)
(* it, since a page is read after the one before it (PageFollows).         *)
(***************************************************************************)
EXTENDS BillingDocuments, TLAPS

-----------------------------------------------------------------------------
(* The inductive invariant. *)

\* A copy of the cluster: of this cluster, or of one that is on its way out.
CopyInv(c) ==
    /\ c.uid <= made /\ (c.uid = 0 <=> c = NoCluster)
    /\ c.uid = cluster.uid \/ c = NoCluster \/ c.state = "Deleting"
    /\ c.uid = cluster.uid /\ c.state = "Deleting" => cluster.state = "Deleting"

\* The page in flight is not older than the cache.
PageFollows ==
    clusterCache.uid = cluster.uid /\ cluster # NoCluster =>
        /\ page.uid = cluster.uid
        /\ clusterCache.state = "Deleting" => page.state = "Deleting"

ClusterInv ==
    /\ cluster = NoCluster \/ (cluster.uid = made /\ cluster.uid \in UID /\ cluster.state # "none")
    /\ CopyInv(clusterCache) /\ CopyInv(page) /\ PageFollows

DocumentInv ==
    /\ \A u \in UID : u > made => billing[u] = "none"
    /\ \A u \in UID : billingCache[u] = "open" => billing[u] # "none"
    /\ \A u \in todo \cup closing : billing[u] # "none"
    /\ \A u \in closing : u # cluster.uid

SeenWhenBilled ==
    \A u \in UID : u = cluster.uid /\ billing[u] # "none" => clusterCache.uid = u

BillerInv ==
    biller # NoBiller =>
        /\ biller.uid <= made
        /\ biller.uid = cluster.uid => clusterCache.uid = cluster.uid
        /\ biller.fresh => biller.uid = cluster.uid
        /\ biller.step = "note" => billing[biller.uid] # "none"

DeleterInv ==
    deleter # "idle" =>
        /\ cluster.state = "Deleting"
        /\ clusterCache.uid = cluster.uid /\ clusterCache.state = "Deleting"

BillingInv ==
    \A u \in UID : u = cluster.uid =>
        /\ cluster.billed => billing[u] # "none"
        /\ billing[u] = "closed" => cluster.state = "Deleting"

IInv ==
    /\ TypeOK /\ ClusterInv /\ DocumentInv /\ SeenWhenBilled
    /\ BillerInv /\ DeleterInv /\ BillingInv

-----------------------------------------------------------------------------
(* The invariant holds at first, and every step keeps it. *)

\* Nothing is stored, cached or under way in the first state.
LEMMA InitInv == Init => IInv
  BY MaxUIDAssumption DEF Init, IInv, TypeOK, ClusterType, DocType, UID, NoCluster, NoBiller,
     ClusterInv, CopyInv, PageFollows, DocumentInv, SeenWhenBilled, BillerInv, DeleterInv, BillingInv

BillerType == {NoBiller} \cup [uid : UID, step : {"create", "note"}, fresh : BOOLEAN]

\* After a write the sync that has read the cluster is as before, but stale.
LEMMA BillerAfterWrite ==
    ASSUME biller \in BillerType, NEW c, Write(c)
    PROVE  /\ biller' \in BillerType
           /\ biller'.uid = biller.uid /\ biller'.step = biller.step /\ biller'.fresh = FALSE
           /\ biller' = NoBiller <=> biller = NoBiller
<1>1. CASE biller = NoBiller
  BY Zenon, <1>1 DEF Write, BillerType, NoBiller
<1>2. CASE biller # NoBiller
  BY Zenon, <1>2 DEF Write, BillerType, NoBiller, UID
<1> QED
  BY Zenon, <1>1, <1>2

\* A request is accepted or an operation ends: the cluster's state changes.
LEMMA LifeKeeps ==
    ASSUME NEW from \in SUBSET {"Accepted", "Succeeded", "Updating"},
           NEW to \in {"Updating", "Succeeded", "Deleting"},
           IInv, Life(from, to)
    PROVE  IInv'
<1>1. /\ cluster' \in ClusterType /\ cluster # NoCluster
      /\ cluster'.uid = cluster.uid /\ cluster'.billed = cluster.billed
      /\ cluster'.state = to /\ cluster.state \in {"Accepted", "Succeeded", "Updating"}
  BY DEF IInv, TypeOK, ClusterType, Life, Write, NoCluster
<1>2. /\ biller' \in BillerType
      /\ biller'.uid = biller.uid /\ biller'.step = biller.step /\ biller'.fresh = FALSE
      /\ biller' = NoBiller <=> biller = NoBiller
  BY Zenon, BillerAfterWrite DEF IInv, TypeOK, BillerType, Life
<1>3. UNCHANGED <<page, clusterCache, made, billing, billingCache, deleter, todo, closing>>
  BY Zenon DEF Life, docVars, feedVars, cleanupVars
<1>4. TypeOK'
  BY Zenon, <1>1, <1>2, <1>3 DEF IInv, TypeOK, BillerType
<1>5. ClusterInv'
  BY <1>1, <1>3 DEF IInv, TypeOK, ClusterType, ClusterInv, CopyInv, PageFollows, NoCluster, UID
<1>6. DocumentInv'
  BY Zenon, <1>1, <1>3 DEF IInv, DocumentInv
<1>7. SeenWhenBilled'
  BY Zenon, <1>1, <1>3 DEF IInv, SeenWhenBilled
<1>8. BillerInv'
  BY Zenon, <1>1, <1>2, <1>3 DEF IInv, BillerInv
<1>9. DeleterInv' /\ BillingInv'
  BY Zenon, <1>1, <1>3 DEF IInv, DeleterInv, BillingInv
<1> QED
  BY Zenon, <1>4, <1>5, <1>6, <1>7, <1>8, <1>9 DEF IInv

\* A cluster is created under a new ClusterUID.
LEMMA CreateKeeps ==
    ASSUME IInv, CreateCluster
    PROVE  IInv'
<1>0. cluster' = [uid |-> made + 1, state |-> "Accepted", billed |-> FALSE]
  BY Zenon DEF CreateCluster, Write, NoCluster
<1>a. /\ made \in Nat /\ made + 1 \in UID /\ made' = made + 1
      /\ cluster = NoCluster
  BY MaxUIDAssumption DEF IInv, TypeOK, CreateCluster, UID
<1>1. /\ cluster' \in ClusterType /\ cluster = NoCluster
      /\ cluster'.uid = made + 1 /\ cluster'.state = "Accepted" /\ cluster'.billed = FALSE
      /\ made \in Nat /\ made + 1 \in UID /\ made' = made + 1
  BY <1>0, <1>a DEF ClusterType, UID
<1>2. /\ biller' \in BillerType
      /\ biller'.uid = biller.uid /\ biller'.step = biller.step /\ biller'.fresh = FALSE
      /\ biller' = NoBiller <=> biller = NoBiller
  BY Zenon, BillerAfterWrite DEF IInv, TypeOK, BillerType, CreateCluster
<1>3. UNCHANGED <<page, clusterCache, billing, billingCache, deleter, todo, closing>>
  BY Zenon DEF CreateCluster, docVars, feedVars, cleanupVars
<1>4. TypeOK'
  BY <1>1, <1>2, <1>3 DEF IInv, TypeOK, BillerType, UID
<1>5. ClusterInv'
  BY <1>1, <1>3 DEF IInv, TypeOK, ClusterType, ClusterInv, CopyInv, PageFollows, NoCluster, UID
<1>6. DocumentInv'
  BY <1>1, <1>3 DEF IInv, TypeOK, DocumentInv, UID
<1>7. SeenWhenBilled' /\ BillingInv'
  BY <1>1, <1>3 DEF IInv, DocumentInv, SeenWhenBilled, BillingInv, UID
<1>8. BillerInv'
  BY <1>1, <1>2, <1>3 DEF IInv, TypeOK, BillerInv, NoBiller, UID
<1>9. DeleterInv'
  BY Zenon, <1>1, <1>3 DEF IInv, DeleterInv, NoCluster
<1> QED
  BY Zenon, <1>4, <1>5, <1>6, <1>7, <1>8, <1>9 DEF IInv

\* The caches are brought up to date.
LEMMA FeedKeeps ==
    ASSUME IInv, ReadFeed \/ Deliver \/ RelistBilling
    PROVE  IInv'
<1> USE DEF docVars, feedVars, cleanupVars, UID, NoCluster, NoBiller
<1>1. TypeOK'
  BY Zenon DEF IInv, TypeOK, ReadFeed, Deliver, RelistBilling
<1>2. ClusterInv'
  BY DEF IInv, TypeOK, ClusterType, ClusterInv, CopyInv, PageFollows, ReadFeed, Deliver, RelistBilling
<1>3. DocumentInv'
  BY Zenon DEF IInv, DocumentInv, ReadFeed, Deliver, RelistBilling
<1>4. SeenWhenBilled'
  BY DEF IInv, TypeOK, ClusterInv, PageFollows, SeenWhenBilled, ReadFeed, Deliver, RelistBilling
<1>5. BillerInv'
  BY DEF IInv, TypeOK, ClusterInv, PageFollows, BillerInv, ReadFeed, Deliver, RelistBilling
<1>6. DeleterInv' /\ BillingInv'
  BY DEF IInv, TypeOK, ClusterInv, PageFollows, DeleterInv, BillingInv, ReadFeed, Deliver, RelistBilling
<1> QED
  BY Zenon, <1>1, <1>2, <1>3, <1>4, <1>5, <1>6 DEF IInv

\* A document is created and noted.
LEMMA BillerKeeps ==
    ASSUME IInv, Biller
    PROVE  IInv'
<1> USE DEF docVars, feedVars, cleanupVars
<1>1. CASE ReadForBilling
  <2>1. /\ biller' = [uid |-> cluster.uid, step |-> "create", fresh |-> TRUE]
        /\ cluster.state = "Succeeded" /\ clusterCache.state = "Succeeded"
        /\ UNCHANGED <<cluster, page, clusterCache, made, billing, billingCache, deleter, todo, closing>>
    BY Zenon, <1>1 DEF ReadForBilling, NeedsBilling, NeedsWork
  <2>2. cluster # NoCluster /\ cluster.uid \in UID /\ clusterCache.uid = cluster.uid
    BY <2>1 DEF IInv, ClusterInv, CopyInv, NoCluster
  <2>3. TypeOK'
    BY Zenon, <2>1, <2>2 DEF IInv, TypeOK
  <2>4. ClusterInv' /\ DocumentInv' /\ SeenWhenBilled' /\ DeleterInv' /\ BillingInv'
    BY Zenon, <2>1 DEF IInv, ClusterInv, CopyInv, PageFollows, DocumentInv, SeenWhenBilled, DeleterInv, BillingInv
  <2>5. BillerInv'
    BY <2>1, <2>2 DEF IInv, BillerInv, ClusterInv, TypeOK, UID
  <2> QED
    BY Zenon, <2>3, <2>4, <2>5 DEF IInv
<1>2. CASE CreateBillingDoc
  <2>1. /\ biller # NoBiller /\ biller.uid \in UID
        /\ biller' = [biller EXCEPT !.step = "note"]
        /\ billing' = [billing EXCEPT ![biller.uid] = IF @ = "none" THEN "open" ELSE @]
        /\ UNCHANGED <<cluster, page, clusterCache, made, billingCache, deleter, todo, closing>>
    BY <1>2 DEF CreateBillingDoc, Noted, IInv, TypeOK, NoBiller
  <2>2. /\ biller' \in BillerType
        /\ biller'.uid = biller.uid /\ biller'.step = "note" /\ biller'.fresh = biller.fresh
    BY Zenon, <2>1 DEF IInv, TypeOK, BillerType, UID
  <2>3. /\ billing' \in DocType /\ billing'[biller.uid] # "none"
        /\ \A u \in UID : billing'[u] = billing[u]
                             \/ (u = biller.uid /\ billing[u] = "none" /\ billing'[u] = "open")
    BY Zenon, <2>1 DEF IInv, TypeOK, DocType
  <2>4. TypeOK'
    BY Zenon, <2>1, <2>2, <2>3 DEF IInv, TypeOK, BillerType
  <2>5. ClusterInv' /\ DeleterInv'
    BY Zenon, <2>1 DEF IInv, ClusterInv, CopyInv, PageFollows, DeleterInv
  <2>6. DocumentInv'
    BY <2>1, <2>3 DEF IInv, TypeOK, DocumentInv, BillerInv, UID
  <2>7. SeenWhenBilled' /\ BillingInv'
    BY Zenon, <2>1, <2>3 DEF IInv, SeenWhenBilled, BillingInv, BillerInv
  <2>8. BillerInv'
    BY Zenon, <2>1, <2>2, <2>3 DEF IInv, BillerInv
  <2> QED
    BY Zenon, <2>4, <2>5, <2>6, <2>7, <2>8 DEF IInv
<1>3. CASE NoteBillingDoc
  <2>1. /\ biller # NoBiller /\ biller.uid \in UID /\ biller.step = "note"
        /\ biller' = NoBiller
        /\ cluster' = IF biller.fresh THEN [cluster EXCEPT !.billed = TRUE] ELSE cluster
        /\ UNCHANGED <<page, clusterCache, made, billing, billingCache, deleter, todo, closing>>
    BY <1>3 DEF NoteBillingDoc, IInv, TypeOK, NoBiller
  <2>2. /\ cluster' \in ClusterType /\ cluster'.uid = cluster.uid /\ cluster'.state = cluster.state
        /\ cluster'.billed => cluster.billed \/ cluster.uid = biller.uid
    BY Zenon, <2>1 DEF IInv, TypeOK, ClusterType, BillerInv
  <2>3. cluster' = NoCluster <=> cluster = NoCluster
    <3>1. CASE biller.fresh
      <4>1. cluster.uid \in UID /\ NoCluster.uid = 0 /\ 0 \notin UID
        BY <3>1, <2>1 DEF IInv, BillerInv, NoCluster, UID
      <4> QED
        BY Zenon, <4>1, <2>2
    <3>2. CASE ~biller.fresh
      BY Zenon, <3>2, <2>1
    <3> QED
      BY Zenon, <3>1, <3>2
  <2>4. TypeOK' /\ BillerInv'
    BY Zenon, <2>1, <2>2 DEF IInv, TypeOK, BillerInv
  <2>5. ClusterInv' /\ DeleterInv'
    BY Zenon, <2>1, <2>2, <2>3 DEF IInv, ClusterInv, CopyInv, PageFollows, DeleterInv
  <2>6. DocumentInv' /\ SeenWhenBilled'
    BY Zenon, <2>1, <2>2 DEF IInv, DocumentInv, SeenWhenBilled
  <2>7. BillingInv'
    BY Zenon, <2>1, <2>2 DEF IInv, BillingInv, BillerInv
  <2> QED
    BY Zenon, <2>4, <2>5, <2>6, <2>7 DEF IInv
<1> QED
  BY Zenon, <1>1, <1>2, <1>3 DEF Biller

\* The deletion closes the name's documents and removes the cluster.
LEMMA DeleterKeeps ==
    ASSUME IInv, Deleter
    PROVE  IInv'
<1> USE DEF docVars, feedVars, cleanupVars
<1>1. CASE ConfirmDeletion
  <2>1. /\ deleter' = "close" /\ clusterCache.uid = cluster.uid
        /\ clusterCache.state = "Deleting" /\ cluster.state = "Deleting"
        /\ UNCHANGED <<cluster, page, clusterCache, made, billing, billingCache, biller, todo, closing>>
    BY Zenon, <1>1 DEF ConfirmDeletion, LagBound
  <2>2. TypeOK' /\ DeleterInv'
    BY Zenon, <2>1 DEF IInv, TypeOK, DeleterInv
  <2>3. ClusterInv' /\ DocumentInv' /\ SeenWhenBilled' /\ BillerInv' /\ BillingInv'
    BY Zenon, <2>1 DEF IInv, ClusterInv, CopyInv, PageFollows, DocumentInv, SeenWhenBilled, BillerInv, BillingInv
  <2> QED
    BY Zenon, <2>2, <2>3 DEF IInv
<1>2. CASE MarkBillingDocumentDeleted
  <2>1. /\ deleter = "close" /\ deleter' = "delete" /\ billing' = Closed(UID)
        /\ UNCHANGED <<cluster, page, clusterCache, made, billingCache, biller, todo, closing>>
    BY Zenon, <1>2 DEF MarkBillingDocumentDeleted
  <2>2. /\ billing' \in DocType
        /\ \A u \in UID : billing'[u] = "none" <=> billing[u] = "none"
    BY Zenon, <2>1 DEF IInv, TypeOK, DocType, Closed
  <2>3. TypeOK' /\ DeleterInv' /\ ClusterInv'
    BY Zenon, <2>1, <2>2 DEF IInv, TypeOK, DeleterInv, ClusterInv, CopyInv, PageFollows
  <2>4. DocumentInv' /\ SeenWhenBilled' /\ BillingInv'
    BY Zenon, <2>1, <2>2 DEF IInv, TypeOK, DocumentInv, SeenWhenBilled, DeleterInv, BillingInv
  <2>5. BillerInv'
    BY Zenon, <2>1, <2>2 DEF IInv, TypeOK, BillerInv, NoBiller
  <2> QED
    BY Zenon, <2>3, <2>4, <2>5 DEF IInv
<1>3. CASE DeleteCluster
  <2>1. /\ deleter = "delete" /\ deleter' = "idle" /\ cluster' = NoCluster
        /\ UNCHANGED <<page, clusterCache, made, billing, billingCache, todo, closing>>
    BY Zenon, <1>3 DEF DeleteCluster, Write
  <2>2. /\ biller' \in BillerType
        /\ biller'.uid = biller.uid /\ biller'.step = biller.step /\ biller'.fresh = FALSE
        /\ biller' = NoBiller <=> biller = NoBiller
    BY Zenon, <1>3, BillerAfterWrite DEF IInv, TypeOK, BillerType, DeleteCluster
  <2>3. cluster'.uid = 0 /\ cluster' \in ClusterType
    BY <2>1, MaxUIDAssumption DEF NoCluster, ClusterType
  <2>4. TypeOK' /\ DeleterInv'
    BY Zenon, <2>1, <2>2, <2>3 DEF IInv, TypeOK, BillerType, DeleterInv
  <2>5. ClusterInv'
    BY Zenon, <2>1, <2>3 DEF IInv, ClusterInv, CopyInv, PageFollows, DeleterInv
  <2>6. DocumentInv' /\ SeenWhenBilled' /\ BillingInv'
    BY <2>1, <2>3 DEF IInv, TypeOK, DocumentInv, SeenWhenBilled, BillingInv, UID
  <2>7. BillerInv'
    BY <2>1, <2>2, <2>3 DEF IInv, TypeOK, BillerInv, BillerType, NoBiller, UID
  <2> QED
    BY Zenon, <2>4, <2>5, <2>6, <2>7 DEF IInv
<1> QED
  BY Zenon, <1>1, <1>2, <1>3 DEF Deleter

\* A deletion that fails has closed some of the documents.
LEMMA FailToMarkKeeps ==
    ASSUME IInv, FailToMark
    PROVE  IInv'
<1> USE DEF docVars, feedVars, cleanupVars
<1> PICK docs \in SUBSET UID : billing' = Closed(docs)
  BY Zenon DEF FailToMark
<1>1. /\ deleter = "close" /\ deleter' = "idle"
      /\ UNCHANGED <<cluster, page, clusterCache, made, billingCache, biller, todo, closing>>
  BY Zenon DEF FailToMark
<1>2. /\ billing' \in DocType
      /\ \A u \in UID : billing'[u] = "none" <=> billing[u] = "none"
  BY Zenon DEF IInv, TypeOK, DocType, Closed
<1>3. TypeOK' /\ DeleterInv' /\ ClusterInv'
  BY Zenon, <1>1, <1>2 DEF IInv, TypeOK, DeleterInv, ClusterInv, CopyInv, PageFollows
<1>4. DocumentInv' /\ SeenWhenBilled' /\ BillingInv'
  BY Zenon, <1>1, <1>2 DEF IInv, TypeOK, DocumentInv, SeenWhenBilled, DeleterInv, BillingInv
<1>5. BillerInv'
  BY Zenon, <1>1, <1>2 DEF IInv, TypeOK, BillerInv, NoBiller
<1> QED
  BY Zenon, <1>3, <1>4, <1>5 DEF IInv

\* The cleanup closes documents of clusters that are gone.
LEMMA CleanupKeeps ==
    ASSUME IInv, Cleanup
    PROVE  IInv'
<1> USE DEF docVars, feedVars
<1>1. CASE ListBillingDocs
  <2>1. /\ todo' = {u \in UID : billingCache[u] = "open"}
        /\ UNCHANGED <<cluster, page, clusterCache, made, billing, billingCache, biller, deleter, closing>>
    BY Zenon, <1>1 DEF ListBillingDocs
  <2>2. TypeOK' /\ DocumentInv'
    BY Zenon, <2>1 DEF IInv, TypeOK, DocumentInv
  <2>3. ClusterInv' /\ SeenWhenBilled' /\ BillerInv' /\ DeleterInv' /\ BillingInv'
    BY <2>1 DEF IInv, ClusterInv, CopyInv, PageFollows, SeenWhenBilled, BillerInv, DeleterInv, BillingInv
  <2> QED
    BY Zenon, <2>2, <2>3 DEF IInv
<1>2. ASSUME NEW u \in UID, CheckDoc(u)
      PROVE  IInv'
  <2>1. /\ u \in todo /\ todo' = todo \ {u}
        /\ closing' = IF clusterCache = NoCluster THEN {u} ELSE {}
        /\ UNCHANGED <<cluster, page, clusterCache, made, billing, billingCache, biller, deleter>>
    BY Zenon, <1>2 DEF CheckDoc, ClusterIsGone
  <2>2. clusterCache = NoCluster => u # cluster.uid
    BY <2>1 DEF IInv, DocumentInv, SeenWhenBilled, NoCluster, UID
  <2>3. TypeOK'
    BY Zenon, <2>1 DEF IInv, TypeOK
  <2>4. DocumentInv'
    BY Zenon, <2>1, <2>2 DEF IInv, DocumentInv
  <2>5. ClusterInv' /\ SeenWhenBilled' /\ BillerInv' /\ DeleterInv' /\ BillingInv'
    BY <2>1 DEF IInv, ClusterInv, CopyInv, PageFollows, SeenWhenBilled, BillerInv, DeleterInv, BillingInv
  <2> QED
    BY Zenon, <2>3, <2>4, <2>5 DEF IInv
<1>3. ASSUME NEW u \in UID, CloseDoc(u)
      PROVE  IInv'
  <2>1. /\ u \in closing /\ closing' = {} /\ billing' = [billing EXCEPT ![u] = "closed"]
        /\ UNCHANGED <<cluster, page, clusterCache, made, billingCache, biller, deleter, todo>>
    BY Zenon, <1>3 DEF CloseDoc
  <2>2. /\ billing' \in DocType /\ billing'[u] = "closed"
        /\ \A w \in UID : w # u => billing'[w] = billing[w]
    BY Zenon, <2>1 DEF IInv, TypeOK, DocType
  <2>3. u # cluster.uid /\ billing[u] # "none"
    BY Zenon, <2>1 DEF IInv, DocumentInv
  <2>4. TypeOK' /\ ClusterInv' /\ DeleterInv'
    BY <2>1, <2>2 DEF IInv, TypeOK, ClusterInv, CopyInv, PageFollows, DeleterInv
  <2>5. DocumentInv'
    BY <2>1, <2>2, <2>3 DEF IInv, TypeOK, DocumentInv
  <2>6. SeenWhenBilled' /\ BillingInv'
    BY Zenon, <2>1, <2>2, <2>3 DEF IInv, SeenWhenBilled, BillingInv
  <2>7. BillerInv'
    BY <2>1, <2>2, <2>3 DEF IInv, TypeOK, BillerInv, NoBiller
  <2> QED
    BY Zenon, <2>4, <2>5, <2>6, <2>7 DEF IInv
<1> QED
  BY Zenon, <1>1, <1>2, <1>3 DEF Cleanup

\* A sync that is given up leaves everything else as it is.
LEMMA AbandonKeeps ==
    ASSUME IInv, Abandon
    PROVE  IInv'
<1> USE DEF Abandon, docVars, feedVars, cleanupVars
<1>1. TypeOK'
  BY Zenon DEF IInv, TypeOK
<1>2. ClusterInv' /\ SeenWhenBilled' /\ BillingInv'
  BY Zenon DEF IInv, ClusterInv, CopyInv, PageFollows, SeenWhenBilled, BillingInv
<1>3. DocumentInv'
  BY Zenon DEF IInv, DocumentInv
<1>4. BillerInv' /\ DeleterInv'
  BY Zenon DEF IInv, BillerInv, DeleterInv
<1> QED
  BY Zenon, <1>1, <1>2, <1>3, <1>4 DEF IInv

-----------------------------------------------------------------------------
(* What a live cluster is promised. *)

\* Whatever the caches show, whichever sync fails or is overtaken, and however
\* often the name is used: a cluster nobody has asked to delete is not taken for
\* gone by OrphanedBillingCleanup, nor is its document closed with a predecessor's.
THEOREM BillingKept == Spec => []LiveClusterIsBilled
<1>1. IInv /\ [Next]_vars => IInv'
  <2> SUFFICES ASSUME IInv, [Next]_vars
               PROVE  IInv'
    BY Zenon
  <2>1. CASE UNCHANGED vars
    BY <2>1 DEF vars, docVars, feedVars, cleanupVars, IInv, TypeOK, ClusterInv, CopyInv, PageFollows,
       DocumentInv, SeenWhenBilled, BillerInv, DeleterInv, BillingInv
  <2>2. CASE Provision \/ Update \/ Delete
    BY Zenon, <2>2, LifeKeeps DEF Provision, Update, Delete
  <2> QED
    BY Zenon, <2>1, <2>2, CreateKeeps, FeedKeeps, BillerKeeps, DeleterKeeps, CleanupKeeps, AbandonKeeps,
       FailToMarkKeeps
       DEF Next, Step
<1>2. IInv => LiveClusterIsBilled
  BY Zenon DEF IInv, TypeOK, DocType, ClusterInv, BillingInv, LiveClusterIsBilled, UID
<1> QED
  BY InitInv, <1>1, <1>2, PTL DEF Spec
=============================================================================
