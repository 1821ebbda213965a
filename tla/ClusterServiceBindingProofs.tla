-------------------- MODULE ClusterServiceBindingProofs --------------------
(***************************************************************************)
(* The binding of a document to its object in Cluster Service survives     *)
(* stale caches, lost answers, restarts and a deletion that overtakes a    *)
(* creation, for any set of identities and any bounds.                     *)
(*                                                                         *)
(* The argument: a sync whose etag is still the document's knows the       *)
(* document (SyncInv), and every write makes all other syncs' etags stale. *)
(* ClusterServiceDeletionTimestamp is only set once the recorded object is *)
(* doomed, that is, going or gone with no POST left that could bring it    *)
(* back, and the identities Cluster Service has or may get an object of    *)
(* are the recorded and the pending one (OnlyTarget).  What depends on the *)
(* 120 s wait outlasting a create is stated under TimeoutOutlivesCreate.   *)
(***************************************************************************)
EXTENDS ClusterServiceBinding, TLAPS

\* The values of sync[c].
SyncType ==
    [phase : {"idle", "failed", "checked", "read", "absent", "posted", "found",
              "recover", "dispatched", "gone"},
     etag : Nat, id : ID \cup {NoID}]

\* The phases of each controller, and which of them need an identity.
Fits(c, r) ==
    \/ r.phase \in {"idle", "failed"}
    \/ c = "assign" /\ r.phase \in {"checked", "read"}
    \/ c = "create" /\ r.phase \in {"read", "absent", "posted", "found"} /\ r.id \in ID
    \/ c = "dispatch" /\ r.phase \in {"read", "recover"} /\ r.id \in ID
    \/ c = "dispatch" /\ r.phase = "dispatched"
    \/ c = "clear" /\ r.phase \in {"read", "gone"} /\ r.id \in ID
    \/ c = "delete" /\ r.phase = "read"

\* A sync has read the document as it is or was.
PhaseInv ==
    /\ \A c \in Controllers : Fits(c, sync[c]) /\ sync[c].etag <= document.etag
    /\ ~Free("assign") => assignments < MaxAssignments

WellFormed == TypeOK /\ PhaseInv

\* Controller c is in a sync, and the document is the one it read.
Current(c) == ~Free(c) /\ document.stored /\ sync[c].etag = document.etag

\* The object of identity i is on its way out, for good.
Doomed(i) ==
    TimeoutOutlivesCreate => object[i] # "live" /\ (object[i] = "none" => CreateSettled)

\* The order of a deletion's stages.
DocumentInv ==
    /\ document.csDeletionTimestamp => document.deletionTimestamp
    /\ ~document.stored => document.csDeletionTimestamp /\ document.clusterServiceID = NoID
    /\ document.csDeletionTimestamp /\ document.clusterServiceID # NoID
          => Doomed(document.clusterServiceID)
    /\ firstSeen # "never" => document.deletionTimestamp
    /\ firstSeen = "elapsed" => CreateSettled

\* What each controller knows of the document while its copy is current, and
\* what it knows whatever happens to the document.
CreateKnows == Current("create") => NeedsCreation(document)

DispatchKnows ==
    /\ ~Free("dispatch") => document.deletionTimestamp
    /\ Current("dispatch") =>
          /\ NeedsDispatch(document)
          /\ sync["dispatch"].phase = "recover" =>
                document.clusterServiceID = NoID /\ document.pendingID = sync["dispatch"].id
          /\ sync["dispatch"].phase # "recover" => document.clusterServiceID = sync["dispatch"].id
          /\ sync["dispatch"].phase = "dispatched" /\ sync["dispatch"].id = NoID
                => document.pendingID = NoID
    /\ sync["dispatch"].phase = "dispatched" /\ sync["dispatch"].id # NoID
          => Doomed(sync["dispatch"].id)

ClearKnows ==
    Current("clear") =>
       /\ NeedsClearing(document) /\ document.clusterServiceID = sync["clear"].id
       /\ TimeoutOutlivesCreate /\ sync["clear"].phase = "gone" => object[sync["clear"].id] = "none"

DeleteKnows == ~Free("delete") /\ document.stored => NeedsRemoval(document)

SyncInv == CreateKnows /\ DispatchKnows /\ ClearKnows /\ DeleteKnows

\* The identities Cluster Service has an object of, or may yet get one of.
Live(i) ==
    \/ i \in posts \/ object[i] # "none"
    \/ ~Free("create") /\ sync["create"].id = i

\* A cluster with one assigned identity has no object but the one doc names, and
\* a pending identity is given up only before the deletion is stamped.
OnlyTarget(doc) ==
    TimeoutOutlivesCreate /\ doc.kind = "cluster" /\ assignments <= 1 =>
       /\ assignments = 0 => doc.pendingID = NoID /\ doc.clusterServiceID = NoID
       /\ doc.pendingID = NoID \/ doc.clusterServiceID = NoID
       /\ \A i \in ID : Live(i) =>
             i = doc.clusterServiceID \/ (i = doc.pendingID /\ ~doc.csDeletionTimestamp)

OneTarget == OnlyTarget(document)

\* The inductive invariant.
BindingInv == WellFormed /\ DocumentInv /\ SyncInv /\ OneTarget

\* A step of one controller leaves the syncs of the others alone.
LEMMA SyncChange ==
    ASSUME WellFormed, NEW c \in Controllers, NEW r \in SyncType, sync' = [sync EXCEPT ![c] = r]
    PROVE  /\ sync' \in [Controllers -> SyncType]
           /\ sync'[c] = r
           /\ \A d \in Controllers \ {c} : sync'[d] = sync[d]
  BY DEF WellFormed, TypeOK, SyncType

\* A replace that is refused leaves the document alone; one that is carried out
\* takes the controller's new document and moves the etag on.
LEMMA ReplaceResult ==
    ASSUME WellFormed, NEW c \in Controllers, NEW new \in DocumentType, Replaces(c, new)
    PROVE  /\ sync' = [sync EXCEPT ![c] = NoSync]
           /\ \/ document' = document /\ ~(document.stored /\ sync[c].etag = document.etag)
              \/ /\ document.stored /\ sync[c].etag = document.etag
                 /\ document' \in DocumentType /\ document'.etag = new.etag + 1
                 /\ document'.kind = new.kind /\ document'.stored = new.stored
                 /\ document'.deletionTimestamp = new.deletionTimestamp
                 /\ document'.csDeletionTimestamp = new.csDeletionTimestamp
                 /\ document'.pendingID = new.pendingID
                 /\ document'.clusterServiceID = new.clusterServiceID
  <1>1. sync' = [sync EXCEPT ![c] = NoSync]
    BY DEF Replaces, Ends
  <1>2. CASE ~(document.stored /\ sync[c].etag = document.etag)
    BY <1>1, <1>2 DEF Replaces
  <1>3. CASE document.stored /\ sync[c].etag = document.etag
    <2>1. document' = [new EXCEPT !.etag = new.etag + 1]
      BY <1>3 DEF Replaces
    <2>2. new.etag + 1 \in Nat
      BY DEF DocumentType
    <2>3. document' \in DocumentType /\ document'.etag = new.etag + 1
      BY Zenon, <2>1, <2>2 DEF DocumentType
    <2> QED
      BY <1>1, <1>3, <2>1, <2>3 DEF DocumentType
  <1> QED
    BY <1>2, <1>3

\* The invariant holds of a document the frontend has just created.
LEMMA InitBinding == Init => BindingInv
  <1> SUFFICES ASSUME Init PROVE BindingInv
    OBVIOUS
  <1>1. document \in DocumentType /\ cache \in DocumentType /\ document.etag = 1
        /\ document.stored /\ ~document.deletionTimestamp /\ ~document.csDeletionTimestamp
        /\ document.pendingID = NoID /\ document.clusterServiceID = NoID
    <2>1. document.kind \in Kinds /\ document.stored = TRUE /\ document.etag = 1
          /\ document.deletionTimestamp = FALSE /\ document.csDeletionTimestamp = FALSE
          /\ document.pendingID = NoID /\ document.clusterServiceID = NoID
      BY Zenon DEF Init
    <2>2. document \in DocumentType
      <3>1. document = [kind |-> document.kind, stored |-> TRUE, etag |-> 1, deletionTimestamp |-> FALSE,
                        pendingID |-> NoID, clusterServiceID |-> NoID, csDeletionTimestamp |-> FALSE]
        BY Zenon DEF Init
      <3>2. 1 \in Nat
        OBVIOUS
      <3> QED
        BY Zenon, <2>1, <3>1, <3>2 DEF DocumentType
    <2> QED
      BY <2>1, <2>2 DEF Init
  <1>2. \A c \in Controllers : sync[c] = NoSync
    BY DEF Init
  <1>3. sync \in [Controllers -> SyncType]
    BY DEF Init, NoSync, SyncType
  <1>4. WellFormed
    BY <1>1, <1>2, <1>3, BoundAssumption
    DEF Init, WellFormed, TypeOK, PhaseInv, Fits, Controllers, NoSync, Free, SyncType
  <1>5. \A c \in Controllers : Free(c)
    BY <1>2 DEF NoSync, Free
  <1>6. DocumentInv /\ SyncInv
    BY <1>1, <1>2, <1>5 DEF Init, DocumentInv, SyncInv, CreateKnows, DispatchKnows, ClearKnows, DeleteKnows,
       Current, Controllers, NoSync
  <1>7. OneTarget
    BY <1>1, <1>5 DEF Init, OneTarget, OnlyTarget, Live, Controllers
  <1> QED
    BY <1>4, <1>6, <1>7 DEF BindingInv

\* The documents the controllers write are documents.
LEMMA WrittenDocuments ==
    ASSUME WellFormed, NEW i \in ID \cup {NoID}
    PROVE  /\ [document EXCEPT !.pendingID = i] \in DocumentType
           /\ [document EXCEPT !.pendingID = NoID, !.clusterServiceID = i] \in DocumentType
           /\ [document EXCEPT !.csDeletionTimestamp = TRUE] \in DocumentType
           /\ [document EXCEPT !.clusterServiceID = NoID] \in DocumentType
           /\ [document EXCEPT !.stored = FALSE] \in DocumentType
           /\ [document EXCEPT !.deletionTimestamp = TRUE, !.etag = @ + 1] \in DocumentType
           /\ [document EXCEPT !.etag = @ + 1] \in DocumentType
  <1>1. document \in DocumentType /\ document.etag + 1 \in Nat
    BY DEF WellFormed, TypeOK, DocumentType
  <1> QED
    BY Zenon, <1>1 DEF DocumentType

\* A controller that ends, or goes on to another phase.
LEMMA SyncWellFormed ==
    ASSUME WellFormed, NEW c \in Controllers, NEW r \in SyncType, sync' = [sync EXCEPT ![c] = r],
           Fits(c, r), c = "assign" /\ r.phase \notin {"idle", "failed"} => assignments < MaxAssignments,
           document' \in DocumentType, cache' \in DocumentType,
           document.etag <= document'.etag, r.etag <= document'.etag,
           firstSeen' \in {"never", "seen", "elapsed"}, posts' \subseteq ID,
           object' \in [ID -> {"none", "live", "deleting"}], UNCHANGED restarts,
           \/ UNCHANGED assignments
           \/ c = "assign" /\ r.phase = "idle" /\ assignments' \in 0..MaxAssignments
    PROVE  WellFormed'
  <1>1. /\ sync' \in [Controllers -> SyncType] /\ sync'[c] = r
        /\ \A d \in Controllers \ {c} : sync'[d] = sync[d]
    BY Zenon, SyncChange
  <1>2. TypeOK'
    BY <1>1 DEF WellFormed, TypeOK, PhaseInv, Fits, SyncType, Controllers
  <1>3. \A d \in Controllers : sync'[d].etag <= document'.etag
    BY <1>1 DEF WellFormed, TypeOK, PhaseInv, SyncType, DocumentType
  <1>4. PhaseInv'
    BY <1>1, <1>3 DEF WellFormed, TypeOK, PhaseInv, SyncType, Controllers, Free
  <1> QED
    BY <1>2, <1>4 DEF WellFormed

\* What a sync of controller c must know of the document it read.
LEMMA ReadKeeps ==
    ASSUME BindingInv, NEW c \in Controllers, NEW r \in SyncType, sync' = [sync EXCEPT ![c] = r],
           UNCHANGED <<document, cache, posts, object, restarts, assignments>>,
           r.etag <= document.etag, Fits(c, r),
           c = "assign" /\ r.phase \notin {"idle", "failed"} => assignments < MaxAssignments,
           \/ firstSeen' = firstSeen
           \/ firstSeen = "never" /\ firstSeen' = "seen" /\ document.deletionTimestamp
           \/ firstSeen' = "never",
           c = "create" =>
              CreateKnows' /\ (~Free("create") \/ Free("create")' \/ ~document.deletionTimestamp),
           c = "dispatch" => DispatchKnows',
           c = "clear" => ClearKnows',
           c = "delete" => DeleteKnows',
           c = "create" => OneTarget'
    PROVE  BindingInv'
  <1> DEFINE others == Controllers \ {c}
  <1>1. /\ sync'[c] = r
        /\ \A d \in others : sync'[d] = sync[d] /\ (Free(d)' <=> Free(d)) /\ (Current(d)' <=> Current(d))
    BY Zenon, SyncChange DEF BindingInv, Free, Current
  <1>0. WellFormed'
    <2>1. /\ document' \in DocumentType /\ cache' \in DocumentType
          /\ document.etag <= document'.etag /\ r.etag <= document'.etag
          /\ firstSeen' \in {"never", "seen", "elapsed"} /\ posts' \subseteq ID
          /\ object' \in [ID -> {"none", "live", "deleting"}]
          /\ UNCHANGED restarts /\ UNCHANGED assignments
      BY DEF BindingInv, WellFormed, TypeOK, DocumentType
    <2> QED
      BY Zenon, <2>1, SyncWellFormed DEF BindingInv
  <1>2. CreateSettled => CreateSettled' \/ ~document.deletionTimestamp
    BY <1>1 DEF CreateSettled, Free, Controllers
  <1>3. \A i \in ID : document.deletionTimestamp /\ Doomed(i) => Doomed(i)'
    BY <1>2 DEF Doomed
  <1>4. DocumentInv'
    BY <1>2, <1>3 DEF BindingInv, DocumentInv, WellFormed, TypeOK, DocumentType
  <1>5. CreateKnows'
    BY <1>1 DEF BindingInv, SyncInv, CreateKnows, Controllers
  <1>6. DispatchKnows'
    <2>1. CASE c # "dispatch"
      <3>1. sync'["dispatch"] = sync["dispatch"] /\ (Free("dispatch")' <=> Free("dispatch"))
            /\ (Current("dispatch")' <=> Current("dispatch"))
        BY <1>1, <2>1 DEF Controllers
      <3>2. sync["dispatch"].id \in ID \cup {NoID}
        BY DEF BindingInv, WellFormed, TypeOK, Controllers
      <3>3. sync["dispatch"].phase = "dispatched" => ~Free("dispatch")
        BY DEF Free
      <3> QED
        BY <1>3, <3>1, <3>2, <3>3 DEF BindingInv, SyncInv, DispatchKnows
    <2> QED
      BY <2>1
  <1>7. ClearKnows'
    BY <1>1 DEF BindingInv, SyncInv, ClearKnows, Controllers
  <1>8. DeleteKnows'
    BY <1>1 DEF BindingInv, SyncInv, DeleteKnows, Controllers
  <1>9. OneTarget'
    <2>1. CASE c # "create"
      <3>1. \A i \in ID : Live(i)' <=> Live(i)
        BY <1>1, <2>1 DEF Live, Controllers
      <3> QED
        BY <3>1 DEF BindingInv, OneTarget, OnlyTarget
    <2> QED
      BY <2>1
  <1> QED
    BY <1>0, <1>4, <1>5, <1>6, <1>7, <1>8, <1>9 DEF BindingInv, SyncInv

\* A sync that ends without a write keeps the invariant.
LEMMA EndKeeps ==
    ASSUME BindingInv, NEW c \in Controllers, NEW r \in SyncType, sync' = [sync EXCEPT ![c] = r],
           r.phase \in {"idle", "failed"}, r.etag = 0,
           UNCHANGED <<document, cache, posts, object, restarts, assignments>>,
           firstSeen' = firstSeen \/ firstSeen' = "never"
    PROVE  BindingInv'
  <1>1. /\ sync'[c] = r /\ Free(c)'
        /\ \A d \in Controllers \ {c} : sync'[d] = sync[d]
    BY Zenon, SyncChange DEF BindingInv, Free
  <1>2. Fits(c, r)
    BY DEF Fits
  <1>3. c = "create" => OneTarget'
    BY <1>1 DEF BindingInv, OneTarget, OnlyTarget, Live, Controllers
  <1>4. /\ c = "create" => CreateKnows'
        /\ c = "dispatch" => DispatchKnows'
        /\ c = "clear" => ClearKnows'
        /\ c = "delete" => DeleteKnows'
    BY <1>1 DEF CreateKnows, DispatchKnows, ClearKnows, DeleteKnows, Current, Free
  <1> QED
    <2>1. r.etag <= document.etag
          /\ UNCHANGED <<document, cache, posts, object, restarts, assignments>>
      BY DEF BindingInv, WellFormed, TypeOK, DocumentType
    <2> QED
      BY Zenon, <1>1, <1>2, <1>3, <1>4, <2>1, ReadKeeps

\* The same, of a sync that ends as idle.
LEMMA EndsKeeps ==
    ASSUME BindingInv, NEW c \in Controllers, Ends(c),
           UNCHANGED <<document, cache, posts, object, restarts, assignments>>,
           firstSeen' = firstSeen \/ firstSeen' = "never"
    PROVE  BindingInv'
  <1>1. NoSync \in SyncType /\ NoSync.phase = "idle" /\ NoSync.etag = 0
    BY DEF NoSync, SyncType
  <1>2. sync' = [sync EXCEPT ![c] = NoSync]
    BY DEF Ends
  <1> QED
    BY Zenon, <1>1, <1>2, EndKeeps
----------------------------------------------------------------------------
(* Reads: what a sync has just read is true.                                *)

\* The reads of ClusterPendingClusterServiceIDAssign keep the invariant.
LEMMA AssignReads == ASSUME BindingInv, CheckToAssign \/ ReadToAssign PROVE BindingInv'
  <1>1. document.etag \in Nat /\ sync["assign"] \in SyncType /\ sync["assign"].etag <= document.etag
    BY DEF BindingInv, WellFormed, TypeOK, PhaseInv, Controllers, SyncType, DocumentType
  <1>2. PICK r \in SyncType :
           /\ sync' = [sync EXCEPT !["assign"] = r] /\ r.etag <= document.etag
           /\ Fits("assign", r) /\ assignments < MaxAssignments
    <2>1. CASE CheckToAssign
      <3> DEFINE r == [sync["assign"] EXCEPT !.phase = "checked"]
      <3>1. r \in SyncType /\ r.etag = sync["assign"].etag /\ r.phase = "checked"
        BY <1>1 DEF SyncType
      <3> QED
        BY Zenon, <1>1, <2>1, <3>1 DEF CheckToAssign, Fits
    <2>2. CASE ReadToAssign
      <3>1. assignments < MaxAssignments
        BY <2>2 DEF ReadToAssign, BindingInv, WellFormed, PhaseInv, Free
      <3>2. CASE document.stored
        <4> DEFINE r == [phase |-> "read", etag |-> document.etag, id |-> NoID]
        <4>1. r \in SyncType /\ Fits("assign", r)
          BY <1>1 DEF SyncType, Fits
        <4> QED
          BY <1>1, <2>2, <3>1, <3>2, <4>1 DEF ReadToAssign, Reads
      <3>3. CASE ~document.stored
        <4>1. NoSync \in SyncType /\ Fits("assign", NoSync) /\ NoSync.etag = 0
          BY DEF NoSync, SyncType, Fits
        <4> QED
          BY <1>1, <2>2, <3>1, <3>3, <4>1 DEF ReadToAssign, Ends
      <3> QED
        BY <3>2, <3>3
    <2> QED
      BY <2>1, <2>2
  <1>3. UNCHANGED <<document, cache, posts, object, restarts, assignments>> /\ firstSeen' = firstSeen
    BY DEF CheckToAssign, ReadToAssign
  <1> QED
    BY Zenon, <1>2, <1>3, ReadKeeps DEF Controllers

\* So does the live read of the create controllers: the identity they are about
\* to POST is the only one the document may be bound to.
LEMMA CreateReads == ASSUME BindingInv, ReadToCreate PROVE BindingInv'
  <1> DEFINE r == [phase |-> "read", etag |-> document.etag, id |-> ObjectToCreate(document)]
  <1>1. document.etag \in Nat /\ ObjectToCreate(document) \in ID
    BY IDAssumption DEF BindingInv, WellFormed, TypeOK, ReadToCreate, ObjectToCreate, NeedsCreation,
                        DocumentType
  <1>2. sync' = [sync EXCEPT !["create"] = r] /\ r \in SyncType /\ Fits("create", r)
    BY <1>1 DEF ReadToCreate, Reads, SyncType, Fits
  <1>3. /\ UNCHANGED <<document, cache, posts, object, restarts, assignments>> /\ firstSeen' = firstSeen
        /\ Free("create") /\ ~document.deletionTimestamp /\ NeedsCreation(document)
    BY DEF ReadToCreate, NeedsCreation
  <1>4. sync'["create"] = r
    BY <1>2 DEF BindingInv, WellFormed, TypeOK, Controllers
  <1>5. CreateKnows'
    BY <1>3, <1>4 DEF CreateKnows, Current, NeedsCreation
  <1>6. OneTarget'
    <2>1. ASSUME document.kind = "cluster" PROVE r.id = document.pendingID /\ ~document.csDeletionTimestamp
      BY <1>3, <2>1 DEF ObjectToCreate, BindingInv, DocumentInv, WellFormed, TypeOK, DocumentType
    <2>2. document.kind = "cluster" => document.pendingID # NoID
      BY <1>3 DEF NeedsCreation
    <2>3. \A i \in ID : Live(i)' => Live(i) \/ i = r.id
      BY <1>3, <1>4 DEF Live
    <2> QED
      BY <1>3, <2>1, <2>2, <2>3 DEF BindingInv, OneTarget, OnlyTarget
  <1>7. r.etag <= document.etag
    BY <1>1
  <1> HIDE DEF r
  <1> QED
    BY Zenon, <1>2, <1>3, <1>5, <1>6, <1>7, ReadKeeps DEF Controllers

\* So does the search of Cluster Service for an object that is already there.
LEMMA FindReads == ASSUME BindingInv, FindObject PROVE BindingInv'
  <1>1. /\ sync["create"] \in SyncType /\ sync["create"].phase = "read" /\ sync["create"].id \in ID
        /\ sync["create"].etag <= document.etag /\ ~Free("create")
    BY DEF FindObject, BindingInv, WellFormed, TypeOK, PhaseInv, Fits, Controllers, SyncType, Free
  <1>2. UNCHANGED <<document, cache, posts, object, restarts, assignments>> /\ firstSeen' = firstSeen
    BY DEF FindObject
  <1>3. CASE Ends("create")
    BY Zenon, <1>2, <1>3, EndsKeeps DEF Controllers
  <1>4. ASSUME NEW p \in {"absent", "found"}, NEW i \in ID,
               i = sync["create"].id \/ object[i] # "none",
               sync' = [sync EXCEPT !["create"] = [sync["create"] EXCEPT !.phase = p, !.id = i]]
        PROVE  BindingInv'
    <2> DEFINE r == [sync["create"] EXCEPT !.phase = p, !.id = i]
    <2>1. /\ r \in SyncType /\ r.etag = sync["create"].etag /\ r.id = i /\ r.phase = p
          /\ Fits("create", r)
      BY Zenon, <1>1 DEF SyncType, Fits
    <2>2. sync'["create"] = r
      BY <1>4 DEF BindingInv, WellFormed, TypeOK, Controllers
    <2> HIDE DEF r
    <2>3. CreateKnows'
      BY <1>1, <1>2, <2>1, <2>2 DEF BindingInv, SyncInv, CreateKnows, Current, NeedsCreation
    <2>4. \A j \in ID : Live(j)' => Live(j)
      BY <1>1, <1>2, <1>4, <2>1, <2>2 DEF Live
    <2>5. OneTarget'
      BY <1>2, <2>4 DEF BindingInv, OneTarget, OnlyTarget
    <2>6. sync' = [sync EXCEPT !["create"] = r] /\ r.etag <= document.etag
      BY <1>1, <1>4, <2>1 DEF r
    <2> QED
      BY Zenon, <1>1, <1>2, <2>1, <2>3, <2>5, <2>6, ReadKeeps DEF Controllers
  <1>5. \/ Ends("create")
        \/ sync' = [sync EXCEPT !["create"].phase = "absent"]
        \/ \E i \in ID : object[i] # "none"
                         /\ sync' = [sync EXCEPT !["create"].phase = "found", !["create"].id = i]
    BY DEF FindObject, Existing
  <1>6. CASE sync' = [sync EXCEPT !["create"].phase = "absent"]
    <2>1. sync' = [sync EXCEPT !["create"] =
                      [sync["create"] EXCEPT !.phase = "absent", !.id = sync["create"].id]]
      BY Zenon, <1>1, <1>6 DEF SyncType
    <2> QED
      BY Zenon, <1>1, <1>4, <2>1
  <1>7. ASSUME NEW i \in ID, object[i] # "none",
               sync' = [sync EXCEPT !["create"].phase = "found", !["create"].id = i]
        PROVE  BindingInv'
    <2>1. sync' = [sync EXCEPT !["create"] = [sync["create"] EXCEPT !.phase = "found", !.id = i]]
      BY Zenon, <1>7 DEF BindingInv, WellFormed, TypeOK, Controllers
    <2> QED
      BY Zenon, <1>4, <1>7, <2>1
  <1> QED
    BY <1>3, <1>5, <1>6, <1>7

\* A refused POST, or a failed call, ends a sync and changes nothing else.
LEMMA SyncsEnd ==
    ASSUME BindingInv, PostFails \/ \E c \in Controllers : AbandonSync(c) PROVE BindingInv'
  <1>1. CASE PostFails
    <2>1. /\ Ends("create") /\ firstSeen' = firstSeen
          /\ UNCHANGED <<document, cache, posts, object, restarts, assignments>>
      BY <1>1 DEF PostFails
    <2> QED
      BY Zenon, <2>1, EndsKeeps DEF Controllers
  <1>2. ASSUME NEW c \in Controllers, AbandonSync(c) PROVE BindingInv'
    <2> DEFINE r == [NoSync EXCEPT !.phase = "failed"]
    <2>1. r \in SyncType /\ r.phase = "failed" /\ r.etag = 0
      BY DEF NoSync, SyncType
    <2>2. /\ sync' = [sync EXCEPT ![c] = r] /\ r.phase \in {"idle", "failed"}
          /\ UNCHANGED <<document, cache, posts, object, restarts, assignments>> /\ firstSeen' = firstSeen
      BY <1>2, <2>1 DEF AbandonSync
    <2> HIDE DEF r
    <2> QED
      BY Zenon, <2>1, <2>2, EndKeeps
  <1> QED
    BY <1>1, <1>2

\* The live read of the delete dispatch keeps the invariant: what it is going to
\* do (recover, DELETE or give up) fits the document it read.
LEMMA DispatchReads == ASSUME BindingInv, ReadToDispatch PROVE BindingInv'
  <1>1. /\ NeedsDispatch(document) /\ document.etag \in Nat
        /\ document.pendingID \in ID \cup {NoID} /\ document.clusterServiceID \in ID \cup {NoID}
        /\ UNCHANGED <<document, cache, posts, object, restarts, assignments>>
        /\ \/ firstSeen' = firstSeen
           \/ firstSeen = "never" /\ firstSeen' = "seen" /\ document.deletionTimestamp
    BY DEF ReadToDispatch, BindingInv, WellFormed, TypeOK, DocumentType, NeedsDispatch
  <1>2. ASSUME NEW r \in SyncType, sync' = [sync EXCEPT !["dispatch"] = r], Fits("dispatch", r),
               r.etag <= document.etag,
               \/ r.phase = "idle"
               \/ r.phase = "recover" /\ document.clusterServiceID = NoID /\ document.pendingID = r.id
               \/ r.phase = "read" /\ document.clusterServiceID = r.id
               \/ /\ r.phase = "dispatched" /\ r.id = NoID
                  /\ document.clusterServiceID = NoID /\ document.pendingID = NoID
        PROVE  BindingInv'
    <2>1. sync'["dispatch"] = r
      BY <1>2 DEF BindingInv, WellFormed, TypeOK, Controllers
    <2>2. DispatchKnows'
      BY <1>1, <1>2, <2>1 DEF DispatchKnows, Current, Free, NeedsDispatch
    <2> QED
      BY Zenon, <1>1, <1>2, <2>2, ReadKeeps DEF Controllers
  <1>3. CASE Ends("dispatch")
    <2>1. /\ NoSync \in SyncType /\ NoSync.phase = "idle" /\ Fits("dispatch", NoSync)
          /\ NoSync.etag <= document.etag
      BY <1>1 DEF NoSync, SyncType, Fits
    <2> QED
      BY Zenon, <1>2, <1>3, <2>1 DEF Ends
  <1>4. ASSUME NEW p \in {"recover", "read", "dispatched"}, NEW i \in ID \cup {NoID},
               Reads("dispatch", p, i), p # "dispatched" => i \in ID,
               \/ p = "recover" /\ document.clusterServiceID = NoID /\ document.pendingID = i
               \/ p = "read" /\ document.clusterServiceID = i
               \/ /\ p = "dispatched" /\ i = NoID
                  /\ document.clusterServiceID = NoID /\ document.pendingID = NoID
        PROVE  BindingInv'
    <2> DEFINE r == [phase |-> p, etag |-> document.etag, id |-> i]
    <2>1. r \in SyncType /\ Fits("dispatch", r) /\ r.etag <= document.etag /\ r.phase = p /\ r.id = i
      BY <1>1, <1>4 DEF SyncType, Fits
    <2>2. sync' = [sync EXCEPT !["dispatch"] = r]
      BY <1>4 DEF Reads
    <2> HIDE DEF r
    <2> QED
      BY Zenon, <1>2, <1>4, <2>1, <2>2
  <1>5. CASE recoverPendingDeletionTarget(document)
    <2>1. Reads("dispatch", "recover", document.pendingID)
      BY <1>5 DEF ReadToDispatch, recoverPendingDeletionTarget
    <2> QED
      BY <1>1, <1>4, <1>5, <2>1 DEF recoverPendingDeletionTarget
  <1>6. CASE ~recoverPendingDeletionTarget(document) /\ document.clusterServiceID # NoID
    <2>1. Reads("dispatch", "read", document.clusterServiceID)
      BY <1>6 DEF ReadToDispatch
    <2> QED
      BY <1>1, <1>4, <1>6, <2>1
  <1>7. CASE ~recoverPendingDeletionTarget(document) /\ document.clusterServiceID = NoID
    <2>1. Reads("dispatch", "dispatched", NoID) \/ Ends("dispatch")
      BY <1>7 DEF ReadToDispatch
    <2> QED
      BY <1>1, <1>3, <1>4, <1>7, <2>1 DEF recoverPendingDeletionTarget
  <1> QED
    BY <1>5, <1>6, <1>7

\* So do the live read of the ID clearers and the 404 they wait for.
LEMMA ClearReads == ASSUME BindingInv, ReadToClear \/ CheckGone PROVE BindingInv'
  <1>1. /\ UNCHANGED <<document, cache, posts, object, restarts, assignments>> /\ firstSeen' = firstSeen
    BY DEF ReadToClear, CheckGone
  <1>2. document.etag \in Nat /\ document.clusterServiceID \in ID \cup {NoID}
    BY DEF BindingInv, WellFormed, TypeOK, DocumentType
  <1>3. CASE ReadToClear
    <2> DEFINE r == [phase |-> "read", etag |-> document.etag, id |-> document.clusterServiceID]
    <2>1. r \in SyncType /\ Fits("clear", r) /\ r.etag <= document.etag /\ r.phase = "read"
          /\ r.id = document.clusterServiceID /\ NeedsClearing(document)
          /\ sync' = [sync EXCEPT !["clear"] = r]
      BY <1>2, <1>3 DEF SyncType, Fits, ReadToClear, NeedsClearing, Reads
    <2>2. sync'["clear"] = r
      BY <2>1 DEF BindingInv, WellFormed, TypeOK, Controllers
    <2> HIDE DEF r
    <2>3. ClearKnows'
      BY <1>1, <2>1, <2>2 DEF ClearKnows, Current, NeedsClearing
    <2> QED
      BY Zenon, <1>1, <2>1, <2>3, ReadKeeps DEF Controllers
  <1>4. CASE CheckGone /\ NotFound(sync["clear"].id)
    <2> DEFINE r == [sync["clear"] EXCEPT !.phase = "gone"]
    <2>1. sync["clear"] \in SyncType /\ sync["clear"].phase = "read" /\ sync["clear"].id \in ID
          /\ sync["clear"].etag <= document.etag /\ ~Free("clear")
      BY <1>4 DEF CheckGone, BindingInv, WellFormed, TypeOK, PhaseInv, Fits, Controllers, SyncType, Free
    <2>2. r \in SyncType /\ Fits("clear", r) /\ r.etag = sync["clear"].etag /\ r.id = sync["clear"].id
          /\ r.phase = "gone"
      BY <2>1 DEF SyncType, Fits
    <2>3. sync' = [sync EXCEPT !["clear"] = r] /\ r.etag <= document.etag
      BY <1>4, <2>1 DEF CheckGone
    <2>4. sync'["clear"] = r
      BY <2>3 DEF BindingInv, WellFormed, TypeOK, Controllers
    <2> HIDE DEF r
    <2>5. ClearKnows'
      BY <1>1, <1>4, <2>1, <2>2, <2>4 DEF BindingInv, SyncInv, ClearKnows, Current, NeedsClearing, NotFound
    <2> QED
      BY Zenon, <1>1, <2>2, <2>3, <2>5, ReadKeeps DEF Controllers
  <1>5. CASE CheckGone /\ ~NotFound(sync["clear"].id)
    <2>1. Ends("clear")
      BY <1>5 DEF CheckGone
    <2> QED
      BY Zenon, <1>1, <2>1, EndsKeeps DEF Controllers
  <1> QED
    BY <1>3, <1>4, <1>5

\* So does the live read of the deletion controllers.
LEMMA DeleteReads == ASSUME BindingInv, ReadToDelete PROVE BindingInv'
  <1> DEFINE r == [phase |-> "read", etag |-> document.etag, id |-> NoID]
  <1>1. document.etag \in Nat
    BY DEF BindingInv, WellFormed, TypeOK, DocumentType
  <1>2. /\ r \in SyncType /\ Fits("delete", r) /\ r.etag <= document.etag
        /\ sync' = [sync EXCEPT !["delete"] = r]
        /\ UNCHANGED <<document, cache, posts, object, restarts, assignments>> /\ firstSeen' = firstSeen
    BY <1>1 DEF SyncType, Fits, ReadToDelete, Reads
  <1>3. DeleteKnows'
    BY <1>2 DEF ReadToDelete, DeleteKnows, NeedsRemoval
  <1> HIDE DEF r
  <1> QED
    BY Zenon, <1>2, <1>3, ReadKeeps DEF Controllers
----------------------------------------------------------------------------
(* Writes: one that is carried out makes every other sync's copy stale.     *)

\* A write that is carried out leaves no sync with the current etag, so that the
\* other controllers' writes are refused until they read again.
LEMMA WriteKeeps ==
    ASSUME BindingInv, NEW c \in Controllers, NEW r \in SyncType, sync' = [sync EXCEPT ![c] = r],
           r = NoSync \/ r = sync[c],
           document.stored, document' \in DocumentType, document'.etag = document.etag + 1,
           document'.stored, document.deletionTimestamp => document'.deletionTimestamp,
           document'.csDeletionTimestamp => document'.deletionTimestamp,
           document'.csDeletionTimestamp /\ document'.clusterServiceID # NoID
              => Doomed(document'.clusterServiceID),
           NeedsRemoval(document) => NeedsRemoval(document'),
           UNCHANGED <<cache, posts, object, restarts>>,
           \/ UNCHANGED assignments
           \/ c = "assign" /\ r.phase = "idle" /\ assignments' \in 0..MaxAssignments,
           firstSeen' = firstSeen \/ firstSeen' = "never",
           (\A i \in ID : Live(i)' => Live(i)) => OneTarget'
    PROVE  BindingInv'
  <1>1. /\ sync'[c] = r
        /\ \A d \in Controllers \ {c} : sync'[d] = sync[d]
    BY Zenon, SyncChange DEF BindingInv
  <1>2. \A d \in Controllers : (Free(d) => Free(d)') /\ (sync'[d] = sync[d] \/ Free(d)')
    BY <1>1 DEF Free, NoSync
  <1>3. document.etag \in Nat /\ sync[c] \in SyncType /\ Fits(c, sync[c]) /\ sync[c].etag <= document.etag
    BY DEF BindingInv, WellFormed, TypeOK, PhaseInv, DocumentType, SyncType
  <1>4. WellFormed'
    <2>1. Fits(c, r) /\ r.etag <= document.etag
      BY <1>3 DEF Fits, NoSync
    <2>2. c = "assign" /\ r.phase \notin {"idle", "failed"} => assignments < MaxAssignments
      BY DEF BindingInv, WellFormed, PhaseInv, Free, NoSync
    <2>3. r.etag \in Nat
      BY DEF SyncType
    <2>4. /\ cache' \in DocumentType
          /\ document.etag <= document'.etag /\ r.etag <= document'.etag
          /\ firstSeen' \in {"never", "seen", "elapsed"} /\ posts' \subseteq ID
          /\ object' \in [ID -> {"none", "live", "deleting"}]
          /\ UNCHANGED restarts
      BY <1>3, <2>1, <2>3 DEF BindingInv, WellFormed, TypeOK, DocumentType
    <2> QED
      BY Zenon, <2>1, <2>2, <2>4, SyncWellFormed DEF BindingInv
  <1>5. \A d \in Controllers : ~Current(d)'
    <2>1. ASSUME NEW d \in Controllers PROVE Free(d)' \/ sync'[d].etag < document'.etag
      BY <1>2, <1>3 DEF BindingInv, WellFormed, TypeOK, PhaseInv
    <2>2. \A d \in Controllers : sync'[d].etag \in Nat
      BY <1>4 DEF WellFormed, TypeOK
    <2> QED
      BY <1>3, <2>1, <2>2 DEF Current
  <1>6. CreateSettled => CreateSettled'
    BY <1>2 DEF CreateSettled, Controllers
  <1>7. \A i \in ID : Doomed(i) => Doomed(i)'
    BY <1>6 DEF Doomed
  <1>8. DocumentInv'
    BY <1>6, <1>7 DEF BindingInv, DocumentInv, DocumentType
  <1>9. CreateKnows' /\ ClearKnows'
    BY <1>5 DEF CreateKnows, ClearKnows, Controllers
  <1>10. DispatchKnows'
    <2>1. ~Free("dispatch")' => document'.deletionTimestamp
      BY <1>2 DEF BindingInv, SyncInv, DispatchKnows, Controllers
    <2>2. sync'["dispatch"].phase = "dispatched" =>
             sync'["dispatch"] = sync["dispatch"] /\ sync["dispatch"].id \in ID \cup {NoID}
      BY <1>2 DEF Free, Controllers, BindingInv, WellFormed, TypeOK
    <2>3. (sync["dispatch"].phase = "dispatched" /\ sync["dispatch"].id # NoID
             => Doomed(sync["dispatch"].id))'
      BY <1>7, <2>2 DEF BindingInv, SyncInv, DispatchKnows
    <2>4. ~Current("dispatch")'
      BY <1>5 DEF Controllers
    <2> QED
      BY <2>1, <2>3, <2>4 DEF DispatchKnows
  <1>11. DeleteKnows'
    BY <1>2 DEF BindingInv, SyncInv, DeleteKnows, Controllers
  <1>12. \A i \in ID : Live(i)' => Live(i)
    BY <1>2 DEF Live, Controllers
  <1> QED
    BY <1>4, <1>8, <1>9, <1>10, <1>11, <1>12 DEF BindingInv, SyncInv

\* A first identity is assigned before there is anything in Cluster Service; a
\* second one leaves the promise about a single target void.
LEMMA AssignWrites == ASSUME BindingInv, AssignPendingID PROVE BindingInv'
  <1>1. PICK i \in ID : Replaces("assign", [document EXCEPT !.pendingID = i])
    BY DEF AssignPendingID
  <1> DEFINE new == [document EXCEPT !.pendingID = i]
  <1>2. /\ new \in DocumentType /\ new.pendingID = i
        /\ new.kind = document.kind /\ new.stored = document.stored /\ new.etag = document.etag
        /\ new.deletionTimestamp = document.deletionTimestamp
        /\ new.csDeletionTimestamp = document.csDeletionTimestamp
        /\ new.clusterServiceID = document.clusterServiceID
    BY Zenon, WrittenDocuments DEF BindingInv, WellFormed, TypeOK, DocumentType
  <1>3. Replaces("assign", new)
    BY <1>1
  <1> HIDE DEF new
  <1>4. /\ sync' = [sync EXCEPT !["assign"] = NoSync]
        /\ \/ document' = document
           \/ /\ document.stored
              /\ document' \in DocumentType /\ document'.etag = new.etag + 1
              /\ document'.kind = new.kind /\ document'.stored = new.stored
              /\ document'.deletionTimestamp = new.deletionTimestamp
              /\ document'.csDeletionTimestamp = new.csDeletionTimestamp
              /\ document'.pendingID = new.pendingID
              /\ document'.clusterServiceID = new.clusterServiceID
    BY <1>2, <1>3, ReplaceResult DEF BindingInv, Controllers
  <1>5. UNCHANGED <<cache, posts, object, restarts>> /\ firstSeen' = firstSeen
    BY DEF AssignPendingID
  <1>6. document.etag \in Nat /\ assignments \in 0..MaxAssignments /\ assignments < MaxAssignments
    BY DEF BindingInv, WellFormed, TypeOK, PhaseInv, Free, AssignPendingID, DocumentType
  <1>7. CASE document' = document
    <2>1. UNCHANGED <<document, cache, posts, object, restarts, assignments>> /\ Ends("assign")
      BY <1>4, <1>5, <1>7 DEF AssignPendingID, Ends
    <2> QED
      BY Zenon, <1>5, <2>1, EndsKeeps DEF Controllers
  <1>8. CASE document' # document
    <2>1. assignments' = assignments + 1 /\ assignments' \in 0..MaxAssignments
      BY <1>6, <1>8, BoundAssumption DEF AssignPendingID
    <2>2. /\ NoSync \in SyncType /\ NoSync.phase = "idle"
      BY DEF NoSync, SyncType
    <2>3. ASSUME \A j \in ID : Live(j)' => Live(j) PROVE OneTarget'
      <3>1. CASE assignments = 0
        BY <1>2, <1>4, <1>6, <1>8, <2>1, <2>3, <3>1, IDAssumption DEF BindingInv, OneTarget, OnlyTarget
      <3>2. CASE assignments # 0
        BY <1>6, <2>1, <3>2 DEF OneTarget, OnlyTarget
      <3> QED
        BY <3>1, <3>2
    <2>4. /\ document.stored /\ document' \in DocumentType /\ document'.etag = document.etag + 1
          /\ document'.stored /\ (document.deletionTimestamp => document'.deletionTimestamp)
          /\ (document'.csDeletionTimestamp => document'.deletionTimestamp)
          /\ (document'.csDeletionTimestamp /\ document'.clusterServiceID # NoID
                => Doomed(document'.clusterServiceID))
          /\ (NeedsRemoval(document) => NeedsRemoval(document'))
      BY <1>2, <1>4, <1>8 DEF BindingInv, DocumentInv, NeedsRemoval
    <2> QED
      BY Zenon, <1>4, <1>5, <2>1, <2>2, <2>3, <2>4, WriteKeeps DEF Controllers
  <1> QED
    BY <1>7, <1>8

\* A controller's write keeps the invariant when the document it is based on,
\* were it current, allows the new one.
LEMMA ControllerWrites ==
    ASSUME BindingInv, NEW c \in Controllers, NEW new \in DocumentType, Replaces(c, new), ~Free(c),
           new.kind = document.kind, new.stored = document.stored, new.etag = document.etag,
           new.deletionTimestamp = document.deletionTimestamp,
           UNCHANGED <<cache, posts, object, restarts, assignments>>,
           firstSeen' = firstSeen \/ firstSeen' = "never",
           Current(c) =>
              /\ new.csDeletionTimestamp => document.deletionTimestamp
              /\ new.csDeletionTimestamp /\ new.clusterServiceID # NoID => Doomed(new.clusterServiceID)
              /\ NeedsRemoval(document) => NeedsRemoval(new)
              /\ OnlyTarget(new)
    PROVE  BindingInv'
  <1>1. /\ sync' = [sync EXCEPT ![c] = NoSync]
        /\ \/ document' = document
           \/ /\ document.stored /\ sync[c].etag = document.etag
              /\ document' \in DocumentType /\ document'.etag = new.etag + 1
              /\ document'.kind = new.kind /\ document'.stored = new.stored
              /\ document'.deletionTimestamp = new.deletionTimestamp
              /\ document'.csDeletionTimestamp = new.csDeletionTimestamp
              /\ document'.pendingID = new.pendingID
              /\ document'.clusterServiceID = new.clusterServiceID
    BY ReplaceResult DEF BindingInv
  <1>2. document.etag \in Nat
    BY DEF BindingInv, WellFormed, TypeOK, DocumentType
  <1>3. CASE document' = document
    <2>1. UNCHANGED <<document, cache, posts, object, restarts, assignments>> /\ Ends(c)
      BY <1>1, <1>3 DEF Ends
    <2>2. NoSync \in SyncType /\ NoSync.phase = "idle" /\ NoSync.etag = 0
      BY DEF NoSync, SyncType
    <2> QED
      BY Zenon, <1>1, <2>1, <2>2, EndKeeps
  <1>4. CASE document' # document
    <2>1. NoSync \in SyncType
      BY DEF NoSync, SyncType
    <2>2. Current(c)
      BY <1>1, <1>4 DEF Current
    <2>3. ASSUME \A j \in ID : Live(j)' => Live(j) PROVE OneTarget'
      BY <1>1, <1>4, <2>2, <2>3 DEF OneTarget, OnlyTarget
    <2>4. /\ document.stored /\ document' \in DocumentType /\ document'.etag = document.etag + 1
          /\ document'.stored /\ (document.deletionTimestamp => document'.deletionTimestamp)
          /\ (document'.csDeletionTimestamp => document'.deletionTimestamp)
          /\ (document'.csDeletionTimestamp /\ document'.clusterServiceID # NoID
                => Doomed(document'.clusterServiceID))
          /\ (NeedsRemoval(document) => NeedsRemoval(document'))
          /\ UNCHANGED <<cache, posts, object, restarts>> /\ UNCHANGED assignments
      BY <1>1, <1>4, <2>2 DEF NeedsRemoval
    <2> QED
      BY Zenon, <1>1, <2>1, <2>3, <2>4, WriteKeeps
  <1> QED
    BY <1>3, <1>4

\* The create controllers record the identity they found or created.
LEMMA RecordWrites == ASSUME BindingInv, RecordClusterServiceID PROVE BindingInv'
  <1> DEFINE new == [document EXCEPT !.pendingID = NoID, !.clusterServiceID = sync["create"].id]
  <1>1. sync["create"].id \in ID /\ sync["create"].phase = "found" /\ ~Free("create")
    BY DEF RecordClusterServiceID, BindingInv, WellFormed, TypeOK, Free
  <1>2. /\ new \in DocumentType /\ new.pendingID = NoID /\ new.clusterServiceID = sync["create"].id
        /\ new.kind = document.kind /\ new.stored = document.stored /\ new.etag = document.etag
        /\ new.deletionTimestamp = document.deletionTimestamp
        /\ new.csDeletionTimestamp = document.csDeletionTimestamp
    BY Zenon, <1>1, WrittenDocuments DEF BindingInv, WellFormed, TypeOK, DocumentType
  <1>3. /\ Replaces("create", new) /\ UNCHANGED <<cache, posts, object, restarts, assignments>>
        /\ firstSeen' = firstSeen
    BY DEF RecordClusterServiceID
  <1> HIDE DEF new
  <1>4. ASSUME Current("create")
        PROVE  /\ new.csDeletionTimestamp => document.deletionTimestamp
               /\ new.csDeletionTimestamp /\ new.clusterServiceID # NoID => Doomed(new.clusterServiceID)
               /\ NeedsRemoval(document) => NeedsRemoval(new)
               /\ OnlyTarget(new)
    <2>1. NeedsCreation(document)
      BY <1>4 DEF BindingInv, SyncInv, CreateKnows
    <2>2. ~document.csDeletionTimestamp /\ ~document.deletionTimestamp /\ document.clusterServiceID = NoID
      BY <2>1 DEF BindingInv, DocumentInv, NeedsCreation
    <2>3. Live(sync["create"].id)
      BY <1>1 DEF Live
    <2>4. OnlyTarget(new)
      BY <1>1, <1>2, <2>2, <2>3, IDAssumption DEF BindingInv, OneTarget, OnlyTarget
    <2> QED
      BY <1>2, <2>2, <2>4 DEF NeedsRemoval
  <1> QED
    BY Zenon, <1>1, <1>2, <1>3, <1>4, ControllerWrites DEF Controllers

\* The delete dispatch turns the pending identity into the recorded one.
LEMMA RecoverWrites == ASSUME BindingInv, RecoverTarget PROVE BindingInv'
  <1> DEFINE new == [document EXCEPT !.pendingID = NoID, !.clusterServiceID = sync["dispatch"].id]
  <1>1. sync["dispatch"].id \in ID /\ sync["dispatch"].phase = "recover" /\ ~Free("dispatch")
    BY DEF RecoverTarget, BindingInv, WellFormed, TypeOK, Free
  <1>2. /\ new \in DocumentType /\ new.pendingID = NoID /\ new.clusterServiceID = sync["dispatch"].id
        /\ new.kind = document.kind /\ new.stored = document.stored /\ new.etag = document.etag
        /\ new.deletionTimestamp = document.deletionTimestamp
        /\ new.csDeletionTimestamp = document.csDeletionTimestamp
    BY Zenon, <1>1, WrittenDocuments DEF BindingInv, WellFormed, TypeOK, DocumentType
  <1>3. /\ Replaces("dispatch", new) /\ UNCHANGED <<cache, posts, object, restarts, assignments>>
        /\ firstSeen' = firstSeen
    BY DEF RecoverTarget
  <1> HIDE DEF new
  <1>4. ASSUME Current("dispatch")
        PROVE  /\ new.csDeletionTimestamp => document.deletionTimestamp
               /\ new.csDeletionTimestamp /\ new.clusterServiceID # NoID => Doomed(new.clusterServiceID)
               /\ NeedsRemoval(document) => NeedsRemoval(new)
               /\ OnlyTarget(new)
    <2>1. /\ ~document.csDeletionTimestamp /\ document.clusterServiceID = NoID
          /\ document.pendingID = sync["dispatch"].id
      BY <1>1, <1>4 DEF BindingInv, SyncInv, DispatchKnows, NeedsDispatch
    <2>2. OnlyTarget(new)
      BY <1>1, <1>2, <2>1, IDAssumption DEF BindingInv, OneTarget, OnlyTarget
    <2> QED
      BY <1>2, <2>1, <2>2 DEF NeedsRemoval
  <1> QED
    BY Zenon, <1>1, <1>2, <1>3, <1>4, ControllerWrites DEF Controllers

\* The delete dispatch stamps ClusterServiceDeletionTimestamp once the recorded
\* object is on its way out, or there is nothing recorded nor pending.
LEMMA StampWrites == ASSUME BindingInv, StampDispatched PROVE BindingInv'
  <1> DEFINE new == [document EXCEPT !.csDeletionTimestamp = TRUE]
  <1>1. sync["dispatch"].phase = "dispatched" /\ ~Free("dispatch")
    BY DEF StampDispatched, Free
  <1>2. /\ new \in DocumentType /\ new.csDeletionTimestamp
        /\ new.kind = document.kind /\ new.stored = document.stored /\ new.etag = document.etag
        /\ new.deletionTimestamp = document.deletionTimestamp
        /\ new.clusterServiceID = document.clusterServiceID /\ new.pendingID = document.pendingID
    BY Zenon, WrittenDocuments DEF BindingInv, WellFormed, TypeOK, DocumentType
  <1>3. /\ Replaces("dispatch", new) /\ UNCHANGED <<cache, posts, object, restarts, assignments>>
        /\ firstSeen' = firstSeen \/ firstSeen' = "never"
    BY DEF StampDispatched
  <1> HIDE DEF new
  <1>4. ASSUME Current("dispatch")
        PROVE  /\ new.csDeletionTimestamp => document.deletionTimestamp
               /\ new.csDeletionTimestamp /\ new.clusterServiceID # NoID => Doomed(new.clusterServiceID)
               /\ NeedsRemoval(document) => NeedsRemoval(new)
               /\ OnlyTarget(new)
    <2>1. /\ ~document.csDeletionTimestamp /\ document.deletionTimestamp
          /\ document.clusterServiceID = NoID => document.pendingID = NoID
          /\ document.clusterServiceID # NoID => Doomed(document.clusterServiceID)
      BY <1>1, <1>4 DEF BindingInv, SyncInv, DispatchKnows, NeedsDispatch
    <2>2. OnlyTarget(new)
      BY <1>1, <1>2, <2>1, IDAssumption DEF BindingInv, OneTarget, OnlyTarget
    <2> QED
      BY <1>2, <2>1, <2>2 DEF NeedsRemoval
  <1> QED
    BY Zenon, <1>1, <1>2, <1>3, <1>4, ControllerWrites DEF Controllers

\* The ID clearers drop the recorded identity of an object that is gone for good.
LEMMA ClearWrites == ASSUME BindingInv, ClearClusterServiceID PROVE BindingInv'
  <1> DEFINE new == [document EXCEPT !.clusterServiceID = NoID]
  <1>1. sync["clear"].phase = "gone" /\ ~Free("clear")
    BY DEF ClearClusterServiceID, Free
  <1>2. /\ new \in DocumentType /\ new.clusterServiceID = NoID
        /\ new.kind = document.kind /\ new.stored = document.stored /\ new.etag = document.etag
        /\ new.deletionTimestamp = document.deletionTimestamp
        /\ new.csDeletionTimestamp = document.csDeletionTimestamp /\ new.pendingID = document.pendingID
    BY Zenon, WrittenDocuments DEF BindingInv, WellFormed, TypeOK, DocumentType
  <1>3. /\ Replaces("clear", new) /\ UNCHANGED <<cache, posts, object, restarts, assignments>>
        /\ firstSeen' = firstSeen
    BY DEF ClearClusterServiceID
  <1> HIDE DEF new
  <1>4. ASSUME Current("clear")
        PROVE  /\ new.csDeletionTimestamp => document.deletionTimestamp
               /\ new.csDeletionTimestamp /\ new.clusterServiceID # NoID => Doomed(new.clusterServiceID)
               /\ NeedsRemoval(document) => NeedsRemoval(new)
               /\ OnlyTarget(new)
    <2>1. /\ NeedsClearing(document)
          /\ TimeoutOutlivesCreate => object[document.clusterServiceID] = "none"
      BY <1>1, <1>4 DEF BindingInv, SyncInv, ClearKnows
    <2>2. document.csDeletionTimestamp /\ document.deletionTimestamp
      BY <2>1 DEF NeedsClearing
    <2>3. TimeoutOutlivesCreate => posts = {} /\ Free("create")
      BY <2>1 DEF BindingInv, DocumentInv, NeedsClearing, Doomed, CreateSettled
    <2>4. TimeoutOutlivesCreate => ~Live(document.clusterServiceID)
      BY <2>1, <2>3 DEF Live
    <2>5. OnlyTarget(new)
      BY <1>2, <2>2, <2>4, IDAssumption DEF BindingInv, OneTarget, OnlyTarget
    <2> QED
      BY <1>2, <2>2, <2>5 DEF NeedsRemoval
  <1> QED
    BY Zenon, <1>1, <1>2, <1>3, <1>4, ControllerWrites DEF Controllers

\* The frontend's DELETE and any other writer of the document.
LEMMA OtherWrites == ASSUME BindingInv, RequestDeletion \/ TouchDocument PROVE BindingInv'
  <1> DEFINE r == sync["delete"]
  <1>1. /\ r \in SyncType /\ sync' = [sync EXCEPT !["delete"] = r]
        /\ document.etag \in Nat /\ document \in DocumentType
    BY DEF BindingInv, WellFormed, TypeOK, SyncType, Controllers, RequestDeletion, TouchDocument, DocumentType
  <1>2. /\ document.stored /\ document' \in DocumentType /\ document'.etag = document.etag + 1
        /\ document'.stored /\ (document.deletionTimestamp => document'.deletionTimestamp)
        /\ document'.csDeletionTimestamp = document.csDeletionTimestamp
        /\ document'.clusterServiceID = document.clusterServiceID
        /\ document'.pendingID = document.pendingID /\ document'.kind = document.kind
    <2>1. /\ [document EXCEPT !.deletionTimestamp = TRUE, !.etag = @ + 1] \in DocumentType
          /\ [document EXCEPT !.etag = @ + 1] \in DocumentType
      BY Zenon, WrittenDocuments DEF BindingInv
    <2>2. CASE RequestDeletion
      BY <1>1, <2>1, <2>2 DEF RequestDeletion, DocumentType
    <2>3. CASE TouchDocument
      BY <1>1, <2>1, <2>3 DEF TouchDocument, DocumentType
    <2> QED
      BY <2>2, <2>3
  <1>3. /\ (document'.csDeletionTimestamp => document'.deletionTimestamp)
        /\ (document'.csDeletionTimestamp /\ document'.clusterServiceID # NoID
              => Doomed(document'.clusterServiceID))
        /\ (NeedsRemoval(document) => NeedsRemoval(document'))
    BY <1>2 DEF BindingInv, DocumentInv, NeedsRemoval
  <1>4. /\ UNCHANGED <<cache, posts, object, restarts>> /\ UNCHANGED assignments
        /\ firstSeen' = firstSeen
    BY DEF RequestDeletion, TouchDocument
  <1>5. (\A i \in ID : Live(i)' => Live(i)) => OneTarget'
    BY <1>2, <1>4 DEF BindingInv, OneTarget, OnlyTarget
  <1> QED
    BY Zenon, <1>1, <1>2, <1>3, <1>4, <1>5, WriteKeeps DEF Controllers

\* The deletion controllers delete by name, without an etag: what they read is
\* still true, for no controller binds a document that is stamped and cleared.
LEMMA DocumentGoes == ASSUME BindingInv, DeleteDocument PROVE BindingInv'
  <1>1. /\ document' \in DocumentType /\ document'.etag = document.etag /\ ~document'.stored
        /\ document'.deletionTimestamp = document.deletionTimestamp
        /\ document'.csDeletionTimestamp = document.csDeletionTimestamp
        /\ document'.clusterServiceID = document.clusterServiceID
        /\ document'.pendingID = document.pendingID /\ document'.kind = document.kind
    BY Zenon, WrittenDocuments DEF BindingInv, WellFormed, TypeOK, DeleteDocument, DocumentType
  <1>2. document.csDeletionTimestamp /\ document.clusterServiceID = NoID
    BY DEF BindingInv, SyncInv, DeleteKnows, DocumentInv, NeedsRemoval, DeleteDocument, Free
  <1>3. /\ NoSync \in SyncType /\ sync' = [sync EXCEPT !["delete"] = NoSync]
        /\ Fits("delete", NoSync) /\ NoSync.etag = 0
        /\ UNCHANGED <<cache, firstSeen, posts, object, restarts, assignments>>
    BY DEF NoSync, SyncType, Fits, DeleteDocument, Ends
  <1>4. \A d \in Controllers : (Free(d) => Free(d)') /\ (sync'[d] = sync[d] \/ Free(d)')
    BY <1>3, SyncChange DEF BindingInv, Controllers, Free, NoSync
  <1>5. WellFormed'
    <2>1. /\ cache' \in DocumentType
          /\ document.etag <= document'.etag /\ NoSync.etag <= document'.etag
          /\ firstSeen' \in {"never", "seen", "elapsed"} /\ posts' \subseteq ID
          /\ object' \in [ID -> {"none", "live", "deleting"}]
          /\ UNCHANGED restarts /\ UNCHANGED assignments
      BY <1>1, <1>3 DEF BindingInv, WellFormed, TypeOK, DocumentType
    <2> QED
      BY Zenon, <1>1, <1>3, <2>1, SyncWellFormed DEF BindingInv, Controllers
  <1>6. \A d \in Controllers : ~Current(d)'
    BY <1>1 DEF Current
  <1>7. CreateSettled => CreateSettled'
    BY <1>3, <1>4 DEF CreateSettled, Controllers
  <1>8. \A i \in ID : Doomed(i) => Doomed(i)'
    BY <1>3, <1>7 DEF Doomed
  <1>9. DocumentInv'
    BY <1>1, <1>2, <1>3, <1>7 DEF BindingInv, DocumentInv
  <1>10. DispatchKnows'
    <2>1. sync'["dispatch"] = sync["dispatch"] /\ sync["dispatch"].id \in ID \cup {NoID}
      BY <1>3, SyncChange DEF BindingInv, WellFormed, TypeOK, Controllers
    <2> QED
      BY <1>1, <1>6, <1>8, <2>1 DEF BindingInv, SyncInv, DispatchKnows, Controllers, Free
  <1>11. SyncInv'
    BY <1>1, <1>6, <1>10 DEF SyncInv, CreateKnows, ClearKnows, DeleteKnows, Controllers
  <1>12. \A i \in ID : Live(i)' => Live(i)
    BY <1>3, <1>4 DEF Live, Controllers
  <1>13. OneTarget'
    BY <1>1, <1>3, <1>12 DEF BindingInv, OneTarget, OnlyTarget
  <1> QED
    BY <1>5, <1>9, <1>11, <1>13 DEF BindingInv

----------------------------------------------------------------------------
(* Cluster Service: objects come and go.                                    *)

\* A step that leaves the document alone, and the syncs but for a phase of one.
LEMMA ServiceKeeps ==
    ASSUME BindingInv, NEW c \in Controllers, NEW r \in SyncType, sync' = [sync EXCEPT ![c] = r],
           r.etag = sync[c].etag, Fits(c, r), c \in {"create", "dispatch"},
           r.phase \in {"idle", "failed"} <=> Free(c),
           UNCHANGED <<document, cache, firstSeen, restarts, assignments>>,
           posts' \subseteq ID, object' \in [ID -> {"none", "live", "deleting"}],
           firstSeen = "elapsed" => (CreateSettled => CreateSettled'),
           \A i \in ID : Doomed(i) => Doomed(i)',
           \A i \in ID : Live(i)' => Live(i),
           TimeoutOutlivesCreate /\ Current("clear") /\ sync["clear"].phase = "gone"
              => object'[sync["clear"].id] = "none",
           c = "dispatch" => DispatchKnows'
    PROVE  BindingInv'
  <1>1. /\ sync'[c] = r
        /\ \A d \in Controllers \ {c} : sync'[d] = sync[d]
    BY Zenon, SyncChange DEF BindingInv
  <1>2. \A d \in Controllers : (Free(d)' <=> Free(d)) /\ (Current(d)' <=> Current(d))
    BY <1>1 DEF Free, Current
  <1>3. WellFormed'
    <2>1. /\ document' \in DocumentType /\ cache' \in DocumentType
          /\ document.etag <= document'.etag /\ r.etag <= document'.etag
          /\ firstSeen' \in {"never", "seen", "elapsed"}
          /\ UNCHANGED restarts /\ UNCHANGED assignments
          /\ (c = "assign" /\ r.phase \notin {"idle", "failed"} => assignments < MaxAssignments)
      BY DEF BindingInv, WellFormed, TypeOK, DocumentType, PhaseInv
    <2> QED
      BY Zenon, <2>1, SyncWellFormed DEF BindingInv
  <1>4. DocumentInv'
    BY DEF BindingInv, DocumentInv, WellFormed, TypeOK, DocumentType
  <1>5. CreateKnows' /\ DeleteKnows'
    BY <1>2 DEF BindingInv, SyncInv, CreateKnows, DeleteKnows, Controllers
  <1>6. ClearKnows'
    <2>1. sync'["clear"] = sync["clear"]
      BY <1>1 DEF Controllers
    <2> QED
      BY <1>2, <2>1 DEF BindingInv, SyncInv, ClearKnows, Controllers
  <1>7. DispatchKnows'
    <2>1. CASE c = "create"
      <3>1. sync'["dispatch"] = sync["dispatch"] /\ sync["dispatch"].id \in ID \cup {NoID}
        BY <1>1, <2>1 DEF BindingInv, WellFormed, TypeOK, Controllers
      <3> QED
        BY <1>2, <3>1 DEF BindingInv, SyncInv, DispatchKnows, Controllers
    <2> QED
      BY <2>1
  <1>8. OneTarget'
    BY DEF BindingInv, OneTarget, OnlyTarget
  <1> QED
    BY <1>3, <1>4, <1>5, <1>6, <1>7, <1>8 DEF BindingInv, SyncInv

\* A POST is sent while the create sync is in flight, hence while no wait is over.
LEMMA PostIsSent == ASSUME BindingInv, PostObject PROVE BindingInv'
  <1> DEFINE r == [sync["create"] EXCEPT !.phase = "posted"]
  <1>1. sync["create"] \in SyncType /\ sync["create"].id \in ID /\ ~Free("create")
    BY DEF PostObject, BindingInv, WellFormed, TypeOK, SyncType, Controllers, Free
  <1>2. /\ r \in SyncType /\ r.etag = sync["create"].etag /\ Fits("create", r)
        /\ (r.phase \in {"idle", "failed"} <=> Free("create")) /\ r.id = sync["create"].id
    BY <1>1 DEF SyncType, Fits
  <1>3. sync' = [sync EXCEPT !["create"] = r] /\ sync'["create"] = r
    BY DEF PostObject, BindingInv, WellFormed, TypeOK, Controllers
  <1>4. /\ UNCHANGED <<document, cache, firstSeen, restarts, assignments>> /\ UNCHANGED object
        /\ posts' = posts \cup {sync["create"].id}
    BY DEF PostObject
  <1> HIDE DEF r
  <1>5. posts' \subseteq ID /\ object' \in [ID -> {"none", "live", "deleting"}]
    BY <1>1, <1>4 DEF BindingInv, WellFormed, TypeOK
  <1>6. CreateSettled => CreateSettled'
    BY <1>1 DEF CreateSettled
  <1>7. \A i \in ID : Doomed(i) => Doomed(i)'
    BY <1>4, <1>6 DEF Doomed
  <1>8. \A i \in ID : Live(i)' => Live(i)
    BY <1>1, <1>2, <1>3, <1>4 DEF Live
  <1>9. TimeoutOutlivesCreate /\ Current("clear") /\ sync["clear"].phase = "gone"
           => object'[sync["clear"].id] = "none"
    BY <1>4 DEF BindingInv, SyncInv, ClearKnows
  <1> QED
    BY Zenon, <1>1, <1>2, <1>3, <1>4, <1>5, <1>6, <1>7, <1>8, <1>9, ServiceKeeps DEF Controllers

\* A DELETE, or a 404 after the wait, dooms the object.
LEMMA DeleteIsSent == ASSUME BindingInv, DeleteObject PROVE BindingInv'
  <1> DEFINE d == sync["dispatch"]
             r == [d EXCEPT !.phase = "dispatched"]
  <1>1. d \in SyncType /\ d.id \in ID /\ d.phase = "read" /\ ~Free("dispatch")
    BY DEF DeleteObject, BindingInv, WellFormed, TypeOK, SyncType, Controllers, Free
  <1>2. CASE Ends("dispatch") /\ UNCHANGED object
    <2>1. UNCHANGED <<document, cache, posts, object, restarts, assignments>> /\ firstSeen' = firstSeen
      BY <1>2 DEF DeleteObject
    <2> QED
      BY Zenon, <1>2, <2>1, EndsKeeps DEF Controllers
  <1>3. CASE ~(Ends("dispatch") /\ UNCHANGED object)
    <2>1. /\ sync' = [sync EXCEPT !["dispatch"].phase = "dispatched"]
          /\ \/ object[d.id] # "none" /\ object' = [object EXCEPT ![d.id] = "deleting"]
             \/ object[d.id] = "none" /\ UNCHANGED object /\ firstSeen = "elapsed"
          /\ UNCHANGED <<document, cache, firstSeen, restarts, assignments>> /\ UNCHANGED posts
      BY <1>3 DEF DeleteObject, GivesUp
    <2>2. /\ r \in SyncType /\ r.etag = d.etag /\ Fits("dispatch", r) /\ r.id = d.id
          /\ (r.phase \in {"idle", "failed"} <=> Free("dispatch")) /\ r.phase = "dispatched"
      BY <1>1 DEF SyncType, Fits
    <2>3. sync' = [sync EXCEPT !["dispatch"] = r] /\ sync'["dispatch"] = r
      BY <2>1 DEF BindingInv, WellFormed, TypeOK, Controllers
    <2>4. sync'["create"] = sync["create"]
      BY <2>1 DEF BindingInv, WellFormed, TypeOK, Controllers
    <2> HIDE DEF r
    <2>5. posts' \subseteq ID /\ object' \in [ID -> {"none", "live", "deleting"}]
          /\ object \in [ID -> {"none", "live", "deleting"}]
      BY <2>1 DEF BindingInv, WellFormed, TypeOK
    <2>6. CreateSettled => CreateSettled'
      BY <2>1, <2>4 DEF CreateSettled, Free
    <2>7. \A i \in ID : Doomed(i) => Doomed(i)'
      BY <1>1, <2>1, <2>5, <2>6 DEF Doomed
    <2>8. \A i \in ID : Live(i)' => Live(i)
      BY <1>1, <2>1, <2>4, <2>5 DEF Live, Free
    <2>9. TimeoutOutlivesCreate /\ Current("clear") /\ sync["clear"].phase = "gone"
             => object'[sync["clear"].id] = "none"
      <3>1. sync["clear"].phase = "gone" => sync["clear"].id \in ID
        BY DEF BindingInv, WellFormed, PhaseInv, Fits, Controllers
      <3> QED
        BY <1>1, <2>1, <2>5, <3>1 DEF BindingInv, SyncInv, ClearKnows
    <2>10. DispatchKnows'
      <3>1. Doomed(sync["dispatch"].id)'
        BY <1>1, <2>1, <2>2, <2>3, <2>5, <2>6 DEF Doomed, BindingInv, DocumentInv
      <3>2. Current("dispatch")' => Current("dispatch")
        BY <1>1, <2>1, <2>2, <2>3 DEF Current, Free
      <3>3. /\ document.deletionTimestamp
            /\ Current("dispatch") => NeedsDispatch(document) /\ document.clusterServiceID = d.id
        BY <1>1 DEF BindingInv, SyncInv, DispatchKnows
      <3> QED
        BY <1>1, <2>1, <2>2, <2>3, <3>1, <3>2, <3>3, IDAssumption DEF DispatchKnows, NeedsDispatch
    <2> QED
      BY Zenon, <1>1, <2>1, <2>2, <2>3, <2>5, <2>6, <2>7, <2>8, <2>9, <2>10, ServiceKeeps DEF Controllers
  <1> QED
    BY <1>2, <1>3

\* A step of Cluster Service, or of the scan that matches its clusters, that
\* leaves the syncs alone or tells the create sync of its object.
LEMMA ServiceSteps ==
    ASSUME BindingInv, MatchClusters \/ ClusterService PROVE BindingInv'
  <1>0. object \in [ID -> {"none", "live", "deleting"}] /\ posts \subseteq ID
        /\ sync["create"] \in SyncType /\ Fits("create", sync["create"])
    BY DEF BindingInv, WellFormed, TypeOK, PhaseInv, Controllers, SyncType
  <1>1. ASSUME NEW r \in SyncType, sync' = [sync EXCEPT !["create"] = r],
               r.etag = sync["create"].etag, r.id = sync["create"].id, Fits("create", r),
               r.phase \in {"idle", "failed"} <=> Free("create"),
               UNCHANGED <<document, cache, firstSeen, restarts, assignments>>,
               posts' \subseteq posts, object' \in [ID -> {"none", "live", "deleting"}],
               \A i \in ID : object'[i] = "live" /\ object[i] # "live" => i \in posts /\ object[i] = "none",
               \A i \in ID : object'[i] = "none" /\ object[i] # "none" => CreateSettled,
               \A i \in ID : object'[i] # "none" /\ object[i] = "none" => object'[i] = "live"
        PROVE  BindingInv'
    <2>1. sync'["create"] = r
      BY <1>1 DEF BindingInv, WellFormed, TypeOK, Controllers
    <2>2. CreateSettled => CreateSettled'
      BY <1>1, <2>1 DEF CreateSettled, Free
    <2>3. \A i \in ID : Doomed(i) => Doomed(i)'
      BY <1>0, <1>1, <2>2 DEF Doomed, CreateSettled
    <2>4. \A i \in ID : Live(i)' => Live(i)
      BY <1>0, <1>1, <2>1 DEF Live, Free
    <2>5. ASSUME TimeoutOutlivesCreate, Current("clear"), sync["clear"].phase = "gone"
          PROVE  object'[sync["clear"].id] = "none"
      <3>1. /\ sync["clear"].id \in ID /\ object[sync["clear"].id] = "none"
            /\ document.clusterServiceID = sync["clear"].id
            /\ document.csDeletionTimestamp /\ document.clusterServiceID # NoID
        BY <2>5 DEF BindingInv, WellFormed, PhaseInv, Fits, Controllers, SyncInv, ClearKnows, NeedsClearing
      <3>2. posts = {}
        BY <2>5, <3>1 DEF BindingInv, DocumentInv, Doomed, CreateSettled
      <3> QED
        BY <1>1, <3>1, <3>2
    <2>6. posts' \subseteq ID
      BY <1>0, <1>1
    <2> QED
      BY Zenon, <1>1, <2>2, <2>3, <2>4, <2>5, <2>6, ServiceKeeps DEF Controllers
  <1> DEFINE s == sync["create"]
  <1>2. ASSUME UNCHANGED sync
        PROVE  /\ s \in SyncType /\ sync' = [sync EXCEPT !["create"] = s]
               /\ Fits("create", s) /\ (s.phase \in {"idle", "failed"} <=> Free("create"))
    BY <1>0, <1>2 DEF BindingInv, WellFormed, TypeOK, Free
  <1>3. CASE MatchClusters
    <2>1. PICK i \in ID : object[i] = "live" /\ object' = [object EXCEPT ![i] = "deleting"]
      BY Zenon, <1>3 DEF MatchClusters, Unmatched
    <2>2. UNCHANGED sync /\ UNCHANGED <<document, cache, firstSeen, restarts, assignments>>
          /\ UNCHANGED posts
      BY <1>3 DEF MatchClusters
    <2> QED
      BY <1>0, <1>1, <1>2, <2>1, <2>2
  <1>4. ASSUME NEW i \in ID, AcceptPost(i) PROVE BindingInv'
    <2>1. /\ i \in posts /\ object[i] = "none" /\ posts' \subseteq posts
          /\ object' = [object EXCEPT ![i] = "live"]
          /\ UNCHANGED <<document, cache, firstSeen, restarts, assignments>>
      BY <1>4 DEF AcceptPost
    <2>2. /\ object' \in [ID -> {"none", "live", "deleting"}]
          /\ \A j \in ID : object'[j] = "live" /\ object[j] # "live" => j \in posts /\ object[j] = "none"
          /\ \A j \in ID : object'[j] = "none" /\ object[j] # "none" => CreateSettled
          /\ \A j \in ID : object'[j] # "none" /\ object[j] = "none" => object'[j] = "live"
      BY <1>0, <2>1
    <2>3. CASE UNCHANGED sync
      BY <1>1, <1>2, <2>1, <2>2, <2>3
    <2>4. CASE sync["create"].phase = "posted" /\ sync' = [sync EXCEPT !["create"].phase = "found"]
      <3> DEFINE r == [s EXCEPT !.phase = "found"]
      <3>1. /\ r \in SyncType /\ r.etag = s.etag /\ r.id = s.id /\ Fits("create", r)
            /\ (r.phase \in {"idle", "failed"} <=> Free("create"))
        BY <1>0, <2>4 DEF SyncType, Fits, Free
      <3>2. sync' = [sync EXCEPT !["create"] = r]
        BY <2>4
      <3> HIDE DEF r
      <3> QED
        BY Zenon, <1>1, <2>1, <2>2, <3>1, <3>2
    <2> QED
      BY <1>4, <2>3, <2>4 DEF AcceptPost
  <1>5. ASSUME NEW i \in ID, RefusePost(i) PROVE BindingInv'
    <2>1. UNCHANGED sync /\ UNCHANGED <<document, cache, firstSeen, restarts, assignments>>
          /\ UNCHANGED object /\ posts' \subseteq posts
      BY <1>5 DEF RefusePost
    <2> QED
      BY <1>0, <1>1, <1>2, <2>1
  <1>6. ASSUME NEW i \in ID, FinishDeletion(i) PROVE BindingInv'
    <2>1. UNCHANGED sync /\ UNCHANGED <<document, cache, firstSeen, restarts, assignments>>
          /\ object' = [object EXCEPT ![i] = "none"] /\ UNCHANGED posts /\ CreateSettled
      BY <1>6 DEF FinishDeletion
    <2> QED
      BY <1>0, <1>1, <1>2, <2>1
  <1> QED
    BY <1>3, <1>4, <1>5, <1>6 DEF ClusterService

----------------------------------------------------------------------------
(* Time, the cache and restarts.                                            *)

\* The informer catches up, the 120 s wait ends, or nothing happens.
LEMMA CacheAndTime ==
    ASSUME BindingInv, UpdateCache \/ TimeoutElapses \/ UNCHANGED vars PROVE BindingInv'
  <1>1. /\ UNCHANGED <<document, sync, posts, object, restarts, assignments>>
        /\ cache' \in DocumentType /\ firstSeen' \in {"never", "seen", "elapsed"}
        /\ (firstSeen' # "never" => firstSeen # "never")
        /\ (firstSeen' = "elapsed" => CreateSettled)
    BY DEF UpdateCache, TimeoutElapses, vars, BindingInv, DocumentInv, WellFormed, TypeOK
  <1>2. /\ \A c \in Controllers : (Free(c)' <=> Free(c)) /\ (Current(c)' <=> Current(c))
        /\ CreateSettled' <=> CreateSettled
        /\ \A i \in ID : (Doomed(i)' <=> Doomed(i)) /\ (Live(i)' <=> Live(i))
    BY <1>1 DEF Free, Current, CreateSettled, Doomed, Live
  <1>3. WellFormed'
    BY <1>1 DEF BindingInv, WellFormed, TypeOK, PhaseInv, Free
  <1>4. DocumentInv'
    BY <1>1, <1>2 DEF BindingInv, DocumentInv, WellFormed, TypeOK, DocumentType
  <1>5. SyncInv'
    <2>1. sync["dispatch"].id \in ID \cup {NoID}
      BY DEF BindingInv, WellFormed, TypeOK, Controllers
    <2> QED
      BY <1>1, <1>2, <2>1 DEF BindingInv, SyncInv, CreateKnows, DispatchKnows, ClearKnows, DeleteKnows,
                                 Controllers
  <1>6. OneTarget'
    BY <1>1, <1>2 DEF BindingInv, OneTarget, OnlyTarget
  <1> QED
    BY <1>3, <1>4, <1>5, <1>6 DEF BindingInv

\* A restart forgets the syncs and the first sight of DeletionTimestamp.
LEMMA RestartKeeps == ASSUME BindingInv, Restart PROVE BindingInv'
  <1>1. /\ UNCHANGED <<document, posts, object, assignments>> /\ cache' = document
        /\ firstSeen' = "never" /\ restarts' \in 0..MaxRestarts
        /\ \A c \in Controllers : sync'[c] = NoSync
        /\ sync' \in [Controllers -> SyncType]
    BY BoundAssumption DEF Restart, BindingInv, WellFormed, TypeOK, NoSync, SyncType
  <1>2. \A c \in Controllers : Free(c)' /\ ~Current(c)' /\ Fits(c, sync'[c]) /\ sync'[c].etag = 0
    BY <1>1 DEF Free, Current, Fits, NoSync
  <1>3. WellFormed'
    <2>1. TypeOK'
      BY <1>1, <1>2 DEF BindingInv, WellFormed, TypeOK, SyncType, Controllers, Free
    <2> QED
      BY <1>1, <1>2, <2>1 DEF BindingInv, WellFormed, TypeOK, PhaseInv, DocumentType, Controllers
  <1>4. CreateSettled => CreateSettled'
    BY <1>1, <1>2 DEF CreateSettled, Controllers
  <1>5. \A i \in ID : (Doomed(i) => Doomed(i)') /\ (Live(i)' => Live(i))
    BY <1>1, <1>2, <1>4 DEF Doomed, Live, Controllers
  <1>6. DocumentInv'
    BY <1>1, <1>5 DEF BindingInv, DocumentInv, WellFormed, TypeOK, DocumentType
  <1>7. SyncInv'
    BY <1>1, <1>2 DEF SyncInv, CreateKnows, DispatchKnows, ClearKnows, DeleteKnows, Controllers, NoSync
  <1>8. OneTarget'
    BY <1>1, <1>5 DEF BindingInv, OneTarget, OnlyTarget
  <1> QED
    BY <1>3, <1>6, <1>7, <1>8 DEF BindingInv

\* Every step keeps the invariant.
LEMMA BindingStep == ASSUME BindingInv, [Next]_vars PROVE BindingInv'
  <1>1. CASE UNCHANGED vars
    BY Zenon, <1>1, CacheAndTime
  <1>2. CASE Next
    BY Zenon, <1>2, AssignReads, AssignWrites, CreateReads, FindReads, PostIsSent, SyncsEnd, RecordWrites,
       DispatchReads, RecoverWrites, DeleteIsSent, StampWrites, ClearReads, ClearWrites, DeleteReads,
       DocumentGoes, ServiceSteps, OtherWrites, CacheAndTime, RestartKeeps
    DEF Next, Step, Assign, Create, Dispatch, Clear, Delete
  <1> QED
    BY <1>1, <1>2

\* The invariant holds throughout.
THEOREM BindingInvariant == Spec => []BindingInv
  BY InitBinding, BindingStep, PTL DEF Spec

\* The document, its cached copy, the syncs and Cluster Service's objects are
\* always well formed, and a sync that acts on an identity has one.
THEOREM BindingTypeCorrect == Spec => []TypeOK
  <1>1. BindingInv => TypeOK
    BY DEF BindingInv, WellFormed
  <1> QED
    BY <1>1, BindingInvariant, PTL

\* The delete dispatch's comment, for every set of identities and any number of
\* restarts and writers: when the document of a cluster with one assigned identity
\* is gone, Cluster Service has no object of it and no POST that could make one.
THEOREM TargetIsKept ==
    ASSUME TimeoutOutlivesCreate PROVE Spec => []TargetIsNotAbandoned
  <1>1. BindingInv => TargetIsNotAbandoned
    <2> SUFFICES ASSUME BindingInv, document.kind = "cluster", assignments <= 1, ~document.stored
                 PROVE  posts = {} /\ Existing = {}
      BY DEF TargetIsNotAbandoned, NoAbandonedObject
    <2>1. document.csDeletionTimestamp /\ document.clusterServiceID = NoID
      BY DEF BindingInv, DocumentInv
    <2>2. \A i \in ID : ~Live(i)
      BY <2>1, IDAssumption DEF BindingInv, OneTarget, OnlyTarget
    <2>3. posts \subseteq ID
      BY DEF BindingInv, WellFormed, TypeOK
    <2> QED
      BY <2>2, <2>3 DEF Live, Existing
  <1> QED
    BY <1>1, BindingInvariant, PTL

\* A recorded identity is never exchanged, and is dropped only when Cluster
\* Service has no object of it and will not get one.
THEOREM BindingStability ==
    ASSUME TimeoutOutlivesCreate PROVE Spec => BindingIsStable
  <1> DEFINE i == document.clusterServiceID
             Stable == i # NoID /\ (document'.clusterServiceID # i \/ ~document'.stored)
                          => document'.clusterServiceID = NoID /\ i \notin posts /\ object[i] = "none"
  <1>1. ASSUME BindingInv, [Next]_vars PROVE Stable
    <2>1. SUFFICES ASSUME i # NoID, document'.clusterServiceID # i \/ ~document'.stored
                   PROVE  document'.clusterServiceID = NoID /\ i \notin posts /\ object[i] = "none"
      OBVIOUS
    <2>2. document.stored /\ document \in DocumentType
      BY <1>1, <2>1 DEF BindingInv, DocumentInv, WellFormed, TypeOK
    <2>3. document' # document
      BY <2>1, <2>2
    <2>5. CASE AssignPendingID
      BY <2>1, <2>2, <2>5 DEF AssignPendingID, Replaces, DocumentType
    <2>6. CASE RecordClusterServiceID
      <3>1. Current("create")
        BY <2>3, <2>6 DEF RecordClusterServiceID, Replaces, Current, Free
      <3> QED
        BY <1>1, <2>1, <3>1 DEF BindingInv, SyncInv, CreateKnows, NeedsCreation
    <2>7. CASE RecoverTarget
      <3>1. Current("dispatch") /\ sync["dispatch"].phase = "recover"
        BY <2>3, <2>7 DEF RecoverTarget, Replaces, Current, Free
      <3> QED
        BY <1>1, <2>1, <3>1 DEF BindingInv, SyncInv, DispatchKnows
    <2>8. CASE StampDispatched
      BY <2>1, <2>2, <2>8 DEF StampDispatched, Replaces, DocumentType
    <2>9. CASE ClearClusterServiceID
      <3>1. Current("clear") /\ sync["clear"].phase = "gone"
        BY <2>3, <2>9 DEF ClearClusterServiceID, Replaces, Current, Free
      <3>2. document.csDeletionTimestamp /\ object[i] = "none"
        BY <1>1, <3>1 DEF BindingInv, SyncInv, ClearKnows, NeedsClearing
      <3>3. posts = {}
        BY <1>1, <2>1, <3>2 DEF BindingInv, DocumentInv, Doomed, CreateSettled
      <3>4. document'.clusterServiceID = NoID
        BY <2>2, <2>3, <2>9 DEF ClearClusterServiceID, Replaces, DocumentType
      <3> QED
        BY <3>2, <3>3, <3>4
    <2>10. CASE DeleteDocument
      BY <1>1, <2>1, <2>2, <2>10 DEF DeleteDocument, BindingInv, SyncInv, DeleteKnows, NeedsRemoval, Free
    <2>11. CASE RequestDeletion \/ TouchDocument
      BY Zenon, <2>1, <2>2, <2>11 DEF RequestDeletion, TouchDocument, DocumentType
    <2> QED
      <3>1. \/ AssignPendingID \/ RecordClusterServiceID \/ RecoverTarget \/ StampDispatched
            \/ ClearClusterServiceID \/ DeleteDocument \/ RequestDeletion \/ TouchDocument
        BY <1>1, <2>3 DEF Next, Step, Assign, Create, Dispatch, Clear, Delete, ClusterService, vars,
           CheckToAssign, ReadToAssign, ReadToCreate, FindObject, PostObject, PostFails, ReadToDispatch,
           DeleteObject, ReadToClear, CheckGone, ReadToDelete, MatchClusters, UpdateCache, TimeoutElapses,
           Restart, AcceptPost, RefusePost, FinishDeletion, AbandonSync
      <3> QED
        BY <2>5, <2>6, <2>7, <2>8, <2>9, <2>10, <2>11, <3>1
  <1>2. BindingInv /\ [Next]_vars => [Stable]_vars
    BY <1>1
  <1>3. Spec => [][Stable]_vars
    BY <1>2, BindingInvariant, PTL DEF Spec
  <1> QED
    BY <1>3 DEF BindingIsStable
============================================================================
