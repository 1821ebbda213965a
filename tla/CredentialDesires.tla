------------------------- MODULE CredentialDesires -------------------------
(***************************************************************************)
(* The life of one SystemAdminCredentialRequest through the documents that *)
(* carry it to a management cluster.  The backend writes two ApplyDesires  *)
(* (the CSR and its approval) and a ReadDesire that mirrors the CSR; the   *)
(* kube-applier applies or deletes the objects the ApplyDesires name and   *)
(* reports in their status; the backend watches the mirror, records the    *)
(* outcome on the credential request, and takes the desires down again.    *)
(*                                                                         *)
(* Concurrent here are: the desires creator, the issuance observer, the    *)
(* two cleanup controllers (after issuance, and for a cluster being        *)
(* deleted), the deletion marker, the 48 h garbage collector, the orphan   *)
(* sweep, and one kube-applier sync per ApplyDesire (the work queue never  *)
(* runs a key twice at a time).  The backend reads desires through listers *)
(* that lag behind the database.                                           *)
(*                                                                         *)
(* A conditional Replace that follows a live Get of the same document is   *)
(* one step: had the document been written in between, the etag would not  *)
(* match and the code would do what it does when it never ran.  An         *)
(* unconditional Delete that follows a Get is a step of its own.           *)
(***************************************************************************)
CONSTANTS
    Desire,           \* the ApplyDesires of a credential request
    CSR               \* the one that carries the CSR; the others approve it

ASSUME DesireAssumption == CSR \in Desire /\ "none" \notin Desire /\ "read" \notin Desire

VARIABLES
    clusterDeleting,  \* the request's cluster has its deletion timestamp in the cache
    cred,             \* the SystemAdminCredentialRequest document
    desire,           \* the ApplyDesire documents; deleted: SuccessfullyDeleted is True
    copy,             \* the backend's lister: the type it sees for each one
    read,             \* the ReadDesire document of the CSR is stored
    readCopy,         \* the backend's lister: the ReadDesire, and the CSR mirrored in it
    object,           \* the objects on the management cluster
    verdict,          \* what the signer decided about the CSR object
    sync,             \* the kube-applier's sync of each ApplyDesire
    creator,          \* the desires creator: the desires it has yet to ensure
    cleaner           \* the cleanup controllers

docs == <<cred, desire, read>>
listers == <<copy, readCopy>>
cluster == <<object, verdict>>
vars == <<clusterDeleting, docs, listers, cluster, sync, creator, cleaner>>

Cleaner == {"postIssuance", "deletion"}

Absent == [stored |-> FALSE, type |-> "ServerSideApply", deleted |-> FALSE]
Applied == [stored |-> TRUE, type |-> "ServerSideApply", deleted |-> FALSE]
NoCredential == [stored |-> FALSE, outcome |-> "none", deleting |-> FALSE]
NoRead == [stored |-> FALSE, content |-> "none"]
Idle == [pc |-> "idle", left |-> {}, purge |-> "none", waiting |-> FALSE]

Init ==
    /\ clusterDeleting = FALSE
    /\ cred = [stored |-> TRUE, outcome |-> "none", deleting |-> FALSE]
    /\ desire = [d \in Desire |-> Absent]
    /\ copy = [d \in Desire |-> "none"]
    /\ read = FALSE
    /\ readCopy = NoRead
    /\ object = [d \in Desire |-> "absent"]
    /\ verdict = "none"
    /\ sync = [d \in Desire |-> "idle"]
    /\ creator = {}
    /\ cleaner = [c \in Cleaner |-> Idle]

-----------------------------------------------------------------------------
(* The kube-applier.  A sync may start at any time: an event, the retry of *)
(* an error, the delayed re-check of a deletion and the resync all end in  *)
(* the same work queue.                                                    *)

OperationOf(doc) == IF doc.type = "Delete" THEN "delete" ELSE "apply"

\* SyncOnce fetches the desire; one that is gone needs nothing.
Fetch(d) ==
    /\ sync[d] = "idle"
    /\ desire[d].stored
    /\ sync' = [sync EXCEPT ![d] = OperationOf(desire[d])]
    /\ UNCHANGED <<clusterDeleting, docs, listers, cluster, creator, cleaner>>

\* An object becomes o; a CSR that is gone takes its certificate with it.
Become(d, o) ==
    /\ object' = [object EXCEPT ![d] = o]
    /\ verdict' = IF d = CSR /\ o = "absent" THEN "none" ELSE verdict

\* Applying creates the object; one that is terminating keeps terminating.
AppliedObject(d) ==
    IF object[d] = "absent" THEN "present" ELSE object[d]

\* applyDesired succeeds.  Its status write touches SuccessfullyApplied,
\* Successful and Degraded, which no controller reads: the sync is over.
Apply(d) ==
    /\ sync[d] = "apply"
    /\ Become(d, AppliedObject(d))
    /\ sync' = [sync EXCEPT ![d] = "idle"]
    /\ UNCHANGED <<clusterDeleting, docs, listers, creator, cleaner>>

\* What the Delete call may make of an object: an object with finalizers
\* keeps existing with a deletion timestamp.
AfterDelete(o) ==
    IF o = "present" THEN {"terminating", "absent"} ELSE {o}

\* evaluateDelete without an error: the target is gone, or is terminating.
EvaluateDelete(d) ==
    /\ sync[d] = "delete"
    /\ \E o \in AfterDelete(object[d]) :
          /\ Become(d, o)
          /\ sync' = [sync EXCEPT ![d] = IF o = "absent" THEN "gone" ELSE "notGone"]
    /\ UNCHANGED <<clusterDeleting, docs, listers, creator, cleaner>>

\* evaluateDelete fails at the first Get, at the Delete, or at the Get after it.
FailDelete(d) ==
    /\ sync[d] = "delete"
    /\ \E o \in {object[d]} \cup AfterDelete(object[d]) : Become(d, o)
    /\ sync' = [sync EXCEPT ![d] = "notGone"]
    /\ UNCHANGED <<clusterDeleting, docs, listers, creator, cleaner>>

SetSuccessfullyDeleted(doc, result) == [doc EXCEPT !.deleted = (result = "gone")]

\* UpdateStatus after a delete fetches the desire again and records the
\* result on what it finds, whether or not that is still a Delete.
UpdateStatus(d) ==
    /\ sync[d] \in {"gone", "notGone"}
    /\ sync' = [sync EXCEPT ![d] = "idle"]
    /\ desire' = IF desire[d].stored
                 THEN [desire EXCEPT ![d] = SetSuccessfullyDeleted(@, sync[d])]
                 ELSE desire
    /\ UNCHANGED <<clusterDeleting, cred, read, listers, cluster, creator, cleaner>>

\* The sync ends early: the apply, a fetch or a status write fails, the write
\* loses to a newer etag, or the kube-applier restarts.
AbandonSync(d) ==
    /\ sync[d] # "idle"
    /\ sync' = [sync EXCEPT ![d] = "idle"]
    /\ UNCHANGED <<clusterDeleting, docs, listers, cluster, creator, cleaner>>

-----------------------------------------------------------------------------
(* The management cluster. *)

\* The finalizers of a terminating object are done.
Finalize(d) ==
    /\ object[d] = "terminating"
    /\ Become(d, "absent")
    /\ UNCHANGED <<clusterDeleting, docs, listers, sync, creator, cleaner>>

\* The signer signs or denies an approved CSR.  Which of the two only chooses
\* the condition the observer sets, and every reader treats both alike.
Decide ==
    /\ \A d \in Desire : object[d] = "present"
    /\ verdict = "none"
    /\ verdict' = "decided"
    /\ UNCHANGED <<clusterDeleting, docs, listers, object, sync, creator, cleaner>>

-----------------------------------------------------------------------------
(* The desires creator, and the listers it reads. *)

RefreshCopy(d) ==
    /\ copy' = [copy EXCEPT ![d] = IF desire[d].stored THEN desire[d].type ELSE "none"]
    /\ UNCHANGED <<clusterDeleting, docs, readCopy, cluster, sync, creator, cleaner>>

\* The kube-applier mirrors the CSR into the ReadDesire (ReadDesireMirror),
\* and the lister catches up with that.
RefreshReadCopy ==
    /\ readCopy' = [stored |-> read, content |-> IF read THEN verdict ELSE "none"]
    /\ UNCHANGED <<clusterDeleting, docs, copy, cluster, sync, creator, cleaner>>

\* None of the conditions Issued, Failed, AwaitingRevocation and Revoked is
\* True.  The deletion timestamp is not among what it looks at.
IsCredentialRequestPending ==
    cred.outcome = "none"

needsWorkWhateverTheCluster == cred.stored /\ IsCredentialRequestPending

\* The cached cluster is alive and the stored request is pending.
needsWork == ~clusterDeleting /\ cred.stored /\ IsCredentialRequestPending

StartCreate ==
    /\ creator = {}
    /\ needsWork
    /\ creator' = Desire \cup {"read"}
    /\ UNCHANGED <<clusterDeleting, docs, listers, cluster, sync, cleaner>>

\* EnsureApplyDesire: create a desire the lister does not have (a conflict
\* is no error); put one the lister sees as a Delete back to an apply, with
\* an empty status.  The replacement carries the etag of the lister's copy.
\* It fits only if the stored desire is still a Delete; then the lister may
\* as well have caught up with it.
EnsureApplyDesire(d) ==
    /\ d \in creator
    /\ d = CSR \/ CSR \notin creator
    /\ desire' =
          IF \/ copy[d] = "none" /\ ~desire[d].stored
             \/ copy[d] = "Delete" /\ desire[d].stored /\ desire[d].type = "Delete"
          THEN [desire EXCEPT ![d] = Applied]
          ELSE desire
    /\ creator' = IF copy[d] = "Delete" /\ ~desire[d].stored THEN {} ELSE creator \ {d}
    /\ UNCHANGED <<clusterDeleting, cred, read, listers, cluster, sync, cleaner>>

\* EnsureReadDesire: its spec never drifts, so it is only ever created.
EnsureReadDesire ==
    /\ creator = {"read"}
    /\ read' = (read \/ ~readCopy.stored)
    /\ creator' = {}
    /\ UNCHANGED <<clusterDeleting, cred, desire, listers, cluster, sync, cleaner>>

\* A write of the creator fails, or the backend restarts.
AbandonCreate ==
    /\ creator # {}
    /\ creator' = {}
    /\ UNCHANGED <<clusterDeleting, docs, listers, cluster, sync, cleaner>>

-----------------------------------------------------------------------------
(* What happens to the credential request. *)

\* The issuance observer records what the mirrored CSR says.
Observe ==
    /\ cred.stored
    /\ IsCredentialRequestPending
    /\ readCopy.stored
    /\ readCopy.content # "none"
    /\ cred' = [cred EXCEPT !.outcome = "IssuedOrFailed"]
    /\ UNCHANGED <<clusterDeleting, desire, read, listers, cluster, sync, creator, cleaner>>

\* A revocation stamps every request of its cluster.  It is the only mark it
\* leaves: AwaitingRevocation and Revoked are read, but never set.
RevocationMarks ==
    /\ cred.stored
    /\ ~cred.deleting
    /\ cred' = [cred EXCEPT !.deleting = TRUE]
    /\ UNCHANGED <<clusterDeleting, desire, read, listers, cluster, sync, creator, cleaner>>

\* The deletion of the cluster reaches the cache.  Once the request is gone
\* nothing here asks, and clusterDeleting is FALSE.
SeeClusterDeleting ==
    /\ cred.stored
    /\ ~clusterDeleting
    /\ clusterDeleting' = TRUE
    /\ UNCHANGED <<docs, listers, cluster, sync, creator, cleaner>>

\* The deletion marker stamps the requests of a cluster being deleted.
MarkDeleting ==
    /\ clusterDeleting
    /\ cred.stored
    /\ ~cred.deleting
    /\ cred' = [cred EXCEPT !.deleting = TRUE]
    /\ UNCHANGED <<clusterDeleting, desire, read, listers, cluster, sync, creator, cleaner>>

\* The garbage collector deletes a request 48 h after its creation, in
\* whatever state it is.
CollectGarbage ==
    /\ cred.stored
    /\ cred' = NoCredential
    /\ clusterDeleting' = FALSE
    /\ UNCHANGED <<desire, read, listers, cluster, sync, creator, cleaner>>

-----------------------------------------------------------------------------
(* The cleanup controllers, and the orphan sweep. *)

NeedsWork(c) ==
    /\ cred.stored
    /\ IF c = "deletion" THEN cred.deleting ELSE cred.outcome = "IssuedOrFailed"

\* SyncOnce, up to the list of ApplyDesires in DeleteAllChildDesires.
StartCleanup(c) ==
    /\ cleaner[c].pc = "idle"
    /\ NeedsWork(c)
    /\ cleaner' = [cleaner EXCEPT ![c] =
          [Idle EXCEPT !.pc = "apply", !.left = {d \in Desire : desire[d].stored}]]
    /\ UNCHANGED <<clusterDeleting, docs, listers, cluster, sync, creator>>

FlippedWithConditions(doc) == [doc EXCEPT !.type = "Delete"]

\* What the flip to Type=Delete leaves of a desire: no condition survives.
Flipped(doc) == [doc EXCEPT !.type = "Delete", !.deleted = FALSE]

\* A Delete may be purged once its own condition says the target is gone.
MayPurge(d) ==
    /\ desire[d].type = "Delete"
    /\ desire[d].deleted

\* EnsureApplyDesireRemoved for the next listed desire, up to its Delete call.
EnsureApplyDesireRemoved(c, d) ==
    /\ cleaner[c].pc = "apply"
    /\ cleaner[c].purge = "none"
    /\ d \in cleaner[c].left
    /\ cleaner' = [cleaner EXCEPT
          ![c].left = @ \ {d},
          ![c].purge = IF desire[d].stored /\ MayPurge(d) THEN d ELSE "none",
          ![c].waiting = @ \/ (desire[d].stored /\ ~MayPurge(d))]
    /\ desire' = IF desire[d].stored /\ desire[d].type # "Delete"
                 THEN [desire EXCEPT ![d] = Flipped(@)] ELSE desire
    /\ UNCHANGED <<clusterDeleting, cred, read, listers, cluster, sync, creator>>

\* The Delete call of EnsureApplyDesireRemoved: it names the desire only.
Purge(c) ==
    /\ cleaner[c].purge # "none"
    /\ desire' = [desire EXCEPT ![cleaner[c].purge] = Absent]
    /\ cleaner' = [cleaner EXCEPT ![c].purge = "none"]
    /\ UNCHANGED <<clusterDeleting, cred, read, listers, cluster, sync, creator>>

\* An error for one desire is kept for the end; the others are still tried.
FailRemoval(c) ==
    /\ cleaner[c].pc = "apply"
    /\ IF cleaner[c].purge # "none"
       THEN cleaner' = [cleaner EXCEPT ![c].purge = "none", ![c].waiting = TRUE]
       ELSE \E d \in cleaner[c].left :
               cleaner' = [cleaner EXCEPT ![c].left = @ \ {d}, ![c].waiting = TRUE]
    /\ UNCHANGED <<clusterDeleting, docs, listers, cluster, sync, creator>>

\* The end of DeleteAllChildDesires: while a desire is left it waits, then
\* it deletes the ReadDesire.
FinishCleanup(c) ==
    /\ cleaner[c].pc = "apply"
    /\ cleaner[c].left = {}
    /\ cleaner[c].purge = "none"
    /\ read' = (read /\ cleaner[c].waiting)
    /\ cleaner' = [cleaner EXCEPT ![c] =
          IF ~cleaner[c].waiting /\ c = "deletion" THEN [Idle EXCEPT !.pc = "document"] ELSE Idle]
    /\ UNCHANGED <<clusterDeleting, cred, desire, listers, cluster, sync, creator>>

\* All desires were found gone: the deletion cleanup deletes the request.
DeleteCredential ==
    /\ cleaner["deletion"].pc = "document"
    /\ cred' = NoCredential
    /\ clusterDeleting' = FALSE
    /\ cleaner' = [cleaner EXCEPT !["deletion"] = Idle]
    /\ UNCHANGED <<desire, read, listers, cluster, sync, creator>>

\* A list or a delete fails, or the backend restarts.
AbandonCleanup(c) ==
    /\ cleaner[c].pc # "idle"
    /\ cleaner' = [cleaner EXCEPT ![c] = Idle]
    /\ UNCHANGED <<clusterDeleting, docs, listers, cluster, sync, creator>>

\* The sweep deletes a desire whose parent is gone.  The name of a request
\* is never used again, so the sweep's snapshot cannot be wrong about it.
Sweep(d) ==
    /\ ~cred.stored
    /\ desire[d].stored
    /\ desire' = [desire EXCEPT ![d] = Absent]
    /\ UNCHANGED <<clusterDeleting, cred, read, listers, cluster, sync, creator, cleaner>>

SweepRead ==
    /\ ~cred.stored
    /\ read
    /\ read' = FALSE
    /\ UNCHANGED <<clusterDeleting, cred, desire, listers, cluster, sync, creator, cleaner>>

-----------------------------------------------------------------------------
KubeApplier(d) ==
    Fetch(d) \/ Apply(d) \/ EvaluateDelete(d) \/ UpdateStatus(d)

ManagementCluster == Decide \/ \E d \in Desire : Finalize(d)

Creator == StartCreate \/ (\E d \in Desire : EnsureApplyDesire(d)) \/ EnsureReadDesire

Cleanup(c) ==
    \/ StartCleanup(c)
    \/ \E d \in Desire : EnsureApplyDesireRemoved(c, d)
    \/ Purge(c)
    \/ FinishCleanup(c)
    \/ c = "deletion" /\ DeleteCredential

Sweeper == SweepRead \/ \E d \in Desire : Sweep(d)

\* A request is observed and is marked once.
Record == Observe \/ MarkDeleting

Step ==
    \/ \E d \in Desire : KubeApplier(d) \/ RefreshCopy(d)
    \/ \E c \in Cleaner : Cleanup(c)
    \/ ManagementCluster \/ RefreshReadCopy \/ Creator \/ Sweeper \/ Record
    \/ RevocationMarks \/ SeeClusterDeleting \/ CollectGarbage

Failure ==
    \/ \E d \in Desire : FailDelete(d) \/ AbandonSync(d)
    \/ \E c \in Cleaner : FailRemoval(c) \/ AbandonCleanup(c)
    \/ AbandonCreate

Next == Step \/ Failure

Spec == Init /\ [][Next]_vars

(***************************************************************************)
(* The work queues, resyncs and informers keep every actor going,          *)
(* finalizers end and the signer decides.  In the end no call fails and    *)
(* nothing restarts: every step is then one of Step, some of which change  *)
(* what a failure would (a cleanup that waits ends like one that gives     *)
(* up).  The collector comes when a request is 48 h old; what the          *)
(* controllers achieve is stated without it.                               *)
(***************************************************************************)
Fairness ==
    /\ \A d \in Desire : WF_vars(KubeApplier(d)) /\ WF_vars(RefreshCopy(d))
    /\ \A c \in Cleaner : WF_vars(Cleanup(c))
    /\ WF_vars(ManagementCluster) /\ WF_vars(RefreshReadCopy)
    /\ WF_vars(Creator) /\ WF_vars(Sweeper) /\ WF_vars(Record)
    /\ <>[][Step]_vars

LiveSpec == Spec /\ Fairness

-----------------------------------------------------------------------------
\* A Delete that reports SuccessfullyDeleted has no object left on the
\* management cluster: EnsureApplyDesireRemoved deletes the document on the
\* strength of that condition, after which nothing would remove the object.
\* Neither a status written late by an earlier sync, nor a desire put back to
\* an apply and flipped again, breaks it.
DeletedMeansGone ==
    \A d \in Desire :
        /\ desire[d].stored
        /\ desire[d].type = "Delete"
        /\ desire[d].deleted
        => object[d] = "absent"

NothingStored == ~read /\ \A d \in Desire : ~desire[d].stored

\* A request comes to rest.  Either it is gone, or it is issued or failed and
\* its cluster lives; and in both cases no desire is left, whoever created
\* one last: an issued request is cleaned up, a deleted cluster takes its
\* requests along, and what is created behind a cleanup's back is cleaned up
\* by the next or swept.  A request that a revocation marked while it was
\* pending may be the exception for as long as the collector does not come:
\* the desires creator does not look at its deletion timestamp and puts every
\* desire that the cleanup flips back to an apply.  The collector ends that
\* too, and leaves no desire either, though it takes none down itself.
RequestSettles ==
    /\ \/ <>[](NothingStored /\ (cred.stored => ~IsCredentialRequestPending /\ ~clusterDeleting))
       \/ <>[](cred.deleting /\ IsCredentialRequestPending /\ ~clusterDeleting)
    /\ WF_vars(CollectGarbage) => <>[](NothingStored /\ ~cred.stored)

\* The deletion cleanup removes a request when it has no desire left.  That is
\* what cluster_deletion_cleanup.go (147) says at the Delete: "All of this
\* credential request's desires are gone".  They were, when it listed them: the
\* desires creator, which does not look at the deletion timestamp of a pending
\* request, may have created one since.  The sweep then deletes its document,
\* and no one the object that was applied for it.
DesiresGoBeforeRequest ==
    [][DeleteCredential /\ cred.stored => NothingStored]_vars
=============================================================================
