---------------------------- MODULE DesireProofs ----------------------------
(***************************************************************************)
(* What stays true of the desires the kube applier serves, for any number  *)
(* of them: of ApplyDesires (CredentialDesires) and of ReadDesires         *)
(* (ReadDesireMirror), which share no state.                               *)
(*                                                                         *)
(* DeletedMeansGone by itself is not inductive: a status that is yet to be *)
(* written, or an apply that is yet to be made, may break it.  The         *)
(* strengthening says of each desire, for itself, what the one sync of its *)
(* key may still do.                                                       *)
(*                                                                         *)
(* OneWatchPerDesire needs to know that the manager has the target of an   *)
(* instance on record as long as it runs, and builds the next one only     *)
(* when none does (Tracked).                                               *)
(***************************************************************************)
EXTENDS CredentialDesires, ReadDesireMirror, TLAPS

DesireType ==
    [stored : BOOLEAN, type : {"ServerSideApply", "Delete"}, deleted : BOOLEAN]

TypeInv ==
    /\ desire \in [Desire -> DesireType]
    /\ object \in [Desire -> {"absent", "present", "terminating"}]
    /\ sync \in [Desire -> {"idle", "apply", "delete", "gone", "notGone"}]

ReportsDeletion(d) == desire[d].stored /\ desire[d].type = "Delete" /\ desire[d].deleted

\* What a desire, its object and its sync have to do with each other.
Settled(d) ==
    /\ ReportsDeletion(d) => object[d] = "absent" /\ sync[d] # "apply"
    /\ sync[d] = "gone" => object[d] = "absent"

DeletionInv == TypeInv /\ \A d \in Desire : Settled(d)

\* Nothing is stored at first.
LEMMA InitDeletion == Init => DeletionInv
BY DEF Init, DeletionInv, TypeInv, Settled, ReportsDeletion, DesireType, Absent

\* An object changes into a given state, or does not change at all.
LEMMA BecomeObject ==
    ASSUME TypeInv, NEW d \in Desire, NEW o \in {"absent", "present", "terminating"},
           Become(d, o)
    PROVE  /\ object' \in [Desire -> {"absent", "present", "terminating"}]
           /\ object'[d] = o
           /\ \A e \in Desire : e # d => object'[e] = object[e]
BY Zenon DEF TypeInv, Become

\* What the flip and a status write make of a desire.
LEMMA WrittenDesire ==
    ASSUME NEW doc \in DesireType, NEW result
    PROVE  /\ Flipped(doc) \in DesireType
           /\ SetSuccessfullyDeleted(doc, result) \in DesireType
           /\ SetSuccessfullyDeleted(doc, result).deleted => result = "gone"
  <1>1. Flipped(doc) \in DesireType
    BY Zenon DEF Flipped, DesireType
  <1>2. SetSuccessfullyDeleted(doc, result) \in DesireType
    BY Zenon DEF SetSuccessfullyDeleted, DesireType
  <1>3. SetSuccessfullyDeleted(doc, result).deleted => result = "gone"
    BY Zenon DEF SetSuccessfullyDeleted, DesireType
  <1> QED BY Zenon, <1>1, <1>2, <1>3

\* A step of the kube-applier for d leaves what it must.
LEMMA KubeApplierStep ==
    ASSUME DeletionInv, NEW d \in Desire, KubeApplier(d) \/ FailDelete(d) \/ AbandonSync(d)
    PROVE  DeletionInv'
  <1> USE DEF DeletionInv, TypeInv, Settled, ReportsDeletion, DesireType
  <1>1. CASE Fetch(d)
    BY Zenon, <1>1 DEF Fetch, OperationOf, docs, cluster
  <1>2. CASE Apply(d)
    <2>1. AppliedObject(d) \in {"absent", "present", "terminating"}
      BY Zenon DEF AppliedObject
    <2>2. Become(d, AppliedObject(d)) BY Zenon, <1>2 DEF Apply
    <2>3. /\ object' \in [Desire -> {"absent", "present", "terminating"}]
          /\ \A e \in Desire : e # d => object'[e] = object[e]
      BY Zenon, <2>1, <2>2, BecomeObject
    <2> QED BY Zenon, <1>2, <2>3 DEF Apply, docs
  <1>3. CASE EvaluateDelete(d)
    <2>1. PICK o \in AfterDelete(object[d]) :
             /\ Become(d, o)
             /\ sync' = [sync EXCEPT ![d] = IF o = "absent" THEN "gone" ELSE "notGone"]
      BY Zenon, <1>3 DEF EvaluateDelete
    <2>2. o \in {"absent", "present", "terminating"} /\ (object[d] = "absent" => o = "absent")
      BY Zenon DEF AfterDelete
    <2>3. /\ object' \in [Desire -> {"absent", "present", "terminating"}]
          /\ object'[d] = o
          /\ \A e \in Desire : e # d => object'[e] = object[e]
      BY Zenon, <2>1, <2>2, BecomeObject
    <2> QED BY Zenon, <1>3, <2>1, <2>2, <2>3 DEF EvaluateDelete, docs
  <1>4. CASE FailDelete(d)
    <2>1. PICK o \in {object[d]} \cup AfterDelete(object[d]) : Become(d, o)
      BY Zenon, <1>4 DEF FailDelete
    <2>2. o \in {"absent", "present", "terminating"} /\ (object[d] = "absent" => o = "absent")
      BY Zenon DEF AfterDelete
    <2>3. /\ object' \in [Desire -> {"absent", "present", "terminating"}]
          /\ object'[d] = o
          /\ \A e \in Desire : e # d => object'[e] = object[e]
      BY Zenon, <2>1, <2>2, BecomeObject
    <2> QED BY Zenon, <1>4, <2>2, <2>3 DEF FailDelete, docs
  <1>5. CASE UpdateStatus(d)
    <2> DEFINE new == SetSuccessfullyDeleted(desire[d], sync[d])
    <2>1. desire[d] \in DesireType
      BY Zenon
    <2>2. new \in DesireType /\ (new.deleted => sync[d] = "gone")
      BY Zenon, <2>1, WrittenDesire
    <2>3. desire' = desire \/ desire' = [desire EXCEPT ![d] = new]
      BY Zenon, <1>5 DEF UpdateStatus
    <2>4. UNCHANGED object /\ sync' = [sync EXCEPT ![d] = "idle"]
      BY Zenon, <1>5 DEF UpdateStatus, cluster
    <2> HIDE DEF new
    <2>5. TypeInv'
      <3> HIDE DEF DesireType
      <3>1. desire' \in [Desire -> DesireType]
        BY Zenon, <2>2, <2>3
      <3>2. sync' \in [Desire -> {"idle", "apply", "delete", "gone", "notGone"}]
        BY Zenon, <2>4
      <3> QED BY Zenon, <2>4, <3>1, <3>2
    <2>6. Settled(d)'
      BY Zenon, <1>5, <2>2, <2>3, <2>4
    <2>7. ASSUME NEW e \in Desire, e # d PROVE Settled(e)'
      BY Zenon, <2>3, <2>4, <2>7
    <2> QED BY Zenon, <2>5, <2>6, <2>7
  <1>6. CASE AbandonSync(d)
    BY Zenon, <1>6 DEF AbandonSync, docs, cluster
  <1> QED BY Zenon, <1>1, <1>2, <1>3, <1>4, <1>5, <1>6 DEF KubeApplier

\* The management cluster only removes objects.
LEMMA ManagementClusterStep == DeletionInv /\ ManagementCluster => DeletionInv'
  <1> SUFFICES ASSUME DeletionInv, ManagementCluster PROVE DeletionInv'
    BY Zenon
  <1> USE DEF DeletionInv, TypeInv, Settled, ReportsDeletion, DesireType
  <1>1. CASE Decide
    BY Zenon, <1>1 DEF Decide, docs
  <1>2. ASSUME NEW d \in Desire, Finalize(d) PROVE DeletionInv'
    <2>1. Become(d, "absent") BY Zenon, <1>2 DEF Finalize
    <2>2. /\ object' \in [Desire -> {"absent", "present", "terminating"}]
          /\ object'[d] = "absent"
          /\ \A e \in Desire : e # d => object'[e] = object[e]
      BY Zenon, <2>1, BecomeObject
    <2> QED BY Zenon, <1>2, <2>2 DEF Finalize, docs
  <1> QED BY Zenon, <1>1, <1>2 DEF ManagementCluster

\* A write of one desire that leaves no deletion reported keeps the invariant.
LEMMA DesireWrite ==
    ASSUME DeletionInv, UNCHANGED <<object, sync>>,
           desire' \in [Desire -> DesireType],
           \A d \in Desire : ReportsDeletion(d)' => ReportsDeletion(d)
    PROVE  DeletionInv'
BY Zenon DEF DeletionInv, TypeInv, Settled

\* The creator leaves applies only, and those with no condition.
LEMMA CreatorStep == DeletionInv /\ (Creator \/ AbandonCreate) => DeletionInv'
  <1> SUFFICES ASSUME DeletionInv, Creator \/ AbandonCreate PROVE DeletionInv'
    BY Zenon
  <1> USE DEF DeletionInv, TypeInv
  <1>1. CASE StartCreate
    BY Zenon, <1>1, DesireWrite DEF StartCreate, docs, cluster, ReportsDeletion
  <1>2. ASSUME NEW d \in Desire, EnsureApplyDesire(d) PROVE DeletionInv'
    <2>1. UNCHANGED <<object, sync>>
      BY Zenon, <1>2 DEF EnsureApplyDesire, cluster
    <2>2. desire' = desire \/ desire' = [desire EXCEPT ![d] = Applied]
      BY Zenon, <1>2 DEF EnsureApplyDesire
    <2>3. desire' \in [Desire -> DesireType]
      <3>1. Applied \in DesireType
        BY Zenon DEF Applied, DesireType
      <3> QED BY Zenon, <2>2, <3>1
    <2>4. \A e \in Desire : ReportsDeletion(e)' => ReportsDeletion(e)
      BY <2>2 DEF Applied, DesireType, ReportsDeletion
    <2> QED BY Zenon, <2>1, <2>3, <2>4, DesireWrite
  <1>3. CASE EnsureReadDesire
    BY Zenon, <1>3, DesireWrite DEF EnsureReadDesire, cluster, ReportsDeletion
  <1>4. CASE AbandonCreate
    BY Zenon, <1>4, DesireWrite DEF AbandonCreate, docs, cluster, ReportsDeletion
  <1> QED BY Zenon, <1>1, <1>2, <1>3, <1>4 DEF Creator

\* A cleanup flips a desire with its conditions cleared, or removes one.
LEMMA CleanupStep ==
    ASSUME DeletionInv, NEW c \in Cleaner, Cleanup(c) \/ FailRemoval(c) \/ AbandonCleanup(c)
    PROVE  DeletionInv'
  <1> USE DEF DeletionInv, TypeInv
  <1>1. CASE StartCleanup(c)
    BY Zenon, <1>1, DesireWrite DEF StartCleanup, docs, cluster, ReportsDeletion
  <1>2. ASSUME NEW d \in Desire, EnsureApplyDesireRemoved(c, d) PROVE DeletionInv'
    <2>1. UNCHANGED <<object, sync>>
      BY Zenon, <1>2 DEF EnsureApplyDesireRemoved, cluster
    <2>2. desire' = desire \/ desire' = [desire EXCEPT ![d] = Flipped(@)]
      BY Zenon, <1>2 DEF EnsureApplyDesireRemoved
    <2>3. desire' \in [Desire -> DesireType]
      <3>1. desire[d] \in DesireType
        BY Zenon
      <3>2. Flipped(desire[d]) \in DesireType
        BY Zenon, <3>1, WrittenDesire
      <3> QED BY Zenon, <2>2, <3>2
    <2>4. \A e \in Desire : ReportsDeletion(e)' => ReportsDeletion(e)
      BY Zenon, <2>2 DEF Flipped, DesireType, ReportsDeletion
    <2> QED BY Zenon, <2>1, <2>3, <2>4, DesireWrite
  <1>3. CASE Purge(c)
    <2>1. UNCHANGED <<object, sync>> /\ desire' = [desire EXCEPT ![cleaner[c].purge] = Absent]
      BY Zenon, <1>3 DEF Purge, cluster
    <2>2. desire' \in [Desire -> DesireType]
      BY Zenon, <2>1 DEF Absent, DesireType
    <2>3. \A e \in Desire : ReportsDeletion(e)' => ReportsDeletion(e)
      BY Zenon, <2>1 DEF Absent, DesireType, ReportsDeletion
    <2> QED BY Zenon, <2>1, <2>2, <2>3, DesireWrite
  <1>4. CASE FinishCleanup(c) \/ DeleteCredential \/ FailRemoval(c) \/ AbandonCleanup(c)
    BY Zenon, <1>4, DesireWrite
    DEF FinishCleanup, DeleteCredential, FailRemoval, AbandonCleanup, docs, cluster, ReportsDeletion
  <1> QED BY Zenon, <1>1, <1>2, <1>3, <1>4 DEF Cleanup

\* The sweep removes desires.
LEMMA SweeperStep == DeletionInv /\ Sweeper => DeletionInv'
  <1> SUFFICES ASSUME DeletionInv, Sweeper PROVE DeletionInv'
    BY Zenon
  <1> USE DEF DeletionInv, TypeInv
  <1>1. CASE SweepRead
    BY Zenon, <1>1, DesireWrite DEF SweepRead, cluster, ReportsDeletion
  <1>2. ASSUME NEW d \in Desire, Sweep(d) PROVE DeletionInv'
    <2>1. UNCHANGED <<object, sync>> /\ desire' = [desire EXCEPT ![d] = Absent]
      BY Zenon, <1>2 DEF Sweep, cluster
    <2>2. desire' \in [Desire -> DesireType]
      BY Zenon, <2>1 DEF Absent, DesireType
    <2>3. \A e \in Desire : ReportsDeletion(e)' => ReportsDeletion(e)
      BY Zenon, <2>1 DEF Absent, DesireType, ReportsDeletion
    <2> QED BY Zenon, <2>1, <2>2, <2>3, DesireWrite
  <1> QED BY Zenon, <1>1, <1>2 DEF Sweeper

\* Everything else leaves the desires, the objects and the syncs alone.
LEMMA OtherStep ==
    ASSUME DeletionInv,
           \/ Record \/ RefreshReadCopy \/ RevocationMarks \/ SeeClusterDeleting \/ CollectGarbage
           \/ \E d \in Desire : RefreshCopy(d)
           \/ UNCHANGED vars
    PROVE  DeletionInv'
  <1>1. UNCHANGED <<desire, object, sync>>
    BY Zenon DEF Record, Observe, MarkDeleting, RefreshReadCopy, RevocationMarks, SeeClusterDeleting,
           CollectGarbage, RefreshCopy, docs, cluster, vars
  <1> QED BY Zenon, <1>1, DesireWrite DEF DeletionInv, TypeInv, ReportsDeletion

\* Every step keeps the invariant.
LEMMA NextDeletion == DeletionInv /\ [Next]_vars => DeletionInv'
  <1> SUFFICES ASSUME DeletionInv, [Next]_vars PROVE DeletionInv'
    BY Zenon
  <1>1. CASE Step
    BY Zenon, <1>1, KubeApplierStep, ManagementClusterStep, CreatorStep, CleanupStep, SweeperStep, OtherStep
    DEF Step
  <1>2. CASE Failure
    BY Zenon, <1>2, KubeApplierStep, CreatorStep, CleanupStep DEF Failure
  <1>3. CASE UNCHANGED vars
    BY Zenon, <1>3, OtherStep
  <1> QED BY Zenon, <1>1, <1>2, <1>3 DEF Next

\* What EnsureApplyDesireRemoved relies on when it deletes a desire's document:
\* a Delete that reports SuccessfullyDeleted has no object left.
THEOREM DeletionReports == Spec => []DeletedMeansGone
  <1>1. DeletionInv => DeletedMeansGone
    BY Zenon DEF DeletionInv, Settled, ReportsDeletion, DeletedMeansGone
  <1> QED BY <1>1, InitDeletion, NextDeletion, PTL DEF Spec
-----------------------------------------------------------------------------
(* The mirror of a ReadDesire.                                               *)

ReadDesireType ==
    [stored : BOOLEAN, target : Target \cup {NoTarget},
     content : Target \cup {NoContent}, successful : {"Unknown", "True", "False"}]

InstanceType ==
    [state : {"free", "running", "cancelled"}, target : Target \cup {NoTarget},
     synced : BOOLEAN, seen : BOOLEAN, pc : {"idle", "decided", "fetched"}, confirm : BOOLEAN,
     content : Target \cup {NoContent}, current : BOOLEAN]

\* An instance runs if and only if the manager has its target on record, and
\* the manager builds one only when none runs.
Tracked ==
    /\ \A i \in Instance :
          instance[i].state = "running" => instance[i].target = running /\ running # NoTarget
    /\ running # NoTarget => \E i \in Instance : instance[i].state = "running"
    /\ manager.pc = "spawn" => running = NoTarget /\ manager.target # NoTarget

MirrorInv == TypeOK /\ Tracked

\* No instance runs at first.
LEMMA InitMirror == MirrorInit => MirrorInv
  <1> SUFFICES ASSUME MirrorInit PROVE MirrorInv
    OBVIOUS
  <1>1. Free \in InstanceType /\ Free.state = "free"
    BY DEF Free, InstanceType
  <1>2. NoDesire \in ReadDesireType
    BY DEF NoDesire, ReadDesireType
  <1>3. NotSyncing \in [pc : {"idle", "stop", "spawn"}, target : Target \cup {NoTarget}]
        /\ NotSyncing.pc = "idle"
    BY DEF NotSyncing
  <1>4. TypeOK
    <2>1. instance \in [Instance -> InstanceType]
      BY Zenon, <1>1 DEF MirrorInit
    <2>2. /\ readDesire \in ReadDesireType /\ existing \in SUBSET Target
          /\ notified \in BOOLEAN /\ queued \in BOOLEAN /\ running \in Target \cup {NoTarget}
          /\ manager \in [pc : {"idle", "stop", "spawn"}, target : Target \cup {NoTarget}]
      BY Zenon, <1>2, <1>3 DEF MirrorInit
    <2> QED
      BY Zenon, <2>1, <2>2 DEF TypeOK, InstanceType, ReadDesireType
  <1>5. Tracked
    BY <1>1, <1>3 DEF MirrorInit, Tracked
  <1> QED
    BY <1>4, <1>5 DEF MirrorInv

\* A step that starts and stops no instance, nor the manager.
LEMMA NothingStarts ==
    ASSUME MirrorInv, UNCHANGED <<manager, running>>, readDesire' \in ReadDesireType,
           existing' \in SUBSET Target, notified' \in BOOLEAN, queued' \in BOOLEAN,
           instance' \in [Instance -> InstanceType],
           \A i \in Instance : /\ instance'[i].state = "running" <=> instance[i].state = "running"
                               /\ instance[i].state = "running" => instance'[i].target = instance[i].target
    PROVE  MirrorInv'
  <1>1. TypeOK'
    BY DEF MirrorInv, TypeOK, ReadDesireType, InstanceType
  <1>2. Tracked'
    BY DEF MirrorInv, Tracked
  <1> QED
    BY <1>1, <1>2 DEF MirrorInv

\* What a fetch, and a write of the ReadDesire, make of an instance.
LEMMA FetchedInstance ==
    ASSUME NEW e \in InstanceType
    PROVE  /\ [e EXCEPT !.current = FALSE] \in InstanceType
           /\ [e EXCEPT !.current = FALSE].state = e.state
           /\ [e EXCEPT !.current = FALSE].target = e.target
           /\ [e EXCEPT !.pc = "fetched", !.current = TRUE] \in InstanceType
           /\ [e EXCEPT !.pc = "fetched", !.current = TRUE].state = e.state
           /\ [e EXCEPT !.pc = "fetched", !.current = TRUE].target = e.target
  BY Zenon DEF InstanceType

\* A write of the ReadDesire makes fetched etags stale, and nothing else.
LEMMA WriteReadDesire ==
    ASSUME MirrorInv, NEW new \in ReadDesireType, Write(new), UNCHANGED <<existing, queued>>
    PROVE  /\ readDesire' \in ReadDesireType /\ existing' \in SUBSET Target
           /\ notified' \in BOOLEAN /\ queued' \in BOOLEAN
           /\ instance' \in [Instance -> InstanceType]
           /\ \A i \in Instance : /\ instance'[i].state = instance[i].state
                                  /\ instance'[i].target = instance[i].target
  <1>1. instance \in [Instance -> InstanceType]
    BY DEF MirrorInv, TypeOK, InstanceType
  <1>2. \A i \in Instance : [instance[i] EXCEPT !.current = FALSE] \in InstanceType
    BY Zenon, <1>1, FetchedInstance
  <1>3. \A i \in Instance : instance'[i] = [instance[i] EXCEPT !.current = FALSE]
    BY DEF Write
  <1>4. instance' \in [Instance -> InstanceType]
    BY Zenon, <1>2 DEF Write
  <1> QED
    <2>1. \A i \in Instance : instance'[i].state = instance[i].state
                              /\ instance'[i].target = instance[i].target
      BY Zenon, <1>1, <1>3, FetchedInstance
    <2>2. /\ readDesire' \in ReadDesireType /\ existing' \in SUBSET Target
          /\ notified' \in BOOLEAN /\ queued' \in BOOLEAN
      BY Zenon DEF MirrorInv, TypeOK, Write
    <2> QED
      BY Zenon, <1>4, <2>1, <2>2

\* A worker that is done starts no instance and stops none that runs.
LEMMA WorkerIsDone ==
    ASSUME NEW f \in [Instance -> InstanceType], NEW i \in Instance
    PROVE  /\ WorkerDone(f, i) \in [Instance -> InstanceType]
           /\ \A j \in Instance :
                 /\ WorkerDone(f, i)[j].state = "running" <=> f[j].state = "running"
                 /\ f[j].state = "running" => WorkerDone(f, i)[j].target = f[j].target
  <1> DEFINE r == IF f[i].state = "cancelled" THEN Free
                  ELSE [f[i] EXCEPT !.pc = "idle", !.current = FALSE, !.confirm = FALSE,
                                    !.content = NoContent]
  <1>1. r \in InstanceType
    BY Zenon DEF Free, InstanceType
  <1>2. /\ r.state = "running" <=> f[i].state = "running"
        /\ f[i].state = "running" => r.target = f[i].target
    BY DEF Free, InstanceType
  <1>3. WorkerDone(f, i) = [f EXCEPT ![i] = r]
    BY DEF WorkerDone
  <1> HIDE DEF r
  <1> QED
    BY <1>1, <1>2, <1>3

\* The backend and the management cluster.
LEMMA MirrorEnvironment ==
    ASSUME MirrorInv,
           \/ \E t \in Target : PointReadDesire(t) \/ ChangeObject(t)
           \/ RemoveReadDesire
    PROVE  MirrorInv'
  <1>0. /\ readDesire \in ReadDesireType /\ existing \in SUBSET Target
        /\ notified \in BOOLEAN /\ queued \in BOOLEAN /\ instance \in [Instance -> InstanceType]
    BY Zenon DEF MirrorInv, TypeOK, ReadDesireType, InstanceType
  <1>1. ASSUME NEW new \in ReadDesireType, Write(new),
               UNCHANGED <<existing, queued, manager, running>>
        PROVE  MirrorInv'
    <2>1. UNCHANGED <<existing, queued>> /\ UNCHANGED <<manager, running>>
      BY Zenon, <1>1
    <2> QED
      BY Zenon, <1>1, <2>1, WriteReadDesire, NothingStarts
  <1>2. ASSUME NEW t \in Target, PointReadDesire(t) PROVE MirrorInv'
    <2> DEFINE new == [stored |-> TRUE, target |-> t, content |-> NoContent, successful |-> "Unknown"]
    <2>1. new \in ReadDesireType
      BY DEF ReadDesireType
    <2>2. Write(new) /\ UNCHANGED <<existing, queued, manager, running>>
      BY Zenon, <1>2 DEF PointReadDesire, kubeApplier
    <2> QED
      BY Zenon, <1>1, <2>1, <2>2
  <1>3. CASE RemoveReadDesire
    <2>1. NoDesire \in ReadDesireType
      BY DEF NoDesire, ReadDesireType
    <2>2. Write(NoDesire) /\ UNCHANGED <<existing, queued, manager, running>>
      BY Zenon, <1>3 DEF RemoveReadDesire, kubeApplier
    <2> QED
      BY Zenon, <1>1, <2>1, <2>2
  <1>4. ASSUME NEW t \in Target, ChangeObject(t) PROVE MirrorInv'
    <2>1. /\ existing' \in SUBSET Target /\ UNCHANGED <<readDesire, notified, queued, instance>>
          /\ UNCHANGED <<manager, running>>
      BY <1>0, <1>4 DEF ChangeObject, cosmos, kubeApplier
    <2> QED
      BY <1>0, <2>1, NothingStarts
  <1> QED
    BY Zenon, <1>2, <1>3, <1>4

\* The manager: it records the target of the instance it runs, and forgets it
\* only as it stops the instance.
LEMMA ManagerStep ==
    ASSUME MirrorInv,
           Notify \/ Resync \/ Manager \/ FailBuild \/ Restart
    PROVE  MirrorInv'
  <1> DEFINE ManagerType == [pc : {"idle", "stop", "spawn"}, target : Target \cup {NoTarget}]
  <1>0. /\ readDesire \in ReadDesireType /\ existing \in SUBSET Target
        /\ notified \in BOOLEAN /\ queued \in BOOLEAN /\ instance \in [Instance -> InstanceType]
        /\ running \in Target \cup {NoTarget} /\ manager \in ManagerType
    BY Zenon DEF MirrorInv, TypeOK, ReadDesireType, InstanceType
  <1>1. NotSyncing \in ManagerType /\ NotSyncing.pc = "idle"
    BY DEF NotSyncing
  <1>2. Free \in InstanceType /\ Free.state = "free"
    BY DEF Free, InstanceType
  <1>3. ASSUME readDesire' \in ReadDesireType, existing' \in SUBSET Target,
               notified' \in BOOLEAN, queued' \in BOOLEAN, instance' \in [Instance -> InstanceType],
               running' \in Target \cup {NoTarget}, manager' \in ManagerType
        PROVE  TypeOK'
    BY Zenon, <1>3 DEF TypeOK, ReadDesireType, InstanceType
  <1>4. CASE Notify \/ Resync
    <2>1. /\ UNCHANGED <<readDesire, existing, instance>> /\ UNCHANGED <<manager, running>>
          /\ notified' \in BOOLEAN /\ queued' \in BOOLEAN
      BY Zenon, <1>0, <1>4 DEF Notify, Resync, cosmos
    <2> QED
      BY <1>0, <2>1, NothingStarts
  <1>5. CASE ManagerFetch
    <2>1. /\ UNCHANGED <<readDesire, existing, notified, running, instance>> /\ queued' \in BOOLEAN
          /\ manager' \in ManagerType /\ manager'.pc # "spawn"
      <3>1. [pc |-> "stop", target |-> readDesire.target] \in ManagerType
        BY <1>0 DEF ReadDesireType
      <3> QED
        BY Zenon, <1>0, <1>1, <1>5, <3>1 DEF ManagerFetch, cosmos
    <2>2. TypeOK'
      BY Zenon, <1>0, <1>3, <2>1
    <2> QED
      BY <2>1, <2>2 DEF MirrorInv, Tracked
  <1>6. CASE StopByKey
    <2>1. /\ UNCHANGED <<readDesire, existing, notified, queued>> /\ running' = NoTarget
      BY <1>6 DEF StopByKey, cosmos
    <2>2. \A i \in Instance : Stopped(instance[i]) \in InstanceType
                              /\ Stopped(instance[i]).state # "running"
      BY Zenon, <1>0, <1>2 DEF Stopped, InstanceType
    <2>3. /\ instance' \in [Instance -> InstanceType]
          /\ \A i \in Instance : instance'[i].state # "running"
      BY <1>0, <1>6, <2>2 DEF StopByKey
    <2>4. manager' \in ManagerType /\ (manager'.pc = "spawn" => manager'.target # NoTarget)
      BY <1>0, <1>1, <1>6 DEF StopByKey
    <2>5. TypeOK'
      BY Zenon, <1>0, <1>3, <2>1, <2>3, <2>4
    <2> QED
      BY <2>1, <2>3, <2>4, <2>5 DEF MirrorInv, Tracked
  <1>7. ASSUME NEW i \in Instance, Spawn(i) PROVE MirrorInv'
    <2> DEFINE r == [Free EXCEPT !.state = "running", !.target = manager.target]
    <2>1. r \in InstanceType /\ r.state = "running" /\ r.target = manager.target
      BY Zenon, <1>0 DEF Free, InstanceType
    <2>2. /\ UNCHANGED <<readDesire, existing, notified, queued>>
          /\ instance' = [instance EXCEPT ![i] = r] /\ running' = manager.target
          /\ manager' = NotSyncing /\ manager.pc = "spawn"
      BY <1>7 DEF Spawn, cosmos
    <2> HIDE DEF r
    <2>3. instance' \in [Instance -> InstanceType] /\ running' \in Target \cup {NoTarget}
          /\ manager' \in ManagerType
      BY <1>0, <1>1, <2>1, <2>2
    <2>4. TypeOK'
      BY Zenon, <1>0, <1>3, <2>2, <2>3
    <2>5. running = NoTarget /\ manager.target # NoTarget
      BY <2>2 DEF MirrorInv, Tracked
    <2>6. \A j \in Instance : instance[j].state # "running"
      BY <2>5 DEF MirrorInv, Tracked
    <2>7. Tracked'
      BY <1>0, <1>1, <2>1, <2>2, <2>5, <2>6 DEF Tracked
    <2> QED
      BY <2>4, <2>7 DEF MirrorInv
  <1>8. CASE FailBuild
    <2>1. manager' = NotSyncing /\ UNCHANGED <<existing, queued>> /\ UNCHANGED running
      BY <1>8 DEF FailBuild
    <2>2. /\ readDesire' \in ReadDesireType /\ existing' \in SUBSET Target
          /\ notified' \in BOOLEAN /\ queued' \in BOOLEAN
          /\ instance' \in [Instance -> InstanceType]
          /\ \A i \in Instance : /\ instance'[i].state = instance[i].state
                                 /\ instance'[i].target = instance[i].target
      <3>1. CASE UNCHANGED <<readDesire, notified, instance>>
        BY <1>0, <2>1, <3>1
      <3>2. CASE Write([readDesire EXCEPT !.successful = "False"])
        <4>1. [readDesire EXCEPT !.successful = "False"] \in ReadDesireType
          BY Zenon, <1>0 DEF ReadDesireType
        <4> QED
          BY Zenon, <2>1, <3>2, <4>1, WriteReadDesire
      <3> QED
        BY <1>8, <3>1, <3>2 DEF FailBuild, cosmos
    <2>3. TypeOK'
      BY Zenon, <1>0, <1>1, <1>3, <2>1, <2>2
    <2> QED
      BY <1>1, <2>1, <2>2, <2>3 DEF MirrorInv, Tracked
  <1>9. CASE Restart
    <2>1. /\ UNCHANGED <<readDesire, existing>> /\ running' = NoTarget
          /\ manager' = NotSyncing /\ notified' \in BOOLEAN /\ queued' \in BOOLEAN
          /\ instance' = [i \in Instance |-> Free]
      BY <1>0, <1>9 DEF Restart, ReadDesireType
    <2>2. instance' \in [Instance -> InstanceType] /\ \A i \in Instance : instance'[i].state = "free"
      BY <1>2, <2>1
    <2>3. TypeOK'
      BY Zenon, <1>0, <1>1, <1>3, <2>1, <2>2
    <2> QED
      BY <1>1, <2>1, <2>2, <2>3 DEF MirrorInv, Tracked
  <1> QED
    BY Zenon, <1>4, <1>5, <1>6, <1>7, <1>8, <1>9 DEF Manager

\* An informer or a worker: a worker that outlives its instance brings none back.
LEMMA InstanceStep ==
    ASSUME MirrorInv, NEW i \in Instance,
           Watch(i) \/ DecideContent(i) \/ FetchForStatus(i) \/ ReplaceStatus(i)
              \/ AbandonStatus(i)
    PROVE  MirrorInv'
  <1> DEFINE Same(f) == /\ f \in [Instance -> InstanceType]
                        /\ \A j \in Instance :
                              /\ f[j].state = "running" <=> instance[j].state = "running"
                              /\ instance[j].state = "running" => f[j].target = instance[j].target
  <1>0. /\ readDesire \in ReadDesireType /\ existing \in SUBSET Target
        /\ notified \in BOOLEAN /\ queued \in BOOLEAN /\ instance \in [Instance -> InstanceType]
    BY Zenon DEF MirrorInv, TypeOK, ReadDesireType, InstanceType
  <1>1. UNCHANGED <<existing, queued>> /\ UNCHANGED <<manager, running>>
    BY Zenon DEF Watch, DecideContent, FetchForStatus, ReplaceStatus,
                 AbandonStatus, kubeApplier
  <1>2. ASSUME NEW r \in InstanceType, r.state = instance[i].state, r.target = instance[i].target
        PROVE  Same([instance EXCEPT ![i] = r])
    BY <1>0, <1>2
  <1>3. Same(WorkerDone(instance, i))
    BY Zenon, <1>0, WorkerIsDone
  <1>4. Same(instance')
    <2>1. CASE Watch(i)
      <3> DEFINE r == [instance[i] EXCEPT !.synced = TRUE, !.seen = (instance[i].target \in existing)]
      <3>1. (instance[i].target \in existing) \in BOOLEAN /\ instance[i] \in InstanceType
        BY <1>0
      <3>2. r \in InstanceType /\ r.state = instance[i].state /\ r.target = instance[i].target
        BY Zenon, <3>1 DEF InstanceType
      <3>3. instance' = [instance EXCEPT ![i] = r]
        BY Zenon, <1>0, <2>1 DEF Watch
      <3> HIDE DEF r
      <3> QED
        BY Zenon, <1>2, <3>2, <3>3
    <2>2. CASE DecideContent(i)
      <3> DEFINE new == IF instance[i].seen THEN instance[i].target ELSE NoContent
                 r == [instance[i] EXCEPT !.pc = "decided", !.content = new,
                                          !.confirm = (readDesire.content = new)]
      <3>1. instance[i].target \in Target /\ instance[i] \in InstanceType
        BY <1>0, <2>2 DEF DecideContent, MirrorInv, Tracked, InstanceType
      <3>2. new \in Target \cup {NoContent} /\ (readDesire.content = new) \in BOOLEAN
        BY <3>1
      <3>3. instance' = [instance EXCEPT ![i] = r]
        BY Zenon, <1>0, <2>2 DEF DecideContent
      <3> HIDE DEF new
      <3>4. r \in InstanceType /\ r.state = instance[i].state /\ r.target = instance[i].target
        BY Zenon, <3>1, <3>2 DEF InstanceType
      <3> HIDE DEF r
      <3> QED
        BY Zenon, <1>2, <3>3, <3>4
    <2>3. CASE FetchForStatus(i)
      <3> DEFINE r == [instance[i] EXCEPT !.pc = "fetched", !.current = TRUE]
      <3>1. r \in InstanceType /\ r.state = instance[i].state /\ r.target = instance[i].target
        BY Zenon, <1>0, FetchedInstance
      <3>2. instance' = [instance EXCEPT ![i] = r] \/ instance' = WorkerDone(instance, i)
        BY Zenon, <1>0, <2>3 DEF FetchForStatus
      <3> HIDE DEF r
      <3> QED
        BY Zenon, <1>2, <1>3, <3>1, <3>2
    <2>4. CASE ReplaceStatus(i)
      <3> DEFINE f == [k \in Instance |-> [instance[k] EXCEPT !.current = FALSE]]
      <3>1. \A k \in Instance : [instance[k] EXCEPT !.current = FALSE] \in InstanceType
        BY Zenon, <1>0, FetchedInstance
      <3>2. f \in [Instance -> InstanceType]
        BY Zenon, <3>1
      <3>3. \A k \in Instance : f[k].state = instance[k].state /\ f[k].target = instance[k].target
        BY Zenon, <1>0, FetchedInstance
      <3>4. instance' = WorkerDone(instance, i) \/ instance' = WorkerDone(f, i)
        BY <2>4 DEF ReplaceStatus
      <3> HIDE DEF f
      <3>5. Same(WorkerDone(f, i))
        <4> DEFINE g == WorkerDone(f, i)
        <4>1. /\ g \in [Instance -> InstanceType]
              /\ \A j \in Instance : /\ g[j].state = "running" <=> f[j].state = "running"
                                     /\ f[j].state = "running" => g[j].target = f[j].target
          BY Zenon, <3>2, WorkerIsDone
        <4> HIDE DEF g
        <4>2. Same(g)
          BY <3>3, <4>1
        <4> QED
          BY <4>2 DEF g
      <3> QED
        BY <1>3, <3>4, <3>5
    <2>5. CASE AbandonStatus(i)
      BY <1>3, <2>5 DEF AbandonStatus
    <2> QED
      BY <2>1, <2>2, <2>3, <2>4, <2>5
  <1>5. readDesire' \in ReadDesireType /\ notified' \in BOOLEAN
    <2>1. instance[i] \in InstanceType
      BY <1>0
    <2>2. Mutated(instance[i]) \in ReadDesireType
      BY Zenon, <1>0, <2>1 DEF Mutated, ReadDesireType, InstanceType
    <2> QED
      BY Zenon, <1>0, <2>2 DEF Watch, DecideContent, FetchForStatus, ReplaceStatus,
                       AbandonStatus, cosmos
  <1> QED
    BY Zenon, <1>0, <1>1, <1>4, <1>5, NothingStarts

\* Every step keeps the invariant.
LEMMA NextMirror == MirrorInv /\ [MirrorNext]_mirrorVars => MirrorInv'
  <1> SUFFICES ASSUME MirrorInv, [MirrorNext]_mirrorVars PROVE MirrorInv'
    OBVIOUS
  <1>1. CASE MirrorStep
    BY Zenon, <1>1, MirrorEnvironment, ManagerStep, InstanceStep DEF MirrorStep, Worker
  <1>2. CASE MirrorFailure
    BY Zenon, <1>2, ManagerStep, InstanceStep DEF MirrorFailure
  <1>3. CASE UNCHANGED mirrorVars
    <2>1. /\ UNCHANGED <<manager, running>>
          /\ UNCHANGED <<readDesire, existing, notified, queued, instance>>
      BY Zenon, <1>3 DEF mirrorVars, cosmos, kubeApplier
    <2> QED
      BY <2>1, NothingStarts DEF MirrorInv, TypeOK, ReadDesireType, InstanceType
  <1> QED
    BY <1>1, <1>2, <1>3 DEF MirrorNext

\* Every ReadDesire, the manager's table and every instance keep their types,
\* whatever is deleted, restarted or retargeted meanwhile.
THEOREM MirrorTypeCorrect == MirrorSpec => []TypeOK
  <1>1. MirrorInv => TypeOK
    BY DEF MirrorInv
  <1> QED
    BY <1>1, InitMirror, NextMirror, PTL DEF MirrorSpec

\* The instances that run watch the target the manager has on record and no other:
\* stopByKey stops the one for the old target before the next one is started.
THEOREM OneWatch == MirrorSpec => []OneWatchPerDesire
  <1>1. MirrorInv => OneWatchPerDesire
    BY DEF MirrorInv, Tracked, OneWatchPerDesire
  <1> QED
    BY <1>1, InitMirror, NextMirror, PTL DEF MirrorSpec
=============================================================================
