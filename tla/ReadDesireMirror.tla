-------------------------- MODULE ReadDesireMirror --------------------------
(***************************************************************************)
(* How the kube-applier mirrors an object of the management cluster into   *)
(* the status of a ReadDesire.  A manager watches the ReadDesire and keeps *)
(* one per-instance controller running for its target; the instance owns   *)
(* an informer for the one object and a worker that publishes what the     *)
(* informer's cache holds.                                                 *)
(*                                                                         *)
(* When the target changes the manager cancels the old instance and waits  *)
(* for its Run to return.  Run returns when its context is cancelled; the  *)
(* worker is another goroutine, and may be in the middle of a sync.        *)
(*                                                                         *)
(* Content is told apart by the target it was observed for: NoContent      *)
(* stands for a target that does not exist.                                *)
(***************************************************************************)
CONSTANTS
    Target,       \* what spec.targetItem may name
    Instance,     \* per-instance controllers that exist at one time
    NoTarget,
    NoContent

ASSUME TargetAssumption == NoTarget \notin Target /\ NoContent \notin Target

VARIABLES
    readDesire,   \* the ReadDesire document
    existing,     \* the targets that exist on the management cluster
    notified,     \* the manager's informer has seen the last write of the desire
    queued,       \* the desire's key waits in the manager's queue
    manager,      \* the manager's sync: what it fetched
    running,      \* the manager's record of the instance it keeps running
    instance      \* the per-instance controllers

cosmos == <<readDesire, notified>>
kubeApplier == <<queued, manager, running>>
mirrorVars == <<cosmos, existing, kubeApplier, instance>>

Free == [state |-> "free", target |-> NoTarget, synced |-> FALSE, seen |-> FALSE,
         pc |-> "idle", confirm |-> FALSE, content |-> NoContent, current |-> FALSE]
NoDesire == [stored |-> FALSE, target |-> NoTarget, content |-> NoContent, successful |-> "Unknown"]
NotSyncing == [pc |-> "idle", target |-> NoTarget]

MirrorInit ==
    /\ readDesire = NoDesire
    /\ existing \in SUBSET Target
    /\ notified = TRUE
    /\ queued = FALSE
    /\ manager = NotSyncing
    /\ running = NoTarget
    /\ instance = [i \in Instance |-> Free]

\* Every write of the document makes the etag of what a worker fetched stale.
Write(new) ==
    /\ readDesire' = new
    /\ notified' = FALSE
    /\ instance' = [i \in Instance |-> [instance[i] EXCEPT !.current = FALSE]]

-----------------------------------------------------------------------------
(* The environment: the backend, and the management cluster. *)

\* EnsureReadDesire creates the desire, or points it elsewhere with an empty
\* status.
PointReadDesire(t) ==
    /\ ~readDesire.stored \/ readDesire.target # t
    /\ Write([stored |-> TRUE, target |-> t, content |-> NoContent, successful |-> "Unknown"])
    /\ UNCHANGED <<existing, kubeApplier>>

RemoveReadDesire ==
    /\ readDesire.stored
    /\ Write(NoDesire)
    /\ UNCHANGED <<existing, kubeApplier>>

ChangeObject(t) ==
    /\ existing' = IF t \in existing THEN existing \ {t} ELSE existing \cup {t}
    /\ UNCHANGED <<cosmos, kubeApplier, instance>>

-----------------------------------------------------------------------------
(* The manager. *)

\* handleAdd, handleUpdate and handleDelete queue the key on every event.
Notify ==
    /\ ~notified
    /\ notified' = TRUE
    /\ queued' = TRUE
    /\ UNCHANGED <<readDesire, existing, manager, running, instance>>

\* The resync delivers a desire that is in the informer's cache again.
Resync ==
    /\ notified
    /\ readDesire.stored
    /\ queued' = TRUE
    /\ UNCHANGED <<cosmos, existing, manager, running, instance>>

AnyInstanceWillDo == readDesire.stored /\ running # NoTarget
GoneIsIgnored == ~readDesire.stored \/ running = readDesire.target

\* An instance runs for the target of the stored desire.
UpToDate == readDesire.stored /\ running = readDesire.target

\* SyncOnce fetches the desire.
ManagerFetch ==
    /\ queued
    /\ manager.pc = "idle"
    /\ queued' = FALSE
    /\ manager' = IF UpToDate THEN NotSyncing
                  ELSE [pc |-> "stop", target |-> readDesire.target]
    /\ UNCHANGED <<cosmos, existing, running, instance>>

NotCancelled(r) == r

\* stopByKey forgets the instance, cancels it, and waits for Run to return.
\* Its worker makes no further call: all that may be left of it is the
\* Replace that it has sent.
Stopped(r) ==
    IF r.pc = "fetched"
    THEN [r EXCEPT !.state = "cancelled", !.synced = FALSE, !.seen = FALSE]
    ELSE Free

StopByKey ==
    /\ manager.pc = "stop"
    /\ running' = NoTarget
    /\ instance' = [i \in Instance |->
          IF instance[i].state = "running" THEN Stopped(instance[i]) ELSE instance[i]]
    /\ manager' = IF manager.target = NoTarget THEN NotSyncing ELSE [manager EXCEPT !.pc = "spawn"]
    /\ UNCHANGED <<cosmos, existing, queued>>

\* The manager builds an instance for the target it fetched, and runs it.
Spawn(i) ==
    /\ manager.pc = "spawn"
    /\ instance[i].state = "free"
    /\ instance' = [instance EXCEPT ![i] = [Free EXCEPT !.state = "running", !.target = manager.target]]
    /\ running' = manager.target
    /\ manager' = NotSyncing
    /\ UNCHANGED <<cosmos, existing, queued>>

\* Build fails: the manager reports it on whatever the desire is by now.
FailBuild ==
    /\ manager.pc = "spawn"
    /\ manager' = NotSyncing
    /\ IF readDesire.stored /\ readDesire.successful # "False"
       THEN Write([readDesire EXCEPT !.successful = "False"])
       ELSE UNCHANGED <<cosmos, instance>>
    /\ UNCHANGED <<existing, queued, running>>

\* The kube-applier restarts: its goroutines are gone, and the informer's
\* first list queues what it finds.
Restart ==
    /\ instance' = [i \in Instance |-> Free]
    /\ running' = NoTarget
    /\ manager' = NotSyncing
    /\ notified' = TRUE
    /\ queued' = readDesire.stored
    /\ UNCHANGED <<readDesire, existing>>

-----------------------------------------------------------------------------
(* A per-instance controller: its informer, and its worker. *)

\* The informer lists its object, and later catches up with it.
Watch(i) ==
    /\ instance[i].state = "running"
    /\ instance' = [instance EXCEPT ![i].synced = TRUE,
                                    ![i].seen = (instance[i].target \in existing)]
    /\ UNCHANGED <<cosmos, existing, kubeApplier>>

\* SyncOnce, once the informer has synced: fetch the desire, read the cache,
\* and decide whether there is content to publish.  An event, the first seed
\* of the queue and the ticker all start it.
DecideContent(i) ==
    /\ instance[i].state = "running"
    /\ instance[i].pc = "idle"
    /\ instance[i].synced
    /\ readDesire.stored
    /\ LET new == IF instance[i].seen THEN instance[i].target ELSE NoContent
       IN  instance' = [instance EXCEPT ![i].pc = "decided", ![i].content = new,
                                        ![i].confirm = (readDesire.content = new)]
    /\ UNCHANGED <<cosmos, existing, kubeApplier>>

\* The worker's sync is over; a cancelled worker stops here.
WorkerDone(instances, i) ==
    [instances EXCEPT ![i] = IF @.state = "cancelled" THEN Free
                             ELSE [@ EXCEPT !.pc = "idle", !.current = FALSE,
                                           !.confirm = FALSE, !.content = NoContent]]

\* UpdateStatus fetches the desire once more.
FetchForStatus(i) ==
    /\ instance[i].state = "running"
    /\ instance[i].pc = "decided"
    /\ instance' = IF readDesire.stored
                   THEN [instance EXCEPT ![i].pc = "fetched", ![i].current = TRUE]
                   ELSE WorkerDone(instance, i)
    /\ UNCHANGED <<cosmos, existing, kubeApplier>>

PublishesExistence(r) == [readDesire EXCEPT !.successful = "True", !.content = r.seen]

\* What a worker makes of the status it fetched.
Mutated(r) ==
    [readDesire EXCEPT !.successful = "True",
                       !.content = IF r.confirm THEN readDesire.content ELSE r.content]

\* Replace with the etag of that fetch.  The request of a worker that was
\* cancelled meanwhile may still be carried out.
ReplaceStatus(i) ==
    /\ instance[i].pc = "fetched"
    /\ instance[i].current
    /\ IF Mutated(instance[i]) = readDesire
       THEN instance' = WorkerDone(instance, i) /\ UNCHANGED cosmos
       ELSE /\ readDesire' = Mutated(instance[i])
            /\ notified' = FALSE
            /\ instance' = WorkerDone([k \in Instance |-> [instance[k] EXCEPT !.current = FALSE]], i)
    /\ UNCHANGED <<existing, kubeApplier>>

\* A call fails, the etag is stale, or the worker was cancelled: a worker
\* that still runs is queued again.
AbandonStatus(i) ==
    /\ instance[i].pc # "idle"
    /\ instance' = WorkerDone(instance, i)
    /\ UNCHANGED <<cosmos, existing, kubeApplier>>

-----------------------------------------------------------------------------
Worker(i) ==
    \/ DecideContent(i)
    \/ FetchForStatus(i)
    \/ ReplaceStatus(i)
    \/ instance[i].pc = "fetched" /\ ~instance[i].current /\ AbandonStatus(i)
    \/ instance[i].state = "cancelled" /\ AbandonStatus(i)

Manager == ManagerFetch \/ StopByKey \/ \E i \in Instance : Spawn(i)

\* A call that would have been carried out fails.
MirrorFailure ==
    \/ FailBuild
    \/ Restart
    \/ \E i \in Instance :
          /\ instance[i].state = "running"
          /\ instance[i].pc = "decided" \/ instance[i].current
          /\ AbandonStatus(i)

MirrorStep ==
    \/ \E t \in Target : PointReadDesire(t) \/ ChangeObject(t)
    \/ RemoveReadDesire
    \/ Notify \/ Resync \/ Manager
    \/ \E i \in Instance : Watch(i) \/ Worker(i)

MirrorNext == MirrorStep \/ MirrorFailure

MirrorSpec == MirrorInit /\ [][MirrorNext]_mirrorVars

\* The queues, tickers and informers keep manager and instances going; in the
\* end no call fails and nothing restarts.
MirrorFairness ==
    /\ WF_mirrorVars(Notify) /\ WF_mirrorVars(Resync) /\ WF_mirrorVars(Manager)
    /\ \A i \in Instance : WF_mirrorVars(Watch(i)) /\ WF_mirrorVars(Worker(i))
    /\ <>[][MirrorStep]_mirrorVars

MirrorLiveSpec == MirrorSpec /\ MirrorFairness

-----------------------------------------------------------------------------
\* Every variable has its type.
TypeOK ==
    /\ readDesire \in [stored : BOOLEAN, target : Target \cup {NoTarget},
                       content : Target \cup {NoContent}, successful : {"Unknown", "True", "False"}]
    /\ existing \in SUBSET Target
    /\ notified \in BOOLEAN
    /\ queued \in BOOLEAN
    /\ manager \in [pc : {"idle", "stop", "spawn"}, target : Target \cup {NoTarget}]
    /\ running \in Target \cup {NoTarget}
    /\ instance \in [Instance -> [state : {"free", "running", "cancelled"},
                                  target : Target \cup {NoTarget}, synced : BOOLEAN, seen : BOOLEAN,
                                  pc : {"idle", "decided", "fetched"}, confirm : BOOLEAN,
                                  content : Target \cup {NoContent}, current : BOOLEAN]]

\* What runs is what the manager has on record: at most one target is watched,
\* and it is the one that stopByKey would stop.  An instance the manager lost
\* track of would publish its own target's content for ever.
OneWatchPerDesire ==
    {instance[i].target : i \in {j \in Instance : instance[j].state = "running"}} \cup {NoTarget}
        = {running, NoTarget}

Observed == IF readDesire.target \in existing THEN readDesire.target ELSE NoContent

\* Once the desire's target and the objects stay as they are, the status shows
\* the target's content, and Successful, for good: through changes of the
\* target, workers that outlive their cancellation, lost etag races, failed
\* builds and restarts.
MirrorConverges ==
    /\ <>[]readDesire.stored
    /\ <>[][UNCHANGED <<readDesire.target, existing>>]_mirrorVars
    => <>[](readDesire.content = Observed /\ readDesire.successful = "True")

\* When the desire is gone for good, so is everything that was run for it.
WatchStops == <>[]~readDesire.stored => <>[](\A i \in Instance : instance[i].state = "free")
=============================================================================
