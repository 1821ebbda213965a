----------------------------- MODULE Placement -----------------------------
(***************************************************************************)
(* Which management cluster a new cluster is put on.  Placement reserves   *)
(* network interfaces (NICs) in the scheduling document of a management    *)
(* cluster and then records its choice in the cluster's                    *)
(* ServiceProviderCluster (SPC); no transaction covers the two.  The       *)
(* capacity report replaces a reservation by what is observed, and a       *)
(* cleanup drops the reservations nobody needs.  All decide on caches.     *)
(*                                                                         *)
(* The bounds of the model: a name is used by one cluster only, all of     *)
(* them use NICs (SWIFT), and a management cluster's ceiling stays as it   *)
(* is.  A POST that is carried out late is ClusterServiceBinding's subject.*)
(***************************************************************************)
EXTENDS Integers, FiniteSets

CONSTANTS
    Cluster,        \* the clusters
    SingleReplica,  \* the ones whose control plane has one replica
    MC,             \* the management clusters
    NoMC,
    Ceiling,        \* the NICs a management cluster has when scaled to its ceiling
    Scenarios,      \* which clusters are created and which management clusters take
                    \* them: bounds a run to one of these
    MaxDisturbances \* bound on what goes wrong in a run, or is undone

ASSUME ConstantsAssumption ==
    /\ IsFiniteSet(Cluster) /\ SingleReplica \subseteq Cluster
    /\ NoMC \notin MC /\ Ceiling \in Nat /\ MaxDisturbances \in Nat
    /\ Scenarios \subseteq [clusters : SUBSET Cluster, eligible : SUBSET MC]
    /\ Cluster \cap {"cache", "cleanup"} = {}

VARIABLES
    cluster,       \* the provisioning state of each cluster
    clusterCache,  \* what the cluster lister shows
    spc,           \* the SPC of each cluster
    spcCache,      \* what the SPC lister shows
    spcCopies,     \* who has a copy of the SPC that has the stored ETag
    sched,         \* the scheduling document of each management cluster
    schedCache,    \* what the scheduling lister shows
    schedCopies,   \* who has a copy of it that has the stored ETag
    eligible,      \* the management clusters that are schedulable, ready and report
    placer,        \* the placement sync of each cluster
    cleaner,       \* the cleanup sync of each management cluster
    hcp,           \* the hosted control plane of each cluster, in the real world
    disturbances   \* how many there were

clusterVars == <<cluster, clusterCache>>
spcVars == <<spc, spcCache, spcCopies>>
schedVars == <<sched, schedCache, schedCopies>>
world == <<eligible, disturbances>>
vars == <<clusterVars, spcVars, schedVars, placer, cleaner, hcp, world>>

NoSPC == [stored |-> FALSE, spec |-> NoMC]
NewSPC == [NoSPC EXCEPT !.stored = TRUE]
IdlePlacer == [step |-> "idle", mc |-> NoMC]
IdleCleaner == [step |-> "idle", kept |-> {}]

\* The clusters were accepted and have their SPCs, which the caches show: before
\* they do, no controller has work.
Init ==
    \E run \in Scenarios :
        /\ cluster = [c \in Cluster |-> IF c \in run.clusters THEN "Accepted" ELSE "gone"]
        /\ clusterCache = cluster
        /\ spc = [c \in Cluster |-> IF c \in run.clusters THEN NewSPC ELSE NoSPC]
        /\ spcCache = spc /\ spcCopies = [c \in Cluster |-> {"cache"}]
        /\ sched = [m \in MC |-> [pending |-> {}, observed |-> {}]]
        /\ schedCache = sched /\ schedCopies = [m \in MC |-> {"cache"}]
        /\ eligible = run.eligible
        /\ placer = [c \in Cluster |-> IdlePlacer] /\ cleaner = [m \in MC |-> IdleCleaner]
        /\ hcp = [c \in Cluster |-> NoMC] /\ disturbances = 0

-----------------------------------------------------------------------------
(* The documents.  A write moves the ETag on: no copy has it any more. *)

WriteSPC(c, doc) ==
    /\ spc' = [spc EXCEPT ![c] = doc]
    /\ spcCopies' = [spcCopies EXCEPT ![c] = {}]
    /\ UNCHANGED spcCache

WriteScheduling(m, doc) ==
    /\ sched' = [sched EXCEPT ![m] = doc]
    /\ schedCopies' = [schedCopies EXCEPT ![m] = {}]
    /\ UNCHANGED schedCache

RefreshCluster(c) ==
    /\ clusterCache' = [clusterCache EXCEPT ![c] = cluster[c]]
    /\ UNCHANGED <<cluster, spcVars, schedVars, placer, cleaner, hcp>>

RefreshSPC(c) ==
    /\ spcCache' = [spcCache EXCEPT ![c] = spc[c]]
    /\ spcCopies' = [spcCopies EXCEPT ![c] = @ \cup {"cache"}]
    /\ UNCHANGED <<clusterVars, spc, schedVars, placer, cleaner, hcp>>

RefreshScheduling(m) ==
    /\ schedCache' = [schedCache EXCEPT ![m] = sched[m]]
    /\ schedCopies' = [schedCopies EXCEPT ![m] = @ \cup {"cache"}]
    /\ UNCHANGED <<clusterVars, spcVars, sched, placer, cleaner, hcp>>

-----------------------------------------------------------------------------
(* The life of a cluster.  An update of a cluster that has failed is        *)
(* "Retrying"; one of a cluster that was provisioned changes nothing here.  *)

Active(state) == state \in {"Accepted", "Retrying"}

Life(c, from, to) ==
    /\ cluster[c] \in from
    /\ cluster' = [cluster EXCEPT ![c] = to]
    /\ UNCHANGED <<clusterCache, spcVars, schedVars, placer, cleaner, hcp>>

Fail(c) == Life(c, {"Accepted", "Retrying"}, "Failed")
Update(c) == Life(c, {"Failed"}, "Retrying")
Delete(c) == Life(c, {"Accepted", "Retrying", "Failed"}, "Deleting")

\* Another controller replaces the SPC, or placement, to say that nothing fits.
TouchSPC(c) ==
    /\ spc[c].stored /\ WriteSPC(c, spc[c])
    /\ UNCHANGED <<clusterVars, schedVars, placer, cleaner, hcp>>

\* In which order the documents of a deleted cluster go is ClusterTree's subject.
Remove(c) ==
    /\ cluster[c] = "Deleting" /\ hcp[c] = NoMC
    /\ cluster' = [cluster EXCEPT ![c] = "gone"]
    /\ WriteSPC(c, NoSPC)
    /\ UNCHANGED <<clusterCache, schedVars, placer, cleaner, hcp>>

-----------------------------------------------------------------------------
(* Cluster Service and the management clusters. *)

\* The POST names the management cluster the cached SPC names.
PostCluster(c) ==
    /\ hcp[c] = NoMC
    /\ clusterCache[c] \in {"Accepted", "Retrying", "Failed"}
    /\ cluster[c] \in {"Accepted", "Retrying", "Failed"}
    /\ spcCache[c].stored /\ spcCache[c].spec # NoMC
    /\ hcp' = [hcp EXCEPT ![c] = spcCache[c].spec]
    /\ UNCHANGED <<clusterVars, spcVars, schedVars, placer, cleaner>>

RemoveHCP(c) ==
    /\ cluster[c] = "Deleting" /\ hcp[c] # NoMC
    /\ hcp' = [hcp EXCEPT ![c] = NoMC]
    /\ UNCHANGED <<clusterVars, spcVars, schedVars, placer, cleaner>>

Observed(m) == {c \in Cluster : hcp[c] = m}

-----------------------------------------------------------------------------
(* The capacity report, mirrored from a management cluster and written to   *)
(* its scheduling document.  What delays the report delays this step.       *)

\* What is observed needs no reservation any more.
dropObservedPendingAssignments(pending, m) == pending \ Observed(m)

\* The document is read from the database: a conflict is a sync that does nothing.
persistObservedResources(m) ==
    LET doc == [pending |-> dropObservedPendingAssignments(sched[m].pending, m),
                observed |-> Observed(m)]
    IN  /\ doc # sched[m]
        /\ WriteScheduling(m, doc)
        /\ UNCHANGED <<clusterVars, spcVars, placer, cleaner, hcp>>

-----------------------------------------------------------------------------
(* Placement. *)

swiftNICsForCluster(c) == IF c \in SingleReplica THEN 1 ELSE 3

\* The sum over the clusters of S, of which those in single need one.
sumNICs(S, single) == 3 * Cardinality(S \ single) + Cardinality(S \cap single)

swiftNICs(S) == sumNICs(S, SingleReplica)

\* A cluster the lister does not have counts as one that needs the most.
swiftNICReservation(S) == sumNICs(S, {c \in SingleReplica : clusterCache[c] # "gone"})

\* An observed control plane counts with what its pods request once it is ready,
\* and until then with what is set aside for it.
availableResources(doc) ==
    Ceiling - swiftNICs(doc.observed) - swiftNICReservation(doc.pending)

HasMoreThan(doc, nics) == availableResources(doc) > nics

HasCapacity(doc, nics) == availableResources(doc) >= nics

needsWork(c) ==
    /\ spcCache[c].stored /\ spcCache[c].spec = NoMC
    /\ Active(clusterCache[c])

Fitting(c) == {m \in eligible : HasCapacity(schedCache[m], swiftNICsForCluster(c))}

\* The most NICs available; which of several is left open.
selectByCapacity(c) ==
    {m \in Fitting(c) :
        \A n \in Fitting(c) : availableResources(schedCache[n]) <= availableResources(schedCache[m])}

\* Its policy, its readiness or the age of its data rules it out.
LoseEligibility(m) ==
    /\ m \in eligible /\ eligible' = eligible \ {m}
    /\ UNCHANGED <<clusterVars, spcVars, schedVars, placer, cleaner, hcp>>

\* A sync up to its first write: the choice, and the copies it is made on.  A
\* reservation that the copy shows is not made again.
Select(c, m) ==
    /\ placer[c] = IdlePlacer /\ needsWork(c)
    /\ m \in selectByCapacity(c)
    /\ placer' = [placer EXCEPT ![c] =
          [step |-> IF c \in schedCache[m].pending THEN "record" ELSE "reserve", mc |-> m]]
    /\ spcCopies' = [spcCopies EXCEPT ![c] =
          IF "cache" \in @ THEN @ \cup {c} ELSE @]
    /\ schedCopies' = [schedCopies EXCEPT ![m] = IF "cache" \in @ THEN @ \cup {c} ELSE @]
    /\ UNCHANGED <<clusterVars, spc, spcCache, sched, schedCache, cleaner, hcp>>

\* The sync's copies are dropped with it.
EndSync(c) ==
    /\ placer' = [placer EXCEPT ![c] = IdlePlacer]
    /\ spcCopies' = [spcCopies EXCEPT ![c] = @ \ {c}]
    /\ schedCopies' = [m \in MC |-> schedCopies[m] \ {c}]

HasAnyCopy(c, m) == TRUE

HasCurrentCopy(c, m) == c \in schedCopies[m]

reservePendingAssignment(c) ==
    LET m == placer[c].mc IN
    /\ placer[c].step = "reserve"
    /\ IF HasCurrentCopy(c, m)
       THEN /\ placer' = [placer EXCEPT ![c].step = "record"]
            /\ WriteScheduling(m, [sched[m] EXCEPT !.pending = @ \cup {c}])
            /\ UNCHANGED spcVars
       ELSE EndSync(c) /\ UNCHANGED <<spc, spcCache, sched, schedCache>>
    /\ UNCHANGED <<clusterVars, cleaner, hcp>>

ReplacesAnySPC(c) == spc[c].stored

ReplacesSPC(c) == c \in spcCopies[c]

recordPlacementDecision(c) ==
    /\ placer[c].step = "record"
    /\ IF ReplacesSPC(c)
       THEN /\ placer' = [placer EXCEPT ![c] = IdlePlacer]
            /\ schedCopies' = [m \in MC |-> schedCopies[m] \ {c}]
            /\ WriteSPC(c, [spc[c] EXCEPT !.spec = placer[c].mc])
       ELSE EndSync(c) /\ UNCHANGED <<spc, spcCache>>
    /\ UNCHANGED <<clusterVars, sched, schedCache, cleaner, hcp>>

-----------------------------------------------------------------------------
(* The cleanup of reservations. *)

\* The observed placement takes precedence; it is the recorded one by
\* HostedWherePlaced, and left out.
effectivePlacement(c) == spcCache[c].spec

KeepPlaced(c, m) ==
    /\ spcCache[c].stored
    /\ \/ effectivePlacement(c) # NoMC
       \/ Active(clusterCache[c]) \/ clusterCache[c] = "gone"

\* A cluster that the lister does not have may be one that is being created.
shouldKeepPending(c, m) ==
    /\ spcCache[c].stored
    /\ \/ effectivePlacement(c) = m
       \/ /\ effectivePlacement(c) = NoMC
          /\ Active(clusterCache[c]) \/ clusterCache[c] = "gone"

Kept(m) == {c \in schedCache[m].pending : shouldKeepPending(c, m)}

StartCleanup(m) ==
    /\ cleaner[m] = IdleCleaner
    /\ Kept(m) # schedCache[m].pending
    /\ cleaner' = [cleaner EXCEPT ![m] = [step |-> "write", kept |-> Kept(m)]]
    /\ schedCopies' = [schedCopies EXCEPT ![m] =
          IF "cache" \in @ THEN @ \cup {"cleanup"} ELSE @]
    /\ UNCHANGED <<clusterVars, spcVars, sched, schedCache, placer, hcp>>

WriteCleanup(m) ==
    /\ cleaner[m].step = "write"
    /\ cleaner' = [cleaner EXCEPT ![m] = IdleCleaner]
    /\ IF "cleanup" \in schedCopies[m]
       THEN WriteScheduling(m, [sched[m] EXCEPT !.pending = cleaner[m].kept])
       ELSE UNCHANGED schedVars
    /\ UNCHANGED <<clusterVars, spcVars, placer, hcp>>

\* A sync fails, or the backend restarts.
AbandonPlacement(c) ==
    /\ placer[c] # IdlePlacer
    /\ EndSync(c)
    /\ UNCHANGED <<clusterVars, spc, spcCache, sched, schedCache, cleaner, hcp>>

AbandonCleanup(m) ==
    /\ cleaner[m] # IdleCleaner
    /\ cleaner' = [cleaner EXCEPT ![m] = IdleCleaner]
    /\ schedCopies' = [schedCopies EXCEPT ![m] = @ \ {"cleanup"}]
    /\ UNCHANGED <<clusterVars, spcVars, sched, schedCache, placer, hcp>>

-----------------------------------------------------------------------------
Place(c) ==
    \/ \E m \in MC : Select(c, m)
    \/ reservePendingAssignment(c) \/ recordPlacementDecision(c)

Cleanup(m) == StartCleanup(m) \/ WriteCleanup(m)

Informers ==
    \/ \E c \in Cluster : RefreshCluster(c) \/ RefreshSPC(c)
    \/ \E m \in MC : RefreshScheduling(m)

Step ==
    \/ Informers
    \/ \E c \in Cluster : Remove(c) \/ PostCluster(c) \/ RemoveHCP(c) \/ Place(c)
    \/ \E m \in MC : persistObservedResources(m) \/ Cleanup(m)

\* A creation fails, is repeated or undone, other writers and failures get in a
\* sync's way.
Disturbance ==
    \/ \E c \in Cluster : Fail(c) \/ Update(c) \/ Delete(c) \/ TouchSPC(c) \/ AbandonPlacement(c)
    \/ \E m \in MC : AbandonCleanup(m)

Undisturbed == UNCHANGED world

Next ==
    \/ Undisturbed /\ Step
    \/ /\ disturbances < MaxDisturbances
       /\ disturbances' = disturbances + 1
       /\ \/ Disturbance /\ UNCHANGED eligible
          \/ \E m \in MC : LoseEligibility(m)

Spec == Init /\ [][Next]_vars

\* Informers, placement and cleanup run time and again, though none need come to
\* a cluster while there is another, and disturbances end.  Nobody need send a
\* request, and no control plane need be created or reported.
Fairness ==
    /\ WF_vars(Undisturbed /\ Informers)
    /\ WF_vars(Undisturbed /\ \E c \in Cluster : Place(c))
    /\ WF_vars(Undisturbed /\ \E m \in MC : Cleanup(m))

LiveSpec == Spec /\ Fairness

-----------------------------------------------------------------------------
Placed(m) ==
    {c \in Cluster : spc[c].spec = m /\ cluster[c] = "Accepted"}

\* The clusters placed on a management cluster never need more NICs than it has
\* at its ceiling, however many syncs choose it on the same copy of its document
\* and whatever reservations the report and the cleanup drop meanwhile.  It is
\* said of the clusters that have neither failed nor been deleted.
NoOverbooking ==
    \A m \in MC : swiftNICs(Placed(m)) <= Ceiling

\* A control plane is where the SPC says it is to be, and stays there: a sync
\* that places the cluster once more, on a copy without the first decision,
\* never gets to write it.
HostedWherePlaced ==
    \A c \in Cluster :
        hcp[c] # NoMC => spc[c].stored /\ spc[c].spec = hcp[c]

\* Nobody needs the reservation any more.
Stale(c, m) ==
    /\ c \in sched[m].pending
    /\ \/ ~spc[c].stored
       \/ spc[c].spec \notin {m, NoMC}
       \/ spc[c].spec = NoMC /\ cluster[c] \in {"Failed", "Deleting"}

\* A stale reservation does not stay: left by a placement that was repeated
\* elsewhere, or by one that stopped before its decision was recorded.
ReservationsAreReleased == \A c \in Cluster, m \in MC : ~<>[]Stale(c, m)

Waiting(c) == cluster[c] = "Accepted" /\ spc[c].stored /\ spc[c].spec = NoMC

\* A cluster does not wait for ever while a management cluster has room for it,
\* its own reservations counted as taken: it is placed, whatever conflicts,
\* failures and stale copies its syncs meet.
WaitingClusterIsPlaced ==
    \A c \in Cluster, m \in MC :
        ~<>[](Waiting(c) /\ m \in eligible
                  /\ availableResources(sched[m]) >= swiftNICsForCluster(c))
=============================================================================
