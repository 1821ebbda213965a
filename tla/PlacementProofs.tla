-------------------------- MODULE PlacementProofs --------------------------
(***************************************************************************)
(* That no management cluster is overbooked and that control planes are    *)
(* where their clusters were placed, for any finite number of clusters,    *)
(* any management clusters and any ceiling.                                *)
(*                                                                         *)
(* NoOverbooking is about decisions (SPCs) and capacity is about           *)
(* reservations (scheduling documents), which no transaction joins.  The   *)
(* invariant joins them: an accepted cluster's reservation stays from when *)
(* it is made until the control plane is observed (Reserved), because a    *)
(* cleanup that would drop it has read a document that has changed since;  *)
(* the accepted clusters that are reserved or observed fit (Booked, Room), *)
(* because a reservation is written only to the document it was found to   *)
(* fit in; and a decision is recorded once (Known).                        *)
(***************************************************************************)
EXTENDS Placement, FiniteSetTheorems, TLAPS

-----------------------------------------------------------------------------
(* The inductive invariant. *)

Accepted(c) == cluster[c] = "Accepted"

ClusterState == {"Accepted", "Retrying", "Failed", "Deleting", "gone"}
SPCType == [stored : BOOLEAN, spec : MC \cup {NoMC}]
SchedType == [pending : SUBSET Cluster, observed : SUBSET Cluster]
PlacerType == [step : {"idle", "reserve", "record"}, mc : MC \cup {NoMC}]
CleanerType == [step : {"idle", "write"}, kept : SUBSET Cluster]
Holder == Cluster \cup {"cache", "cleanup"}

PlacementType ==
    /\ cluster \in [Cluster -> ClusterState] /\ clusterCache \in [Cluster -> ClusterState]
    /\ spc \in [Cluster -> SPCType] /\ spcCache \in [Cluster -> SPCType]
    /\ spcCopies \in [Cluster -> SUBSET Holder]
    /\ sched \in [MC -> SchedType] /\ schedCache \in [MC -> SchedType]
    /\ schedCopies \in [MC -> SUBSET Holder]
    /\ eligible \subseteq MC
    /\ placer \in [Cluster -> PlacerType] /\ cleaner \in [MC -> CleanerType]
    /\ hcp \in [Cluster -> MC \cup {NoMC}]

\* What the caches and the syncs know of a cluster and its SPC: a decision is
\* not revised, an old copy shows it or none, and a copy that is still current
\* shows none.
Known(c) ==
    /\ Accepted(c) => clusterCache[c] = "Accepted"
    /\ cluster[c] # "gone" =>
          /\ spc[c].stored /\ spcCache[c].stored
          /\ spcCache[c].spec \in {NoMC, spc[c].spec}
    /\ hcp[c] # NoMC => cluster[c] # "gone" /\ spc[c].spec = hcp[c]
    /\ "cache" \in spcCopies[c] => spcCache[c] = spc[c]
    /\ c \in spcCopies[c] => spc[c].stored /\ spc[c].spec = NoMC
    /\ placer[c] = IdlePlacer => c \notin spcCopies[c] /\ \A m \in MC : c \notin schedCopies[m]
    /\ placer[c] # IdlePlacer => placer[c].mc \in MC /\ placer[c].step # "idle"

\* What an accepted cluster's reservation on m can count on: it is there if any
\* copy of the document shows it, before the decision is recorded and after it,
\* until the control plane is observed; and a cleanup under way keeps it.
Reserved(c, m) ==
    Accepted(c) =>
        /\ spc[c].spec = NoMC /\ c \in schedCache[m].pending => c \in sched[m].pending
        /\ c \in spcCopies[c] /\ placer[c].step = "record" /\ placer[c].mc = m =>
              c \in sched[m].pending
        /\ spc[c].spec = m => c \in sched[m].pending \cup sched[m].observed
        /\ c \in sched[m].observed => hcp[c] = m
        /\ "cleanup" \in schedCopies[m] /\ spc[c].spec \in {NoMC, m} /\ c \in sched[m].pending =>
              c \in cleaner[m].kept

Taken(doc) == doc.pending \cup doc.observed

Booked(doc) == {c \in Taken(doc) : Accepted(c)}

\* What is booked fits, and so does what a placement found room for, as long as
\* the document is the one it was found in.
Room(m) ==
    /\ "cache" \in schedCopies[m] => schedCache[m] = sched[m]
    /\ "cleanup" \in schedCopies[m] => cleaner[m] # IdleCleaner /\ cleaner[m].kept \subseteq sched[m].pending
    /\ swiftNICs(Booked(sched[m])) <= Ceiling
    /\ \A c \in Cluster :
          c \in schedCopies[m] /\ placer[c].step = "reserve" /\ placer[c].mc = m =>
              swiftNICs(Taken(sched[m]) \cup {c}) <= Ceiling

PlacementInv ==
    /\ PlacementType
    /\ \A c \in Cluster : Known(c)
    /\ \A m \in MC : Room(m)
    /\ \A c \in Cluster, m \in MC : Reserved(c, m)

-----------------------------------------------------------------------------
(* Counting NICs. *)

\* More clusters need no fewer NICs.
LEMMA NICsMonotone ==
    ASSUME NEW T \in SUBSET Cluster, NEW S \in SUBSET T
    PROVE  /\ swiftNICs(S) \in Nat /\ swiftNICs(T) \in Nat
           /\ swiftNICs(S) <= swiftNICs(T)
  <1>1. IsFiniteSet(T) /\ IsFiniteSet(S)
    BY ConstantsAssumption, FS_Subset
  <1>2. /\ IsFiniteSet(T \ SingleReplica) /\ IsFiniteSet(T \cap SingleReplica)
        /\ S \ SingleReplica \in SUBSET (T \ SingleReplica)
        /\ S \cap SingleReplica \in SUBSET (T \cap SingleReplica)
    BY <1>1, FS_Subset
  <1>3. /\ IsFiniteSet(S \ SingleReplica) /\ IsFiniteSet(S \cap SingleReplica)
        /\ Cardinality(S \ SingleReplica) <= Cardinality(T \ SingleReplica)
        /\ Cardinality(S \cap SingleReplica) <= Cardinality(T \cap SingleReplica)
    BY <1>2, FS_Subset
  <1>4. /\ Cardinality(S \ SingleReplica) \in Nat /\ Cardinality(T \ SingleReplica) \in Nat
        /\ Cardinality(S \cap SingleReplica) \in Nat /\ Cardinality(T \cap SingleReplica) \in Nat
    BY <1>2, <1>3, FS_CardinalityType
  <1> QED
    BY <1>3, <1>4 DEF swiftNICs, sumNICs

\* The NICs of disjoint sets of clusters add up.
LEMMA NICsAdd ==
    ASSUME NEW S \in SUBSET Cluster, NEW T \in SUBSET Cluster, S \cap T = {}
    PROVE  swiftNICs(S \cup T) = swiftNICs(S) + swiftNICs(T)
  <1>1. IsFiniteSet(T) /\ IsFiniteSet(S)
    BY ConstantsAssumption, FS_Subset
  <1>2. /\ IsFiniteSet(S \ SingleReplica) /\ IsFiniteSet(S \cap SingleReplica)
        /\ IsFiniteSet(T \ SingleReplica) /\ IsFiniteSet(T \cap SingleReplica)
    BY <1>1, FS_Subset
  <1>3. /\ Cardinality(S \ SingleReplica) \in Nat /\ Cardinality(T \ SingleReplica) \in Nat
        /\ Cardinality(S \cap SingleReplica) \in Nat /\ Cardinality(T \cap SingleReplica) \in Nat
    BY <1>2, FS_CardinalityType
  <1>4. /\ (S \cup T) \ SingleReplica = (S \ SingleReplica) \cup (T \ SingleReplica)
        /\ (S \cup T) \cap SingleReplica = (S \cap SingleReplica) \cup (T \cap SingleReplica)
        /\ (S \ SingleReplica) \cap (T \ SingleReplica) = {}
        /\ (S \cap SingleReplica) \cap (T \cap SingleReplica) = {}
    OBVIOUS
  <1>5. /\ Cardinality((S \cup T) \ SingleReplica)
             = Cardinality(S \ SingleReplica) + Cardinality(T \ SingleReplica)
        /\ Cardinality((S \cup T) \cap SingleReplica)
             = Cardinality(S \cap SingleReplica) + Cardinality(T \cap SingleReplica)
    <2>1. /\ Cardinality((S \ SingleReplica) \cup (T \ SingleReplica))
               = Cardinality(S \ SingleReplica) + Cardinality(T \ SingleReplica)
                   - Cardinality((S \ SingleReplica) \cap (T \ SingleReplica))
          /\ Cardinality((S \cap SingleReplica) \cup (T \cap SingleReplica))
               = Cardinality(S \cap SingleReplica) + Cardinality(T \cap SingleReplica)
                   - Cardinality((S \cap SingleReplica) \cap (T \cap SingleReplica))
      BY Zenon, <1>2, FS_Union
    <2>2. Cardinality({}) = 0
      BY Zenon, FS_EmptySet
    <2>3. /\ Cardinality((S \cup T) \ SingleReplica)
               = Cardinality(S \ SingleReplica) + Cardinality(T \ SingleReplica) - 0
          /\ Cardinality((S \cup T) \cap SingleReplica)
               = Cardinality(S \cap SingleReplica) + Cardinality(T \cap SingleReplica) - 0
      BY Zenon, <1>4, <2>1, <2>2
    <2> QED
      BY <1>3, <2>3
  <1> QED
    BY <1>3, <1>5 DEF swiftNICs, sumNICs

\* One cluster needs its own.
LEMMA NICsOfOne ==
    ASSUME NEW c \in Cluster
    PROVE  swiftNICs({c}) = swiftNICsForCluster(c)
  <1>0. Cardinality({}) = 0 /\ Cardinality({c}) = 1
    BY Zenon, FS_EmptySet, FS_Singleton
  <1>1. CASE c \in SingleReplica
    <2>1. {c} \ SingleReplica = {} /\ {c} \cap SingleReplica = {c}
      BY <1>1
    <2> QED
      BY <1>0, <1>1, <2>1 DEF swiftNICs, sumNICs, swiftNICsForCluster
  <1>2. CASE c \notin SingleReplica
    <2>1. {c} \ SingleReplica = {c} /\ {c} \cap SingleReplica = {}
      BY <1>2
    <2> QED
      BY <1>0, <1>2, <2>1 DEF swiftNICs, sumNICs, swiftNICsForCluster
  <1> QED
    BY <1>1, <1>2

\* Reservations are never counted for less than their clusters need.
LEMMA NICsOfPending ==
    ASSUME NEW S \in SUBSET Cluster
    PROVE  /\ swiftNICReservation(S) \in Nat
           /\ swiftNICs(S) <= swiftNICReservation(S)
  <1> DEFINE shown == {c \in SingleReplica : clusterCache[c] # "gone"}
             hidden == (S \cap SingleReplica) \ shown
  <1>1. IsFiniteSet(S)
    BY ConstantsAssumption, FS_Subset
  <1>2. /\ IsFiniteSet(S \ SingleReplica) /\ IsFiniteSet(S \cap shown) /\ IsFiniteSet(hidden)
    BY <1>1, FS_Subset
  <1>3. /\ Cardinality(S \ SingleReplica) \in Nat /\ Cardinality(S \cap shown) \in Nat
        /\ Cardinality(hidden) \in Nat
    BY <1>2, FS_CardinalityType
  <1>4. /\ S \cap SingleReplica = (S \cap shown) \cup hidden /\ (S \cap shown) \cap hidden = {}
        /\ S \ shown = (S \ SingleReplica) \cup hidden /\ (S \ SingleReplica) \cap hidden = {}
    OBVIOUS
  <1>5. /\ Cardinality(S \cap SingleReplica) = Cardinality(S \cap shown) + Cardinality(hidden)
        /\ Cardinality(S \ shown) = Cardinality(S \ SingleReplica) + Cardinality(hidden)
    <2> HIDE DEF shown, hidden
    <2> QED
      BY <1>2, <1>3, <1>4, FS_Union, FS_EmptySet
  <1>6. swiftNICReservation(S) = 3 * Cardinality(S \ shown) + Cardinality(S \cap shown)
    BY DEF swiftNICReservation, sumNICs
  <1>7. swiftNICs(S) = 3 * Cardinality(S \ SingleReplica) + Cardinality(S \cap SingleReplica)
    BY DEF swiftNICs, sumNICs
  <1> HIDE DEF shown, hidden
  <1> QED
    BY <1>3, <1>5, <1>6, <1>7

\* What is chosen has room for the cluster besides all that is reserved and observed.
LEMMA SelectedHasRoom ==
    ASSUME PlacementType, NEW c \in Cluster, NEW m \in selectByCapacity(c)
    PROVE  /\ m \in MC
           /\ swiftNICs(Taken(schedCache[m]) \cup {c}) <= Ceiling
  <1>1. /\ m \in eligible /\ m \in MC /\ schedCache[m] \in SchedType
        /\ HasCapacity(schedCache[m], swiftNICsForCluster(c))
    BY Zenon DEF selectByCapacity, Fitting, PlacementType
  <1> DEFINE P == schedCache[m].pending
             O == schedCache[m].observed
  <1>2. P \in SUBSET Cluster /\ O \in SUBSET Cluster
    BY Zenon, <1>1 DEF SchedType
  <1>3. swiftNICs(O) + swiftNICReservation(P) + swiftNICsForCluster(c) <= Ceiling
    <2>1. Ceiling - swiftNICs(O) - swiftNICReservation(P) >= swiftNICsForCluster(c)
      BY <1>1 DEF HasCapacity, availableResources
    <2>2. swiftNICs(O) \in Nat /\ swiftNICReservation(P) \in Nat /\ swiftNICsForCluster(c) \in Nat
      BY <1>2, NICsMonotone, NICsOfPending DEF swiftNICsForCluster
    <2> HIDE DEF P, O
    <2> QED
      BY <2>1, <2>2, ConstantsAssumption
  <1> HIDE DEF P, O
  <1>4. swiftNICs((P \cup O) \cup {c}) <= swiftNICs(P) + swiftNICs(O) + swiftNICs({c})
    <2>1. ASSUME NEW S \in SUBSET Cluster, NEW T \in SUBSET Cluster
          PROVE  swiftNICs(S \cup T) <= swiftNICs(S) + swiftNICs(T)
      <3>1. S \cup T = S \cup (T \ S) /\ S \cap (T \ S) = {} /\ T \ S \in SUBSET T /\ T \ S \in SUBSET Cluster
        OBVIOUS
      <3>2. swiftNICs(S \cup T) = swiftNICs(S) + swiftNICs(T \ S)
        BY <3>1, NICsAdd
      <3>3. /\ swiftNICs(S) \in Nat /\ swiftNICs(T \ S) \in Nat /\ swiftNICs(T) \in Nat
            /\ swiftNICs(T \ S) <= swiftNICs(T)
        BY <3>1, NICsMonotone
      <3> QED
        BY <3>2, <3>3
    <2>2. /\ P \cup O \in SUBSET Cluster /\ {c} \in SUBSET Cluster
          /\ (P \cup O) \cup {c} \in SUBSET Cluster
      BY <1>2
    <2>3. /\ swiftNICs((P \cup O) \cup {c}) <= swiftNICs(P \cup O) + swiftNICs({c})
          /\ swiftNICs(P \cup O) <= swiftNICs(P) + swiftNICs(O)
      BY <1>2, <2>1, <2>2
    <2>4. /\ swiftNICs(P) \in Nat /\ swiftNICs(O) \in Nat /\ swiftNICs({c}) \in Nat
          /\ swiftNICs(P \cup O) \in Nat /\ swiftNICs((P \cup O) \cup {c}) \in Nat
      BY <1>2, <2>2, NICsMonotone
    <2> QED
      BY <2>3, <2>4
  <1>5. swiftNICs(P) <= swiftNICReservation(P) /\ swiftNICs({c}) = swiftNICsForCluster(c)
    BY <1>2, NICsOfPending, NICsOfOne
  <1>6. /\ swiftNICs(P) \in Nat /\ swiftNICs(O) \in Nat /\ swiftNICs({c}) \in Nat
        /\ swiftNICReservation(P) \in Nat
        /\ swiftNICs((P \cup O) \cup {c}) \in Nat
    <2>1. {c} \in SUBSET Cluster /\ (P \cup O) \cup {c} \in SUBSET Cluster
      BY <1>2
    <2> QED
      BY <1>2, <2>1, NICsMonotone, NICsOfPending
  <1>7. swiftNICs((P \cup O) \cup {c}) <= Ceiling
    BY <1>3, <1>4, <1>5, <1>6, ConstantsAssumption
  <1> QED
    BY <1>1, <1>7 DEF Taken, P, O

-----------------------------------------------------------------------------
(* What keeps each part of the invariant. *)

\* Nothing the SPCs' part speaks of changes but that copies and syncs end, or
\* that a sync goes on.
LEMMA KnownKept ==
    ASSUME PlacementInv, UNCHANGED <<cluster, clusterCache, spc, spcCache, hcp>>,
           \A c \in Cluster : spcCopies'[c] \subseteq spcCopies[c],
           \A c \in Cluster, m \in MC : c \in schedCopies'[m] => c \in schedCopies[m],
           \A c \in Cluster :
              \/ placer'[c] = placer[c]
              \/ /\ placer'[c] = IdlePlacer /\ c \notin spcCopies'[c]
                 /\ \A m \in MC : c \notin schedCopies'[m]
              \/ placer[c] # IdlePlacer /\ placer'[c].mc \in MC /\ placer'[c].step # "idle"
    PROVE  \A c \in Cluster : Known(c)'
  <1> TAKE c \in Cluster
  <1>1. Known(c)
    BY Zenon DEF PlacementInv
  <1>2. IdlePlacer.step = "idle"
    BY Zenon DEF IdlePlacer
  <1>3. /\ Accepted(c)' => clusterCache'[c] = "Accepted"
        /\ cluster'[c] # "gone" =>
              /\ spc'[c].stored /\ spcCache'[c].stored
              /\ spcCache'[c].spec \in {NoMC, spc'[c].spec}
        /\ hcp'[c] # NoMC => cluster'[c] # "gone" /\ spc'[c].spec = hcp'[c]
        /\ "cache" \in spcCopies'[c] => spcCache'[c] = spc'[c]
        /\ c \in spcCopies'[c] => spc'[c].stored /\ spc'[c].spec = NoMC
    BY Zenon, <1>1 DEF Known, Accepted
  <1>4. /\ placer'[c] = IdlePlacer => c \notin spcCopies'[c] /\ \A m \in MC : c \notin schedCopies'[m]
        /\ placer'[c] # IdlePlacer => placer'[c].mc \in MC /\ placer'[c].step # "idle"
    BY Zenon, <1>1, <1>2 DEF Known
  <1> QED
    BY Zenon, <1>3, <1>4 DEF Known

\* A cleanup goes on as it was, or ends, and no copy with it.
CleanerKept(m) ==
    \/ cleaner'[m] = cleaner[m]
    \/ cleaner'[m] = IdleCleaner /\ "cleanup" \notin schedCopies'[m]

\* No document changes, no copy is taken, no cluster becomes accepted, no sync
\* is about to reserve that was not.
LEMMA RoomKept ==
    ASSUME PlacementInv, UNCHANGED <<sched, schedCache>>,
           \A m \in MC : schedCopies'[m] \subseteq schedCopies[m] /\ CleanerKept(m),
           \A c \in Cluster : Accepted(c)' => Accepted(c),
           \A c \in Cluster : placer'[c] = placer[c] \/ placer'[c].step # "reserve"
    PROVE  \A m \in MC : Room(m)'
  <1> TAKE m \in MC
  <1>1. Room(m) /\ sched[m] \in SchedType
    BY Zenon DEF PlacementInv, PlacementType
  <1>2. /\ "cache" \in schedCopies'[m] => schedCache'[m] = sched'[m]
        /\ "cleanup" \in schedCopies'[m] =>
              cleaner'[m] # IdleCleaner /\ cleaner'[m].kept \subseteq sched'[m].pending
    BY Zenon, <1>1 DEF Room, CleanerKept
  <1>3. swiftNICs(Booked(sched[m]))' <= Ceiling
    <2>1. /\ Booked(sched[m]) \in SUBSET Cluster
          /\ (Booked(sched[m]))' \in SUBSET Booked(sched[m])
      BY Zenon, <1>1 DEF Booked, Taken, SchedType
    <2>2. /\ swiftNICs((Booked(sched[m]))') <= swiftNICs(Booked(sched[m]))
          /\ swiftNICs((Booked(sched[m]))') \in Nat /\ swiftNICs(Booked(sched[m])) \in Nat
      BY Zenon, <2>1, NICsMonotone
    <2>3. swiftNICs(Booked(sched[m])) <= Ceiling
      BY Zenon, <1>1 DEF Room
    <2>4. (swiftNICs(Booked(sched[m])))' = swiftNICs((Booked(sched[m]))')
      BY Zenon DEF swiftNICs, sumNICs
    <2> QED
      BY <2>2, <2>3, <2>4, ConstantsAssumption
  <1>4. ASSUME NEW c \in Cluster, c \in schedCopies'[m], placer'[c].step = "reserve", placer'[c].mc = m
        PROVE  (swiftNICs(Taken(sched[m]) \cup {c}))' <= Ceiling
    <2>1. swiftNICs(Taken(sched[m]) \cup {c}) <= Ceiling
      BY Zenon, <1>1, <1>4 DEF Room
    <2> QED
      BY Zenon, <2>1 DEF Taken, swiftNICs, sumNICs
  <1> QED
    BY Zenon, <1>2, <1>3, <1>4 DEF Room

\* Nor does a reservation change, or what it rests on.
LEMMA ReservedKept ==
    ASSUME PlacementInv, UNCHANGED <<sched, schedCache>>,
           \A m \in MC : schedCopies'[m] \subseteq schedCopies[m] /\ CleanerKept(m),
           \A c \in Cluster :
              Accepted(c)' => /\ Accepted(c) /\ spc'[c].spec = spc[c].spec
                              /\ hcp'[c] = hcp[c] \/ hcp[c] = NoMC
                              /\ c \in spcCopies'[c] => c \in spcCopies[c]
                              /\ placer'[c] = placer[c] \/ placer'[c].step # "record"
    PROVE  \A c \in Cluster, m \in MC : Reserved(c, m)'
  <1> TAKE c \in Cluster, m \in MC
  <1>1. Reserved(c, m) /\ m # NoMC
    BY Zenon, ConstantsAssumption DEF PlacementInv
  <1>2. SUFFICES ASSUME Accepted(c)' PROVE Reserved(c, m)'
    BY Zenon DEF Reserved
  <1>3. /\ Accepted(c) /\ spc'[c].spec = spc[c].spec
        /\ hcp'[c] = hcp[c] \/ hcp[c] = NoMC
        /\ c \in spcCopies'[c] => c \in spcCopies[c]
        /\ placer'[c] = placer[c] \/ placer'[c].step # "record"
    BY Zenon, <1>2
  <1>4. /\ spc[c].spec = NoMC /\ c \in schedCache[m].pending => c \in sched[m].pending
        /\ c \in spcCopies[c] /\ placer[c].step = "record" /\ placer[c].mc = m => c \in sched[m].pending
        /\ spc[c].spec = m => c \in sched[m].pending \cup sched[m].observed
        /\ c \in sched[m].observed => hcp[c] = m
        /\ "cleanup" \in schedCopies[m] /\ spc[c].spec \in {NoMC, m} /\ c \in sched[m].pending =>
              c \in cleaner[m].kept
    BY Zenon, <1>1, <1>3 DEF Reserved
  <1>5. "cleanup" \in schedCopies'[m] => "cleanup" \in schedCopies[m] /\ cleaner'[m] = cleaner[m]
    BY Zenon DEF CleanerKept
  <1> QED
    BY Zenon, <1>1, <1>3, <1>4, <1>5 DEF Reserved

\* A scheduling document is replaced: by one that keeps what accepted clusters
\* count on and in which what is booked fits.
LEMMA ScheduleWritten ==
    ASSUME PlacementInv, NEW m \in MC, NEW doc \in SchedType, WriteScheduling(m, doc),
           UNCHANGED <<cluster, spc, spcCopies, hcp>>,
           \A n \in MC : n # m => cleaner'[n] = cleaner[n],
           \A c \in Cluster :
              \/ placer'[c] = placer[c]
              \/ placer'[c].step = "record" /\ placer'[c].mc = m /\ c \in doc.pending,
           \A c \in Cluster : Accepted(c) =>
              /\ spc[c].spec = NoMC /\ c \in sched[m].pending => c \in doc.pending
              /\ spc[c].spec = m /\ c \in Taken(sched[m]) => c \in Taken(doc)
              /\ c \in doc.observed => hcp[c] = m,
           swiftNICs(Booked(doc)) <= Ceiling
    PROVE  /\ \A n \in MC : Room(n)'
           /\ \A c \in Cluster, n \in MC : Reserved(c, n)'
  <1>1. /\ sched'[m] = doc /\ schedCopies'[m] = {} /\ schedCache' = schedCache
        /\ \A n \in MC : n # m => sched'[n] = sched[n] /\ schedCopies'[n] = schedCopies[n]
    BY Zenon DEF WriteScheduling, PlacementInv, PlacementType
  <1>2. \A c \in Cluster : Accepted(c)' <=> Accepted(c)
    BY Zenon DEF Accepted
  <1>3. ASSUME NEW n \in MC PROVE Room(n)'
    <2>1. CASE n = m
      <3>1. (swiftNICs(Booked(sched[n])))' = swiftNICs(Booked(doc))
        BY Zenon, <1>1, <1>2, <2>1 DEF Booked, Taken, Accepted, swiftNICs, sumNICs
      <3> QED
        BY Zenon, <1>1, <2>1, <3>1 DEF Room
    <2>2. CASE n # m
      <3>1. Room(n) /\ sched'[n] = sched[n] /\ schedCopies'[n] = schedCopies[n] /\ cleaner'[n] = cleaner[n]
        BY Zenon, <1>1, <2>2 DEF PlacementInv
      <3>2. /\ (swiftNICs(Booked(sched[n])))' = swiftNICs(Booked(sched[n]))
            /\ \A c \in Cluster : (swiftNICs(Taken(sched[n]) \cup {c}))' = swiftNICs(Taken(sched[n]) \cup {c})
        BY Zenon, <3>1 DEF Booked, Taken, Accepted, swiftNICs, sumNICs
      <3>3. \A c \in Cluster : placer'[c].step = "reserve" => placer'[c] = placer[c]
        BY Zenon
      <3> QED
        BY Zenon, <1>1, <3>1, <3>2, <3>3 DEF Room
    <2> QED
      BY Zenon, <2>1, <2>2
  <1>4. ASSUME NEW c \in Cluster, NEW n \in MC PROVE Reserved(c, n)'
    <2>0. SUFFICES ASSUME Accepted(c)' PROVE Reserved(c, n)'
      BY Zenon DEF Reserved
    <2>1. /\ Accepted(c) /\ Reserved(c, n) /\ Reserved(c, m) /\ Known(c) /\ m # NoMC
          /\ spc'[c] = spc[c] /\ spcCopies'[c] = spcCopies[c] /\ hcp'[c] = hcp[c]
      BY Zenon, <1>2, <2>0, ConstantsAssumption DEF PlacementInv
    <2>2. CASE n = m
      <3>1. spc'[c].spec = NoMC /\ c \in schedCache'[m].pending => c \in sched'[m].pending
        BY Zenon, <1>1, <2>1 DEF Reserved
      <3>2. c \in spcCopies'[c] /\ placer'[c].step = "record" /\ placer'[c].mc = m => c \in sched'[m].pending
        BY Zenon, <1>1, <2>1 DEF Reserved, Known
      <3>3. spc'[c].spec = m => c \in sched'[m].pending \cup sched'[m].observed
        BY Zenon, <1>1, <2>1 DEF Reserved, Taken
      <3>4. c \in sched'[m].observed => hcp'[c] = m
        BY Zenon, <1>1, <2>1
      <3> QED
        BY Zenon, <1>1, <2>2, <3>1, <3>2, <3>3, <3>4 DEF Reserved
    <2>3. CASE n # m
      <3>1. /\ sched'[n] = sched[n] /\ schedCopies'[n] = schedCopies[n] /\ cleaner'[n] = cleaner[n]
            /\ placer'[c] = placer[c] \/ placer'[c].mc # n
        BY Zenon, <1>1, <2>3
      <3> QED
        BY Zenon, <1>1, <2>1, <3>1 DEF Reserved
    <2> QED
      BY Zenon, <2>2, <2>3
  <1> QED
    BY Zenon, <1>3, <1>4

-----------------------------------------------------------------------------
(* The types. *)

\* Every step keeps the types.
LEMMA TypeStep ==
    ASSUME PlacementInv, [Next]_vars
    PROVE  PlacementType'
  <1> PlacementType /\ \A c \in Cluster : Known(c)
    BY Zenon DEF PlacementInv
  <1>1. /\ NoSPC \in SPCType /\ NewSPC \in SPCType
        /\ IdlePlacer \in PlacerType /\ IdleCleaner \in CleanerType
        /\ \A c \in Cluster : {c} \in SUBSET Holder
        /\ {"cache"} \in SUBSET Holder /\ {"cleanup"} \in SUBSET Holder
    BY Zenon DEF NoSPC, NewSPC, IdlePlacer, IdleCleaner, SPCType, PlacerType, CleanerType, Holder
  <1>2. ASSUME NEW c \in Cluster, RefreshCluster(c) \/ RefreshSPC(c), UNCHANGED eligible
        PROVE  PlacementType'
    <2>1. CASE RefreshCluster(c)
      BY Zenon, <1>2, <2>1 DEF PlacementType, RefreshCluster, spcVars, schedVars
    <2>2. CASE RefreshSPC(c)
      BY Zenon, <1>1, <1>2, <2>2 DEF PlacementType, RefreshSPC, schedVars, clusterVars
    <2> QED
      BY Zenon, <1>2, <2>1, <2>2
  <1>3. ASSUME NEW m \in MC, RefreshScheduling(m), UNCHANGED eligible
        PROVE  PlacementType'
    BY Zenon, <1>1, <1>3 DEF PlacementType, RefreshScheduling, spcVars, clusterVars
  <1>4. ASSUME NEW c \in Cluster, Fail(c) \/ Update(c) \/ Delete(c), UNCHANGED eligible
        PROVE  PlacementType'
    BY Zenon, <1>1, <1>4 DEF PlacementType, Fail, Update, Delete, Life, ClusterState, spcVars, schedVars
  <1>5. ASSUME NEW c \in Cluster, TouchSPC(c) \/ Remove(c), UNCHANGED eligible
        PROVE  PlacementType'
    <2>1. CASE TouchSPC(c)
      BY Zenon, <1>5, <2>1 DEF PlacementType, TouchSPC, WriteSPC, schedVars, clusterVars
    <2>2. CASE Remove(c)
      BY Zenon, <1>1, <1>5, <2>2 DEF PlacementType, Remove, WriteSPC, ClusterState, schedVars
    <2> QED
      BY Zenon, <1>5, <2>1, <2>2
  <1>6. ASSUME NEW c \in Cluster, PostCluster(c) \/ RemoveHCP(c), UNCHANGED eligible
        PROVE  PlacementType'
    <2>1. spcCache[c].spec \in MC \cup {NoMC}
      BY Zenon DEF PlacementType, SPCType
    <2> QED
      BY Zenon, <1>6, <2>1 DEF PlacementType, PostCluster, RemoveHCP, spcVars, schedVars, clusterVars
  <1>7. ASSUME NEW m \in MC, persistObservedResources(m), UNCHANGED eligible
        PROVE  PlacementType'
    <2>1. [pending |-> dropObservedPendingAssignments(sched[m].pending, m), observed |-> Observed(m)] \in SchedType
      BY DEF PlacementType, SchedType, dropObservedPendingAssignments, Observed
    <2> QED
      BY Zenon, <1>7, <2>1 DEF PlacementType, persistObservedResources, WriteScheduling, spcVars,
         clusterVars
  <1>8. ASSUME NEW c \in Cluster, NEW m \in MC, Select(c, m), UNCHANGED eligible
        PROVE  PlacementType'
    <2>1. [step |-> IF c \in schedCache[m].pending THEN "record" ELSE "reserve", mc |-> m] \in PlacerType
      BY DEF PlacerType
    <2> QED
      BY Zenon, <1>1, <1>8, <2>1 DEF PlacementType, Select, clusterVars
  <1>9. ASSUME NEW c \in Cluster, reservePendingAssignment(c), UNCHANGED eligible
        PROVE  PlacementType'
    <2>1. placer[c].mc \in MC
      <3>1. placer[c].step = "reserve"
        BY Zenon, <1>9 DEF reservePendingAssignment
      <3>2. placer[c] # IdlePlacer
        BY <3>1 DEF IdlePlacer
      <3> QED
        BY Zenon, <3>2 DEF Known
    <2>2. /\ [placer[c] EXCEPT !.step = "record"] \in PlacerType
          /\ [sched[placer[c].mc] EXCEPT !.pending = @ \cup {c}] \in SchedType
      <3>1. placer[c] \in PlacerType /\ sched[placer[c].mc] \in SchedType
        BY Zenon, <2>1 DEF PlacementType
      <3> QED
        BY <3>1 DEF PlacerType, SchedType
    <2>3. placer' \in [Cluster -> PlacerType]
      BY <1>1, <1>9, <2>2 DEF PlacementType, reservePendingAssignment, EndSync
    <2>4. /\ UNCHANGED <<cluster, clusterCache, spc, spcCache, schedCache, cleaner, hcp>>
          /\ UNCHANGED spcCopies \/ spcCopies' = [spcCopies EXCEPT ![c] = @ \ {c}]
          /\ \/ schedCopies' = [schedCopies EXCEPT ![placer[c].mc] = {}]
             \/ schedCopies' = [m \in MC |-> schedCopies[m] \ {c}]
      BY Zenon, <1>9 DEF reservePendingAssignment, EndSync, WriteScheduling, clusterVars, spcVars
    <2>5. spcCopies' \in [Cluster -> SUBSET Holder] /\ schedCopies' \in [MC -> SUBSET Holder]
      BY <2>4 DEF PlacementType
    <2>6. sched' \in [MC -> SchedType]
      BY Zenon, <1>9, <2>2 DEF PlacementType, reservePendingAssignment, WriteScheduling
    <2> QED
      BY Zenon, <1>9, <2>3, <2>4, <2>5, <2>6 DEF PlacementType
  <1>10. ASSUME NEW c \in Cluster, recordPlacementDecision(c), UNCHANGED eligible
         PROVE  PlacementType'
    <2>1. [spc[c] EXCEPT !.spec = placer[c].mc] \in SPCType
      <3>1. spc[c] \in SPCType /\ placer[c] \in PlacerType
        BY Zenon DEF PlacementType
      <3> QED
        BY <3>1 DEF PlacerType, SPCType
    <2>2. /\ UNCHANGED spc \/ spc' = [spc EXCEPT ![c] = [spc[c] EXCEPT !.spec = placer[c].mc]]
          /\ UNCHANGED spcCache
          /\ spcCopies' = [spcCopies EXCEPT ![c] = {}] \/ spcCopies' = [spcCopies EXCEPT ![c] = @ \ {c}]
          /\ schedCopies' = [m \in MC |-> schedCopies[m] \ {c}]
          /\ placer' = [placer EXCEPT ![c] = IdlePlacer]
      BY Zenon, <1>10 DEF recordPlacementDecision, EndSync, WriteSPC
    <2>3. spc' \in [Cluster -> SPCType]
      BY Zenon, <2>1, <2>2 DEF PlacementType
    <2>4. spcCopies' \in [Cluster -> SUBSET Holder] /\ schedCopies' \in [MC -> SUBSET Holder]
      BY <2>2 DEF PlacementType
    <2>5. /\ spcCache' \in [Cluster -> SPCType] /\ placer' \in [Cluster -> PlacerType]
      BY Zenon, <1>1, <2>2 DEF PlacementType
    <2> QED
      BY Zenon, <1>10, <2>3, <2>4, <2>5 DEF PlacementType, recordPlacementDecision, clusterVars
  <1>11. ASSUME NEW m \in MC, StartCleanup(m), UNCHANGED eligible
         PROVE  PlacementType'
    <2>1. [step |-> "write", kept |-> Kept(m)] \in CleanerType
      BY DEF PlacementType, SchedType, CleanerType, Kept
    <2> QED
      BY Zenon, <1>1, <1>11, <2>1 DEF PlacementType, StartCleanup, clusterVars, spcVars
  <1>12. ASSUME NEW m \in MC, WriteCleanup(m), UNCHANGED eligible
         PROVE  PlacementType'
    <2>1. [sched[m] EXCEPT !.pending = cleaner[m].kept] \in SchedType
      <3>1. sched[m] \in SchedType /\ cleaner[m] \in CleanerType
        BY Zenon DEF PlacementType
      <3> QED
        BY <3>1 DEF SchedType, CleanerType
    <2> QED
      BY Zenon, <1>1, <1>12, <2>1 DEF PlacementType, WriteCleanup, WriteScheduling, clusterVars,
         spcVars, schedVars
  <1>13. ASSUME NEW c \in Cluster, AbandonPlacement(c), UNCHANGED eligible
         PROVE  PlacementType'
    BY Zenon, <1>1, <1>13 DEF PlacementType, AbandonPlacement, EndSync, clusterVars
  <1>14. ASSUME NEW m \in MC, AbandonCleanup(m), UNCHANGED eligible
         PROVE  PlacementType'
    BY Zenon, <1>1, <1>14 DEF PlacementType, AbandonCleanup, clusterVars, spcVars
  <1>15. ASSUME NEW m \in MC, LoseEligibility(m)
         PROVE  PlacementType'
    BY Zenon, <1>15 DEF PlacementType, LoseEligibility, clusterVars, spcVars, schedVars
  <1>16. CASE UNCHANGED vars
    BY Zenon, <1>16 DEF PlacementType, vars, world, clusterVars, spcVars, schedVars
  <1> QED
    BY Zenon, <1>2, <1>3, <1>4, <1>5, <1>6, <1>7, <1>8, <1>9, <1>10, <1>11, <1>12, <1>13, <1>14,
       <1>15, <1>16 DEF Next, Step, Disturbance, Informers, Place, Cleanup, Undisturbed, world

-----------------------------------------------------------------------------
(* The steps.  Each lemma shows the parts of the invariant but the types. *)

Parts ==
    /\ \A c \in Cluster : Known(c)
    /\ \A m \in MC : Room(m)
    /\ \A c \in Cluster, m \in MC : Reserved(c, m)

\* An informer catches up with a cluster or its SPC.
LEMMA RefreshStep ==
    ASSUME PlacementInv, NEW c \in Cluster, RefreshCluster(c) \/ RefreshSPC(c)
    PROVE  Parts'
  <1>1. /\ UNCHANGED <<cluster, spc, sched, schedCache, schedCopies, placer, cleaner, hcp>>
        /\ \A d \in Cluster : d \in spcCopies'[d] => d \in spcCopies[d]
    BY ConstantsAssumption DEF RefreshCluster, RefreshSPC, spcVars, schedVars, clusterVars,
       PlacementInv,
       PlacementType
  <1>2. \A d \in Cluster : (Accepted(d)' <=> Accepted(d))
    BY Zenon, <1>1 DEF Accepted
  <1>3. \A m \in MC : Room(m)'
    <2>1. \A m \in MC : schedCopies'[m] \subseteq schedCopies[m] /\ CleanerKept(m)
      BY Zenon, <1>1 DEF CleanerKept
    <2>2. \A d \in Cluster : Accepted(d)' => Accepted(d)
      BY Zenon, <1>2
    <2>3. \A d \in Cluster : placer'[d] = placer[d] \/ placer'[d].step # "reserve"
      BY Zenon, <1>1
    <2> QED
      BY Zenon, <1>1, <2>1, <2>2, <2>3, RoomKept
  <1>4. \A d \in Cluster, m \in MC : Reserved(d, m)'
    <2>1. \A m \in MC : schedCopies'[m] \subseteq schedCopies[m] /\ CleanerKept(m)
      BY Zenon, <1>1 DEF CleanerKept
    <2>2. \A d \in Cluster :
              Accepted(d)' => /\ Accepted(d) /\ spc'[d].spec = spc[d].spec
                              /\ hcp'[d] = hcp[d] \/ hcp[d] = NoMC
                              /\ d \in spcCopies'[d] => d \in spcCopies[d]
                              /\ placer'[d] = placer[d] \/ placer'[d].step # "record"
      BY Zenon, <1>1, <1>2
    <2> QED
      BY Zenon, <1>1, <2>1, <2>2, ReservedKept
  <1>5. ASSUME NEW d \in Cluster PROVE Known(d)'
    <2>1. Known(d)
      BY Zenon DEF PlacementInv
    <2>2. /\ clusterCache'[d] = clusterCache[d] \/ clusterCache'[d] = cluster[d]
          /\ \/ spcCache'[d] = spcCache[d] /\ spcCopies'[d] = spcCopies[d]
             \/ spcCache'[d] = spc[d]
      BY Zenon DEF RefreshCluster, RefreshSPC, spcVars, clusterVars, PlacementInv, PlacementType
    <2> QED
      BY Zenon, <1>1, <2>1, <2>2 DEF Known, Accepted
  <1> QED
    BY Zenon, <1>3, <1>4, <1>5 DEF Parts

\* A cluster's state changes, or its SPC without its decision, or it goes with its
\* SPC: no cluster is accepted that was not.
LEMMA LifeStep ==
    ASSUME PlacementInv, NEW c \in Cluster,
           Fail(c) \/ Update(c) \/ Delete(c) \/ TouchSPC(c) \/ Remove(c)
    PROVE  Parts'
  <1>1. /\ UNCHANGED <<clusterCache, spcCache, sched, schedCache, schedCopies, placer, cleaner, hcp>>
        /\ \A d \in Cluster : spcCopies'[d] = spcCopies[d] \/ spcCopies'[d] = {}
    BY Zenon DEF Fail, Update, Delete, Life, TouchSPC, Remove, WriteSPC, spcVars, schedVars,
       clusterVars,
       PlacementInv, PlacementType
  <1>2. \A d \in Cluster :
           \/ /\ cluster'[d] = "gone" /\ hcp[d] = NoMC /\ spcCopies'[d] = {}
           \/ /\ cluster[d] # "gone" \/ cluster'[d] = "gone"
              /\ cluster'[d] = cluster[d] \/ (cluster'[d] # "Accepted" /\ cluster'[d] # "gone")
              /\ spc'[d] = spc[d]
    BY Zenon DEF Fail, Update, Delete, Life, TouchSPC, Remove, WriteSPC, spcVars, schedVars,
       clusterVars,
       PlacementInv, PlacementType
  <1>3. \A d \in Cluster : Accepted(d)' => Accepted(d) /\ spc'[d] = spc[d]
    BY Zenon, <1>2 DEF Accepted
  <1>4. \A m \in MC : schedCopies'[m] \subseteq schedCopies[m] /\ CleanerKept(m)
    BY Zenon, <1>1 DEF CleanerKept
  <1>5. \A m \in MC : Room(m)'
    <2>1. \A d \in Cluster : placer'[d] = placer[d] \/ placer'[d].step # "reserve"
      BY Zenon, <1>1
    <2>2. \A d \in Cluster : Accepted(d)' => Accepted(d)
      BY Zenon, <1>3
    <2> QED
      BY Zenon, <1>1, <1>4, <2>1, <2>2, RoomKept
  <1>6. \A d \in Cluster, m \in MC : Reserved(d, m)'
    <2>1. \A d \in Cluster :
              Accepted(d)' => /\ Accepted(d) /\ spc'[d].spec = spc[d].spec
                              /\ hcp'[d] = hcp[d] \/ hcp[d] = NoMC
                              /\ d \in spcCopies'[d] => d \in spcCopies[d]
                              /\ placer'[d] = placer[d] \/ placer'[d].step # "record"
      BY Zenon, <1>1, <1>3
    <2> QED
      BY Zenon, <1>1, <1>4, <2>1, ReservedKept
  <1>7. ASSUME NEW d \in Cluster PROVE Known(d)'
    <2>1. Known(d)
      BY Zenon DEF PlacementInv
    <2>2. CASE cluster'[d] = "gone" /\ hcp[d] = NoMC /\ spcCopies'[d] = {}
      BY Zenon, <1>1, <2>1, <2>2 DEF Known, Accepted
    <2>3. CASE /\ cluster[d] # "gone" \/ cluster'[d] = "gone"
               /\ cluster'[d] = cluster[d] \/ (cluster'[d] # "Accepted" /\ cluster'[d] # "gone")
               /\ spc'[d] = spc[d]
      BY Zenon, <1>1, <2>1, <2>3 DEF Known, Accepted
    <2> QED
      BY Zenon, <1>2, <2>2, <2>3
  <1> QED
    BY Zenon, <1>5, <1>6, <1>7 DEF Parts

\* A control plane is created or removed.
LEMMA HostStep ==
    ASSUME PlacementInv, NEW c \in Cluster, PostCluster(c) \/ RemoveHCP(c)
    PROVE  Parts'
  <1>1. /\ UNCHANGED <<cluster, clusterCache, spc, spcCache, spcCopies>>
        /\ UNCHANGED <<sched, schedCache, schedCopies, placer, cleaner>>
        /\ \A d \in Cluster :
              \/ hcp'[d] = hcp[d]
              \/ hcp[d] = NoMC /\ cluster[d] # "gone" /\ spcCache[d].spec # NoMC /\ hcp'[d] = spcCache[d].spec
              \/ hcp'[d] = NoMC /\ cluster[d] = "Deleting"
    BY Zenon DEF PostCluster, RemoveHCP, spcVars, schedVars, clusterVars, PlacementInv, PlacementType
  <1>2. \A d \in Cluster : (Accepted(d)' <=> Accepted(d)) /\ (Accepted(d) => cluster[d] # "Deleting")
    BY Zenon, <1>1 DEF Accepted
  <1>3. \A m \in MC : schedCopies'[m] \subseteq schedCopies[m] /\ CleanerKept(m)
    BY Zenon, <1>1 DEF CleanerKept
  <1>4. \A m \in MC : Room(m)'
    <2>1. \A d \in Cluster : placer'[d] = placer[d] \/ placer'[d].step # "reserve"
      BY Zenon, <1>1
    <2>2. \A d \in Cluster : Accepted(d)' => Accepted(d)
      BY Zenon, <1>2
    <2> QED
      BY Zenon, <1>1, <1>3, <2>1, <2>2, RoomKept
  <1>5. \A d \in Cluster, m \in MC : Reserved(d, m)'
    <2>1. \A d \in Cluster :
              Accepted(d)' => /\ Accepted(d) /\ spc'[d].spec = spc[d].spec
                              /\ hcp'[d] = hcp[d] \/ hcp[d] = NoMC
                              /\ d \in spcCopies'[d] => d \in spcCopies[d]
                              /\ placer'[d] = placer[d] \/ placer'[d].step # "record"
      BY Zenon, <1>1, <1>2
    <2> QED
      BY Zenon, <1>1, <1>3, <2>1, ReservedKept
  <1>6. ASSUME NEW d \in Cluster PROVE Known(d)'
    <2>1. Known(d)
      BY Zenon DEF PlacementInv
    <2>2. hcp'[d] # NoMC => cluster'[d] # "gone" /\ spc'[d].spec = hcp'[d]
      BY Zenon, <1>1, <2>1 DEF Known
    <2> QED
      BY Zenon, <1>1, <2>1, <2>2 DEF Known, Accepted
  <1> QED
    BY Zenon, <1>4, <1>5, <1>6 DEF Parts

\* What a document takes is the same as long as it is and its clusters are.
LEMMA NICsUnchanged ==
    ASSUME UNCHANGED <<sched, cluster>>, NEW m \in MC
    PROVE  /\ (swiftNICs(Booked(sched[m])))' = swiftNICs(Booked(sched[m]))
           /\ \A c \in Cluster : (swiftNICs(Taken(sched[m]) \cup {c}))' = swiftNICs(Taken(sched[m]) \cup {c})
  BY Zenon DEF Booked, Taken, Accepted, swiftNICs, sumNICs

\* An informer catches up with a scheduling document.
LEMMA RefreshSchedulingStep ==
    ASSUME PlacementInv, NEW m \in MC, RefreshScheduling(m)
    PROVE  Parts'
  <1>1. /\ UNCHANGED <<cluster, clusterCache, spc, spcCache, spcCopies, sched, placer, cleaner, hcp>>
        /\ \A n \in MC : \/ schedCache'[n] = schedCache[n] /\ schedCopies'[n] = schedCopies[n]
                         \/ schedCache'[n] = sched[n]
    BY Zenon DEF RefreshScheduling, spcVars, clusterVars, PlacementInv, PlacementType
  <1>2. \A n \in MC : /\ \A c \in Cluster : c \in schedCopies'[n] => c \in schedCopies[n]
                      /\ "cleanup" \in schedCopies'[n] => "cleanup" \in schedCopies[n]
    BY ConstantsAssumption DEF RefreshScheduling, PlacementInv, PlacementType
  <1>3. \A c \in Cluster : Known(c)'
    <2>1. \A c \in Cluster : spcCopies'[c] \subseteq spcCopies[c] /\ placer'[c] = placer[c]
      BY Zenon, <1>1
    <2> QED
      BY Zenon, <1>1, <1>2, <2>1, KnownKept
  <1>4. ASSUME NEW n \in MC PROVE Room(n)'
    <2>1. Room(n)
      BY Zenon DEF PlacementInv
    <2> QED
      BY Zenon, <1>1, <1>2, <2>1, NICsUnchanged DEF Room
  <1>5. ASSUME NEW c \in Cluster, NEW n \in MC PROVE Reserved(c, n)'
    <2>1. Reserved(c, n)
      BY Zenon DEF PlacementInv
    <2>2. c \in schedCache'[n].pending => c \in schedCache[n].pending \/ c \in sched[n].pending
      BY Zenon, <1>1
    <2> QED
      BY Zenon, <1>1, <1>2, <2>1, <2>2 DEF Reserved, Accepted
  <1> QED
    BY Zenon, <1>3, <1>4, <1>5 DEF Parts

\* A cleanup decides: if on the current document, it keeps every reservation of an
\* accepted cluster that is not placed elsewhere.
LEMMA StartCleanupStep ==
    ASSUME PlacementInv, NEW m \in MC, StartCleanup(m)
    PROVE  Parts'
  <1>1. /\ UNCHANGED <<cluster, clusterCache, spc, spcCache, spcCopies, sched, schedCache, placer, hcp>>
        /\ \A n \in MC : n # m => cleaner'[n] = cleaner[n] /\ schedCopies'[n] = schedCopies[n]
        /\ cleaner'[m] = [step |-> "write", kept |-> Kept(m)]
        /\ cleaner[m] = IdleCleaner
    BY Zenon DEF StartCleanup, spcVars, clusterVars, PlacementInv, PlacementType
  <1>2. /\ \A n \in MC, c \in Cluster : c \in schedCopies'[n] => c \in schedCopies[n]
        /\ \A n \in MC : "cache" \in schedCopies'[n] => "cache" \in schedCopies[n]
        /\ "cleanup" \in schedCopies'[m] => "cleanup" \in schedCopies[m] \/ "cache" \in schedCopies[m]
    BY ConstantsAssumption DEF StartCleanup, PlacementInv, PlacementType
  <1>3. "cleanup" \in schedCopies'[m] => schedCache[m] = sched[m]
    BY Zenon, <1>1, <1>2 DEF PlacementInv, Room
  <1>4. cleaner'[m].kept = Kept(m) /\ cleaner'[m] # IdleCleaner
    BY <1>1 DEF IdleCleaner
  <1>5. \A c \in Cluster : Known(c)'
    <2>1. \A c \in Cluster : spcCopies'[c] \subseteq spcCopies[c] /\ placer'[c] = placer[c]
      BY Zenon, <1>1
    <2> QED
      BY Zenon, <1>1, <1>2, <2>1, KnownKept
  <1>6. ASSUME NEW n \in MC PROVE Room(n)'
    <2>1. Room(n)
      BY Zenon DEF PlacementInv
    <2>2. "cleanup" \in schedCopies'[n] => cleaner'[n] # IdleCleaner /\ cleaner'[n].kept \subseteq sched'[n].pending
      BY Zenon, <1>1, <1>3, <1>4, <2>1 DEF Room, Kept
    <2> QED
      BY Zenon, <1>1, <1>2, <2>1, <2>2, NICsUnchanged DEF Room
  <1>7. ASSUME NEW c \in Cluster, NEW n \in MC PROVE Reserved(c, n)'
    <2>1. Reserved(c, n) /\ Known(c)
      BY Zenon DEF PlacementInv
    <2>2. ASSUME Accepted(c), "cleanup" \in schedCopies'[m], spc[c].spec \in {NoMC, m}, c \in sched[m].pending
          PROVE  c \in Kept(m)
      <3>1. c \in schedCache[m].pending
        BY Zenon, <1>3, <2>2
      <3>2. shouldKeepPending(c, m)
        BY <2>1, <2>2 DEF Known, Accepted, shouldKeepPending, effectivePlacement, Active
      <3> QED
        BY Zenon, <3>1, <3>2 DEF Kept
    <2>3. Accepted(c)' <=> Accepted(c)
      BY Zenon, <1>1 DEF Accepted
    <2> QED
      BY Zenon, <1>1, <1>4, <2>1, <2>2, <2>3 DEF Reserved
  <1> QED
    BY Zenon, <1>5, <1>6, <1>7 DEF Parts

\* The report is written: what it drops from the reservations it has observed.
LEMMA ReportStep ==
    ASSUME PlacementInv, NEW m \in MC, persistObservedResources(m)
    PROVE  Parts'
  <1> DEFINE doc == [pending |-> dropObservedPendingAssignments(sched[m].pending, m), observed |-> Observed(m)]
  <1>1. /\ UNCHANGED <<cluster, clusterCache, spc, spcCache, spcCopies, placer, cleaner, hcp>>
        /\ WriteScheduling(m, doc)
    BY Zenon DEF persistObservedResources, spcVars, clusterVars
  <1>2. doc.pending = sched[m].pending \ Observed(m) /\ doc.observed = Observed(m)
    BY DEF dropObservedPendingAssignments
  <1>3. doc \in SchedType
    BY DEF PlacementInv, PlacementType, SchedType, dropObservedPendingAssignments, Observed
  <1> HIDE DEF doc
  <1>4. ASSUME NEW c \in Cluster, Accepted(c)
        PROVE  /\ spc[c].spec = NoMC /\ c \in sched[m].pending => c \in doc.pending
               /\ spc[c].spec = m /\ c \in Taken(sched[m]) => c \in Taken(doc)
               /\ c \in doc.observed => hcp[c] = m
               /\ c \in Taken(doc) => c \in Taken(sched[m])
    <2>1. Known(c) /\ Reserved(c, m) /\ m # NoMC
      BY Zenon, ConstantsAssumption DEF PlacementInv
    <2>2. c \in Observed(m) <=> hcp[c] = m
      BY Zenon DEF Observed
    <2> QED
      BY Zenon, <1>2, <1>4, <2>1, <2>2 DEF Known, Reserved, Taken
  <1>5. swiftNICs(Booked(doc)) <= Ceiling
    <2>1. /\ Booked(sched[m]) \in SUBSET Cluster /\ Booked(doc) \in SUBSET Cluster
          /\ swiftNICs(Booked(sched[m])) <= Ceiling
      BY Zenon, <1>3 DEF PlacementInv, PlacementType, SchedType, Booked, Taken, Room
    <2>2. Booked(doc) \in SUBSET Booked(sched[m])
      BY Zenon, <1>4, <2>1 DEF Booked
    <2>3. /\ swiftNICs(Booked(doc)) <= swiftNICs(Booked(sched[m]))
          /\ swiftNICs(Booked(doc)) \in Nat /\ swiftNICs(Booked(sched[m])) \in Nat
      BY Zenon, <2>1, <2>2, NICsMonotone
    <2> QED
      BY <2>1, <2>3, ConstantsAssumption
  <1>6. \A c \in Cluster : Known(c)'
    <2>1. \A c \in Cluster : spcCopies'[c] \subseteq spcCopies[c] /\ placer'[c] = placer[c]
      BY Zenon, <1>1
    <2>2. \A c \in Cluster, n \in MC : c \in schedCopies'[n] => c \in schedCopies[n]
      BY Zenon, <1>1 DEF WriteScheduling, PlacementInv, PlacementType
    <2> QED
      BY Zenon, <1>1, <2>1, <2>2, KnownKept
  <1>7. /\ \A n \in MC : Room(n)'
        /\ \A c \in Cluster, n \in MC : Reserved(c, n)'
    <2>1. \A n \in MC : n # m => cleaner'[n] = cleaner[n]
      BY Zenon, <1>1
    <2>2. \A c \in Cluster :
              \/ placer'[c] = placer[c]
              \/ placer'[c].step = "record" /\ placer'[c].mc = m /\ c \in doc.pending
      BY Zenon, <1>1
    <2>3. \A c \in Cluster : Accepted(c) =>
              /\ spc[c].spec = NoMC /\ c \in sched[m].pending => c \in doc.pending
              /\ spc[c].spec = m /\ c \in Taken(sched[m]) => c \in Taken(doc)
              /\ c \in doc.observed => hcp[c] = m
      BY Zenon, <1>4
    <2>4. UNCHANGED <<cluster, spc, spcCopies, hcp>>
      BY Zenon, <1>1
    <2> QED
      BY Zenon, <1>1, <1>3, <1>5, <2>1, <2>2, <2>3, <2>4, ScheduleWritten
  <1> QED
    BY Zenon, <1>6, <1>7 DEF Parts

\* A placement chooses, and takes copies of the SPC and of the document.
LEMMA SelectStep ==
    ASSUME PlacementInv, NEW c \in Cluster, NEW m \in MC, Select(c, m)
    PROVE  Parts'
  <1>1. /\ UNCHANGED <<cluster, clusterCache, spc, spcCache, sched, schedCache, cleaner, hcp>>
        /\ \A d \in Cluster : d # c => placer'[d] = placer[d] /\ spcCopies'[d] = spcCopies[d]
        /\ \A n \in MC : n # m => schedCopies'[n] = schedCopies[n]
        /\ placer'[c] = [step |-> IF c \in schedCache[m].pending THEN "record" ELSE "reserve", mc |-> m]
        /\ placer[c] = IdlePlacer /\ needsWork(c) /\ m \in selectByCapacity(c)
    BY Zenon DEF Select, clusterVars, PlacementInv, PlacementType
  <1>2. /\ \A d \in Cluster : "cache" \in spcCopies'[d] => "cache" \in spcCopies[d]
        /\ c \in spcCopies'[c] => c \in spcCopies[c] \/ "cache" \in spcCopies[c]
    BY ConstantsAssumption DEF Select, PlacementInv, PlacementType
  <1>3. /\ \A n \in MC, d \in Cluster : d # c /\ d \in schedCopies'[n] => d \in schedCopies[n]
        /\ \A n \in MC : "cache" \in schedCopies'[n] => "cache" \in schedCopies[n]
        /\ \A n \in MC : "cleanup" \in schedCopies'[n] => "cleanup" \in schedCopies[n]
        /\ c \in schedCopies'[m] => c \in schedCopies[m] \/ "cache" \in schedCopies[m]
    BY ConstantsAssumption DEF Select, PlacementInv, PlacementType
  <1>4. /\ placer'[c].mc = m /\ placer'[c].step # "idle" /\ placer'[c] # IdlePlacer
        /\ placer'[c].step = "record" <=> c \in schedCache[m].pending
    BY <1>1 DEF IdlePlacer
  <1>5. /\ Known(c) /\ c \notin spcCopies[c] /\ c \notin schedCopies[m]
    BY Zenon, <1>1 DEF PlacementInv, Known
  <1>6. c \in spcCopies'[c] => spc[c].stored /\ spc[c].spec = NoMC
    BY Zenon, <1>1, <1>2, <1>5 DEF Known, needsWork
  <1>7. ASSUME NEW d \in Cluster PROVE Known(d)'
    <2>1. Known(d)
      BY Zenon DEF PlacementInv
    <2>2. CASE d = c
      BY Zenon, <1>1, <1>2, <1>4, <1>6, <2>1, <2>2 DEF Known, Accepted
    <2>3. CASE d # c
      BY Zenon, <1>1, <1>3, <2>1, <2>3 DEF Known, Accepted
    <2> QED
      BY Zenon, <2>2, <2>3
  <1>8. ASSUME NEW n \in MC PROVE Room(n)'
    <2>1. Room(n) /\ PlacementType
      BY Zenon DEF PlacementInv
    <2>2. ASSUME NEW d \in Cluster, d \in schedCopies'[n], placer'[d].step = "reserve", placer'[d].mc = n
          PROVE  swiftNICs(Taken(sched[n]) \cup {d}) <= Ceiling
      <3>1. CASE d = c
        <4>1. n = m /\ schedCache[m] = sched[m]
          BY Zenon, <1>3, <1>4, <1>5, <2>1, <2>2, <3>1 DEF Room
        <4> QED
          BY Zenon, <1>1, <2>1, <3>1, <4>1, SelectedHasRoom
      <3>2. CASE d # c
        BY Zenon, <1>1, <1>3, <2>1, <2>2, <3>2 DEF Room
      <3> QED
        BY Zenon, <3>1, <3>2
    <2> QED
      BY Zenon, <1>1, <1>3, <2>1, <2>2, NICsUnchanged DEF Room
  <1>9. ASSUME NEW d \in Cluster, NEW n \in MC PROVE Reserved(d, n)'
    <2>1. Reserved(d, n)
      BY Zenon DEF PlacementInv
    <2>2. Accepted(d)' <=> Accepted(d)
      BY Zenon, <1>1 DEF Accepted
    <2>3. Accepted(d) /\ d \in spcCopies'[d] /\ placer'[d].step = "record" /\ placer'[d].mc = n =>
             d \in sched[n].pending
      BY Zenon, <1>1, <1>4, <1>6, <2>1 DEF Reserved
    <2> QED
      BY Zenon, <1>1, <1>3, <2>1, <2>2, <2>3 DEF Reserved
  <1> QED
    BY Zenon, <1>7, <1>8, <1>9 DEF Parts

\* A placement ends without a write: a conflict, a failure.
LEMMA EndSyncStep ==
    ASSUME PlacementInv, NEW c \in Cluster, EndSync(c),
           UNCHANGED <<clusterVars, spc, spcCache, sched, schedCache, cleaner, hcp>>
    PROVE  Parts'
  <1>1. /\ UNCHANGED <<cluster, clusterCache, spc, spcCache, sched, schedCache, cleaner, hcp>>
        /\ placer'[c] = IdlePlacer /\ c \notin spcCopies'[c]
        /\ \A d \in Cluster : d # c => placer'[d] = placer[d]
        /\ \A d \in Cluster : spcCopies'[d] \subseteq spcCopies[d]
        /\ \A m \in MC : c \notin schedCopies'[m] /\ schedCopies'[m] \subseteq schedCopies[m]
    BY Zenon DEF EndSync, clusterVars, PlacementInv, PlacementType
  <1>2. IdlePlacer.step = "idle"
    BY Zenon DEF IdlePlacer
  <1>3. \A d \in Cluster : (Accepted(d)' <=> Accepted(d))
    BY Zenon, <1>1 DEF Accepted
  <1>4. \A m \in MC : schedCopies'[m] \subseteq schedCopies[m] /\ CleanerKept(m)
    BY Zenon, <1>1 DEF CleanerKept
  <1>5. \A d \in Cluster : Known(d)'
    <2>1. \A d \in Cluster, m \in MC : d \in schedCopies'[m] => d \in schedCopies[m]
      BY Zenon, <1>1
    <2>2. \A d \in Cluster :
              \/ placer'[d] = placer[d]
              \/ /\ placer'[d] = IdlePlacer /\ d \notin spcCopies'[d]
                 /\ \A m \in MC : d \notin schedCopies'[m]
              \/ placer[d] # IdlePlacer /\ placer'[d].mc \in MC /\ placer'[d].step # "idle"
      BY Zenon, <1>1
    <2>3. UNCHANGED <<cluster, clusterCache, spc, spcCache, hcp>>
      BY Zenon, <1>1
    <2> QED
      BY Zenon, <1>1, <2>1, <2>2, <2>3, KnownKept
  <1>6. \A m \in MC : Room(m)'
    <2>1. \A d \in Cluster : placer'[d] = placer[d] \/ placer'[d].step # "reserve"
      BY Zenon, <1>1, <1>2
    <2>2. \A d \in Cluster : Accepted(d)' => Accepted(d)
      BY Zenon, <1>3
    <2> QED
      BY Zenon, <1>1, <1>4, <2>1, <2>2, RoomKept
  <1>7. \A d \in Cluster, m \in MC : Reserved(d, m)'
    <2>1. \A d \in Cluster :
              Accepted(d)' => /\ Accepted(d) /\ spc'[d].spec = spc[d].spec
                              /\ hcp'[d] = hcp[d] \/ hcp[d] = NoMC
                              /\ d \in spcCopies'[d] => d \in spcCopies[d]
                              /\ placer'[d] = placer[d] \/ placer'[d].step # "record"
      BY Zenon, <1>1, <1>2, <1>3
    <2> QED
      BY Zenon, <1>1, <1>4, <2>1, ReservedKept
  <1> QED
    BY Zenon, <1>5, <1>6, <1>7 DEF Parts

\* A reservation is written to the document it was found to fit in, or not at all.
LEMMA ReserveStep ==
    ASSUME PlacementInv, NEW c \in Cluster, reservePendingAssignment(c)
    PROVE  Parts'
  <1> DEFINE m == placer[c].mc
             doc == [sched[m] EXCEPT !.pending = @ \cup {c}]
  <1>1. placer[c].step = "reserve" /\ placer[c] # IdlePlacer
    BY DEF reservePendingAssignment, IdlePlacer
  <1>2. m \in MC /\ Room(m)
    BY Zenon, <1>1 DEF PlacementInv, Known
  <1>3. CASE ~HasCurrentCopy(c, m)
    BY Zenon, <1>3, EndSyncStep DEF reservePendingAssignment, clusterVars
  <1>4. CASE HasCurrentCopy(c, m)
    <2>1. /\ UNCHANGED <<cluster, clusterCache, spc, spcCache, spcCopies, cleaner, hcp>>
          /\ WriteScheduling(m, doc)
          /\ placer' = [placer EXCEPT ![c].step = "record"]
      BY Zenon, <1>4 DEF reservePendingAssignment, spcVars, clusterVars
    <2>2. /\ \A d \in Cluster : d # c => placer'[d] = placer[d]
          /\ placer'[c].step = "record" /\ placer'[c].mc = m
      BY <2>1 DEF PlacementInv, PlacementType, PlacerType
    <2>3. /\ doc.pending = sched[m].pending \cup {c} /\ doc.observed = sched[m].observed
          /\ doc \in SchedType
      <3>1. sched[m] \in SchedType
        BY Zenon, <1>2 DEF PlacementInv, PlacementType
      <3> QED
        BY <3>1 DEF SchedType
    <2> HIDE DEF m, doc
    <2>4. swiftNICs(Booked(doc)) <= Ceiling
      <3>1. Booked(doc) \in SUBSET (Taken(sched[m]) \cup {c})
        BY Zenon, <2>3 DEF Booked, Taken
      <3>2. Taken(sched[m]) \cup {c} \in SUBSET Cluster
        BY Zenon, <1>2 DEF PlacementInv, PlacementType, SchedType, Taken
      <3>3. swiftNICs(Taken(sched[m]) \cup {c}) <= Ceiling
        BY Zenon, <1>1, <1>2, <1>4 DEF Room, HasCurrentCopy, m
      <3>4. /\ swiftNICs(Booked(doc)) <= swiftNICs(Taken(sched[m]) \cup {c})
            /\ swiftNICs(Booked(doc)) \in Nat /\ swiftNICs(Taken(sched[m]) \cup {c}) \in Nat
        BY Zenon, <3>1, <3>2, NICsMonotone
      <3> QED
        BY <3>3, <3>4, ConstantsAssumption
    <2>5. \A d \in Cluster : Known(d)'
      <3>1. /\ \A d \in Cluster : spcCopies'[d] \subseteq spcCopies[d]
            /\ UNCHANGED <<cluster, clusterCache, spc, spcCache, hcp>>
        BY Zenon, <2>1
      <3>2. \A d \in Cluster, n \in MC : d \in schedCopies'[n] => d \in schedCopies[n]
        BY Zenon, <2>1 DEF WriteScheduling, PlacementInv, PlacementType
      <3>3. "record" # "idle"
        OBVIOUS
      <3>4. \A d \in Cluster :
                \/ placer'[d] = placer[d]
                \/ /\ placer'[d] = IdlePlacer /\ d \notin spcCopies'[d]
                   /\ \A n \in MC : d \notin schedCopies'[n]
                \/ placer[d] # IdlePlacer /\ placer'[d].mc \in MC /\ placer'[d].step # "idle"
        BY Zenon, <1>1, <1>2, <2>2, <3>3
      <3> QED
        BY Zenon, <3>1, <3>2, <3>4, KnownKept
    <2>6. /\ \A n \in MC : Room(n)'
          /\ \A d \in Cluster, n \in MC : Reserved(d, n)'
      <3>1. \A n \in MC : n # m => cleaner'[n] = cleaner[n]
        BY Zenon, <2>1
      <3>2. \A d \in Cluster :
                \/ placer'[d] = placer[d]
                \/ placer'[d].step = "record" /\ placer'[d].mc = m /\ d \in doc.pending
        BY Zenon, <2>2, <2>3
      <3>3. \A d \in Cluster : Accepted(d) =>
                /\ spc[d].spec = NoMC /\ d \in sched[m].pending => d \in doc.pending
                /\ spc[d].spec = m /\ d \in Taken(sched[m]) => d \in Taken(doc)
                /\ d \in doc.observed => hcp[d] = m
        BY Zenon, <1>2, <2>3 DEF PlacementInv, Reserved, Taken
      <3>4. UNCHANGED <<cluster, spc, spcCopies, hcp>>
        BY Zenon, <2>1
      <3> QED
        BY Zenon, <1>2, <2>1, <2>3, <2>4, <3>1, <3>2, <3>3, <3>4, ScheduleWritten
    <2> QED
      BY Zenon, <2>5, <2>6 DEF Parts
  <1> QED
    BY Zenon, <1>3, <1>4

\* A decision is recorded where there was none, and its reservation is there.
LEMMA RecordStep ==
    ASSUME PlacementInv, NEW c \in Cluster, recordPlacementDecision(c)
    PROVE  Parts'
  <1>1. CASE ~ReplacesSPC(c)
    BY Zenon, <1>1, EndSyncStep DEF recordPlacementDecision, clusterVars
  <1>2. CASE ReplacesSPC(c)
    <2>1. /\ UNCHANGED <<cluster, clusterCache, spcCache, sched, schedCache, cleaner, hcp>>
          /\ placer[c].step = "record" /\ c \in spcCopies[c]
          /\ placer' = [placer EXCEPT ![c] = IdlePlacer]
          /\ schedCopies' = [m \in MC |-> schedCopies[m] \ {c}]
          /\ spc' = [spc EXCEPT ![c] = [spc[c] EXCEPT !.spec = placer[c].mc]]
          /\ spcCopies' = [spcCopies EXCEPT ![c] = {}]
      BY Zenon, <1>2 DEF recordPlacementDecision, ReplacesSPC, WriteSPC, clusterVars
    <2>2. /\ UNCHANGED <<cluster, clusterCache, spcCache, sched, schedCache, cleaner, hcp>>
          /\ placer[c].step = "record" /\ c \in spcCopies[c]
          /\ placer'[c] = IdlePlacer /\ spcCopies'[c] = {} /\ spc'[c] = [spc[c] EXCEPT !.spec = placer[c].mc]
          /\ \A d \in Cluster : d # c => placer'[d] = placer[d] /\ spc'[d] = spc[d] /\ spcCopies'[d] = spcCopies[d]
          /\ \A m \in MC : c \notin schedCopies'[m] /\ schedCopies'[m] \subseteq schedCopies[m]
      BY Zenon, <2>1 DEF PlacementInv, PlacementType
    <2>3. spc'[c].spec = placer[c].mc /\ spc'[c].stored = spc[c].stored
      <3>1. spc[c] \in SPCType
        BY Zenon DEF PlacementInv, PlacementType
      <3> QED
        BY <2>2, <3>1 DEF SPCType
    <2>4. placer[c] # IdlePlacer /\ IdlePlacer.step = "idle"
      BY <2>2 DEF IdlePlacer
    <2>5. Known(c) /\ spc[c].stored /\ spc[c].spec = NoMC /\ hcp[c] = NoMC /\ placer[c].mc \in MC
      BY Zenon, <2>2, <2>4 DEF PlacementInv, Known
    <2>6. \A d \in Cluster : (Accepted(d)' <=> Accepted(d))
      BY Zenon, <2>2 DEF Accepted
    <2>7. ASSUME NEW d \in Cluster PROVE Known(d)'
      <3>1. Known(d)
        BY Zenon DEF PlacementInv
      <3>2. CASE d = c
        BY Zenon, <2>2, <2>3, <2>5, <3>1, <3>2 DEF Known, Accepted
      <3>3. CASE d # c
        BY Zenon, <2>2, <3>1, <3>3 DEF Known, Accepted
      <3> QED
        BY Zenon, <3>2, <3>3
    <2>8. \A m \in MC : Room(m)'
      <3>1. \A m \in MC : schedCopies'[m] \subseteq schedCopies[m] /\ CleanerKept(m)
        BY Zenon, <2>2 DEF CleanerKept
      <3>2. \A d \in Cluster : placer'[d] = placer[d] \/ placer'[d].step # "reserve"
        BY Zenon, <2>2, <2>4
      <3>3. \A d \in Cluster : Accepted(d)' => Accepted(d)
        BY Zenon, <2>6
      <3> QED
        BY Zenon, <2>2, <3>1, <3>2, <3>3, RoomKept
    <2>9. ASSUME NEW d \in Cluster, NEW m \in MC PROVE Reserved(d, m)'
      <3>1. Reserved(d, m) /\ m # NoMC
        BY Zenon, ConstantsAssumption DEF PlacementInv
      <3>2. CASE d = c
        <4>1. placer[c].mc # NoMC
          BY Zenon, <2>5, ConstantsAssumption
        <4> QED
          BY Zenon, <2>2, <2>3, <2>5, <2>6, <3>1, <3>2, <4>1 DEF Reserved
      <3>3. CASE d # c
        BY Zenon, <2>2, <2>6, <3>1, <3>3 DEF Reserved
      <3> QED
        BY Zenon, <3>2, <3>3
    <2> QED
      BY Zenon, <2>7, <2>8, <2>9 DEF Parts
  <1> QED
    BY Zenon, <1>1, <1>2

\* A cleanup ends without a write.
LEMMA EndCleanupStep ==
    ASSUME PlacementInv, NEW m \in MC,
           UNCHANGED <<cluster, clusterCache, spc, spcCache, spcCopies, sched, schedCache, placer, hcp>>,
           cleaner' = [cleaner EXCEPT ![m] = IdleCleaner], "cleanup" \notin schedCopies'[m],
           \A n \in MC : schedCopies'[n] \subseteq schedCopies[n]
    PROVE  Parts'
  <1>1. \A n \in MC : schedCopies'[n] \subseteq schedCopies[n] /\ CleanerKept(n)
    BY Zenon DEF CleanerKept, PlacementInv, PlacementType
  <1>2. /\ \A d \in Cluster : Accepted(d)' => Accepted(d)
        /\ \A d \in Cluster : placer'[d] = placer[d]
        /\ \A d \in Cluster : spcCopies'[d] \subseteq spcCopies[d]
        /\ \A d \in Cluster, n \in MC : d \in schedCopies'[n] => d \in schedCopies[n]
    BY Zenon DEF Accepted
  <1>3. /\ UNCHANGED <<cluster, clusterCache, spc, spcCache, hcp>>
        /\ UNCHANGED <<sched, schedCache>>
    BY Zenon
  <1>4. \A d \in Cluster : Known(d)'
    BY Zenon, <1>2, <1>3, KnownKept
  <1>5. \A n \in MC : Room(n)'
    BY Zenon, <1>1, <1>2, <1>3, RoomKept
  <1>6. \A d \in Cluster, n \in MC : Reserved(d, n)'
    <2>1. \A d \in Cluster :
              Accepted(d)' => /\ Accepted(d) /\ spc'[d].spec = spc[d].spec
                              /\ hcp'[d] = hcp[d] \/ hcp[d] = NoMC
                              /\ d \in spcCopies'[d] => d \in spcCopies[d]
                              /\ placer'[d] = placer[d] \/ placer'[d].step # "record"
      BY Zenon, <1>2, <1>3
    <2> QED
      BY Zenon, <1>1, <1>3, <2>1, ReservedKept
  <1> QED
    BY Zenon, <1>4, <1>5, <1>6 DEF Parts

\* A cleanup writes what it kept to the document it read, or nothing.
LEMMA WriteCleanupStep ==
    ASSUME PlacementInv, NEW m \in MC, WriteCleanup(m)
    PROVE  Parts'
  <1> DEFINE doc == [sched[m] EXCEPT !.pending = cleaner[m].kept]
  <1>1. /\ UNCHANGED <<cluster, clusterCache, spc, spcCache, spcCopies, placer, hcp>>
        /\ cleaner' = [cleaner EXCEPT ![m] = IdleCleaner]
    BY Zenon DEF WriteCleanup, spcVars, clusterVars
  <1>2. CASE "cleanup" \notin schedCopies[m]
    <2>1. UNCHANGED <<sched, schedCache, schedCopies>>
      BY Zenon, <1>2 DEF WriteCleanup, schedVars
    <2>2. /\ "cleanup" \notin schedCopies'[m]
          /\ \A n \in MC : schedCopies'[n] \subseteq schedCopies[n]
          /\ UNCHANGED <<cluster, clusterCache, spc, spcCache, spcCopies, sched, schedCache, placer, hcp>>
      BY Zenon, <1>1, <1>2, <2>1
    <2> QED
      BY Zenon, <1>1, <2>2, EndCleanupStep
  <1>3. CASE "cleanup" \in schedCopies[m]
    <2>1. WriteScheduling(m, doc)
      BY Zenon, <1>3 DEF WriteCleanup
    <2>2. /\ doc.pending = cleaner[m].kept /\ doc.observed = sched[m].observed
          /\ doc \in SchedType
      <3>1. sched[m] \in SchedType /\ cleaner[m] \in CleanerType
        BY Zenon DEF PlacementInv, PlacementType
      <3> QED
        BY <3>1 DEF SchedType, CleanerType
    <2> HIDE DEF doc
    <2>3. cleaner[m].kept \subseteq sched[m].pending
      BY Zenon, <1>3 DEF PlacementInv, Room
    <2>4. swiftNICs(Booked(doc)) <= Ceiling
      <3>1. /\ Booked(sched[m]) \in SUBSET Cluster
            /\ Booked(doc) \in SUBSET Booked(sched[m])
            /\ swiftNICs(Booked(sched[m])) <= Ceiling
        BY Zenon, <2>2, <2>3 DEF PlacementInv, PlacementType, SchedType, Booked, Taken, Room
      <3>2. /\ swiftNICs(Booked(doc)) <= swiftNICs(Booked(sched[m]))
            /\ swiftNICs(Booked(doc)) \in Nat /\ swiftNICs(Booked(sched[m])) \in Nat
        BY Zenon, <3>1, NICsMonotone
      <3> QED
        BY <3>1, <3>2, ConstantsAssumption
    <2>5. \A d \in Cluster : Known(d)'
      <3>1. /\ \A d \in Cluster : spcCopies'[d] \subseteq spcCopies[d] /\ placer'[d] = placer[d]
            /\ UNCHANGED <<cluster, clusterCache, spc, spcCache, hcp>>
        BY Zenon, <1>1
      <3>2. \A d \in Cluster, n \in MC : d \in schedCopies'[n] => d \in schedCopies[n]
        BY Zenon, <2>1 DEF WriteScheduling, PlacementInv, PlacementType
      <3> QED
        BY Zenon, <3>1, <3>2, KnownKept
    <2>6. /\ \A n \in MC : Room(n)'
          /\ \A d \in Cluster, n \in MC : Reserved(d, n)'
      <3>1. \A n \in MC : n # m => cleaner'[n] = cleaner[n]
        BY Zenon, <1>1 DEF PlacementInv, PlacementType
      <3>2. \A d \in Cluster :
                \/ placer'[d] = placer[d]
                \/ placer'[d].step = "record" /\ placer'[d].mc = m /\ d \in doc.pending
        BY Zenon, <1>1
      <3>3. \A d \in Cluster : Accepted(d) =>
                /\ spc[d].spec = NoMC /\ d \in sched[m].pending => d \in doc.pending
                /\ spc[d].spec = m /\ d \in Taken(sched[m]) => d \in Taken(doc)
                /\ d \in doc.observed => hcp[d] = m
        BY Zenon, <1>3, <2>2 DEF PlacementInv, Reserved, Taken
      <3>4. UNCHANGED <<cluster, spc, spcCopies, hcp>>
        BY Zenon, <1>1
      <3> QED
        BY Zenon, <2>1, <2>2, <2>4, <3>1, <3>2, <3>3, <3>4, ScheduleWritten
    <2> QED
      BY Zenon, <2>5, <2>6 DEF Parts
  <1> QED
    BY Zenon, <1>2, <1>3

-----------------------------------------------------------------------------
(* The theorems. *)

\* Every step keeps the invariant.
LEMMA PlacementStep ==
    ASSUME PlacementInv, [Next]_vars
    PROVE  PlacementInv'
  <1>1. PlacementType'
    BY Zenon, TypeStep
  <1>2. ASSUME NEW c \in Cluster, AbandonPlacement(c) PROVE Parts'
    BY Zenon, <1>2, EndSyncStep DEF AbandonPlacement
  <1>3. ASSUME NEW m \in MC, AbandonCleanup(m) PROVE Parts'
    <2>1. /\ UNCHANGED <<cluster, clusterCache, spc, spcCache, spcCopies, sched, schedCache, placer, hcp>>
          /\ cleaner' = [cleaner EXCEPT ![m] = IdleCleaner] /\ "cleanup" \notin schedCopies'[m]
          /\ \A n \in MC : schedCopies'[n] \subseteq schedCopies[n]
      BY Zenon, <1>3 DEF AbandonCleanup, clusterVars, spcVars, PlacementInv, PlacementType
    <2> QED
      BY Zenon, <2>1, EndCleanupStep
  <1>4. ASSUME UNCHANGED <<cluster, clusterCache, spc, spcCache, spcCopies>>,
               UNCHANGED <<sched, schedCache, schedCopies, placer, cleaner, hcp>>
        PROVE  Parts'
    <2>1. \A c \in Cluster : Known(c)'
      BY Zenon, <1>4 DEF PlacementInv, Known, Accepted
    <2>2. \A m \in MC : Room(m)'
      BY Zenon, <1>4, NICsUnchanged DEF PlacementInv, Room
    <2>3. \A c \in Cluster, m \in MC : Reserved(c, m)'
      BY Zenon, <1>4 DEF PlacementInv, Reserved, Accepted
    <2> QED
      BY Zenon, <2>1, <2>2, <2>3 DEF Parts
  <1>5. ASSUME NEW m \in MC, LoseEligibility(m) PROVE Parts'
    <2>1. /\ UNCHANGED <<cluster, clusterCache, spc, spcCache, spcCopies>>
          /\ UNCHANGED <<sched, schedCache, schedCopies, placer, cleaner, hcp>>
      BY Zenon, <1>5 DEF LoseEligibility, clusterVars, spcVars, schedVars
    <2> QED
      BY Zenon, <1>4, <2>1
  <1>6. ASSUME UNCHANGED vars PROVE Parts'
    <2>1. /\ UNCHANGED <<cluster, clusterCache, spc, spcCache, spcCopies>>
          /\ UNCHANGED <<sched, schedCache, schedCopies, placer, cleaner, hcp>>
      BY Zenon, <1>6 DEF vars, clusterVars, spcVars, schedVars
    <2> QED
      BY Zenon, <1>4, <2>1
  <1>7. Parts'
    BY Zenon, <1>2, <1>3, <1>5, <1>6, RefreshStep, RefreshSchedulingStep, LifeStep, HostStep,
       ReportStep,
       SelectStep, ReserveStep, RecordStep, StartCleanupStep, WriteCleanupStep
       DEF Next, Step, Disturbance, Informers, Place, Cleanup
  <1> QED
    BY Zenon, <1>1, <1>7 DEF PlacementInv, Parts

\* The invariant that the two theorems below read off: at first nothing is reserved.
LEMMA PlacementInvariant == Spec => []PlacementInv
  <1>1. Init => PlacementInv
    <2> SUFFICES ASSUME Init PROVE PlacementInv
      OBVIOUS
    <2>1. PICK run \in Scenarios :
        /\ cluster = [c \in Cluster |-> IF c \in run.clusters THEN "Accepted" ELSE "gone"]
        /\ clusterCache = cluster
        /\ spc = [c \in Cluster |-> IF c \in run.clusters THEN NewSPC ELSE NoSPC]
        /\ spcCache = spc /\ spcCopies = [c \in Cluster |-> {"cache"}]
        /\ sched = [m \in MC |-> [pending |-> {}, observed |-> {}]]
        /\ schedCache = sched /\ schedCopies = [m \in MC |-> {"cache"}]
        /\ eligible = run.eligible
        /\ placer = [c \in Cluster |-> IdlePlacer] /\ cleaner = [m \in MC |-> IdleCleaner]
        /\ hcp = [c \in Cluster |-> NoMC] /\ disturbances = 0
      BY Zenon DEF Init
    <2>2. /\ NewSPC \in SPCType /\ NoSPC \in SPCType /\ NewSPC.stored /\ NewSPC.spec = NoMC
          /\ IdlePlacer \in PlacerType /\ IdleCleaner \in CleanerType
          /\ [pending |-> {}, observed |-> {}] \in SchedType
          /\ {"cache"} \in SUBSET Holder /\ run.eligible \in SUBSET MC
          /\ "Accepted" \in ClusterState /\ "gone" \in ClusterState
      BY Zenon, ConstantsAssumption DEF NewSPC, NoSPC, IdlePlacer, IdleCleaner, SPCType, PlacerType,
         CleanerType,
         SchedType, Holder, ClusterState
    <2>3. PlacementType
      BY Zenon, <2>1, <2>2 DEF PlacementType
    <2>4. \A c \in Cluster : c \notin {"cache"}
      BY ConstantsAssumption
    <2>5. ASSUME NEW c \in Cluster PROVE Known(c)
      <3>1. /\ cluster[c] # "gone" => spc[c] = NewSPC
            /\ spcCopies[c] = {"cache"} /\ hcp[c] = NoMC /\ placer[c] = IdlePlacer
            /\ \A m \in MC : schedCopies[m] = {"cache"}
        BY Zenon, <2>1
      <3> QED
        BY Zenon, <2>1, <2>2, <2>4, <3>1 DEF Known, Accepted
    <2>6. \A m \in MC : sched[m].pending = {} /\ sched[m].observed = {} /\ schedCopies[m] = {"cache"}
      BY <2>1
    <2>7. ASSUME NEW m \in MC PROVE Room(m)
      <3>1. Booked(sched[m]) = {}
        BY Zenon, <2>6 DEF Booked, Taken
      <3>2. swiftNICs({}) = 0
        <4>1. {} \ SingleReplica = {} /\ {} \cap SingleReplica = {} /\ Cardinality({}) = 0
          BY Zenon, FS_EmptySet
        <4> QED
          BY <4>1 DEF swiftNICs, sumNICs
      <3>3. swiftNICs(Booked(sched[m])) <= Ceiling
        BY <3>1, <3>2, ConstantsAssumption
      <3>4. "cleanup" \notin {"cache"}
        OBVIOUS
      <3> QED
        BY Zenon, <2>1, <2>4, <2>6, <3>3, <3>4 DEF Room
    <2>8. ASSUME NEW c \in Cluster, NEW m \in MC PROVE Reserved(c, m)
      <3>1. spc[c].spec = NoMC
        BY <2>1 DEF NewSPC, NoSPC
      <3>2. "cleanup" \notin {"cache"} /\ m # NoMC
        BY ConstantsAssumption
      <3>3. c \notin spcCopies[c] /\ schedCache = sched
        BY Zenon, <2>1, <2>4
      <3> QED
        BY Zenon, <2>6, <3>1, <3>2, <3>3 DEF Reserved
    <2> QED
      BY Zenon, <2>3, <2>5, <2>7, <2>8 DEF PlacementInv
  <1>2. PlacementInv /\ [Next]_vars => PlacementInv'
    BY Zenon, PlacementStep
  <1> QED
    BY <1>1, <1>2, PTL DEF Spec

\* The clusters placed on a management cluster and neither failed nor deleted never
\* need more NICs than its ceiling, however many reservePendingAssignment syncs
\* chose it on one copy and whatever the report and the cleanup drop.
THEOREM Capacity == Spec => []NoOverbooking
  <1>1. PlacementInv => NoOverbooking
    <2> SUFFICES ASSUME PlacementInv, NEW m \in MC PROVE swiftNICs(Placed(m)) <= Ceiling
      BY Zenon DEF NoOverbooking
    <2>1. Placed(m) \in SUBSET Booked(sched[m])
      BY Zenon DEF PlacementInv, Reserved, Placed, Booked, Taken, Accepted
    <2>2. Booked(sched[m]) \in SUBSET Cluster /\ swiftNICs(Booked(sched[m])) <= Ceiling
      BY Zenon DEF PlacementInv, PlacementType, SchedType, Booked, Taken, Room
    <2>3. /\ swiftNICs(Placed(m)) <= swiftNICs(Booked(sched[m]))
          /\ swiftNICs(Placed(m)) \in Nat /\ swiftNICs(Booked(sched[m])) \in Nat
      BY Zenon, <2>1, <2>2, NICsMonotone
    <2> QED
      BY <2>2, <2>3, ConstantsAssumption
  <1> QED
    BY <1>1, PlacementInvariant, PTL

\* A control plane is on the management cluster its SPC names: recordPlacementDecision
\* replaces an SPC only while it shows no decision.
THEOREM Hosting == Spec => []HostedWherePlaced
  <1>1. PlacementInv => HostedWherePlaced
    BY Zenon DEF PlacementInv, Known, HostedWherePlaced
  <1> QED
    BY <1>1, PlacementInvariant, PTL
=============================================================================
