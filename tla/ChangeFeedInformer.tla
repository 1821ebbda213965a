------------------------- MODULE ChangeFeedInformer -------------------------
(***************************************************************************)
(* How a document in Cosmos DB reaches an informer cache: the list and     *)
(* watch of ChangeFeedListWatcher.                                         *)
(*                                                                         *)
(* List starts a watcher, which reads the change feed from a moment in the *)
(* past, and only then queries the documents.  A page of the feed that is  *)
(* read while the query runs waits for it to end.  From then on the        *)
(* watcher drops what is no newer than the version it knows, and turns the *)
(* rest into Added, Modified and Deleted events, which the reflector       *)
(* applies to the cache in order.  A deleted document stays in the feed as *)
(* a tombstone for 30 s.  The watch ends with an Expired error after the   *)
(* relist period, and the reflector lists again.                           *)
(*                                                                         *)
(* The feed shows the latest write of each document only.  The position of *)
(* a write in the feed is its lsn.                                         *)
(***************************************************************************)
EXTENDS Integers

CONSTANTS
    Key,        \* resource IDs
    FeedRanges, \* the partition of Key into the container's feed ranges
    MaxLSN      \* bound: writes to the container

ASSUME RangeAssumption ==
    /\ FeedRanges \subseteq SUBSET Key
    /\ \A k \in Key : \E r \in FeedRanges : k \in r
    /\ \A r, s \in FeedRanges : r # s => r \cap s = {}
ASSUME BoundAssumption == MaxLSN \in Nat

VARIABLES
    store,    \* the document under each key, absent and deleted ones included
    lsn,      \* the position of the last write
    phase,    \* of the reflector: "idle", "listing", "watching"
    done,     \* has the watcher been told to stop?
    token,    \* the continuation token of each feed range
    page,     \* the item under each key in the page its feed range is at
    pageEnd,  \* the token that came with that page; the stored one for no page
    started,  \* the position of the last write when the list began
    unread,   \* keys the running list has yet to read
    listed,   \* what it read under the others
    seen,     \* the watcher's resourceIDToInstanceVersion, 0 for no entry
    cache,    \* the informer cache
    early     \* keys whose tombstone expired before this watcher was past it

vars == <<store, lsn, phase, done, token, page, pageEnd, started, unread, listed, seen, cache, early>>
writerVars == <<store, lsn, early>>
watcherVars == <<token, page, pageEnd>>
listVars == <<started, unread, listed>>

\* No document: what an absent key holds, and the cache for a key it lacks.
Missing == [state |-> "absent", uid |-> 0, version |-> 0, lsn |-> 0]

\* "live" is for documents shouldDeliverItemFn accepts, "inactive" for the others.
Documents == [state : {"absent", "live", "inactive", "tombstone"},
              uid : Nat, version : Nat, lsn : Nat]

\* The part of the store the informer is to show.
View(doc) == IF doc.state = "live" THEN doc ELSE Missing

RangeOf(k) == CHOOSE r \in FeedRanges : k \in r

Init ==
    /\ store = [k \in Key |-> Missing]
    /\ lsn = 0
    /\ phase = "idle" /\ done = FALSE
    /\ token = [r \in FeedRanges |-> 0]
    /\ page = [k \in Key |-> Missing]
    /\ pageEnd = [r \in FeedRanges |-> 0]
    /\ started = 0 /\ unread = {}
    /\ listed = [k \in Key |-> Missing]
    /\ seen = [k \in Key |-> 0]
    /\ cache = [k \in Key |-> Missing]
    /\ early = {}

----------------------------------------------------------------------------
(* The writers of documents.                                                *)

\* A write of k takes the next position in the feed.
Writes(k, state, uid, version) ==
    /\ lsn < MaxLSN
    /\ lsn' = lsn + 1
    /\ store' = [store EXCEPT ![k] = [state |-> state, uid |-> uid,
                                      version |-> version, lsn |-> lsn + 1]]
    /\ UNCHANGED <<phase, done, watcherVars, listVars, seen, cache, early>>

\* A key with a tombstone conflicts, so only an absent one is created.
Create(k) ==
    /\ store[k].state = "absent"
    /\ Writes(k, "live", lsn + 1, 1)

\* A terminal operation, which is not delivered, stays terminal.
Replace(k) ==
    /\ store[k].state \in {"live", "inactive"}
    /\ \E state \in {store[k].state, "inactive"} :
          Writes(k, state, store[k].uid, store[k].version + 1)

SoftDelete(k) ==
    /\ store[k].state \in {"live", "inactive"}
    /\ Writes(k, "tombstone", store[k].uid, store[k].version + 1)

\* The tombstone's time to live ends; the feed does not tell.
ExpireTombstone(k) ==
    /\ store[k].state = "tombstone"
    /\ store' = [store EXCEPT ![k] = Missing]
    /\ early' = IF store[k].lsn > token[RangeOf(k)] THEN early \cup {k} ELSE early
    /\ UNCHANGED <<lsn, phase, done, watcherVars, listVars, seen, cache>>

----------------------------------------------------------------------------
(* List.                                                                    *)

\* The reflector lists at first, after a failure and when the watch has ended.
ListIsDue == phase = "idle" \/ (phase = "watching" /\ done)

\* A new watcher starts a little in the past, by a write or none.
StartToken(back) == IF lsn = 0 THEN 0 ELSE lsn - back

StartList ==
    /\ ListIsDue
    /\ phase' = "listing" /\ done' = FALSE
    /\ \E back \in {0, 1} :
          token' = [r \in FeedRanges |-> StartToken(back)]
    /\ pageEnd' = token'
    /\ page' = [k \in Key |-> Missing]
    /\ started' = lsn /\ unread' = Key
    /\ listed' = [k \in Key |-> Missing]
    /\ seen' = [k \in Key |-> 0]
    /\ early' = {}
    /\ UNCHANGED <<store, lsn, cache>>

QueryOfAllButInactive(doc) == IF doc.state = "inactive" THEN Missing ELSE doc

\* The query returns live and active documents only.
Query(doc) == View(doc)

\* The query comes to k.
ListKey(k) ==
    /\ phase = "listing" /\ k \in unread
    /\ listed' = [listed EXCEPT ![k] = Query(store[k])]
    /\ unread' = unread \ {k}
    /\ UNCHANGED <<writerVars, phase, done, watcherVars, started, seen, cache>>

\* The watcher learns the listed versions, the cache is replaced by the list.
FinishList ==
    /\ phase = "listing" /\ unread = {}
    /\ phase' = "watching"
    /\ seen' = [k \in Key |-> listed[k].version]
    /\ cache' = listed
    /\ listed' = [k \in Key |-> Missing]
    /\ UNCHANGED <<writerVars, done, watcherVars, started, unread>>

\* An error stops the watcher.  The reflector keeps the cache and lists again.
FailList ==
    /\ phase = "listing"
    /\ phase' = "idle"
    /\ UNCHANGED <<writerVars, done, watcherVars, listVars, seen, cache>>

----------------------------------------------------------------------------
(* The watcher: one goroutine per feed range, one for the expiry.           *)

\* A page ends at some position and holds the documents last written up to it.
ReadPage(r) ==
    /\ phase \in {"listing", "watching"} /\ ~done
    /\ pageEnd[r] = token[r]
    /\ \E end \in token[r] + 1 .. lsn :
          /\ page' = [k \in Key |-> IF k \in r /\ token[r] < store[k].lsn /\ store[k].lsn <= end
                                    THEN store[k] ELSE page[k]]
          /\ pageEnd' = [pageEnd EXCEPT ![r] = end]
    /\ UNCHANGED <<writerVars, phase, done, token, listVars, seen, cache>>

OutcomeOfAnyVersion(item, version) ==
    CASE item.state = "live" -> "stored"
      [] item.state # "live" /\ version # 0 -> "deleted"
      [] OTHER -> "dropped"

OutcomeOfLiveItems(item, version) ==
    IF item.state # "live" \/ (version # 0 /\ version >= item.version) THEN "dropped" ELSE "stored"

\* The item is Added or Modified, Deleted, or dropped.
Outcome(item, version) ==
    IF version # 0 /\ version >= item.version THEN "dropped"
    ELSE CASE item.state = "live" -> "stored"
           [] item.state # "live" /\ version # 0 -> "deleted"
           [] OTHER -> "dropped"

\* processItem, once the list is there to compare with.
ProcessItem(k) ==
    /\ phase = "watching" /\ ~done
    /\ page[k] # Missing
    /\ LET outcome == Outcome(page[k], seen[k]) IN
          /\ seen' = [seen EXCEPT ![k] = CASE outcome = "stored" -> page[k].version
                                           [] outcome = "deleted" -> 0
                                           [] OTHER -> @]
          /\ cache' = [cache EXCEPT ![k] = CASE outcome = "stored" -> page[k]
                                             [] outcome = "deleted" -> Missing
                                             [] OTHER -> @]
    /\ page' = [page EXCEPT ![k] = Missing]
    /\ UNCHANGED <<writerVars, phase, done, token, pageEnd, listVars>>

AnyItem(r) == \E k \in r : page[k] = Missing

EveryItem(r) == \A k \in r : page[k] = Missing

\* The token is stored when every item of the page is processed.
StoreToken(r) ==
    /\ phase \in {"listing", "watching"} /\ ~done
    /\ pageEnd[r] # token[r]
    /\ EveryItem(r)
    /\ token' = [token EXCEPT ![r] = pageEnd[r]]
    /\ UNCHANGED <<writerVars, phase, done, page, pageEnd, listVars, seen, cache>>

\* An error in an item or in the token: the page is read again.
AbandonPage(r) ==
    /\ phase = "watching" /\ ~done
    /\ pageEnd[r] # token[r]
    /\ page' = [k \in Key |-> IF k \in r THEN Missing ELSE page[k]]
    /\ pageEnd' = [pageEnd EXCEPT ![r] = token[r]]
    /\ UNCHANGED <<writerVars, phase, done, token, listVars, seen, cache>>

\* The relist period is over, or the feed ranges could not be read.
EndWatch ==
    /\ phase \in {"listing", "watching"} /\ ~done
    /\ done' = TRUE
    /\ UNCHANGED <<writerVars, phase, watcherVars, listVars, seen, cache>>

----------------------------------------------------------------------------

Next ==
    \/ \E k \in Key : \/ Create(k) \/ Replace(k) \/ SoftDelete(k) \/ ExpireTombstone(k)
                      \/ ListKey(k) \/ ProcessItem(k)
    \/ \E r \in FeedRanges : ReadPage(r) \/ StoreToken(r) \/ AbandonPage(r)
    \/ StartList \/ FinishList \/ FailList \/ EndWatch

Spec == Init /\ [][Next]_vars

\* The goroutines keep running, and errors cease in the end.
Fairness ==
    /\ WF_vars(StartList) /\ WF_vars(FinishList)
    /\ \A k \in Key : WF_vars(ListKey(k)) /\ WF_vars(ProcessItem(k))
    /\ \A r \in FeedRanges : WF_vars(ReadPage(r)) /\ WF_vars(StoreToken(r))
    /\ <>[][~FailList /\ \A r \in FeedRanges : ~AbandonPage(r)]_vars

LiveSpec == Spec /\ Fairness

----------------------------------------------------------------------------
\* Every variable has its type.
TypeOK ==
    /\ store \in [Key -> Documents]
    /\ lsn \in 0 .. MaxLSN
    /\ phase \in {"idle", "listing", "watching"}
    /\ done \in BOOLEAN
    /\ token \in [FeedRanges -> 0 .. MaxLSN]
    /\ page \in [Key -> Documents]
    /\ pageEnd \in [FeedRanges -> 0 .. MaxLSN]
    /\ started \in 0 .. MaxLSN /\ unread \subseteq Key
    /\ listed \in [Key -> Documents]
    /\ seen \in [Key -> Nat]
    /\ cache \in [Key -> Documents]
    /\ early \subseteq Key

\* Nothing is lost between the list and the feed: where the cache of a running
\* watch differs from the store, the document is still ahead in the feed, unless
\* its tombstone expired before the watcher had read it (List starts the watcher
\* before the query; readFeedRange stores the token after the items).
FeedCoversDifference ==
    phase = "watching" =>
        \A k \in Key \ early :
            cache[k] # View(store[k]) => store[k].lsn > token[RangeOf(k)]

\* The cache never goes back to an older version of the document it shows, not
\* even when a page read before the list is processed after it.
CacheNeverGoesBack ==
    [][\A k \in Key : cache'[k].uid = cache[k].uid => cache'[k].version >= cache[k].version]_vars

\* A watch that is never ended brings its cache to the store by the feed alone,
\* except for the tombstones it was too late for.
FeedCatchesUp ==
    <>[](phase = "watching" /\ ~done) =>
        \A k \in Key : <>[](k \in early \/ cache[k] = View(store[k]))

\* When the relist period ends watch after watch, the cache agrees with the store
\* in the end, whatever expired, failed or was delivered late in between.
CacheConverges ==
    []<>done => <>[](cache = [k \in Key |-> View(store[k])])
=============================================================================
