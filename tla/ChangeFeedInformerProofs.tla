----------------------- MODULE ChangeFeedInformerProofs -----------------------
(***************************************************************************)
(* Proofs about the change-feed informer, for any keys, feed ranges and    *)
(* number of writes.                                                       *)
(***************************************************************************)
EXTENDS ChangeFeedInformer, TLAPS

\* Copy is an earlier write of the stored document, or the document itself.
EarlierWrite(copy, doc) ==
    /\ doc.state # "absent"
    /\ copy.lsn <= doc.lsn /\ copy.version <= doc.version
    /\ copy.lsn = doc.lsn \/ copy.version = doc.version => copy = doc

\* Positions are in order, and a page holds items between its two tokens.
PositionsInv ==
    /\ \A r \in FeedRanges : token[r] <= pageEnd[r] /\ pageEnd[r] <= lsn
    /\ \A k \in Key :
          /\ store[k].lsn <= lsn
          /\ store[k].state = "absent" => store[k] = Missing
          /\ page[k] # Missing => /\ page[k].state # "absent"
                                  /\ token[RangeOf(k)] < page[k].lsn
                                  /\ page[k].lsn <= pageEnd[RangeOf(k)]

\* What is in the cache or the list is a delivered document or none.
CopiesInv ==
    \A k \in Key :
        /\ cache[k] = Missing \/ (cache[k].state = "live" /\ cache[k].version > 0)
        /\ listed[k] = Missing \/ (listed[k].state = "live" /\ listed[k].version > 0)
        /\ page[k] = Missing \/ page[k].version > 0
        /\ store[k] = Missing \/ store[k].version > 0
        /\ phase = "watching" => seen[k] = cache[k].version

\* Copies of a document whose tombstone did not expire early are writes of it.
HistoryInv ==
    \A k \in Key \ early :
        /\ page[k] # Missing => EarlierWrite(page[k], store[k])
        /\ phase = "watching" /\ cache[k] # Missing => EarlierWrite(cache[k], store[k])
        /\ phase = "listing" /\ k \notin unread /\ listed[k] # Missing =>
              EarlierWrite(listed[k], store[k])

\* While a list runs, what it read differs from the store only where the feed will tell.
ListCoversDifference ==
    phase = "listing" =>
        \A k \in Key \ (early \cup unread) :
            listed[k] # View(store[k]) => store[k].lsn > token[RangeOf(k)]

\* A document last written within the page in progress is in it, or processed.
PageInv ==
    \A k \in Key \ early :
        /\ phase \in {"listing", "watching"}
        /\ token[RangeOf(k)] < store[k].lsn /\ store[k].lsn <= pageEnd[RangeOf(k)]
        => \/ page[k] = store[k]
           \/ phase = "watching" /\ page[k] = Missing /\ cache[k] = View(store[k])

\* The inductive invariant behind FeedCoversDifference.
CoverInv ==
    /\ TypeOK /\ PositionsInv /\ CopiesInv /\ HistoryInv
    /\ ListCoversDifference /\ PageInv /\ FeedCoversDifference

\* Versions of a document only grow from the cache over the list to the store.
VersionsGrow(k) ==
    /\ store[k].uid <= lsn /\ page[k].uid <= lsn
    /\ cache[k].uid <= lsn /\ listed[k].uid <= lsn
    /\ store[k] # Missing => store[k].uid > 0
    /\ page[k] # Missing => page[k].uid > 0
    /\ cache[k] # Missing => cache[k].uid > 0
    /\ listed[k] # Missing => listed[k].uid > 0
    /\ cache[k].uid = store[k].uid => cache[k].version <= store[k].version
    /\ listed[k].uid = store[k].uid => listed[k].version <= store[k].version
    /\ page[k].uid = store[k].uid => page[k].version <= store[k].version
    /\ phase = "listing" /\ k \notin unread /\ cache[k].uid = listed[k].uid =>
          cache[k].version <= listed[k].version

VersionInv == \A k \in Key : VersionsGrow(k)

----------------------------------------------------------------------------

\* Every key lies in exactly one feed range.
LEMMA RangeOfKey ==
    ASSUME NEW k \in Key
    PROVE  /\ RangeOf(k) \in FeedRanges /\ k \in RangeOf(k)
           /\ \A r \in FeedRanges : k \in r => r = RangeOf(k)
  BY Zenon, RangeAssumption DEF RangeOf

\* What an absent key holds is no document, and View shows live documents only.
LEMMA ViewFacts ==
    /\ Missing \in Documents
    /\ Missing.state = "absent" /\ Missing.uid = 0 /\ Missing.version = 0 /\ Missing.lsn = 0
    /\ \A doc \in Documents : /\ View(doc) \in Documents
                              /\ doc.state = "live" => View(doc) = doc
                              /\ doc.state # "live" => View(doc) = Missing
  BY Zenon DEF Missing, Documents, View

\* The cover invariant holds before the first list.
LEMMA CoverInit == Init => CoverInv
  <1> SUFFICES ASSUME Init PROVE CoverInv
    BY Zenon
  <1> USE ViewFacts DEF Init
  <1>1. TypeOK
    <2>1. lsn \in 0 .. MaxLSN /\ started \in 0 .. MaxLSN
      BY BoundAssumption
    <2>2. token \in [FeedRanges -> 0 .. MaxLSN] /\ pageEnd \in [FeedRanges -> 0 .. MaxLSN]
      BY BoundAssumption
    <2>3. /\ store \in [Key -> Documents] /\ page \in [Key -> Documents]
          /\ listed \in [Key -> Documents] /\ cache \in [Key -> Documents]
          /\ seen \in [Key -> Nat]
      BY Zenon
    <2> QED BY Zenon, <2>1, <2>2, <2>3 DEF TypeOK
  <1>2. \A k \in Key : cache[k] = View(store[k])
    BY Zenon
  <1>3. PositionsInv /\ CopiesInv
    BY RangeOfKey DEF PositionsInv, CopiesInv
  <1>4. HistoryInv /\ PageInv /\ ListCoversDifference /\ FeedCoversDifference
    BY Zenon, RangeOfKey DEF HistoryInv, ListCoversDifference, PageInv, FeedCoversDifference
  <1> QED BY Zenon, <1>1, <1>3, <1>4 DEF CoverInv

\* The cover invariant survives a created document.
LEMMA CoverCreate ==
    ASSUME CoverInv, NEW k \in Key, Create(k)
    PROVE  CoverInv'
  <1> USE RangeOfKey, ViewFacts, BoundAssumption
  <1> USE DEF CoverInv, Create, Writes, writerVars, watcherVars, listVars
  <1>1. TypeOK'
    BY DEF TypeOK, Documents
  <1>2. PositionsInv'
    BY DEF TypeOK, Documents, PositionsInv
  <1>3. CopiesInv'
    BY DEF TypeOK, Documents, CopiesInv
  <1>4. HistoryInv'
    BY DEF TypeOK, Documents, PositionsInv, HistoryInv, EarlierWrite
  <1>5. ListCoversDifference'
    BY DEF TypeOK, Documents, PositionsInv, ListCoversDifference
  <1>6. PageInv'
    BY DEF TypeOK, Documents, PositionsInv, PageInv
  <1>7. FeedCoversDifference'
    BY DEF TypeOK, Documents, PositionsInv, FeedCoversDifference
  <1> QED BY Zenon, <1>1, <1>2, <1>3, <1>4, <1>5, <1>6, <1>7

\* The cover invariant survives a replaced document.
LEMMA CoverReplace ==
    ASSUME CoverInv, NEW k \in Key, Replace(k)
    PROVE  CoverInv'
  <1> USE RangeOfKey, ViewFacts, BoundAssumption
  <1> USE DEF CoverInv, Replace, Writes, writerVars, watcherVars, listVars
  <1>1. TypeOK'
    BY DEF TypeOK, Documents
  <1>2. PositionsInv'
    BY DEF TypeOK, Documents, PositionsInv
  <1>3. CopiesInv'
    BY DEF TypeOK, Documents, CopiesInv
  <1>4. HistoryInv'
    BY DEF TypeOK, Documents, PositionsInv, HistoryInv, EarlierWrite
  <1>5. ListCoversDifference'
    BY DEF TypeOK, Documents, PositionsInv, ListCoversDifference
  <1>6. PageInv'
    BY DEF TypeOK, Documents, PositionsInv, PageInv
  <1>7. FeedCoversDifference'
    BY DEF TypeOK, Documents, PositionsInv, FeedCoversDifference
  <1> QED BY Zenon, <1>1, <1>2, <1>3, <1>4, <1>5, <1>6, <1>7

\* The cover invariant survives a deleted document.
LEMMA CoverSoftDelete ==
    ASSUME CoverInv, NEW k \in Key, SoftDelete(k)
    PROVE  CoverInv'
  <1> USE RangeOfKey, ViewFacts, BoundAssumption
  <1> USE DEF CoverInv, SoftDelete, Writes, writerVars, watcherVars, listVars
  <1>1. TypeOK'
    BY DEF TypeOK, Documents
  <1>2. PositionsInv'
    BY DEF TypeOK, Documents, PositionsInv
  <1>3. CopiesInv'
    BY DEF TypeOK, Documents, CopiesInv
  <1>4. HistoryInv'
    BY DEF TypeOK, Documents, PositionsInv, HistoryInv, EarlierWrite
  <1>5. ListCoversDifference'
    BY DEF TypeOK, Documents, PositionsInv, ListCoversDifference
  <1>6. PageInv'
    BY DEF TypeOK, Documents, PositionsInv, PageInv
  <1>7. FeedCoversDifference'
    BY DEF TypeOK, Documents, PositionsInv, FeedCoversDifference
  <1> QED BY Zenon, <1>1, <1>2, <1>3, <1>4, <1>5, <1>6, <1>7

\* The cover invariant survives a tombstone that expires.
LEMMA CoverExpireTombstone ==
    ASSUME CoverInv, NEW k \in Key, ExpireTombstone(k)
    PROVE  CoverInv'
  <1> USE RangeOfKey, ViewFacts, BoundAssumption
  <1> USE DEF CoverInv, ExpireTombstone, writerVars, watcherVars, listVars
  <1>1. TypeOK'
    BY DEF TypeOK, Documents
  <1>2. PositionsInv'
    BY DEF TypeOK, Documents, PositionsInv
  <1>3. CopiesInv'
    BY DEF TypeOK, Documents, CopiesInv
  <1>4. HistoryInv'
    <2> SUFFICES ASSUME NEW j \in Key \ early'
                 PROVE  /\ (page[j] # Missing => EarlierWrite(page[j], store[j]))'
                        /\ (phase = "watching" /\ cache[j] # Missing =>
                               EarlierWrite(cache[j], store[j]))'
                        /\ (phase = "listing" /\ j \notin unread /\ listed[j] # Missing =>
                               EarlierWrite(listed[j], store[j]))'
      BY Zenon DEF HistoryInv
    <2>1. CASE j = k
      <3>1. j \notin early /\ ~(store[j].lsn > token[RangeOf(j)])
        BY Zenon, <2>1
      <3>2. View(store[j]) = Missing
        BY Zenon, <2>1 DEF TypeOK
      <3>3. page[j] = Missing
        BY <3>1 DEF HistoryInv, EarlierWrite, PositionsInv, TypeOK, Documents
      <3>4. phase = "watching" => cache[j] = Missing
        BY Zenon, <3>1, <3>2 DEF FeedCoversDifference
      <3>5. phase = "listing" /\ j \notin unread => listed[j] = Missing
        BY Zenon, <3>1, <3>2 DEF ListCoversDifference
      <3> QED BY Zenon, <3>3, <3>4, <3>5
    <2>2. CASE j # k
      BY <2>2 DEF HistoryInv, TypeOK
    <2> QED BY Zenon, <2>1, <2>2
  <1>5. ListCoversDifference'
    BY DEF TypeOK, Documents, PositionsInv, ListCoversDifference
  <1>6. PageInv'
    BY DEF TypeOK, Documents, PositionsInv, PageInv
  <1>7. FeedCoversDifference'
    BY DEF TypeOK, Documents, PositionsInv, FeedCoversDifference
  <1> QED BY Zenon, <1>1, <1>2, <1>3, <1>4, <1>5, <1>6, <1>7

\* The cover invariant survives a key that is listed.
LEMMA CoverListKey ==
    ASSUME CoverInv, NEW k \in Key, ListKey(k)
    PROVE  CoverInv'
  <1> USE RangeOfKey, ViewFacts, BoundAssumption
  <1> USE DEF CoverInv, ListKey, Query, writerVars, watcherVars, listVars
  <1>1. TypeOK'
    BY DEF TypeOK, Documents
  <1>2. PositionsInv'
    BY Zenon DEF TypeOK, Documents, PositionsInv
  <1>3. CopiesInv'
    BY DEF TypeOK, Documents, CopiesInv
  <1>4. HistoryInv'
    BY DEF TypeOK, Documents, PositionsInv, HistoryInv, EarlierWrite
  <1>5. ListCoversDifference'
    BY DEF TypeOK, Documents, PositionsInv, ListCoversDifference
  <1>6. PageInv'
    BY Zenon DEF TypeOK, Documents, PositionsInv, PageInv
  <1>7. FeedCoversDifference'
    BY Zenon DEF TypeOK, Documents, PositionsInv, FeedCoversDifference
  <1> QED BY Zenon, <1>1, <1>2, <1>3, <1>4, <1>5, <1>6, <1>7

\* What processItem does to the cache: it stores the item, deletes the entry of a
\* document it knew, or drops the item.
LEMMA ProcessOutcome ==
    ASSUME TypeOK, NEW k \in Key, ProcessItem(k)
    PROVE  \/ /\ seen[k] = 0 \/ page[k].version > seen[k]
              /\ page[k].state = "live"
              /\ cache'[k] = page[k] /\ seen'[k] = page[k].version
           \/ /\ seen[k] # 0 /\ page[k].version > seen[k]
              /\ page[k].state # "live"
              /\ cache'[k] = Missing /\ seen'[k] = 0
           \/ /\ \/ seen[k] # 0 /\ page[k].version <= seen[k]
                 \/ seen[k] = 0 /\ page[k].state # "live"
              /\ cache'[k] = cache[k] /\ seen'[k] = seen[k]
  <1> DEFINE outcome == Outcome(page[k], seen[k])
  <1>1. page[k].version \in Nat /\ seen[k] \in Nat
    BY Zenon DEF TypeOK, Documents
  <1>2. \/ outcome = "stored" /\ page[k].state = "live" /\ (seen[k] = 0 \/ page[k].version > seen[k])
        \/ outcome = "deleted" /\ page[k].state # "live" /\ seen[k] # 0 /\ page[k].version > seen[k]
        \/ outcome = "dropped" /\ \/ seen[k] # 0 /\ page[k].version <= seen[k]
                                  \/ seen[k] = 0 /\ page[k].state # "live"
    BY <1>1 DEF Outcome
  <1> HIDE DEF outcome
  <1>3. /\ cache'[k] = CASE outcome = "stored" -> page[k]
                         [] outcome = "deleted" -> Missing
                         [] OTHER -> cache[k]
        /\ seen'[k] = CASE outcome = "stored" -> page[k].version
                        [] outcome = "deleted" -> 0
                        [] OTHER -> seen[k]
    BY Zenon DEF ProcessItem, TypeOK, outcome
  <1> QED BY Zenon, <1>2, <1>3

\* The cover invariant survives an item that is processed.
LEMMA CoverProcessItem ==
    ASSUME CoverInv, NEW k \in Key, ProcessItem(k)
    PROVE  CoverInv'
  <1> USE RangeOfKey, ViewFacts, BoundAssumption
  <1> USE DEF CoverInv, ProcessItem, Outcome, writerVars, watcherVars, listVars
  <1>1. TypeOK'
    BY DEF TypeOK, Documents
  <1>2. PositionsInv'
    BY DEF TypeOK, Documents, PositionsInv
  <1>3. CopiesInv'
    BY DEF TypeOK, Documents, CopiesInv
  <1>4. HistoryInv'
    BY DEF TypeOK, Documents, PositionsInv, HistoryInv, EarlierWrite
  <1>5. ListCoversDifference'
    BY Zenon DEF TypeOK, Documents, PositionsInv, ListCoversDifference
  <1>6. PageInv'
    <2> SUFFICES ASSUME NEW j \in Key \ early,
                        token[RangeOf(j)] < store[j].lsn, store[j].lsn <= pageEnd[RangeOf(j)]
                 PROVE  page'[j] = store[j] \/ (page'[j] = Missing /\ cache'[j] = View(store[j]))
      BY Zenon DEF PageInv
    <2>1. CASE j # k
      BY <2>1 DEF PageInv, TypeOK
    <2>2. CASE j = k
      <3>1. page[k] = store[k] /\ page'[k] = Missing
        BY <2>2 DEF PageInv, TypeOK
      <3>2. seen[k] = cache[k].version /\ store[k] \in Documents /\ store[k].version > 0
        BY Zenon, <3>1 DEF CopiesInv, TypeOK
      <3>3. /\ cache[k] # Missing => EarlierWrite(cache[k], store[k])
            /\ cache[k] # Missing => cache[k].version > 0 /\ cache[k].state = "live"
        BY Zenon, <2>2 DEF HistoryInv, CopiesInv
      <3> HIDE DEF ProcessItem
      <3>4. CASE cache'[k] = cache[k] /\ seen[k] # 0 /\ page[k].version <= seen[k]
        <4>1. cache[k] # Missing /\ cache[k].version \in Nat /\ store[k].version \in Nat
          BY Zenon, <3>2, <3>4 DEF TypeOK, Documents
        <4>2. cache[k].version = store[k].version
          BY <3>1, <3>2, <3>3, <3>4, <4>1 DEF EarlierWrite
        <4>3. cache[k] = store[k]
          BY Zenon, <3>3, <4>1, <4>2 DEF EarlierWrite
        <4> QED BY Zenon, <2>2, <3>1, <3>2, <3>3, <3>4, <4>1, <4>3
      <3>5. CASE cache'[k] = cache[k] /\ seen[k] = 0 /\ page[k].state # "live"
        BY <2>2, <3>1, <3>2, <3>3, <3>5
      <3>6. CASE page[k].state = "live" /\ cache'[k] = page[k]
        BY Zenon, <2>2, <3>1, <3>2, <3>6
      <3>7. CASE page[k].state # "live" /\ cache'[k] = Missing
        BY Zenon, <2>2, <3>1, <3>2, <3>7
      <3> QED BY Zenon, <2>2, <3>1, <3>4, <3>5, <3>6, <3>7, ProcessOutcome
    <2> QED BY Zenon, <2>1, <2>2
  <1>7. FeedCoversDifference'
    BY DEF TypeOK, Documents, PositionsInv, HistoryInv, EarlierWrite, FeedCoversDifference
  <1> QED BY Zenon, <1>1, <1>2, <1>3, <1>4, <1>5, <1>6, <1>7

\* The cover invariant survives a page that is read.
LEMMA CoverReadPage ==
    ASSUME CoverInv, NEW r \in FeedRanges, ReadPage(r)
    PROVE  CoverInv'
  <1> USE RangeOfKey, ViewFacts, BoundAssumption
  <1> USE DEF CoverInv, ReadPage, writerVars, watcherVars, listVars
  <1>1. TypeOK'
    BY DEF TypeOK, Documents
  <1>2. PositionsInv'
    BY DEF TypeOK, Documents, PositionsInv
  <1>3. CopiesInv'
    BY DEF TypeOK, Documents, CopiesInv
  <1>4. HistoryInv'
    BY DEF TypeOK, Documents, PositionsInv, HistoryInv, EarlierWrite
  <1>5. ListCoversDifference'
    BY Zenon DEF TypeOK, Documents, PositionsInv, ListCoversDifference
  <1>6. PageInv'
    <2> SUFFICES ASSUME NEW j \in Key \ early,
                        token[RangeOf(j)] < store[j].lsn, store[j].lsn <= pageEnd'[RangeOf(j)]
                 PROVE  \/ page'[j] = store[j]
                        \/ phase = "watching" /\ page'[j] = Missing /\ cache[j] = View(store[j])
      BY Zenon DEF PageInv
    <2>1. CASE j \in r
      BY <2>1 DEF TypeOK
    <2>2. CASE j \notin r
      BY <2>2 DEF PageInv, TypeOK
    <2> QED BY Zenon, <2>1, <2>2
  <1>7. FeedCoversDifference'
    BY Zenon DEF TypeOK, Documents, PositionsInv, FeedCoversDifference
  <1> QED BY Zenon, <1>1, <1>2, <1>3, <1>4, <1>5, <1>6, <1>7

\* The cover invariant survives a token that is stored.
LEMMA CoverStoreToken ==
    ASSUME CoverInv, NEW r \in FeedRanges, StoreToken(r)
    PROVE  CoverInv'
  <1> USE RangeOfKey, ViewFacts, BoundAssumption
  <1> USE DEF CoverInv, StoreToken, EveryItem, writerVars, watcherVars, listVars
  <1>1. TypeOK'
    BY Zenon DEF TypeOK, Documents
  <1>2. PositionsInv'
    BY DEF TypeOK, Documents, PositionsInv
  <1>3. CopiesInv'
    BY Zenon DEF TypeOK, Documents, CopiesInv
  <1>4. HistoryInv'
    BY DEF TypeOK, Documents, PositionsInv, HistoryInv, EarlierWrite
  <1>5. ListCoversDifference'
    <2> SUFFICES ASSUME phase = "listing", NEW j \in Key \ (early \cup unread),
                        listed[j] # View(store[j])
                 PROVE  store[j].lsn > token'[RangeOf(j)]
      BY Zenon DEF ListCoversDifference
    <2>1. store[j].lsn > token[RangeOf(j)]
      BY Zenon DEF ListCoversDifference
    <2>2. CASE j \in r
      <3>1. page[j] = Missing /\ store[j].lsn \in Nat /\ token[r] \in Nat /\ pageEnd[r] \in Nat
        BY <2>2 DEF TypeOK, Documents
      <3> QED BY <2>1, <2>2, <3>1 DEF PageInv, TypeOK
    <2>3. CASE j \notin r
      BY <2>1, <2>3 DEF TypeOK
    <2> QED BY Zenon, <2>2, <2>3
  <1>6. PageInv'
    <2> SUFFICES ASSUME NEW j \in Key \ early,
                        token'[RangeOf(j)] < store[j].lsn, store[j].lsn <= pageEnd[RangeOf(j)]
                 PROVE  \/ page[j] = store[j]
                        \/ phase = "watching" /\ page[j] = Missing /\ cache[j] = View(store[j])
      BY Zenon DEF PageInv
    <2>1. RangeOf(j) # r
      BY DEF TypeOK, Documents
    <2> QED BY Zenon, <2>1 DEF PageInv, TypeOK
  <1>7. FeedCoversDifference'
    <2> SUFFICES ASSUME phase = "watching", NEW j \in Key \ early,
                        cache[j] # View(store[j])
                 PROVE  store[j].lsn > token'[RangeOf(j)]
      BY Zenon DEF FeedCoversDifference
    <2>1. store[j].lsn > token[RangeOf(j)]
      BY Zenon DEF FeedCoversDifference
    <2>2. CASE j \in r
      <3>1. page[j] = Missing /\ store[j].lsn \in Nat /\ token[r] \in Nat /\ pageEnd[r] \in Nat
        BY <2>2 DEF TypeOK, Documents
      <3> QED BY <2>1, <2>2, <3>1 DEF PageInv, TypeOK
    <2>3. CASE j \notin r
      BY <2>1, <2>3 DEF TypeOK
    <2> QED BY Zenon, <2>2, <2>3
  <1> QED BY Zenon, <1>1, <1>2, <1>3, <1>4, <1>5, <1>6, <1>7

\* The cover invariant survives a page that is given up.
LEMMA CoverAbandonPage ==
    ASSUME CoverInv, NEW r \in FeedRanges, AbandonPage(r)
    PROVE  CoverInv'
  <1> USE RangeOfKey, ViewFacts, BoundAssumption
  <1> USE DEF CoverInv, AbandonPage, writerVars, watcherVars, listVars
  <1>1. TypeOK'
    BY DEF TypeOK, Documents
  <1>2. PositionsInv'
    BY DEF TypeOK, Documents, PositionsInv
  <1>3. CopiesInv'
    BY Zenon DEF TypeOK, Documents, CopiesInv
  <1>4. HistoryInv'
    BY DEF TypeOK, Documents, PositionsInv, HistoryInv, EarlierWrite
  <1>5. ListCoversDifference'
    BY Zenon DEF TypeOK, Documents, PositionsInv, ListCoversDifference
  <1>6. PageInv'
    BY DEF TypeOK, Documents, HistoryInv, EarlierWrite, PositionsInv, CopiesInv, PageInv
  <1>7. FeedCoversDifference'
    BY Zenon DEF TypeOK, Documents, PositionsInv, FeedCoversDifference
  <1> QED BY Zenon, <1>1, <1>2, <1>3, <1>4, <1>5, <1>6, <1>7

\* The cover invariant survives a list that starts.
LEMMA CoverStartList ==
    ASSUME CoverInv, StartList
    PROVE  CoverInv'
  <1> USE RangeOfKey, ViewFacts, BoundAssumption
  <1> USE DEF CoverInv, StartList, ListIsDue, StartToken, writerVars, watcherVars, listVars
  <1>1. TypeOK'
    <2>1. lsn \in 0 .. MaxLSN /\ \A n \in {0, 1} : lsn # 0 => lsn - n \in 0 .. MaxLSN
      BY DEF TypeOK
    <2>2. token' \in [FeedRanges -> 0 .. MaxLSN] /\ pageEnd' = token'
      BY <2>1
    <2> QED BY Zenon, <2>2 DEF TypeOK
  <1>2. PositionsInv'
    BY DEF TypeOK, Documents, PositionsInv
  <1>3. CopiesInv'
    BY Zenon DEF TypeOK, Documents, CopiesInv
  <1>4. HistoryInv'
    BY Zenon DEF TypeOK, Documents, PositionsInv, HistoryInv, EarlierWrite
  <1>5. ListCoversDifference'
    BY Zenon DEF TypeOK, Documents, PositionsInv, ListCoversDifference
  <1>6. PageInv'
    BY DEF TypeOK, Documents, PositionsInv, PageInv
  <1>7. FeedCoversDifference'
    BY Zenon DEF TypeOK, Documents, PositionsInv, FeedCoversDifference
  <1> QED BY Zenon, <1>1, <1>2, <1>3, <1>4, <1>5, <1>6, <1>7

\* The cover invariant survives a list that ends.
LEMMA CoverFinishList ==
    ASSUME CoverInv, FinishList
    PROVE  CoverInv'
  <1> USE RangeOfKey, ViewFacts, BoundAssumption
  <1> USE DEF CoverInv, FinishList, writerVars, watcherVars, listVars
  <1>1. TypeOK'
    BY DEF TypeOK, Documents
  <1>2. PositionsInv'
    BY Zenon DEF TypeOK, Documents, PositionsInv
  <1>3. CopiesInv'
    BY Zenon DEF TypeOK, Documents, CopiesInv
  <1>4. HistoryInv'
    BY DEF TypeOK, Documents, PositionsInv, HistoryInv, EarlierWrite
  <1>5. ListCoversDifference'
    BY Zenon DEF TypeOK, Documents, PositionsInv, ListCoversDifference
  <1>6. PageInv'
    BY Zenon DEF TypeOK, Documents, PositionsInv, PageInv
  <1>7. FeedCoversDifference'
    BY Zenon DEF TypeOK, Documents, ListCoversDifference, FeedCoversDifference
  <1> QED BY Zenon, <1>1, <1>2, <1>3, <1>4, <1>5, <1>6, <1>7

\* The cover invariant survives a list that fails.
LEMMA CoverFailList ==
    ASSUME CoverInv, FailList
    PROVE  CoverInv'
  <1> USE RangeOfKey, ViewFacts, BoundAssumption
  <1> USE DEF CoverInv, FailList, writerVars, watcherVars, listVars
  <1>1. TypeOK'
    BY Zenon DEF TypeOK, Documents
  <1>2. PositionsInv'
    BY Zenon DEF TypeOK, Documents, PositionsInv
  <1>3. CopiesInv'
    BY Zenon DEF TypeOK, Documents, CopiesInv
  <1>4. HistoryInv'
    BY Zenon DEF TypeOK, Documents, PositionsInv, HistoryInv, EarlierWrite
  <1>5. ListCoversDifference'
    BY Zenon DEF TypeOK, Documents, PositionsInv, ListCoversDifference
  <1>6. PageInv'
    BY Zenon DEF TypeOK, Documents, PositionsInv, PageInv
  <1>7. FeedCoversDifference'
    BY Zenon DEF TypeOK, Documents, PositionsInv, FeedCoversDifference
  <1> QED BY Zenon, <1>1, <1>2, <1>3, <1>4, <1>5, <1>6, <1>7

\* The cover invariant survives a watch that ends.
LEMMA CoverEndWatch ==
    ASSUME CoverInv, EndWatch
    PROVE  CoverInv'
  <1> USE RangeOfKey, ViewFacts, BoundAssumption
  <1> USE DEF CoverInv, EndWatch, writerVars, watcherVars, listVars
  <1>1. TypeOK'
    BY Zenon DEF TypeOK, Documents
  <1>2. PositionsInv'
    BY Zenon DEF TypeOK, Documents, PositionsInv
  <1>3. CopiesInv'
    BY Zenon DEF TypeOK, Documents, CopiesInv
  <1>4. HistoryInv'
    BY DEF TypeOK, Documents, PositionsInv, HistoryInv, EarlierWrite
  <1>5. ListCoversDifference'
    BY Zenon DEF TypeOK, Documents, PositionsInv, ListCoversDifference
  <1>6. PageInv'
    BY Zenon DEF TypeOK, Documents, PositionsInv, PageInv
  <1>7. FeedCoversDifference'
    BY Zenon DEF TypeOK, Documents, PositionsInv, FeedCoversDifference
  <1> QED BY Zenon, <1>1, <1>2, <1>3, <1>4, <1>5, <1>6, <1>7

\* Every step keeps the cover invariant.
LEMMA CoverStep == CoverInv /\ [Next]_vars => CoverInv'
  <1> SUFFICES ASSUME CoverInv, [Next]_vars PROVE CoverInv'
    BY Zenon
  <1>1. CASE UNCHANGED vars
    BY Zenon, <1>1 DEF vars, CoverInv, TypeOK, PositionsInv, CopiesInv, HistoryInv,
                ListCoversDifference, PageInv, FeedCoversDifference
  <1>2. CASE Next
    BY Zenon, <1>2, CoverCreate, CoverReplace, CoverSoftDelete, CoverExpireTombstone, CoverListKey,
       CoverProcessItem, CoverReadPage, CoverStoreToken, CoverAbandonPage, CoverStartList,
       CoverFinishList, CoverFailList, CoverEndWatch DEF Next
  <1> QED BY Zenon, <1>1, <1>2

\* No change of a document is lost between List, which starts the watcher before
\* the query, and the watcher, which stores a token after the items before it: the
\* cache of a watch agrees with the store but for what is still ahead in the feed.
THEOREM FeedCovers == Spec => []FeedCoversDifference
  <1>1. CoverInv => FeedCoversDifference
    BY Zenon DEF CoverInv
  <1> QED BY CoverInit, CoverStep, <1>1, PTL DEF Spec

\* No key holds a version before the first write.
LEMMA VersionInit == Init => VersionInv
  <1> SUFFICES ASSUME Init, NEW k \in Key PROVE VersionsGrow(k)
    BY Zenon DEF VersionInv
  <1>1. store[k] = Missing /\ page[k] = Missing /\ cache[k] = Missing /\ listed[k] = Missing
    BY Zenon DEF Init
  <1>2. lsn = 0
    BY Zenon DEF Init
  <1> QED BY <1>1, <1>2, ViewFacts DEF VersionsGrow

\* Versions grow from the cache to the store, in every step.
LEMMA VersionStep ==
    ASSUME CoverInv, VersionInv, [Next]_vars
    PROVE  VersionInv'
  <1> SUFFICES ASSUME NEW j \in Key PROVE VersionsGrow(j)'
    BY Zenon DEF VersionInv
  <1> USE ViewFacts DEF writerVars, watcherVars, listVars
  <1>1. /\ TypeOK /\ VersionsGrow(j) /\ lsn \in Nat
        /\ store[j] \in Documents /\ page[j] \in Documents
        /\ cache[j] \in Documents /\ listed[j] \in Documents
    BY DEF CoverInv, TypeOK, VersionInv
  <1>2. ASSUME NEW doc \in {store[j], page[j], cache[j], listed[j]}
        PROVE  doc.uid \in Nat /\ doc.version \in Nat
    BY Zenon, <1>1 DEF Documents
  <1>3. ASSUME NEW k \in Key, Create(k) \/ Replace(k) \/ SoftDelete(k) PROVE VersionsGrow(j)'
    <2>1. \/ store'[j] = store[j]
          \/ /\ store'[j] # Missing /\ store'[j].uid \in Nat /\ store'[j].version \in Nat
             /\ \/ store'[j].uid = lsn + 1
                \/ /\ store[j] # Missing /\ store'[j].uid = store[j].uid
                   /\ store'[j].version = store[j].version + 1
      <3>1. CASE Create(k)
        BY <1>1, <1>2, <3>1 DEF Create, Writes, TypeOK
      <3>2. CASE Replace(k)
        BY <1>1, <1>2, <3>2 DEF Replace, Writes, TypeOK
      <3>3. CASE SoftDelete(k)
        BY <1>1, <1>2, <3>3 DEF SoftDelete, Writes, TypeOK
      <3> QED BY Zenon, <1>3, <3>1, <3>2, <3>3
    <2>2. lsn' = lsn + 1 /\ UNCHANGED <<phase, page, cache, listed, unread>>
      BY Zenon, <1>3 DEF Create, Replace, SoftDelete, Writes
    <2> QED BY <1>1, <1>2, <2>1, <2>2 DEF VersionsGrow
  <1>4. ASSUME NEW k \in Key, ExpireTombstone(k) PROVE VersionsGrow(j)'
    <2>1. store'[j] \in {store[j], Missing} /\ UNCHANGED <<lsn, phase, page, cache, listed, unread>>
      BY Zenon, <1>1, <1>4 DEF ExpireTombstone, TypeOK
    <2> QED BY <1>1, <1>2, <2>1 DEF VersionsGrow
  <1>5. ASSUME NEW k \in Key, ListKey(k) PROVE VersionsGrow(j)'
    <2>1. \/ listed'[j] = View(store[j])
          \/ listed'[j] = listed[j] /\ (j \in unread' <=> j \in unread)
      BY Zenon, <1>1, <1>5 DEF ListKey, Query, TypeOK
    <2>2. UNCHANGED <<store, lsn, phase, page, cache>>
      BY Zenon, <1>5 DEF ListKey, Query
    <2>3. View(store[j]) \in {store[j], Missing}
      BY Zenon, <1>1
    <2> QED BY <1>1, <1>2, <2>1, <2>2, <2>3 DEF VersionsGrow
  <1>6. ASSUME NEW k \in Key, ProcessItem(k) PROVE VersionsGrow(j)'
    <2>1. cache'[j] \in {cache[j], page[j], Missing} /\ page'[j] \in {page[j], Missing}
      BY Zenon, <1>1, <1>6, ProcessOutcome DEF ProcessItem, TypeOK
    <2>2. phase' = "watching" /\ UNCHANGED <<store, lsn, listed>>
      BY Zenon, <1>6 DEF ProcessItem
    <2> QED BY <1>1, <1>2, <2>1, <2>2 DEF VersionsGrow
  <1>7. ASSUME NEW r \in FeedRanges, ReadPage(r) \/ StoreToken(r) \/ AbandonPage(r)
        PROVE  VersionsGrow(j)'
    <2>1. page'[j] \in {page[j], store[j], Missing} /\ UNCHANGED <<store, lsn, phase, cache, listed, unread>>
      BY Zenon, <1>1, <1>7 DEF ReadPage, StoreToken, EveryItem, AbandonPage, TypeOK
    <2> QED BY <1>1, <1>2, <2>1 DEF VersionsGrow
  <1>8. ASSUME StartList \/ FailList \/ EndWatch PROVE VersionsGrow(j)'
    <2>1. page'[j] \in {page[j], Missing} /\ listed'[j] \in {listed[j], Missing}
      BY Zenon, <1>1, <1>8 DEF StartList, ListIsDue, StartToken, FailList, EndWatch, TypeOK
    <2>2. phase' = "listing" => \/ unread' = Key
                                \/ phase = "listing" /\ unread' = unread /\ listed' = listed
      BY Zenon, <1>8 DEF StartList, ListIsDue, StartToken, FailList, EndWatch
    <2>3. UNCHANGED <<store, lsn, cache>>
      BY Zenon, <1>8 DEF StartList, ListIsDue, StartToken, FailList, EndWatch
    <2> QED BY <1>1, <1>2, <2>1, <2>2, <2>3 DEF VersionsGrow
  <1>9. ASSUME FinishList PROVE VersionsGrow(j)'
    <2>1. cache'[j] = listed[j] /\ listed'[j] = Missing /\ phase' = "watching"
      BY Zenon, <1>9 DEF FinishList
    <2>2. UNCHANGED <<store, lsn, page>>
      BY Zenon, <1>9 DEF FinishList
    <2> QED BY <1>1, <1>2, <2>1, <2>2 DEF VersionsGrow
  <1>10. CASE UNCHANGED vars
    BY Zenon, <1>1, <1>10 DEF vars, VersionsGrow
  <1> QED BY Zenon, <1>3, <1>4, <1>5, <1>6, <1>7, <1>8, <1>9, <1>10 DEF Next

\* A cache entry is never replaced by an older version of the same document,
\* whatever page was read before the list that precedes it.
THEOREM CacheAdvances == Spec => CacheNeverGoesBack
  <1> DEFINE Advances == \A k \in Key : cache'[k].uid = cache[k].uid =>
                                           cache'[k].version >= cache[k].version
  <1>2. ASSUME CoverInv, VersionInv, [Next]_vars PROVE [Advances]_vars
    <2>1. /\ TypeOK /\ CopiesInv
          /\ \A k \in Key : /\ cache[k] \in Documents
                            /\ cache[k].version \in Nat
      BY Zenon, <1>2 DEF CoverInv, TypeOK, Documents
    <2>2. CASE UNCHANGED cache
      BY <2>1, <2>2
    <2>3. ASSUME NEW k \in Key, ProcessItem(k) PROVE Advances
      <3>1. \A j \in Key \ {k} : cache'[j] = cache[j]
        BY Zenon, <2>1, <2>3 DEF ProcessItem, TypeOK
      <3>2. seen[k] = cache[k].version /\ seen[k] \in Nat /\ page[k].version \in Nat
        BY Zenon, <2>1, <2>3 DEF CopiesInv, ProcessItem, TypeOK, Documents
      <3>3. cache[k].uid = Missing.uid => cache[k] = Missing
        BY <1>2, ViewFacts DEF VersionInv, VersionsGrow
      <3>4. cache'[k].uid = cache[k].uid => cache'[k].version >= cache[k].version
        BY <2>1, <2>3, <3>2, <3>3, ViewFacts, ProcessOutcome
      <3> QED BY <2>1, <3>1, <3>4
    <2>4. ASSUME FinishList PROVE Advances
      BY Zenon, <1>2, <2>1, <2>4 DEF FinishList, VersionInv, VersionsGrow, TypeOK, Documents
    <2>5. \/ UNCHANGED cache
          \/ \E k \in Key : ProcessItem(k)
          \/ FinishList
      BY Zenon, <1>2 DEF Next, vars, Create, Replace, SoftDelete, Writes, ExpireTombstone, ListKey, Query,
                  ReadPage, StoreToken, EveryItem, AbandonPage, StartList, ListIsDue, StartToken, FailList, EndWatch
    <2> QED BY Zenon, <2>2, <2>3, <2>4, <2>5
  <1> QED BY CoverInit, CoverStep, VersionInit, VersionStep, <1>2, PTL DEF Spec, CacheNeverGoesBack
=============================================================================
