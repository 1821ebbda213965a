----------------------- MODULE AdminCredentialsProofs -----------------------
(***************************************************************************)
(* SentinelIsActive, RevokedCredentialsGo and EndedRequestsAreFinal hold   *)
(* for any number of requests and revocations.                             *)
(*                                                                         *)
(* The inductive invariant says of each revocation how far it is: what its *)
(* document, its marking and its poll imply for the credentials that were  *)
(* there before it, and what the poll may rely on in the cache.            *)
(***************************************************************************)
EXTENDS AdminCredentials, TLAPS

RevocationType == [stored : BOOLEAN, marked : BOOLEAN, revoked : BOOLEAN, deleting : BOOLEAN]
MarkingType == [active : BOOLEAN, fits : BOOLEAN, left : SUBSET (Request \X CredentialType)]

TypeInv ==
    /\ credential \in [Request -> CredentialType]
    /\ dispatch \in [Request -> {"idle", "create", "link"}]
    /\ revoke \in [Revocation -> {"none", "listed", "dropped", "Accepted", "Deleting", "Succeeded"}]
    /\ poll \in [Revocation -> {"idle", "created", "cleared"}]
    /\ revocation \in [Revocation -> RevocationType]
    /\ marking \in [Revocation -> MarkingType]
    /\ before \in [Revocation -> SUBSET Request]

\* A credential is created only where there is none.
CredentialInv ==
    \A q \in Request :
        /\ dispatch[q] = "create" => ~credential[q].stored
        /\ \A v \in Revocation : q \in before[v] => credential[q].stored

AllMarked(v) == \A q \in before[v] : credential[q].marked

\* Each credential is marked, or the marking has yet to come to it.
MarkedOrListed(v) ==
    \A q \in before[v] : credential[q].marked \/ \E c \in marking[v].left : c[1] = q

\* The document of a revocation, and the syncs that work on it.
DocumentInv(v) ==
    /\ revoke[v] \in {"none", "listed", "dropped"} =>
          ~revocation[v].stored /\ poll[v] = "idle"
    /\ marking[v].active => revocation[v].stored /\ ~revocation[v].marked
    /\ ~revocation[v].stored => ~revocation[v].marked /\ ~revocation[v].deleting
    /\ revocation[v].deleting => revocation[v].marked
    /\ poll[v] = "created" => revoke[v] = "Accepted"
    /\ poll[v] = "cleared" => revoke[v] = "Deleting" /\ ~revocation[v].stored
    /\ revoke[v] = "Succeeded" => ~revocation[v].stored

\* What it has done to the credentials.
MarkInv(v) ==
    /\ marking[v].active => MarkedOrListed(v)
    /\ revocation[v].marked => AllMarked(v)
    /\ ~revocation[v].stored /\ (poll[v] = "created" \/ revoke[v] \in {"Deleting", "Succeeded"})
          => AllMarked(v)

\* The cache shows the sentinel of a revocation that was dispatched.
SentinelInv(v) ==
    /\ sentinel = v => revoke[v] \in {"Accepted", "Deleting"}
    /\ sentinel = v /\ (poll[v] = "created" \/ revoke[v] = "Deleting") => cache = v
    /\ poll[v] = "cleared" => sentinel # v

RevocationInv ==
    /\ TypeInv
    /\ CredentialInv
    /\ \A v \in Revocation : DocumentInv(v) /\ MarkInv(v) /\ SentinelInv(v)

\* There is nothing at first.
LEMMA InitRevocation == Init => RevocationInv
  <1> SUFFICES ASSUME Init PROVE RevocationInv
    BY Zenon
  <1>1. TypeInv
    BY Zenon DEF Init, TypeInv, NoCredential, NoRevocation, NotMarking, CredentialType,
           RevocationType, MarkingType
  <1>2. CredentialInv
    BY Zenon DEF Init, CredentialInv, NoCredential
  <1>3. \A v \in Revocation : DocumentInv(v) /\ MarkInv(v) /\ SentinelInv(v)
    BY Zenon, NoneAssumption
    DEF Init, DocumentInv, MarkInv, SentinelInv, NoRevocation, NotMarking, AllMarked
  <1> QED BY Zenon, <1>1, <1>2, <1>3 DEF RevocationInv

\* A step that leaves the revocations alone and takes no mark away.
LEMMA CredentialStep ==
    ASSUME RevocationInv, UNCHANGED <<sentinel, revoke, poll, revocation, marking, before>>,
           cache' = cache,
           TypeInv', CredentialInv',
           \A v \in Revocation : \A q \in before[v] : credential[q].marked => credential'[q].marked
    PROVE  RevocationInv'
  <1> SUFFICES ASSUME NEW v \in Revocation PROVE (DocumentInv(v) /\ MarkInv(v) /\ SentinelInv(v))'
    BY Zenon DEF RevocationInv
  <1>1. DocumentInv(v)' /\ SentinelInv(v)'
    BY Zenon DEF RevocationInv, DocumentInv, SentinelInv
  <1>2. MarkInv(v)'
    BY Zenon DEF RevocationInv, MarkInv, MarkedOrListed, AllMarked
  <1> QED BY Zenon, <1>1, <1>2

\* The frontend's and the dispatcher's steps for a request.
LEMMA RequestStep ==
    ASSUME RevocationInv, NEW q \in Request,
           \/ CheckRequest(q) \/ AcceptRequest(q) \/ RequestController(q)
           \/ DecideCredential(q) \/ FailDispatch(q)
    PROVE  RevocationInv'
  <1> USE DEF requestVars, revocationVars
  <1>1. CASE CheckRequest(q) \/ AcceptRequest(q) \/ PollRequest(q)
    <2>1. UNCHANGED <<sentinel, cache, credential, dispatch, revoke, poll, revocation, marking, before>>
      BY Zenon, <1>1 DEF CheckRequest, AcceptRequest, PollRequest
    <2> QED BY Zenon, <2>1, CredentialStep DEF RevocationInv, TypeInv, CredentialInv
  <1>2. CASE DispatchRequest(q) \/ LinkCredential(q) \/ FailDispatch(q)
    <2>1. UNCHANGED <<sentinel, cache, credential, revoke, poll, revocation, marking, before>>
      BY Zenon, <1>2 DEF DispatchRequest, LinkCredential, FailDispatch
    <2>2. \/ dispatch' = dispatch
          \/ dispatch' = [dispatch EXCEPT ![q] = "idle"]
          \/ dispatch' = [dispatch EXCEPT ![q] = "create"] /\ ~credential[q].stored
      BY Zenon, <1>2 DEF DispatchRequest, LinkCredential, FailDispatch
    <2>3. TypeInv' /\ CredentialInv'
      BY <2>1, <2>2 DEF RevocationInv, TypeInv, CredentialInv
    <2> QED BY Zenon, <2>1, <2>3, CredentialStep
  <1>3. CASE CreateCredential(q)
    <2>1. /\ UNCHANGED <<sentinel, cache, revoke, poll, revocation, marking, before>>
          /\ dispatch[q] = "create"
          /\ dispatch' = [dispatch EXCEPT ![q] = "link"]
          /\ credential' = [credential EXCEPT ![q] = [NoCredential EXCEPT !.stored = TRUE]]
      BY Zenon, <1>3 DEF CreateCredential
    <2>2. [NoCredential EXCEPT !.stored = TRUE] \in CredentialType
          /\ [NoCredential EXCEPT !.stored = TRUE].stored
      BY Zenon DEF NoCredential, CredentialType
    <2>3. \A v \in Revocation : q \notin before[v]
      BY Zenon, <2>1 DEF RevocationInv, CredentialInv
    <2>4. TypeInv' /\ CredentialInv'
      BY Zenon, <2>1, <2>2, <2>3 DEF RevocationInv, TypeInv, CredentialInv
    <2>5. \A v \in Revocation : \A p \in before[v] : credential'[p] = credential[p]
      BY Zenon, <2>1, <2>3 DEF RevocationInv, TypeInv
    <2> QED BY Zenon, <2>1, <2>4, <2>5, CredentialStep
  <1>4. CASE DecideCredential(q)
    <2>1. /\ UNCHANGED <<sentinel, cache, dispatch, revoke, poll, revocation, marking, before>>
          /\ credential' = [credential EXCEPT ![q].decided = TRUE]
      BY Zenon, <1>4 DEF DecideCredential
    <2>2. /\ credential' \in [Request -> CredentialType]
          /\ \A p \in Request : /\ credential'[p].stored = credential[p].stored
                                /\ credential'[p].marked = credential[p].marked
      <3>1. credential[q] \in CredentialType
        BY Zenon DEF RevocationInv, TypeInv
      <3>2. /\ [credential[q] EXCEPT !.decided = TRUE] \in CredentialType
            /\ [credential[q] EXCEPT !.decided = TRUE].stored = credential[q].stored
            /\ [credential[q] EXCEPT !.decided = TRUE].marked = credential[q].marked
        BY Zenon, <3>1 DEF CredentialType
      <3>3. credential' = [credential EXCEPT ![q] = [credential[q] EXCEPT !.decided = TRUE]]
        BY Zenon, <2>1
      <3> QED BY Zenon, <3>2, <3>3 DEF RevocationInv, TypeInv
    <2>3. TypeInv' /\ CredentialInv'
      BY Zenon, <2>1, <2>2 DEF RevocationInv, TypeInv, CredentialInv
    <2>4. \A v \in Revocation : \A p \in before[v] : credential[p].marked => credential'[p].marked
      BY Zenon, <2>2 DEF RevocationInv, TypeInv
    <2> QED BY Zenon, <2>1, <2>3, <2>4, CredentialStep
  <1> QED BY Zenon, <1>1, <1>2, <1>3, <1>4 DEF RequestController

\* A credential that goes is no longer one of those that were there before.
LEMMA RemoveStep ==
    ASSUME RevocationInv, NEW q \in Request, RemoveCredential(q)
    PROVE  RevocationInv'
  <1>1. /\ UNCHANGED <<sentinel, cache, dispatch, revoke, poll, revocation, marking>>
        /\ credential' = [credential EXCEPT ![q] = NoCredential]
        /\ before' = [v \in Revocation |-> before[v] \ {q}]
    BY Zenon DEF RemoveCredential, revocationVars
  <1>2. NoCredential \in CredentialType /\ ~NoCredential.stored
    BY Zenon DEF NoCredential, CredentialType
  <1>3. TypeInv' /\ CredentialInv'
    BY Zenon, <1>1, <1>2 DEF RevocationInv, TypeInv, CredentialInv
  <1>4. ASSUME NEW v \in Revocation PROVE (DocumentInv(v) /\ MarkInv(v) /\ SentinelInv(v))'
    <2>1. \A p \in before'[v] : p \in before[v] /\ credential'[p] = credential[p]
      BY Zenon, <1>1 DEF RevocationInv, TypeInv
    <2>2. DocumentInv(v)' /\ SentinelInv(v)'
      BY Zenon, <1>1 DEF RevocationInv, DocumentInv, SentinelInv
    <2>3. MarkInv(v)'
      BY Zenon, <1>1, <2>1 DEF RevocationInv, MarkInv, MarkedOrListed, AllMarked
    <2> QED BY Zenon, <2>2, <2>3
  <1> QED BY Zenon, <1>3, <1>4 DEF RevocationInv

\* The frontend's steps for a revocation.
LEMMA RevokeRequestStep ==
    ASSUME RevocationInv, NEW v \in Revocation, ListRequests(v) \/ AcceptRevoke(v)
    PROVE  RevocationInv'
  <1> USE DEF requestVars, revocationVars
  <1>1. CASE sentinel' = sentinel /\ before' = before
    <2>1. /\ UNCHANGED <<sentinel, cache, credential, dispatch, poll, revocation, marking, before>>
          /\ revoke[v] \in {"none", "listed"}
          /\ \E s \in {"listed", "dropped"} : revoke' = [revoke EXCEPT ![v] = s]
      <3>1. CASE ListRequests(v)
        BY Zenon, <3>1 DEF ListRequests
      <3>2. CASE AcceptRevoke(v) /\ ~\A c \in cancels[v] : request[c[1]] = c[2]
        BY Zenon, <3>2 DEF AcceptRevoke
      <3>3. CASE AcceptRevoke(v) /\ \A c \in cancels[v] : request[c[1]] = c[2]
        <4>1. sentinel = v /\ revoke[v] = "listed"
          BY Zenon, <1>1, <3>3 DEF AcceptRevoke
        <4> QED BY Zenon, <4>1 DEF RevocationInv, SentinelInv
      <3> QED BY Zenon, <3>1, <3>2, <3>3
    <2>2. TypeInv' /\ CredentialInv'
      BY <2>1 DEF RevocationInv, TypeInv, CredentialInv
    <2>3. ASSUME NEW w \in Revocation PROVE (DocumentInv(w) /\ MarkInv(w) /\ SentinelInv(w))'
      <3>1. revoke'[w] = revoke[w] \/ (w = v /\ revoke'[w] \in {"listed", "dropped"})
        BY Zenon, <2>1 DEF RevocationInv, TypeInv
      <3>2. DocumentInv(w)' /\ SentinelInv(w)'
        BY Zenon, <2>1, <3>1 DEF RevocationInv, DocumentInv, SentinelInv
      <3>3. MarkInv(w)'
        BY Zenon, <2>1, <3>1 DEF RevocationInv, MarkInv, MarkedOrListed, AllMarked
      <3> QED BY Zenon, <3>2, <3>3
    <2> QED BY Zenon, <2>2, <2>3 DEF RevocationInv
  <1>2. CASE AcceptRevoke(v) /\ \A c \in cancels[v] : request[c[1]] = c[2]
    <2>1. /\ UNCHANGED <<cache, credential, dispatch, poll, revocation, marking>>
          /\ revoke[v] = "listed" /\ sentinel' = v
          /\ revoke' = [w \in Revocation |-> IF w = v THEN "Accepted" ELSE Outdated(w)]
          /\ before' = [before EXCEPT ![v] = {q \in Request : credential[q].stored}]
      BY Zenon, <1>2 DEF AcceptRevoke
    <2>2. ASSUME NEW w \in Revocation
          PROVE  \/ revoke'[w] = "Accepted" /\ w = v
                 \/ revoke'[w] = revoke[w] /\ w # v
                 \/ revoke'[w] = "dropped" /\ revoke[w] = "listed" /\ w # v
      BY Zenon, <2>1 DEF Outdated
    <2>3. TypeInv' /\ CredentialInv'
      <3>1. revoke' \in [Revocation -> {"none", "listed", "dropped", "Accepted", "Deleting", "Succeeded"}]
        BY Zenon, <2>1, <2>2 DEF RevocationInv, TypeInv
      <3> QED BY Zenon, <2>1, <3>1 DEF RevocationInv, TypeInv, CredentialInv
    <2>4. ASSUME NEW w \in Revocation PROVE (DocumentInv(w) /\ MarkInv(w) /\ SentinelInv(w))'
      <3>1. w # v => before'[w] = before[w]
        BY Zenon, <2>1 DEF RevocationInv, TypeInv
      <3>2. w = v => ~revocation[w].stored /\ ~revocation[w].marked /\ poll[w] = "idle" /\ ~marking[w].active
        BY Zenon, <2>1 DEF RevocationInv, DocumentInv
      <3>3. DocumentInv(w)'
        BY Zenon, <2>1, <2>2, <3>2 DEF RevocationInv, DocumentInv
      <3>4. SentinelInv(w)'
        BY Zenon, <2>1, <2>2, <3>2 DEF RevocationInv, SentinelInv
      <3>5. MarkInv(w)'
        BY <2>1, <2>2, <3>1, <3>2 DEF RevocationInv, MarkInv, MarkedOrListed, AllMarked
      <3> QED BY Zenon, <3>3, <3>4, <3>5
    <2> QED BY Zenon, <2>3, <2>4 DEF RevocationInv
  <1>3. CASE AcceptRevoke(v) /\ ~\A c \in cancels[v] : request[c[1]] = c[2]
    BY Zenon, <1>1, <1>3 DEF AcceptRevoke
  <1>4. CASE ListRequests(v)
    BY Zenon, <1>1, <1>4 DEF ListRequests
  <1> QED BY Zenon, <1>2, <1>3, <1>4

\* The lister shows what is stored.
LEMMA CacheStep ==
    ASSUME RevocationInv, RefreshCache
    PROVE  RevocationInv'
  <1>1. /\ UNCHANGED <<sentinel, credential, dispatch, revoke, poll, revocation, marking, before>>
        /\ cache' = sentinel
    BY Zenon DEF RefreshCache, requestVars, revocationVars
  <1>2. TypeInv' /\ CredentialInv'
    BY Zenon, <1>1 DEF RevocationInv, TypeInv, CredentialInv
  <1>3. ASSUME NEW v \in Revocation PROVE (DocumentInv(v) /\ MarkInv(v) /\ SentinelInv(v))'
    <2>1. DocumentInv(v)'
      BY Zenon, <1>1 DEF RevocationInv, DocumentInv
    <2>2. MarkInv(v)'
      BY Zenon, <1>1 DEF RevocationInv, MarkInv, MarkedOrListed, AllMarked
    <2>3. SentinelInv(v)'
      BY Zenon, <1>1 DEF RevocationInv, SentinelInv
    <2> QED BY Zenon, <2>1, <2>2, <2>3
  <1> QED BY Zenon, <1>2, <1>3 DEF RevocationInv

\* A step of one revocation, which touches neither the credentials nor the
\* sentinel, leaves the other revocations as they are.
LEMMA OwnStep ==
    ASSUME RevocationInv, NEW v \in Revocation,
           UNCHANGED <<sentinel, cache, credential, dispatch, before>>,
           \A w \in Revocation \ {v} : /\ revoke'[w] = revoke[w] /\ poll'[w] = poll[w]
                                       /\ revocation'[w] = revocation[w] /\ marking'[w] = marking[w],
           TypeInv', DocumentInv(v)', MarkInv(v)', SentinelInv(v)'
    PROVE  RevocationInv'
  <1>1. CredentialInv'
    BY Zenon DEF RevocationInv, CredentialInv
  <1>2. ASSUME NEW w \in Revocation, w # v PROVE (DocumentInv(w) /\ MarkInv(w) /\ SentinelInv(w))'
    <2>1. /\ revoke'[w] = revoke[w] /\ poll'[w] = poll[w]
          /\ revocation'[w] = revocation[w] /\ marking'[w] = marking[w]
      BY Zenon, <1>2
    <2>2. DocumentInv(w)'
      BY Zenon, <2>1 DEF RevocationInv, DocumentInv
    <2>3. MarkInv(w)'
      BY <2>1 DEF RevocationInv, MarkInv, MarkedOrListed, AllMarked
    <2>4. SentinelInv(w)'
      BY Zenon, <2>1 DEF RevocationInv, SentinelInv
    <2> QED BY Zenon, <2>2, <2>3, <2>4
  <1> QED BY Zenon, <1>1, <1>2 DEF RevocationInv

\* The steps of the dispatcher and the poll that leave the sentinel alone.
LEMMA DispatchStep ==
    ASSUME RevocationInv, NEW v \in Revocation,
           DispatchRevoke(v) \/ RecordDispatch(v) \/ EndRevoke(v) \/ FailPoll(v)
    PROVE  RevocationInv'
  <1> USE DEF requestVars
  <1>1. /\ revoke \in [Revocation -> {"none", "listed", "dropped", "Accepted", "Deleting", "Succeeded"}]
        /\ poll \in [Revocation -> {"idle", "created", "cleared"}]
        /\ revocation \in [Revocation -> RevocationType] /\ marking \in [Revocation -> MarkingType]
        /\ DocumentInv(v) /\ MarkInv(v) /\ SentinelInv(v)
    BY Zenon DEF RevocationInv, TypeInv
  <1>2. UNCHANGED <<sentinel, cache, credential, dispatch, before, marking>>
    BY Zenon DEF DispatchRevoke, RecordDispatch, EndRevoke, FailPoll
  <1> DEFINE new == [NoRevocation EXCEPT !.stored = TRUE]
  <1>3. new \in RevocationType /\ new.stored /\ ~new.marked /\ ~new.deleting
    BY Zenon DEF NoRevocation, RevocationType
  <1> HIDE DEF new
  <1>4. CASE DispatchRevoke(v)
    <2>1. /\ revoke[v] = "Accepted" /\ cache = v /\ poll[v] = "idle"
          /\ revoke' = [revoke EXCEPT ![v] = "Accepted"]
          /\ poll' = [poll EXCEPT ![v] = "created"]
      BY Zenon, <1>1, <1>4 DEF DispatchRevoke
    <2>2. PICK e \in RevocationType :
              /\ revocation' = [revocation EXCEPT ![v] = e]
              /\ \/ e = revocation[v] /\ e.stored
                 \/ e = new /\ ~revocation[v].stored
      <3>1. CASE revocation[v].stored
        <4>1. revocation' = [revocation EXCEPT ![v] = revocation[v]]
          BY Zenon, <1>1, <1>4, <3>1 DEF DispatchRevoke
        <4>2. revocation[v] \in RevocationType
          BY Zenon, <1>1
        <4> WITNESS revocation[v] \in RevocationType
        <4> QED BY Zenon, <3>1, <4>1
      <3>2. CASE ~revocation[v].stored
        BY Zenon, <1>3, <1>4, <3>2 DEF DispatchRevoke, new
      <3> QED BY Zenon, <3>1, <3>2
    <2>3. revoke'[v] = "Accepted" /\ poll'[v] = "created" /\ revocation'[v] = e /\ e.stored
      BY Zenon, <1>1, <1>3, <2>1, <2>2
    <2>4. DocumentInv(v)'
      BY Zenon, <1>1, <1>2, <1>3, <2>1, <2>2, <2>3 DEF DocumentInv
    <2>5. MarkInv(v)'
      BY Zenon, <1>1, <1>2, <1>3, <2>1, <2>2, <2>3 DEF MarkInv, DocumentInv, MarkedOrListed, AllMarked
    <2>6. SentinelInv(v)'
      BY Zenon, <1>1, <1>2, <2>1, <2>3 DEF SentinelInv
    <2>7. TypeInv'
      BY Zenon, <1>1, <1>2, <2>1, <2>2 DEF RevocationInv, TypeInv
    <2>8. \A w \in Revocation \ {v} : /\ revoke'[w] = revoke[w] /\ poll'[w] = poll[w]
                                     /\ revocation'[w] = revocation[w] /\ marking'[w] = marking[w]
      BY Zenon, <1>1, <1>2, <2>1, <2>2
    <2> QED BY Zenon, <1>2, <2>4, <2>5, <2>6, <2>7, <2>8, OwnStep
  <1>5. CASE RecordDispatch(v) \/ EndRevoke(v) \/ FailPoll(v)
    <2>1. PICK s \in {"none", "listed", "dropped", "Accepted", "Deleting", "Succeeded"} :
              /\ revoke' = [revoke EXCEPT ![v] = s]
              /\ poll' = [poll EXCEPT ![v] = "idle"] /\ revocation' = revocation
              /\ \/ poll[v] = "created" /\ s = "Deleting"
                 \/ poll[v] = "cleared" /\ s = "Succeeded"
                 \/ s = revoke[v]
      <3>1. CASE RecordDispatch(v)
        BY Zenon, <3>1 DEF RecordDispatch
      <3>2. CASE EndRevoke(v)
        BY Zenon, <3>2 DEF EndRevoke
      <3>3. CASE FailPoll(v)
        BY Zenon, <1>1, <3>3 DEF FailPoll
      <3> QED BY Zenon, <1>5, <3>1, <3>2, <3>3
    <2>2. revoke'[v] = s /\ poll'[v] = "idle" /\ revocation'[v] = revocation[v]
      BY Zenon, <1>1, <2>1
    <2>3. DocumentInv(v)'
      BY Zenon, <1>1, <1>2, <2>1, <2>2 DEF DocumentInv
    <2>4. MarkInv(v)'
      BY Zenon, <1>1, <1>2, <2>1, <2>2 DEF MarkInv, DocumentInv, MarkedOrListed, AllMarked
    <2>5. SentinelInv(v)'
      BY Zenon, <1>1, <1>2, <2>1, <2>2 DEF SentinelInv, DocumentInv
    <2>6. TypeInv'
      BY Zenon, <1>1, <1>2, <2>1 DEF RevocationInv, TypeInv
    <2>7. \A w \in Revocation \ {v} : /\ revoke'[w] = revoke[w] /\ poll'[w] = poll[w]
                                     /\ revocation'[w] = revocation[w] /\ marking'[w] = marking[w]
      BY Zenon, <1>1, <1>2, <2>1
    <2> QED BY Zenon, <1>2, <2>3, <2>4, <2>5, <2>6, <2>7, OwnStep
  <1> QED BY Zenon, <1>4, <1>5
\* The poll clears the sentinel, its own or a later one; its own it always
\* clears, as the cache has shown it since the dispatch.
LEMMA ClearStep ==
    ASSUME RevocationInv, NEW v \in Revocation, ClearSentinel(v)
    PROVE  RevocationInv'
  <1>1. /\ UNCHANGED <<cache, credential, dispatch, revocation, marking, before>>
        /\ revoke[v] = "Deleting" /\ poll[v] = "idle" /\ ~revocation[v].stored
        /\ poll' = [poll EXCEPT ![v] = "cleared"]
    BY Zenon DEF ClearSentinel, IsComplete, requestVars
  <1>2. /\ revoke' \in [Revocation -> {"none", "listed", "dropped", "Accepted", "Deleting", "Succeeded"}]
        /\ \A w \in Revocation : \/ revoke'[w] = revoke[w]
                                 \/ revoke[w] = "listed" /\ revoke'[w] = "dropped"
    <2>1. CASE IsSentinel(v)
      BY <2>1 DEF ClearSentinel, Outdated, RevocationInv, TypeInv
    <2>2. CASE ~IsSentinel(v)
      BY Zenon, <2>2 DEF ClearSentinel, RevocationInv, TypeInv
    <2> QED BY Zenon, <2>1, <2>2
  <1>3. sentinel' # v /\ (sentinel' = None \/ sentinel' = sentinel)
    BY Zenon, <1>1, NoneAssumption DEF ClearSentinel, IsSentinel, RevocationInv, SentinelInv
  <1>4. TypeInv' /\ CredentialInv'
    BY Zenon, <1>1, <1>2 DEF RevocationInv, TypeInv, CredentialInv
  <1>5. ASSUME NEW w \in Revocation PROVE (DocumentInv(w) /\ MarkInv(w) /\ SentinelInv(w))'
    <2>1. \/ w # v /\ poll'[w] = poll[w]
          \/ w = v /\ poll'[w] = "cleared"
      BY Zenon, <1>1 DEF RevocationInv, TypeInv
    <2>2. DocumentInv(w)'
      BY Zenon, <1>1, <1>2, <2>1 DEF RevocationInv, DocumentInv
    <2>3. MarkInv(w)'
      BY Zenon, <1>1, <1>2, <2>1 DEF RevocationInv, MarkInv, MarkedOrListed, AllMarked
    <2>4. SentinelInv(w)'
      BY Zenon, <1>1, <1>2, <1>3, <2>1, NoneAssumption DEF RevocationInv, SentinelInv
    <2> QED BY Zenon, <2>2, <2>3, <2>4
  <1> QED BY Zenon, <1>4, <1>5 DEF RevocationInv

\* The syncs on the revocation's document.
LEMMA DocumentStep ==
    ASSUME RevocationInv, NEW v \in Revocation,
           StartMarking(v) \/ FinishMarking(v) \/ FailMarking(v) \/ Completion(v)
    PROVE  RevocationInv'
  <1> USE DEF requestVars
  <1>1. /\ revocation[v] \in RevocationType /\ marking[v] \in MarkingType
        /\ revocation \in [Revocation -> RevocationType] /\ marking \in [Revocation -> MarkingType]
        /\ DocumentInv(v) /\ MarkInv(v) /\ SentinelInv(v)
    BY Zenon DEF RevocationInv, TypeInv
  <1>2. UNCHANGED <<sentinel, cache, credential, dispatch, before, revoke, poll>>
    BY Zenon DEF StartMarking, FinishMarking, FailMarking, Completion, ObserveRevoked,
           CompleteRevocation, DeleteRevocation
  <1>3. ASSUME NEW d \in RevocationType, NEW m \in MarkingType,
               revocation' = [revocation EXCEPT ![v] = d], marking' = [marking EXCEPT ![v] = m],
               DocumentInv(v)', MarkInv(v)'
        PROVE  RevocationInv'
    <2>1. TypeInv'
      BY Zenon, <1>1, <1>2, <1>3 DEF RevocationInv, TypeInv
    <2>2. \A w \in Revocation \ {v} : /\ revoke'[w] = revoke[w] /\ poll'[w] = poll[w]
                                     /\ revocation'[w] = revocation[w] /\ marking'[w] = marking[w]
      BY Zenon, <1>1, <1>2, <1>3
    <2>3. SentinelInv(v)'
      BY Zenon, <1>1, <1>2 DEF SentinelInv
    <2> QED BY Zenon, <1>2, <1>3, <2>1, <2>2, <2>3, OwnStep
  <1>4. NotMarking \in MarkingType /\ ~NotMarking.active
    BY Zenon DEF NotMarking, MarkingType
  <1>5. CASE StartMarking(v)
    <2> DEFINE list == {<<q, credential[q]>> : q \in {p \in Request : ToBeMarked(credential[p])}}
               m == [active |-> TRUE, fits |-> TRUE, left |-> list]
    <2>1. m \in MarkingType /\ m.active /\ m.left = list
      <3>1. \A p \in Request : credential[p] \in CredentialType
        BY Zenon DEF RevocationInv, TypeInv
      <3>2. list \in SUBSET (Request \X CredentialType)
        BY <3>1
      <3> HIDE DEF list
      <3> QED BY Zenon, <3>2 DEF MarkingType
    <2>2. \A q \in before[v] : credential[q].marked \/ \E c \in list : c[1] = q
      <3> SUFFICES ASSUME NEW q \in before[v], ~credential[q].marked PROVE \E c \in list : c[1] = q
        BY Zenon
      <3>1. q \in Request /\ ToBeMarked(credential[q])
        BY Zenon DEF RevocationInv, TypeInv, CredentialInv, ToBeMarked
      <3>2. <<q, credential[q]>> \in list
        BY Zenon, <3>1
      <3> QED BY Zenon, <3>2
    <2>3. /\ revocation' = [revocation EXCEPT ![v] = revocation[v]]
          /\ marking' = [marking EXCEPT ![v] = m]
          /\ revocation[v].stored /\ ~revocation[v].marked
      BY Zenon, <1>1, <1>5 DEF StartMarking
    <2> HIDE DEF list, m
    <2>4. revocation'[v] = revocation[v] /\ marking'[v] = m
      BY Zenon, <1>1, <2>3
    <2>5. DocumentInv(v)'
      BY Zenon, <1>1, <1>2, <2>1, <2>3, <2>4 DEF DocumentInv
    <2>6. MarkInv(v)'
      BY Zenon, <1>1, <1>2, <2>1, <2>2, <2>3, <2>4 DEF MarkInv, MarkedOrListed, AllMarked
    <2> QED BY Zenon, <1>1, <1>3, <2>1, <2>3, <2>5, <2>6
  <1>6. CASE FinishMarking(v)
    <2>1. /\ marking[v].active /\ marking[v].left = {}
          /\ marking' = [marking EXCEPT ![v] = NotMarking]
      BY Zenon, <1>6 DEF FinishMarking
    <2>2. PICK d \in RevocationType : /\ revocation' = [revocation EXCEPT ![v] = d]
                                      /\ d.stored = revocation[v].stored
                                      /\ d.deleting = revocation[v].deleting
      <3>1. CASE marking[v].fits
        <4>1. revocation' = [revocation EXCEPT ![v] = [revocation[v] EXCEPT !.marked = TRUE]]
          BY Zenon, <1>1, <1>6, <3>1 DEF FinishMarking
        <4>2. /\ [revocation[v] EXCEPT !.marked = TRUE] \in RevocationType
              /\ [revocation[v] EXCEPT !.marked = TRUE].stored = revocation[v].stored
              /\ [revocation[v] EXCEPT !.marked = TRUE].deleting = revocation[v].deleting
          BY Zenon, <1>1 DEF RevocationType
        <4> QED BY Zenon, <4>1, <4>2
      <3>2. CASE ~marking[v].fits
        <4>1. revocation' = [revocation EXCEPT ![v] = revocation[v]]
          BY Zenon, <1>1, <1>6, <3>2 DEF FinishMarking
        <4> QED BY Zenon, <1>1, <4>1
      <3> QED BY Zenon, <3>1, <3>2
    <2>3. revocation'[v] = d /\ marking'[v] = NotMarking
      BY Zenon, <1>1, <2>1, <2>2
    <2>4. AllMarked(v)
      BY Zenon, <1>1, <2>1 DEF MarkInv, MarkedOrListed, AllMarked
    <2>5. DocumentInv(v)'
      BY Zenon, <1>1, <1>2, <1>4, <2>1, <2>2, <2>3 DEF DocumentInv
    <2>6. MarkInv(v)'
      BY Zenon, <1>1, <1>2, <1>4, <2>2, <2>3, <2>4 DEF MarkInv, AllMarked
    <2> QED BY Zenon, <1>3, <1>4, <2>1, <2>2, <2>5, <2>6
  <1>7. CASE FailMarking(v)
    <2>1. /\ revocation' = [revocation EXCEPT ![v] = revocation[v]]
          /\ marking' = [marking EXCEPT ![v] = NotMarking]
      BY Zenon, <1>1, <1>7 DEF FailMarking
    <2>2. revocation'[v] = revocation[v] /\ marking'[v] = NotMarking
      BY Zenon, <1>1, <2>1
    <2>3. DocumentInv(v)'
      BY Zenon, <1>1, <1>2, <1>4, <2>2 DEF DocumentInv
    <2>4. MarkInv(v)'
      BY Zenon, <1>1, <1>2, <1>4, <2>2 DEF MarkInv, AllMarked
    <2> QED BY Zenon, <1>1, <1>3, <1>4, <2>1, <2>3, <2>4
  <1>8. CASE Completion(v)
    <2>1. PICK d \in RevocationType, m \in MarkingType :
              /\ revocation' = [revocation EXCEPT ![v] = d]
              /\ marking' = [marking EXCEPT ![v] = m]
              /\ m.active = marking[v].active /\ m.left = marking[v].left
              /\ \/ /\ d.stored = revocation[v].stored /\ d.marked = revocation[v].marked
                    /\ d.deleting => d.marked /\ d.stored
                 \/ ~d.stored /\ ~d.marked /\ ~d.deleting /\ revocation[v].deleting
      <3>1. CASE ObserveRevoked(v)
        <4> DEFINE d == [revocation[v] EXCEPT !.revoked = TRUE]
                   m == [marking[v] EXCEPT !.fits = FALSE]
        <4>1. /\ revocation' = [revocation EXCEPT ![v] = d] /\ marking' = [marking EXCEPT ![v] = m]
              /\ revocation[v].stored /\ ~revocation[v].deleting
          BY Zenon, <1>1, <3>1 DEF ObserveRevoked
        <4>2. /\ d \in RevocationType /\ d.stored = revocation[v].stored
              /\ d.marked = revocation[v].marked /\ d.deleting = revocation[v].deleting
          BY Zenon, <1>1 DEF RevocationType
        <4>3. m \in MarkingType /\ m.active = marking[v].active /\ m.left = marking[v].left
          BY Zenon, <1>1 DEF MarkingType
        <4> HIDE DEF d, m
        <4> QED BY Zenon, <4>1, <4>2, <4>3
      <3>2. CASE CompleteRevocation(v)
        <4> DEFINE d == [revocation[v] EXCEPT !.deleting = TRUE]
        <4>1. /\ revocation' = [revocation EXCEPT ![v] = d]
              /\ marking' = [marking EXCEPT ![v] = marking[v]]
              /\ revocation[v].stored /\ revocation[v].marked
          BY Zenon, <1>1, <3>2 DEF CompleteRevocation
        <4>2. /\ d \in RevocationType /\ d.stored = revocation[v].stored
              /\ d.marked = revocation[v].marked
          BY Zenon, <1>1 DEF RevocationType
        <4> HIDE DEF d
        <4> QED BY Zenon, <1>1, <4>1, <4>2
      <3>3. CASE DeleteRevocation(v)
        <4>1. /\ revocation' = [revocation EXCEPT ![v] = NoRevocation]
              /\ marking' = [marking EXCEPT ![v] = marking[v]]
              /\ revocation[v].deleting
          BY Zenon, <1>1, <3>3 DEF DeleteRevocation
        <4>2. /\ NoRevocation \in RevocationType /\ ~NoRevocation.stored
              /\ ~NoRevocation.marked /\ ~NoRevocation.deleting
          BY Zenon DEF NoRevocation, RevocationType
        <4> QED BY Zenon, <1>1, <4>1, <4>2
      <3> QED BY Zenon, <1>8, <3>1, <3>2, <3>3 DEF Completion
    <2>2. revocation'[v] = d /\ marking'[v] = m
      BY Zenon, <1>1, <2>1
    <2>3. DocumentInv(v)'
      BY Zenon, <1>1, <1>2, <2>1, <2>2 DEF DocumentInv
    <2>4. MarkInv(v)'
      BY Zenon, <1>1, <1>2, <2>1, <2>2 DEF DocumentInv, MarkInv, MarkedOrListed, AllMarked
    <2> QED BY Zenon, <1>3, <2>1, <2>3, <2>4
  <1> QED BY Zenon, <1>5, <1>6, <1>7, <1>8

\* A credential is marked, which serves every revocation that has listed it.
LEMMA MarkStep ==
    ASSUME RevocationInv, NEW v \in Revocation, NEW q \in Request, MarkRequest(v, q)
    PROVE  RevocationInv'
  <1>1. PICK c \in marking[v].left :
            /\ c[1] = q
            /\ \/ /\ credential' = [credential EXCEPT ![q].marked = TRUE]
                  /\ marking' = [marking EXCEPT ![v].left = @ \ {c}]
               \/ marking' = [marking EXCEPT ![v] = NotMarking] /\ credential' = credential
            /\ UNCHANGED <<sentinel, cache, dispatch, revoke, poll, revocation, before>>
    BY Zenon DEF MarkRequest
  <1>2. /\ credential \in [Request -> CredentialType] /\ marking \in [Revocation -> MarkingType]
        /\ credential[q] \in CredentialType /\ marking[v] \in MarkingType
        /\ before \in [Revocation -> SUBSET Request]
    BY Zenon DEF RevocationInv, TypeInv
  <1>3. NotMarking \in MarkingType /\ ~NotMarking.active
    BY Zenon DEF NotMarking, MarkingType
  <1> DEFINE n == [credential[q] EXCEPT !.marked = TRUE]
             l == [marking[v] EXCEPT !.left = @ \ {c}]
  <1>4. n \in CredentialType /\ n.stored = credential[q].stored /\ n.marked
    BY Zenon, <1>2 DEF CredentialType
  <1>5. l \in MarkingType /\ l.active = marking[v].active /\ l.left = marking[v].left \ {c}
    BY Zenon, <1>2 DEF MarkingType
  <1>6. \/ credential' = [credential EXCEPT ![q] = n] /\ marking' = [marking EXCEPT ![v] = l]
        \/ credential' = credential /\ marking' = [marking EXCEPT ![v] = NotMarking]
    BY Zenon, <1>1, <1>2
  <1> HIDE DEF n, l
  <1>7. \A p \in Request : /\ credential'[p].stored = credential[p].stored
                           /\ credential[p].marked => credential'[p].marked
    BY Zenon, <1>2, <1>4, <1>6
  <1>8. TypeInv' /\ CredentialInv'
    BY <1>1, <1>2, <1>3, <1>4, <1>5, <1>6, <1>7 DEF RevocationInv, TypeInv, CredentialInv
  <1>9. ASSUME NEW w \in Revocation PROVE (DocumentInv(w) /\ MarkInv(w) /\ SentinelInv(w))'
    <2>1. \/ marking'[w] = marking[w]
          \/ w = v /\ marking'[w] = l /\ credential'[q].marked
          \/ ~marking'[w].active
      BY Zenon, <1>2, <1>3, <1>4, <1>6
    <2>2. DocumentInv(w)'
      BY Zenon, <1>1, <1>5, <2>1 DEF RevocationInv, DocumentInv
    <2>3. AllMarked(w) => AllMarked(w)'
      BY Zenon, <1>1, <1>2, <1>7 DEF AllMarked
    <2>4. marking'[w].active => MarkedOrListed(w)'
      <3> SUFFICES ASSUME marking'[w].active, NEW p \in before[w]
                   PROVE  credential'[p].marked \/ \E e \in marking'[w].left : e[1] = p
        BY Zenon, <1>1 DEF MarkedOrListed
      <3>1. p \in Request /\ marking[w].active
        BY Zenon, <1>2, <1>5, <2>1
      <3>2. credential[p].marked \/ \E e \in marking[w].left : e[1] = p
        BY Zenon, <3>1 DEF RevocationInv, MarkInv, MarkedOrListed
      <3> QED BY Zenon, <1>1, <1>5, <1>7, <2>1, <3>1, <3>2
    <2>5. MarkInv(w)'
      BY Zenon, <1>1, <2>3, <2>4 DEF RevocationInv, MarkInv
    <2>6. SentinelInv(w)'
      BY Zenon, <1>1 DEF RevocationInv, SentinelInv
    <2> QED BY Zenon, <2>2, <2>5, <2>6
  <1> QED BY Zenon, <1>8, <1>9 DEF RevocationInv

\* Every step keeps the invariant.
LEMMA RevocationInvariant == Spec => []RevocationInv
  <1>1. RevocationInv /\ [Next]_vars => RevocationInv'
    <2> SUFFICES ASSUME RevocationInv, [Next]_vars PROVE RevocationInv'
      BY Zenon
    <2>1. ASSUME NEW q \in Request,
                 \/ CheckRequest(q) \/ AcceptRequest(q) \/ RequestController(q)
                 \/ DecideCredential(q) \/ FailDispatch(q)
          PROVE  RevocationInv'
      BY Zenon, <2>1, RequestStep
    <2>2. ASSUME NEW q \in Request, RemoveCredential(q) PROVE RevocationInv'
      BY Zenon, <2>2, RemoveStep
    <2>3. ASSUME NEW v \in Revocation, ListRequests(v) \/ AcceptRevoke(v) PROVE RevocationInv'
      BY Zenon, <2>3, RevokeRequestStep
    <2>4. ASSUME NEW v \in Revocation, RevokeController(v) \/ FailPoll(v) PROVE RevocationInv'
      BY Zenon, <2>4, DispatchStep, ClearStep DEF RevokeController
    <2>5. ASSUME NEW v \in Revocation, MarkRequests(v) \/ Completion(v) \/ FailMarking(v)
          PROVE  RevocationInv'
      BY Zenon, <2>5, DocumentStep, MarkStep DEF MarkRequests
    <2>6. CASE RefreshCache
      BY Zenon, <2>6, CacheStep
    <2>7. CASE UNCHANGED vars
      <3>1. UNCHANGED <<sentinel, cache, credential, dispatch, revoke, poll, revocation, marking, before>>
        BY Zenon, <2>7 DEF vars, requestVars, revocationVars
      <3> QED BY Zenon, <3>1, CredentialStep DEF RevocationInv, TypeInv, CredentialInv
    <2> QED BY Zenon, <2>1, <2>2, <2>3, <2>4, <2>5, <2>6, <2>7 DEF Next, Step, Failure
  <1> QED BY <1>1, InitRevocation, PTL DEF Spec

\* The sentinel always names an operation that has not ended, for any number
\* of requests and revocations: the poll's decision on a cached cluster
\* (operation_revoke_credentials.go) never leaves the cluster shut.
THEOREM SentinelNeverStale == Spec => []SentinelIsActive
  <1>1. RevocationInv => SentinelIsActive
    BY Zenon DEF RevocationInv, SentinelInv, SentinelIsActive
  <1> QED BY <1>1, RevocationInvariant, PTL

\* A revocation that succeeded has marked every credential that was there when
\* it was accepted, for any number of requests and revocations, in whatever
\* order marking, completion, deletion and the poll run and fail.
THEOREM RevocationMarksAll == Spec => []RevokedCredentialsGo
  <1>1. RevocationInv => RevokedCredentialsGo
    BY Zenon DEF RevocationInv, DocumentInv, MarkInv, AllMarked, RevokedCredentialsGo
  <1> QED BY <1>1, RevocationInvariant, PTL

-----------------------------------------------------------------------------
RequestStatus == {"none", "checked", "Accepted", "Provisioning", "Canceled", "Ended"}
RequestType == [status : RequestStatus, linked : BOOLEAN]

\* A revocation's handler has listed operations that were active.
CancelInv ==
    /\ request \in [Request -> RequestType]
    /\ cancels \in [Revocation -> SUBSET {c \in Request \X RequestType : Active(c[2])}]

\* There is nothing at first.
LEMMA InitCancel == Init => CancelInv
  BY SMT DEF Init, CancelInv, RequestType, RequestStatus

\* A request operation with another status, or linked, is one again.
LEMMA ChangedRequest ==
    ASSUME NEW r \in RequestType
    PROVE  /\ \A s \in RequestStatus : [r EXCEPT !.status = s] \in RequestType
           /\ [r EXCEPT !.linked = TRUE] \in RequestType
  BY Zenon DEF RequestType

\* What a frontend handler or a controller makes of a request operation is one
\* again, and only one that has not ended is changed.
LEMMA RequestChange ==
    ASSUME CancelInv, NEW q \in Request,
           CheckRequest(q) \/ AcceptRequest(q) \/ RequestController(q)
    PROVE  /\ CancelInv'
           /\ \A p \in Request : request[p].status \in {"Canceled", "Ended"} => request'[p] = request[p]
  <1>0. request \in [Request -> RequestType]
    BY Zenon DEF CancelInv
  <1>1. \E r \in RequestType :
           /\ request' = [request EXCEPT ![q] = r]
           /\ request[q].status \in {"Canceled", "Ended"} => r = request[q]
    <2>1. CASE CheckRequest(q)
      <3>1. /\ request' = [request EXCEPT ![q] = [request[q] EXCEPT !.status = "checked"]]
            /\ request[q].status = "none"
        BY Zenon, <2>1 DEF CheckRequest
      <3> QED BY Zenon, <1>0, <3>1, ChangedRequest DEF RequestStatus
    <2>2. CASE AcceptRequest(q)
      <3>1. /\ request' = [request EXCEPT ![q] = [request[q] EXCEPT !.status = "Accepted"]]
            /\ request[q].status = "checked"
        BY Zenon, <2>2 DEF AcceptRequest
      <3> QED BY Zenon, <1>0, <3>1, ChangedRequest DEF RequestStatus
    <2>3. CASE DispatchRequest(q)
      <3>1. PICK r : /\ request' = [request EXCEPT ![q] = r]
                     /\ r \in {request[q], [request[q] EXCEPT !.status = "Canceled"],
                               [request[q] EXCEPT !.linked = TRUE]}
        BY Zenon, <2>3 DEF DispatchRequest
      <3>2. r \in RequestType
        BY Zenon, <1>0, <3>1, ChangedRequest DEF RequestStatus
      <3>3. request[q].status \notin {"Canceled", "Ended"}
        BY SMT, <2>3 DEF DispatchRequest, Active
      <3> QED BY Zenon, <3>1, <3>2, <3>3
    <2>4. CASE CreateCredential(q)
      BY SMT, <1>0, <2>4 DEF CreateCredential
    <2>5. CASE LinkCredential(q)
      <3>1. request' = [request EXCEPT ![q] = Linked(request[q])]
        BY Zenon, <2>5 DEF LinkCredential
      <3>2. Linked(request[q]) \in RequestType
        BY Zenon, <1>0, ChangedRequest DEF Linked
      <3>3. request[q].status \in {"Canceled", "Ended"} => Linked(request[q]) = request[q]
        BY SMT DEF Linked, Active
      <3> QED BY Zenon, <3>1, <3>2, <3>3
    <2>6. CASE PollRequest(q)
      <3>1. PICK s \in RequestStatus : request' = [request EXCEPT ![q] = [request[q] EXCEPT !.status = s]]
        BY Zenon, <2>6 DEF PollRequest, NewOperationStatus, RequestStatus
      <3>2. request[q].status \notin {"Canceled", "Ended"}
        BY SMT, <2>6 DEF PollRequest, Active
      <3> QED BY Zenon, <1>0, <3>1, <3>2, ChangedRequest
    <2> QED BY Zenon, <2>1, <2>2, <2>3, <2>4, <2>5, <2>6 DEF RequestController
  <1>2. cancels' = cancels
    BY Zenon DEF CheckRequest, AcceptRequest, RequestController, DispatchRequest, CreateCredential,
           LinkCredential, PollRequest
  <1> QED BY SMT, <1>0, <1>1, <1>2 DEF CancelInv

\* The listed operations that a revocation cancels have not ended.
LEMMA RevokeChange ==
    ASSUME CancelInv, NEW v \in Revocation, ListRequests(v) \/ AcceptRevoke(v)
    PROVE  /\ CancelInv'
           /\ \A p \in Request : request[p].status \in {"Canceled", "Ended"} => request'[p] = request[p]
  <1>0. request \in [Request -> RequestType]
    BY Zenon DEF CancelInv
  <1>1. CASE ListRequests(v)
    BY SMT, <1>0, <1>1 DEF CancelInv, ListRequests, requestVars
  <1>2. CASE AcceptRevoke(v)
    BY SMT, <1>0, <1>2 DEF CancelInv, AcceptRevoke, RequestType, RequestStatus, Active
  <1> QED BY Zenon, <1>1, <1>2

\* No other step writes a request operation.
LEMMA CancelStep ==
    CancelInv /\ [Next]_vars =>
        /\ CancelInv'
        /\ \A p \in Request : request[p].status \in {"Canceled", "Ended"} => request'[p] = request[p]
  <1> SUFFICES ASSUME CancelInv, [Next]_vars,
                      ~ \E q \in Request : CheckRequest(q) \/ AcceptRequest(q) \/ RequestController(q),
                      ~ \E v \in Revocation : ListRequests(v) \/ AcceptRevoke(v)
               PROVE  request' = request /\ cancels' = cancels
    BY Zenon, RequestChange, RevokeChange DEF CancelInv
  <1>1. ASSUME NEW q \in Request, DecideCredential(q) \/ RemoveCredential(q) \/ FailDispatch(q)
        PROVE  request' = request /\ cancels' = cancels
    BY Zenon, <1>1 DEF DecideCredential, RemoveCredential, FailDispatch
  <1>2. ASSUME NEW v \in Revocation, RevokeController(v) \/ FailPoll(v)
        PROVE  request' = request /\ cancels' = cancels
    BY Zenon, <1>2 DEF RevokeController, DispatchRevoke, RecordDispatch, ClearSentinel, EndRevoke,
           FailPoll, requestVars
  <1>3. ASSUME NEW v \in Revocation, MarkRequests(v) \/ Completion(v) \/ FailMarking(v)
        PROVE  request' = request /\ cancels' = cancels
    BY Zenon, <1>3 DEF MarkRequests, StartMarking, MarkRequest, FinishMarking, Completion, ObserveRevoked,
           CompleteRevocation, DeleteRevocation, FailMarking, requestVars
  <1>4. CASE RefreshCache \/ UNCHANGED vars
    BY Zenon, <1>4 DEF RefreshCache, vars, requestVars
  <1> QED BY Zenon, <1>1, <1>2, <1>3, <1>4 DEF Next, Step, Failure

\* A canceled or ended request operation is never written again, for any number
\* of requests and revocations: neither by a dispatcher that read it earlier, nor
\* by the transaction of a revocation that listed it when it was active.
THEOREM EndedRequestsStay == Spec => EndedRequestsAreFinal
  <1>1. CancelInv /\ [Next]_vars =>
            [\A q \in Request :
                request[q].status \in {"Canceled", "Ended"} => request'[q] = request[q]]_vars
    BY Zenon, CancelStep
  <1> QED BY <1>1, InitCancel, CancelStep, PTL DEF Spec, EndedRequestsAreFinal
=============================================================================
