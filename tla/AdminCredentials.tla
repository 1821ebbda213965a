-------------------------- MODULE AdminCredentials --------------------------
(***************************************************************************)
(* Requesting and revoking the admin credentials of one cluster.  Both are *)
(* operations: the frontend accepts them, the backend dispatches them as   *)
(* documents (a SystemAdminCredentialRequest, a                            *)
(* SystemAdminCredentialRevocation) and polls these for the outcome.  The  *)
(* cluster's RevokeCredentialsOperationID, the sentinel, names the         *)
(* revocation in progress; the backend reads it from a cache that lags.    *)
(*                                                                         *)
(* How a credential is issued and torn down is CredentialDesires' subject; *)
(* here it is decided at some time, and goes some time after it is marked. *)
(* Issued and failed requests are told apart by no controller.  The        *)
(* cluster itself is not being deleted.                                    *)
(*                                                                         *)
(* A conditional Replace after a live Get of the same document is one      *)
(* step.  Where the document is read long before, the writers in between   *)
(* make the reader's write fail.                                           *)
(***************************************************************************)
CONSTANTS
    Request,     \* RequestCredential operations
    Revocation,  \* RevokeCredentials operations
    None

ASSUME NoneAssumption == None \notin Revocation

VARIABLES
    sentinel,    \* the cluster's RevokeCredentialsOperationID
    cache,       \* what the backend's lister shows of it
    request,     \* the RequestCredential operations, and the handlers behind them
    credential,  \* the SystemAdminCredentialRequest of each
    dispatch,    \* the dispatcher's sync of each
    revoke,      \* the RevokeCredentials operations, and the handlers behind them
    cancels,     \* the operations a handler has listed to cancel
    poll,        \* the backend's sync of each: dispatch, then poll
    revocation,  \* the SystemAdminCredentialRevocation of each
    marking,     \* the sync that marks the credential requests for each
    before       \* history: credentials that were there when a revocation was accepted

requestVars == <<request, credential, dispatch>>
revocationVars == <<poll, revocation, marking>>
vars == <<sentinel, cache, requestVars, revoke, cancels, revocationVars, before>>

NoCredential == [stored |-> FALSE, decided |-> FALSE, marked |-> FALSE]
NoRevocation == [stored |-> FALSE, marked |-> FALSE, revoked |-> FALSE, deleting |-> FALSE]
NotMarking == [active |-> FALSE, fits |-> FALSE, left |-> {}]

Init ==
    /\ sentinel = None
    /\ cache = None
    /\ request = [q \in Request |-> [status |-> "none", linked |-> FALSE]]
    /\ credential = [q \in Request |-> NoCredential]
    /\ dispatch = [q \in Request |-> "idle"]
    /\ revoke = [v \in Revocation |-> "none"]
    /\ cancels = [v \in Revocation |-> {}]
    /\ poll = [v \in Revocation |-> "idle"]
    /\ revocation = [v \in Revocation |-> NoRevocation]
    /\ marking = [v \in Revocation |-> NotMarking]
    /\ before = [v \in Revocation |-> {}]

Active(operation) == operation.status \in {"Accepted", "Provisioning"}

-----------------------------------------------------------------------------
(* The frontend. *)

\* RequestAdminCredential: no revocation is in progress.
CheckRequest(q) ==
    /\ request[q].status = "none"
    /\ sentinel = None
    /\ request' = [request EXCEPT ![q].status = "checked"]
    /\ UNCHANGED <<sentinel, cache, credential, dispatch, revoke, cancels, revocationVars, before>>

\* Its transaction creates the operation and looks at nothing else.
AcceptRequest(q) ==
    /\ request[q].status = "checked"
    /\ request' = [request EXCEPT ![q].status = "Accepted"]
    /\ UNCHANGED <<sentinel, cache, credential, dispatch, revoke, cancels, revocationVars, before>>

\* RevokeCredentials: no revocation is in progress; the active requests are
\* listed to be canceled.
ListRequests(v) ==
    /\ revoke[v] = "none"
    /\ sentinel = None
    /\ revoke' = [revoke EXCEPT ![v] = "listed"]
    /\ cancels' = [cancels EXCEPT ![v] =
          {<<q, request[q]>> : q \in {p \in Request : Active(request[p])}}]
    /\ UNCHANGED <<sentinel, cache, requestVars, revocationVars, before>>

\* A handler that has read the cluster cannot replace it any more.
Outdated(w) == IF revoke[w] = "listed" THEN "dropped" ELSE revoke[w]

\* Its transaction cancels the listed operations, creates the new one and
\* sets the sentinel; every document it replaces must be as it was read.
AcceptRevoke(v) ==
    /\ revoke[v] = "listed"
    /\ cancels' = [cancels EXCEPT ![v] = {}]
    /\ IF \A c \in cancels[v] : request[c[1]] = c[2]
       THEN /\ request' = [q \in Request |->
                  IF q \in {c[1] : c \in cancels[v]}
                  THEN [request[q] EXCEPT !.status = "Canceled"] ELSE request[q]]
            /\ revoke' = [w \in Revocation |-> IF w = v THEN "Accepted" ELSE Outdated(w)]
            /\ sentinel' = v
            /\ before' = [before EXCEPT ![v] = {q \in Request : credential[q].stored}]
       ELSE /\ revoke' = [revoke EXCEPT ![v] = "dropped"]
            /\ UNCHANGED <<request, sentinel, before>>
    /\ UNCHANGED <<cache, credential, dispatch, revocationVars>>

-----------------------------------------------------------------------------
(* The backend: credential requests. *)

RefreshCache ==
    /\ cache' = sentinel
    /\ UNCHANGED <<sentinel, requestVars, revoke, cancels, revocationVars, before>>

\* The dispatcher cancels a request when the cache shows a revocation, links
\* a credential that an earlier sync left, and else goes on to create one.
DispatchRequest(q) ==
    /\ dispatch[q] = "idle"
    /\ Active(request[q]) /\ ~request[q].linked
    /\ request' =
          [request EXCEPT ![q] = CASE cache # None -> [@ EXCEPT !.status = "Canceled"]
                                   [] cache = None /\ credential[q].stored -> [@ EXCEPT !.linked = TRUE]
                                   [] OTHER -> @]
    /\ dispatch' = IF cache = None /\ ~credential[q].stored
                   THEN [dispatch EXCEPT ![q] = "create"] ELSE dispatch
    /\ UNCHANGED <<sentinel, cache, credential, revoke, cancels, revocationVars, before>>

\* The name is new: the document is created whatever became of the operation.
CreateCredential(q) ==
    /\ dispatch[q] = "create"
    /\ credential' = [credential EXCEPT ![q] = [NoCredential EXCEPT !.stored = TRUE]]
    /\ dispatch' = [dispatch EXCEPT ![q] = "link"]
    /\ UNCHANGED <<sentinel, cache, request, revoke, cancels, revocationVars, before>>

LinkedWhateverBecameOfIt(operation) == [operation EXCEPT !.linked = TRUE]

\* The operation is replaced if it is still the one that was read.
Linked(operation) ==
    IF Active(operation) THEN [operation EXCEPT !.linked = TRUE] ELSE operation

LinkCredential(q) ==
    /\ dispatch[q] = "link"
    /\ request' = [request EXCEPT ![q] = Linked(@)]
    /\ dispatch' = [dispatch EXCEPT ![q] = "idle"]
    /\ UNCHANGED <<sentinel, cache, credential, revoke, cancels, revocationVars, before>>

\* A create or a write fails, or the backend restarts.
FailDispatch(q) ==
    /\ dispatch[q] # "idle"
    /\ dispatch' = [dispatch EXCEPT ![q] = "idle"]
    /\ UNCHANGED <<sentinel, cache, request, credential, revoke, cancels, revocationVars, before>>

AlwaysProvisioning(cred) == "Provisioning"

NewOperationStatus(cred) == IF cred.decided THEN "Ended" ELSE "Provisioning"

\* The poll needs the credential: one that is gone is an error, time and again.
PollRequest(q) ==
    /\ Active(request[q]) /\ request[q].linked
    /\ credential[q].stored
    /\ request' = [request EXCEPT ![q].status = NewOperationStatus(credential[q])]
    /\ UNCHANGED <<sentinel, cache, credential, dispatch, revoke, cancels, revocationVars, before>>

\* The credential is issued, or fails.
DecideCredential(q) ==
    /\ credential[q].stored /\ ~credential[q].decided
    /\ credential' = [credential EXCEPT ![q].decided = TRUE]
    /\ UNCHANGED <<sentinel, cache, request, dispatch, revoke, cancels, revocationVars, before>>

\* The deletion cleanup removes a marked credential, the garbage collector
\* any that is 48 h old.
RemoveCredential(q) ==
    /\ credential[q].stored
    /\ credential' = [credential EXCEPT ![q] = NoCredential]
    /\ before' = [v \in Revocation |-> before[v] \ {q}]
    /\ UNCHANGED <<sentinel, cache, request, dispatch, revoke, cancels, revocationVars>>

-----------------------------------------------------------------------------
(* The backend: revocations. *)

\* The dispatcher skips an operation the cached sentinel does not name, and
\* creates the document unless it is there.
DispatchRevoke(v) ==
    /\ revoke[v] = "Accepted" /\ poll[v] = "idle"
    /\ cache = v
    /\ revocation' = IF revocation[v].stored THEN revocation
                     ELSE [revocation EXCEPT ![v] = [NoRevocation EXCEPT !.stored = TRUE]]
    /\ poll' = [poll EXCEPT ![v] = "created"]
    /\ UNCHANGED <<sentinel, cache, requestVars, revoke, cancels, marking, before>>

RecordDispatch(v) ==
    /\ poll[v] = "created"
    /\ revoke' = [revoke EXCEPT ![v] = "Deleting"]
    /\ poll' = [poll EXCEPT ![v] = "idle"]
    /\ UNCHANGED <<sentinel, cache, requestVars, cancels, revocation, marking, before>>

ListedAsPending(cred) == cred.stored /\ ~cred.marked /\ ~cred.decided

ToBeMarked(cred) == cred.stored /\ ~cred.marked

\* mark-requests: a live list of the credential requests.
StartMarking(v) ==
    /\ revocation[v].stored /\ ~revocation[v].deleting /\ ~revocation[v].marked
    /\ ~marking[v].active
    /\ marking' = [marking EXCEPT ![v] = [active |-> TRUE, fits |-> TRUE,
          left |-> {<<q, credential[q]>> : q \in {p \in Request : ToBeMarked(credential[p])}}]]
    /\ UNCHANGED <<sentinel, cache, requestVars, revoke, cancels, poll, revocation, before>>

\* Each is stamped if it is as it was listed; if not the sync fails.
MarkRequest(v, q) ==
    \E listed \in {c \in marking[v].left : c[1] = q} :
        /\ IF credential[q] = listed[2]
           THEN /\ credential' = [credential EXCEPT ![q].marked = TRUE]
                /\ marking' = [marking EXCEPT ![v].left = @ \ {listed}]
           ELSE /\ marking' = [marking EXCEPT ![v] = NotMarking]
                /\ UNCHANGED credential
        /\ UNCHANGED <<sentinel, cache, request, dispatch, revoke, cancels, poll, revocation, before>>

\* CredentialsMarkedForDeletion, if the revocation is as it was read.
FinishMarking(v) ==
    /\ marking[v].active /\ marking[v].left = {}
    /\ marking' = [marking EXCEPT ![v] = NotMarking]
    /\ revocation' = IF marking[v].fits THEN [revocation EXCEPT ![v].marked = TRUE] ELSE revocation
    /\ UNCHANGED <<sentinel, cache, requestVars, revoke, cancels, poll, before>>

\* The mirrored CertificateRevocationRequest says that the certificates are revoked.
ObserveRevoked(v) ==
    /\ revocation[v].stored /\ ~revocation[v].deleting /\ ~revocation[v].revoked
    /\ revocation' = [revocation EXCEPT ![v].revoked = TRUE]
    /\ marking' = [marking EXCEPT ![v].fits = FALSE]
    /\ UNCHANGED <<sentinel, cache, requestVars, revoke, cancels, poll, before>>

\* Complete, with the deletion timestamp.
CompleteRevocation(v) ==
    /\ revocation[v].stored /\ ~revocation[v].deleting
    /\ revocation[v].revoked /\ revocation[v].marked
    /\ revocation' = [revocation EXCEPT ![v].deleting = TRUE]
    /\ UNCHANGED <<sentinel, cache, requestVars, revoke, cancels, poll, marking, before>>

\* The desires are gone, and the document goes.
DeleteRevocation(v) ==
    /\ revocation[v].deleting
    /\ revocation' = [revocation EXCEPT ![v] = NoRevocation]
    /\ UNCHANGED <<sentinel, cache, requestVars, revoke, cancels, poll, marking, before>>

NeverItsOwn(v) == FALSE

\* The cached cluster names this revocation.
IsSentinel(v) == cache = v

CompleteWithItsSentinel(v) == ~revocation[v].stored /\ cache = v

IsComplete(v) == ~revocation[v].stored

\* The poll finds the document gone.  If the cached sentinel is its own it
\* clears the one that is stored.
ClearSentinel(v) ==
    /\ revoke[v] = "Deleting" /\ poll[v] = "idle"
    /\ IsComplete(v)
    /\ poll' = [poll EXCEPT ![v] = "cleared"]
    /\ IF IsSentinel(v)
       THEN /\ sentinel' = None
            /\ revoke' = [w \in Revocation |-> Outdated(w)]
       ELSE UNCHANGED <<sentinel, revoke>>
    /\ UNCHANGED <<cache, requestVars, cancels, revocation, marking, before>>

\* The operation is updated in a write of its own.
EndRevoke(v) ==
    /\ poll[v] = "cleared"
    /\ revoke' = [revoke EXCEPT ![v] = "Succeeded"]
    /\ poll' = [poll EXCEPT ![v] = "idle"]
    /\ UNCHANGED <<sentinel, cache, requestVars, cancels, revocation, marking, before>>

\* A write fails, or the backend restarts.
FailPoll(v) ==
    /\ poll[v] # "idle"
    /\ poll' = [poll EXCEPT ![v] = "idle"]
    /\ UNCHANGED <<sentinel, cache, requestVars, revoke, cancels, revocation, marking, before>>

FailMarking(v) ==
    /\ marking[v].active
    /\ marking' = [marking EXCEPT ![v] = NotMarking]
    /\ UNCHANGED <<sentinel, cache, requestVars, revoke, cancels, poll, revocation, before>>

-----------------------------------------------------------------------------
RequestController(q) ==
    \/ DispatchRequest(q) \/ CreateCredential(q) \/ LinkCredential(q) \/ PollRequest(q)

MarkRequests(v) ==
    StartMarking(v) \/ (\E q \in Request : MarkRequest(v, q)) \/ FinishMarking(v)

Completion(v) == ObserveRevoked(v) \/ CompleteRevocation(v) \/ DeleteRevocation(v)

RevokeController(v) ==
    DispatchRevoke(v) \/ RecordDispatch(v) \/ ClearSentinel(v) \/ EndRevoke(v)

Step ==
    \/ \E q \in Request : \/ CheckRequest(q) \/ AcceptRequest(q)
                          \/ RequestController(q) \/ DecideCredential(q) \/ RemoveCredential(q)
    \/ \E v \in Revocation : \/ ListRequests(v) \/ AcceptRevoke(v)
                             \/ RevokeController(v) \/ MarkRequests(v) \/ Completion(v)
    \/ RefreshCache

Failure ==
    \/ \E q \in Request : FailDispatch(q)
    \/ \E v \in Revocation : FailPoll(v) \/ FailMarking(v)

Next == Step \/ Failure

Spec == Init /\ [][Next]_vars

\* The work queues and resyncs keep the controllers going, the signer decides
\* and the certificates are revoked; in the end no call fails.
Fairness ==
    /\ \A q \in Request : WF_vars(RequestController(q)) /\ WF_vars(DecideCredential(q))
    /\ \A v \in Revocation :
          WF_vars(RevokeController(v)) /\ WF_vars(MarkRequests(v)) /\ WF_vars(Completion(v))
    /\ WF_vars(RefreshCache)
    /\ <>[][Step]_vars

LiveSpec == Spec /\ Fairness

-----------------------------------------------------------------------------
CredentialType == [stored : BOOLEAN, decided : BOOLEAN, marked : BOOLEAN]

\* The sentinel names an operation that has not ended, so that there is always
\* a poll to clear it: the frontend turns down every request and revocation
\* while it is set.  The poll decides whether to clear it on a cached cluster.
SentinelIsActive ==
    \A v \in Revocation : sentinel = v => revoke[v] \in {"Accepted", "Deleting"}

\* A revocation that succeeded has marked every credential request that was
\* there when it was accepted, issued or not, and whatever failed in between.
RevokedCredentialsGo ==
    \A v \in Revocation : revoke[v] = "Succeeded" =>
        \A q \in before[v] : credential[q].marked

\* A request operation that has ended stays as it ended.  A dispatcher that read
\* it before a revocation canceled it creates the credential all the same, maybe
\* after the revocation has listed what to mark; but it does not link it, and no
\* poll takes the operation for issued.
EndedRequestsAreFinal ==
    [][\A q \in Request :
          request[q].status \in {"Canceled", "Ended"} => request'[q] = request[q]]_vars

\* A request operation ends, unless its credential goes before the poll has
\* seen the outcome: the poll takes a missing credential for an error, and
\* neither fails nor cancels the operation.
RequestsEnd ==
    \A q \in Request :
        Active(request[q]) ~>
            ~Active(request[q]) \/ (request[q].linked /\ ~credential[q].stored)

\* A revocation ends: also one whose poll cleared the sentinel and failed
\* before it ended the operation, which the next poll must do without the
\* sentinel.  The exception is one that lost its sentinel before it was
\* dispatched.  The poll of an earlier revocation does that, when it is repeated
\* on a stale cache after its own sentinel was cleared; the dispatcher then
\* skips the operation for good.
RevocationsEnd ==
    \A v \in Revocation :
        revoke[v] \in {"Accepted", "Deleting"} ~>
            revoke[v] = "Succeeded" \/ (revoke[v] = "Accepted" /\ sentinel # v)
=============================================================================
