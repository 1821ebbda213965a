------------------------- MODULE OperationContract -------------------------
(***************************************************************************)
(* What the resource provider promises about the asynchronous operations   *)
(* of one resource, whoever serves them: an operation is accepted once,    *)
(* runs, and ends once; at most one running operation is in charge of the  *)
(* resource; a request is accepted only when none is, or by canceling all  *)
(* that still run.                                                         *)
(***************************************************************************)
CONSTANTS Operation, NoOperation

VARIABLES
    state,  \* Operation -> "none", "running", or how it ended
    owner   \* the running operation in charge of the resource, or NoOperation

cvars == <<state, owner>>

Ends == {"Succeeded", "Failed", "Canceled"}

Init ==
    /\ state = [o \in Operation |-> "none"]
    /\ owner = NoOperation

\* A request is accepted on a resource that no operation is in charge of.
Accept(o) ==
    /\ state[o] = "none" /\ owner = NoOperation
    /\ state' = [state EXCEPT ![o] = "running"]
    /\ owner' = o

\* A deletion is accepted at any time and cancels every running operation.
Supersede(o) ==
    /\ state[o] = "none"
    /\ state' = [p \in Operation |->
                    IF p = o THEN "running"
                    ELSE IF state[p] = "running" THEN "Canceled" ELSE state[p]]
    /\ owner' = o

\* A running operation ends, and gives up the resource if it is in charge.
End(o) ==
    /\ state[o] = "running"
    /\ \E e \in Ends : state' = [state EXCEPT ![o] = e]
    /\ owner' = IF owner = o THEN NoOperation ELSE owner

\* The resource document goes, with the reference to its operation.
Detach == owner' = NoOperation /\ UNCHANGED state

Next ==
    \/ \E o \in Operation : Accept(o) \/ Supersede(o) \/ End(o)
    \/ Detach

Spec == Init /\ [][Next]_cvars
============================================================================
