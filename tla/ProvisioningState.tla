------------------------- MODULE ProvisioningState -------------------------
(***************************************************************************)
(* The ARM provisioning states of the resource provider, and the pure      *)
(* functions that turn what Cluster Service and the other status sources   *)
(* report into the next status of an asynchronous operation.               *)
(***************************************************************************)
EXTENDS Integers

ProvisioningStates ==
    {"Succeeded", "Failed", "Canceled", "Accepted", "Deleting",
     "Provisioning", "Updating", "AwaitingSecret"}

IsTerminal(s) == s \in {"Succeeded", "Failed", "Canceled"}

OperationRequests == {"Create", "Update", "Delete"}

\* The status NewOperation gives an operation document.
InitialStatus(request) == IF request = "Delete" THEN "Deleting" ELSE "Accepted"

\* The smaller the number, the worse the state.
provisioningStatePriority ==
    [s \in ProvisioningStates |->
        CASE s = "Failed"         -> 0
          [] s = "Canceled"       -> 10
          [] s = "Deleting"       -> 20
          [] s = "Provisioning"   -> 30
          [] s = "AwaitingSecret" -> 35
          [] s = "Updating"       -> 40
          [] s = "Accepted"       -> 50
          [] OTHER                -> 100]

\* The worse of two states: PickWorstOperationState folds it over its sources.
PickWorst(s, t) ==
    IF provisioningStatePriority[s] <= provisioningStatePriority[t] THEN s ELSE t

(***************************************************************************)
(* What Cluster Service answers for an object.  "pending" stands for every *)
(* state that has no provisioning state of its own (pending, validating,   *)
(* validating_update, pending_update), "error" also for recoverable_error. *)
(***************************************************************************)
ClusterServiceStates ==
    {"pending", "installing", "ready", "updating", "uninstalling", "error"}

\* A conversion that returns an error has no resulting status: the set is empty.
ConvertClusterStatus(request, status, cs) ==
    CASE cs = "error"        -> {"Failed"}
      [] cs = "installing"   -> {"Provisioning"}
      [] cs = "updating"     -> {"Updating"}
      [] cs = "ready"        -> {IF request = "Delete" THEN status ELSE "Succeeded"}
      [] cs = "uninstalling" -> {"Deleting"}
      [] cs = "pending"      -> {status} \cap
                                (CASE request = "Create" -> {"Accepted", "Provisioning"}
                                   [] request = "Update" -> {"Accepted", "Updating"}
                                   [] OTHER              -> {"Deleting"})

ConvertNodePoolStatus(request, status, cs) ==
    CASE cs = "error"        -> {"Failed"}
      [] cs = "installing"   -> {"Provisioning"}
      [] cs = "updating"     -> {"Updating"}
      [] cs = "ready"        -> {IF request = "Delete" THEN status ELSE "Succeeded"}
      [] cs = "uninstalling" -> {"Deleting"}
      [] cs = "pending"      -> {status} \cap {"Accepted"}

ConvertExternalAuthStatus(request, status, cs) ==
    CASE cs = "error"        -> {"Failed"}
      [] cs = "ready"        -> {IF request = "Delete" THEN status ELSE "Succeeded"}
      [] cs = "uninstalling" -> {"Deleting"}
      [] OTHER               -> {}
============================================================================
