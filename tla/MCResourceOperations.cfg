\* Three operations on one resource of any kind.
SPECIFICATION Spec
CONSTANTS
  Operation = {o1, o2, o3}
  NoOperation = NoOperation
  Kinds = {"cluster", "nodepool", "externalauth"}
  NotificationURIs = {FALSE}
  MaxOperationETag = 2
  TombstoneOutlivesResync = TRUE
SYMMETRY Symmetry
INVARIANTS ResourceMirrorsOperation DeletingResourceIsNotUpdated SucceededDeleteIsGone
           RunningOperationHasItsResource
PROPERTIES OnlyRequestedDeletions ContractSpec
CHECK_DEADLOCK FALSE
