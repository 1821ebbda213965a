SPECIFICATION LiveSpec
CONSTANTS
  Operation = {o1, o2}
  NoOperation = NoOperation
  Kinds = {"cluster"}
  NotificationURIs = {TRUE, FALSE}
  MaxOperationETag = 2
  TombstoneOutlivesResync = TRUE
PROPERTIES OperationsEnd CreateDeadlineEndsOperation PostedOutcomeIsFinal
CHECK_DEADLOCK FALSE
