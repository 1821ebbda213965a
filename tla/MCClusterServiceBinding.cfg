\* A document of any kind: two identities, two replaces by other writers, one restart.
SPECIFICATION LiveSpec
CONSTANTS
    ID = {i1, i2}
    NoID = NoID
    Kinds = {"cluster", "nodepool", "externalauth"}
    MaxETag = 3
    MaxRestarts = 1
    MaxAssignments = 2
    TimeoutOutlivesCreate = TRUE
INVARIANTS TypeOK TargetIsNotAbandoned
PROPERTIES BindingIsStable DeletionCompletes LeftoversAreDeleted
CHECK_DEADLOCK FALSE
