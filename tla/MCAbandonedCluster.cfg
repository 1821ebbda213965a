\* A replaced identity is abandoned in Cluster Service.
SPECIFICATION Spec
CONSTANTS
    ID = {i1, i2}
    NoID = NoID
    Kinds = {"cluster"}
    MaxETag = 3
    MaxRestarts = 1
    MaxAssignments = 2
    TimeoutOutlivesCreate = TRUE
SYMMETRY Symmetry
INVARIANT NoAbandonedObject
CHECK_DEADLOCK FALSE
