\* Three clusters of the name, one after another.
SPECIFICATION LiveSpec
CONSTANT MaxUID = 3
INVARIANT LiveClusterIsBilled
PROPERTIES
    BillingCloses
    ClusterIsBilled
\* Nothing need happen to a cluster that is billed.
CHECK_DEADLOCK FALSE
