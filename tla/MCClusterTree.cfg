\* Two clusters of the name, one after the other.
SPECIFICATION LiveSpec
CONSTANT MaxUID = 2
PROPERTIES
    OnlyDeletedClustersGo
    DeletionEnds
    OrphansGo
    ClusterGetsSPC
\* Nothing need happen to a cluster that is provisioned.
CHECK_DEADLOCK FALSE
