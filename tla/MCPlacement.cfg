CONSTANTS
    Cluster = {"c1", "c2"}
    SingleReplica = {"c2"}
    MC = {"m1", "m2"}
    NoMC = "none"
    Ceiling = 3
    Scenarios <- CompetitionOrChoice
    MaxDisturbances = 2
SPECIFICATION LiveSpec
INVARIANTS NoOverbooking HostedWherePlaced
PROPERTIES ReservationsAreReleased WaitingClusterIsPlaced
