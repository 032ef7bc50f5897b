CONSTANTS
    Events = {e1, e2}
    Relays = {r1, r2}
    BatchSize = 2
    MayRefuse = {e2}
    MaxFaults = 2
    FaultKinds = {"crash", "stop", "db", "publish", "broker"}
    Partitions = {1}
    PartitionOf <- OnePartition
SPECIFICATION RelaySpec
INVARIANTS
    AccountedInv
    PublishedIsLogged
    DuplicateBound
PROPERTIES
    SettledStaysSettled
    EventuallyPublished
    StopReturns
