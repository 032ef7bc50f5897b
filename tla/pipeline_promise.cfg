CONSTANTS
    Events = {e1, e2}
    Relays = {r1}
    BatchSize = 1
    Notifiers = {n1, n2}
    NoOwner = NoOwner
    FileSink = TRUE
    MayRefuse = {}
    MaxFaults = 1
    FaultKinds = {"crash", "stop", "rebalance", "db", "sink", "publish", "commit", "broker"}
    Partitions = {1, 2}
    PartitionOf <- Spread
SPECIFICATION Spec
INVARIANTS
    PipelineInv
    DeliveredIsPublished
    NotificationBound
PROPERTIES
    KeepsPromise
    EventuallySettled
