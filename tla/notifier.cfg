CONSTANTS
    Events = {e1, e2}
    Notifiers = {n1, n2}
    NoOwner = NoOwner
    FileSink = TRUE
    MaxLog = 2
    MaxFaults = 2
    FaultKinds = {"crash", "stop", "rebalance", "db", "sink", "commit", "broker"}
    Partitions = {1}
    PartitionOf <- OnePartition
SPECIFICATION NotifierSpec
CHECK_DEADLOCK FALSE
INVARIANTS
    NotifierInv
    CommittedIsShown
    DeliveredIsWritten
    StrandedHasFailed
    RedeliveryBound
PROPERTIES
    CommitsAdvance
    EventuallyShown
