CONSTANTS
    Events = {e1, e2}
    Relays = {r1}
    BatchSize = 1
    MayRefuse = {}
    MaxFaults = 2
    FaultKinds = {"crash", "stop", "db", "publish", "broker"}
    Partitions = {1}
    PartitionOf <- OnePartition
SPECIFICATION UnavailableSpec
PROPERTY StopReturns
