CONSTANTS
    Orders = {o1}
    Notifiers = {n1}
    Events = {e1}
    Configs <- SomeConfigs
    MaxFaults = 2
    FaultKinds = {"crash", "sink", "database", "broker"}
SPECIFICATION Spec
CHECK_DEADLOCK FALSE
INVARIANTS
    StartupInv
    OrdersHaveEvents
PROPERTIES
    RowsSurvive
    EventuallyServing
