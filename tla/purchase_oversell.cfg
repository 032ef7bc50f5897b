CONSTANTS
    Handlers = {h1, h2}
    Requests <- Lists
    Skus <- Shop
    NameOf <- Names
    FreeItem = "pi"
    Engine = "postgres"
    Initial <- SmallStock
    InitialNext = 4
    Shipments <- NoShipments
    MaxId = 5
    MaxOrders = 3
SPECIFICATION Spec
CHECK_DEADLOCK FALSE
INVARIANT NoOversell
