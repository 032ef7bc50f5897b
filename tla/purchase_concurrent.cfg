CONSTANTS
    Handlers = {h1, h2}
    Requests <- Lists
    Skus <- Shop
    NameOf <- Names
    FreeItem = "pi"
    Engine = "postgres"
    Initial <- TwoItems
    InitialNext = 3
    Shipments <- Deliveries
    MaxId = 5
    MaxOrders = 2
SYMMETRY Symmetry
SPECIFICATION Spec
CHECK_DEADLOCK FALSE
INVARIANT PurchaseInv
INVARIANT QuoteIsCharge
 
INVARIANT RefusalRule
PROPERTY FreshPurchaseExact
PROPERTY ItemsKept
