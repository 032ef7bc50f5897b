CONSTANTS
    e1 = e1
    e2 = e2
    s1 = s1
    Events = {e1, e2}
    Restocks = {s1}
    Rows = {1, 2, 3}
    Wants <- RowsOf
    Gift <- GiftOf
    Nobody = Nobody
    MaxFaults = 2
    FaultKinds = {"db", "crash", "commit"}
SPECIFICATION Spec
CHECK_DEADLOCK FALSE
INVARIANTS
    TransactionInv
    OrdersAreWhole
    AnswerIsOutcome
PROPERTIES
    FillsOutbox
    EveryRequestEnds
