SPECIFICATION Spec
CONSTANTS
    Main = m
    Callers = {m}
    Requests = {r1, r2, r3}
INVARIANTS ServerInv StopsInOrder ClosedAfterLoop
PROPERTY InterruptEnds
CHECK_DEADLOCK FALSE
