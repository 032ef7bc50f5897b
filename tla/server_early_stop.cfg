SPECIFICATION Spec
CONSTANTS
    Main = m
    Callers = {m}
    Requests = {r1, r2, r3}
INVARIANT StopDrains
CHECK_DEADLOCK FALSE
