CONSTANTS
    Calls = {c1, c2}
    Passwords = {"right", "wrong"}
    PasswordOf <- Configured
    NoPassword = ""
    Methods <- AllMethods
    Reachable = {"database"}
    MaxChanges = 2
SYMMETRY Symmetry
SPECIFICATION Spec
CHECK_DEADLOCK FALSE
INVARIANTS
    ApiInv
    ResultIsOutcome
    HealthIsTrue
