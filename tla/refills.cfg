SPECIFICATION MCSpec
CONSTANTS
    a1 = a1
    a2 = a2
    c1 = c1
    c2 = c2
    Auths = {a1, a2}
    Callers = {c1, c2}
    None = None
    Start = 3
    Cost = 2
    Threshold = 2
    Amount = 1
    MaxAttempts = 2
    MaxFaults = 2
CHECK_DEADLOCK FALSE
INVARIANTS CreditedOnce 
PROPERTIES JobEnds
