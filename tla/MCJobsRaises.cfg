\* Violated: NothingRaises, by a failed transaction.
SPECIFICATION Safe
CONSTANTS
    Work = {j1}
    Faults = {"database"}
    MaxCrashes = 0
    MaxAttempts = 3
    InitialBackoff = 1
    MaxBackoff = 2
    Budget = 2
INVARIANTS NothingRaises
