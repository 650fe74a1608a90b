\* A rate that is not a whole number of tokens a second, headers rounded up.
SPECIFICATION Spec
CONSTANTS
    Keys = {k1}
    Capacity = 2
    Unit = 3
    Rate = 2
    Second = 2
    MaxTime = 14
INVARIANTS TypeOK WindowBound RetryAfterKept ResetKept
PROPERTIES KeepsContract
