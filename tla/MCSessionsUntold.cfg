\* Violated: EveryCallerTold, by an invalid request that was charged.
SPECIFICATION Safe
CONSTANTS
    Requests = {r1}
    Keys = {k1}
    NoKey = NoKey
    PoolSize = 2
    RequireApiKey = TRUE
    ProviderCodes = {"ok"}
    Faults = {}
INVARIANTS EveryCallerTold
CHECK_DEADLOCK FALSE
