\* Violated: EveryResponseTraceable, by the anonymous caller's job.
SPECIFICATION Safe
CONSTANTS
    Requests = {r1}
    Keys = {k1}
    NoKey = NoKey
    PoolSize = 2
    RequireApiKey = FALSE
    ProviderCodes = {"ok"}
    Faults = {}
INVARIANTS EveryResponseTraceable
CHECK_DEADLOCK FALSE
