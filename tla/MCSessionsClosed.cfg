\* One request with a key submits a job: is its transaction closed when the job is run?
SPECIFICATION Safe
CONSTANTS
    Requests = {r1}
    Keys = {k1}
    NoKey = NoKey
    PoolSize = 2
    RequireApiKey = TRUE
    ProviderCodes = {"ok"}
    Faults = {}
INVARIANTS ClosedBeforeWork
CHECK_DEADLOCK FALSE
