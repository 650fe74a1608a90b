\* Two requests and a key over two connections, with every fault and anonymous callers.
SPECIFICATION Spec
CONSTANTS
    Requests = {r1, r2}
    Keys = {k1}
    NoKey = NoKey
    PoolSize = 2
    RequireApiKey = FALSE
    ProviderCodes = {"ok", "upstream_rate_limited"}
    Faults = {"database", "completion"}
INVARIANTS TypeOK ConnectionsReturned OneRequestPerKey RevokedKeysRefused UsageSurvives StampTellsAnswer HeadersTell
PROPERTIES KeepsContract RequestsAdvance EveryRequestEnds
CHECK_DEADLOCK FALSE
