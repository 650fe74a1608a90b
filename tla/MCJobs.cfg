\* Two jobs with every fault and a crash.
SPECIFICATION Spec
CONSTANTS
    Work = {j1, j2}
    Faults = {"database", "completion", "callback", "anonymous"}
    MaxCrashes = 1
    MaxAttempts = 2
    InitialBackoff = 1
    MaxBackoff = 1
    Budget = 1
INVARIANTS TypeOK AcceptedIsStored AttemptsHonest
PROPERTIES KeepsContract JobsRunOut JobConcludes
