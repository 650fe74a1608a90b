\* An outage ends and callers keep asking; anonymous callers, refused usage rows, NaN.
SPECIFICATION BusySpec
CONSTANTS
    Requests = {r1, r2}
    MaxAttempts = 2
    InitialBackoff = 1
    MaxBackoff = 1
    Budget = 1
    Threshold = 2
    Reset = 2
    FailureCap = 3
    AnswersSeen <- FaultyAnswers
    RequireApiKey = FALSE
    UsageMayFail = TRUE
PROPERTIES Recovers NothingSetsBack Answered KeepsContract KeepsPromise
