\* Violated: OpenOnlyLeadsToTrial.
SPECIFICATION Safe
CONSTANTS
    Requests = {r1, r2}
    MaxAttempts = 2
    InitialBackoff = 1
    MaxBackoff = 1
    Budget = 1
    Threshold = 2
    Reset = 2
    FailureCap = 3
    AnswersSeen <- PlainAnswers
    RequireApiKey = TRUE
    UsageMayFail = FALSE
PROPERTIES OpenOnlyLeadsToTrial
