\* Violated: RowTellsAnswer, by a Retry-After of NaN.
SPECIFICATION Safe
CONSTANTS
    Requests = {r1, r2}
    MaxAttempts = 2
    InitialBackoff = 1
    MaxBackoff = 1
    Budget = 1
    Threshold = 2
    Reset = 2
    FailureCap = 3
    AnswersSeen <- NanAnswers
    RequireApiKey = TRUE
    UsageMayFail = FALSE
INVARIANTS RowTellsAnswer
