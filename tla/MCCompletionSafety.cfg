\* Two concurrent calls, every answer, retries with hints and jitter.
SPECIFICATION Safe
CONSTANTS
    Requests = {r1, r2}
    MaxAttempts = 3
    InitialBackoff = 1
    MaxBackoff = 2
    Budget = 3
    Threshold = 2
    Reset = 2
    FailureCap = 3
    AnswersSeen <- OrderlyAnswers
    RequireApiKey = TRUE
    UsageMayFail = FALSE
SYMMETRY CallSymmetry
INVARIANTS TypeOK OpenIffFailing BudgetKept RowTellsAnswer
PROPERTIES CallsRunOut
