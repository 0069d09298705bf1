SPECIFICATION Spec
CONSTANTS
    TemplateH1 = TRUE
    Contracts <- AllContracts
    Answers <- SomeAnswers
    MAX_RETRIES = 2
    QUALITY_THRESHOLD = 70
    MaxRuns = 1
    Errors = TRUE
INVARIANT NullsCompleted
CHECK_DEADLOCK FALSE
