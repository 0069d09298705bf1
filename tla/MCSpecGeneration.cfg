SPECIFICATION Spec
CONSTANTS
    TemplateH1 = TRUE
    Contracts <- AllContracts
    Answers <- SomeAnswers
    MAX_RETRIES = 2
    QUALITY_THRESHOLD = 70
    MaxRuns = 1
    Errors = TRUE
INVARIANTS GenTypeOK ContractKept RoundSteered 
PROPERTIES Implements RunsEnd
CHECK_DEADLOCK FALSE
