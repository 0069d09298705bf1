SPECIFICATION FairSpec
CONSTANTS
    TemplateH1 = FALSE
    Exec = {e1}
    Nobody = nobody
    Thread = {t1}
    Contracts <- Contract
    Drafts <- AllDrafts
    MAX_PATCH_ATTEMPTS = 3
    TASK_RETRY = 2
    MaxRuns = 2
    MaxStrays = 0
    Errors = TRUE
    Timeouts = FALSE
INVARIANTS PassedServed PatchCures FillSuffices RetrySteered
PROPERTY ExecutionsEnd
