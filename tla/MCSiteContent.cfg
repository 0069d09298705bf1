SPECIFICATION Spec
CONSTANTS
    TemplateH1 = TRUE
    Exec = {e1, e2}
    Nobody = nobody
    Thread = {t1, t2}
    Contracts <- GoodContract
    Drafts <- OneDraft
    MAX_PATCH_ATTEMPTS = 2
    TASK_RETRY = 1
    MaxRuns = 2
    MaxStrays = 1
    Errors = FALSE
    Timeouts = TRUE
SYMMETRY Symmetry
INVARIANT ContentTypeOK
PROPERTIES NeverOlder GeoFollowsPage FreshWhenAnswered
CHECK_DEADLOCK FALSE
