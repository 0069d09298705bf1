CONSTANTS
    Exec = {e1, e2}
    MAX_ATTEMPT = 2
    TASK_RETRY = 1
    MaxStarts = 2
    Errors = FALSE
    Prov = {p1, p2}
    MaxDuplicates = 1
    ProvErrors = FALSE
SPECIFICATION FairSpec
PROPERTY Provisioned SiteSettles
CHECK_DEADLOCK FALSE
