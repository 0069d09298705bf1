CONSTANTS
    Exec = {e1, e2}
    MAX_ATTEMPT = 3
    TASK_RETRY = 2
    MaxStarts = 3
    Errors = TRUE
    Prov = {p1, p2}
    MaxDuplicates = 1
    ProvErrors = TRUE
SPECIFICATION Spec
INVARIANT SiteTypeOK RetriesBounded DomainHasStack
SYMMETRY SiteSymmetry
CHECK_DEADLOCK FALSE
