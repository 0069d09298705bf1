CONSTANTS
    Domain = {d1}
    Doc = {x1, x2}
    Coverage = {1, 2}
    LEASE = 1
    REFRESH = 1
    Backoff <- MCBackoff
    Run = {r1}
    Seeds = {}
    MaxRetry = 1
    MaxPicks = 1
    LateRuns = TRUE
    LostReplies = {}
    MAX_CAS_RETRY = 2
    MaxRedeliver = 1
SYMMETRY DocSymmetry
SPECIFICATION Spec
INVARIANT SystemTypeOK IndexNeverAhead
PROPERTY AdoptsOverKnown
