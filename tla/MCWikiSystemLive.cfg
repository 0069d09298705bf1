CONSTANTS
    Domain = {d1}
    Doc = {x1}
    Coverage = {1}
    LEASE = 1
    REFRESH = 1
    Backoff <- MCBackoff
    Run = {r1}
    Seeds = {d1}
    MaxRetry = 1
    MaxPicks = 3
    LateRuns = TRUE
    LostReplies = {r1}
    MAX_CAS_RETRY = 2
    MaxRedeliver = 1
SPECIFICATION FairSpec
PROPERTIES PendingDeleted Requeued
