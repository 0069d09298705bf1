\* Two reinforcements of one domain; nothing dies, nothing is delivered twice.
CONSTANTS
    Domain = {d1}
    Doc = {x1, x2}
    Coverage = {1, 2}
    LEASE = 1
    REFRESH = 2
    Backoff <- MCBackoff
    Run = {r1}
    Seeds = {}
    MaxRetry = 0
    MaxPicks = 1
    LateRuns = FALSE
    LostReplies = {}
    MAX_CAS_RETRY = 3
    MaxRedeliver = 0
SPECIFICATION Spec
INVARIANT NotAdoptedNotStored
