CONSTANTS
    Domain = {d1, d2}
    Doc = {}
    Coverage = {1}
    LEASE = 2
    REFRESH = 5
    Backoff <- MCBackoff
    Run = {r1, r2}
    Seeds = {}
    MaxRetry = 2
    MaxPicks = 3
    LateRuns = FALSE
    LostReplies = {}
SPECIFICATION CrawlSpec
INVARIANT LeaseExclusive
PROPERTY RejectionCounts
