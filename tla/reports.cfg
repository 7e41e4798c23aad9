CONSTANTS
    Users = {u1, u2}
    FirstMonth <- MCFirstMonth
    Years <- MCYears
    LastMonth = 1
    Ticks = {w1, w2}
    WORKER_PARALLELISM = 2
    MaxFaults = 2
SPECIFICATION FairSpec
INVARIANTS SummaryMatches ReportsTile EnqueueCovers
PROPERTY PendingEnds
CHECK_DEADLOCK FALSE
