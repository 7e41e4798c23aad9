CONSTANTS
    Streams = {s1, s2}
    Posts = {p1}
    Replies <- MCReplies
    Monthly = 5
    Capacity = 2
    MaxConcurrent = 2
    MaxPeriod = 1
SPECIFICATION FairSpec
INVARIANTS LedgerMatchesUsage ChargedLossBounded
PROPERTIES ImplementsAccount StreamsEnd
CHECK_DEADLOCK FALSE
