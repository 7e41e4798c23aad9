CONSTANTS
    Reqs = {r1, r2}
    MaxSignals = 2
SPECIFICATION ShutdownFairSpec
PROPERTIES CutOnlyAtDeadline WaitersAreServed
CHECK_DEADLOCK FALSE
