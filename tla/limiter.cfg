CONSTANTS
    Users = {u1}
    Callers = {c1, c2}
    WINDOW = 3
    MAX_PER_WINDOW = 2
    Delay = 1
    MaxTime = 7
SPECIFICATION Spec
INVARIANTS RollingWindow RetryAfterIsEnough
SYMMETRY Symmetry
CHECK_DEADLOCK FALSE
