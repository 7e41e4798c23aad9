CONSTANTS
    Users = {u1}
    Reqs = {r1}
    Auths = {a1, a2}
    Tokens = {t1}
    MaxRequests = 6
    None = None
SPECIFICATION Spec
INVARIANTS DeleteDisconnects AckedStaysInactive
SYMMETRY Symmetry
CHECK_DEADLOCK FALSE
