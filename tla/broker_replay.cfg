CONSTANTS
    Users = {u1}
    Reqs = {r1}
    Auths = {a1, a2}
    Tokens = {t1}
    MaxRequests = 4
    None = None
SPECIFICATION Spec
PROPERTY ReplayTouchesNothing
CHECK_DEADLOCK FALSE
