CONSTANTS
    Users = {u1, u2}
    Reqs = {r1, r2}
    Auths = {a1, a2}
    Tokens = {t1, t2}
    MaxRequests = 4
    None = None
SPECIFICATION Spec
INVARIANTS TypeOK RowPhases SnapshotsSound SoleRegistrant SecretKept OwnAuthorizations
PROPERTIES OnlyOwnerActs ImplementsLifecycle
SYMMETRY Symmetry
CHECK_DEADLOCK FALSE
