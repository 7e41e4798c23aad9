CONSTANTS
    Users = {u1, u2}
    Emails = {m1, m2}
    Tokens = {k1, k2}
    Reqs = {r1, r2}
    MaxRequests = 4
    None = None
SPECIFICATION Spec
INVARIANTS MembersWereInvited NoHalfRedeemed
SYMMETRY Symmetry
CHECK_DEADLOCK FALSE
