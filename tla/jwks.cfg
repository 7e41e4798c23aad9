CONSTANTS
    k1 = k1
    k2 = k2
    alice = alice
    n1 = n1
    Kids = {k1, k2}
    Documents <- MCDocuments
    Versions = {1, 2, 3, 4}
    Reqs = {r1}
    MaxRequests = 2
    StaleAfter = 1
    NoKid = NoKid
    Tokens <- MCTokens
    Subs = {alice}
    Names = {n1}
    Secret = Secret
    None = None
SPECIFICATION AuthFairSpec
INVARIANTS TypeOK ReadyKeysAreRecent PublishedKeysKnown AcceptedWereIssued
PROPERTIES EventuallyCurrent UsersGetIn
