CONSTANTS
    Users = {u1}
    old = old
    new = new
    c1 = c1
    Customers = {c1}
    Events <- MCEvents
    Slots = {d1}
    Conns = 2
    whsec = new
    Secrets <- MCSecrets
    Delays = {300, 301}
    MaxFaults = 1
    None = None
    Subscriber = u1
    Monthly = 1
    MaxCost = 1
    MaxConcurrent = 1
SPECIFICATION CycleSpec
INVARIANT PlaceholderPersisted
CHECK_DEADLOCK FALSE
