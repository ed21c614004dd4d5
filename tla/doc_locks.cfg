SPECIFICATION FairSpec
CONSTANTS
    u1 = u1
    u2 = u2
    t1 = t1
    t2 = t2
    order = order
    offer = offer
    Users = {u1, u2}
    Admins = {u2}
    Tabs = {t1, t2}
    UserOf <- ByTwo
    Docs = {order}
    Offers = {}
    TTL = 2
    MaxLate = 1
    Inspected = {order}
    NoLock = NoLock
    None = None
    NoDoc = NoDoc
    MaxLocking = 2
    MaxSaves = 1
    MaxWrites = 1
INVARIANTS TypeOK LeaseHeld
PROPERTIES OpensEventually
