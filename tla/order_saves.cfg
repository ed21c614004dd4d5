SPECIFICATION Spec
CONSTANTS
    u1 = u1
    u2 = u2
    t1 = t1
    t2 = t2
    order = order
    offer = offer
    Users = {u1}
    Admins = {}
    Tabs = {t1, t2}
    UserOf <- ByOne
    Docs = {order}
    Offers = {}
    TTL = 1
    MaxLate = 0
    Inspected = {}
    NoLock = NoLock
    None = None
    NoDoc = NoDoc
    MaxLocking = 1
    MaxSaves = 1
    MaxWrites = 3
INVARIANTS VersionNamesContent
PROPERTIES OverwritesOnlyTold
