SPECIFICATION Spec
CONSTANTS
    u1 = u1
    u2 = u2
    t1 = t1
    t2 = t2
    order = order
    offer = offer
    Users = {u1, u2}
    Admins = {u2}
    Tabs = {t1, t2}
    UserOf <- ByTwo
    Docs = {offer}
    Offers = {offer}
    TTL = 2
    MaxLate = 1
    Inspected = {}
    NoLock = NoLock
    None = None
    NoDoc = NoDoc
    MaxLocking = 1
    MaxSaves = 1
    MaxWrites = 2
PROPERTIES LockKeepsOthersOut
