SPECIFICATION Spec
CONSTANTS
    studnie = studnie
    preco = preco
    rury = rury
    s1 = s1
    s2 = s2
    p1 = p1
    p2 = p2
    r1 = r1
    r2 = r2
    r3 = r3
    a = a
    b = b
    offer = offer
    copy = copy
    Types = {rury}
    Studnie = studnie
    Preco = preco
    Ids = {r1, r2}
    BaselineId <- OneAxis
    Contents = {1, 2}
    Seed = 1
    Labels <- Typed
    MaxTime = 1
    Requests = {a, b}
    Asked <- Edits
    Docs = {offer}
    DocType <- BothRury
    None = None
    Deleted = Deleted
    NoDoc = NoDoc
INVARIANTS StampedInForce
PROPERTIES PublishedFrozen EditsOnlySeen Atomic
