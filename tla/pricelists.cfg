SPECIFICATION FairSpec
CONSTANTS
    studnie = studnie
    preco = preco
    rury = rury
    s1 = s1
    s2 = s2
    p1 = p1
    p2 = p2
    r1 = r1
    r2 = r2
    r3 = r3
    a = a
    b = b
    offer = offer
    copy = copy
    Types = {studnie, preco}
    Studnie = studnie
    Preco = preco
    Ids = {s1, s2, p1, p2}
    BaselineId <- TwoAxes
    Contents = {1}
    Seed = 1
    Labels = {}
    MaxTime = 1
    Requests = {a, b}
    Asked <- Deletions
    Docs = {}
    DocType <- NoTypes
    None = None
    Deleted = Deleted
    NoDoc = NoDoc
INVARIANTS TypeOK AlwaysPriced OverrideResolves LocksReleased
PROPERTIES PickedPrecoKept Atomic WaitsEnd
