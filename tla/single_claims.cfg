SPECIFICATION FairSpec
CONSTANTS
    u = u
    bottom = bottom
    empty = empty
    other = other
    Users = {u}
    Admins = {}
    Subs <- NoSubs
    StartNumber <- FromOne
    Years <- ThisYear
    Docs <- AllDocs
    NoRow = NoRow
    Keys <- AllKeys
    Bodies = {empty, other}
    Results <- AllNumbers
    NoResult = NoResult
    NoKey = NoKey
    Reclaim = 1
    Ttl = 2
    Owner = u
    Elements = {bottom}
    NoNumber = NoNumber
    Absent = Absent
    FormBody = empty
    MaxAttempts = 2
    MaxOrders = 1
    MaxSeq = 4
    MaxNet = 2
    MaxWrites = 1
    MaxFaults = 1
CHECK_DEADLOCK FALSE
INVARIANTS TypeOK OneAnswerPerKey
PROPERTIES OneExecution GetsNumber
