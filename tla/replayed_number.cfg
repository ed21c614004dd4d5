SPECIFICATION Spec
CONSTANTS
    u = u
    bottom = bottom
    empty = empty
    other = other
    Users = {u}
    Admins = {}
    Subs <- NoSubs
    StartNumber <- FromOne
    Years <- ThisYear
    Docs <- AllDocs
    NoRow = NoRow
    Keys <- AllKeys
    Bodies = {empty, other}
    Results <- AllNumbers
    NoResult = NoResult
    NoKey = NoKey
    Reclaim = 1
    Ttl = 2
    Owner = u
    Elements = {bottom}
    NoNumber = NoNumber
    Absent = Absent
    FormBody = empty
    MaxAttempts = 2
    MaxOrders = 2
    MaxSeq = 3
    MaxNet = 1
    MaxWrites = 1
    MaxFaults = 0
CHECK_DEADLOCK FALSE
PROPERTIES GivenIsTaken
