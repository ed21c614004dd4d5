SPECIFICATION Spec
CONSTANTS
    u1 = u1
    u2 = u2
    u3 = u3
    r1 = r1
    r2 = r2
    r3 = r3
    r4 = r4
    r5 = r5
    r6 = r6
    q1 = q1
    q2 = q2
    Users = {u1, u2}
    Admins = {}
    Subs <- MCSubs
    StartNumber <- FromOne
    Years = {1}
    NoRow = NoRow
    Docs <- StoredDocs
    Runs = {r3}
    RunBy <- MCUser
    RunFor <- MCUser
    Size <- MCSize
    ChunkSize = 2
    MaxAttempts <- MCAttempts
    Lossy = {}
    Deletes = {q1}
    DeleteBy <- ByOwner
    DeleteKind <- InBatch
    Editors = {u2}
    NoNumber = NoNumber
    MaxSeq = 4
CHECK_DEADLOCK FALSE
PROPERTY AcceptedStays
