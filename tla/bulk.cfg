SPECIFICATION MCSpec
CONSTANTS
    u1 = u1
    u2 = u2
    u3 = u3
    r1 = r1
    r2 = r2
    r3 = r3
    r4 = r4
    r5 = r5
    r6 = r6
    q1 = q1
    q2 = q2
    Users = {u1, u2, u3}
    Admins = {}
    Subs <- MCSubs
    StartNumber <- FromOne
    Years = {1, 2}
    NoRow = NoRow
    Docs <- MCDocs
    Runs = {r1, r2, r3, r4, r5, r6}
    RunBy <- MCUser
    RunFor <- MCUser
    Size <- MCSize
    ChunkSize = 2
    MaxAttempts <- MCAttempts
    Lossy = {r1, r4}
    Deletes = {q1, q2}
    DeleteBy <- BothDelete
    DeleteKind <- OneAndBatch
    Editors = {u2}
    NoNumber = NoNumber
    MaxSeq = 4
INVARIANTS TypeOK PoolIsFree OwedOnce OneHolder CounterPassed NoGaps AllSettled
PROPERTIES RunsFinish
CHECK_DEADLOCK FALSE
