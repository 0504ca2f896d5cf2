CONSTANTS
    c1 = c1
    m1 = m1
    r1 = r1
    r2 = r2
    w1 = w1
    w2 = w2
    Nothing = Nothing
    Convs <- MCConvs
    Media <- MCMedia
    Requests <- MCRequests
    Workers <- MCWorkers
    Files = 1
    MaxCopies = 2
    MaxLateCopies = 1
    MaxOutages = 2
SPECIFICATION FairSpec
INVARIANTS CompletedCovers CompletedHandedOff CountedOnce StoredOnce
PROPERTIES ImplementsLedger JobEnds
CHECK_DEADLOCK FALSE
