CONSTANTS
    d1 = d1
    w1 = w1
    w2 = w2
    Docs <- MCDocs
    Workers <- MCWorkers
    MaxCopies = 2
    Bound = 1
    Margin = 1
    Stale = 2
    BatchLimit = 1
    MaxKills = 2
    MaxClaims = 2
SPECIFICATION FairSpec
INVARIANTS LiveNotStolen OneEmbedPerTask
PROPERTIES NoLateWriter ProcessingResolves
CHECK_DEADLOCK FALSE
