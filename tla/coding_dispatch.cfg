CONSTANTS
    r1 = r1
    r2 = r2
    r3 = r3
    w1 = w1
    w2 = w2
    NoOne = NoOne
    Requests <- MCRequests
    Workers <- MCWorkers
    MaxCopies = 2
    MaxLateCopies = 1
    MaxOutages = 1
SPECIFICATION FairSpec
INVARIANTS SubmittedOnce OneExecution FencedOutcome NoResultAfterCancel
PROPERTIES ImplementsAdmission NoTakeover QueuedRunEnds
CHECK_DEADLOCK FALSE
