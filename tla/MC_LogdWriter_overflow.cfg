CONSTANTS
    t1 = t1
    t2 = t2
    Threads <- MCThreads
    MaxCalls = 3
    QueueCap = 1
    MaxCrashes = 1
    DropHalf = 2
SYMMETRY MCSymmetry
SPECIFICATION Spec
INVARIANT DropReportsPositive
