\* The front end composed with LogdWrite's contract: framing and the
\* security gate over every API entry.  abort() ends the process, after
\* which no thread runs: such states are final, not deadlocks.
CONSTANTS
    t1 = t1
    t2 = t2
    Threads <- MCThreads
    CallBufs <- MCCallBufs
    MaxCalls = 2
    MaxTagSets = 1
    QueueCap = 1
    MaxCrashes = 1
    DropHalf = 1
SPECIFICATION Spec
INVARIANT TagLive
SYMMETRY MCSymmetry
CHECK_DEADLOCK FALSE
