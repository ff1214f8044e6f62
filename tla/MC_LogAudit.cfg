CONSTANTS
    b1 = b1
    b2 = b2
    Bugs <- MCBugs
    MaxNetlink = 1
    MaxKernel = 1
    MaxCrashes = 1
SYMMETRY MCSymmetry
SPECIFICATION Spec
INVARIANTS
    LogPrintResult
CHECK_DEADLOCK FALSE
