CONSTANTS
    FaultSets <- LateFaultSets
    Lens = {1, 3}
    Capacity = 3
    BsqDelay = 1
    MaxLosses = 1
    MaxLine = 2
SPECIFICATION Spec
INVARIANT NoOverflow
