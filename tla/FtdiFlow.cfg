CONSTANTS
    FaultSets <- MCFaultSets
    Lens = {1, 3}
    Capacity = 3
    BsqDelay = 1
    MaxLosses = 1
    MaxLine = 2
SPECIFICATION FairSpec
INVARIANTS
    TypeOK
    RoomIsKnown
PROPERTY EveryTransferEnds
