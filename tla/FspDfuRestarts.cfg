CONSTANTS
    Firmwares <- OneBlock
    FaultSets <- RestartFaultSets
    MinAppLen = 8
    BlockWords = 2
    OffsetMod = 8
    DfuTimeout = 2
    MaxRestarts = 4
SPECIFICATION Spec
INVARIANT
    SuccessMeansInstalled
