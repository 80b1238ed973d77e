CONSTANTS
    Firmwares <- MCFirmwares
    FaultSets <- MCFaultSets
    MinAppLen = 8
    BlockWords = 2
    OffsetMod = 8
    DfuTimeout = 2
    MaxRestarts = 2
SPECIFICATION FairSpec
INVARIANTS
    TypeOK
    NoNesting
    OffsetsMatch
PROPERTIES
    StateNeverGoesBack
    Implements
    Terminates
    CompletesWhenHealthy
