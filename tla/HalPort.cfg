SPECIFICATION FairSpec
CONSTANTS
    Ports <- MCPorts
    RESET_DELAY = 3
    DFU_BOOT_DELAY = 1
    SH2_BOOT_DELAY = 2
    ResetTime = 3
    BootTime <- MCBootTime
    ClockMod = 6
    MaxLen = 2
    MaxRuns = 3
INVARIANTS
    TypeOK
    ModeAsAsked
    WrittenInOrder
PROPERTY
    CallsReturn
