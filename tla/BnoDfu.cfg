CONSTANTS
    Firmwares <- MCFirmwares
    FaultSets <- MCFaultSets
    Platforms = {"linux", "windows"}
    MinAppLen = 2
    MaxPacketLen = 2
    LenMod = 8
    MaxAttempts = 3
    SendTimeout = 1
    MaxNoise = 2
SPECIFICATION FairSpec
INVARIANTS
    TypeOK
    PromptSuccess
    PacketsInStep
PROPERTIES
    Implements
    Terminates
    OvercomesNoise
