CONSTANTS
    Firmwares <- MCFirmwares
    FaultSets <- LateFaultSets
    Platforms = {"windows"}
    MinAppLen = 2
    MaxPacketLen = 2
    LenMod = 8
    MaxAttempts = 3
    SendTimeout = 1
    MaxNoise = 2
SPECIFICATION Spec
INVARIANT SuccessMeansInstalled
