CONSTANTS
    Inputs <- MCInputs
    MaxTime = 2
    MaxDelay = 0
    HubTimeMod = 3
    HubStart = 2
    HostSpan = 2
    Sensors = {raw}
    MaxResets = 1
SPECIFICATION FairSpec
INVARIANTS
    TypeOK
    CallbacksAlive
    CleanEnd
    WheelReports
 
