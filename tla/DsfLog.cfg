CONSTANTS
    FaultSets <- MCFaultSets
    Sensors = {accelerometer, gyroscope}
    SeqMod = 3
    MaxCount = 7
    MaxResets = 1
    MaxRecords = 6
SPECIFICATION Spec
INVARIANTS
    TypeOK
    DescribedBefore
    IdsCount
CHECK_DEADLOCK FALSE
