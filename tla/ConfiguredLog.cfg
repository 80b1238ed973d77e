SPECIFICATION Spec
CONSTANTS
    Second = 1000
    Word = 4096
    Precision = 2048
    Steps <- MCSteps
    Inputs <- MCInputs
    Edits <- MCEdits
    Orientations <- MCOrientations
    Records <- MCRecords
    Attitudes <- MCAttitudes
    MaxSamples = 2
INVARIANTS
    TypeOK
    AsConfigured
    LogDescribes
    OneFrame
CHECK_DEADLOCK FALSE
