CONSTANTS
    Payloads <- MCPayloads
    Bsns <- MCBsns
    Noise = {0, 1, 125, 126}
    TxMax = 10
    RxMax = 5
    ClientLen = 4
    MaxFrames = 3
SPECIFICATION FrameSpec
INVARIANTS
    FrameTypeOK
    ReceivedAsSent
    InPhase
