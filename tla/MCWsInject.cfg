SPECIFICATION Spec
CONSTANTS
    Frames <- MCFrames
    PlanType = "plus"
    Decode <- MCDecode
    Size <- MCSize
    ToolSize = 63
    MaxBytes = 65536
    MaxFrames = 5
INVARIANTS
    MessagesRelayed
    UpstreamStaysValid
    CutOffForSizeOnly
CHECK_DEADLOCK FALSE
