SPECIFICATION Spec
CONSTANTS
    Frames <- AllFrames
    MaxFrames = 3
INVARIANTS
    UsageReportedPerMessage
    LimitReportedOnce
PROPERTIES
    TunnelEnds
CHECK_DEADLOCK FALSE
