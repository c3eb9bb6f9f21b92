SPECIFICATION Spec
CONSTANTS
    Frames <- TrailingFrames
    MaxFrames = 2
PROPERTY FramesKeepFlowing
CHECK_DEADLOCK FALSE
