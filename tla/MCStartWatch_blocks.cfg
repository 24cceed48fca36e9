CONSTANTS
    MaxLogLines = 1
    MaxFrames = 2
    Frames <- MCFewFrames
SPECIFICATION Spec
CHECK_DEADLOCK FALSE
PROPERTY ExitCodeUnblocks
