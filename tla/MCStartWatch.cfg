CONSTANTS
    MaxLogLines = 2
    MaxFrames = 2
    Frames <- MCFrames
SPECIFICATION Spec
CHECK_DEADLOCK FALSE
INVARIANTS FirstMatchDecides RunIsAnswered
PROPERTIES Refines VerdictReached ResultEndsRun OutputEndsRun
