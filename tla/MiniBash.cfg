\* Pipelines of up to three commands, pipes that hold one unit of two, one failing
\* call; sessions of two lines of two tokens and one Ctrl-C.
CONSTANTS
    MaxCmds = 3
    PipeSize = 1
    Volume = 2
    MaxFailures = 1
    MaxLines = 2
    MaxTokens = 2
    MaxInterrupts = 1
SPECIFICATION FairSpec
INVARIANTS WiredAsTyped NoStrayEnds NoEarlyEnd LineIsHandled
PROPERTIES LeavesForAReason Returns
CHECK_DEADLOCK FALSE
