SPECIFICATION Spec
CONSTANTS
    Sends <- MCSends
    MaxCmdLen = 3
    HstDep = 2
    MaxCmdArg = 2
    MaxArgLen = 8
    Commands <- NoCommands
INVARIANT LineFitsBuffer
CHECK_DEADLOCK FALSE
