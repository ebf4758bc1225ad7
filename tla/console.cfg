SPECIFICATION Spec
CONSTANTS
    Sends <- MCSends
    MaxCmdLen = 4
    HstDep = 2
    MaxCmdArg = 1
    MaxArgLen = 2
    Commands <- MCCommands
INVARIANTS TypeOK RingHoldsEntered RunsWhatWasEntered
PROPERTIES EditsALine DraftKeptFromEnd
CHECK_DEADLOCK FALSE
