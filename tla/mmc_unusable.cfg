SPECIFICATION Spec
CONSTANTS
    Kinds <- MCKinds
    Rcas <- MCRcas
    BlockLen = 512
    CardBlocks = 4096
    LastTry = TRUE
    Tries = 2
    Retries = 3
    Starts <- MCStarts
    MaxCount = 2
    MaxFaults = 2
    MaxSwaps = 2
PROPERTY UnusableIsNotUsed
CHECK_DEADLOCK FALSE
