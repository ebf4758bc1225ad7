SPECIFICATION FairSpec
CONSTANTS
    Kinds <- MCKinds
    Rcas <- MCRcas
    BlockLen = 512
    CardBlocks = 4096
    LastTry = FALSE
    Tries = 2
    Retries = 3
    Starts <- MCStarts
    MaxCount = 2
    MaxFaults = 2
    MaxSwaps = 2
INVARIANTS TypeOK ReadyMeansSelected AddressUnitsAgree DataWidthsAgree
PROPERTIES IsABlockDevice EveryCallReturns
CHECK_DEADLOCK FALSE
