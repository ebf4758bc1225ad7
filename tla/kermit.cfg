SPECIFICATION FairSpec
CONSTANTS
    Byte <- MCByte
    Image <- MCImage
    Last <- MCLast
    PktType <- MCPktType
    Offset <- MCOffset
    FirstSeq = 60
    LineCap = 4
INVARIANTS StoredIsPrefix CompleteWhenDone AckedIsStored SenderDoneOnlyAfterBoard IInv
PROPERTIES Transfer TransferCompletes
CHECK_DEADLOCK FALSE
