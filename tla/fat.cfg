SPECIFICATION FairSpec
CONSTANTS
    Disk <- CardsThree
    Files <- Holds
    Names <- MCNames
    Chain <- TheChains
    DirChain <- TheDirChains
    SectorSize <- SecSize
    FatPerSector <- PerSector
    Fat12Limit = 4
    Fat16Limit = 8
    EndMark <- End
    MaxCount = 9
    Flaky <- TheFlaky
    Swaps = FALSE
PROPERTIES ReadsLikeAFile OpenFindsFile AccountsForEveryByte EveryCallReturns
CHECK_DEADLOCK FALSE
