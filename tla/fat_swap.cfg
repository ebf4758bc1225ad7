SPECIFICATION Spec
CONSTANTS
    Disk <- CardsSwapped
    Files <- Holds
    Names <- MCNames
    Chain <- TheChains
    DirChain <- TheDirChains
    SectorSize <- SecSize
    FatPerSector <- PerSector
    Fat12Limit = 4
    Fat16Limit = 8
    EndMark <- End
    MaxCount = 9
    Flaky <- NoFlaky
    Swaps = TRUE
INVARIANT BytesAreTheFiles
CHECK_DEADLOCK FALSE
