SPECIFICATION Spec
CONSTANTS
    Disk <- CardsFull
    Files <- Holds
    Names <- MCNames
    Chain <- TheChains
    DirChain <- TheDirChains
    SectorSize <- SecSize
    FatPerSector <- PerSector
    Fat12Limit = 4
    Fat16Limit = 8
    EndMark <- End
    MaxCount = 4
    Flaky <- NoFlaky
    Swaps = FALSE
PROPERTY OpenFindsFile
CHECK_DEADLOCK FALSE
