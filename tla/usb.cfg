SPECIFICATION FairSpec
CONSTANTS
    Requests <- MCRequests
    PacketSize = 2
    AbandonsIn = FALSE
    Descriptors <- MCDescriptors
    SlowStatus = FALSE
INVARIANTS HeardAtAddress DeviceStateAgrees
PROPERTIES DataIsTheAnswer RequestsEnd
CHECK_DEADLOCK FALSE
