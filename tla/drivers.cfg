SPECIFICATION Spec
CONSTANTS
    SetUps <- MCSetUps
    PacketSize = 2
    Sizes = {2, 3}
    ByteMod = 3
    Blocks = {"first", "second"}
    Polls = 2
INVARIANTS SentInOrder BlockIsTheOneAsked
PROPERTIES OutIsAPipe BulkDelivers RequestsReturn
CHECK_DEADLOCK FALSE
