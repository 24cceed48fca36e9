CONSTANTS
    Radix = 5
    stdWriterPrefixLen = 3
    ReadSize = 2
    Wires <- MCWires
SPECIFICATION Spec
CHECK_DEADLOCK FALSE
INVARIANTS TypeOK NothingLost RoomToRead
PROPERTIES Delivers Terminates
