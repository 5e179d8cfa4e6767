SPECIFICATION FairWireSpec
CONSTANTS
    Sizes <- ThreeLines
    MaxTransfer = 2
    Room = 3
    MaxRead = 3
    Writers = {"server", "client"}
INVARIANT WireTypeOK
INVARIANT OwnBytesInOrder
PROPERTY ImplementsLineStream
PROPERTY LinesArrive
PROPERTY WritesEnd
CHECK_DEADLOCK FALSE
