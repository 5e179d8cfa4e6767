SPECIFICATION WireSpec
CONSTANTS
    Sizes <- ThreeLines
    MaxTransfer = 2
    Room = 3
    MaxRead = 3
    Writers = {"server"}
INVARIANT LinesArriveWhole
CHECK_DEADLOCK FALSE
