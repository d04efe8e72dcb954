CONSTANTS
    NofUsers = 3
    PrbMaxs = {8, 15, 50, 75}
    SlicePrbs = {1, 2, 3, 4, 5, 6, 7, 8, 9}
    MaxReq = 8
    Word = 256
    Exp <- Exponentials
SPECIFICATION Spec
INVARIANTS
    TypeOK
    WithinSlice
    WaterLevel
    NothingLeftOver
PROPERTIES
    Ends
CHECK_DEADLOCK FALSE
