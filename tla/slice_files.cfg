CONSTANTS
    NofSlices = 3
    NofRbgs = 5
    MaxRbg = 4
    CellRbgs = 4
    MaxLines = 2
    Callers = {1, 2}
    MaxCalls = 2
    Wants = {1, 3}
    TenantNums = {2, 3}
    Allocs <- SomeAllocs
    Bits <- SomeBits
    Rows <- SomeRows
    InitFiles <- SomeFiles
    Missing = Missing
    Empty = Empty
    Off = Off
SPECIFICATION Spec
INVARIANTS
    TypeOK
    QuietDisjoint
PROPERTIES
    TakesNothingHeld
    SizesAsAsked
    NeverTorn
    MasksTakeEffect
CHECK_DEADLOCK FALSE
