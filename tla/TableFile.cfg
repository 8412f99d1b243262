SPECIFICATION Spec
CONSTANTS
    GroupBits = 3
    VarintBytes = 3
    Fixed32 = 2
    Fixed64 = 2
    CrcPoly = 140
    MaskShift = 3
    MaskDelta = 165
    LowPart = 4
    HighPart = 4
    ByteBits = 4
    MinBits = 8
    MaxProbes = 30
    BitsPerKey = 3
    Keys <- TableKeys
    Values <- TableValues
    HashFunctions <- TableHashes
    kSSTableMagic = 219
    NotFound = NotFound
    Closed = Closed
INVARIANTS
    CutOffIsRefused
    TypeOK
    ReadsBack
    WholeIsOpened
CHECK_DEADLOCK FALSE
