SPECIFICATION Spec
CONSTANTS
    GroupBits = 3
    VarintBytes = 4
    Fixed32 = 3
    Fixed64 = 5
    CrcPoly = 3841
    MaskShift = 5
    MaskDelta = 2602
    Keys <- LogKeys
    Values <- LogValues
    Gone = Gone
    MaxOps = 2
    MaxAppends = 2
    MaxTears = 1
INVARIANTS
    TypeOK
    RecoversLogged
    LoggedIsReplayed
    DamageEndsReplay
