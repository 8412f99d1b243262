SPECIFICATION Spec
CONSTANTS
    GroupBits = 3
    VarintBytes = 3
    Fixed32 = 2
    Fixed64 = 3
    CrcPoly = 140
    MaskShift = 3
    MaskDelta = 165
    Ranges <- ManifestRanges
    Sizes = {4095}
    kMaxLevels = 2
    kManifestMagic = 1069
    Absent = Absent
    MaxFiles = 2
    MaxNumber = 3
INVARIANTS
    TypeOK
    LoadsLastSave
    DamageIsRefused
