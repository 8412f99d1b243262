SPECIFICATION MCReaderSpec
CONSTANTS
    Keys = {1, 2}
    a = a
    b = b
    Values = {a, b}
    Tombstone = Tombstone
    Torn = Torn
    End = End
    Batches <- MCBatches
    BatchBytes <- MCBatchBytes
    MaxWrites = 3
    MaxFaults = 1
    MaxMoves = 4
    kMaxLevels = 3
    MaxFile = 5
    MemtableFlushBytes = 1
    L0CompactionTrigger = 2
    Level1TargetBytes = 1
    LevelSizeMultiplier = 2
    BackgroundCompaction = FALSE
    DbPaths = {0}
    MaxWal = 3
INVARIANTS
    ReaderTypeOK
    ScanAgreesWithGet
    ScanIsComplete
