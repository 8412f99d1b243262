SPECIFICATION MCSpec
CONSTANTS
    Keys = {1, 2}
    a = a
    b = b
    Values = {a, b}
    Tombstone = Tombstone
    Torn = Torn
    Batches <- MCBatches
    BatchBytes <- MCBatchBytes
    MaxWrites = 3
    MaxFaults = 2
    kMaxLevels = 3
    MaxFile = 5
    MemtableFlushBytes = 2
    L0CompactionTrigger = 2
    Level1TargetBytes = 1
    LevelSizeMultiplier = 2
    BackgroundCompaction = FALSE
    DbPaths = {0}
    MaxWal = 3
INVARIANTS
    SurvivesFailedOpen
