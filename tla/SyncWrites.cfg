SPECIFICATION Spec
CONSTANTS
    w1 = w1
    w2 = w2
    w3 = w3
    Writes = {w1, w2, w3}
    Damaged = Damaged
    MaxTables = 2
INVARIANTS
    SyncedRecovered
