CONSTANTS
    g1 = g1
    g2 = g2
    Gpu = {g1, g2}
    Instant = {3, 4, 6}
    Record <- MCRecord
    None = None
    MaxRecords = 3
    EvictShare = 2
    MaxSaves = 5
    Micro = 3
    MaxRestarts = 1
SPECIFICATION Spec
CHECK_DEADLOCK FALSE
INVARIANTS TypeOK KeepsTheNewest QueryExact LastSavedWins BackendsAgree
