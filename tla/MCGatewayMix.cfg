CONSTANTS
    g1 = g1
    Gpu = {g1}
    Instant = {2, 3}
    Record <- MCRecord
    None = None
    MaxRecords = 2
    EvictShare = 2
    MaxSaves = 1
    Second = 2
    Req = {r1, r2}
    Query <- MCQuery
    Context = {x1}
    MaxFaults = 0
SPECIFICATION Spec
CHECK_DEADLOCK FALSE
INVARIANTS AnswersAreOwn
