CONSTANTS
    g1 = g1
    Gpu = {g1}
    Instant = {2, 3}
    Record <- MCRecord
    None = None
    MaxRecords = 1
    EvictShare = 2
    MaxSaves = 2
    Second = 2
    Req = {r1, r2}
    Query <- MCQuery
    Context = {x1}
    MaxFaults = 1
SPECIFICATION FairSpec
CHECK_DEADLOCK FALSE
INVARIANTS  AnswerComplete
PROPERTIES RequestsEnd
