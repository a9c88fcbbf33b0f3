CONSTANTS
    m1 = m1
    m2 = m2
    m3 = m3
    c1 = c1
    c2 = c2
    g1 = g1
    g2 = g2
    Message = {m1, m2, m3}
    Consumer = {c1}
    Gpu = {g1}
    None = None
    GpuOf <- MCGpuOf
    Valid = {m1, m2}
    BatchSize = 2
    ForeignKeys = TRUE
    MaxFaults = 2
    MaxInbox = 1
SPECIFICATION FairSpec
CHECK_DEADLOCK FALSE
INVARIANTS TypeOK AckedIsStored NothingTakenIsAbandoned BatchesDoNotMix
PROPERTIES TakenIsAttempted StopReturns
