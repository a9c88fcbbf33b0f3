CONSTANTS
    m1 = m1
    m2 = m2
    c1 = c1
    c2 = c2
    s1 = s1
    s2 = s2
    s3 = s3
    g1 = g1
    Message = {m1, m2}
    Sub = {s1, s2}
    Consumer = {c1}
    None = None
    ConsumerOf <- MCOneConsumer
    Gpu = {g1}
    GpuOf <- MCGpuOf
    Valid = {m1}
    BatchSize = 1
    ForeignKeys = FALSE
    MaxFaults = 1
    MaxInbox = 1
SPECIFICATION FairSpec
CHECK_DEADLOCK FALSE
PROPERTIES EveryMessageIsStored
