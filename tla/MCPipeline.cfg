CONSTANTS
    m1 = m1
    m2 = m2
    c1 = c1
    c2 = c2
    s1 = s1
    s2 = s2
    s3 = s3
    g1 = g1
    Message = {m1}
    Sub = {s1, s2, s3}
    Consumer = {c1, c2}
    None = None
    ConsumerOf <- MCTwoConsumers
    Gpu = {g1}
    GpuOf <- MCGpuOf
    Valid = {m1}
    BatchSize = 2
    ForeignKeys = FALSE
    MaxFaults = 1
    MaxInbox = 1
SPECIFICATION Spec
CHECK_DEADLOCK FALSE
INVARIANTS SettledIsStored OpenStreamIsFed
