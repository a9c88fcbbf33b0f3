CONSTANTS
    m1 = m1
    m2 = m2
    s1 = s1
    s2 = s2
    c1 = c1
    c2 = c2
    Message = {m1}
    Sub = {s1}
    Consumer = {c1, c2}
    None = None
    IdOf <- MCOwnId
    ConsumerOf <- MCOneConsumer
    BufferSize = 1
    PendingFactor = 1
    MaxRetries = 1
SPECIFICATION Spec
CHECK_DEADLOCK FALSE
INVARIANTS
    PublishNeverPanics
