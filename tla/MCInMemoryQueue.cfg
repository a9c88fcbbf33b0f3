CONSTANTS
    m1 = m1
    m2 = m2
    s1 = s1
    s2 = s2
    c1 = c1
    c2 = c2
    Message = {m1, m2}
    Sub = {s1, s2}
    Consumer = {c1, c2}
    None = None
    IdOf <- MCOwnId
    ConsumerOf <- MCTwoConsumers
    BufferSize = 1
    PendingFactor = 1
    MaxRetries = 1
SPECIFICATION Spec
SYMMETRY MessageSymmetry
CHECK_DEADLOCK FALSE
INVARIANTS
    TypeOK
    Custody
    WorkQueue
    IndexInRange
    Bounded
    CloseIsQuiescent
PROPERTIES
    LeaseEndsProperly
PROPERTIES
    ImplementsLeaseQueue
