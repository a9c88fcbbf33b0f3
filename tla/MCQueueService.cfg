CONSTANTS
    c1 = c1
    r1 = r1
    m1 = m1
    m2 = m2
    Client = {c1}
    Request = {r1}
    Message = {m1, m2}
    SubRoom = 2
    ClientRoom = 1
    MaxFaults = 2
SPECIFICATION FairSpec
CHECK_DEADLOCK FALSE
INVARIANTS
    TypeOK
    QuietClose
    StreamFaithful
PROPERTIES
    SignalEndsProcess
    SubscriptionLives
