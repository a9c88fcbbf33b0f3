CONSTANTS
    g1 = g1
    g2 = g2
    Columns = 2
    Empty = Empty
    File <- MCFile
    Transports = {"local", "http"}
    BufferSize = 2
    MaxRetries = 3
    MaxFaults = 3
    MaxMessages = 3
SPECIFICATION FairSpec
CHECK_DEADLOCK FALSE
INVARIANTS WholeFileInOrder CopiesAccountedFor ExactlyOnceInOrder
PROPERTIES EveryRecordPublished 
