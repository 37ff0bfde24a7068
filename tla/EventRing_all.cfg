SPECIFICATION FairSpec
CONSTANTS
    HeaderSize = 2
    Size = 12
    SampleLengths = {3, 4}
    DumpLengths = {3}
    QueueDepth = 3
    MaxRecord = 7
    Torn = TRUE
CHECK_DEADLOCK FALSE
INVARIANTS
    ChainIntact
    IndexExact
    ScanAgrees
PROPERTIES
    JournalSpec
    WriteEnds
