SPECIFICATION ReaderSpec
CONSTANTS
    HeaderSize = 2
    Size = 10
    SampleLengths = {2}
    DumpLengths = {2, 8}
    QueueDepth = 2
    MaxRecord = 6
    Torn = FALSE
    HalfIndex = 1
    Steps <- MCSteps
CHECK_DEADLOCK FALSE
INVARIANTS
    ReaderTypeOK
    LandsWhereAsked
    FoundUnlessWrapped
