SPECIFICATION FairSpec
CONSTANTS
    Receivers = {r1}
    Uploader = up
    Others = {o1}
    MaxSample = 2
    Threshold = 2
    MemoryLimit = 1
    UploadLimit = 1
    FileCount = 2
    MaxRecover = 1
    MaxSnapshots = 1
    MaxFaults = 1
    NoFile = nofile
CHECK_DEADLOCK FALSE
INVARIANTS
    TypeOK
    NoSampleAstray
    ConfirmedOnce
PROPERTIES
    OverwrittenForCause
    MemoryLeaves
