SPECIFICATION FairSpec
CONSTANTS
    Processes = {p1, p2, p3}
    Kinds = {"socket", "library", "exclusive", "stat"}
    Volatile = TRUE
    OpenFaults = TRUE
    WriteFaults = TRUE
    RemoveFaults = TRUE
    Kills = TRUE
    Nobody = nobody
    Missing = missing
INVARIANTS
    TypeOK
    SingleUnlessRobbed
PROPERTIES
    RefusedForCause
    LockComesFree
