SPECIFICATION FairSpec
CONSTANTS
    Nodes = {n1}
    Sleepy = {n1}
    SkipList = {}
    Workers = {w1}
    Scheduler = sched
    Slots = {s1, s2}
    Blocks = 2
    MayLeave = {n1}
    MayStop = TRUE
    None = none
CHECK_DEADLOCK FALSE
INVARIANTS
    NodeNotForgotten
    HandleIsCurrent
    ConfiguredInFull
PROPERTIES
    EventuallyRunning
    StopEndsWorkers
