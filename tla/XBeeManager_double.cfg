SPECIFICATION Spec
CONSTANTS
    Nodes = {n1}
    Sleepy = {n1}
    SkipList = {}
    Workers = {w1, w2}
    Scheduler = sched
    Slots = {s1, s2}
    Blocks = 1
    MayLeave = {}
    MayStop = FALSE
    None = none
CHECK_DEADLOCK FALSE
INVARIANTS
    OneWorkerPerNode
