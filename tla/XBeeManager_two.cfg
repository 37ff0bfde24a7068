SPECIFICATION Spec
CONSTANTS
    Nodes = {n1, n2, n3}
    Sleepy = {}
    SkipList = {n3}
    Workers = {w1, w2}
    Scheduler = sched
    Slots = {s1, s2}
    Blocks = 1
    MayLeave = {}
    MayStop = FALSE
    None = none
SYMMETRY Interchangeable
CHECK_DEADLOCK FALSE
INVARIANTS
    WorkersAvailable
    SteadyNodeOneWorker
