SPECIFICATION FairSpec
CONSTANTS
    Clients = {c1, c2}
    Worker = w
    Timers = {t1, t2}
    Stops = {s1}
    Delays = {0, 2}
    MaxTime = 2
    NoEvent = none
CHECK_DEADLOCK FALSE
INVARIANTS
    TypeOK
    NoStrandedEvent
    NeverOversleeps
PROPERTIES
    ImplementsAgenda
    EventuallyServed
    StopEndsThread
