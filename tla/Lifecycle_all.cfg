SPECIFICATION FairSpec
CONSTANTS
    Main = main_thread
    Appliers = {applier}
    Enum = enum_thread
    loggers = loggers
    devices = devices
    presentations = presentations
    l = l
    e = e
    a = a
    x = x
    p = p
    addr = addr
    NoAddress = no_address
    Nobody = nobody
    LoggingManager = loggers
    DeviceManager = devices
    PresentationManager = presentations
    Boot <- MCBoot
    Listed <- MCListed
    ManagerOf <- MCManagerOf
    Address <- MCAddress
    Autoenum = e
    Sources = {a, x}
    Stubborn = {a}
    MaxCopies = 2
    MaxList = 3
CHECK_DEADLOCK FALSE
INVARIANTS
    TypeOK
    StrayForCause
    ConfiguredStays
PROPERTIES
    ShutdownEnds
