SPECIFICATION Spec
CONSTANTS
    Threads = {t1, t2}
    Names = {n1}
    Objects = {o1, o2}
    Plain = {p}
    Followers = {f}
    Wild = {}
    Faulty = {f}
    Loggers = {g}
    Unlogged = {}
    NoObject = noobject
    NoName = noname
SYMMETRY Symmetry
INVARIANTS
    TypeOK
    NoLostSample
    FollowersMissNothing
    NewBeforeSamples
    PublishedOnceAdded
