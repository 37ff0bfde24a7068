SPECIFICATION FairSpec
CONSTANTS
    Threads = {t1, t2}
    Names = {n1}
    Objects = {o1, o2}
    Plain = {}
    Followers = {}
    Wild = {w}
    Faulty = {w}
    Loggers = {g}
    Unlogged = {n1}
    NoObject = noobject
    NoName = noname
PROPERTIES
    SampleEventuallyHanded
