CONSTANTS
    N = 3
    Ops <- AllOps
    Trees <- TwoTrees
    Files = {f, g}
    f = f
    g = g
    Threads = 2
    Old = Old
    Absent = Absent
    Empty = Empty
    Torn = Torn
    Unsafe = Unsafe
    NoLock = NoLock
SPECIFICATION FairSpec

PROPERTIES PullIsOneInstant PushLandsExactly RequestsEnd
CHECK_DEADLOCK FALSE
