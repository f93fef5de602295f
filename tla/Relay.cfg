SPECIFICATION FairSpec
CONSTANTS
    a = a
    b = b
    a1 = a1
    b1 = b1
    Instances = {a, b}
    Names = {orders}
    Sockets = {a1, b1}
    Home <- MCHome
    Objects = {o1, o2}
    Events = {e1}
    Bounds <- MCBounds
    None = None
INVARIANTS TopicsMatch ClosedIsQuiet
PROPERTIES ImplementsFanout RelayRecovers
CHECK_DEADLOCK FALSE
