\* Two sockets, a presence-cache channel and a public one, one channel each.
SPECIFICATION FairSpec
CONSTANTS
    Sockets = {s1, s2}
    Names = {n1, n2}
    Presence = {n1}
    Cache = {n1}
    Objects = {o1, o2, o3, o4}
    MaxChannels = 1
    None = None
INVARIANTS TypeOK NoOrphan AccountedFor NoGhost NoLeak JoiningExact NumbersBounded
PROPERTIES ImplementsAudience EverythingEnds
