\* The observer's count against the number of channels.
SPECIFICATION Spec
CONSTANTS
    Sockets = {s1, s2}
    Names = {n1}
    Presence = {}
    Cache = {}
    Objects = {o1, o2, o3}
    MaxChannels = 1
    None = None
SYMMETRY Symmetry
INVARIANT CountIsLive
