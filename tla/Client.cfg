\* A page, the browser, the network and the server.
SPECIFICATION FairSpec
CONSTANTS
    g = g
    p = p
    Names = {g, p}
    Guarded = {g}
    MaxSockets = 4
    MaxCalls = 4
    Bounds <- MCBounds
    None = None
INVARIANTS OneConnection PageAgrees
PROPERTY ConnectionsSettle
CHECK_DEADLOCK FALSE
