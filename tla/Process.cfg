\* A second of 12 units: limits that divide it and that do not, none, and one too fine to meter.
SPECIFICATION MCSpec
CONSTANTS
    c1 = c1
    c2 = c2
    t = t
    u = u
    Requests = {r1, r2, r3}
    Clients = {c1, c2}
    Proxies = {t, u}
    Trusted = {t}
    Asks <- MCAsks
    Limit = 2
    Limits = {0, 1, 3, 5, 13}
    Second = 12
    MaxTime = 26
    MaxFrames = 20
INVARIANTS SlotsExact RateTypeOK NeverOverspent NeverShortChanged
PROPERTY ProcessEnds
CHECK_DEADLOCK FALSE
