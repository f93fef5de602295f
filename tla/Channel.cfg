SPECIFICATION Spec
CONSTANTS
    ana = ana
    bia = bia
    a1 = a1
    a2 = a2
    b1 = b1
    p = p
    q = q
    Sockets = {a1, a2, b1}
    Publishers = {p, q}
    Offers <- MCOffers
    Channels <- MCChannels
    NoMember = NoMember
    None = None
INVARIANTS MembersTold StateReachesAll
CHECK_DEADLOCK FALSE
