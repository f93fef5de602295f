SPECIFICATION FairSpec
CONSTANTS
    acme = acme
    globex = globex
    news = news
    room = room
    misnamed = misnamed
    a1 = a1
    a2 = a2
    g1 = g1
    app = app
    guest = guest
    Requests = {r1}
    Inputs <- MCInputs
    Tenants = {acme, globex}
    Requested = {news, room, misnamed}
    Kind <- MCKind
    Sockets = {a1, a2, g1}
    Owner <- MCOwner
    Subjects = {app, guest}
    Operators = {app}
    Readable <- MCReadable
    ClientEvents = TRUE
    MaxChanges = 2
    None = None
INVARIANTS SuccessReachesAll HeardByRight
PROPERTY EveryoneAnswered
CHECK_DEADLOCK FALSE
