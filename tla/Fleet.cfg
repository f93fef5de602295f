SPECIFICATION FairSpec
CONSTANTS
    a = a
    b = b
    c = c
    a1 = a1
    b1 = b1
    b2 = b2
    c1 = c1
    r1 = r1
    r2 = r2
    r3 = r3
    acme = acme
    globex = globex
    ana = ana
    bruno = bruno
    None = None
    Instances = {a, b, c}
    Sockets = {a1, b1, b2, c1}
    Requests = {r1, r2, r3}
    Home <- MCHome
    Tenant <- MCTenant
    User <- MCUser
    Asker <- MCAsker
    About <- MCAbout
    Route <- MCRoute
    Backlog = 1
    Bounds <- MCBounds
INVARIANT TallyTrue
PROPERTY QuestionsEnd
CHECK_DEADLOCK FALSE
