\* One socket, a queue of two and two callers in Send.
SPECIFICATION FairSpec
CONSTANTS
    Sockets = {s1}
    Tenants = {t1}
    TenantOf <- OneTenant
    Subjects = {u1}
    SubjectOf <- OneSubject
    Callers = {c1, c2}
    MaxConnections = 1
    OutboundQueue = 2
    None = None
INVARIANTS ReasonTrue FlushedBeforeGoodbye
PROPERTY GoroutinesEnd
