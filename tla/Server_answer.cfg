\* One socket whose client may fall behind, and answer the close that ends it.
SPECIFICATION Spec
CONSTANTS
    Sockets = {s1}
    Tenants = {t1}
    TenantOf <- OneTenant
    Subjects = {u1}
    SubjectOf <- OneSubject
    Callers = {c1}
    MaxConnections = 1
    OutboundQueue = 1
    None = None
INVARIANT AnswerIsNotHangingUp
