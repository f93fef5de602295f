\* Two sockets of one tenant that may hold one.
SPECIFICATION Spec
CONSTANTS
    Sockets = {s1, s2}
    Tenants = {t1}
    TenantOf <- OneTenant
    Subjects = {u1}
    SubjectOf <- OneSubject
    Callers = {}
    MaxConnections = 1
    OutboundQueue = 1
    None = None
SYMMETRY SocketSymmetry
INVARIANTS RegistrySound ReasonsStand RefusalTold
