CONSTANTS
    u1 = u1
    u2 = u2
    t1 = t1
    w1 = w1
    w2 = w2
    w3 = w3
    i1 = i1
    c1 = c1
    c2 = c2
    c3 = c3
    c4 = c4
    NoTenant = NoTenant
    NoConn = NoConn
    User = {u1, u2}
    Tenant = {t1}
    Window = {w1, w2, w3}
    IP = {i1}
    Conn = {c1, c2, c3, c4}
    Pusher = {}
    MaxConnsPerIP = 3
    MaxConnsPerUser = 2
    SendCap = 1
    TenantOf <- MCTenantOf
    UserOf <- MCUserOf
    Owner <- MCOwner
    IPOf <- MCIPOf
    Quota <- MCQuota
SYMMETRY MCSymmetry
SPECIFICATION Spec
INVARIANTS
    TenantCountExact
    LimiterExact
    RegistryExact
PROPERTIES
    OvershootOnlyByRace
CHECK_DEADLOCK FALSE
