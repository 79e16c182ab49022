CONSTANTS
    u1 = u1
    t1 = t1
    w1 = w1
    w2 = w2
    i1 = i1
    c1 = c1
    c2 = c2
    p1 = p1
    NoTenant = NoTenant
    NoConn = NoConn
    User = {u1}
    Tenant = {t1}
    Window = {w1, w2}
    IP = {i1}
    Conn = {c1, c2}
    Pusher = {p1}
    MaxConnsPerIP = 3
    MaxConnsPerUser = 2
    SendCap = 2
    TenantOf <- MCTenantOf
    UserOf <- MCUserOf
    Owner <- MCOwner
    IPOf <- MCIPOf
    Quota <- MCQuota
SPECIFICATION FairSpec
INVARIANT
    TypeOK
PROPERTIES
    Releases
    
CHECK_DEADLOCK FALSE
