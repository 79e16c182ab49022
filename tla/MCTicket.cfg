CONSTANTS
    Thread = {th1, th2}
    Agent = {a1, a2}
    NoAgent = NoAgent
    Admin = {}
    InPool = {a1, a2}
    Priority = {0, 1}
    MaxConc = 1
    Req = {r1, r2}
    MaxTickets = 2
    CountCap = 1
SYMMETRY MCSymmetry
CONSTRAINT MCNoClash
SPECIFICATION Spec
INVARIANTS
    CountExact
PROPERTIES
    AssignedWithinLimit
    FollowsLifecycle
    PriorityKept
CHECK_DEADLOCK FALSE
