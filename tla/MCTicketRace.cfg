CONSTANTS
    Thread = {th1}
    Agent = {a1}
    NoAgent = NoAgent
    Admin = {}
    InPool = {}
    Priority = {0}
    MaxConc = 1
    Req = {r1, r2}
    MaxTickets = 2
    CountCap = 1
SYMMETRY MCSymmetry
SPECIFICATION Spec
INVARIANT
    TypeOK

    
CHECK_DEADLOCK FALSE
