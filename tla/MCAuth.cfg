SPECIFICATION Spec
CONSTANTS
    r1 = r1
    r2 = r2
    a1 = a1
    a2 = a2
    Req <- MCReq
    Attempt <- MCAttempt
    Never = Never
    Gone = Gone
    MaxTenants = 2
    MaxChanges = 2
    MaxFails = 2
    Life = 1
    MaxTokens = 2
    MaxTime = 4
SYMMETRY Symmetric
ACTION_CONSTRAINT MCBounded
INVARIANTS
    TypeOK
    RuntimeExact
    
    OldSessionsEnd
    FailsBounded
    LockHasEnd
CHECK_DEADLOCK FALSE
