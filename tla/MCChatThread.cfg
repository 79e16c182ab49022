CONSTANTS
    Handler = {http, s1, s2}
    Stream = {s1, s2}
    Desk = {admin}
    MaxMsgs = 2
    MaxTickets = 2
SPECIFICATION FairSpec
INVARIANTS
    TypeOK
    LockExact
    EachFindsAMessage
PROPERTIES
    NoSecondRequest
    Finishes
CHECK_DEADLOCK FALSE
