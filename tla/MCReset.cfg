CONSTANTS
    m1 = m1
    m2 = m2
    m3 = m3
    p1 = p1
    p2 = p2
    Menu = {m1, m2, m3}
    Builtin = {m1, m2}
    Business = {m1, m2, m3}
    Perm = {p1, p2}
    NoPerm = NoPerm
    PermOf <- MCPermOf
    Top = Top
    Home <- MCHome
    Never = Never
    Gone = Gone
    MaxRoles = 4
    User = {u1}
    Name = {n1, n2}
    Staff = {p1}
    Req = {w1}
    Reader = {g1}
    MaxChanges = 2
SPECIFICATION Spec
INVARIANT
    ResetSucceeds
CHECK_DEADLOCK FALSE
