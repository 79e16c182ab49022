------------------------------- MODULE MCAuth -------------------------------
EXTENDS Auth, TLC

CONSTANTS r1, r2, a1, a2

MCReq == {r1, r2}
MCAttempt == {a1, a2}
Symmetric == Permutations(MCReq) \cup Permutations(MCAttempt)

-----------------------------------------------------------------------------
\* Bounds: the count of failures has nothing to do with tenants, tokens and the clock, so
\* logins fail only where these are as at the start; a second token is a refreshed one, and
\* the clock starts with the first.
LoginsAlone == changes = 0 /\ now = 0 /\ tokens = <<>>
OneLogin ==
    /\ fails = 0 /\ lost = "never"
    /\ \A a, b \in Attempt : att[a] = "idle" \/ att[b] = "idle" \/ a = b
    /\ tokens # <<>> => \A a \in Attempt : att[a] \in {"idle", "key"}
    /\ now > 0 => tokens # <<>> /\ \A a \in Attempt : att[a] = "idle"
MCBounded == (LoginsAlone \/ OneLogin)'
=============================================================================
