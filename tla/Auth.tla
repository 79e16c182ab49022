-------------------------------- MODULE Auth --------------------------------
(***************************************************************************)
(* Access tokens (pkg/auth/auth.go, handler/auth.go, middleware/auth.go):  *)
(* they are signed with the secret of their tenant, checked against the    *)
(* list of tenants this process holds, and thrown out before their time by *)
(* a blacklist in Redis.  Logins go through the limiter.                   *)
(***************************************************************************)
EXTENDS Tenants, LoginLimiter

CONSTANTS
    Life,       \* authTTL, in seconds
    MaxTokens,  \* bound: tokens issued
    MaxTime     \* bound on the clock

ASSUME AuthAssumption == Life \in Nat \ {0} /\ MaxTokens \in Nat /\ MaxTime \in Nat

VARIABLES
    now,        \* the clock, in half seconds
    tokens,     \* the tokens, in the order they were issued
    refreshing  \* a refresh that has checked the token with this number; 0 is none

authVars == <<rows, list, req, changes, loose, fails, ttl, att, lost, now, tokens, refreshing>>

\* root: the secret of the login a token comes from; black: the instant its entry in
\* the blacklist ends; out: it was logged out or exchanged and Redis took the entry;
\* mixed: the tenant's secret changed under the refresh that made it (history).
Token == [t : Tenant, key : Secret, exp : Nat, root : Secret, black : Nat, out : BOOLEAN, mixed : BOOLEAN]

Minute == 120

TypeOK ==
    /\ TenantsType /\ LimiterType
    /\ now \in 0..MaxTime /\ tokens \in Seq(Token) /\ Len(tokens) <= MaxTokens
    /\ refreshing \in 0..Len(tokens)

Init ==
    /\ TenantsInit /\ LimiterInit
    /\ now = 0 /\ tokens = <<>> /\ refreshing = 0

Seconds == now \div 2

-----------------------------------------------------------------------------
Signed(t, root, mixed) ==
    [t |-> t, key |-> TenantInfo(t).secret, exp |-> Seconds + Life, root |-> root,
     black |-> 0, out |-> FALSE, mixed |-> mixed]

Issues(ts, tok) == Len(ts) < MaxTokens /\ tokens' = Append(ts, tok)

\* Mutant of SignatureHolds: any signature will do.
SignatureHoldsAlways(i) == TRUE

SignatureHolds(i) == TenantInfo(tokens[i].t).secret = tokens[i].key

\* VerifyTokenFull.  Exp counts whole seconds and the last of them still passes.
Verified(i) ==
    /\ now >= tokens[i].black
    /\ tokens[i].exp >= Seconds
    /\ Found(tokens[i].t) /\ SignatureHolds(i)

\* Mutant of BlackUntil: the lifetime is given in whole seconds.
BlackUntilSeconds(i) == now + 2 * ((2 * tokens[i].exp - now) \div 2)

\* BlacklistToken: the entry lives to the instant Exp.
BlackUntil(i) == IF 2 * tokens[i].exp > now THEN 2 * tokens[i].exp ELSE now + Minute

\* Redis takes the entry, or the error is ignored.
Blacklisted(ts, i) == {[ts EXCEPT ![i].black = BlackUntil(i), ![i].out = TRUE], ts}

-----------------------------------------------------------------------------
(* IssueTokenHandler: the key is compared with the list. *)
IssueToken(a) ==
    \E t \in Tenant :
        /\ Found(t) /\ TenantInfo(t).on
        /\ Accepts(a, "key")
        /\ Issues(tokens, Signed(t, TenantInfo(t).secret, FALSE))
        /\ UNCHANGED <<tenantVars, now, refreshing>>

(* UserTokenHandler: the password is compared with the member's row. *)
ComparesPassword(a) ==
    /\ Accepts(a, "password") /\ UNCHANGED <<tenantVars, now, tokens, refreshing>>

IssueUserToken(a) ==
    \E t \in Tenant :
        /\ Found(t) /\ TenantInfo(t).on
        /\ Answers(a)
        /\ Issues(tokens, Signed(t, TenantInfo(t).secret, FALSE))
        /\ UNCHANGED <<tenantVars, now, refreshing>>

\* The tenant is disabled, or not in the list now.
IssueUserTokenRefused(a) ==
    /\ \E t \in Tenant : ~(Found(t) /\ TenantInfo(t).on)
    /\ Answers(a) /\ UNCHANGED <<tenantVars, now, tokens, refreshing>>

\* The rest of a login.
LoginSteps ==
    /\ \/ \E a \in Attempt :
             \/ CheckLoginAllowed(a) \/ Incr(a) \/ IncrLost(a) \/ Expire(a) \/ ExpireLost(a)
             \/ ClearLoginFails(a)
       \/ Expires
    /\ UNCHANGED <<tenantVars, now, tokens, refreshing>>

-----------------------------------------------------------------------------
(* RefreshToken: the old token is verified, the new one signed with the secret the  *)
(* list holds by then, and the old one blacklisted.                                 *)
VerifiesOld(i) ==
    /\ refreshing = 0 /\ Verified(i)
    /\ refreshing' = i /\ UNCHANGED <<tenantVars, limiterVars, now, tokens>>

RefreshToken ==
    /\ refreshing # 0
    /\ LET old == tokens[refreshing]
       IN  /\ Found(old.t)
           /\ \E ts \in Blacklisted(tokens, refreshing) :
                  Issues(ts, Signed(old.t, old.root, old.mixed \/ TenantInfo(old.t).secret # old.key))
    /\ refreshing' = 0 /\ UNCHANGED <<tenantVars, limiterVars, now>>

RefreshTokenFails ==
    /\ refreshing # 0 /\ ~Found(tokens[refreshing].t)
    /\ refreshing' = 0 /\ UNCHANGED <<tenantVars, limiterVars, now, tokens>>

LogoutHandler(i) ==
    /\ ~tokens[i].out
    /\ tokens' \in Blacklisted(tokens, i)
    /\ UNCHANGED <<tenantVars, limiterVars, now, refreshing>>

Tick ==
    /\ now < MaxTime /\ now' = now + 1
    /\ UNCHANGED <<tenantVars, limiterVars, tokens, refreshing>>

Manages == TenantsNext /\ UNCHANGED <<limiterVars, now, tokens, refreshing>>

Next ==
    \/ \E a \in Attempt :
          IssueToken(a) \/ ComparesPassword(a) \/ IssueUserToken(a) \/ IssueUserTokenRefused(a)
    \/ \E i \in DOMAIN tokens : VerifiesOld(i) \/ LogoutHandler(i)
    \/ LoginSteps \/ RefreshToken \/ RefreshTokenFails \/ Manages \/ Tick

Spec == Init /\ [][Next]_authVars

-----------------------------------------------------------------------------
\* A token that was logged out or exchanged is refused from then on, the last second of
\* its life aside: the entry ends with the instant Exp, the check with the second Exp.
LoggedOutStaysOut ==
    \A i \in DOMAIN tokens : tokens[i].out /\ Verified(i) => now >= 2 * tokens[i].exp

\* When the changes of the tenants are done, a token that is accepted comes from a login
\* with the secret its tenant has now, unless the secret changed under a refresh of it.
OldSessionsEnd ==
    Settled /\ ~loose =>
        \A i \in DOMAIN tokens :
            Verified(i) => tokens[i].mixed \/ tokens[i].root = rows[tokens[i].t].secret

=============================================================================
