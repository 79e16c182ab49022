---------------------------- MODULE LoginLimiter ----------------------------
(***************************************************************************)
(* Failed logins of one address and name, counted in Redis                 *)
(* (pkg/auth/login_limiter.go).  The count is read before the credentials  *)
(* are compared and raised afterwards, and its lifetime is given to it by  *)
(* a call of its own.                                                      *)
(***************************************************************************)
EXTENDS Integers, FiniteSets

CONSTANTS
    Attempt,    \* login requests under way at a time, all of one address and name
    MaxFails    \* loginMaxFails

ASSUME LoginAssumption == MaxFails \in Nat \ {0} /\ IsFiniteSet(Attempt)

VARIABLES
    fails,      \* the count; 0 is no key
    ttl,        \* the lifetime of the key
    att,        \* att[a]: where a login stands
    lost        \* whether an EXPIRE was ever lost (history)

limiterVars == <<fails, ttl, att, lost>>

LimiterType ==
    /\ fails \in Nat /\ ttl \in {"none", "window"} /\ lost \in {"never", "once"}
    /\ att \in [Attempt -> {"idle", "allowed", "counted", "key", "password", "cleared"}]

LimiterInit ==
    /\ fails = 0 /\ ttl = "none" /\ lost = "never"
    /\ att = [a \in Attempt |-> "idle"]

To(a, at) == att' = [att EXCEPT ![a] = at]

\* Mutant of Allowed: one failure too many.
AllowedOneMore == fails <= MaxFails

Allowed == fails < MaxFails

CheckLoginAllowed(a) ==
    /\ att[a] = "idle" /\ Allowed
    /\ To(a, "allowed") /\ UNCHANGED <<fails, ttl, lost>>

\* RecordLoginFail: INCR, and the first one goes on to EXPIRE.
Incr(a) ==
    /\ att[a] = "allowed"
    /\ fails' = fails + 1
    /\ \/ fails = 0 /\ To(a, "counted")
       \/ fails # 0 /\ To(a, "idle")
    /\ UNCHANGED <<ttl, lost>>

\* Redis does not answer: the failure is not counted.
IncrLost(a) ==
    /\ att[a] = "allowed"
    /\ To(a, "idle") /\ UNCHANGED <<fails, ttl, lost>>

\* Mutant of Expire: the call is made and has no effect.
ExpireNot(a) ==
    /\ att[a] = "counted"
    /\ To(a, "idle") /\ UNCHANGED <<fails, ttl, lost>>

Expire(a) ==
    /\ att[a] = "counted"
    /\ \/ fails # 0 /\ ttl' = "window"
       \/ fails = 0 /\ UNCHANGED ttl
    /\ To(a, "idle") /\ UNCHANGED <<fails, lost>>

\* The connection to Redis or the process is lost between the two.
ExpireLost(a) ==
    /\ att[a] = "counted"
    /\ lost' = "once"
    /\ To(a, "idle") /\ UNCHANGED <<fails, ttl>>

\* The credentials are right.  With a key the token is signed before the failures are
\* cleared, with a name and a password after.
Accepts(a, how) ==
    /\ att[a] = "allowed"
    /\ To(a, how) /\ UNCHANGED <<fails, ttl, lost>>

\* The error of the DEL is ignored.
ClearLoginFails(a) ==
    /\ \/ fails' = 0 /\ ttl' = "none"
       \/ UNCHANGED <<fails, ttl>>
    /\ \/ att[a] = "key" /\ To(a, "idle")
       \/ att[a] = "password" /\ To(a, "cleared")
    /\ UNCHANGED lost

Answers(a) ==
    /\ att[a] = "cleared"
    /\ To(a, "idle") /\ UNCHANGED <<fails, ttl, lost>>

\* The window ends.
Expires ==
    /\ ttl = "window"
    /\ fails' = 0 /\ ttl' = "none"
    /\ UNCHANGED <<att, lost>>

LimiterNext ==
    \/ \E a \in Attempt :
          \/ CheckLoginAllowed(a) \/ Incr(a) \/ IncrLost(a) \/ Expire(a) \/ ExpireLost(a)
          \/ Accepts(a, "key") \/ Accepts(a, "password") \/ ClearLoginFails(a) \/ Answers(a)
    \/ Expires

LimiterSpec == LimiterInit /\ [][LimiterNext]_limiterVars

-----------------------------------------------------------------------------
\* Requests that were let in together can each fail: the count passes the limit by
\* as many as there are besides the last.
FailsBounded ==
    fails + Cardinality({a \in Attempt : att[a] = "allowed"}) < MaxFails + Cardinality(Attempt)

\* A count without a lifetime is about to get one, or its EXPIRE was lost.
LockHasEnd ==
    fails > 0 /\ ttl = "none" => lost = "once" \/ \E a \in Attempt : att[a] = "counted"

=============================================================================
