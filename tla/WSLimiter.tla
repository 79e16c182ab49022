----------------------------- MODULE WSLimiter -----------------------------
(***************************************************************************)
(* The connection limiter of the gateway (go_service pkg/ws/limiter.go):   *)
(* two counters, one per client IP and one per user_id, taken together     *)
(* under one mutex when a chat socket is requested and given back together *)
(* when its handler returns.  Each method holds the mutex for its whole    *)
(* body, so each is one atomic step.                                       *)
(*                                                                         *)
(* An entry the code deletes from a map when it reaches zero is an entry   *)
(* with value 0 here: a Go map returns 0 for an absent key.                *)
(***************************************************************************)
EXTENDS Naturals, Tenancy

CONSTANTS
    IP,              \* client addresses
    MaxConnsPerIP,   \* 10 in NewWSLimiter
    MaxConnsPerUser  \* 3 in NewWSLimiter

ASSUME LimitsAssumption ==
    /\ MaxConnsPerIP \in Nat \ {0}
    /\ MaxConnsPerUser \in Nat \ {0}

VARIABLES
    ipConns,    \* ipConns[i]: connections held by address i
    userConns   \* userConns[u]: connections held by user u

limiterVars == <<ipConns, userConns>>

LimiterTypeOK ==
    /\ ipConns \in [IP -> Nat]
    /\ userConns \in [User -> Nat]

LimiterInit ==
    /\ ipConns = [i \in IP |-> 0]
    /\ userConns = [u \in User |-> 0]

\* Both quotas are tested before either counter moves.
TryAcquireConn(i, u) ==
    /\ ipConns[i] < MaxConnsPerIP
    /\ userConns[u] < MaxConnsPerUser
    /\ ipConns' = [ipConns EXCEPT ![i] = @ + 1]
    /\ userConns' = [userConns EXCEPT ![u] = @ + 1]

\* Counters stop at zero.
ReleaseConn(i, u) ==
    /\ ipConns' = [ipConns EXCEPT ![i] = IF @ > 0 THEN @ - 1 ELSE 0]
    /\ userConns' = [userConns EXCEPT ![u] = IF @ > 0 THEN @ - 1 ELSE 0]

=============================================================================
