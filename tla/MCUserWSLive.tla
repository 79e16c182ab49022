---------------------------- MODULE MCUserWSLive ----------------------------
(***************************************************************************)
(* One user with two windows that displace each other, while a goroutine   *)
(* pushes messages to the user.                                            *)
(***************************************************************************)
EXTENDS UserWS, TLC

CONSTANTS u1, t1, w1, w2, i1, c1, c2, p1

MCTenantOf == u1 :> t1
MCUserOf == w1 :> u1 @@ w2 :> u1
MCIPOf == w1 :> i1 @@ w2 :> i1
MCQuota == t1 :> 0
MCOwner == c1 :> w1 @@ c2 :> w2

=============================================================================
