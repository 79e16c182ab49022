------------------------------ MODULE MCUserWS ------------------------------
(***************************************************************************)
(* Two users of one tenant that may have one session, three windows (two   *)
(* of them of the same user) behind one address, and two connections for   *)
(* the first window, one for each of the others.                           *)
(***************************************************************************)
EXTENDS UserWS, TLC

CONSTANTS u1, u2, t1, w1, w2, w3, i1, c1, c2, c3, c4

MCTenantOf == u1 :> t1 @@ u2 :> t1
MCUserOf == w1 :> u1 @@ w2 :> u1 @@ w3 :> u2
MCIPOf == w1 :> i1 @@ w2 :> i1 @@ w3 :> i1
MCQuota == t1 :> 1
MCOwner == c1 :> w1 @@ c2 :> w1 @@ c3 :> w2 @@ c4 :> w3

MCSymmetry == Permutations({c1, c2})

=============================================================================
