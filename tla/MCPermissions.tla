--------------------------- MODULE MCPermissions ---------------------------
(***************************************************************************)
(* A business directory with a page, a page of one's own, a member, and    *)
(* one or two requests that write.                                         *)
(***************************************************************************)
EXTENDS Permissions, TLC

CONSTANTS m1, m2, m3, p1, p2

MCPermOf == m1 :> NoPerm @@ m2 :> p1 @@ m3 :> p2
MCHome == m1 :> Top @@ m2 :> m1
MCSymmetry == Permutations(User) \cup Permutations(Req) \cup Permutations(Name)

=============================================================================
