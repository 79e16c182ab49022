----------------------------- MODULE MCKBIndex ------------------------------
(***************************************************************************)
(* Three documents and a quota of one; two processes with one worker and   *)
(* one request each.                                                       *)
(***************************************************************************)
EXTENDS KBIndex, TLC

CONSTANTS w1, w2, r1, r2, p1, p2
MCProcOf == w1 :> p1 @@ r1 :> p1 @@ w2 :> p2 @@ r2 :> p2
MCSymmetry == Permutations(Doc)

=============================================================================
