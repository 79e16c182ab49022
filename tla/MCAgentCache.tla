---------------------------- MODULE MCAgentCache ----------------------------
(* One tenant that may follow the platform, a process that builds its agent *)
(* and serves a prompt request, and a request another process serves.       *)
EXTENDS AgentCache

CONSTANTS t1, admin, i1, b1, e1, e2, n1, n2, k1, all

ServesAll == [p \in {1} |-> {"chat", "embedding"}]
Homes == [x \in {b1, e1, e2} |-> IF x = e2 THEN Elsewhere ELSE i1]
HomeAlone == [x \in {b1} |-> i1]

Blank == [mode |-> "", prov |-> 0, name |-> Absent, key |-> Absent, clear |-> FALSE]
Given == [Blank EXCEPT !.prov = 1, !.key = k1]
Own == [Blank EXCEPT !.mode = "custom", !.name = n2]
Cleared == [Blank EXCEPT !.clear = TRUE]
Requests == {[of |-> t1, slots |-> {"chat"}, form |-> Given],
             [of |-> admin, slots |-> {"chat"}, form |-> Own],
             [of |-> admin, slots |-> Slot, form |-> Cleared]}

=============================================================================
