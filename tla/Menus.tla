------------------------------- MODULE Menus -------------------------------
(***************************************************************************)
(* The menu table and what is computed from it: the seed, the walk that    *)
(* collects a node with everything below it, the permissions of a set of   *)
(* menus, and the tree a member is shown (repository/menu.go).  A table is *)
(* a function from menu ids to rows.  A menu's group and permission code   *)
(* are taken as fixed; names, paths, icons and order are left out, and     *)
(* type with them (a directory is a menu without a permission code).       *)
(***************************************************************************)
EXTENDS Integers, FiniteSets

CONSTANTS
    Menu,      \* menu ids
    Builtin,   \* those of the seed
    Business,  \* those of the tenants' group; the rest is the platform's
    Perm, NoPerm, PermOf,
    Top,       \* parent_id 0
    Home,      \* the parent of a menu of the seed
    Never, Gone  \* an id not given out yet, a row deleted

Row == [parent : Menu \cup {Top}, on : BOOLEAN]

ASSUME MenuAssumption ==
    /\ IsFiniteSet(Menu) /\ Builtin \subseteq Menu /\ Business \subseteq Menu
    /\ PermOf \in [Menu -> Perm \cup {NoPerm}] /\ NoPerm \notin Perm
    /\ Home \in [Builtin -> Builtin \cup {Top}] /\ Top \notin Menu
    /\ Never # Gone /\ {Never, Gone} \cap Row = {}

Table == [Menu -> Row \cup {Never, Gone}]

Rows(tbl) == {m \in Menu : tbl[m] \notin {Never, Gone}}
Enabled(tbl) == {m \in Rows(tbl) : tbl[m].on}

\* The built-in menus put into a table.
WithSeed(tbl) ==
    [m \in Menu |-> IF m \in Builtin THEN [parent |-> Home[m], on |-> TRUE] ELSE tbl[m]]

\* Mutant of PermsOfMenuIDs: a menu without a code counts as one with an empty code.
PermsOfMenuIDsAll(tbl, ms) == {PermOf[m] : m \in Enabled(tbl) \cap ms}

\* PermsOfMenuIDs
PermsOfMenuIDs(tbl, ms) == {PermOf[m] : m \in Enabled(tbl) \cap ms} \ {NoPerm}

\* The codes the program asks for: those of the seed's business menus.
Catalog == {PermOf[m] : m \in Builtin \cap Business} \ {NoPerm}

\* Everything reached from a set of menus in some number of steps to the next ones.
Closure(S, next) ==
    LET C[n \in 0..Cardinality(Menu)] ==
            IF n = 0 THEN S
            ELSE LET D == C[n - 1] IN D \cup UNION {next[m] : m \in D}
    IN  C[Cardinality(Menu)]

Kids(tbl, m) == {k \in Rows(tbl) : tbl[k].parent = m}
Below(tbl, S, from) == Closure(from, [m \in Menu |-> Kids(tbl, m) \cap S])
collectChildren(tbl, m) == Below(tbl, Menu, {m})

\* A menu of S that is above itself.
InCircle(tbl, S, m) == m \in Below(tbl, S, Kids(tbl, m) \cap S)

\* The walk down from m comes to an end.
CollectEnds(tbl, m) == \A k \in collectChildren(tbl, m) : ~InCircle(tbl, Menu, k)

-----------------------------------------------------------------------------
(* MenuTreeForUser over the enabled menus of one group *)

\* mark: a menu and its parents; a parent that is not in the list is marked
\* and leads no further.
Marked(tbl, all, m) ==
    Closure({m}, [n \in Menu |-> IF n \in all THEN {tbl[n].parent} \ {Top} ELSE {}])

Granted(all, perms) == {m \in all : PermOf[m] \in perms}

VisibleNodes(tbl, all, perms) ==
    all \cap UNION {Marked(tbl, all, m) : m \in Granted(all, perms)}

\* Mutant of Roots: only nodes without a parent are put at the top.
RootsOnlyTop(tbl, nodes) == {n \in nodes : tbl[n].parent = Top}

\* A node whose parent is not shown is put at the top.
Roots(tbl, nodes) == {n \in nodes : tbl[n].parent \notin nodes}

\* What the page can reach from the roots.
MenuTree(tbl, nodes) == Below(tbl, nodes, Roots(tbl, nodes))

=============================================================================
