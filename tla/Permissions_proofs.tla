-------------------------- MODULE Permissions_proofs --------------------------
(***************************************************************************)
(* What holds of members, roles, menus and the two caches for any number   *)
(* of them and of requests and readers: the tables keep their form, the    *)
(* caches say what the tables say, the roles are seeded once, a reset of   *)
(* the menus restores the administrators, and the tree of a member is      *)
(* whole.                                                                  *)
(***************************************************************************)
EXTENDS Permissions, FiniteSetTheorems, WellFoundedInduction, TLAPS

-----------------------------------------------------------------------------
(* Where a request and a reader can stand.                                 *)

\* What may wait behind EnsureTenantRoles.
Later ==
    {Idle} \cup [at : {"ready"}, op : {"create role"}, ms : SUBSET Menu]
           \cup [at : {"ready"}, op : {"create user"}, n : Name, rs : SUBSET Role]

\* What deleting a menu takes along.
Subtrees == UNION {{collectChildren(t, m) : m \in Menu} : t \in Table}

MenuJob ==
    [at : {"ready"}, op : {"create menu"}, p : Menu \cup {Top}, on : BOOLEAN]
        \cup [at : {"ready"}, op : {"update menu"}, m : Menu, p : Menu \cup {Top}, on : BOOLEAN]
        \cup [at : {"ready"}, op : {"delete menu"}, ms : Subtrees]
        \cup [at : {"ready", "open"}, op : {"reset menus"}, ms : SUBSET Builtin]

RoleJob ==
    [at : {"ready"}, op : {"update role"}, r : Role, ms : SUBSET Menu]
        \cup [at : {"ready"}, op : {"delete role", "delete its links", "delete its row"}, r : Role]

UserJob ==
    [at : {"ready"}, op : {"set roles"}, u : User, rs : SUBSET Role]
        \cup [at : {"ready"}, op : {"update user"}, u : User, n : Name, rs : SUBSET Role]
        \cup [at : {"ready"}, op : {"set password"}, u : User, n : Name]
        \cup [at : {"open"}, op : {"delete user"}, u : User]

Job ==
    Later \cup MenuJob \cup RoleJob \cup UserJob
        \cup [at : {"counted", "open"}, op : {"seed"}, seen : Table, next : Later]
        \cup [at : {"done"}, op : {"drop"}, drops : SUBSET {"perms", "menus"}]

Call ==
    {Idle} \cup [at : {"roles"}, u : User, old : BOOLEAN, found : SUBSET Role]
           \cup [at : {"menus"}, u : User, old : BOOLEAN, found : SUBSET Menu]
           \cup [at : {"perms"}, u : User, old : BOOLEAN, found : SUBSET Perm]
           \cup [at : {"map"}, u : User, old : BOOLEAN, found : SUBSET Perm, map : MapId]

Tables ==
    /\ menus \in Table /\ links \subseteq Role \X Menu
    /\ roles \in [Role -> Code \cup {Never, Gone}] /\ seeded \in BOOLEAN
    /\ users \in [User -> Member \cup {Never, Gone}] /\ holds \subseteq User \X Role

Caches ==
    /\ cur \in MapId /\ DOMAIN maps = MapId
    /\ \A i \in MapId : DOMAIN maps[i] \subseteq User
                        /\ \A u \in DOMAIN maps[i] : maps[i][u] \subseteq Perm
    /\ menuCache \in Table \cup {Never}
    /\ late \in BOOLEAN /\ menusLate \in BOOLEAN

Types ==
    /\ Tables /\ Caches /\ failed \in BOOLEAN /\ changes \in 0..MaxChanges
    /\ req \in [Req -> Job] /\ read \in [Reader -> Call]

\* One transaction at a time; a seeding one finds the tenant without roles; before there
\* are any nobody changes one, and only those there are, or were, are deleted.
ForRoles == {"create role", "delete role", "delete its links", "delete its row"}
Orderly ==
    /\ \A v, w \in Req : req[v].at = "open" /\ req[w].at = "open" => v = w
    /\ \A w \in Req : req[w].at = "open" /\ req[w].op = "seed" => ~seeded
    /\ ~seeded => /\ \A r \in Role : roles[r] = Never
                  /\ \A w \in Req : req[w].at = "ready" => req[w].op \notin ForRoles
    /\ \A w \in Req : req[w].at = "ready" /\ req[w].op \in ForRoles =>
          req[w].op = "create role" \/ roles[req[w].r] # Never

\* What a reader has found so far is in the tables, unless they changed since.
Found(c) == CASE c.at = "roles" -> RolesOf(c.u)
              [] c.at = "menus" -> MenusOf(RolesOf(c.u))
              [] OTHER -> Derived(c.u)
ReadersRight ==
    \A r \in Reader, c \in Call : read[r] = c /\ c # Idle /\ ~c.old => c.found = Found(c)

\* A request that has yet to drop the permissions; one that has yet to drop the menus.
DropsPerms(j) == \/ j.at = "done" /\ "perms" \in j.drops
                 \/ j.at = "ready" /\ j.op \in {"delete its links", "delete its row"}
DropsMenus(j) == j.at = "done" /\ "menus" \in j.drops

PermsRight == late \/ Dropping("perms") \/ \A u \in DOMAIN Cached : Cached[u] = Derived(u)

MenusRight == menusLate \/ (\E w \in Req : DropsMenus(req[w])) \/ menuCache \in {Never, menus}

Right == Types /\ Orderly /\ ReadersRight /\ PermsRight /\ MenusRight

-----------------------------------------------------------------------------
(* The jobs, and what a request doing its next thing leaves of the others. *)

\* Idle is no record of any other kind.
LEMMA Rest == Idle.at = "idle"
  BY DEF Idle

\* What the place and the kind of a job say of the rest of it.
Shaped(j) ==
    /\ j.at \in {"idle", "ready", "counted", "open", "done"}
    /\ j.at = "idle" => j = Idle
    /\ j.at = "done" => j.op = "drop" /\ j.drops \subseteq {"perms", "menus"}
    /\ j.at = "counted" => j \in [at : {"counted", "open"}, op : {"seed"}, seen : Table, next : Later]
    /\ j.at = "open" => \/ j \in [at : {"counted", "open"}, op : {"seed"}, seen : Table, next : Later]
                        \/ j \in [at : {"ready", "open"}, op : {"reset menus"}, ms : SUBSET Builtin]
                        \/ j \in [at : {"open"}, op : {"delete user"}, u : User]
    /\ j.at = "ready" =>
          /\ j.op # "seed"
          /\ j.op = "create menu" => j.p \in Menu \cup {Top} /\ j.on \in BOOLEAN
          /\ j.op = "update menu" => j.m \in Menu /\ j.p \in Menu \cup {Top} /\ j.on \in BOOLEAN
          /\ j.op = "reset menus" => j \in [at : {"ready", "open"}, op : {"reset menus"}, ms : SUBSET Builtin]
          /\ j.op = "create role" => j.ms \subseteq Menu
          /\ j.op = "update role" => j.r \in Role /\ j.ms \subseteq Menu
          /\ j.op \in {"delete role", "delete its links", "delete its row"} =>
                j \in [at : {"ready"}, op : {"delete role", "delete its links", "delete its row"}, r : Role]
          /\ j.op = "create user" => j.n \in Name /\ j.rs \subseteq Role
          /\ j.op = "set roles" => j.u \in User /\ j.rs \subseteq Role
          /\ j.op = "update user" => j.u \in User /\ j.n \in Name /\ j.rs \subseteq Role
          /\ j.op = "set password" => j.u \in User /\ j.n \in Name

\* What a request keeps while it runs has the fields its step reads.
LEMMA JobIs == ASSUME NEW j \in Job PROVE Shaped(j)
<1> USE DEF Shaped
<1>0. CASE j = Idle
  BY <1>0 DEF Idle
<1>1. CASE j \in [at : {"ready"}, op : {"create role"}, ms : SUBSET Menu]
  BY <1>1
<1>2. CASE j \in [at : {"ready"}, op : {"create user"}, n : Name, rs : SUBSET Role]
  BY <1>2
<1>3. CASE j \in [at : {"ready"}, op : {"create menu"}, p : Menu \cup {Top}, on : BOOLEAN]
  BY <1>3
<1>4. CASE j \in [at : {"ready"}, op : {"update menu"}, m : Menu, p : Menu \cup {Top}, on : BOOLEAN]
  BY <1>4
<1>5. CASE j \in [at : {"ready"}, op : {"delete menu"}, ms : Subtrees]
  BY <1>5
<1>6. CASE j \in [at : {"ready", "open"}, op : {"reset menus"}, ms : SUBSET Builtin]
  BY <1>6
<1>7. CASE j \in [at : {"ready"}, op : {"update role"}, r : Role, ms : SUBSET Menu]
  BY <1>7
<1>8. CASE j \in [at : {"ready"}, op : {"delete role", "delete its links", "delete its row"}, r : Role]
  BY <1>8
<1>9. CASE j \in [at : {"ready"}, op : {"set roles"}, u : User, rs : SUBSET Role]
  BY <1>9
<1>10. CASE j \in [at : {"ready"}, op : {"update user"}, u : User, n : Name, rs : SUBSET Role]
  BY <1>10
<1>11. CASE j \in [at : {"ready"}, op : {"set password"}, u : User, n : Name]
  BY <1>11
<1>12. CASE j \in [at : {"open"}, op : {"delete user"}, u : User]
  BY <1>12
<1>13. CASE j \in [at : {"counted", "open"}, op : {"seed"}, seen : Table, next : Later]
  BY <1>13
<1>14. CASE j \in [at : {"done"}, op : {"drop"}, drops : SUBSET {"perms", "menus"}]
  BY <1>14
<1> HIDE DEF Shaped
<1>15. CASE j \in Later
  BY <1>0, <1>1, <1>2, <1>15, Zenon DEF Later
<1>16. CASE j \in MenuJob
  BY <1>3, <1>4, <1>5, <1>6, <1>16, Zenon DEF MenuJob
<1>17. CASE j \in RoleJob
  BY <1>7, <1>8, <1>17, Zenon DEF RoleJob
<1>18. CASE j \in UserJob
  BY <1>9, <1>10, <1>11, <1>12, <1>18, Zenon DEF UserJob
<1>19. QED
  BY <1>13, <1>14, <1>15, <1>16, <1>17, <1>18, Zenon DEF Job

\* What a request may still have to do once its roles are ensured.
LEMMA LaterIs ==
    ASSUME NEW j \in Later
    PROVE  j \in Job /\ j.at \in {"idle", "ready"} /\ (j.at = "ready" => j.op \in {"create role", "create user"})
<1>1. j \in Job
  BY DEF Job
<1>2. CASE j = Idle
  BY <1>1, <1>2 DEF Idle
<1>3. CASE j \in [at : {"ready"}, op : {"create role"}, ms : SUBSET Menu]
  BY <1>1, <1>3
<1>4. CASE j \in [at : {"ready"}, op : {"create user"}, n : Name, rs : SUBSET Role]
  BY <1>1, <1>4
<1>5. QED
  BY <1>2, <1>3, <1>4 DEF Later

\* One request takes up another job.
Turns(w, job) == req' = [req EXCEPT ![w] = job]

\* Only the request that steps changes its job.
LEMMA TurnsJob ==
    ASSUME req \in [Req -> Job], NEW w \in Req, NEW job \in Job, Turns(w, job)
    PROVE  req' \in [Req -> Job] /\ req'[w] = job /\ \A v \in Req \ {w} : req'[v] = req[v]
  BY DEF Turns

\* A reader calls next, or goes.
LEMMA CallIs ==
    ASSUME NEW c \in Call, c # Idle
    PROVE  /\ c.u \in User /\ c.old \in BOOLEAN /\ c.at \in {"roles", "menus", "perms", "map"}
           /\ c.at = "roles" => c.found \subseteq Role
           /\ c.at = "menus" => c.found \subseteq Menu
           /\ c.at \in {"perms", "map"} => c.found \subseteq Perm
           /\ c.at = "map" => c.map \in MapId
  BY DEF Call, Idle

\* What a reader notes when a table is committed changes nothing else it holds.
LEMMA AgesCall ==
    ASSUME NEW c \in Call, c # Idle, NEW old \in BOOLEAN
    PROVE  /\ [c EXCEPT !.old = old] \in Call /\ [c EXCEPT !.old = old] # Idle
           /\ [c EXCEPT !.old = old].old = old
           /\ [c EXCEPT !.old = old].at = c.at /\ [c EXCEPT !.old = old].u = c.u
           /\ [c EXCEPT !.old = old].found = c.found
  BY DEF Call, Idle

\* The permissions of menus are permissions.
LEMMA PermsArePerms == ASSUME NEW tbl, NEW ms PROVE PermsOfMenuIDs(tbl, ms) \subseteq Perm
  BY MenuAssumption DEF PermsOfMenuIDs, Enabled, Rows

\* collectChildren gives one of the sets of menus a request may delete.
LEMMA SubtreeThere == ASSUME NEW t \in Table, NEW m \in Menu PROVE collectChildren(t, m) \in Subtrees
  BY DEF Subtrees

\* There is always a map that nobody holds and that is not the current one.
LEMMA SpareMap ==
    ASSUME Caches, read \in [Reader -> Call]
    PROVE  \E i \in MapId : i # cur /\ ~Held(i)
<1> SUFFICES ASSUME \A i \in MapId \ {cur} : Held(i) PROVE FALSE
  OBVIOUS
<1> DEFINE n == Cardinality(Reader)
           S == MapId \ {cur}
<1>1. IsFiniteSet(Reader) /\ n \in Nat
  BY PermissionsAssumption, FS_CardinalityType
<1>2. IsFiniteSet(MapId) /\ Cardinality(MapId) = n + 2
  <2>1. IsFiniteSet(1..(n + 2)) /\ Cardinality(1..(n + 2)) = IF 1 > n + 2 THEN 0 ELSE (n + 2) - 1 + 1
    BY <1>1, FS_Interval
  <2>2. QED
    BY <1>1, <2>1 DEF MapId
<1>3. IsFiniteSet(S) /\ Cardinality(S) = n + 1
  <2>1. cur \in MapId
    BY DEF Caches
  <2>2. IsFiniteSet(S) /\ Cardinality(S) = Cardinality(MapId) - 1
    BY <1>2, <2>1, FS_RemoveElement
  <2>3. QED
    BY <1>1, <1>2, <2>2
<1> DEFINE f == [i \in S |-> CHOOSE r \in Reader : read[r] # Idle /\ read[r].at = "map" /\ read[r].map = i]
<1>4. \A i \in S : f[i] \in Reader /\ read[f[i]].map = i
  BY DEF Held
<1>5. f \in [S -> Reader]
  BY <1>4
<1> HIDE DEF f, S, n
<1>6. Cardinality(Reader) < Cardinality(S)
  BY <1>1, <1>3 DEF n
<1>7. PICK x, y \in S : x # y /\ f[x] = f[y]
  BY <1>1, <1>3, <1>5, <1>6, FS_PigeonHole
<1>8. QED
  BY <1>4, <1>7

-----------------------------------------------------------------------------
(* What a step of a request comes to.  It drops caches, or it writes and   *)
(* has a cache to drop yet, or it writes and leaves the caches alone.      *)

Drops(w) ==
    /\ UNCHANGED <<menus, links, holds, read>>
    /\ \/ invalidateRolePermsCache
       \/ UNCHANGED <<maps, cur, late>> /\ ~DropsPerms(req[w])
    /\ \/ invalidateMenuCache
       \/ UNCHANGED <<menuCache, menusLate>> /\ ~DropsMenus(req[w])

Writes(w, job) ==
    /\ Notes /\ UNCHANGED caches
    /\ DropsPerms(job) /\ ~DropsMenus(req[w])
    /\ DropsMenus(job) \/ UNCHANGED menus

WritesLast ==
    /\ Notes /\ UNCHANGED <<maps, cur, menuCache>>
    /\ late' = (late \/ \E u \in DOMAIN Cached : Cached[u] # Derived(u)')
    /\ menusLate' = (menusLate \/ menuCache \notin {Never, menus'})

\* A job that is about roles is possible.
Fits(job) ==
    job.at = "ready" /\ job.op \in ForRoles =>
        seeded /\ (job.op = "create role" \/ roles[job.r] # Never)

\* The roles there are stay, deleted or not; after the seeding those that come are custom.
RolesGo ==
    /\ \A r \in Role : roles[r] # Never => roles'[r] # Never
    /\ seeded => \A r \in Role : roles[r] = Never => roles'[r] \in {Never, "custom"}

Ordered(w, job) ==
    /\ RolesGo
    /\ job.at = "ready" /\ job.op \in ForRoles => job.op = "create role" \/ roles'[job.r] # Never
    /\ job.at = "open" => \A v \in Req \ {w} : req[v].at # "open"
    /\ job.at = "open" /\ job.op = "seed" => ~seeded'
    /\ seeded => seeded'
    /\ UNCHANGED seeded \/ req[w].at = "open"
    /\ ~seeded' => /\ \A r \in Role : roles'[r] = Never
                   /\ job.at = "ready" => job.op \notin ForRoles

Does(w) ==
    \E job \in Job :
        /\ Turns(w, job) /\ Ordered(w, job)
        /\ Tables' /\ failed' \in BOOLEAN /\ changes' \in 0..MaxChanges
        /\ Drops(w) \/ Writes(w, job) \/ WritesLast

\* A dropped cache of permissions is empty.
LEMMA PermsDropped ==
    ASSUME Caches, read \in [Reader -> Call], invalidateRolePermsCache
    PROVE  /\ cur' \in MapId /\ DOMAIN maps' = MapId /\ DOMAIN Cached' = {} /\ late' = FALSE
           /\ \A i \in MapId : DOMAIN maps'[i] \subseteq User
                               /\ \A u \in DOMAIN maps'[i] : maps'[i][u] \subseteq Perm
<1>1. cur' \in MapId /\ ~Held(cur')
  BY SpareMap DEF invalidateRolePermsCache
<1>2. maps' = [i \in MapId |-> IF Held(i) THEN maps[i] ELSE None]
  BY DEF invalidateRolePermsCache
<1>3. DOMAIN None = {}
  BY DEF None
<1>4. maps'[cur'] = None
  BY <1>1, <1>2
<1>5. ASSUME NEW i \in MapId
      PROVE  DOMAIN maps'[i] \subseteq User /\ \A u \in DOMAIN maps'[i] : maps'[i][u] \subseteq Perm
  <2>1. CASE Held(i)
    <3>1. maps'[i] = maps[i]
      BY <1>2, <2>1
    <3>2. QED
      BY <3>1 DEF Caches
  <2>2. CASE ~Held(i)
    <3>1. maps'[i] = None
      BY <1>2, <2>2
    <3>2. QED
      BY <1>3, <3>1
  <2>3. QED
    BY <2>1, <2>2
<1>6. QED
  BY <1>1, <1>2, <1>3, <1>4, <1>5 DEF invalidateRolePermsCache, Cached

\* Readers under way note what is committed.
LEMMA NotesReaders ==
    ASSUME read \in [Reader -> Call], ReadersRight, Notes
    PROVE  read' \in [Reader -> Call] /\ ReadersRight'
<1>1. ASSUME NEW r \in Reader, read[r] = Idle PROVE read'[r] = Idle
  BY <1>1 DEF Notes
<1>2. ASSUME NEW r \in Reader, read[r] # Idle
      PROVE  /\ read'[r] \in Call /\ read'[r] # Idle
             /\ \A c \in Call : read'[r] = c /\ ~c.old => c.found = Found(c)'
  <2>1. PICK changed \in BOOLEAN : changed <=> <<menus, links, holds>>' # <<menus, links, holds>>
    OBVIOUS
  <2>2. read[r].old \in BOOLEAN
    BY <1>2, CallIs
  <2>3. PICK old \in BOOLEAN : old <=> (read[r].old \/ changed)
    OBVIOUS
  <2>4. read'[r] = [read[r] EXCEPT !.old = old]
    <3>1. read'[r] = [read[r] EXCEPT !.old = @ \/ <<menus, links, holds>>' # <<menus, links, holds>>]
      BY <1>2 DEF Notes
    <3>2. (read[r].old \/ <<menus, links, holds>>' # <<menus, links, holds>>) = old
      BY <2>1, <2>2, <2>3
    <3>3. QED
      BY <3>1, <3>2
  <2>5. /\ read'[r] \in Call /\ read'[r] # Idle /\ read'[r].old = old
        /\ read'[r].at = read[r].at /\ read'[r].u = read[r].u /\ read'[r].found = read[r].found
    BY <1>2, <2>4, AgesCall
  <2>6. ASSUME NEW c \in Call, read'[r] = c, ~c.old PROVE c.found = Found(c)'
    <3>1. UNCHANGED <<menus, links, holds>> /\ ~read[r].old
      BY <2>1, <2>3, <2>5, <2>6
    <3>2. read[r].found = Found(read[r])
      BY <1>2, <3>1 DEF ReadersRight
    <3>3. Found(c)' = Found(c)
      BY <3>1 DEF Found, Derived, MenusOf, RolesOf
    <3>4. Found(c) = Found(read[r])
      BY <2>5, <2>6 DEF Found
    <3>5. QED
      BY <2>5, <2>6, <3>2, <3>3, <3>4
  <2>7. QED
    BY <2>5, <2>6
<1>3. read' \in [Reader -> Call]
  <2>1. Idle \in Call
    BY DEF Call
  <2>2. QED
    BY <1>1, <1>2, <2>1 DEF Notes
<1>4. QED
  BY <1>1, <1>2, <1>3 DEF ReadersRight

\* Who has permissions or menus to drop yet.
LEMMA DroppingIs ==
    ASSUME req \in [Req -> Job]
    PROVE  Dropping("perms") <=> \E w \in Req : DropsPerms(req[w])
<1>1. ASSUME NEW w \in Req
      PROVE  /\ At(w, "done", "drop") /\ "perms" \in req[w].drops <=> req[w].at = "done" /\ "perms" \in req[w].drops
             /\ At(w, "ready", "delete its links") <=> req[w].at = "ready" /\ req[w].op = "delete its links"
             /\ At(w, "ready", "delete its row") <=> req[w].at = "ready" /\ req[w].op = "delete its row"
  BY JobIs, Rest DEF At, Shaped
<1>2. QED
  BY <1>1 DEF Dropping, DropsPerms

\* Whatever a request does leaves the tables well formed, transactions apart and the
\* caches right.
LEMMA RequestRight == ASSUME Right, NEW w \in Req, Does(w) PROVE Right'
<1>0. Types /\ Orderly /\ ReadersRight /\ PermsRight /\ MenusRight
  BY DEF Right
<1>1. PICK job \in Job :
        /\ Turns(w, job) /\ Ordered(w, job)
        /\ Tables' /\ failed' \in BOOLEAN /\ changes' \in 0..MaxChanges
        /\ Drops(w) \/ Writes(w, job) \/ WritesLast
  BY DEF Does
<1>2. req' \in [Req -> Job] /\ req'[w] = job /\ \A v \in Req \ {w} : req'[v] = req[v]
  BY <1>0, <1>1, TurnsJob DEF Types
<1>3. Orderly'
  <2>1. ASSUME NEW v \in Req, NEW x \in Req, req'[v].at = "open", req'[x].at = "open" PROVE v = x
    BY <1>0, <1>1, <1>2, <2>1 DEF Orderly, Ordered
  <2>2. ASSUME NEW v \in Req, req'[v].at = "open", req'[v].op = "seed" PROVE ~seeded'
    BY <1>0, <1>1, <1>2, <2>1, <2>2 DEF Orderly, Ordered
  <2>3. ASSUME ~seeded'
        PROVE  /\ \A r \in Role : roles'[r] = Never
               /\ \A v \in Req : req'[v].at = "ready" => req'[v].op \notin ForRoles
    BY <1>0, <1>1, <1>2, <2>3 DEF Orderly, Ordered
  <2>4. ASSUME NEW v \in Req, req'[v].at = "ready", req'[v].op \in ForRoles
        PROVE  req'[v].op = "create role" \/ roles'[req'[v].r] # Never
    <3>1. CASE v = w
      BY <1>1, <1>2, <2>4, <3>1 DEF Ordered
    <3>2. CASE v # w
      <4>1. req'[v] = req[v] /\ req[v] \in Job
        BY <1>0, <1>2, <3>2 DEF Types
      <4>2. req[v].op = "create role" \/ roles[req[v].r] # Never
        BY <1>0, <2>4, <4>1 DEF Orderly
      <4>3. req[v].op = "create role" \/ req[v].r \in Role
        BY <2>4, <4>1, JobIs DEF Shaped, ForRoles
      <4>4. QED
        BY <1>1, <4>1, <4>2, <4>3 DEF Ordered, RolesGo
    <3>3. QED
      BY <3>1, <3>2
  <2>5. QED
    BY <2>1, <2>2, <2>3, <2>4 DEF Orderly, ForRoles
<1>4. CASE Drops(w)
  <2>1. UNCHANGED read /\ \A c \in Call : Found(c)' = Found(c)
    BY <1>4 DEF Drops, Found, Derived, MenusOf, RolesOf
  <2>2. read' \in [Reader -> Call] /\ ReadersRight'
    BY <1>0, <2>1 DEF ReadersRight, Types
  <2>3. /\ cur' \in MapId /\ DOMAIN maps' = MapId /\ late' \in BOOLEAN
        /\ \A i \in MapId : DOMAIN maps'[i] \subseteq User
                            /\ \A u \in DOMAIN maps'[i] : maps'[i][u] \subseteq Perm
        /\ PermsRight'
    <3>1. CASE invalidateRolePermsCache
      BY <1>0, <3>1, PermsDropped DEF Types, PermsRight
    <3>2. CASE UNCHANGED <<maps, cur, late>> /\ ~DropsPerms(req[w])
      <4>1. Dropping("perms") => Dropping("perms")'
        <5>1. Dropping("perms") <=> \E v \in Req : DropsPerms(req[v])
          BY <1>0, DroppingIs DEF Types
        <5>2. ASSUME NEW v \in Req, DropsPerms(req[v]) PROVE Dropping("perms")'
          <6>1. req'[v] = req[v] /\ req[v] \in Job
            BY <1>0, <1>2, <3>2, <5>2 DEF Types
          <6>2. QED
            BY <5>2, <6>1, JobIs, Rest DEF DropsPerms, Dropping, At, Shaped
        <5>3. QED
          BY <5>1, <5>2
      <4>2. \A u \in User : Derived(u)' = Derived(u)
        BY <1>4 DEF Drops, Derived, MenusOf, RolesOf
      <4>3. Cached' = Cached /\ DOMAIN Cached \subseteq User
        BY <1>0, <3>2 DEF Cached, Types, Caches
      <4>4. PermsRight'
        BY <1>0, <3>2, <4>1, <4>2, <4>3 DEF PermsRight
      <4>5. QED
        BY <1>0, <3>2, <4>4 DEF Types, Caches
    <3>3. QED
      BY <1>4, <3>1, <3>2 DEF Drops
  <2>4. menuCache' \in Table \cup {Never} /\ menusLate' \in BOOLEAN /\ MenusRight'
    <3>1. CASE invalidateMenuCache
      BY <3>1 DEF invalidateMenuCache, MenusRight
    <3>2. CASE UNCHANGED <<menuCache, menusLate>> /\ ~DropsMenus(req[w])
      <4>1. \A v \in Req : DropsMenus(req[v]) => req'[v] = req[v]
        BY <1>2, <3>2
      <4>2. (\E v \in Req : DropsMenus(req[v])) => (\E v \in Req : DropsMenus(req'[v]))
        BY <4>1
      <4>3. MenusRight'
        BY <1>0, <1>4, <3>2, <4>2 DEF MenusRight, Drops, DropsMenus
      <4>4. QED
        BY <1>0, <3>2, <4>3 DEF Types, Caches
    <3>3. QED
      BY <1>4, <3>1, <3>2 DEF Drops
  <2>5. QED
    BY <1>1, <1>2, <1>3, <2>2, <2>3, <2>4 DEF Right, Types, Caches
<1>5. CASE Writes(w, job)
  <2>1. read' \in [Reader -> Call] /\ ReadersRight'
    BY <1>0, <1>5, NotesReaders DEF Types, Writes
  <2>2. UNCHANGED <<maps, cur, menuCache, late, menusLate>>
    BY <1>5 DEF Writes, caches
  <2>3. PermsRight'
    BY <1>2, <1>5, JobIs, Rest DEF Writes, PermsRight, DropsPerms, Dropping, At, Shaped
  <2>4. MenusRight'
    <3>1. CASE DropsMenus(job)
      BY <1>2, <3>1 DEF MenusRight, DropsMenus
    <3>2. CASE UNCHANGED menus
      <4>1. \A v \in Req : DropsMenus(req[v]) => req'[v] = req[v]
        BY <1>2, <1>5 DEF Writes
      <4>2. (\E v \in Req : DropsMenus(req[v])) => (\E v \in Req : DropsMenus(req'[v]))
        BY <4>1
      <4>3. QED
        BY <1>0, <2>2, <3>2, <4>2 DEF MenusRight, DropsMenus
    <3>3. QED
      BY <1>5, <3>1, <3>2 DEF Writes
  <2>5. QED
    BY <1>0, <1>1, <1>2, <1>3, <2>1, <2>2, <2>3, <2>4 DEF Right, Types, Caches
<1>6. CASE WritesLast
  <2>1. read' \in [Reader -> Call] /\ ReadersRight'
    BY <1>0, <1>6, NotesReaders DEF Types, WritesLast
  <2>2. UNCHANGED <<maps, cur, menuCache>>
    BY <1>6 DEF WritesLast
  <2>3. PermsRight' /\ late' \in BOOLEAN
    <3>1. PICK stale \in BOOLEAN : stale <=> \E u \in DOMAIN Cached : Cached[u] # Derived(u)'
      OBVIOUS
    <3>2. late' = (late \/ stale)
      BY <1>6, <3>1 DEF WritesLast
    <3>3. Cached' = Cached
      BY <2>2 DEF Cached
    <3>4. ASSUME ~late' PROVE \A u \in DOMAIN Cached : Cached[u] = Derived(u)'
      BY <3>1, <3>2, <3>4
    <3>5. late' \in BOOLEAN
      BY <1>0, <3>2 DEF Types, Caches
    <3>6. QED
      BY <3>3, <3>4, <3>5 DEF PermsRight
  <2>4. MenusRight' /\ menusLate' \in BOOLEAN
    BY <1>0, <1>6, <2>2 DEF WritesLast, MenusRight, Types, Caches
  <2>5. QED
    BY <1>0, <1>1, <1>2, <1>3, <2>1, <2>2, <2>3, <2>4 DEF Right, Types, Caches
<1>7. QED
  BY <1>1, <1>4, <1>5, <1>6

-----------------------------------------------------------------------------
(* The three ways a step of a request goes about it.                       *)

\* A request that only looks before its first write, or that writes what no
\* permission and no menu depends on.
LEMMA Quietly ==
    ASSUME Types, Orderly, NEW w \in Req, NEW job \in Job, Turns(w, job),
           req[w].at \in {"idle", "ready", "counted"},
           req[w].at = "ready" => req[w].op \notin {"delete its links", "delete its row"},
           UNCHANGED <<menus, links, roles, seeded, holds, caches, read>>,
           users' \in [User -> Member \cup {Never, Gone}],
           failed' \in BOOLEAN, changes' \in 0..MaxChanges,
           job.at \in {"idle", "ready", "counted"},
           Fits(job)
    PROVE  Does(w)
<1>1. Ordered(w, job)
  BY DEF Orderly, Ordered, RolesGo, Fits
<1>2. Drops(w)
  BY DEF Drops, DropsPerms, DropsMenus, caches
<1>3. Tables'
  BY DEF Tables, Types
<1>4. QED
  BY <1>1, <1>2, <1>3 DEF Does

\* A request that only begins is such a step.
LEMMA BeginsQuietly ==
    ASSUME Types, Orderly, NEW w \in Req, NEW job \in Job, Begins(w, job),
           UNCHANGED <<tables, caches, read, failed>>,
           job.at \in {"idle", "ready", "counted"},
           Fits(job)
    PROVE  Does(w)
<1>1. req[w] = Idle /\ Turns(w, job) /\ changes < MaxChanges /\ changes' = changes + 1
  BY DEF Begins, Turns
<1>2. changes' \in 0..MaxChanges
  BY <1>1, PermissionsAssumption DEF Types
<1>3. UNCHANGED <<menus, links, roles, seeded, holds, caches, read>> /\ UNCHANGED <<users, failed>>
  BY DEF tables
<1>4. users' \in [User -> Member \cup {Never, Gone}] /\ failed' \in BOOLEAN
  BY <1>3 DEF Types, Tables
<1>5. QED
  BY <1>1, <1>2, <1>3, <1>4, Rest, Quietly

\* What EnsureTenantRoles puts in front of a request.
LEMMA EnsuringIs ==
    ASSUME Types, Orderly, NEW next \in Later, NEW job, job = Ensuring(next)
    PROVE  /\ job \in Job /\ job.at \in {"idle", "ready", "counted"}
           /\ Fits(job)
<1>1. CASE Live # {}
  <2>1. job = next
    BY <1>1 DEF Ensuring
  <2>2. seeded
    <3>1. PICK r \in Role : roles[r] \in Code
      BY <1>1 DEF Live
    <3>2. roles[r] # Never
      BY <3>1, PermissionsAssumption
    <3>3. QED
      BY <3>2 DEF Orderly
  <2>3. QED
    BY <2>1, <2>2, LaterIs DEF ForRoles, Fits
<1>2. CASE Live = {}
  <2>1. job = [at |-> "counted", op |-> "seed", seen |-> menus, next |-> next]
    BY <1>2 DEF Ensuring
  <2>2. menus \in Table
    BY DEF Types, Tables
  <2>3. job \in [at : {"counted", "open"}, op : {"seed"}, seen : Table, next : Later]
    BY <2>1, <2>2
  <2>4. QED
    BY <2>1, <2>3 DEF Job, Fits
<1>3. QED
  BY <1>1, <1>2

\* The commit of a write whose caches are dropped next.
LEMMA CommitsDoes ==
    ASSUME Types, Orderly, NEW w \in Req, NEW drops \in SUBSET {"perms", "menus"}, Commits(w, drops),
           req[w].at = "ready", "perms" \in drops, "menus" \in drops \/ UNCHANGED menus,
           Tables', UNCHANGED seeded, UNCHANGED roles \/ (seeded /\ RolesGo)
    PROVE  Does(w)
<1> DEFINE job == [at |-> "done", op |-> "drop", drops |-> drops]
<1>1. job \in Job
  BY DEF Job
<1>2. Turns(w, job) /\ UNCHANGED changes /\ Notes /\ UNCHANGED <<caches, failed>>
  BY DEF Commits, Goes, Turns
<1>3. Ordered(w, job)
  BY DEF Ordered, Orderly, RolesGo
<1>4. Writes(w, job)
  BY <1>2 DEF Writes, DropsPerms, DropsMenus
<1>5. failed' \in BOOLEAN /\ changes' \in 0..MaxChanges
  BY <1>2 DEF Types
<1> HIDE DEF job
<1>6. QED
  BY <1>1, <1>2, <1>3, <1>4, <1>5 DEF Does

\* The commit of a write that ends it.
LEMMA CommitsLastDoes ==
    ASSUME Types, Orderly, NEW w \in Req, NEW job \in Job, CommitsLast(w, job),
           job.at \in {"idle", "ready"}, job.at = "ready" /\ job.op \in ForRoles => seeded' /\ job.op = "create role",
           Tables', seeded => seeded', UNCHANGED seeded \/ req[w].at = "open",
           UNCHANGED roles \/ (seeded' /\ RolesGo)
    PROVE  Does(w)
<1>1. Turns(w, job) /\ UNCHANGED changes /\ UNCHANGED failed
  BY DEF CommitsLast, Goes, Turns
<1>2. Ordered(w, job)
  BY DEF Ordered, Orderly, RolesGo
<1>3. WritesLast
  BY DEF CommitsLast, WritesLast
<1>4. failed' \in BOOLEAN /\ changes' \in 0..MaxChanges
  BY <1>1 DEF Types
<1>5. QED
  BY <1>1, <1>2, <1>3, <1>4 DEF Does

-----------------------------------------------------------------------------
(* Request by request: menus.                                              *)

\* Dropping the caches is a request's step.
LEMMA InvalidatesDoes == ASSUME Types, Orderly, NEW w \in Req, Invalidates(w) PROVE Does(w)
<1>1. req[w].at = "done" /\ Turns(w, Idle) /\ UNCHANGED changes /\ UNCHANGED <<tables, read, failed>>
  BY DEF Invalidates, At, Ends, Goes, Turns
<1>2. Idle \in Job
  BY DEF Job, Later
<1>3. Ordered(w, Idle)
  BY <1>1, Rest DEF Ordered, Orderly, RolesGo, tables
<1>4. Drops(w)
  <2>1. UNCHANGED <<menus, links, holds, read>>
    BY <1>1 DEF tables
  <2>2. invalidateRolePermsCache \/ (UNCHANGED <<maps, cur, late>> /\ ~DropsPerms(req[w]))
    BY <1>1 DEF Invalidates, DropsPerms
  <2>3. invalidateMenuCache \/ (UNCHANGED <<menuCache, menusLate>> /\ ~DropsMenus(req[w]))
    BY <1>1 DEF Invalidates, DropsMenus
  <2>4. QED
    BY <2>1, <2>2, <2>3 DEF Drops
<1>5. Tables' /\ failed' \in BOOLEAN /\ changes' \in 0..MaxChanges
  BY <1>1 DEF Types, Tables, tables
<1>6. QED
  BY <1>1, <1>2, <1>3, <1>4, <1>5 DEF Does

\* A menu that is written has a parent and is on or off.
LEMMA MenuWritten ==
    ASSUME menus \in Table, NEW m \in Menu, NEW p \in Menu \cup {Top}, NEW on \in BOOLEAN
    PROVE  [menus EXCEPT ![m] = [parent |-> p, on |-> on]] \in Table
  BY DEF Table, Row

\* The rows of sys_menu are menus.
LEMMA RowsAreMenus == Rows(menus) \subseteq Menu
  BY DEF Rows

\* Every step of the menu handlers (handler/menu.go) is a request's step.
LEMMA MenuStepDoes ==
    ASSUME Types, Orderly, NEW w \in Req,
           \/ AdminMenuCreate(w) \/ CreateMenu(w) \/ AdminMenuUpdate(w) \/ UpdateMenu(w)
           \/ BatchUpdateMenus(w) \/ AdminMenuDelete(w) \/ DeleteMenu(w)
    PROVE  Does(w)
<1>0. /\ menus \in Table /\ links \subseteq Role \X Menu /\ req[w] \in Job /\ changes \in 0..MaxChanges
      /\ failed \in BOOLEAN
  BY DEF Types, Tables
<1>1. ASSUME AdminMenuCreate(w) PROVE Does(w)
  <2>1. PICK p \in Rows(menus) \cup {Top}, on \in BOOLEAN :
          /\ Begins(w, [at |-> "ready", op |-> "create menu", p |-> p, on |-> on])
          /\ UNCHANGED <<tables, caches, read, failed>>
    BY <1>1 DEF AdminMenuCreate
  <2> DEFINE job == [at |-> "ready", op |-> "create menu", p |-> p, on |-> on]
  <2>2. job \in Job /\ job.at = "ready" /\ job.op \notin ForRoles
    BY RowsAreMenus DEF Job, MenuJob, ForRoles
  <2> HIDE DEF job
  <2>3. Begins(w, job)
    BY <2>1 DEF job
  <2>4. QED
    BY <2>1, <2>2, <2>3, BeginsQuietly DEF Fits
<1>2. ASSUME CreateMenu(w) PROVE Does(w)
  <2>1. req[w].at = "ready" /\ req[w].op = "create menu" /\ Commits(w, {"perms", "menus"})
        /\ UNCHANGED <<links, roles, seeded, users, holds>>
    BY <1>2 DEF CreateMenu, At
  <2>2. req[w].p \in Menu \cup {Top} /\ req[w].on \in BOOLEAN
    BY <1>0, <2>1, JobIs DEF Shaped
  <2>3. PICK m \in Custom : menus' = [menus EXCEPT ![m] = [parent |-> req[w].p, on |-> req[w].on]]
    BY <1>2 DEF CreateMenu
  <2>4. menus' \in Table
    BY <1>0, <2>2, <2>3, MenuWritten DEF Custom
  <2>5. Tables'
    BY <2>1, <2>4 DEF Types, Tables
  <2>6. QED
    BY <2>1, <2>5, CommitsDoes
<1>3. ASSUME AdminMenuUpdate(w) PROVE Does(w)
  <2>1. PICK m \in Rows(menus), p \in Rows(menus) \cup {Top}, on \in BOOLEAN :
          /\ Begins(w, [at |-> "ready", op |-> "update menu", m |-> m, p |-> p, on |-> on])
          /\ UNCHANGED <<tables, caches, read, failed>>
    BY <1>3 DEF AdminMenuUpdate
  <2> DEFINE job == [at |-> "ready", op |-> "update menu", m |-> m, p |-> p, on |-> on]
  <2>2. job \in Job /\ job.at = "ready" /\ job.op \notin ForRoles
    BY RowsAreMenus DEF Job, MenuJob, ForRoles
  <2> HIDE DEF job
  <2>3. Begins(w, job)
    BY <2>1 DEF job
  <2>4. QED
    BY <2>1, <2>2, <2>3, BeginsQuietly DEF Fits
<1>4. ASSUME UpdateMenu(w) PROVE Does(w)
  <2>1. req[w].at = "ready" /\ req[w].op = "update menu" /\ Commits(w, {"perms", "menus"})
        /\ UNCHANGED <<links, roles, seeded, users, holds>>
    BY <1>4 DEF UpdateMenu, At
  <2>2. req[w].m \in Menu /\ req[w].p \in Menu \cup {Top} /\ req[w].on \in BOOLEAN
    BY <1>0, <2>1, JobIs DEF Shaped
  <2>3. menus' = [menus EXCEPT ![req[w].m] = [parent |-> req[w].p, on |-> req[w].on]] \/ menus' = menus
    BY <1>4 DEF UpdateMenu
  <2>4. menus' \in Table
    BY <1>0, <2>2, <2>3, MenuWritten
  <2>5. Tables'
    BY <2>1, <2>4 DEF Types, Tables
  <2>6. QED
    BY <2>1, <2>5, CommitsDoes
<1>5. ASSUME BatchUpdateMenus(w) PROVE Does(w)
  <2>1. PICK ms \in SUBSET Rows(menus) \ {{}}, on \in BOOLEAN :
          /\ Begins(w, [at |-> "done", op |-> "drop", drops |-> {"perms", "menus"}])
          /\ menus' = [m \in Menu |-> IF m \in ms THEN [menus[m] EXCEPT !.on = on] ELSE menus[m]]
    BY <1>5 DEF BatchUpdateMenus
  <2>2. /\ UNCHANGED <<links, roles, seeded, users, holds>> /\ UNCHANGED <<caches, failed>> /\ Notes
    BY <1>5 DEF BatchUpdateMenus
  <2> DEFINE job == [at |-> "done", op |-> "drop", drops |-> {"perms", "menus"}]
  <2>3. job \in Job
    BY DEF Job
  <2>4. Turns(w, job) /\ req[w] = Idle /\ changes < MaxChanges /\ changes' = changes + 1
    BY <2>1 DEF Begins, Turns
  <2>5. changes' \in 0..MaxChanges /\ failed' \in BOOLEAN
    BY <1>0, <2>2, <2>4, PermissionsAssumption
  <2>6. menus' \in Table
    <3>1. ASSUME NEW m \in Menu PROVE menus'[m] \in Row \cup {Never, Gone}
      <4>1. CASE m \in ms
        <5>1. menus[m] \in Row
          BY <1>0, <4>1 DEF Rows, Table
        <5>2. [menus[m] EXCEPT !.on = on] \in Row
          BY <5>1 DEF Row
        <5>3. QED
          BY <2>1, <4>1, <5>2
      <4>2. CASE m \notin ms
        BY <1>0, <2>1, <4>2 DEF Table
      <4>3. QED
        BY <4>1, <4>2
    <3>2. QED
      BY <2>1, <3>1 DEF Table
  <2>7. Tables'
    BY <2>2, <2>6 DEF Types, Tables
  <2>8. Ordered(w, job)
    BY <2>2 DEF Ordered, Orderly, RolesGo
  <2>9. Writes(w, job)
    BY <2>2, <2>4, Rest DEF Writes, DropsPerms, DropsMenus
  <2> HIDE DEF job
  <2>10. QED
    BY <2>2, <2>3, <2>4, <2>5, <2>7, <2>8, <2>9 DEF Does
<1>6. ASSUME AdminMenuDelete(w) PROVE Does(w)
  <2>1. PICK m \in Rows(menus) :
          /\ Begins(w, [at |-> "ready", op |-> "delete menu", ms |-> collectChildren(menus, m)])
          /\ UNCHANGED <<tables, caches, read, failed>>
    BY <1>6 DEF AdminMenuDelete
  <2>2. collectChildren(menus, m) \in Subtrees
    BY <1>0, RowsAreMenus, SubtreeThere
  <2> DEFINE job == [at |-> "ready", op |-> "delete menu", ms |-> collectChildren(menus, m)]
  <2>3. job \in Job /\ job.at = "ready" /\ job.op \notin ForRoles
    BY <2>2 DEF Job, MenuJob, ForRoles
  <2> HIDE DEF job
  <2>4. Begins(w, job)
    BY <2>1 DEF job
  <2>5. QED
    BY <2>1, <2>3, <2>4, BeginsQuietly DEF Fits
<1>7. ASSUME DeleteMenu(w) PROVE Does(w)
  <2>1. req[w].at = "ready" /\ req[w].op = "delete menu" /\ Commits(w, {"perms", "menus"})
        /\ UNCHANGED <<roles, seeded, users, holds>>
    BY <1>7 DEF DeleteMenu, At
  <2>2. menus' = [m \in Menu |-> IF m \in req[w].ms \cap Rows(menus) THEN Gone ELSE menus[m]]
        /\ links' \subseteq links
    BY <1>7 DEF DeleteMenu
  <2>3. menus' \in Table
    BY <1>0, <2>2 DEF Table
  <2>4. Tables'
    BY <1>0, <2>1, <2>2, <2>3 DEF Types, Tables
  <2>5. QED
    BY <2>1, <2>4, CommitsDoes
<1>8. QED
  BY <1>1, <1>2, <1>3, <1>4, <1>5, <1>6, <1>7

-----------------------------------------------------------------------------
(* The seeding of a tenant's roles, and the reset of the built-in menus.   *)

\* Nobody else has a transaction open when one opens.
LEMMA OpensAlone ==
    ASSUME req \in [Req -> Job], NoOpenTx
    PROVE  \A v \in Req : req[v].at # "open"
  BY Rest DEF NoOpenTx

\* So is every step of EnsureTenantRoles,
LEMMA SeedStepDoes ==
    ASSUME Types, Orderly, NEW w \in Req,
           AdminRoleList(w) \/ SkipsSeed(w) \/ Seeds(w) \/ SeedCommits(w)
    PROVE  Does(w)
<1>0. /\ Tables /\ req \in [Req -> Job] /\ req[w] \in Job /\ changes \in 0..MaxChanges /\ failed \in BOOLEAN
  BY DEF Types
<1>1. ASSUME AdminRoleList(w) PROVE Does(w)
  <2>1. Begins(w, Ensuring(Idle)) /\ UNCHANGED <<tables, caches, read, failed>>
    BY <1>1 DEF AdminRoleList
  <2>2. Idle \in Later
    BY DEF Later
  <2>3. PICK job : job = Ensuring(Idle)
    OBVIOUS
  <2>4. job \in Job /\ job.at \in {"idle", "ready", "counted"} /\ Fits(job)
    BY <2>2, <2>3, EnsuringIs
  <2>5. Begins(w, job)
    BY <2>1, <2>3
  <2>6. QED
    BY <2>1, <2>4, <2>5, BeginsQuietly DEF Fits
<1>2. ASSUME At(w, "counted", "seed")
      PROVE  /\ req[w] \in [at : {"counted", "open"}, op : {"seed"}, seen : Table, next : Later]
             /\ req[w].at = "counted"
  BY <1>0, <1>2, JobIs DEF At, Shaped
<1>3. ASSUME SkipsSeed(w) PROVE Does(w)
  <2>1. At(w, "counted", "seed") /\ seeded /\ Goes(w, req[w].next) /\ UNCHANGED <<tables, caches, read, failed>>
    BY <1>3 DEF SkipsSeed, MaySeed
  <2>2. req[w].next \in Later /\ req[w].at = "counted"
    BY <1>2, <2>1
  <2>3. req[w].next \in Job /\ req[w].next.at \in {"idle", "ready"}
    BY <2>2, LaterIs
  <2>4. Turns(w, req[w].next) /\ UNCHANGED <<menus, links, roles, seeded, holds, caches, read>>
        /\ UNCHANGED <<users, failed, changes>>
    BY <2>1 DEF Goes, Turns, tables
  <2>5. users' \in [User -> Member \cup {Never, Gone}] /\ failed' \in BOOLEAN /\ changes' \in 0..MaxChanges
    BY <1>0, <2>4 DEF Tables
  <2>6. QED
    BY <2>1, <2>2, <2>3, <2>4, <2>5, LaterIs, Quietly DEF Fits, ForRoles
<1>4. ASSUME Seeds(w) PROVE Does(w)
  <2> DEFINE job == [req[w] EXCEPT !.at = "open"]
  <2>1. /\ At(w, "counted", "seed") /\ NoOpenTx /\ ~seeded /\ invalidateRolePermsCache
        /\ Turns(w, job) /\ UNCHANGED <<tables, menuCache, menusLate, read, failed>> /\ UNCHANGED changes
    BY <1>4 DEF Seeds, MaySeed, Goes, Turns
  <2>2. /\ req[w] \in [at : {"counted", "open"}, op : {"seed"}, seen : Table, next : Later]
        /\ req[w].at = "counted"
    BY <1>2, <2>1
  <2>3. job \in [at : {"counted", "open"}, op : {"seed"}, seen : Table, next : Later] /\ job.at = "open"
    BY <2>2
  <2>4. job \in Job
    BY <2>3 DEF Job
  <2> HIDE DEF job
  <2>5. Ordered(w, job)
    BY <1>0, <2>1, <2>3, OpensAlone DEF Ordered, Orderly, RolesGo, tables
  <2>6. Drops(w)
    BY <2>1, <2>2 DEF Drops, DropsMenus, tables
  <2>7. Tables' /\ failed' \in BOOLEAN /\ changes' \in 0..MaxChanges
    BY <1>0, <2>1 DEF Tables, tables
  <2>8. QED
    BY <2>1, <2>4, <2>5, <2>6, <2>7 DEF Does
<1>5. ASSUME SeedCommits(w) PROVE Does(w)
  <2>1. At(w, "open", "seed") /\ seeded' = TRUE /\ UNCHANGED <<menus, users, holds>> /\ CommitsLast(w, req[w].next)
    BY <1>5 DEF SeedCommits
  <2>2. /\ req[w] \in [at : {"counted", "open"}, op : {"seed"}, seen : Table, next : Later]
        /\ req[w].at = "open" /\ req[w].op = "seed"
    BY <1>0, <2>1, JobIs DEF At, Shaped
  <2>3. ~seeded
    BY <2>2 DEF Orderly
  <2>4. NewRole = 1
    <3>1. {r \in Role : roles[r] # Never} = {}
      BY <2>3 DEF Orderly
    <3>2. QED
      BY <3>1, FS_EmptySet DEF NewRole
  <2>5. /\ roles' = [roles EXCEPT ![1] = "admin", ![1 + 1] = "staff"]
        /\ links' = links
                \cup {<<1, m>> : m \in Rows(req[w].seen) \cap Business}
                \cup {<<1 + 1, m>> : m \in {k \in Enabled(req[w].seen) : PermOf[k] \in Staff}}
    BY <1>5, <2>4 DEF SeedCommits
  <2>6. 1 \in Role /\ 1 + 1 \in Role
    BY PermissionsAssumption DEF Role
  <2>7. links' \subseteq Role \X Menu
    BY <1>0, <2>5, <2>6 DEF Tables, Rows, Enabled
  <2>8. roles' \in [Role -> Code \cup {Never, Gone}]
    BY <1>0, <2>5, <2>6 DEF Tables, Code
  <2>9. Tables'
    BY <1>0, <2>1, <2>7, <2>8 DEF Tables
  <2>10. req[w].next \in Job /\ req[w].next.at \in {"idle", "ready"}
    BY <2>2, LaterIs
  <2>11. RolesGo
    <3>1. {"admin", "staff"} \subseteq Code /\ Never \notin Code
      BY PermissionsAssumption DEF Code
    <3>2. QED
      BY <1>0, <2>3, <2>5, <3>1 DEF RolesGo, Tables
  <2>12. QED
    BY <2>1, <2>2, <2>3, <2>9, <2>10, <2>11, LaterIs, CommitsLastDoes DEF ForRoles
<1>6. QED
  BY <1>1, <1>3, <1>4, <1>5

\* The seed is a table of menus, the restored links are links.
LEMMA SeedIsTable == ASSUME menus \in Table PROVE WithSeed(menus) \in Table
<1>1. ASSUME NEW m \in Menu PROVE WithSeed(menus)[m] \in Row \cup {Never, Gone}
  <2>1. CASE m \in Builtin
    <3>1. Home[m] \in Menu \cup {Top}
      BY <2>1, MenuAssumption
    <3>2. WithSeed(menus)[m] = [parent |-> Home[m], on |-> TRUE]
      BY <2>1 DEF WithSeed
    <3>3. QED
      BY <3>1, <3>2 DEF Row
  <2>2. CASE m \notin Builtin
    BY <2>2 DEF WithSeed, Table
  <2>3. QED
    BY <2>1, <2>2
<1>2. QED
  BY <1>1 DEF Table, WithSeed

\* of ResetBuiltinMenus,
LEMMA ResetStepDoes ==
    ASSUME Types, Orderly, NEW w \in Req,
           ResetBegins(w) \/ ResetFails(w) \/ ResetWrites(w) \/ ResetCommits(w)
    PROVE  Does(w)
<1>0. /\ Tables /\ req \in [Req -> Job] /\ req[w] \in Job /\ changes \in 0..MaxChanges /\ failed \in BOOLEAN
      /\ Idle \in Job
  BY DEF Types, Job, Later
<1>1. ASSUME ResetBegins(w) PROVE Does(w)
  <2> DEFINE job == [at |-> "ready", op |-> "reset menus", ms |-> Rows(menus) \cap Builtin]
  <2>1. Begins(w, job) /\ UNCHANGED <<tables, caches, read, failed>>
    BY <1>1 DEF ResetBegins
  <2>2. job \in Job /\ job.at = "ready" /\ job.op \notin ForRoles
    BY DEF Job, MenuJob, ForRoles
  <2> HIDE DEF job
  <2>3. QED
    BY <2>1, <2>2, BeginsQuietly DEF Fits
<1>2. ASSUME ResetFails(w) PROVE Does(w)
  <2>1. /\ req[w].at = "ready" /\ req[w].op = "reset menus" /\ failed' = TRUE /\ Turns(w, Idle) /\ UNCHANGED changes
        /\ UNCHANGED <<tables, caches, read>>
    BY <1>2 DEF ResetFails, At, Ends, Goes, Turns
  <2>2. UNCHANGED <<menus, links, roles, seeded, holds, caches, read>> /\ UNCHANGED users
    BY <2>1 DEF tables
  <2>3. users' \in [User -> Member \cup {Never, Gone}] /\ failed' \in BOOLEAN /\ changes' \in 0..MaxChanges
    BY <1>0, <2>1, <2>2 DEF Tables
  <2>4. QED
    BY <1>0, <2>1, <2>2, <2>3, Rest, Quietly DEF Fits
<1>3. ASSUME ResetWrites(w) PROVE Does(w)
  <2> DEFINE job == [req[w] EXCEPT !.at = "open"]
  <2>1. /\ At(w, "ready", "reset menus") /\ NoOpenTx /\ invalidateRolePermsCache /\ invalidateMenuCache
        /\ Turns(w, job) /\ UNCHANGED changes /\ UNCHANGED <<tables, read, failed>>
    BY <1>3 DEF ResetWrites, Goes, Turns
  <2>2. req[w] \in [at : {"ready", "open"}, op : {"reset menus"}, ms : SUBSET Builtin]
    BY <1>0, <2>1, JobIs DEF At, Shaped
  <2>3. /\ job \in [at : {"ready", "open"}, op : {"reset menus"}, ms : SUBSET Builtin]
        /\ job.at = "open" /\ job.op = "reset menus"
    BY <2>2
  <2>4. job \in Job
    BY <2>3 DEF Job, MenuJob
  <2> HIDE DEF job
  <2>5. Ordered(w, job)
    BY <1>0, <2>1, <2>3, OpensAlone DEF Ordered, Orderly, RolesGo, tables
  <2>6. Drops(w)
    BY <2>1 DEF Drops, tables
  <2>7. Tables' /\ failed' \in BOOLEAN /\ changes' \in 0..MaxChanges
    BY <1>0, <2>1 DEF Tables, tables
  <2>8. QED
    BY <2>1, <2>4, <2>5, <2>6, <2>7 DEF Does
<1>4. ASSUME ResetCommits(w) PROVE Does(w)
  <2>1. /\ menus' = WithSeed(menus) /\ links' = LinksKept(req[w].ms) \cup AdminsRestored
        /\ UNCHANGED <<roles, seeded, users, holds>> /\ CommitsLast(w, Idle)
    BY <1>4 DEF ResetCommits
  <2>2. menus' \in Table
    BY <1>0, <2>1, SeedIsTable DEF Tables
  <2>3. Builtin \cup Rows(menus) \subseteq Menu
    BY MenuAssumption DEF Rows
  <2>4. AdminsRestored \subseteq Role \X Menu
    BY <2>3 DEF AdminsRestored, AdminLinks
  <2>5. links' \subseteq Role \X Menu
    BY <1>0, <2>1, <2>4 DEF Tables, LinksKept
  <2>6. Tables'
    BY <1>0, <2>1, <2>2, <2>5 DEF Tables
  <2>7. QED
    BY <1>0, <2>1, <2>6, Rest, CommitsLastDoes DEF Orderly
<1>5. QED
  BY <1>1, <1>2, <1>3, <1>4

-----------------------------------------------------------------------------
(* Roles                                                                   *)

\* While nothing is seeded there are no roles, and no request is about one.
LEMMA RolesSeeded == ASSUME Types, Orderly, Live # {} PROVE seeded
<1>1. PICK r \in Role : roles[r] \in Code
  BY DEF Live
<1>2. roles[r] # Never
  BY <1>1, PermissionsAssumption
<1>3. QED
  BY <1>2 DEF Orderly

\* of the role handlers,
LEMMA RoleStepDoes ==
    ASSUME Types, Orderly, NEW w \in Req,
           \/ AdminRoleCreate(w) \/ CreateRole(w) \/ AdminRoleUpdate(w) \/ UpdateRole(w)
           \/ AdminRoleDelete(w) \/ DeleteRoleMembers(w) \/ DeleteRoleMenus(w) \/ DeleteRole(w)
    PROVE  Does(w)
<1>0. /\ Tables /\ req \in [Req -> Job] /\ req[w] \in Job /\ changes \in 0..MaxChanges /\ failed \in BOOLEAN
  BY DEF Types
<1>1. ASSUME AdminRoleCreate(w) PROVE Does(w)
  <2>1. PICK ms \in SUBSET Rows(menus) :
          /\ Begins(w, Ensuring([at |-> "ready", op |-> "create role", ms |-> ms]))
          /\ UNCHANGED <<tables, caches, read, failed>>
    BY <1>1 DEF AdminRoleCreate
  <2>2. PICK next : next = [at |-> "ready", op |-> "create role", ms |-> ms]
    OBVIOUS
  <2>3. next \in Later
    BY <2>2, RowsAreMenus DEF Later
  <2>4. PICK job : job = Ensuring(next)
    OBVIOUS
  <2>5. job \in Job /\ job.at \in {"idle", "ready", "counted"} /\ Fits(job)
    BY <2>3, <2>4, EnsuringIs
  <2>6. Begins(w, job)
    BY <2>1, <2>2, <2>4
  <2>7. QED
    BY <2>1, <2>5, <2>6, BeginsQuietly DEF Fits
<1>2. ASSUME CreateRole(w) PROVE Does(w)
  <2>1. req[w].at = "ready" /\ req[w].op = "create role" /\ Commits(w, {"perms"})
        /\ UNCHANGED <<menus, seeded, users, holds>>
    BY <1>2 DEF CreateRole, At
  <2>2. PICK r \in Role : /\ roles' = [roles EXCEPT ![r] = "custom"]
                          /\ links' = links \cup {<<r, m>> : m \in req[w].ms}
    BY <1>2 DEF CreateRole
  <2>3. req[w].ms \subseteq Menu
    BY <1>0, <2>1, JobIs DEF Shaped
  <2>4. Tables'
    <3>1. links' \subseteq Role \X Menu
      BY <1>0, <2>2, <2>3 DEF Tables
    <3>2. roles' \in [Role -> Code \cup {Never, Gone}]
      BY <1>0, <2>2 DEF Tables, Code
    <3>3. QED
      BY <1>0, <2>1, <3>1, <3>2 DEF Tables
  <2>5. seeded
    BY <2>1 DEF Orderly, ForRoles
  <2>6. RolesGo
    <3>1. "custom" # Never
      BY PermissionsAssumption DEF Code
    <3>2. QED
      BY <1>0, <2>2, <3>1 DEF RolesGo, Tables
  <2>7. QED
    BY <2>1, <2>4, <2>5, <2>6, CommitsDoes
<1>3. ASSUME AdminRoleUpdate(w) PROVE Does(w)
  <2>1. PICK r \in Live, ms \in SUBSET Rows(menus) :
          /\ Begins(w, [at |-> "ready", op |-> "update role", r |-> r, ms |-> ms])
          /\ UNCHANGED <<tables, caches, read, failed>>
    BY <1>3 DEF AdminRoleUpdate
  <2> DEFINE job == [at |-> "ready", op |-> "update role", r |-> r, ms |-> ms]
  <2>2. job \in Job /\ job.at = "ready" /\ job.op \notin ForRoles
    BY RowsAreMenus DEF Job, RoleJob, ForRoles, Live
  <2> HIDE DEF job
  <2>3. Begins(w, job)
    BY <2>1 DEF job
  <2>4. QED
    BY <2>1, <2>2, <2>3, BeginsQuietly DEF Fits
<1>4. ASSUME UpdateRole(w) PROVE Does(w)
  <2>1. req[w].at = "ready" /\ req[w].op = "update role" /\ Commits(w, {"perms"})
        /\ UNCHANGED <<menus, roles, seeded, users, holds>> /\ links' = Relinked(req[w].r, req[w].ms)
    BY <1>4 DEF UpdateRole, At
  <2>2. req[w].r \in Role /\ req[w].ms \subseteq Menu
    BY <1>0, <2>1, JobIs DEF Shaped
  <2>3. Tables'
    <3>1. {l \in links : l[1] # req[w].r} \subseteq Role \X Menu
      BY <1>0 DEF Tables
    <3>2. {<<req[w].r, m>> : m \in req[w].ms} \subseteq Role \X Menu
      BY <2>2
    <3>3. links' \subseteq Role \X Menu
      BY <2>1, <3>1, <3>2, Zenon DEF Relinked
    <3>4. QED
      BY <1>0, <2>1, <3>3 DEF Tables
  <2>4. QED
    BY <2>1, <2>3, CommitsDoes
<1>5. ASSUME AdminRoleDelete(w) PROVE Does(w)
  <2>1. PICK r \in Live : /\ Begins(w, [at |-> "ready", op |-> "delete role", r |-> r])
                          /\ UNCHANGED <<tables, caches, read, failed>>
    BY <1>5 DEF AdminRoleDelete
  <2>2. seeded
    BY <2>1, RolesSeeded
  <2> DEFINE job == [at |-> "ready", op |-> "delete role", r |-> r]
  <2>3. job \in Job /\ job.at = "ready"
    BY DEF Job, RoleJob, Live
  <2> HIDE DEF job
  <2>4. Begins(w, job) /\ job.r = r
    BY <2>1 DEF job
  <2>5. roles[r] # Never
    BY PermissionsAssumption DEF Live
  <2>6. QED
    BY <2>1, <2>2, <2>3, <2>4, <2>5, BeginsQuietly DEF Fits
<1>6. ASSUME NEW op \in {"delete its links", "delete its row"}, Goes(w, [req[w] EXCEPT !.op = op]),
             req[w] \in [at : {"ready"}, op : {"delete role", "delete its links", "delete its row"}, r : Role],
             UNCHANGED <<menus, roles, seeded, users>>, Tables', Notes, UNCHANGED <<caches, failed>>, seeded,
             roles[req[w].r] # Never
      PROVE  Does(w)
  <2> DEFINE job == [req[w] EXCEPT !.op = op]
  <2>1. /\ job \in [at : {"ready"}, op : {"delete role", "delete its links", "delete its row"}, r : Role]
        /\ job.at = "ready" /\ job.op = op /\ job.r = req[w].r
    BY <1>6
  <2>2. job \in Job
    BY <2>1 DEF Job, RoleJob
  <2>3. Turns(w, job) /\ UNCHANGED changes
    BY <1>6 DEF Goes, Turns
  <2> HIDE DEF job
  <2>4. Ordered(w, job)
    BY <1>6, <2>1 DEF Ordered, Orderly, RolesGo
  <2>5. Writes(w, job)
    BY <1>6, <2>1 DEF Writes, DropsPerms, DropsMenus
  <2>6. QED
    BY <1>0, <1>6, <2>2, <2>3, <2>4, <2>5 DEF Does
<1>7. ASSUME req[w].at = "ready", req[w].op \in {"delete role", "delete its links", "delete its row"}
      PROVE  /\ req[w] \in [at : {"ready"}, op : {"delete role", "delete its links", "delete its row"}, r : Role]
             /\ seeded /\ roles[req[w].r] # Never
  BY <1>0, <1>7, JobIs DEF Shaped, Orderly, ForRoles
<1>8. ASSUME DeleteRoleMembers(w) PROVE Does(w)
  <2>1. /\ req[w].at = "ready" /\ req[w].op = "delete role" /\ Goes(w, [req[w] EXCEPT !.op = "delete its links"])
        /\ holds' \subseteq holds /\ UNCHANGED <<menus, links, roles, seeded, users>>
        /\ Notes /\ UNCHANGED <<caches, failed>>
    BY <1>8 DEF DeleteRoleMembers, At
  <2>2. Tables'
    BY <1>0, <2>1 DEF Tables
  <2>3. QED
    BY <1>6, <1>7, <2>1, <2>2
<1>9. ASSUME DeleteRoleMenus(w) PROVE Does(w)
  <2>1. /\ req[w].at = "ready" /\ req[w].op = "delete its links" /\ Goes(w, [req[w] EXCEPT !.op = "delete its row"])
        /\ links' \subseteq links /\ UNCHANGED <<menus, roles, seeded, users, holds>>
        /\ Notes /\ UNCHANGED <<caches, failed>>
    BY <1>9 DEF DeleteRoleMenus, At
  <2>2. Tables'
    BY <1>0, <2>1 DEF Tables
  <2>3. QED
    BY <1>6, <1>7, <2>1, <2>2
<1>10. ASSUME DeleteRole(w) PROVE Does(w)
  <2>1. req[w].at = "ready" /\ req[w].op = "delete its row" /\ Commits(w, {"perms"})
        /\ UNCHANGED <<menus, links, seeded, users, holds>> /\ roles' = [roles EXCEPT ![req[w].r] = Gone]
    BY <1>10 DEF DeleteRole, At
  <2>2. req[w].r \in Role /\ seeded /\ roles[req[w].r] # Never
    BY <1>7, <2>1
  <2>3. Tables'
    BY <1>0, <2>1, <2>2 DEF Tables
  <2>4. RolesGo
    BY <1>0, <2>1, <2>2, MenuAssumption DEF RolesGo, Tables
  <2>5. QED
    BY <2>1, <2>2, <2>3, <2>4, CommitsDoes
<1>11. QED
  BY <1>1, <1>2, <1>3, <1>4, <1>5, <1>8, <1>9, <1>10

-----------------------------------------------------------------------------
(* Members                                                                 *)

\* A member that is changed is one still.
LEMMA MemberWritten ==
    ASSUME users \in [User -> Member \cup {Never, Gone}], NEW u \in Members, NEW v \in Member
    PROVE  /\ users[u] \in Member /\ u \in User
           /\ [users EXCEPT ![u] = v] \in [User -> Member \cup {Never, Gone}]
  BY DEF Members

\* and of the member handlers (handler/rbac.go).
LEMMA UserStepDoes ==
    ASSUME Types, Orderly, NEW w \in Req,
           \/ AdminMemberCreate(w) \/ CreateUser(w) \/ AdminMemberRoles(w) \/ SetUserRoles(w)
           \/ AdminMemberUpdate(w) \/ UpdateUserFields(w) \/ AdminMemberStatus(w)
           \/ AdminMemberPassword(w) \/ UpdateUserPassword(w)
           \/ DeleteUser(w) \/ DeleteUserCommits(w)
    PROVE  Does(w)
<1>0. /\ Tables /\ req \in [Req -> Job] /\ req[w] \in Job /\ changes \in 0..MaxChanges /\ failed \in BOOLEAN
      /\ Idle \in Job /\ users \in [User -> Member \cup {Never, Gone}]
  BY DEF Types, Tables, Job, Later
<1>a. Live \subseteq Role /\ Members \subseteq User /\ \A u \in Members : users[u] \in Member
  BY <1>0 DEF Live, Members
<1>1. ASSUME AdminMemberCreate(w) PROVE Does(w)
  <2>1. PICK n \in Name, rs \in SUBSET Live \ {{}} :
          /\ Begins(w, Ensuring([at |-> "ready", op |-> "create user", n |-> n, rs |-> rs]))
          /\ UNCHANGED <<tables, caches, read, failed>>
    BY <1>1 DEF AdminMemberCreate
  <2>2. PICK next : next = [at |-> "ready", op |-> "create user", n |-> n, rs |-> rs]
    OBVIOUS
  <2>3. next \in Later
    BY <1>a, <2>2 DEF Later
  <2>4. PICK job : job = Ensuring(next)
    OBVIOUS
  <2>5. job \in Job /\ job.at \in {"idle", "ready", "counted"} /\ Fits(job)
    BY <2>3, <2>4, EnsuringIs
  <2>6. Begins(w, job)
    BY <2>1, <2>2, <2>4
  <2>7. QED
    BY <2>1, <2>5, <2>6, BeginsQuietly DEF Fits
<1>2. ASSUME CreateUser(w) PROVE Does(w)
  <2>1. /\ req[w].at = "ready" /\ req[w].op = "create user" /\ CommitsLast(w, Idle)
        /\ UNCHANGED <<menus, links, roles, seeded>>
    BY <1>2 DEF CreateUser, At
  <2>2. req[w].n \in Name /\ req[w].rs \subseteq Role
    BY <1>0, <2>1, JobIs DEF Shaped
  <2>3. Tables'
    <3>1. CASE UNCHANGED <<users, holds>>
      BY <1>0, <2>1, <3>1 DEF Tables
    <3>2. CASE \E u \in User :
                  /\ users' = [users EXCEPT ![u] = [name |-> req[w].n, hashed |-> req[w].n, on |-> TRUE]]
                  /\ holds' = holds \cup {<<u, r>> : r \in req[w].rs}
      <4>1. PICK u \in User :
                  /\ users' = [users EXCEPT ![u] = [name |-> req[w].n, hashed |-> req[w].n, on |-> TRUE]]
                  /\ holds' = holds \cup {<<u, r>> : r \in req[w].rs}
        BY <3>2
      <4>2. [name |-> req[w].n, hashed |-> req[w].n, on |-> TRUE] \in Member
        BY <2>2 DEF Member
      <4>3. users' \in [User -> Member \cup {Never, Gone}]
        BY <1>0, <4>1, <4>2
      <4>4. holds' \subseteq User \X Role
        BY <1>0, <2>2, <4>1 DEF Tables
      <4>5. QED
        BY <1>0, <2>1, <4>3, <4>4 DEF Tables
    <3>3. QED
      BY <1>2, <3>1, <3>2 DEF CreateUser
  <2>4. QED
    BY <1>0, <2>1, <2>3, Rest, CommitsLastDoes
<1>3. ASSUME AdminMemberRoles(w) PROVE Does(w)
  <2>1. PICK u \in Members, rs \in SUBSET Live \ {{}} :
          /\ Begins(w, [at |-> "ready", op |-> "set roles", u |-> u, rs |-> rs])
          /\ UNCHANGED <<tables, caches, read, failed>>
    BY <1>3 DEF AdminMemberRoles
  <2> DEFINE job == [at |-> "ready", op |-> "set roles", u |-> u, rs |-> rs]
  <2>2. job \in Job /\ job.at = "ready" /\ job.op \notin ForRoles
    BY <1>a DEF Job, UserJob, ForRoles
  <2> HIDE DEF job
  <2>3. Begins(w, job)
    BY <2>1 DEF job
  <2>4. QED
    BY <2>1, <2>2, <2>3, BeginsQuietly DEF Fits
<1>4. ASSUME SetUserRoles(w) PROVE Does(w)
  <2>1. /\ req[w].at = "ready" /\ req[w].op = "set roles" /\ CommitsLast(w, Idle)
        /\ UNCHANGED <<menus, links, roles, seeded, users>>
        /\ holds' = {h \in holds : h[1] # req[w].u} \cup {<<req[w].u, r>> : r \in req[w].rs}
    BY <1>4 DEF SetUserRoles, At
  <2>2. req[w].u \in User /\ req[w].rs \subseteq Role
    BY <1>0, <2>1, JobIs DEF Shaped
  <2>3. Tables'
    <3>1. {h \in holds : h[1] # req[w].u} \subseteq User \X Role
      BY <1>0 DEF Tables
    <3>2. {<<req[w].u, r>> : r \in req[w].rs} \subseteq User \X Role
      BY <2>2
    <3>3. holds' \subseteq User \X Role
      BY <2>1, <3>1, <3>2, Zenon
    <3>4. QED
      BY <1>0, <2>1, <3>3 DEF Tables
  <2>4. QED
    BY <1>0, <2>1, <2>3, Rest, CommitsLastDoes
<1>5. ASSUME AdminMemberUpdate(w) PROVE Does(w)
  <2>1. PICK u \in Members, n \in Name, rs \in SUBSET Live :
          /\ Begins(w, [at |-> "ready", op |-> "update user", u |-> u, n |-> n, rs |-> rs])
          /\ UNCHANGED <<tables, caches, read, failed>>
    BY <1>5 DEF AdminMemberUpdate
  <2> DEFINE job == [at |-> "ready", op |-> "update user", u |-> u, n |-> n, rs |-> rs]
  <2>2. job \in Job /\ job.at = "ready" /\ job.op \notin ForRoles
    BY <1>a DEF Job, UserJob, ForRoles
  <2> HIDE DEF job
  <2>3. Begins(w, job)
    BY <2>1 DEF job
  <2>4. QED
    BY <2>1, <2>2, <2>3, BeginsQuietly DEF Fits
<1>6. ASSUME UpdateUserFields(w) PROVE Does(w)
  <2>1. /\ req[w].at = "ready" /\ req[w].op = "update user"
        /\ UNCHANGED <<menus, links, roles, seeded, holds, caches, read>> /\ UNCHANGED failed
    BY <1>6 DEF UpdateUserFields, At
  <2>2. req[w].u \in User /\ req[w].n \in Name /\ req[w].rs \subseteq Role
    BY <1>0, <2>1, JobIs DEF Shaped
  <2> DEFINE sets == [at |-> "ready", op |-> "set roles", u |-> req[w].u, rs |-> req[w].rs \cap Live]
  <2>3. \/ UNCHANGED users /\ Goes(w, Idle)
        \/ /\ users' = IF req[w].u \in Members THEN [users EXCEPT ![req[w].u].name = req[w].n] ELSE users
           /\ Goes(w, IF req[w].rs = {} THEN Idle ELSE sets)
    BY <1>6 DEF UpdateUserFields, Ends
  <2>4. sets \in Job /\ sets.at = "ready" /\ sets.op \notin ForRoles
    BY <2>2 DEF Job, UserJob, ForRoles
  <2> HIDE DEF sets
  <2>5. PICK job \in {Idle, sets} : Goes(w, job)
    BY <2>3
  <2>6. Turns(w, job) /\ UNCHANGED changes
    BY <2>5 DEF Goes, Turns
  <2>7. users' \in [User -> Member \cup {Never, Gone}]
    <3>1. CASE UNCHANGED users
      BY <1>0, <3>1
    <3>2. CASE req[w].u \in Members /\ users' = [users EXCEPT ![req[w].u].name = req[w].n]
      <4>1. users[req[w].u] \in Member
        BY <1>a, <3>2
      <4>2. [users[req[w].u] EXCEPT !.name = req[w].n] \in Member
        BY <2>2, <4>1 DEF Member
      <4>3. QED
        BY <1>0, <3>2, <4>2
    <3>3. QED
      BY <2>3, <3>1, <3>2
  <2>8. job \in Job /\ job.at \in {"idle", "ready"} /\ (job.at = "ready" => job.op \notin ForRoles)
    BY <1>0, <2>4, <2>5, Rest
  <2>9. failed' \in BOOLEAN /\ changes' \in 0..MaxChanges
    BY <1>0, <2>1, <2>6
  <2>10. QED
    BY <2>1, <2>6, <2>7, <2>8, <2>9, Quietly DEF Fits
<1>7. ASSUME AdminMemberStatus(w) PROVE Does(w)
  <2>1. /\ req[w] = Idle /\ changes < MaxChanges /\ changes' = changes + 1 /\ UNCHANGED <<req, failed>>
        /\ UNCHANGED <<menus, links, roles, seeded, holds, caches, read>>
    BY <1>7 DEF AdminMemberStatus
  <2>2. PICK u \in Members, on \in BOOLEAN : users' = [users EXCEPT ![u].on = on]
    BY <1>7 DEF AdminMemberStatus
  <2>3. [users[u] EXCEPT !.on = on] \in Member
    BY <1>a, <2>2 DEF Member
  <2>4. users' \in [User -> Member \cup {Never, Gone}]
    BY <1>0, <1>a, <2>2, <2>3
  <2>5. Turns(w, Idle)
    BY <1>0, <2>1 DEF Turns
  <2>6. failed' \in BOOLEAN /\ changes' \in 0..MaxChanges
    BY <1>0, <2>1, PermissionsAssumption
  <2>7. QED
    BY <1>0, <2>1, <2>4, <2>5, <2>6, Rest, Quietly DEF Fits
<1>8. ASSUME AdminMemberPassword(w) PROVE Does(w)
  <2>1. PICK u \in Members :
          /\ Begins(w, [at |-> "ready", op |-> "set password", u |-> u, n |-> users[u].name])
          /\ UNCHANGED <<tables, caches, read, failed>>
    BY <1>8 DEF AdminMemberPassword
  <2> DEFINE job == [at |-> "ready", op |-> "set password", u |-> u, n |-> users[u].name]
  <2>2. users[u].name \in Name
    BY <1>a DEF Member
  <2>3. job \in Job /\ job.at = "ready" /\ job.op \notin ForRoles
    BY <1>a, <2>2 DEF Job, UserJob, ForRoles
  <2> HIDE DEF job
  <2>4. Begins(w, job)
    BY <2>1 DEF job
  <2>5. QED
    BY <2>1, <2>3, <2>4, BeginsQuietly DEF Fits
<1>9. ASSUME UpdateUserPassword(w) PROVE Does(w)
  <2>1. /\ req[w].at = "ready" /\ req[w].op = "set password" /\ Turns(w, Idle) /\ UNCHANGED changes
        /\ UNCHANGED <<menus, links, roles, seeded, holds, caches, read>> /\ UNCHANGED failed
        /\ users' = IF req[w].u \in Members THEN [users EXCEPT ![req[w].u].hashed = req[w].n] ELSE users
    BY <1>9 DEF UpdateUserPassword, At, Ends, Goes, Turns
  <2>2. req[w].u \in User /\ req[w].n \in Name
    BY <1>0, <2>1, JobIs DEF Shaped
  <2>3. users' \in [User -> Member \cup {Never, Gone}]
    <3>1. CASE req[w].u \in Members
      <4>1. [users[req[w].u] EXCEPT !.hashed = req[w].n] \in Member
        BY <1>a, <2>2, <3>1 DEF Member
      <4>2. QED
        BY <1>0, <2>1, <3>1, <4>1
    <3>2. CASE req[w].u \notin Members
      BY <1>0, <2>1, <3>2
    <3>3. QED
      BY <3>1, <3>2
  <2>4. failed' \in BOOLEAN /\ changes' \in 0..MaxChanges
    BY <1>0, <2>1
  <2>5. QED
    BY <1>0, <2>1, <2>3, <2>4, Rest, Quietly DEF Fits
<1>10. ASSUME DeleteUser(w) PROVE Does(w)
  <2>1. PICK u \in Members : Begins(w, [at |-> "open", op |-> "delete user", u |-> u])
    BY <1>10 DEF DeleteUser
  <2>2. NoOpenTx /\ invalidateRolePermsCache /\ UNCHANGED <<tables, menuCache, menusLate, read, failed>>
    BY <1>10 DEF DeleteUser
  <2> DEFINE job == [at |-> "open", op |-> "delete user", u |-> u]
  <2>3. job \in Job /\ job.at = "open" /\ job.op = "delete user"
    BY <1>a DEF Job, UserJob
  <2> HIDE DEF job
  <2>4. Turns(w, job) /\ req[w] = Idle /\ changes < MaxChanges /\ changes' = changes + 1
    BY <2>1 DEF Begins, Turns, job
  <2>5. Ordered(w, job)
    BY <1>0, <2>2, <2>3, OpensAlone DEF Ordered, Orderly, RolesGo, tables
  <2>6. Drops(w)
    BY <2>2, <2>4, Rest DEF Drops, DropsMenus, tables
  <2>7. Tables' /\ failed' \in BOOLEAN /\ changes' \in 0..MaxChanges
    BY <1>0, <2>2, <2>4, PermissionsAssumption DEF Tables, tables
  <2>8. QED
    BY <2>3, <2>4, <2>5, <2>6, <2>7 DEF Does
<1>11. ASSUME DeleteUserCommits(w) PROVE Does(w)
  <2>1. /\ users' = [users EXCEPT ![req[w].u] = Gone] /\ holds' \subseteq holds
        /\ UNCHANGED <<menus, links, roles, seeded>> /\ CommitsLast(w, Idle)
    BY <1>11 DEF DeleteUserCommits
  <2>2. users' \in [User -> Member \cup {Never, Gone}]
    BY <1>0, <2>1
  <2>3. Tables'
    BY <1>0, <2>1, <2>2 DEF Tables
  <2>4. QED
    BY <1>0, <2>1, <2>3, Rest, CommitsLastDoes DEF Orderly
<1>12. QED
  BY <1>1, <1>2, <1>3, <1>4, <1>5, <1>6, <1>7, <1>8, <1>9, <1>10, <1>11

-----------------------------------------------------------------------------
(* The readers                                                             *)

\* A reader that looks finds what is there.
LEMMA LooksRight ==
    ASSUME Right, NEW r \in Reader, NEW call \in Call, Looks(r, call), call # Idle,
           ~call.old => call.found = Found(call)
    PROVE  Right'
<1>1. /\ read' = [read EXCEPT ![r] = call] /\ read \in [Reader -> Call]
      /\ UNCHANGED <<tables, caches, req, changes, failed>>
  BY DEF Looks, Right, Types
<1>2. UNCHANGED <<menus, links, holds>> /\ UNCHANGED <<roles, seeded, users>>
      /\ UNCHANGED <<maps, cur, menuCache, late, menusLate>> /\ UNCHANGED <<req, changes, failed>>
  BY <1>1 DEF tables, caches
<1>3. \A c \in Call : Found(c)' = Found(c)
  BY <1>2 DEF Found, Derived, MenusOf, RolesOf
<1>4. ReadersRight'
  <2>1. ASSUME NEW s \in Reader, NEW c \in Call, read'[s] = c, c # Idle, ~c.old
        PROVE  c.found = Found(c)
    BY <1>1, <2>1 DEF Right, ReadersRight
  <2>2. QED
    BY <1>3, <2>1 DEF ReadersRight
<1>5. Types'
  BY <1>1, <1>2 DEF Right, Types, Tables, Caches
<1>6. Orderly' /\ PermsRight' /\ MenusRight'
  <2>1. Orderly' /\ MenusRight'
    BY <1>2 DEF Right, Orderly, MenusRight
  <2>2. Cached' = Cached /\ Dropping("perms")' = Dropping("perms") /\ DOMAIN Cached \subseteq User
    BY <1>2 DEF Cached, Dropping, At, Right, Types, Caches
  <2>3. \A u \in User : Derived(u)' = Derived(u)
    BY <1>2 DEF Derived, MenusOf, RolesOf
  <2>4. QED
    BY <1>2, <2>1, <2>2, <2>3 DEF Right, PermsRight
<1>7. QED
  BY <1>4, <1>5, <1>6 DEF Right

\* Reading the tables for a user's permissions keeps the invariant: no cache is written.
LEMMA ReaderRight ==
    ASSUME Right, NEW r \in Reader,
           \/ ReadUserRoles(r) \/ ReadRoleMenus(r) \/ ReadMenuPerms(r) \/ ReadFails(r) \/ LoadMap(r)
    PROVE  Right'
<1>0. read[r] \in Call /\ cur \in MapId
  BY DEF Right, Types, Caches
<1>1. ASSUME read[r] # Idle
      PROVE  /\ read[r].u \in User /\ read[r].old \in BOOLEAN
             /\ ~read[r].old => read[r].found = Found(read[r])
             /\ read[r].at = "roles" => read[r].found \subseteq Role
             /\ read[r].at = "menus" => read[r].found \subseteq Menu
             /\ read[r].at \in {"perms", "map"} => read[r].found \subseteq Perm
  BY <1>0, <1>1, CallIs DEF Right, ReadersRight
<1>2. ASSUME ReadUserRoles(r) PROVE Right'
  <2>1. PICK u \in User : Looks(r, [at |-> "roles", u |-> u, old |-> FALSE, found |-> RolesOf(u)])
    BY <1>2 DEF ReadUserRoles
  <2> DEFINE call == [at |-> "roles", u |-> u, old |-> FALSE, found |-> RolesOf(u)]
  <2>2. RolesOf(u) \subseteq Role
    BY DEF RolesOf
  <2>3. call \in Call /\ call # Idle /\ call.at = "roles" /\ call.u = u /\ call.found = RolesOf(u)
    BY <2>2 DEF Call, Idle
  <2>4. call.found = Found(call)
    BY <2>3 DEF Found
  <2>5. Looks(r, call)
    BY <2>1
  <2> HIDE DEF call
  <2>6. QED
    BY <2>3, <2>4, <2>5, LooksRight
<1>3. ASSUME ReadRoleMenus(r) PROVE Right'
  <2>1. read[r] # Idle /\ read[r].at = "roles"
    BY <1>3 DEF ReadRoleMenus, Reads
  <2> DEFINE call == [at |-> "menus", u |-> read[r].u, old |-> read[r].old, found |-> MenusOf(read[r].found)]
  <2>2. MenusOf(read[r].found) \subseteq Menu
    BY DEF MenusOf
  <2>3. call \in Call /\ call # Idle /\ call.at = "menus" /\ call.u = read[r].u
        /\ call.found = MenusOf(read[r].found) /\ call.old = read[r].old
    BY <1>1, <2>1, <2>2 DEF Call, Idle
  <2>4. Looks(r, call)
    BY <1>3 DEF ReadRoleMenus, Reading
  <2> HIDE DEF call
  <2>5. ~call.old => call.found = Found(call)
    BY <1>1, <2>1, <2>3 DEF Found
  <2>6. QED
    BY <2>3, <2>4, <2>5, LooksRight
<1>4. ASSUME ReadMenuPerms(r) PROVE Right'
  <2>1. read[r] # Idle /\ read[r].at = "menus"
    BY <1>4 DEF ReadMenuPerms, Reads
  <2> DEFINE call == [at |-> "perms", u |-> read[r].u, old |-> read[r].old,
                      found |-> PermsOfMenuIDs(menus, read[r].found)]
  <2>2. PermsOfMenuIDs(menus, read[r].found) \subseteq Perm
    BY PermsArePerms
  <2>3. call \in Call /\ call # Idle /\ call.at = "perms" /\ call.u = read[r].u
        /\ call.found = PermsOfMenuIDs(menus, read[r].found) /\ call.old = read[r].old
    BY <1>1, <2>1, <2>2 DEF Call, Idle
  <2>4. Looks(r, call)
    BY <1>4 DEF ReadMenuPerms, Reading
  <2> HIDE DEF call
  <2>5. ~call.old => call.found = Found(call)
    BY <1>1, <2>1, <2>3 DEF Found, Derived
  <2>6. QED
    BY <2>3, <2>4, <2>5, LooksRight
<1>5. ASSUME ReadFails(r) PROVE Right'
  <2>1. read[r] # Idle
    BY <1>5 DEF ReadFails, Reads
  <2> DEFINE call == [at |-> "perms", u |-> read[r].u, old |-> TRUE, found |-> {}]
  <2>2. call \in Call /\ call # Idle /\ call.old = TRUE
    BY <1>1, <2>1 DEF Call, Idle
  <2>3. Looks(r, call)
    BY <1>5 DEF ReadFails, Reading
  <2> HIDE DEF call
  <2>4. QED
    BY <2>2, <2>3, LooksRight
<1>6. ASSUME LoadMap(r) PROVE Right'
  <2>1. read[r] # Idle /\ read[r].at = "perms"
    BY <1>6 DEF LoadMap, Reads
  <2> DEFINE call == [at |-> "map", u |-> read[r].u, old |-> read[r].old, found |-> read[r].found, map |-> cur]
  <2>2. call \in Call /\ call # Idle /\ call.at = "map" /\ call.u = read[r].u
        /\ call.found = read[r].found /\ call.old = read[r].old
    BY <1>0, <1>1, <2>1 DEF Call, Idle
  <2>3. Looks(r, call)
    BY <1>6 DEF LoadMap
  <2> HIDE DEF call
  <2>4. ~call.old => call.found = Found(call)
    BY <1>1, <2>1, <2>2 DEF Found
  <2>5. QED
    BY <2>2, <2>3, <2>4, LooksRight
<1>7. QED
  BY <1>2, <1>3, <1>4, <1>5, <1>6

\* Storing what was read keeps it: what is stale is held, or was read before a write.
LEMMA StoreRight == ASSUME Right, NEW r \in Reader, StoreMap(r) PROVE Right'
<1>0. Types /\ Orderly /\ ReadersRight /\ PermsRight /\ MenusRight /\ Caches
  BY DEF Right, Types
<1>1. PICK c \in Call : c = read[r]
  BY <1>0 DEF Types
<1>2. c # Idle /\ c.at = "map"
  BY <1>1 DEF StoreMap, Reads
<1>3. c.u \in User /\ c.map \in MapId /\ c.found \subseteq Perm /\ c.old \in BOOLEAN
  BY <1>2, CallIs
<1>4. /\ maps' = [i \in MapId |-> IF i = c.map THEN Adds(maps[i], c.u, c.found)
                                 ELSE IF Held(i) THEN maps[i] ELSE None]
      /\ cur' = c.map /\ read' = [read EXCEPT ![r] = Idle]
      /\ UNCHANGED <<tables, menuCache, menusLate, req, changes, failed>>
  BY <1>1 DEF StoreMap
<1>5. PICK other \in BOOLEAN : other <=> c.map # cur
  OBVIOUS
<1>6. late' \in BOOLEAN /\ (~late' => ~late /\ ~c.old /\ c.map = cur)
  <2>1. late' = (late \/ c.old \/ c.map # cur)
    BY <1>1 DEF StoreMap
  <2>2. QED
    BY <1>0, <1>3, <2>1 DEF Caches
<1>7. UNCHANGED <<menus, links, holds>> /\ UNCHANGED <<roles, seeded, users>>
      /\ UNCHANGED <<menuCache, menusLate>> /\ UNCHANGED <<req, changes, failed>>
  BY <1>4 DEF tables
<1>8. \A d \in Call : Found(d)' = Found(d)
  BY <1>7 DEF Found, Derived, MenusOf, RolesOf
<1>9. \A u \in User : Derived(u)' = Derived(u)
  BY <1>7 DEF Derived, MenusOf, RolesOf
<1>10. read' \in [Reader -> Call] /\ ReadersRight'
  <2>1. Idle \in Call /\ read \in [Reader -> Call]
    BY <1>0 DEF Call, Types
  <2>2. read' \in [Reader -> Call]
    BY <1>4, <2>1
  <2>3. ASSUME NEW s \in Reader, NEW d \in Call, read'[s] = d, d # Idle, ~d.old
        PROVE  d.found = Found(d)
    BY <1>0, <1>4, <2>1, <2>3 DEF ReadersRight
  <2>4. QED
    BY <1>8, <2>2, <2>3 DEF ReadersRight
<1>11. \A m : /\ DOMAIN Adds(m, c.u, c.found) = DOMAIN m \cup {c.u}
              /\ \A v \in DOMAIN m \cup {c.u} :
                    Adds(m, c.u, c.found)[v] = IF v = c.u THEN c.found ELSE m[v]
  BY DEF Adds
<1>12. ASSUME NEW i \in MapId
       PROVE  /\ DOMAIN maps'[i] \subseteq User
              /\ \A u \in DOMAIN maps'[i] : maps'[i][u] \subseteq Perm
  <2>1. DOMAIN maps[i] \subseteq User /\ \A u \in DOMAIN maps[i] : maps[i][u] \subseteq Perm
    BY <1>0 DEF Caches
  <2>2. CASE i = c.map
    <3>1. maps'[i] = Adds(maps[i], c.u, c.found)
      BY <1>4, <2>2
    <3>2. maps'[i] = [v \in DOMAIN maps[i] \cup {c.u} |-> IF v = c.u THEN c.found ELSE maps[i][v]]
      BY <3>1 DEF Adds
    <3>3. QED
      BY <1>3, <2>1, <3>2
  <2>3. CASE i # c.map
    <3>1. maps'[i] = maps[i] \/ maps'[i] = None
      BY <1>4, <2>3
    <3>2. QED
      BY <2>1, <3>1 DEF None
  <2>4. QED
    BY <2>2, <2>3
<1>13. Types'
  BY <1>0, <1>3, <1>4, <1>6, <1>7, <1>10, <1>12 DEF Types, Tables, Caches
<1>14. PermsRight'
  <2>1. Dropping("perms")' = Dropping("perms")
    BY <1>7 DEF Dropping, At
  <2> SUFFICES ASSUME ~late', ~Dropping("perms") PROVE \A u \in DOMAIN Cached' : Cached'[u] = Derived(u)'
    BY <2>1 DEF PermsRight
  <2>2. ~late /\ ~c.old /\ c.map = cur
    BY <1>6
  <2>3. \A u \in DOMAIN Cached : Cached[u] = Derived(u)
    BY <1>0, <2>2 DEF PermsRight
  <2>4. Cached' = Adds(Cached, c.u, c.found)
    BY <1>3, <1>4, <2>2 DEF Cached
  <2>5. c.found = Derived(c.u)
    BY <1>0, <1>1, <1>2, <2>2 DEF ReadersRight, Found
  <2>6. DOMAIN Cached \subseteq User
    BY <1>0 DEF Caches, Cached
  <2>7. ASSUME NEW u \in DOMAIN Cached' PROVE Cached'[u] = Derived(u)'
    <3>1. u \in DOMAIN Cached \cup {c.u} /\ u \in User
      BY <1>3, <1>11, <2>4, <2>6
    <3>2. Cached'[u] = IF u = c.u THEN c.found ELSE Cached[u]
      BY <1>11, <2>4, <3>1
    <3>3. QED
      BY <1>9, <2>3, <2>5, <3>1, <3>2
  <2>8. QED
    BY <2>7
<1>15. Orderly' /\ MenusRight'
  BY <1>0, <1>7 DEF Orderly, MenusRight
<1>16. QED
  BY <1>10, <1>13, <1>14, <1>15 DEF Right

\* Loading the menus keeps it.
LEMMA MenusReadRight == ASSUME Right, cachedMenus PROVE Right'
<1>1. /\ menuCache' = menus /\ UNCHANGED <<menus, links, holds>> /\ UNCHANGED <<roles, seeded, users>>
      /\ UNCHANGED <<maps, cur, late, menusLate>> /\ UNCHANGED <<req, read, changes, failed>>
  BY DEF cachedMenus, tables
<1>2. \A c \in Call : Found(c)' = Found(c)
  BY <1>1 DEF Found, Derived, MenusOf, RolesOf
<1>3. Types' /\ Orderly'
  BY <1>1 DEF Right, Types, Tables, Caches, Orderly
<1>4. ReadersRight' /\ MenusRight'
  BY <1>1, <1>2 DEF Right, ReadersRight, MenusRight
<1>5. PermsRight'
  <2>1. Cached' = Cached /\ Dropping("perms")' = Dropping("perms") /\ DOMAIN Cached \subseteq User
    BY <1>1 DEF Cached, Dropping, At, Right, Types, Caches
  <2>2. \A u \in User : Derived(u)' = Derived(u)
    BY <1>1 DEF Derived, MenusOf, RolesOf
  <2>3. QED
    BY <1>1, <2>1, <2>2 DEF Right, PermsRight
<1>6. QED
  BY <1>3, <1>4, <1>5 DEF Right

-----------------------------------------------------------------------------
LEMMA InitRight == Init => Right
<1> SUFFICES ASSUME Init PROVE Right
  OBVIOUS
<1>1. /\ maps = [i \in MapId |-> None] /\ cur = 1 /\ menuCache = Never
      /\ req = [w \in Req |-> Idle] /\ read = [r \in Reader |-> Idle]
      /\ changes = 0 /\ late = FALSE /\ menusLate = FALSE /\ failed = FALSE
  BY DEF Init
<1>2. Idle \in Job /\ Idle \in Call
  BY DEF Job, Later, Call
<1>3. Tables /\ (seeded \/ \A r \in Role : roles[r] = Never)
  <2>1. 1 \in Role /\ 2 \in Role
    BY PermissionsAssumption DEF Role
  <2>2. \A tbl \in Table : WithSeed(tbl) \in Table
    <3>1. ASSUME NEW tbl \in Table, NEW m \in Menu PROVE WithSeed(tbl)[m] \in Row \cup {Never, Gone}
      <4>1. CASE m \in Builtin
        <5>1. Home[m] \in Menu \cup {Top}
          BY <4>1, MenuAssumption
        <5>2. WithSeed(tbl)[m] = [parent |-> Home[m], on |-> TRUE]
          BY <4>1 DEF WithSeed
        <5>3. QED
          BY <5>1, <5>2 DEF Row
      <4>2. CASE m \notin Builtin
        BY <4>2 DEF WithSeed, Table
      <4>3. QED
        BY <4>1, <4>2
    <3>2. QED
      BY <3>1 DEF Table, WithSeed
  <2>3. CASE /\ \E C \in SUBSET Custom : menus = WithSeed(
                  [m \in Menu |-> IF m \in C THEN [parent |-> Top, on |-> TRUE] ELSE Never])
             /\ seeded = FALSE /\ roles = [r \in Role |-> Never]
             /\ links = {} /\ users = [u \in User |-> Never] /\ holds = {}
    <3>1. PICK C \in SUBSET Custom : menus = WithSeed(
                  [m \in Menu |-> IF m \in C THEN [parent |-> Top, on |-> TRUE] ELSE Never])
      BY <2>3
    <3>2. [m \in Menu |-> IF m \in C THEN [parent |-> Top, on |-> TRUE] ELSE Never] \in Table
      BY DEF Table, Row
    <3>3. menus \in Table
      BY <2>2, <3>1, <3>2
    <3>4. QED
      BY <2>3, <3>3 DEF Tables
  <2>4. CASE \E u \in User, n \in Name, code \in {"admin", Gone} :
             /\ menus = WithSeed([m \in Menu |-> Never]) /\ seeded = TRUE
             /\ roles = [r \in Role |-> CASE r = 1 -> code [] r = 2 -> "staff"
                                          [] OTHER -> Never]
             /\ links = {<<1, m>> : m \in IF code = Gone THEN {} ELSE Builtin \cap Business}
                          \cup {<<2, m>> : m \in {k \in Builtin : PermOf[k] \in Staff}}
             /\ users = [v \in User |->
                            IF v = u THEN [name |-> n, hashed |-> n, on |-> TRUE] ELSE Never]
             /\ holds = {<<u, 2>>}
    <3>1. PICK u \in User, n \in Name, code \in {"admin", Gone} :
             /\ menus = WithSeed([m \in Menu |-> Never]) /\ seeded = TRUE
             /\ roles = [r \in Role |-> CASE r = 1 -> code [] r = 2 -> "staff"
                                          [] OTHER -> Never]
             /\ links = {<<1, m>> : m \in IF code = Gone THEN {} ELSE Builtin \cap Business}
                          \cup {<<2, m>> : m \in {k \in Builtin : PermOf[k] \in Staff}}
             /\ users = [v \in User |->
                            IF v = u THEN [name |-> n, hashed |-> n, on |-> TRUE] ELSE Never]
             /\ holds = {<<u, 2>>}
      BY <2>4
    <3>2. menus \in Table
      <4>1. [m \in Menu |-> Never] \in Table
        BY DEF Table
      <4>2. QED
        BY <2>2, <3>1, <4>1
    <3>3. links \subseteq Role \X Menu
      BY <2>1, <3>1, MenuAssumption
    <3>4. roles \in [Role -> Code \cup {Never, Gone}]
      BY <3>1 DEF Code
    <3>5. users \in [User -> Member \cup {Never, Gone}]
      BY <3>1 DEF Member
    <3>6. holds \subseteq User \X Role
      BY <2>1, <3>1
    <3>7. QED
      BY <3>1, <3>2, <3>3, <3>4, <3>5, <3>6 DEF Tables
  <2>5. QED
    BY <2>3, <2>4 DEF Init
<1>4. Caches
  <2>1. Cardinality(Reader) \in Nat
    BY PermissionsAssumption, FS_CardinalityType
  <2>2. 1 \in MapId
    BY <2>1 DEF MapId
  <2>3. DOMAIN None = {}
    BY DEF None
  <2>4. QED
    BY <1>1, <2>2, <2>3 DEF Caches
<1>5. 0 \in 0..MaxChanges
  BY PermissionsAssumption
<1>6. Types
  BY <1>1, <1>2, <1>3, <1>4, <1>5 DEF Types
<1>7. Orderly
  BY <1>1, <1>3, Rest DEF Orderly
<1>8. ReadersRight
  BY <1>1 DEF ReadersRight
<1>9. PermsRight
  <2>1. DOMAIN Cached = {}
    BY <1>1, <1>4 DEF Cached, Caches, None
  <2>2. QED
    BY <2>1 DEF PermsRight
<1>10. MenusRight
  BY <1>1 DEF MenusRight
<1>11. QED
  BY <1>6, <1>7, <1>8, <1>9, <1>10 DEF Right

\* Every step is a request's, a reader's, the menus', or none.
LEMMA StepIs ==
    ASSUME Types, Orderly, [Next]_vars
    PROVE  \/ \E w \in Req : Does(w)
           \/ \E r \in Reader : \/ ReadUserRoles(r) \/ ReadRoleMenus(r) \/ ReadMenuPerms(r)
                                \/ ReadFails(r) \/ LoadMap(r) \/ StoreMap(r)
           \/ cachedMenus
           \/ UNCHANGED vars
  BY InvalidatesDoes, SeedStepDoes, MenuStepDoes, ResetStepDoes, RoleStepDoes, UserStepDoes DEF Next

\* The invariant of the specification.
LEMMA RightHolds == Spec => []Right
<1>1. Right /\ [Next]_vars => Right'
  <2> SUFFICES ASSUME Right, [Next]_vars PROVE Right'
    OBVIOUS
  <2>1. CASE UNCHANGED vars
    <3>1. UNCHANGED <<menus, links, roles, seeded, users, holds>> /\ UNCHANGED <<req, read, changes, failed>>
          /\ UNCHANGED <<maps, cur, menuCache, late, menusLate>>
      BY <2>1 DEF vars, tables, caches
    <3>2. \A c \in Call : Found(c)' = Found(c)
      BY <3>1 DEF Found, Derived, MenusOf, RolesOf
    <3>3. Types' /\ Orderly' /\ MenusRight'
      BY <3>1 DEF Right, Types, Tables, Caches, Orderly, MenusRight
    <3>4. ReadersRight'
      BY <3>1, <3>2 DEF Right, ReadersRight
    <3>5. PermsRight'
      <4>1. Cached' = Cached /\ Dropping("perms")' = Dropping("perms") /\ DOMAIN Cached \subseteq User
        BY <3>1 DEF Cached, Dropping, At, Right, Types, Caches
      <4>2. \A u \in User : Derived(u)' = Derived(u)
        BY <3>1 DEF Derived, MenusOf, RolesOf
      <4>3. QED
        BY <3>1, <4>1, <4>2 DEF Right, PermsRight
    <3>6. QED
      BY <3>3, <3>4, <3>5 DEF Right
  <2>2. Types /\ Orderly
    BY DEF Right
  <2>3. QED
    BY <2>1, <2>2, StepIs, RequestRight, ReaderRight, StoreRight, MenusReadRight
<1>2. QED
  BY <1>1, InitRight, PTL DEF Spec

-----------------------------------------------------------------------------
\* The tables, both caches and every request and reader under way are what rbac.go and
\* menu.go make them: links and memberships are of roles, menus and users there are.
THEOREM PermissionsTypes == Spec => []TypeOK
<1>1. Right => TypeOK
  <2> SUFFICES ASSUME Right PROVE TypeOK
    OBVIOUS
  <2>1. Tables /\ Caches /\ failed \in BOOLEAN /\ changes \in 0..MaxChanges
    BY DEF Right, Types
  <2>2. ASSUME NEW w \in Req, req[w] # Idle PROVE req[w].at \in {"ready", "counted", "open", "done"}
    BY <2>2, JobIs DEF Right, Types, Shaped
  <2>3. ASSUME NEW r \in Reader, read[r] # Idle PROVE read[r].u \in User
    BY <2>3, CallIs DEF Right, Types
  <2>4. QED
    BY <2>1, <2>2, <2>3 DEF TypeOK, Tables, Caches
<1>2. QED
  BY <1>1, RightHolds, PTL

\* Whatever requests write and readers find, in any order, GetUserPerms and cachedMenus
\* answer from memory what the tables say, once those who changed them have dropped it,
\* but for the exceptions CacheFresh names.
THEOREM CachesAreFresh == Spec => []CacheFresh
<1>1. Right => CacheFresh
  <2> SUFFICES ASSUME Right PROVE CacheFresh
    OBVIOUS
  <2>1. (\E w \in Req : DropsMenus(req[w])) => Dropping("menus")
    <3>1. ASSUME NEW w \in Req, DropsMenus(req[w]) PROVE Dropping("menus")
      BY <3>1, JobIs, Rest DEF Right, Types, Dropping, DropsMenus, At, Shaped
    <3>2. QED
      BY <3>1
  <2>2. QED
    BY <2>1 DEF Right, PermsRight, MenusRight, CacheFresh
<1>2. QED
  BY <1>1, RightHolds, PTL

\* EnsureTenantRoles looks at rbac_seeded again under the lock of the tenant's row: of
\* any number of first requests one seeds, and no role that comes later is an
\* administrator's.
THEOREM RolesAreSeededOnce == Spec => SeededOnce
<1>1. Right /\ [Next]_vars => [seeded => \A r \in Role : roles[r] = Never => roles'[r] \in {Never, "custom"}]_vars
  <2> SUFFICES ASSUME Right, [Next]_vars, seeded, NEW r \in Role, roles[r] = Never
               PROVE  roles'[r] \in {Never, "custom"} \/ UNCHANGED vars
    OBVIOUS
  <2>1. Types /\ Orderly
    BY DEF Right
  <2>2. CASE \E w \in Req : Does(w)
    BY <2>2 DEF Does, Ordered, RolesGo
  <2>3. CASE UNCHANGED roles
    BY <2>3
  <2>4. QED
    BY <2>1, <2>2, <2>3, StepIs
       DEF ReadUserRoles, ReadRoleMenus, ReadMenuPerms, ReadFails, LoadMap, Looks, StoreMap, cachedMenus, tables
<1>2. QED
  BY <1>1, RightHolds, PTL DEF Spec, SeededOnce

-----------------------------------------------------------------------------
\* A request whose transaction resets the menus does nothing but commit it.
LEMMA OnlyCommitsReset ==
    ASSUME Types, [Next]_vars, NEW w \in Req, At(w, "open", "reset menus"), req'[w] # req[w]
    PROVE  ResetCommits(w)
<1>0. req \in [Req -> Job] /\ req[w] # Idle /\ req[w].at = "open" /\ req[w].op = "reset menus"
  BY DEF Types, At
<1> USE <1>0
<1>1. ASSUME NEW v \in Req, NEW job, Begins(v, job) PROVE FALSE
  BY <1>1 DEF Begins
<1>2. ASSUME NEW v \in Req, NEW job, Goes(v, job) PROVE v = w
  BY <1>2 DEF Goes
<1>3. ASSUME NEW v \in Req,
             \/ AdminRoleList(v) \/ AdminMenuCreate(v) \/ AdminMenuUpdate(v) \/ BatchUpdateMenus(v)
             \/ AdminMenuDelete(v) \/ ResetBegins(v) \/ AdminRoleCreate(v) \/ AdminRoleUpdate(v)
             \/ AdminRoleDelete(v) \/ AdminMemberCreate(v) \/ AdminMemberRoles(v) \/ AdminMemberUpdate(v)
             \/ AdminMemberStatus(v) \/ AdminMemberPassword(v) \/ DeleteUser(v)
      PROVE  FALSE
  <2>1. CASE AdminMemberStatus(v)
    BY <2>1 DEF AdminMemberStatus
  <2>2. CASE AdminRoleList(v) \/ AdminMenuCreate(v) \/ AdminMenuUpdate(v) \/ BatchUpdateMenus(v) \/ AdminMenuDelete(v)
    BY <1>1, <2>2 DEF AdminRoleList, AdminMenuCreate, AdminMenuUpdate, BatchUpdateMenus, AdminMenuDelete
  <2>3. CASE ResetBegins(v) \/ AdminRoleCreate(v) \/ AdminRoleUpdate(v) \/ AdminRoleDelete(v) \/ AdminMemberCreate(v)
    BY <1>1, <2>3 DEF ResetBegins, AdminRoleCreate, AdminRoleUpdate, AdminRoleDelete, AdminMemberCreate
  <2>4. CASE AdminMemberRoles(v) \/ AdminMemberUpdate(v) \/ AdminMemberPassword(v) \/ DeleteUser(v)
    BY <1>1, <2>4 DEF AdminMemberRoles, AdminMemberUpdate, AdminMemberPassword, DeleteUser
  <2>5. QED
    BY <1>3, <2>1, <2>2, <2>3, <2>4
<1>4. ASSUME NEW v \in Req, Invalidates(v) \/ SkipsSeed(v) \/ Seeds(v) \/ SeedCommits(v) PROVE FALSE
  BY <1>2, <1>4 DEF Invalidates, SkipsSeed, Seeds, SeedCommits, At, Ends, CommitsLast
<1>5. ASSUME NEW v \in Req, CreateMenu(v) \/ UpdateMenu(v) \/ DeleteMenu(v) \/ ResetFails(v) \/ ResetWrites(v) PROVE FALSE
  BY <1>2, <1>5 DEF CreateMenu, UpdateMenu, DeleteMenu, ResetFails, ResetWrites, At, Ends, Commits
<1>6. ASSUME NEW v \in Req,
             CreateRole(v) \/ UpdateRole(v) \/ DeleteRoleMembers(v) \/ DeleteRoleMenus(v) \/ DeleteRole(v)
      PROVE  FALSE
  BY <1>2, <1>6 DEF CreateRole, UpdateRole, DeleteRoleMembers, DeleteRoleMenus, DeleteRole, At, Commits
<1>7. ASSUME NEW v \in Req, CreateUser(v) \/ SetUserRoles(v) \/ UpdateUserFields(v) \/ UpdateUserPassword(v) PROVE FALSE
  BY <1>2, <1>7 DEF CreateUser, SetUserRoles, UpdateUserFields, UpdateUserPassword, At, Ends, CommitsLast
<1>8. ASSUME NEW v \in Req, DeleteUserCommits(v) PROVE FALSE
  BY <1>2, <1>8 DEF DeleteUserCommits, At, CommitsLast
<1>9. ASSUME NEW v \in Req, ResetCommits(v) PROVE v = w
  BY <1>2, <1>9 DEF ResetCommits, CommitsLast
<1>10. ~UNCHANGED req
  OBVIOUS
<1>11. ASSUME NEW r \in Reader,
              ReadUserRoles(r) \/ ReadRoleMenus(r) \/ ReadMenuPerms(r) \/ ReadFails(r) \/ LoadMap(r) \/ StoreMap(r)
       PROVE  FALSE
  BY <1>10, <1>11 DEF ReadUserRoles, ReadRoleMenus, ReadMenuPerms, ReadFails, LoadMap, StoreMap, Looks
<1>12. ~cachedMenus /\ ~UNCHANGED vars
  BY <1>10 DEF cachedMenus, vars
<1>13. QED
  BY <1>3, <1>4, <1>5, <1>6, <1>7, <1>8, <1>9, <1>11, <1>12 DEF Next

\* The reset links every administrator's role to every business menu.
LEMMA AdminLinked ==
    ASSUME NEW r \in Role, roles[r] = "admin", NEW rows, NEW m \in rows \cap Business
    PROVE  <<r, m>> \in AdminLinks(rows)
<1>1. AdminLinks(rows) = {a \in Role : roles[a] = "admin"} \X (rows \cap Business)
  BY DEF AdminLinks
<1>2. QED
  BY <1>1

\* What a reset leaves: the custom menus and their links, and the built-in ones linked.
LEMMA ResetGives ==
    ASSUME Right, NEW w \in Req, ResetCommits(w), At(w, "open", "reset menus")
    PROVE  /\ \A m \in Custom : menus'[m] = menus[m]
           /\ \A l \in links : l[2] \in Custom => l \in links'
           /\ \A r \in Role, m \in Builtin \cap Business : roles[r] = "admin" => <<r, m>> \in links'
           /\ Builtin \subseteq Enabled(menus')
<1>1. menus' = WithSeed(menus) /\ links' = LinksKept(req[w].ms) \cup AdminLinks(Builtin \cup Rows(menus))
  BY DEF ResetCommits, AdminsRestored
<1>2. req[w].ms \subseteq Builtin
  BY JobIs DEF Right, Types, At, Shaped
<1>3. ASSUME NEW m \in Custom PROVE menus'[m] = menus[m]
  BY <1>1 DEF WithSeed, Custom
<1>4. ASSUME NEW l \in links, l[2] \in Custom PROVE l \in links'
  BY <1>1, <1>2, <1>4 DEF LinksKept, Custom
<1>5. ASSUME NEW r \in Role, NEW m \in Builtin \cap Business, roles[r] = "admin" PROVE <<r, m>> \in links'
  BY <1>1, <1>5, AdminLinked
<1>6. ASSUME NEW m \in Builtin PROVE m \in Enabled(menus')
  <2>1. m \in Menu /\ Home[m] \in Menu \cup {Top}
    BY MenuAssumption
  <2>2. menus'[m] = [parent |-> Home[m], on |-> TRUE]
    BY <1>1, <2>1 DEF WithSeed
  <2>3. menus'[m] \in Row /\ menus'[m].on
    <3>1. [parent |-> Home[m], on |-> TRUE] \in Row
      BY <2>1 DEF Row
    <3>2. [parent |-> Home[m], on |-> TRUE].on
      OBVIOUS
    <3>3. QED
      BY <2>2, <3>1, <3>2, Zenon
  <2>4. menus'[m] # Never /\ menus'[m] # Gone
    BY <2>3, MenuAssumption
  <2>5. QED
    BY <2>1, <2>3, <2>4 DEF Enabled, Rows
<1>7. QED
  BY <1>3, <1>4, <1>5, <1>6

\* AdminMenuResetBuiltin gives the administrators every permission the program asks for,
\* and takes nothing that is not built in.
THEOREM ResetRestoresMenus == Spec => ResetRestores
<1> DEFINE Restored ==
        /\ \A r \in Role : roles[r] = "admin" =>
              Catalog \subseteq PermsOfMenuIDs(menus, {m \in Menu : <<r, m>> \in links})'
        /\ \A m \in Custom : menus'[m] = menus[m]
        /\ \A l \in links : l[2] \in Custom => l \in links'
<1>1. ASSUME Right, [Next]_vars, NEW w \in Req, At(w, "open", "reset menus"), req[w] # req'[w]
      PROVE  Restored
  <2>1. ResetCommits(w)
    BY <1>1, OnlyCommitsReset DEF Right
  <2>2. /\ \A m \in Custom : menus'[m] = menus[m]
        /\ \A l \in links : l[2] \in Custom => l \in links'
        /\ \A r \in Role, m \in Builtin \cap Business : roles[r] = "admin" => <<r, m>> \in links'
        /\ Builtin \subseteq Enabled(menus')
    BY <1>1, <2>1, ResetGives
  <2>3. ASSUME NEW r \in Role, roles[r] = "admin"
        PROVE  Catalog \subseteq PermsOfMenuIDs(menus', {m \in Menu : <<r, m>> \in links'})
    BY <2>2, <2>3, MenuAssumption DEF Catalog, PermsOfMenuIDs
  <2>4. QED
    BY <2>2, <2>3
<1>2. Right /\ [Next]_vars =>
        [\A w \in Req : At(w, "open", "reset menus") /\ req[w] # req'[w] => Restored]_vars
  BY <1>1
<1>3. QED
  BY <1>2, RightHolds, PTL DEF Spec, ResetRestores

-----------------------------------------------------------------------------
(* The walks of menu.go, round by round, and the tree they make.           *)

\* A set of numbers that is not empty has a least one.
LEMMA LeastNumber == ASSUME NEW T, T \subseteq Nat, T # {} PROVE \E x \in T : \A y \in T : x <= y
<1>1. PICK x \in T : \A y \in T : ~ (<<y, x>> \in OpToRel(<, Nat))
  BY NatLessThanWellFounded, WFMin
<1>2. ASSUME NEW y \in T PROVE x <= y
  <2>1. <<y, x>> \in OpToRel(<, Nat) <=> y < x
    BY DEF OpToRel
  <2>2. ~(y < x)
    BY <1>1, <2>1, Zenon
  <2>3. QED
    BY <2>2
<1>3. QED
  BY <1>2

Last == Cardinality(Menu)

\* Where one may go next from each menu.
Steps == [Menu -> SUBSET Menu]

\* One more round of the walk.
More(next, D) == D \cup UNION {next[m] : m \in D}
Round(S, next, f, n) == IF n = 0 THEN S ELSE More(next, f[n - 1])
Walks(S, next, f) == f = [n \in 0..Last |-> Round(S, next, f, n)]

\* The menus are finitely many.
LEMMA LastIs == IsFiniteSet(Menu) /\ Last \in Nat
  BY MenuAssumption, FS_CardinalityType DEF Last

\* The walk can be carried on for as many rounds as it takes.
LEMMA WalkExists ==
    ASSUME NEW S, NEW next
    PROVE  \E f : f = [n \in 0..Last |-> Round(S, next, f, n)]
<1> DEFINE Reached(m, f) == /\ DOMAIN f = 0..m /\ f = [n \in 0..m |-> f[n]]
                            /\ \A n \in 0..m : f[n] = Round(S, next, f, n)
           Missed == {m \in 0..Last : ~ \E f : Reached(m, f)}
<1>0. Last \in Nat
  BY LastIs
<1>1. Missed = {}
  <2> SUFFICES ASSUME Missed # {} PROVE FALSE
    OBVIOUS
  <2>0. Missed \subseteq Nat
    BY <1>0
  <2> HIDE DEF Missed
  <2>1. PICK m \in Missed : \A y \in Missed : m <= y
    BY <2>0, LeastNumber
  <2> USE DEF Missed
  <2>2. CASE m = 0
    <3> DEFINE f == [n \in 0..0 |-> S]
    <3>1. Reached(0, f)
      BY DEF Round
    <3>2. QED
      BY <2>2, <3>1
  <2>3. CASE m # 0
    <3>1. m - 1 \in 0..Last /\ m - 1 \notin Missed
      BY <1>0, <2>1, <2>3
    <3>2. PICK f : Reached(m - 1, f)
      BY <3>1
    <3> DEFINE g == [n \in 0..m |-> IF n = m THEN Round(S, next, f, m) ELSE f[n]]
    <3>3. ASSUME NEW n \in 0..m PROVE g[n] = Round(S, next, g, n)
      <4>1. n # 0 => g[n - 1] = f[n - 1]
        BY <1>0, <3>3
      <4>2. Round(S, next, g, n) = Round(S, next, f, n)
        BY <4>1 DEF Round
      <4>3. CASE n = m
        BY <4>2, <4>3
      <4>4. CASE n # m
        <5>1. n \in 0..(m - 1)
          BY <1>0, <4>4
        <5>2. g[n] = f[n] /\ f[n] = Round(S, next, f, n)
          BY <3>2, <4>4, <5>1
        <5>3. QED
          BY <4>2, <5>2
      <4>5. QED
        BY <4>3, <4>4
    <3>4. Reached(m, g)
      BY <3>3
    <3>5. QED
      BY <2>1, <3>4
  <2>4. QED
    BY <2>2, <2>3
<1>2. PICK f : Reached(Last, f)
  BY <1>0, <1>1
<1>3. f = [n \in 0..Last |-> Round(S, next, f, n)]
  BY <1>2
<1>4. QED
  BY <1>3

\* Closure is the walk's last round.
LEMMA ClosureIs ==
    ASSUME NEW S, NEW next
    PROVE  \E f : Walks(S, next, f) /\ Closure(S, next) = f[Last]
<1> DEFINE g == CHOOSE h : h = [n \in 0..Last |-> Round(S, next, h, n)]
<1>1. g = [n \in 0..Last |-> Round(S, next, g, n)]
  BY WalkExists
<1>2. Closure(S, next) = g[Last]
  BY DEF Closure, Round, More, Last
<1>3. QED
  BY <1>1, <1>2 DEF Walks

\* The rounds, one by one.
LEMMA Rounds ==
    ASSUME NEW S, NEW next, NEW f, Walks(S, next, f), NEW n \in 0..Last
    PROVE  f[n] = Round(S, next, f, n)
  BY DEF Walks

\* A round stays among the menus, and inside whatever the steps do not leave.
LEMMA RoundsStay ==
    ASSUME NEW S, NEW next \in Steps, NEW f, Walks(S, next, f),
           NEW T, S \subseteq T, T \subseteq Menu, \A m \in T : next[m] \subseteq T
    PROVE  \A n \in 0..Last : f[n] \subseteq T
<1> DEFINE Wrong == {n \in 0..Last : ~(f[n] \subseteq T)}
<1>0. Last \in Nat
  BY LastIs
<1>1. Wrong = {}
  <2> SUFFICES ASSUME Wrong # {} PROVE FALSE
    OBVIOUS
  <2>0. Wrong \subseteq Nat
    BY <1>0
  <2> HIDE DEF Wrong
  <2>1. PICK n \in Wrong : \A y \in Wrong : n <= y
    BY <2>0, LeastNumber
  <2> USE DEF Wrong
  <2>2. f[n] = Round(S, next, f, n)
    BY <2>1, Rounds
  <2>3. n = 0 \/ (n - 1 \in 0..Last /\ f[n - 1] \subseteq T)
    BY <1>0, <2>1
  <2>4. f[n] \subseteq T
    <3>1. CASE n = 0
      BY <2>2, <3>1 DEF Round
    <3>2. CASE n # 0
      <4>1. f[n] = More(next, f[n - 1]) /\ f[n - 1] \subseteq T
        BY <2>2, <2>3, <3>2 DEF Round
      <4>2. More(next, f[n - 1]) \subseteq T
        BY <4>1 DEF More
      <4>3. QED
        BY <4>1, <4>2
    <3>3. QED
      BY <3>1, <3>2
  <2>5. QED
    BY <2>1, <2>4
<1>2. QED
  BY <1>1

\* A round that finds nothing new is the last that matters.
LEMMA RoundsRest ==
    ASSUME NEW S, NEW next, NEW f, Walks(S, next, f),
           NEW k \in 0..Last, \A m \in f[k] : next[m] \subseteq f[k]
    PROVE  \A n \in k..Last : f[n] = f[k]
<1> DEFINE Wrong == {n \in k..Last : f[n] # f[k]}
<1>0. Last \in Nat
  BY LastIs
<1>1. Wrong = {}
  <2> SUFFICES ASSUME Wrong # {} PROVE FALSE
    OBVIOUS
  <2>0. Wrong \subseteq Nat
    BY <1>0
  <2> HIDE DEF Wrong
  <2>1. PICK n \in Wrong : \A y \in Wrong : n <= y
    BY <2>0, LeastNumber
  <2> USE DEF Wrong
  <2>2. n \in 0..Last /\ n # 0 /\ n - 1 \in k..Last /\ n - 1 \notin Wrong
    <3>1. k \in Nat /\ n \in Nat /\ k <= n /\ n <= Last /\ n # k
      BY <1>0, <2>1
    <3>2. n \in 0..Last /\ n # 0 /\ n - 1 \in k..Last /\ n - 1 < n /\ n - 1 \in Nat
      BY <1>0, <3>1
    <3>3. QED
      BY <2>1, <3>2
  <2>3. f[n] = Round(S, next, f, n)
    BY <2>2, Rounds
  <2>4. f[n - 1] = f[k]
    BY <2>2
  <2>5. f[n] = More(next, f[k])
    BY <2>2, <2>3, <2>4 DEF Round
  <2>6. f[n] = f[k]
    BY <2>5 DEF More
  <2>7. QED
    BY <2>1, <2>6
<1>2. QED
  BY <1>1

\* Every round that finds something new finds at least one menu more.
LEMMA RoundsGrow ==
    ASSUME NEW S, S \subseteq Menu, NEW next \in Steps,
           NEW f, Walks(S, next, f),
           \A n \in 0..Last : \E m \in f[n] : ~(next[m] \subseteq f[n])
    PROVE  FALSE
<1>0. Last \in Nat /\ IsFiniteSet(Menu)
  BY LastIs
<1>1. \A n \in 0..Last : f[n] \subseteq Menu
  <2>1. \A m \in Menu : next[m] \subseteq Menu
    BY DEF Steps
  <2>2. QED
    BY <2>1, RoundsStay
<1>2. \A n \in 0..Last : IsFiniteSet(f[n]) /\ Cardinality(f[n]) \in Nat
  BY <1>0, <1>1, FS_Subset, FS_CardinalityType
<1> DEFINE Wrong == {n \in 0..Last : Cardinality(f[n]) < n}
<1>3. Wrong = {}
  <2> SUFFICES ASSUME Wrong # {} PROVE FALSE
    OBVIOUS
  <2>0. Wrong \subseteq Nat
    BY <1>0
  <2> HIDE DEF Wrong
  <2>1. PICK n \in Wrong : \A y \in Wrong : n <= y
    BY <2>0, LeastNumber
  <2> USE DEF Wrong
  <2>2. n # 0 /\ n - 1 \in 0..Last /\ n - 1 \notin Wrong
    BY <1>0, <1>2, <2>1
  <2>3. f[n] = More(next, f[n - 1])
    BY <2>1, <2>2, Rounds DEF Round
  <2>4. f[n - 1] \subseteq f[n] /\ f[n - 1] # f[n]
    <3>1. PICK m \in f[n - 1] : ~(next[m] \subseteq f[n - 1])
      BY <2>2
    <3>2. QED
      BY <2>3, <3>1 DEF More
  <2>5. Cardinality(f[n - 1]) < Cardinality(f[n])
    <3>1. /\ Cardinality(f[n - 1]) <= Cardinality(f[n])
          /\ Cardinality(f[n]) = Cardinality(f[n - 1]) => f[n] = f[n - 1]
      BY <1>2, <2>1, <2>4, FS_Subset
    <3>2. QED
      BY <1>2, <2>1, <2>2, <2>4, <3>1
  <2>6. QED
    BY <1>0, <1>2, <2>1, <2>2, <2>5
<1>4. Cardinality(f[Last]) >= Last
  <2>1. Last \in 0..Last /\ Last \notin Wrong
    BY <1>0, <1>3
  <2>2. QED
    BY <1>0, <1>2, <2>1
<1>5. f[Last] = Menu
  <2>1. Cardinality(f[Last]) <= Cardinality(Menu) /\ (Cardinality(Menu) = Cardinality(f[Last]) => Menu = f[Last])
    BY <1>0, <1>1, FS_Subset
  <2>2. QED
    BY <1>0, <1>2, <1>4, <2>1 DEF Last
<1>6. PICK m \in f[Last] : ~(next[m] \subseteq f[Last])
  BY <1>0
<1>7. QED
  BY <1>5, <1>6 DEF Steps

\* The walk gives the least set with S in it that the steps do not leave.
LEMMA ClosureLeast ==
    ASSUME NEW S, S \subseteq Menu, NEW next \in Steps
    PROVE  /\ S \subseteq Closure(S, next) /\ Closure(S, next) \subseteq Menu
           /\ \A m \in Closure(S, next) : next[m] \subseteq Closure(S, next)
           /\ \A T \in SUBSET Menu : S \subseteq T /\ (\A m \in T : next[m] \subseteq T) => Closure(S, next) \subseteq T
<1>0. Last \in Nat
  BY LastIs
<1>1. PICK f : Walks(S, next, f) /\ Closure(S, next) = f[Last]
  BY ClosureIs
<1>2. PICK k \in 0..Last : \A m \in f[k] : next[m] \subseteq f[k]
  <2>1. SUFFICES ASSUME \A n \in 0..Last : \E m \in f[n] : ~(next[m] \subseteq f[n]) PROVE FALSE
    OBVIOUS
  <2>2. QED
    BY <1>1, <2>1, RoundsGrow
<1>3. \A n \in k..Last : f[n] = f[k]
  BY <1>1, <1>2, RoundsRest
<1>4. f[Last] = f[k]
  BY <1>0, <1>3
<1>5. \A m \in Menu : next[m] \subseteq Menu
  BY DEF Steps
<1>6. f[Last] \subseteq Menu
  <2>1. \A n \in 0..Last : f[n] \subseteq Menu
    <3>1. S \subseteq Menu /\ Menu \subseteq Menu
      OBVIOUS
    <3>2. QED
      BY <1>1, <1>5, <3>1, RoundsStay
  <2>2. QED
    BY <1>0, <2>1
<1>7. S \subseteq f[Last]
  <2> DEFINE Wrong == {n \in 0..Last : ~(S \subseteq f[n])}
  <2>1. Wrong = {}
    <3> SUFFICES ASSUME Wrong # {} PROVE FALSE
      OBVIOUS
    <3>0. Wrong \subseteq Nat
      BY <1>0
    <3> HIDE DEF Wrong
    <3>1. PICK n \in Wrong : \A y \in Wrong : n <= y
      BY <3>0, LeastNumber
    <3> USE DEF Wrong
    <3>2. f[n] = Round(S, next, f, n)
      BY <1>1, <3>1, Rounds
    <3>3. n = 0 \/ (n - 1 \in 0..Last /\ S \subseteq f[n - 1])
      BY <1>0, <3>1
    <3>4. S \subseteq f[n]
      BY <3>2, <3>3 DEF Round, More
    <3>5. QED
      BY <3>1, <3>4
  <2>2. QED
    BY <1>0, <2>1
<1>8. ASSUME NEW T \in SUBSET Menu, S \subseteq T, \A m \in T : next[m] \subseteq T PROVE f[Last] \subseteq T
  BY <1>0, <1>1, <1>8, RoundsStay
<1>9. QED
  BY <1>1, <1>2, <1>4, <1>6, <1>7, <1>8

-----------------------------------------------------------------------------
(* Down from a menu and up from one, among the nodes of a tree.            *)

DownFrom(tbl, nodes) == [m \in Menu |-> Kids(tbl, m) \cap nodes]
UpFrom(tbl, nodes) == [n \in Menu |-> IF n \in nodes THEN {tbl[n].parent} \ {Top} ELSE {}]

\* The nodes are menus that have a parent or none, which is all the walks ask.
LEMMA WaysAreSteps ==
    ASSUME NEW tbl \in Table, NEW nodes \in SUBSET Rows(tbl)
    PROVE  /\ nodes \subseteq Menu /\ \A n \in nodes : tbl[n].parent \in Menu \cup {Top}
           /\ DownFrom(tbl, nodes) \in Steps /\ UpFrom(tbl, nodes) \in Steps
<1>1. \A n \in nodes : n \in Menu /\ tbl[n] \in Row
  BY DEF Rows, Table
<1>2. \A n \in nodes : tbl[n].parent \in Menu \cup {Top}
  BY <1>1 DEF Row
<1>3. \A m \in Menu : DownFrom(tbl, nodes)[m] \subseteq Menu
  BY <1>1 DEF DownFrom
<1>4. \A m \in Menu : UpFrom(tbl, nodes)[m] \subseteq Menu
  BY <1>2 DEF UpFrom
<1>5. QED
  BY <1>1, <1>2, <1>3, <1>4 DEF Steps, DownFrom, UpFrom

\* What is below is the least set of nodes that holds the start and its nodes' children.
LEMMA BelowLeast ==
    ASSUME NEW tbl \in Table, NEW nodes \in SUBSET Rows(tbl), NEW from \in SUBSET nodes
    PROVE  /\ from \subseteq Below(tbl, nodes, from) /\ Below(tbl, nodes, from) \subseteq nodes
           /\ \A m \in Below(tbl, nodes, from), k \in nodes : tbl[k].parent = m => k \in Below(tbl, nodes, from)
           /\ \A T \in SUBSET nodes :
                 from \subseteq T /\ (\A m \in T, k \in nodes : tbl[k].parent = m => k \in T)
                     => Below(tbl, nodes, from) \subseteq T
<1> DEFINE next == DownFrom(tbl, nodes)
<1>1. nodes \subseteq Menu /\ next \in Steps
  BY WaysAreSteps
<1>2. \A m \in Menu : next[m] = {k \in nodes : tbl[k].parent = m}
  BY DEF DownFrom, Kids
<1>3. Below(tbl, nodes, from) = Closure(from, next)
  BY DEF Below, DownFrom
<1> HIDE DEF next
<1>4. /\ from \subseteq Closure(from, next) /\ Closure(from, next) \subseteq Menu
      /\ \A m \in Closure(from, next) : next[m] \subseteq Closure(from, next)
      /\ \A T \in SUBSET Menu : from \subseteq T /\ (\A m \in T : next[m] \subseteq T) => Closure(from, next) \subseteq T
  BY <1>1, ClosureLeast
<1>5. ASSUME NEW T \in SUBSET nodes, from \subseteq T,
             \A m \in T, k \in nodes : tbl[k].parent = m => k \in T
      PROVE  Closure(from, next) \subseteq T
  <2>1. \A m \in T : next[m] \subseteq T
    BY <1>1, <1>2, <1>5
  <2>2. QED
    BY <1>1, <1>4, <1>5, <2>1
<1>6. Closure(from, next) \subseteq nodes
  BY <1>5
<1>7. ASSUME NEW m \in Closure(from, next), NEW k \in nodes, tbl[k].parent = m PROVE k \in Closure(from, next)
  <2>1. m \in Menu /\ next[m] \subseteq Closure(from, next)
    BY <1>4
  <2>2. k \in next[m]
    BY <1>2, <1>7, <2>1
  <2>3. QED
    BY <2>1, <2>2
<1>8. QED
  BY <1>3, <1>4, <1>5, <1>6, <1>7

\* mark goes from a node to its parent, and from a node's parent no further than it must.
LEMMA MarkedLeast ==
    ASSUME NEW tbl \in Table, NEW nodes \in SUBSET Rows(tbl), NEW m \in nodes
    PROVE  /\ m \in Marked(tbl, nodes, m) /\ Marked(tbl, nodes, m) \subseteq Menu
           /\ \A n \in Marked(tbl, nodes, m) \cap nodes : tbl[n].parent # Top => tbl[n].parent \in Marked(tbl, nodes, m)
           /\ \A T \in SUBSET Menu :
                 m \in T /\ (\A n \in T \cap nodes : tbl[n].parent # Top => tbl[n].parent \in T)
                     => Marked(tbl, nodes, m) \subseteq T
<1> DEFINE next == UpFrom(tbl, nodes)
<1>1. nodes \subseteq Menu /\ next \in Steps
  BY WaysAreSteps
<1>2. \A n \in Menu : next[n] = IF n \in nodes THEN {tbl[n].parent} \ {Top} ELSE {}
  BY DEF UpFrom
<1>3. Marked(tbl, nodes, m) = Closure({m}, next)
  BY DEF Marked, UpFrom
<1> HIDE DEF next
<1>4. /\ {m} \subseteq Closure({m}, next) /\ Closure({m}, next) \subseteq Menu
      /\ \A n \in Closure({m}, next) : next[n] \subseteq Closure({m}, next)
      /\ \A T \in SUBSET Menu : {m} \subseteq T /\ (\A n \in T : next[n] \subseteq T) => Closure({m}, next) \subseteq T
  <2>1. {m} \subseteq Menu
    BY <1>1
  <2>2. QED
    BY <1>1, <2>1, ClosureLeast
<1>5. ASSUME NEW T \in SUBSET Menu, m \in T,
             \A n \in T \cap nodes : tbl[n].parent # Top => tbl[n].parent \in T
      PROVE  Closure({m}, next) \subseteq T
  <2>1. \A n \in T : next[n] \subseteq T
    <3>1. ASSUME NEW n \in T PROVE next[n] \subseteq T
      <4>1. n \in Menu
        BY <3>1
      <4>2. CASE n \in nodes
        BY <1>2, <1>5, <4>1, <4>2
      <4>3. CASE n \notin nodes
        BY <1>2, <4>1, <4>3
      <4>4. QED
        BY <4>2, <4>3
    <3>2. QED
      BY <3>1
  <2>2. {m} \subseteq T
    BY <1>5
  <2>3. QED
    BY <1>4, <2>1, <2>2
<1>6. ASSUME NEW n \in Closure({m}, next) \cap nodes, tbl[n].parent # Top PROVE tbl[n].parent \in Closure({m}, next)
  <2>1. n \in Menu /\ next[n] \subseteq Closure({m}, next)
    BY <1>4
  <2>2. tbl[n].parent \in next[n]
    BY <1>2, <1>6, <2>1
  <2>3. QED
    BY <2>1, <2>2
<1>7. QED
  BY <1>3, <1>4, <1>5, <1>6

\* What is below is at the start, or has its parent below.
LEMMA BelowFrom ==
    ASSUME NEW tbl \in Table, NEW nodes \in SUBSET Rows(tbl), NEW from \in SUBSET nodes,
           NEW n \in Below(tbl, nodes, from)
    PROVE  n \in from \/ tbl[n].parent \in Below(tbl, nodes, from)
<1> DEFINE B == Below(tbl, nodes, from)
           T == {x \in B : x \in from \/ tbl[x].parent \in B}
<1>1. from \subseteq B /\ B \subseteq nodes /\ \A m \in B, k \in nodes : tbl[k].parent = m => k \in B
  BY BelowLeast
<1>2. T \in SUBSET nodes /\ from \subseteq T /\ \A m \in T, k \in nodes : tbl[k].parent = m => k \in T
  BY <1>1
<1> HIDE DEF T
<1>3. B \subseteq T
  BY <1>2, BelowLeast
<1>4. QED
  BY <1>3 DEF T

\* Further down is below as well.
LEMMA BelowBelow ==
    ASSUME NEW tbl \in Table, NEW nodes \in SUBSET Rows(tbl), NEW from \in SUBSET nodes,
           NEW more \in SUBSET nodes, more \subseteq Below(tbl, nodes, from)
    PROVE  Below(tbl, nodes, more) \subseteq Below(tbl, nodes, from)
<1> DEFINE B == Below(tbl, nodes, from)
<1>1. B \in SUBSET nodes /\ \A m \in B, k \in nodes : tbl[k].parent = m => k \in B
  BY BelowLeast
<1> HIDE DEF B
<1>2. more \subseteq B
  BY DEF B
<1>3. Below(tbl, nodes, more) \subseteq B
  BY <1>1, <1>2, BelowLeast
<1>4. QED
  BY <1>3 DEF B

\* The parent of a menu in a circle is in one, too.
LEMMA CircleUp ==
    ASSUME NEW tbl \in Table, NEW nodes \in SUBSET Rows(tbl), NEW n \in nodes, InCircle(tbl, nodes, n)
    PROVE  tbl[n].parent \in nodes /\ InCircle(tbl, nodes, tbl[n].parent)
<1> DEFINE K(m) == {k \in nodes : tbl[k].parent = m}
<1>0. nodes \subseteq Rows(tbl) /\ \A m : Kids(tbl, m) \cap nodes = K(m)
  BY DEF Kids
<1>1. n \in Below(tbl, nodes, K(n))
  BY <1>0 DEF InCircle
<1> DEFINE g == tbl[n].parent
<1>2. CASE n \in K(n)
  BY <1>2
<1>3. CASE n \notin K(n)
  <2>1. g \in Below(tbl, nodes, K(n)) /\ g \in nodes
    <3>1. K(n) \in SUBSET nodes
      OBVIOUS
    <3>2. Below(tbl, nodes, K(n)) \subseteq nodes
      BY <3>1, BelowLeast
    <3>3. QED
      BY <1>1, <1>3, <3>1, <3>2, BelowFrom
  <2>2. n \in K(g) /\ K(g) \in SUBSET nodes
    OBVIOUS
  <2>3. K(n) \subseteq Below(tbl, nodes, K(g))
    BY <2>2, BelowLeast
  <2>4. Below(tbl, nodes, K(n)) \subseteq Below(tbl, nodes, K(g))
    <3>1. K(n) \in SUBSET nodes
      OBVIOUS
    <3>2. QED
      BY <2>2, <2>3, <3>1, BelowBelow
  <2>5. QED
    BY <1>0, <2>1, <2>4 DEF InCircle
<1>4. QED
  BY <1>2, <1>3

\* Up and down are the same way.
LEMMA UpIsDown ==
    ASSUME NEW tbl \in Table, NEW nodes \in SUBSET Rows(tbl), NEW x \in nodes, NEW y \in nodes,
           x \in Marked(tbl, nodes, y)
    PROVE  y \in Below(tbl, nodes, {x})
<1> DEFINE D == {z \in Menu : z \in nodes => y \in Below(tbl, nodes, {z})}
<1>1. y \in D
  <2>1. y \in Menu
    BY WaysAreSteps
  <2>2. {y} \in SUBSET nodes
    OBVIOUS
  <2>3. y \in Below(tbl, nodes, {y})
    BY <2>2, BelowLeast
  <2>4. QED
    BY <2>1, <2>3
<1>2. ASSUME NEW z \in D \cap nodes, tbl[z].parent # Top PROVE tbl[z].parent \in D
  <2> DEFINE p == tbl[z].parent
  <2>1. p \in Menu
    BY <1>2, WaysAreSteps
  <2>2. CASE p \in nodes
    <3>1. {z} \in SUBSET nodes /\ {p} \in SUBSET nodes
      BY <2>2
    <3>2. p \in Below(tbl, nodes, {p})
      BY <3>1, BelowLeast
    <3>3. {z} \subseteq Below(tbl, nodes, {p})
      BY <3>1, <3>2, BelowLeast
    <3>4. Below(tbl, nodes, {z}) \subseteq Below(tbl, nodes, {p})
      BY <3>1, <3>3, BelowBelow
    <3>5. QED
      BY <2>1, <3>4
  <2>3. QED
    BY <2>1, <2>2
<1>3. D \in SUBSET Menu
  OBVIOUS
<1> HIDE DEF D
<1>4. Marked(tbl, nodes, y) \subseteq D
  BY <1>1, <1>2, <1>3, MarkedLeast
<1>5. QED
  BY <1>4 DEF D

\* A menu that its parent leads up to is in a circle.
LEMMA CircleThere ==
    ASSUME NEW tbl \in Table, NEW nodes \in SUBSET Rows(tbl), NEW x \in nodes,
           tbl[x].parent \in nodes, x \in Marked(tbl, nodes, tbl[x].parent)
    PROVE  InCircle(tbl, nodes, x)
<1> DEFINE K == {k \in nodes : tbl[k].parent = x}
           p == tbl[x].parent
           B == Below(tbl, nodes, K)
<1>0. Kids(tbl, x) \cap nodes = K
  BY DEF Kids
<1>1. p \in Below(tbl, nodes, {x})
  BY UpIsDown
<1>2. K \in SUBSET nodes /\ {x} \in SUBSET nodes /\ \A k \in nodes : tbl[k].parent = x => k \in K
  OBVIOUS
<1> HIDE DEF K
<1>3. K \subseteq B /\ B \subseteq nodes /\ \A m \in B, k \in nodes : tbl[k].parent = m => k \in B
  BY <1>2, BelowLeast
<1> HIDE DEF B
<1> DEFINE T == {x} \cup B
<1>4. T \in SUBSET nodes /\ {x} \subseteq T /\ \A m \in T, k \in nodes : tbl[k].parent = m => k \in T
  BY <1>2, <1>3
<1> HIDE DEF T
<1>5. Below(tbl, nodes, {x}) \subseteq T
  BY <1>2, <1>4, BelowLeast
<1>6. x \in B
  BY <1>1, <1>2, <1>3, <1>5 DEF T
<1>7. QED
  BY <1>0, <1>6 DEF B, InCircle

\* The tree holds a node unless the menus above it run in a circle: what is not in the
\* tree has a parent that is not, and so on without end, and there are only so many.
LEMMA TreeHolds ==
    ASSUME NEW tbl \in Table, NEW nodes \in SUBSET Rows(tbl), NEW n \in nodes,
           \A c \in Marked(tbl, nodes, n) \cap nodes : ~InCircle(tbl, nodes, c)
    PROVE  n \in MenuTree(tbl, nodes)
<1> DEFINE Out == (Marked(tbl, nodes, n) \cap nodes) \ MenuTree(tbl, nodes)
           Above(x) == Marked(tbl, nodes, x)
           Sizes == {Cardinality(Above(x)) : x \in Out}
<1>0. SUFFICES ASSUME n \notin MenuTree(tbl, nodes) PROVE FALSE
  OBVIOUS
<1>1. ASSUME NEW x \in nodes PROVE x \in Above(x) /\ IsFiniteSet(Above(x)) /\ Cardinality(Above(x)) \in Nat
  BY MarkedLeast, LastIs, FS_Subset, FS_CardinalityType
<1>2. Sizes # {} /\ Sizes \subseteq Nat
  BY <1>0, <1>1
<1>3. PICK x \in Out : \A y \in Out : Cardinality(Above(x)) <= Cardinality(Above(y))
  <2> HIDE DEF Sizes
  <2>1. PICK s \in Sizes : \A t \in Sizes : s <= t
    BY <1>2, LeastNumber
  <2> USE DEF Sizes
  <2>2. QED
    BY <2>1
<1> DEFINE p == tbl[x].parent
<1>4. Roots(tbl, nodes) \in SUBSET nodes
  BY DEF Roots
<1>5. p \in nodes /\ p \notin MenuTree(tbl, nodes)
  BY <1>3, <1>4, BelowLeast DEF MenuTree, Roots
<1>6. p # Top /\ p \in Menu
  BY <1>5, WaysAreSteps, MenuAssumption
<1>7. p \in Out /\ p \in Above(x)
  BY <1>1, <1>3, <1>5, <1>6, MarkedLeast
<1>8. Above(p) \subseteq Above(x)
  <2> DEFINE T == Above(x)
  <2>1. T \in SUBSET Menu /\ p \in T /\ \A m \in T \cap nodes : tbl[m].parent # Top => tbl[m].parent \in T
    BY <1>3, <1>7, MarkedLeast
  <2> HIDE DEF T
  <2>2. ASSUME NEW q \in nodes, q \in T PROVE Marked(tbl, nodes, q) \subseteq T
    BY <2>1, <2>2, MarkedLeast
  <2>3. QED
    BY <1>5, <2>1, <2>2 DEF T
<1>9. x \in Above(p)
  <2>1. IsFiniteSet(Above(x)) /\ Cardinality(Above(x)) \in Nat /\ Cardinality(Above(p)) \in Nat
    BY <1>1, <1>3, <1>5
  <2>2. Cardinality(Above(p)) <= Cardinality(Above(x)) /\ (Cardinality(Above(x)) = Cardinality(Above(p)) => Above(x) = Above(p))
    BY <1>8, <2>1, FS_Subset
  <2>3. Above(x) = Above(p)
    BY <1>3, <1>7, <2>1, <2>2
  <2>4. QED
    BY <1>1, <1>3, <2>3
<1>10. InCircle(tbl, nodes, x)
  BY <1>3, <1>5, <1>9, CircleThere
<1>11. QED
  BY <1>3, <1>10

\* It holds no other.
LEMMA TreeOnly ==
    ASSUME NEW tbl \in Table, NEW nodes \in SUBSET Rows(tbl)
    PROVE  /\ MenuTree(tbl, nodes) \subseteq nodes
           /\ \A n \in MenuTree(tbl, nodes) : \A c \in Marked(tbl, nodes, n) \cap nodes : ~InCircle(tbl, nodes, c)
<1> DEFINE G == {n \in nodes : \A c \in Marked(tbl, nodes, n) \cap nodes : ~InCircle(tbl, nodes, c)}
<1>0. Roots(tbl, nodes) \in SUBSET nodes /\ G \in SUBSET nodes
  BY DEF Roots
<1>1. ASSUME NEW r \in Roots(tbl, nodes) PROVE r \in G
  <2> DEFINE T == {r} \cup (Menu \ nodes)
  <2>1. r \in nodes /\ tbl[r].parent \notin nodes
    BY DEF Roots
  <2>2. T \in SUBSET Menu /\ r \in T /\ \A n \in T \cap nodes : tbl[n].parent # Top => tbl[n].parent \in T
    BY <2>1, WaysAreSteps
  <2> HIDE DEF T
  <2>3. Marked(tbl, nodes, r) \subseteq T
    BY <2>1, <2>2, MarkedLeast
  <2>4. ~InCircle(tbl, nodes, r)
    BY <2>1, CircleUp
  <2>5. QED
    BY <2>1, <2>3, <2>4 DEF T
<1>2. ASSUME NEW g \in G, NEW k \in nodes, tbl[k].parent = g PROVE k \in G
  <2> DEFINE T == {k} \cup Marked(tbl, nodes, g)
  <2>1. /\ g \in Marked(tbl, nodes, g) /\ Marked(tbl, nodes, g) \subseteq Menu
        /\ \A n \in Marked(tbl, nodes, g) \cap nodes : tbl[n].parent # Top => tbl[n].parent \in Marked(tbl, nodes, g)
    BY MarkedLeast
  <2>2. T \in SUBSET Menu /\ k \in T /\ \A n \in T \cap nodes : tbl[n].parent # Top => tbl[n].parent \in T
    BY <1>2, <2>1, WaysAreSteps
  <2> HIDE DEF T
  <2>3. Marked(tbl, nodes, k) \subseteq T
    BY <2>2, MarkedLeast
  <2>4. ~InCircle(tbl, nodes, g)
    BY <2>1
  <2>5. ~InCircle(tbl, nodes, k)
    BY <1>2, <2>4, CircleUp
  <2>6. QED
    BY <2>3, <2>5 DEF T
<1>3. MenuTree(tbl, nodes) \subseteq G
  <2> HIDE DEF G
  <2>1. QED
    BY <1>0, <1>1, <1>2, BelowLeast DEF MenuTree
<1>4. QED
  BY <1>3

\* MenuTreeForUser shows every page a member may open, of the rest only what leads to
\* one, and loses only what is in a circle or below one, whatever administrators have
\* made of the table.
THEOREM TreeIsWhole == Spec => []TreeWhole
<1>1. ASSUME Right PROVE TreeWhole
  <2> DEFINE all == Enabled(menus) \cap Business
  <2>1. menus \in Table /\ all \in SUBSET Rows(menus)
    BY <1>1 DEF Right, Types, Tables, Enabled
  <2>2. ASSUME NEW perms \in SUBSET Perm
        PROVE  LET nodes == VisibleNodes(menus, all, perms)
                   circles == {n \in nodes : InCircle(menus, nodes, n)}
               IN  /\ Granted(all, perms) \subseteq nodes
                   /\ MenuTree(menus, nodes) = {n \in nodes : Marked(menus, nodes, n) \cap circles = {}}
    <3> DEFINE nodes == VisibleNodes(menus, all, perms)
               circles == {n \in nodes : InCircle(menus, nodes, n)}
    <3>1. nodes \in SUBSET Rows(menus)
      BY <2>1 DEF VisibleNodes
    <3>2. Granted(all, perms) \subseteq nodes
      <4> HIDE DEF all
      <4>1. \A m \in all : m \in Marked(menus, all, m)
        BY <2>1, MarkedLeast
      <4>2. QED
        BY <4>1 DEF VisibleNodes, Granted
    <3> HIDE DEF nodes
    <3>3. ASSUME NEW n \in MenuTree(menus, nodes) PROVE n \in nodes /\ Marked(menus, nodes, n) \cap circles = {}
      BY <2>1, <3>1, TreeOnly
    <3>4. ASSUME NEW n \in nodes, Marked(menus, nodes, n) \cap circles = {} PROVE n \in MenuTree(menus, nodes)
      BY <2>1, <3>1, <3>4, TreeHolds
    <3>5. MenuTree(menus, nodes) = {n \in nodes : Marked(menus, nodes, n) \cap circles = {}}
      BY <3>3, <3>4
    <3>6. QED
      BY <3>2, <3>5 DEF nodes
  <2>3. QED
    BY <2>2 DEF TreeWhole
<1>2. QED
  BY <1>1, RightHolds, PTL

==============================================================================
