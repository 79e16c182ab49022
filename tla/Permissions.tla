---------------------------- MODULE Permissions ----------------------------
(***************************************************************************)
(* Members, roles and menus of a tenant, and the permissions a process of  *)
(* the gateway remembers of each member (repository/rbac.go,               *)
(* repository/menu.go and their handlers).  A request is a sequence of     *)
(* statements and transactions; the two caches are dropped by calls of     *)
(* their own, before or after the commit as the code has it, and filled by *)
(* readers that look at one table after the other.  The menus belong to    *)
(* all tenants and everything else here to one: what two tenants do meets  *)
(* only in the menus.                                                      *)
(***************************************************************************)
EXTENDS Menus

CONSTANTS
    User, Name,
    MaxRoles,     \* bound: roles, ever
    Staff,        \* StaffPerms
    Req,          \* requests that write
    Reader,       \* calls of GetUserPerms
    MaxChanges    \* bound: requests that write, ever

Role == 1..MaxRoles
Custom == Menu \ Builtin
Code == {"admin", "staff", "custom"}
\* The current map, those the readers hold, and a new one.
MapId == 1..(Cardinality(Reader) + 2)

Idle == [at |-> "idle"]

ASSUME PermissionsAssumption ==
    /\ {Never, Gone} \cap Code = {} /\ IsFiniteSet(Reader)
    /\ Staff \subseteq Perm /\ MaxChanges \in Nat
    /\ MaxRoles \in Nat /\ MaxRoles >= 2

VARIABLES
    menus, links,      \* menus, sys_role_menu
    roles, seeded,     \* roles: the code of each; tenants.rbac_seeded
    users, holds,      \* users; user_roles
    maps, cur,         \* the maps rolePermsCache has held, and the one it holds
    menuCache,         \* menuListCache, Never when it is not loaded
    req, read,         \* where each request and each reader stands
    changes,
    late, menusLate,   \* what is cached may be of before a change that nothing
                       \*   will drop it for, or of a failed read (history)
    failed             \* a reset of the menus failed (history)

tables == <<menus, links, roles, seeded, users, holds>>
caches == <<maps, cur, menuCache, late, menusLate>>
vars == <<tables, caches, req, read, changes, failed>>

Live == {r \in Role : roles[r] \in Code}
Members == {u \in User : users[u] \notin {Never, Gone}}
\* Ids are counted up.
NewRole == 1 + Cardinality({r \in Role : roles[r] # Never})

MenusOf(rs) == {m \in Menu : \E r \in rs : <<r, m>> \in links}
RolesOf(u) == {r \in Role : <<u, r>> \in holds}

\* What the tables say a member may do.
Derived(u) == PermsOfMenuIDs(menus, MenusOf(RolesOf(u)))

Cached == maps[cur]
Member == [name : Name, hashed : Name, on : BOOLEAN]

TypeOK ==
    /\ menus \in Table /\ links \subseteq Role \X Menu
    /\ roles \in [Role -> Code \cup {Never, Gone}] /\ seeded \in BOOLEAN
    /\ users \in [User -> Member \cup {Never, Gone}] /\ holds \subseteq User \X Role
    /\ cur \in MapId /\ DOMAIN maps = MapId
    /\ \A i \in MapId : DOMAIN maps[i] \subseteq User
                        /\ \A u \in DOMAIN maps[i] : maps[i][u] \subseteq Perm
    /\ menuCache \in Table \cup {Never}
    /\ \A w \in Req : req[w] # Idle => req[w].at \in {"ready", "counted", "open", "done"}
    /\ \A r \in Reader : read[r] # Idle => read[r].u \in User
    /\ changes \in 0..MaxChanges
    /\ {late, menusLate, failed} \subseteq BOOLEAN

None == [u \in {} |-> {}]

\* A tenant nobody has used yet, before whom others may have made menus, or one with its
\* first member and perhaps without its administrator role.
Init ==
    /\ \/ /\ \E C \in SUBSET Custom : menus = WithSeed(
                [m \in Menu |-> IF m \in C THEN [parent |-> Top, on |-> TRUE] ELSE Never])
          /\ seeded = FALSE /\ roles = [r \in Role |-> Never]
          /\ links = {} /\ users = [u \in User |-> Never] /\ holds = {}
       \/ \E u \in User, n \in Name, code \in {"admin", Gone} :
             /\ menus = WithSeed([m \in Menu |-> Never]) /\ seeded = TRUE
             /\ roles = [r \in Role |-> CASE r = 1 -> code [] r = 2 -> "staff"
                                          [] OTHER -> Never]
             /\ links = {<<1, m>> : m \in IF code = Gone THEN {} ELSE Builtin \cap Business}
                          \cup {<<2, m>> : m \in {k \in Builtin : PermOf[k] \in Staff}}
             /\ users = [v \in User |->
                            IF v = u THEN [name |-> n, hashed |-> n, on |-> TRUE] ELSE Never]
             /\ holds = {<<u, 2>>}
    /\ maps = [i \in MapId |-> None] /\ cur = 1 /\ menuCache = Never
    /\ req = [w \in Req |-> Idle] /\ read = [r \in Reader |-> Idle]
    /\ changes = 0 /\ late = FALSE /\ menusLate = FALSE /\ failed = FALSE

-----------------------------------------------------------------------------
(* Requests *)

Begins(w, job) ==
    /\ req[w] = Idle /\ changes < MaxChanges
    /\ changes' = changes + 1
    /\ req' = [req EXCEPT ![w] = job]

At(w, at, op) == req[w] # Idle /\ req[w].at = at /\ req[w].op = op
Goes(w, job) == req' = [req EXCEPT ![w] = job] /\ UNCHANGED changes
Ends(w) == Goes(w, Idle)

\* A transaction that has written and not committed holds up other writers.
NoOpenTx == \A w \in Req : req[w] # Idle => req[w].at # "open"

\* Committed: a reader under way may have seen some of it or none.
Notes == read' = [r \in Reader |->
            IF read[r] = Idle THEN Idle
            ELSE [read[r] EXCEPT !.old = @ \/ <<menus, links, holds>>' # <<menus, links, holds>>]]

\* A commit after which the caches named are dropped.
Commits(w, drops) ==
    /\ NoOpenTx
    /\ Goes(w, [at |-> "done", op |-> "drop", drops |-> drops])
    /\ Notes /\ UNCHANGED <<caches, failed>>

\* A commit that ends the request; what is cached then stays.
CommitsLast(w, job) ==
    /\ Goes(w, job) /\ Notes
    /\ late' = (late \/ \E u \in DOMAIN Cached : Cached[u] # Derived(u)')
    /\ menusLate' = (menusLate \/ menuCache \notin {Never, menus'})
    /\ UNCHANGED <<maps, cur, menuCache, failed>>

Held(i) == \E r \in Reader : read[r] # Idle /\ read[r].at = "map" /\ read[r].map = i

\* invalidateRolePermsCache: a new map; the old one lives on in the hands of a reader.
invalidateRolePermsCache ==
    /\ cur' = CHOOSE i \in MapId : i # cur /\ ~Held(i)
    /\ maps' = [i \in MapId |-> IF Held(i) THEN maps[i] ELSE None]
    /\ late' = FALSE

\* invalidateMenuCache
invalidateMenuCache == menuCache' = Never /\ menusLate' = FALSE

\* The handlers drop the permissions and then, of menus, the menus; no reader looks
\* at both in between.
Invalidates(w) ==
    /\ At(w, "done", "drop")
    /\ IF "perms" \in req[w].drops THEN invalidateRolePermsCache ELSE UNCHANGED <<maps, cur, late>>
    /\ IF "menus" \in req[w].drops THEN invalidateMenuCache ELSE UNCHANGED <<menuCache, menusLate>>
    /\ Ends(w) /\ UNCHANGED <<tables, read, failed>>

-----------------------------------------------------------------------------
(* EnsureTenantRoles: once per tenant, in front of other requests *)

\* The count, outside any lock; what the transaction reads later is of this moment.
\* next is the rest of the request.
Ensuring(next) ==
    IF Live # {} THEN next
    ELSE [at |-> "counted", op |-> "seed", seen |-> menus, next |-> next]

AdminRoleList(w) ==
    /\ Live = {}
    /\ Begins(w, Ensuring(Idle))
    /\ UNCHANGED <<tables, caches, read, failed>>

\* The tenant's row is locked and read again; then roles and links are written
\* and the cache is dropped, all inside the transaction.
\* Mutant of MaySeed: the flag is not looked at under the lock.
MaySeedAnyway == TRUE

MaySeed == ~seeded

SkipsSeed(w) ==
    /\ At(w, "counted", "seed") /\ NoOpenTx
    /\ ~MaySeed
    /\ Goes(w, req[w].next) /\ UNCHANGED <<tables, caches, read, failed>>

Seeds(w) ==
    /\ At(w, "counted", "seed") /\ NoOpenTx
    /\ MaySeed
    /\ invalidateRolePermsCache
    /\ Goes(w, [req[w] EXCEPT !.at = "open"])
    /\ UNCHANGED <<tables, menuCache, menusLate, read, failed>>

SeedCommits(w) ==
    /\ At(w, "open", "seed")
    /\ \E a \in {NewRole} :
          /\ roles' = [roles EXCEPT ![a] = "admin", ![a + 1] = "staff"]
          /\ links' = links
                \cup {<<a, m>> : m \in Rows(req[w].seen) \cap Business}
                \cup {<<a + 1, m>> : m \in {k \in Enabled(req[w].seen) : PermOf[k] \in Staff}}
    /\ seeded' = TRUE
    /\ UNCHANGED <<menus, users, holds>>
    /\ CommitsLast(w, req[w].next)

-----------------------------------------------------------------------------
(* Menus *)

\* The handler looks the parent up; the row is written by a statement of its own.
AdminMenuCreate(w) ==
    \E p \in Rows(menus) \cup {Top}, on \in BOOLEAN :
        /\ Begins(w, [at |-> "ready", op |-> "create menu", p |-> p, on |-> on])
        /\ UNCHANGED <<tables, caches, read, failed>>

CreateMenu(w) ==
    /\ At(w, "ready", "create menu")
    /\ \E m \in Custom :
          /\ menus[m] = Never
          /\ menus' = [menus EXCEPT ![m] = [parent |-> req[w].p, on |-> req[w].on]]
    /\ UNCHANGED <<links, roles, seeded, users, holds>>
    /\ Commits(w, {"perms", "menus"})

\* The menu and its new parent are looked up; only a parent other than the menu
\* itself is asked to exist.
AdminMenuUpdate(w) ==
    \E m \in Rows(menus), p \in Rows(menus) \cup {Top}, on \in BOOLEAN :
        /\ Begins(w, [at |-> "ready", op |-> "update menu", m |-> m, p |-> p, on |-> on])
        /\ UNCHANGED <<tables, caches, read, failed>>

UpdateMenu(w) ==
    /\ At(w, "ready", "update menu")
    /\ LET m == req[w].m IN
           menus' = IF m \in Rows(menus)
                    THEN [menus EXCEPT ![m] = [parent |-> req[w].p, on |-> req[w].on]]
                    ELSE menus
    /\ UNCHANGED <<links, roles, seeded, users, holds>>
    /\ Commits(w, {"perms", "menus"})

\* AdminMenuBatchUpdate: the ids are not looked up first.
BatchUpdateMenus(w) ==
    /\ NoOpenTx
    /\ \E ms \in SUBSET Rows(menus) \ {{}}, on \in BOOLEAN :
          /\ Begins(w, [at |-> "done", op |-> "drop", drops |-> {"perms", "menus"}])
          /\ menus' = [m \in Menu |-> IF m \in ms THEN [menus[m] EXCEPT !.on = on] ELSE menus[m]]
    /\ UNCHANGED <<links, roles, seeded, users, holds, caches, failed>>
    /\ Notes

\* The menu is looked up and, outside the transaction, all that is below it; in a
\* circle of menus the walk does not end.
AdminMenuDelete(w) ==
    \E m \in Rows(menus) :
        /\ Begins(w, [at |-> "ready", op |-> "delete menu", ms |-> collectChildren(menus, m)])
        /\ CollectEnds(menus, m)
        /\ UNCHANGED <<tables, caches, read, failed>>

DeleteMenu(w) ==
    /\ At(w, "ready", "delete menu")
    /\ LET ms == req[w].ms IN
          /\ menus' = [m \in Menu |-> IF m \in ms \cap Rows(menus) THEN Gone ELSE menus[m]]
          /\ links' = {l \in links : l[2] \notin ms}
    /\ UNCHANGED <<roles, seeded, users, holds>>
    /\ Commits(w, {"perms", "menus"})

\* AdminMenuResetBuiltin: the built-in ids are listed before the transaction.
ResetBegins(w) ==
    /\ Begins(w, [at |-> "ready", op |-> "reset menus", ms |-> Rows(menus) \cap Builtin])
    /\ UNCHANGED <<tables, caches, read, failed>>

AdminLinks(rows) == {<<r, m>> : r \in {a \in Role : roles[a] = "admin"}, m \in rows \cap Business}
LinksKept(ms) == {l \in links : l[2] \notin ms}

\* The links of every administrator role are written anew, one by one; sys_role_menu
\* holds a pair once.
ResetClashes(ms) == LinksKept(ms) \cap AdminLinks(Builtin \cup Rows(menus)) # {}

ResetFails(w) ==
    /\ At(w, "ready", "reset menus") /\ NoOpenTx
    /\ ResetClashes(req[w].ms)
    /\ failed' = TRUE
    /\ Ends(w) /\ UNCHANGED <<tables, caches, read>>

ResetWrites(w) ==
    /\ At(w, "ready", "reset menus") /\ NoOpenTx
    /\ ~ResetClashes(req[w].ms)
    /\ invalidateRolePermsCache /\ invalidateMenuCache
    /\ Goes(w, [req[w] EXCEPT !.at = "open"])
    /\ UNCHANGED <<tables, read, failed>>

\* Mutant of AdminsRestored: only the links to custom menus are there afterwards.
AdminsRestoredNot == AdminLinks(Rows(menus) \ Builtin)

AdminsRestored == AdminLinks(Builtin \cup Rows(menus))

ResetCommits(w) ==
    /\ At(w, "open", "reset menus")
    /\ menus' = WithSeed(menus)
    /\ links' = LinksKept(req[w].ms) \cup AdminsRestored
    /\ UNCHANGED <<roles, seeded, users, holds>>
    /\ CommitsLast(w, Idle)

-----------------------------------------------------------------------------
(* Roles *)

AdminRoleCreate(w) ==
    \E ms \in SUBSET Rows(menus) :
        /\ Begins(w, Ensuring([at |-> "ready", op |-> "create role", ms |-> ms]))
        /\ UNCHANGED <<tables, caches, read, failed>>

CreateRole(w) ==
    /\ At(w, "ready", "create role")
    /\ \E r \in {NewRole} \cap Role :
          /\ roles' = [roles EXCEPT ![r] = "custom"]
          /\ links' = links \cup {<<r, m>> : m \in req[w].ms}
    /\ UNCHANGED <<menus, seeded, users, holds>>
    /\ Commits(w, {"perms"})

\* The role is looked up; the transaction then replaces its menus whatever became of it.
AdminRoleUpdate(w) ==
    \E r \in Live, ms \in SUBSET Rows(menus) :
        /\ Begins(w, [at |-> "ready", op |-> "update role", r |-> r, ms |-> ms])
        /\ UNCHANGED <<tables, caches, read, failed>>

Relinked(r, ms) == {l \in links : l[1] # r} \cup {<<r, m>> : m \in ms}

\* Mutant of UpdateRole: the permissions are not dropped.
UpdateRoleNoDrop(w) ==
    /\ At(w, "ready", "update role")
    /\ links' = Relinked(req[w].r, req[w].ms)
    /\ UNCHANGED <<menus, roles, seeded, users, holds>>
    /\ Commits(w, {})

UpdateRole(w) ==
    /\ At(w, "ready", "update role")
    /\ links' = Relinked(req[w].r, req[w].ms)
    /\ UNCHANGED <<menus, roles, seeded, users, holds>>
    /\ Commits(w, {"perms"})

\* DeleteRole: three statements, then the cache.
AdminRoleDelete(w) ==
    \E r \in Live :
        /\ Begins(w, [at |-> "ready", op |-> "delete role", r |-> r])
        /\ UNCHANGED <<tables, caches, read, failed>>

DeleteRoleMembers(w) ==
    /\ At(w, "ready", "delete role") /\ NoOpenTx
    /\ holds' = {h \in holds : h[2] # req[w].r}
    /\ UNCHANGED <<menus, links, roles, seeded, users>>
    /\ Goes(w, [req[w] EXCEPT !.op = "delete its links"])
    /\ Notes /\ UNCHANGED <<caches, failed>>

DeleteRoleMenus(w) ==
    /\ At(w, "ready", "delete its links") /\ NoOpenTx
    /\ links' = {l \in links : l[1] # req[w].r}
    /\ UNCHANGED <<menus, roles, seeded, users, holds>>
    /\ Goes(w, [req[w] EXCEPT !.op = "delete its row"])
    /\ Notes /\ UNCHANGED <<caches, failed>>

DeleteRole(w) ==
    /\ At(w, "ready", "delete its row")
    /\ roles' = [roles EXCEPT ![req[w].r] = Gone]
    /\ UNCHANGED <<menus, links, seeded, users, holds>>
    /\ Commits(w, {"perms"})

-----------------------------------------------------------------------------
(* Members *)

\* A password's hash is made with the user name (HashUserPassword); the passwords
\* themselves are left out.
NamesTaken == {users[u].name : u \in Members}

\* The roles come from the page and are not compared with the tenant's.
AdminMemberCreate(w) ==
    \E n \in Name, rs \in SUBSET Live \ {{}} :
        /\ Begins(w, Ensuring([at |-> "ready", op |-> "create user", n |-> n, rs |-> rs]))
        /\ UNCHANGED <<tables, caches, read, failed>>

CreateUser(w) ==
    /\ At(w, "ready", "create user") /\ NoOpenTx
    /\ IF req[w].n \in NamesTaken
       THEN UNCHANGED <<users, holds>>
       ELSE \E u \in User :
               /\ users[u] = Never
               /\ users' = [users EXCEPT ![u] =
                               [name |-> req[w].n, hashed |-> req[w].n, on |-> TRUE]]
               /\ holds' = holds \cup {<<u, r>> : r \in req[w].rs}
    /\ UNCHANGED <<menus, links, roles, seeded>>
    /\ CommitsLast(w, Idle)

\* AdminMemberRoles: SetUserRoles keeps the roles that exist when it reads them; the
\* transaction comes after.
AdminMemberRoles(w) ==
    \E u \in Members, rs \in SUBSET Live \ {{}} :
        /\ Begins(w, [at |-> "ready", op |-> "set roles", u |-> u, rs |-> rs])
        /\ UNCHANGED <<tables, caches, read, failed>>

SetUserRoles(w) ==
    /\ At(w, "ready", "set roles") /\ NoOpenTx
    /\ LET u == req[w].u IN
           holds' = {h \in holds : h[1] # u} \cup {<<u, r>> : r \in req[w].rs}
    /\ UNCHANGED <<menus, links, roles, seeded, users>>
    /\ CommitsLast(w, Idle)

\* AdminMemberUpdate: the name, checked against the others', and then the roles.
AdminMemberUpdate(w) ==
    \E u \in Members, n \in Name, rs \in SUBSET Live :
        /\ n = users[u].name \/ n \notin NamesTaken
        /\ n # users[u].name \/ rs # {}
        /\ Begins(w, [at |-> "ready", op |-> "update user", u |-> u, n |-> n, rs |-> rs])
        /\ UNCHANGED <<tables, caches, read, failed>>

UpdateUserFields(w) ==
    /\ At(w, "ready", "update user") /\ NoOpenTx
    /\ LET u == req[w].u
           rs == req[w].rs \cap Live
       IN  IF \E v \in Members \ {u} : users[v].name = req[w].n
           THEN UNCHANGED users /\ Ends(w)
           ELSE /\ users' = IF u \in Members THEN [users EXCEPT ![u].name = req[w].n] ELSE users
                /\ Goes(w, IF req[w].rs = {} THEN Idle
                           ELSE [at |-> "ready", op |-> "set roles", u |-> u, rs |-> rs])
    /\ UNCHANGED <<menus, links, roles, seeded, holds, caches, read, failed>>

\* One statement each.
AdminMemberStatus(w) ==
    /\ NoOpenTx /\ req[w] = Idle /\ changes < MaxChanges
    /\ \E u \in Members, on \in BOOLEAN : users' = [users EXCEPT ![u].on = on]
    /\ changes' = changes + 1
    /\ UNCHANGED <<menus, links, roles, seeded, holds, caches, req, read, failed>>

\* The name that goes into the hash was read before the write.
AdminMemberPassword(w) ==
    \E u \in Members :
        /\ Begins(w, [at |-> "ready", op |-> "set password", u |-> u, n |-> users[u].name])
        /\ UNCHANGED <<tables, caches, read, failed>>

UpdateUserPassword(w) ==
    /\ At(w, "ready", "set password") /\ NoOpenTx
    /\ users' = IF req[w].u \in Members THEN [users EXCEPT ![req[w].u].hashed = req[w].n] ELSE users
    /\ Ends(w)
    /\ UNCHANGED <<menus, links, roles, seeded, holds, caches, read, failed>>

\* AdminMemberDelete: the cache is dropped inside the transaction.
DeleteUser(w) ==
    /\ NoOpenTx
    /\ \E u \in Members : Begins(w, [at |-> "open", op |-> "delete user", u |-> u])
    /\ invalidateRolePermsCache
    /\ UNCHANGED <<tables, menuCache, menusLate, read, failed>>

DeleteUserCommits(w) ==
    /\ At(w, "open", "delete user")
    /\ users' = [users EXCEPT ![req[w].u] = Gone]
    /\ holds' = {h \in holds : h[1] # req[w].u}
    /\ UNCHANGED <<menus, links, roles, seeded>>
    /\ CommitsLast(w, Idle)

-----------------------------------------------------------------------------
(* GetUserPerms on a miss: user_roles, sys_role_menu, menus, then the map *)

Looks(r, call) ==
    /\ read' = [read EXCEPT ![r] = call]
    /\ UNCHANGED <<tables, caches, req, changes, failed>>

ReadUserRoles(r) ==
    \E u \in User :
        /\ read[r] = Idle /\ users[u] # Never /\ u \notin DOMAIN Cached
        /\ Looks(r, [at |-> "roles", u |-> u, old |-> FALSE, found |-> RolesOf(u)])

Reads(r, at) == read[r] # Idle /\ read[r].at = at
Reading(r, at, old, found) == [at |-> at, u |-> read[r].u, old |-> old, found |-> found]

ReadRoleMenus(r) ==
    /\ Reads(r, "roles")
    /\ Looks(r, Reading(r, "menus", read[r].old, MenusOf(read[r].found)))

ReadMenuPerms(r) ==
    /\ Reads(r, "menus")
    /\ Looks(r, Reading(r, "perms", read[r].old, PermsOfMenuIDs(menus, read[r].found)))

\* A read that fails leaves the member without permissions, and that is kept.
ReadFails(r) ==
    /\ Reads(r, "roles") \/ Reads(r, "menus")
    /\ Looks(r, Reading(r, "perms", TRUE, {}))

\* The map is loaded, and
LoadMap(r) ==
    /\ Reads(r, "perms")
    /\ Looks(r, [at |-> "map", u |-> read[r].u, old |-> read[r].old, found |-> read[r].found, map |-> cur])

Adds(map, u, ps) == [v \in DOMAIN map \cup {u} |-> IF v = u THEN ps ELSE map[v]]

\* changed and stored, which makes it the current one again.
StoreMap(r) ==
    /\ Reads(r, "map")
    /\ LET c == read[r] IN
          /\ maps' = [i \in MapId |-> IF i = c.map THEN Adds(maps[i], c.u, c.found)
                                     ELSE IF Held(i) THEN maps[i] ELSE None]
          /\ cur' = c.map
          /\ late' = (late \/ c.old \/ c.map # cur)
    /\ read' = [read EXCEPT ![r] = Idle]
    /\ UNCHANGED <<tables, menuCache, menusLate, req, changes, failed>>

\* cachedMenus reads the table with the mutex held.
cachedMenus ==
    /\ menuCache = Never
    /\ menuCache' = menus
    /\ UNCHANGED <<tables, maps, cur, late, menusLate, req, read, changes, failed>>

-----------------------------------------------------------------------------
Next ==
    \/ \E w \in Req :
          \/ Invalidates(w)
          \/ AdminRoleList(w) \/ SkipsSeed(w) \/ Seeds(w) \/ SeedCommits(w)
          \/ AdminMenuCreate(w) \/ CreateMenu(w) \/ AdminMenuUpdate(w) \/ UpdateMenu(w)
          \/ BatchUpdateMenus(w) \/ AdminMenuDelete(w) \/ DeleteMenu(w)
          \/ ResetBegins(w) \/ ResetFails(w) \/ ResetWrites(w) \/ ResetCommits(w)
          \/ AdminRoleCreate(w) \/ CreateRole(w) \/ AdminRoleUpdate(w) \/ UpdateRole(w)
          \/ AdminRoleDelete(w) \/ DeleteRoleMembers(w) \/ DeleteRoleMenus(w) \/ DeleteRole(w)
          \/ AdminMemberCreate(w) \/ CreateUser(w) \/ AdminMemberRoles(w) \/ SetUserRoles(w)
          \/ AdminMemberUpdate(w) \/ UpdateUserFields(w) \/ AdminMemberStatus(w)
          \/ AdminMemberPassword(w) \/ UpdateUserPassword(w)
          \/ DeleteUser(w) \/ DeleteUserCommits(w)
    \/ \E r \in Reader :
          \/ ReadUserRoles(r) \/ ReadRoleMenus(r) \/ ReadMenuPerms(r) \/ ReadFails(r)
          \/ LoadMap(r) \/ StoreMap(r)
    \/ cachedMenus

Spec == Init /\ [][Next]_vars

-----------------------------------------------------------------------------
\* A request has changed the tables and not dropped the cache yet.
Dropping(c) ==
    \E w \in Req : \/ At(w, "done", "drop") /\ c \in req[w].drops
                  \/ At(w, "ready", "delete its links") \/ At(w, "ready", "delete its row")

\* What GetUserPerms answers from its cache is what the tables say, once whoever
\* changed them has dropped it: the exceptions are a reader that was under way or
\* failed, the three requests that drop the cache before they commit, and the two
\* that never do.
CacheFresh ==
    /\ late \/ Dropping("perms") \/ \A u \in DOMAIN Cached : Cached[u] = Derived(u)
    /\ menusLate \/ Dropping("menus") \/ menuCache \in {Never, menus}

\* However many first requests of a tenant come at once, and after the roles have been
\* deleted, EnsureTenantRoles gives it one administrator role, ever.
SeededOnce ==
    [][seeded => \A r \in Role : roles[r] = Never => roles'[r] \in {Never, "custom"}]_vars

\* The tree a member gets (MenuTreeForUser) holds each page it may open, and of the
\* rest only parents, unless the menus above it run in a circle.
TreeWhole ==
    LET all == Enabled(menus) \cap Business IN
    \A perms \in SUBSET Perm :
        LET nodes == VisibleNodes(menus, all, perms)
            circles == {n \in nodes : InCircle(menus, nodes, n)}
        IN  /\ Granted(all, perms) \subseteq nodes
            /\ MenuTree(menus, nodes) = {n \in nodes : Marked(menus, nodes, n) \cap circles = {}}

\* A reset of the built-in menus leaves every administrator role with every permission
\* and takes nothing from the menus, and the links to them, that are not built in.
ResetRestores ==
    [][\A w \in Req : At(w, "open", "reset menus") /\ req[w] # req'[w] =>
          /\ \A r \in Role : roles[r] = "admin" =>
                Catalog \subseteq PermsOfMenuIDs(menus, {m \in Menu : <<r, m>> \in links})'
          /\ \A m \in Custom : menus'[m] = menus[m]
          /\ \A l \in links : l[2] \in Custom => l \in links']_vars

\* When SetUserRoles has returned, no permissions of the roles before are remembered.
RolesTakeEffect ==
    [][\A w \in Req, u \in User :
          At(w, "ready", "set roles") /\ req[w].u = u /\ req'[w] = Idle =>
              (u \in DOMAIN Cached => Cached[u] = Derived(u))']_vars

\* A reset of the built-in menus can always be done.
ResetSucceeds == ~failed
=============================================================================
