------------------------------- MODULE UserWS -------------------------------
(***************************************************************************)
(* The life of the chat sockets of the gateway: HandleUserWS in            *)
(* go_service/internal/handler/ws.go, over the connection limiter and the  *)
(* hub, with the write loop of each client, the goroutines that push       *)
(* messages to users, and the browser windows at the other end             *)
(* (web/chat/pc.html and h5.html).                                         *)
(*                                                                         *)
(* A window belongs to one user and dials again whenever its connection    *)
(* goes away, unless it was told "kicked".  One window can own several     *)
(* server-side connections: the one it uses, and older ones whose end the  *)
(* server has not noticed yet.  Owner gives each connection its window, so  *)
(* the connections of a window bound how many it can have at a time.        *)
(***************************************************************************)
EXTENDS WSLimiter, WSHub, FiniteSets

CONSTANTS
    Window,     \* browser windows
    Owner,      \* the window that dials a connection
    UserOf,     \* the user_id a window connects as
    IPOf,       \* the address a window connects from
    Quota,      \* tenants.max_concurrent_sessions per tenant, 0 = unlimited
    Pusher      \* goroutines that call SendToUser

ASSUME UserWSAssumption ==
    /\ IsFiniteSet(Conn)
    /\ Owner \in [Conn -> Window]
    /\ UserOf \in [Window -> User]
    /\ IPOf \in [Window -> IP]
    /\ Quota \in [Tenant -> Nat]

VARIABLES
    pc,        \* pc[c]: where the handler of c stands
    sock,      \* sock[c]: the server's end of the socket
    wl,        \* wl[c]: WriteLoop of c is running
    cur,       \* cur[w]: the connection window w uses, or NoConn
    stopped,   \* stopped[w]: kickedFlag of the page
    target,    \* target[p]: the client pusher p looked up, or NoConn
    check      \* check[c]: how c's quota check went, until c registers (history)

sessionVars == <<pc, sock, wl>>
browserVars == <<cur, stopped>>
vars == <<limiterVars, hubVars, sessionVars, browserVars, target, check>>

UserAt(c) == UserOf[Owner[c]]
IPAt(c) == IPOf[Owner[c]]
TenantAt(c) == TenantOf[UserAt(c)]

\* The browser is still at the other end of c.
Alive(c) == cur[Owner[c]] = c

Held == {"upgraded", "admitted", "open", "closing", "releasing"}
Registered == {"open", "closing"}

TypeOK ==
    /\ LimiterTypeOK
    /\ HubTypeOK
    /\ pc \in [Conn -> Held \cup {"idle"}]
    /\ sock \in [Conn -> {"up", "down"}]
    /\ wl \in [Conn -> BOOLEAN]
    /\ cur \in [Window -> Conn \cup {NoConn}]
    /\ stopped \in [Window -> BOOLEAN]
    /\ target \in [Pusher -> Conn \cup {NoConn}]
    /\ check \in [Conn -> {"none", "passed", "overtaken", "skipped"}]

Init ==
    /\ LimiterInit
    /\ HubInit
    /\ pc = [c \in Conn |-> "idle"]
    /\ sock = [c \in Conn |-> "down"]
    /\ wl = [c \in Conn |-> FALSE]
    /\ cur = [w \in Window |-> NoConn]
    /\ stopped = [w \in Window |-> FALSE]
    /\ target = [p \in Pusher |-> NoConn]
    /\ check = [c \in Conn |-> "none"]

-----------------------------------------------------------------------------
(* The handler, one connection each.                                       *)

\* Nothing refers to c any more, so it can stand for a new client.
Fresh(c) ==
    /\ pc[c] = "idle"
    /\ ~wl[c]
    /\ cur[Owner[c]] # c
    /\ \A p \in Pusher : target[p] # c

\* A window dials, gets past the limiter, and the socket is upgraded.
Connect(c) ==
    /\ Fresh(c)
    /\ cur[Owner[c]] = NoConn
    /\ ~stopped[Owner[c]]
    /\ TryAcquireConn(IPAt(c), UserAt(c))
    /\ pc' = [pc EXCEPT ![c] = "upgraded"]
    /\ sock' = [sock EXCEPT ![c] = "up"]
    /\ cur' = [cur EXCEPT ![Owner[c]] = c]
    /\ UNCHANGED <<hubVars, wl, stopped, target, check>>

\* Mutant of UpgradeFails: the handler returns before it defers ReleaseConn.
UpgradeFailsUndeferred(c) ==
    /\ Fresh(c)
    /\ cur[Owner[c]] = NoConn
    /\ ~stopped[Owner[c]]
    /\ TryAcquireConn(IPAt(c), UserAt(c))
    /\ UNCHANGED <<hubVars, sessionVars, browserVars, target, check>>

\* The limiter lets it in and the upgrade fails: the handler returns.
UpgradeFails(c) ==
    /\ Fresh(c)
    /\ cur[Owner[c]] = NoConn
    /\ ~stopped[Owner[c]]
    /\ TryAcquireConn(IPAt(c), UserAt(c))
    /\ pc' = [pc EXCEPT ![c] = "releasing"]
    /\ UNCHANGED <<hubVars, sock, wl, browserVars, target, check>>

\* Mutant of OverQuota: one too many.
OverQuotaLater(c) ==
    LET t == TenantAt(c)
    IN /\ t # NoTenant
       /\ Quota[t] > 0
       /\ CountTenantConnsExcluding(t, UserAt(c)) > Quota[t]

\* current >= quota.MaxConcurrentSessions, for a tenant with a quota
OverQuota(c) ==
    LET t == TenantAt(c)
    IN /\ t # NoTenant
       /\ Quota[t] > 0
       /\ CountTenantConnsExcluding(t, UserAt(c)) >= Quota[t]

QuotaPasses(c) ==
    /\ pc[c] = "upgraded"
    /\ TenantAt(c) # NoTenant
    /\ ~OverQuota(c)
    /\ pc' = [pc EXCEPT ![c] = "admitted"]
    /\ check' = [check EXCEPT ![c] = "passed"]
    /\ UNCHANGED <<limiterVars, hubVars, sock, wl, browserVars, target>>

\* The tenant's row cannot be read (or there is no tenant): no check.
QuotaUnreadable(c) ==
    /\ pc[c] = "upgraded"
    /\ pc' = [pc EXCEPT ![c] = "admitted"]
    /\ check' = [check EXCEPT ![c] = "skipped"]
    /\ UNCHANGED <<limiterVars, hubVars, sock, wl, browserVars, target>>

\* "concurrency_full" is written and the socket closed.
QuotaRefuses(c) ==
    /\ pc[c] = "upgraded"
    /\ OverQuota(c)
    /\ pc' = [pc EXCEPT ![c] = "releasing"]
    /\ sock' = [sock EXCEPT ![c] = "down"]
    /\ UNCHANGED <<limiterVars, hubVars, wl, browserVars, target, check>>

\* RegisterUser and `go cl.WriteLoop()`.
Register(c) ==
    /\ pc[c] = "admitted"
    /\ RegisterUser(UserAt(c), c)
    /\ pc' = [pc EXCEPT ![c] = "open"]
    /\ wl' = [wl EXCEPT ![c] = TRUE]
    /\ check' = [d \in Conn |->
                   CASE d = c -> "none"
                     [] d # c /\ check[d] = "passed" /\ TenantAt(d) = TenantAt(c)
                          -> "overtaken"
                     [] OTHER -> check[d]]
    /\ UNCHANGED <<limiterVars, sock, browserVars, target>>

\* Mutant of ReadFails: no read deadline, so a silent peer is never noticed.
ReadFailsNoDeadline(c) ==
    /\ pc[c] = "open"
    /\ sock[c] = "down"
    /\ pc' = [pc EXCEPT ![c] = "closing"]
    /\ UNCHANGED <<limiterVars, hubVars, sock, wl, browserVars, target, check>>

\* ReadMessage fails: the socket was closed, or the peer is gone and a close
\* frame, a reset or the 90 s read deadline says so.
ReadFails(c) ==
    /\ pc[c] = "open"
    /\ sock[c] = "down" \/ ~Alive(c)
    /\ pc' = [pc EXCEPT ![c] = "closing"]
    /\ UNCHANGED <<limiterVars, hubVars, sock, wl, browserVars, target, check>>

\* The two deferred calls, in the order they run.
Unregister(c) ==
    /\ pc[c] = "closing"
    /\ UnregisterUser(UserAt(c), c)
    /\ pc' = [pc EXCEPT ![c] = "releasing"]
    /\ UNCHANGED <<limiterVars, sock, wl, browserVars, target, check>>

Release(c) ==
    /\ pc[c] = "releasing"
    /\ ReleaseConn(IPAt(c), UserAt(c))
    /\ pc' = [pc EXCEPT ![c] = "idle"]
    /\ UNCHANGED <<hubVars, sock, wl, browserVars, target, check>>

-----------------------------------------------------------------------------
(* The write loop of a client.                                             *)

\* A frame goes out; the browser handles it if it is still there.
Write(c) ==
    /\ wl[c]
    /\ send[c] # <<>>
    /\ send' = [send EXCEPT ![c] = Tail(@)]
    /\ stopped' = IF Alive(c) /\ Head(send[c]) = "kicked"
                  THEN [stopped EXCEPT ![Owner[c]] = TRUE] ELSE stopped
    /\ UNCHANGED <<limiterVars, users, tenantConns, done, sessionVars, cur, target, check>>

\* The loop returns and closes the socket; what is still buffered is lost.
\* A write can fail once the peer is gone, and select may take the done branch
\* while messages are waiting.
WriteLoopEnds(c) ==
    /\ wl[c]
    /\ done[c] \/ (send[c] # <<>> /\ ~Alive(c))
    /\ wl' = [wl EXCEPT ![c] = FALSE]
    /\ sock' = [sock EXCEPT ![c] = "down"]
    /\ send' = [send EXCEPT ![c] = <<>>]
    /\ UNCHANGED <<limiterVars, users, tenantConns, done, pc, browserVars, target, check>>

-----------------------------------------------------------------------------
(* SendToUser, from any goroutine.                                         *)

LookUp(p, u) ==
    /\ target[p] = NoConn
    /\ users[u] # NoConn
    /\ target' = [target EXCEPT ![p] = users[u]]
    /\ UNCHANGED <<limiterVars, hubVars, sessionVars, browserVars, check>>

Push(p) ==
    /\ target[p] # NoConn
    /\ SendTo(target[p])
    /\ target' = [target EXCEPT ![p] = NoConn]
    /\ UNCHANGED <<limiterVars, sessionVars, browserVars, check>>

-----------------------------------------------------------------------------
(* The browser.                                                            *)

\* The network drops or the page goes away; the server is not told.
PeerLost(w) ==
    /\ cur[w] # NoConn
    /\ sock[cur[w]] = "up"
    /\ cur' = [cur EXCEPT ![w] = NoConn]
    /\ UNCHANGED <<limiterVars, hubVars, sessionVars, stopped, target, check>>

\* ws.onclose: the page dials again later unless kickedFlag is set.
BrowserClose(w) ==
    /\ cur[w] # NoConn
    /\ sock[cur[w]] = "down"
    /\ cur' = [cur EXCEPT ![w] = NoConn]
    /\ UNCHANGED <<limiterVars, hubVars, sessionVars, stopped, target, check>>

\* The user reloads a page that had stopped.
Reload(w) ==
    /\ stopped[w]
    /\ stopped' = [stopped EXCEPT ![w] = FALSE]
    /\ cur' = [cur EXCEPT ![w] = NoConn]
    /\ UNCHANGED <<limiterVars, hubVars, sessionVars, target, check>>

-----------------------------------------------------------------------------
Handler(c) ==
    \/ QuotaPasses(c) \/ QuotaUnreadable(c) \/ QuotaRefuses(c)
    \/ Register(c) \/ ReadFails(c) \/ Unregister(c) \/ Release(c)

WriteLoop(c) == Write(c) \/ WriteLoopEnds(c)

Next ==
    \/ \E c \in Conn : Connect(c) \/ UpgradeFails(c)
    \/ \E c \in Conn : Handler(c) \/ WriteLoop(c)
    \/ \E p \in Pusher, u \in User : LookUp(p, u)
    \/ \E p \in Pusher : Push(p)
    \/ \E w \in Window : PeerLost(w) \/ BrowserClose(w) \/ Reload(w)

Spec == Init /\ [][Next]_vars

\* Goroutines run; the Go runtime picks uniformly among the ready branches of
\* a select, so a write loop that again and again has a frame to write does
\* write one.  Windows need not dial and nobody need push.
Fairness ==
    /\ \A c \in Conn : WF_vars(Handler(c)) /\ WF_vars(WriteLoop(c)) /\ SF_vars(Write(c))
    /\ \A p \in Pusher : WF_vars(Push(p))
    /\ \A w \in Window : WF_vars(BrowserClose(w))

FairSpec == Spec /\ Fairness

-----------------------------------------------------------------------------
(* Counting.                                                               *)

RegisteredOf(t) == {c \in Conn : pc[c] \in Registered /\ TenantAt(c) = t}
HeldByUser(u) == {c \in Conn : pc[c] \in Held /\ UserAt(c) = u}
HeldByIP(i) == {c \in Conn : pc[c] \in Held /\ IPAt(c) = i}

\* The users of tenant t that are on line.
OnlineOf(t) == {u \in User : users[u] # NoConn /\ TenantOf[u] = t}

-----------------------------------------------------------------------------
(* Safety.                                                                 *)

\* The tenant counter the quota is charged against is never off: whatever the
\* order of kicks, failures and deferred calls, it equals the number of
\* handlers between RegisterUser and UnregisterUser (hub.go).
TenantCountExact ==
    \A t \in Tenant : tenantConns[t] = Cardinality(RegisteredOf(t))

\* Every way out of HandleUserWS gives back exactly what TryAcquireConn took:
\* refused upgrades, refused quotas, kicked and broken connections (limiter.go).
LimiterExact ==
    /\ \A u \in User : userConns[u] = Cardinality(HeldByUser(u))
    /\ \A i \in IP : ipConns[i] = Cardinality(HeldByIP(i))

\* The hub's entry for a user is the one registered client of that user that
\* nobody shut down, and there is an entry whenever there is such a client: a
\* late UnregisterUser of a kicked client takes nothing from its successor,
\* and no live connection is cut off from SendToUser (hub.go).
RegistryExact ==
    \A u \in User, c \in Conn :
        users[u] = c <=> pc[c] \in Registered /\ UserAt(c) = u /\ ~done[c]

\* The check of ws.go:53-61 and RegisterUser are two critical sections.  That
\* gap, and an unreadable quota, are the only ways past it: a step that puts
\* more of a tenant's users on line than its quota is the registration of a
\* handler whose check was skipped, or came before another registration.
OvershootStep ==
    \A t \in Tenant :
        Quota[t] > 0 /\ Cardinality(OnlineOf(t)') > Quota[t]
          /\ Cardinality(OnlineOf(t)') > Cardinality(OnlineOf(t))
        => \E c \in Conn : /\ pc[c] = "admitted" /\ pc'[c] = "open"
                            /\ check[c] # "passed"

OvershootOnlyByRace == [][OvershootStep]_vars

-----------------------------------------------------------------------------
(* Liveness.                                                               *)

\* A displaced client, and one whose browser is gone, gives back its place in
\* the tenant count and in the limiter (the deferred calls of ws.go:44, 64).
Releases ==
    \A c \in Conn : pc[c] = "open" /\ (done[c] \/ ~Alive(c)) ~> pc[c] = "idle"

Kick == \E c \in Conn : pc[c] = "admitted" /\ pc'[c] = "open" /\ users[UserAt(c)] # NoConn

\* Windows of one user do not displace each other for ever (hub.go:70): once
\* nobody reloads a page, no network drops and nothing else is pushed, the
\* notices get through and the displacing stops.
KickingStops ==
    /\ <>[][~\E w \in Window : Reload(w) \/ PeerLost(w)]_vars
    /\ <>[][~\E p \in Pusher, u \in User : LookUp(p, u)]_vars
    => <>[][~Kick]_vars

=============================================================================
