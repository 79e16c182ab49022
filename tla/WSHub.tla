------------------------------- MODULE WSHub -------------------------------
(***************************************************************************)
(* The connection registry of the gateway (go_service pkg/ws/hub.go), its  *)
(* user side: which connection of a user is the live one, how many         *)
(* connections each tenant holds, and each connection's send buffer and    *)
(* done channel.  The methods that touch `users` and `tenantConns` hold    *)
(* Hub.mu for their whole body and are one step each; SendToUser drops the *)
(* lock between looking the client up and writing to its buffer and is two *)
(* steps.                                                                  *)
(*                                                                         *)
(* A message is only told apart where the browser acts on it: the "kicked" *)
(* notice, which stops its automatic reconnection, and everything else.    *)
(***************************************************************************)
EXTENDS Naturals, Sequences, Tenancy

CONSTANTS
    Conn,       \* *Client objects, reused once nothing refers to them
    NoConn,     \* the nil client
    SendCap     \* capacity of Client.send, 32 in RegisterUser

ASSUME HubAssumption ==
    /\ NoConn \notin Conn
    /\ SendCap \in Nat \ {0}

VARIABLES
    users,        \* users[u]: the registered client of u, or NoConn
    tenantConns,  \* tenantConns[t]: connections counted for tenant t
    send,         \* send[c]: the buffered channel of client c
    done          \* done[c]: c's done channel is closed

hubVars == <<users, tenantConns, send, done>>

Message == {"kicked", "data"}
Queue == {q \in Seq(Message) : Len(q) <= SendCap}

HubTypeOK ==
    /\ users \in [User -> Conn \cup {NoConn}]
    /\ tenantConns \in [Tenant -> Nat]
    /\ send \in [Conn -> Queue]
    /\ done \in [Conn -> BOOLEAN]

HubInit ==
    /\ users = [u \in User |-> NoConn]
    /\ tenantConns = [t \in Tenant |-> 0]
    /\ send = [c \in Conn |-> <<>>]
    /\ done = [c \in Conn |-> TRUE]

\* Mutant of Offer: the buffer has no limit.
OfferAlways(queue, m) == Append(queue, m)

\* `select { case cl.send <- m: default: }`: a full buffer drops the message.
Offer(queue, m) == IF Len(queue) < SendCap THEN Append(queue, m) ELSE queue

\* Mutant of RegisterUser: the old client is shut down but not told.
RegisterUserSilently(u, c) ==
    LET old == users[u]
        t == TenantOf[u]
    IN /\ users' = [users EXCEPT ![u] = c]
       /\ send' = [send EXCEPT ![c] = <<>>]
       /\ done' = [d \in Conn |-> IF d = c THEN FALSE
                                  ELSE IF d = old THEN TRUE ELSE done[d]]
       /\ tenantConns' = IF t = NoTenant THEN tenantConns
                         ELSE [tenantConns EXCEPT ![t] = @ + 1]

\* The new client c takes the place of the user's old one, which is told,
\* shut down and forgotten; the old one's share of tenantConns stays until
\* its own handler returns.
RegisterUser(u, c) ==
    LET old == users[u]
        t == TenantOf[u]
    IN /\ users' = [users EXCEPT ![u] = c]
       /\ send' = [d \in Conn |-> CASE d = c -> <<>>
                                    [] d = old /\ d # c -> Offer(send[d], "kicked")
                                    [] OTHER -> send[d]]
       /\ done' = [d \in Conn |-> IF d = c THEN FALSE
                                  ELSE IF d = old THEN TRUE ELSE done[d]]
       /\ tenantConns' = IF t = NoTenant THEN tenantConns
                         ELSE [tenantConns EXCEPT ![t] = @ + 1]

\* Mutant of UnregisterUser: the entry goes, whoever's it is.
UnregisterUserAnyway(u, c) ==
    LET t == TenantOf[u]
    IN /\ users' = [users EXCEPT ![u] = NoConn]
       /\ tenantConns' =
             IF t # NoTenant /\ tenantConns[t] > 0
             THEN [tenantConns EXCEPT ![t] = @ - 1]
             ELSE tenantConns
       /\ done' = [done EXCEPT ![c] = TRUE]
       /\ UNCHANGED send

\* Mutant of UnregisterUser: a displaced client is not counted down.
UnregisterUserIfLive(u, c) ==
    LET t == TenantOf[u]
    IN /\ users' = IF users[u] = c THEN [users EXCEPT ![u] = NoConn] ELSE users
       /\ tenantConns' =
             IF users[u] = c /\ t # NoTenant /\ tenantConns[t] > 0
             THEN [tenantConns EXCEPT ![t] = @ - 1]
             ELSE tenantConns
       /\ done' = [done EXCEPT ![c] = TRUE]
       /\ UNCHANGED send

\* Only the client that is still the registered one takes the entry away.
UnregisterUser(u, c) ==
    LET t == TenantOf[u]
    IN /\ users' = IF users[u] = c THEN [users EXCEPT ![u] = NoConn] ELSE users
       /\ tenantConns' =
             IF t # NoTenant /\ tenantConns[t] > 0
             THEN [tenantConns EXCEPT ![t] = @ - 1]
             ELSE tenantConns
       /\ done' = [done EXCEPT ![c] = TRUE]
       /\ UNCHANGED send

\* What a tenant is charged for when user u connects: its own live entry,
\* which is about to be replaced, is not counted.
CountTenantConnsExcluding(t, u) ==
    IF t = NoTenant THEN 0
    ELSE IF users[u] # NoConn /\ tenantConns[t] > 0
         THEN tenantConns[t] - 1
         ELSE tenantConns[t]

\* What the agent service asks for before it serves a message.
CountTenantConns(t) == IF t = NoTenant THEN 0 ELSE tenantConns[t]

\* SendToUser after the lookup: with room in the buffer and done closed the
\* select takes either branch.
SendTo(c) ==
    /\ \/ send' = [send EXCEPT ![c] = Offer(@, "data")]
       \/ done[c] /\ UNCHANGED send
    /\ UNCHANGED <<users, tenantConns, done>>

=============================================================================
