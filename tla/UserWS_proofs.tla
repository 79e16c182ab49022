---------------------------- MODULE UserWS_proofs ----------------------------
(***************************************************************************)
(* Proofs about the chat sockets of the gateway, for any number of users,  *)
(* tenants, windows, connections and pushing goroutines.                   *)
(***************************************************************************)
EXTENDS UserWS, FiniteSetTheorems, TLAPS

USE TenancyAssumption, LimitsAssumption, HubAssumption, UserWSAssumption

-----------------------------------------------------------------------------
(* The type invariant.                                                     *)

LEMMA OfferType ==
  ASSUME NEW q \in Queue, NEW m \in Message
  PROVE  Offer(q, m) \in Queue
BY DEF Offer, Queue

LEMMA QueueFacts == <<>> \in Queue /\ \A q \in Queue : q # <<>> => Tail(q) \in Queue
BY DEF Queue

LEMMA AtTypes ==
  ASSUME NEW c \in Conn
  PROVE  /\ UserAt(c) \in User
         /\ IPAt(c) \in IP
         /\ TenantAt(c) \in Tenant \cup {NoTenant}
BY DEF UserAt, IPAt, TenantAt

LEMMA InitType == Init => TypeOK
BY QueueFacts, SMT DEF Init, LimiterInit, HubInit, TypeOK, LimiterTypeOK, HubTypeOK, Message, Held

LEMMA TypeInductive == TypeOK /\ [Next]_vars => TypeOK'
<1> SUFFICES ASSUME TypeOK, [Next]_vars PROVE TypeOK'
  OBVIOUS
<1> USE AtTypes DEF TypeOK, LimiterTypeOK, HubTypeOK, limiterVars, hubVars,
                    sessionVars, browserVars, Held
<1>1. ASSUME NEW c \in Conn, Connect(c) \/ UpgradeFails(c) PROVE TypeOK'
  <2>1. TryAcquireConn(IPAt(c), UserAt(c)) => LimiterTypeOK'
    BY DEF TryAcquireConn
  <2>2. CASE Connect(c)
    BY <2>1, <2>2 DEF Connect
  <2>3. CASE UpgradeFails(c)
    BY <2>1, <2>3 DEF UpgradeFails
  <2> QED BY <1>1, <2>2, <2>3
<1>2. ASSUME NEW c \in Conn, QuotaPasses(c) \/ QuotaUnreadable(c) \/ QuotaRefuses(c)
      PROVE  TypeOK'
  BY <1>2 DEF QuotaPasses, QuotaUnreadable, QuotaRefuses
<1>3. ASSUME NEW c \in Conn, Register(c) PROVE TypeOK'
  <2>1. UserAt(c) \in User /\ users[UserAt(c)] \in Conn \cup {NoConn}
    OBVIOUS
  <2>2. users' \in [User -> Conn \cup {NoConn}] /\ tenantConns' \in [Tenant -> Nat]
    BY <1>3, <2>1 DEF Register, RegisterUser, TenantAt
  <2>3. send' \in [Conn -> Queue]
    <3>1. \A d \in Conn : Offer(send[d], "kicked") \in Queue
      BY OfferType DEF Message
    <3> QED BY <1>3, <3>1, QueueFacts DEF Register, RegisterUser
  <2>4. done' \in [Conn -> BOOLEAN]
    BY <1>3 DEF Register, RegisterUser
  <2>5. check' \in [Conn -> {"none", "passed", "overtaken", "skipped"}]
    BY <1>3 DEF Register
  <2> QED BY <1>3, <2>2, <2>3, <2>4, <2>5 DEF Register
<1>4. ASSUME NEW c \in Conn, ReadFails(c) PROVE TypeOK'
  BY <1>4 DEF ReadFails
<1>5. ASSUME NEW c \in Conn, Unregister(c) PROVE TypeOK'
  BY <1>5 DEF Unregister, UnregisterUser, TenantAt
<1>6. ASSUME NEW c \in Conn, Release(c) PROVE TypeOK'
  BY <1>6 DEF Release, ReleaseConn
<1>7. ASSUME NEW c \in Conn, Write(c) PROVE TypeOK'
  BY <1>7, QueueFacts DEF Write
<1>8. ASSUME NEW c \in Conn, WriteLoopEnds(c) PROVE TypeOK'
  BY <1>8, QueueFacts DEF WriteLoopEnds
<1>9. ASSUME NEW p \in Pusher, NEW u \in User, LookUp(p, u) PROVE TypeOK'
  BY <1>9 DEF LookUp
<1>10. ASSUME NEW p \in Pusher, Push(p) PROVE TypeOK'
  <2>1. \A d \in Conn : Offer(send[d], "data") \in Queue
    BY OfferType DEF Message
  <2>2. \/ send' = send
        \/ send' = [send EXCEPT ![target[p]] = Offer(send[target[p]], "data")]
    BY <1>10 DEF Push, SendTo
  <2>3. target[p] \in Conn
    BY <1>10 DEF Push
  <2>4. send' \in [Conn -> Queue]
    BY <2>1, <2>2, <2>3
  <2>5. HubTypeOK'
    BY <1>10, <2>4 DEF Push, SendTo
  <2> QED BY <1>10, <2>5 DEF Push
<1>11. ASSUME NEW w \in Window, PeerLost(w) \/ BrowserClose(w) \/ Reload(w) PROVE TypeOK'
  BY <1>11, ZenonT(60) DEF PeerLost, BrowserClose, Reload
<1>12. CASE UNCHANGED vars
  BY <1>12 DEF vars
<1> QED
  BY <1>1, <1>2, <1>3, <1>4, <1>5, <1>6, <1>7, <1>8, <1>9, <1>10, <1>11, <1>12
     DEF Next, Handler, WriteLoop

-----------------------------------------------------------------------------
(* What a step leaves alone.  Only Register and Unregister touch the       *)
(* registry, only Connect, UpgradeFails and Release touch the limiter.     *)

Quiet == /\ UNCHANGED <<users, tenantConns, done>>
         /\ \A c \in Conn : pc'[c] \in Registered <=> pc[c] \in Registered

LEMMA QuietSteps ==
  ASSUME TypeOK, [Next]_vars
  PROVE  \/ Quiet
         \/ \E c \in Conn : Register(c) \/ Unregister(c)
<1> USE DEF Quiet, Registered, TypeOK, limiterVars, hubVars, sessionVars, browserVars
<1>1. ASSUME NEW c \in Conn, Connect(c) PROVE Quiet
  BY <1>1 DEF Connect, Fresh
<1>2. ASSUME NEW c \in Conn, UpgradeFails(c) PROVE Quiet
  BY <1>2 DEF UpgradeFails, Fresh
<1>3. ASSUME NEW c \in Conn, QuotaPasses(c) \/ QuotaUnreadable(c) \/ QuotaRefuses(c)
      PROVE  Quiet
  BY <1>3 DEF QuotaPasses, QuotaUnreadable, QuotaRefuses
<1>4. ASSUME NEW c \in Conn, ReadFails(c) \/ Release(c) PROVE Quiet
  BY <1>4 DEF ReadFails, Release
<1>5. ASSUME NEW c \in Conn, WriteLoop(c) PROVE Quiet
  BY <1>5 DEF WriteLoop, Write, WriteLoopEnds
<1>6. ASSUME NEW p \in Pusher, NEW u \in User, LookUp(p, u) PROVE Quiet
  BY <1>6 DEF LookUp
<1>7. ASSUME NEW p \in Pusher, Push(p) PROVE Quiet
  BY <1>7 DEF Push, SendTo
<1>8. ASSUME NEW w \in Window, PeerLost(w) \/ BrowserClose(w) \/ Reload(w) PROVE Quiet
  BY <1>8 DEF PeerLost, BrowserClose, Reload
<1>9. CASE UNCHANGED vars
  BY <1>9 DEF vars
<1> QED
  BY <1>1, <1>2, <1>3, <1>4, <1>5, <1>6, <1>7, <1>8, <1>9 DEF Next, Handler

LimiterQuiet == /\ UNCHANGED limiterVars
                /\ \A c \in Conn : pc'[c] \in Held <=> pc[c] \in Held

LEMMA LimiterQuietSteps ==
  ASSUME TypeOK, [Next]_vars
  PROVE  \/ LimiterQuiet
         \/ \E c \in Conn : Connect(c) \/ UpgradeFails(c) \/ Release(c)
<1> USE DEF LimiterQuiet, Held, TypeOK, limiterVars, hubVars, sessionVars, browserVars
<1>1. ASSUME NEW c \in Conn, QuotaPasses(c) \/ QuotaUnreadable(c) \/ QuotaRefuses(c)
      PROVE  LimiterQuiet
  BY <1>1 DEF QuotaPasses, QuotaUnreadable, QuotaRefuses
<1>2. ASSUME NEW c \in Conn, Register(c) \/ ReadFails(c) \/ Unregister(c)
      PROVE  LimiterQuiet
  BY <1>2 DEF Register, ReadFails, Unregister
<1>3. ASSUME NEW c \in Conn, WriteLoop(c) PROVE LimiterQuiet
  BY <1>3 DEF WriteLoop, Write, WriteLoopEnds
<1>4. ASSUME NEW p \in Pusher, NEW u \in User, LookUp(p, u) PROVE LimiterQuiet
  BY <1>4 DEF LookUp
<1>5. ASSUME NEW p \in Pusher, Push(p) PROVE LimiterQuiet
  BY <1>5 DEF Push, SendTo
<1>6. ASSUME NEW w \in Window, PeerLost(w) \/ BrowserClose(w) \/ Reload(w)
      PROVE  LimiterQuiet
  BY <1>6 DEF PeerLost, BrowserClose, Reload
<1>7. CASE UNCHANGED vars
  BY <1>7 DEF vars
<1> QED
  BY <1>1, <1>2, <1>3, <1>4, <1>5, <1>6, <1>7 DEF Next, Handler

-----------------------------------------------------------------------------
(* The registry.                                                           *)

LEMMA RegistryInductive ==
  ASSUME TypeOK, RegistryExact, [Next]_vars
  PROVE  RegistryExact'
<1>1. CASE Quiet
  BY <1>1 DEF Quiet, RegistryExact, UserAt
<1>2. ASSUME NEW c \in Conn, Register(c) PROVE RegistryExact'
  <2> DEFINE u == UserAt(c)
             old == users[u]
  <2>1. /\ u \in User /\ pc[c] = "admitted"
        /\ users' = [users EXCEPT ![u] = c]
        /\ pc' = [pc EXCEPT ![c] = "open"]
        /\ done' = [d \in Conn |-> IF d = c THEN FALSE
                                   ELSE IF d = old THEN TRUE ELSE done[d]]
    BY <1>2, AtTypes DEF Register, RegisterUser
  <2>2. SUFFICES ASSUME NEW v \in User, NEW d \in Conn
                 PROVE  users'[v] = d <=> pc'[d] \in Registered /\ UserAt(d) = v /\ ~done'[d]
    BY DEF RegistryExact, UserAt
  <2>3. CASE d = c
    <3>1. users[v] # c
      BY <2>1 DEF RegistryExact, Registered
    <3> QED BY <2>1, <2>3, <3>1 DEF TypeOK, HubTypeOK, Registered
  <2>4. CASE d # c
    <3>1. users[v] = d <=> pc[d] \in Registered /\ UserAt(d) = v /\ ~done[d]
      BY DEF RegistryExact
    <3>2. old = d => UserAt(d) = u
      BY <2>1 DEF RegistryExact
    <3>3. CASE v = u
      BY <2>1, <2>4, <3>1, <3>2, <3>3 DEF TypeOK, HubTypeOK
    <3>4. CASE v # u
      BY <2>1, <2>4, <3>1, <3>2, <3>4 DEF TypeOK, HubTypeOK
    <3> QED BY <3>3, <3>4
  <2> QED BY <2>3, <2>4
<1>3. ASSUME NEW c \in Conn, Unregister(c) PROVE RegistryExact'
  <2>1. /\ pc[c] = "closing" /\ pc' = [pc EXCEPT ![c] = "releasing"]
        /\ users' = IF users[UserAt(c)] = c THEN [users EXCEPT ![UserAt(c)] = NoConn] ELSE users
        /\ done' = [done EXCEPT ![c] = TRUE]
    BY <1>3 DEF Unregister, UnregisterUser
  <2>2. SUFFICES ASSUME NEW v \in User, NEW d \in Conn
                 PROVE  users'[v] = d <=> pc'[d] \in Registered /\ UserAt(d) = v /\ ~done'[d]
    BY DEF RegistryExact, UserAt
  <2>3. /\ users[v] = d <=> pc[d] \in Registered /\ UserAt(d) = v /\ ~done[d]
        /\ users[v] = c <=> pc[c] \in Registered /\ UserAt(c) = v /\ ~done[c]
    BY DEF RegistryExact
  <2>4. CASE d = c
    BY <2>1, <2>3, <2>4, AtTypes DEF TypeOK, HubTypeOK, Registered
  <2>5. CASE d # c
    <3>1. pc'[d] = pc[d] /\ done'[d] = done[d]
      BY <2>1, <2>5 DEF TypeOK, HubTypeOK
    <3>2. users'[v] = d <=> users[v] = d
      BY <2>1, <2>5, AtTypes DEF TypeOK, HubTypeOK
    <3> QED BY <2>3, <3>1, <3>2
  <2> QED BY <2>4, <2>5
<1> QED BY <1>1, <1>2, <1>3, QuietSteps

-----------------------------------------------------------------------------
(* The counters.                                                           *)

LEMMA ConnSubsets ==
  ASSUME NEW S \in SUBSET Conn
  PROVE  IsFiniteSet(S) /\ Cardinality(S) \in Nat
BY FS_Subset, FS_CardinalityType

LEMMA CountUp ==
  ASSUME NEW S \in SUBSET Conn, NEW c \in Conn \ S
  PROVE  Cardinality(S \cup {c}) = Cardinality(S) + 1
BY ConnSubsets, FS_AddElement

LEMMA CountDown ==
  ASSUME NEW S \in SUBSET Conn, NEW c \in S
  PROVE  Cardinality(S) > 0 /\ Cardinality(S \ {c}) = Cardinality(S) - 1
<1>1. /\ S \ {c} \in SUBSET Conn /\ c \in Conn \ (S \ {c})
      /\ (S \ {c}) \cup {c} = S
  OBVIOUS
<1>2. Cardinality(S) = Cardinality(S \ {c}) + 1
  BY <1>1, CountUp
<1> QED BY <1>1, <1>2, ConnSubsets

LEMMA TenantCountInductive ==
  ASSUME TypeOK, TenantCountExact, [Next]_vars
  PROVE  TenantCountExact'
<1>1. CASE Quiet
  <2>1. \A t \in Tenant : RegisteredOf(t)' = RegisteredOf(t)
    BY <1>1 DEF Quiet, RegisteredOf, TenantAt, UserAt
  <2> QED BY <1>1, <2>1 DEF Quiet, TenantCountExact
<1>2. ASSUME NEW c \in Conn, Register(c), NEW t \in Tenant
      PROVE  tenantConns'[t] = Cardinality(RegisteredOf(t)')
  <2>1. pc[c] = "admitted" /\ pc' = [pc EXCEPT ![c] = "open"]
    BY <1>2 DEF Register
  <2>2. tenantConns' = IF TenantAt(c) = NoTenant THEN tenantConns
                       ELSE [tenantConns EXCEPT ![TenantAt(c)] = @ + 1]
    BY <1>2 DEF Register, RegisterUser, TenantAt
  <2>3. CASE TenantAt(c) = t
    <3>1. RegisteredOf(t)' = RegisteredOf(t) \cup {c} /\ c \notin RegisteredOf(t)
      BY <2>1, <2>3 DEF RegisteredOf, TenantAt, UserAt, Registered, TypeOK
    <3>2. Cardinality(RegisteredOf(t)') = Cardinality(RegisteredOf(t)) + 1
      BY <3>1, CountUp DEF RegisteredOf
    <3> QED BY <2>2, <2>3, <3>2 DEF TenantCountExact, TypeOK, HubTypeOK
  <2>4. CASE TenantAt(c) # t
    <3>1. RegisteredOf(t)' = RegisteredOf(t)
      BY <2>1, <2>4 DEF RegisteredOf, TenantAt, UserAt, Registered, TypeOK
    <3> QED BY <2>2, <2>4, <3>1, AtTypes DEF TenantCountExact, TypeOK, HubTypeOK
  <2> QED BY <2>3, <2>4
<1>3. ASSUME NEW c \in Conn, Unregister(c), NEW t \in Tenant
      PROVE  tenantConns'[t] = Cardinality(RegisteredOf(t)')
  <2>1. pc[c] = "closing" /\ pc' = [pc EXCEPT ![c] = "releasing"]
    BY <1>3 DEF Unregister
  <2>2. tenantConns' = IF TenantAt(c) # NoTenant /\ tenantConns[TenantAt(c)] > 0
                       THEN [tenantConns EXCEPT ![TenantAt(c)] = @ - 1] ELSE tenantConns
    BY <1>3 DEF Unregister, UnregisterUser, TenantAt
  <2>3. CASE TenantAt(c) = t
    <3>1. RegisteredOf(t)' = RegisteredOf(t) \ {c} /\ c \in RegisteredOf(t)
      BY <2>1, <2>3 DEF RegisteredOf, TenantAt, UserAt, Registered, TypeOK
    <3>2. /\ Cardinality(RegisteredOf(t)) > 0
          /\ Cardinality(RegisteredOf(t)') = Cardinality(RegisteredOf(t)) - 1
      BY <3>1, CountDown DEF RegisteredOf
    <3> QED BY <2>2, <2>3, <3>2 DEF TenantCountExact, TypeOK, HubTypeOK
  <2>4. CASE TenantAt(c) # t
    <3>1. RegisteredOf(t)' = RegisteredOf(t)
      BY <2>1, <2>4 DEF RegisteredOf, TenantAt, UserAt, Registered, TypeOK
    <3> QED BY <2>2, <2>4, <3>1, AtTypes DEF TenantCountExact, TypeOK, HubTypeOK
  <2> QED BY <2>3, <2>4
<1> QED BY <1>1, <1>2, <1>3, QuietSteps DEF TenantCountExact

LEMMA UserHeld ==
  ASSUME TypeOK, LimiterExact, NEW c \in Conn, NEW u \in User
  PROVE  /\ Connect(c) \/ UpgradeFails(c)
              => userConns'[u] = Cardinality(HeldByUser(u)')
         /\ Release(c) => userConns'[u] = Cardinality(HeldByUser(u)')
<1> USE DEF HeldByUser, UserAt, Held, TypeOK, LimiterTypeOK
<1>0. userConns[u] = Cardinality(HeldByUser(u)) /\ HeldByUser(u) \in SUBSET Conn
  BY DEF LimiterExact
<1>1. ASSUME Connect(c) \/ UpgradeFails(c)
      PROVE  userConns'[u] = Cardinality(HeldByUser(u)')
  <2>1. /\ c \notin HeldByUser(u)
        /\ HeldByUser(u)' = IF UserAt(c) = u THEN HeldByUser(u) \cup {c} ELSE HeldByUser(u)
    BY <1>1 DEF Connect, UpgradeFails, Fresh
  <2>2. userConns' = [userConns EXCEPT ![UserAt(c)] = @ + 1]
    BY <1>1 DEF Connect, UpgradeFails, TryAcquireConn
  <2> HIDE DEF HeldByUser, UserAt
  <2>3. CASE UserAt(c) = u
    BY <1>0, <2>1, <2>2, <2>3, CountUp
  <2>4. CASE UserAt(c) # u
    BY <1>0, <2>1, <2>2, <2>4, AtTypes
  <2> QED BY <2>3, <2>4
<1>2. ASSUME Release(c)
      PROVE  userConns'[u] = Cardinality(HeldByUser(u)')
  <2>1. /\ UserAt(c) = u => c \in HeldByUser(u)
        /\ HeldByUser(u)' = IF UserAt(c) = u THEN HeldByUser(u) \ {c} ELSE HeldByUser(u)
    BY <1>2 DEF Release
  <2>2. userConns' = [userConns EXCEPT ![UserAt(c)] =
                        IF userConns[UserAt(c)] > 0 THEN userConns[UserAt(c)] - 1 ELSE 0]
    BY <1>2 DEF Release, ReleaseConn
  <2> HIDE DEF HeldByUser, UserAt
  <2>3. CASE UserAt(c) = u
    BY <1>0, <2>1, <2>2, <2>3, CountDown
  <2>4. CASE UserAt(c) # u
    BY <1>0, <2>1, <2>2, <2>4, AtTypes
  <2> QED BY <2>3, <2>4
<1> QED BY <1>1, <1>2

LEMMA IPHeld ==
  ASSUME TypeOK, LimiterExact, NEW c \in Conn, NEW i \in IP
  PROVE  /\ Connect(c) \/ UpgradeFails(c)
              => ipConns'[i] = Cardinality(HeldByIP(i)')
         /\ Release(c) => ipConns'[i] = Cardinality(HeldByIP(i)')
<1> USE DEF HeldByIP, IPAt, Held, TypeOK, LimiterTypeOK
<1>0. ipConns[i] = Cardinality(HeldByIP(i)) /\ HeldByIP(i) \in SUBSET Conn
  BY DEF LimiterExact
<1>1. ASSUME Connect(c) \/ UpgradeFails(c)
      PROVE  ipConns'[i] = Cardinality(HeldByIP(i)')
  <2>1. /\ c \notin HeldByIP(i)
        /\ HeldByIP(i)' = IF IPAt(c) = i THEN HeldByIP(i) \cup {c} ELSE HeldByIP(i)
    BY <1>1 DEF Connect, UpgradeFails, Fresh
  <2>2. ipConns' = [ipConns EXCEPT ![IPAt(c)] = @ + 1]
    BY <1>1 DEF Connect, UpgradeFails, TryAcquireConn
  <2> HIDE DEF HeldByIP, IPAt
  <2>3. CASE IPAt(c) = i
    BY <1>0, <2>1, <2>2, <2>3, CountUp
  <2>4. CASE IPAt(c) # i
    BY <1>0, <2>1, <2>2, <2>4, AtTypes
  <2> QED BY <2>3, <2>4
<1>2. ASSUME Release(c)
      PROVE  ipConns'[i] = Cardinality(HeldByIP(i)')
  <2>1. /\ IPAt(c) = i => c \in HeldByIP(i)
        /\ HeldByIP(i)' = IF IPAt(c) = i THEN HeldByIP(i) \ {c} ELSE HeldByIP(i)
    BY <1>2 DEF Release
  <2>2. ipConns' = [ipConns EXCEPT ![IPAt(c)] =
                        IF ipConns[IPAt(c)] > 0 THEN ipConns[IPAt(c)] - 1 ELSE 0]
    BY <1>2 DEF Release, ReleaseConn
  <2> HIDE DEF HeldByIP, IPAt
  <2>3. CASE IPAt(c) = i
    BY <1>0, <2>1, <2>2, <2>3, CountDown
  <2>4. CASE IPAt(c) # i
    BY <1>0, <2>1, <2>2, <2>4, AtTypes
  <2> QED BY <2>3, <2>4
<1> QED BY <1>1, <1>2

LEMMA LimiterInductive ==
  ASSUME TypeOK, LimiterExact, [Next]_vars
  PROVE  LimiterExact'
<1>1. CASE LimiterQuiet
  <2>1. /\ \A u \in User : HeldByUser(u)' = HeldByUser(u)
        /\ \A i \in IP : HeldByIP(i)' = HeldByIP(i)
    BY <1>1 DEF LimiterQuiet, HeldByUser, HeldByIP, UserAt, IPAt
  <2> QED BY <1>1, <2>1 DEF LimiterQuiet, LimiterExact, limiterVars
<1>2. ASSUME NEW c \in Conn, Connect(c) \/ UpgradeFails(c) \/ Release(c)
      PROVE  LimiterExact'
  BY <1>2, UserHeld, IPHeld DEF LimiterExact
<1> QED BY <1>1, <1>2, LimiterQuietSteps

-----------------------------------------------------------------------------
(* The concurrency quota.  What keeps OvershootStep inductive is that a    *)
(* handler whose check still stands leaves room for its own user.          *)

QuotaInv ==
    \A c \in Conn :
        check[c] = "passed" =>
            /\ pc[c] = "admitted"
            /\ TenantAt(c) # NoTenant
            /\ Quota[TenantAt(c)] > 0 =>
                  Cardinality(OnlineOf(TenantAt(c)) \ {UserAt(c)}) < Quota[TenantAt(c)]

\* A user on line is a registered connection, and no two share one.
LEMMA OnlineOthers ==
  ASSUME TypeOK, RegistryExact, NEW t \in Tenant, NEW u \in User, TenantOf[u] = t
  PROVE  /\ IsFiniteSet(OnlineOf(t) \ {u})
         /\ Cardinality(OnlineOf(t) \ {u}) <= Cardinality(RegisteredOf(t) \ {users[u]})
<1> DEFINE S == OnlineOf(t) \ {u}
           T == RegisteredOf(t) \ {users[u]}
           f == [v \in S |-> users[v]]
<1>1. IsFiniteSet(T)
  BY ConnSubsets DEF RegisteredOf
<1>2. ASSUME NEW v \in S PROVE f[v] \in T
  <2>1. v \in User /\ users[v] \in Conn /\ TenantOf[v] = t /\ v # u
    BY DEF OnlineOf, TypeOK, HubTypeOK
  <2>2. pc[users[v]] \in Registered /\ UserAt(users[v]) = v
    BY <2>1 DEF RegistryExact
  <2>3. users[u] # users[v]
    BY <2>1, <2>2 DEF RegistryExact
  <2> QED BY <2>1, <2>2, <2>3 DEF RegisteredOf, TenantAt
<1>3. ASSUME NEW v \in S, NEW w \in S, f[v] = f[w] PROVE v = w
  <2>1. v \in User /\ w \in User /\ users[v] = users[w] /\ users[v] \in Conn
    BY <1>3 DEF OnlineOf, TypeOK, HubTypeOK
  <2> QED BY <2>1 DEF RegistryExact
<1>4. f \in Injection(S, T)
  BY <1>2, <1>3 DEF Injection, IsInjective
<1> QED BY <1>1, <1>4, FS_Injection

LEMMA OnlineFinite ==
  ASSUME TypeOK, RegistryExact, NEW t \in Tenant
  PROVE  IsFiniteSet(OnlineOf(t)) /\ Cardinality(OnlineOf(t)) \in Nat
<1>1. CASE OnlineOf(t) = {}
  BY <1>1, FS_EmptySet
<1>2. ASSUME NEW u \in OnlineOf(t) PROVE IsFiniteSet(OnlineOf(t))
  <2>1. IsFiniteSet(OnlineOf(t) \ {u})
    BY OnlineOthers DEF OnlineOf
  <2>2. OnlineOf(t) = (OnlineOf(t) \ {u}) \cup {u}
    OBVIOUS
  <2> QED BY <2>1, <2>2, FS_AddElement
<1> QED BY <1>1, <1>2, FS_CardinalityType, FS_EmptySet

\* A check that passes leaves room: the hub's count bounds the users on line.
LEMMA CheckSound ==
  ASSUME TypeOK, RegistryExact, TenantCountExact, NEW c \in Conn, QuotaPasses(c)
  PROVE  LET t == TenantAt(c)
         IN Quota[t] > 0 => Cardinality(OnlineOf(t) \ {UserAt(c)}) < Quota[t]
<1> DEFINE u == UserAt(c)
           t == TenantAt(c)
<1> SUFFICES ASSUME Quota[t] > 0
             PROVE  Cardinality(OnlineOf(t) \ {u}) < Quota[t]
  OBVIOUS
<1>1. u \in User /\ t \in Tenant /\ t = TenantOf[u] /\ t # NoTenant /\ Quota[t] \in Nat
  BY AtTypes DEF QuotaPasses, TenantAt
<1>2. ~(CountTenantConnsExcluding(t, u) >= Quota[t])
  BY <1>1 DEF QuotaPasses, OverQuota
<1>3. /\ tenantConns[t] = Cardinality(RegisteredOf(t))
      /\ RegisteredOf(t) \in SUBSET Conn
      /\ Cardinality(RegisteredOf(t)) \in Nat
      /\ Cardinality(RegisteredOf(t) \ {users[u]}) \in Nat
  BY <1>1, ConnSubsets DEF TenantCountExact, RegisteredOf
<1>4. Cardinality(RegisteredOf(t) \ {users[u]}) <= CountTenantConnsExcluding(t, u)
  <2>1. CASE users[u] = NoConn
    <3>1. RegisteredOf(t) \ {users[u]} = RegisteredOf(t)
      BY <2>1 DEF RegisteredOf
    <3> QED BY <1>1, <1>3, <2>1, <3>1 DEF CountTenantConnsExcluding
  <2>2. CASE users[u] # NoConn
    <3>1. users[u] \in RegisteredOf(t)
      BY <1>1, <2>2 DEF RegistryExact, RegisteredOf, TenantAt, TypeOK, HubTypeOK
    <3>2. /\ Cardinality(RegisteredOf(t)) > 0
          /\ Cardinality(RegisteredOf(t) \ {users[u]}) = Cardinality(RegisteredOf(t)) - 1
      BY <1>3, <3>1, CountDown
    <3> QED BY <1>1, <1>3, <2>2, <3>2 DEF CountTenantConnsExcluding
  <2> QED BY <2>1, <2>2
<1>5. /\ IsFiniteSet(OnlineOf(t) \ {u})
      /\ Cardinality(OnlineOf(t) \ {u}) <= Cardinality(RegisteredOf(t) \ {users[u]})
  BY <1>1, OnlineOthers
<1>6. /\ Cardinality(OnlineOf(t) \ {u}) \in Nat
      /\ CountTenantConnsExcluding(t, u) \in Nat
  BY <1>1, <1>3, <1>5, FS_CardinalityType DEF CountTenantConnsExcluding, TypeOK, HubTypeOK
<1> QED BY <1>1, <1>2, <1>3, <1>4, <1>5, <1>6

\* Outside Register, a check that stands after a step stood before it, or is
\* the step's own.
LEMMA ChecksStand ==
  ASSUME TypeOK, QuotaInv, [Next]_vars,
         NEW c \in Conn, check'[c] = "passed", \A d \in Conn : ~Register(d)
  PROVE  pc'[c] = "admitted" /\ (check[c] = "passed" \/ QuotaPasses(c))
<1> USE DEF TypeOK, QuotaInv, limiterVars, hubVars, sessionVars, browserVars
<1>1. ASSUME NEW d \in Conn, Connect(d) \/ UpgradeFails(d)
      PROVE  pc'[c] = "admitted" /\ check[c] = "passed"
  BY <1>1, ZenonT(60) DEF Connect, UpgradeFails, Fresh
<1>2. ASSUME NEW d \in Conn, QuotaPasses(d)
      PROVE  pc'[c] = "admitted" /\ (check[c] = "passed" \/ QuotaPasses(c))
  <2>1. d = c \/ (check[c] = "passed" /\ pc'[c] = pc[c])
    BY <1>2 DEF QuotaPasses
  <2>2. pc'[d] = "admitted"
    BY <1>2 DEF QuotaPasses
  <2> QED BY <1>2, <2>1, <2>2
<1>3. ASSUME NEW d \in Conn, QuotaUnreadable(d) \/ QuotaRefuses(d)
      PROVE  pc'[c] = "admitted" /\ check[c] = "passed"
  BY <1>3, ZenonT(60) DEF QuotaUnreadable, QuotaRefuses
<1>4. ASSUME NEW d \in Conn, ReadFails(d) \/ Unregister(d) \/ Release(d)
      PROVE  pc'[c] = "admitted" /\ check[c] = "passed"
  BY <1>4 DEF ReadFails, Unregister, Release
<1>5. ASSUME NEW d \in Conn, WriteLoop(d)
      PROVE  pc'[c] = "admitted" /\ check[c] = "passed"
  BY <1>5 DEF WriteLoop, Write, WriteLoopEnds
<1>6. ASSUME NEW p \in Pusher, NEW u \in User, LookUp(p, u) \/ Push(p)
      PROVE  pc'[c] = "admitted" /\ check[c] = "passed"
  BY <1>6 DEF LookUp, Push
<1>7. ASSUME NEW p \in Pusher, Push(p)
      PROVE  pc'[c] = "admitted" /\ check[c] = "passed"
  BY <1>7 DEF Push
<1>8. ASSUME NEW w \in Window, PeerLost(w) \/ BrowserClose(w) \/ Reload(w)
      PROVE  pc'[c] = "admitted" /\ check[c] = "passed"
  BY <1>8 DEF PeerLost, BrowserClose, Reload
<1>9. CASE UNCHANGED vars
  BY <1>9 DEF vars
<1> QED
  BY <1>1, <1>2, <1>3, <1>4, <1>5, <1>6, <1>7, <1>8, <1>9 DEF Next, Handler

\* Who is on line changes only for the tenant of the handler that moves.
LEMMA OnlineSteps ==
  ASSUME TypeOK, [Next]_vars, NEW t \in Tenant
  PROVE  \/ OnlineOf(t)' \subseteq OnlineOf(t)
         \/ \E d \in Conn : /\ Register(d)
                            /\ TenantAt(d) = t
                            /\ OnlineOf(t)' = OnlineOf(t) \cup {UserAt(d)}
<1> USE DEF OnlineOf, TypeOK, HubTypeOK
<1>1. CASE Quiet
  BY <1>1 DEF Quiet
<1>2. ASSUME NEW d \in Conn, Register(d)
      PROVE  IF TenantAt(d) = t THEN OnlineOf(t)' = OnlineOf(t) \cup {UserAt(d)}
                                ELSE OnlineOf(t)' = OnlineOf(t)
  <2>1. users' = [users EXCEPT ![UserAt(d)] = d] /\ UserAt(d) \in User
    BY <1>2, AtTypes DEF Register, RegisterUser
  <2> QED BY <2>1 DEF TenantAt
<1>3. ASSUME NEW d \in Conn, Unregister(d)
      PROVE  OnlineOf(t)' \subseteq OnlineOf(t)
  BY <1>3, AtTypes DEF Unregister, UnregisterUser
<1> HIDE DEF OnlineOf
<1> QED BY <1>1, <1>2, <1>3, QuietSteps

LEMMA QuotaInductive ==
  ASSUME TypeOK, RegistryExact, TenantCountExact, QuotaInv, [Next]_vars
  PROVE  QuotaInv'
<1> SUFFICES ASSUME NEW c \in Conn, check'[c] = "passed"
             PROVE  /\ pc'[c] = "admitted"
                    /\ TenantAt(c) # NoTenant
                    /\ Quota[TenantAt(c)] > 0 =>
                         Cardinality(OnlineOf(TenantAt(c))' \ {UserAt(c)}) < Quota[TenantAt(c)]
  BY DEF QuotaInv, TenantAt, UserAt
<1> DEFINE t == TenantAt(c)
           u == UserAt(c)
           Room == t # NoTenant /\ (Quota[t] > 0 => Cardinality(OnlineOf(t) \ {u}) < Quota[t])
<1>1. pc'[c] = "admitted" /\ Room
  <2>1. ASSUME NEW d \in Conn, Register(d)
        PROVE  pc'[c] = "admitted" /\ Room
    <3>1. check[c] = "passed" /\ c # d
      BY <2>1 DEF Register, TypeOK
    <3>2. pc[c] = "admitted" /\ Room
      BY <3>1 DEF QuotaInv
    <3> QED BY <2>1, <3>1, <3>2 DEF Register, TypeOK
  <2>2. CASE \A d \in Conn : ~Register(d)
    <3>1. pc'[c] = "admitted" /\ (check[c] = "passed" \/ QuotaPasses(c))
      BY <2>2, ChecksStand
    <3>2. CASE check[c] = "passed"
      BY <3>1, <3>2 DEF QuotaInv
    <3>3. CASE QuotaPasses(c)
      BY <3>1, <3>3, CheckSound DEF QuotaPasses
    <3> QED BY <3>1, <3>2, <3>3
  <2> QED BY <2>1, <2>2
<1>2. u \in User /\ t \in Tenant /\ TenantOf[u] = t /\ Quota[t] \in Nat
  BY <1>1, AtTypes DEF TenantAt
<1>3. OnlineOf(t)' \subseteq OnlineOf(t)
  <2>1. ASSUME NEW d \in Conn, Register(d), TenantAt(d) = t PROVE FALSE
    <3>1. check[d] = "passed" \/ check[d] # "passed"
      OBVIOUS
    <3> QED BY <2>1 DEF Register, TypeOK
  <2> QED BY <1>2, <2>1, OnlineSteps
<1>4. IsFiniteSet(OnlineOf(t) \ {u})
  BY <1>2, OnlineOthers
<1>5. (OnlineOf(t)' \ {u}) \in SUBSET (OnlineOf(t) \ {u})
  BY <1>3
<1>6. /\ IsFiniteSet(OnlineOf(t)' \ {u})
      /\ Cardinality(OnlineOf(t)' \ {u}) <= Cardinality(OnlineOf(t) \ {u})
  BY <1>4, <1>5, FS_Subset
<1>7. Cardinality(OnlineOf(t)' \ {u}) \in Nat /\ Cardinality(OnlineOf(t) \ {u}) \in Nat
  BY <1>4, <1>6, FS_CardinalityType
<1> QED BY <1>1, <1>2, <1>6, <1>7

LEMMA OvershootSafe ==
  ASSUME TypeOK, RegistryExact, QuotaInv, [Next]_vars
  PROVE  OvershootStep
<1> SUFFICES ASSUME NEW t \in Tenant, Quota[t] > 0,
                    Cardinality(OnlineOf(t)') > Quota[t],
                    Cardinality(OnlineOf(t)') > Cardinality(OnlineOf(t))
             PROVE  \E c \in Conn : /\ pc[c] = "admitted" /\ pc'[c] = "open"
                                    /\ check[c] # "passed"
  BY DEF OvershootStep
<1>1. IsFiniteSet(OnlineOf(t)) /\ Cardinality(OnlineOf(t)) \in Nat /\ Quota[t] \in Nat
  BY OnlineFinite
<1>2. ~(OnlineOf(t)' \subseteq OnlineOf(t))
  <2> SUFFICES ASSUME OnlineOf(t)' \subseteq OnlineOf(t) PROVE FALSE
    OBVIOUS
  <2>1. /\ IsFiniteSet(OnlineOf(t)')
        /\ Cardinality(OnlineOf(t)') <= Cardinality(OnlineOf(t))
    BY <1>1, FS_Subset
  <2> QED BY <1>1, <2>1, FS_CardinalityType
<1>3. PICK d \in Conn : /\ Register(d)
                        /\ TenantAt(d) = t
                        /\ OnlineOf(t)' = OnlineOf(t) \cup {UserAt(d)}
  BY <1>2, OnlineSteps
<1>4. pc[d] = "admitted" /\ pc'[d] = "open"
  BY <1>3 DEF Register, TypeOK
<1>5. check[d] # "passed"
  <2> SUFFICES ASSUME check[d] = "passed" PROVE FALSE
    OBVIOUS
  <2> DEFINE u == UserAt(d)
             R == OnlineOf(t) \ {u}
  <2>1. u \in User /\ TenantOf[u] = t
    BY <1>3, AtTypes DEF TenantAt
  <2>2. IsFiniteSet(R) /\ Cardinality(R) \in Nat
    BY <2>1, OnlineOthers, FS_CardinalityType
  <2>3. OnlineOf(t)' = R \cup {u}
    BY <1>3
  <2>4. Cardinality(OnlineOf(t)') = Cardinality(R) + 1
    BY <2>2, <2>3, FS_AddElement
  <2>5. Cardinality(R) < Quota[t]
    BY <1>3 DEF QuotaInv
  <2> QED BY <1>1, <2>2, <2>4, <2>5
<1> QED BY <1>4, <1>5

-----------------------------------------------------------------------------
(* The theorems.                                                           *)

Counts == RegistryExact /\ TenantCountExact /\ LimiterExact

IInv == TypeOK /\ Counts /\ QuotaInv

LEMMA InitInv == Init => IInv
<1> SUFFICES ASSUME Init PROVE IInv
  OBVIOUS
<1>1. TypeOK
  BY InitType
<1>2. RegistryExact
  BY DEF Init, HubInit, RegistryExact, Registered
<1>3. TenantCountExact
  <2>1. \A t \in Tenant : RegisteredOf(t) = {}
    BY DEF Init, RegisteredOf, Registered
  <2> QED BY <2>1, FS_EmptySet DEF Init, HubInit, TenantCountExact
<1>4. LimiterExact
  <2>1. /\ \A u \in User : HeldByUser(u) = {}
        /\ \A i \in IP : HeldByIP(i) = {}
    BY DEF Init, HeldByUser, HeldByIP, Held
  <2> QED BY <2>1, FS_EmptySet DEF Init, LimiterInit, LimiterExact
<1>5. QuotaInv
  BY DEF Init, QuotaInv
<1> QED BY <1>1, <1>2, <1>3, <1>4, <1>5 DEF IInv, Counts

LEMMA InvInductive == IInv /\ [Next]_vars => IInv'
BY TypeInductive, RegistryInductive, TenantCountInductive, LimiterInductive, QuotaInductive
   DEF IInv, Counts

\* The inductive invariant holds: whatever windows, networks, handlers, write
\* loops and pushing goroutines do.
THEOREM Invariance == Spec => []IInv
BY InitInv, InvInductive, PTL DEF Spec

\* Every state of the sockets, the hub and the limiter is well typed.
THEOREM TypeCorrect == Spec => []TypeOK
BY Invariance, PTL DEF IInv

\* hub.go: the count a tenant's quota is charged against equals the handlers
\* between RegisterUser and UnregisterUser, for any number of users and kicks.
THEOREM TenantCountCorrect == Spec => []TenantCountExact
BY Invariance, PTL DEF IInv, Counts

\* limiter.go and ws.go: each way out of HandleUserWS gives back exactly what
\* TryAcquireConn took, per user and per address.
THEOREM LimiterCorrect == Spec => []LimiterExact
BY Invariance, PTL DEF IInv, Counts

\* hub.go: a user's entry is that user's one registered client nobody shut
\* down, so a late UnregisterUser of a displaced client harms no successor.
THEOREM RegistryCorrect == Spec => []RegistryExact
BY Invariance, PTL DEF IInv, Counts

\* ws.go:51-63: only a skipped check, or one that another registration of the
\* tenant has overtaken, puts more users on line than the tenant's quota.
THEOREM OvershootCorrect == Spec => OvershootOnlyByRace
<1>1. IInv /\ [Next]_vars => [OvershootStep]_vars
  BY OvershootSafe DEF IInv, Counts
<1> QED BY Invariance, <1>1, PTL DEF Spec, OvershootOnlyByRace

=============================================================================
