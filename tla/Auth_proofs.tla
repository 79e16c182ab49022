----------------------------- MODULE Auth_proofs -----------------------------
(***************************************************************************)
(* Logins through the limiter, tokens that were logged out, the list of    *)
(* tenants that requests rebuild, and sessions from before a reset.        *)
(***************************************************************************)
EXTENDS Auth, LoginLimiter_proofs, SequenceTheorems, WellFoundedInduction

\* Whatever tenants, tokens and the clock do, what the process does to the count of
\* failed logins is what the limiter allows.
THEOREM LoginsFollowLimiter == Spec => LimiterSpec
<1>1. Init => LimiterInit
  BY DEF Init
<1>2. [Next]_authVars => [LimiterNext]_limiterVars
  <2> SUFFICES ASSUME [Next]_authVars PROVE [LimiterNext]_limiterVars
    OBVIOUS
  <2> USE DEF LimiterNext, limiterVars
  <2>1. ASSUME NEW a \in Attempt, IssueToken(a) \/ ComparesPassword(a) PROVE LimiterNext
    BY <2>1 DEF IssueToken, ComparesPassword
  <2>2. ASSUME NEW a \in Attempt, IssueUserToken(a) \/ IssueUserTokenRefused(a) PROVE LimiterNext
    BY <2>2 DEF IssueUserToken, IssueUserTokenRefused
  <2>3. ASSUME LoginSteps PROVE LimiterNext
    BY <2>3 DEF LoginSteps
  <2>4. ASSUME NEW i \in DOMAIN tokens, VerifiesOld(i) \/ LogoutHandler(i) PROVE UNCHANGED limiterVars
    BY <2>4 DEF VerifiesOld, LogoutHandler
  <2>5. ASSUME RefreshToken \/ RefreshTokenFails \/ Manages \/ Tick PROVE UNCHANGED limiterVars
    BY <2>5 DEF RefreshToken, RefreshTokenFails, Manages, Tick
  <2>6. ASSUME UNCHANGED authVars PROVE UNCHANGED limiterVars
    BY <2>6 DEF authVars
  <2>7. QED
    BY <2>1, <2>2, <2>3, <2>4, <2>5, <2>6 DEF Next
<1>3. QED
  BY <1>1, <1>2, PTL DEF Spec, LimiterSpec

\* IssueTokenHandler and UserTokenHandler count no more failures than the limit and the
\* requests under way allow.
THEOREM LoginFailsBounded == Spec => []FailsBounded
  BY LoginsFollowLimiter, FailsAreBounded, PTL

\* They lock nobody out for ever unless an EXPIRE was lost.
THEOREM LoginLockEnds == Spec => []LockHasEnd
  BY LoginsFollowLimiter, LocksHaveEnd, PTL

-----------------------------------------------------------------------------
\* A token whose secrets are in K.
TokenOf(K) == [t : Tenant, key : K, exp : Nat, root : K, black : Nat, out : BOOLEAN, mixed : BOOLEAN]

\* An entry in the blacklist lives at least to the instant its token ends.
LivesOn(tok) == tok.out => tok.black >= 2 * tok.exp

Entries ==
    /\ now \in Nat /\ refreshing \in 0..Len(tokens)
    /\ \E K : tokens \in Seq(TokenOf(K))
    /\ \A i \in DOMAIN tokens : LivesOn(tokens[i])

LEMMA BlackUntilLater ==
    ASSUME now \in Nat, NEW i, tokens[i].exp \in Nat
    PROVE  BlackUntil(i) \in Nat /\ BlackUntil(i) >= 2 * tokens[i].exp
  BY DEF BlackUntil, Minute

\* Blacklisting a token keeps the tokens what they are, and its entry lives on.
LEMMA BlacklistedKeeps ==
    ASSUME Entries, NEW K, tokens \in Seq(TokenOf(K)), NEW i \in DOMAIN tokens,
           NEW ts \in Blacklisted(tokens, i)
    PROVE  /\ ts \in Seq(TokenOf(K)) /\ Len(ts) = Len(tokens)
           /\ \A j \in DOMAIN ts : LivesOn(ts[j])
<1>1. CASE ts = tokens
  BY <1>1 DEF Entries
<1>2. CASE ts = [tokens EXCEPT ![i].black = BlackUntil(i), ![i].out = TRUE]
  <2>1. tokens[i] \in TokenOf(K) /\ i \in 1..Len(tokens)
    BY ElementOfSeq
  <2>2. BlackUntil(i) \in Nat /\ BlackUntil(i) >= 2 * tokens[i].exp
    BY <2>1, BlackUntilLater DEF Entries, TokenOf
  <2> DEFINE new == [tokens[i] EXCEPT !.black = BlackUntil(i), !.out = TRUE]
  <2>3. ts = [tokens EXCEPT ![i] = new]
    BY <1>2, <2>1
  <2>4. new \in TokenOf(K) /\ LivesOn(new)
    BY <2>1, <2>2 DEF TokenOf, LivesOn
  <2> HIDE DEF new
  <2>5. /\ ts \in Seq(TokenOf(K)) /\ Len(ts) = Len(tokens)
        /\ \A j \in 1..Len(tokens) : ts[j] = IF j = i THEN new ELSE tokens[j]
    BY <2>1, <2>3, <2>4, ExceptSeq
  <2>6. QED
    BY <2>4, <2>5 DEF Entries
<1>3. QED
  BY <1>1, <1>2 DEF Blacklisted

\* A new token is on no list, and the others stay what they are.
LEMMA IssuedKeeps ==
    ASSUME now \in Nat, NEW K, NEW ts \in Seq(TokenOf(K)), \A j \in DOMAIN ts : LivesOn(ts[j]),
           NEW t \in Tenant, NEW root, NEW mixed \in BOOLEAN, Issues(ts, Signed(t, root, mixed))
    PROVE  /\ \E L : tokens' \in Seq(TokenOf(L))
           /\ Len(tokens') = Len(ts) + 1
           /\ \A j \in DOMAIN tokens' : LivesOn(tokens'[j])
<1> DEFINE new == Signed(t, root, mixed)
           L == K \cup {TenantInfo(t).secret, root}
<1>1. tokens' = Append(ts, new)
  BY DEF Issues
<1>2. Seconds + Life \in Nat
  BY AuthAssumption DEF Seconds
<1>3. new \in TokenOf(L) /\ LivesOn(new)
  BY <1>2 DEF Signed, TokenOf, LivesOn
<1>4. ts \in Seq(TokenOf(L))
  <2>1. TokenOf(K) \subseteq TokenOf(L)
    BY DEF TokenOf
  <2>2. QED
    BY <2>1, SeqMonotonic
<1> HIDE DEF new, L
<1>5. /\ tokens' \in Seq(TokenOf(L)) /\ Len(tokens') = Len(ts) + 1
      /\ \A j \in 1..Len(ts) : tokens'[j] = ts[j]
      /\ tokens'[Len(ts) + 1] = new
  BY <1>1, <1>3, <1>4, AppendProperties
<1>6. \A j \in DOMAIN tokens' : LivesOn(tokens'[j])
  <2>1. DOMAIN tokens' = 1..(Len(ts) + 1) /\ Len(ts) \in Nat /\ DOMAIN ts = 1..Len(ts)
    BY <1>5
  <2>2. QED
    BY <2>1, <1>3, <1>5
<1>7. QED
  BY <1>5, <1>6

\* BlacklistToken writes an entry that lives to the instant the token ends, and nothing
\* shortens it: such a token passes VerifyTokenFull in the last second of its life only.
THEOREM LoggedOutTokensStayOut == Spec => []LoggedOutStaysOut
<1>1. Init => Entries
  <2> SUFFICES ASSUME Init PROVE Entries
    OBVIOUS
  <2>1. now = 0 /\ tokens = <<>> /\ refreshing = 0
    BY DEF Init
  <2>2. tokens \in Seq(TokenOf({})) /\ Len(tokens) = 0 /\ DOMAIN tokens = {}
    BY <2>1
  <2>3. QED
    BY <2>1, <2>2 DEF Entries
<1>2. Entries /\ [Next]_authVars => Entries'
  <2> SUFFICES ASSUME Entries, [Next]_authVars PROVE Entries'
    OBVIOUS
  <2>1. PICK K : tokens \in Seq(TokenOf(K))
    BY DEF Entries
  <2>2. now \in Nat /\ refreshing \in 0..Len(tokens) /\ Len(tokens) \in Nat /\ DOMAIN tokens = 1..Len(tokens)
    BY <2>1 DEF Entries
  <2>3. ASSUME UNCHANGED <<tokens, now, refreshing>> PROVE Entries'
    BY <2>3 DEF Entries, LivesOn
  <2>4. ASSUME NEW t \in Tenant, Issues(tokens, Signed(t, TenantInfo(t).secret, FALSE)),
               UNCHANGED <<now, refreshing>>
        PROVE  Entries'
    <3>1. /\ \E L : tokens' \in Seq(TokenOf(L))
          /\ Len(tokens') = Len(tokens) + 1
          /\ \A j \in DOMAIN tokens' : LivesOn(tokens'[j])
      BY <2>1, <2>2, <2>4, IssuedKeeps DEF Entries
    <3>2. refreshing' \in 0..Len(tokens') /\ now' \in Nat
      BY <2>2, <2>4, <3>1
    <3>3. QED
      BY <3>1, <3>2 DEF Entries, LivesOn
  <2>5. ASSUME NEW a \in Attempt, IssueToken(a) PROVE Entries'
    BY <2>4, <2>5 DEF IssueToken
  <2>6. ASSUME NEW a \in Attempt, IssueUserToken(a) PROVE Entries'
    BY <2>4, <2>6 DEF IssueUserToken
  <2>7. ASSUME NEW a \in Attempt, ComparesPassword(a) \/ IssueUserTokenRefused(a) PROVE Entries'
    BY <2>3, <2>7 DEF ComparesPassword, IssueUserTokenRefused
  <2>8. ASSUME NEW i \in DOMAIN tokens, VerifiesOld(i) PROVE Entries'
    <3>1. refreshing' \in 0..Len(tokens) /\ UNCHANGED <<tokens, now>>
      BY <2>2, <2>8 DEF VerifiesOld
    <3>2. QED
      BY <3>1 DEF Entries, LivesOn
  <2>9. ASSUME NEW i \in DOMAIN tokens, LogoutHandler(i) PROVE Entries'
    <3>1. tokens' \in Blacklisted(tokens, i) /\ UNCHANGED <<now, refreshing>>
      BY <2>9 DEF LogoutHandler
    <3>2. /\ tokens' \in Seq(TokenOf(K)) /\ Len(tokens') = Len(tokens)
          /\ \A j \in DOMAIN tokens' : LivesOn(tokens'[j])
      BY <2>1, <3>1, BlacklistedKeeps
    <3>3. QED
      BY <2>2, <3>1, <3>2 DEF Entries, LivesOn
  <2>10. CASE LoginSteps
    BY <2>3, <2>10 DEF LoginSteps
  <2>11. CASE RefreshToken
    <3> DEFINE old == tokens[refreshing]
               mixed == old.mixed \/ TenantInfo(old.t).secret # old.key
    <3>1. refreshing \in DOMAIN tokens /\ now' = now /\ refreshing' = 0
      BY <2>2, <2>11 DEF RefreshToken
    <3>2. old \in TokenOf(K) /\ old.t \in Tenant
      <4>1. tokens[refreshing] \in TokenOf(K)
        BY <2>1, <2>2, <3>1, ElementOfSeq
      <4>2. QED
        BY <4>1 DEF TokenOf
    <3>3. PICK ts \in Blacklisted(tokens, refreshing) : Issues(ts, Signed(old.t, old.root, mixed))
      BY <2>11 DEF RefreshToken
    <3>4. /\ ts \in Seq(TokenOf(K)) /\ Len(ts) = Len(tokens)
          /\ \A j \in DOMAIN ts : LivesOn(ts[j])
      BY <2>1, <3>1, BlacklistedKeeps
    <3>5. mixed \in BOOLEAN
      BY <3>2, Zenon DEF TokenOf
    <3> HIDE DEF old, mixed
    <3>6. /\ \E L : tokens' \in Seq(TokenOf(L))
          /\ Len(tokens') = Len(ts) + 1
          /\ \A j \in DOMAIN tokens' : LivesOn(tokens'[j])
      BY <2>2, <3>2, <3>3, <3>4, <3>5, IssuedKeeps
    <3>7. refreshing' \in 0..Len(tokens')
      BY <2>2, <3>1, <3>4, <3>6
    <3>8. QED
      BY <2>2, <3>1, <3>6, <3>7 DEF Entries, LivesOn
  <2>12. CASE RefreshTokenFails
    <3>1. refreshing' = 0 /\ UNCHANGED <<tokens, now>>
      BY <2>12 DEF RefreshTokenFails
    <3>2. QED
      BY <2>2, <3>1 DEF Entries, LivesOn
  <2>13. CASE Manages
    BY <2>3, <2>13 DEF Manages
  <2>14. CASE Tick
    <3>1. now' \in Nat /\ UNCHANGED <<tokens, refreshing>>
      BY <2>2, <2>14 DEF Tick
    <3>2. QED
      BY <3>1 DEF Entries, LivesOn
  <2>15. CASE UNCHANGED authVars
    BY <2>3, <2>15 DEF authVars
  <2>16. QED
    BY <2>5, <2>6, <2>7, <2>8, <2>9, <2>10, <2>11, <2>12, <2>13, <2>14, <2>15 DEF Next
<1>3. Entries => LoggedOutStaysOut
  <2> SUFFICES ASSUME Entries, NEW i \in DOMAIN tokens, tokens[i].out, Verified(i)
               PROVE  now >= 2 * tokens[i].exp
    BY DEF LoggedOutStaysOut
  <2>1. PICK K : tokens \in Seq(TokenOf(K))
    BY DEF Entries
  <2>2. tokens[i] \in TokenOf(K)
    BY <2>1, ElementOfSeq
  <2>3. tokens[i].black \in Nat /\ tokens[i].exp \in Nat /\ now \in Nat
    BY <2>2 DEF TokenOf, Entries
  <2>4. now >= tokens[i].black /\ tokens[i].black >= 2 * tokens[i].exp
    BY DEF Verified, Entries, LivesOn
  <2>5. QED
    BY <2>3, <2>4
<1>4. QED
  BY <1>1, <1>2, <1>3, PTL DEF Spec

-----------------------------------------------------------------------------
(* The list a rebuild makes from the rows.  Listed is a recursive function:*)
(* what it returns follows from the least number at which it would not.    *)

\* A set of numbers that is not empty has a least one.
LEMMA LeastNumber == ASSUME NEW T, T \subseteq Nat, T # {} PROVE \E x \in T : \A y \in T : x <= y
<1>1. PICK x \in T : \A y \in T : ~ (<<y, x>> \in OpToRel(<, Nat))
  BY NatLessThanWellFounded, WFMin
<1>2. ASSUME NEW y \in T PROVE x <= y
  <2>1. <<y, x>> \in OpToRel(<, Nat) <=> y < x
    BY DEF OpToRel
  <2>2. ~(y < x)
    BY <1>1, <2>1, Zenon
  <2>3. QED
    BY <2>2
<1>3. QED
  BY <1>2

Rows == rows \in [Tenant -> Row \cup {Never, Gone}]

Of(t) == [t |-> t, on |-> rows[t].on, secret |-> rows[t].secret]

\* The entries that show their row.
Shown == {e \in Entry : Exists(e.t) /\ e = Of(e.t)}

Upto(f, n) == IF n = 0 THEN <<>> ELSE IF Exists(n) THEN Append(f[n - 1], Of(n)) ELSE f[n - 1]

\* What a rebuild makes from a row shows that row.
LEMMA OfShown == ASSUME Rows, NEW t \in Tenant, Exists(t) PROVE Of(t) \in Shown
<1>1. rows[t] \in Row
  BY DEF Rows, Exists
<1>2. rows[t].on \in BOOLEAN /\ rows[t].secret \in Secret
  BY <1>1 DEF Row
<1>3. Of(t) \in Entry /\ Of(t).t = t
  BY <1>2, Zenon DEF Of, Entry
<1>4. QED
  BY <1>3 DEF Shown

\* One more row leaves a list of shown rows one.
LEMMA UptoShown ==
    ASSUME Rows, NEW f, NEW n \in 0..MaxTenants, n # 0 => f[n - 1] \in Seq(Shown)
    PROVE  Upto(f, n) \in Seq(Shown)
<1>1. CASE n = 0
  BY <1>1 DEF Upto
<1>2. CASE n # 0 /\ Exists(n)
  <2>1. n \in Tenant /\ Of(n) \in Shown
    BY <1>2, OfShown, TenantsAssumption DEF Tenant
  <2>2. Append(f[n - 1], Of(n)) \in Seq(Shown)
    BY <1>2, <2>1, AppendProperties
  <2>3. QED
    BY <1>2, <2>2 DEF Upto
<1>3. CASE n # 0 /\ ~Exists(n)
  BY <1>3 DEF Upto
<1>4. QED
  BY <1>1, <1>2, <1>3

\* The recursion can be carried on to any tenant.
LEMMA ListedExists ==
    ASSUME Rows
    PROVE  \E f : f = [n \in 0..MaxTenants |-> Upto(f, n)]
<1> DEFINE Reached(m, f) == DOMAIN f = 0..m /\ f = [n \in 0..m |-> f[n]] /\ \A n \in 0..m : f[n] = Upto(f, n)
           Missed == {m \in 0..MaxTenants : ~ \E f : Reached(m, f)}
<1>0. MaxTenants \in Nat
  BY TenantsAssumption
<1>1. Missed = {}
  <2> SUFFICES ASSUME Missed # {} PROVE FALSE
    OBVIOUS
  <2>0. Missed \subseteq Nat
    BY <1>0
  <2> HIDE DEF Missed
  <2>1. PICK m \in Missed : \A y \in Missed : m <= y
    BY <2>0, LeastNumber
  <2> USE DEF Missed
  <2>2. CASE m = 0
    <3> DEFINE f == [n \in 0..0 |-> <<>>]
    <3>1. Reached(0, f)
      BY DEF Upto
    <3>2. QED
      BY <2>2, <3>1
  <2>3. CASE m # 0
    <3>1. m - 1 \in 0..MaxTenants /\ m - 1 \notin Missed
      BY <1>0, <2>1, <2>3
    <3>2. PICK f : Reached(m - 1, f)
      BY <3>1
    <3> DEFINE g == [n \in 0..m |-> IF n = m THEN Upto(f, m) ELSE f[n]]
    <3>3. ASSUME NEW n \in 0..m PROVE g[n] = Upto(g, n)
      <4>1. n # 0 => g[n - 1] = f[n - 1]
        BY <1>0, <3>3
      <4>2. Upto(g, n) = Upto(f, n)
        BY <4>1 DEF Upto
      <4>3. CASE n = m
        BY <4>2, <4>3
      <4>4. CASE n # m
        <5>1. n \in 0..(m - 1)
          BY <1>0, <4>4
        <5>2. g[n] = f[n] /\ f[n] = Upto(f, n)
          BY <3>2, <4>4, <5>1
        <5>3. QED
          BY <4>2, <5>2
      <4>5. QED
        BY <4>3, <4>4
    <3>4. Reached(m, g)
      BY <3>3
    <3>5. QED
      BY <2>1, <3>4
  <2>4. QED
    BY <2>2, <2>3
<1>2. PICK f : Reached(MaxTenants, f)
  BY <1>0, <1>1
<1>3. f = [n \in 0..MaxTenants |-> Upto(f, n)]
  BY <1>2
<1>4. QED
  BY <1>3

\* Every entry of the new list shows the row of a tenant there is.
LEMMA ListedShown == ASSUME Rows PROVE Listed \in Seq(Shown)
<1> DEFINE g == CHOOSE h : h = [n \in 0..MaxTenants |-> Upto(h, n)]
<1>0. MaxTenants \in Nat
  BY TenantsAssumption
<1>1. g = [n \in 0..MaxTenants |-> Upto(g, n)]
  BY ListedExists
<1>2. Listed = g[MaxTenants]
  BY DEF Listed, Upto, Of
<1> HIDE DEF g
<1> DEFINE Wrong == {m \in 0..MaxTenants : g[m] \notin Seq(Shown)}
<1>3. Wrong = {}
  <2> SUFFICES ASSUME Wrong # {} PROVE FALSE
    OBVIOUS
  <2>0. Wrong \subseteq Nat
    BY <1>0
  <2> HIDE DEF Wrong
  <2>1. PICK m \in Wrong : \A y \in Wrong : m <= y
    BY <2>0, LeastNumber
  <2> USE DEF Wrong
  <2>2. m # 0 => g[m - 1] \in Seq(Shown)
    BY <1>0, <2>1
  <2>3. Upto(g, m) \in Seq(Shown)
    BY <2>2, UptoShown
  <2>4. QED
    BY <1>1, <2>3
<1>4. QED
  BY <1>0, <1>2, <1>3

\* The list a rebuild would make depends on the rows only.
LEMMA ListedKept == ASSUME UNCHANGED rows PROVE Listed' = Listed
  BY DEF Listed, Exists

\* The first entry of a tenant in a list.
LEMMA FirstFound ==
    ASSUME NEW t, Found(t), NEW S, list \in Seq(S)
    PROVE  \E i \in 1..Len(list) : TenantInfo(t) = list[i] /\ list[i].t = t
<1> DEFINE I == {i \in 1..Len(list) : list[i].t = t}
<1>1. I # {} /\ I \subseteq Nat
  BY DEF Found
<1>2. PICK x \in I : \A y \in I : x <= y
  BY <1>1, LeastNumber
<1>3. Min(I) \in I
  BY <1>2 DEF Min
<1>4. SelectInSeq(list, LAMBDA e : e.t = t) = Min(I)
  BY <1>1 DEF SelectInSeq
<1>5. TenantInfo(t) = list[Min(I)]
  BY <1>4 DEF TenantInfo
<1>6. QED
  BY <1>3, <1>5


-----------------------------------------------------------------------------
(* Rebuilds of the list.                                                   *)

Job ==
    {Idle, Written} \cup [at : {"read"}, t : Tenant, on : BOOLEAN]
        \cup [at : {"queried", "append"}, rest : Seq(Entry)]

Tenants ==
    /\ Rows /\ changes \in 0..MaxChanges
    /\ \A t \in Tenant : Exists(t) => rows[t].secret <= changes + 1
    /\ list \in Seq(Entry) /\ req \in [Req -> Job] /\ loose \in BOOLEAN

\* A rebuild that nobody disturbs has the list halfway to the rows; only a change that
\* has not started its own makes them differ.
Tight ==
    /\ \A v, w \in Req : Rebuilding(v) /\ Rebuilding(w) => v = w
    /\ (\A v \in Req : req[v] # Written) =>
          /\ (\A w \in Req : ~Rebuilding(w)) => list = Listed
          /\ \A w \in Req : req[w].at = "queried" => req[w].rest = Listed
          /\ \A w \in Req : req[w].at = "append" => list \o req[w].rest = Listed

\* What the place of a request says of the rest of it.
LEMMA JobIs ==
    ASSUME NEW job \in Job
    PROVE  /\ job.at = "idle" => job = Idle
           /\ job.at = "written" => job = Written
           /\ job.at = "read" => job.t \in Tenant /\ job.on \in BOOLEAN
           /\ job.at \in {"queried", "append"} => job.rest \in Seq(Entry)
           /\ job.at \in {"idle", "written", "read", "queried", "append"}
  BY DEF Job, Idle, Written

\* The two jobs that are constants.
LEMMA Stands == Idle.at = "idle" /\ Written.at = "written"
  BY DEF Idle, Written

\* What one request doing the next thing does to all of them.
LEMMA TurnsJob ==
    ASSUME req \in [Req -> Job], NEW w \in Req, NEW job, Turns(w, job)
    PROVE  /\ req'[w] = job /\ \A v \in Req \ {w} : req'[v] = req[v]
           /\ job \in Job => req' \in [Req -> Job]
  BY DEF Turns

\* The list a rebuild would make is a list of entries.
LEMMA ListedEntries == ASSUME Rows PROVE Listed \in Seq(Entry)
<1>1. Shown \subseteq Entry
  BY DEF Shown
<1>2. QED
  BY <1>1, ListedShown, SeqMonotonic

\* Taking the head of one sequence to the end of another leaves their concatenation.
LEMMA Moved ==
    ASSUME NEW S, NEW l \in Seq(S), NEW r \in Seq(S), r # <<>>
    PROVE  /\ Append(SubSeq(l, 1, Len(l)), Head(r)) \o Tail(r) = l \o r
           /\ Head(r) \in S /\ Tail(r) \in Seq(S)
<1>1. Head(r) \in S /\ Tail(r) \in Seq(S) /\ <<Head(r)>> \in Seq(S)
  BY HeadTailProperties
<1>2. SubSeq(l, 1, Len(l)) = l
  BY SubSeqFull
<1>3. <<Head(r)>> \o Tail(r) = r
  <2>1. /\ <<Head(r)>> \o Tail(r) \in Seq(S) /\ Len(<<Head(r)>>) = 1
        /\ Len(<<Head(r)>> \o Tail(r)) = Len(r) /\ Len(r) \in Nat /\ Len(r) > 0
    BY <1>1, ConcatProperties, HeadTailProperties, LenProperties, EmptySeq
  <2>2. \A i \in 1..Len(r) : (<<Head(r)>> \o Tail(r))[i] = r[i]
    BY <1>1, <2>1, ConcatProperties, HeadTailProperties
  <2>3. QED
    BY <2>1, <2>2, SeqEqual
<1>4. Append(l, Head(r)) \o Tail(r) = l \o (<<Head(r)>> \o Tail(r))
  BY <1>1, AppendIsConcat, ConcatAssociative
<1>5. QED
  BY <1>1, <1>2, <1>3, <1>4

\* Every step of a request keeps the rows, the list and the jobs in order.
LEMMA TenantsStep == ASSUME Tenants, TenantsNext PROVE Tenants'
<1>0. MaxTenants \in Nat \ {0} /\ MaxChanges \in Nat /\ Written \in Job /\ Idle \in Job /\ req \in [Req -> Job]
  BY TenantsAssumption DEF Job, Tenants
<1>1. ASSUME NEW w \in Req, NEW job \in Job, Begins(w, job)
      PROVE  req' \in [Req -> Job] /\ changes' \in 0..MaxChanges /\ changes' = changes + 1
  <2>1. Turns(w, job) /\ changes < MaxChanges /\ changes' = changes + 1
    BY <1>1 DEF Begins
  <2>2. QED
    BY <1>0, <2>1, TurnsJob DEF Tenants
<1>2. ASSUME NEW t \in Tenant, NEW row \in Row \cup {Never, Gone}, rows' = [rows EXCEPT ![t] = row],
             changes' \in {changes, changes + 1},
             row \notin {Never, Gone} => row.secret <= changes' + 1
      PROVE  Rows' /\ \A u \in Tenant : Exists(u)' => rows'[u].secret <= changes' + 1
  <2>1. rows \in [Tenant -> Row \cup {Never, Gone}] /\ changes \in Nat
    BY DEF Tenants, Rows
  <2>2. Rows'
    BY <1>2, <2>1 DEF Rows
  <2>3. ASSUME NEW u \in Tenant, Exists(u)' PROVE rows'[u].secret <= changes' + 1
    <3>1. CASE u = t
      BY <1>2, <2>1, <2>3, <3>1 DEF Exists
    <3>2. CASE u # t
      <4>1. rows'[u] = rows[u] /\ Exists(u)
        BY <1>2, <2>1, <2>3, <3>2 DEF Exists
      <4>2. rows[u].secret <= changes + 1 /\ rows[u].secret \in Nat
        BY <2>1, <4>1 DEF Tenants, Exists, Row, Secret
      <4>3. QED
        BY <1>2, <2>1, <4>1, <4>2
    <3>3. QED
      BY <3>1, <3>2
  <2>4. QED
    BY <2>2, <2>3
<1>3. \A t \in Tenant : Exists(t) => rows[t].on \in BOOLEAN /\ rows[t].secret \in Secret /\ rows[t] \in Row
  BY DEF Tenants, Rows, Exists, Row
<1>4. changes \in Nat /\ (changes < MaxChanges => changes + 1 \in Nat /\ 1 \in Secret)
  BY <1>0 DEF Tenants, Secret
<1>5. ASSUME UNCHANGED <<rows, changes>>
      PROVE  Rows' /\ changes' \in 0..MaxChanges /\ \A t \in Tenant : Exists(t)' => rows'[t].secret <= changes' + 1
  BY <1>5 DEF Tenants, Rows, Exists
<1>6. ASSUME NEW w \in Req, CreateTenant(w) PROVE Tenants'
  <2>1. PICK t \in Tenant : rows' = [rows EXCEPT ![t] = [on |-> TRUE, secret |-> 1]]
    BY <1>6 DEF CreateTenant
  <2>2. Begins(w, Written) /\ UNCHANGED <<list, loose>> /\ changes < MaxChanges
    BY <1>6 DEF CreateTenant, Begins
  <2> DEFINE row == [on |-> TRUE, secret |-> 1]
  <2>3. row \in Row /\ row.secret = 1
    BY <1>4, <2>2 DEF Row
  <2>4. rows' = [rows EXCEPT ![t] = row]
    BY <2>1
  <2> HIDE DEF row
  <2>5. changes' = changes + 1 /\ req' \in [Req -> Job] /\ changes' \in 0..MaxChanges
    BY <1>0, <1>1, <2>2
  <2>6. row.secret <= changes' + 1
    BY <1>4, <2>3, <2>5
  <2>7. Rows' /\ \A u \in Tenant : Exists(u)' => rows'[u].secret <= changes' + 1
    BY <1>2, <2>4, <2>6, <2>3, <2>5
  <2>8. QED
    BY <2>2, <2>5, <2>7 DEF Tenants
<1>7. ASSUME NEW w \in Req, ChangeTenantSecret(w) PROVE Tenants'
  <2>1. PICK t \in Tenant : Exists(t) /\ rows' = [rows EXCEPT ![t].secret = @ + 1]
    BY <1>7 DEF ChangeTenantSecret
  <2>2. Begins(w, Written) /\ UNCHANGED <<list, loose>> /\ changes < MaxChanges
    BY <1>7 DEF ChangeTenantSecret, Begins
  <2> DEFINE row == [rows[t] EXCEPT !.secret = @ + 1]
  <2>3. rows' = [rows EXCEPT ![t] = row]
    BY <2>1
  <2>4. row \in Row /\ row.secret <= changes + 2
    <3>1. rows[t] \in Row /\ rows[t].secret <= changes + 1
      BY <1>3, <2>1 DEF Tenants
    <3>2. rows[t].secret + 1 \in Secret /\ rows[t].secret + 1 <= changes + 2
      BY <1>0, <1>4, <2>2, <3>1 DEF Row, Secret
    <3>3. QED
      BY <3>1, <3>2 DEF Row
  <2> HIDE DEF row
  <2>5. changes' = changes + 1 /\ req' \in [Req -> Job] /\ changes' \in 0..MaxChanges
    BY <1>0, <1>1, <2>2
  <2>6. changes' + 1 = changes + 2
    BY <1>4, <2>5
  <2>7. Rows' /\ \A u \in Tenant : Exists(u)' => rows'[u].secret <= changes' + 1
    BY <1>2, <2>3, <2>4, <2>5, <2>6
  <2>8. QED
    BY <2>2, <2>5, <2>7 DEF Tenants
<1>8. ASSUME NEW w \in Req, ReadTenantStatus(w) PROVE Tenants'
  <2>1. PICK t \in Tenant : Exists(t) /\ Begins(w, [at |-> "read", t |-> t, on |-> ~rows[t].on])
    BY <1>8 DEF ReadTenantStatus
  <2>2. [at |-> "read", t |-> t, on |-> ~rows[t].on] \in Job
    BY DEF Job
  <2>3. req' \in [Req -> Job] /\ changes' \in 0..MaxChanges /\ changes' = changes + 1 /\ UNCHANGED <<rows, list, loose>>
    BY <1>1, <1>8, <2>1, <2>2 DEF ReadTenantStatus
  <2>4. Rows' /\ \A u \in Tenant : Exists(u)' => rows'[u].secret <= changes' + 1
    <3>1. Rows' /\ \A u \in Tenant : Exists(u)' => Exists(u) /\ rows'[u] = rows[u]
      BY <2>3 DEF Tenants, Rows, Exists
    <3>2. \A u \in Tenant : Exists(u) => rows[u].secret <= changes + 1 /\ rows[u].secret \in Nat
      BY <1>3 DEF Tenants, Secret
    <3>3. QED
      BY <1>4, <2>3, <3>1, <3>2
  <2>5. QED
    BY <2>3, <2>4 DEF Tenants
<1>9. ASSUME NEW w \in Req, ToggleTenantStatus(w) PROVE Tenants'
  <2> DEFINE t == req[w].t
             row == [rows[t] EXCEPT !.on = req[w].on]
  <2>1. /\ req[w] \in Job /\ req[w].at = "read" /\ Turns(w, Written) /\ UNCHANGED <<list, changes, loose>>
        /\ rows' = IF Exists(t) THEN [rows EXCEPT ![t].on = req[w].on] ELSE rows
    BY <1>0, <1>9 DEF ToggleTenantStatus
  <2>2. t \in Tenant /\ req[w].on \in BOOLEAN
    BY <2>1, JobIs
  <2>3. req' \in [Req -> Job]
    BY <1>0, <2>1, TurnsJob
  <2>4. CASE Exists(t)
    <3>1. rows' = [rows EXCEPT ![t] = row]
      BY <2>1, <2>4
    <3>2. row \in Row /\ row.secret = rows[t].secret
      BY <1>3, <2>2, <2>4 DEF Row
    <3>3. row.secret <= changes' + 1 /\ changes' = changes
      BY <2>1, <2>2, <2>4, <3>2 DEF Tenants
    <3> HIDE DEF row, t
    <3>4. Rows' /\ \A u \in Tenant : Exists(u)' => rows'[u].secret <= changes' + 1
      BY <1>2, <2>2, <3>1, <3>2, <3>3
    <3>5. QED
      BY <2>1, <2>3, <3>4 DEF Tenants
  <2>5. CASE ~Exists(t)
    BY <1>5, <2>1, <2>3, <2>5 DEF Tenants
  <2>6. QED
    BY <2>4, <2>5
<1>10. ASSUME NEW w \in Req, UpdateTenant(w) PROVE Tenants'
  <2>1. req' \in [Req -> Job] /\ changes' \in 0..MaxChanges /\ changes' = changes + 1 /\ UNCHANGED <<rows, list, loose>>
    BY <1>0, <1>1, <1>10 DEF UpdateTenant
  <2>2. Rows' /\ \A u \in Tenant : Exists(u)' => rows'[u].secret <= changes' + 1
    <3>1. Rows' /\ \A u \in Tenant : Exists(u)' => Exists(u) /\ rows'[u] = rows[u]
      BY <2>1 DEF Tenants, Rows, Exists
    <3>2. \A u \in Tenant : Exists(u) => rows[u].secret <= changes + 1 /\ rows[u].secret \in Nat
      BY <1>3 DEF Tenants, Secret
    <3>3. QED
      BY <1>4, <2>1, <3>1, <3>2
  <2>3. QED
    BY <2>1, <2>2 DEF Tenants
<1>11. ASSUME NEW w \in Req, DeleteTenant(w) PROVE Tenants'
  <2>1. PICK t \in Tenant : rows' = [rows EXCEPT ![t] = Gone]
    BY <1>11 DEF DeleteTenant
  <2>2. req' \in [Req -> Job] /\ changes' \in 0..MaxChanges /\ changes' = changes + 1 /\ UNCHANGED <<list, loose>>
    BY <1>0, <1>1, <1>11 DEF DeleteTenant
  <2>3. Rows' /\ \A u \in Tenant : Exists(u)' => rows'[u].secret <= changes' + 1
    BY <1>2, <2>1, <2>2
  <2>4. QED
    BY <2>2, <2>3 DEF Tenants
<1>12. ASSUME NEW w \in Req, ReadRows(w) PROVE Tenants'
  <2>1. [at |-> "queried", rest |-> Listed] \in Job
    BY ListedEntries DEF Job, Tenants
  <2>2. req' \in [Req -> Job] /\ UNCHANGED <<rows, list, changes>> /\ loose' \in BOOLEAN
    BY <1>0, <1>12, <2>1, TurnsJob DEF ReadRows, Others
  <2>3. QED
    BY <1>5, <2>2 DEF Tenants
<1>13. ASSUME NEW w \in Req, ReadRowsFails(w) PROVE Tenants'
  <2>1. req' \in [Req -> Job] /\ UNCHANGED <<rows, list, changes>> /\ loose' \in BOOLEAN
    BY <1>0, <1>13, TurnsJob DEF ReadRowsFails
  <2>2. QED
    BY <1>5, <2>1 DEF Tenants
<1>14. ASSUME NEW w \in Req, EmptiesList(w) PROVE Tenants'
  <2>1. req[w] \in Job /\ req[w].at = "queried"
    BY <1>0, <1>14 DEF EmptiesList
  <2>2. [req[w] EXCEPT !.at = "append"] \in Job
    BY <2>1 DEF Job, Idle, Written
  <2>3. req' \in [Req -> Job] /\ UNCHANGED <<rows, changes, loose>>
    BY <1>0, <1>14, <2>2, TurnsJob DEF EmptiesList
  <2>4. list' \in Seq(Entry)
    <3>1. list' = <<>> \/ list' = list
      BY <1>14 DEF EmptiesList, Emptied
    <3>2. QED
      BY <3>1, EmptySeq DEF Tenants
  <2>5. QED
    BY <1>5, <2>3, <2>4 DEF Tenants
<1>15. ASSUME NEW w \in Req, AppendsTenant(w) PROVE Tenants'
  <2>1. req[w] \in Job /\ req[w].at = "append" /\ req[w].rest # <<>> /\ req[w].rest \in Seq(Entry) /\ list \in Seq(Entry)
    BY <1>0, <1>15, JobIs DEF AppendsTenant, Tenants
  <2>2. Head(req[w].rest) \in Entry /\ Tail(req[w].rest) \in Seq(Entry)
    BY <2>1, HeadTailProperties
  <2>3. [req[w] EXCEPT !.rest = Tail(@)] \in Job
    BY <2>1, <2>2 DEF Job, Idle, Written
  <2>4. req' \in [Req -> Job] /\ UNCHANGED <<rows, changes, loose>>
    BY <1>0, <1>15, <2>3, TurnsJob DEF AppendsTenant
  <2>5. PICK k \in 0..Len(list) : list' = Append(SubSeq(list, 1, k), Head(req[w].rest))
    BY <1>15, <2>1, LenProperties DEF AppendsTenant
  <2>6. SubSeq(list, 1, k) \in Seq(Entry)
    <3>1. k \in Nat /\ k <= Len(list) /\ Len(list) \in Nat
      BY <2>1, LenProperties
    <3>2. \A i \in 1..k : list[i] \in Entry
      BY <2>1, <3>1, ElementOfSeq
    <3>3. QED
      BY <2>1, <3>1, <3>2, SubSeqProperties
  <2>7. list' \in Seq(Entry)
    BY <2>2, <2>5, <2>6, AppendProperties
  <2>8. QED
    BY <1>5, <2>4, <2>7 DEF Tenants
<1>16. ASSUME NEW w \in Req, RefreshTenants(w) PROVE Tenants'
  <2>1. req' \in [Req -> Job] /\ UNCHANGED <<rows, list, changes, loose>>
    BY <1>0, <1>16, TurnsJob DEF RefreshTenants
  <2>2. QED
    BY <1>5, <2>1 DEF Tenants
<1>17. QED
  BY <1>6, <1>7, <1>8, <1>9, <1>10, <1>11, <1>12, <1>13, <1>14, <1>15, <1>16 DEF TenantsNext


\* A step of request w from job to job, that is not the start of a rebuild.
LEMMA TightStep == ASSUME Tenants, ~loose => Tight, TenantsNext, ~loose' PROVE Tight'
<1>0. req \in [Req -> Job] /\ list \in Seq(Entry) /\ Rows
  BY DEF Tenants
<1>1. ASSUME NEW w \in Req, ~loose, Turns(w, Written), ~Rebuilding(w) PROVE Tight'
  <2>1. req'[w] = Written /\ \A v \in Req \ {w} : req'[v] = req[v]
    BY <1>0, <1>1, TurnsJob
  <2>2. \A v \in Req : Rebuilding(v)' => Rebuilding(v)
    BY <2>1, Stands DEF Rebuilding
  <2>3. QED
    BY <1>1, <2>1, <2>2 DEF Tight
<1>2. ASSUME NEW w \in Req, CreateTenant(w) \/ ChangeTenantSecret(w) \/ UpdateTenant(w) \/ DeleteTenant(w)
      PROVE  Tight'
  <2>1. Begins(w, Written) /\ UNCHANGED loose
    BY <1>2 DEF CreateTenant, ChangeTenantSecret, UpdateTenant, DeleteTenant
  <2>2. Turns(w, Written) /\ ~Rebuilding(w)
    BY <2>1, Stands DEF Begins, Rebuilding
  <2>3. QED
    BY <1>1, <2>1, <2>2
<1>3. ASSUME NEW w \in Req, ToggleTenantStatus(w) PROVE Tight'
  <2>1. Turns(w, Written) /\ ~Rebuilding(w) /\ UNCHANGED loose
    BY <1>3 DEF ToggleTenantStatus, Rebuilding
  <2>2. QED
    BY <1>1, <2>1
<1>4. ASSUME NEW w \in Req, ReadTenantStatus(w) PROVE Tight'
  <2>1. /\ req[w] = Idle /\ UNCHANGED <<rows, list, loose>>
        /\ \E job : job.at = "read" /\ Turns(w, job)
    BY <1>4 DEF ReadTenantStatus, Begins
  <2>2. req'[w].at = "read" /\ \A v \in Req \ {w} : req'[v] = req[v]
    BY <1>0, <2>1, TurnsJob
  <2>3. \A v \in Req : /\ req'[v].at \in {"queried", "append"} => req'[v] = req[v]
                       /\ Rebuilding(v)' <=> Rebuilding(v)
                       /\ req[v] = Written => req'[v] = Written
    BY <2>1, <2>2, Stands DEF Rebuilding
  <2>4. Tight /\ Listed' = Listed
    BY <2>1, ListedKept
  <2>5. QED
    BY <2>1, <2>3, <2>4 DEF Tight
<1>5. ASSUME NEW w \in Req, ReadRows(w) PROVE Tight'
  <2> DEFINE job == [at |-> "queried", rest |-> Listed]
  <2>1. /\ Turns(w, job) /\ UNCHANGED <<rows, list>>
        /\ \A v \in Req \ {w} : ~Rebuilding(v)
    BY <1>5 DEF ReadRows, Others
  <2>2. req'[w] = job /\ \A v \in Req \ {w} : req'[v] = req[v]
    BY <1>0, <2>1, TurnsJob
  <2>3. job.at = "queried" /\ job.rest = Listed
    OBVIOUS
  <2> HIDE DEF job
  <2>4. Rebuilding(w)' /\ \A v \in Req \ {w} : ~Rebuilding(v)'
    BY <2>1, <2>2, <2>3 DEF Rebuilding
  <2>5. Listed' = Listed
    BY <2>1, ListedKept
  <2>6. \A v \in Req : (req'[v].at = "queried" => req'[v].rest = Listed') /\ req'[v].at # "append"
    BY <2>2, <2>3, <2>4, <2>5 DEF Rebuilding
  <2>7. QED
    BY <2>4, <2>6 DEF Tight
<1>6. ASSUME NEW w \in Req, ReadRowsFails(w) PROVE Tight'
  BY <1>6 DEF ReadRowsFails
<1>7. ASSUME NEW w \in Req, ~loose, Rebuilding(w)
      PROVE  ~Others(w) /\ \A v \in Req \ {w} : ~Rebuilding(v)
  BY <1>7 DEF Tight, Others
<1>8. ASSUME NEW w \in Req, ~loose, Rebuilding(w), UNCHANGED rows, NEW job, Turns(w, job),
             \/ /\ job.at = "append"
                /\ (\A v \in Req : req[v] # Written) => list' \o job.rest = Listed
             \/ /\ job = Idle
                /\ (\A v \in Req : req[v] # Written) => list' = Listed
      PROVE  Tight'
  <2>1. req'[w] = job /\ \A v \in Req \ {w} : req'[v] = req[v]
    BY <1>0, <1>8, TurnsJob
  <2>2. \A v \in Req \ {w} : ~Rebuilding(v)'
    BY <1>7, <1>8, <2>1 DEF Rebuilding
  <2>3. (\A v \in Req : req'[v] # Written) => \A v \in Req : req[v] # Written
    BY <1>8, <2>1, Stands DEF Rebuilding
  <2>4. Listed' = Listed
    BY <1>8, ListedKept
  <2>5. \A v \in Req : req'[v].at \in {"queried", "append"} => v = w
    BY <2>2 DEF Rebuilding
  <2>6. CASE job.at = "append"
    <3>1. Rebuilding(w)' /\ job # Idle
      BY <2>1, <2>6, Stands DEF Rebuilding
    <3>2. QED
      BY <1>8, <2>1, <2>2, <2>3, <2>4, <2>5, <2>6, <3>1 DEF Tight
  <2>7. CASE job = Idle
    <3>1. \A v \in Req : ~Rebuilding(v)' /\ req'[v].at \notin {"queried", "append"}
      BY <2>1, <2>2, <2>7, Stands DEF Rebuilding
    <3>2. QED
      BY <1>8, <2>3, <2>4, <2>7, <3>1, Stands DEF Tight
  <2>8. QED
    BY <1>8, <2>6, <2>7
<1>9. ASSUME NEW w \in Req, EmptiesList(w) PROVE Tight'
  <2> DEFINE job == [req[w] EXCEPT !.at = "append"]
  <2>1. req[w] \in Job /\ req[w].at = "queried" /\ Rebuilding(w) /\ ~loose /\ UNCHANGED rows /\ Turns(w, job)
    BY <1>0, <1>9 DEF EmptiesList, Rebuilding
  <2>2. list' = <<>>
    BY <1>7, <1>9, <2>1 DEF EmptiesList, Emptied
  <2>3. job.at = "append" /\ job.rest = req[w].rest /\ req[w].rest \in Seq(Entry)
    BY <2>1, JobIs DEF Job, Idle, Written
  <2> HIDE DEF job
  <2>4. list' \o job.rest = req[w].rest
    BY <2>2, <2>3, ConcatEmptySeq
  <2>5. (\A v \in Req : req[v] # Written) => list' \o job.rest = Listed
    BY <2>1, <2>4 DEF Tight
  <2>6. QED
    BY <1>8, <2>1, <2>3, <2>5
<1>10. ASSUME NEW w \in Req, AppendsTenant(w) PROVE Tight'
  <2> DEFINE job == [req[w] EXCEPT !.rest = Tail(@)]
  <2>1. /\ req[w] \in Job /\ req[w].at = "append" /\ Rebuilding(w) /\ ~loose /\ UNCHANGED rows /\ Turns(w, job)
        /\ req[w].rest # <<>>
    BY <1>0, <1>10 DEF AppendsTenant, Rebuilding
  <2>2. req[w].rest \in Seq(Entry) /\ Len(list) \in Nat
    BY <1>0, <2>1, JobIs
  <2>3. list' = Append(SubSeq(list, 1, Len(list)), Head(req[w].rest))
    BY <1>7, <1>10, <2>1, <2>2 DEF AppendsTenant
  <2>4. job.at = "append" /\ job.rest = Tail(req[w].rest)
    BY <2>1 DEF Job, Idle, Written
  <2> HIDE DEF job
  <2>5. list' \o job.rest = list \o req[w].rest
    <3>1. \A l, r \in Seq(Entry) :
              r # <<>> => Append(SubSeq(l, 1, Len(l)), Head(r)) \o Tail(r) = l \o r
      <4> TAKE l, r \in Seq(Entry)
      <4> HAVE r # <<>>
      <4>1. QED
        BY Moved
    <3>2. Append(SubSeq(list, 1, Len(list)), Head(req[w].rest)) \o Tail(req[w].rest) = list \o req[w].rest
      BY <1>0, <2>1, <2>2, <3>1, Zenon
    <3>3. QED
      BY <2>3, <2>4, <3>2
  <2>6. (\A v \in Req : req[v] # Written) => list' \o job.rest = Listed
    BY <2>1, <2>5 DEF Tight
  <2>7. QED
    BY <1>8, <2>1, <2>4, <2>6
<1>11. ASSUME NEW w \in Req, RefreshTenants(w) PROVE Tight'
  <2>1. /\ req[w].at = "append" /\ req[w].rest = <<>> /\ Rebuilding(w) /\ Turns(w, Idle)
        /\ ~loose /\ UNCHANGED <<rows, list>>
    BY <1>11 DEF RefreshTenants, Rebuilding
  <2>2. list \o req[w].rest = list
    BY <1>0, <2>1, ConcatEmptySeq
  <2>3. (\A v \in Req : req[v] # Written) => list' = Listed
    BY <2>1, <2>2 DEF Tight
  <2>4. QED
    BY <1>8, <2>1, <2>3
<1>12. QED
  BY <1>2, <1>3, <1>4, <1>5, <1>6, <1>9, <1>10, <1>11 DEF TenantsNext

Rebuilds == Tenants /\ (~loose => Tight)

\* What the tenants are like is their requests' business alone.
LEMMA TenantsAlone == ASSUME [Next]_authVars PROVE TenantsNext \/ UNCHANGED tenantVars
<1>1. ASSUME NEW a \in Attempt,
             IssueToken(a) \/ ComparesPassword(a) \/ IssueUserToken(a) \/ IssueUserTokenRefused(a)
      PROVE  UNCHANGED tenantVars
  BY <1>1 DEF IssueToken, ComparesPassword, IssueUserToken, IssueUserTokenRefused
<1>2. ASSUME NEW i \in DOMAIN tokens, VerifiesOld(i) \/ LogoutHandler(i) PROVE UNCHANGED tenantVars
  BY <1>2 DEF VerifiesOld, LogoutHandler
<1>3. ASSUME LoginSteps \/ RefreshToken \/ RefreshTokenFails \/ Tick PROVE UNCHANGED tenantVars
  BY <1>3 DEF LoginSteps, RefreshToken, RefreshTokenFails, Tick
<1>4. ASSUME UNCHANGED authVars PROVE UNCHANGED tenantVars
  BY <1>4 DEF authVars, tenantVars
<1>5. QED
  BY <1>1, <1>2, <1>3, <1>4 DEF Next, Manages

\* Steps that leave the tenants alone leave the rebuilds alone.
LEMMA RebuildsKept == ASSUME Rebuilds, UNCHANGED tenantVars PROVE Rebuilds'
<1>1. UNCHANGED <<rows, list, req, changes, loose>> /\ Listed' = Listed
  BY ListedKept DEF tenantVars
<1>2. Tenants'
  BY <1>1 DEF Rebuilds, Tenants, Rows, Exists
<1>3. ~loose' => Tight'
  BY <1>1 DEF Rebuilds, Tight, Rebuilding
<1>4. QED
  BY <1>2, <1>3 DEF Rebuilds

\* A rebuild in progress has the list halfway to the rows, always.
LEMMA RebuildsHold == Spec => []Rebuilds
<1>1. Init => Rebuilds
  <2> SUFFICES ASSUME Init PROVE Rebuilds
    OBVIOUS
  <2>1. /\ rows = [t \in Tenant |-> IF t = 1 THEN [on |-> TRUE, secret |-> 1] ELSE Never]
        /\ list = Listed /\ req = [w \in Req |-> Idle] /\ changes = 0 /\ loose = FALSE
    BY DEF Init, TenantsInit
  <2>2. Rows
    BY <2>1, TenantsAssumption DEF Rows, Row, Secret
  <2>3. \A t \in Tenant : Exists(t) => rows[t].secret <= changes + 1
    BY <2>1 DEF Exists
  <2>4. list \in Seq(Entry)
    BY <2>1, <2>2, ListedEntries
  <2>5. Tenants
    <3>1. req \in [Req -> Job] /\ changes \in 0..MaxChanges /\ loose \in BOOLEAN
      <4>1. Idle \in Job
        BY DEF Job
      <4>2. req = [w \in Req |-> Idle] /\ changes = 0 /\ loose = FALSE
        BY <2>1
      <4>3. req \in [Req -> Job]
        BY <4>1, <4>2
      <4>4. 0 \in 0..MaxChanges
        BY TenantsAssumption
      <4>5. QED
        BY <4>2, <4>3, <4>4
    <3>2. QED
      BY <2>2, <2>3, <2>4, <3>1 DEF Tenants
  <2>6. Tight
    BY <2>1, Stands DEF Tight, Rebuilding
  <2>7. QED
    BY <2>5, <2>6 DEF Rebuilds
<1>2. Rebuilds /\ [Next]_authVars => Rebuilds'
  BY TenantsAlone, TenantsStep, TightStep, RebuildsKept DEF Rebuilds
<1>3. QED
  BY <1>1, <1>2, PTL DEF Spec

\* Every change of a tenant is followed by a rebuild of its own, so that once all are
\* done the list shows the rows, if no rebuild failed and no two overlapped.
THEOREM RuntimeIsExact == Spec => []RuntimeExact
<1>1. Rebuilds => RuntimeExact
  <2> SUFFICES ASSUME Rebuilds, Settled, ~loose PROVE list = Listed
    BY DEF RuntimeExact
  <2>1. \A w \in Req : req[w] # Written /\ ~Rebuilding(w)
    BY Stands DEF Settled, Rebuilding
  <2>2. QED
    BY <2>1 DEF Rebuilds, Tight
<1>2. QED
  BY <1>1, RebuildsHold, PTL


-----------------------------------------------------------------------------
(* Tokens and the secrets they come from.                                  *)

\* A token is signed with the secret of the login it comes from, or its refresh knows.
Rooted == {tok \in Token : tok.mixed \/ tok.root = tok.key}

Tokens ==
    /\ now \in 0..MaxTime /\ tokens \in Seq(Rooted) /\ Len(tokens) <= MaxTokens
    /\ refreshing \in 0..Len(tokens)

\* A token a login makes is signed with the secret it comes from.
LEMMA SignedRooted ==
    ASSUME Tenants, Tokens, NEW t \in Tenant, Found(t), NEW root \in Secret, NEW mixed \in BOOLEAN,
           mixed \/ root = TenantInfo(t).secret
    PROVE  Signed(t, root, mixed) \in Rooted
<1>1. TenantInfo(t) \in Entry
  <2>1. PICK i \in 1..Len(list) : TenantInfo(t) = list[i]
    BY FirstFound DEF Tenants
  <2>2. QED
    BY <2>1, ElementOfSeq DEF Tenants
<1>2. TenantInfo(t).secret \in Secret
  BY <1>1 DEF Entry
<1>3. Seconds + Life \in Nat
  BY AuthAssumption DEF Seconds, Tokens
<1>4. Signed(t, root, mixed) \in Token
  BY <1>2, <1>3 DEF Signed, Token
<1>5. QED
  BY <1>4 DEF Rooted, Signed

\* Issuing one keeps the tokens in order.
LEMMA IssuedTokens ==
    ASSUME Tokens, NEW ts \in Seq(Rooted), Len(ts) = Len(tokens), NEW tok \in Rooted, Issues(ts, tok),
           refreshing' \in {0, refreshing}, UNCHANGED now
    PROVE  Tokens'
<1>1. tokens' = Append(ts, tok) /\ Len(ts) < MaxTokens
  BY DEF Issues
<1>2. tokens' \in Seq(Rooted) /\ Len(tokens') = Len(ts) + 1 /\ Len(ts) \in Nat
  BY <1>1, AppendProperties, LenProperties
<1>3. QED
  BY <1>1, <1>2, AuthAssumption DEF Tokens

\* Putting a token on the blacklist changes no secret in it.
LEMMA BlacklistedRooted ==
    ASSUME Tokens, NEW i \in DOMAIN tokens, NEW ts \in Blacklisted(tokens, i)
    PROVE  ts \in Seq(Rooted) /\ Len(ts) = Len(tokens)
<1>1. CASE ts = tokens
  BY <1>1 DEF Tokens
<1>2. CASE ts = [tokens EXCEPT ![i].black = BlackUntil(i), ![i].out = TRUE]
  <2>0. tokens \in Seq(Rooted) /\ i \in 1..Len(tokens)
    BY DEF Tokens
  <2>1. tokens[i] \in Rooted /\ tokens[i] \in Token /\ now \in Nat
    BY <2>0, ElementOfSeq DEF Tokens, Rooted
  <2>2. BlackUntil(i) \in Nat
    BY <2>1, BlackUntilLater DEF Token
  <2> DEFINE new == [tokens[i] EXCEPT !.black = BlackUntil(i), !.out = TRUE]
  <2>3. ts = [tokens EXCEPT ![i] = new]
    BY <1>2, <2>0
  <2>4. new \in Token /\ new.mixed = tokens[i].mixed /\ new.root = tokens[i].root /\ new.key = tokens[i].key
    BY <2>1, <2>2 DEF Token
  <2>5. new \in Rooted
    BY <2>1, <2>4 DEF Rooted
  <2> HIDE DEF new
  <2>6. QED
    BY <2>0, <2>3, <2>5, ExceptSeq
<1>3. QED
  BY <1>1, <1>2 DEF Blacklisted

\* Every step keeps the tokens in order.
LEMMA TokensStep == ASSUME Tenants, Tokens, [Next]_authVars PROVE Tokens'
<1>0. /\ tokens \in Seq(Rooted) /\ Len(tokens) \in Nat /\ DOMAIN tokens = 1..Len(tokens)
      /\ now \in 0..MaxTime /\ refreshing \in 0..Len(tokens) /\ Len(tokens) <= MaxTokens
  BY DEF Tokens
<1>1. ASSUME UNCHANGED <<tokens, now, refreshing>> PROVE Tokens'
  BY <1>1 DEF Tokens
<1>2. ASSUME NEW t \in Tenant, Found(t), Issues(tokens, Signed(t, TenantInfo(t).secret, FALSE)),
             UNCHANGED <<now, refreshing>>
      PROVE  Tokens'
  <2>1. TenantInfo(t).secret \in Secret
    <3>1. PICK i \in 1..Len(list) : TenantInfo(t) = list[i]
      BY <1>2, FirstFound DEF Tenants
    <3>2. TenantInfo(t) \in Entry
      BY <3>1, ElementOfSeq DEF Tenants
    <3>3. QED
      BY <3>2 DEF Entry
  <2>2. Signed(t, TenantInfo(t).secret, FALSE) \in Rooted
    BY <1>2, <2>1, SignedRooted
  <2>3. QED
    BY <1>0, <1>2, <2>2, IssuedTokens
<1>3. ASSUME NEW a \in Attempt, IssueToken(a) PROVE Tokens'
  BY <1>2, <1>3 DEF IssueToken
<1>4. ASSUME NEW a \in Attempt, IssueUserToken(a) PROVE Tokens'
  BY <1>2, <1>4 DEF IssueUserToken
<1>5. ASSUME NEW a \in Attempt, ComparesPassword(a) \/ IssueUserTokenRefused(a) PROVE Tokens'
  BY <1>1, <1>5 DEF ComparesPassword, IssueUserTokenRefused
<1>6. ASSUME NEW i \in DOMAIN tokens, VerifiesOld(i) PROVE Tokens'
  <2>1. refreshing' = i /\ UNCHANGED <<tokens, now>>
    BY <1>6 DEF VerifiesOld
  <2>2. QED
    BY <1>0, <2>1 DEF Tokens
<1>7. ASSUME NEW i \in DOMAIN tokens, LogoutHandler(i) PROVE Tokens'
  <2>1. tokens' \in Blacklisted(tokens, i) /\ UNCHANGED <<now, refreshing>>
    BY <1>7 DEF LogoutHandler
  <2>2. tokens' \in Seq(Rooted) /\ Len(tokens') = Len(tokens)
    BY <2>1, BlacklistedRooted
  <2>3. QED
    BY <1>0, <2>1, <2>2 DEF Tokens
<1>8. CASE RefreshToken
  <2> DEFINE old == tokens[refreshing]
             mixed == old.mixed \/ TenantInfo(old.t).secret # old.key
  <2>1. refreshing \in DOMAIN tokens /\ now' = now /\ refreshing' = 0 /\ Found(old.t)
    BY <1>0, <1>8 DEF RefreshToken
  <2>2. old \in Rooted
    BY <1>0, <2>1, ElementOfSeq
  <2>3. /\ old.t \in Tenant /\ old.root \in Secret /\ old.mixed \in BOOLEAN
        /\ old.mixed \/ old.root = old.key
    BY <2>2 DEF Rooted, Token
  <2>4. PICK ts \in Blacklisted(tokens, refreshing) : Issues(ts, Signed(old.t, old.root, mixed))
    BY <1>8 DEF RefreshToken
  <2>5. ts \in Seq(Rooted) /\ Len(ts) = Len(tokens)
    BY <2>1, BlacklistedRooted
  <2>6. mixed \in BOOLEAN /\ (mixed \/ old.root = TenantInfo(old.t).secret)
    BY <2>3, Zenon
  <2> HIDE DEF old, mixed
  <2>7. Signed(old.t, old.root, mixed) \in Rooted
    BY <2>1, <2>3, <2>6, SignedRooted
  <2>8. QED
    BY <2>1, <2>4, <2>5, <2>7, IssuedTokens
<1>9. CASE RefreshTokenFails
  <2>1. refreshing' = 0 /\ UNCHANGED <<tokens, now>>
    BY <1>9 DEF RefreshTokenFails
  <2>2. QED
    BY <1>0, <2>1 DEF Tokens
<1>10. CASE LoginSteps \/ Manages \/ UNCHANGED authVars
  BY <1>1, <1>10 DEF LoginSteps, Manages, authVars
<1>11. CASE Tick
  <2>1. now < MaxTime /\ now' = now + 1 /\ UNCHANGED <<tokens, refreshing>>
    BY <1>11 DEF Tick
  <2>2. QED
    BY <1>0, <2>1, AuthAssumption DEF Tokens
<1>12. QED
  BY <1>3, <1>4, <1>5, <1>6, <1>7, <1>8, <1>9, <1>10, <1>11 DEF Next

\* Every token there is has the secret of the login it comes from, unless mixed.
LEMMA TokensHold == Spec => []Tokens
<1>1. Init => Tokens
  BY AuthAssumption, EmptySeq DEF Init, Tokens
<1>2. Rebuilds /\ Tokens /\ [Next]_authVars => Tokens'
  BY TokensStep DEF Rebuilds
<1>3. QED
  BY <1>1, <1>2, RebuildsHold, PTL DEF Spec

\* Tenants, the list, rebuilds, logins and tokens are what auth.go and
\* tenant_service.go make them: every token is signed with a secret some row has had.
THEOREM AuthTypes == Spec => []TypeOK
<1>1. Tenants => TenantsType
  <2> SUFFICES ASSUME Tenants PROVE TenantsType
    OBVIOUS
  <2>1. \A w \in Req : req[w].at \in {"idle", "read", "written", "queried", "append"}
    BY JobIs DEF Tenants
  <2>2. QED
    BY <2>1 DEF Tenants, TenantsType, Rows
<1>2. Tokens => tokens \in Seq(Token)
  <2>1. Rooted \subseteq Token
    BY DEF Rooted
  <2>2. QED
    BY <2>1, SeqMonotonic DEF Tokens
<1>3. Rebuilds /\ Tokens /\ LimiterType => TypeOK
  BY <1>1, <1>2 DEF Rebuilds, Tokens, TypeOK
<1>4. QED
  BY <1>3, RebuildsHold, TokensHold, LoginsFollowLimiter, LimiterTypeCorrect, PTL

\* A reset of a tenant's secret ends the sessions from before it, as soon as the list
\* shows it: VerifyTokenFull takes a token only if its login used the secret that the
\* row has now, or the secret changed while the token was being refreshed.
THEOREM OldSessionsAreEnded == Spec => []OldSessionsEnd
<1>1. Rebuilds /\ Tokens /\ RuntimeExact => OldSessionsEnd
  <2> SUFFICES ASSUME Rebuilds, Tokens, RuntimeExact, Settled, ~loose,
                      NEW i \in DOMAIN tokens, Verified(i)
               PROVE  tokens[i].mixed \/ tokens[i].root = rows[tokens[i].t].secret
    BY DEF OldSessionsEnd
  <2>1. Found(tokens[i].t) /\ TenantInfo(tokens[i].t).secret = tokens[i].key
    BY DEF Verified, SignatureHolds
  <2>2. list \in Seq(Shown)
    BY ListedShown DEF RuntimeExact, Rebuilds, Tenants
  <2>3. PICK j \in 1..Len(list) : TenantInfo(tokens[i].t) = list[j] /\ list[j].t = tokens[i].t
    BY <2>1, <2>2, FirstFound
  <2>4. list[j] \in Shown
    BY <2>2, ElementOfSeq
  <2>5. list[j].secret = rows[tokens[i].t].secret
    BY <2>3, <2>4 DEF Shown, Of
  <2>6. tokens[i] \in Rooted
    BY ElementOfSeq DEF Tokens
  <2>7. QED
    BY <2>1, <2>3, <2>5, <2>6 DEF Rooted
<1>2. QED
  BY <1>1, RebuildsHold, TokensHold, RuntimeIsExact, PTL

=============================================================================
