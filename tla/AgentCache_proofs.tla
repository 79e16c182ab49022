------------------------- MODULE AgentCache_proofs --------------------------
(***************************************************************************)
(* What the agent processes know, for any number of tenants, processes,    *)
(* builders, prompt requests, providers and models: the caches are well    *)
(* typed, and an agent that is kept is the one its tenant would get now.   *)
(***************************************************************************)
EXTENDS AgentCache, SequenceTheorems, FiniteSetTheorems, WellFoundedInduction, TLAPS

-----------------------------------------------------------------------------
(* What the gateway resolves.                                              *)

\* A set of numbers that is not empty has a least one.
LEMMA LeastNumber == ASSUME NEW T, T \subseteq Nat, T # {} PROVE \E x \in T : \A y \in T : x <= y
<1>1. PICK x \in T : \A y \in T : ~ (<<y, x>> \in OpToRel(<, Nat))
  BY NatLessThanWellFounded, WFMin
<1>2. ASSUME NEW y \in T PROVE x <= y
  <2>1. <<y, x>> \in OpToRel(<, Nat) <=> y < x
    BY DEF OpToRel
  <2>2. ~(y < x)
    BY <1>1, <2>1, Zenon
  <2>3. QED
    BY <2>2
<1>3. QED
  BY <1>2

\* A row's own model is one; the key belongs to it.
LEMMA OwnIs ==
    ASSUME ConfigType, NEW t \in Tenant, NEW s \in Slot
    PROVE  OwnConfig(t, s) \in Use \cup {Absent}
<1> DEFINE r == cfg[t][s]
<1>1. r \in Row
  BY DEF ConfigType
<1>2. r.key # Absent => r.key \in Key
  BY <1>1 DEF Row
<1>3. r.name # Absent => r.name \in Name
  BY <1>1 DEF Row
<1>4. \A p \in Enabled : prov[p].model \in Name
  BY DEF Enabled, ConfigType
<1> HIDE DEF r
<1>5. \A n \in Name, k \in Key : [name |-> n, key |-> k] \in Use
  BY DEF Use
<1>6. OwnConfig(t, s) = IF r.key = Absent THEN Absent
        ELSE IF r.prov \in Enabled
          THEN [name |-> IF r.name # Absent THEN r.name ELSE prov[r.prov].model, key |-> r.key]
        ELSE IF r.custom /\ r.name # Absent THEN [name |-> r.name, key |-> r.key]
        ELSE Absent
  BY DEF OwnConfig, r
<1>7. QED
  BY <1>2, <1>3, <1>4, <1>5, <1>6

LEMMA FallbackIs ==
    ASSUME ConfigType, NEW s \in Slot
    PROVE  Fallback(s) \in Use \cup {Absent}
<1> DEFINE offers == {p \in Enabled : s \in Serves[p]}
           first == CHOOSE p \in offers : \A q \in offers : p <= q
<1>1. CASE offers = {} \/ cfg[Platform][s].key = Absent
  BY <1>1 DEF Fallback
<1>2. CASE ~(offers = {} \/ cfg[Platform][s].key = Absent)
  <2>1. offers \subseteq Provider /\ offers \subseteq Nat
    BY ModelAssumption DEF Enabled
  <2>2. first \in offers
    <3> HIDE DEF offers
    <3>1. \E p \in offers : \A q \in offers : p <= q
      BY <1>2, <2>1, LeastNumber
    <3>2. QED
      BY <3>1
  <2>3. prov[first].model \in Name
    <3> HIDE DEF first
    <3>1. QED
      BY <2>1, <2>2 DEF ConfigType
  <2>4. cfg[Platform][s].key \in Key
    <3>1. cfg[Platform][s] \in Row
      BY ModelAssumption DEF ConfigType
    <3>2. QED
      BY <1>2, <3>1 DEF Row
  <2>5. Fallback(s) = [name |-> prov[first].model, key |-> cfg[Platform][s].key]
    BY <1>2 DEF Fallback
  <2> HIDE DEF first
  <2>6. QED
    BY <2>3, <2>4, <2>5 DEF Use
<1>3. QED
  BY <1>1, <1>2

LEMMA ResolveIs ==
    ASSUME ConfigType, NEW t \in Tenant, NEW s \in Slot
    PROVE  Resolve(t, s) \in Use \cup {Absent}
  BY OwnIs, FallbackIs, ModelAssumption DEF Resolve

LEMMA UseCustomIs == ASSUME NEW t, NEW s PROVE UseCustom(t, s) \in BOOLEAN
  BY DEF UseCustom

\* What GetAgentModelConfig answers.
LEMMA ConfigIs ==
    ASSUME ConfigType, NEW t \in Tenant
    PROVE  AgentConfig(t) \in Config \cup {Absent}
<1>1. CASE \E s \in Slot : Resolve(t, s) = Absent
  BY <1>1 DEF AgentConfig
<1>2. CASE ~ \E s \in Slot : Resolve(t, s) = Absent
  <2>1. \A s \in Slot : Resolve(t, s) \in Use
    BY <1>2, ResolveIs
  <2>2. [s \in Slot |-> Resolve(t, s)] \in Uses
    BY <2>1 DEF Uses
  <2>3. [s \in Slot |-> UseCustom(t, s)] \in [Slot -> BOOLEAN]
    BY UseCustomIs
  <2>4. AgentConfig(t) = [custom |-> [s \in Slot |-> UseCustom(t, s)], use |-> [s \in Slot |-> Resolve(t, s)]]
    BY <1>2 DEF AgentConfig
  <2>5. QED
    BY <2>2, <2>3, <2>4 DEF Config
<1>3. QED
  BY <1>1, <1>2

\* Its parts.
LEMMA ConfigHas ==
    ASSUME NEW c \in Config
    PROVE  /\ c # Absent /\ c.use \in Uses /\ Version(c) = c.use
           /\ \A s \in Slot : c.custom[s] \in BOOLEAN /\ c.use[s] \in Use
<1>1. c # Absent
  BY CacheAssumption
<1>2. c.custom \in [Slot -> BOOLEAN] /\ c.use \in Uses
  BY DEF Config
<1>3. QED
  BY <1>1, <1>2 DEF Uses, Version

LEMMA VersionIs == ASSUME NEW c \in Config \cup {Absent} PROVE Version(c) \in Versions
  BY ConfigHas DEF Version, Versions

\* The model of an agent that is built now, in terms of what the gateway answers.
LEMMA CurrentIs ==
    ASSUME ConfigType, NEW t \in Tenant, NEW s \in Slot
    PROVE  Current(t, s) =
              IF AgentConfig(t) = Absent THEN Absent
              ELSE IF AgentConfig(t).custom[s] THEN AgentConfig(t).use[s]
              ELSE IF AgentConfig(Platform) = Absent THEN Absent
              ELSE AgentConfig(Platform).use[s]
<1>1. ASSUME NEW u \in Tenant, AgentConfig(u) # Absent
      PROVE  AgentConfig(u).custom[s] = UseCustom(u, s) /\ AgentConfig(u).use[s] = Resolve(u, s)
  <2>1. ~ \E x \in Slot : Resolve(u, x) = Absent
    BY <1>1 DEF AgentConfig
  <2>2. AgentConfig(u) = [custom |-> [x \in Slot |-> UseCustom(u, x)], use |-> [x \in Slot |-> Resolve(u, x)]]
    BY <2>1 DEF AgentConfig
  <2>3. QED
    BY <2>2
<1>2. QED
  BY <1>1, ModelAssumption DEF Current


\* The same, after a step.
LEMMA CurrentLater ==
    ASSUME ConfigType', NEW t \in Tenant, NEW s \in Slot
    PROVE  Current(t, s)' =
              IF AgentConfig(t)' = Absent THEN Absent
              ELSE IF AgentConfig(t)'.custom[s] THEN AgentConfig(t)'.use[s]
              ELSE IF AgentConfig(Platform)' = Absent THEN Absent
              ELSE AgentConfig(Platform)'.use[s]
<1>1. ASSUME NEW u \in Tenant, AgentConfig(u)' # Absent
      PROVE  AgentConfig(u)'.custom[s] = UseCustom(u, s)' /\ AgentConfig(u)'.use[s] = Resolve(u, s)'
  <2>1. ~ \E x \in Slot : Resolve(u, x)' = Absent
    BY <1>1 DEF AgentConfig
  <2>2. AgentConfig(u)' = [custom |-> [x \in Slot |-> UseCustom(u, x)'], use |-> [x \in Slot |-> Resolve(u, x)']]
    BY <2>1 DEF AgentConfig
  <2>3. QED
    BY <2>2
<1>2. QED
  BY <1>1, ModelAssumption DEF Current
-----------------------------------------------------------------------------
(* Changes of the gateway's tables.                                        *)

LEMMA ConfigStays == ASSUME ConfigType, UNCHANGED <<prov, cfg>> PROVE ConfigType'
  BY DEF ConfigType

LEMMA UpdateTypes ==
    ASSUME ConfigType, NEW t \in Tenant, NEW S \in SUBSET Slot, NEW f \in Form, UpdateModelConfig(t, S, f)
    PROVE  ConfigType'
<1>1. \A r \in Row : Applied(r, f) \in Row
  <2> TAKE r \in Row
  <2>1. f.prov \in Provider \cup {0} /\ f.name \in Name \cup {Absent} /\ f.key \in Key \cup {Absent}
    BY DEF Form
  <2>2. r.custom \in BOOLEAN /\ r.name \in Name \cup {Absent} /\ r.key \in Key \cup {Absent}
    BY DEF Row
  <2>3. QED
    BY <2>1, <2>2 DEF Applied, Row
<1>2. cfg' \in [Tenant -> [Slot -> Row]]
  BY <1>1 DEF UpdateModelConfig, ConfigType
<1>3. QED
  BY <1>2 DEF UpdateModelConfig, ConfigType

LEMMA ProviderTypes ==
    ASSUME ConfigType, NEW p \in Provider,
           \/ \E on \in BOOLEAN, m \in Name : UpdateModelProvider(p, on, m)
           \/ DeleteModelProvider(p)
           \/ \E m \in Name : CreateModelProvider(p, m)
    PROVE  ConfigType'
<1> DEFINE P == [live : BOOLEAN, on : BOOLEAN, model : Name]
<1>1. prov \in [Provider -> P] /\ prov[p] \in P
  BY DEF ConfigType
<1>2. \A r \in P : /\ [r EXCEPT !.live = FALSE] \in P
                   /\ \A on \in BOOLEAN, m \in Name : [r EXCEPT !.on = on, !.model = m] \in P
  OBVIOUS
<1>3. \A m \in Name : [live |-> TRUE, on |-> TRUE, model |-> m] \in P
  OBVIOUS
<1> HIDE DEF P
<1>4. prov' \in [Provider -> P] /\ UNCHANGED cfg
  <2>1. CASE \E on \in BOOLEAN, m \in Name : UpdateModelProvider(p, on, m)
    <3>1. PICK on \in BOOLEAN, m \in Name : UpdateModelProvider(p, on, m)
      BY <2>1
    <3> DEFINE q == [prov[p] EXCEPT !.on = on, !.model = m]
    <3>2. prov' = [prov EXCEPT ![p] = q] /\ UNCHANGED cfg
      BY <3>1 DEF UpdateModelProvider
    <3>3. q \in P
      BY <1>1, <1>2
    <3> HIDE DEF q
    <3>4. QED
      BY <1>1, <3>2, <3>3
  <2>2. CASE DeleteModelProvider(p)
    <3> DEFINE q == [prov[p] EXCEPT !.live = FALSE]
    <3>1. prov' = [prov EXCEPT ![p] = q] /\ UNCHANGED cfg
      BY <2>2 DEF DeleteModelProvider
    <3>2. q \in P
      BY <1>1, <1>2, ModelAssumption
    <3> HIDE DEF q
    <3>3. QED
      BY <1>1, <3>1, <3>2
  <2>3. CASE \E m \in Name : CreateModelProvider(p, m)
    BY <1>1, <1>3, <2>3 DEF CreateModelProvider
  <2>4. QED
    BY <2>1, <2>2, <2>3
<1>5. QED
  BY <1>4 DEF ConfigType, P

LEMMA ScopeIs == ASSUME NEW S \in SUBSET Slot, S # {} PROVE ScopeOf(S) \in Slot \cup {"all"}
  BY DEF ScopeOf

\* A change of a tenant's own row is none of the platform's.
LEMMA PlatformKept ==
    ASSUME ConfigType, NEW t \in Tenant, t # Platform, NEW S, NEW f, UpdateModelConfig(t, S, f)
    PROVE  AgentConfig(Platform)' = AgentConfig(Platform)
<1>1. cfg'[Platform] = cfg[Platform] /\ prov' = prov
  BY ModelAssumption DEF UpdateModelConfig, ConfigType
<1>2. \A s \in Slot : /\ OwnConfig(Platform, s)' = OwnConfig(Platform, s)
                      /\ Fallback(s)' = Fallback(s)
                      /\ UseCustom(Platform, s)' = UseCustom(Platform, s)
  BY <1>1 DEF OwnConfig, Fallback, UseCustom, Enabled
<1>3. \A s \in Slot : Resolve(Platform, s)' = Resolve(Platform, s)
  BY <1>2 DEF Resolve
<1>4. QED
  BY <1>2, <1>3 DEF AgentConfig

\* Nothing else changes what the gateway answers.
LEMMA ConfigKept ==
    ASSUME UNCHANGED <<prov, cfg>>
    PROVE  /\ \A t \in Tenant : AgentConfig(t)' = AgentConfig(t)
           /\ \A t \in Tenant, s \in Slot : Current(t, s)' = Current(t, s)
<1>1. \A t, s : OwnConfig(t, s)' = OwnConfig(t, s) /\ Fallback(s)' = Fallback(s) /\ UseCustom(t, s)' = UseCustom(t, s)
  BY DEF OwnConfig, Fallback, UseCustom, Enabled
<1>2. \A t, s : Resolve(t, s)' = Resolve(t, s)
  BY <1>1 DEF Resolve
<1>3. \A t : AgentConfig(t)' = AgentConfig(t)
  BY <1>1, <1>2 DEF AgentConfig
<1>4. QED
  BY <1>1, <1>2, <1>3 DEF Current

-----------------------------------------------------------------------------
(* The prompts.                                                            *)

\* A row's key is in the list of those that are active once, and then not.
LEMMA WithoutIs ==
    ASSUME NEW S, NEW s \in Seq(S), IsInjective(s), NEW k
    PROVE  /\ RemoveFirst(s, k) \in Seq(S) /\ IsInjective(RemoveFirst(s, k))
           /\ ~Contains(RemoveFirst(s, k), k)
<1>1. CASE ~Contains(s, k)
  BY <1>1 DEF RemoveFirst, Contains
<1>2. CASE Contains(s, k)
  <2> DEFINE I == {i \in 1..Len(s) : s[i] = k}
             n == Min(I)
             r == SubSeq(s, 1, n - 1) \o SubSeq(s, n + 1, Len(s))
  <2>1. I # {} /\ I \subseteq Nat /\ Len(s) \in Nat
    BY <1>2 DEF Contains
  <2>2. PICK x \in I : \A y \in I : x <= y
    BY <2>1, LeastNumber
  <2>3. n \in I
    BY <2>2 DEF Min
  <2>4. RemoveFirst(s, k) = r
    <3>1. SelectInSeq(s, LAMBDA v : v = k) = n
      BY <2>1 DEF SelectInSeq
    <3>2. QED
      BY <1>2, <3>1 DEF RemoveFirst, RemoveAt, Contains
  <2> HIDE DEF n
  <2>5. n \in 1..Len(s) /\ s[n] = k
    BY <2>3
  <2>6. \A i \in 1..Len(s) : s[i] = k => i = n
    BY <2>5, LenProperties DEF IsInjective
  <2>7. /\ SubSeq(s, 1, n - 1) \in Seq(S) /\ Len(SubSeq(s, 1, n - 1)) = n - 1
        /\ \A i \in 1..(n - 1) : SubSeq(s, 1, n - 1)[i] = s[i]
    BY <2>1, <2>5, SubSeqProperties
  <2>8. /\ SubSeq(s, n + 1, Len(s)) \in Seq(S) /\ Len(SubSeq(s, n + 1, Len(s))) = Len(s) - n
        /\ \A i \in 1..(Len(s) - n) : SubSeq(s, n + 1, Len(s))[i] = s[n + i]
    BY <2>1, <2>5, SubSeqProperties
  <2>9. /\ r \in Seq(S) /\ Len(r) = Len(s) - 1
        /\ \A i \in 1..(Len(s) - 1) : r[i] = IF i < n THEN s[i] ELSE s[i + 1]
    <3> DEFINE a == SubSeq(s, 1, n - 1)
               b == SubSeq(s, n + 1, Len(s))
    <3>1. r = a \o b
      OBVIOUS
    <3> HIDE DEF r, a, b
    <3>2. a \in Seq(S) /\ Len(a) = n - 1 /\ \A i \in 1..(n - 1) : a[i] = s[i]
      BY <2>7 DEF a
    <3>3. b \in Seq(S) /\ Len(b) = Len(s) - n /\ \A i \in 1..(Len(s) - n) : b[i] = s[n + i]
      BY <2>8 DEF b
    <3>4. /\ r \in Seq(S) /\ Len(r) = Len(a) + Len(b)
          /\ \A i \in 1..(Len(a) + Len(b)) : r[i] = IF i <= Len(a) THEN a[i] ELSE b[i - Len(a)]
      BY <3>1, <3>2, <3>3, ConcatProperties
    <3>5. ASSUME NEW i \in 1..(Len(s) - 1) PROVE r[i] = IF i < n THEN s[i] ELSE s[i + 1]
      <4>1. CASE i < n
        <5>1. i \in 1..(n - 1) /\ i <= Len(a) /\ i \in 1..(Len(a) + Len(b))
          BY <2>1, <2>5, <3>2, <3>3, <4>1
        <5>2. a[i] = s[i]
          BY <3>2, <5>1
        <5>3. QED
          BY <3>4, <4>1, <5>1, <5>2
      <4>2. CASE ~(i < n)
        <5>1. i - (n - 1) \in 1..(Len(s) - n) /\ n + (i - (n - 1)) = i + 1
          BY <2>1, <2>5, <4>2
        <5>2. b[i - (n - 1)] = s[i + 1]
          BY <3>3, <5>1
        <5>3. ~(i <= Len(a)) /\ i \in 1..(Len(a) + Len(b)) /\ Len(a) = n - 1
          BY <2>1, <2>5, <3>2, <3>3, <4>2
        <5>4. r[i] = b[i - (n - 1)]
          BY <3>4, <5>3
        <5>5. QED
          BY <4>2, <5>2, <5>4
      <4>3. QED
        BY <4>1, <4>2
    <3>6. QED
      BY <2>1, <2>5, <3>2, <3>3, <3>4, <3>5
  <2> HIDE DEF r
  <2>10. ASSUME NEW i \in 1..Len(r), NEW j \in 1..Len(r), r[i] = r[j] PROVE i = j
    <3>1. \A c, d \in 1..Len(s) : s[c] = s[d] => c = d
      BY LenProperties DEF IsInjective
    <3>2. r[i] = (IF i < n THEN s[i] ELSE s[i + 1]) /\ r[j] = (IF j < n THEN s[j] ELSE s[j + 1])
      BY <2>1, <2>5, <2>9
    <3>3. /\ i \in 1..Len(s) /\ i + 1 \in 1..Len(s)
          /\ j \in 1..Len(s) /\ j + 1 \in 1..Len(s)
      BY <2>1, <2>5, <2>9
    <3>4. CASE i < n /\ j < n
      BY <2>10, <3>1, <3>2, <3>3, <3>4
    <3>5. CASE ~(i < n) /\ ~(j < n)
      <4>1. i + 1 = j + 1
        BY <2>10, <3>1, <3>2, <3>3, <3>5
      <4>2. QED
        BY <3>3, <4>1
    <3>6. CASE i < n /\ ~(j < n)
      <4>1. i = j + 1
        BY <2>10, <3>1, <3>2, <3>3, <3>6
      <4>2. QED
        BY <2>5, <3>3, <3>6, <4>1
    <3>7. CASE ~(i < n) /\ j < n
      <4>1. j = i + 1
        BY <2>10, <3>1, <3>2, <3>3, <3>7
      <4>2. QED
        BY <2>5, <3>3, <3>7, <4>1
    <3>8. QED
      BY <3>4, <3>5, <3>6, <3>7
  <2>11. IsInjective(r)
    BY <2>9, <2>10, LenProperties DEF IsInjective
  <2>12. ASSUME NEW i \in 1..Len(r) PROVE r[i] # k
    BY <2>1, <2>5, <2>6, <2>9
  <2>13. QED
    BY <2>4, <2>9, <2>11, <2>12 DEF Contains
<1>3. QED
  BY <1>1, <1>2

LEMMA InFront ==
    ASSUME NEW S, NEW s \in Seq(S), IsInjective(s), NEW k \in S, ~Contains(s, k)
    PROVE  <<k>> \o s \in Seq(S) /\ IsInjective(<<k>> \o s)
<1> DEFINE r == <<k>> \o s
<1>1. /\ r \in Seq(S) /\ Len(r) = Len(s) + 1 /\ Len(s) \in Nat
      /\ \A i \in 1..(Len(s) + 1) : r[i] = IF i = 1 THEN k ELSE s[i - 1]
  <2>1. <<k>> \in Seq(S) /\ Len(<<k>>) = 1 /\ <<k>>[1] = k
    OBVIOUS
  <2>2. QED
    BY <2>1, ConcatProperties
<1> HIDE DEF r
<1>2. ASSUME NEW i \in 1..Len(r), NEW j \in 1..Len(r), r[i] = r[j] PROVE i = j
  <2>1. \A c, d \in 1..Len(s) : s[c] = s[d] => c = d
    BY LenProperties DEF IsInjective
  <2>2. r[i] = (IF i = 1 THEN k ELSE s[i - 1]) /\ r[j] = (IF j = 1 THEN k ELSE s[j - 1])
    BY <1>1
  <2>3. \A x \in 1..Len(s) : s[x] # k
    BY DEF Contains
  <2>4. CASE i # 1 /\ j # 1
    <3>1. i - 1 \in 1..Len(s) /\ j - 1 \in 1..Len(s)
      BY <1>1, <2>4
    <3>0. s[i - 1] = s[j - 1]
      BY <1>2, <2>2, <2>4
    <3>2. i - 1 = j - 1
      BY <2>1, <3>0, <3>1
    <3>3. QED
      BY <1>1, <3>2
  <2>5. CASE i = 1 \/ j = 1
    <3>1. i # 1 => i - 1 \in 1..Len(s) /\ s[i - 1] # k
      BY <1>1, <2>3
    <3>2. j # 1 => j - 1 \in 1..Len(s) /\ s[j - 1] # k
      BY <1>1, <2>3
    <3>3. QED
      BY <1>2, <2>2, <2>5, <3>1, <3>2
  <2>6. QED
    BY <2>4, <2>5
<1>3. IsInjective(r)
  BY <1>1, <1>2, LenProperties DEF IsInjective
<1>4. QED
  BY <1>1, <1>3 DEF r

\* The lists a request may leave.
Actives == {s \in Seq(PromptKey) : IsInjective(s)}

LEMMA ActivesAre ==
    /\ << >> \in Actives
    /\ \A k \in PromptKey : <<k>> \in Actives
    /\ \A s \in Actives, k \in PromptKey : RemoveFirst(s, k) \in Actives /\ <<k>> \o RemoveFirst(s, k) \in Actives
<1>1. << >> \in Actives
  BY DEF Actives, IsInjective
<1>2. ASSUME NEW k \in PromptKey PROVE <<k>> \in Actives
  <2>1. <<k>> \in Seq(PromptKey) /\ DOMAIN <<k>> = {1}
    OBVIOUS
  <2>2. QED
    BY <2>1 DEF Actives, IsInjective
<1>3. ASSUME NEW s \in Actives, NEW k \in PromptKey
      PROVE  RemoveFirst(s, k) \in Actives /\ <<k>> \o RemoveFirst(s, k) \in Actives
  <2>1. s \in Seq(PromptKey) /\ IsInjective(s)
    BY DEF Actives
  <2>2. /\ RemoveFirst(s, k) \in Seq(PromptKey) /\ IsInjective(RemoveFirst(s, k))
        /\ ~Contains(RemoveFirst(s, k), k)
    BY <2>1, WithoutIs
  <2>3. QED
    BY <2>2, InFront DEF Actives
<1>4. QED
  BY <1>1, <1>2, <1>3


\* The prompts' type, with the lists under one name.
Edit == [at : {"others", "publish", "on", "drop", "dropIdle", "rebuild"}, c : Owner, k : PromptKey]

LEMMA PromptTypeIs ==
    PromptType <=>
        /\ text \in [Owner -> [PromptKey -> 0..MaxText]]
        /\ active \in [Owner -> Actives]
        /\ kept \in [Owner -> [PromptKey -> Seq(1..MaxText)]]
        /\ texts \in 0..MaxText
        /\ ed \in [Editor -> {Resting} \cup Edit]
<1>1. active \in [Owner -> Actives] <=> active \in [Owner -> Seq(PromptKey)] /\ \A c \in Owner : IsInjective(active[c])
  BY DEF Actives
<1>2. QED
  BY <1>1 DEF PromptType, Edit

LEMMA PromptStays == ASSUME PromptType, UNCHANGED promptVars PROVE PromptType'
  BY DEF PromptType, promptVars

\* What a request writes is of the table's types, so the table stays so.
LEMMA PromptStep ==
    ASSUME PromptType,
           text' \in [Owner -> [PromptKey -> 0..MaxText]],
           active' \in [Owner -> Actives],
           kept' \in [Owner -> [PromptKey -> Seq(1..MaxText)]],
           texts' \in 0..MaxText,
           ed' \in [Editor -> {Resting} \cup Edit]
    PROVE  PromptType'
<1>1. active' \in [Owner -> Seq(PromptKey)] /\ \A c \in Owner : IsInjective(active'[c])
  BY DEF Actives
<1>2. QED
  BY <1>1 DEF PromptType, Edit

LEMMA ActiveStep ==
    ASSUME PromptType, NEW c \in Owner, NEW k \in PromptKey,
           NEW s, s \in {<< >>, <<k>>, Without(c, k), <<k>> \o Without(c, k), active[c]}
    PROVE  [active EXCEPT ![c] = s] \in [Owner -> Actives]
<1>1. active \in [Owner -> Actives]
  BY PromptTypeIs
<1>2. active[c] \in Actives
  BY <1>1
<1>3. s \in Actives
  BY <1>2, ActivesAre DEF Without
<1>4. QED
  BY <1>1, <1>3

LEMMA EditStep ==
    ASSUME PromptType, NEW e \in Editor
    PROVE  /\ [ed EXCEPT ![e] = Resting] \in [Editor -> {Resting} \cup Edit]
           /\ ed[e] # Resting => /\ ed[e] \in Edit /\ ed[e].c \in Owner /\ ed[e].k \in PromptKey
                                 /\ \A at \in {"publish", "rebuild"} :
                                      Goes(e, at) => ed' \in [Editor -> {Resting} \cup Edit]
           /\ \A c \in Owner, k \in PromptKey, at \in {"others", "on", "drop", "dropIdle", "rebuild"} :
                 Moves(e, at, c, k) => ed' \in [Editor -> {Resting} \cup Edit]
<1>1. ed \in [Editor -> {Resting} \cup Edit]
  BY PromptTypeIs
<1>2. [ed EXCEPT ![e] = Resting] \in [Editor -> {Resting} \cup Edit]
  BY <1>1
<1>3. ASSUME ed[e] # Resting
      PROVE  /\ ed[e] \in Edit /\ ed[e].c \in Owner /\ ed[e].k \in PromptKey
             /\ \A at \in {"publish", "rebuild"} : Goes(e, at) => ed' \in [Editor -> {Resting} \cup Edit]
  <2>1. ed[e] \in Edit
    BY <1>1, <1>3
  <2>2. ASSUME NEW at \in {"publish", "rebuild"}, Goes(e, at) PROVE ed' \in [Editor -> {Resting} \cup Edit]
    <3> DEFINE q == [ed[e] EXCEPT !.at = at]
    <3>1. ed' = [ed EXCEPT ![e] = q]
      BY <2>2 DEF Goes
    <3>2. q \in Edit
      BY <2>1 DEF Edit
    <3> HIDE DEF q
    <3>3. QED
      BY <1>1, <3>1, <3>2
  <2>3. QED
    BY <2>1, <2>2 DEF Edit
<1>4. ASSUME NEW c \in Owner, NEW k \in PromptKey, NEW at \in {"others", "on", "drop", "dropIdle", "rebuild"},
             Moves(e, at, c, k)
      PROVE  ed' \in [Editor -> {Resting} \cup Edit]
  <2> DEFINE q == [at |-> at, c |-> c, k |-> k]
  <2>1. ed' = [ed EXCEPT ![e] = q]
    BY <1>4 DEF Moves
  <2>2. q \in Edit
    BY DEF Edit
  <2> HIDE DEF q
  <2>3. QED
    BY <1>1, <2>1, <2>2
<1>5. QED
  BY <1>2, <1>3, <1>4

LEMMA TextStep ==
    ASSUME PromptType, NEW c \in Owner, NEW k \in PromptKey, NEW x \in 0..MaxText
    PROVE  [text EXCEPT ![c][k] = x] \in [Owner -> [PromptKey -> 0..MaxText]]
<1> DEFINE q == [text[c] EXCEPT ![k] = x]
<1>1. text \in [Owner -> [PromptKey -> 0..MaxText]]
  BY DEF PromptType
<1>2. q \in [PromptKey -> 0..MaxText]
  BY <1>1
<1>3. [text EXCEPT ![c][k] = x] = [text EXCEPT ![c] = q]
  OBVIOUS
<1> HIDE DEF q
<1>4. QED
  BY <1>1, <1>2, <1>3

LEMMA RequestTypes ==
    ASSUME PromptType, NEW e \in Editor, NEW c \in Owner, NEW k \in PromptKey,
           \/ \E on \in BOOLEAN : Upsert(e, c, k, on)
           \/ Activate(e, c, k) \/ Delete(e, c, k) \/ KeepVersion(c, k)
           \/ \E n \in 1..MaxKept : Rollback(e, c, k, n)
    PROVE  PromptType'
<1>0. /\ text \in [Owner -> [PromptKey -> 0..MaxText]] /\ active \in [Owner -> Actives]
      /\ kept \in [Owner -> [PromptKey -> Seq(1..MaxText)]] /\ texts \in 0..MaxText
      /\ ed \in [Editor -> {Resting} \cup Edit] /\ MaxText \in Nat \ {0}
  BY PromptTypeIs, PromptsAssumption
<1>1. ASSUME NEW on \in BOOLEAN, Upsert(e, c, k, on) PROVE PromptType'
  <2>1. texts' \in 0..MaxText
    BY <1>0, <1>1 DEF Upsert
  <2>2. text' \in [Owner -> [PromptKey -> 0..MaxText]]
    BY <1>1, <2>1, TextStep DEF Upsert
  <2>3. active' \in [Owner -> Actives]
    <3> DEFINE s == IF on THEN <<k>> \o Without(c, k) ELSE Without(c, k)
    <3>1. active' = [active EXCEPT ![c] = s]
      BY <1>1 DEF Upsert
    <3>2. s \in {<< >>, <<k>>, Without(c, k), <<k>> \o Without(c, k), active[c]}
      OBVIOUS
    <3> HIDE DEF s
    <3>3. QED
      BY <3>1, <3>2, ActiveStep
  <2>4. ed' \in [Editor -> {Resting} \cup Edit]
    BY <1>0, <1>1, EditStep DEF Upsert
  <2>5. QED
    BY <1>0, <1>1, <2>1, <2>2, <2>3, <2>4, PromptStep DEF Upsert
<1>2. CASE Activate(e, c, k)
  <2>1. active' \in [Owner -> Actives]
    BY <1>2, ActiveStep DEF Activate
  <2>2. ed' \in [Editor -> {Resting} \cup Edit]
    BY <1>2, EditStep DEF Activate
  <2>3. QED
    BY <1>0, <1>2, <2>1, <2>2, PromptStep DEF Activate
<1>3. CASE Delete(e, c, k)
  <2>1. ed' \in [Editor -> {Resting} \cup Edit]
    BY <1>3, EditStep DEF Delete
  <2>2. QED
    BY <1>0, <1>3, <2>1, PromptStep DEF Delete
<1>4. CASE KeepVersion(c, k)
  <2> DEFINE s == Append(kept[c][k], text[c][k])
             q == [kept[c] EXCEPT ![k] = s]
  <2>1. text[c][k] \in 1..MaxText
    BY <1>0, <1>4 DEF KeepVersion
  <2>2. kept[c] \in [PromptKey -> Seq(1..MaxText)] /\ kept[c][k] \in Seq(1..MaxText)
    BY <1>0
  <2>3. s \in Seq(1..MaxText)
    BY <2>1, <2>2, AppendProperties
  <2>4. kept' = [kept EXCEPT ![c] = q]
    BY <1>4 DEF KeepVersion
  <2> HIDE DEF s
  <2>5. q \in [PromptKey -> Seq(1..MaxText)]
    BY <2>2, <2>3
  <2> HIDE DEF q
  <2>6. kept' \in [Owner -> [PromptKey -> Seq(1..MaxText)]]
    BY <1>0, <2>4, <2>5
  <2>7. QED
    BY <1>0, <1>4, <2>6, PromptStep DEF KeepVersion
<1>5. ASSUME NEW n \in 1..MaxKept, Rollback(e, c, k, n) PROVE PromptType'
  <2>1. kept[c][k] \in Seq(1..MaxText) /\ n \in 1..Len(kept[c][k])
    BY <1>0, <1>5 DEF Rollback
  <2>2. kept[c][k][n] \in 0..MaxText
    <3>1. kept[c][k][n] \in 1..MaxText
      BY <2>1, ElementOfSeq
    <3>2. QED
      BY <1>0, <3>1
  <2>3. text' \in [Owner -> [PromptKey -> 0..MaxText]]
    BY <1>5, <2>2, TextStep DEF Rollback
  <2>4. active' \in [Owner -> Actives]
    <3> DEFINE s == IF Listed(c, k) THEN <<k>> \o Without(c, k) ELSE active[c]
    <3>1. active' = [active EXCEPT ![c] = s]
      BY <1>5 DEF Rollback
    <3>2. s \in {<< >>, <<k>>, Without(c, k), <<k>> \o Without(c, k), active[c]}
      OBVIOUS
    <3> HIDE DEF s
    <3>3. QED
      BY <3>1, <3>2, ActiveStep
  <2>5. ed' \in [Editor -> {Resting} \cup Edit]
    BY <1>5, EditStep DEF Rollback
  <2>6. QED
    BY <1>0, <1>5, <2>3, <2>4, <2>5, PromptStep DEF Rollback
<1>6. QED
  BY <1>1, <1>2, <1>3, <1>4, <1>5

LEMMA StatementTypes ==
    ASSUME PromptType, NEW e \in Editor, OthersOff(e) \/ RowGoes(e) \/ TurnOn(e)
    PROVE  PromptType'
<1>0. /\ text \in [Owner -> [PromptKey -> 0..MaxText]] /\ active \in [Owner -> Actives]
      /\ kept \in [Owner -> [PromptKey -> Seq(1..MaxText)]] /\ texts \in 0..MaxText
      /\ ed \in [Editor -> {Resting} \cup Edit] /\ MaxText \in Nat \ {0}
  BY PromptTypeIs, PromptsAssumption
<1>1. ed[e] # Resting /\ ed[e].c \in Owner /\ ed[e].k \in PromptKey
  BY EditStep DEF OthersOff, RowGoes, TurnOn, At
<1> DEFINE c == ed[e].c
           k == ed[e].k
<1>2. c \in Owner /\ k \in PromptKey
  BY <1>1
<1>3. CASE OthersOff(e)
  <2> DEFINE s == IF Listed(c, k) THEN <<k>> ELSE << >>
  <2>1. active' = [active EXCEPT ![c] = s]
    BY <1>3 DEF OthersOff
  <2>2. s \in {<< >>, <<k>>, Without(c, k), <<k>> \o Without(c, k), active[c]}
    OBVIOUS
  <2>3. ed' \in [Editor -> {Resting} \cup Edit]
    BY <1>1, <1>3, EditStep DEF OthersOff
  <2> HIDE DEF s, c, k
  <2>4. active' \in [Owner -> Actives]
    BY <1>2, <2>1, <2>2, ActiveStep
  <2>5. QED
    BY <1>0, <1>3, <2>3, <2>4, PromptStep DEF OthersOff
<1>4. CASE RowGoes(e)
  <2>1. active' = [active EXCEPT ![c] = Without(c, k)] /\ text' = [text EXCEPT ![c][k] = 0]
    BY <1>4 DEF RowGoes
  <2>2. ed' \in [Editor -> {Resting} \cup Edit]
    BY <1>1, <1>4, EditStep DEF RowGoes
  <2> HIDE DEF c, k
  <2>3. active' \in [Owner -> Actives]
    BY <1>2, <2>1, ActiveStep
  <2>4. text' \in [Owner -> [PromptKey -> 0..MaxText]]
    BY <1>0, <1>2, <2>1, TextStep
  <2>5. QED
    BY <1>0, <1>4, <2>2, <2>3, <2>4, PromptStep DEF RowGoes
<1>5. CASE TurnOn(e)
  <2>1. UNCHANGED active \/ active' = [active EXCEPT ![c] = <<k>> \o Without(c, k)]
    BY <1>5 DEF TurnOn
  <2>2. ed' \in [Editor -> {Resting} \cup Edit]
    BY <1>1, <1>5, EditStep DEF TurnOn
  <2> HIDE DEF c, k
  <2>3. active' \in [Owner -> Actives]
    <3>1. [active EXCEPT ![c] = <<k>> \o Without(c, k)] \in [Owner -> Actives]
      BY <1>2, ActiveStep
    <3>2. QED
      BY <1>0, <2>1, <3>1
  <2>4. QED
    BY <1>0, <1>5, <2>2, <2>3, PromptStep DEF TurnOn
<1>6. QED
  BY <1>3, <1>4, <1>5

\* The prompt an agent is built with.
LEMMA LoadActiveIs ==
    ASSUME PromptType, NEW c \in Owner
    PROVE  LoadActive(c) \in 0..MaxText
<1>1. ASSUME NEW d \in Owner, active[d] # << >> PROVE text[d][Head(active[d])] \in 0..MaxText
  <2>1. active[d] \in Seq(PromptKey)
    BY DEF PromptType
  <2>2. Head(active[d]) \in PromptKey
    BY <1>1, <2>1, HeadTailProperties
  <2>3. QED
    BY <2>2 DEF PromptType
<1>2. QED
  BY <1>1, PromptsAssumption DEF LoadActive

-----------------------------------------------------------------------------
(* Types.                                                                  *)

Cached ==
    /\ conf \in [Instance -> [Tenant -> Config \cup {Absent}]]
    /\ store \in [Instance -> [Chats -> Use \cup {Absent}]]
    /\ retr \in [Instance -> [Chats -> Use \cup {Absent}]]
    /\ agent \in [Instance -> [Chats -> Made \cup {Absent}]]
    /\ sig \in [Instance -> [Chats -> Versions]]
    /\ due \in [Instance -> [Chats -> BOOLEAN]]

Wired == pub \subseteq Message /\ inbox \in [Instance -> Seq(Message)]
Staffed == bd \in [Builder -> Call \cup {Free}]
Bounded == changes \in 0..MaxChanges /\ faults \in 0..MaxFaults
Noted == missed \in [Instance -> SUBSET Chats]

LEMMA TypeParts ==
    /\ TypeOK <=> (ConfigType /\ PromptType /\ Cached /\ Wired /\ Staffed /\ Bounded /\ Noted)
    /\ TypeOK' <=> (ConfigType' /\ PromptType' /\ Cached' /\ Wired' /\ Staffed' /\ Bounded' /\ Noted')
  BY DEF TypeOK, Cached, Wired, Staffed, Bounded, Noted

LEMMA TypesStay ==
    /\ Cached /\ UNCHANGED cacheVars => Cached'
    /\ Wired /\ UNCHANGED <<pub, inbox>> => Wired'
    /\ Staffed /\ UNCHANGED bd => Staffed'
    /\ Bounded /\ UNCHANGED <<changes, faults>> => Bounded'
    /\ Noted /\ UNCHANGED missed => Noted'
  BY DEF Cached, Wired, Staffed, Bounded, Noted, cacheVars

\* The operations' small steps.
LEMMA CountedTypes == ASSUME Bounded, changes' = changes \/ Counted, UNCHANGED faults PROVE Bounded'
  BY CacheAssumption DEF Counted, Bounded

LEMMA FaultTypes ==
    ASSUME Bounded, UNCHANGED changes, UNCHANGED faults \/ (faults < MaxFaults /\ faults' = faults + 1)
    PROVE  Bounded'
  BY CacheAssumption DEF Bounded

LEMMA MissesTypes ==
    ASSUME Noted, NEW M \in [Instance -> SUBSET Chats], Misses(M)
    PROVE  Noted'
  BY DEF Noted, Misses

LEMMA DropIs ==
    ASSUME NEW D, NEW A, NEW f \in [Instance -> [D -> A \cup {Absent}]], NEW i, NEW T
    PROVE  /\ Drop(f, i, T) \in [Instance -> [D -> A \cup {Absent}]]
           /\ \A j \in Instance : \A t \in D :
                 Drop(f, i, T)[j][t] = IF j = i /\ t \in T THEN Absent ELSE f[j][t]
<1>1. \A j \in Instance : f[j] \in [D -> A \cup {Absent}]
  OBVIOUS
<1>2. \A j \in Instance : DOMAIN f[j] = D
  BY <1>1
<1>3. Drop(f, i, T) = [j \in Instance |-> [t \in D |-> IF j = i /\ t \in T THEN Absent ELSE f[j][t]]]
  BY <1>2 DEF Drop
<1>4. \A j \in Instance : \A t \in D : (IF j = i /\ t \in T THEN Absent ELSE f[j][t]) \in A \cup {Absent}
  BY <1>1
<1>5. QED
  BY <1>3, <1>4

\* Each of the caches, forgotten in part.
LEMMA DropTypes ==
    ASSUME Cached, NEW i, NEW T
    PROVE  /\ Drop(conf, i, T) \in [Instance -> [Tenant -> Config \cup {Absent}]]
           /\ Drop(store, i, T) \in [Instance -> [Chats -> Use \cup {Absent}]]
           /\ Drop(retr, i, T) \in [Instance -> [Chats -> Use \cup {Absent}]]
           /\ Drop(agent, i, T) \in [Instance -> [Chats -> Made \cup {Absent}]]
           /\ Drop(sig, i, T) \in [Instance -> [Chats -> Versions]]
<1>1. Drop(conf, i, T) \in [Instance -> [Tenant -> Config \cup {Absent}]]
  BY DropIs DEF Cached
<1>2. Drop(store, i, T) \in [Instance -> [Chats -> Use \cup {Absent}]]
  BY DropIs DEF Cached
<1>3. Drop(retr, i, T) \in [Instance -> [Chats -> Use \cup {Absent}]]
  BY DropIs DEF Cached
<1>4. Drop(agent, i, T) \in [Instance -> [Chats -> Made \cup {Absent}]]
  BY DropIs DEF Cached
<1>5. Drop(sig, i, T) \in [Instance -> [Chats -> Versions]]
  BY DropIs DEF Cached, Versions
<1>6. QED
  BY <1>1, <1>2, <1>3, <1>4, <1>5

LEMMA SendsTypes ==
    ASSUME Wired, Bounded, NEW m \in Message, NEW L \in SUBSET Instance, Sends(m, L), UNCHANGED changes
    PROVE  inbox' \in [Instance -> Seq(Message)] /\ Bounded'
<1>1. \A s \in Seq(Message) : Append(s, m) \in Seq(Message)
  OBVIOUS
<1>2. inbox' \in [Instance -> Seq(Message)]
  BY <1>1 DEF Sends, Wired
<1>3. IsFiniteSet(L)
  BY CacheAssumption, FS_Subset
<1>4. Cardinality(L) \in Nat
  BY <1>3, FS_CardinalityType
<1>5. QED
  BY <1>2, <1>4, CacheAssumption DEF Sends, Bounded

LEMMA ReachesIs ==
    /\ \A m : Reaches(m) \in SUBSET Chats
    /\ \A c \in Owner : Affects(c) \in SUBSET Chats
    /\ \A c \in Owner : Popped(c) \in SUBSET Chats
  BY CacheAssumption DEF Reaches, Affects, Popped, Followers, Chats

LEMMA UntoldIs ==
    ASSUME PromptType, NEW e \in Editor, ed[e] # Resting
    PROVE  ed[e].c \in Owner /\ \A i : Untold(e, i) \in SUBSET Chats
  BY EditStep, ReachesIs DEF Untold

LEMMA OwnersAre ==
    /\ Chats \subseteq Owner /\ Chats \subseteq Tenant /\ AllTenants \notin Chats
    /\ \A c \in Owner : c # AllTenants => c \in Chats
    /\ Platform \in Tenant /\ Platform \notin Chats
  BY CacheAssumption, ModelAssumption DEF Chats

\* Records of a call of get_tenant_agent.
Answers == Config \cup {Absent}

LEMMA CallIs ==
    ASSUME NEW c \in Call
    PROVE  /\ c.at \in {"check", "vector", "prompt", "model"} /\ c.t \in Chats /\ c.rv \in Versions
           /\ c.own \in Answers /\ c.net \in {"none", "asked", "answered"} /\ c.got \in Answers
           /\ c.text \in 0..MaxText /\ c # Free
<1>1. c # Free
  <2>1. DOMAIN c = {"at", "t", "rv", "own", "net", "got", "text"} /\ DOMAIN Free = {"at"}
    BY DEF Call, Free
  <2>2. QED
    BY <2>1
<1>2. QED
  BY <1>1 DEF Call, Answers

LEMMA BegunIs ==
    ASSUME NEW t \in Chats, NEW at \in {"check", "vector", "prompt"}, NEW rv \in Versions
    PROVE  /\ Begun(t, at, rv) \in Call /\ Begun(t, at, rv).at = at
           /\ Begun(t, at, rv).t = t /\ Begun(t, at, rv).own = Absent /\ Begun(t, at, rv).got = Absent
  BY PromptsAssumption DEF Begun, Call

LEMMA CallSteps ==
    ASSUME NEW c \in Call
    PROVE  /\ \A n \in {"none", "asked", "answered"} : [c EXCEPT !.net = n] \in Call
           /\ \A g \in Answers : [c EXCEPT !.net = "answered", !.got = g] \in Call
           /\ \A o \in Answers : [c EXCEPT !.own = o, !.net = "asked", !.got = Absent] \in Call
           /\ \A x \in 0..MaxText : [c EXCEPT !.at = "model", !.text = x] \in Call
  BY DEF Call, Answers

LEMMA StandsTypes == ASSUME Staffed, NEW b \in Builder, NEW c \in Call \cup {Free}, Stands(b, c) PROVE Staffed'
  BY DEF Staffed, Stands

LEMMA BuilderIs ==
    ASSUME Staffed, NEW b \in Builder, bd[b] # Free
    PROVE  bd[b] \in Call /\ bd[b].t \in Chats /\ bd[b].t \in Tenant /\ Home[b] \in Instance
<1>1. bd[b] \in Call
  BY DEF Staffed
<1>2. QED
  BY <1>1, CallIs, OwnersAre, CacheAssumption

-----------------------------------------------------------------------------
(* Every step keeps the types.                                             *)

LEMMA InitTypes == Init => TypeOK
<1> SUFFICES ASSUME Init PROVE TypeOK
  OBVIOUS
<1>1. ConfigType
  <2>1. PICK k \in Key : cfg = [t \in Tenant |-> [s \in Slot |->
          IF t = Platform THEN [custom |-> TRUE, prov |-> 0, name |-> Model0, key |-> k]
          ELSE [custom |-> FALSE, prov |-> 0, name |-> Absent, key |-> Absent]]]
    BY DEF Init
  <2>2. /\ [custom |-> TRUE, prov |-> 0, name |-> Model0, key |-> k] \in Row
        /\ [custom |-> FALSE, prov |-> 0, name |-> Absent, key |-> Absent] \in Row
    BY CacheAssumption DEF Row
  <2>3. cfg \in [Tenant -> [Slot -> Row]]
    BY <2>1, <2>2
  <2>4. prov \in [Provider -> [live : BOOLEAN, on : BOOLEAN, model : Name]]
    BY CacheAssumption DEF Init
  <2>5. QED
    BY <2>3, <2>4 DEF ConfigType
<1>2. PromptType
  <2>1. PICK k \in PromptKey : PromptInit(k)
    BY DEF Init
  <2>2. 1 \in 0..MaxText /\ 0 \in 0..MaxText
    BY PromptsAssumption
  <2>3. \A c \in Owner : active[c] \in Actives
    BY <2>1, ActivesAre DEF PromptInit
  <2>4. \A S : << >> \in Seq(S)
    OBVIOUS
  <2>5. QED
    BY <2>1, <2>2, <2>3, <2>4, PromptTypeIs DEF PromptInit
<1>3. Cached
  BY DEF Init, Cached, Nothing, Versions
<1>4. Wired /\ Staffed /\ Noted
  BY DEF Init, Wired, Staffed, Noted
<1>5. Bounded
  BY CacheAssumption DEF Init, Bounded
<1>6. QED
  BY <1>1, <1>2, <1>3, <1>4, <1>5, TypeParts

LEMMA ChangeTypes ==
    ASSUME TypeOK, NEW m \in SUBSET Message, Change(m)
    PROVE  PromptType' /\ Cached' /\ Wired' /\ Staffed' /\ Bounded' /\ Noted'
<1>1. PromptType' /\ Cached' /\ Staffed'
  BY TypeParts, TypesStay, PromptStays DEF Change
<1>2. Wired'
  BY TypeParts DEF Change, Wired
<1>3. Bounded'
  BY TypeParts, CountedTypes DEF Change
<1>4. Noted'
  BY TypeParts DEF Change, Misses, Noted
<1>5. QED
  BY <1>1, <1>2, <1>3, <1>4

\* The word the gateway spreads of a change.
Word(t, S, f, byPlatform) ==
    [to |-> IF byPlatform /\ t = Platform THEN AllTenants ELSE t, scope |-> ScopeOf(Changed(t, S, f))]

LEMMA WordIs ==
    ASSUME NEW t \in Tenant, NEW S \in SUBSET Slot, NEW f, NEW p, UpdateModelConfig(t, S, f)
    PROVE  Word(t, S, f, p) \in Message /\ Word(t, S, f, p).scope # "prompt"
<1>1. Changed(t, S, f) \in SUBSET Slot /\ Changed(t, S, f) # {}
  BY DEF UpdateModelConfig, Changed
<1>2. ScopeOf(Changed(t, S, f)) \in Slot \cup {"all"}
  BY <1>1, ScopeIs
<1>3. QED
  BY <1>2 DEF Word, Message, Slot

LEMMA RequestIs ==
    ASSUME NEW r \in Request
    PROVE  r.of \in Tenant /\ r.slots \in SUBSET Slot /\ r.form \in Form
  BY CacheAssumption

LEMMA ManagersTypes == ASSUME TypeOK, Managers PROVE TypeOK'
<1>1. ASSUME NEW r \in Request, NEW p \in BOOLEAN, ConfigChanges(r.of, r.slots, r.form, p)
      PROVE  TypeOK'
  <2>1. r.of \in Tenant /\ r.slots \in SUBSET Slot /\ r.form \in Form
    BY RequestIs
  <2>2. UpdateModelConfig(r.of, r.slots, r.form)
    BY <1>1 DEF ConfigChanges
  <2>3. \E m \in SUBSET Message : Change(m)
    <3>1. {Word(r.of, r.slots, r.form, p)} \in SUBSET Message
      BY <2>1, <2>2, WordIs
    <3>2. QED
      BY <1>1, <3>1 DEF ConfigChanges, Word
  <2>4. ConfigType'
    BY <2>1, <2>2, UpdateTypes, TypeParts
  <2>5. QED
    BY <2>3, <2>4, ChangeTypes, TypeParts
<1>2. ASSUME NEW p \in Provider, ProviderChanges(p) PROVE TypeOK'
  <2>1. ConfigType'
    BY <1>2, ProviderTypes, TypeParts DEF ProviderChanges
  <2>2. {} \in SUBSET Message /\ Change({})
    BY <1>2 DEF ProviderChanges
  <2>3. QED
    BY <2>1, <2>2, ChangeTypes, TypeParts
<1>3. QED
  BY <1>1, <1>2 DEF Managers

LEMMA WritersTypes ==
    ASSUME TypeOK, Writers
    PROVE  TypeOK'
<1> USE DEF PromptsOnly
<1>0. ConfigType /\ PromptType /\ Cached /\ Wired /\ Staffed /\ Bounded /\ Noted
  BY TypeParts
<1>1. ASSUME NEW e \in Editor, NEW c \in Owner, NEW k \in PromptKey, NEW on \in BOOLEAN, Saves(e, c, k, on)
      PROVE  TypeOK'
  <2>1. PromptType'
    BY <1>0, <1>1, RequestTypes DEF Saves
  <2>2. ConfigType' /\ Cached' /\ Wired' /\ Staffed'
    BY <1>0, <1>1, ConfigStays, TypesStay DEF Saves
  <2>3. Bounded'
    BY <1>0, <1>1, CountedTypes DEF Saves
  <2>4. Noted'
    BY <1>0, <1>1, MissesTypes DEF Saves
  <2>5. QED
    BY <2>1, <2>2, <2>3, <2>4, TypeParts
<1>2. ASSUME NEW e \in Editor, NEW c \in Owner, NEW k \in PromptKey, Edits(e, c, k)
      PROVE  TypeOK'
  <2>1. PromptType'
    BY <1>0, <1>2, RequestTypes DEF Edits
  <2>2. ConfigType' /\ Cached' /\ Wired' /\ Staffed' /\ Noted'
    BY <1>0, <1>2, ConfigStays, TypesStay DEF Edits
  <2>3. Bounded'
    BY <1>0, <1>2, CountedTypes DEF Edits
  <2>4. QED
    BY <2>1, <2>2, <2>3, TypeParts
<1>3. ASSUME NEW e \in Editor, GoesOn(e) PROVE TypeOK'
  <2>1. PromptType'
    BY <1>0, <1>3, StatementTypes DEF GoesOn
  <2>2. ConfigType' /\ Cached' /\ Wired' /\ Staffed' /\ Bounded'
    BY <1>0, <1>3, ConfigStays, TypesStay DEF GoesOn
  <2>3. Noted'
    BY <1>0, <1>3, MissesTypes DEF GoesOn
  <2>4. QED
    BY <2>1, <2>2, <2>3, TypeParts
<1>4. ASSUME NEW e \in Editor, SwitchesOn(e) PROVE TypeOK'
  <2>1. PromptType'
    BY <1>0, <1>4, StatementTypes DEF SwitchesOn
  <2>2. ConfigType' /\ Cached' /\ Wired' /\ Staffed' /\ Bounded'
    BY <1>0, <1>4, ConfigStays, TypesStay DEF SwitchesOn
  <2>3. Affects(ed[e].c) \in SUBSET Chats
    BY <1>0, <1>4, UntoldIs, ReachesIs DEF SwitchesOn, TurnOn, At
  <2>4. Noted'
    <3> DEFINE M == [i \in Instance |-> IF text[ed[e].c][ed[e].k] = 0 THEN Affects(ed[e].c) ELSE {}]
    <3>1. Misses(M)
      BY <1>4 DEF SwitchesOn
    <3>2. M \in [Instance -> SUBSET Chats]
      BY <2>3
    <3> HIDE DEF M
    <3>3. QED
      BY <1>0, <3>1, <3>2, MissesTypes
  <2>5. QED
    BY <2>1, <2>2, <2>4, TypeParts
<1>5. ASSUME NEW e \in Editor, At(e, "publish") \/ At(e, "rebuild"), ed' = [ed EXCEPT ![e] = Resting],
             UNCHANGED <<prov, cfg, text, active, kept, texts, conf, store, retr, sig, due, pub, bd, changes>>,
             \/ UNCHANGED agent
             \/ \E T : agent' = Drop(agent, Home[e], T)
      PROVE  /\ ConfigType' /\ PromptType' /\ Cached' /\ Staffed'
             /\ ed[e].c \in Owner /\ \A i : Untold(e, i) \in SUBSET Chats
  <2>1. ConfigType' /\ Staffed'
    BY <1>0, <1>5, ConfigStays, TypesStay
  <2>2. PromptType'
    <3>1. ed' \in [Editor -> {Resting} \cup Edit]
      BY <1>0, <1>5, EditStep
    <3>2. QED
      BY <1>0, <1>5, <3>1, PromptTypeIs, PromptStep
  <2>3. agent' \in [Instance -> [Chats -> Made \cup {Absent}]]
    <3>1. agent \in [Instance -> [Chats -> Made \cup {Absent}]]
      BY <1>0 DEF Cached
    <3>2. QED
      BY <1>0, <1>5, <3>1, DropTypes
  <2>4. Cached'
    BY <1>0, <1>5, <2>3 DEF Cached
  <2>5. QED
    BY <1>0, <1>5, <2>1, <2>2, <2>4, UntoldIs DEF At
<1>6. ASSUME NEW e \in Editor, NEW L \in SUBSET Instance, PublishPrompt(e, L) PROVE TypeOK'
  <2>1. /\ ConfigType' /\ PromptType' /\ Cached' /\ Staffed'
        /\ ed[e].c \in Owner /\ \A i : Untold(e, i) \in SUBSET Chats
    BY <1>5, <1>6 DEF PublishPrompt
  <2> DEFINE m == [to |-> ed[e].c, scope |-> IF ed[e].c = AllTenants THEN "prompt" ELSE "all"]
  <2>2. m \in Message
    BY <2>1, OwnersAre DEF Message
  <2> HIDE DEF m
  <2>3. UNCHANGED <<pub, changes>>
    BY <1>6 DEF PublishPrompt
  <2>4. Wired' /\ Bounded'
    <3>1. Sends(m, L) \/ UNCHANGED <<inbox, faults>>
      BY <1>6 DEF PublishPrompt, m
    <3>2. CASE Sends(m, L)
      <4>1. inbox' \in [Instance -> Seq(Message)] /\ Bounded'
        BY <1>0, <2>2, <2>3, <3>2, SendsTypes
      <4>2. QED
        BY <1>0, <2>3, <4>1 DEF Wired
    <3>3. CASE UNCHANGED <<inbox, faults>>
      BY <1>0, <2>3, <3>3, TypesStay
    <3>4. QED
      BY <3>1, <3>2, <3>3
  <2>5. Noted'
    <3>1. \E M \in [Instance -> SUBSET Chats] : Misses(M)
      <4>1. [i \in Instance |-> IF i \in L THEN Untold(e, i) ELSE {}] \in [Instance -> SUBSET Chats]
        BY <2>1
      <4>2. [i \in Instance |-> Untold(e, i)] \in [Instance -> SUBSET Chats]
        BY <2>1
      <4>3. QED
        BY <1>6, <4>1, <4>2 DEF PublishPrompt
    <3>2. QED
      BY <1>0, <3>1, MissesTypes
  <2>6. QED
    BY <2>1, <2>4, <2>5, TypeParts
<1>7. ASSUME NEW e \in Editor, Rebuild(e) PROVE TypeOK'
  <2>1. /\ ConfigType' /\ PromptType' /\ Cached' /\ Staffed'
        /\ ed[e].c \in Owner /\ \A i : Untold(e, i) \in SUBSET Chats
    BY <1>5, <1>7 DEF Rebuild, budget
  <2>2. Wired' /\ Bounded'
    BY <1>0, <1>7, TypesStay DEF Rebuild, budget
  <2>3. Noted'
    <3> DEFINE M == [i \in Instance |-> IF ed[e].c = AllTenants THEN Chats ELSE Untold(e, i)]
    <3>1. Misses(M)
      BY <1>7 DEF Rebuild
    <3>2. M \in [Instance -> SUBSET Chats]
      BY <2>1
    <3> HIDE DEF M
    <3>3. QED
      BY <1>0, <3>1, <3>2, MissesTypes
  <2>4. QED
    BY <2>1, <2>2, <2>3, TypeParts
<1>8. QED
  BY <1>1, <1>2, <1>3, <1>4, <1>6, <1>7 DEF Writers

LEMMA MessagesTypes == ASSUME TypeOK, Messages PROVE TypeOK'
<1>0. ConfigType /\ PromptType /\ Cached /\ Wired /\ Staffed /\ Bounded /\ Noted
  BY TypeParts
<1>1. ASSUME NEW m \in pub, NEW L \in SUBSET Instance, Publish(m, L) PROVE TypeOK'
  <2>1. m \in Message /\ pub' \subseteq Message
    BY <1>0, <1>1 DEF Publish, Wired
  <2>2. inbox' \in [Instance -> Seq(Message)] /\ Bounded'
    BY <1>0, <1>1, <2>1, SendsTypes DEF Publish
  <2>3. Noted'
    <3> DEFINE M == [i \in Instance |-> IF i \in L THEN Reaches(m) ELSE {}]
    <3>1. M \in [Instance -> SUBSET Chats] /\ Misses(M)
      BY <1>1, ReachesIs DEF Publish
    <3> HIDE DEF M
    <3>2. QED
      BY <1>0, <3>1, MissesTypes
  <2>4. ConfigType' /\ PromptType' /\ Cached' /\ Staffed'
    BY <1>0, <1>1, ConfigStays, PromptStays, TypesStay DEF Publish
  <2>5. QED
    BY <2>1, <2>2, <2>3, <2>4, TypeParts DEF Wired
<1>2. ASSUME NEW i \in Instance, Consume(i) PROVE TypeOK'
  <2>1. Wired'
    <3> DEFINE s == Tail(inbox[i])
    <3>1. inbox[i] \in Seq(Message) /\ inbox[i] # << >>
      BY <1>0, <1>2 DEF Consume, Wired
    <3>2. s \in Seq(Message)
      BY <3>1, HeadTailProperties
    <3>3. inbox' = [inbox EXCEPT ![i] = s] /\ UNCHANGED pub
      BY <1>2 DEF Consume
    <3> HIDE DEF s
    <3>4. QED
      BY <1>0, <3>2, <3>3 DEF Wired
  <2>2. Cached'
    <3>1. /\ UNCHANGED conf \/ \E T : conf' = Drop(conf, i, T)
          /\ UNCHANGED retr \/ \E T : retr' = Drop(retr, i, T)
          /\ \E T : agent' = Drop(agent, i, T)
      BY <1>2 DEF Consume, ClearTenantCaches
    <3>2. /\ conf' \in [Instance -> [Tenant -> Config \cup {Absent}]]
          /\ retr' \in [Instance -> [Chats -> Use \cup {Absent}]]
          /\ agent' \in [Instance -> [Chats -> Made \cup {Absent}]]
      <4>1. /\ conf \in [Instance -> [Tenant -> Config \cup {Absent}]]
            /\ retr \in [Instance -> [Chats -> Use \cup {Absent}]]
        BY <1>0 DEF Cached
      <4>2. QED
        BY <1>0, <3>1, <4>1, DropTypes
    <3>3. QED
      BY <1>0, <1>2, <3>2 DEF Consume, Cached
  <2>3. Noted'
    <3>1. Reaches(Head(inbox[i])) \in SUBSET Chats
      BY ReachesIs
    <3> DEFINE M == {missed[i] \cup {t \in Reaches(Head(inbox[i])) : Building(i, t)}, Chats, {}}
    <3>2. M \subseteq SUBSET Chats
      BY <1>0, <3>1 DEF Noted
    <3>3. \E x \in M : missed' = [missed EXCEPT ![i] = x]
      BY <1>2 DEF Consume
    <3> HIDE DEF M
    <3>4. QED
      BY <1>0, <3>2, <3>3 DEF Noted
  <2>4. ConfigType' /\ PromptType' /\ Staffed' /\ Bounded'
    BY <1>0, <1>2, ConfigStays, PromptStays, TypesStay DEF Consume, budget
  <2>5. QED
    BY <2>1, <2>2, <2>3, <2>4, TypeParts
<1>3. QED
  BY <1>1, <1>2 DEF Messages

LEMMA ClockTypes == ASSUME TypeOK, Clock PROVE TypeOK'
<1>0. ConfigType /\ PromptType /\ Cached /\ Wired /\ Staffed /\ Bounded /\ Noted
  BY TypeParts
<1>1. ASSUME NEW i \in Instance, NEW t \in Tenant, Expire(i, t) PROVE TypeOK'
  <2>1. conf' \in [Instance -> [Tenant -> Config \cup {Absent}]]
    BY <1>0, <1>1, DropTypes DEF Expire
  <2>2. Cached'
    BY <1>0, <1>1, <2>1 DEF Expire, Cached
  <2>3. QED
    BY <1>0, <1>1, <2>2, ConfigStays, PromptStays, TypesStay, TypeParts DEF Expire, budget
<1>2. ASSUME NEW i \in Instance, NEW t \in Chats, Tick(i, t) PROVE TypeOK'
  <2>1. Cached'
    BY <1>0, <1>2 DEF Tick, Cached
  <2>2. QED
    BY <1>0, <1>2, <2>1, ConfigStays, PromptStays, TypesStay, TypeParts DEF Tick, budget
<1>3. ASSUME NEW i \in Instance, NEW t \in Chats, KbChanges(i, t) PROVE TypeOK'
  <2>1. retr' \in [Instance -> [Chats -> Use \cup {Absent}]]
    BY <1>0, <1>3, DropTypes DEF KbChanges
  <2>2. Cached'
    BY <1>0, <1>3, <2>1 DEF KbChanges, Cached
  <2>3. Bounded'
    BY <1>0, <1>3, CountedTypes DEF KbChanges
  <2>4. QED
    BY <1>0, <1>3, <2>2, <2>3, ConfigStays, PromptStays, TypesStay, TypeParts DEF KbChanges
<1>4. ASSUME NEW i \in Instance, Restart(i) PROVE TypeOK'
  <2>1. Cached'
    <3>1. /\ conf' \in [Instance -> [Tenant -> Config \cup {Absent}]]
          /\ store' \in [Instance -> [Chats -> Use \cup {Absent}]]
          /\ retr' \in [Instance -> [Chats -> Use \cup {Absent}]]
          /\ agent' \in [Instance -> [Chats -> Made \cup {Absent}]]
          /\ sig' \in [Instance -> [Chats -> Versions]]
      BY <1>0, <1>4, DropTypes DEF Restart
    <3>2. due' \in [Instance -> [Chats -> BOOLEAN]]
      BY <1>0, <1>4 DEF Restart, Cached
    <3>3. QED
      BY <3>1, <3>2 DEF Cached
  <2>2. Wired'
    BY <1>0, <1>4 DEF Restart, Wired
  <2>3. Staffed'
    BY <1>0, <1>4 DEF Restart, Staffed
  <2>4. PromptType'
    <3>1. ed' \in [Editor -> {Resting} \cup Edit]
      BY <1>0, <1>4, PromptTypeIs DEF Restart
    <3>2. QED
      BY <1>0, <1>4, <3>1, PromptTypeIs, PromptStep DEF Restart
  <2>5. Noted'
    <3> DEFINE U == UNION {Affects(ed[e].c) : e \in {x \in Editor : Home[x] = i /\ ed[x] # Resting}}
    <3>1. \A e \in Editor : ed[e] # Resting => Affects(ed[e].c) \in SUBSET Chats
      BY <1>0, UntoldIs, ReachesIs
    <3>2. U \in SUBSET Chats
      BY <3>1
    <3>3. missed' = [j \in Instance |-> IF j = i THEN {} ELSE missed[j] \cup U]
      BY <1>4 DEF Restart
    <3> HIDE DEF U
    <3>4. QED
      BY <1>0, <3>2, <3>3 DEF Noted
  <2>6. ConfigType' /\ Bounded'
    BY <1>0, <1>4, ConfigStays, FaultTypes DEF Restart
  <2>7. QED
    BY <2>1, <2>2, <2>3, <2>4, <2>5, <2>6, TypeParts
<1>5. QED
  BY <1>1, <1>2, <1>3, <1>4 DEF Clock

\* What is made of a configuration.
LEMMA StoreMadeTypes ==
    ASSUME Cached, Staffed, NEW b \in Builder, bd[b] # Free, NEW u \in Use, StoreMade(b, u)
    PROVE  /\ store' \in [Instance -> [Chats -> Use \cup {Absent}]]
           /\ retr' \in [Instance -> [Chats -> Use \cup {Absent}]]
           /\ UNCHANGED <<agent, sig>> /\ Staffed'
<1> DEFINE i == Home[b]
           t == bd[b].t
           p == [store[i] EXCEPT ![t] = u]
           q == [retr[i] EXCEPT ![t] = IF @ = Absent THEN u ELSE @]
<1>1. i \in Instance /\ t \in Chats /\ bd[b].rv \in Versions
  BY BuilderIs, CallIs
<1>2. store' = [store EXCEPT ![i] = p] /\ retr' = [retr EXCEPT ![i] = q] /\ UNCHANGED <<agent, sig>>
  BY DEF StoreMade
<1>3. p \in [Chats -> Use \cup {Absent}] /\ q \in [Chats -> Use \cup {Absent}]
  BY <1>1 DEF Cached
<1>4. Begun(t, "prompt", bd[b].rv) \in Call /\ Stands(b, Begun(t, "prompt", bd[b].rv))
  BY <1>1, BegunIs DEF StoreMade
<1> HIDE DEF p, q
<1>5. QED
  BY <1>1, <1>2, <1>3, <1>4, StandsTypes DEF Cached

LEMMA AgentMadeTypes ==
    ASSUME Cached, Staffed, NEW b \in Builder, bd[b] # Free, NEW u \in Use, AgentMade(b, u),
           conf' \in [Instance -> [Tenant -> Config \cup {Absent}]]
    PROVE  /\ agent' \in [Instance -> [Chats -> Made \cup {Absent}]]
           /\ sig' \in [Instance -> [Chats -> Versions]]
           /\ UNCHANGED <<store, retr>> /\ Staffed'
<1> DEFINE i == Home[b]
           t == bd[b].t
           v == IF bd[b].rv # Absent THEN bd[b].rv ELSE Version(conf'[i][t])
           m == [chat |-> u, prompt |-> bd[b].text]
           p == [agent[i] EXCEPT ![t] = m]
           q == [sig[i] EXCEPT ![t] = IF v = Absent THEN @ ELSE v]
<1>1. i \in Instance /\ t \in Chats /\ t \in Tenant /\ bd[b].rv \in Versions /\ bd[b].text \in 0..MaxText
  BY BuilderIs, CallIs
<1>2. v \in Versions
  <2>1. conf'[i][t] \in Config \cup {Absent}
    BY <1>1
  <2>2. QED
    BY <1>1, <2>1, VersionIs
<1>3. m \in Made
  BY <1>1 DEF Made
<1>4. agent' = [agent EXCEPT ![i] = p] /\ sig' = [sig EXCEPT ![i] = q] /\ UNCHANGED <<store, retr>>
  BY DEF AgentMade
<1> HIDE DEF v, m
<1>5. p \in [Chats -> Made \cup {Absent}] /\ q \in [Chats -> Versions]
  BY <1>1, <1>2, <1>3 DEF Cached
<1>6. Staffed'
  BY StandsTypes DEF AgentMade
<1> HIDE DEF p, q
<1>7. QED
  BY <1>1, <1>4, <1>5, <1>6 DEF Cached

LEMMA ProceedTypes ==
    ASSUME Cached, Staffed, NEW b \in Builder, bd[b] # Free, NEW own \in Config, Proceed(b, own),
           conf' \in [Instance -> [Tenant -> Config \cup {Absent}]]
    PROVE  /\ store' \in [Instance -> [Chats -> Use \cup {Absent}]]
           /\ retr' \in [Instance -> [Chats -> Use \cup {Absent}]]
           /\ agent' \in [Instance -> [Chats -> Made \cup {Absent}]]
           /\ sig' \in [Instance -> [Chats -> Versions]] /\ Staffed'
<1> DEFINE s == IF bd[b].at = "vector" THEN "embedding" ELSE "chat"
           source == IF own.custom[s] THEN own ELSE conf'[Home[b]][Platform]
<1>1. s \in Slot
  BY DEF Slot
<1>2. source \in Config \cup {Absent}
  BY BuilderIs, ModelAssumption
<1>3. /\ store \in [Instance -> [Chats -> Use \cup {Absent}]]
      /\ retr \in [Instance -> [Chats -> Use \cup {Absent}]]
      /\ agent \in [Instance -> [Chats -> Made \cup {Absent}]]
      /\ sig \in [Instance -> [Chats -> Versions]]
  BY DEF Cached
<1>4. IF source = Absent
        THEN /\ Stands(b, [bd[b] EXCEPT !.own = own, !.net = "asked", !.got = Absent])
             /\ UNCHANGED <<store, retr, agent, sig>>
      ELSE IF s = "embedding" THEN StoreMade(b, source.use[s])
      ELSE AgentMade(b, source.use[s])
  BY DEF Proceed
<1> HIDE DEF s, source
<1>5. CASE source = Absent
  <2>1. [bd[b] EXCEPT !.own = own, !.net = "asked", !.got = Absent] \in Call
    BY BuilderIs, CallSteps DEF Answers
  <2>2. QED
    BY <1>3, <1>4, <1>5, <2>1, StandsTypes
<1>6. CASE source # Absent
  <2>1. source.use[s] \in Use
    BY <1>1, <1>2, <1>6, ConfigHas
  <2> DEFINE u == source.use[s]
  <2>2. u \in Use /\ (StoreMade(b, u) \/ AgentMade(b, u))
    BY <1>4, <1>6, <2>1
  <2> HIDE DEF u
  <2>3. QED
    BY <1>3, <2>2, StoreMadeTypes, AgentMadeTypes
<1>7. QED
  BY <1>5, <1>6

LEMMA BuildersTypes ==
    ASSUME TypeOK, NEW b \in Builder, (\E t \in Chats : GetTenantAgent(b, t)) \/ Work(b)
    PROVE  TypeOK'
<1>0. ConfigType /\ PromptType /\ Cached /\ Wired /\ Staffed /\ Bounded /\ Noted
  BY TypeParts
<1>1. ASSUME NEW t \in Chats, GetTenantAgent(b, t) PROVE TypeOK'
  <2>1. Begun(t, "check", Absent) \in Call /\ Begun(t, "vector", Absent) \in Call
    BY BegunIs DEF Versions
  <2>2. Staffed'
    BY <1>0, <1>1, <2>1, StandsTypes DEF GetTenantAgent
  <2>3. due' \in [Instance -> [Chats -> BOOLEAN]]
    <3>1. due \in [Instance -> [Chats -> BOOLEAN]]
      BY <1>0 DEF Cached
    <3>2. [due EXCEPT ![Home[b]][t] = FALSE] \in [Instance -> [Chats -> BOOLEAN]]
      BY <3>1
    <3>3. due' = [due EXCEPT ![Home[b]][t] = FALSE] \/ due' = due
      BY <1>1 DEF GetTenantAgent
    <3>4. QED
      BY <3>1, <3>2, <3>3
  <2>4. Cached'
    BY <1>0, <1>1, <2>3 DEF GetTenantAgent, Cached
  <2>5. QED
    BY <1>0, <1>1, <2>2, <2>4, ConfigStays, PromptStays, TypesStay, TypeParts DEF GetTenantAgent, budget
<1>2. CASE Answer(b)
  <2>1. bd[b] \in Call /\ bd[b].t \in Tenant
    BY <1>0, <1>2, BuilderIs DEF Answer
  <2>2. AgentConfig(Asked(b)) \in Answers
    BY <1>0, <2>1, ConfigIs, ModelAssumption DEF Asked, Answers
  <2>3. \E c \in Call : Stands(b, c)
    BY <1>2, <2>1, <2>2, CallSteps DEF Answer
  <2>4. Staffed'
    BY <1>0, <2>3, StandsTypes
  <2>5. Bounded'
    BY <1>0, <1>2, FaultTypes DEF Answer
  <2>6. QED
    BY <1>0, <1>2, <2>4, <2>5, ConfigStays, PromptStays, TypesStay, TypeParts DEF Answer
<1>3. CASE Checked(b)
  <2>1. bd[b] \in Call /\ bd[b].t \in Chats /\ bd[b].got \in Config \cup {Absent}
    BY <1>0, <1>3, BuilderIs, CallIs DEF Checked, Answers
  <2>2. Begun(bd[b].t, "vector", Version(bd[b].got)) \in Call
    BY <2>1, VersionIs, BegunIs
  <2>3. \E c \in Call \cup {Free} : Stands(b, c)
    BY <1>3, <2>2 DEF Checked
  <2>4. Staffed'
    BY <1>0, <2>3, StandsTypes
  <2>5. Cached'
    <3>1. \E T : conf' = Drop(conf, Home[b], T) /\ agent' = Drop(agent, Home[b], T) /\ retr' = Drop(retr, Home[b], T)
      BY <1>3 DEF Checked
    <3>2. /\ conf' \in [Instance -> [Tenant -> Config \cup {Absent}]]
          /\ agent' \in [Instance -> [Chats -> Made \cup {Absent}]]
          /\ retr' \in [Instance -> [Chats -> Use \cup {Absent}]]
      BY <1>0, <3>1, DropTypes
    <3>3. QED
      BY <1>0, <1>3, <3>2 DEF Checked, Cached
  <2>6. QED
    BY <1>0, <1>3, <2>4, <2>5, ConfigStays, PromptStays, TypesStay, TypeParts DEF Checked, budget
<1>4. ASSUME bd[b] # Free, UNCHANGED <<prov, cfg, promptVars, due, pub, inbox, budget, missed>>,
             conf' \in [Instance -> [Tenant -> Config \cup {Absent}]],
             \/ \E own \in Config : Proceed(b, own)
             \/ \E u \in Use : StoreMade(b, u)
             \/ /\ \E c \in Call \cup {Free} : Stands(b, c)
                /\ UNCHANGED <<store, retr, agent, sig>>
      PROVE  TypeOK'
  <2>1. /\ store \in [Instance -> [Chats -> Use \cup {Absent}]]
        /\ retr \in [Instance -> [Chats -> Use \cup {Absent}]]
        /\ agent \in [Instance -> [Chats -> Made \cup {Absent}]]
        /\ sig \in [Instance -> [Chats -> Versions]]
    BY <1>0 DEF Cached
  <2>2. /\ store' \in [Instance -> [Chats -> Use \cup {Absent}]]
        /\ retr' \in [Instance -> [Chats -> Use \cup {Absent}]]
        /\ agent' \in [Instance -> [Chats -> Made \cup {Absent}]]
        /\ sig' \in [Instance -> [Chats -> Versions]] /\ Staffed'
    <3>1. CASE \E own \in Config : Proceed(b, own)
      BY <1>0, <1>4, <3>1, ProceedTypes
    <3>2. CASE \E u \in Use : StoreMade(b, u)
      BY <1>0, <1>4, <2>1, <3>2, StoreMadeTypes
    <3>3. CASE (\E c \in Call \cup {Free} : Stands(b, c)) /\ UNCHANGED <<store, retr, agent, sig>>
      BY <1>0, <2>1, <3>3, StandsTypes
    <3>4. QED
      BY <1>4, <3>1, <3>2, <3>3
  <2>3. Cached'
    BY <1>0, <1>4, <2>2 DEF Cached
  <2>4. QED
    BY <1>0, <1>4, <2>2, <2>3, ConfigStays, PromptStays, TypesStay, TypeParts DEF budget
<1>5. CASE Needs(b)
  <2>1. bd[b] # Free /\ bd[b] \in Call /\ Home[b] \in Instance /\ bd[b].t \in Chats /\ bd[b].t \in Tenant
    BY <1>0, <1>5, BuilderIs DEF Needs
  <2>2. /\ conf[Home[b]][bd[b].t] \in Config \cup {Absent}
        /\ store[Home[b]][bd[b].t] \in Use \cup {Absent}
    BY <1>0, <2>1 DEF Cached
  <2>3. [bd[b] EXCEPT !.net = "asked"] \in Call
    BY <2>1, CallSteps
  <2>4. \/ \E own \in Config : Proceed(b, own)
        \/ \E u \in Use : StoreMade(b, u)
        \/ /\ \E c \in Call \cup {Free} : Stands(b, c)
           /\ UNCHANGED <<store, retr, agent, sig>>
    BY <1>5, <2>2, <2>3 DEF Needs
  <2>5. conf' \in [Instance -> [Tenant -> Config \cup {Absent}]]
    BY <1>0, <1>5 DEF Needs, Cached
  <2>6. UNCHANGED <<prov, cfg, promptVars, due, pub, inbox, budget, missed>>
    BY <1>5 DEF Needs
  <2>7. QED
    BY <1>4, <2>1, <2>4, <2>5, <2>6
<1>6. CASE Arrives(b)
  <2>1. bd[b] # Free /\ bd[b] \in Call /\ Home[b] \in Instance /\ bd[b].t \in Chats /\ bd[b].t \in Tenant
    BY <1>0, <1>6, BuilderIs DEF Arrives
  <2>2. /\ bd[b].got \in Config \cup {Absent} /\ bd[b].own \in Config \cup {Absent} /\ bd[b].rv \in Versions
        /\ store[Home[b]][bd[b].t] \in Use \cup {Absent}
    BY <1>0, <2>1, CallIs DEF Cached, Answers
  <2>3. Begun(bd[b].t, "prompt", bd[b].rv) \in Call
    BY <2>1, <2>2, BegunIs
  <2>4. \/ \E own \in Config : Proceed(b, own)
        \/ \E u \in Use : StoreMade(b, u)
        \/ /\ \E c \in Call \cup {Free} : Stands(b, c)
           /\ UNCHANGED <<store, retr, agent, sig>>
    BY <1>6, <2>2, <2>3 DEF Arrives
  <2>5. conf' \in [Instance -> [Tenant -> Config \cup {Absent}]]
    <3>1. conf \in [Instance -> [Tenant -> Config \cup {Absent}]]
      BY <1>0 DEF Cached
    <3>2. Asked(b) \in Tenant
      BY <2>1, ModelAssumption DEF Asked
    <3>3. CASE bd[b].got = Absent
      BY <1>6, <3>1, <3>3 DEF Arrives
    <3>4. CASE bd[b].got # Absent
      <4> DEFINE q == [conf[Home[b]] EXCEPT ![Asked(b)] = bd[b].got]
      <4>1. conf' = [conf EXCEPT ![Home[b]] = q]
        BY <1>6, <3>4 DEF Arrives
      <4>2. q \in [Tenant -> Config \cup {Absent}]
        BY <2>1, <2>2, <3>1, <3>2
      <4> HIDE DEF q
      <4>3. QED
        BY <2>1, <3>1, <4>1, <4>2
    <3>5. QED
      BY <3>3, <3>4
  <2>6. UNCHANGED <<prov, cfg, promptVars, due, pub, inbox, budget, missed>>
    BY <1>6 DEF Arrives
  <2>7. QED
    BY <1>4, <2>1, <2>4, <2>5, <2>6
<1>7. CASE ReadPrompt(b)
  <2>1. bd[b] # Free /\ bd[b] \in Call /\ bd[b].t \in Chats
    BY <1>0, <1>7, BuilderIs DEF ReadPrompt
  <2>2. LoadActive(bd[b].t) \in 0..MaxText
    BY <1>0, <2>1, OwnersAre, LoadActiveIs
  <2>3. \E c \in Call : Stands(b, c)
    BY <1>7, <2>1, <2>2, CallSteps DEF ReadPrompt
  <2>4. Staffed'
    BY <1>0, <2>3, StandsTypes
  <2>5. QED
    BY <1>0, <1>7, <2>4, ConfigStays, PromptStays, TypesStay, TypeParts DEF ReadPrompt, budget
<1>8. QED
  BY <1>1, <1>2, <1>3, <1>5, <1>6, <1>7 DEF Work

LEMMA StepTypes == TypeOK /\ [Next]_vars => TypeOK'
<1> SUFFICES ASSUME TypeOK, [Next]_vars PROVE TypeOK'
  OBVIOUS
<1>1. CASE UNCHANGED vars
  BY <1>1, ConfigStays, PromptStays, TypesStay, TypeParts DEF vars, budget
<1>2. CASE Next
  BY <1>2, ManagersTypes, WritersTypes, MessagesTypes, ClockTypes, BuildersTypes DEF Next
<1>3. QED
  BY <1>1, <1>2

\* What the processes keep is always of the kinds that the code reads from it: the
\* answers of the gateway, embeddings, agents with a model and a prompt that was
\* written, messages to a tenant or to all.
THEOREM AgentCacheTypes == Spec => []TypeOK
  BY InitTypes, StepTypes, PTL DEF Spec

-----------------------------------------------------------------------------
(* Agents are fresh.                                                       *)
(*                                                                         *)
(* FreshAtRest speaks of moments when nothing is under way, so the         *)
(* invariant has to say what is right of a process while words are still   *)
(* on their way: whatever it was not told of, and is not being told of, it *)
(* has right, in what it keeps as in what its builders hold.               *)

Heard(i) == ToSet(inbox[i])
Sent(i) == pub \cup Heard(i)
Told(i, t) == \E m \in Sent(i) : m.scope # "prompt" /\ t \in Reaches(m)
ToldAll(i) == \E m \in Sent(i) : m.scope # "prompt" /\ m.to = AllTenants

\* Process i has missed nothing about t, about the platform's models.
Aware(i, t) == t \notin missed[i] /\ ~Told(i, t)
AwareOfAll(i) == missed[i] # Chats /\ ~ToldAll(i)

\* Words about the platform's prompt come from no gateway, and go to everybody.
Scoped ==
    /\ \A m \in pub : m.scope # "prompt"
    /\ \A i \in Instance : \A m \in Heard(i) : m.scope = "prompt" => m.to = AllTenants

\* A builder that has yet to ask has no answer, nor one that is to read the prompt.
Unasked == \A b \in Builder : bd[b] # Free =>
    /\ bd[b].net = "none" => bd[b].got = Absent
    /\ bd[b].at = "prompt" => bd[b].net = "none"

Asks(c) == IF c.at # "check" /\ c.own # Absent THEN Platform ELSE c.t
Fits(x, t) == x = Absent \/ x = AgentConfig(t)

PlatformFits(c) == Asks(c) = Platform => Fits(c.got, Platform)
PlatformRight(i) ==
    AwareOfAll(i) =>
        /\ Fits(conf[i][Platform], Platform)
        /\ \A b \in Builder : Home[b] = i /\ bd[b] # Free => PlatformFits(bd[b])

CallFits(c, t) == Fits(c.own, t) /\ (Asks(c) = t => Fits(c.got, t))
ModelRight(i, t) ==
    Aware(i, t) =>
        /\ Fits(conf[i][t], t)
        /\ agent[i][t] # Absent => agent[i][t].chat = Current(t, "chat")
        /\ \A b \in Builder : Home[b] = i /\ bd[b] # Free /\ bd[b].t = t => CallFits(bd[b], t)

\* A prompt request for c that will end with a word, or with an agent built anew.
EditDue(c) == \E e \in Editor : ed[e] # Resting /\ ed[e].at # "dropIdle" /\ ed[e].c = c
PromptDue(i, t) ==
    \/ EditDue(t)
    \/ t \in Followers /\ (EditDue(AllTenants) \/ \E m \in Heard(i) : m.scope = "prompt")

PromptRight(i, t) ==
    Aware(i, t) /\ ~PromptDue(i, t) =>
        /\ agent[i][t] # Absent => agent[i][t].prompt = LoadActive(t)
        /\ \A b \in Builder : Home[b] = i /\ bd[b] # Free /\ bd[b].t = t /\ bd[b].at = "model" =>
              bd[b].text = LoadActive(t)

Right ==
    /\ Scoped /\ Unasked
    /\ \A i \in Instance : PlatformRight(i)
    /\ \A i \in Instance : \A t \in Chats : ModelRight(i, t) /\ PromptRight(i, t)

-----------------------------------------------------------------------------
(* Words.                                                                  *)

LEMMA ToSetIs ==
    /\ ToSet(<< >>) = {}
    /\ \A S : \A s \in Seq(S), m \in S : ToSet(Append(s, m)) = ToSet(s) \cup {m}
    /\ \A S : \A s \in Seq(S) : s # << >> => Head(s) \in S /\ ToSet(s) = ToSet(Tail(s)) \cup {Head(s)}
    /\ \A S : \A s \in Seq(S) : ToSet(s) \subseteq S
<1>1. ToSet(<< >>) = {}
  BY DEF ToSet
<1>2. ASSUME NEW S, NEW s \in Seq(S), NEW m \in S PROVE ToSet(Append(s, m)) = ToSet(s) \cup {m}
  <2>1. /\ Append(s, m) \in Seq(S) /\ Len(Append(s, m)) = Len(s) + 1 /\ Len(s) \in Nat
        /\ \A i \in 1..Len(s) : Append(s, m)[i] = s[i]
        /\ Append(s, m)[Len(s) + 1] = m
    BY AppendProperties
  <2>2. DOMAIN Append(s, m) = 1..(Len(s) + 1) /\ DOMAIN s = 1..Len(s)
    BY <2>1, LenProperties
  <2>3. 1..(Len(s) + 1) = (1..Len(s)) \cup {Len(s) + 1}
    BY <2>1
  <2>4. QED
    BY <2>1, <2>2, <2>3 DEF ToSet
<1>3. ASSUME NEW S, NEW s \in Seq(S), s # << >>
      PROVE  Head(s) \in S /\ ToSet(s) = ToSet(Tail(s)) \cup {Head(s)}
  <2>1. /\ Head(s) \in S /\ Head(s) = s[1] /\ Tail(s) \in Seq(S) /\ Len(Tail(s)) = Len(s) - 1
        /\ \A i \in 1..Len(Tail(s)) : Tail(s)[i] = s[i + 1]
        /\ Len(s) \in Nat /\ Len(s) # 0
    BY <1>3, HeadTailProperties, EmptySeq, LenProperties
  <2>2. DOMAIN s = 1..Len(s) /\ DOMAIN Tail(s) = 1..(Len(s) - 1)
    BY <2>1, LenProperties
  <2>3. ASSUME NEW i \in DOMAIN s PROVE s[i] \in ToSet(Tail(s)) \cup {Head(s)}
    <3>1. CASE i = 1
      BY <2>1, <3>1
    <3>2. CASE i # 1
      <4>1. i - 1 \in DOMAIN Tail(s) /\ Tail(s)[i - 1] = s[i]
        BY <2>1, <2>2, <3>2
      <4>2. QED
        BY <4>1 DEF ToSet
    <3>3. QED
      BY <3>1, <3>2
  <2>4. ASSUME NEW i \in DOMAIN Tail(s) PROVE Tail(s)[i] \in ToSet(s)
    <3>1. i + 1 \in DOMAIN s /\ Tail(s)[i] = s[i + 1]
      BY <2>1, <2>2
    <3>2. QED
      BY <3>1 DEF ToSet
  <2>5. Head(s) \in ToSet(s)
    <3>1. 1 \in DOMAIN s
      BY <2>1, <2>2
    <3>2. QED
      BY <2>1, <3>1 DEF ToSet
  <2>6. ToSet(s) \subseteq ToSet(Tail(s)) \cup {Head(s)}
    BY <2>3 DEF ToSet
  <2>7. ToSet(Tail(s)) \subseteq ToSet(s)
    BY <2>4 DEF ToSet
  <2>8. QED
    BY <2>1, <2>5, <2>6, <2>7
<1>4. ASSUME NEW S, NEW s \in Seq(S) PROVE ToSet(s) \subseteq S
  BY LenProperties, ElementOfSeq DEF ToSet
<1>5. QED
  BY <1>1, <1>2, <1>3, <1>4

LEMMA HeardIs == ASSUME Wired, NEW i \in Instance PROVE Heard(i) \subseteq Message
  BY ToSetIs DEF Wired, Heard

LEMMA SendsHeard ==
    ASSUME Wired, NEW m \in Message, NEW L \in SUBSET Instance, Sends(m, L), NEW i \in Instance
    PROVE  Heard(i)' = IF i \in L THEN Heard(i) ELSE Heard(i) \cup {m}
<1>1. inbox[i] \in Seq(Message)
  BY DEF Wired
<1>2. inbox'[i] = IF i \in L THEN inbox[i] ELSE Append(inbox[i], m)
  BY DEF Sends
<1>3. ToSet(Append(inbox[i], m)) = ToSet(inbox[i]) \cup {m}
  BY <1>1, ToSetIs
<1>4. QED
  BY <1>2, <1>3 DEF Heard

\* Who has missed nothing of t has missed nothing of the platform.
LEMMA AwareOfBoth == ASSUME Noted, NEW i \in Instance, NEW t \in Chats, Aware(i, t) PROVE AwareOfAll(i)
<1>1. missed[i] # Chats
  BY DEF Aware
<1>2. \A m : m.to = AllTenants => t \in Reaches(m)
  BY DEF Reaches
<1>3. ~ToldAll(i)
  BY <1>2 DEF Aware, Told, ToldAll
<1>4. QED
  BY <1>1, <1>3 DEF AwareOfAll

\* With more to be told, and more that was missed, nobody is better informed.
LEMMA AwareLess ==
    ASSUME Noted', NEW i \in Instance, Sent(i) \subseteq Sent(i)', missed[i] \subseteq missed'[i]
    PROVE  /\ \A t \in Chats : Aware(i, t)' => Aware(i, t)
           /\ AwareOfAll(i)' => AwareOfAll(i)
<1>1. ASSUME NEW t \in Chats, Aware(i, t)' PROVE Aware(i, t)
  BY <1>1 DEF Aware, Told, Reaches
<1>2. ASSUME AwareOfAll(i)' PROVE AwareOfAll(i)
  <2>1. missed'[i] \subseteq Chats
    BY DEF Noted
  <2>2. missed[i] # Chats
    BY <1>2, <2>1 DEF AwareOfAll
  <2>3. ~ToldAll(i)
    BY <1>2 DEF AwareOfAll, ToldAll
  <2>4. QED
    BY <2>2, <2>3 DEF AwareOfAll
<1>3. QED
  BY <1>1, <1>2

-----------------------------------------------------------------------------
(* Steps that only forget.                                                 *)

Forgets(i) ==
    /\ \A t \in Tenant : conf'[i][t] = conf[i][t] \/ conf'[i][t] = Absent
    /\ \A t \in Chats : agent'[i][t] = agent[i][t] \/ agent'[i][t] = Absent
    /\ \A b \in Builder : bd'[b] = bd[b] \/ bd'[b] = Free

LEMMA ForgetModel ==
    ASSUME UNCHANGED <<prov, cfg>>, NEW i \in Instance, NEW t \in Chats, Forgets(i),
           ModelRight(i, t), Aware(i, t)' => Aware(i, t)
    PROVE  ModelRight(i, t)'
<1>1. t \in Tenant /\ "chat" \in Slot
  BY OwnersAre DEF Slot
<1>2. AgentConfig(t)' = AgentConfig(t) /\ Current(t, "chat")' = Current(t, "chat")
  BY <1>1, ConfigKept
<1>3. SUFFICES ASSUME Aware(i, t)'
               PROVE  /\ Fits(conf[i][t], t)'
                      /\ agent'[i][t] # Absent => agent'[i][t].chat = Current(t, "chat")'
                      /\ \A b \in Builder : Home[b] = i /\ bd'[b] # Free /\ bd'[b].t = t => CallFits(bd[b], t)'
  BY DEF ModelRight
<1>4. /\ Fits(conf[i][t], t)
      /\ agent[i][t] # Absent => agent[i][t].chat = Current(t, "chat")
      /\ \A b \in Builder : Home[b] = i /\ bd[b] # Free /\ bd[b].t = t => CallFits(bd[b], t)
  BY <1>3 DEF ModelRight
<1>5. Fits(conf[i][t], t)'
  BY <1>1, <1>2, <1>4 DEF Forgets, Fits
<1>6. agent'[i][t] # Absent => agent'[i][t].chat = Current(t, "chat")'
  BY <1>2, <1>4 DEF Forgets
<1>7. ASSUME NEW b \in Builder, Home[b] = i, bd'[b] # Free, bd'[b].t = t PROVE CallFits(bd[b], t)'
  <2>1. bd'[b] = bd[b]
    BY <1>7 DEF Forgets
  <2>2. CallFits(bd[b], t)
    BY <1>4, <1>7, <2>1
  <2>3. QED
    BY <1>2, <2>1, <2>2 DEF CallFits, Fits, Asks
<1>8. QED
  BY <1>5, <1>6, <1>7

LEMMA ForgetPlatform ==
    ASSUME UNCHANGED <<prov, cfg>>, NEW i \in Instance, Forgets(i),
           PlatformRight(i), AwareOfAll(i)' => AwareOfAll(i)
    PROVE  PlatformRight(i)'
<1>1. Platform \in Tenant
  BY ModelAssumption
<1>2. AgentConfig(Platform)' = AgentConfig(Platform)
  BY <1>1, ConfigKept
<1>3. SUFFICES ASSUME AwareOfAll(i)'
               PROVE  /\ Fits(conf[i][Platform], Platform)'
                      /\ \A b \in Builder : Home[b] = i /\ bd'[b] # Free => PlatformFits(bd[b])'
  BY DEF PlatformRight
<1>4. /\ Fits(conf[i][Platform], Platform)
      /\ \A b \in Builder : Home[b] = i /\ bd[b] # Free => PlatformFits(bd[b])
  BY <1>3 DEF PlatformRight
<1>5. Fits(conf[i][Platform], Platform)'
  BY <1>1, <1>2, <1>4 DEF Forgets, Fits
<1>6. ASSUME NEW b \in Builder, Home[b] = i, bd'[b] # Free PROVE PlatformFits(bd[b])'
  <2>1. bd'[b] = bd[b]
    BY <1>6 DEF Forgets
  <2>2. PlatformFits(bd[b])
    BY <1>4, <1>6, <2>1
  <2>3. QED
    BY <1>2, <2>1, <2>2 DEF PlatformFits, Fits, Asks
<1>7. QED
  BY <1>5, <1>6

LEMMA ForgetPrompt ==
    ASSUME NEW i \in Instance, NEW t \in Chats, Forgets(i), PromptRight(i, t),
           Aware(i, t)' /\ ~PromptDue(i, t)' =>
              Aware(i, t) /\ ~PromptDue(i, t) /\ LoadActive(t)' = LoadActive(t)
    PROVE  PromptRight(i, t)'
<1>1. SUFFICES ASSUME Aware(i, t)', ~PromptDue(i, t)'
               PROVE  /\ agent'[i][t] # Absent => agent'[i][t].prompt = LoadActive(t)'
                      /\ \A b \in Builder : Home[b] = i /\ bd'[b] # Free /\ bd'[b].t = t /\ bd'[b].at = "model" =>
                            bd'[b].text = LoadActive(t)'
  BY DEF PromptRight
<1>2. /\ agent[i][t] # Absent => agent[i][t].prompt = LoadActive(t)
      /\ \A b \in Builder : Home[b] = i /\ bd[b] # Free /\ bd[b].t = t /\ bd[b].at = "model" =>
            bd[b].text = LoadActive(t)
      /\ LoadActive(t)' = LoadActive(t)
  BY <1>1 DEF PromptRight
<1>3. QED
  BY <1>2 DEF Forgets

\* A process that keeps nothing of t is right about it.
Blank(i, t) ==
    /\ conf[i][t] = Absent /\ agent[i][t] = Absent
    /\ \A b \in Builder : ~(Home[b] = i /\ bd[b] # Free /\ bd[b].t = t)

LEMMA BlankIsRight ==
    ASSUME NEW i, NEW t, Blank(i, t)'
    PROVE  ModelRight(i, t)' /\ PromptRight(i, t)'
<1>1. ModelRight(i, t)'
  BY DEF Blank, ModelRight, Fits
<1>2. PromptRight(i, t)'
  BY DEF Blank, PromptRight
<1>3. QED
  BY <1>1, <1>2

LEMMA RightIs ==
    ASSUME Scoped', Unasked', \A i \in Instance : PlatformRight(i)',
           \A i \in Instance : \A t \in Chats : ModelRight(i, t)' /\ PromptRight(i, t)'
    PROVE  Right'
  BY DEF Right

LEMMA UnaskedStays == ASSUME Unasked, \A b \in Builder : bd'[b] = bd[b] \/ bd'[b] = Free PROVE Unasked'
  BY DEF Unasked

-----------------------------------------------------------------------------
(* The gateway's changes.                                                  *)

\* A change of the platform's models is told to all, or to none of the tenants.
LEMMA ChangeRight ==
    ASSUME TypeOK, TypeOK', Right, NEW m \in SUBSET Message, Change(m),
           \A x \in m : x.scope # "prompt",
           AgentConfig(Platform)' # AgentConfig(Platform) =>
              (\E x \in m : x.to = AllTenants) \/ (\A x \in m : x.to = Platform)
    PROVE  Right'
<1>0. Noted /\ Noted' /\ ConfigType /\ ConfigType' /\ Scoped /\ Unasked
  BY TypeParts DEF Right
<1>1. /\ pub' = pub \cup m /\ inbox' = inbox
      /\ UNCHANGED <<conf, agent, bd, promptVars>>
  BY DEF Change, cacheVars
<1>2. ASSUME NEW i \in Instance, NEW t \in Chats, t \notin missed'[i]
      PROVE  /\ AgentConfig(Platform)' # AgentConfig(Platform) \/ AgentConfig(t)' # AgentConfig(t) =>
                   \E x \in m : x.to = t \/ x.to = AllTenants
  BY <1>2 DEF Change, Misses
<1>3. \A i \in Instance : missed[i] \subseteq missed'[i] /\ Sent(i) \subseteq Sent(i)'
  BY <1>1 DEF Change, Misses, Sent, Heard
<1>4. Scoped' /\ Unasked'
  BY <1>0, <1>1, UnaskedStays DEF Scoped, Heard
<1>5. ASSUME NEW i \in Instance PROVE PlatformRight(i)'
  <2>1. CASE ~AwareOfAll(i)'
    BY <2>1 DEF PlatformRight
  <2>2. CASE AwareOfAll(i)'
    <3>1. AwareOfAll(i)
      BY <1>0, <1>3, <2>2, AwareLess
    <3>2. AgentConfig(Platform)' = AgentConfig(Platform)
      <4> SUFFICES ASSUME AgentConfig(Platform)' # AgentConfig(Platform) PROVE FALSE
        OBVIOUS
      <4>1. ~ \E x \in m : x.to = AllTenants
        BY <1>1, <2>2 DEF AwareOfAll, ToldAll, Sent
      <4>2. \A x \in m : x.to = Platform
        BY <4>1
      <4>3. missed'[i] # Chats /\ missed'[i] \subseteq Chats
        BY <1>0, <2>2 DEF AwareOfAll, Noted
      <4>4. PICK t \in Chats : t \notin missed'[i]
        BY <4>3
      <4>5. \E x \in m : x.to = t
        BY <1>2, <4>1, <4>4
      <4>6. QED
        BY <4>2, <4>5, OwnersAre
    <3>3. QED
      BY <1>1, <3>1, <3>2 DEF Right, PlatformRight, PlatformFits, Fits, Asks
  <2>3. QED
    BY <2>1, <2>2
<1>6. ASSUME NEW i \in Instance, NEW t \in Chats PROVE ModelRight(i, t)'
  <2>1. CASE ~Aware(i, t)'
    BY <2>1 DEF ModelRight
  <2>2. CASE Aware(i, t)'
    <3>1. Aware(i, t)
      BY <1>0, <1>3, <2>2, AwareLess
    <3>2. AgentConfig(t)' = AgentConfig(t) /\ AgentConfig(Platform)' = AgentConfig(Platform)
      <4>1. ASSUME NEW x \in m, x.to = t \/ x.to = AllTenants PROVE FALSE
        <5>1. x \in Sent(i)' /\ x.scope # "prompt"
          BY <1>1 DEF Sent
        <5>2. t \in Reaches(x)
          BY <4>1, OwnersAre DEF Reaches
        <5>3. Told(i, t)'
          BY <5>1, <5>2 DEF Told, Reaches
        <5>4. QED
          BY <2>2, <5>3 DEF Aware
      <4>2. t \notin missed'[i]
        BY <2>2 DEF Aware
      <4>3. QED
        BY <1>2, <4>1, <4>2
    <3>3. Current(t, "chat")' = Current(t, "chat")
      <4> DEFINE V(a, p) == IF a = Absent THEN Absent ELSE IF a.custom["chat"] THEN a.use["chat"]
                            ELSE IF p = Absent THEN Absent ELSE p.use["chat"]
      <4>1. t \in Tenant /\ "chat" \in Slot
        BY OwnersAre DEF Slot
      <4>2. Current(t, "chat") = V(AgentConfig(t), AgentConfig(Platform))
        BY <1>0, <4>1, CurrentIs
      <4>3. Current(t, "chat")' = V(AgentConfig(t)', AgentConfig(Platform)')
        BY <1>0, <4>1, CurrentLater
      <4> HIDE DEF V
      <4>4. QED
        BY <3>2, <4>2, <4>3
    <3>4. /\ Fits(conf[i][t], t)
          /\ agent[i][t] # Absent => agent[i][t].chat = Current(t, "chat")
          /\ \A b \in Builder : Home[b] = i /\ bd[b] # Free /\ bd[b].t = t => CallFits(bd[b], t)
      BY <3>1 DEF Right, ModelRight
    <3>5. QED
      BY <1>1, <3>2, <3>3, <3>4 DEF ModelRight, CallFits, Fits, Asks
  <2>3. QED
    BY <2>1, <2>2
<1>7. ASSUME NEW i \in Instance, NEW t \in Chats PROVE PromptRight(i, t)'
  <2>1. Forgets(i) /\ PromptRight(i, t)
    BY <1>1 DEF Forgets, Right
  <2>2. Aware(i, t)' => Aware(i, t)
    BY <1>0, <1>3, AwareLess
  <2>3. PromptDue(i, t)' <=> PromptDue(i, t)
    BY <1>1 DEF PromptDue, EditDue, Followers, Heard, promptVars
  <2>4. LoadActive(t)' = LoadActive(t)
    BY <1>1 DEF LoadActive, promptVars
  <2>5. QED
    BY <2>1, <2>2, <2>3, <2>4, ForgetPrompt
<1>8. QED
  BY <1>4, <1>5, <1>6, <1>7, RightIs

LEMMA ManagersRight == ASSUME TypeOK, TypeOK', Right, Managers PROVE Right'
<1>0. ConfigType
  BY TypeParts
<1>1. ASSUME NEW r \in Request, NEW p \in BOOLEAN, ConfigChanges(r.of, r.slots, r.form, p)
      PROVE  Right'
  <2>1. r.of \in Tenant /\ r.slots \in SUBSET Slot /\ r.form \in Form
    BY RequestIs
  <2>2. UpdateModelConfig(r.of, r.slots, r.form)
    BY <1>1 DEF ConfigChanges
  <2> DEFINE w == Word(r.of, r.slots, r.form, p)
  <2>3. w \in Message /\ w.scope # "prompt" /\ w.to = IF p /\ r.of = Platform THEN AllTenants ELSE r.of
    BY <2>1, <2>2, WordIs DEF Word
  <2>4. AgentConfig(Platform)' # AgentConfig(Platform) => w.to = AllTenants \/ w.to = Platform
    <3>1. r.of # Platform => AgentConfig(Platform)' = AgentConfig(Platform)
      BY <1>0, <2>1, <2>2, PlatformKept
    <3>2. QED
      BY <2>3, <3>1
  <2>5. Change({w}) \/ Change({})
    BY <1>1 DEF ConfigChanges, Word
  <2> HIDE DEF w
  <2>6. CASE Change({w})
    BY <2>3, <2>4, <2>6, ChangeRight
  <2>7. CASE Change({})
    BY <2>7, ChangeRight
  <2>8. QED
    BY <2>5, <2>6, <2>7
<1>2. ASSUME NEW p \in Provider, ProviderChanges(p) PROVE Right'
  BY <1>2, ChangeRight DEF ProviderChanges
<1>3. QED
  BY <1>1, <1>2 DEF Managers

-----------------------------------------------------------------------------
(* The words on their way.                                                 *)

LEMMA PublishRight ==
    ASSUME TypeOK, TypeOK', Right, NEW m \in pub, NEW L \in SUBSET Instance, Publish(m, L)
    PROVE  Right'
<1>0. Noted /\ Noted' /\ Wired /\ ConfigType /\ Scoped /\ Unasked
  BY TypeParts DEF Right
<1>1. m \in Message /\ m.scope # "prompt"
  BY <1>0 DEF Wired, Scoped
<1>2. \A i \in Instance : Heard(i)' = IF i \in L THEN Heard(i) ELSE Heard(i) \cup {m}
  BY <1>0, <1>1, SendsHeard DEF Publish
<1>3. /\ pub' = pub \ {m} /\ UNCHANGED <<prov, cfg, text, active, ed, conf, agent, bd>>
      /\ \A i \in Instance : missed'[i] = missed[i] \cup IF i \in L THEN Reaches(m) ELSE {}
  BY DEF Publish, Misses, promptVars, cacheVars
<1>4. Scoped' /\ Unasked'
  BY <1>0, <1>1, <1>2, <1>3, UnaskedStays DEF Scoped
<1>5. ASSUME NEW i \in Instance
      PROVE  /\ \A t \in Chats : Aware(i, t)' => Aware(i, t)
             /\ AwareOfAll(i)' => AwareOfAll(i)
  <2>1. CASE i \notin L
    <3>1. Sent(i) \subseteq Sent(i)'
      BY <1>2, <1>3, <2>1 DEF Sent
    <3>2. QED
      BY <1>0, <1>3, <3>1, AwareLess
  <2>2. CASE i \in L
    <3>1. Sent(i) \subseteq Sent(i)' \cup {m} /\ missed'[i] = missed[i] \cup Reaches(m)
      BY <1>2, <1>3, <2>2 DEF Sent
    <3>2. ASSUME NEW t \in Chats, Aware(i, t)' PROVE Aware(i, t)
      <4>1. t \notin Reaches(m) /\ t \notin missed[i]
        BY <3>1, <3>2 DEF Aware
      <4>2. ~Told(i, t)
        BY <3>1, <3>2, <4>1 DEF Aware, Told, Reaches
      <4>3. QED
        BY <4>1, <4>2 DEF Aware
    <3>3. ASSUME AwareOfAll(i)' PROVE AwareOfAll(i)
      <4>1. m.to # AllTenants /\ missed[i] # Chats
        BY <1>0, <3>1, <3>3, ReachesIs DEF AwareOfAll, Reaches, Noted
      <4>2. ~ToldAll(i)
        BY <3>1, <3>3, <4>1 DEF AwareOfAll, ToldAll
      <4>3. QED
        BY <4>1, <4>2 DEF AwareOfAll
    <3>4. QED
      BY <3>2, <3>3
  <2>3. QED
    BY <2>1, <2>2
<1>6. \A i \in Instance : Forgets(i)
  BY <1>3 DEF Forgets
<1>7. \A i \in Instance : PlatformRight(i)'
  BY <1>3, <1>5, <1>6, ForgetPlatform DEF Right
<1>8. ASSUME NEW i \in Instance, NEW t \in Chats PROVE ModelRight(i, t)' /\ PromptRight(i, t)'
  <2>1. ModelRight(i, t)'
    BY <1>3, <1>5, <1>6, ForgetModel DEF Right
  <2>2. PromptDue(i, t)' <=> PromptDue(i, t)
    BY <1>1, <1>2, <1>3 DEF PromptDue, EditDue, Followers
  <2>3. LoadActive(t)' = LoadActive(t)
    BY <1>3 DEF LoadActive
  <2>4. PromptRight(i, t)'
    BY <1>5, <1>6, <2>2, <2>3, ForgetPrompt DEF Right
  <2>5. QED
    BY <2>1, <2>4
<1>9. QED
  BY <1>4, <1>7, <1>8, RightIs

\* A step of one process that nobody else notices.
LEMMA OthersRight ==
    ASSUME TypeOK, Right, UNCHANGED <<prov, cfg, text, active, ed, pub>>,
           NEW i \in Instance,
           \A j \in Instance \ {i} : /\ conf'[j] = conf[j] /\ agent'[j] = agent[j]
                                     /\ inbox'[j] = inbox[j] /\ missed'[j] = missed[j],
           \A b \in Builder : Home[b] # i => bd'[b] = bd[b]
    PROVE  \A j \in Instance \ {i} :
              PlatformRight(j)' /\ \A t \in Chats : ModelRight(j, t)' /\ PromptRight(j, t)'
<1> SUFFICES ASSUME NEW j \in Instance, j # i
             PROVE  PlatformRight(j)' /\ \A t \in Chats : ModelRight(j, t)' /\ PromptRight(j, t)'
  OBVIOUS
<1>1. Sent(j)' = Sent(j) /\ Heard(j)' = Heard(j)
  BY DEF Sent, Heard
<1>2. (AwareOfAll(j)' <=> AwareOfAll(j)) /\ \A t \in Chats : Aware(j, t)' <=> Aware(j, t)
  BY <1>1 DEF AwareOfAll, ToldAll, Aware, Told, Reaches
<1>3. \A b \in Builder : Home[b] = j => bd'[b] = bd[b]
  OBVIOUS
<1>4. /\ \A t \in Tenant : AgentConfig(t)' = AgentConfig(t)
      /\ \A t \in Tenant, s \in Slot : Current(t, s)' = Current(t, s)
  BY ConfigKept
<1>5. PlatformRight(j)'
  <2>1. PlatformRight(j) /\ AgentConfig(Platform)' = AgentConfig(Platform) /\ conf'[j] = conf[j]
    BY <1>4, ModelAssumption DEF Right
  <2>2. QED
    BY <1>2, <1>3, <2>1 DEF PlatformRight, PlatformFits, Fits, Asks
<1>6. ASSUME NEW t \in Chats PROVE ModelRight(j, t)'
  <2>1. /\ ModelRight(j, t) /\ AgentConfig(t)' = AgentConfig(t) /\ Current(t, "chat")' = Current(t, "chat")
        /\ conf'[j] = conf[j] /\ agent'[j] = agent[j]
    BY <1>4, OwnersAre DEF Right, Slot
  <2>2. QED
    BY <1>2, <1>3, <2>1 DEF ModelRight, CallFits, Fits, Asks
<1>7. ASSUME NEW t \in Chats PROVE PromptRight(j, t)'
  <2>1. PromptRight(j, t) /\ LoadActive(t)' = LoadActive(t) /\ agent'[j] = agent[j]
    BY DEF Right, LoadActive
  <2>2. PromptDue(j, t)' <=> PromptDue(j, t)
    BY <1>1 DEF PromptDue, EditDue, Followers
  <2>3. QED
    BY <1>2, <1>3, <2>1, <2>2 DEF PromptRight
<1>8. QED
  BY <1>5, <1>6, <1>7

\* What a process has after it has dropped some of what it had.
LEMMA Dropped ==
    ASSUME Cached, NEW i \in Instance, NEW T
    PROVE  /\ \A t \in Tenant : Drop(conf, i, T)[i][t] = IF t \in T THEN Absent ELSE conf[i][t]
           /\ \A t \in Chats : Drop(agent, i, T)[i][t] = IF t \in T THEN Absent ELSE agent[i][t]
           /\ \A j \in Instance \ {i} : Drop(conf, i, T)[j] = conf[j] /\ Drop(agent, i, T)[j] = agent[j]
<1>1. conf \in [Instance -> [Tenant -> Config \cup {Absent}]] /\ agent \in [Instance -> [Chats -> Made \cup {Absent}]]
  BY DEF Cached
<1>2. /\ \A j \in Instance : \A t \in Tenant : Drop(conf, i, T)[j][t] = IF j = i /\ t \in T THEN Absent ELSE conf[j][t]
      /\ \A j \in Instance : \A t \in Chats : Drop(agent, i, T)[j][t] = IF j = i /\ t \in T THEN Absent ELSE agent[j][t]
  <2>1. \A j \in Instance : \A t \in Tenant : Drop(conf, i, T)[j][t] = IF j = i /\ t \in T THEN Absent ELSE conf[j][t]
    <3>1. \A j \in Instance : DOMAIN conf[j] = Tenant
      BY <1>1
    <3>2. QED
      BY <3>1 DEF Drop
  <2>2. \A j \in Instance : \A t \in Chats : Drop(agent, i, T)[j][t] = IF j = i /\ t \in T THEN Absent ELSE agent[j][t]
    <3>1. \A j \in Instance : DOMAIN agent[j] = Chats
      BY <1>1
    <3>2. QED
      BY <3>1 DEF Drop
  <2>3. QED
    BY <2>1, <2>2
<1>3. ASSUME NEW j \in Instance, j # i PROVE Drop(conf, i, T)[j] = conf[j]
  <2>1. Drop(conf, i, T) \in [Instance -> [Tenant -> Config \cup {Absent}]]
    BY <1>1, DropIs
  <2>2. Drop(conf, i, T)[j] \in [Tenant -> Config \cup {Absent}] /\ conf[j] \in [Tenant -> Config \cup {Absent}]
    BY <1>1, <2>1
  <2>3. \A t \in Tenant : Drop(conf, i, T)[j][t] = conf[j][t]
    BY <1>2, <1>3
  <2>4. QED
    BY <2>2, <2>3
<1>4. ASSUME NEW j \in Instance, j # i PROVE Drop(agent, i, T)[j] = agent[j]
  <2>1. Drop(agent, i, T) \in [Instance -> [Chats -> Made \cup {Absent}]]
    BY <1>1, DropIs
  <2>2. Drop(agent, i, T)[j] \in [Chats -> Made \cup {Absent}] /\ agent[j] \in [Chats -> Made \cup {Absent}]
    BY <1>1, <2>1
  <2>3. \A t \in Chats : Drop(agent, i, T)[j][t] = agent[j][t]
    BY <1>2, <1>4
  <2>4. QED
    BY <2>2, <2>3
<1>5. QED
  BY <1>2, <1>3, <1>4

LEMMA ConsumeRight ==
    ASSUME TypeOK, TypeOK', Right, NEW i \in Instance, Consume(i)
    PROVE  Right'
<1>0. Noted /\ Noted' /\ Wired /\ Cached /\ Staffed /\ ConfigType /\ Scoped /\ Unasked
  BY TypeParts DEF Right
<1> DEFINE m == Head(inbox[i])
           late == {t \in Reaches(m) : Building(i, t)}
<1>1. m \in Message /\ Heard(i) = Heard(i)' \cup {m}
  <2>1. inbox[i] \in Seq(Message) /\ inbox[i] # << >> /\ inbox'[i] = Tail(inbox[i])
    BY <1>0 DEF Consume, Wired
  <2>2. m \in Message /\ ToSet(inbox[i]) = ToSet(Tail(inbox[i])) \cup {m}
    BY <2>1, ToSetIs
  <2>3. QED
    BY <2>1, <2>2 DEF Heard
<1>2. /\ UNCHANGED <<prov, cfg, text, active, ed, pub, bd>>
      /\ \A j \in Instance \ {i} : inbox'[j] = inbox[j] /\ missed'[j] = missed[j]
  BY <1>0 DEF Consume, promptVars, Wired, Noted
<1>3. IF m.scope = "prompt"
        THEN /\ agent' = Drop(agent, i, Followers) /\ conf' = conf
             /\ missed'[i] = missed[i] \cup late
        ELSE /\ ClearTenantCaches(i, m.to, m.scope)
             /\ missed'[i] = IF m.to # AllTenants THEN missed[i] \cup late
                             ELSE IF Busy(i) THEN Chats ELSE {}
  BY <1>0 DEF Consume, Noted
<1>4. m.scope # "prompt" =>
         \E T : /\ conf' = Drop(conf, i, T) /\ agent' = Drop(agent, i, T)
                /\ T = IF m.to = AllTenants THEN Tenant ELSE {m.to}
  BY <1>3 DEF ClearTenantCaches
<1>5. m \in Heard(i) /\ (m.scope = "prompt" => m.to = AllTenants)
  BY <1>0, <1>1 DEF Scoped
<1>6. \A t \in Chats : ~Building(i, t) => \A b \in Builder : ~(Home[b] = i /\ bd'[b] # Free /\ bd'[b].t = t)
  BY <1>2 DEF Building
<1>7. Sent(i) = Sent(i)' \cup {m}
  BY <1>1, <1>2 DEF Sent
<1> HIDE DEF m
<1>8. Forgets(i) /\ \A j \in Instance \ {i} : conf'[j] = conf[j] /\ agent'[j] = agent[j]
  <2>1. CASE m.scope = "prompt"
    BY <1>0, <1>2, <1>3, <2>1, Dropped DEF Forgets
  <2>2. CASE m.scope # "prompt"
    <3>1. PICK T : conf' = Drop(conf, i, T) /\ agent' = Drop(agent, i, T)
      BY <1>4, <2>2
    <3>2. QED
      BY <1>0, <1>2, <3>1, Dropped DEF Forgets
  <2>3. QED
    BY <2>1, <2>2
<1>9. \A j \in Instance \ {i} :
         PlatformRight(j)' /\ \A t \in Chats : ModelRight(j, t)' /\ PromptRight(j, t)'
  BY <1>2, <1>8, OthersRight
<1>10. Scoped' /\ Unasked'
  <2>1. ASSUME NEW j \in Instance PROVE Heard(j)' \subseteq Heard(j)
    BY <1>1, <1>2 DEF Heard
  <2>2. QED
    BY <1>0, <1>2, <2>1, UnaskedStays DEF Scoped
<1>11. CASE m.scope = "prompt"
  <2>1. missed[i] \subseteq missed'[i] /\ late \subseteq missed'[i] /\ Reaches(m) = Chats
    BY <1>3, <1>5, <1>11 DEF Reaches
  <2>2. \A t \in Chats : Aware(i, t)' => Aware(i, t)
    BY <1>7, <1>11, <2>1 DEF Aware, Told, Reaches
  <2>3. AwareOfAll(i)' => AwareOfAll(i)
    BY <1>0, <1>7, <1>11, <2>1 DEF AwareOfAll, ToldAll, Noted
  <2>4. PlatformRight(i)'
    BY <1>2, <1>8, <2>3, ForgetPlatform DEF Right
  <2>5. ASSUME NEW t \in Chats PROVE ModelRight(i, t)' /\ PromptRight(i, t)'
    <3>1. ModelRight(i, t)'
      BY <1>2, <1>8, <2>2, <2>5, ForgetModel DEF Right
    <3>2. CASE t \in missed'[i]
      BY <3>1, <3>2 DEF PromptRight, Aware
    <3>3. CASE t \notin missed'[i] /\ t \in Followers
      <4>1. agent'[i][t] = Absent
        BY <1>0, <1>3, <1>11, <3>3, Dropped
      <4>2. ~Building(i, t)
        BY <2>1, <3>3
      <4>3. \A b \in Builder : ~(Home[b] = i /\ bd'[b] # Free /\ bd'[b].t = t)
        BY <1>6, <4>2
      <4>4. QED
        BY <3>1, <4>1, <4>3 DEF PromptRight
    <3>4. CASE t \notin Followers
      <4>1. PromptDue(i, t)' <=> PromptDue(i, t)
        BY <1>2, <3>4 DEF PromptDue, EditDue, Followers
      <4>2. LoadActive(t)' = LoadActive(t)
        BY <1>2 DEF LoadActive
      <4>3. PromptRight(i, t)'
        BY <1>8, <2>2, <4>1, <4>2, ForgetPrompt DEF Right
      <4>4. QED
        BY <3>1, <4>3
    <3>5. QED
      BY <3>2, <3>3, <3>4
  <2>6. QED
    BY <1>9, <1>10, <2>4, <2>5, RightIs
<1>12. CASE m.scope # "prompt" /\ m.to # AllTenants
  <2>1. /\ conf' = Drop(conf, i, {m.to}) /\ agent' = Drop(agent, i, {m.to})
        /\ missed'[i] = missed[i] \cup late
    BY <1>3, <1>4, <1>12
  <2>2. AwareOfAll(i)' => AwareOfAll(i)
    BY <1>0, <1>7, <1>12, <2>1 DEF AwareOfAll, ToldAll, Noted
  <2>3. PlatformRight(i)'
    BY <1>2, <1>8, <2>2, ForgetPlatform DEF Right
  <2>4. ASSUME NEW t \in Chats PROVE ModelRight(i, t)' /\ PromptRight(i, t)'
    <3>1. CASE t \in missed'[i]
      BY <3>1 DEF ModelRight, PromptRight, Aware
    <3>2. CASE t \notin missed'[i] /\ t = m.to
      <4>1. conf'[i][t] = Absent /\ agent'[i][t] = Absent
        BY <1>0, <2>1, <3>2, Dropped, OwnersAre
      <4>2. t \in Reaches(m)
        BY <1>12, <3>2 DEF Reaches
      <4>3. ~Building(i, t)
        BY <2>1, <3>2, <4>2
      <4>4. Blank(i, t)'
        BY <1>6, <4>1, <4>3 DEF Blank
      <4>5. QED
        BY <4>4, BlankIsRight
    <3>3. CASE t # m.to
      <4>1. t \notin Reaches(m)
        BY <1>12, <3>3 DEF Reaches
      <4>2. Aware(i, t)' => Aware(i, t)
        BY <1>7, <2>1, <4>1 DEF Aware, Told, Reaches
      <4>3. ModelRight(i, t)'
        BY <1>2, <1>8, <4>2, ForgetModel DEF Right
      <4>4. (PromptDue(i, t)' <=> PromptDue(i, t)) /\ LoadActive(t)' = LoadActive(t)
        BY <1>1, <1>2, <1>12 DEF PromptDue, EditDue, Followers, LoadActive
      <4>5. PromptRight(i, t)'
        BY <1>8, <4>2, <4>4, ForgetPrompt DEF Right
      <4>6. QED
        BY <4>3, <4>5
    <3>4. QED
      BY <3>1, <3>2, <3>3
  <2>5. QED
    BY <1>9, <1>10, <2>3, <2>4, RightIs
<1>13. CASE m.scope # "prompt" /\ m.to = AllTenants
  <2>1. /\ conf' = Drop(conf, i, Tenant) /\ agent' = Drop(agent, i, Tenant)
        /\ missed'[i] = IF Busy(i) THEN Chats ELSE {}
    BY <1>3, <1>4, <1>13
  <2>2. CASE Busy(i)
    <3>1. PlatformRight(i)'
      BY <2>1, <2>2 DEF PlatformRight, AwareOfAll
    <3>2. \A t \in Chats : ModelRight(i, t)' /\ PromptRight(i, t)'
      BY <2>1, <2>2 DEF ModelRight, PromptRight, Aware
    <3>3. QED
      BY <1>9, <1>10, <3>1, <3>2, RightIs
  <2>3. CASE ~Busy(i)
    <3>1. \A t \in Chats : ~Building(i, t)
      BY <2>3 DEF Busy
    <3>2. \A t \in Tenant : conf'[i][t] = Absent
      BY <1>0, <2>1, Dropped
    <3>3. \A t \in Chats : agent'[i][t] = Absent
      BY <1>0, <2>1, Dropped, OwnersAre
    <3>4. \A b \in Builder : Home[b] = i => bd'[b] = Free
      BY <1>0, <1>2, <1>6, <3>1, BuilderIs
    <3>5. PlatformRight(i)'
      BY <3>2, <3>4, ModelAssumption DEF PlatformRight, Fits
    <3>6. \A t \in Chats : Blank(i, t)'
      BY <3>2, <3>3, <3>4, OwnersAre DEF Blank
    <3>7. \A t \in Chats : ModelRight(i, t)' /\ PromptRight(i, t)'
      BY <3>6, BlankIsRight
    <3>8. QED
      BY <1>9, <1>10, <3>5, <3>7, RightIs
  <2>4. QED
    BY <2>2, <2>3
<1>14. QED
  BY <1>11, <1>12, <1>13

LEMMA MessagesRight == ASSUME TypeOK, TypeOK', Right, Messages PROVE Right'
  BY PublishRight, ConsumeRight DEF Messages

-----------------------------------------------------------------------------
(* Time, and restarts.                                                     *)

LEMMA FadeRight ==
    ASSUME TypeOK, Right, UNCHANGED <<prov, cfg, text, active, ed, pub, inbox, bd, missed>>,
           agent' = agent, conf' = conf \/ \E i \in Instance : \E T : conf' = Drop(conf, i, T)
    PROVE  Right'
<1>0. Cached /\ Scoped /\ Unasked
  BY TypeParts DEF Right
<1>1. ASSUME NEW i \in Instance PROVE Forgets(i)
  <2>1. CASE conf' = conf
    BY <2>1 DEF Forgets
  <2>2. CASE \E j \in Instance : \E T : conf' = Drop(conf, j, T)
    <3>1. PICK j \in Instance : \E T : conf' = Drop(conf, j, T)
      BY <2>2
    <3>0. PICK T : conf' = Drop(conf, j, T)
      BY <3>1
    <3>2. \A t \in Tenant : Drop(conf, j, T)[j][t] = IF t \in T THEN Absent ELSE conf[j][t]
      BY <1>0, Dropped
    <3>3. j # i => conf'[i] = conf[i]
      BY <1>0, <3>0, Dropped
    <3>4. QED
      BY <3>0, <3>2, <3>3 DEF Forgets
  <2>3. QED
    BY <2>1, <2>2
<1>2. \A i \in Instance : Sent(i)' = Sent(i) /\ Heard(i)' = Heard(i)
  BY DEF Sent, Heard
<1>3. /\ \A i \in Instance : AwareOfAll(i)' <=> AwareOfAll(i)
      /\ \A i \in Instance : \A t \in Chats : Aware(i, t)' <=> Aware(i, t)
  BY <1>2 DEF AwareOfAll, ToldAll, Aware, Told, Reaches
<1>4. Scoped' /\ Unasked'
  BY <1>0, <1>2, UnaskedStays DEF Scoped
<1>5. \A i \in Instance : PlatformRight(i)'
  BY <1>1, <1>3, ForgetPlatform DEF Right
<1>6. ASSUME NEW i \in Instance, NEW t \in Chats PROVE ModelRight(i, t)' /\ PromptRight(i, t)'
  <2>1. ModelRight(i, t)'
    BY <1>1, <1>3, ForgetModel DEF Right
  <2>2. (PromptDue(i, t)' <=> PromptDue(i, t)) /\ LoadActive(t)' = LoadActive(t)
    BY <1>2 DEF PromptDue, EditDue, Followers, LoadActive
  <2>3. PromptRight(i, t)'
    BY <1>1, <1>3, <2>2, ForgetPrompt DEF Right
  <2>4. QED
    BY <2>1, <2>3
<1>7. QED
  BY <1>4, <1>5, <1>6, RightIs

LEMMA RestartRight ==
    ASSUME TypeOK, TypeOK', Right, NEW i \in Instance, Restart(i)
    PROVE  Right'
<1>0. Noted /\ Noted' /\ Wired /\ Cached /\ Staffed /\ ConfigType /\ PromptType /\ Scoped /\ Unasked
  BY TypeParts DEF Right
<1>1. /\ UNCHANGED <<prov, cfg, text, active, pub>>
      /\ conf' = Drop(conf, i, Tenant) /\ agent' = Drop(agent, i, Chats)
      /\ bd' = [b \in Builder |-> IF Home[b] = i THEN Free ELSE bd[b]]
      /\ ed' = [e \in Editor |-> IF Home[e] = i THEN Resting ELSE ed[e]]
      /\ inbox'[i] = << >> /\ \A j \in Instance \ {i} : inbox'[j] = inbox[j]
  BY <1>0 DEF Restart, Wired
<1>2. \A j \in Instance : Forgets(j)
  <2>1. Forgets(i)
    BY <1>0, <1>1, Dropped, OwnersAre DEF Forgets
  <2>2. \A j \in Instance \ {i} : conf'[j] = conf[j] /\ agent'[j] = agent[j]
    BY <1>0, <1>1, Dropped
  <2>3. \A j \in Instance \ {i} : Forgets(j)
    BY <1>1, <2>2 DEF Forgets
  <2>4. QED
    BY <2>1, <2>3
<1>3. Scoped' /\ Unasked'
  <2>1. Heard(i)' = {} /\ \A j \in Instance \ {i} : Heard(j)' = Heard(j)
    BY <1>1, ToSetIs DEF Heard
  <2>2. QED
    BY <1>0, <1>1, <2>1, UnaskedStays DEF Scoped
<1>4. PlatformRight(i)' /\ \A t \in Chats : ModelRight(i, t)' /\ PromptRight(i, t)'
  <2>1. \A t \in Tenant : conf'[i][t] = Absent
    BY <1>0, <1>1, Dropped
  <2>2. \A t \in Chats : agent'[i][t] = Absent
    BY <1>0, <1>1, Dropped
  <2>3. \A b \in Builder : Home[b] = i => bd'[b] = Free
    BY <1>1
  <2>4. PlatformRight(i)'
    BY <2>1, <2>3, ModelAssumption DEF PlatformRight, Fits
  <2>5. \A t \in Chats : Blank(i, t)'
    BY <2>1, <2>2, <2>3, OwnersAre DEF Blank
  <2>6. QED
    BY <2>4, <2>5, BlankIsRight
<1>5. ASSUME NEW j \in Instance, j # i
      PROVE  PlatformRight(j)' /\ \A t \in Chats : ModelRight(j, t)' /\ PromptRight(j, t)'
  <2>1. /\ missed[j] \subseteq missed'[j]
        /\ \A e \in Editor : Home[e] = i /\ ed[e] # Resting => Affects(ed[e].c) \subseteq missed'[j]
    BY <1>5 DEF Restart
  <2>2. Sent(j)' = Sent(j) /\ Heard(j)' = Heard(j)
    BY <1>1, <1>5 DEF Sent, Heard
  <2>3. (AwareOfAll(j)' => AwareOfAll(j)) /\ \A t \in Chats : Aware(j, t)' => Aware(j, t)
    BY <1>0, <2>1, <2>2, AwareLess
  <2>4. PlatformRight(j)'
    BY <1>1, <1>2, <2>3, ForgetPlatform DEF Right
  <2>5. ASSUME NEW t \in Chats PROVE ModelRight(j, t)' /\ PromptRight(j, t)'
    <3>1. ModelRight(j, t)'
      BY <1>1, <1>2, <2>3, ForgetModel DEF Right
    <3>2. LoadActive(t)' = LoadActive(t)
      BY <1>1 DEF LoadActive
    <3>3. ASSUME Aware(j, t)', ~PromptDue(j, t)', PromptDue(j, t) PROVE FALSE
      <4>1. t \notin missed'[j]
        BY <3>3 DEF Aware
      <4>2. ASSUME NEW c \in {t, AllTenants}, EditDue(c) PROVE EditDue(c)'
        <5>1. PICK e \in Editor : ed[e] # Resting /\ ed[e].at # "dropIdle" /\ ed[e].c = c
          BY <4>2 DEF EditDue
        <5>2. t \in Affects(c)
          BY DEF Affects
        <5>3. Home[e] # i
          BY <2>1, <4>1, <5>1, <5>2
        <5>4. ed'[e] = ed[e]
          BY <1>1, <5>3
        <5>5. QED
          BY <5>1, <5>4 DEF EditDue
      <4>3. t \in Followers' <=> t \in Followers
        BY <1>1 DEF Followers
      <4>4. QED
        BY <2>2, <3>3, <4>2, <4>3 DEF PromptDue
    <3>4. PromptRight(j, t)'
      BY <1>2, <2>3, <3>2, <3>3, ForgetPrompt DEF Right
    <3>5. QED
      BY <3>1, <3>4
  <2>6. QED
    BY <2>4, <2>5
<1>6. QED
  BY <1>3, <1>4, <1>5, RightIs

LEMMA ClockRight == ASSUME TypeOK, TypeOK', Right, Clock PROVE Right'
<1>1. ASSUME NEW i \in Instance, NEW t \in Tenant, Expire(i, t) PROVE Right'
  BY <1>1, FadeRight DEF Expire, promptVars
<1>2. ASSUME NEW i \in Instance, NEW t \in Chats, Tick(i, t) \/ KbChanges(i, t) PROVE Right'
  BY <1>2, FadeRight DEF Tick, KbChanges, promptVars
<1>3. ASSUME NEW i \in Instance, Restart(i) PROVE Right'
  BY <1>3, RestartRight
<1>4. QED
  BY <1>1, <1>2, <1>3 DEF Clock

-----------------------------------------------------------------------------
(* Prompt requests.                                                        *)

\* The statements of a request change nothing but the table.
LEMMA TableRight ==
    ASSUME TypeOK, TypeOK', Right, UNCHANGED <<prov, cfg, conf, agent, bd, pub, inbox>>,
           \A i \in Instance : missed[i] \subseteq missed'[i],
           \A i \in Instance : \A t \in Chats : t \notin missed'[i] /\ ~PromptDue(i, t)' =>
              ~PromptDue(i, t) /\ LoadActive(t)' = LoadActive(t)
    PROVE  Right'
<1>0. Noted' /\ Scoped /\ Unasked
  BY TypeParts DEF Right
<1>1. \A i \in Instance : Forgets(i) /\ Sent(i)' = Sent(i) /\ Heard(i)' = Heard(i)
  BY DEF Forgets, Sent, Heard
<1>2. \A i \in Instance : (AwareOfAll(i)' => AwareOfAll(i)) /\ \A t \in Chats : Aware(i, t)' => Aware(i, t)
  BY <1>0, <1>1, AwareLess
<1>3. Scoped' /\ Unasked'
  BY <1>0, <1>1, UnaskedStays DEF Scoped
<1>4. \A i \in Instance : PlatformRight(i)'
  BY <1>1, <1>2, ForgetPlatform DEF Right
<1>5. ASSUME NEW i \in Instance, NEW t \in Chats PROVE ModelRight(i, t)' /\ PromptRight(i, t)'
  <2>1. ModelRight(i, t)'
    BY <1>1, <1>2, ForgetModel DEF Right
  <2>2. Aware(i, t)' => t \notin missed'[i]
    BY DEF Aware
  <2>3. PromptRight(i, t)'
    BY <1>1, <1>2, <2>2, ForgetPrompt DEF Right
  <2>4. QED
    BY <2>1, <2>3
<1>6. QED
  BY <1>3, <1>4, <1>5, RightIs

\* The rows of c alone change.
Only(c) == \A d \in Owner : d # c => text'[d] = text[d] /\ active'[d] = active[d]

LEMMA OnlyIs ==
    ASSUME PromptType, NEW c \in Owner
    PROVE  /\ \A v : text' = [text EXCEPT ![c] = v] => \A d \in Owner : d # c => text'[d] = text[d]
           /\ \A k, x : text' = [text EXCEPT ![c][k] = x] => \A d \in Owner : d # c => text'[d] = text[d]
           /\ \A v : active' = [active EXCEPT ![c] = v] =>
                 active'[c] = v /\ \A d \in Owner : d # c => active'[d] = active[d]
  BY DEF PromptType

LEMMA LoadKept ==
    ASSUME NEW t \in Chats, NEW c \in Owner, t # c, Only(c), c = AllTenants => active[t] # << >>
    PROVE  LoadActive(t)' = LoadActive(t) /\ (t \in Followers' <=> t \in Followers)
<1>1. t \in Owner /\ AllTenants \in Owner
  BY OwnersAre, PromptsAssumption
<1>2. text'[t] = text[t] /\ active'[t] = active[t]
  BY <1>1 DEF Only
<1>3. c # AllTenants => text'[AllTenants] = text[AllTenants] /\ active'[AllTenants] = active[AllTenants]
  BY <1>1 DEF Only
<1>4. LoadActive(t)' = LoadActive(t)
  BY <1>2, <1>3 DEF LoadActive
<1>5. QED
  BY <1>2, <1>4 DEF Followers

\* While a request that will end with a word is under way, its owner's rows may change.
LEMMA UnderWay ==
    ASSUME NEW c \in Owner, Only(c), EditDue(c)', \A d \in Owner : EditDue(d) => EditDue(d)',
           UNCHANGED inbox, NEW i \in Instance, NEW t \in Chats, ~PromptDue(i, t)'
    PROVE  ~PromptDue(i, t) /\ LoadActive(t)' = LoadActive(t)
<1>1. t # c /\ t \in Owner /\ AllTenants \in Owner
  BY OwnersAre, PromptsAssumption DEF PromptDue
<1>2. t \in Followers' <=> t \in Followers
  BY <1>1 DEF Followers, Only
<1>3. c = AllTenants => t \notin Followers'
  BY DEF PromptDue
<1>4. c = AllTenants => active[t] # << >>
  BY <1>2, <1>3 DEF Followers
<1>5. LoadActive(t)' = LoadActive(t)
  BY <1>1, <1>4, LoadKept
<1>6. ~PromptDue(i, t)
  BY <1>1, <1>2 DEF PromptDue, Heard
<1>7. QED
  BY <1>5, <1>6

\* What a step of request e means for those that are due.
LEMMA DueIs ==
    ASSUME PromptType, NEW e \in Editor
    PROVE  /\ \A c \in Owner, k \in PromptKey, at \in {"others", "on", "drop", "rebuild"} :
                 ed[e] = Resting /\ Moves(e, at, c, k) => EditDue(c)' /\ \A d \in Owner : EditDue(d) => EditDue(d)'
           /\ \A at \in {"publish", "rebuild"}, c \in Owner :
                 ed[e] # Resting /\ ed[e].at # "dropIdle" /\ ed[e].c = c /\ Goes(e, at) =>
                    EditDue(c)' /\ \A d \in Owner : EditDue(d) => EditDue(d)'
           /\ \A c \in Owner, k \in PromptKey :
                 ed[e] = Resting /\ Moves(e, "dropIdle", c, k) => \A d \in Owner : EditDue(d)' <=> EditDue(d)
           /\ ed[e] # Resting /\ ed' = [ed EXCEPT ![e] = Resting] =>
                 /\ \A d \in Owner : d # ed[e].c => (EditDue(d)' <=> EditDue(d))
                 /\ ed[e].at = "dropIdle" => \A d \in Owner : EditDue(d)' <=> EditDue(d)
<1>0. ed \in [Editor -> {Resting} \cup Edit]
  BY PromptTypeIs
<1>1. \A r \in Edit : r # Resting
  <2> TAKE r \in Edit
  <2>1. DOMAIN r = {"at", "c", "k"} /\ DOMAIN Resting = {"at"}
    BY DEF Edit, Resting
  <2>2. QED
    BY <2>1
<1>2. ASSUME NEW q, ed' = [ed EXCEPT ![e] = q]
      PROVE  ed'[e] = q /\ \A x \in Editor : x # e => ed'[x] = ed[x]
  BY <1>0, <1>2
<1>3. ASSUME NEW c \in Owner, NEW k \in PromptKey, NEW at \in {"others", "on", "drop", "rebuild"},
             ed[e] = Resting, Moves(e, at, c, k)
      PROVE  EditDue(c)' /\ \A d \in Owner : EditDue(d) => EditDue(d)'
  <2> DEFINE q == [at |-> at, c |-> c, k |-> k]
  <2>1. q \in Edit /\ q.at # "dropIdle" /\ q.c = c
    BY DEF Edit
  <2>2. ed' = [ed EXCEPT ![e] = q]
    BY <1>3 DEF Moves
  <2> HIDE DEF q
  <2>3. ed'[e] = q /\ q # Resting /\ \A x \in Editor : x # e => ed'[x] = ed[x]
    BY <1>1, <1>2, <2>1, <2>2
  <2>4. EditDue(c)'
    BY <2>1, <2>3 DEF EditDue
  <2>5. \A d \in Owner : EditDue(d) => EditDue(d)'
    BY <1>3, <2>3 DEF EditDue
  <2>6. QED
    BY <2>4, <2>5
<1>4. ASSUME NEW at \in {"publish", "rebuild"}, NEW c \in Owner,
             ed[e] # Resting, ed[e].at # "dropIdle", ed[e].c = c, Goes(e, at)
      PROVE  EditDue(c)' /\ \A d \in Owner : EditDue(d) => EditDue(d)'
  <2> DEFINE q == [ed[e] EXCEPT !.at = at]
  <2>0. ed[e] \in Edit
    BY <1>0, <1>4
  <2>1. q \in Edit /\ q.at # "dropIdle" /\ q.c = c
    BY <1>4, <2>0 DEF Edit
  <2>2. ed' = [ed EXCEPT ![e] = q]
    BY <1>4 DEF Goes
  <2> HIDE DEF q
  <2>3. ed'[e] = q /\ q # Resting /\ \A x \in Editor : x # e => ed'[x] = ed[x]
    BY <1>1, <1>2, <2>1, <2>2
  <2>4. EditDue(c)'
    BY <2>1, <2>3 DEF EditDue
  <2>5. \A d \in Owner : EditDue(d) => EditDue(d)'
    BY <1>4, <2>1, <2>3 DEF EditDue
  <2>6. QED
    BY <2>4, <2>5
<1>5. ASSUME NEW c \in Owner, NEW k \in PromptKey, ed[e] = Resting, Moves(e, "dropIdle", c, k)
      PROVE  \A d \in Owner : EditDue(d)' <=> EditDue(d)
  <2> DEFINE q == [at |-> "dropIdle", c |-> c, k |-> k]
  <2>1. q.at = "dropIdle" /\ ed' = [ed EXCEPT ![e] = q]
    BY <1>5 DEF Moves
  <2> HIDE DEF q
  <2>2. ed'[e] = q /\ \A x \in Editor : x # e => ed'[x] = ed[x]
    BY <1>2, <2>1
  <2>3. QED
    BY <1>5, <2>1, <2>2 DEF EditDue
<1>6. ASSUME ed[e] # Resting, ed' = [ed EXCEPT ![e] = Resting]
      PROVE  /\ \A d \in Owner : d # ed[e].c => (EditDue(d)' <=> EditDue(d))
             /\ ed[e].at = "dropIdle" => \A d \in Owner : EditDue(d)' <=> EditDue(d)
  <2>1. ed'[e] = Resting /\ \A x \in Editor : x # e => ed'[x] = ed[x]
    BY <1>2, <1>6
  <2>2. QED
    BY <1>6, <2>1 DEF EditDue
<1>7. QED
  BY <1>3, <1>4, <1>5, <1>6

\* Rows change; a tenant that no longer gets its prompt, or that one no more, is
\* noted, or it is due a word.
LEMMA NotedOrDue ==
    ASSUME PromptType, UNCHANGED inbox, NEW c \in Owner, Only(c), active[c] = << >> => active'[c] = << >>,
           \A d \in Owner : EditDue(d) => EditDue(d)',
           NEW i \in Instance, NEW t \in Chats, ~PromptDue(i, t)'
    PROVE  ~PromptDue(i, t)
<1>1. t \in Owner /\ AllTenants \in Owner
  BY OwnersAre, PromptsAssumption
<1>2. t \in Followers => t \in Followers'
  BY <1>1 DEF Followers, Only
<1>3. QED
  BY <1>1, <1>2 DEF PromptDue, Heard

LEMMA SavesRight ==
    ASSUME TypeOK, TypeOK', Right, NEW e \in Editor, NEW c \in Owner, NEW k \in PromptKey,
           NEW on \in BOOLEAN, Saves(e, c, k, on)
    PROVE  Right'
<1>0. PromptType /\ Upsert(e, c, k, on)
  BY TypeParts DEF Saves
<1>1. /\ UNCHANGED <<prov, cfg, conf, agent, bd, pub, inbox>>
      /\ \A i \in Instance : missed[i] \subseteq missed'[i]
  BY DEF Saves, PromptsOnly, cacheVars, Misses
<1>2. Only(c)
  BY <1>0, OnlyIs DEF Upsert, Only
<1>3. CASE on
  <2>1. EditDue(c)' /\ \A d \in Owner : EditDue(d) => EditDue(d)'
    BY <1>0, <1>3, DueIs DEF Upsert
  <2>2. QED
    BY <1>1, <1>2, <2>1, UnderWay, TableRight
<1>4. CASE ~on
  <2>1. ed' = ed /\ active' = [active EXCEPT ![c] = Without(c, k)]
    BY <1>0, <1>4 DEF Upsert
  <2>2. active[c] = << >> => active'[c] = << >>
    <3>1. active'[c] = Without(c, k)
      BY <1>0, <2>1, OnlyIs
    <3>2. RemoveFirst(<< >>, k) = << >>
      BY DEF RemoveFirst
    <3>3. QED
      BY <3>1, <3>2 DEF Without
  <2>3. \A d \in Owner : EditDue(d) => EditDue(d)'
    BY <2>1 DEF EditDue
  <2>4. \A i \in Instance : \A t \in Chats : t \notin missed'[i] => LoadActive(t)' = LoadActive(t)
    BY <1>4 DEF Saves, Misses
  <2>5. QED
    BY <1>0, <1>1, <1>2, <2>2, <2>3, <2>4, NotedOrDue, TableRight
<1>5. QED
  BY <1>3, <1>4

LEMMA EditsRight ==
    ASSUME TypeOK, TypeOK', Right, NEW e \in Editor, NEW c \in Owner, NEW k \in PromptKey, Edits(e, c, k)
    PROVE  Right'
<1>0. PromptType
  BY TypeParts
<1>1. /\ UNCHANGED <<prov, cfg, conf, agent, bd, pub, inbox>>
      /\ \A i \in Instance : missed[i] \subseteq missed'[i]
  BY DEF Edits, PromptsOnly, cacheVars
<1>2. CASE Activate(e, c, k)
  <2>1. Only(c)
    BY <1>0, <1>2, OnlyIs DEF Activate, Only
  <2>2. EditDue(c)' /\ \A d \in Owner : EditDue(d) => EditDue(d)'
    BY <1>0, <1>2, DueIs DEF Activate
  <2>3. QED
    BY <1>1, <2>1, <2>2, UnderWay, TableRight
<1>3. CASE \E n \in 1..MaxKept : Rollback(e, c, k, n)
  <2>1. Only(c)
    BY <1>0, <1>3, OnlyIs DEF Rollback, Only
  <2>2. EditDue(c)' /\ \A d \in Owner : EditDue(d) => EditDue(d)'
    BY <1>0, <1>3, DueIs DEF Rollback
  <2>3. QED
    BY <1>1, <2>1, <2>2, UnderWay, TableRight
<1>4. CASE Delete(e, c, k) \/ KeepVersion(c, k)
  <2>1. UNCHANGED <<text, active>>
    BY <1>4 DEF Delete, KeepVersion
  <2>2. \A d \in Owner : EditDue(d) => EditDue(d)'
    <3>1. CASE Delete(e, c, k)
      BY <1>0, <3>1, DueIs DEF Delete
    <3>2. CASE KeepVersion(c, k)
      BY <3>2 DEF KeepVersion, EditDue
    <3>3. QED
      BY <1>4, <3>1, <3>2
  <2>3. Only(c) /\ (active[c] = << >> => active'[c] = << >>)
    BY <2>1 DEF Only
  <2>4. \A t \in Chats : LoadActive(t)' = LoadActive(t)
    BY <2>1 DEF LoadActive
  <2>5. QED
    BY <1>0, <1>1, <2>2, <2>3, <2>4, NotedOrDue, TableRight
<1>5. QED
  BY <1>2, <1>3, <1>4 DEF Edits

LEMMA GoesOnRight ==
    ASSUME TypeOK, TypeOK', Right, NEW e \in Editor, GoesOn(e)
    PROVE  Right'
<1>0. PromptType /\ ed[e] # Resting
  BY TypeParts DEF GoesOn, OthersOff, RowGoes, At
<1>1. /\ UNCHANGED <<prov, cfg, conf, agent, bd, pub, inbox>>
      /\ \A i \in Instance : missed[i] \subseteq missed'[i]
  BY DEF GoesOn, PromptsOnly, cacheVars, Misses
<1>2. PICK c \in Owner, k \in PromptKey : ed[e].c = c /\ ed[e].k = k
  BY <1>0, EditStep
<1>3. Only(c)
  <2>1. CASE OthersOff(e)
    BY <1>0, <1>2, <2>1, OnlyIs DEF OthersOff, Only
  <2>2. CASE RowGoes(e)
    <3>1. text' = [text EXCEPT ![c][k] = 0] /\ active' = [active EXCEPT ![c] = Without(c, k)]
      BY <1>2, <2>2 DEF RowGoes
    <3>2. QED
      BY <1>0, <3>1, OnlyIs DEF Only
  <2>3. QED
    BY <2>1, <2>2 DEF GoesOn
<1>4. CASE ed[e].at # "dropIdle"
  <2>1. \E at \in {"publish", "rebuild"} : Goes(e, at)
    BY <1>4 DEF GoesOn, OthersOff, RowGoes, At
  <2>2. EditDue(c)' /\ \A d \in Owner : EditDue(d) => EditDue(d)'
    BY <1>0, <1>2, <1>4, <2>1, DueIs
  <2>3. QED
    BY <1>1, <1>3, <2>2, UnderWay, TableRight
<1>5. CASE ed[e].at = "dropIdle"
  <2>1. RowGoes(e) /\ At(e, "dropIdle") /\ ~At(e, "drop")
    BY <1>0, <1>5 DEF GoesOn, OthersOff, At
  <2>2. ed' = [ed EXCEPT ![e] = Resting] /\ active' = [active EXCEPT ![c] = Without(c, k)]
    BY <1>2, <2>1 DEF RowGoes
  <2>3. \A d \in Owner : EditDue(d) => EditDue(d)'
    BY <1>0, <1>5, <2>2, DueIs
  <2>4. active[c] = << >> => active'[c] = << >>
    <3>1. active'[c] = Without(c, k)
      BY <1>0, <2>2, OnlyIs
    <3>2. RemoveFirst(<< >>, k) = << >>
      BY DEF RemoveFirst
    <3>3. QED
      BY <3>1, <3>2 DEF Without
  <2>5. \A i \in Instance : \A t \in Chats : t \notin missed'[i] => LoadActive(t)' = LoadActive(t)
    BY <2>1 DEF GoesOn, Misses
  <2>6. QED
    BY <1>0, <1>1, <1>3, <2>3, <2>4, <2>5, NotedOrDue, TableRight
<1>6. QED
  BY <1>4, <1>5

LEMMA SwitchesOnRight ==
    ASSUME TypeOK, TypeOK', Right, NEW e \in Editor, SwitchesOn(e)
    PROVE  Right'
<1>0. PromptType /\ ed[e] # Resting /\ ed[e].at = "on"
  BY TypeParts DEF SwitchesOn, TurnOn, At
<1>1. /\ UNCHANGED <<prov, cfg, conf, agent, bd, pub, inbox>>
      /\ \A i \in Instance : missed[i] \subseteq missed'[i]
  BY DEF SwitchesOn, PromptsOnly, cacheVars, Misses
<1>2. PICK c \in Owner, k \in PromptKey : ed[e].c = c /\ ed[e].k = k
  BY <1>0, EditStep
<1>3. CASE text[c][k] # 0
  <2>1. Goes(e, "rebuild") /\ active' = [active EXCEPT ![c] = <<k>> \o Without(c, k)] /\ text' = text
    BY <1>2, <1>3 DEF SwitchesOn, TurnOn
  <2>2. Only(c)
    BY <1>0, <2>1, OnlyIs DEF Only
  <2>3. EditDue(c)' /\ \A d \in Owner : EditDue(d) => EditDue(d)'
    BY <1>0, <1>2, <2>1, DueIs
  <2>4. QED
    BY <1>1, <2>2, <2>3, UnderWay, TableRight
<1>4. CASE text[c][k] = 0
  <2>1. UNCHANGED <<text, active>> /\ ed' = [ed EXCEPT ![e] = Resting]
    BY <1>2, <1>4 DEF SwitchesOn, TurnOn
  <2>2. \A i \in Instance : Affects(c) \subseteq missed'[i]
    BY <1>2, <1>4 DEF SwitchesOn, Misses
  <2>3. \A d \in Owner : d # c => (EditDue(d)' <=> EditDue(d))
    BY <1>0, <1>2, <2>1, DueIs
  <2>4. ASSUME NEW i \in Instance, NEW t \in Chats, t \notin missed'[i], ~PromptDue(i, t)'
        PROVE  ~PromptDue(i, t) /\ LoadActive(t)' = LoadActive(t)
    <3>1. t # c /\ AllTenants # c
      BY <2>2, <2>4 DEF Affects
    <3>2. t \in Owner /\ AllTenants \in Owner
      BY OwnersAre, PromptsAssumption
    <3>3. ~PromptDue(i, t)
      BY <1>1, <2>1, <2>3, <2>4, <3>1, <3>2 DEF PromptDue, Heard, Followers
    <3>4. LoadActive(t)' = LoadActive(t)
      BY <2>1 DEF LoadActive
    <3>5. QED
      BY <3>3, <3>4
  <2>5. QED
    BY <1>1, <2>4, TableRight
<1>5. QED
  BY <1>3, <1>4

LEMMA AgentDropped ==
    ASSUME Cached, NEW h, NEW T
    PROVE  \A i \in Instance : \A t \in Chats :
              Drop(agent, h, T)[i][t] = IF i = h /\ t \in T THEN Absent ELSE agent[i][t]
<1>1. \A i \in Instance : DOMAIN agent[i] = Chats
  BY DEF Cached
<1>2. QED
  BY <1>1 DEF Drop

\* The end of a request: of the tenants it was about, each process is sent a word, or
\* forgets the agent, or is noted.
LEMMA EndRight ==
    ASSUME TypeOK, TypeOK', Right, Scoped',
           NEW e \in Editor, NEW c \in Owner, ed[e] # Resting, ed[e].c = c,
           ed' = [ed EXCEPT ![e] = Resting],
           UNCHANGED <<prov, cfg, text, active, conf, bd, pub>>,
           agent' = agent \/ agent' = Drop(agent, Home[e], Popped(c)),
           \A i \in Instance : missed[i] \subseteq missed'[i] /\ Heard(i) \subseteq Heard(i)',
           \A i \in Instance :
              \/ \E m \in Heard(i)' : /\ m.to = c
                                      /\ m.scope = IF c = AllTenants THEN "prompt" ELSE "all"
              \/ Untold(e, i) \subseteq missed'[i] /\ agent' = Drop(agent, Home[e], Popped(c))
              \/ Chats \subseteq missed'[i]
    PROVE  Right'
<1>0. Cached /\ Noted' /\ PromptType /\ Unasked
  BY TypeParts DEF Right
<1>1. \A i \in Instance : Forgets(i)
  <2>1. ASSUME NEW i \in Instance, NEW t \in Chats PROVE agent'[i][t] = agent[i][t] \/ agent'[i][t] = Absent
    BY <1>0, AgentDropped
  <2>2. QED
    BY <2>1 DEF Forgets
<1>2. \A i \in Instance : Sent(i) \subseteq Sent(i)'
  BY DEF Sent
<1>3. \A i \in Instance : (AwareOfAll(i)' => AwareOfAll(i)) /\ \A t \in Chats : Aware(i, t)' => Aware(i, t)
  BY <1>0, <1>2, AwareLess
<1>4. Unasked'
  BY <1>0, UnaskedStays
<1>5. \A i \in Instance : PlatformRight(i)'
  BY <1>1, <1>3, ForgetPlatform DEF Right
<1>6. \A d \in Owner : d # c => (EditDue(d)' <=> EditDue(d))
  BY <1>0, DueIs
<1>7. ASSUME NEW i \in Instance, NEW t \in Chats PROVE ModelRight(i, t)' /\ PromptRight(i, t)'
  <2>0. t \in Owner /\ AllTenants \in Owner /\ t # AllTenants
    BY OwnersAre, PromptsAssumption
  <2>1. ModelRight(i, t)'
    BY <1>1, <1>3, ForgetModel DEF Right
  <2>2. LoadActive(t)' = LoadActive(t) /\ (t \in Followers' <=> t \in Followers)
    BY DEF LoadActive, Followers
  <2>3. CASE t \notin Popped(c)
    <3>1. t # c /\ (t \in Followers => c # AllTenants)
      BY <2>0, <2>3 DEF Popped
    <3>2. PromptDue(i, t) => PromptDue(i, t)'
      BY <1>6, <2>0, <2>2, <3>1 DEF PromptDue
    <3>3. PromptRight(i, t)'
      BY <1>1, <1>3, <2>2, <3>2, ForgetPrompt DEF Right
    <3>4. QED
      BY <2>1, <3>3
  <2>4. CASE t \in Popped(c)
    <3>1. (c = t /\ c # AllTenants) \/ (c = AllTenants /\ t \in Followers)
      BY <2>4 DEF Popped
    <3>2. CASE \E m \in Heard(i)' : m.to = c /\ m.scope = IF c = AllTenants THEN "prompt" ELSE "all"
      <4>1. PICK m \in Heard(i)' : m.to = c /\ m.scope = IF c = AllTenants THEN "prompt" ELSE "all"
        BY <3>2
      <4>2. CASE c = t /\ c # AllTenants
        <5>1. m \in Sent(i)' /\ m.scope # "prompt" /\ t \in Reaches(m)
          BY <4>1, <4>2 DEF Sent, Reaches
        <5>2. Told(i, t)'
          BY <5>1 DEF Told, Reaches
        <5>3. QED
          BY <2>1, <5>2 DEF PromptRight, Aware
      <4>3. CASE c = AllTenants /\ t \in Followers
        <5>1. PromptDue(i, t)'
          BY <2>2, <4>1, <4>3 DEF PromptDue
        <5>2. QED
          BY <2>1, <5>1 DEF PromptRight
      <4>4. QED
        BY <3>1, <4>2, <4>3
    <3>3. CASE t \in missed'[i]
      BY <2>1, <3>3 DEF PromptRight, Aware
    <3>4. CASE t \notin missed'[i] /\ Untold(e, i) \subseteq missed'[i] /\ agent' = Drop(agent, Home[e], Popped(c))
      <4>1. t \in Affects(c)
        BY <3>1 DEF Affects
      <4>2. i = Home[e] /\ ~Building(i, t)
        BY <2>4, <3>4, <4>1 DEF Untold
      <4>3. agent'[i][t] = Absent
        BY <1>0, <2>4, <3>4, <4>2, AgentDropped
      <4>4. \A b \in Builder : ~(Home[b] = i /\ bd'[b] # Free /\ bd'[b].t = t)
        BY <4>2 DEF Building
      <4>5. QED
        BY <2>1, <4>3, <4>4 DEF PromptRight
    <3>5. QED
      BY <3>2, <3>3, <3>4
  <2>5. QED
    BY <2>3, <2>4
<1>8. QED
  BY <1>4, <1>5, <1>7, RightIs

LEMMA PublishPromptRight ==
    ASSUME TypeOK, TypeOK', Right, NEW e \in Editor, NEW L \in SUBSET Instance, PublishPrompt(e, L)
    PROVE  Right'
<1>0. PromptType /\ Wired /\ Scoped /\ ed[e] # Resting
  BY TypeParts DEF Right, PublishPrompt, At
<1>1. PICK c \in Owner : ed[e].c = c
  BY <1>0, EditStep
<1> DEFINE m == [to |-> c, scope |-> IF c = AllTenants THEN "prompt" ELSE "all"]
<1>2. m \in Message /\ m.to = c /\ m.scope = IF c = AllTenants THEN "prompt" ELSE "all"
  BY OwnersAre DEF Message
<1>3. /\ ed' = [ed EXCEPT ![e] = Resting] /\ UNCHANGED <<prov, cfg, text, active, conf, bd, pub>>
      /\ agent' = Drop(agent, Home[e], Popped(c))
  BY <1>1 DEF PublishPrompt
<1>4. \/ Sends(m, L) /\ \A i \in Instance : missed'[i] = missed[i] \cup IF i \in L THEN Untold(e, i) ELSE {}
      \/ inbox' = inbox /\ \A i \in Instance : missed'[i] = missed[i] \cup Untold(e, i)
  BY <1>1 DEF PublishPrompt, Misses
<1> HIDE DEF m
<1>5. CASE Sends(m, L) /\ \A i \in Instance : missed'[i] = missed[i] \cup IF i \in L THEN Untold(e, i) ELSE {}
  <2>1. \A i \in Instance : Heard(i)' = IF i \in L THEN Heard(i) ELSE Heard(i) \cup {m}
    BY <1>0, <1>2, <1>5, SendsHeard
  <2>2. Scoped'
    BY <1>0, <1>2, <1>3, <2>1 DEF Scoped
  <2>3. \A i \in Instance : missed[i] \subseteq missed'[i] /\ Heard(i) \subseteq Heard(i)'
    BY <1>5, <2>1
  <2>4. \A i \in Instance :
           \/ \E w \in Heard(i)' : w.to = c /\ w.scope = IF c = AllTenants THEN "prompt" ELSE "all"
           \/ Untold(e, i) \subseteq missed'[i]
    BY <1>2, <1>5, <2>1
  <2>5. QED
    BY <1>0, <1>1, <1>3, <2>2, <2>3, <2>4, EndRight
<1>6. CASE inbox' = inbox /\ \A i \in Instance : missed'[i] = missed[i] \cup Untold(e, i)
  <2>1. \A i \in Instance : Heard(i)' = Heard(i)
    BY <1>6 DEF Heard
  <2>2. Scoped'
    BY <1>0, <1>3, <2>1 DEF Scoped
  <2>3. \A i \in Instance : missed[i] \subseteq missed'[i] /\ Heard(i) \subseteq Heard(i)'
    BY <1>6, <2>1
  <2>4. \A i \in Instance : Untold(e, i) \subseteq missed'[i]
    BY <1>6
  <2>5. QED
    BY <1>0, <1>1, <1>3, <2>2, <2>3, <2>4, EndRight
<1>7. QED
  BY <1>4, <1>5, <1>6

LEMMA RebuildRight ==
    ASSUME TypeOK, TypeOK', Right, NEW e \in Editor, Rebuild(e)
    PROVE  Right'
<1>0. PromptType /\ Scoped /\ ed[e] # Resting
  BY TypeParts DEF Right, Rebuild, At
<1>1. PICK c \in Owner : ed[e].c = c
  BY <1>0, EditStep
<1>2. /\ ed' = [ed EXCEPT ![e] = Resting] /\ UNCHANGED <<prov, cfg, text, active, conf, bd, pub, inbox>>
      /\ agent' = IF c = AllTenants THEN agent ELSE Drop(agent, Home[e], {c})
      /\ \A i \in Instance : missed'[i] = missed[i] \cup IF c = AllTenants THEN Chats ELSE Untold(e, i)
  BY <1>1 DEF Rebuild, Misses
<1>3. c # AllTenants => agent' = Drop(agent, Home[e], Popped(c))
  BY <1>2 DEF Popped
<1>4. \A i \in Instance : Heard(i)' = Heard(i)
  BY <1>2 DEF Heard
<1>5. Scoped'
  BY <1>0, <1>2, <1>4 DEF Scoped
<1>6. \A i \in Instance :
         \/ Untold(e, i) \subseteq missed'[i] /\ agent' = Drop(agent, Home[e], Popped(c))
         \/ Chats \subseteq missed'[i]
  BY <1>2, <1>3
<1>7. agent' = agent \/ agent' = Drop(agent, Home[e], Popped(c))
  BY <1>2, <1>3
<1>8. \A i \in Instance : missed[i] \subseteq missed'[i] /\ Heard(i) \subseteq Heard(i)'
  BY <1>2, <1>4
<1>9. QED
  BY <1>0, <1>1, <1>2, <1>5, <1>6, <1>7, <1>8, EndRight

LEMMA WritersRight == ASSUME TypeOK, TypeOK', Right, Writers PROVE Right'
  BY SavesRight, EditsRight, GoesOnRight, SwitchesOnRight, PublishPromptRight, RebuildRight DEF Writers

-----------------------------------------------------------------------------
(* Builders.                                                               *)

\* A step of builder b, of process i for tenant t, that ends at the call c: the rest
\* of what the process keeps is as it was, and what is new fits.
Builds(b, i, t, c) ==
    /\ UNCHANGED <<prov, cfg, text, active, ed, pub, inbox, missed>>
    /\ i = Home[b] /\ bd' = [bd EXCEPT ![b] = c]
    /\ c # Free => c.t = t /\ (c.net = "none" => c.got = Absent) /\ (c.at = "prompt" => c.net = "none")
    /\ \A j \in Instance \ {i} : conf'[j] = conf[j] /\ agent'[j] = agent[j]
    /\ \A u \in Chats \ {t} : conf'[i][u] = conf[i][u] /\ agent'[i][u] = agent[i][u]
    /\ AwareOfAll(i) => Fits(conf'[i][Platform], Platform) /\ (c # Free => PlatformFits(c))
    /\ Aware(i, t) => /\ Fits(conf'[i][t], t)
                      /\ agent'[i][t] # Absent => agent'[i][t].chat = Current(t, "chat")
                      /\ c # Free => CallFits(c, t)
    /\ Aware(i, t) /\ ~PromptDue(i, t) =>
         /\ agent'[i][t] # Absent => agent'[i][t].prompt = LoadActive(t)
         /\ c # Free /\ c.at = "model" => c.text = LoadActive(t)

LEMMA BuildRight ==
    ASSUME TypeOK, Right, NEW b \in Builder, NEW i \in Instance, NEW t \in Chats, NEW c, Builds(b, i, t, c)
    PROVE  Right'
<1> USE DEF Builds
<1>0. Staffed /\ Scoped /\ Unasked /\ ConfigType
  BY TypeParts DEF Right
<1>1. bd'[b] = c /\ \A x \in Builder : x # b => bd'[x] = bd[x]
  BY <1>0 DEF Staffed
<1>2. Sent(i)' = Sent(i) /\ \A j \in Instance : Heard(j)' = Heard(j)
  BY DEF Sent, Heard
<1>3. (AwareOfAll(i)' <=> AwareOfAll(i)) /\ \A u \in Chats : Aware(i, u)' <=> Aware(i, u)
  BY <1>2 DEF AwareOfAll, ToldAll, Aware, Told, Reaches
<1>4. /\ \A u \in Tenant : AgentConfig(u)' = AgentConfig(u)
      /\ \A u \in Tenant, s \in Slot : Current(u, s)' = Current(u, s)
  BY ConfigKept
<1>5. Scoped' /\ Unasked'
  <2>1. Scoped'
    BY <1>0, <1>2 DEF Scoped
  <2>2. Unasked'
    BY <1>0, <1>1 DEF Unasked
  <2>3. QED
    BY <2>1, <2>2
<1>6. \A j \in Instance \ {i} : PlatformRight(j)' /\ \A u \in Chats : ModelRight(j, u)' /\ PromptRight(j, u)'
  <2>1. \A x \in Builder : Home[x] # i => bd'[x] = bd[x]
    BY <1>1
  <2>2. QED
    BY <2>1, OthersRight
<1>7. PlatformRight(i)'
  <2>1. AgentConfig(Platform)' = AgentConfig(Platform)
    BY <1>4, ModelAssumption
  <2>2. SUFFICES ASSUME AwareOfAll(i)
                 PROVE  /\ Fits(conf[i][Platform], Platform)'
                        /\ \A x \in Builder : Home[x] = i /\ bd'[x] # Free => PlatformFits(bd[x])'
    BY <1>3 DEF PlatformRight
  <2>3. Fits(conf'[i][Platform], Platform) /\ (c # Free => PlatformFits(c))
    BY <2>2
  <2>4. \A x \in Builder : Home[x] = i /\ bd[x] # Free => PlatformFits(bd[x])
    BY <2>2 DEF Right, PlatformRight
  <2>5. Fits(conf[i][Platform], Platform)'
    BY <2>1, <2>3 DEF Fits
  <2>6. ASSUME NEW x \in Builder, Home[x] = i, bd'[x] # Free PROVE PlatformFits(bd[x])'
    <3>1. CASE x = b
      BY <1>1, <2>1, <2>3, <2>6, <3>1 DEF PlatformFits, Fits, Asks
    <3>2. CASE x # b
      <4>1. bd'[x] = bd[x] /\ PlatformFits(bd[x])
        BY <1>1, <2>4, <2>6, <3>2
      <4>2. QED
        BY <2>1, <4>1 DEF PlatformFits, Fits, Asks
    <3>3. QED
      BY <3>1, <3>2
  <2>7. QED
    BY <2>5, <2>6
<1>8. ASSUME NEW u \in Chats PROVE ModelRight(i, u)'
  <2>1. AgentConfig(u)' = AgentConfig(u) /\ Current(u, "chat")' = Current(u, "chat")
    BY <1>4, OwnersAre DEF Slot
  <2>2. SUFFICES ASSUME Aware(i, u)
                 PROVE  /\ Fits(conf[i][u], u)'
                        /\ agent'[i][u] # Absent => agent'[i][u].chat = Current(u, "chat")'
                        /\ \A x \in Builder : Home[x] = i /\ bd'[x] # Free /\ bd'[x].t = u => CallFits(bd[x], u)'
    BY <1>3 DEF ModelRight
  <2>3. /\ Fits(conf[i][u], u)
        /\ agent[i][u] # Absent => agent[i][u].chat = Current(u, "chat")
        /\ \A x \in Builder : Home[x] = i /\ bd[x] # Free /\ bd[x].t = u => CallFits(bd[x], u)
    BY <2>2 DEF Right, ModelRight
  <2>4. Fits(conf'[i][u], u) /\ (agent'[i][u] # Absent => agent'[i][u].chat = Current(u, "chat"))
    <3>1. CASE u = t
      BY <2>2, <3>1
    <3>2. CASE u # t
      BY <2>3, <3>2
    <3>3. QED
      BY <3>1, <3>2
  <2>5. Fits(conf[i][u], u)'
    BY <2>1, <2>4 DEF Fits
  <2>6. ASSUME NEW x \in Builder, Home[x] = i, bd'[x] # Free, bd'[x].t = u PROVE CallFits(bd[x], u)'
    <3>1. CASE x = b
      <4>1. c # Free /\ u = t
        BY <1>1, <2>6, <3>1
      <4>2. CallFits(c, u)
        BY <2>2, <4>1
      <4>3. QED
        BY <1>1, <2>1, <3>1, <4>2 DEF CallFits, Fits, Asks
    <3>2. CASE x # b
      <4>1. bd'[x] = bd[x] /\ CallFits(bd[x], u)
        BY <1>1, <2>3, <2>6, <3>2
      <4>2. QED
        BY <2>1, <4>1 DEF CallFits, Fits, Asks
    <3>3. QED
      BY <3>1, <3>2
  <2>7. QED
    BY <2>1, <2>4, <2>5, <2>6
<1>9. ASSUME NEW u \in Chats PROVE PromptRight(i, u)'
  <2>1. LoadActive(u)' = LoadActive(u)
    BY DEF LoadActive
  <2>2. PromptDue(i, u)' <=> PromptDue(i, u)
    BY <1>2 DEF PromptDue, EditDue, Followers
  <2>3. SUFFICES ASSUME Aware(i, u), ~PromptDue(i, u)
                 PROVE  /\ agent'[i][u] # Absent => agent'[i][u].prompt = LoadActive(u)
                        /\ \A x \in Builder : Home[x] = i /\ bd'[x] # Free /\ bd'[x].t = u /\ bd'[x].at = "model" =>
                              bd'[x].text = LoadActive(u)
    BY <1>3, <2>1, <2>2 DEF PromptRight
  <2>4. /\ agent[i][u] # Absent => agent[i][u].prompt = LoadActive(u)
        /\ \A x \in Builder : Home[x] = i /\ bd[x] # Free /\ bd[x].t = u /\ bd[x].at = "model" =>
              bd[x].text = LoadActive(u)
    BY <2>3 DEF Right, PromptRight
  <2>5. CASE u = t
    BY <1>1, <2>3, <2>4, <2>5
  <2>6. CASE u # t
    BY <1>1, <2>4, <2>6
  <2>7. QED
    BY <2>5, <2>6
<1>10. QED
  <2>1. \A j \in Instance : PlatformRight(j)' /\ \A u \in Chats : ModelRight(j, u)' /\ PromptRight(j, u)'
    BY <1>6, <1>7, <1>8, <1>9
  <2>2. QED
    BY <1>5, <2>1, RightIs

\* A call that has just begun holds nothing that could be wrong.
LEMMA BegunFits ==
    ASSUME NEW t \in Chats, NEW at \in {"check", "vector", "prompt"}, NEW rv
    PROVE  /\ PlatformFits(Begun(t, at, rv)) /\ CallFits(Begun(t, at, rv), t)
           /\ Begun(t, at, rv).t = t /\ Begun(t, at, rv).got = Absent /\ Begun(t, at, rv).at # "model"
           /\ Begun(t, at, rv).at = "prompt" => Begun(t, at, rv).net = "none"
<1> DEFINE c == Begun(t, at, rv)
<1>1. c.t = t /\ c.got = Absent /\ c.own = Absent /\ c.at = at /\ (at = "prompt" => c.net = "none")
  BY DEF Begun
<1> HIDE DEF c
<1>2. PlatformFits(c) /\ CallFits(c, t)
  BY <1>1 DEF PlatformFits, CallFits, Fits
<1>3. QED
  BY <1>1, <1>2 DEF c

\* What is right of a call that is under way.
LEMMA BuilderRight ==
    ASSUME TypeOK, Right, NEW b \in Builder, bd[b] # Free,
           NEW i \in Instance, i = Home[b], NEW t \in Chats, t = bd[b].t
    PROVE  /\ AwareOfAll(i) => Fits(conf[i][Platform], Platform) /\ PlatformFits(bd[b])
           /\ Aware(i, t) => /\ AwareOfAll(i) /\ Fits(conf[i][t], t)
                             /\ agent[i][t] # Absent => agent[i][t].chat = Current(t, "chat")
                             /\ CallFits(bd[b], t)
           /\ Aware(i, t) /\ ~PromptDue(i, t) =>
                 /\ agent[i][t] # Absent => agent[i][t].prompt = LoadActive(t)
                 /\ bd[b].at = "model" => bd[b].text = LoadActive(t)
<1>1. PlatformRight(i) /\ ModelRight(i, t) /\ PromptRight(i, t)
  BY DEF Right
<1>2. Aware(i, t) => AwareOfAll(i)
  BY TypeParts, AwareOfBoth
<1>3. QED
  BY <1>1, <1>2 DEF PlatformRight, ModelRight, PromptRight

LEMMA StoreRight ==
    ASSUME TypeOK, Right, UNCHANGED <<prov, cfg, text, active, ed, pub, inbox, missed>>,
           NEW b \in Builder, bd[b] # Free, NEW i \in Instance, i = Home[b], NEW t \in Chats, t = bd[b].t,
           agent' = agent, Stands(b, Begun(t, "prompt", bd[b].rv)),
           \A j \in Instance \ {i} : conf'[j] = conf[j],
           \A u \in Chats \ {t} : conf'[i][u] = conf[i][u],
           AwareOfAll(i) => Fits(conf'[i][Platform], Platform),
           Aware(i, t) => Fits(conf'[i][t], t)
    PROVE  Right'
<1> DEFINE c == Begun(t, "prompt", bd[b].rv)
<1>1. c \in Call
  <2>1. bd[b].rv \in Versions
    BY TypeParts, BuilderIs, CallIs
  <2>2. QED
    BY <2>1, BegunIs
<1>2. /\ PlatformFits(c) /\ CallFits(c, t) /\ c.t = t /\ c.got = Absent /\ c.at # "model"
      /\ c.at = "prompt" => c.net = "none"
  BY BegunFits
<1>3. bd' = [bd EXCEPT ![b] = c]
  BY DEF Stands
<1> HIDE DEF c
<1>4. /\ Aware(i, t) => (agent[i][t] # Absent => agent[i][t].chat = Current(t, "chat"))
      /\ Aware(i, t) /\ ~PromptDue(i, t) => (agent[i][t] # Absent => agent[i][t].prompt = LoadActive(t))
  BY BuilderRight
<1>5. Builds(b, i, t, c)
  BY <1>1, <1>2, <1>3, <1>4 DEF Builds
<1>6. QED
  BY <1>5, BuildRight

LEMMA ProceedRight ==
    ASSUME TypeOK, TypeOK', Right, UNCHANGED <<prov, cfg, text, active, ed, pub, inbox, missed>>,
           NEW b \in Builder, bd[b] # Free, bd[b].at # "check",
           NEW i \in Instance, i = Home[b], NEW t \in Chats, t = bd[b].t,
           NEW own \in Config, Proceed(b, own),
           \A j \in Instance \ {i} : conf'[j] = conf[j],
           \A u \in Chats \ {t} : conf'[i][u] = conf[i][u],
           AwareOfAll(i) => Fits(conf'[i][Platform], Platform),
           Aware(i, t) => Fits(conf'[i][t], t) /\ own = AgentConfig(t),
           bd[b].at \in {"vector", "model"}
    PROVE  Right'
<1> DEFINE s == IF bd[b].at = "vector" THEN "embedding" ELSE "chat"
           source == IF own.custom[s] THEN own ELSE conf'[i][Platform]
<1>0. Staffed /\ Cached /\ Cached' /\ ConfigType /\ bd[b] \in Call /\ own # Absent
  BY TypeParts, BuilderIs, ConfigHas
<1>1. IF source = Absent
        THEN /\ Stands(b, [bd[b] EXCEPT !.own = own, !.net = "asked", !.got = Absent])
             /\ UNCHANGED <<store, retr, agent, sig>>
      ELSE IF s = "embedding" THEN StoreMade(b, source.use[s])
      ELSE AgentMade(b, source.use[s])
  BY DEF Proceed
<1>2. s \in Slot /\ (s = "embedding" <=> bd[b].at = "vector")
  BY DEF Slot
<1>3. source = IF own.custom[s] THEN own ELSE conf'[i][Platform]
  OBVIOUS
<1> HIDE DEF s, source
<1>4. /\ Aware(i, t) => /\ AwareOfAll(i) /\ (agent[i][t] # Absent => agent[i][t].chat = Current(t, "chat"))
                        /\ CallFits(bd[b], t)
      /\ Aware(i, t) /\ ~PromptDue(i, t) =>
           /\ agent[i][t] # Absent => agent[i][t].prompt = LoadActive(t)
           /\ bd[b].at = "model" => bd[b].text = LoadActive(t)
  BY BuilderRight
<1>5. CASE source = Absent
  <2> DEFINE c == [bd[b] EXCEPT !.own = own, !.net = "asked", !.got = Absent]
  <2>1. /\ c.own = own /\ c.net = "asked" /\ c.got = Absent /\ c.t = t /\ c.at = bd[b].at /\ c.text = bd[b].text
    BY <1>0 DEF Call
  <2>2. c \in Call
    BY <1>0, CallSteps DEF Answers
  <2>3. bd' = [bd EXCEPT ![b] = c] /\ agent' = agent
    BY <1>1, <1>5 DEF Stands
  <2> HIDE DEF c
  <2>4. Asks(c) = Platform
    BY <1>0, <2>1 DEF Asks
  <2>5. PlatformFits(c) /\ (Aware(i, t) => CallFits(c, t))
    BY <2>1, <2>4, OwnersAre DEF PlatformFits, CallFits, Fits
  <2>6. Builds(b, i, t, c)
    BY <1>4, <2>1, <2>2, <2>3, <2>5 DEF Builds
  <2>7. QED
    BY <2>6, BuildRight
<1>6. CASE source # Absent /\ bd[b].at = "vector"
  <2>1. StoreMade(b, source.use[s])
    BY <1>1, <1>2, <1>6
  <2>2. agent' = agent /\ Stands(b, Begun(t, "prompt", bd[b].rv))
    BY <2>1 DEF StoreMade
  <2>3. QED
    BY <2>2, StoreRight
<1>7. CASE source # Absent /\ bd[b].at = "model"
  <2> DEFINE u == source.use[s]
             a == [chat |-> u, prompt |-> bd[b].text]
             p == [agent[i] EXCEPT ![t] = a]
  <2>1. s = "chat" /\ AgentMade(b, u)
    BY <1>1, <1>2, <1>7 DEF s
  <2>2. agent' = [agent EXCEPT ![i] = p] /\ bd' = [bd EXCEPT ![b] = Free]
    BY <2>1 DEF AgentMade, Stands
  <2>3. a.chat = u /\ a.prompt = bd[b].text
    OBVIOUS
  <2>4. agent \in [Instance -> [Chats -> Made \cup {Absent}]]
    BY <1>0 DEF Cached
  <2>5. p[t] = a /\ \A x \in Chats \ {t} : p[x] = agent[i][x]
    BY <2>4
  <2> HIDE DEF u, a, p
  <2>6. /\ agent'[i][t] = a /\ \A x \in Chats \ {t} : agent'[i][x] = agent[i][x]
        /\ \A j \in Instance \ {i} : agent'[j] = agent[j]
    BY <2>2, <2>4, <2>5
  <2>7. ASSUME Aware(i, t) PROVE u = Current(t, "chat")
    <3>1. own = AgentConfig(t) /\ AwareOfAll(i)
      BY <1>4, <2>7
    <3>2. ~own.custom[s] => source = AgentConfig(Platform)
      BY <1>3, <1>7, <3>1 DEF Fits
    <3>3. own.custom[s] => source = own
      BY <1>3
    <3>4. Current(t, s) = IF AgentConfig(t) = Absent THEN Absent
              ELSE IF AgentConfig(t).custom[s] THEN AgentConfig(t).use[s]
              ELSE IF AgentConfig(Platform) = Absent THEN Absent
              ELSE AgentConfig(Platform).use[s]
      BY <1>0, <1>2, CurrentIs, OwnersAre
    <3>5. QED
      BY <1>0, <1>7, <2>1, <3>1, <3>2, <3>3, <3>4 DEF u
  <2>8. Builds(b, i, t, Free)
    BY <1>4, <1>7, <2>2, <2>3, <2>6, <2>7 DEF Builds
  <2>9. QED
    BY <2>8, BuildRight
<1>8. QED
  BY <1>5, <1>6, <1>7

LEMMA AskingRight ==
    ASSUME TypeOK, TypeOK', Right, NEW b \in Builder, NEW t \in Chats, GetTenantAgent(b, t)
    PROVE  Right'
<1>0. Staffed
  BY TypeParts
<1>1. PICK i \in Instance : i = Home[b]
  BY CacheAssumption
<1>2. PICK at \in {"check", "vector", "prompt"} : Stands(b, Begun(t, at, Absent))
  BY DEF GetTenantAgent
<1> DEFINE c == Begun(t, at, Absent)
<1>3. /\ PlatformFits(c) /\ CallFits(c, t) /\ c.t = t /\ c.got = Absent /\ c.at # "model"
      /\ c.at = "prompt" => c.net = "none"
  BY BegunFits
<1>4. bd' = [bd EXCEPT ![b] = c]
  BY <1>2 DEF Stands
<1> HIDE DEF c
<1>5. UNCHANGED <<prov, cfg, text, active, ed, pub, inbox, missed, conf, agent>>
  BY DEF GetTenantAgent, promptVars
<1>6. PlatformRight(i) /\ ModelRight(i, t) /\ PromptRight(i, t)
  BY DEF Right
<1>7. Builds(b, i, t, c)
  BY <1>1, <1>3, <1>4, <1>5, <1>6 DEF Builds, PlatformRight, ModelRight, PromptRight
<1>8. QED
  BY <1>7, BuildRight

LEMMA AnswerRight ==
    ASSUME TypeOK, TypeOK', Right, NEW b \in Builder, Answer(b)
    PROVE  Right'
<1>0. Staffed /\ bd[b] # Free /\ bd[b] \in Call /\ bd[b].at # "prompt"
  BY TypeParts, BuilderIs DEF Answer, Right, Unasked
<1>1. PICK i \in Instance, t \in Chats : i = Home[b] /\ t = bd[b].t
  BY <1>0, BuilderIs
<1>2. PICK g : /\ bd' = [bd EXCEPT ![b] = [bd[b] EXCEPT !.net = "answered", !.got = g]]
               /\ g = AgentConfig(Asked(b)) \/ g = bd[b].got
  <2>1. CASE Stands(b, [bd[b] EXCEPT !.net = "answered", !.got = AgentConfig(Asked(b))])
    BY <2>1 DEF Stands
  <2>2. CASE Stands(b, [bd[b] EXCEPT !.net = "answered"])
    <3>1. [bd[b] EXCEPT !.net = "answered"] = [bd[b] EXCEPT !.net = "answered", !.got = bd[b].got]
      BY <1>0 DEF Call
    <3>2. QED
      BY <2>2, <3>1 DEF Stands
  <2>3. QED
    BY <2>1, <2>2 DEF Answer
<1> DEFINE c == [bd[b] EXCEPT !.net = "answered", !.got = g]
<1>3. /\ c.at = bd[b].at /\ c.t = t /\ c.own = bd[b].own /\ c.net = "answered" /\ c.got = g
      /\ c.text = bd[b].text
  BY <1>0, <1>1 DEF Call
<1>4. bd' = [bd EXCEPT ![b] = c]
  BY <1>2
<1> HIDE DEF c
<1>5. Asks(c) = Asked(b) /\ Asks(bd[b]) = Asked(b)
  BY <1>1, <1>3 DEF Asks, Asked
<1>6. /\ AwareOfAll(i) => Fits(conf[i][Platform], Platform) /\ PlatformFits(bd[b])
      /\ Aware(i, t) => /\ AwareOfAll(i) /\ Fits(conf[i][t], t)
                        /\ agent[i][t] # Absent => agent[i][t].chat = Current(t, "chat")
                        /\ CallFits(bd[b], t)
      /\ Aware(i, t) /\ ~PromptDue(i, t) =>
            /\ agent[i][t] # Absent => agent[i][t].prompt = LoadActive(t)
            /\ bd[b].at = "model" => bd[b].text = LoadActive(t)
  BY <1>0, <1>1, BuilderRight
<1>7. AwareOfAll(i) => PlatformFits(c)
  BY <1>2, <1>3, <1>5, <1>6 DEF PlatformFits, Fits
<1>8. Aware(i, t) => CallFits(c, t)
  BY <1>2, <1>3, <1>5, <1>6 DEF CallFits, Fits
<1>9. UNCHANGED <<prov, cfg, text, active, ed, pub, inbox, missed, conf, agent>>
  BY DEF Answer, promptVars, cacheVars
<1>10. Builds(b, i, t, c)
  BY <1>0, <1>1, <1>3, <1>4, <1>6, <1>7, <1>8, <1>9 DEF Builds
<1>11. QED
  BY <1>10, BuildRight

LEMMA CheckedRight ==
    ASSUME TypeOK, TypeOK', Right, NEW b \in Builder, Checked(b)
    PROVE  Right'
<1>0. Staffed /\ Cached /\ bd[b] # Free /\ bd[b] \in Call
  BY TypeParts, BuilderIs DEF Checked
<1>1. PICK i \in Instance, t \in Chats : i = Home[b] /\ t = bd[b].t
  BY <1>0, BuilderIs
<1>2. PICK T \in SUBSET {t} : conf' = Drop(conf, i, T) /\ agent' = Drop(agent, i, T)
  BY <1>1 DEF Checked
<1>3. PICK c : /\ bd' = [bd EXCEPT ![b] = c]
               /\ c = Free \/ c = Begun(t, "vector", Version(bd[b].got))
  BY <1>1 DEF Checked, Stands
<1>4. c # Free => /\ PlatformFits(c) /\ CallFits(c, t) /\ c.t = t /\ c.got = Absent /\ c.at # "model"
                  /\ c.at = "prompt" => c.net = "none"
  BY <1>3, BegunFits
<1>5. UNCHANGED <<prov, cfg, text, active, ed, pub, inbox, missed>>
  BY DEF Checked, promptVars
<1>6. /\ \A j \in Instance \ {i} : conf'[j] = conf[j] /\ agent'[j] = agent[j]
      /\ \A u \in Chats \ {t} : conf'[i][u] = conf[i][u] /\ agent'[i][u] = agent[i][u]
      /\ conf'[i][Platform] = conf[i][Platform]
      /\ conf'[i][t] = conf[i][t] \/ conf'[i][t] = Absent
      /\ agent'[i][t] = agent[i][t] \/ agent'[i][t] = Absent
  BY <1>0, <1>2, Dropped, OwnersAre
<1>7. /\ AwareOfAll(i) => Fits(conf[i][Platform], Platform)
      /\ Aware(i, t) => /\ Fits(conf[i][t], t)
                        /\ agent[i][t] # Absent => agent[i][t].chat = Current(t, "chat")
      /\ Aware(i, t) /\ ~PromptDue(i, t) => (agent[i][t] # Absent => agent[i][t].prompt = LoadActive(t))
  BY <1>0, <1>1, BuilderRight
<1>8. Aware(i, t) => Fits(conf'[i][t], t)
  BY <1>6, <1>7 DEF Fits
<1>9. Builds(b, i, t, c)
  BY <1>1, <1>3, <1>4, <1>5, <1>6, <1>7, <1>8 DEF Builds
<1>10. QED
  BY <1>9, BuildRight

LEMMA NeedsRight ==
    ASSUME TypeOK, TypeOK', Right, NEW b \in Builder, Needs(b)
    PROVE  Right'
<1>0. Staffed /\ Cached /\ bd[b] # Free /\ bd[b] \in Call /\ bd[b].at \in {"vector", "model"} /\ Unasked
  BY TypeParts, BuilderIs DEF Needs, Right
<1>1. PICK i \in Instance, t \in Chats : i = Home[b] /\ t = bd[b].t
  BY <1>0, BuilderIs
<1>2. /\ AwareOfAll(i) => Fits(conf[i][Platform], Platform) /\ PlatformFits(bd[b])
      /\ Aware(i, t) => /\ AwareOfAll(i) /\ Fits(conf[i][t], t)
                        /\ agent[i][t] # Absent => agent[i][t].chat = Current(t, "chat")
                        /\ CallFits(bd[b], t)
      /\ Aware(i, t) /\ ~PromptDue(i, t) =>
            /\ agent[i][t] # Absent => agent[i][t].prompt = LoadActive(t)
            /\ bd[b].at = "model" => bd[b].text = LoadActive(t)
  BY <1>0, <1>1, BuilderRight
<1>3. UNCHANGED <<prov, cfg, text, active, ed, pub, inbox, missed, conf>>
  BY DEF Needs, promptVars
<1>4. CASE StoreMade(b, store[i][t])
  <2>1. agent' = agent /\ Stands(b, Begun(t, "prompt", bd[b].rv))
    BY <1>1, <1>4 DEF StoreMade
  <2>2. QED
    BY <1>0, <1>1, <1>2, <1>3, <2>1, StoreRight
<1>5. CASE conf[i][t] # Absent /\ Proceed(b, conf[i][t])
  <2>1. PICK own \in Config : own = conf[i][t]
    <3>1. conf[i][t] \in Config \cup {Absent}
      BY <1>0, OwnersAre DEF Cached
    <3>2. QED
      BY <1>5, <3>1
  <2>2. Aware(i, t) => own = AgentConfig(t)
    BY <1>2, <1>5, <2>1 DEF Fits
  <2>3. Proceed(b, own)
    BY <1>5, <2>1
  <2>4. QED
    BY <1>0, <1>1, <1>2, <1>3, <2>2, <2>3, ProceedRight
<1>6. CASE Stands(b, [bd[b] EXCEPT !.net = "asked"]) /\ agent' = agent
  <2> DEFINE c == [bd[b] EXCEPT !.net = "asked"]
  <2>1. /\ c.at = bd[b].at /\ c.t = t /\ c.own = bd[b].own /\ c.net = "asked" /\ c.got = bd[b].got
        /\ c.text = bd[b].text
    BY <1>0, <1>1 DEF Call
  <2>2. bd' = [bd EXCEPT ![b] = c]
    BY <1>6 DEF Stands
  <2> HIDE DEF c
  <2>3. (AwareOfAll(i) => PlatformFits(c)) /\ (Aware(i, t) => CallFits(c, t))
    BY <1>1, <1>2, <2>1 DEF PlatformFits, CallFits, Asks
  <2>4. Builds(b, i, t, c)
    BY <1>0, <1>1, <1>2, <1>3, <1>6, <2>1, <2>2, <2>3 DEF Builds
  <2>5. QED
    BY <2>4, BuildRight
<1>7. QED
  BY <1>1, <1>4, <1>5, <1>6 DEF Needs

LEMMA ArrivesRight ==
    ASSUME TypeOK, TypeOK', Right, NEW b \in Builder, Arrives(b)
    PROVE  Right'
<1>0. Staffed /\ Cached /\ bd[b] # Free /\ bd[b] \in Call /\ bd[b].at # "check" /\ Unasked
  BY TypeParts, BuilderIs DEF Arrives, Right
<1>1. PICK i \in Instance, t \in Chats : i = Home[b] /\ t = bd[b].t
  BY <1>0, BuilderIs
<1>2. /\ AwareOfAll(i) => Fits(conf[i][Platform], Platform) /\ PlatformFits(bd[b])
      /\ Aware(i, t) => /\ AwareOfAll(i) /\ Fits(conf[i][t], t)
                        /\ agent[i][t] # Absent => agent[i][t].chat = Current(t, "chat")
                        /\ CallFits(bd[b], t)
      /\ Aware(i, t) /\ ~PromptDue(i, t) =>
            /\ agent[i][t] # Absent => agent[i][t].prompt = LoadActive(t)
            /\ bd[b].at = "model" => bd[b].text = LoadActive(t)
  BY <1>0, <1>1, BuilderRight
<1>3. UNCHANGED <<prov, cfg, text, active, ed, pub, inbox, missed>>
  BY DEF Arrives, promptVars
<1>4. PICK a \in {t, Platform} : a = Asked(b) /\ a = Asks(bd[b])
  BY <1>1 DEF Asked, Asks
<1>5. bd[b].got \in Answers /\ bd[b].own \in Answers
  BY <1>0, CallIs
<1>6. t \in Tenant /\ a \in Tenant /\ t # Platform /\ conf \in [Instance -> [Tenant -> Config \cup {Absent}]]
  BY <1>0, <1>4, OwnersAre DEF Cached
<1>7. /\ \A j \in Instance \ {i} : conf'[j] = conf[j]
      /\ \A u \in Tenant \ {a} : conf'[i][u] = conf[i][u]
      /\ conf'[i][a] = IF bd[b].got = Absent THEN conf[i][a] ELSE bd[b].got
  <2>1. CASE bd[b].got = Absent
    BY <2>1 DEF Arrives
  <2>2. CASE bd[b].got # Absent
    <3> DEFINE q == [conf[i] EXCEPT ![a] = bd[b].got]
    <3>1. conf' = [conf EXCEPT ![i] = q]
      BY <1>1, <1>4, <2>2 DEF Arrives
    <3>2. q[a] = bd[b].got /\ \A u \in Tenant \ {a} : q[u] = conf[i][u]
      BY <1>6
    <3> HIDE DEF q
    <3>3. conf'[i] = q /\ \A j \in Instance \ {i} : conf'[j] = conf[j]
      BY <1>6, <3>1
    <3>4. QED
      BY <2>2, <3>2, <3>3
  <2>3. QED
    BY <2>1, <2>2
<1>8. AwareOfAll(i) => Fits(conf'[i][Platform], Platform)
  BY <1>2, <1>4, <1>6, <1>7, ModelAssumption DEF PlatformFits, Fits
<1>9. Aware(i, t) => Fits(conf'[i][t], t)
  BY <1>2, <1>4, <1>6, <1>7 DEF CallFits, Fits
<1>10. /\ \A j \in Instance \ {i} : conf'[j] = conf[j]
       /\ \A u \in Chats \ {t} : conf'[i][u] = conf[i][u]
  BY <1>4, <1>7, OwnersAre
<1>11. CASE bd[b].got # Absent
  <2>1. PICK own \in Config : own = IF bd[b].own = Absent THEN bd[b].got ELSE bd[b].own
    BY <1>5, <1>11 DEF Answers
  <2>2. Proceed(b, own)
    BY <1>11, <2>1 DEF Arrives
  <2>3. Aware(i, t) => own = AgentConfig(t)
    <3>1. CASE bd[b].own = Absent
      <4>1. Asks(bd[b]) = t
        BY <1>1, <3>1 DEF Asks
      <4>2. QED
        BY <1>2, <1>11, <2>1, <3>1, <4>1 DEF CallFits, Fits
    <3>2. CASE bd[b].own # Absent
      BY <1>2, <2>1, <3>2 DEF CallFits, Fits
    <3>3. QED
      BY <3>1, <3>2
  <2>4. bd[b].at \in {"vector", "model"}
    BY <1>0, CallIs DEF Arrives, Unasked
  <2>5. QED
    BY <1>0, <1>1, <1>3, <1>8, <1>9, <1>10, <2>2, <2>3, <2>4, ProceedRight
<1>12. CASE bd[b].got = Absent /\ StoreMade(b, store[i][t])
  <2>1. agent' = agent /\ Stands(b, Begun(t, "prompt", bd[b].rv))
    BY <1>1, <1>12 DEF StoreMade
  <2>2. QED
    BY <1>0, <1>1, <1>3, <1>8, <1>9, <1>10, <2>1, StoreRight
<1>13. CASE agent' = agent /\ Stands(b, Begun(t, "prompt", bd[b].rv))
  BY <1>0, <1>1, <1>3, <1>8, <1>9, <1>10, <1>13, StoreRight
<1>14. CASE agent' = agent /\ Stands(b, Free)
  <2>1. Builds(b, i, t, Free)
    BY <1>1, <1>2, <1>3, <1>8, <1>9, <1>10, <1>14 DEF Builds, Stands
  <2>2. QED
    BY <2>1, BuildRight
<1>15. QED
  BY <1>1, <1>11, <1>12, <1>13, <1>14 DEF Arrives

LEMMA ReadRight ==
    ASSUME TypeOK, TypeOK', Right, NEW b \in Builder, ReadPrompt(b)
    PROVE  Right'
<1>0. Staffed /\ bd[b] # Free /\ bd[b] \in Call /\ bd[b].at = "prompt" /\ bd[b].net = "none" /\ bd[b].got = Absent
  BY TypeParts, BuilderIs DEF ReadPrompt, Right, Unasked
<1>1. PICK i \in Instance, t \in Chats : i = Home[b] /\ t = bd[b].t
  BY <1>0, BuilderIs
<1> DEFINE c == [bd[b] EXCEPT !.at = "model", !.text = LoadActive(t)]
<1>2. /\ c.at = "model" /\ c.t = t /\ c.own = bd[b].own /\ c.net = "none" /\ c.got = Absent
      /\ c.text = LoadActive(t)
  BY <1>0, <1>1 DEF Call
<1>3. bd' = [bd EXCEPT ![b] = c]
  BY <1>1 DEF ReadPrompt, Stands
<1> HIDE DEF c
<1>4. /\ AwareOfAll(i) => Fits(conf[i][Platform], Platform)
      /\ Aware(i, t) => /\ Fits(conf[i][t], t) /\ Fits(bd[b].own, t)
                        /\ agent[i][t] # Absent => agent[i][t].chat = Current(t, "chat")
      /\ Aware(i, t) /\ ~PromptDue(i, t) => (agent[i][t] # Absent => agent[i][t].prompt = LoadActive(t))
  BY <1>0, <1>1, BuilderRight DEF CallFits
<1>5. PlatformFits(c) /\ (Aware(i, t) => CallFits(c, t))
  BY <1>2, <1>4 DEF PlatformFits, CallFits, Fits
<1>6. UNCHANGED <<prov, cfg, text, active, ed, pub, inbox, missed, conf, agent>>
  BY DEF ReadPrompt, promptVars, cacheVars
<1>7. Builds(b, i, t, c)
  BY <1>1, <1>2, <1>3, <1>4, <1>5, <1>6 DEF Builds
<1>8. QED
  BY <1>7, BuildRight

LEMMA BuildersRight ==
    ASSUME TypeOK, TypeOK', Right, NEW b \in Builder, (\E t \in Chats : GetTenantAgent(b, t)) \/ Work(b)
    PROVE  Right'
  BY AskingRight, AnswerRight, CheckedRight, NeedsRight, ArrivesRight, ReadRight DEF Work

-----------------------------------------------------------------------------
LEMMA InitRight == Init => Right
<1> SUFFICES ASSUME Init PROVE Right
  OBVIOUS
<1>1. \A i \in Instance : Heard(i) = {}
  BY ToSetIs DEF Init, Heard
<1>2. pub = {} /\ \A b \in Builder : bd[b] = Free
  BY DEF Init
<1>3. Scoped /\ Unasked
  BY <1>1, <1>2 DEF Scoped, Unasked
<1>4. \A i \in Instance : conf[i][Platform] = Absent
  BY OwnersAre DEF Init, Nothing
<1>5. \A i \in Instance : PlatformRight(i)
  BY <1>2, <1>4 DEF PlatformRight, Fits
<1>6. \A i \in Instance : \A t \in Chats : conf[i][t] = Absent /\ agent[i][t] = Absent
  BY OwnersAre DEF Init, Nothing
<1>7. \A i \in Instance : \A t \in Chats : ModelRight(i, t) /\ PromptRight(i, t)
  BY <1>2, <1>6 DEF ModelRight, PromptRight, Fits
<1>8. QED
  BY <1>3, <1>5, <1>7 DEF Right

LEMMA StepRight == TypeOK /\ TypeOK' /\ Right /\ [Next]_vars => Right'
<1> SUFFICES ASSUME TypeOK, TypeOK', Right, [Next]_vars PROVE Right'
  OBVIOUS
<1>1. CASE UNCHANGED vars
  BY <1>1, FadeRight DEF vars, cacheVars, promptVars
<1>2. CASE Next
  BY <1>2, ManagersRight, WritersRight, MessagesRight, ClockRight, BuildersRight DEF Next
<1>3. QED
  BY <1>1, <1>2

LEMMA RightIsFresh == TypeOK /\ Right => FreshAtRest
<1> SUFFICES ASSUME TypeOK, Right, pub = {}, \A e \in Editor : ed[e] = Resting,
                    NEW i \in Instance, inbox[i] = << >>, NEW t \in Chats \ missed[i], agent[i][t] # Absent
             PROVE  agent[i][t] = [chat |-> Current(t, "chat"), prompt |-> LoadActive(t)]
  BY DEF FreshAtRest
<1>1. Sent(i) = {} /\ Heard(i) = {}
  BY ToSetIs DEF Sent, Heard
<1>2. Aware(i, t) /\ ~PromptDue(i, t)
  BY <1>1 DEF Aware, Told, PromptDue, EditDue
<1>3. agent[i][t].chat = Current(t, "chat") /\ agent[i][t].prompt = LoadActive(t)
  BY <1>2 DEF Right, ModelRight, PromptRight
<1>4. agent[i][t] \in Made
  BY DEF TypeOK
<1>5. \A a \in Made : a = [chat |-> a.chat, prompt |-> a.prompt]
  BY DEF Made
<1>6. QED
  BY <1>3, <1>4, <1>5

\* Once every word has come through and no prompt request is under way, an agent that a
\* process keeps speaks with the model and the prompt its tenant has now, unless that
\* process was not told of a change, or was told while it built the agent: what the
\* broadcasts of redis_pubsub.py, clear_tenant_caches and the prompt requests are for.
THEOREM AgentsAreFresh == Spec => []FreshAtRest
<1>1. Init => TypeOK /\ Right
  BY InitTypes, InitRight
<1>2. TypeOK /\ Right /\ [Next]_vars => (TypeOK /\ Right)'
  BY StepTypes, StepRight
<1>3. TypeOK /\ Right => FreshAtRest
  BY RightIsFresh
<1>4. QED
  BY <1>1, <1>2, <1>3, PTL DEF Spec
=============================================================================
