------------------------- MODULE LoginLimiter_proofs -------------------------
(***************************************************************************)
(* The count of failed logins is bounded and ends, for any number of       *)
(* requests at once and any limit.                                         *)
(***************************************************************************)
EXTENDS LoginLimiter, FiniteSetTheorems, TLAPS

LetIn == {a \in Attempt : att[a] = "allowed"}

\* A request that leaves the ones let in makes their number one less, any other step by
\* a request that was not let in and is not then leaves it as it is.
LEMMA LetInCount ==
    ASSUME LimiterType, NEW a \in Attempt, NEW at, att' = [att EXCEPT ![a] = at]
    PROVE  /\ Cardinality(LetIn) \in Nat /\ Cardinality(LetIn') \in Nat
           /\ Cardinality(LetIn) <= Cardinality(Attempt) /\ Cardinality(Attempt) \in Nat
           /\ att[a] = "allowed" /\ at # "allowed" => Cardinality(LetIn') = Cardinality(LetIn) - 1
           /\ att[a] # "allowed" /\ at # "allowed" => LetIn' = LetIn
           /\ att[a] # "allowed" /\ at = "allowed" => Cardinality(LetIn') <= Cardinality(Attempt)
<1>1. IsFiniteSet(Attempt)
  BY LoginAssumption
<1>2. IsFiniteSet(LetIn) /\ IsFiniteSet(LetIn')
  <2>1. LetIn \subseteq Attempt /\ LetIn' \subseteq Attempt
    BY DEF LetIn
  <2>2. QED
    BY <1>1, <2>1, FS_Subset
<1>3. /\ Cardinality(LetIn) \in Nat /\ Cardinality(LetIn') \in Nat /\ Cardinality(Attempt) \in Nat
      /\ Cardinality(LetIn) <= Cardinality(Attempt) /\ Cardinality(LetIn') <= Cardinality(Attempt)
  <2>1. LetIn \subseteq Attempt /\ LetIn' \subseteq Attempt
    BY DEF LetIn
  <2>2. QED
    BY <1>1, <1>2, <2>1, FS_CardinalityType, FS_Subset
<1>4. ASSUME att[a] = "allowed", at # "allowed" PROVE Cardinality(LetIn') = Cardinality(LetIn) - 1
  <2>1. LetIn' = LetIn \ {a} /\ a \in LetIn
    BY <1>4 DEF LetIn, LimiterType
  <2>2. QED
    BY <1>2, <2>1, FS_RemoveElement
<1>5. ASSUME att[a] # "allowed", at # "allowed" PROVE LetIn' = LetIn
  BY <1>5 DEF LetIn, LimiterType
<1>6. QED
  BY <1>3, <1>4, <1>5

\* A login request is in one of the states of its handler, the count a number
\* (login_limiter.go).
THEOREM LimiterTypeCorrect == LimiterSpec => []LimiterType
<1>1. LimiterInit => LimiterType
  BY DEF LimiterInit, LimiterType
<1>2. LimiterType /\ [LimiterNext]_limiterVars => LimiterType'
  <2> SUFFICES ASSUME LimiterType, [LimiterNext]_limiterVars PROVE LimiterType'
    OBVIOUS
  <2> USE DEF LimiterType
  <2>1. ASSUME NEW a \in Attempt, CheckLoginAllowed(a) PROVE LimiterType'
    BY <2>1 DEF CheckLoginAllowed, To
  <2>2. ASSUME NEW a \in Attempt, Incr(a) PROVE LimiterType'
    BY <2>2 DEF Incr, To
  <2>3. ASSUME NEW a \in Attempt, IncrLost(a) \/ Expire(a) \/ ExpireLost(a) PROVE LimiterType'
    BY <2>3 DEF IncrLost, Expire, ExpireLost, To
  <2>4. ASSUME NEW a \in Attempt, Accepts(a, "key") \/ Accepts(a, "password") PROVE LimiterType'
    BY <2>4 DEF Accepts, To
  <2>5. ASSUME NEW a \in Attempt, ClearLoginFails(a) \/ Answers(a) PROVE LimiterType'
    BY <2>5 DEF ClearLoginFails, Answers, To
  <2>6. CASE Expires
    BY <2>6 DEF Expires
  <2>7. CASE UNCHANGED limiterVars
    BY <2>7 DEF limiterVars
  <2>8. QED
    BY <2>1, <2>2, <2>3, <2>4, <2>5, <2>6, <2>7 DEF LimiterNext
<1>3. QED
  BY <1>1, <1>2, PTL DEF LimiterSpec

\* However many requests are let in before the first of them fails, the count stays
\* below the limit plus their number: CheckLoginAllowed reads it before the credentials
\* are compared.
THEOREM FailsAreBounded == LimiterSpec => []FailsBounded
<1>1. LimiterInit => FailsBounded
  <2> SUFFICES ASSUME LimiterInit PROVE FailsBounded
    OBVIOUS
  <2>1. {a \in Attempt : att[a] = "allowed"} = {}
    BY DEF LimiterInit
  <2>2. Cardinality(Attempt) \in Nat
    BY LoginAssumption, FS_CardinalityType
  <2>3. fails = 0 /\ MaxFails \in Nat /\ MaxFails > 0
    BY LoginAssumption DEF LimiterInit
  <2>4. Cardinality({a \in Attempt : att[a] = "allowed"}) = 0
    BY <2>1, FS_EmptySet
  <2>5. QED
    BY <2>2, <2>3, <2>4 DEF FailsBounded
<1>2. LimiterType /\ FailsBounded /\ [LimiterNext]_limiterVars => FailsBounded'
  <2> SUFFICES ASSUME LimiterType, FailsBounded, [LimiterNext]_limiterVars PROVE FailsBounded'
    OBVIOUS
  <2>0. fails \in Nat /\ MaxFails \in Nat
    BY LoginAssumption DEF LimiterType
  <2>b. fails + Cardinality(LetIn) < MaxFails + Cardinality(Attempt)
    BY DEF FailsBounded, LetIn
  <2>g. SUFFICES fails' + Cardinality(LetIn') < MaxFails + Cardinality(Attempt)
    BY DEF FailsBounded, LetIn
  <2>1. ASSUME NEW a \in Attempt, CheckLoginAllowed(a) PROVE <2>g!1
    <3>1. To(a, "allowed") /\ att[a] # "allowed" /\ fails < MaxFails /\ fails' = fails
      BY <2>1 DEF CheckLoginAllowed, Allowed
    <3>2. Cardinality(LetIn') \in Nat /\ Cardinality(LetIn') <= Cardinality(Attempt) /\ Cardinality(Attempt) \in Nat
      BY <3>1, LetInCount DEF To
    <3>3. QED
      BY <3>1, <3>2, <2>0
  <2>2. ASSUME NEW a \in Attempt, Incr(a) PROVE <2>g!1
    <3>1. att[a] = "allowed" /\ (To(a, "counted") \/ To(a, "idle"))
      BY <2>2 DEF Incr
    <3>2. Cardinality(LetIn') = Cardinality(LetIn) - 1 /\ Cardinality(LetIn) \in Nat /\ Cardinality(Attempt) \in Nat
      BY <3>1, LetInCount DEF To
    <3>3. fails' = fails + 1
      BY <2>2 DEF Incr
    <3>4. QED
      BY <2>0, <2>b, <3>2, <3>3
  <2>3. ASSUME NEW a \in Attempt, IncrLost(a) \/ Accepts(a, "key") \/ Accepts(a, "password") PROVE <2>g!1
    <3>1. att[a] = "allowed" /\ (To(a, "idle") \/ To(a, "key") \/ To(a, "password"))
      BY <2>3 DEF IncrLost, Accepts
    <3>2. Cardinality(LetIn') = Cardinality(LetIn) - 1 /\ Cardinality(LetIn) \in Nat /\ Cardinality(Attempt) \in Nat
      BY <3>1, LetInCount DEF To
    <3>3. fails' = fails
      BY <2>3 DEF IncrLost, Accepts
    <3>4. QED
      BY <2>0, <2>b, <3>2, <3>3
  <2>4. ASSUME NEW a \in Attempt, Expire(a) \/ ExpireLost(a) \/ ClearLoginFails(a) \/ Answers(a) PROVE <2>g!1
    <3>1. att[a] # "allowed" /\ (To(a, "idle") \/ To(a, "cleared"))
      BY <2>4 DEF Expire, ExpireLost, ClearLoginFails, Answers
    <3>2. LetIn' = LetIn /\ Cardinality(LetIn) \in Nat /\ Cardinality(Attempt) \in Nat
      BY <3>1, LetInCount DEF To
    <3>3. fails' = fails \/ fails' = 0
      BY <2>4 DEF Expire, ExpireLost, ClearLoginFails, Answers
    <3>4. QED
      BY <2>0, <2>b, <3>2, <3>3
  <2>5. CASE Expires
    <3>1. LetIn' = LetIn /\ fails' = 0
      BY <2>5 DEF Expires, LetIn
    <3>2. Cardinality(LetIn) \in Nat /\ Cardinality(Attempt) \in Nat
      <4>1. LetIn \subseteq Attempt
        BY DEF LetIn
      <4>2. QED
        BY <4>1, LoginAssumption, FS_Subset, FS_CardinalityType
    <3>3. QED
      BY <2>0, <2>b, <3>1, <3>2
  <2>6. CASE UNCHANGED limiterVars
    BY <2>6, <2>b DEF limiterVars, LetIn
  <2>7. QED
    BY <2>1, <2>2, <2>3, <2>4, <2>5, <2>6 DEF LimiterNext
<1>3. QED
  BY <1>1, <1>2, LimiterTypeCorrect, PTL DEF LimiterSpec

\* A count that locks logins ends, unless the call that gives it its lifetime was lost:
\* RecordLoginFail makes it after the INCR, and only the first failure does.
THEOREM LocksHaveEnd == LimiterSpec => []LockHasEnd
<1>1. LimiterInit => LockHasEnd
  BY DEF LimiterInit, LockHasEnd
<1>2. LimiterType /\ LockHasEnd /\ [LimiterNext]_limiterVars => LockHasEnd'
  <2> SUFFICES ASSUME LimiterType, LockHasEnd, [LimiterNext]_limiterVars PROVE LockHasEnd'
    OBVIOUS
  <2> USE DEF LimiterType, LockHasEnd
  <2>1. ASSUME NEW a \in Attempt, CheckLoginAllowed(a) PROVE LockHasEnd'
    BY <2>1 DEF CheckLoginAllowed, To
  <2>2. ASSUME NEW a \in Attempt, Incr(a) PROVE LockHasEnd'
    BY <2>2 DEF Incr, To
  <2>3. ASSUME NEW a \in Attempt, IncrLost(a) \/ Accepts(a, "key") \/ Accepts(a, "password") \/ Answers(a) PROVE LockHasEnd'
    BY <2>3 DEF IncrLost, Accepts, Answers, To
  <2>4. ASSUME NEW a \in Attempt, Expire(a) PROVE LockHasEnd'
    BY <2>4 DEF Expire, To
  <2>5. ASSUME NEW a \in Attempt, ExpireLost(a) PROVE LockHasEnd'
    BY <2>5 DEF ExpireLost, To
  <2>6. ASSUME NEW a \in Attempt, ClearLoginFails(a) PROVE LockHasEnd'
    BY <2>6 DEF ClearLoginFails, To
  <2>7. CASE Expires
    BY <2>7 DEF Expires
  <2>8. CASE UNCHANGED limiterVars
    BY <2>8 DEF limiterVars
  <2>9. QED
    BY <2>1, <2>2, <2>3, <2>4, <2>5, <2>6, <2>7, <2>8 DEF LimiterNext
<1>3. QED
  BY <1>1, <1>2, LimiterTypeCorrect, PTL DEF LimiterSpec

=============================================================================
