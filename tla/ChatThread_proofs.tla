-------------------------- MODULE ChatThread_proofs --------------------------
(***************************************************************************)
(* Proofs about the chat messages of a thread, for any number of handlers, *)
(* administrators, messages and tickets.                                   *)
(***************************************************************************)
EXTENDS ChatThread, FiniteSetTheorems, TLAPS

USE ChatAssumption

\* While a handler that read "no ticket waits" is at its call, none does.
AskInv ==
    \A h \in Handler :
        pc[h] \in {"chat", "chatting", "ensure"} /\ ~told[h] => Having("pending") = {}

IInv == TypeOK /\ LockExact /\ AskInv

-----------------------------------------------------------------------------
LEMMA InitInv == Init => IInv
<1> SUFFICES ASSUME Init PROVE IInv
  OBVIOUS
<1> USE DEF Init, Section, Waiting, Proc, TicketId
<1>1. Types
  <2>1. tks \in Seq({"pending", "handling", "ended"}) /\ Len(tks) <= MaxTickets
    OBVIOUS
  <2>2. msgs \in Seq(TicketId) /\ Len(msgs) <= MaxMsgs
    OBVIOUS
  <2>3. seen \in [Proc -> TicketId]
    OBVIOUS
  <2> QED BY <2>1, <2>2, <2>3 DEF Types
<1>2. Linked
  BY DEF Linked
<1>3. LockExact /\ AskInv
  BY DEF LockExact, AskInv
<1> QED BY <1>1, <1>2, <1>3 DEF IInv, TypeOK

-----------------------------------------------------------------------------
(* The type invariant.                                                     *)

\* Assigning a message keeps the sequence of messages.
LEMMA AssignType ==
  ASSUME msgs \in Seq(TicketId), NEW k \in TicketId, AssignLastUserMessage(k)
  PROVE  msgs' \in Seq(TicketId) /\ Len(msgs') = Len(msgs)
BY DEF AssignLastUserMessage, Unassigned

Status == {"pending", "handling", "ended"}

\* Giving a ticket a status keeps the sequence of tickets.
LEMMA StatusType ==
  ASSUME tks \in Seq(Status), NEW k \in DOMAIN tks, NEW s \in Status,
         tks' = [tks EXCEPT ![k] = s]
  PROVE  tks' \in Seq(Status) /\ Len(tks') = Len(tks)
BY DEF Status

LEMMA TypesInductive == TypeOK /\ [Next]_vars => Types'
<1> SUFFICES ASSUME TypeOK, [Next]_vars PROVE Types'
  OBVIOUS
<1> USE DEF TypeOK, Types, Linked, Goes, Proc, Waiting, Section, TicketId, callVars
<1>1. ASSUME NEW h \in Handler, Receive(h) PROVE Types'
  BY <1>1 DEF Receive
<1>2. ASSUME NEW h \in Handler, Handles(h) PROVE Types'
  <2>1. CASE ReadHandling(h)
    <3>1. \A k \in Having("handling") : k \in TicketId
      BY DEF Having
    <3>2. seen' \in [Proc -> TicketId]
      BY <2>1, <3>1, ZenonT(60) DEF ReadHandling
    <3>3. pc' \in [Proc -> Section \cup {"idle", "saved", "human", "ai", "write"}]
      BY <2>1 DEF ReadHandling
    <3> QED BY <2>1, <3>2, <3>3 DEF ReadHandling
  <2>2. CASE ToHuman(h)
    <3>1. seen[h] \in TicketId /\ AssignLastUserMessage(seen[h])
      BY <2>2 DEF ToHuman
    <3>2. msgs' \in Seq(TicketId) /\ Len(msgs') = Len(msgs)
      BY <3>1, AssignType
    <3> QED BY <2>2, <3>2 DEF ToHuman, Leaves
  <2>3. CASE Declines(h) \/ ThreadBusy(h) \/ OverDailyQuota(h) \/ UnlockThread(h)
    <3>1. Leaves(h) /\ locked' \in BOOLEAN /\ UNCHANGED <<callVars, tks, msgs>>
      BY <2>3 DEF Declines, ThreadBusy, OverDailyQuota, UnlockThread
    <3> QED BY <3>1 DEF Leaves
  <2>4. CASE TryLockThread(h) \/ ReadPending(h) \/ EnsureFails(h)
    BY <2>4 DEF TryLockThread, ReadPending, EnsureFails, Having
  <2>5. CASE EnsureTicket(h)
    <3>1. CASE tks' = tks /\ seen' = seen
      BY <2>5, <3>1 DEF EnsureTicket
    <3>2. ASSUME NEW s \in {"pending", "handling"}, tks' = Append(tks, s),
                 Len(tks) < MaxTickets, seen' = [seen EXCEPT ![h] = Len(tks')]
          PROVE  Types'
      <4>1. tks' \in Seq(Status) /\ Len(tks') = Len(tks) + 1
        BY <3>2 DEF Status
      <4>2. Len(tks') \in TicketId
        BY <3>2, <4>1
      <4>3. seen' \in [Proc -> TicketId]
        BY <3>2, <4>2
      <4>4. pc' \in [Proc -> Section \cup {"idle", "saved", "human", "ai", "write"}]
        BY <2>5 DEF EnsureTicket
      <4>5. UNCHANGED <<locked, callVars, told, msgs>>
        BY <2>5, Zenon DEF EnsureTicket
      <4>6. tks' \in Seq({"pending", "handling", "ended"}) /\ Len(tks') <= MaxTickets
        BY <3>2, <4>1 DEF Status
      <4> QED BY <4>3, <4>4, <4>5, <4>6
    <3>3. \/ tks' = tks /\ seen' = seen
          \/ \E s \in {"pending", "handling"} :
               /\ tks' = Append(tks, s)
               /\ Len(tks) < MaxTickets
               /\ seen' = [seen EXCEPT ![h] = Len(tks')]
      BY <2>5, Zenon DEF EnsureTicket
    <3> HIDE DEF TypeOK, Types
    <3> QED BY <3>1, <3>2, <3>3, Zenon
  <2>6. CASE AssignRequest(h)
    <3>1. seen[h] \in TicketId /\ AssignLastUserMessage(seen[h])
      BY <2>6 DEF AssignRequest
    <3>2. msgs' \in Seq(TicketId) /\ Len(msgs') = Len(msgs)
      BY <3>1, AssignType
    <3> QED BY <2>6, <3>2 DEF AssignRequest
  <2> QED BY <1>2, <2>1, <2>2, <2>3, <2>4, <2>5, <2>6 DEF Handles
<1>3. ASSUME NEW p \in Proc, Calls(p) PROVE Types'
  <2>1. CASE Post(p)
    BY <2>1 DEF Post
  <2> DEFINE Moved == /\ pc' \in [Proc -> Section \cup {"idle", "saved", "human", "ai", "write"}]
                      /\ retried' \in [Proc -> BOOLEAN]
  <2>5. ASSUME Failed(p) PROVE Moved
    <3>1. After(p) \in {"unlock", "write", "idle"}
      BY DEF After
    <3>2. PICK s \in {"chat", "resume", "unlock", "write", "idle"} :
            pc' = [pc EXCEPT ![p] = s]
      <4> HIDE DEF TypeOK, Types, Linked
      <4> QED BY <2>5, <3>1 DEF Failed
    <3>3. PICK b \in BOOLEAN : retried' = [retried EXCEPT ![p] = b]
      BY <2>5 DEF Failed
    <3>4. pc' \in [Proc -> Section \cup {"idle", "saved", "human", "ai", "write"}]
      BY <3>2
    <3>5. retried' \in [Proc -> BOOLEAN]
      BY <3>3
    <3> QED BY <3>4, <3>5
  <2>2. CASE PostFails(p)
    BY <2>2, <2>5 DEF PostFails
  <2>3. CASE Lost(p)
    <3>1. orphans' \subseteq Kind
      BY <2>3 DEF Lost, Kind, KindOf
    <3> QED BY <2>3, <2>5, <3>1 DEF Lost
  <2>4. CASE Answered(p)
    BY <2>4 DEF Answered, After
  <2> QED BY <1>3, <2>1, <2>2, <2>3, <2>4 DEF Calls
<1>4. ASSUME NEW p \in Proc, Ends(p) \/ Interrupts(p) PROVE Types'
  BY <1>4, ZenonT(60) DEF Ends, Interrupts
<1>5. ASSUME NEW kind \in Kind, OrphanEnds(kind) PROVE Types'
  BY <1>5 DEF OrphanEnds
<1>6. ASSUME NEW d \in Desk, NEW k \in DOMAIN tks, BeginTakeover(d, k) \/ CancelTicket(d, k)
      PROVE  Types'
  <2>1. k \in TicketId
    OBVIOUS
  <2>2. CASE BeginTakeover(d, k)
    BY <2>1, <2>2 DEF BeginTakeover
  <2>3. CASE CancelTicket(d, k)
    <3>1. tks' \in Seq(Status) /\ Len(tks') = Len(tks)
      BY <2>3, StatusType DEF CancelTicket, Status
    <3> QED BY <2>3, <3>1 DEF CancelTicket, Status
  <2> QED BY <1>6, <2>2, <2>3
<1>7. ASSUME NEW d \in Desk, EndTakeover(d) PROVE Types'
  <2>1. seen[d] \in DOMAIN tks
    BY <1>7 DEF EndTakeover
  <2>2. tks' \in Seq(Status) /\ Len(tks') = Len(tks)
    BY <1>7, <2>1, StatusType DEF EndTakeover, Status
  <2> QED BY <1>7, <2>2 DEF EndTakeover, Status
<1>8. ASSUME NEW k \in DOMAIN tks, TransferTicket(k) \/ CloseTicket(k) PROVE Types'
  <2>1. tks' \in Seq(Status) /\ Len(tks') = Len(tks)
    BY <1>8, StatusType DEF TransferTicket, CloseTicket, Status
  <2> QED BY <1>8, <2>1 DEF TransferTicket, CloseTicket, Status
<1>9. CASE UNCHANGED vars
  BY <1>9 DEF vars
<1> QED BY <1>1, <1>2, <1>3, <1>4, <1>5, <1>6, <1>7, <1>8, <1>9 DEF Next

LEMMA LinkedInductive == TypeOK /\ [Next]_vars => Linked'
<1> SUFFICES ASSUME TypeOK, [Next]_vars PROVE Linked'
  OBVIOUS
<1> USE DEF TypeOK, Types, Linked, Goes, Proc, Waiting, Section, TicketId, callVars
<1>1. ASSUME NEW h \in Handler, Receive(h) PROVE Linked'
  BY <1>1, ZenonT(60) DEF Receive
<1>2. ASSUME NEW h \in Handler, Handles(h) PROVE Linked'
  <2>1. CASE ReadHandling(h)
    <3>1. CASE pc' = [pc EXCEPT ![h] = "ai"] /\ UNCHANGED <<callVars, seen, tks>>
      BY <2>1, <3>1 DEF ReadHandling
    <3>2. ASSUME NEW k \in DOMAIN tks, seen' = [seen EXCEPT ![h] = k],
                 pc' = [pc EXCEPT ![h] = "human"], UNCHANGED <<callVars, tks>>
          PROVE  Linked'
      BY <2>1, <3>2 DEF ReadHandling
    <3> QED BY <2>1, <3>1, <3>2 DEF ReadHandling, Having
  <2>2. CASE \/ ToHuman(h) \/ Declines(h) \/ ThreadBusy(h)
             \/ OverDailyQuota(h) \/ UnlockThread(h)
    <3>1. Leaves(h) /\ UNCHANGED <<callVars, tks>> /\ pc[h] \notin Waiting
      BY <2>2 DEF ToHuman, Declines, ThreadBusy, OverDailyQuota, UnlockThread
    <3> QED BY <3>1 DEF Leaves
  <2>3. CASE TryLockThread(h) \/ ReadPending(h) \/ EnsureFails(h) \/ AssignRequest(h)
    BY <2>3 DEF TryLockThread, ReadPending, EnsureFails, AssignRequest
  <2>4. CASE EnsureTicket(h)
    <3>1. CASE /\ tks' = tks /\ seen' = seen
               /\ \E s \in {"resume", "unlock"} : pc' = [pc EXCEPT ![h] = s]
      BY <2>4, <3>1 DEF EnsureTicket
    <3>2. CASE /\ Len(tks') = Len(tks) + 1
               /\ seen' = [seen EXCEPT ![h] = Len(tks')]
               /\ pc' = [pc EXCEPT ![h] = "assign"]
      BY <2>4, <3>2 DEF EnsureTicket
    <3> QED BY <2>4, <3>1, <3>2 DEF EnsureTicket
  <2> QED BY <1>2, <2>1, <2>2, <2>3, <2>4 DEF Handles
<1>3. ASSUME NEW p \in Proc, Calls(p) PROVE Linked'
  <2>1. p \notin Handler => p \in Desk
    OBVIOUS
  <2>2. CASE Post(p)
    BY <2>2 DEF Post
  <2>3. PICK s : s = IF MayRetry(p)
                     THEN IF pc[p] \in {"chat", "chatting"} THEN "chat" ELSE "resume"
                     ELSE After(p)
    OBVIOUS
  <2>4. /\ s \in {"chat", "resume", "unlock", "write", "idle"}
        /\ s = "write" => seen[p] # 0
        /\ p \in Desk => s # "unlock" /\ s # "chat"
    BY <2>1, <2>3 DEF After
  <2>5. Failed(p) => pc' = [pc EXCEPT ![p] = s]
    BY <2>3 DEF Failed
  <2>6. CASE PostFails(p)
    BY <2>4, <2>5, <2>6 DEF PostFails
  <2>7. CASE Lost(p)
    BY <2>4, <2>5, <2>7 DEF Lost
  <2>8. CASE Answered(p)
    BY <2>1, <2>8, ZenonT(60) DEF Answered, After
  <2> QED BY <1>3, <2>2, <2>6, <2>7, <2>8 DEF Calls
<1>4. ASSUME NEW p \in Proc, Ends(p) \/ Interrupts(p) PROVE Linked'
  BY <1>4 DEF Ends, Interrupts
<1>5. ASSUME NEW kind \in Kind, OrphanEnds(kind) PROVE Linked'
  BY <1>5 DEF OrphanEnds
<1>6. ASSUME NEW d \in Desk, NEW k \in DOMAIN tks, BeginTakeover(d, k) \/ CancelTicket(d, k)
      PROVE  Linked'
  <2>1. Len(tks') = Len(tks) /\ k <= Len(tks) /\ k # 0 /\ k \in Nat /\ call' = call
    BY <1>6 DEF BeginTakeover, CancelTicket
  <2>2. CASE BeginTakeover(d, k)
    BY <2>1, <2>2 DEF BeginTakeover
  <2>3. CASE CancelTicket(d, k)
    BY <2>1, <2>3 DEF CancelTicket
  <2> QED BY <1>6, <2>2, <2>3
<1>7. ASSUME NEW d \in Desk, EndTakeover(d) PROVE Linked'
  BY <1>7 DEF EndTakeover
<1>8. ASSUME NEW k \in DOMAIN tks, TransferTicket(k) \/ CloseTicket(k) PROVE Linked'
  BY <1>8 DEF TransferTicket, CloseTicket
<1>9. CASE UNCHANGED vars
  BY <1>9 DEF vars
<1> QED BY <1>1, <1>2, <1>3, <1>4, <1>5, <1>6, <1>7, <1>8, <1>9 DEF Next

-----------------------------------------------------------------------------
(* The lock, and what is known under it.                                   *)

\* The step leaves the lock, and who is between taking and giving it, alone.
Undisturbed ==
    /\ locked' = locked
    /\ \A h \in Handler : pc'[h] \in Section <=> pc[h] \in Section

LEMMA UndisturbedSteps ==
  ASSUME TypeOK, [Next]_vars,
         ~ \E h \in Handler : TryLockThread(h) \/ OverDailyQuota(h) \/ UnlockThread(h)
  PROVE  Undisturbed
<1> USE DEF Undisturbed, TypeOK, Types, Linked, Goes, Proc, Waiting, Section
<1>1. ASSUME NEW h \in Handler, Receive(h) PROVE Undisturbed
  BY <1>1 DEF Receive
<1>2. ASSUME NEW h \in Handler, Handles(h) PROVE Undisturbed
  <2>1. CASE ReadHandling(h)
    BY <2>1 DEF ReadHandling
  <2>2. CASE ToHuman(h) \/ Declines(h) \/ ThreadBusy(h)
    BY <2>2 DEF ToHuman, Declines, ThreadBusy, Leaves
  <2>3. CASE ReadPending(h) \/ EnsureFails(h) \/ AssignRequest(h)
    BY <2>3 DEF ReadPending, EnsureFails, AssignRequest
  <2>4. CASE EnsureTicket(h)
    BY <2>4 DEF EnsureTicket
  <2> QED BY <1>2, <2>1, <2>2, <2>3, <2>4 DEF Handles
<1>3. ASSUME NEW p \in Proc, Calls(p) PROVE Undisturbed
  <2>1. p \in Handler => After(p) = "unlock"
    BY DEF After
  <2>2. p \notin Handler \/ p \notin Desk
    OBVIOUS
  <2>3. CASE Post(p)
    BY <2>3 DEF Post
  <2>4. CASE PostFails(p)
    BY <2>1, <2>4 DEF PostFails, Failed
  <2>5. CASE Lost(p)
    BY <2>1, <2>5 DEF Lost, Failed
  <2>6. CASE Answered(p)
    BY <2>1, <2>6 DEF Answered
  <2> QED BY <1>3, <2>3, <2>4, <2>5, <2>6 DEF Calls
<1>4. ASSUME NEW p \in Proc, Ends(p) \/ Interrupts(p) PROVE Undisturbed
  BY <1>4 DEF Ends, Interrupts
<1>5. ASSUME NEW kind \in Kind, OrphanEnds(kind) PROVE Undisturbed
  BY <1>5 DEF OrphanEnds
<1>6. ASSUME NEW d \in Desk, NEW k \in DOMAIN tks, BeginTakeover(d, k) \/ CancelTicket(d, k)
      PROVE  Undisturbed
  BY <1>6 DEF BeginTakeover, CancelTicket
<1>7. ASSUME NEW d \in Desk, EndTakeover(d) PROVE Undisturbed
  BY <1>7 DEF EndTakeover
<1>8. ASSUME NEW k \in DOMAIN tks, TransferTicket(k) \/ CloseTicket(k) PROVE Undisturbed
  BY <1>8 DEF TransferTicket, CloseTicket
<1>9. CASE UNCHANGED vars
  BY <1>9 DEF vars
<1> QED BY <1>1, <1>2, <1>3, <1>4, <1>5, <1>6, <1>7, <1>8, <1>9 DEF Next

LEMMA LockInductive ==
  ASSUME TypeOK, LockExact, [Next]_vars
  PROVE  LockExact'
<1> USE DEF LockExact, TypeOK, Types, Goes, Proc
<1>1. CASE Undisturbed
  BY <1>1 DEF Undisturbed
<1>2. ASSUME NEW h \in Handler, TryLockThread(h) PROVE LockExact'
  <2>1. \A g \in Handler : pc[g] \notin Section
    BY <1>2 DEF TryLockThread
  <2>2. \A g \in Handler : pc'[g] \in Section <=> g = h
    BY <1>2, <2>1 DEF TryLockThread, Section
  <2>3. locked' = TRUE
    BY <1>2 DEF TryLockThread
  <2> QED BY <2>2, <2>3
<1>3. ASSUME NEW h \in Handler, OverDailyQuota(h) \/ UnlockThread(h) PROVE LockExact'
  <2>1. pc[h] \in Section /\ locked' = FALSE /\ pc' = [pc EXCEPT ![h] = "idle"]
    BY <1>3 DEF OverDailyQuota, UnlockThread, Leaves, Section
  <2>2. \A g \in Handler : pc'[g] \notin Section
    BY <2>1 DEF Section, Waiting
  <2> QED BY <2>1, <2>2
<1> QED BY <1>1, <1>2, <1>3, UndisturbedSteps

-----------------------------------------------------------------------------
(* What a handler read about waiting tickets.                              *)

\* A step that makes no ticket makes none wait.
LEMMA NoneStartsToWait ==
  ASSUME TypeOK, [Next]_vars, ~ \E h \in Handler : EnsureTicket(h)
  PROVE  Having("pending")' \subseteq Having("pending")
<1> USE DEF Having, TypeOK, Types, Linked, Goes, callVars
<1>1. CASE UNCHANGED tks
  BY <1>1
<1>2. ASSUME NEW k \in DOMAIN tks, NEW s \in {"handling", "ended"},
             tks' = [tks EXCEPT ![k] = s]
      PROVE  Having("pending")' \subseteq Having("pending")
  BY <1>2
<1>3. ASSUME NEW h \in Handler, Receive(h) \/ Handles(h) PROVE UNCHANGED tks
  BY <1>3, Zenon DEF Receive, Handles, ReadHandling, ToHuman, Declines, TryLockThread,
     ThreadBusy, OverDailyQuota, ReadPending, EnsureFails, AssignRequest, UnlockThread
<1>4. ASSUME NEW p \in Proc, Calls(p) \/ Ends(p) \/ Interrupts(p) PROVE UNCHANGED tks
  BY <1>4, Zenon DEF Calls, Post, PostFails, Lost, Answered, Ends, Interrupts
<1>5. ASSUME NEW d \in Desk, NEW k \in DOMAIN tks, BeginTakeover(d, k) \/ CancelTicket(d, k)
      PROVE  Having("pending")' \subseteq Having("pending")
  BY <1>1, <1>2, <1>5 DEF BeginTakeover, CancelTicket
<1>6. ASSUME NEW d \in Desk, EndTakeover(d)
      PROVE  Having("pending")' \subseteq Having("pending")
  <2>1. seen[d] \in DOMAIN tks
    BY <1>6 DEF EndTakeover, Proc, TicketId
  <2> QED BY <1>2, <1>6, <2>1 DEF EndTakeover
<1>7. ASSUME NEW k \in DOMAIN tks, TransferTicket(k) \/ CloseTicket(k)
      PROVE  Having("pending")' \subseteq Having("pending")
  BY <1>2, <1>7 DEF TransferTicket, CloseTicket
<1>8. ASSUME NEW kind \in Kind, OrphanEnds(kind) PROVE UNCHANGED tks
  BY <1>8 DEF OrphanEnds
<1>9. CASE UNCHANGED vars
  BY <1>1, <1>9 DEF vars
<1> QED BY <1>1, <1>3, <1>4, <1>5, <1>6, <1>7, <1>8, <1>9 DEF Next

\* The steps in which a handler of AskInv's comes to know more, or enters its
\* range, are ReadPending and EnsureTicket; all others leave it as it is.
Knows(h) == pc[h] \in {"chat", "chatting", "ensure"} /\ ~told[h]

LEMMA KnowsSteps ==
  ASSUME TypeOK, [Next]_vars, ~ \E g \in Handler : ReadPending(g) \/ EnsureTicket(g),
         NEW h \in Handler, Knows(h)'
  PROVE  Knows(h)
<1> USE DEF Knows, TypeOK, Types, Linked, Goes, Proc, Waiting, callVars
<1>1. ASSUME NEW g \in Handler, Receive(g) PROVE Knows(h)
  BY <1>1 DEF Receive
<1>2. ASSUME NEW g \in Handler, Handles(g) PROVE Knows(h)
  <2>1. CASE ReadHandling(g)
    BY <2>1 DEF ReadHandling
  <2>2. CASE \/ ToHuman(g) \/ Declines(g) \/ ThreadBusy(g)
             \/ OverDailyQuota(g) \/ UnlockThread(g)
    <3>1. Leaves(g)
      BY <2>2 DEF ToHuman, Declines, ThreadBusy, OverDailyQuota, UnlockThread
    <3> QED BY <3>1 DEF Leaves
  <2>3. CASE TryLockThread(g) \/ EnsureFails(g) \/ AssignRequest(g)
    BY <2>3 DEF TryLockThread, EnsureFails, AssignRequest
  <2> QED BY <1>2, <2>1, <2>2, <2>3 DEF Handles
<1>3. ASSUME NEW p \in Proc, Calls(p) PROVE Knows(h)
  <2>1. p \in Handler => After(p) = "unlock"
    BY DEF After
  <2>2. p \notin Handler \/ p \notin Desk
    OBVIOUS
  <2>3. CASE Post(p)
    BY <2>3 DEF Post
  <2>4. CASE PostFails(p)
    BY <2>1, <2>4 DEF PostFails, Failed
  <2>5. CASE Lost(p)
    BY <2>1, <2>5 DEF Lost, Failed
  <2>6. CASE Answered(p)
    BY <2>1, <2>6 DEF Answered
  <2> QED BY <1>3, <2>3, <2>4, <2>5, <2>6 DEF Calls
<1>4. ASSUME NEW p \in Proc, Ends(p) \/ Interrupts(p) PROVE Knows(h)
  BY <1>4 DEF Ends, Interrupts
<1>5. ASSUME NEW kind \in Kind, OrphanEnds(kind) PROVE Knows(h)
  BY <1>5 DEF OrphanEnds
<1>6. ASSUME NEW d \in Desk, NEW k \in DOMAIN tks, BeginTakeover(d, k) \/ CancelTicket(d, k)
      PROVE  Knows(h)
  BY <1>6 DEF BeginTakeover, CancelTicket
<1>7. ASSUME NEW d \in Desk, EndTakeover(d) PROVE Knows(h)
  BY <1>7 DEF EndTakeover
<1>8. ASSUME NEW k \in DOMAIN tks, TransferTicket(k) \/ CloseTicket(k) PROVE Knows(h)
  BY <1>8 DEF TransferTicket, CloseTicket
<1>9. CASE UNCHANGED vars
  BY <1>9 DEF vars
<1> QED BY <1>1, <1>2, <1>3, <1>4, <1>5, <1>6, <1>7, <1>8, <1>9 DEF Next

\* Tickets start to wait under the lock only, so nobody else knows of none then.
LEMMA AskInductive ==
  ASSUME TypeOK, LockExact, AskInv, [Next]_vars
  PROVE  AskInv'
<1> USE DEF TypeOK, Types, Goes, Proc, AskInv
<1>1. CASE ~ \E g \in Handler : ReadPending(g) \/ EnsureTicket(g)
  <2>1. Having("pending")' \subseteq Having("pending")
    BY <1>1, NoneStartsToWait
  <2>2. \A h \in Handler : Knows(h)' => Knows(h)
    BY <1>1, KnowsSteps
  <2> HIDE DEF TypeOK
  <2> QED BY <2>1, <2>2 DEF Knows
<1>2. ASSUME NEW g \in Handler, ReadPending(g) PROVE AskInv'
  <2>1. /\ told' = [told EXCEPT ![g] = Having("pending") # {}]
        /\ pc' = [pc EXCEPT ![g] = "chat"]
        /\ tks' = tks
    BY <1>2 DEF ReadPending
  <2>2. Having("pending")' = Having("pending")
    BY <2>1 DEF Having
  <2> QED BY <2>1, <2>2
<1>3. ASSUME NEW g \in Handler, EnsureTicket(g) PROVE AskInv'
  <2>1. pc[g] = "ensure" /\ told' = told
    BY <1>3 DEF EnsureTicket
  <2>2. \A h \in Handler \ {g} : pc'[h] = pc[h] /\ pc[h] \notin Section
    BY <1>3, <2>1 DEF EnsureTicket, LockExact, Section
  <2>3. pc'[g] \in {"resume", "unlock", "assign"}
    BY <1>3 DEF EnsureTicket
  <2> QED BY <2>1, <2>2, <2>3 DEF Section, Waiting
<1> QED BY <1>1, <1>2, <1>3

-----------------------------------------------------------------------------
(* Messages to mark.                                                       *)

\* The handlers that may yet mark a message are no more than the messages that
\* belong to no ticket.
Carry == {"saved", "human", "ai", "locked", "chat", "chatting", "ensure", "assign"}
Carriers == {h \in Handler : pc[h] \in Carry}

MarkInv == Cardinality(Carriers) <= Cardinality(Unassigned)

LEMMA Finite ==
  ASSUME TypeOK
  PROVE  /\ IsFiniteSet(Carriers) /\ Cardinality(Carriers) \in Nat
         /\ IsFiniteSet(Unassigned) /\ Cardinality(Unassigned) \in Nat
<1>1. IsFiniteSet(Carriers)
  BY FS_Subset DEF Carriers
<1>2. Unassigned \in SUBSET (1..Len(msgs)) /\ Len(msgs) \in Nat
  BY DEF TypeOK, Types, Unassigned
<1>3. IsFiniteSet(Unassigned)
  <2>1. IsFiniteSet(1..Len(msgs))
    BY <1>2, FS_Interval
  <2> QED BY <1>2, <2>1, FS_Subset
<1>4. Cardinality(Carriers) \in Nat
  BY <1>1, FS_CardinalityType
<1>5. Cardinality(Unassigned) \in Nat
  BY <1>3, FS_CardinalityType
<1> QED BY <1>1, <1>3, <1>4, <1>5

\* No other step makes anybody carry a message, or marks one.
LEMMA CarrySteps ==
  ASSUME TypeOK, [Next]_vars,
         ~ \E h \in Handler : Receive(h) \/ ToHuman(h) \/ AssignRequest(h)
  PROVE  Carriers' \subseteq Carriers /\ msgs' = msgs
<1> DEFINE Fewer == (\A h \in Handler : pc'[h] \in Carry => pc[h] \in Carry) /\ msgs' = msgs
<1> USE DEF TypeOK, Types, Linked, Goes, Proc, Waiting, Carry
<1>1. ASSUME NEW h \in Handler, Handles(h) PROVE Fewer
  <2>1. CASE ReadHandling(h)
    BY <2>1 DEF ReadHandling
  <2>2. CASE Declines(h) \/ ThreadBusy(h) \/ OverDailyQuota(h) \/ UnlockThread(h)
    BY <2>2 DEF Declines, ThreadBusy, OverDailyQuota, UnlockThread, Leaves
  <2>3. CASE TryLockThread(h) \/ ReadPending(h) \/ EnsureFails(h)
    BY <2>3 DEF TryLockThread, ReadPending, EnsureFails
  <2>4. CASE EnsureTicket(h)
    BY <2>4 DEF EnsureTicket
  <2> QED BY <1>1, <2>1, <2>2, <2>3, <2>4 DEF Handles
<1>2. ASSUME NEW p \in Proc, Calls(p) PROVE Fewer
  <2>1. p \in Handler => After(p) = "unlock"
    BY DEF After
  <2>2. p \notin Handler \/ p \notin Desk
    OBVIOUS
  <2>3. CASE Post(p)
    BY <2>3 DEF Post
  <2>4. CASE PostFails(p)
    BY <2>1, <2>4 DEF PostFails, Failed
  <2>5. CASE Lost(p)
    BY <2>1, <2>5 DEF Lost, Failed
  <2>6. CASE Answered(p)
    BY <2>1, <2>6 DEF Answered
  <2> QED BY <1>2, <2>3, <2>4, <2>5, <2>6 DEF Calls
<1>3. ASSUME NEW p \in Proc, Ends(p) \/ Interrupts(p) PROVE Fewer
  BY <1>3 DEF Ends, Interrupts
<1>4. ASSUME NEW kind \in Kind, OrphanEnds(kind) PROVE Fewer
  BY <1>4 DEF OrphanEnds
<1>5. ASSUME NEW d \in Desk, NEW k \in DOMAIN tks, BeginTakeover(d, k) \/ CancelTicket(d, k)
      PROVE  Fewer
  BY <1>5 DEF BeginTakeover, CancelTicket
<1>6. ASSUME NEW d \in Desk, EndTakeover(d) PROVE Fewer
  BY <1>6 DEF EndTakeover
<1>7. ASSUME NEW k \in DOMAIN tks, TransferTicket(k) \/ CloseTicket(k) PROVE Fewer
  BY <1>7 DEF TransferTicket, CloseTicket
<1>8. ASSUME UNCHANGED vars PROVE Fewer
  BY <1>8 DEF vars
<1> HIDE DEF Fewer, TypeOK, Proc
<1>9. Fewer
  BY <1>1, <1>2, <1>3, <1>4, <1>5, <1>6, <1>7, <1>8 DEF Next
<1> QED BY <1>9 DEF Carriers, Fewer

\* Marking takes one message at most.
LEMMA MarksOne ==
  ASSUME TypeOK, NEW k \in TicketId \ {0}, AssignLastUserMessage(k)
  PROVE  \E i : Unassigned' = Unassigned \ {i}
<1> USE DEF TypeOK, Types, TicketId
<1>1. DOMAIN msgs' = DOMAIN msgs
  BY DEF AssignLastUserMessage
<1>2. CASE \E i \in Unassigned : \A j \in Unassigned : j <= i
  <2>1. PICK i \in Unassigned : \A j \in Unassigned : j <= i
    BY <1>2
  <2>2. \A l \in Unassigned : (\A j \in Unassigned : j <= l) <=> l = i
    BY <2>1 DEF Unassigned
  <2>3. \A l \in DOMAIN msgs : msgs'[l] = IF l = i THEN k ELSE msgs[l]
    BY <2>1, <2>2 DEF AssignLastUserMessage
  <2>4. Unassigned' = Unassigned \ {i}
    BY <1>1, <2>3 DEF Unassigned
  <2> QED BY <2>4
<1>3. CASE ~ \E i \in Unassigned : \A j \in Unassigned : j <= i
  <2>1. \A l \in DOMAIN msgs : msgs'[l] = msgs[l]
    BY <1>3 DEF AssignLastUserMessage
  <2>2. Unassigned' = Unassigned
    BY <1>1, <2>1 DEF Unassigned
  <2>3. Unassigned' = Unassigned \ {0}
    BY <2>2 DEF Unassigned
  <2> QED BY <2>3
<1> QED BY <1>2, <1>3

LEMMA MarkInductive ==
  ASSUME TypeOK, MarkInv, [Next]_vars
  PROVE  MarkInv'
<1>0. /\ IsFiniteSet(Carriers) /\ Cardinality(Carriers) \in Nat
      /\ IsFiniteSet(Unassigned) /\ Cardinality(Unassigned) \in Nat
  BY Finite
<1> USE <1>0
<1>1. CASE ~ \E h \in Handler : Receive(h) \/ ToHuman(h) \/ AssignRequest(h)
  <2>1. Carriers' \subseteq Carriers /\ Unassigned' = Unassigned
    BY <1>1, CarrySteps DEF Unassigned
  <2>2. Cardinality(Carriers') <= Cardinality(Carriers) /\ Cardinality(Carriers') \in Nat
    BY <2>1, FS_Subset, FS_CardinalityType
  <2> QED BY <2>1, <2>2 DEF MarkInv
<1>2. ASSUME NEW h \in Handler, Receive(h) PROVE MarkInv'
  <2>1. Carriers' = Carriers \cup {h}
    BY <1>2 DEF Receive, Goes, Carriers, Carry, TypeOK, Types, Proc
  <2>2. Len(msgs) + 1 \notin Unassigned
    BY DEF Unassigned, TypeOK, Types
  <2>3. Unassigned' = Unassigned \cup {Len(msgs) + 1}
    BY <1>2 DEF Receive, Unassigned, TypeOK, Types
  <2>4. Cardinality(Carriers') \in {Cardinality(Carriers), Cardinality(Carriers) + 1}
    BY <2>1, FS_AddElement, Zenon
  <2>5. Cardinality(Unassigned') = Cardinality(Unassigned) + 1
    BY <2>2, <2>3, FS_AddElement
  <2> QED BY <2>4, <2>5 DEF MarkInv
<1>3. ASSUME NEW h \in Handler, ToHuman(h) \/ AssignRequest(h) PROVE MarkInv'
  <2>1. seen[h] \in TicketId \ {0} /\ AssignLastUserMessage(seen[h])
    BY <1>3 DEF ToHuman, AssignRequest, TypeOK, Types, Linked, Proc
  <2>2. PICK i : Unassigned' = Unassigned \ {i}
    BY <2>1, MarksOne
  <2>3. h \in Carriers /\ Carriers' = Carriers \ {h}
    BY <1>3 DEF ToHuman, AssignRequest, Leaves, Goes, Carriers, Carry, TypeOK, Types, Proc
  <2>4. Cardinality(Carriers') = Cardinality(Carriers) - 1
    BY <2>3, FS_RemoveElement
  <2>5. Cardinality(Unassigned') \in {Cardinality(Unassigned), Cardinality(Unassigned) - 1}
    BY <2>2, FS_RemoveElement, Zenon
  <2> QED BY <2>4, <2>5 DEF MarkInv
<1> QED BY <1>1, <1>2, <1>3

LEMMA MarkInit == Init => MarkInv
<1> SUFFICES ASSUME Init PROVE MarkInv
  OBVIOUS
<1>1. Carriers = {} /\ Unassigned = {}
  BY DEF Init, Carriers, Carry, Unassigned, Proc
<1> QED BY <1>1, FS_EmptySet DEF MarkInv

-----------------------------------------------------------------------------
(* The theorems.                                                           *)

\* In every reachable state the state is well typed, the lock is exact and
\* what handlers read of waiting tickets is still true.
THEOREM Invariance == Spec => []IInv
<1>1. IInv /\ [Next]_vars => IInv'
  BY TypesInductive, LinkedInductive, LockInductive, AskInductive DEF IInv, TypeOK
<1> QED BY InitInv, <1>1, PTL DEF Spec

\* Every call has a caller that waits for it, and every ticket in hand exists
\* (CallAgentChat, CallAgentChatStream, CallAgentResume, client.go:90-241).
THEOREM TypeCorrect == Spec => []TypeOK
BY Invariance, PTL DEF IInv

\* The thread's mutex is held exactly while one handler is between
\* TryLockThread and UnlockThread (hub.go:236-255, ws.go:159-186).
THEOREM LockCorrect == Spec => []LockExact
BY Invariance, PTL DEF IInv

\* Whoever marks a message as a ticket's finds one (store.go:67-73).
THEOREM MarkCorrect == Spec => []EachFindsAMessage
<1>1. IInv /\ MarkInv /\ [Next]_vars => MarkInv'
  BY MarkInductive DEF IInv
<1>2. IInv /\ MarkInv => EachFindsAMessage
  <2> SUFFICES ASSUME TypeOK, MarkInv PROVE EachFindsAMessage
    BY DEF IInv
  <2> DEFINE Marking == {h \in Handler : pc[h] \in {"human", "assign"}}
  <2>1. Marking \in SUBSET Carriers
    BY DEF Carriers, Carry
  <2>2. Cardinality(Marking) <= Cardinality(Carriers) /\ Cardinality(Marking) \in Nat
    BY <2>1, Finite, FS_Subset, FS_CardinalityType
  <2> QED BY <2>2, Finite DEF MarkInv, EachFindsAMessage
<1> QED BY Invariance, MarkInit, <1>1, <1>2, PTL DEF Spec

\* A chat call whose handler waits for it never asks for a human while a
\* ticket waits (ws.go:177, chat.go:57).
THEOREM NoSecondRequestCorrect == Spec => NoSecondRequest
<1> DEFINE Asked == \A h \in Handler : Interrupts(h) /\ pc[h] = "chatting" => Having("pending") = {}
<1>1. IInv => Asked
  <2> SUFFICES ASSUME IInv, NEW h \in Handler, Interrupts(h), pc[h] = "chatting"
               PROVE  Having("pending") = {}
    OBVIOUS
  <2>1. ~told[h]
    BY DEF Interrupts, KindOf
  <2> QED BY <2>1 DEF IInv, AskInv
<1>2. IInv /\ [Next]_vars => [Asked]_vars
  BY <1>1
<1> QED BY Invariance, <1>2, PTL DEF Spec, NoSecondRequest

=============================================================================
