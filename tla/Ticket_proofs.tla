---------------------------- MODULE Ticket_proofs -----------------------------
(***************************************************************************)
(* Tickets and the counters of the agents, for any number of threads,      *)
(* agents, tickets and requests in flight.                                 *)
(***************************************************************************)
EXTENDS Ticket, SequenceTheorems, FiniteSetTheorems, TLAPS

-----------------------------------------------------------------------------
(* Lists of statements.                                                    *)

LEMMA TwoOf == ASSUME NEW S, NEW s \in Seq(S), Len(s) = 2 PROVE s = <<s[1], s[2]>>
  OBVIOUS

LEMMA ThreeOf == ASSUME NEW S, NEW s \in Seq(S), Len(s) = 3 PROVE s = <<s[1], s[2], s[3]>>
  OBVIOUS

LEMMA Pair == ASSUME NEW a, NEW b PROVE <<a>> \o <<b>> = <<a, b>>
<1> DEFINE S == {a, b}
<1>1. <<a>> \in Seq(S) /\ <<b>> \in Seq(S)
  OBVIOUS
<1>2. <<a>> \o <<b>> \in Seq(S) /\ Len(<<a>> \o <<b>>) = 2
  BY <1>1, ConcatProperties
<1>3. (<<a>> \o <<b>>)[1] = a /\ (<<a>> \o <<b>>)[2] = b
  BY <1>1, ConcatProperties
<1>4. QED
  BY <1>2, <1>3, TwoOf

LEMMA Triple == ASSUME NEW a, NEW b, NEW c PROVE <<a>> \o <<b, c>> = <<a, b, c>>
<1> DEFINE S == {a, b, c}
<1>1. <<a>> \in Seq(S) /\ <<b, c>> \in Seq(S)
  OBVIOUS
<1>2. <<a>> \o <<b, c>> \in Seq(S) /\ Len(<<a>> \o <<b, c>>) = 3
  BY <1>1, ConcatProperties
<1>3. /\ (<<a>> \o <<b, c>>)[1] = a /\ (<<a>> \o <<b, c>>)[2] = b
      /\ (<<a>> \o <<b, c>>)[3] = c
  BY <1>1, ConcatProperties
<1>4. QED
  BY <1>2, <1>3, ThreeOf

LEMMA Chain == ASSUME NEW a, NEW b, NEW c PROVE (<<a>> \o <<b>>) \o <<c>> = <<a, b, c>>
<1>1. <<a>> \in Seq({a, b, c}) /\ <<b>> \in Seq({a, b, c}) /\ <<c>> \in Seq({a, b, c})
  OBVIOUS
<1>2. (<<a>> \o <<b>>) \o <<c>> = <<a>> \o (<<b>> \o <<c>>)
  BY <1>1, ConcatAssociative
<1>3. QED
  BY <1>2, Pair, Triple

LEMMA NoLink == ASSUME NEW a, NEW b PROVE /\ (<<a>> \o <<>>) \o <<b>> = <<a, b>>
                                          /\ <<a>> \o <<>> = <<a>>
<1>1. <<a>> \o <<>> = <<a>>
  <2>1. <<a>> \in Seq({a})
    OBVIOUS
  <2>2. QED
    BY <2>1, ConcatEmptySeq
<1>2. QED
  BY <1>1, Pair

\* The plans of the operations, statement by statement.
Over(k, u) == Save([rows[k] EXCEPT !.st = "handling", !.hdl = u])
Ended(k, st) == Save([rows[k] EXCEPT !.st = st])
NewRow(th, st, a) == [th |-> th, st |-> st, hdl |-> a, prio |-> 0]
TakeoverTodo(k, u) ==
    IF u = NoAgent THEN <<Assign(u), Over(k, u)>> ELSE <<Assign(u), Adjust(u, 1), Over(k, u)>>
CloseTodo(k, h) == IF h = NoAgent THEN <<Ended(k, "closed")>> ELSE <<Ended(k, "closed"), Adjust(h, -1)>>
TransferTodo(h, to) ==
    IF h = NoAgent THEN <<Hand(to), Adjust(to, 1)>> ELSE <<Hand(to), Adjust(h, -1), Adjust(to, 1)>>

LEMMA PlansAre ==
    /\ \A k, u : TakeoverPlan(rows[k], u) = TakeoverTodo(k, u)
    /\ \A k, h : <<Ended(k, "closed")>> \o AdjustFor(h, -1) = CloseTodo(k, h)
    /\ \A h, to : <<Hand(to)>> \o AdjustFor(h, -1) \o <<Adjust(to, 1)>> = TransferTodo(h, to)
<1>1. ASSUME NEW k, NEW u PROVE TakeoverPlan(rows[k], u) = TakeoverTodo(k, u)
  BY Chain, NoLink DEF TakeoverPlan, AdjustFor, TakeoverTodo, Over
<1>2. ASSUME NEW k, NEW h PROVE <<Ended(k, "closed")>> \o AdjustFor(h, -1) = CloseTodo(k, h)
  BY Pair, NoLink DEF AdjustFor, CloseTodo
<1>3. ASSUME NEW h, NEW to
      PROVE  <<Hand(to)>> \o AdjustFor(h, -1) \o <<Adjust(to, 1)>> = TransferTodo(h, to)
  BY Chain, NoLink DEF AdjustFor, TransferTodo
<1>4. QED
  BY <1>1, <1>2, <1>3

-----------------------------------------------------------------------------
(* Types.                                                                  *)

ReqType == [op : Op, k : Nat, agents : SUBSET Agent, todo : Seq(Stmt)]

LEMMA StmtMade ==
    /\ \A u \in Uid : Assign(u) \in Stmt /\ Hand(u) \in Stmt
    /\ \A row \in Row : Save(row) \in Stmt
    /\ \A a \in Agent, d \in {-1, 1} : Adjust(a, d) \in Stmt
    /\ \A a \in Agent, n \in Nat, st \in 0..2 : Put(a, n, st) \in Stmt /\ Put(a, n, st) \in PutStmt
    /\ \A row \in Row, put \in PutStmt \cup {<<>>} : Create(row, put) \in Stmt
<1> USE DEF Stmt
<1>1. \A u \in Uid : Assign(u) \in Stmt /\ Hand(u) \in Stmt
  BY DEF Assign, Hand
<1>2. \A row \in Row : Save(row) \in Stmt
  BY DEF Save
<1>3. \A a \in Agent, d \in {-1, 1} : Adjust(a, d) \in Stmt
  BY DEF Adjust
<1>4. \A a \in Agent, n \in Nat, st \in 0..2 : Put(a, n, st) \in Stmt /\ Put(a, n, st) \in PutStmt
  BY DEF Put, PutStmt
<1>5. \A row \in Row, put \in PutStmt \cup {<<>>} : Create(row, put) \in Stmt
  BY DEF Create
<1>6. QED
  BY <1>1, <1>2, <1>3, <1>4, <1>5

LEMMA StmtParts ==
    ASSUME NEW s \in Stmt
    PROVE  /\ s.s \in {"assign", "hand"} => s.a \in Uid
           /\ s.s = "save" => s.row \in Row
           /\ s.s = "adjust" => s.a \in Agent /\ s.d \in {-1, 1}
           /\ s.s = "put" => s \in PutStmt
           /\ s.s = "create" => s.row \in Row /\ s.put \in PutStmt \cup {<<>>}
  BY DEF Stmt, PutStmt

LEMMA NewRowTypes ==
    ASSUME NEW row \in Row, NEW u \in Uid, NEW st \in Status
    PROVE  [row EXCEPT !.st = st] \in Row /\ [row EXCEPT !.st = st, !.hdl = u] \in Row
           /\ [row EXCEPT !.hdl = u] \in Row
  BY DEF Row

LEMMA RowTypes ==
    ASSUME TypeOK, NEW k \in DOMAIN rows
    PROVE  k \in Nat /\ k \in 1..Len(rows) /\ rows[k] \in Row /\ rows[k].hdl \in Uid /\ rows[k].st \in Status
<1>1. rows \in Seq(Row) /\ DOMAIN rows = 1..Len(rows) /\ Len(rows) \in Nat
  BY DEF TypeOK
<1>2. rows[k] \in Row
  BY <1>1, ElementOfSeq
<1>3. QED
  BY <1>1, <1>2 DEF Row

LEMMA PlanTypes ==
    ASSUME TypeOK, NEW k \in DOMAIN rows, NEW u \in Uid
    PROVE  /\ TakeoverTodo(k, u) \in Seq(Stmt)
           /\ CloseTodo(k, u) \in Seq(Stmt)
           /\ \A st \in Status : <<Ended(k, st)>> \in Seq(Stmt)
           /\ \A to \in Agent : TransferTodo(u, to) \in Seq(Stmt)
<1>1. /\ Assign(u) \in Stmt
      /\ \A a \in Agent : Hand(a) \in Stmt /\ Adjust(a, 1) \in Stmt /\ Adjust(a, -1) \in Stmt
      /\ u # NoAgent => u \in Agent
  BY StmtMade DEF Uid
<1>2. Over(k, u) \in Stmt /\ \A st \in Status : Ended(k, st) \in Stmt
  BY RowTypes, StmtMade, NewRowTypes DEF Status, Over, Ended
<1>3. TakeoverTodo(k, u) \in Seq(Stmt)
  BY <1>1, <1>2 DEF TakeoverTodo
<1>4. CloseTodo(k, u) \in Seq(Stmt)
  BY <1>1, <1>2 DEF CloseTodo, Status
<1>5. ASSUME NEW to \in Agent PROVE TransferTodo(u, to) \in Seq(Stmt)
  BY <1>1, <1>5 DEF TransferTodo
<1>6. ASSUME NEW st \in Status PROVE <<Ended(k, st)>> \in Seq(Stmt)
  BY <1>2, <1>6
<1>7. QED
  BY <1>3, <1>4, <1>5, <1>6

\* What Done leaves of a request.
LEMMA DoneIs ==
    ASSUME TypeOK, NEW r \in Req, req[r].todo # <<>>, NEW more \in Seq(Stmt), Done(r, more)
    PROVE  LET rest == more \o Tail(req[r].todo)
           IN  /\ rest \in Seq(Stmt)
               /\ \A q \in Req \ {r} : req'[q] = req[q]
               /\ rest = <<>> => req'[r] = Idle
               /\ rest # <<>> => req'[r] = [req[r] EXCEPT !.todo = rest]
               /\ req' \in [Req -> ReqType]
<1> DEFINE rest == more \o Tail(req[r].todo)
<1>1. req \in [Req -> ReqType] /\ req[r].todo \in Seq(Stmt)
  BY DEF TypeOK, ReqType
<1>2. Tail(req[r].todo) \in Seq(Stmt)
  BY <1>1, HeadTailProperties
<1>3. rest \in Seq(Stmt)
  BY <1>2, ConcatProperties
<1>4. req' = [req EXCEPT ![r] = IF rest = <<>> THEN Idle ELSE [req[r] EXCEPT !.todo = rest]]
  BY DEF Done
<1>5. Idle \in ReqType
  BY DEF Idle, ReqType, Op
<1>6. [req[r] EXCEPT !.todo = rest] \in ReqType
  BY <1>1, <1>3 DEF ReqType
<1> HIDE DEF rest
<1>7. QED
  BY <1>1, <1>3, <1>4, <1>5, <1>6 DEF rest

\* A request made by Begin.
Made(r, op, k, agents, todo) ==
    /\ req[r] = Idle /\ UNCHANGED <<rows, online, cnt>>
    /\ req'[r] = [op |-> op, k |-> k, agents |-> agents, todo |-> todo]
    /\ \A q \in Req \ {r} : req'[q] = req[q]
    /\ req' \in [Req -> ReqType]
    /\ clash' \in BOOLEAN
    /\ ~clash' => ~clash /\ ~Overlaps(k, agents)

LEMMA BeginMakes ==
    ASSUME TypeOK, NEW r \in Req, NEW op \in Op, NEW k \in Nat, NEW uids \in SUBSET Uid,
           NEW todo \in Seq(Stmt), NEW proper, Begin(r, op, k, uids, todo, proper)
    PROVE  Made(r, op, k, uids \ {NoAgent}, todo) /\ (~clash' => proper)
<1>1. req \in [Req -> ReqType]
  BY DEF TypeOK, ReqType
<1>2. [op |-> op, k |-> k, agents |-> uids \ {NoAgent}, todo |-> todo] \in ReqType
  BY DEF ReqType, Uid
<1>3. /\ req' = [req EXCEPT ![r] = [op |-> op, k |-> k, agents |-> uids \ {NoAgent}, todo |-> todo]]
      /\ req[r] = Idle /\ UNCHANGED <<rows, online, cnt>>
  BY DEF Begin
<1>4. clash' = (clash \/ ~proper \/ Overlaps(k, uids \ {NoAgent}))
  BY DEF Begin
<1>5. clash' \in BOOLEAN
  BY <1>4, Zenon
<1>6. ~clash' => ~clash /\ ~Overlaps(k, uids \ {NoAgent}) /\ proper
  BY <1>4, Zenon
<1>7. /\ req'[r] = [op |-> op, k |-> k, agents |-> uids \ {NoAgent}, todo |-> todo]
      /\ \A q \in Req \ {r} : req'[q] = req[q]
      /\ req' \in [Req -> ReqType]
  BY <1>1, <1>2, <1>3
<1>8. QED
  BY <1>3, <1>5, <1>6, <1>7, Zenon DEF Made

\* The requests that can start, each with its plan.
StartsTakeover(r) ==
    \E k \in DOMAIN rows, u \in Uid :
        /\ Made(r, "takeover", k, {u} \ {NoAgent}, TakeoverTodo(k, u))
        /\ ~clash' => rows[k].st = "pending"
StartsClose(r) ==
    \E k \in DOMAIN rows :
        /\ Made(r, "close", k, {rows[k].hdl} \ {NoAgent}, CloseTodo(k, rows[k].hdl))
        /\ rows[k].st # "closed"
StartsTransfer(r) ==
    \E k \in DOMAIN rows, to \in Agent :
        /\ Made(r, "transfer", k, {rows[k].hdl, to} \ {NoAgent}, TransferTodo(rows[k].hdl, to))
        /\ rows[k].st \in Open
StartsCancel(r) ==
    \E k \in DOMAIN rows :
        /\ Made(r, "cancel", k, {}, <<Ended(k, "canceled")>>)
        /\ ~clash' => rows[k].st = "pending"
StartsEnsure(r) ==
    \E th \in Thread :
        /\ OpenOf(th) = {} /\ ~Creating(th)
        /\ \/ Made(r, "ensure", 0, {}, <<Create(NewRow(th, "pending", NoAgent), <<>>)>>)
           \/ \E a \in Agent :
                 /\ cnt[a] < MaxConc
                 /\ LET put == Put(a, cnt[a] + 1, StatusFor(online[a], cnt[a] + 1))
                    IN  /\ put \in PutStmt
                        /\ Made(r, "ensure", 0, {a}, <<Create(NewRow(th, "handling", a), put)>>)

LEMMA StartKinds ==
    ASSUME TypeOK, NEW r \in Req, Starts(r)
    PROVE  \/ StartsTakeover(r) \/ StartsClose(r) \/ StartsTransfer(r)
           \/ StartsCancel(r) \/ StartsEnsure(r)
<1>1. Op = {"idle", "takeover", "close", "transfer", "cancel", "ensure"}
  BY DEF Op
<1>2. NoAgent \in Uid /\ Agent \subseteq Uid /\ NoAgent \notin Agent
  BY TicketAssumption DEF Uid
<1>3. ASSUME NEW k \in DOMAIN rows, NEW u \in Uid, NEW proper, proper => rows[k].st = "pending",
             NEW uids \in SUBSET Uid, uids \ {NoAgent} = {u} \ {NoAgent},
             Begin(r, "takeover", k, uids, TakeoverPlan(rows[k], u), proper)
      PROVE  StartsTakeover(r)
  <2>1. TakeoverTodo(k, u) \in Seq(Stmt) /\ TakeoverTodo(k, u) = TakeoverPlan(rows[k], u)
    BY PlansAre, PlanTypes
  <2>2. Made(r, "takeover", k, {u} \ {NoAgent}, TakeoverTodo(k, u)) /\ (~clash' => proper)
    <3>1. "takeover" \in Op /\ k \in Nat
      BY <1>1, RowTypes
    <3>2. Begin(r, "takeover", k, uids, TakeoverTodo(k, u), proper)
      BY <1>3, <2>1
    <3>3. Made(r, "takeover", k, uids \ {NoAgent}, TakeoverTodo(k, u)) /\ (~clash' => proper)
      BY <2>1, <3>1, <3>2, BeginMakes
    <3>4. QED
      BY <1>3, <3>3
  <2>3. QED
    BY <1>3, <2>2 DEF StartsTakeover
<1>4. ASSUME NEW k \in DOMAIN rows, NEW u \in Uid, Close(r, k, u) PROVE StartsClose(r)
  <2> DEFINE h == rows[k].hdl
  <2>1. CloseTodo(k, h) \in Seq(Stmt) /\ CloseTodo(k, h) = <<Ended(k, "closed")>> \o AdjustFor(h, -1)
    BY RowTypes, PlansAre, PlanTypes
  <2>2. Begin(r, "close", k, {h}, CloseTodo(k, h), TRUE) /\ rows[k].st # "closed"
    BY <1>4, <2>1 DEF Close, Ended
  <2>3. Made(r, "close", k, {h} \ {NoAgent}, CloseTodo(k, h))
    BY <1>1, <2>1, <2>2, RowTypes, BeginMakes
  <2>4. QED
    BY <2>2, <2>3 DEF StartsClose
<1>5. ASSUME NEW k \in DOMAIN rows, NEW u \in Uid, NEW to \in Agent, Transfer(r, k, u, to)
      PROVE  StartsTransfer(r)
  <2> DEFINE h == rows[k].hdl
  <2>1. /\ TransferTodo(h, to) \in Seq(Stmt)
        /\ TransferTodo(h, to) = <<Hand(to)>> \o AdjustFor(h, -1) \o <<Adjust(to, 1)>>
    BY RowTypes, PlansAre, PlanTypes
  <2>2. Begin(r, "transfer", k, {h, to}, TransferTodo(h, to), TRUE) /\ rows[k].st \in Open
    BY <1>5, <2>1 DEF Transfer
  <2>3. Made(r, "transfer", k, {h, to} \ {NoAgent}, TransferTodo(h, to))
    BY <1>1, <1>2, <2>1, <2>2, RowTypes, BeginMakes
  <2>4. QED
    BY <2>2, <2>3 DEF StartsTransfer
<1>6. ASSUME NEW k \in DOMAIN rows, ApproveCancels(r, k) PROVE StartsCancel(r)
  <2>1. <<Ended(k, "canceled")>> \in Seq(Stmt)
    <3>1. "canceled" \in Status
      BY DEF Status
    <3>2. QED
      BY <1>2, <3>1, PlanTypes
  <2>2. Begin(r, "cancel", k, {}, <<Ended(k, "canceled")>>, rows[k].st = "pending")
    BY <1>6 DEF ApproveCancels, Ended
  <2>3. Made(r, "cancel", k, {} \ {NoAgent}, <<Ended(k, "canceled")>>) /\ (~clash' => rows[k].st = "pending")
    BY <1>1, <2>1, <2>2, RowTypes, BeginMakes
  <2>4. QED
    BY <2>3 DEF StartsCancel
<1>7. ASSUME NEW th \in Thread, EnsureTicket(r, th) PROVE StartsEnsure(r)
  <2>1. NewRow(th, "pending", NoAgent) \in Row /\ \A a \in Agent : NewRow(th, "handling", a) \in Row
    BY <1>2, TicketAssumption DEF Row, NewRow, Status
  <2>2. CASE Begin(r, "ensure", 0, {}, <<Create(NewRow(th, "pending", NoAgent), <<>>)>>, TRUE)
    <3> DEFINE todo == <<Create(NewRow(th, "pending", NoAgent), <<>>)>>
    <3>1. Create(NewRow(th, "pending", NoAgent), <<>>) \in Stmt
      BY <2>1, StmtMade
    <3>2. todo \in Seq(Stmt)
      BY <3>1
    <3> HIDE DEF todo
    <3>3. Made(r, "ensure", 0, {} \ {NoAgent}, todo)
      BY <1>1, <2>2, <3>2, BeginMakes DEF todo
    <3>4. QED
      BY <1>7, <3>3 DEF StartsEnsure, EnsureTicket, todo
  <2>3. ASSUME NEW a \in Agent, Picks(a),
               Begin(r, "ensure", 0, {a},
                     <<Create(NewRow(th, "handling", a), Put(a, cnt[a] + 1, StatusFor(online[a], cnt[a] + 1)))>>, TRUE)
        PROVE  StartsEnsure(r)
    <3> DEFINE put == Put(a, cnt[a] + 1, StatusFor(online[a], cnt[a] + 1))
               todo == <<Create(NewRow(th, "handling", a), put)>>
    <3>1. cnt[a] + 1 \in Nat /\ StatusFor(online[a], cnt[a] + 1) \in 0..2
      BY DEF StatusFor, TypeOK
    <3>2. put \in PutStmt
      BY <3>1, StmtMade
    <3>3. Create(NewRow(th, "handling", a), put) \in Stmt
      BY <2>1, <3>2, StmtMade
    <3>4. todo \in Seq(Stmt)
      BY <3>3
    <3> HIDE DEF todo
    <3>5. Made(r, "ensure", 0, {a} \ {NoAgent}, todo) /\ {a} \ {NoAgent} = {a}
      BY <1>1, <1>2, <2>3, <3>4, BeginMakes DEF todo
    <3>6. cnt[a] < MaxConc
      BY <2>3 DEF Picks, Assignable
    <3>7. QED
      BY <1>7, <3>2, <3>5, <3>6 DEF StartsEnsure, EnsureTicket, todo
  <2>4. QED
    BY <1>7, <2>2, <2>3 DEF EnsureTicket, NewRow
<1>8. ASSUME NEW k \in DOMAIN rows, NEW u \in Uid, Takeover(r, k, u) PROVE StartsTakeover(r)
  <2>1. Begin(r, "takeover", k, {u}, TakeoverPlan(rows[k], u), TRUE) /\ rows[k].st = "pending"
    BY <1>8 DEF Takeover
  <2>2. {u} \in SUBSET Uid
    OBVIOUS
  <2>3. QED
    BY <1>3, <2>1, <2>2
<1>9. ASSUME NEW k \in DOMAIN rows, ApproveConfirms(r, k) PROVE StartsTakeover(r)
  <2>1. Begin(r, "takeover", k, {}, TakeoverPlan(rows[k], NoAgent), rows[k].st = "pending")
    BY <1>9 DEF ApproveConfirms
  <2>2. {} \in SUBSET Uid /\ {} \ {NoAgent} = {NoAgent} \ {NoAgent}
    OBVIOUS
  <2> DEFINE proper == rows[k].st = "pending"
  <2>3. Begin(r, "takeover", k, {}, TakeoverPlan(rows[k], NoAgent), proper) /\ (proper => rows[k].st = "pending")
    BY <2>1
  <2> HIDE DEF proper
  <2>4. QED
    BY <1>2, <1>3, <2>2, <2>3
<1>10. QED
  BY <1>4, <1>5, <1>6, <1>7, <1>8, <1>9 DEF Starts

-----------------------------------------------------------------------------
(* What a request in flight can still have to do, whoever else runs.       *)

Plans(q) ==
    /\ req[q].op = "idle" => req[q] = Idle
    /\ req[q].op = "ensure" => req[q].k = 0 /\ Len(req[q].todo) = 1 /\ req[q].todo[1].s = "create"
    /\ req[q].op \notin {"idle", "ensure"} =>
          /\ req[q].k \in DOMAIN rows /\ req[q].todo # <<>>
          /\ \A i \in 1..Len(req[q].todo) :
                /\ req[q].todo[i].s # "create"
                /\ req[q].todo[i].s = "save" =>
                      /\ req[q].todo[i].row.th = rows[req[q].k].th
                      /\ req[q].todo[i].row.st # "pending"

Planned == TypeOK /\ \A q \in Req : Plans(q)

\* Request r has issued its first statement, which was of kind s; rest is left.
Issued(r, s, rest) ==
    /\ req[r].todo # <<>> /\ req[r].todo[1].s = s /\ rest \in Seq(Stmt)
    /\ \A q \in Req \ {r} : req'[q] = req[q]
    /\ rest = <<>> => req'[r] = Idle
    /\ rest # <<>> => req'[r] = [req[r] EXCEPT !.todo = rest]
    /\ req' \in [Req -> ReqType]

\* Row k is now `row`.
Wrote(k, row) ==
    /\ k \in DOMAIN rows /\ row \in Row
    /\ rows' \in Seq(Row) /\ Len(rows') = Len(rows) /\ DOMAIN rows' = DOMAIN rows
    /\ rows'[k] = row /\ \A j \in DOMAIN rows \ {k} : rows'[j] = rows[j]

LEMMA WroteIs ==
    ASSUME TypeOK, NEW k \in DOMAIN rows, NEW row \in Row, rows' = [rows EXCEPT ![k] = row]
    PROVE  Wrote(k, row)
<1>1. rows \in Seq(Row) /\ DOMAIN rows = 1..Len(rows) /\ k \in 1..Len(rows)
  BY DEF TypeOK
<1>2. /\ rows' \in Seq(Row) /\ Len(rows') = Len(rows)
      /\ \A j \in 1..Len(rows) : rows'[j] = IF j = k THEN row ELSE rows[j]
  BY <1>1, ExceptSeq
<1>3. QED
  BY <1>1, <1>2 DEF Wrote

LEMMA IssuedIs ==
    ASSUME TypeOK, NEW r \in Req, NEW s, Issuing(r, s), NEW more \in Seq(Stmt), Done(r, more)
    PROVE  /\ Issued(r, s, more \o Tail(req[r].todo))
           /\ req[r].todo \in Seq(Stmt) /\ req[r].todo[1] = Head(req[r].todo)
           /\ req[r].todo[1] \in Stmt
<1>1. req[r].todo \in Seq(Stmt) /\ req[r].todo # <<>>
  BY DEF TypeOK, Issuing
<1>2. req[r].todo[1] = Head(req[r].todo) /\ req[r].todo[1] \in Stmt
  BY <1>1
<1>3. QED
  BY <1>1, <1>2, DoneIs DEF Issued, Issuing

\* The requests that issue a statement have a ticket, EnsureTicket aside.
LEMMA IssuerHasTicket ==
    ASSUME Planned, NEW r \in Req, req[r].todo # <<>>, req[r].todo[1].s # "create"
    PROVE  req[r].op \notin {"idle", "ensure"} /\ req[r].k \in DOMAIN rows
<1>1. req[r].op # "idle"
  BY DEF Planned, Plans, Idle
<1>2. QED
  BY <1>1 DEF Planned, Plans

LEMMA TailIs ==
    ASSUME TypeOK, NEW r \in Req, req[r].todo # <<>>
    PROVE  <<>> \o Tail(req[r].todo) = Tail(req[r].todo) /\ Tail(req[r].todo) \in Seq(Stmt)
<1>1. req[r].todo \in Seq(Stmt)
  BY DEF TypeOK
<1>2. Tail(req[r].todo) \in Seq(Stmt)
  BY <1>1, HeadTailProperties
<1>3. QED
  BY <1>2, ConcatEmptySeq

LEMMA IssuedTail ==
    ASSUME TypeOK, NEW r \in Req, NEW s, Issuing(r, s), Done(r, <<>>)
    PROVE  /\ Issued(r, s, Tail(req[r].todo))
           /\ req[r].todo[1] = Head(req[r].todo) /\ req[r].todo[1] \in Stmt
<1> DEFINE more == <<>>
<1>1. more \in Seq(Stmt) /\ Done(r, more)
  OBVIOUS
<1>2. more \o Tail(req[r].todo) = Tail(req[r].todo)
  BY TailIs DEF Issuing
<1> HIDE DEF more
<1>3. QED
  BY <1>1, <1>2, IssuedIs

\* The statements, with what each of them writes.
LEMMA AssignRowIs ==
    ASSUME Planned, NEW r \in Req, AssignRow(r)
    PROVE  LET k == req[r].k
               u == req[r].todo[1].a
           IN  /\ Issued(r, "assign", Tail(req[r].todo))
               /\ u \in Uid /\ Wrote(k, [rows[k] EXCEPT !.hdl = u])
               /\ UNCHANGED <<online, cnt, clash>>
<1>1. TypeOK /\ Issuing(r, "assign") /\ Done(r, <<>>) /\ UNCHANGED <<online, cnt, clash>>
  BY DEF AssignRow, Planned
<1>2. Issued(r, "assign", Tail(req[r].todo)) /\ req[r].todo[1] = Head(req[r].todo) /\ req[r].todo[1] \in Stmt
  BY <1>1, IssuedTail
<1>3. req[r].k \in DOMAIN rows /\ req[r].todo[1].a \in Uid
  BY <1>2, IssuerHasTicket, StmtParts DEF Issued
<1>4. rows' = [rows EXCEPT ![req[r].k] = [rows[req[r].k] EXCEPT !.hdl = req[r].todo[1].a]]
  BY <1>2 DEF AssignRow
<1>5. [rows[req[r].k] EXCEPT !.hdl = req[r].todo[1].a] \in Row
  BY <1>1, <1>3, RowTypes, NewRowTypes
<1>6. QED
  BY <1>1, <1>2, <1>3, <1>4, <1>5, WroteIs

LEMMA HandRowIs ==
    ASSUME Planned, NEW r \in Req, HandRow(r)
    PROVE  LET k == req[r].k
               u == req[r].todo[1].a
           IN  /\ Issued(r, "hand", Tail(req[r].todo))
               /\ u \in Uid /\ Wrote(k, [rows[k] EXCEPT !.hdl = u, !.st = "handling"])
               /\ MayOpen(k) /\ UNCHANGED <<online, cnt, clash>>
<1>1. TypeOK /\ Issuing(r, "hand") /\ Done(r, <<>>) /\ UNCHANGED <<online, cnt, clash>> /\ MayOpen(req[r].k)
  BY DEF HandRow, Planned
<1>2. Issued(r, "hand", Tail(req[r].todo)) /\ req[r].todo[1] = Head(req[r].todo) /\ req[r].todo[1] \in Stmt
  BY <1>1, IssuedTail
<1>3. req[r].k \in DOMAIN rows /\ req[r].todo[1].a \in Uid
  BY <1>2, IssuerHasTicket, StmtParts DEF Issued
<1> DEFINE row == [rows[req[r].k] EXCEPT !.hdl = req[r].todo[1].a, !.st = "handling"]
<1>4. row \in Row
  BY <1>1, <1>3, RowTypes DEF Row, Status
<1>5. rows' = [rows EXCEPT ![req[r].k] = row]
  BY <1>2, <1>3 DEF HandRow
<1>6. Wrote(req[r].k, row)
  BY <1>1, <1>3, <1>4, <1>5, WroteIs
<1>7. QED
  BY <1>1, <1>2, <1>3, <1>6

LEMMA SaveRowIs ==
    ASSUME Planned, NEW r \in Req, SaveRow(r)
    PROVE  LET k == req[r].k
               row == req[r].todo[1].row
           IN  /\ Issued(r, "save", Tail(req[r].todo))
               /\ Wrote(k, row) /\ row.th = rows[k].th /\ row.st # "pending"
               /\ row.st \in Open => MayOpen(k)
               /\ UNCHANGED <<online, cnt, clash>>
<1>1. TypeOK /\ Issuing(r, "save") /\ Done(r, <<>>) /\ UNCHANGED <<online, cnt, clash>>
  BY DEF SaveRow, Planned
<1>2. Issued(r, "save", Tail(req[r].todo)) /\ req[r].todo[1] = Head(req[r].todo) /\ req[r].todo[1] \in Stmt
  BY <1>1, IssuedTail
<1>3. /\ req[r].k \in DOMAIN rows /\ req[r].todo[1].row \in Row
      /\ req[r].op \notin {"idle", "ensure"}
  BY <1>2, IssuerHasTicket, StmtParts DEF Issued
<1>4. /\ rows' = [rows EXCEPT ![req[r].k] = req[r].todo[1].row]
      /\ req[r].todo[1].row.st \in Open => MayOpen(req[r].k)
  BY <1>2 DEF SaveRow
<1>5. 1 \in 1..Len(req[r].todo) /\ req[r].todo[1].s = "save"
  <2>1. req[r].todo \in Seq(Stmt) /\ req[r].todo # <<>> /\ req[r].todo[1].s = "save"
    BY <1>1, <1>2 DEF TypeOK, Issued
  <2>2. QED
    BY <2>1
<1>6. req[r].todo[1].row.th = rows[req[r].k].th /\ req[r].todo[1].row.st # "pending"
  BY <1>3, <1>5 DEF Planned, Plans
<1>7. QED
  BY <1>1, <1>2, <1>3, <1>4, <1>6, WroteIs

LEMMA ReadCountIs ==
    ASSUME Planned, NEW r \in Req, ReadCount(r)
    PROVE  LET a == req[r].todo[1].a
               n == cnt[a] + req[r].todo[1].d
               m == IF n < 0 THEN 0 ELSE n
               put == Put(a, m, StatusFor(online[a], m))
           IN  /\ a \in Agent /\ req[r].todo[1].d \in {-1, 1} /\ put \in PutStmt
               /\ Issued(r, "adjust", IF online[a] = NoRow THEN Tail(req[r].todo)
                                      ELSE <<put>> \o Tail(req[r].todo))
               /\ UNCHANGED <<rows, online, cnt, clash>>
<1> DEFINE a == req[r].todo[1].a
           n == cnt[a] + req[r].todo[1].d
           m == IF n < 0 THEN 0 ELSE n
           put == Put(a, m, StatusFor(online[a], m))
<1>1. TypeOK /\ Issuing(r, "adjust") /\ UNCHANGED <<rows, online, cnt, clash>>
  BY DEF ReadCount, Planned
<1>2. req[r].todo \in Seq(Stmt) /\ req[r].todo # <<>> /\ Head(req[r].todo) = req[r].todo[1]
  BY <1>1 DEF TypeOK, Issuing
<1>3. req[r].todo[1] \in Stmt /\ req[r].todo[1].s = "adjust"
  BY <1>1, <1>2 DEF Issuing
<1>4. a \in Agent /\ req[r].todo[1].d \in {-1, 1}
  BY <1>3, StmtParts
<1>5. m \in Nat /\ StatusFor(online[a], m) \in 0..2
  BY <1>1, <1>4 DEF TypeOK, StatusFor
<1>6. put \in PutStmt /\ put \in Stmt
  BY <1>4, <1>5, StmtMade
<1>7. Done(r, IF online[a] = NoRow THEN <<>> ELSE <<put>>)
  BY <1>2 DEF ReadCount
<1> HIDE DEF put
<1>8. CASE online[a] = NoRow
  <2>1. Issued(r, "adjust", Tail(req[r].todo))
    BY <1>1, <1>7, <1>8, IssuedTail
  <2>2. QED
    BY <1>1, <1>4, <1>6, <1>8, <2>1 DEF put
<1>9. CASE online[a] # NoRow
  <2> DEFINE more == <<put>>
  <2>1. more \in Seq(Stmt) /\ Done(r, more)
    BY <1>6, <1>7, <1>9
  <2> HIDE DEF more
  <2>2. Issued(r, "adjust", more \o Tail(req[r].todo))
    BY <1>1, <2>1, IssuedIs
  <2>3. QED
    BY <1>1, <1>4, <1>6, <1>9, <2>2 DEF put, more
<1>10. QED
  BY <1>8, <1>9

LEMMA WriteIs ==
    ASSUME TypeOK, NEW p \in PutStmt, Write(p)
    PROVE  /\ p.a \in Agent /\ p.n \in Nat
           /\ cnt' = [cnt EXCEPT ![p.a] = p.n] /\ cnt' \in [Agent -> Nat]
           /\ online' \in [Agent -> 0..2 \cup {NoRow}]
           /\ \A a \in Agent : online[a] # NoRow => online'[a] # NoRow
  BY DEF TypeOK, Write, PutStmt, NoRow

LEMMA WriteCountIs ==
    ASSUME Planned, NEW r \in Req, WriteCount(r)
    PROVE  LET p == req[r].todo[1]
           IN  /\ p \in PutStmt /\ Write(p)
               /\ Issued(r, "put", Tail(req[r].todo))
               /\ UNCHANGED <<rows, clash>>
<1>1. TypeOK /\ Issuing(r, "put") /\ Done(r, <<>>) /\ UNCHANGED <<rows, clash>>
  BY DEF WriteCount, Planned
<1>2. Issued(r, "put", Tail(req[r].todo)) /\ req[r].todo[1] = Head(req[r].todo) /\ req[r].todo[1] \in Stmt
  BY <1>1, IssuedTail
<1>3. req[r].todo[1] \in PutStmt
  BY <1>2, StmtParts DEF Issued
<1>4. QED
  BY <1>1, <1>2, <1>3 DEF WriteCount

LEMMA EnsureIssues ==
    ASSUME Planned, NEW r \in Req, req[r].todo # <<>>, req[r].todo[1].s = "create"
    PROVE  req[r].op = "ensure"
<1>1. req[r].op # "idle"
  BY DEF Planned, Plans, Idle
<1>2. 1 \in 1..Len(req[r].todo)
  <2>1. req[r].todo \in Seq(Stmt)
    BY DEF Planned, TypeOK
  <2>2. QED
    BY <2>1
<1>3. QED
  BY <1>1, <1>2 DEF Planned, Plans

LEMMA CommitTicketIs ==
    ASSUME Planned, NEW r \in Req, CommitTicket(r)
    PROVE  LET row == req[r].todo[1].row
               put == req[r].todo[1].put
           IN  /\ req[r].op = "ensure" /\ row \in Row
               /\ req'[r] = Idle /\ (\A q \in Req \ {r} : req'[q] = req[q]) /\ req' \in [Req -> ReqType]
               /\ rows' = Append(rows, row) /\ rows' \in Seq(Row)
               /\ Len(rows) \in Nat /\ DOMAIN rows = 1..Len(rows) /\ DOMAIN rows' = 1..(Len(rows) + 1)
               /\ rows'[Len(rows) + 1] = row /\ \A j \in DOMAIN rows : rows'[j] = rows[j]
               /\ put = <<>> => UNCHANGED <<online, cnt>>
               /\ put # <<>> => put \in PutStmt /\ Write(put)
               /\ UNCHANGED clash
<1> DEFINE row == req[r].todo[1].row
           put == req[r].todo[1].put
<1>1. TypeOK /\ Issuing(r, "create") /\ Done(r, <<>>) /\ UNCHANGED clash
  BY DEF CommitTicket, Planned
<1>2. Issued(r, "create", Tail(req[r].todo)) /\ req[r].todo[1] = Head(req[r].todo) /\ req[r].todo[1] \in Stmt
  BY <1>1, IssuedTail
<1>3. row \in Row /\ put \in PutStmt \cup {<<>>}
  BY <1>2, StmtParts DEF Issued
<1>4. req[r].op = "ensure"
  BY <1>2, EnsureIssues DEF Issued
<1>5. Tail(req[r].todo) = <<>>
  <2>1. Len(req[r].todo) = 1 /\ req[r].todo \in Seq(Stmt)
    BY <1>4 DEF Planned, Plans, TypeOK
  <2>2. Tail(req[r].todo) \in Seq(Stmt) /\ Len(Tail(req[r].todo)) = 0
    BY <2>1, HeadTailProperties
  <2>3. QED
    BY <2>2, EmptySeq
<1>6. /\ req'[r] = Idle /\ (\A q \in Req \ {r} : req'[q] = req[q]) /\ req' \in [Req -> ReqType]
  BY <1>2, <1>5 DEF Issued
<1>7. rows \in Seq(Row) /\ DOMAIN rows = 1..Len(rows) /\ Len(rows) \in Nat
  BY <1>1 DEF TypeOK
<1>8. rows' = Append(rows, row)
  BY <1>2 DEF CommitTicket
<1>9. /\ rows' \in Seq(Row) /\ Len(rows') = Len(rows) + 1
      /\ \A j \in 1..Len(rows) : rows'[j] = rows[j]
      /\ rows'[Len(rows) + 1] = row
  BY <1>3, <1>7, <1>8, AppendProperties
<1>10. DOMAIN rows' = 1..(Len(rows) + 1)
  BY <1>9
<1>11. /\ put = <<>> => UNCHANGED <<online, cnt>>
       /\ put # <<>> => Write(put)
  BY <1>2 DEF CommitTicket
<1>12. QED
  BY <1>1, <1>3, <1>4, <1>6, <1>7, <1>8, <1>9, <1>10, <1>11

LEMMA EnsureFailsIs ==
    ASSUME Planned, NEW r \in Req, EnsureFails(r)
    PROVE  /\ req[r].op = "ensure" /\ UNCHANGED <<rows, online, cnt, clash>>
           /\ req'[r] = Idle /\ (\A q \in Req \ {r} : req'[q] = req[q]) /\ req' \in [Req -> ReqType]
<1>1. Idle \in ReqType /\ req \in [Req -> ReqType]
  BY DEF Idle, ReqType, Op, Planned, TypeOK
<1>2. QED
  BY <1>1 DEF EnsureFails

LEMMA SetTicketPriorityIs ==
    ASSUME TypeOK, NEW k \in DOMAIN rows, NEW p \in Priority, SetTicketPriority(k, p)
    PROVE  /\ Wrote(k, [rows[k] EXCEPT !.prio = p]) /\ UNCHANGED <<online, cnt, req>>
           /\ clash' \in BOOLEAN /\ (~clash' => ~clash /\ \A q \in Req : req[q].k # k)
<1>1. [rows[k] EXCEPT !.prio = p] \in Row
  BY RowTypes DEF Row
<1>2. Wrote(k, [rows[k] EXCEPT !.prio = p])
  BY <1>1, WroteIs DEF SetTicketPriority
<1>3. clash' = (clash \/ \E q \in Req : req[q].k = k)
  BY DEF SetTicketPriority
<1>4. clash' \in BOOLEAN /\ (~clash' => ~clash /\ \A q \in Req : req[q].k # k)
  BY <1>3, Zenon
<1>5. QED
  BY <1>2, <1>4 DEF SetTicketPriority

LEMMA StatusSetIs ==
    ASSUME TypeOK, NEW a \in Agent, NEW st \in 0..2, UpsertAgentStatus(a, st) \/ SetAgentStatus(a, st)
    PROVE  /\ UNCHANGED <<rows, cnt, req, clash>> /\ online' \in [Agent -> 0..2 \cup {NoRow}]
           /\ \A b \in Agent : online[b] # NoRow => online'[b] # NoRow
<1>1. online' = [online EXCEPT ![a] = st] /\ UNCHANGED <<rows, cnt, req, clash>>
  BY DEF UpsertAgentStatus, SetAgentStatus
<1>2. st # NoRow /\ st \in 0..2 \cup {NoRow}
  BY DEF NoRow
<1>3. online \in [Agent -> 0..2 \cup {NoRow}]
  BY DEF TypeOK
<1>4. QED
  BY <1>1, <1>2, <1>3

-----------------------------------------------------------------------------
\* No row goes away or changes its thread.
RowsStay ==
    /\ DOMAIN rows \subseteq DOMAIN rows'
    /\ \A k \in DOMAIN rows : rows'[k].th = rows[k].th

LEMMA PlansKept == ASSUME NEW q, Plans(q), RowsStay, req'[q] = req[q] PROVE Plans(q)'
  BY DEF Plans, RowsStay

LEMMA IdlePlans == ASSUME NEW q, req'[q] = Idle PROVE Plans(q)'
  BY DEF Plans, Idle

LEMMA RowsStayIf ==
    ASSUME TypeOK,
           \/ UNCHANGED rows
           \/ \E k \in DOMAIN rows, row \in Row : Wrote(k, row) /\ row.th = rows[k].th
    PROVE  RowsStay
  BY DEF RowsStay, Wrote

\* What is left of a plan is a plan.
LEMMA PlansShrink ==
    ASSUME Planned, NEW r \in Req, NEW s, s # "create", NEW rest, Issued(r, s, rest), RowsStay,
           \A i \in 1..Len(rest) : rest[i] \in PutStmt \/ \E j \in 1..Len(req[r].todo) : rest[i] = req[r].todo[j]
    PROVE  Plans(r)'
<1>1. req[r].op \notin {"idle", "ensure"} /\ req[r].k \in DOMAIN rows
  BY IssuerHasTicket DEF Issued
<1>2. CASE rest = <<>>
  BY <1>2, IdlePlans DEF Issued
<1>3. CASE rest # <<>>
  <2>1. req'[r] = [req[r] EXCEPT !.todo = rest] /\ req[r] \in ReqType
    BY <1>3 DEF Issued, Planned, TypeOK, ReqType
  <2>2. req'[r].op = req[r].op /\ req'[r].k = req[r].k /\ req'[r].todo = rest
    BY <2>1 DEF ReqType
  <2>3. ASSUME NEW i \in 1..Len(rest)
        PROVE  /\ rest[i].s # "create"
               /\ rest[i].s = "save" => rest[i].row.th = rows[req[r].k].th /\ rest[i].row.st # "pending"
    <3>1. CASE rest[i] \in PutStmt
      BY <3>1 DEF PutStmt
    <3>2. CASE \E j \in 1..Len(req[r].todo) : rest[i] = req[r].todo[j]
      BY <1>1, <3>2 DEF Planned, Plans
    <3>3. QED
      BY <3>1, <3>2
  <2>4. QED
    BY <1>1, <1>3, <2>2, <2>3 DEF Plans, RowsStay
<1>4. QED
  BY <1>2, <1>3

LEMMA TailWithin ==
    ASSUME TypeOK, NEW r \in Req, req[r].todo # <<>>
    PROVE  \A i \in 1..Len(Tail(req[r].todo)) : \E j \in 1..Len(req[r].todo) : Tail(req[r].todo)[i] = req[r].todo[j]
<1>1. req[r].todo \in Seq(Stmt)
  BY DEF TypeOK
<1>2. /\ Len(Tail(req[r].todo)) = Len(req[r].todo) - 1 /\ Len(req[r].todo) \in Nat
      /\ \A i \in 1..Len(Tail(req[r].todo)) : Tail(req[r].todo)[i] = req[r].todo[i + 1]
  BY <1>1, HeadTailProperties
<1>3. QED
  BY <1>2

Harmless(st, k) ==
    /\ st.s # "create"
    /\ st.s = "save" => st.row.th = rows[k].th /\ st.row.st # "pending"

LEMMA MadeHarmless ==
    ASSUME NEW r, NEW op, op \notin {"idle", "ensure"}, NEW k \in DOMAIN rows, NEW agents, NEW todo,
           Made(r, op, k, agents, todo), todo # <<>>, \A i \in 1..Len(todo) : Harmless(todo[i], k)
    PROVE  Plans(r)'
<1>1. req'[r].op = op /\ req'[r].k = k /\ req'[r].todo = todo /\ rows' = rows
  BY DEF Made
<1>2. QED
  BY <1>1 DEF Plans, Harmless

LEMMA AllHarmless ==
    /\ \A k, a : Harmless(a, k) => <<a>> # <<>> /\ \A i \in 1..Len(<<a>>) : Harmless(<<a>>[i], k)
    /\ \A k, a, b : Harmless(a, k) /\ Harmless(b, k) =>
          <<a, b>> # <<>> /\ \A i \in 1..Len(<<a, b>>) : Harmless(<<a, b>>[i], k)
    /\ \A k, a, b, c : Harmless(a, k) /\ Harmless(b, k) /\ Harmless(c, k) =>
          <<a, b, c>> # <<>> /\ \A i \in 1..Len(<<a, b, c>>) : Harmless(<<a, b, c>>[i], k)
  OBVIOUS

\* The statements of a plan that has just been made.
LEMMA MadePlans ==
    ASSUME Planned, NEW r \in Req, Starts(r)
    PROVE  Plans(r)'
<1> USE DEF Planned
<1>1. CASE StartsTakeover(r)
  <2>1. PICK k \in DOMAIN rows, u \in Uid : Made(r, "takeover", k, {u} \ {NoAgent}, TakeoverTodo(k, u))
    BY <1>1 DEF StartsTakeover
  <2>2. rows[k] \in Row
    BY RowTypes
  <2>3. /\ Over(k, u).s = "save" /\ Over(k, u).row.th = rows[k].th /\ Over(k, u).row.st = "handling"
        /\ Assign(u).s = "assign" /\ Adjust(u, 1).s = "adjust"
    BY <2>2 DEF Over, Save, Assign, Adjust, Row
  <2>a. Harmless(Over(k, u), k) /\ Harmless(Assign(u), k) /\ Harmless(Adjust(u, 1), k)
    BY <2>3 DEF Harmless
  <2>4. \/ TakeoverTodo(k, u) = <<Assign(u), Over(k, u)>>
        \/ TakeoverTodo(k, u) = <<Assign(u), Adjust(u, 1), Over(k, u)>>
    BY DEF TakeoverTodo
  <2>5. /\ TakeoverTodo(k, u) # <<>>
        /\ \A i \in 1..Len(TakeoverTodo(k, u)) : Harmless(TakeoverTodo(k, u)[i], k)
    <3>1. CASE TakeoverTodo(k, u) = <<Assign(u), Over(k, u)>>
      BY <2>a, <3>1, AllHarmless
    <3>2. CASE TakeoverTodo(k, u) = <<Assign(u), Adjust(u, 1), Over(k, u)>>
      BY <2>a, <3>2, AllHarmless
    <3>3. QED
      BY <2>4, <3>1, <3>2
  <2>6. QED
    BY <2>1, <2>5, MadeHarmless
<1>2. CASE StartsClose(r)
  <2>1. PICK k \in DOMAIN rows : Made(r, "close", k, {rows[k].hdl} \ {NoAgent}, CloseTodo(k, rows[k].hdl))
    BY <1>2 DEF StartsClose
  <2> DEFINE h == rows[k].hdl
  <2>2. rows[k] \in Row
    BY RowTypes
  <2>3. /\ Ended(k, "closed").s = "save" /\ Ended(k, "closed").row.th = rows[k].th
        /\ Ended(k, "closed").row.st = "closed" /\ Adjust(h, -1).s = "adjust"
    BY <2>2 DEF Ended, Save, Adjust, Row
  <2>a. Harmless(Ended(k, "closed"), k) /\ Harmless(Adjust(h, -1), k)
    BY <2>3 DEF Harmless
  <2>4. CloseTodo(k, h) = <<Ended(k, "closed")>> \/ CloseTodo(k, h) = <<Ended(k, "closed"), Adjust(h, -1)>>
    BY DEF CloseTodo
  <2>5. QED
    BY <2>1, <2>a, <2>4, AllHarmless, MadeHarmless
<1>3. CASE StartsTransfer(r)
  <2>1. PICK k \in DOMAIN rows, to \in Agent :
           Made(r, "transfer", k, {rows[k].hdl, to} \ {NoAgent}, TransferTodo(rows[k].hdl, to))
    BY <1>3 DEF StartsTransfer
  <2> DEFINE h == rows[k].hdl
  <2>2. Hand(to).s = "hand" /\ Adjust(h, -1).s = "adjust" /\ Adjust(to, 1).s = "adjust"
    BY DEF Hand, Adjust
  <2>a. Harmless(Hand(to), k) /\ Harmless(Adjust(h, -1), k) /\ Harmless(Adjust(to, 1), k)
    BY <2>2 DEF Harmless
  <2>3. \/ TransferTodo(h, to) = <<Hand(to), Adjust(to, 1)>>
        \/ TransferTodo(h, to) = <<Hand(to), Adjust(h, -1), Adjust(to, 1)>>
    BY DEF TransferTodo
  <2>4. /\ TransferTodo(h, to) # <<>>
        /\ \A i \in 1..Len(TransferTodo(h, to)) : Harmless(TransferTodo(h, to)[i], k)
    <3>1. CASE TransferTodo(h, to) = <<Hand(to), Adjust(to, 1)>>
      BY <2>a, <3>1, AllHarmless
    <3>2. CASE TransferTodo(h, to) = <<Hand(to), Adjust(h, -1), Adjust(to, 1)>>
      BY <2>a, <3>2, AllHarmless
    <3>3. QED
      BY <2>3, <3>1, <3>2
  <2>5. QED
    BY <2>1, <2>4, MadeHarmless
<1>4. CASE StartsCancel(r)
  <2>1. PICK k \in DOMAIN rows : Made(r, "cancel", k, {}, <<Ended(k, "canceled")>>)
    BY <1>4 DEF StartsCancel
  <2>2. rows[k] \in Row
    BY RowTypes
  <2>3. /\ Ended(k, "canceled").s = "save" /\ Ended(k, "canceled").row.th = rows[k].th
        /\ Ended(k, "canceled").row.st = "canceled"
    BY <2>2 DEF Ended, Save, Row
  <2>4. QED
    BY <2>1, <2>3 DEF Made, Plans
<1>5. CASE StartsEnsure(r)
  <2>1. PICK row, put, agents : Made(r, "ensure", 0, agents, <<Create(row, put)>>)
    BY <1>5 DEF StartsEnsure
  <2>2. Create(row, put).s = "create"
    BY DEF Create
  <2>3. QED
    BY <2>1, <2>2 DEF Made, Plans
<1>6. QED
  BY <1>1, <1>2, <1>3, <1>4, <1>5, StartKinds

LEMMA PlannedStep == ASSUME Planned, Next PROVE Planned'
<1>0. TypeOK
  BY DEF Planned
<1>1. ASSUME NEW r \in Req, Starts(r) PROVE Planned'
  <2>1. \E op, k, agents, todo : Made(r, op, k, agents, todo)
    BY <1>0, <1>1, StartKinds DEF StartsTakeover, StartsClose, StartsTransfer, StartsCancel, StartsEnsure
  <2>2. /\ UNCHANGED <<rows, online, cnt>> /\ req' \in [Req -> ReqType] /\ clash' \in BOOLEAN
        /\ \A q \in Req \ {r} : req'[q] = req[q]
    BY <2>1 DEF Made
  <2>3. TypeOK' /\ RowsStay
    BY <1>0, <2>2, RowsStayIf DEF TypeOK, ReqType
  <2>4. \A q \in Req \ {r} : Plans(q)'
    BY <2>2, <2>3, PlansKept DEF Planned
  <2>5. QED
    BY <1>1, <2>3, <2>4, MadePlans DEF Planned
\* What is shared by the statements on a row or a counter.
<1>2. ASSUME NEW r \in Req, NEW s, s # "create", NEW rest, Issued(r, s, rest), RowsStay,
             \A i \in 1..Len(rest) : rest[i] \in PutStmt \/ \E j \in 1..Len(req[r].todo) : rest[i] = req[r].todo[j],
             rows' \in Seq(Row), online' \in [Agent -> 0..2 \cup {NoRow}], cnt' \in [Agent -> Nat], UNCHANGED clash
      PROVE  Planned'
  <2>1. TypeOK'
    BY <1>0, <1>2 DEF TypeOK, Issued, ReqType
  <2>2. \A q \in Req \ {r} : Plans(q)'
    BY <1>2, PlansKept DEF Planned, Issued
  <2>3. Plans(r)'
    BY <1>2, PlansShrink
  <2>4. QED
    BY <2>1, <2>2, <2>3 DEF Planned
\* Most take the statement off and leave the rest of the plan as it was.
<1>t. ASSUME NEW r \in Req, NEW s, s # "create", Issued(r, s, Tail(req[r].todo)), RowsStay,
             rows' \in Seq(Row), online' \in [Agent -> 0..2 \cup {NoRow}], cnt' \in [Agent -> Nat], UNCHANGED clash
      PROVE  Planned'
  <2>1. req[r].todo # <<>>
    BY <1>t DEF Issued
  <2>2. \A i \in 1..Len(Tail(req[r].todo)) :
           \E j \in 1..Len(req[r].todo) : Tail(req[r].todo)[i] = req[r].todo[j]
    BY <1>0, <2>1, TailWithin
  <2> PICK rest : rest = Tail(req[r].todo)
    OBVIOUS
  <2>3. /\ Issued(r, s, rest)
        /\ \A i \in 1..Len(rest) : rest[i] \in PutStmt \/ \E j \in 1..Len(req[r].todo) : rest[i] = req[r].todo[j]
    BY <1>t, <2>2
  <2>4. QED
    BY <1>2, <1>t, <2>3
<1>p. online \in [Agent -> 0..2 \cup {NoRow}] /\ cnt \in [Agent -> Nat]
  BY <1>0 DEF TypeOK
<1>3. ASSUME NEW r \in Req, AssignRow(r) PROVE Planned'
  <2>1. Issued(r, "assign", Tail(req[r].todo)) /\ UNCHANGED <<online, cnt, clash>>
    BY <1>3, AssignRowIs
  <2>2. rows' \in Seq(Row) /\ RowsStay
    BY <1>0, <1>3, AssignRowIs, RowTypes DEF Wrote, RowsStay, Row
  <2>3. QED
    BY <1>p, <1>t, <2>1, <2>2
<1>4. ASSUME NEW r \in Req, HandRow(r) PROVE Planned'
  <2>1. Issued(r, "hand", Tail(req[r].todo)) /\ UNCHANGED <<online, cnt, clash>>
    BY <1>4, HandRowIs
  <2>2. rows' \in Seq(Row) /\ RowsStay
    <3>1. PICK k, u : u \in Uid /\ Wrote(k, [rows[k] EXCEPT !.hdl = u, !.st = "handling"])
      BY <1>4, HandRowIs
    <3>2. k \in DOMAIN rows => rows[k] \in Row
      BY <1>0, RowTypes
    <3>3. QED
      BY <3>1, <3>2 DEF Wrote, RowsStay, Row, Status
  <2>3. QED
    BY <1>p, <1>t, <2>1, <2>2
<1>5. ASSUME NEW r \in Req, SaveRow(r) PROVE Planned'
  <2>1. Issued(r, "save", Tail(req[r].todo)) /\ UNCHANGED <<online, cnt, clash>>
    BY <1>5, SaveRowIs
  <2>2. rows' \in Seq(Row) /\ RowsStay
    BY <1>0, <1>5, SaveRowIs DEF Wrote, RowsStay
  <2>3. QED
    BY <1>p, <1>t, <2>1, <2>2
<1>6. ASSUME NEW r \in Req, ReadCount(r) PROVE Planned'
  <2>1. PICK rest \in Seq(Stmt), put \in PutStmt :
           /\ Issued(r, "adjust", rest) /\ UNCHANGED <<rows, online, cnt, clash>>
           /\ rest = Tail(req[r].todo) \/ rest = <<put>> \o Tail(req[r].todo)
    <3> DEFINE a == req[r].todo[1].a
               n == cnt[a] + req[r].todo[1].d
               put == Put(a, IF n < 0 THEN 0 ELSE n, StatusFor(online[a], IF n < 0 THEN 0 ELSE n))
    <3>1. /\ put \in PutStmt /\ UNCHANGED <<rows, online, cnt, clash>>
          /\ Issued(r, "adjust", IF online[a] = NoRow THEN Tail(req[r].todo) ELSE <<put>> \o Tail(req[r].todo))
      BY <1>6, ReadCountIs
    <3> HIDE DEF put
    <3>2. CASE online[a] = NoRow
      BY <3>1, <3>2 DEF Issued
    <3>3. CASE online[a] # NoRow
      BY <3>1, <3>3 DEF Issued
    <3>4. QED
      BY <3>2, <3>3
  <2>2. RowsStay
    BY <1>0, <2>1, RowsStayIf
  <2>3. req[r].todo # <<>>
    BY <2>1 DEF Issued
  <2>4. ASSUME NEW i \in 1..Len(rest)
        PROVE  rest[i] \in PutStmt \/ \E j \in 1..Len(req[r].todo) : rest[i] = req[r].todo[j]
    <3>1. CASE rest = Tail(req[r].todo)
      BY <1>0, <2>3, <3>1, TailWithin
    <3>2. CASE rest = <<put>> \o Tail(req[r].todo)
      <4> DEFINE more == <<put>>
                 tail == Tail(req[r].todo)
      <4>1. more \in Seq(PutStmt \cup Stmt) /\ tail \in Seq(PutStmt \cup Stmt) /\ Len(more) = 1 /\ more[1] = put
        <5>1. tail \in Seq(Stmt)
          BY <1>0, <2>3, TailIs
        <5>2. QED
          BY <5>1, SeqMonotonic
      <4> HIDE DEF more, tail
      <4>2. rest = more \o tail
        BY <3>2 DEF more, tail
      <4>3. Len(rest) = 1 + Len(tail) /\ Len(tail) \in Nat /\ rest[i] = IF i <= 1 THEN put ELSE tail[i - 1]
        <5>1. /\ Len(rest) = Len(more) + Len(tail) /\ Len(tail) \in Nat
              /\ \A j \in 1..Len(more) + Len(tail) :
                    rest[j] = IF j <= Len(more) THEN more[j] ELSE tail[j - Len(more)]
          BY <4>1, <4>2, ConcatProperties, LenProperties
        <5>2. i \in 1..Len(more) + Len(tail) /\ i \in Nat
          BY <5>1
        <5>3. QED
          BY <4>1, <5>1, <5>2
      <4>4. CASE i = 1
        BY <4>3, <4>4
      <4>5. CASE i # 1
        <5>1. i - 1 \in 1..Len(tail) /\ rest[i] = tail[i - 1]
          BY <4>3, <4>5
        <5>2. QED
          BY <1>0, <2>3, <5>1, TailWithin DEF tail
      <4>6. QED
        BY <4>4, <4>5
    <3>3. QED
      BY <2>1, <3>1, <3>2
  <2>5. QED
    BY <1>0, <1>2, <2>1, <2>2, <2>4 DEF TypeOK
<1>7. ASSUME NEW r \in Req, WriteCount(r) PROVE Planned'
  <2>1. Issued(r, "put", Tail(req[r].todo)) /\ UNCHANGED <<rows, clash>>
    BY <1>7, WriteCountIs
  <2>2. online' \in [Agent -> 0..2 \cup {NoRow}] /\ cnt' \in [Agent -> Nat]
    BY <1>0, <1>7, WriteCountIs, WriteIs
  <2>3. RowsStay
    BY <1>0, <2>1, RowsStayIf
  <2>4. QED
    <3>1. rows' \in Seq(Row)
      BY <1>0, <2>1 DEF TypeOK
    <3>2. QED
      BY <1>t, <2>1, <2>2, <2>3, <3>1
<1>8. ASSUME NEW r \in Req, CommitTicket(r) PROVE Planned'
  <2>1. /\ req'[r] = Idle /\ (\A q \in Req \ {r} : req'[q] = req[q]) /\ req' \in [Req -> ReqType]
        /\ rows' \in Seq(Row) /\ UNCHANGED clash
    BY <1>8, CommitTicketIs
  <2>2. online' \in [Agent -> 0..2 \cup {NoRow}] /\ cnt' \in [Agent -> Nat]
    BY <1>0, <1>8, CommitTicketIs, WriteIs DEF TypeOK
  <2>3. RowsStay
    BY <1>8, CommitTicketIs DEF RowsStay
  <2>4. TypeOK'
    BY <1>0, <2>1, <2>2 DEF TypeOK, ReqType
  <2>5. \A q \in Req : Plans(q)'
    BY <2>1, <2>3, PlansKept, IdlePlans DEF Planned
  <2>6. QED
    BY <2>4, <2>5 DEF Planned
<1>9. ASSUME NEW r \in Req, EnsureFails(r) PROVE Planned'
  <2>1. /\ req'[r] = Idle /\ (\A q \in Req \ {r} : req'[q] = req[q]) /\ req' \in [Req -> ReqType]
        /\ UNCHANGED <<rows, online, cnt, clash>>
    BY <1>9, EnsureFailsIs
  <2>2. TypeOK' /\ RowsStay
    BY <1>0, <2>1, RowsStayIf DEF TypeOK, ReqType
  <2>3. \A q \in Req : Plans(q)'
    BY <2>1, <2>2, PlansKept, IdlePlans DEF Planned
  <2>4. QED
    BY <2>2, <2>3 DEF Planned
<1>10. ASSUME NEW k \in DOMAIN rows, NEW p \in Priority, SetTicketPriority(k, p) PROVE Planned'
  <2>1. /\ Wrote(k, [rows[k] EXCEPT !.prio = p]) /\ UNCHANGED <<online, cnt, req>> /\ clash' \in BOOLEAN
    BY <1>0, <1>10, SetTicketPriorityIs
  <2>2. TypeOK' /\ RowsStay
    BY <1>0, <2>1, RowTypes DEF TypeOK, Wrote, RowsStay, Row
  <2>3. QED
    BY <2>1, <2>2, PlansKept DEF Planned
<1>11. ASSUME NEW a \in Agent, NEW st \in 0..2, UpsertAgentStatus(a, st) \/ SetAgentStatus(a, st) PROVE Planned'
  <2>1. UNCHANGED <<rows, cnt, req, clash>> /\ online' \in [Agent -> 0..2 \cup {NoRow}]
    BY <1>0, <1>11, StatusSetIs
  <2>2. TypeOK' /\ RowsStay
    BY <1>0, <2>1, RowsStayIf DEF TypeOK
  <2>3. QED
    BY <2>1, <2>2, PlansKept DEF Planned
<1>12. QED
  BY <1>1, <1>3, <1>4, <1>5, <1>6, <1>7, <1>8, <1>9, <1>10, <1>11 DEF Next, Issues

\* Requests in flight are what the handlers of admin.go make them, whatever the
\* statements of others did to the ticket in between.
LEMMA PlansHold == Spec => []Planned
<1>1. Init => Planned
  <2> SUFFICES ASSUME Init PROVE Planned
    OBVIOUS
  <2>1. rows \in Seq(Row) /\ online \in [Agent -> 0..2 \cup {NoRow}] /\ cnt \in [Agent -> Nat] /\ clash \in BOOLEAN
    <3>1. rows \in Seq(Row)
      BY DEF Init
    <3>2. online \in [Agent -> 0..2 \cup {NoRow}]
      <4>1. \A a \in Agent : (IF a \in InPool THEN 0 ELSE NoRow) \in 0..2 \cup {NoRow}
        OBVIOUS
      <4>2. QED
        BY <4>1 DEF Init
    <3>3. cnt \in [Agent -> Nat]
      BY DEF Init
    <3>4. clash \in BOOLEAN
      BY DEF Init
    <3>5. QED
      BY <3>1, <3>2, <3>3, <3>4
  <2>2. Idle \in ReqType
    BY DEF Idle, ReqType, Op
  <2>3. req \in [Req -> ReqType] /\ \A q \in Req : req[q] = Idle
    BY <2>2 DEF Init
  <2>4. TypeOK
    BY <2>1, <2>3 DEF TypeOK, ReqType
  <2>5. \A q \in Req : Plans(q)
    BY <2>3 DEF Plans, Idle
  <2>6. QED
    BY <2>4, <2>5 DEF Planned
<1>2. Planned /\ [Next]_vars => Planned'
  <2> SUFFICES ASSUME Planned, [Next]_vars PROVE Planned'
    OBVIOUS
  <2>1. ASSUME UNCHANGED vars PROVE Planned'
    BY <2>1 DEF vars, Planned, TypeOK, Plans
  <2>2. QED
    BY <2>1, PlannedStep
<1>3. QED
  BY <1>1, <1>2, PTL DEF Spec

\* Rows, counters and requests in flight are what ticket_service.go makes them, and no
\* plan of a request loses its ticket.
THEOREM TicketTypes == Spec => []TypeOK
  BY PlansHold, PTL DEF Planned

-----------------------------------------------------------------------------
(* The range locks of EnsureTicket, and what a step does to the open        *)
(* tickets of a thread.                                                    *)

ThreadOf(q) == req[q].todo[1].row.th

Locks ==
    \A q \in Req : req[q].op = "ensure" =>
        /\ OpenOf(ThreadOf(q)) = {}
        /\ \A p \in Req : req[p].op = "ensure" /\ ThreadOf(p) = ThreadOf(q) => p = q

\* A row stays as open as it was, or is brought back as a handled ticket of a
\* thread that no EnsureTicket holds.
Reopens(k, row) == row.st \in Open /\ rows[k].st \notin Open

RowStep ==
    \/ UNCHANGED rows
    \/ \E k \in DOMAIN rows, row \in Row :
          /\ Wrote(k, row) /\ row.th = rows[k].th
          /\ Reopens(k, row) => row.st = "handling" /\ ~Creating(rows[k].th)

EnsuresStay == \A q \in Req : req'[q].op = "ensure" => req'[q] = req[q]

LEMMA IssuedEnsures ==
    ASSUME Planned, NEW r \in Req, NEW s, s # "create", NEW rest, Issued(r, s, rest)
    PROVE  EnsuresStay
<1>1. req[r].op \notin {"idle", "ensure"} /\ req[r] \in ReqType
  BY IssuerHasTicket DEF Issued, Planned, TypeOK, ReqType
<1>2. req'[r].op # "ensure"
  <2>1. CASE rest = <<>>
    BY <2>1 DEF Issued, Idle
  <2>2. CASE rest # <<>>
    BY <1>1, <2>2 DEF Issued, ReqType
  <2>3. QED
    BY <2>1, <2>2
<1>3. QED
  BY <1>2 DEF EnsuresStay, Issued

LEMMA OpenSteps ==
    ASSUME Planned, Next
    PROVE  \/ RowStep /\ EnsuresStay
           \/ UNCHANGED rows /\ \E r \in Req : StartsEnsure(r)
           \/ \E r \in Req : CommitTicket(r)
<1>0. TypeOK
  BY DEF Planned
<1>1. ASSUME NEW r \in Req, Starts(r)
      PROVE  \/ UNCHANGED rows /\ EnsuresStay
             \/ UNCHANGED rows /\ StartsEnsure(r)
  <2>1. CASE StartsEnsure(r)
    BY <2>1 DEF StartsEnsure, Made
  <2>2. ASSUME NEW op, op # "ensure", NEW k, NEW agents, NEW todo, Made(r, op, k, agents, todo)
        PROVE  UNCHANGED rows /\ EnsuresStay
    BY <2>2 DEF Made, EnsuresStay
  <2>3. CASE StartsTakeover(r)
    BY <2>2, <2>3 DEF StartsTakeover
  <2>4. CASE StartsClose(r)
    BY <2>2, <2>4 DEF StartsClose
  <2>5. CASE StartsTransfer(r)
    BY <2>2, <2>5 DEF StartsTransfer
  <2>6. CASE StartsCancel(r)
    BY <2>2, <2>6 DEF StartsCancel
  <2>7. QED
    BY <1>0, <1>1, <2>1, <2>3, <2>4, <2>5, <2>6, StartKinds
<1>2. ASSUME NEW r \in Req, AssignRow(r) PROVE RowStep /\ EnsuresStay
  <2> DEFINE k == req[r].k
             row == [rows[k] EXCEPT !.hdl = req[r].todo[1].a]
  <2>1. Issued(r, "assign", Tail(req[r].todo)) /\ Wrote(k, row) /\ row \in Row /\ k \in DOMAIN rows
    BY <1>2, AssignRowIs DEF Wrote
  <2>2. row.th = rows[k].th /\ row.st = rows[k].st
    BY <1>0, <2>1, RowTypes DEF Row
  <2> HIDE DEF row, k
  <2>3. RowStep
    BY <2>1, <2>2 DEF RowStep, Reopens
  <2>4. QED
    BY <2>1, <2>3, IssuedEnsures
<1>3. ASSUME NEW r \in Req, HandRow(r) PROVE RowStep /\ EnsuresStay
  <2> DEFINE k == req[r].k
             row == [rows[k] EXCEPT !.hdl = req[r].todo[1].a, !.st = "handling"]
  <2>1. Issued(r, "hand", Tail(req[r].todo)) /\ Wrote(k, row) /\ row \in Row /\ k \in DOMAIN rows /\ MayOpen(k)
    BY <1>3, HandRowIs DEF Wrote
  <2>2. row.th = rows[k].th /\ row.st = "handling"
    BY <1>0, <2>1, RowTypes DEF Row
  <2> HIDE DEF row, k
  <2>3. RowStep
    BY <2>1, <2>2 DEF RowStep, Reopens, MayOpen
  <2>4. QED
    BY <2>1, <2>3, IssuedEnsures
<1>4. ASSUME NEW r \in Req, SaveRow(r) PROVE RowStep /\ EnsuresStay
  <2> DEFINE k == req[r].k
             row == req[r].todo[1].row
  <2>1. /\ Issued(r, "save", Tail(req[r].todo)) /\ Wrote(k, row) /\ row \in Row /\ k \in DOMAIN rows
        /\ row.th = rows[k].th /\ row.st # "pending" /\ (row.st \in Open => MayOpen(k))
    BY <1>4, SaveRowIs DEF Wrote
  <2> HIDE DEF row, k
  <2>2. RowStep
    BY <2>1 DEF RowStep, Reopens, MayOpen, Open
  <2>3. QED
    BY <2>1, <2>2, IssuedEnsures
<1>5. ASSUME NEW r \in Req, ReadCount(r) PROVE RowStep /\ EnsuresStay
  BY <1>5, ReadCountIs, IssuedEnsures DEF RowStep
<1>6. ASSUME NEW r \in Req, WriteCount(r) PROVE RowStep /\ EnsuresStay
  BY <1>6, WriteCountIs, IssuedEnsures DEF RowStep
<1>7. ASSUME NEW r \in Req, EnsureFails(r) PROVE RowStep /\ EnsuresStay
  BY <1>7, EnsureFailsIs DEF RowStep, EnsuresStay, Idle
<1>8. ASSUME NEW k \in DOMAIN rows, NEW p \in Priority, SetTicketPriority(k, p)
      PROVE  RowStep /\ EnsuresStay
  <2> DEFINE row == [rows[k] EXCEPT !.prio = p]
  <2>1. Wrote(k, row) /\ row \in Row /\ UNCHANGED req
    BY <1>0, <1>8, SetTicketPriorityIs DEF Wrote
  <2>2. row.th = rows[k].th /\ row.st = rows[k].st
    BY <1>0, RowTypes DEF Row
  <2> HIDE DEF row
  <2>3. QED
    BY <2>1, <2>2 DEF RowStep, Reopens, EnsuresStay
<1>9. ASSUME NEW a \in Agent, NEW st \in 0..2, UpsertAgentStatus(a, st) \/ SetAgentStatus(a, st)
      PROVE  RowStep /\ EnsuresStay
  BY <1>0, <1>9, StatusSetIs DEF RowStep, EnsuresStay
<1>10. QED
  BY <1>1, <1>2, <1>3, <1>4, <1>5, <1>6, <1>7, <1>8, <1>9 DEF Next, Issues, RowStep

LEMMA OpenAfter ==
    ASSUME TypeOK, RowStep, NEW th
    PROVE  \/ OpenOf(th)' \subseteq OpenOf(th)
           \/ /\ ~Creating(th)
              /\ \E k \in DOMAIN rows : rows[k].st \notin Open /\ rows'[k].st = "handling"
<1>1. CASE UNCHANGED rows
  BY <1>1 DEF OpenOf
<1>2. ASSUME NEW k \in DOMAIN rows, NEW row \in Row, Wrote(k, row), row.th = rows[k].th,
             Reopens(k, row) => row.st = "handling" /\ ~Creating(rows[k].th)
      PROVE  \/ OpenOf(th)' \subseteq OpenOf(th)
             \/ /\ ~Creating(th)
                /\ \E j \in DOMAIN rows : rows[j].st \notin Open /\ rows'[j].st = "handling"
  <2>1. DOMAIN rows' = DOMAIN rows /\ rows'[k] = row /\ \A j \in DOMAIN rows \ {k} : rows'[j] = rows[j]
    BY <1>2 DEF Wrote
  <2>2. CASE Reopens(k, row) /\ row.th = th
    BY <1>2, <2>1, <2>2 DEF Reopens
  <2>3. CASE ~Reopens(k, row) \/ row.th # th
    BY <1>2, <2>1, <2>3 DEF Reopens, OpenOf
  <2>4. QED
    BY <2>2, <2>3
<1>3. QED
  BY <1>1, <1>2 DEF RowStep

\* While EnsureTicket has a new ticket to commit its thread has no open one, and
\* no other EnsureTicket is at work for it.
LEMMA LocksStep == ASSUME Planned, Locks, Next PROVE Locks'
<1>0. TypeOK
  BY DEF Planned
<1>1. CASE RowStep /\ EnsuresStay
  <2>1. ASSUME NEW q \in Req, req'[q].op = "ensure"
        PROVE  /\ req'[q] = req[q] /\ ThreadOf(q)' = ThreadOf(q)
               /\ OpenOf(ThreadOf(q))' = {}
    <3>1. req'[q] = req[q] /\ ThreadOf(q)' = ThreadOf(q)
      BY <1>1, <2>1 DEF EnsuresStay, ThreadOf
    <3>2. req[q].op = "ensure" /\ OpenOf(ThreadOf(q)) = {} /\ Creating(ThreadOf(q))
      BY <2>1, <3>1 DEF Locks, Creating, ThreadOf
    <3>3. ASSUME NEW th, th = ThreadOf(q) PROVE OpenOf(th)' = {}
      BY <1>0, <1>1, <3>2, <3>3, OpenAfter
    <3> HIDE DEF ThreadOf
    <3>4. OpenOf(ThreadOf(q))' = {}
      <4>1. PICK th : th = ThreadOf(q)
        OBVIOUS
      <4>2. QED
        BY <3>1, <3>3, <4>1 DEF OpenOf
    <3>5. QED
      BY <3>1, <3>4
  <2>2. QED
    BY <2>1 DEF Locks
<1>2. ASSUME NEW r \in Req, UNCHANGED rows, StartsEnsure(r) PROVE Locks'
  <2>0. PICK th \in Thread :
           /\ OpenOf(th) = {} /\ ~Creating(th)
           /\ \E row, put, agents : Made(r, "ensure", 0, agents, <<Create(row, put)>>) /\ row.th = th
    BY <1>2 DEF StartsEnsure, NewRow
  <2>1. PICK row, put, agents :
           /\ Made(r, "ensure", 0, agents, <<Create(row, put)>>) /\ row.th = th
           /\ OpenOf(th) = {} /\ ~Creating(th)
    BY <2>0
  <2>2. req'[r].op = "ensure" /\ ThreadOf(r)' = th /\ \A q \in Req \ {r} : req'[q] = req[q]
    BY <2>1 DEF Made, Create, ThreadOf
  <2>3. \A q \in Req \ {r} : req'[q].op = "ensure" => req[q].op = "ensure" /\ ThreadOf(q)' = ThreadOf(q)
    BY <2>2 DEF ThreadOf
  <2>4. \A q \in Req : req[q].op = "ensure" => ThreadOf(q) # th
    BY <2>1 DEF Creating, ThreadOf
  <2>5. \A q \in Req : req'[q].op = "ensure" => OpenOf(ThreadOf(q))' = {}
    <3>1. ASSUME NEW q \in Req \ {r}, req'[q].op = "ensure" PROVE OpenOf(ThreadOf(q))' = {}
      BY <1>2, <2>3, <3>1 DEF Locks, OpenOf
    <3>2. OpenOf(ThreadOf(r))' = {}
      BY <1>2, <2>1, <2>2 DEF OpenOf
    <3>3. QED
      BY <3>1, <3>2
  <2>6. QED
    BY <2>2, <2>3, <2>4, <2>5 DEF Locks
<1>3. ASSUME NEW r \in Req, CommitTicket(r) PROVE Locks'
  <2> DEFINE row == req[r].todo[1].row
  <2>1. /\ req[r].op = "ensure" /\ req'[r] = Idle /\ \A q \in Req \ {r} : req'[q] = req[q]
        /\ DOMAIN rows' = 1..(Len(rows) + 1) /\ DOMAIN rows = 1..Len(rows) /\ Len(rows) \in Nat
        /\ rows'[Len(rows) + 1] = row /\ \A j \in DOMAIN rows : rows'[j] = rows[j]
    BY <1>3, CommitTicketIs
  <2>2. \A q \in Req : req'[q].op = "ensure" => q # r /\ req[q].op = "ensure" /\ ThreadOf(q)' = ThreadOf(q)
    BY <2>1 DEF Idle, ThreadOf
  <2>3. \A q \in Req : q # r /\ req[q].op = "ensure" => ThreadOf(q) # row.th
    BY <2>1 DEF Locks, ThreadOf
  <2>4. \A th : th # row.th => OpenOf(th)' = OpenOf(th)
    BY <2>1 DEF OpenOf
  <2> HIDE DEF row
  <2>5. ASSUME NEW q \in Req, req'[q].op = "ensure" PROVE OpenOf(ThreadOf(q))' = {}
    <3>1. PICK th : th = ThreadOf(q)
      OBVIOUS
    <3>2. OpenOf(th)' = {}
      BY <2>2, <2>3, <2>4, <2>5, <3>1 DEF Locks
    <3>3. QED
      BY <2>2, <2>5, <3>1, <3>2 DEF OpenOf
  <2>6. QED
    BY <2>2, <2>5 DEF Locks
<1>4. QED
  BY <1>1, <1>2, <1>3, OpenSteps

LEMMA LocksHold == Spec => []Locks
<1>1. Init => Locks
  BY DEF Init, Idle, Locks
<1>2. Planned /\ Locks /\ [Next]_vars => Locks'
  <2> SUFFICES ASSUME Planned, Locks, [Next]_vars PROVE Locks'
    OBVIOUS
  <2>1. CASE UNCHANGED vars
    BY <2>1 DEF vars, Locks, ThreadOf, OpenOf
  <2>2. QED
    BY <2>1, LocksStep
<1>3. QED
  BY <1>1, <1>2, PlansHold, PTL DEF Spec

LEMMA OpenFinite == ASSUME TypeOK, NEW th PROVE IsFiniteSet(OpenOf(th))
<1>1. DOMAIN rows = 1..Len(rows) /\ Len(rows) \in Nat
  BY DEF TypeOK
<1>2. IsFiniteSet(1..Len(rows))
  BY <1>1, FS_Interval
<1>3. QED
  BY <1>1, <1>2, FS_Subset DEF OpenOf

\* EnsureTicket never makes a second open ticket of a thread: wherever a thread
\* comes to have one more open ticket and more than one, a request that read its
\* ticket before the ticket ended has brought it back.
THEOREM OneOpenTicketUnlessStale == Spec => DuplicateOnlyByStaleWrite
<1> DEFINE Back(th) == OpenTwice(th) =>
              \E k \in DOMAIN rows : rows[k].st \notin Open /\ rows'[k].st = "handling"
<1>1. ASSUME Planned, Locks, Next, NEW th \in Thread PROVE Back(th)
  <2>0. TypeOK /\ TypeOK'
    BY <1>1, PlannedStep DEF Planned
  <2>1. /\ IsFiniteSet(OpenOf(th)) /\ IsFiniteSet(OpenOf(th)')
        /\ Cardinality(OpenOf(th)) \in Nat /\ Cardinality(OpenOf(th)') \in Nat
    <3>1. IsFiniteSet(OpenOf(th))
      BY <2>0, OpenFinite
    <3>2. IsFiniteSet(OpenOf(th)')
      <4>1. DOMAIN rows' = 1..Len(rows') /\ Len(rows') \in Nat
        BY <2>0 DEF TypeOK
      <4>2. IsFiniteSet(1..Len(rows'))
        BY <4>1, FS_Interval
      <4>3. OpenOf(th)' \subseteq 1..Len(rows')
        BY <4>1 DEF OpenOf
      <4>4. QED
        BY <4>2, <4>3, FS_Subset
    <3>3. QED
      BY <3>1, <3>2, FS_CardinalityType
  <2>2. OpenOf(th)' \subseteq OpenOf(th) => ~OpenTwice(th)
    <3>1. ASSUME OpenOf(th)' \subseteq OpenOf(th) PROVE Cardinality(OpenOf(th)') <= Cardinality(OpenOf(th))
      BY <2>1, <3>1, FS_Subset
    <3>2. QED
      BY <2>1, <3>1 DEF OpenTwice
  <2>3. CASE RowStep /\ EnsuresStay
    BY <2>0, <2>2, <2>3, OpenAfter
  <2>4. CASE UNCHANGED rows
    BY <2>2, <2>4 DEF OpenOf
  <2>5. ASSUME NEW r \in Req, CommitTicket(r) PROVE ~OpenTwice(th)
    <3> DEFINE row == req[r].todo[1].row
    <3>1. /\ req[r].op = "ensure" /\ DOMAIN rows' = 1..(Len(rows) + 1) /\ DOMAIN rows = 1..Len(rows)
          /\ rows'[Len(rows) + 1] = row /\ (\A j \in DOMAIN rows : rows'[j] = rows[j]) /\ Len(rows) \in Nat
      BY <1>1, <2>5, CommitTicketIs
    <3>2. OpenOf(row.th) = {}
      BY <1>1, <3>1 DEF Locks, ThreadOf
    <3> HIDE DEF row
    <3>3. CASE th = row.th
      <4>1. OpenOf(th)' \subseteq {Len(rows) + 1}
        BY <3>1, <3>2, <3>3 DEF OpenOf
      <4>2. Cardinality(OpenOf(th)') <= 1
        <5>1. IsFiniteSet({Len(rows) + 1}) /\ Cardinality({Len(rows) + 1}) = 1
          BY FS_Singleton
        <5>2. QED
          BY <4>1, <5>1, FS_Subset
      <4>3. QED
        BY <2>1, <4>2 DEF OpenTwice
    <3>4. CASE th # row.th
      <4>1. OpenOf(th)' \subseteq OpenOf(th)
        BY <3>1, <3>4 DEF OpenOf
      <4>2. QED
        BY <2>2, <4>1
    <3>5. QED
      BY <3>3, <3>4
  <2>6. QED
    BY <1>1, <2>3, <2>4, <2>5, OpenSteps
<1>2. Planned /\ Locks /\ [Next]_vars => [\A th \in Thread : Back(th)]_vars
  BY <1>1
<1>3. QED
  BY <1>2, PlansHold, LocksHold, PTL DEF Spec, DuplicateOnlyByStaleWrite

-----------------------------------------------------------------------------
(* Requests that do not overlap.  Off(a, d): the counter of a is d more than *)
(* the number of tickets a handles; Puts: the UPDATE that will move it by d. *)
(* Each request is at one of the points its handler goes through, and the   *)
(* counters of its agents are off by what it has still to do.               *)

Held(a) == Cardinality(Handles(a))
Off(a, d) == a \in InPool => cnt[a] = Held(a) + d
Puts(s, a, d) == s \in PutStmt /\ s.a = a /\ (a \in InPool => s.n = cnt[a] + d)

Only(u) == {u} \ {NoAgent}
Doing(op, k, agents, todo) == [op |-> op, k |-> k, agents |-> agents, todo |-> todo]

TakingAt(k, u, todo) ==
    \/ todo = TakeoverTodo(k, u) /\ Off(u, 0)
    \/ u # NoAgent /\ todo = <<Adjust(u, 1), Over(k, u)>> /\ Off(u, 0)
    \/ u # NoAgent /\ todo = <<todo[1], Over(k, u)>> /\ Puts(todo[1], u, 1) /\ Off(u, 0)
    \/ todo = <<Over(k, u)>> /\ Off(u, 1)

Taking(q, k, u) ==
    /\ req[q] = Doing("takeover", k, Only(u), req[q].todo)
    /\ rows[k].st = "pending" /\ TakingAt(k, u, req[q].todo)

ClosingAt(k, h, todo) ==
    \/ /\ todo = CloseTodo(k, h) /\ Off(h, 0)
       /\ rows[k].st # "closed" /\ rows[k].hdl = h /\ (h # NoAgent => rows[k].st = "handling")
    \/ h # NoAgent /\ todo = <<Adjust(h, -1)>> /\ Off(h, 1)
    \/ h # NoAgent /\ todo = <<todo[1]>> /\ Puts(todo[1], h, -1) /\ Off(h, 1)

Closing(q, k, h) ==
    req[q] = Doing("close", k, Only(h), req[q].todo) /\ ClosingAt(k, h, req[q].todo)

\* A ticket passed to the agent who has it moves no counter in the end.
Gap(h, to) == IF h = to THEN 0 ELSE 1

PassingAt(k, h, to, todo) ==
    \/ /\ todo = TransferTodo(h, to) /\ Off(h, 0) /\ Off(to, 0)
       /\ rows[k].st \in Open /\ rows[k].hdl = h /\ (h # NoAgent => rows[k].st = "handling")
    \/ /\ h # NoAgent /\ Off(h, Gap(h, to)) /\ Off(to, -Gap(h, to))
       /\ rows[k].st = "handling" /\ rows[k].hdl = to
       /\ \/ todo = <<Adjust(h, -1), Adjust(to, 1)>>
          \/ todo = <<todo[1], Adjust(to, 1)>> /\ Puts(todo[1], h, -1)
    \/ /\ h # to => Off(h, 0)
       /\ Off(to, -1)
       /\ \/ todo = <<Adjust(to, 1)>>
          \/ todo = <<todo[1]>> /\ Puts(todo[1], to, 1)

Passing(q, k, h, to) ==
    /\ req[q] = Doing("transfer", k, {h, to} \ {NoAgent}, req[q].todo)
    /\ PassingAt(k, h, to, req[q].todo)

Canceling(q, k) ==
    /\ req[q] = Doing("cancel", k, {}, <<Ended(k, "canceled")>>)
    /\ rows[k].st = "pending" /\ rows[k].hdl = NoAgent

Ensuring(q, th) ==
    \/ req[q] = Doing("ensure", 0, {}, <<Create(NewRow(th, "pending", NoAgent), <<>>)>>)
    \/ \E a \in Agent :
          LET put == req[q].todo[1].put
          IN  /\ req[q] = Doing("ensure", 0, {a}, <<Create(NewRow(th, "handling", a), put)>>)
              /\ Puts(put, a, 1) /\ put.n <= MaxConc /\ Off(a, 0)

Stage(q) ==
    \/ req[q] = Idle
    \/ \E k \in DOMAIN rows, u \in Uid : Taking(q, k, u) \/ Closing(q, k, u)
    \/ \E k \in DOMAIN rows, h \in Uid, to \in Agent : Passing(q, k, h, to)
    \/ \E k \in DOMAIN rows : Canceling(q, k)
    \/ \E th \in Thread : Ensuring(q, th)

\* No two requests share a ticket or an agent.
Alone ==
    \A p, q \in Req : p # q =>
       /\ req[p].agents \cap req[q].agents = {}
       /\ req[p].k # 0 => req[p].k # req[q].k

\* Agents and tickets that no request is about to touch.
AgentsRest == \A a \in InPool : ~Busy(a) => Off(a, 0)
Unheld(k) == rows[k].hdl = NoAgent \/ \E q \in Req : req[q].op = "takeover" /\ req[q].k = k
RowsRest == \A k \in DOMAIN rows : rows[k].st \in {"pending", "canceled"} => Unheld(k)
PoolStays == \A a \in InPool : online[a] # NoRow

Orderly == Alone /\ AgentsRest /\ RowsRest /\ \A q \in Req : Stage(q)
Exact == PoolStays /\ (~clash => Orderly)

LEMMA UidIs ==
    ASSUME NEW u \in Uid
    PROVE  /\ Only(u) \subseteq Agent
           /\ u # NoAgent => Only(u) = {u} /\ u \in Agent
           /\ u = NoAgent => Only(u) = {} /\ u \notin InPool /\ u \notin Agent
  BY TicketAssumption DEF Only, Uid

LEMMA OffKept ==
    ASSUME NEW u, u \in InPool => cnt'[u] = cnt[u] /\ Held(u)' = Held(u)
    PROVE  /\ \A d : Off(u, d) => Off(u, d)'
           /\ \A d, s : Puts(s, u, d) => Puts(s, u, d)'
  BY DEF Off, Puts

LEMMA OutOfPool == ASSUME NEW u, u \notin InPool PROVE \A d : Off(u, d) /\ Off(u, d)'
  BY DEF Off

-----------------------------------------------------------------------------
(* What writing a row does to the number of tickets of an agent.           *)

With(row, a) == row.st = "handling" /\ row.hdl = a

LEMMA HandlesFinite == ASSUME TypeOK, NEW a PROVE IsFiniteSet(Handles(a)) /\ Held(a) \in Nat
<1>1. DOMAIN rows = 1..Len(rows) /\ Len(rows) \in Nat
  BY DEF TypeOK
<1>2. IsFiniteSet(1..Len(rows)) /\ Handles(a) \subseteq 1..Len(rows)
  BY <1>1, FS_Interval DEF Handles
<1>3. QED
  BY <1>2, FS_Subset, FS_CardinalityType DEF Held

LEMMA HeldSame == ASSUME UNCHANGED rows PROVE \A a : Held(a)' = Held(a)
  BY DEF Held, Handles

LEMMA HeldMoves ==
    ASSUME TypeOK, NEW k \in DOMAIN rows, NEW row \in Row, Wrote(k, row), NEW a
    PROVE  /\ (With(row, a) <=> With(rows[k], a)) => Held(a)' = Held(a)
           /\ With(row, a) /\ ~With(rows[k], a) => Held(a)' = Held(a) + 1
           /\ ~With(row, a) /\ With(rows[k], a) => Held(a)' = Held(a) - 1
           /\ With(rows[k], a) => Held(a) > 0
<1>1. /\ DOMAIN rows' = DOMAIN rows /\ rows'[k] = row
      /\ \A j \in DOMAIN rows \ {k} : rows'[j] = rows[j]
  BY DEF Wrote
<1>2. IsFiniteSet(Handles(a)) /\ Held(a) \in Nat
  BY HandlesFinite
<1>3. ASSUME With(row, a) <=> With(rows[k], a) PROVE Held(a)' = Held(a)
  <2>1. Handles(a)' = Handles(a)
    BY <1>1, <1>3 DEF Handles, With
  <2>2. QED
    BY <2>1 DEF Held
<1>4. ASSUME With(row, a), ~With(rows[k], a) PROVE Held(a)' = Held(a) + 1
  <2>1. Handles(a)' = Handles(a) \cup {k} /\ k \notin Handles(a)
    BY <1>1, <1>4 DEF Handles, With
  <2>2. QED
    BY <1>2, <2>1, FS_AddElement DEF Held
<1>5. ASSUME With(rows[k], a) PROVE k \in Handles(a) /\ Held(a) > 0
  <2>1. k \in Handles(a)
    BY <1>5 DEF Handles, With
  <2>2. QED
    BY <1>2, <2>1, FS_EmptySet DEF Held
<1>6. ASSUME ~With(row, a), With(rows[k], a) PROVE Held(a)' = Held(a) - 1
  <2>1. Handles(a)' = Handles(a) \ {k} /\ k \in Handles(a)
    BY <1>1, <1>5, <1>6 DEF Handles, With
  <2>2. QED
    BY <1>2, <2>1, FS_RemoveElement DEF Held
<1>7. QED
  BY <1>3, <1>4, <1>5, <1>6

-----------------------------------------------------------------------------
(* A request whose ticket and agents nobody moves stays where it is.       *)

LEMMA PlansKeepRow ==
    ASSUME NEW k, rows'[k] = rows[k]
    PROVE  /\ \A u : Over(k, u)' = Over(k, u) /\ TakeoverTodo(k, u)' = TakeoverTodo(k, u)
           /\ \A st : Ended(k, st)' = Ended(k, st)
           /\ \A h : CloseTodo(k, h)' = CloseTodo(k, h)
  BY DEF Over, Ended, TakeoverTodo, CloseTodo

LEMMA TakingKept ==
    ASSUME NEW q, NEW k, NEW u, Taking(q, k, u), req'[q] = req[q], rows'[k] = rows[k],
           u \in InPool => cnt'[u] = cnt[u] /\ Held(u)' = Held(u)
    PROVE  Taking(q, k, u)'
<1>1. /\ \A d : Off(u, d) => Off(u, d)'
      /\ \A d, s : Puts(s, u, d) => Puts(s, u, d)'
  BY OffKept
<1>2. \A todo : TakingAt(k, u, todo) => TakingAt(k, u, todo)'
  BY <1>1, PlansKeepRow DEF TakingAt
<1>3. QED
  BY <1>2 DEF Taking

LEMMA ClosingKept ==
    ASSUME NEW q, NEW k, NEW h, Closing(q, k, h), req'[q] = req[q], rows'[k] = rows[k],
           h \in InPool => cnt'[h] = cnt[h] /\ Held(h)' = Held(h)
    PROVE  Closing(q, k, h)'
<1>1. /\ \A d : Off(h, d) => Off(h, d)'
      /\ \A d, s : Puts(s, h, d) => Puts(s, h, d)'
  BY OffKept
<1>2. \A todo : ClosingAt(k, h, todo) => ClosingAt(k, h, todo)'
  BY <1>1, PlansKeepRow DEF ClosingAt
<1>3. QED
  BY <1>2 DEF Closing

LEMMA PassingKept ==
    ASSUME NEW q, NEW k, NEW h, NEW to, Passing(q, k, h, to), req'[q] = req[q], rows'[k] = rows[k],
           \A a \in {h, to} : a \in InPool => cnt'[a] = cnt[a] /\ Held(a)' = Held(a)
    PROVE  Passing(q, k, h, to)'
<1>1. \A a \in {h, to} : /\ \A d : Off(a, d) => Off(a, d)'
                         /\ \A d, s : Puts(s, a, d) => Puts(s, a, d)'
  BY OffKept
<1>2. \A todo : PassingAt(k, h, to, todo) => PassingAt(k, h, to, todo)'
  BY <1>1 DEF PassingAt
<1>3. QED
  BY <1>2 DEF Passing

LEMMA StageKept ==
    ASSUME NEW q \in Req, Stage(q), req'[q] = req[q], DOMAIN rows \subseteq DOMAIN rows',
           req[q].k \in DOMAIN rows => rows'[req[q].k] = rows[req[q].k],
           \A a \in req[q].agents : cnt'[a] = cnt[a] /\ Held(a)' = Held(a)
    PROVE  Stage(q)'
<1>0. InPool \subseteq Agent /\ NoAgent \notin InPool
  BY TicketAssumption
<1>1. CASE req[q] = Idle
  BY <1>1 DEF Stage, Idle
<1>2. ASSUME NEW k \in DOMAIN rows, NEW u \in Uid, Taking(q, k, u) PROVE Stage(q)'
  <2>1. req[q].k = k /\ (u \in InPool => u \in req[q].agents)
    BY <1>0, <1>2 DEF Taking, Doing, Only
  <2>2. Taking(q, k, u)'
    BY <1>2, <2>1, TakingKept
  <2>3. QED
    BY <2>2 DEF Stage
<1>3. ASSUME NEW k \in DOMAIN rows, NEW u \in Uid, Closing(q, k, u) PROVE Stage(q)'
  <2>1. req[q].k = k /\ (u \in InPool => u \in req[q].agents)
    BY <1>0, <1>3 DEF Closing, Doing, Only
  <2>2. Closing(q, k, u)'
    BY <1>3, <2>1, ClosingKept
  <2>3. QED
    BY <2>2 DEF Stage
<1>4. ASSUME NEW k \in DOMAIN rows, NEW h \in Uid, NEW to \in Agent, Passing(q, k, h, to) PROVE Stage(q)'
  <2>1. req[q].k = k /\ \A a \in {h, to} : a \in InPool => a \in req[q].agents
    BY <1>0, <1>4 DEF Passing, Doing
  <2>2. Passing(q, k, h, to)'
    BY <1>4, <2>1, PassingKept
  <2>3. QED
    BY <2>2 DEF Stage
<1>5. ASSUME NEW k \in DOMAIN rows, Canceling(q, k) PROVE Stage(q)'
  <2>1. req[q].k = k
    BY <1>5 DEF Canceling, Doing
  <2>2. rows'[k] = rows[k] /\ Ended(k, "canceled")' = Ended(k, "canceled")
    BY <2>1, PlansKeepRow
  <2>3. Canceling(q, k)'
    BY <1>5, <2>2 DEF Canceling
  <2>4. QED
    BY <2>3 DEF Stage
<1>6. ASSUME NEW th \in Thread, Ensuring(q, th) PROVE Stage(q)'
  <2>1. CASE req[q] = Doing("ensure", 0, {}, <<Create(NewRow(th, "pending", NoAgent), <<>>)>>)
    BY <2>1 DEF Stage, Ensuring
  <2>2. ASSUME NEW a \in Agent, NEW put, put = req[q].todo[1].put,
               req[q] = Doing("ensure", 0, {a}, <<Create(NewRow(th, "handling", a), put)>>),
               Puts(put, a, 1), put.n <= MaxConc, Off(a, 0)
        PROVE  Ensuring(q, th)'
    <3>1. Puts(put, a, 1)' /\ Off(a, 0)'
      BY <2>2, OffKept DEF Doing
    <3>2. QED
      BY <2>2, <3>1 DEF Ensuring
  <2>3. QED
    BY <1>6, <2>1, <2>2 DEF Ensuring, Stage
<1>7. QED
  BY <1>1, <1>2, <1>3, <1>4, <1>5, <1>6 DEF Stage

-----------------------------------------------------------------------------
(* A step of one request keeps the others in order.                        *)

\* What a step of r leaves alone.
Local(r) ==
    /\ \A q \in Req \ {r} : req'[q] = req[q]
    /\ \/ req'[r] = Idle
       \/ req'[r].op = req[r].op /\ req'[r].k = req[r].k /\ req'[r].agents = req[r].agents
    /\ DOMAIN rows \subseteq DOMAIN rows'
    /\ \A j \in DOMAIN rows : j # req[r].k => rows'[j] = rows[j]
    /\ \A j \in DOMAIN rows' \ DOMAIN rows : rows'[j].st \in {"pending", "canceled"} => rows'[j].hdl = NoAgent
    /\ \A a \in Agent \ req[r].agents : cnt'[a] = cnt[a] /\ Held(a)' = Held(a)

\* What it has to see to itself.
Lands(r) ==
    /\ Stage(r)'
    /\ req'[r] = Idle => \A a \in req[r].agents : Off(a, 0)'
    /\ req[r].k \in DOMAIN rows =>
          \/ rows'[req[r].k] = rows[req[r].k] /\ (req[r].op = "takeover" => req'[r].op = "takeover")
          \/ /\ rows'[req[r].k].st \in {"pending", "canceled"}
             /\ rows'[req[r].k].hdl = NoAgent \/ (req'[r].op = "takeover" /\ req'[r].k = req[r].k)
          \/ rows'[req[r].k].st \notin {"pending", "canceled"}

LEMMA LocalOrder == ASSUME Planned, Orderly, NEW r \in Req, Local(r), Lands(r) PROVE Orderly'
<1>0. InPool \subseteq Agent
  BY TicketAssumption
<1>1. \A q \in Req : \/ req'[q] = Idle
                     \/ req'[q].op = req[q].op /\ req'[q].k = req[q].k /\ req'[q].agents = req[q].agents
  BY DEF Local
<1>2. Idle.agents = {} /\ Idle.k = 0 /\ Idle.op = "idle"
  BY DEF Idle
<1>3. Alone'
  <2> SUFFICES ASSUME NEW p \in Req, NEW q \in Req, p # q
               PROVE  /\ req'[p].agents \cap req'[q].agents = {}
                      /\ req'[p].k # 0 => req'[p].k # req'[q].k
    BY DEF Alone
  <2>1. req[p].agents \cap req[q].agents = {} /\ (req[p].k # 0 => req[p].k # req[q].k)
    BY DEF Orderly, Alone
  <2>2. \A x \in {p, q} : /\ req'[x].agents = {} \/ req'[x].agents = req[x].agents
                          /\ req'[x].k = 0 \/ req'[x].k = req[x].k
    BY <1>1, <1>2
  <2>3. QED
    BY <2>1, <2>2
<1>4. ASSUME NEW a \in InPool, ~Busy(a)' PROVE Off(a, 0)'
  <2>1. CASE a \in req[r].agents
    <3>1. req'[r] = Idle
      BY <1>1, <1>4, <2>1 DEF Busy
    <3>2. QED
      BY <2>1, <3>1 DEF Lands
  <2>2. CASE a \notin req[r].agents
    <3>1. ~Busy(a)
      BY <1>4, <2>2 DEF Busy, Local
    <3>2. Off(a, 0)
      BY <3>1 DEF Orderly, AgentsRest
    <3>3. cnt'[a] = cnt[a] /\ Held(a)' = Held(a)
      BY <1>0, <2>2 DEF Local
    <3>4. QED
      BY <3>2, <3>3, OffKept
  <2>3. QED
    BY <2>1, <2>2
<1>5. ASSUME NEW j \in DOMAIN rows', rows'[j].st \in {"pending", "canceled"} PROVE Unheld(j)'
  <2>1. CASE j \notin DOMAIN rows
    BY <1>5, <2>1 DEF Local, Unheld
  <2>2. ASSUME j \in DOMAIN rows, rows'[j] = rows[j],
               \A q \in Req : req[q].op = "takeover" /\ req[q].k = j => req'[q].op = "takeover" /\ req'[q].k = j
        PROVE  Unheld(j)'
    <3>1. Unheld(j)
      BY <1>5, <2>2 DEF Orderly, RowsRest
    <3>2. QED
      BY <2>2, <3>1 DEF Unheld
  <2>3. CASE j \in DOMAIN rows /\ j # req[r].k
    <3>1. rows'[j] = rows[j] /\ \A q \in Req : req[q].k = j => req'[q] = req[q]
      BY <2>3 DEF Local
    <3>2. QED
      BY <2>2, <2>3, <3>1
  <2>4. CASE j \in DOMAIN rows /\ j = req[r].k
    <3>1. CASE rows'[j] = rows[j] /\ (req[r].op = "takeover" => req'[r].op = "takeover")
      <4>1. \A q \in Req : req[q].op = "takeover" /\ req[q].k = j => req'[q].op = "takeover" /\ req'[q].k = j
        BY <1>1, <1>2, <2>4, <3>1 DEF Local
      <4>2. QED
        BY <2>2, <2>4, <3>1, <4>1
    <3>2. CASE rows'[j].hdl = NoAgent \/ (req'[r].op = "takeover" /\ req'[r].k = j)
      BY <3>2 DEF Unheld
    <3>3. QED
      BY <1>5, <2>4, <3>1, <3>2 DEF Lands
  <2>5. QED
    BY <2>1, <2>3, <2>4
<1>6. ASSUME NEW q \in Req PROVE Stage(q)'
  <2>1. CASE q = r
    BY <2>1 DEF Lands
  <2>2. CASE q # r
    <3>1. Stage(q) /\ req'[q] = req[q] /\ DOMAIN rows \subseteq DOMAIN rows'
      BY <2>2 DEF Orderly, Local
    <3>2. req[q].k \in DOMAIN rows => rows'[req[q].k] = rows[req[q].k]
      <4>1. SUFFICES ASSUME req[q].k \in DOMAIN rows PROVE req[q].k # req[r].k
        BY DEF Local
      <4>2. req[q].k # 0
        BY <4>1 DEF Planned, TypeOK
      <4>3. QED
        BY <2>2, <4>2 DEF Orderly, Alone
    <3>3. \A a \in req[q].agents : cnt'[a] = cnt[a] /\ Held(a)' = Held(a)
      <4>1. req[q].agents \subseteq Agent \ req[r].agents
        BY <2>2 DEF Planned, TypeOK, Orderly, Alone
      <4>2. QED
        BY <4>1 DEF Local
    <3>4. QED
      BY <3>1, <3>2, <3>3, StageKept
  <2>3. QED
    BY <2>1, <2>2
<1>7. QED
  BY <1>3, <1>4, <1>5, <1>6 DEF Orderly, AgentsRest, RowsRest

-----------------------------------------------------------------------------
(* Which statement comes first tells where a request is.                   *)

LEMMA Kinds ==
    /\ \A u : Assign(u).s = "assign" /\ Assign(u).a = u /\ Hand(u).s = "hand" /\ Hand(u).a = u
    /\ \A row : Save(row).s = "save" /\ Save(row).row = row
    /\ \A a, d : Adjust(a, d).s = "adjust" /\ Adjust(a, d).a = a /\ Adjust(a, d).d = d
    /\ \A p \in PutStmt : p.s = "put"
    /\ \A row, put : Create(row, put).s = "create" /\ Create(row, put).row = row /\ Create(row, put).put = put
    /\ \A k, u : Over(k, u).s = "save" /\ Ended(k, u).s = "save"
  BY DEF Assign, Hand, Save, Adjust, PutStmt, Create, Over, Ended

LEMMA Firsts ==
    /\ \A a : <<a>>[1] = a /\ Tail(<<a>>) = <<>> /\ <<a>> # <<>>
    /\ \A a, b : <<a, b>>[1] = a /\ Tail(<<a, b>>) = <<b>> /\ <<a, b>> # <<>>
    /\ \A a, b, c : <<a, b, c>>[1] = a /\ Tail(<<a, b, c>>) = <<b, c>> /\ <<a, b, c>> # <<>>
<1>1. ASSUME NEW a PROVE <<a>>[1] = a /\ Tail(<<a>>) = <<>> /\ <<a>> # <<>>
  OBVIOUS
<1>2. ASSUME NEW a, NEW b PROVE <<a, b>>[1] = a /\ Tail(<<a, b>>) = <<b>> /\ <<a, b>> # <<>>
  OBVIOUS
<1>3. ASSUME NEW a, NEW b, NEW c
      PROVE  <<a, b, c>>[1] = a /\ Tail(<<a, b, c>>) = <<b, c>> /\ <<a, b, c>> # <<>>
  OBVIOUS
<1>4. QED
  BY <1>1, <1>2, <1>3

LEMMA TakingKinds ==
    ASSUME NEW k, NEW u, NEW todo, TakingAt(k, u, todo)
    PROVE  /\ todo[1].s \in {"assign", "adjust", "put", "save"}
           /\ todo[1].s = "assign" => todo = TakeoverTodo(k, u) /\ Off(u, 0)
           /\ todo[1].s = "adjust" => u # NoAgent /\ todo = <<Adjust(u, 1), Over(k, u)>> /\ Off(u, 0)
           /\ todo[1].s = "put" =>
                 u # NoAgent /\ todo = <<todo[1], Over(k, u)>> /\ Puts(todo[1], u, 1) /\ Off(u, 0)
           /\ todo[1].s = "save" => todo = <<Over(k, u)>> /\ Off(u, 1)
<1>1. CASE todo = TakeoverTodo(k, u) /\ Off(u, 0)
  <2>1. todo[1] = Assign(u)
    BY <1>1, Firsts DEF TakeoverTodo
  <2>2. QED
    BY <1>1, <2>1, Kinds
<1>2. CASE u # NoAgent /\ todo = <<Adjust(u, 1), Over(k, u)>> /\ Off(u, 0)
  <2>1. todo[1] = Adjust(u, 1)
    BY <1>2, Firsts
  <2>2. QED
    BY <1>2, <2>1, Kinds
<1>3. CASE u # NoAgent /\ todo = <<todo[1], Over(k, u)>> /\ Puts(todo[1], u, 1) /\ Off(u, 0)
  <2>1. todo[1].s = "put"
    BY <1>3, Kinds DEF Puts
  <2>2. QED
    BY <1>3, <2>1
<1>4. CASE todo = <<Over(k, u)>> /\ Off(u, 1)
  <2>1. todo[1] = Over(k, u)
    BY <1>4, Firsts
  <2>2. QED
    BY <1>4, <2>1, Kinds
<1>5. QED
  BY <1>1, <1>2, <1>3, <1>4 DEF TakingAt

LEMMA ClosingKinds ==
    ASSUME NEW k, NEW h, NEW todo, ClosingAt(k, h, todo)
    PROVE  /\ todo[1].s \in {"adjust", "put", "save"}
           /\ todo[1].s = "save" =>
                 /\ todo = CloseTodo(k, h) /\ todo[1] = Ended(k, "closed") /\ Off(h, 0)
                 /\ rows[k].st # "closed" /\ rows[k].hdl = h /\ (h # NoAgent => rows[k].st = "handling")
           /\ todo[1].s = "adjust" => h # NoAgent /\ todo = <<Adjust(h, -1)>> /\ Off(h, 1)
           /\ todo[1].s = "put" => h # NoAgent /\ todo = <<todo[1]>> /\ Puts(todo[1], h, -1) /\ Off(h, 1)
<1>1. CASE /\ todo = CloseTodo(k, h) /\ Off(h, 0)
           /\ rows[k].st # "closed" /\ rows[k].hdl = h /\ (h # NoAgent => rows[k].st = "handling")
  <2>1. todo[1] = Ended(k, "closed")
    BY <1>1, Firsts DEF CloseTodo
  <2>2. QED
    BY <1>1, <2>1, Kinds
<1>2. CASE h # NoAgent /\ todo = <<Adjust(h, -1)>> /\ Off(h, 1)
  <2>1. todo[1] = Adjust(h, -1)
    BY <1>2, Firsts
  <2>2. QED
    BY <1>2, <2>1, Kinds
<1>3. CASE h # NoAgent /\ todo = <<todo[1]>> /\ Puts(todo[1], h, -1) /\ Off(h, 1)
  <2>1. todo[1].s = "put"
    BY <1>3, Kinds DEF Puts
  <2>2. QED
    BY <1>3, <2>1
<1>4. QED
  BY <1>1, <1>2, <1>3 DEF ClosingAt

\* The first statement of a transfer, and what follows it.
HandingOn(k, h, to, todo) ==
    /\ todo = TransferTodo(h, to) /\ Off(h, 0) /\ Off(to, 0)
    /\ rows[k].st \in Open /\ rows[k].hdl = h /\ (h # NoAgent => rows[k].st = "handling")
Leaving(k, h, to) ==
    /\ h # NoAgent /\ Off(h, Gap(h, to)) /\ Off(to, -Gap(h, to))
    /\ rows[k].st = "handling" /\ rows[k].hdl = to
Joining(h, to) == (h # to => Off(h, 0)) /\ Off(to, -1)

LEMMA PassingKinds ==
    ASSUME NEW k, NEW h, NEW to, NEW todo, PassingAt(k, h, to, todo)
    PROVE  /\ todo[1].s \in {"adjust", "put", "hand"}
           /\ todo[1].s = "hand" => HandingOn(k, h, to, todo) /\ todo[1] = Hand(to)
           /\ todo[1].s = "adjust" =>
                 \/ todo = <<Adjust(h, -1), Adjust(to, 1)>> /\ Leaving(k, h, to)
                 \/ todo = <<Adjust(to, 1)>> /\ Joining(h, to)
           /\ todo[1].s = "put" =>
                 \/ todo = <<todo[1], Adjust(to, 1)>> /\ Puts(todo[1], h, -1) /\ Leaving(k, h, to)
                 \/ todo = <<todo[1]>> /\ Puts(todo[1], to, 1) /\ Joining(h, to)
<1>1. CASE HandingOn(k, h, to, todo)
  <2>1. todo[1] = Hand(to)
    BY <1>1, Firsts DEF HandingOn, TransferTodo
  <2>2. QED
    BY <1>1, <2>1, Kinds
<1>2. CASE todo = <<Adjust(h, -1), Adjust(to, 1)>> /\ Leaving(k, h, to)
  <2>1. todo[1] = Adjust(h, -1)
    BY <1>2, Firsts
  <2>2. QED
    BY <1>2, <2>1, Kinds
<1>3. CASE todo = <<todo[1], Adjust(to, 1)>> /\ Puts(todo[1], h, -1) /\ Leaving(k, h, to)
  <2>1. todo[1].s = "put"
    BY <1>3, Kinds DEF Puts
  <2>2. QED
    BY <1>3, <2>1
<1>4. CASE todo = <<Adjust(to, 1)>> /\ Joining(h, to)
  <2>1. todo[1] = Adjust(to, 1)
    BY <1>4, Firsts
  <2>2. QED
    BY <1>4, <2>1, Kinds
<1>5. CASE todo = <<todo[1]>> /\ Puts(todo[1], to, 1) /\ Joining(h, to)
  <2>1. todo[1].s = "put"
    BY <1>5, Kinds DEF Puts
  <2>2. QED
    BY <1>5, <2>1
<1>6. QED
  BY <1>1, <1>2, <1>3, <1>4, <1>5 DEF PassingAt, HandingOn, Leaving, Joining

LEMMA Issuer ==
    ASSUME NEW r, Stage(r), req[r].todo # <<>>
    PROVE  LET s == req[r].todo[1].s
           IN  /\ s = "assign" => \E k \in DOMAIN rows, u \in Uid : Taking(r, k, u)
               /\ s = "hand" => \E k \in DOMAIN rows, h \in Uid, to \in Agent : Passing(r, k, h, to)
               /\ s = "save" => \/ \E k \in DOMAIN rows, u \in Uid : Taking(r, k, u) \/ Closing(r, k, u)
                                \/ \E k \in DOMAIN rows : Canceling(r, k)
               /\ s \in {"adjust", "put"} =>
                     \/ \E k \in DOMAIN rows, u \in Uid : Taking(r, k, u) \/ Closing(r, k, u)
                     \/ \E k \in DOMAIN rows, h \in Uid, to \in Agent : Passing(r, k, h, to)
               /\ s = "create" => \E th \in Thread : Ensuring(r, th)
<1> DEFINE s == req[r].todo[1].s
<1>1. req[r] # Idle
  BY DEF Idle
<1>2. \A k, u : Taking(r, k, u) => s \in {"assign", "adjust", "put", "save"}
  BY TakingKinds DEF Taking
<1>3. \A k, u : Closing(r, k, u) => s \in {"adjust", "put", "save"}
  BY ClosingKinds DEF Closing
<1>4. \A k, h, to : Passing(r, k, h, to) => s \in {"adjust", "put", "hand"}
  BY PassingKinds DEF Passing
<1>5. ASSUME NEW k, Canceling(r, k) PROVE s = "save"
  <2>1. req[r].todo = <<Ended(k, "canceled")>>
    BY <1>5 DEF Canceling, Doing
  <2>2. QED
    BY <2>1, Firsts, Kinds
<1>6. ASSUME NEW th, Ensuring(r, th) PROVE s = "create"
  <2>1. ASSUME NEW row, NEW put, NEW agents, req[r] = Doing("ensure", 0, agents, <<Create(row, put)>>)
        PROVE  s = "create"
    <3>1. req[r].todo = <<Create(row, put)>>
      BY <2>1 DEF Doing
    <3>2. QED
      BY <3>1, Firsts, Kinds
  <2>2. QED
    BY <1>6, <2>1 DEF Ensuring
<1> HIDE DEF s
<1>7. /\ s = "assign" => \E k \in DOMAIN rows, u \in Uid : Taking(r, k, u)
      /\ s = "hand" => \E k \in DOMAIN rows, h \in Uid, to \in Agent : Passing(r, k, h, to)
      /\ s = "save" => \/ \E k \in DOMAIN rows, u \in Uid : Taking(r, k, u) \/ Closing(r, k, u)
                       \/ \E k \in DOMAIN rows : Canceling(r, k)
      /\ s \in {"adjust", "put"} =>
            \/ \E k \in DOMAIN rows, u \in Uid : Taking(r, k, u) \/ Closing(r, k, u)
            \/ \E k \in DOMAIN rows, h \in Uid, to \in Agent : Passing(r, k, h, to)
      /\ s = "create" => \E th \in Thread : Ensuring(r, th)
  BY <1>1, <1>2, <1>3, <1>4, <1>5, <1>6 DEF Stage
<1>8. QED
  BY <1>7 DEF s

\* The form the order of a statement takes: the row it may write, the counters.
LEMMA StatementOrder ==
    ASSUME Planned, Orderly, NEW r \in Req, NEW op, NEW k \in DOMAIN rows, NEW agents, NEW todo,
           req[r] = Doing(op, k, agents, todo), NEW s, NEW rest, Issued(r, s, rest),
           UNCHANGED rows \/ \E row : Wrote(k, row),
           \A a \in Agent \ agents : cnt'[a] = cnt[a] /\ Held(a)' = Held(a),
           rest # <<>> => Stage(r)',
           rest = <<>> => \A a \in agents : Off(a, 0)',
           \/ UNCHANGED rows /\ (op = "takeover" => rest # <<>>)
           \/ rows'[k].st \in {"pending", "canceled"} => rows'[k].hdl = NoAgent \/ (op = "takeover" /\ rest # <<>>)
    PROVE  Orderly'
<1>1. /\ rest = <<>> => req'[r] = Idle
      /\ rest # <<>> => req'[r] = Doing(op, k, agents, rest)
      /\ \A q \in Req \ {r} : req'[q] = req[q]
      /\ req[r].op = op /\ req[r].k = k /\ req[r].agents = agents
      /\ \A t : Doing(op, k, agents, t).op = op /\ Doing(op, k, agents, t).k = k
                /\ Doing(op, k, agents, t).agents = agents
  <2>1. \A t : Doing(op, k, agents, t).op = op /\ Doing(op, k, agents, t).k = k
               /\ Doing(op, k, agents, t).agents = agents
    BY DEF Doing
  <2>2. QED
    BY <2>1 DEF Issued, Doing
<1>2. DOMAIN rows' = DOMAIN rows /\ \A j \in DOMAIN rows : j # k => rows'[j] = rows[j]
  BY DEF Wrote
<1>3. Local(r)
  BY <1>1, <1>2 DEF Local
<1>4. Stage(r)'
  BY <1>1 DEF Stage
<1>5. \/ rows'[k] = rows[k] /\ (op = "takeover" => req'[r].op = "takeover")
      \/ rows'[k].hdl = NoAgent \/ (req'[r].op = "takeover" /\ req'[r].k = k)
      \/ rows'[k].st \notin {"pending", "canceled"}
  BY <1>1
<1>6. Lands(r)
  <2>1. req'[r] = Idle => rest = <<>>
    <3>1. Idle.op = "idle" /\ op # "idle"
      <4>1. op # "idle"
        BY <1>1, RowTypes, TicketAssumption DEF Planned, Plans, Idle, TypeOK
      <4>2. QED
        BY <4>1 DEF Idle
    <3>2. QED
      BY <1>1, <3>1
  <2>2. QED
    BY <1>1, <1>4, <1>5, <2>1 DEF Lands
<1>7. QED
  BY <1>3, <1>6, LocalOrder

LEMMA AssignOrder == ASSUME Planned, Orderly, NEW r \in Req, AssignRow(r) PROVE Orderly'
<1>0. TypeOK /\ Stage(r)
  BY DEF Planned, Orderly
<1>1. /\ Issued(r, "assign", Tail(req[r].todo)) /\ UNCHANGED <<online, cnt, clash>>
      /\ Wrote(req[r].k, [rows[req[r].k] EXCEPT !.hdl = req[r].todo[1].a])
  BY AssignRowIs
<1>2. PICK k \in DOMAIN rows, u \in Uid : Taking(r, k, u)
  BY <1>0, <1>1, Issuer DEF Issued
<1>3. /\ req[r] = Doing("takeover", k, Only(u), TakeoverTodo(k, u))
      /\ Off(u, 0) /\ rows[k].st = "pending"
  BY <1>1, <1>2, TakingKinds DEF Taking, Issued
<1>4. req[r].todo = TakeoverTodo(k, u) /\ req[r].k = k /\ req[r].todo[1].a = u
  <2>1. TakeoverTodo(k, u)[1] = Assign(u)
    BY Firsts DEF TakeoverTodo
  <2>2. QED
    BY <1>3, <2>1, Kinds DEF Doing
<1> DEFINE row == [rows[k] EXCEPT !.hdl = u]
<1>5. Wrote(k, row) /\ row \in Row /\ row.st = "pending" /\ Over(k, u)' = Over(k, u)
  <2>1. Wrote(k, row) /\ row \in Row /\ rows'[k] = row
    BY <1>1, <1>4 DEF Wrote
  <2>2. rows[k] \in Row
    BY <1>0, RowTypes
  <2>3. row.st = "pending" /\ [row EXCEPT !.st = "handling", !.hdl = u] = [rows[k] EXCEPT !.st = "handling", !.hdl = u]
    BY <1>3, <2>2 DEF Row
  <2>4. QED
    BY <2>1, <2>3 DEF Over
<1> HIDE DEF row
<1>6. \A a : Held(a)' = Held(a)
  BY <1>0, <1>3, <1>5, HeldMoves DEF With
<1>7. \A d : Off(u, d) => Off(u, d)'
  BY <1>1, <1>6, OffKept
<1>8. PICK rest, last : rest = Tail(req[r].todo) /\ last = Over(k, u)
  OBVIOUS
<1>9. TakingAt(k, u, rest)' /\ rest # <<>>
  <2>1. CASE u = NoAgent
    <3>1. rest = <<last>> /\ Off(u, 1)'
      BY <1>4, <1>8, <2>1, Firsts, UidIs, OutOfPool DEF TakeoverTodo
    <3>2. QED
      BY <1>5, <1>8, <3>1, Firsts DEF TakingAt
  <2>2. CASE u # NoAgent
    <3>1. rest = <<Adjust(u, 1), last>>
      BY <1>4, <1>8, <2>2, Firsts DEF TakeoverTodo
    <3>2. QED
      BY <1>3, <1>5, <1>7, <1>8, <2>2, <3>1, Firsts DEF TakingAt
  <2>3. QED
    BY <2>1, <2>2
<1>a. Issued(r, "assign", rest)
  BY <1>1, <1>8
<1>10. req'[r] = Doing("takeover", k, Only(u), rest) /\ req'[r].todo = rest
  BY <1>3, <1>9, <1>a DEF Issued, Doing
<1>11. Stage(r)'
  <2>1. rows'[k].st = "pending" /\ k \in DOMAIN rows'
    BY <1>5 DEF Wrote
  <2>2. Taking(r, k, u)'
    BY <1>9, <1>10, <2>1 DEF Taking
  <2>3. QED
    BY <2>1, <2>2 DEF Stage
<1>12. /\ \A a \in Agent \ Only(u) : cnt'[a] = cnt[a] /\ Held(a)' = Held(a)
      /\ \E row2 : Wrote(k, row2)
  BY <1>1, <1>5, <1>6
<1>13. QED
  BY <1>3, <1>9, <1>a, <1>11, <1>12, StatementOrder

LEMMA HandOrder == ASSUME Planned, Orderly, NEW r \in Req, HandRow(r) PROVE Orderly'
<1>0. TypeOK /\ Stage(r)
  BY DEF Planned, Orderly
<1>1. /\ Issued(r, "hand", Tail(req[r].todo)) /\ UNCHANGED <<online, cnt, clash>>
      /\ Wrote(req[r].k, [rows[req[r].k] EXCEPT !.hdl = req[r].todo[1].a, !.st = "handling"])
  BY HandRowIs
<1>2. PICK k \in DOMAIN rows, h \in Uid, to \in Agent : Passing(r, k, h, to)
  BY <1>0, <1>1, Issuer DEF Issued
<1> DEFINE agents == {h, to} \ {NoAgent}
<1>3. /\ req[r] = Doing("transfer", k, agents, TransferTodo(h, to)) /\ HandingOn(k, h, to, TransferTodo(h, to))
      /\ req[r].todo[1] = Hand(to)
  BY <1>1, <1>2, PassingKinds DEF Passing, Issued, HandingOn
<1>4. req[r].todo = TransferTodo(h, to) /\ req[r].k = k /\ req[r].todo[1].a = to
  BY <1>3, Kinds DEF Doing
<1> DEFINE row == [rows[k] EXCEPT !.hdl = to, !.st = "handling"]
<1>5. Wrote(k, row) /\ row \in Row /\ row.st = "handling" /\ row.hdl = to /\ rows'[k] = row
  <2>1. Wrote(k, row) /\ row \in Row /\ rows'[k] = row
    BY <1>1, <1>4 DEF Wrote
  <2>2. rows[k] \in Row
    BY <1>0, RowTypes
  <2>3. QED
    BY <2>1, <2>2 DEF Row
<1> HIDE DEF row
<1>6. to # NoAgent /\ (h # NoAgent => h \in Agent) /\ \A a \in Agent : a # NoAgent
  BY TicketAssumption DEF Uid
<1>7. \A a \in Agent : /\ Held(a) \in Nat /\ (a \in InPool => cnt[a] \in Nat)
                       /\ a \notin {h, to} => Held(a)' = Held(a)
                       /\ a = to /\ h # to => Held(a)' = Held(a) + 1
                       /\ a = h /\ h # to => Held(a)' = Held(a) - 1
                       /\ h = to => Held(a)' = Held(a)
  <2> SUFFICES ASSUME NEW a \in Agent
               PROVE  /\ Held(a) \in Nat /\ (a \in InPool => cnt[a] \in Nat)
                      /\ a \notin {h, to} => Held(a)' = Held(a)
                      /\ a = to /\ h # to => Held(a)' = Held(a) + 1
                      /\ a = h /\ h # to => Held(a)' = Held(a) - 1
                      /\ h = to => Held(a)' = Held(a)
    OBVIOUS
  <2>1. Held(a) \in Nat /\ cnt[a] \in Nat
    BY <1>0, HandlesFinite DEF TypeOK
  <2>2. /\ (With(row, a) <=> With(rows[k], a)) => Held(a)' = Held(a)
        /\ With(row, a) /\ ~With(rows[k], a) => Held(a)' = Held(a) + 1
        /\ ~With(row, a) /\ With(rows[k], a) => Held(a)' = Held(a) - 1
    BY <1>0, <1>5, HeldMoves
  <2>3. (With(row, a) <=> a = to) /\ (With(rows[k], a) <=> a = h)
    BY <1>3, <1>5, <1>6 DEF With, HandingOn
  <2>4. QED
    BY <2>1, <2>2, <2>3
<1>8. PICK rest : rest = Tail(req[r].todo)
  OBVIOUS
<1>9. PassingAt(k, h, to, rest)' /\ rest # <<>>
  <2>0. cnt' = cnt /\ Off(h, 0) /\ Off(to, 0)
    BY <1>1, <1>3 DEF HandingOn
  <2>1. CASE h = NoAgent
    <3>1. rest = <<Adjust(to, 1)>>
      BY <1>4, <1>8, <2>1, Firsts DEF TransferTodo
    <3>2. Off(h, 0)' /\ Off(to, -1)'
      <4>1. Off(h, 0)'
        BY <2>1, UidIs, OutOfPool
      <4>2. Off(to, -1)'
        BY <1>6, <1>7, <2>0, <2>1 DEF Off
      <4>3. QED
        BY <4>1, <4>2
    <3>3. QED
      BY <3>1, <3>2, Firsts DEF PassingAt
  <2>2. CASE h # NoAgent
    <3>1. rest = <<Adjust(h, -1), Adjust(to, 1)>>
      BY <1>4, <1>8, <2>2, Firsts DEF TransferTodo
    <3>2. Off(h, Gap(h, to))' /\ Off(to, -Gap(h, to))'
      <4>1. CASE h = to
        BY <1>7, <2>0, <4>1 DEF Off, Gap
      <4>2. CASE h # to
        BY <1>6, <1>7, <2>0, <2>2, <4>2 DEF Off, Gap
      <4>3. QED
        BY <4>1, <4>2
    <3>3. rows'[k].st = "handling" /\ rows'[k].hdl = to
      BY <1>5
    <3>4. QED
      BY <2>2, <3>1, <3>2, <3>3, Firsts DEF PassingAt
  <2>3. QED
    BY <2>1, <2>2
<1>10. Issued(r, "hand", rest)
  BY <1>1, <1>8
<1>11. req'[r] = Doing("transfer", k, agents, rest) /\ req'[r].todo = rest
  BY <1>3, <1>9, <1>10 DEF Issued, Doing
<1>12. Stage(r)'
  <2>1. k \in DOMAIN rows'
    BY <1>5 DEF Wrote
  <2>2. Passing(r, k, h, to)'
    BY <1>9, <1>11 DEF Passing
  <2>3. QED
    BY <2>1, <2>2 DEF Stage
<1>13. \A a \in Agent \ agents : cnt'[a] = cnt[a] /\ Held(a)' = Held(a)
  BY <1>1, <1>6, <1>7
<1>14. rows'[k].st \notin {"pending", "canceled"} /\ \E row2 : Wrote(k, row2)
  BY <1>5
<1> HIDE DEF agents
<1>15. QED
  BY <1>3, <1>9, <1>10, <1>12, <1>13, <1>14, StatementOrder

LEMMA SaveTakeoverOrder ==
    ASSUME Planned, Orderly, NEW r \in Req, NEW k \in DOMAIN rows, NEW u \in Uid, Taking(r, k, u), SaveRow(r)
    PROVE  Orderly'
<1>0. TypeOK
  BY DEF Planned
<1>1. /\ Issued(r, "save", Tail(req[r].todo)) /\ UNCHANGED <<online, cnt, clash>>
      /\ Wrote(req[r].k, req[r].todo[1].row)
  BY SaveRowIs
<1>2. req[r] = Doing("takeover", k, Only(u), <<Over(k, u)>>) /\ Off(u, 1) /\ rows[k].st = "pending"
  BY <1>1, TakingKinds DEF Taking, Issued
<1> DEFINE row == [rows[k] EXCEPT !.st = "handling", !.hdl = u]
<1>3. req[r].todo = <<Over(k, u)>> /\ req[r].k = k /\ req[r].todo[1].row = row
  <2>1. req[r].todo = <<Over(k, u)>> /\ req[r].k = k
    BY <1>2 DEF Doing
  <2>2. Over(k, u).row = row
    BY Kinds DEF Over
  <2>3. QED
    BY <2>1, <2>2, Firsts
<1>4. Wrote(k, row) /\ row \in Row /\ row.st = "handling" /\ row.hdl = u /\ rows'[k] = row
  <2>1. rows[k] \in Row
    BY <1>0, RowTypes
  <2>2. Wrote(k, row) /\ row \in Row /\ rows'[k] = row
    BY <1>1, <1>3 DEF Wrote
  <2>3. QED
    BY <2>1, <2>2 DEF Row
<1> HIDE DEF row
<1>5. \A a : (a # u => Held(a)' = Held(a)) /\ Held(u)' = Held(u) + 1
  BY <1>0, <1>2, <1>4, HeldMoves DEF With
<1>6. PICK rest : rest = Tail(req[r].todo)
  OBVIOUS
<1>7. rest = <<>> /\ Issued(r, "save", rest)
  BY <1>1, <1>3, <1>6, Firsts
<1>8. \A a \in Only(u) : Off(a, 0)'
  <2>1. Held(u) \in Nat
    BY <1>0, HandlesFinite
  <2>2. Off(u, 0)'
    BY <1>1, <1>2, <1>5, <2>1 DEF Off
  <2>3. QED
    BY <2>2 DEF Only
<1>9. \A a \in Agent \ Only(u) : cnt'[a] = cnt[a] /\ Held(a)' = Held(a)
  BY <1>1, <1>5, TicketAssumption DEF Only
<1>10. rows'[k].st \notin {"pending", "canceled"} /\ \E row2 : Wrote(k, row2)
  BY <1>4
<1>11. QED
  BY <1>2, <1>7, <1>8, <1>9, <1>10, StatementOrder

LEMMA SaveCloseOrder ==
    ASSUME Planned, Orderly, NEW r \in Req, NEW k \in DOMAIN rows, NEW h \in Uid, Closing(r, k, h), SaveRow(r)
    PROVE  Orderly'
<1>0. TypeOK
  BY DEF Planned
<1>1. /\ Issued(r, "save", Tail(req[r].todo)) /\ UNCHANGED <<online, cnt, clash>>
      /\ Wrote(req[r].k, req[r].todo[1].row)
  BY SaveRowIs
<1>2. /\ req[r] = Doing("close", k, Only(h), CloseTodo(k, h)) /\ Off(h, 0) /\ req[r].todo[1] = Ended(k, "closed")
      /\ rows[k].hdl = h /\ (h # NoAgent => rows[k].st = "handling")
  BY <1>1, ClosingKinds DEF Closing, Issued
<1> DEFINE row == [rows[k] EXCEPT !.st = "closed"]
<1>3. req[r].todo = CloseTodo(k, h) /\ req[r].k = k /\ req[r].todo[1].row = row
  BY <1>2, Firsts, Kinds DEF Doing, Ended
<1>4. Wrote(k, row) /\ row \in Row /\ row.st = "closed" /\ rows'[k] = row
  <2>1. rows[k] \in Row
    BY <1>0, RowTypes
  <2>2. Wrote(k, row) /\ row \in Row /\ rows'[k] = row
    BY <1>1, <1>3 DEF Wrote
  <2>3. QED
    BY <2>1, <2>2 DEF Row
<1> HIDE DEF row
<1>5. \A a \in Agent : (a # h => Held(a)' = Held(a)) /\ (a = h => Held(a)' = Held(a) - 1)
  <2>1. NoAgent \notin Agent
    BY TicketAssumption
  <2>2. \A a \in Agent : ~With(row, a) /\ (With(rows[k], a) <=> a = h)
    BY <1>2, <1>4, <2>1 DEF With
  <2>3. QED
    BY <1>0, <1>4, <2>2, HeldMoves
<1>6. PICK rest : rest = Tail(req[r].todo)
  OBVIOUS
<1>7. Issued(r, "save", rest)
  BY <1>1, <1>6
<1>8. \A a \in Agent \ Only(h) : cnt'[a] = cnt[a] /\ Held(a)' = Held(a)
  BY <1>1, <1>5, TicketAssumption DEF Only
<1>9. rows'[k].st \notin {"pending", "canceled"} /\ (\E row2 : Wrote(k, row2)) /\ k \in DOMAIN rows'
  BY <1>4 DEF Wrote
<1>10. /\ rest # <<>> => Stage(r)'
       /\ rest = <<>> => Only(h) = {}
  <2>1. CASE h = NoAgent
    BY <1>3, <1>6, <2>1, Firsts, UidIs DEF CloseTodo
  <2>2. CASE h # NoAgent
    <3>1. rest = <<Adjust(h, -1)>> /\ rest # <<>>
      BY <1>3, <1>6, <2>2, Firsts DEF CloseTodo
    <3>2. Off(h, 1)'
      <4>1. h \in Agent
        BY <2>2, UidIs
      <4>2. Held(h) \in Nat
        BY <1>0, HandlesFinite
      <4>3. QED
        BY <1>1, <1>2, <1>5, <4>1, <4>2 DEF Off
    <3>3. ClosingAt(k, h, rest)'
      BY <2>2, <3>1, <3>2 DEF ClosingAt
    <3>4. req'[r] = Doing("close", k, Only(h), rest) /\ req'[r].todo = rest
      BY <1>2, <1>7, <3>1 DEF Issued, Doing
    <3>5. Closing(r, k, h)'
      BY <3>3, <3>4 DEF Closing
    <3>6. QED
      BY <1>9, <3>1, <3>5 DEF Stage
  <2>3. QED
    BY <2>1, <2>2
<1>11. QED
  BY <1>2, <1>7, <1>8, <1>9, <1>10, StatementOrder

LEMMA SaveCancelOrder ==
    ASSUME Planned, Orderly, NEW r \in Req, NEW k \in DOMAIN rows, Canceling(r, k), SaveRow(r)
    PROVE  Orderly'
<1>0. TypeOK
  BY DEF Planned
<1>1. /\ Issued(r, "save", Tail(req[r].todo)) /\ UNCHANGED <<online, cnt, clash>>
      /\ Wrote(req[r].k, req[r].todo[1].row)
  BY SaveRowIs
<1>2. /\ req[r] = Doing("cancel", k, {}, <<Ended(k, "canceled")>>)
      /\ rows[k].st = "pending" /\ rows[k].hdl = NoAgent
  BY DEF Canceling
<1> DEFINE row == [rows[k] EXCEPT !.st = "canceled"]
<1>3. req[r].todo = <<Ended(k, "canceled")>> /\ req[r].k = k /\ req[r].todo[1].row = row
  BY <1>2, Firsts, Kinds DEF Doing, Ended
<1>4. Wrote(k, row) /\ row \in Row /\ row.st = "canceled" /\ row.hdl = NoAgent /\ rows'[k] = row
  <2>1. rows[k] \in Row
    BY <1>0, RowTypes
  <2>2. Wrote(k, row) /\ row \in Row /\ rows'[k] = row
    BY <1>1, <1>3 DEF Wrote
  <2>3. QED
    BY <1>2, <2>1, <2>2 DEF Row
<1> HIDE DEF row
<1>5. \A a : Held(a)' = Held(a)
  BY <1>0, <1>2, <1>4, HeldMoves DEF With
<1>6. PICK rest : rest = Tail(req[r].todo)
  OBVIOUS
<1>7. rest = <<>> /\ Issued(r, "save", rest)
  BY <1>1, <1>3, <1>6, Firsts
<1>8. /\ \A a \in Agent : cnt'[a] = cnt[a] /\ Held(a)' = Held(a)
      /\ rows'[k].hdl = NoAgent /\ \E row2 : Wrote(k, row2)
  BY <1>1, <1>4, <1>5
<1>9. PICK agents : agents = {}
  OBVIOUS
<1>10. /\ \A a \in Agent \ agents : cnt'[a] = cnt[a] /\ Held(a)' = Held(a)
       /\ rest = <<>> => \A a \in agents : Off(a, 0)'
       /\ req[r] = Doing("cancel", k, agents, <<Ended(k, "canceled")>>)
  BY <1>2, <1>8, <1>9
<1>11. QED
  BY <1>7, <1>8, <1>10, StatementOrder

LEMMA SaveOrder == ASSUME Planned, Orderly, NEW r \in Req, SaveRow(r) PROVE Orderly'
<1>1. Issued(r, "save", Tail(req[r].todo))
  BY SaveRowIs
<1>2. \/ \E k \in DOMAIN rows, u \in Uid : Taking(r, k, u) \/ Closing(r, k, u)
      \/ \E k \in DOMAIN rows : Canceling(r, k)
  BY <1>1, Issuer DEF Issued, Orderly
<1>3. QED
  BY <1>2, SaveTakeoverOrder, SaveCloseOrder, SaveCancelOrder

\* AdjustHandlingCount reads: the UPDATE to come moves the count by d, or there
\* is no row to update.
LEMMA ReadNext ==
    ASSUME Planned, PoolStays, NEW r \in Req, ReadCount(r), NEW a, NEW d, req[r].todo[1] = Adjust(a, d),
           a \in InPool => cnt[a] + d >= 0
    PROVE  \/ a \notin InPool /\ Issued(r, "adjust", Tail(req[r].todo))
           \/ \E put \in PutStmt : Issued(r, "adjust", <<put>> \o Tail(req[r].todo)) /\ Puts(put, a, d)
<1>0. req[r].todo[1].a = a /\ req[r].todo[1].d = d
  BY Kinds
<1> DEFINE n == cnt[a] + d
           m == IF n < 0 THEN 0 ELSE n
           put == Put(a, m, StatusFor(online[a], m))
<1>1. /\ a \in Agent /\ d \in {-1, 1} /\ put \in PutStmt
      /\ Issued(r, "adjust", IF online[a] = NoRow THEN Tail(req[r].todo) ELSE <<put>> \o Tail(req[r].todo))
  BY <1>0, ReadCountIs
<1>2. put.a = a /\ put.n = m
  BY DEF Put
<1>3. a \in InPool => m = cnt[a] + d
  BY <1>1 DEF Planned, TypeOK
<1> HIDE DEF put, m
<1>4. Puts(put, a, d)
  BY <1>1, <1>2, <1>3 DEF Puts
<1>5. CASE online[a] = NoRow
  BY <1>1, <1>5 DEF PoolStays
<1>6. CASE online[a] # NoRow
  BY <1>1, <1>4, <1>6
<1>7. QED
  BY <1>5, <1>6

LEMMA Still ==
    ASSUME UNCHANGED <<rows, cnt>>
    PROVE  /\ \A u : Held(u)' = Held(u)
           /\ \A u, d : Off(u, d) => Off(u, d)'
           /\ \A u, d, s : Puts(s, u, d) => Puts(s, u, d)'
           /\ \A k, u : Over(k, u)' = Over(k, u)
           /\ DOMAIN rows' = DOMAIN rows
<1>1. \A u : Held(u)' = Held(u)
  BY HeldSame
<1>2. \A u : /\ \A d : Off(u, d) => Off(u, d)'
             /\ \A d, s : Puts(s, u, d) => Puts(s, u, d)'
  BY <1>1, OffKept
<1>3. QED
  BY <1>1, <1>2 DEF Over

LEMMA ReadTakeoverOrder ==
    ASSUME Planned, PoolStays, Orderly, NEW r \in Req, NEW k \in DOMAIN rows, NEW u \in Uid,
           Taking(r, k, u), ReadCount(r)
    PROVE  Orderly'
<1>0. TypeOK /\ req[r].todo # <<>> /\ req[r].todo[1].s = "adjust" /\ UNCHANGED <<rows, cnt>>
  BY ReadCountIs DEF Planned, Issued
<1>1. /\ req[r] = Doing("takeover", k, Only(u), <<Adjust(u, 1), Over(k, u)>>)
      /\ Off(u, 0) /\ rows[k].st = "pending" /\ u # NoAgent
  BY <1>0, TakingKinds DEF Taking
<1>2. req[r].todo[1] = Adjust(u, 1) /\ Tail(req[r].todo) = <<Over(k, u)>>
  <2>1. req[r].todo = <<Adjust(u, 1), Over(k, u)>>
    BY <1>1 DEF Doing
  <2>2. QED
    BY <2>1, Firsts
<1>3. u \in InPool => cnt[u] + 1 >= 0
  BY <1>0, TicketAssumption DEF TypeOK
<1>4. PICK last : last = Over(k, u)
  OBVIOUS
<1>5. \E rest : Issued(r, "adjust", rest) /\ TakingAt(k, u, rest)' /\ rest # <<>>
  <2>1. CASE u \notin InPool /\ Issued(r, "adjust", Tail(req[r].todo))
    <3>1. Off(u, 1)'
      BY <2>1, OutOfPool
    <3>2. TakingAt(k, u, <<last>>)' /\ Issued(r, "adjust", <<last>>)
      BY <1>0, <1>2, <1>4, <2>1, <3>1, Still DEF TakingAt
    <3>3. QED
      BY <3>2, Firsts
  <2>2. ASSUME NEW put \in PutStmt, Issued(r, "adjust", <<put>> \o Tail(req[r].todo)), Puts(put, u, 1)
        PROVE  \E rest : Issued(r, "adjust", rest) /\ TakingAt(k, u, rest)' /\ rest # <<>>
    <3>1. PICK rest : rest = <<put, last>>
      OBVIOUS
    <3>2. Issued(r, "adjust", rest)
      BY <1>2, <1>4, <2>2, <3>1, Pair
    <3>3. rest[1] = put /\ rest # <<>>
      BY <3>1, Firsts
    <3>4. TakingAt(k, u, rest)'
      BY <1>0, <1>1, <1>4, <2>2, <3>1, <3>3, Still DEF TakingAt
    <3>5. QED
      BY <3>2, <3>3, <3>4
  <2>3. QED
    BY <1>2, <1>3, <2>1, <2>2, ReadNext
<1>6. PICK rest : Issued(r, "adjust", rest) /\ TakingAt(k, u, rest)' /\ rest # <<>>
  BY <1>5
<1>7. req'[r] = Doing("takeover", k, Only(u), rest) /\ req'[r].todo = rest
  BY <1>1, <1>6 DEF Issued, Doing
<1>8. Stage(r)'
  <2>1. Taking(r, k, u)'
    BY <1>0, <1>1, <1>6, <1>7 DEF Taking
  <2>2. QED
    BY <1>0, <2>1 DEF Stage
<1>9. \A a \in Agent \ Only(u) : cnt'[a] = cnt[a] /\ Held(a)' = Held(a)
  BY <1>0, Still
<1>10. QED
  BY <1>0, <1>1, <1>6, <1>8, <1>9, StatementOrder

LEMMA ReadCloseOrder ==
    ASSUME Planned, PoolStays, Orderly, NEW r \in Req, NEW k \in DOMAIN rows, NEW h \in Uid,
           Closing(r, k, h), ReadCount(r)
    PROVE  Orderly'
<1>0. TypeOK /\ req[r].todo # <<>> /\ req[r].todo[1].s = "adjust" /\ UNCHANGED <<rows, cnt>>
  BY ReadCountIs DEF Planned, Issued
<1>1. /\ req[r] = Doing("close", k, Only(h), <<Adjust(h, -1)>>)
      /\ Off(h, 1) /\ h # NoAgent
  BY <1>0, ClosingKinds DEF Closing
<1>2. req[r].todo[1] = Adjust(h, -1) /\ Tail(req[r].todo) = <<>>
  <2>1. req[r].todo = <<Adjust(h, -1)>>
    BY <1>1 DEF Doing
  <2>2. QED
    BY <2>1, Firsts
<1>3. h \in InPool => cnt[h] + (-1) >= 0
  <2>1. Held(h) \in Nat
    BY <1>0, HandlesFinite
  <2>2. QED
    BY <1>1, <2>1 DEF Off
<1>4. \E rest : /\ Issued(r, "adjust", rest)
                /\ rest # <<>> => ClosingAt(k, h, rest)'
                /\ rest = <<>> => h \notin InPool
  <2>1. CASE h \notin InPool /\ Issued(r, "adjust", Tail(req[r].todo))
    BY <1>2, <2>1
  <2>2. ASSUME NEW put \in PutStmt, Issued(r, "adjust", <<put>> \o Tail(req[r].todo)), Puts(put, h, -1)
        PROVE  \E rest : /\ Issued(r, "adjust", rest)
                         /\ rest # <<>> => ClosingAt(k, h, rest)'
                         /\ rest = <<>> => h \notin InPool
    <3>1. PICK rest : rest = <<put>>
      OBVIOUS
    <3>2. Issued(r, "adjust", rest)
      BY <1>2, <2>2, <3>1, NoLink
    <3>3. rest[1] = put /\ rest # <<>>
      BY <3>1, Firsts
    <3>4. ClosingAt(k, h, rest)'
      BY <1>0, <1>1, <2>2, <3>1, <3>3, Still DEF ClosingAt
    <3>5. QED
      BY <3>2, <3>3, <3>4
  <2>3. QED
    BY <1>2, <1>3, <2>1, <2>2, ReadNext
<1>5. PICK rest : /\ Issued(r, "adjust", rest)
                  /\ rest # <<>> => ClosingAt(k, h, rest)'
                  /\ rest = <<>> => h \notin InPool
  BY <1>4
<1>6. rest # <<>> => Stage(r)'
  <2>1. SUFFICES ASSUME rest # <<>> PROVE Stage(r)'
    OBVIOUS
  <2>2. req'[r] = Doing("close", k, Only(h), rest) /\ req'[r].todo = rest
    BY <1>1, <1>5, <2>1 DEF Issued, Doing
  <2>3. Closing(r, k, h)'
    BY <1>5, <2>1, <2>2 DEF Closing
  <2>4. QED
    BY <1>0, <2>3 DEF Stage
<1>7. /\ \A a \in Agent \ Only(h) : cnt'[a] = cnt[a] /\ Held(a)' = Held(a)
      /\ rest = <<>> => \A a \in Only(h) : Off(a, 0)'
  <2>1. rest = <<>> => \A a \in Only(h) : a \notin InPool
    BY <1>5 DEF Only
  <2>2. QED
    BY <1>0, <2>1, Still, OutOfPool
<1>8. QED
  BY <1>0, <1>1, <1>5, <1>6, <1>7, StatementOrder

LEMMA HeldPositive == ASSUME TypeOK, NEW k \in DOMAIN rows, NEW a, With(rows[k], a) PROVE Held(a) > 0
<1>1. IsFiniteSet(Handles(a)) /\ Held(a) \in Nat
  BY HandlesFinite
<1>2. k \in Handles(a)
  BY DEF Handles, With
<1>3. QED
  BY <1>1, <1>2, FS_EmptySet DEF Held

LEMMA ReadTransferOrder ==
    ASSUME Planned, PoolStays, Orderly, NEW r \in Req, NEW k \in DOMAIN rows, NEW h \in Uid, NEW to \in Agent,
           Passing(r, k, h, to), ReadCount(r)
    PROVE  Orderly'
<1> DEFINE agents == {h, to} \ {NoAgent}
           todo == req[r].todo
           Left(rest) == /\ Issued(r, "adjust", rest)
                         /\ rest # <<>> => PassingAt(k, h, to, rest)'
                         /\ rest = <<>> => Off(h, 0)' /\ Off(to, 0)'
<1>0. TypeOK /\ todo # <<>> /\ todo[1].s = "adjust" /\ UNCHANGED <<rows, cnt>>
  BY ReadCountIs DEF Planned, Issued
<1>1. /\ req[r] = Doing("transfer", k, agents, todo)
      /\ \/ todo = <<Adjust(h, -1), Adjust(to, 1)>> /\ Leaving(k, h, to)
         \/ todo = <<Adjust(to, 1)>> /\ Joining(h, to)
  BY <1>0, PassingKinds DEF Passing
<1>2. ASSUME todo = <<Adjust(h, -1), Adjust(to, 1)>>, Leaving(k, h, to) PROVE \E rest : Left(rest)
  <2>1. todo[1] = Adjust(h, -1) /\ Tail(todo) = <<Adjust(to, 1)>>
    BY <1>2, Firsts
  <2>2. h \in InPool => cnt[h] + (-1) >= 0
    <3>1. Held(h) \in Nat
      BY <1>0, HandlesFinite
    <3>2. CASE h = to
      <4>1. Held(h) > 0
        BY <1>0, <1>2, <3>2, HeldPositive DEF Leaving, With
      <4>2. QED
        BY <1>2, <3>1, <3>2, <4>1 DEF Leaving, Off, Gap
    <3>3. CASE h # to
      BY <1>2, <3>1, <3>3 DEF Leaving, Off, Gap
    <3>4. QED
      BY <3>2, <3>3
  <2>3. CASE h \notin InPool /\ Issued(r, "adjust", Tail(todo))
    <3>1. PICK rest : rest = <<Adjust(to, 1)>>
      OBVIOUS
    <3>2. Off(h, 0)' /\ Off(to, -1)'
      <4>1. Off(h, 0)'
        BY <2>3, OutOfPool
      <4>2. CASE h = to
        BY <2>3, <4>2, OutOfPool
      <4>3. CASE h # to
        <5>1. Off(to, -1)
          BY <1>2, <4>3 DEF Leaving, Gap
        <5>2. QED
          BY <1>0, <4>1, <5>1, Still
      <4>4. QED
        BY <4>1, <4>2, <4>3
    <3>3. Left(rest)
      BY <2>1, <2>3, <3>1, <3>2, Firsts DEF PassingAt
    <3>4. QED
      BY <3>3
  <2>4. ASSUME NEW put \in PutStmt, Issued(r, "adjust", <<put>> \o Tail(todo)), Puts(put, h, -1)
        PROVE  \E rest : Left(rest)
    <3>1. PICK rest : rest = <<put, Adjust(to, 1)>>
      OBVIOUS
    <3>2. Issued(r, "adjust", rest)
      BY <2>1, <2>4, <3>1, Pair
    <3>3. rest[1] = put /\ rest # <<>>
      BY <3>1, Firsts
    <3>4. PassingAt(k, h, to, rest)'
      BY <1>0, <1>2, <2>4, <3>1, <3>3, Still DEF PassingAt, Leaving
    <3>5. QED
      BY <3>2, <3>3, <3>4
  <2> HIDE DEF Left, todo
  <2>5. \E rest : Left(rest)
    BY <2>1, <2>2, <2>3, <2>4, ReadNext DEF todo
  <2>6. QED
    BY <2>5
<1>3. ASSUME todo = <<Adjust(to, 1)>>, Joining(h, to) PROVE \E rest : Left(rest)
  <2>1. todo[1] = Adjust(to, 1) /\ Tail(todo) = <<>>
    BY <1>3, Firsts
  <2>2. to \in InPool => cnt[to] + 1 >= 0
    BY <1>0, TicketAssumption DEF TypeOK
  <2>3. CASE to \notin InPool /\ Issued(r, "adjust", Tail(todo))
    <3>1. PICK rest : rest = <<>>
      OBVIOUS
    <3>2. Off(h, 0)' /\ Off(to, 0)'
      <4>1. Off(to, 0)'
        BY <2>3, OutOfPool
      <4>2. CASE h # to
        BY <1>0, <1>3, <4>1, <4>2, Still DEF Joining
      <4>3. QED
        BY <4>1, <4>2
    <3>3. Left(rest)
      BY <2>1, <2>3, <3>1, <3>2
    <3>4. QED
      BY <3>3
  <2>4. ASSUME NEW put \in PutStmt, Issued(r, "adjust", <<put>> \o Tail(todo)), Puts(put, to, 1)
        PROVE  \E rest : Left(rest)
    <3>1. PICK rest : rest = <<put>>
      OBVIOUS
    <3>2. Issued(r, "adjust", rest)
      BY <2>1, <2>4, <3>1, NoLink
    <3>3. rest[1] = put /\ rest # <<>>
      BY <3>1, Firsts
    <3>4. PassingAt(k, h, to, rest)'
      BY <1>0, <1>3, <2>4, <3>1, <3>3, Still DEF PassingAt, Joining
    <3>5. QED
      BY <3>2, <3>3, <3>4
  <2> HIDE DEF Left, todo
  <2>5. \E rest : Left(rest)
    BY <2>1, <2>2, <2>3, <2>4, ReadNext DEF todo
  <2>6. QED
    BY <2>5
<1>4. PICK rest : Left(rest)
  BY <1>1, <1>2, <1>3
<1>5. rest # <<>> => Stage(r)'
  <2>1. SUFFICES ASSUME rest # <<>> PROVE Stage(r)'
    OBVIOUS
  <2>2. req'[r] = Doing("transfer", k, agents, rest) /\ req'[r].todo = rest
    BY <1>1, <1>4, <2>1 DEF Issued, Doing
  <2>3. Passing(r, k, h, to)'
    BY <1>4, <2>1, <2>2 DEF Passing
  <2>4. QED
    BY <1>0, <2>3 DEF Stage
<1>6. /\ \A a \in Agent \ agents : cnt'[a] = cnt[a] /\ Held(a)' = Held(a)
      /\ rest = <<>> => \A a \in agents : Off(a, 0)'
      /\ Issued(r, "adjust", rest)
  BY <1>0, <1>4, Still
<1> HIDE DEF agents
<1>7. QED
  BY <1>0, <1>1, <1>5, <1>6, StatementOrder

LEMMA ReadOrder == ASSUME Planned, PoolStays, Orderly, NEW r \in Req, ReadCount(r) PROVE Orderly'
<1>1. req[r].todo # <<>> /\ req[r].todo[1].s = "adjust"
  BY ReadCountIs DEF Issued
<1>2. \/ \E k \in DOMAIN rows, u \in Uid : Taking(r, k, u) \/ Closing(r, k, u)
      \/ \E k \in DOMAIN rows, h \in Uid, to \in Agent : Passing(r, k, h, to)
  BY <1>1, Issuer DEF Orderly
<1>3. QED
  BY <1>2, ReadTakeoverOrder, ReadCloseOrder, ReadTransferOrder

\* The UPDATE moves one counter, by what the read said.
LEMMA Written ==
    ASSUME TypeOK, UNCHANGED rows, NEW p, NEW a, NEW d \in Int, Puts(p, a, d), Write(p)
    PROVE  /\ \A e \in Int : Off(a, e) => Off(a, e + d)'
           /\ \A b, e : b # a /\ b \in Uid /\ Off(b, e) => Off(b, e)'
           /\ \A b : Held(b)' = Held(b)
           /\ \A b \in Agent : b # a => cnt'[b] = cnt[b]
           /\ \A k, u : Over(k, u)' = Over(k, u)
<1>1. p \in PutStmt /\ p.a = a
  BY DEF Puts
<1>2. a \in Agent /\ p.n \in Nat /\ cnt' = [cnt EXCEPT ![a] = p.n]
  BY <1>1, WriteIs
<1>3. cnt \in [Agent -> Nat] /\ InPool \subseteq Agent
  BY TicketAssumption DEF TypeOK
<1>4. \A b : Held(b)' = Held(b)
  BY HeldSame
<1>5. cnt'[a] = p.n /\ \A b \in Agent : b # a => cnt'[b] = cnt[b]
  BY <1>2, <1>3
<1>6. ASSUME NEW e \in Int, Off(a, e) PROVE Off(a, e + d)'
  <2>1. CASE a \in InPool
    <3>1. cnt[a] = Held(a) + e /\ p.n = cnt[a] + d /\ Held(a) \in Nat
      BY <1>6, <2>1, HandlesFinite DEF Off, Puts
    <3>2. cnt'[a] = Held(a) + (e + d)
      BY <1>5, <3>1
    <3>3. QED
      BY <1>4, <3>2 DEF Off
  <2>2. CASE a \notin InPool
    BY <2>2, OutOfPool
  <2>3. QED
    BY <2>1, <2>2
<1>7. ASSUME NEW b, NEW e, b # a, b \in Uid, Off(b, e) PROVE Off(b, e)'
  BY <1>3, <1>4, <1>5, <1>7, OffKept
<1>8. QED
  BY <1>4, <1>5, <1>6, <1>7 DEF Over

LEMMA WriteTakeoverOrder ==
    ASSUME Planned, Orderly, NEW r \in Req, NEW k \in DOMAIN rows, NEW u \in Uid, Taking(r, k, u), WriteCount(r)
    PROVE  Orderly'
<1>0. /\ TypeOK /\ req[r].todo # <<>> /\ req[r].todo[1].s = "put" /\ UNCHANGED rows
      /\ Issued(r, "put", Tail(req[r].todo)) /\ Write(req[r].todo[1])
  BY WriteCountIs DEF Planned, Issued
<1>1. /\ req[r] = Doing("takeover", k, Only(u), req[r].todo) /\ req[r].todo = <<req[r].todo[1], Over(k, u)>>
      /\ Off(u, 0) /\ Puts(req[r].todo[1], u, 1) /\ rows[k].st = "pending" /\ u # NoAgent
  BY <1>0, TakingKinds DEF Taking
<1>2. PICK rest : rest = <<Over(k, u)>>
  OBVIOUS
<1>3. Issued(r, "put", rest) /\ rest # <<>>
  <2>1. PICK p : p = req[r].todo[1]
    OBVIOUS
  <2>2. Tail(req[r].todo) = rest /\ rest # <<>>
    <3>1. req[r].todo = <<p, Over(k, u)>>
      BY <1>1, <2>1
    <3>2. QED
      BY <1>2, <3>1, Firsts
  <2>3. QED
    BY <1>0, <2>2
<1>4. TakingAt(k, u, rest)'
  <2>1. Off(u, 1)' /\ Over(k, u)' = Over(k, u)
    <3>1. Off(u, 0 + 1)' /\ Over(k, u)' = Over(k, u)
      BY <1>0, <1>1, Written
    <3>2. QED
      BY <3>1
  <2>2. QED
    BY <1>2, <2>1 DEF TakingAt
<1>5. req'[r] = Doing("takeover", k, Only(u), rest) /\ req'[r].todo = rest
  BY <1>1, <1>3 DEF Issued, Doing
<1>6. Stage(r)'
  <2>1. Taking(r, k, u)'
    BY <1>0, <1>1, <1>4, <1>5 DEF Taking
  <2>2. QED
    BY <1>0, <2>1 DEF Stage
<1>7. \A a \in Agent \ Only(u) : cnt'[a] = cnt[a] /\ Held(a)' = Held(a)
  BY <1>0, <1>1, Written, UidIs
<1>8. QED
  BY <1>0, <1>1, <1>3, <1>6, <1>7, StatementOrder

LEMMA WriteCloseOrder ==
    ASSUME Planned, Orderly, NEW r \in Req, NEW k \in DOMAIN rows, NEW h \in Uid, Closing(r, k, h), WriteCount(r)
    PROVE  Orderly'
<1>0. /\ TypeOK /\ req[r].todo # <<>> /\ req[r].todo[1].s = "put" /\ UNCHANGED rows
      /\ Issued(r, "put", Tail(req[r].todo)) /\ Write(req[r].todo[1])
  BY WriteCountIs DEF Planned, Issued
<1>1. /\ req[r] = Doing("close", k, Only(h), req[r].todo) /\ req[r].todo = <<req[r].todo[1]>>
      /\ Off(h, 1) /\ Puts(req[r].todo[1], h, -1) /\ h # NoAgent
  BY <1>0, ClosingKinds DEF Closing
<1>2. PICK rest : rest = Tail(req[r].todo)
  OBVIOUS
<1>3. Issued(r, "put", rest) /\ rest = <<>>
  BY <1>0, <1>1, <1>2, Firsts
<1>4. \A a \in Only(h) : Off(a, 0)'
  <2>1. Off(h, 1 + (-1))'
    BY <1>0, <1>1, Written
  <2>2. QED
    BY <2>1 DEF Only
<1>5. \A a \in Agent \ Only(h) : cnt'[a] = cnt[a] /\ Held(a)' = Held(a)
  BY <1>0, <1>1, Written, UidIs
<1>6. QED
  BY <1>0, <1>1, <1>3, <1>4, <1>5, StatementOrder

LEMMA WriteTransferOrder ==
    ASSUME Planned, Orderly, NEW r \in Req, NEW k \in DOMAIN rows, NEW h \in Uid, NEW to \in Agent,
           Passing(r, k, h, to), WriteCount(r)
    PROVE  Orderly'
<1> DEFINE agents == {h, to} \ {NoAgent}
           todo == req[r].todo
<1>0. /\ TypeOK /\ todo # <<>> /\ todo[1].s = "put" /\ UNCHANGED rows
      /\ Issued(r, "put", Tail(todo)) /\ Write(todo[1])
  BY WriteCountIs DEF Planned, Issued
<1>1. /\ req[r] = Doing("transfer", k, agents, todo)
      /\ \/ todo = <<todo[1], Adjust(to, 1)>> /\ Puts(todo[1], h, -1) /\ Leaving(k, h, to)
         \/ todo = <<todo[1]>> /\ Puts(todo[1], to, 1) /\ Joining(h, to)
  BY <1>0, PassingKinds DEF Passing
<1>2. to \in Uid /\ to # NoAgent
  BY TicketAssumption DEF Uid
<1>3. PICK rest : rest = Tail(todo)
  OBVIOUS
<1>4. Issued(r, "put", rest)
  BY <1>0, <1>3
<1>5. ASSUME todo = <<todo[1], Adjust(to, 1)>>, Puts(todo[1], h, -1), Leaving(k, h, to)
      PROVE  /\ rest # <<>> /\ PassingAt(k, h, to, rest)'
             /\ \A a \in Agent \ agents : cnt'[a] = cnt[a] /\ Held(a)' = Held(a)
  <2>1. rest = <<Adjust(to, 1)>> /\ rest # <<>>
    <3>1. PICK p : p = todo[1]
      OBVIOUS
    <3>2. todo = <<p, Adjust(to, 1)>>
      BY <1>5, <3>1
    <3> HIDE DEF todo
    <3>3. QED
      BY <1>3, <3>2, Firsts
  <2>2. h # NoAgent /\ Off(h, Gap(h, to)) /\ Off(to, -Gap(h, to))
    BY <1>5 DEF Leaving
  <2>3. /\ \A e \in Int : Off(h, e) => Off(h, e + (-1))'
        /\ \A b, e : b # h /\ b \in Uid /\ Off(b, e) => Off(b, e)'
        /\ \A b \in Agent : Held(b)' = Held(b) /\ (b # h => cnt'[b] = cnt[b])
    BY <1>0, <1>5, Written
  <2>4. (h # to => Off(h, 0)') /\ Off(to, -1)'
    <3>1. CASE h = to
      <4>1. Off(h, 0 + (-1))'
        BY <2>2, <2>3, <3>1 DEF Gap
      <4>2. QED
        BY <3>1, <4>1
    <3>2. CASE h # to
      <4>1. Off(h, 1 + (-1))' /\ Off(to, -1)'
        BY <1>2, <2>2, <2>3, <3>2 DEF Gap
      <4>2. QED
        BY <4>1
    <3>3. QED
      BY <3>1, <3>2
  <2>5. PassingAt(k, h, to, rest)'
    BY <2>1, <2>4 DEF PassingAt
  <2>6. \A a \in Agent \ agents : a # h
    BY <2>2
  <2>7. QED
    BY <2>1, <2>3, <2>5, <2>6
<1>6. ASSUME todo = <<todo[1]>>, Puts(todo[1], to, 1), Joining(h, to)
      PROVE  /\ rest = <<>> /\ (\A a \in agents : Off(a, 0)')
             /\ \A a \in Agent \ agents : cnt'[a] = cnt[a] /\ Held(a)' = Held(a)
  <2>1. rest = <<>>
    BY <1>3, <1>6, Firsts
  <2>2. /\ \A e \in Int : Off(to, e) => Off(to, e + 1)'
        /\ \A b, e : b # to /\ b \in Uid /\ Off(b, e) => Off(b, e)'
        /\ \A b \in Agent : Held(b)' = Held(b) /\ (b # to => cnt'[b] = cnt[b])
    BY <1>0, <1>6, Written
  <2>3. Off(to, 0)' /\ (h # to => Off(h, 0)')
    <3>1. Off(to, (-1) + 1)' /\ (h # to => Off(h, 0)')
      BY <1>6, <2>2 DEF Joining
    <3>2. QED
      BY <3>1
  <2>4. \A a \in agents : Off(a, 0)'
    BY <2>3
  <2>5. \A a \in Agent \ agents : a # to
    BY <1>2
  <2>6. QED
    BY <2>1, <2>2, <2>4, <2>5
<1>7. rest # <<>> => Stage(r)'
  <2>1. SUFFICES ASSUME rest # <<>> PROVE Stage(r)'
    OBVIOUS
  <2>2. PassingAt(k, h, to, rest)'
    BY <1>1, <1>5, <1>6, <2>1
  <2>3. req'[r] = Doing("transfer", k, agents, rest) /\ req'[r].todo = rest
    BY <1>1, <1>4, <2>1 DEF Issued, Doing
  <2>4. Passing(r, k, h, to)'
    BY <2>2, <2>3 DEF Passing
  <2>5. QED
    BY <1>0, <2>4 DEF Stage
<1>8. /\ rest = <<>> => \A a \in agents : Off(a, 0)'
      /\ \A a \in Agent \ agents : cnt'[a] = cnt[a] /\ Held(a)' = Held(a)
  BY <1>1, <1>5, <1>6
<1> HIDE DEF agents
<1>9. QED
  BY <1>0, <1>1, <1>4, <1>7, <1>8, StatementOrder

LEMMA WriteOrder == ASSUME Planned, Orderly, NEW r \in Req, WriteCount(r) PROVE Orderly'
<1>1. req[r].todo # <<>> /\ req[r].todo[1].s = "put"
  BY WriteCountIs DEF Issued
<1>2. \/ \E k \in DOMAIN rows, u \in Uid : Taking(r, k, u) \/ Closing(r, k, u)
      \/ \E k \in DOMAIN rows, h \in Uid, to \in Agent : Passing(r, k, h, to)
  BY <1>1, Issuer DEF Orderly
<1>3. QED
  BY <1>2, WriteTakeoverOrder, WriteCloseOrder, WriteTransferOrder

-----------------------------------------------------------------------------
(* EnsureTicket's commit and rollback.                                     *)

LEMMA HeldAppends ==
    ASSUME TypeOK, NEW row, Len(rows) \in Nat, DOMAIN rows = 1..Len(rows), DOMAIN rows' = 1..(Len(rows) + 1),
           rows'[Len(rows) + 1] = row, \A j \in DOMAIN rows : rows'[j] = rows[j], NEW a
    PROVE  /\ ~With(row, a) => Held(a)' = Held(a)
           /\ With(row, a) => Held(a)' = Held(a) + 1
<1>1. IsFiniteSet(Handles(a)) /\ Len(rows) + 1 \notin Handles(a)
  <2>1. IsFiniteSet(Handles(a))
    BY HandlesFinite
  <2>2. Len(rows) + 1 \notin Handles(a)
    BY DEF Handles
  <2>3. QED
    BY <2>1, <2>2
<1>2. ASSUME ~With(row, a) PROVE Held(a)' = Held(a)
  <2>1. Handles(a)' = Handles(a)
    BY <1>2 DEF Handles, With
  <2>2. QED
    BY <2>1 DEF Held
<1>3. ASSUME With(row, a) PROVE Held(a)' = Held(a) + 1
  <2>1. Handles(a)' = Handles(a) \cup {Len(rows) + 1}
    BY <1>3 DEF Handles, With
  <2>2. QED
    BY <1>1, <2>1, FS_AddElement DEF Held
<1>4. QED
  BY <1>2, <1>3

LEMMA PutIsNoTuple == \A p \in PutStmt : p # <<>>
<1>1. ASSUME NEW p \in PutStmt, p = <<>> PROVE FALSE
  <2>1. "s" \in DOMAIN p
    BY DEF PutStmt
  <2>2. DOMAIN <<>> = {}
    OBVIOUS
  <2>3. QED
    BY <1>1, <2>1, <2>2
<1>2. QED
  BY <1>1

\* What the commit does with the counters, one agent at most.
CommitCounts(row, put) ==
    \/ put = <<>> /\ row.st = "pending" /\ row.hdl = NoAgent
    \/ \E a \in Agent : /\ Puts(put, a, 1) /\ put.n <= MaxConc /\ Off(a, 0)
                        /\ row.st = "handling" /\ row.hdl = a

LEMMA EnsuringIs ==
    ASSUME NEW r, NEW th, Ensuring(r, th)
    PROVE  /\ req[r].k = 0 /\ CommitCounts(req[r].todo[1].row, req[r].todo[1].put)
           /\ \/ req[r].agents = {} /\ req[r].todo[1].put = <<>>
              \/ \E a \in Agent : req[r].agents = {a} /\ Puts(req[r].todo[1].put, a, 1) /\ Off(a, 0)
<1>1. CASE req[r] = Doing("ensure", 0, {}, <<Create(NewRow(th, "pending", NoAgent), <<>>)>>)
  <2>1. req[r].k = 0 /\ req[r].agents = {} /\ req[r].todo = <<Create(NewRow(th, "pending", NoAgent), <<>>)>>
    BY <1>1 DEF Doing
  <2>2. req[r].todo[1] = Create(NewRow(th, "pending", NoAgent), <<>>)
    BY <2>1, Firsts
  <2>3. req[r].todo[1].row = NewRow(th, "pending", NoAgent) /\ req[r].todo[1].put = <<>>
    BY <2>2, Kinds
  <2>4. QED
    BY <2>1, <2>3 DEF CommitCounts, NewRow
<1>2. ASSUME NEW a \in Agent, NEW put, put = req[r].todo[1].put,
             req[r] = Doing("ensure", 0, {a}, <<Create(NewRow(th, "handling", a), put)>>),
             Puts(put, a, 1), put.n <= MaxConc, Off(a, 0)
      PROVE  /\ req[r].k = 0 /\ CommitCounts(req[r].todo[1].row, req[r].todo[1].put)
             /\ \E b \in Agent : req[r].agents = {b} /\ Puts(req[r].todo[1].put, b, 1) /\ Off(b, 0)
  <2>1. req[r].k = 0 /\ req[r].agents = {a} /\ req[r].todo = <<Create(NewRow(th, "handling", a), put)>>
    BY <1>2 DEF Doing
  <2>2. req[r].todo[1] = Create(NewRow(th, "handling", a), put)
    BY <2>1, Firsts
  <2>3. req[r].todo[1].row = NewRow(th, "handling", a) /\ req[r].todo[1].put = put
    BY <2>2, Kinds
  <2>4. NewRow(th, "handling", a).st = "handling" /\ NewRow(th, "handling", a).hdl = a
    BY DEF NewRow
  <2>5. QED
    BY <1>2, <2>1, <2>3, <2>4 DEF CommitCounts
<1>3. QED
  BY <1>1, <1>2 DEF Ensuring

LEMMA CommitOrder == ASSUME Planned, Orderly, NEW r \in Req, CommitTicket(r) PROVE Orderly'
<1> DEFINE row == req[r].todo[1].row
           put == req[r].todo[1].put
<1>0. TypeOK /\ Stage(r) /\ req[r].todo # <<>> /\ req[r].todo[1].s = "create"
  <2>1. req[r].todo # <<>> /\ req[r].todo \in Seq(Stmt) /\ Head(req[r].todo).s = "create"
    BY DEF CommitTicket, Issuing, Planned, TypeOK
  <2>2. Head(req[r].todo) = req[r].todo[1]
    BY <2>1
  <2>3. QED
    BY <2>1, <2>2 DEF Planned, Orderly
<1>1. /\ req'[r] = Idle /\ (\A q \in Req \ {r} : req'[q] = req[q])
      /\ Len(rows) \in Nat /\ DOMAIN rows = 1..Len(rows) /\ DOMAIN rows' = 1..(Len(rows) + 1)
      /\ rows'[Len(rows) + 1] = row /\ \A j \in DOMAIN rows : rows'[j] = rows[j]
  BY CommitTicketIs
<1>2. /\ put = <<>> => UNCHANGED <<online, cnt>>
      /\ put # <<>> => put \in PutStmt /\ Write(put)
  BY CommitTicketIs
<1>3. PICK th \in Thread : Ensuring(r, th)
  BY <1>0, Issuer
<1>4. /\ req[r].k = 0 /\ CommitCounts(row, put)
      /\ \/ req[r].agents = {} /\ put = <<>>
         \/ \E a \in Agent : req[r].agents = {a} /\ Puts(put, a, 1) /\ Off(a, 0)
  BY <1>3, EnsuringIs
<1> HIDE DEF row, put
<1>5. \A a : /\ ~With(row, a) => Held(a)' = Held(a)
             /\ With(row, a) => Held(a)' = Held(a) + 1
  BY <1>0, <1>1, HeldAppends
<1>6. /\ \A a \in Agent \ req[r].agents : cnt'[a] = cnt[a] /\ Held(a)' = Held(a)
      /\ \A a \in req[r].agents : Off(a, 0)'
      /\ row.st \in {"pending", "canceled"} => row.hdl = NoAgent
  <2>1. CASE put = <<>>
    <3>1. ASSUME NEW a, Puts(put, a, 1) PROVE FALSE
      BY <2>1, <3>1, PutIsNoTuple DEF Puts
    <3>2. req[r].agents = {} /\ row.st = "pending" /\ row.hdl = NoAgent
      BY <1>4, <3>1 DEF CommitCounts
    <3>3. \A a : ~With(row, a)
      BY <3>2 DEF With
    <3>4. QED
      BY <1>2, <1>5, <2>1, <3>2, <3>3
  <2>2. CASE put # <<>>
    <3>1. PICK a \in Agent : req[r].agents = {a} /\ Puts(put, a, 1) /\ Off(a, 0)
      BY <1>4, <2>2
    <3>2. row.st = "handling" /\ row.hdl = a
      BY <1>4, <2>2, <3>1 DEF CommitCounts, Puts
    <3>3. put \in PutStmt /\ put.a = a /\ (a \in InPool => put.n = cnt[a] + 1) /\ cnt' = [cnt EXCEPT ![put.a] = put.n]
      BY <1>2, <2>2, <3>1 DEF Puts, Write
    <3>4. \A b \in Agent : b # a => cnt'[b] = cnt[b]
      BY <1>0, <3>3 DEF TypeOK
    <3>5. \A b : b # a => ~With(row, b)
      BY <3>2 DEF With
    <3>6. Off(a, 0)'
      <4>1. cnt'[a] = put.n /\ Held(a)' = Held(a) + 1 /\ Held(a) \in Nat
        BY <1>0, <1>5, <3>2, <3>3, HandlesFinite DEF With, TypeOK
      <4>2. QED
        BY <3>1, <3>3, <4>1 DEF Off
    <3>7. QED
      BY <1>5, <3>1, <3>2, <3>4, <3>5, <3>6
  <2>3. QED
    BY <2>1, <2>2
<1>7. Local(r)
  <2>1. \A j \in DOMAIN rows' \ DOMAIN rows : j = Len(rows) + 1
    BY <1>1
  <2>2. DOMAIN rows \subseteq DOMAIN rows'
    BY <1>1
  <2>3. QED
    BY <1>1, <1>6, <2>1, <2>2 DEF Local
<1>8. Lands(r)
  BY <1>1, <1>4, <1>6 DEF Lands, Stage
<1>9. QED
  BY <1>7, <1>8, LocalOrder

LEMMA FailOrder == ASSUME Planned, Orderly, NEW r \in Req, EnsureFails(r) PROVE Orderly'
<1>1. /\ req[r].op = "ensure" /\ UNCHANGED <<rows, online, cnt, clash>>
      /\ req'[r] = Idle /\ \A q \in Req \ {r} : req'[q] = req[q]
  BY EnsureFailsIs
<1>2. PICK th \in Thread : Ensuring(r, th)
  <2>1. Stage(r)
    BY DEF Orderly
  <2>2. req[r] # Idle
    BY <1>1 DEF Idle
  <2>3. /\ \A k, u : Taking(r, k, u) => req[r].op = "takeover"
        /\ \A k, u : Closing(r, k, u) => req[r].op = "close"
        /\ \A k, h, to : Passing(r, k, h, to) => req[r].op = "transfer"
        /\ \A k : Canceling(r, k) => req[r].op = "cancel"
    <3>1. \A op, k, agents, todo : Doing(op, k, agents, todo).op = op
      BY DEF Doing
    <3>2. /\ \A k, u : Taking(r, k, u) => req[r].op = "takeover"
          /\ \A k, u : Closing(r, k, u) => req[r].op = "close"
      BY <3>1 DEF Taking, Closing
    <3>3. \A k, h, to : Passing(r, k, h, to) => req[r].op = "transfer"
      BY <3>1 DEF Passing
    <3>4. \A k : Canceling(r, k) => req[r].op = "cancel"
      BY <3>1 DEF Canceling
    <3>5. QED
      BY <3>2, <3>3, <3>4
  <2>4. QED
    BY <1>1, <2>1, <2>2, <2>3 DEF Stage
<1>3. req[r].k = 0 /\ \A a \in req[r].agents : Off(a, 0)
  BY <1>2, EnsuringIs
<1>4. /\ \A a : Held(a)' = Held(a)
      /\ \A a \in req[r].agents : Off(a, 0)'
  BY <1>1, <1>3, Still
<1>5. Local(r)
  BY <1>1, <1>4 DEF Local
<1>6. 0 \notin DOMAIN rows
  BY DEF Planned, TypeOK
<1>7. Lands(r)
  BY <1>1, <1>3, <1>4, <1>6 DEF Lands, Stage
<1>8. QED
  BY <1>5, <1>7, LocalOrder

-----------------------------------------------------------------------------
(* Requests that start without a clash, and the single statements.         *)

LEMMA Free ==
    ASSUME Planned, Orderly, NEW k, NEW agents, ~Overlaps(k, agents)
    PROVE  /\ \A a \in agents : Off(a, 0)
           /\ \A q \in Req : req[q].agents \cap agents = {} /\ (k # 0 => req[q].k # k)
<1>1. \A q \in Req : req[q].op = "idle" => req[q].agents = {} /\ req[q].k = 0
  BY DEF Planned, Plans, Idle
<1>2. \A q \in Req : req[q].agents \cap agents = {} /\ (k # 0 => req[q].k # k)
  BY <1>1 DEF Overlaps
<1>3. ASSUME NEW a \in agents PROVE Off(a, 0)
  <2>1. ~Busy(a)
    BY <1>2 DEF Busy
  <2>2. CASE a \in InPool
    BY <2>1, <2>2 DEF Orderly, AgentsRest
  <2>3. CASE a \notin InPool
    BY <2>3, OutOfPool
  <2>4. QED
    BY <2>2, <2>3
<1>4. QED
  BY <1>2, <1>3

LEMMA MadeOrder ==
    ASSUME Planned, Orderly, NEW r \in Req, NEW op, NEW k, NEW agents, NEW todo,
           Made(r, op, k, agents, todo), ~clash', Stage(r)'
    PROVE  Orderly'
<1>1. /\ req[r] = Idle /\ UNCHANGED <<rows, cnt>> /\ ~Overlaps(k, agents)
      /\ req'[r].k = k /\ req'[r].agents = agents
      /\ \A q \in Req \ {r} : req'[q] = req[q]
  BY DEF Made
<1>2. \A q \in Req : req[q].agents \cap agents = {} /\ (k # 0 => req[q].k # k)
  BY <1>1, Free
<1>3. Alone'
  BY <1>1, <1>2 DEF Alone, Orderly
<1>4. ASSUME NEW a \in InPool, ~Busy(a)' PROVE Off(a, 0)'
  <2>1. ~Busy(a)
    BY <1>1, <1>4 DEF Busy, Idle
  <2>2. Off(a, 0)
    BY <2>1 DEF Orderly, AgentsRest
  <2>3. QED
    BY <1>1, <2>2, Still
<1>5. ASSUME NEW j \in DOMAIN rows', rows'[j].st \in {"pending", "canceled"} PROVE Unheld(j)'
  <2>1. Unheld(j)
    BY <1>1, <1>5 DEF Orderly, RowsRest
  <2>2. \A q \in Req : req[q].op = "takeover" => req'[q] = req[q]
    BY <1>1 DEF Idle
  <2>3. QED
    BY <1>1, <2>1, <2>2 DEF Unheld
<1>6. ASSUME NEW q \in Req PROVE Stage(q)'
  <2>1. CASE q = r
    BY <2>1
  <2>2. CASE q # r
    <3>1. Stage(q) /\ req'[q] = req[q]
      BY <1>1, <2>2 DEF Orderly
    <3>2. QED
      BY <1>1, <3>1, Still, StageKept DEF Planned, TypeOK
  <2>3. QED
    BY <2>1, <2>2
<1>7. QED
  BY <1>3, <1>4, <1>5, <1>6 DEF Orderly, AgentsRest, RowsRest

\* Who can be the handler of a ticket nobody else is at work on.
LEMMA HandlerIs ==
    ASSUME Planned, Orderly, NEW k \in DOMAIN rows, NEW agents, ~Overlaps(k, agents), rows[k].st # "closed"
    PROVE  rows[k].hdl # NoAgent => rows[k].st = "handling"
<1>1. k # 0 /\ rows[k].st \in Status
  BY RowTypes DEF Planned, TypeOK
<1>2. \A q \in Req : req[q].k # k
  BY <1>1, Free
<1>3. rows[k].st \in {"pending", "canceled"} => rows[k].hdl = NoAgent
  BY <1>2 DEF Orderly, RowsRest, Unheld
<1>4. QED
  BY <1>1, <1>3 DEF Status

LEMMA StartOrder == ASSUME Planned, Orderly, NEW r \in Req, Starts(r), ~clash' PROVE Orderly'
<1>0. TypeOK
  BY DEF Planned
<1>1. CASE StartsTakeover(r)
  <2>1. PICK k \in DOMAIN rows, u \in Uid :
           Made(r, "takeover", k, Only(u), TakeoverTodo(k, u)) /\ rows[k].st = "pending"
    BY <1>1 DEF StartsTakeover, Only
  <2>2. UNCHANGED <<rows, cnt>> /\ req'[r] = Doing("takeover", k, Only(u), TakeoverTodo(k, u)) /\ ~Overlaps(k, Only(u))
    BY <2>1 DEF Made, Doing
  <2>3. Off(u, 0)
    <3>1. CASE u = NoAgent
      BY <3>1, UidIs, OutOfPool
    <3>2. CASE u # NoAgent
      BY <2>2, <3>2, UidIs, Free
    <3>3. QED
      BY <3>1, <3>2
  <2>4. PICK todo : todo = TakeoverTodo(k, u)
    OBVIOUS
  <2>5. TakeoverTodo(k, u)' = todo /\ Off(u, 0)'
    BY <2>2, <2>3, <2>4, PlansKeepRow, Still
  <2>6. TakingAt(k, u, todo)'
    BY <2>5 DEF TakingAt
  <2>7. req'[r].todo = todo /\ req'[r] = Doing("takeover", k, Only(u), todo)
    BY <2>2, <2>4 DEF Doing
  <2>8. Taking(r, k, u)'
    BY <2>1, <2>2, <2>6, <2>7 DEF Taking
  <2>9. Stage(r)'
    BY <2>2, <2>8 DEF Stage
  <2>10. QED
    BY <2>1, <2>9, MadeOrder
<1>2. CASE StartsClose(r)
  <2>1. PICK k \in DOMAIN rows :
           Made(r, "close", k, Only(rows[k].hdl), CloseTodo(k, rows[k].hdl)) /\ rows[k].st # "closed"
    BY <1>2 DEF StartsClose, Only
  <2>2. PICK h \in Uid : h = rows[k].hdl
    BY <1>0, RowTypes
  <2>3. /\ UNCHANGED <<rows, cnt>> /\ req'[r] = Doing("close", k, Only(h), CloseTodo(k, h))
        /\ ~Overlaps(k, Only(h))
    BY <2>1, <2>2 DEF Made, Doing
  <2>4. Off(h, 0)
    <3>1. CASE h = NoAgent
      BY <3>1, UidIs, OutOfPool
    <3>2. CASE h # NoAgent
      BY <2>3, <3>2, UidIs, Free
    <3>3. QED
      BY <3>1, <3>2
  <2>5. h # NoAgent => rows[k].st = "handling"
    BY <2>1, <2>2, <2>3, HandlerIs
  <2>6. PICK todo : todo = CloseTodo(k, h)
    OBVIOUS
  <2>7. CloseTodo(k, h)' = todo /\ Off(h, 0)'
    BY <2>3, <2>4, <2>6, PlansKeepRow, Still
  <2>8. ClosingAt(k, h, todo)'
    BY <2>1, <2>2, <2>3, <2>5, <2>7 DEF ClosingAt
  <2>9. req'[r].todo = todo /\ req'[r] = Doing("close", k, Only(h), todo)
    BY <2>3, <2>6 DEF Doing
  <2>10. Closing(r, k, h)'
    BY <2>8, <2>9 DEF Closing
  <2>11. Stage(r)'
    BY <2>3, <2>10 DEF Stage
  <2>12. QED
    BY <2>1, <2>11, MadeOrder
<1>3. CASE StartsTransfer(r)
  <2>1. PICK k \in DOMAIN rows, to \in Agent :
           /\ Made(r, "transfer", k, {rows[k].hdl, to} \ {NoAgent}, TransferTodo(rows[k].hdl, to))
           /\ rows[k].st \in Open
    BY <1>3 DEF StartsTransfer
  <2>2. PICK h \in Uid : h = rows[k].hdl
    BY <1>0, RowTypes
  <2> DEFINE agents == {h, to} \ {NoAgent}
  <2>3. /\ UNCHANGED <<rows, cnt>> /\ req'[r] = Doing("transfer", k, agents, TransferTodo(h, to))
        /\ ~Overlaps(k, agents)
    BY <2>1, <2>2 DEF Made, Doing
  <2>4. Off(h, 0) /\ Off(to, 0)
    <3>1. to \in agents
      BY TicketAssumption
    <3>2. Off(to, 0)
      BY <2>3, <3>1, Free
    <3>3. CASE h = NoAgent
      BY <3>2, <3>3, UidIs, OutOfPool
    <3>4. CASE h # NoAgent
      BY <2>3, <3>2, <3>4, Free
    <3>5. QED
      BY <3>3, <3>4
  <2>5. h # NoAgent => rows[k].st = "handling"
    <3>1. rows[k].st # "closed"
      BY <2>1 DEF Open
    <3>2. QED
      BY <2>2, <2>3, <3>1, HandlerIs
  <2>6. PICK todo : todo = TransferTodo(h, to)
    OBVIOUS
  <2>7. Off(h, 0)' /\ Off(to, 0)'
    BY <2>3, <2>4, Still
  <2>8. PassingAt(k, h, to, todo)'
    BY <2>1, <2>2, <2>3, <2>5, <2>6, <2>7 DEF PassingAt
  <2>9. req'[r].todo = todo /\ req'[r] = Doing("transfer", k, agents, todo)
    BY <2>3, <2>6 DEF Doing
  <2>10. Passing(r, k, h, to)'
    BY <2>8, <2>9 DEF Passing
  <2>11. Stage(r)'
    BY <2>3, <2>10 DEF Stage
  <2>12. QED
    BY <2>1, <2>11, MadeOrder
<1>4. CASE StartsCancel(r)
  <2>1. PICK k \in DOMAIN rows : Made(r, "cancel", k, {}, <<Ended(k, "canceled")>>) /\ rows[k].st = "pending"
    BY <1>4 DEF StartsCancel
  <2>2. UNCHANGED <<rows, cnt>> /\ req'[r] = Doing("cancel", k, {}, <<Ended(k, "canceled")>>) /\ ~Overlaps(k, {})
    BY <2>1 DEF Made, Doing
  <2>3. rows[k].hdl = NoAgent
    BY <2>1, <2>2, HandlerIs
  <2>4. Canceling(r, k)'
    BY <2>1, <2>2, <2>3, PlansKeepRow DEF Canceling
  <2>5. Stage(r)'
    BY <2>2, <2>4 DEF Stage
  <2>6. QED
    BY <2>1, <2>5, MadeOrder
<1>5. CASE StartsEnsure(r)
  <2>1. PICK th \in Thread :
           \/ Made(r, "ensure", 0, {}, <<Create(NewRow(th, "pending", NoAgent), <<>>)>>)
           \/ \E a \in Agent :
                 /\ cnt[a] < MaxConc
                 /\ LET put == Put(a, cnt[a] + 1, StatusFor(online[a], cnt[a] + 1))
                    IN  /\ put \in PutStmt
                        /\ Made(r, "ensure", 0, {a}, <<Create(NewRow(th, "handling", a), put)>>)
    BY <1>5 DEF StartsEnsure
  <2>2. CASE Made(r, "ensure", 0, {}, <<Create(NewRow(th, "pending", NoAgent), <<>>)>>)
    <3>1. req'[r] = Doing("ensure", 0, {}, <<Create(NewRow(th, "pending", NoAgent), <<>>)>>)
      BY <2>2 DEF Made, Doing
    <3>2. Ensuring(r, th)'
      BY <3>1 DEF Ensuring
    <3>3. Stage(r)'
      BY <3>2 DEF Stage
    <3>4. QED
      BY <2>2, <3>3, MadeOrder
  <2>3. ASSUME NEW a \in Agent, cnt[a] < MaxConc,
               NEW put \in PutStmt, put = Put(a, cnt[a] + 1, StatusFor(online[a], cnt[a] + 1)),
               Made(r, "ensure", 0, {a}, <<Create(NewRow(th, "handling", a), put)>>)
        PROVE  Orderly'
    <3>1. /\ UNCHANGED <<rows, cnt>> /\ ~Overlaps(0, {a})
          /\ req'[r] = Doing("ensure", 0, {a}, <<Create(NewRow(th, "handling", a), put)>>)
      BY <2>3 DEF Made, Doing
    <3>2. Puts(put, a, 1) /\ put.n <= MaxConc
      <4>1. put.a = a /\ put.n = cnt[a] + 1
        BY <2>3 DEF Put
      <4>2. QED
        BY <1>0, <2>3, <4>1, TicketAssumption DEF Puts, TypeOK
    <3>3. Off(a, 0)' /\ Puts(put, a, 1)'
      BY <3>1, <3>2, Free, Still
    <3>4. req'[r].todo[1].put = put
      <4>1. req'[r].todo = <<Create(NewRow(th, "handling", a), put)>>
        BY <3>1 DEF Doing
      <4>2. QED
        BY <4>1, Firsts, Kinds
    <3>5. Ensuring(r, th)'
      BY <3>1, <3>2, <3>3, <3>4 DEF Ensuring
    <3>6. Stage(r)'
      BY <3>5 DEF Stage
    <3>7. QED
      BY <2>3, <3>6, MadeOrder
  <2>4. QED
    BY <2>1, <2>2, <2>3
<1>6. QED
  BY <1>0, <1>1, <1>2, <1>3, <1>4, <1>5, StartKinds

LEMMA PriorityOrder ==
    ASSUME Planned, Orderly, NEW k \in DOMAIN rows, NEW p \in Priority, SetTicketPriority(k, p), ~clash'
    PROVE  Orderly'
<1> DEFINE row == [rows[k] EXCEPT !.prio = p]
<1>0. TypeOK
  BY DEF Planned
<1>1. Wrote(k, row) /\ UNCHANGED <<online, cnt, req>> /\ (\A q \in Req : req[q].k # k) /\ row \in Row
  BY <1>0, SetTicketPriorityIs DEF Wrote
<1>2. row.st = rows[k].st /\ row.hdl = rows[k].hdl
  BY <1>0, RowTypes DEF Row
<1> HIDE DEF row
<1>3. \A a : Held(a)' = Held(a)
  BY <1>0, <1>1, <1>2, HeldMoves DEF With
<1>4. /\ DOMAIN rows' = DOMAIN rows /\ \A j \in DOMAIN rows : j # k => rows'[j] = rows[j]
      /\ rows'[k].st = rows[k].st /\ rows'[k].hdl = rows[k].hdl
  BY <1>1, <1>2 DEF Wrote
<1>5. \A q \in Req : Stage(q)'
  BY <1>1, <1>3, <1>4, StageKept DEF Orderly
<1>6. Alone' /\ RowsRest'
  <2>1. Alone'
    BY <1>1 DEF Orderly, Alone
  <2>2. ASSUME NEW j \in DOMAIN rows', rows'[j].st \in {"pending", "canceled"} PROVE Unheld(j)'
    <3>a. j \in DOMAIN rows
      BY <1>4, <2>2
    <3>b. rows'[j].st = rows[j].st /\ rows'[j].hdl = rows[j].hdl
      BY <1>4, <3>a
    <3>0. j \in DOMAIN rows /\ rows[j].st \in {"pending", "canceled"} /\ rows'[j].hdl = rows[j].hdl
      BY <2>2, <3>a, <3>b
    <3>1. Unheld(j) /\ rows'[j].hdl = rows[j].hdl
      BY <3>0 DEF Orderly, RowsRest
    <3>2. QED
      BY <1>1, <3>1 DEF Unheld
  <2>3. QED
    BY <2>1, <2>2 DEF RowsRest
<1>7. ASSUME NEW a \in InPool, ~Busy(a)' PROVE Off(a, 0)'
  <2>1. Off(a, 0)
    BY <1>1, <1>7 DEF Orderly, AgentsRest, Busy
  <2>2. QED
    BY <1>1, <1>3, <2>1, OffKept
<1>8. QED
  BY <1>5, <1>6, <1>7 DEF Orderly, AgentsRest

LEMMA UntouchedOrder == ASSUME Planned, Orderly, UNCHANGED <<rows, cnt, req>> PROVE Orderly'
<1>1. \A q \in Req : Stage(q)'
  BY Still, StageKept DEF Orderly
<1>2. Alone' /\ RowsRest'
  BY DEF Orderly, Alone, RowsRest, Unheld
<1>3. ASSUME NEW a \in InPool, ~Busy(a)' PROVE Off(a, 0)'
  <2>1. Off(a, 0)
    BY <1>3 DEF Orderly, AgentsRest, Busy
  <2>2. QED
    BY <2>1, Still
<1>4. QED
  BY <1>1, <1>2, <1>3 DEF Orderly, AgentsRest

-----------------------------------------------------------------------------
(* The invariant.                                                          *)

LEMMA ClashStays == ASSUME Planned, Next, ~clash' PROVE ~clash
<1>0. TypeOK
  BY DEF Planned
<1>1. ASSUME NEW r \in Req, Starts(r) PROVE ~clash
  <2>1. \E op, k, agents, todo : Made(r, op, k, agents, todo)
    BY <1>0, <1>1, StartKinds DEF StartsTakeover, StartsClose, StartsTransfer, StartsCancel, StartsEnsure
  <2>2. QED
    BY <2>1 DEF Made
<1>2. ASSUME NEW r \in Req, Issues(r) PROVE UNCHANGED clash
  BY <1>2 DEF Issues, AssignRow, HandRow, SaveRow, ReadCount, WriteCount, CommitTicket, EnsureFails
<1>3. ASSUME NEW k \in DOMAIN rows, NEW p \in Priority, SetTicketPriority(k, p) PROVE ~clash
  BY <1>0, <1>3, SetTicketPriorityIs
<1>4. ASSUME NEW a \in Agent, NEW st \in 0..2, UpsertAgentStatus(a, st) \/ SetAgentStatus(a, st)
      PROVE  UNCHANGED clash
  BY <1>4 DEF UpsertAgentStatus, SetAgentStatus
<1>5. QED
  BY <1>1, <1>2, <1>3, <1>4 DEF Next

LEMMA PoolStep == ASSUME Planned, PoolStays, Next PROVE PoolStays'
<1>0. TypeOK /\ InPool \subseteq Agent
  BY TicketAssumption DEF Planned
<1>1. CASE UNCHANGED online
  BY <1>1 DEF PoolStays
<1>2. ASSUME NEW p \in PutStmt, Write(p) PROVE PoolStays'
  BY <1>0, <1>2, WriteIs DEF PoolStays
<1>3. ASSUME NEW r \in Req, Starts(r) PROVE UNCHANGED online
  <2>1. \E op, k, agents, todo : Made(r, op, k, agents, todo)
    BY <1>0, <1>3, StartKinds DEF StartsTakeover, StartsClose, StartsTransfer, StartsCancel, StartsEnsure
  <2>2. QED
    BY <2>1 DEF Made
<1>4. ASSUME NEW r \in Req, WriteCount(r) PROVE PoolStays'
  BY <1>2, <1>4, WriteCountIs
<1>5. ASSUME NEW r \in Req, CommitTicket(r) PROVE PoolStays'
  BY <1>1, <1>2, <1>5, CommitTicketIs
<1>6. ASSUME NEW r \in Req, AssignRow(r) \/ HandRow(r) \/ SaveRow(r) \/ ReadCount(r) \/ EnsureFails(r)
      PROVE  UNCHANGED online
  BY <1>6 DEF AssignRow, HandRow, SaveRow, ReadCount, EnsureFails
<1>7. ASSUME NEW k \in DOMAIN rows, NEW p \in Priority, SetTicketPriority(k, p) PROVE UNCHANGED online
  BY <1>7 DEF SetTicketPriority
<1>8. ASSUME NEW a \in Agent, NEW st \in 0..2, UpsertAgentStatus(a, st) \/ SetAgentStatus(a, st)
      PROVE  PoolStays'
  BY <1>0, <1>8, StatusSetIs DEF PoolStays
<1>9. QED
  BY <1>1, <1>3, <1>4, <1>5, <1>6, <1>7, <1>8 DEF Next, Issues

LEMMA ExactStep == ASSUME Planned, Exact, Next PROVE Exact'
<1>1. PoolStays'
  BY PoolStep DEF Exact
<1>2. SUFFICES ASSUME ~clash' PROVE Orderly'
  BY <1>1 DEF Exact
<1>3. PoolStays /\ Orderly
  BY <1>2, ClashStays DEF Exact
<1>4. ASSUME NEW r \in Req, Starts(r) PROVE Orderly'
  BY <1>2, <1>3, <1>4, StartOrder
<1>5. ASSUME NEW r \in Req, Issues(r) PROVE Orderly'
  BY <1>3, <1>5, AssignOrder, HandOrder, SaveOrder, ReadOrder, WriteOrder, CommitOrder, FailOrder DEF Issues
<1>6. ASSUME NEW k \in DOMAIN rows, NEW p \in Priority, SetTicketPriority(k, p) PROVE Orderly'
  BY <1>2, <1>3, <1>6, PriorityOrder
<1>7. ASSUME NEW a \in Agent, NEW st \in 0..2, UpsertAgentStatus(a, st) \/ SetAgentStatus(a, st)
      PROVE  Orderly'
  <2>1. UNCHANGED <<rows, cnt, req>>
    BY <1>7 DEF UpsertAgentStatus, SetAgentStatus
  <2>2. QED
    BY <1>3, <2>1, UntouchedOrder
<1>8. QED
  BY <1>4, <1>5, <1>6, <1>7 DEF Next

LEMMA ExactAtFirst == ASSUME Init PROVE Exact
<1>1. rows = <<>> /\ (\A q \in Req : req[q] = Idle) /\ Idle.agents = {} /\ Idle.k = 0
  BY DEF Init, Idle
<1>2. \A a \in InPool : online[a] = 0 /\ cnt[a] = 0
  BY TicketAssumption DEF Init
<1>3. PoolStays
  BY <1>2 DEF PoolStays, NoRow
<1>4. \A a : Held(a) = 0
  <2>1. \A a : Handles(a) = {}
    BY <1>1 DEF Handles
  <2>2. QED
    BY <2>1, FS_EmptySet DEF Held
<1>5. AgentsRest
  BY <1>2, <1>4 DEF AgentsRest, Off
<1>6. Alone /\ RowsRest
  BY <1>1 DEF Alone, RowsRest
<1>7. \A q \in Req : Stage(q)
  BY <1>1 DEF Stage
<1>8. QED
  BY <1>3, <1>5, <1>6, <1>7 DEF Exact, Orderly

LEMMA ExactHolds == Spec => []Exact
<1>1. Init => Exact
  BY ExactAtFirst
<1>2. Planned /\ Exact /\ [Next]_vars => Exact'
  <2> SUFFICES ASSUME Planned, Exact, [Next]_vars PROVE Exact'
    OBVIOUS
  <2>1. CASE UNCHANGED vars
    <3>1. UNCHANGED <<rows, online, cnt, req, clash>>
      BY <2>1 DEF vars
    <3>2. PoolStays'
      BY <3>1 DEF Exact, PoolStays
    <3>3. QED
      BY <3>1, <3>2, UntouchedOrder DEF Exact
  <2>2. QED
    BY <2>1, ExactStep
<1>3. QED
  BY <1>1, <1>2, PlansHold, PTL DEF Spec

\* An agent's handling_count is the number of tickets handled, whenever no request
\* has a statement for that counter left to issue and requests did not overlap.
THEOREM CountIsExact == Spec => []CountExact
<1>1. Planned /\ Exact => CountExact
  <2> SUFFICES ASSUME Planned, Exact, ~clash, NEW a \in InPool, ~Busy(a)
               PROVE  cnt[a] = Cardinality(Handles(a))
    BY DEF CountExact
  <2>1. cnt[a] = Held(a) + 0 /\ Held(a) \in Nat
    BY HandlesFinite DEF Planned, Exact, Orderly, AgentsRest, Off
  <2>2. QED
    BY <2>1 DEF Held
<1>2. QED
  BY <1>1, PlansHold, ExactHolds, PTL

\* EnsureTicket picked its agent below the limit, and nobody raised that agent's
\* count before the commit.
THEOREM AssignmentsStayWithinLimit == Spec => AssignedWithinLimit
<1> DEFINE Within(r) == CommitTicket(r) /\ ~clash =>
              \A a \in InPool : Cardinality(Handles(a)') > Cardinality(Handles(a))
                                  => Cardinality(Handles(a)') <= MaxConc
<1>1. ASSUME Planned, Exact, NEW r \in Req PROVE Within(r)
  <2> SUFFICES ASSUME CommitTicket(r), ~clash, NEW a \in InPool, Held(a)' > Held(a) PROVE Held(a)' <= MaxConc
    BY DEF Held
  <2> DEFINE row == req[r].todo[1].row
             put == req[r].todo[1].put
  <2>0. TypeOK /\ Stage(r) /\ req[r].op = "ensure" /\ Held(a) \in Nat
    BY <1>1, CommitTicketIs, HandlesFinite DEF Planned, Exact, Orderly
  <2>1. /\ Len(rows) \in Nat /\ DOMAIN rows = 1..Len(rows) /\ DOMAIN rows' = 1..(Len(rows) + 1)
        /\ rows'[Len(rows) + 1] = row /\ \A j \in DOMAIN rows : rows'[j] = rows[j]
    BY <1>1, CommitTicketIs
  <2>2. PICK th \in Thread : Ensuring(r, th)
    <3>1. req[r].todo # <<>> /\ req[r].todo \in Seq(Stmt) /\ Head(req[r].todo).s = "create"
      BY <2>0 DEF CommitTicket, Issuing, TypeOK
    <3>2. req[r].todo[1].s = "create"
      BY <3>1
    <3>3. QED
      BY <2>0, <3>1, <3>2, Issuer
  <2>3. CommitCounts(row, put)
    BY <2>2, EnsuringIs
  <2> HIDE DEF row, put
  <2>4. With(row, a) /\ Held(a)' = Held(a) + 1
    BY <2>0, <2>1, HeldAppends
  <2>5. /\ Puts(put, a, 1) /\ put.n <= MaxConc /\ Off(a, 0)
    BY <2>3, <2>4 DEF CommitCounts, With
  <2>6. QED
    BY <2>0, <2>4, <2>5 DEF Puts, Off
<1>2. Planned /\ Exact => \A r \in Req : Within(r)
  BY <1>1
<1>3. Planned /\ Exact /\ [Next]_vars => [\A r \in Req : Within(r)]_vars
  BY <1>2
<1>4. QED
  BY <1>3, PlansHold, ExactHolds, PTL DEF Spec, AssignedWithinLimit

-----------------------------------------------------------------------------
(* What a step does to a ticket, as long as requests do not overlap.       *)

\* A ticket waits, is taken or handed on, is canceled or closed; its priority stays.
RowMove(k, row) ==
    /\ Wrote(k, row) /\ row.prio = rows[k].prio
    /\ \/ rows[k].st = "pending" /\ row.st = "pending"
       \/ rows[k].st = "pending" /\ row.st = "handling"
       \/ rows[k].st = "handling" /\ row.st = "handling" /\ row.hdl \in Agent
       \/ rows[k].st = "pending" /\ row.st = "canceled"
       \/ rows[k].st # "closed" /\ row.st = "closed"

Moves ==
    \/ UNCHANGED rows
    \/ \E k \in DOMAIN rows, p \in Priority : SetTicketPriority(k, p)
    \/ \E k \in DOMAIN rows, row \in Row : RowMove(k, row)
    \/ \E r \in Req : /\ CommitTicket(r)
                      /\ \/ req[r].todo[1].row.st = "pending"
                         \/ req[r].todo[1].row.st = "handling" /\ req[r].todo[1].row.hdl \in Agent

LEMMA AssignMoves == ASSUME Planned, Orderly, NEW r \in Req, AssignRow(r) PROVE Moves
<1>0. TypeOK /\ Stage(r)
  BY DEF Planned, Orderly
<1>1. /\ Issued(r, "assign", Tail(req[r].todo)) /\ req[r].todo[1].a \in Uid
      /\ Wrote(req[r].k, [rows[req[r].k] EXCEPT !.hdl = req[r].todo[1].a])
  BY AssignRowIs
<1>2. PICK k \in DOMAIN rows, u \in Uid : Taking(r, k, u)
  BY <1>0, <1>1, Issuer DEF Issued
<1>3. req[r].k = k /\ rows[k].st = "pending"
  BY <1>2 DEF Taking, Doing
<1> DEFINE row == [rows[k] EXCEPT !.hdl = req[r].todo[1].a]
<1>4. Wrote(k, row) /\ row \in Row
  BY <1>1, <1>3 DEF Wrote
<1>5. row.st = rows[k].st /\ row.prio = rows[k].prio
  BY <1>0, RowTypes DEF Row
<1> HIDE DEF row
<1>6. RowMove(k, row)
  BY <1>3, <1>4, <1>5 DEF RowMove
<1>7. QED
  BY <1>4, <1>6 DEF Moves

LEMMA HandMoves == ASSUME Planned, Orderly, NEW r \in Req, HandRow(r) PROVE Moves
<1>0. TypeOK /\ Stage(r)
  BY DEF Planned, Orderly
<1>1. /\ Issued(r, "hand", Tail(req[r].todo))
      /\ Wrote(req[r].k, [rows[req[r].k] EXCEPT !.hdl = req[r].todo[1].a, !.st = "handling"])
  BY HandRowIs
<1>2. PICK k \in DOMAIN rows, h \in Uid, to \in Agent : Passing(r, k, h, to)
  BY <1>0, <1>1, Issuer DEF Issued
<1>3. rows[k].st \in Open /\ req[r].todo[1].a = to /\ req[r].k = k
  <2>1. req[r].k = k
    BY <1>2 DEF Passing, Doing
  <2>2. req[r].todo[1] = Hand(to) /\ HandingOn(k, h, to, req[r].todo)
    BY <1>1, <1>2, PassingKinds DEF Passing, Issued
  <2>3. QED
    BY <2>1, <2>2, Kinds DEF HandingOn
<1> DEFINE row == [rows[k] EXCEPT !.hdl = to, !.st = "handling"]
<1>4. Wrote(k, row) /\ row \in Row
  BY <1>1, <1>3 DEF Wrote
<1>5. row.st = "handling" /\ row.hdl = to /\ row.prio = rows[k].prio
  BY <1>0, RowTypes DEF Row
<1> HIDE DEF row
<1>6. RowMove(k, row)
  BY <1>3, <1>4, <1>5 DEF RowMove, Open
<1>7. QED
  BY <1>4, <1>6 DEF Moves

LEMMA SaveMoves == ASSUME Planned, Orderly, NEW r \in Req, SaveRow(r) PROVE Moves
<1>0. TypeOK /\ Stage(r)
  BY DEF Planned, Orderly
<1>1. Issued(r, "save", Tail(req[r].todo)) /\ Wrote(req[r].k, req[r].todo[1].row)
  BY SaveRowIs
<1>2. ASSUME NEW k \in DOMAIN rows, NEW row, req[r].k = k, req[r].todo[1] = Save(row), row.prio = rows[k].prio,
             \/ rows[k].st = "pending" /\ row.st = "handling"
             \/ rows[k].st = "pending" /\ row.st = "canceled"
             \/ rows[k].st # "closed" /\ row.st = "closed"
      PROVE  Moves
  <2>1. Wrote(k, row) /\ row \in Row
    BY <1>1, <1>2, Kinds DEF Wrote
  <2>2. RowMove(k, row)
    BY <1>2, <2>1 DEF RowMove
  <2>3. QED
    BY <2>1, <2>2 DEF Moves
<1>3. ASSUME NEW k \in DOMAIN rows, NEW u \in Uid, Taking(r, k, u) PROVE Moves
  <2>1. req[r].k = k /\ rows[k].st = "pending" /\ req[r].todo = <<Over(k, u)>>
    BY <1>1, <1>3, TakingKinds DEF Taking, Doing, Issued
  <2>2. req[r].todo[1] = Over(k, u)
    BY <2>1, Firsts
  <2> DEFINE row == [rows[k] EXCEPT !.st = "handling", !.hdl = u]
  <2>3. row.st = "handling" /\ row.prio = rows[k].prio
    BY <1>0, RowTypes DEF Row
  <2>4. req[r].todo[1] = Save(row)
    BY <2>2 DEF Over
  <2> HIDE DEF row
  <2>5. QED
    BY <1>2, <2>1, <2>3, <2>4
<1>4. ASSUME NEW k \in DOMAIN rows, NEW h \in Uid, Closing(r, k, h) PROVE Moves
  <2>1. req[r].k = k /\ rows[k].st # "closed" /\ req[r].todo[1] = Ended(k, "closed")
    BY <1>1, <1>4, ClosingKinds DEF Closing, Doing, Issued
  <2> DEFINE row == [rows[k] EXCEPT !.st = "closed"]
  <2>2. row.st = "closed" /\ row.prio = rows[k].prio
    BY <1>0, RowTypes DEF Row
  <2>3. req[r].todo[1] = Save(row)
    BY <2>1 DEF Ended
  <2> HIDE DEF row
  <2>4. QED
    BY <1>2, <2>1, <2>2, <2>3
<1>5. ASSUME NEW k \in DOMAIN rows, Canceling(r, k) PROVE Moves
  <2>1. req[r].k = k /\ rows[k].st = "pending" /\ req[r].todo = <<Ended(k, "canceled")>>
    BY <1>5 DEF Canceling, Doing
  <2>2. req[r].todo[1] = Ended(k, "canceled")
    BY <2>1, Firsts
  <2> DEFINE row == [rows[k] EXCEPT !.st = "canceled"]
  <2>3. row.st = "canceled" /\ row.prio = rows[k].prio
    BY <1>0, RowTypes DEF Row
  <2>4. req[r].todo[1] = Save(row)
    BY <2>2 DEF Ended
  <2> HIDE DEF row
  <2>5. QED
    BY <1>2, <2>1, <2>3, <2>4
<1>6. QED
  BY <1>0, <1>1, <1>3, <1>4, <1>5, Issuer DEF Issued

LEMMA CommitMoves == ASSUME Planned, Orderly, NEW r \in Req, CommitTicket(r) PROVE Moves
<1>1. req[r].todo # <<>> /\ req[r].todo \in Seq(Stmt) /\ Head(req[r].todo).s = "create"
  BY DEF CommitTicket, Issuing, Planned, TypeOK
<1>2. req[r].todo[1].s = "create" /\ Stage(r)
  BY <1>1 DEF Orderly
<1>3. PICK th \in Thread : Ensuring(r, th)
  BY <1>1, <1>2, Issuer
<1>4. CommitCounts(req[r].todo[1].row, req[r].todo[1].put)
  BY <1>3, EnsuringIs
<1>5. QED
  BY <1>4 DEF CommitCounts, Moves

LEMMA StepMoves == ASSUME Planned, Exact, Next, ~clash' PROVE Moves
<1>1. TypeOK /\ Orderly
  BY ClashStays DEF Planned, Exact
<1>2. ASSUME NEW r \in Req, Starts(r) PROVE UNCHANGED rows
  <2>1. \E op, k, agents, todo : Made(r, op, k, agents, todo)
    BY <1>1, <1>2, StartKinds DEF StartsTakeover, StartsClose, StartsTransfer, StartsCancel, StartsEnsure
  <2>2. QED
    BY <2>1 DEF Made
<1>3. ASSUME NEW r \in Req, ReadCount(r) \/ WriteCount(r) \/ EnsureFails(r) PROVE UNCHANGED rows
  BY <1>3 DEF ReadCount, WriteCount, EnsureFails
<1>4. ASSUME NEW a \in Agent, NEW st \in 0..2, UpsertAgentStatus(a, st) \/ SetAgentStatus(a, st)
      PROVE  UNCHANGED rows
  BY <1>4 DEF UpsertAgentStatus, SetAgentStatus
<1>5. ASSUME NEW r \in Req, AssignRow(r) \/ HandRow(r) \/ SaveRow(r) \/ CommitTicket(r) PROVE Moves
  BY <1>1, <1>5, AssignMoves, HandMoves, SaveMoves, CommitMoves
<1>6. QED
  BY <1>2, <1>3, <1>4, <1>5 DEF Next, Issues, Moves

\* The row that UpdateTicketStatus writes back was read by a request that had the
\* ticket for itself, so its priority is the one the row still has.
THEOREM PrioritiesAreKept == Spec => PriorityKept
<1> DEFINE Kept == ~clash' => \A k \in DOMAIN rows : rows'[k].prio # rows[k].prio
                     => \E p \in Priority : SetTicketPriority(k, p)
<1>1. ASSUME Planned, Exact, Next PROVE Kept
  <2> SUFFICES ASSUME ~clash', NEW k \in DOMAIN rows, rows'[k].prio # rows[k].prio
               PROVE  \E p \in Priority : SetTicketPriority(k, p)
    OBVIOUS
  <2>1. Moves /\ TypeOK
    BY <1>1, StepMoves DEF Planned
  <2>2. CASE UNCHANGED rows
    BY <2>2
  <2>3. ASSUME NEW j \in DOMAIN rows, NEW p \in Priority, SetTicketPriority(j, p)
        PROVE  \E q \in Priority : SetTicketPriority(k, q)
    <3>1. Wrote(j, [rows[j] EXCEPT !.prio = p])
      BY <2>1, <2>3, SetTicketPriorityIs
    <3>2. j = k
      BY <3>1 DEF Wrote
    <3>3. QED
      BY <2>3, <3>2
  <2>4. ASSUME NEW j \in DOMAIN rows, NEW row \in Row, RowMove(j, row) PROVE FALSE
    BY <2>4 DEF RowMove, Wrote
  <2>5. ASSUME NEW r \in Req, CommitTicket(r) PROVE FALSE
    <3>1. \A j \in DOMAIN rows : rows'[j] = rows[j]
      BY <1>1, <2>5, CommitTicketIs
    <3>2. QED
      BY <3>1
  <2>6. QED
    BY <2>1, <2>2, <2>3, <2>4, <2>5 DEF Moves
<1>2. Planned /\ Exact /\ [Next]_vars => [Kept]_vars
  BY <1>1
<1>3. QED
  BY <1>2, PlansHold, ExactHolds, PTL DEF Spec, PriorityKept

-----------------------------------------------------------------------------
(* Every ticket goes along its lifecycle.                                  *)

LifeOf(row) == [st |-> row.st, hdl |-> IF row.st = "handling" THEN row.hdl ELSE NoAgent]

LEMMA LivesAre ==
    /\ DOMAIN lives = DOMAIN rows
    /\ \A k \in DOMAIN rows : lives[k] = LifeOf(rows[k])
    /\ lives = [k \in DOMAIN rows |-> LifeOf(rows[k])]
  BY DEF lives, LifeOf

LEMMA LifeMove ==
    ASSUME TypeOK, NEW k \in DOMAIN rows, NEW row \in Row, Wrote(k, row)
    PROVE  lives' = [lives EXCEPT ![k] = LifeOf(row)]
<1>1. /\ DOMAIN rows' = DOMAIN rows /\ rows'[k] = row
      /\ \A j \in DOMAIN rows \ {k} : rows'[j] = rows[j]
  BY DEF Wrote
<1>2. lives' = [j \in DOMAIN rows |-> LifeOf(rows'[j])]
  BY <1>1 DEF lives, LifeOf
<1>3. QED
  BY <1>1, <1>2, LivesAre

LEMMA LifeStep == ASSUME Planned, Exact, Next, ~clash' PROVE [Life!Next]_lives
<1>0. Moves /\ TypeOK
  BY StepMoves DEF Planned
<1>1. CASE UNCHANGED rows
  BY <1>1 DEF lives
<1>2. ASSUME NEW k \in DOMAIN rows, NEW p \in Priority, SetTicketPriority(k, p) PROVE UNCHANGED lives
  <2> DEFINE row == [rows[k] EXCEPT !.prio = p]
  <2>1. Wrote(k, row) /\ row \in Row
    BY <1>0, <1>2, SetTicketPriorityIs DEF Wrote
  <2>2. LifeOf(row) = LifeOf(rows[k])
    BY <1>0, RowTypes DEF Row, LifeOf
  <2> HIDE DEF row
  <2>3. lives' = [lives EXCEPT ![k] = lives[k]]
    BY <1>0, <2>1, <2>2, LifeMove, LivesAre
  <2>4. QED
    BY <2>3, LivesAre
<1>3. ASSUME NEW k \in DOMAIN rows, NEW row \in Row, RowMove(k, row) PROVE Life!Next \/ UNCHANGED lives
  <2>1. /\ lives' = [lives EXCEPT ![k] = LifeOf(row)] /\ k \in DOMAIN lives
        /\ lives[k] = LifeOf(rows[k]) /\ row.hdl \in Agent \cup {NoAgent}
    BY <1>0, <1>3, LifeMove, LivesAre DEF RowMove, Row, Uid
  <2>2. CASE rows[k].st = "pending" /\ row.st = "pending"
    <3>1. lives' = [lives EXCEPT ![k] = lives[k]]
      BY <2>1, <2>2 DEF LifeOf
    <3>2. QED
      BY <3>1, LivesAre
  <2>3. CASE rows[k].st = "pending" /\ row.st = "handling"
    <3>1. Life!TakeOver(k)
      BY <2>1, <2>3 DEF Life!TakeOver, Life!Waiting, Life!HandledBy, LifeOf
    <3>2. QED
      BY <2>1, <3>1 DEF Life!Next
  <2>4. CASE rows[k].st = "handling" /\ row.st = "handling" /\ row.hdl \in Agent
    <3>1. LifeOf(row) \in {Life!HandledBy(a) : a \in Agent}
      BY <2>4 DEF LifeOf, Life!HandledBy
    <3>2. lives[k].st = "handling"
      BY <2>1, <2>4 DEF LifeOf
    <3>3. Life!HandOn(k)
      BY <2>1, <3>1, <3>2 DEF Life!HandOn
    <3>4. QED
      BY <2>1, <3>3 DEF Life!Next
  <2>5. CASE rows[k].st = "pending" /\ row.st = "canceled"
    <3>1. Life!Cancel(k)
      BY <2>1, <2>5 DEF Life!Cancel, Life!Waiting, Life!Canceled, LifeOf
    <3>2. QED
      BY <2>1, <3>1 DEF Life!Next
  <2>6. CASE rows[k].st # "closed" /\ row.st = "closed"
    <3>1. Life!Close(k)
      BY <2>1, <2>6 DEF Life!Close, Life!Closed, LifeOf
    <3>2. QED
      BY <2>1, <3>1 DEF Life!Next
  <2>7. QED
    BY <1>3, <2>2, <2>3, <2>4, <2>5, <2>6 DEF RowMove
<1>4. ASSUME NEW r \in Req, CommitTicket(r),
             \/ req[r].todo[1].row.st = "pending"
             \/ req[r].todo[1].row.st = "handling" /\ req[r].todo[1].row.hdl \in Agent
      PROVE  Life!Next
  <2> DEFINE row == req[r].todo[1].row
             n == Len(rows)
  <2>1. /\ n \in Nat /\ DOMAIN rows = 1..n /\ DOMAIN rows' = 1..(n + 1)
        /\ rows'[n + 1] = row /\ \A j \in DOMAIN rows : rows'[j] = rows[j]
    BY <1>4, CommitTicketIs
  <2>2. LifeOf(row) \in {Life!Waiting} \cup {Life!HandledBy(a) : a \in Agent}
    BY <1>4 DEF LifeOf, Life!Waiting, Life!HandledBy
  <2> HIDE DEF row, n
  <2>3. lives' = [j \in 1..(n + 1) |-> LifeOf(rows'[j])] /\ lives = [j \in 1..n |-> LifeOf(rows[j])]
    BY <2>1 DEF lives, LifeOf
  <2>4. lives' = Append(lives, LifeOf(row))
    <3>1. lives \in Seq({LifeOf(rows[j]) : j \in 1..n}) /\ Len(lives) = n
      BY <2>1, <2>3
    <3> PICK x : x = LifeOf(row)
      OBVIOUS
    <3> PICK S : S = {LifeOf(rows[j]) : j \in 1..n} \cup {x}
      OBVIOUS
    <3>a. lives \in Seq(S) /\ x \in S
      BY <3>1
    <3>b. Append(lives, x) = [j \in 1..(n + 1) |-> IF j <= n THEN lives[j] ELSE x]
      <4> PICK y : y = Append(lives, x)
        OBVIOUS
      <4>1. /\ y \in Seq(S) /\ Len(y) = n + 1 /\ y[n + 1] = x
            /\ \A j \in 1..n : y[j] = lives[j]
        BY <3>1, <3>a, AppendProperties
      <4>2. y = [j \in 1..(n + 1) |-> y[j]]
        <5>1. y = [j \in 1..Len(y) |-> y[j]]
          BY <4>1, LenProperties
        <5>2. QED
          BY <4>1, <5>1
      <4>3. ASSUME NEW j \in 1..(n + 1) PROVE y[j] = IF j <= n THEN lives[j] ELSE x
        BY <2>1, <4>1
      <4>4. QED
        BY <4>2, <4>3
    <3>2. Append(lives, LifeOf(row)) = [j \in 1..(n + 1) |-> IF j <= n THEN lives[j] ELSE LifeOf(row)]
      BY <3>b
    <3>3. \A j \in 1..(n + 1) : LifeOf(rows'[j]) = IF j <= n THEN lives[j] ELSE LifeOf(row)
      <4>1. ASSUME NEW j \in 1..(n + 1) PROVE LifeOf(rows'[j]) = IF j <= n THEN lives[j] ELSE LifeOf(row)
        <5>1. CASE j <= n
          BY <2>1, <2>3, <5>1
        <5>2. CASE ~(j <= n)
          <6>1. j = n + 1
            BY <2>1, <5>2
          <6>2. QED
            BY <2>1, <5>2, <6>1
        <5>3. QED
          BY <5>1, <5>2
      <4>2. QED
        BY <4>1
    <3>4. QED
      BY <2>3, <3>2, <3>3
  <2>5. Life!Create
    BY <2>2, <2>4 DEF Life!Create
  <2>6. QED
    BY <2>5 DEF Life!Next
<1>5. QED
  BY <1>0, <1>1, <1>2, <1>3, <1>4 DEF Moves

\* The statements of handlers that do not overlap carry out the lifecycle that
\* docs/05 gives a ticket, step by step.
THEOREM TicketsFollowLifecycle == Spec => FollowsLifecycle
<1> DEFINE Step == ~clash' => [Life!Next]_lives
<1>1. Init => Life!Init
  <2> SUFFICES ASSUME Init PROVE lives = <<>>
    BY DEF Life!Init
  <2>1. DOMAIN rows = {} /\ DOMAIN lives = {}
    BY LivesAre DEF Init
  <2>2. lives = [k \in {} |-> LifeOf(rows[k])]
    BY <2>1, LivesAre
  <2>3. QED
    BY <2>2
<1>2. ASSUME Planned, Exact, Next PROVE Step
  BY <1>2, LifeStep
<1>3. Planned /\ Exact /\ [Next]_vars => [Step]_vars
  BY <1>2
<1>4. QED
  BY <1>1, <1>3, PlansHold, ExactHolds, PTL DEF Spec, FollowsLifecycle

=============================================================================
