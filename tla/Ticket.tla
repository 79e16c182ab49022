------------------------------- MODULE Ticket -------------------------------
(***************************************************************************)
(* Tickets and the agents that handle them: the handlers of                *)
(* go_service/internal/handler/admin.go over service/ticket_service.go,    *)
(* with the counters of repository/agent_status.go.                        *)
(*                                                                         *)
(* A request reads a ticket row, decides, and then issues SQL statements   *)
(* one by one, each built from the row it read.  Only EnsureTicket runs in *)
(* a transaction.  A request in flight is therefore the list of statements *)
(* it still has to issue, and each statement is one step.  Between the     *)
(* read and the first statement a takeover also calls the agent service,   *)
(* which may take seconds and changes nothing here.                        *)
(***************************************************************************)
EXTENDS Integers, Sequences, FiniteSets

CONSTANTS
    Thread,      \* thread_id values
    Agent,       \* sub-accounts (users.id > 0) of the tenant
    NoAgent,     \* uid 0: nobody, or the tenant's own app_key
    Admin,       \* agents for which IsAdminUser holds
    InPool,      \* agents that have an agent_status row from the start
    Priority,    \* values of tickets.priority, 0..3 in the code
    MaxConc,     \* agent_status.max_concurrent, 3 in UpsertAgentStatus
    Req,         \* requests that can be in flight at a time
    MaxTickets,  \* bound: rows in `tickets`
    CountCap     \* bound: no request starts once a counter is above it

ASSUME TicketAssumption ==
    /\ NoAgent \notin Agent
    /\ Admin \subseteq Agent /\ InPool \subseteq Agent
    /\ 0 \in Priority /\ Priority \subseteq 0..3
    /\ MaxConc \in Nat \ {0} /\ MaxTickets \in Nat /\ CountCap \in Nat

VARIABLES
    rows,     \* rows[k]: the row of `tickets` with id k
    online,   \* agent_status.status: 0 off line, 1 on line, 2 busy, NoRow
    cnt,      \* agent_status.handling_count
    req,      \* req[r]: what request r still has to do
    clash     \* some request was not alone with its ticket and its agents

vars == <<rows, online, cnt, req, clash>>

NoRow == 3
Status == {"pending", "handling", "canceled", "closed"}
Open == {"pending", "handling"}
Uid == Agent \cup {NoAgent}
Row == [th : Thread, st : Status, hdl : Uid, prio : Priority]

-----------------------------------------------------------------------------
(* Statements.                                                             *)

\* UPDATE tickets SET handler_uid, handler_name
Assign(a) == [s |-> "assign", a |-> a]
\* UPDATE tickets SET handler_uid, handler_name, status = handling
Hand(a) == [s |-> "hand", a |-> a]
\* UPDATE tickets SET every column, from the row in memory (gorm's Save)
Save(row) == [s |-> "save", row |-> row]
\* the SELECT of AdjustHandlingCount, and the UPDATE that follows it
Adjust(a, d) == [s |-> "adjust", a |-> a, d |-> d]
Put(a, n, st) == [s |-> "put", a |-> a, n |-> n, st |-> st]
\* COMMIT of EnsureTicket, with its INSERT and its update of the counter
Create(row, put) == [s |-> "create", row |-> row, put |-> put]

PutStmt == [s : {"put"}, a : Agent, n : Nat, st : 0..2]
Stmt == [s : {"assign", "hand"}, a : Uid] \cup [s : {"save"}, row : Row]
        \cup [s : {"adjust"}, a : Agent, d : {-1, 1}] \cup PutStmt
        \cup [s : {"create"}, row : Row, put : PutStmt \cup {<<>>}]

\* A request in flight: its kind, the id of its ticket (0 for a new one), the
\* thread, the agents whose counters it moves, and the statements to come.
Idle == [op |-> "idle", k |-> 0, agents |-> {}, todo |-> <<>>]

Op == {"idle", "takeover", "close", "transfer", "cancel", "ensure"}

TypeOK ==
    /\ rows \in Seq(Row)
    /\ online \in [Agent -> 0..2 \cup {NoRow}]
    /\ cnt \in [Agent -> Nat]
    /\ req \in [Req -> [op : Op, k : Nat, agents : SUBSET Agent, todo : Seq(Stmt)]]
    /\ clash \in BOOLEAN

Init ==
    /\ rows = <<>>
    /\ online = [a \in Agent |-> IF a \in InPool THEN 0 ELSE NoRow]
    /\ cnt = [a \in Agent |-> 0]
    /\ req = [r \in Req |-> Idle]
    /\ clash = FALSE

-----------------------------------------------------------------------------
(* Starting a request: the read, the guards, the plan.                     *)

\* AdjustHandlingCount does nothing for uid 0.
AdjustFor(u, d) == IF u = NoAgent THEN <<>> ELSE <<Adjust(u, d)>>

Overlaps(k, agents) ==
    \E q \in Req : /\ req[q].op # "idle"
                   /\ \/ k # 0 /\ req[q].k = k
                      \/ req[q].agents \cap agents # {}

\* Request r starts on ticket k; `proper` says the ticket was in a state the
\* operation is meant for.
Begin(r, op, k, uids, todo, proper) ==
    LET agents == uids \ {NoAgent}
    IN /\ req[r] = Idle
       /\ \A a \in Agent : cnt[a] <= CountCap
       /\ req' = [req EXCEPT ![r] =
                    [op |-> op, k |-> k, agents |-> agents, todo |-> todo]]
       /\ clash' = (clash \/ ~proper \/ Overlaps(k, agents))
       /\ UNCHANGED <<rows, online, cnt>>

\* canHandleTicket: the app_key, an administrator, or the handler.
CanHandle(u, row) == u = NoAgent \/ u \in Admin \/ row.hdl = u

\* What TakeoverTicket does to a row that is not being handled yet.
TakeoverPlan(row, u) ==
    <<Assign(u)>> \o AdjustFor(u, 1) \o <<Save([row EXCEPT !.st = "handling", !.hdl = u])>>

\* Mutant of Takeover: ended tickets are not refused.
TakeoverAny(r, k, u) ==
    /\ rows[k].st # "handling"
    /\ Begin(r, "takeover", k, {u}, TakeoverPlan(rows[k], u), TRUE)

\* On a ticket already handled the call changes nothing or is refused, on an
\* ended one it is refused.
Takeover(r, k, u) ==
    /\ rows[k].st = "pending"
    /\ Begin(r, "takeover", k, {u}, TakeoverPlan(rows[k], u), TRUE)

\* Mutant of Close: the row is written anew, without its priority.
CloseAfresh(r, k, u) ==
    LET row == rows[k]
    IN /\ row.st # "closed"
       /\ row.st = "handling" => CanHandle(u, row)
       /\ Begin(r, "close", k, {row.hdl},
                <<Save([row EXCEPT !.st = "closed", !.prio = 0])>> \o AdjustFor(row.hdl, -1),
                TRUE)

\* A canceled ticket can be closed; closing a closed one changes nothing.
Close(r, k, u) ==
    LET row == rows[k]
    IN /\ row.st # "closed"
       /\ row.st = "handling" => CanHandle(u, row)
       /\ Begin(r, "close", k, {row.hdl},
                <<Save([row EXCEPT !.st = "closed"])>> \o AdjustFor(row.hdl, -1), TRUE)

\* Mutant of Transfer: the counter of whoever asks goes down.
TransferFromCaller(r, k, u, to) ==
    LET row == rows[k]
    IN /\ row.st \in Open
       /\ CanHandle(u, row)
       /\ Begin(r, "transfer", k, {row.hdl, u, to},
                <<Hand(to)>> \o AdjustFor(u, -1) \o <<Adjust(to, 1)>>, TRUE)

\* A ticket that waits or is handled goes to an agent of the tenant; a waiting
\* one counts as handled from then on.
Transfer(r, k, u, to) ==
    LET row == rows[k]
    IN /\ row.st \in Open
       /\ CanHandle(u, row)
       /\ Begin(r, "transfer", k, {row.hdl, to},
                <<Hand(to)>> \o AdjustFor(row.hdl, -1) \o <<Adjust(to, 1)>>, TRUE)

\* The old approval endpoint looks at no status.
ApproveCancels(r, k) ==
    LET row == rows[k]
    IN Begin(r, "cancel", k, {}, <<Save([row EXCEPT !.st = "canceled"])>>,
             row.st = "pending")

ApproveConfirms(r, k) ==
    LET row == rows[k]
    IN /\ row.st # "handling"
       /\ Begin(r, "takeover", k, {}, TakeoverPlan(row, NoAgent), row.st = "pending")

-----------------------------------------------------------------------------
(* EnsureTicket.                                                           *)

\* Mutant of Creating: the row is read without FOR UPDATE.
CreatingUnlocked(th) == FALSE

\* A transaction that found no open ticket of th holds the index range of th.
Creating(th) ==
    \E q \in Req : req[q].op = "ensure" /\ req[q].todo[1].row.th = th

OpenOf(th) == {k \in DOMAIN rows : rows[k].th = th /\ rows[k].st \in Open}

\* Mutant of Assignable: one too many.
AssignableOneMore(a) == online[a] = 1 /\ cnt[a] <= MaxConc

\* PickIdleAgent: on line, below the limit, least loaded.  Equals are taken in
\* the order of their row ids; here, in any order.
Assignable(a) == online[a] = 1 /\ cnt[a] < MaxConc
Picks(a) == Assignable(a) /\ \A b \in Agent : Assignable(b) => cnt[a] <= cnt[b]

\* The status AdjustHandlingCount writes with a count n.
StatusFor(st, n) == IF st = 0 THEN 0 ELSE IF n >= MaxConc THEN 2 ELSE 1

\* No open ticket of the thread: insert one and look for an idle agent.  With
\* an open ticket the transaction changes no more than its reason.
EnsureTicket(r, th) ==
    /\ OpenOf(th) = {} /\ ~Creating(th)
    /\ Len(rows) + Cardinality({q \in Req : req[q].op = "ensure"}) < MaxTickets
    /\ LET new(st, a) == [th |-> th, st |-> st, hdl |-> a, prio |-> 0]
       IN \/ /\ \A a \in Agent : ~Assignable(a)
             /\ Begin(r, "ensure", 0, {}, <<Create(new("pending", NoAgent), <<>>)>>, TRUE)
          \/ \E a \in Agent :
                /\ Picks(a)
                /\ Begin(r, "ensure", 0, {a},
                         <<Create(new("handling", a),
                                  Put(a, cnt[a] + 1, StatusFor(online[a], cnt[a] + 1)))>>,
                         TRUE)

\* The transaction is rolled back: a deadlock, or the database is gone.
EnsureFails(r) ==
    /\ req[r].op = "ensure"
    /\ req' = [req EXCEPT ![r] = Idle]
    /\ UNCHANGED <<rows, online, cnt, clash>>

-----------------------------------------------------------------------------
(* Issuing the statements.                                                 *)

\* The next statement of r is of kind s.
Issuing(r, s) == req[r].todo # <<>> /\ Head(req[r].todo).s = s

\* The first statement is done; `more` takes its place.
Done(r, more) ==
    LET todo == more \o Tail(req[r].todo)
    IN req' = [req EXCEPT ![r] = IF todo = <<>> THEN Idle ELSE [@ EXCEPT !.todo = todo]]

\* A statement that would put a row into a range an EnsureTicket holds waits.
MayOpen(k) == rows[k].st \in Open \/ ~Creating(rows[k].th)

AssignRow(r) ==
    /\ Issuing(r, "assign")
    /\ rows' = [rows EXCEPT ![req[r].k].hdl = Head(req[r].todo).a]
    /\ Done(r, <<>>)
    /\ UNCHANGED <<online, cnt, clash>>

HandRow(r) ==
    /\ Issuing(r, "hand")
    /\ MayOpen(req[r].k)
    /\ rows' = [rows EXCEPT ![req[r].k].hdl = Head(req[r].todo).a,
                            ![req[r].k].st = "handling"]
    /\ Done(r, <<>>)
    /\ UNCHANGED <<online, cnt, clash>>

SaveRow(r) ==
    /\ Issuing(r, "save")
    /\ LET row == Head(req[r].todo).row
       IN /\ row.st \in Open => MayOpen(req[r].k)
          /\ rows' = [rows EXCEPT ![req[r].k] = row]
    /\ Done(r, <<>>)
    /\ UNCHANGED <<online, cnt, clash>>

\* Mutant of ReadCount: the count is not kept from going below zero.
ReadCountUnclipped(r) ==
    /\ Issuing(r, "adjust")
    /\ LET a == Head(req[r].todo).a
           n == cnt[a] + Head(req[r].todo).d
       IN Done(r, IF online[a] = NoRow THEN <<>> ELSE <<Put(a, n, StatusFor(online[a], n))>>)
    /\ UNCHANGED <<rows, online, cnt, clash>>

\* An agent without a row is left alone.
ReadCount(r) ==
    /\ Issuing(r, "adjust")
    /\ LET a == Head(req[r].todo).a
           n == cnt[a] + Head(req[r].todo).d
           m == IF n < 0 THEN 0 ELSE n
       IN Done(r, IF online[a] = NoRow THEN <<>> ELSE <<Put(a, m, StatusFor(online[a], m))>>)
    /\ UNCHANGED <<rows, online, cnt, clash>>

\* UPDATE agent_status SET handling_count, status
Write(p) ==
    /\ cnt' = [cnt EXCEPT ![p.a] = p.n]
    /\ online' = [online EXCEPT ![p.a] = p.st]

WriteCount(r) ==
    /\ Issuing(r, "put")
    /\ Write(Head(req[r].todo))
    /\ Done(r, <<>>)
    /\ UNCHANGED <<rows, clash>>

CommitTicket(r) ==
    /\ Issuing(r, "create")
    /\ rows' = Append(rows, Head(req[r].todo).row)
    /\ LET put == Head(req[r].todo).put
       IN IF put = <<>> THEN UNCHANGED <<online, cnt>> ELSE Write(put)
    /\ Done(r, <<>>)
    /\ UNCHANGED clash

-----------------------------------------------------------------------------
(* Single statements.                                                      *)

\* The endpoint's binding of the priority refuses 0.
SetTicketPriority(k, p) ==
    /\ p # 0
    /\ rows' = [rows EXCEPT ![k].prio = p]
    /\ clash' = (clash \/ \E q \in Req : req[q].k = k)
    /\ UNCHANGED <<online, cnt, req>>

\* An agent's admin socket opens or closes; the first time makes the row.
UpsertAgentStatus(a, st) ==
    /\ st \in {0, 1}
    /\ online' = [online EXCEPT ![a] = st]
    /\ UNCHANGED <<rows, cnt, req, clash>>

\* The agent chooses a status.
SetAgentStatus(a, st) ==
    /\ online[a] # NoRow
    /\ online' = [online EXCEPT ![a] = st]
    /\ UNCHANGED <<rows, cnt, req, clash>>

Starts(r) ==
    \/ \E th \in Thread : EnsureTicket(r, th)
    \/ \E k \in DOMAIN rows : ApproveCancels(r, k) \/ ApproveConfirms(r, k)
    \/ \E k \in DOMAIN rows, u \in Uid : Takeover(r, k, u) \/ Close(r, k, u)
    \/ \E k \in DOMAIN rows, u \in Uid, to \in Agent : Transfer(r, k, u, to)

Issues(r) ==
    \/ AssignRow(r) \/ HandRow(r) \/ SaveRow(r) \/ ReadCount(r) \/ WriteCount(r)
    \/ CommitTicket(r) \/ EnsureFails(r)

Next ==
    \/ \E r \in Req : Starts(r) \/ Issues(r)
    \/ \E k \in DOMAIN rows, p \in Priority : SetTicketPriority(k, p)
    \/ \E a \in Agent, st \in 0..2 : UpsertAgentStatus(a, st) \/ SetAgentStatus(a, st)

Spec == Init /\ [][Next]_vars

-----------------------------------------------------------------------------
(* Safety.                                                                 *)

Handles(a) == {k \in DOMAIN rows : rows[k].st = "handling" /\ rows[k].hdl = a}
Busy(a) == \E r \in Req : a \in req[r].agents

\* agent_status.handling_count is the number of tickets an agent handles
\* whenever no request is about to move it, as long as requests on the same
\* ticket or agent do not overlap and approvals are given on waiting tickets;
\* for agents that were in the pool from the start (agent_status.go).
CountExact ==
    ~clash => \A a \in InPool : ~Busy(a) => cnt[a] = Cardinality(Handles(a))

\* Automatic assignment never gives an agent more than max_concurrent tickets
\* (PickIdleAgent), under the same conditions.
AssignedWithinLimit ==
    [][\A r \in Req : CommitTicket(r) /\ ~clash =>
          \A a \in InPool : Cardinality(Handles(a)') > Cardinality(Handles(a))
                              => Cardinality(Handles(a)') <= MaxConc]_vars

\* EnsureTicket never makes a second open ticket of a thread, however requests
\* interleave: only the stale write of a request that read its ticket before
\* the ticket ended does, by bringing it back (ticket_service.go:120).
OpenTwice(th) == Cardinality(OpenOf(th)') > 1 /\ Cardinality(OpenOf(th)') > Cardinality(OpenOf(th))

DuplicateOnlyByStaleWrite ==
    [][\A th \in Thread : OpenTwice(th) =>
          \E k \in DOMAIN rows : rows[k].st \notin Open /\ rows'[k].st = "handling"]_vars

lives == [k \in DOMAIN rows |->
            [st |-> rows[k].st,
             hdl |-> IF rows[k].st = "handling" THEN rows[k].hdl ELSE NoAgent]]

Life == INSTANCE TicketLifecycle WITH life <- lives

\* Requests that do not overlap carry every ticket along its lifecycle.
FollowsLifecycle == Life!Init /\ [][~clash' => [Life!Next]_lives]_vars

\* A priority changes only when somebody sets it, unless a request that read
\* the ticket before writes the whole row back (UpdateTicketStatus).
PriorityKept ==
    [][~clash' => \A k \in DOMAIN rows : rows'[k].prio # rows[k].prio
                     => \E p \in Priority : SetTicketPriority(k, p)]_vars

=============================================================================
