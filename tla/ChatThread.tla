----------------------------- MODULE ChatThread -----------------------------
(***************************************************************************)
(* What happens to the chat messages of one thread: ProcessUserMessage in  *)
(* go_service/internal/pkg/chat/chat.go for messages over HTTP, the "chat" *)
(* branch of HandleUserWS in handler/ws.go for messages over the socket,   *)
(* the calls to the agent service in pkg/agent/client.go, and the requests *)
(* of administrators that resume the same conversation                     *)
(* (service/ticket_service.go).  Threads share nothing here but a daily    *)
(* quota, whose outcome is left open.                                      *)
(*                                                                         *)
(* The agent service runs every call it gets, whether or not the gateway   *)
(* still waits for the answer.  A call somebody waits for is in `call`; of *)
(* the others, `orphans` tells which kinds there are.                      *)
(***************************************************************************)
EXTENDS Naturals, Sequences, FiniteSets

CONSTANTS
    Handler,     \* goroutines that process a user's message
    Stream,      \* those of the socket; the others serve HTTP requests
    Desk,        \* requests of administrators that resume the agent
    MaxMsgs,     \* bound: messages the user sends
    MaxTickets   \* bound: tickets of the thread

ASSUME ChatAssumption ==
    /\ Stream \subseteq Handler
    /\ Handler \cap Desk = {}
    /\ IsFiniteSet(Handler)
    /\ MaxMsgs \in Nat /\ MaxTickets \in Nat

VARIABLES
    locked,    \* the thread's mutex in Hub.threadLocks
    pc,        \* pc[p]: where p stands
    call,      \* call[p]: the call p waits for
    retried,   \* retried[p]: p's current call is its second attempt
    told,      \* told[h]: HasPendingTicket as h read it
    seen,      \* seen[p]: the ticket p has in hand, or 0
    orphans,   \* the calls still running that nobody waits for
    tks,       \* tks[k]: status of the thread's ticket k
    msgs       \* msgs[i]: the ticket the user's message i belongs to, or 0

callVars == <<call, retried, orphans>>
vars == <<locked, pc, callVars, told, seen, tks, msgs>>

Proc == Handler \cup Desk
Waiting == {"chatting", "resuming"}
\* Between TryLockThread and UnlockThread.
Section == Waiting \cup {"locked", "chat", "ensure", "assign", "resume", "unlock"}

\* A chat call that knows of no waiting ticket, one that does, a resume.
Kind == {"asks", "knows", "resume"}
TicketId == 0..MaxTickets

Types ==
    /\ locked \in BOOLEAN
    /\ pc \in [Proc -> Section \cup {"idle", "saved", "human", "ai", "write"}]
    /\ call \in [Proc -> {"none", "running", "reply", "interrupt", "error"}]
    /\ retried \in [Proc -> BOOLEAN]
    /\ told \in [Handler -> BOOLEAN]
    /\ seen \in [Proc -> TicketId]
    /\ orphans \subseteq Kind
    /\ tks \in Seq({"pending", "handling", "ended"}) /\ Len(tks) <= MaxTickets
    /\ msgs \in Seq(TicketId) /\ Len(msgs) <= MaxMsgs

\* A call is in flight exactly while its caller waits, and a ticket in hand is
\* one of the thread's.
Linked ==
    /\ \A p \in Proc : call[p] # "none" <=> pc[p] \in Waiting
    /\ \A p \in Proc : pc[p] \in {"human", "assign", "write"} => seen[p] # 0
    /\ \A p \in Proc : seen[p] <= Len(tks)
    /\ \A d \in Desk : pc[d] \in {"idle", "resume", "resuming", "write"}

TypeOK == Types /\ Linked

Init ==
    /\ locked = FALSE
    /\ pc = [p \in Proc |-> "idle"]
    /\ call = [p \in Proc |-> "none"]
    /\ retried = [p \in Proc |-> FALSE]
    /\ told = [h \in Handler |-> FALSE]
    /\ seen = [p \in Proc |-> 0]
    /\ orphans = {}
    /\ tks = <<>>
    /\ msgs = <<>>

Having(s) == {k \in DOMAIN tks : tks[k] = s}
OpenTickets == Having("pending") \cup Having("handling")

Goes(p, there) == pc' = [pc EXCEPT ![p] = there]

-----------------------------------------------------------------------------
(* Calls to the agent service.                                             *)

Post(p) ==
    /\ pc[p] \in {"chat", "resume"}
    /\ Goes(p, IF pc[p] = "chat" THEN "chatting" ELSE "resuming")
    /\ call' = [call EXCEPT ![p] = "running"]
    /\ UNCHANGED <<locked, retried, orphans, told, seen, tks, msgs>>

\* Where p goes once its call is over.  A desk that takes a ticket over writes
\* it then, whatever came of the call; one that cancels has done so before.
After(p) == IF p \in Handler THEN "unlock" ELSE IF seen[p] # 0 THEN "write" ELSE "idle"

\* CallAgentChat and CallAgentResume try twice, CallAgentChatStream once.
MayRetry(p) == ~retried[p] /\ ~(p \in Stream /\ pc[p] \in {"chat", "chatting"})

Failed(p) ==
    IF MayRetry(p)
    THEN /\ Goes(p, IF pc[p] \in {"chat", "chatting"} THEN "chat" ELSE "resume")
         /\ retried' = [retried EXCEPT ![p] = TRUE]
    ELSE /\ Goes(p, After(p))
         /\ retried' = [retried EXCEPT ![p] = FALSE]

\* The agent service cannot be reached.
PostFails(p) ==
    /\ pc[p] \in {"chat", "resume"}
    /\ Failed(p)
    /\ UNCHANGED <<locked, call, orphans, told, seen, tks, msgs>>

KindOf(p) ==
    IF pc[p] = "resuming" THEN "resume" ELSE IF told[p] THEN "knows" ELSE "asks"

\* Mutant of Lost: http.Client without a timeout.
LostNoTimeout(p) ==
    /\ pc[p] \in Waiting
    /\ call[p] # "running"
    /\ call' = [call EXCEPT ![p] = "none"]
    /\ Failed(p)
    /\ UNCHANGED <<locked, orphans, told, seen, tks, msgs>>

\* Mutant of Lost: the answer to the first attempt is still listened for.
LostHeard(p) ==
    /\ pc[p] \in Waiting
    /\ Failed(p)
    /\ UNCHANGED <<locked, call, orphans, told, seen, tks, msgs>>

\* The connection breaks, the 60 s of httpClient are over, or the socket's
\* handler returned and canceled the stream.  The call may still be running.
Lost(p) ==
    /\ pc[p] \in Waiting
    /\ call' = [call EXCEPT ![p] = "none"]
    /\ orphans' = IF call[p] = "running" THEN orphans \cup {KindOf(p)} ELSE orphans
    /\ Failed(p)
    /\ UNCHANGED <<locked, told, seen, tks, msgs>>

\* An answer arrives; one that breaks off ends the call as well.  What a resume
\* answers is not looked at.
Answered(p) ==
    /\ pc[p] \in Waiting
    /\ call[p] \in {"reply", "interrupt", "error"}
    /\ \/ Goes(p, After(p))
       \/ call[p] = "interrupt" /\ pc[p] = "chatting" /\ Goes(p, "ensure")
    /\ call' = [call EXCEPT ![p] = "none"]
    /\ retried' = [retried EXCEPT ![p] = FALSE]
    /\ UNCHANGED <<locked, orphans, told, seen, tks, msgs>>

Calls(p) == Post(p) \/ PostFails(p) \/ Lost(p) \/ Answered(p)

-----------------------------------------------------------------------------
(* The agent service.                                                      *)

\* A call ends: with a reply, or with an error (a quota, the model, a
\* broken database connection).
Ends(p) ==
    /\ call[p] = "running"
    /\ \E o \in {"reply", "error"} : call' = [call EXCEPT ![p] = o]
    /\ UNCHANGED <<locked, pc, retried, orphans, told, seen, tks, msgs>>

\* transfer_to_human interrupts the graph unless it was told that a ticket
\* waits.  A resume is told nothing.
Interrupts(p) ==
    /\ call[p] = "running"
    /\ KindOf(p) # "knows"
    /\ call' = [call EXCEPT ![p] = "interrupt"]
    /\ UNCHANGED <<locked, pc, retried, orphans, told, seen, tks, msgs>>

\* A call nobody waits for ends, one way or the other.
OrphanEnds(kind) ==
    /\ kind \in orphans
    /\ orphans' = orphans \ {kind}
    /\ UNCHANGED <<locked, pc, call, retried, told, seen, tks, msgs>>

-----------------------------------------------------------------------------
(* A user's message.                                                       *)

\* It is saved before anything else.
Receive(h) ==
    /\ pc[h] = "idle"
    /\ Len(msgs) < MaxMsgs
    /\ msgs' = Append(msgs, 0)
    /\ Goes(h, "saved")
    /\ UNCHANGED <<locked, callVars, told, seen, tks>>

\* GetHandlingTicket: the newest ticket that is being handled.
ReadHandling(h) ==
    /\ pc[h] = "saved"
    /\ \/ /\ Having("handling") = {}
          /\ Goes(h, "ai")
          /\ UNCHANGED seen
       \/ \E k \in Having("handling") :
             /\ \A j \in Having("handling") : j <= k
             /\ seen' = [seen EXCEPT ![h] = k]
             /\ Goes(h, "human")
    /\ UNCHANGED <<locked, callVars, told, tks, msgs>>

Leaves(h) ==
    /\ Goes(h, "idle")
    /\ seen' = [seen EXCEPT ![h] = 0]
    /\ told' = [told EXCEPT ![h] = FALSE]

Unassigned == {i \in DOMAIN msgs : msgs[i] = 0}

\* Mutant of AssignLastUserMessage: without LIMIT 1.
AssignAllUserMessages(k) ==
    msgs' = [i \in DOMAIN msgs |-> IF i \in Unassigned THEN k ELSE msgs[i]]

\* The newest message of the user that belongs to no ticket, whichever it is.
AssignLastUserMessage(k) ==
    msgs' = [i \in DOMAIN msgs |->
               IF i \in Unassigned /\ \A j \in Unassigned : j <= i THEN k ELSE msgs[i]]

\* A ticket is being handled: the message goes to the human.
ToHuman(h) ==
    /\ pc[h] = "human"
    /\ AssignLastUserMessage(seen[h])
    /\ Leaves(h)
    /\ UNCHANGED <<locked, callVars, tks>>

\* No agent call: a picture or a video over the socket, or, over HTTP, the
\* daily quota, which is looked at before the lock there.
Declines(h) ==
    /\ pc[h] = "ai"
    /\ Leaves(h)
    /\ UNCHANGED <<locked, callVars, tks, msgs>>

\* Mutant of TryLockThread: the mutex is a new one each time.
TryLockThreadAnew(h) ==
    /\ pc[h] = "ai"
    /\ locked' = TRUE
    /\ Goes(h, "locked")
    /\ UNCHANGED <<callVars, told, seen, tks, msgs>>

TryLockThread(h) ==
    /\ pc[h] = "ai"
    /\ ~locked
    /\ locked' = TRUE
    /\ Goes(h, "locked")
    /\ UNCHANGED <<callVars, told, seen, tks, msgs>>

\* "The previous message is still being processed."
ThreadBusy(h) ==
    /\ pc[h] = "ai"
    /\ locked
    /\ Leaves(h)
    /\ UNCHANGED <<locked, callVars, tks, msgs>>

\* Mutant of OverDailyQuota: an early return without UnlockThread.
OverDailyQuotaLocked(h) ==
    /\ pc[h] = "locked"
    /\ h \in Stream
    /\ Leaves(h)
    /\ UNCHANGED <<locked, callVars, tks, msgs>>

\* Over the socket the daily quota is looked at under the lock.
OverDailyQuota(h) ==
    /\ pc[h] = "locked"
    /\ h \in Stream
    /\ locked' = FALSE
    /\ Leaves(h)
    /\ UNCHANGED <<callVars, tks, msgs>>

\* Mutant of ReadPending: HasPendingTicket looks for handled tickets.
ReadPendingHandled(h) ==
    /\ pc[h] = "locked"
    /\ told' = [told EXCEPT ![h] = Having("handling") # {}]
    /\ Goes(h, "chat")
    /\ UNCHANGED <<locked, callVars, seen, tks, msgs>>

\* HasPendingTicket
ReadPending(h) ==
    /\ pc[h] = "locked"
    /\ told' = [told EXCEPT ![h] = Having("pending") # {}]
    /\ Goes(h, "chat")
    /\ UNCHANGED <<locked, callVars, seen, tks, msgs>>

\* The agent asked for a human.  EnsureTicket finds an open ticket, and only
\* the socket's handler resumes the agent then; or it makes one, waiting or
\* assigned at once.
EnsureTicket(h) ==
    /\ pc[h] = "ensure"
    /\ \/ /\ OpenTickets # {}
          /\ Goes(h, IF h \in Stream THEN "resume" ELSE "unlock")
          /\ UNCHANGED <<seen, tks>>
       \/ /\ OpenTickets = {}
          /\ Len(tks) < MaxTickets
          /\ \E s \in {"pending", "handling"} : tks' = Append(tks, s)
          /\ seen' = [seen EXCEPT ![h] = Len(tks')]
          /\ Goes(h, "assign")
    /\ UNCHANGED <<locked, callVars, told, msgs>>

EnsureFails(h) ==
    /\ pc[h] = "ensure"
    /\ Goes(h, "unlock")
    /\ UNCHANGED <<locked, callVars, told, seen, tks, msgs>>

\* The request for a human is to belong to the new ticket.
AssignRequest(h) ==
    /\ pc[h] = "assign"
    /\ AssignLastUserMessage(seen[h])
    /\ Goes(h, "resume")
    /\ UNCHANGED <<locked, callVars, told, seen, tks>>

UnlockThread(h) ==
    /\ pc[h] = "unlock"
    /\ locked' = FALSE
    /\ Leaves(h)
    /\ UNCHANGED <<callVars, tks, msgs>>

Handles(h) ==
    \/ ReadHandling(h) \/ ToHuman(h) \/ Declines(h)
    \/ TryLockThread(h) \/ ThreadBusy(h) \/ OverDailyQuota(h) \/ ReadPending(h)
    \/ EnsureTicket(h) \/ EnsureFails(h) \/ AssignRequest(h) \/ UnlockThread(h)

-----------------------------------------------------------------------------
(* Administrators.  None of them takes the thread's lock.                  *)

\* TakeoverTicket resumes the agent first if the ticket waits.  An approval
\* also reaches it for an ended ticket.
BeginTakeover(d, k) ==
    /\ pc[d] = "idle"
    /\ tks[k] # "handling"
    /\ seen' = [seen EXCEPT ![d] = k]
    /\ Goes(d, IF tks[k] = "pending" THEN "resume" ELSE "write")
    /\ UNCHANGED <<locked, callVars, told, tks, msgs>>

\* ... and then written, whatever has become of it.
EndTakeover(d) ==
    /\ pc[d] = "write"
    /\ tks' = [tks EXCEPT ![seen[d]] = "handling"]
    /\ seen' = [seen EXCEPT ![d] = 0]
    /\ Goes(d, "idle")
    /\ UNCHANGED <<locked, callVars, told, msgs>>

\* ApproveTicket, not confirmed: the ticket is canceled, then the agent told.
CancelTicket(d, k) ==
    /\ pc[d] = "idle"
    /\ tks' = [tks EXCEPT ![k] = "ended"]
    /\ Goes(d, "resume")
    /\ UNCHANGED <<locked, callVars, told, seen, msgs>>

TransferTicket(k) ==
    /\ tks[k] \in {"pending", "handling"}
    /\ tks' = [tks EXCEPT ![k] = "handling"]
    /\ UNCHANGED <<locked, pc, callVars, told, seen, msgs>>

CloseTicket(k) ==
    /\ tks[k] # "ended"
    /\ tks' = [tks EXCEPT ![k] = "ended"]
    /\ UNCHANGED <<locked, pc, callVars, told, seen, msgs>>

-----------------------------------------------------------------------------
Next ==
    \/ \E h \in Handler : Receive(h) \/ Handles(h)
    \/ \E p \in Proc : Calls(p) \/ Ends(p) \/ Interrupts(p)
    \/ \E kind \in Kind : OrphanEnds(kind)
    \/ \E d \in Desk, k \in DOMAIN tks : BeginTakeover(d, k) \/ CancelTicket(d, k)
    \/ \E d \in Desk : EndTakeover(d)
    \/ \E k \in DOMAIN tks : TransferTicket(k) \/ CloseTicket(k)

Spec == Init /\ [][Next]_vars

\* Goroutines run, and a call that is not answered times out.  Nothing is
\* assumed of the agent service, of users or of administrators.
Fairness ==
    /\ \A h \in Handler : WF_vars(Handles(h) \/ Calls(h))
    /\ \A d \in Desk : WF_vars(EndTakeover(d) \/ Calls(d))

FairSpec == Spec /\ Fairness

-----------------------------------------------------------------------------
(* Properties.                                                             *)

\* A Go mutex has no owner and unlocking a free one ends the process.  The
\* lock is taken in one goroutine and given up in another or on an early
\* return (ws.go:160-186): it is held exactly while one handler is between
\* the two, and never two are.
LockExact ==
    /\ locked <=> \E h \in Handler : pc[h] \in Section
    /\ \A g, h \in Handler : pc[g] \in Section /\ pc[h] \in Section => g = h

\* "A ticket waits: the agent answers normally and does not ask for a human
\* again" (chat.go:56, client.go:17).  The flag is read before the call and
\* used long after; it still holds, because tickets are made under the lock,
\* for every chat call its handler waits for.
NoSecondRequest ==
    [][\A h \in Handler : Interrupts(h) /\ pc[h] = "chatting" => Having("pending") = {}]_vars

\* Two handlers each mark the newest unassigned message, not necessarily
\* their own; still each finds one to mark, as every handler has saved one
\* (AssignLastUserMessage, store.go:68).
EachFindsAMessage ==
    Cardinality({h \in Handler : pc[h] \in {"human", "assign"}}) <= Cardinality(Unassigned)

\* Every message and every request is finished with, and so the lock given
\* up, however the agent service behaves (ws.go:183, client.go:36).
Finishes == \A p \in Proc : pc[p] # "idle" ~> pc[p] = "idle"

=============================================================================
