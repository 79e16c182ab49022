-------------------------- MODULE TicketLifecycle --------------------------
(***************************************************************************)
(* What the ticket service promises of each ticket (docs/05, 7.2 and the   *)
(* statuses of model.go): it waits or is being handled by one agent; it is *)
(* taken over once, handed on, and ends by being canceled or closed.       *)
(* Nothing brings an ended ticket back.                                    *)
(***************************************************************************)
EXTENDS Naturals, Sequences

CONSTANTS Agent, NoAgent

VARIABLE life   \* life[k]: status of ticket k and who handles it

Waiting == [st |-> "pending", hdl |-> NoAgent]
HandledBy(a) == [st |-> "handling", hdl |-> a]
Canceled == [st |-> "canceled", hdl |-> NoAgent]
Closed == [st |-> "closed", hdl |-> NoAgent]

Init == life = <<>>

\* A new ticket waits, or is assigned at once.
Create ==
    \E s \in {Waiting} \cup {HandledBy(a) : a \in Agent} : life' = Append(life, s)

\* Somebody takes a waiting ticket; NoAgent is the tenant's own key.
TakeOver(k) ==
    /\ life[k] = Waiting
    /\ \E a \in Agent \cup {NoAgent} : life' = [life EXCEPT ![k] = HandledBy(a)]

HandOn(k) ==
    /\ life[k].st = "handling"
    /\ \E a \in Agent : life' = [life EXCEPT ![k] = HandledBy(a)]

Cancel(k) == life[k] = Waiting /\ life' = [life EXCEPT ![k] = Canceled]

Close(k) == life[k] # Closed /\ life' = [life EXCEPT ![k] = Closed]

Next ==
    \/ Create
    \/ \E k \in DOMAIN life : TakeOver(k) \/ HandOn(k) \/ Cancel(k) \/ Close(k)

Spec == Init /\ [][Next]_life

=============================================================================
