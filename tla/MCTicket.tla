------------------------------ MODULE MCTicket ------------------------------
(***************************************************************************)
(* Two requests in flight over two threads, two tickets and two agents,    *)
(* neither of them an administrator, both in the pool.                     *)
(***************************************************************************)
EXTENDS Ticket, TLC

MCSymmetry == Permutations(Agent) \cup Permutations(Req) \cup Permutations(Thread)

\* The properties of this run say nothing of what follows a clash.
MCNoClash == ~clash

=============================================================================
