---------------------------- MODULE MCTicketRace ----------------------------
(***************************************************************************)
(* Two requests in flight over one thread that can have two tickets, and   *)
(* agents that were never on line; requests overlap freely.                *)
(***************************************************************************)
EXTENDS Ticket, TLC

MCSymmetry == Permutations(Req)

=============================================================================
