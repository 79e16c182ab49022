---------------------------- MODULE MCChatThread ----------------------------
(***************************************************************************)
(* A request over HTTP, the socket's read loop beside the goroutine that   *)
(* still streams, an administrator, two tickets and two messages.          *)
(***************************************************************************)
EXTENDS ChatThread

=============================================================================
