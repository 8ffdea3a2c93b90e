--------------------------- MODULE MCOpenHistory ---------------------------
(***************************************************************************)
(* Model checking OpenHistory: a chat of one or two messages, opened       *)
(* once or twice.                                                          *)
(***************************************************************************)
EXTENDS OpenHistory

=============================================================================
