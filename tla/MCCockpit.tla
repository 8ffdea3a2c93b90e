----------------------------- MODULE MCCockpit -----------------------------
(***************************************************************************)
(* Model checking Cockpit with two chats.                                  *)
(***************************************************************************)
EXTENDS Cockpit

CONSTANTS a, b
TwoChats == {a, b}

=============================================================================
