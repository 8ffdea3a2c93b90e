---------------------------- MODULE MCLivePanes ----------------------------
(***************************************************************************)
(* Model checking LivePanes: a channel of one or two slots and up to three *)
(* updates of the kinds each run names.                                    *)
(***************************************************************************)
EXTENDS LivePanes

CONSTANTS router, source   \* model values

=============================================================================
