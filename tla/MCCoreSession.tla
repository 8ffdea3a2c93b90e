--------------------------- MODULE MCCoreSession ---------------------------
(***************************************************************************)
(* Model checking CoreSession: one subscription, a channel of two slots,   *)
(* a handful of updates and two tasks that may resync at once.             *)
(***************************************************************************)
EXTENDS CoreSession

CONSTANTS router, r1, r2, update   \* model values

=============================================================================
