---------------------------- MODULE MCLifecycle ----------------------------
(***************************************************************************)
(* Model checking Lifecycle: two retention policies.                       *)
(***************************************************************************)
EXTENDS Lifecycle

CONSTANTS forever, month
TwoPolicies == {forever, month}

=============================================================================
