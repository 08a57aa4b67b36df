----------------------------- MODULE MCLifecycle -----------------------------
(* Instances of Lifecycle: the user opens the dialog twice. *)
EXTENDS Lifecycle

CONSTANTS d1, d2

TwoFlows == {d1, d2}
=============================================================================
