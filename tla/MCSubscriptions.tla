------------------------- MODULE MCSubscriptions -------------------------
(***************************************************************************)
(* Subscriptions on a small instance.  No symmetry: liveness is checked.   *)
(***************************************************************************)
EXTENDS Subscriptions
=============================================================================
