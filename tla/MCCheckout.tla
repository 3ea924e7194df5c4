---------------------------- MODULE MCCheckout ----------------------------
(* Checkout for TLC: requests are interchangeable. *)
EXTENDS Checkout, TLC

Symmetry == Permutations(Requests)
=============================================================================
