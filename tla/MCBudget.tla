------------------------------ MODULE MCBudget ------------------------------
(***************************************************************************)
(* Budget on a small instance.  Three callers make every pair race while a *)
(* third is anywhere; the caps are a few reservations wide so that the     *)
(* boundary is met by one, two and three concurrent calls.                 *)
(***************************************************************************)
EXTENDS Budget, TLC

Symmetry == Permutations(Callers)
=============================================================================
