----------------------------- MODULE MCSessions -----------------------------
(***************************************************************************)
(* Sessions on small instances: two or three requests at a time, which are *)
(* alike, and the few token pairs a race between a sign-in, a rotation and *)
(* a sweep takes.                                                          *)
(***************************************************************************)
EXTENDS Sessions, TLC

Alike == Permutations(Requests)
=============================================================================
