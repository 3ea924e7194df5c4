-------------------------- MODULE MCManualIngest --------------------------
(* ManualIngest for TLC: a mail of two parts, and a file in the folder and an *)
(* upload with the same content as one of them.  No symmetry: the run checks  *)
(* liveness.                                                                  *)
EXTENDS ManualIngest, TLC

CONSTANTS c1, c2, up1, sheet, mail

MCHolds == (up1 :> {c1}) @@ (sheet :> {c1}) @@ (mail :> {c1, c2})
=============================================================================
