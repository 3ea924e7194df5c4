----------------------------- MODULE MCGateway -----------------------------
(***************************************************************************)
(* Gateway on a small instance: two free models so that a rotation has a   *)
(* middle, one paid model, and a free cap of two that two callers meet     *)
(* together; the callers are alike.                                        *)
(***************************************************************************)
EXTENDS Gateway, TLC
=============================================================================
