---------------------------- MODULE MCCasJob ----------------------------
(* CasJob for TLC.  No symmetry: the run checks liveness. *)
EXTENDS CasJob
=============================================================================
