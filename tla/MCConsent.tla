----------------------------- MODULE MCConsent -----------------------------
(***************************************************************************)
(* One client that grants and revokes, one request at a time, one of which *)
(* fails.                                                                  *)
(***************************************************************************)
EXTENDS Consent
=============================================================================
