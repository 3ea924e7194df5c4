-------------------------- MODULE MCNotifications --------------------------
(***************************************************************************)
(* Two messages by Telegram, one of high priority, for a user who grants   *)
(* and revokes.                                                            *)
(***************************************************************************)
EXTENDS Notifications

MCChannel == <<"telegram", "telegram">>
=============================================================================
