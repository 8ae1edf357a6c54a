------------------------- MODULE MCNotificationHub -------------------------
(***************************************************************************)
(* A small hub for TLC.                                                    *)
(***************************************************************************)
EXTENDS NotificationHub
=============================================================================
