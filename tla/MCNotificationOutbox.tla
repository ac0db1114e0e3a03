------------------------ MODULE MCNotificationOutbox ------------------------
(* The instance of NotificationOutbox for TLC, given in its configuration. *)
EXTENDS NotificationOutbox
=============================================================================
