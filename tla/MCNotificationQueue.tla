------------------------ MODULE MCNotificationQueue ------------------------
(* A small instance of NotificationQueue: one mail enqueued inside its     *)
(* transaction and one after it, which compete for the slots.              *)
EXTENDS NotificationQueue

CONSTANTS approval, newCustody
=============================================================================
