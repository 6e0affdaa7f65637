----------------------- MODULE MCNotificationDelivery -----------------------
(* Two tasks about one application, its submission and a change, for TLC. *)
EXTENDS NotificationDelivery

CONSTANTS app1

MCAppOf == [t \in Tasks |-> app1]
=============================================================================
