---- MODULE MCNotificationMonitor ----
(* A small instance of NotificationMonitor for TLC. *)
EXTENDS NotificationMonitor
CONSTANTS mac, ip, lte
====
