---- MODULE MCDataMonitor ----
(* A small instance of DataMonitor for TLC: two cards. *)
EXTENDS DataMonitor
CONSTANTS ril0, ril1
====
