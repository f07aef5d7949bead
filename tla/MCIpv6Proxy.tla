---- MODULE MCIpv6Proxy ----
(* A small instance of Ipv6Proxy for TLC: two ports, two pids, and one row of *)
(* each kind.                                                                 *)
EXTENDS Ipv6Proxy
CONSTANTS p1, p2, mgmt

RowKinds ==
  {[port |-> p1, local |-> "other", enabled |-> TRUE],
   [port |-> p2, local |-> "other", enabled |-> TRUE],
   [port |-> p2, local |-> "other", enabled |-> FALSE],
   [port |-> mgmt, local |-> "management", enabled |-> TRUE],
   [port |-> mgmt, local |-> "other", enabled |-> TRUE]}
====
