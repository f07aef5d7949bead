---- MODULE MCNetifMonitor ----
(* A small instance of NetifMonitor for TLC: interfaces are interchangeable. *)
EXTENDS NetifMonitor, TLC

Symmetry == Permutations(Interfaces)
====
