--------------------------- MODULE MCGoformAsync ---------------------------
(* GoformAsync for TLC. *)
EXTENDS GoformAsync
=============================================================================
