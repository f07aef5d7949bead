--------------------------- MODULE MCFlowControl ---------------------------
(* FlowControl for TLC. *)
EXTENDS FlowControl
=============================================================================
