--------------------------- MODULE MCServerLifecycle ---------------------------
(* ServerLifecycle for TLC: all its constants are given in the configurations. *)
EXTENDS ServerLifecycle
=============================================================================
