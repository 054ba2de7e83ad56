--------------------------- MODULE MCSocketRegistry ---------------------------
(* A small instance of SocketRegistry for TLC. *)
EXTENDS SocketRegistry, TLC
=============================================================================
