----------------------------- MODULE MCSockets -----------------------------
(* Sockets for TLC, with few messages of each kind. *)
EXTENDS Sockets
=============================================================================
