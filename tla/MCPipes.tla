------------------------------ MODULE MCPipes ------------------------------
(* Pipes for TLC.  Two commands and two strings of three bytes each way; a
   pipe holds just what one process sends, or less.  *)
EXTENDS Pipes
=============================================================================
