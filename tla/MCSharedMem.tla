---------------------------- MODULE MCSharedMem ----------------------------
(* SharedMem for TLC, with one command and two strings in each direction.    *)
EXTENDS SharedMem
=============================================================================
