--------------------------- MODULE MCSignalThreads ---------------------------
(* SignalThreads for TLC: a file in which one letter reaches the limit, one
   stays below it and one does not occur.                                   *)
EXTENDS SignalThreads

Text == <<"a", "b", "-", "a">>
Alphabet == {"a", "b", "c"}
==============================================================================
