---------------------------- MODULE MCTimerService ----------------------------
(***************************************************************************)
(* Small instances of TimerService for TLC.                                *)
(***************************************************************************)
EXTENDS TimerService, TLC

\* Timers are interchangeable: no action or property names one.
Symmetry == Permutations(Timers)
===============================================================================
