----------------------------- MODULE MCKernelTimer -----------------------------
(* KernelTimer for TLC: a period of no, of one and of several jiffies.      *)
EXTENDS KernelTimer
================================================================================
