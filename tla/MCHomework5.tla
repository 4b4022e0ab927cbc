----------------------------- MODULE MCHomework5 -----------------------------
(* Homework5 for TLC.  The register values lie on both sides of the
   threshold, in 12-bit and in 13-bit mode, and one is below zero.          *)
EXTENDS Homework5

HwTimers == {"TempTimer", "LEDTimer"}

\* 27.0 degrees in 12-bit mode, 27.0625 degrees in 13-bit mode and -25 degrees in
\* 12-bit mode.
Samples == {27 * 256, (27 * 16 + 1) * 8 + 1, 65536 - 25 * 256}
==============================================================================
