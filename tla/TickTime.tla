------------------------------- MODULE TickTime -------------------------------
(***************************************************************************)
(* The tick counter of the kernel and the arithmetic timers.c does on it.  *)
(*                                                                         *)
(* A TickType_t is a number modulo TickMod (2^32 in the build).  The model *)
(* writes an instant as a record: `tick' is the number the code sees,      *)
(* `epoch' counts the wraps and is a ghost: no operator that models code   *)
(* reads it, only the properties and the assumption on the environment do. *)
(* A sum carries its overflow into the epoch instead of dropping it, so    *)
(* the `tick' field of Plus is the sum modulo TickMod.                     *)
(***************************************************************************)
EXTENDS Naturals

CONSTANT TickMod   \* Number of values of a TickType_t.

ASSUME TickModAssumption == TickMod \in Nat /\ TickMod > 1

Ticks   == 0 .. (TickMod - 1)
Instant == [epoch : Nat, tick : Ticks]
Zero    == [epoch |-> 0, tick |-> 0]

\* Adding a duration p < TickMod to an instant.
Plus(a, p) ==
    IF a.tick + p < TickMod
    THEN [epoch |-> a.epoch,     tick |-> a.tick + p]
    ELSE [epoch |-> a.epoch + 1, tick |-> (a.tick + p) - TickMod]

\* The unsigned difference x - y of two tick values.
TickSub(x, y) == IF y <= x THEN x - y ELSE (x + TickMod) - y

\* The true order of instants, which the code can only guess from ticks.
Lt(a, b)  == a.epoch < b.epoch \/ (a.epoch = b.epoch /\ a.tick < b.tick)
Leq(a, b) == a.epoch < b.epoch \/ (a.epoch = b.epoch /\ a.tick <= b.tick)

\* b is at or after a, and less than one full turn of the counter after it.
WithinWrap(a, b) ==
    \/ b.epoch = a.epoch /\ a.tick <= b.tick
    \/ b.epoch = a.epoch + 1 /\ b.tick < a.tick

\* Mutant: a start that waited across a wrap is not recognised as expired.
VerdictWithoutWrapTest(next, timeNow, cmdTime, period) ==
    IF next <= timeNow
    THEN IF TickSub(timeNow, cmdTime) >= period THEN "now" ELSE "overflow"
    ELSE "current"

(***************************************************************************)
(* The decision of prvInsertTimerInActiveList, on tick values only: with   *)
(* which list does a timer go that is due at tick `next', or has it        *)
(* expired before it could be listed ("now")?                              *)
(***************************************************************************)
InsertVerdict(next, timeNow, cmdTime, period) ==
    IF next <= timeNow
    THEN IF TickSub(timeNow, cmdTime) >= period THEN "now" ELSE "overflow"
    ELSE IF timeNow < cmdTime /\ next >= cmdTime THEN "now" ELSE "current"
===============================================================================
