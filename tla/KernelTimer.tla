----------------------------- MODULE KernelTimer -----------------------------
(***************************************************************************)
(* HW3/Ques3/timermodule.c: a kernel module with a timer whose callback     *)
(* prints an iteration and rearms the timer, MAX_ITERATIONS times.  The     *)
(* kernel runs the callback in a softirq of one CPU while insmod, rmmod and *)
(* writes of the parameter period run on another, so the callback's steps   *)
(* interleave with theirs.  Each load is a fresh image: its static count is *)
(* 0 and its my_timer is another object.                                    *)
(*                                                                          *)
(* Time is kept as the jiffies left until a timer expires, so it needs no   *)
(* bound: how late a callback runs does not matter to it.                   *)
(***************************************************************************)
EXTENDS Naturals

CONSTANTS
  MAX_ITERATIONS,   \* 10
  Periods,          \* the values of the parameter period, in jiffies
  MaxLoads,         \* bound: loads of the module
  MaxAge            \* bound: jiffies the ghost age counts up to

ASSUME ModuleAssumption ==
  /\ MAX_ITERATIONS \in Nat \ {0} /\ Periods \subseteq Nat /\ Periods # {}
  /\ MaxLoads \in Nat \ {0} /\ MaxAge \in Nat /\ \A p \in Periods : p <= MaxAge

Image == 1 .. MaxLoads
None == 0       \* no callback is running

VARIABLES
  loads,        \* images loaded so far: the last one is number loads
  loaded,       \* whether that image is still loaded
  period,       \* the parameter
  count,        \* the static count of the loaded image
  pending,      \* the images whose my_timer is in the kernel's timer wheel
  left,         \* left[m]: jiffies until the timer of image m expires
  running,      \* the image whose callback runs, or None
  pc,           \* where that callback is
  age,          \* ghost: jiffies since the last iteration, or the load
  armedWith,    \* ghost: the period in force when the timer was last armed
  stray         \* ghost: a callback of an image no longer loaded ran

vars == <<loads, loaded, period, count, pending, left, running, pc, age, armedWith, stray>>

Init ==
  /\ loads = 0 /\ loaded = FALSE
  /\ period \in Periods /\ count = 0
  /\ pending = {} /\ left = [m \in Image |-> 0]
  /\ running = None /\ pc = "idle"
  /\ age = 0 /\ armedWith = 0 /\ stray = FALSE

\* The timer armed for now, the period forgotten.
ArmWithoutPeriod(m) ==
  /\ pending' = pending \cup {m}
  /\ left' = [left EXCEPT ![m] = 0]
  /\ armedWith' = period

\* The timer armed for a period from now: add_timer and mod_timer.
Arm(m) ==
  /\ pending' = pending \cup {m}
  /\ left' = [left EXCEPT ![m] = period]
  /\ armedWith' = period

\* timer_initialize: setup_timer and add_timer.
timer_initialize ==
  /\ ~loaded /\ loads < MaxLoads
  /\ loads' = loads + 1 /\ loaded' = TRUE /\ count' = 0 /\ age' = 0
  /\ Arm(loads + 1)
  /\ UNCHANGED <<period, running, pc, stray>>

\* timer_exit leaves the timer as it is; the image's memory is gone after it.
timer_exit ==
  /\ loaded
  /\ loaded' = FALSE
  /\ UNCHANGED <<loads, period, count, pending, left, running, pc, age, armedWith, stray>>

\* A write of the parameter through sysfs.
SetPeriod(p) ==
  /\ loaded /\ p # period
  /\ period' = p
  /\ UNCHANGED <<loads, loaded, count, pending, left, running, pc, age, armedWith, stray>>

\* A jiffy passes.
Tick ==
  /\ left' = [m \in Image |-> IF left[m] = 0 THEN 0 ELSE left[m] - 1]
  /\ age' = IF age = MaxAge THEN age ELSE age + 1
  /\ UNCHANGED <<loads, loaded, period, count, pending, running, pc, armedWith, stray>>

-----------------------------------------------------------------------------
(* The callback, print_iterations.                                          *)

Live(m) == loaded /\ m = loads

\* The kernel takes an expired timer off the wheel and calls its function.
Expire(m) ==
  /\ running = None /\ m \in pending /\ left[m] = 0
  /\ pending' = pending \ {m}
  /\ running' = m /\ pc' = "test"
  /\ UNCHANGED <<loads, loaded, period, count, left, age, armedWith, stray>>

\* A step of a callback whose image is gone: what it does is undefined, and nothing
\* is claimed of the kernel after it.
StrayCallback ==
  /\ running # None /\ ~Live(running)
  /\ stray' = TRUE /\ running' = None /\ pc' = "idle"
  /\ UNCHANGED <<loads, loaded, period, count, pending, left, age, armedWith>>

MoreToPrintAtMost == count <= MAX_ITERATIONS   \* one iteration too many
MoreToPrint == count < MAX_ITERATIONS

PrintIteration ==
  /\ running # None /\ Live(running) /\ pc = "test" /\ MoreToPrint
  /\ count' = count + 1 /\ age' = 0
  /\ pc' = "rearm"
  /\ UNCHANGED <<loads, loaded, period, pending, left, running, armedWith, stray>>

mod_timer ==
  /\ running # None /\ Live(running) /\ pc = "rearm"
  /\ Arm(running)
  /\ running' = None /\ pc' = "idle"
  /\ UNCHANGED <<loads, loaded, period, count, age, stray>>

del_timer ==
  /\ running # None /\ Live(running) /\ pc = "test" /\ ~MoreToPrint
  /\ pending' = pending \ {running}
  /\ running' = None /\ pc' = "idle"
  /\ UNCHANGED <<loads, loaded, period, count, left, age, armedWith, stray>>

Callback ==
  (\E m \in Image : Expire(m)) \/ StrayCallback \/ PrintIteration \/ mod_timer \/ del_timer

Next ==
  \/ timer_initialize \/ timer_exit \/ (\E p \in Periods : SetPeriod(p)) \/ Tick
  \/ Callback

Spec == Init /\ [][Next]_vars

\* The module is loaded, the clock goes on and the kernel serves expired timers.
FairSpec == Spec /\ WF_vars(timer_initialize) /\ WF_vars(Tick) /\ WF_vars(Callback)

-----------------------------------------------------------------------------
(* Properties.                                                              *)

\* Two iterations, and the load and the first, are at least the period apart that
\* was in force when the callback rearmed the timer, however the parameter is
\* written, however late the callback runs and however often the module is loaded
\* again ("add the expiration period to the current tick count").
Spaced == [][count' = count + 1 /\ ~stray => age >= armedWith]_vars

\* A module that stays loaded prints exactly MAX_ITERATIONS iterations and then
\* leaves the timer alone: nothing of it is pending or running any more.
Finishes ==
  <>[](loaded /\ ~stray =>
         count = MAX_ITERATIONS /\ loads \notin pending /\ running # loads)
=============================================================================
