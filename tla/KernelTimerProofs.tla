-------------------------- MODULE KernelTimerProofs --------------------------
(***************************************************************************)
(* The kernel timer module for any periods, any number of iterations and    *)
(* any number of loads: its iterations keep their distance, and a load that *)
(* has finished leaves the timer alone.                                     *)
(***************************************************************************)
EXTENDS KernelTimer, TLAPS

\* The variables have their types, images are numbered as they are loaded, and the
\* period a timer was armed with is one the ghost age can reach.
TimerTypeOK ==
  /\ loads \in 0 .. MaxLoads /\ loaded \in BOOLEAN /\ (loaded => loads \in Image)
  /\ period \in Periods /\ count \in 0 .. MAX_ITERATIONS
  /\ pending \subseteq 1 .. loads /\ left \in [Image -> Nat]
  /\ running \in 0 .. loads /\ pc \in {"idle", "test", "rearm"}
  /\ age \in 0 .. MaxAge /\ armedWith \in 0 .. MaxAge

\* The timer of the loaded image is off the wheel while its callback runs.
OneShot == loaded /\ running = loads => loads \notin pending

\* What is left until the timer expires, and what passed since the last iteration,
\* make up the period the timer was armed with.
Waits == loaded /\ loads \in pending => age + left[loads] >= armedWith

\* A callback that is about to print has waited for all of it.
Waited == loaded /\ running = loads /\ pc = "test" => age >= armedWith

\* Spaced needs Waited; Waited is inductive only with Waits, which an iteration breaks
\* unless OneShot keeps the timer off the wheel meanwhile.
TimerInv == TimerTypeOK /\ OneShot /\ Waits /\ Waited

\* At the start no image is loaded.
LEMMA TimerInvInit == Init => TimerInv
<1> SUFFICES ASSUME Init PROVE TimerInv
  OBVIOUS
<1>1. left \in [Image -> Nat]
  BY DEF Init
<1>2. /\ 0 \in 0 .. MaxLoads /\ 0 \in 0 .. MAX_ITERATIONS /\ 0 \in 0 .. MaxAge
      /\ 0 \in 0 .. 0 /\ {} \subseteq 1 .. 0
  BY ModuleAssumption
<1>3. loaded = FALSE
  BY DEF Init
<1>4. TimerTypeOK
  BY <1>1, <1>2, <1>3, Zenon DEF Init, TimerTypeOK, None
<1> QED BY <1>3, <1>4 DEF TimerInv, OneShot, Waits, Waited

\* A load arms the timer of a new image, whose callback is not running.
LEMMA InitializeKeeps ==
  ASSUME TimerInv, timer_initialize
  PROVE  TimerInv'
<1> USE DEF TimerInv
<1>1. loads + 1 \in Image /\ loads \in Nat /\ period \in Nat /\ period <= MaxAge
  BY ModuleAssumption DEF TimerTypeOK, timer_initialize, Image
<1>2. /\ loads' = loads + 1 /\ age' = 0 /\ armedWith' = period /\ running' = running
      /\ pending' = pending \cup {loads + 1} /\ pc' = pc
      /\ left' = [left EXCEPT ![loads + 1] = period]
  BY DEF timer_initialize, Arm
<1>3. TimerTypeOK'
  <2>1. running \in 0 .. loads + 1 /\ pending \cup {loads + 1} \subseteq 1 .. loads + 1
    BY <1>1 DEF TimerTypeOK
  <2>2. left' \in [Image -> Nat]
    BY <1>1, <1>2 DEF TimerTypeOK
  <2> QED BY <1>1, <1>2, <2>1, <2>2, ModuleAssumption DEF TimerTypeOK, timer_initialize, Image
<1>4. running' # loads'
  BY <1>1, <1>2 DEF TimerTypeOK
<1>5. left'[loads'] = period
  BY <1>1, <1>2 DEF TimerTypeOK
<1>6. Waits'
  BY <1>1, <1>2, <1>5 DEF Waits
<1> QED BY <1>3, <1>4, <1>6 DEF OneShot, Waited

\* A jiffy that passes is taken from what is left and added to what passed.
LEMMA TickKeeps ==
  ASSUME TimerInv, Tick
  PROVE  TimerInv'
<1> USE DEF TimerInv
<1>1. TimerTypeOK'
  BY ModuleAssumption DEF TimerTypeOK, Tick
<1>2. OneShot' 
  BY DEF OneShot, Tick
<1>3. age' >= age /\ age \in Nat /\ age' \in Nat /\ armedWith \in Nat
  BY ModuleAssumption DEF TimerTypeOK, Tick
<1>4. Waited'
  BY <1>3 DEF Waited, Tick
<1>5. Waits'
  <2> SUFFICES ASSUME loaded, loads \in pending PROVE age' + left'[loads] >= armedWith
    BY DEF Tick, Waits
  <2>1. PICK x \in Nat : x = left[loads] /\ loads \in Image
    BY DEF TimerTypeOK
  <2>2. left'[loads] = IF x = 0 THEN 0 ELSE x - 1
    BY <2>1 DEF Tick
  <2>3. age + x >= armedWith
    BY <2>1 DEF Waits
  <2>4. CASE age = MaxAge
    <3>1. age' = age /\ armedWith <= MaxAge /\ MaxAge \in Nat
      BY <2>4, ModuleAssumption DEF Tick, TimerTypeOK
    <3>2. left'[loads] \in Nat
      BY <2>2
    <3> QED BY <2>4, <3>1, <3>2, <1>3
  <2>5. CASE age # MaxAge
    <3>1. age' = age + 1
      BY <2>5 DEF Tick
    <3> QED BY <2>2, <2>3, <3>1, <1>3
  <2> QED BY <2>4, <2>5
<1> QED BY <1>1, <1>2, <1>4, <1>5

\* The kernel calls the function of a timer of which nothing is left.
LEMMA ExpireKeeps ==
  ASSUME TimerInv, NEW m \in Image, Expire(m)
  PROVE  TimerInv'
<1> USE DEF TimerInv
<1>1. TimerTypeOK'
  BY DEF TimerTypeOK, Expire
<1>2. OneShot' /\ Waits'
  BY DEF OneShot, Waits, Expire
<1>3. Waited'
  <2> SUFFICES ASSUME loaded, m = loads PROVE age >= armedWith
    BY DEF Waited, Expire
  <2>1. age + left[loads] >= armedWith /\ left[loads] = 0
    BY DEF Waits, Expire
  <2>2. age \in Nat
    BY ModuleAssumption DEF TimerTypeOK
  <2> QED BY <2>1, <2>2
<1> QED BY <1>1, <1>2, <1>3

\* The callback's own steps: it prints with its timer off the wheel, and arms it for
\* the whole period or not at all.
LEMMA CallbackKeeps ==
  ASSUME TimerInv, StrayCallback \/ PrintIteration \/ mod_timer \/ del_timer
  PROVE  TimerInv'
<1> USE DEF TimerInv
<1>1. ASSUME loaded PROVE loads # 0
  BY <1>1 DEF TimerTypeOK, Image
<1>2. CASE StrayCallback
  <2>1. TimerTypeOK'
    BY <1>2, ModuleAssumption DEF TimerTypeOK, StrayCallback, None
  <2> QED BY <1>1, <1>2, <2>1 DEF OneShot, Waits, Waited, StrayCallback, None
<1>3. CASE PrintIteration
  <2>1. TimerTypeOK'
    BY <1>3, ModuleAssumption DEF TimerTypeOK, PrintIteration, MoreToPrint
  <2>2. loads' = loads /\ running' = loads /\ loads \notin pending' /\ pc' # "test"
    BY <1>3 DEF PrintIteration, Live, OneShot
  <2> QED BY <2>1, <2>2 DEF OneShot, Waits, Waited
<1>4. CASE mod_timer
  <2>1. period \in Nat /\ period <= MaxAge /\ loads \in Image /\ running = loads /\ loaded
    BY <1>4, ModuleAssumption DEF TimerTypeOK, mod_timer, Live
  <2>2. TimerTypeOK'
    BY <1>4, <2>1, ModuleAssumption DEF TimerTypeOK, mod_timer, Arm, None, Image
  <2>3. left'[loads] = period /\ armedWith' = period /\ age' = age /\ age \in Nat
    BY <1>4, <2>1, ModuleAssumption DEF TimerTypeOK, mod_timer, Arm
  <2>4. loads' = loads /\ running' # loads
    BY <1>4, <1>1, <2>1 DEF mod_timer, None
  <2> QED BY <2>1, <2>2, <2>3, <2>4 DEF OneShot, Waits, Waited
<1>5. CASE del_timer
  <2>1. TimerTypeOK'
    BY <1>5, ModuleAssumption DEF TimerTypeOK, del_timer, None
  <2> QED BY <1>1, <1>5, <2>1 DEF OneShot, Waits, Waited, del_timer, None
<1> QED BY <1>2, <1>3, <1>4, <1>5

\* Every step keeps the invariant.
LEMMA TimerInvNext == TimerInv /\ [Next]_vars => TimerInv'
<1> SUFFICES ASSUME TimerInv, [Next]_vars PROVE TimerInv'
  OBVIOUS
<1>1. CASE timer_exit
  BY <1>1 DEF TimerInv, TimerTypeOK, OneShot, Waits, Waited, timer_exit
<1>2. CASE \E p \in Periods : SetPeriod(p)
  BY <1>2 DEF TimerInv, TimerTypeOK, OneShot, Waits, Waited, SetPeriod
<1>3. CASE UNCHANGED vars
  BY <1>3 DEF TimerInv, TimerTypeOK, OneShot, Waits, Waited, vars
<1> QED BY <1>1, <1>2, <1>3, InitializeKeeps, TickKeeps, ExpireKeeps, CallbackKeeps
        DEF Next, Callback

\* For any periods, written at any time, however late the callback runs and however
\* often the module is loaded again: two iterations, and the load and the first one,
\* are the period apart with which the callback armed the timer.
THEOREM IterationsAreSpaced == Spec => Spaced
<1>1. TimerInv /\ [Next]_vars => [count' = count + 1 /\ ~stray => age >= armedWith]_vars
  <2> SUFFICES ASSUME TimerInv, Next, count' = count + 1 PROVE age >= armedWith
    OBVIOUS
  <2>1. count \in Nat
    BY ModuleAssumption DEF TimerInv, TimerTypeOK
  <2>2. count' # count /\ count' # 0
    BY <2>1
  <2>3. PrintIteration
    BY <2>2 DEF Next, Callback, timer_initialize, timer_exit, SetPeriod, Tick, Expire,
                StrayCallback, mod_timer, del_timer
  <2> QED BY <2>3 DEF PrintIteration, Live, TimerInv, Waited
<1> QED BY <1>1, TimerInvInit, TimerInvNext, PTL DEF Spec, Spaced

\* The loaded image has printed all its iterations and its timer is neither on the
\* wheel nor in its callback.
Finished == loaded /\ count = MAX_ITERATIONS /\ loads \notin pending /\ running # loads

\* The safety half of Finishes: an image that has finished stays finished until it is
\* removed, whatever the timers left behind by earlier images do.
THEOREM FinishedForGood == Spec => [][Finished /\ loaded' => Finished']_vars
<1>1. TimerInv /\ [Next]_vars => [Finished /\ loaded' => Finished']_vars
  <2> SUFFICES ASSUME TimerInv, Next, Finished, loaded' PROVE Finished'
    OBVIOUS
  <2>1. loaded /\ loads # 0
    BY DEF TimerInv, TimerTypeOK, Finished, Image
  <2>2. ~timer_initialize /\ ~timer_exit /\ ~PrintIteration /\ ~mod_timer /\ ~del_timer
    BY <2>1 DEF Finished, timer_initialize, timer_exit, PrintIteration, mod_timer, del_timer, Live
  <2>3. CASE \E p \in Periods : SetPeriod(p)
    BY <2>3 DEF Finished, SetPeriod
  <2>4. CASE Tick
    BY <2>4 DEF Finished, Tick
  <2>5. CASE \E m \in Image : Expire(m)
    BY <2>5 DEF Finished, Expire
  <2>6. CASE StrayCallback
    BY <2>1, <2>6 DEF Finished, StrayCallback, None
  <2> QED BY <2>2, <2>3, <2>4, <2>5, <2>6 DEF Next, Callback
<1> QED BY <1>1, TimerInvInit, TimerInvNext, PTL DEF Spec

==============================================================================
