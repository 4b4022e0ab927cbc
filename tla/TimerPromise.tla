----------------------------- MODULE TimerPromise -----------------------------
(***************************************************************************)
(* What a user of software timers is promised, without lists, queue or     *)
(* daemon: each timer is either dormant or has one scheduled expiry.  A    *)
(* callback is made for a scheduled expiry, never before its time and once *)
(* only, and an auto-reload timer is then scheduled exactly one period     *)
(* after the expiry that was due (not after the moment it was served, so   *)
(* lateness never accumulates).                                            *)
(***************************************************************************)
EXTENDS TickTime

CONSTANTS Timers, Periods, Dormant

VARIABLES now, schedule, period, auto, calls

promiseVars == <<now, schedule, period, auto, calls>>

\* The instants up to the present one.
Past == {a \in [epoch : 0 .. now.epoch, tick : Ticks] : Leq(a, now)}

PromiseInit ==
    /\ now = Zero
    /\ schedule = [t \in Timers |-> Dormant]
    /\ period \in [Timers -> Periods]
    /\ auto \in [Timers -> BOOLEAN]
    /\ calls = 0

Pass == /\ now' = Plus(now, 1)
        /\ UNCHANGED <<schedule, period, auto, calls>>

\* A dormant timer is given its attributes.
Create(t, p, reload) ==
    /\ schedule[t] = Dormant
    /\ period' = [period EXCEPT ![t] = p]
    /\ auto' = [auto EXCEPT ![t] = reload]
    /\ UNCHANGED <<now, schedule, calls>>

\* The timer is started or restarted, counting from an earlier instant.
Arm(t) ==
    /\ \E at \in Past :
           schedule' = [schedule EXCEPT ![t] = Plus(at, period[t])]
    /\ UNCHANGED <<now, period, auto, calls>>

Disarm(t) ==
    /\ schedule' = [schedule EXCEPT ![t] = Dormant]
    /\ UNCHANGED <<now, period, auto, calls>>

Retime(t, p) ==
    /\ period' = [period EXCEPT ![t] = p]
    /\ \E at \in Past : schedule' = [schedule EXCEPT ![t] = Plus(at, p)]
    /\ UNCHANGED <<now, auto, calls>>

Fire(t) ==
    /\ schedule[t] # Dormant
    /\ Leq(schedule[t], now)
    /\ schedule' = [schedule EXCEPT ![t] =
           IF auto[t] THEN Plus(schedule[t], period[t]) ELSE Dormant]
    /\ calls' = 1 - calls
    /\ UNCHANGED <<now, period, auto>>

PromiseNext ==
    \/ Pass
    \/ \E t \in Timers :
          \/ Arm(t) \/ Disarm(t) \/ Fire(t)
          \/ \E p \in Periods : Retime(t, p)
          \/ \E p \in Periods, reload \in BOOLEAN : Create(t, p, reload)

PromiseSpec == PromiseInit /\ [][PromiseNext]_promiseVars
===============================================================================
