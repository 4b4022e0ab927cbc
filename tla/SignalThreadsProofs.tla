------------------------- MODULE SignalThreadsProofs -------------------------
(***************************************************************************)
(* The invariants of SignalThreads, for every file, and any number of       *)
(* signals and expiries of the timer.                                       *)
(*                                                                          *)
(* EndsByOwnSignal is about the log; what makes it hold is in the globals,  *)
(* the handlers under way and the threads that have seen a kill.            *)
(***************************************************************************)
EXTENDS SignalThreads, TLAPS

HandlerStates == [at : {"idle", "thread", "signal"}, signal : Signal \cup {NoSignal}]
Logs == {"running", "completion"} \cup Signal

Types ==
  /\ killedThreadID \in Thread \cup {"none"} /\ recdSignal \in Signal \cup {NoSignal}
  /\ CPUUtilFlag \in {0, 1} /\ handles \in Nat /\ ticks \in Nat
  /\ DOMAIN pc = Thread
  /\ handler \in [Thread -> HandlerStates]
  /\ log \in [Worker -> Logs]
  /\ delivered \in [Thread -> SUBSET Signal]

\* Some thread was asked to end by s.
Sent(s) == \E t \in Thread : s \in delivered[t]

\* A handler handles a signal that was delivered to its thread.
HandlersInv ==
  \A t \in Thread : handler[t].at # "idle" =>
    handler[t].signal \in Signal /\ handler[t].signal \in delivered[t]

\* The thread in killedThreadID was sent a signal, and recdSignal is a signal that was
\* sent, set at the latest when that thread's handler returns.
GlobalsInv ==
  /\ recdSignal # NoSignal => Sent(recdSignal)
  /\ \A t \in Thread : killedThreadID = t =>
       delivered[t] # {} /\ (handler[t].at = "signal" \/ recdSignal # NoSignal)

\* A thread that has found itself killed was, and recdSignal is set.
KilledInv ==
  \A t \in Worker : pc[t] = "killed" => delivered[t] # {} /\ recdSignal # NoSignal

\* A log line names a signal that was sent.
LogInv ==
  \A t \in Worker : log[t] \in Signal => delivered[t] # {} /\ Sent(log[t])

\* A report is under way only if the flag is set, and main starts the thread once.
FlagInv ==
  /\ pc["cpu"] = "stat" => CPUUtilFlag = 1
  /\ pc["main"] \in {"create", "create2"} => pc["cpu"] = "new"
  /\ ReportsAreTicked

IInv == Types /\ HandlersInv /\ GlobalsInv /\ KilledInv /\ LogInv /\ FlagInv

\* Signals are neither states of the log nor absent.
LEMMA SignalNames == NoSignal \notin Signal /\ "running" \notin Signal /\ "completion" \notin Signal
BY DEF NoSignal, Signal

LEMMA InitInv == Init => IInv
<1> SUFFICES ASSUME Init PROVE IInv
  OBVIOUS
<1> USE DEF Init, Thread, Worker
<1>1. Types
  BY DEF Types, HandlerStates, Logs
<1>2. HandlersInv /\ GlobalsInv /\ KilledInv /\ LogInv
  BY SignalNames DEF HandlersInv, GlobalsInv, KilledInv, LogInv
<1>3. FlagInv
  BY DEF FlagInv, ReportsAreTicked
<1> QED
  BY <1>1, <1>2, <1>3 DEF IInv

\* What a step that leaves the signals and the timer alone has to keep.
Local == UNCHANGED <<killedThreadID, recdSignal, handler, delivered, ticks>>

LEMMA LocalStep ==
  ASSUME IInv, Local,
         CPUUtilFlag' = CPUUtilFlag \/ CPUUtilFlag' = 0,
         handles' \in Nat, DOMAIN pc' = Thread, log' \in [Worker -> Logs],
         KilledInv', LogInv', FlagInv'
  PROVE  IInv'
BY DEF IInv, Local, Types, HandlersInv, GlobalsInv, Sent

\* Delivery of a signal: delivered grows, one handler starts.
LEMMA DeliverStep ==
  ASSUME IInv, NEW t \in Thread, NEW s \in Signal, Deliver(t, s)
  PROVE  IInv'
<1>1. /\ handler' = [handler EXCEPT ![t] = [at |-> "thread", signal |-> s]]
      /\ delivered' = [delivered EXCEPT ![t] = @ \cup {s}] /\ handler[t].at = "idle"
      /\ UNCHANGED <<killedThreadID, recdSignal, CPUUtilFlag, pc, handles, log, ticks>>
  BY DEF Deliver, Runs
<1>2. [at |-> "thread", signal |-> s] \in HandlerStates
  BY DEF HandlerStates
<1>3. Types'
  BY <1>1, <1>2 DEF IInv, Types
<1>4. /\ handler'[t].at = "thread" /\ handler'[t].signal = s /\ s \in delivered'[t]
      /\ \A u \in Thread : delivered[u] \subseteq delivered'[u]
      /\ \A u \in Thread \ {t} : handler'[u] = handler[u]
  BY <1>1 DEF IInv, Types
<1>5. HandlersInv'
  BY <1>4 DEF IInv, HandlersInv
<1>6. \A r : Sent(r) => Sent(r)'
  BY <1>4 DEF Sent
<1>7. GlobalsInv'
  BY <1>1, <1>4, <1>6 DEF IInv, GlobalsInv
<1>8. KilledInv' /\ LogInv'
  BY <1>1, <1>4, <1>6 DEF IInv, KilledInv, LogInv, Worker, Thread
<1>9. FlagInv'
  BY <1>1 DEF IInv, FlagInv, ReportsAreTicked
<1> QED
  BY <1>3, <1>5, <1>7, <1>8, <1>9 DEF IInv

\* The two stores of the handler.
LEMMA HandlerStep ==
  ASSUME IInv, NEW t \in Thread, sigHandler(t)
  PROVE  IInv'
<1>1. UNCHANGED <<CPUUtilFlag, pc, handles, log, delivered, ticks>>
  BY DEF sigHandler
<1>2. FlagInv' /\ LogInv' /\ \A r : Sent(r)' <=> Sent(r)
  BY <1>1 DEF IInv, FlagInv, ReportsAreTicked, LogInv, Sent
<1>3. handler \in [Thread -> HandlerStates]
  BY DEF IInv, Types
<1>4. CASE handler[t].at = "thread"
  <2>1. /\ killedThreadID' = t /\ recdSignal' = recdSignal
        /\ handler' = [handler EXCEPT ![t].at = "signal"]
    BY <1>4 DEF sigHandler
  <2>2. /\ handler' \in [Thread -> HandlerStates]
        /\ handler'[t].at = "signal" /\ handler'[t].signal = handler[t].signal
        /\ \A u \in Thread \ {t} : handler'[u] = handler[u]
    BY <1>3, <2>1 DEF HandlerStates
  <2>3. Types'
    BY <1>1, <2>1, <2>2 DEF IInv, Types
  <2>4. HandlersInv'
    BY <1>1, <1>4, <2>2 DEF IInv, HandlersInv
  <2>5. delivered[t] # {}
    BY <1>4 DEF IInv, HandlersInv
  <2>6. GlobalsInv' /\ KilledInv'
    BY <1>1, <1>2, <2>1, <2>2, <2>5 DEF IInv, GlobalsInv, KilledInv
  <2> QED
    BY <1>2, <2>3, <2>4, <2>6 DEF IInv
<1>5. CASE handler[t].at = "signal"
  <2>1. /\ killedThreadID' = killedThreadID /\ recdSignal' = handler[t].signal
        /\ handler' = [handler EXCEPT ![t] = [at |-> "idle", signal |-> NoSignal]]
    BY <1>5 DEF sigHandler
  <2>2. /\ handler' \in [Thread -> HandlerStates] /\ handler'[t].at = "idle"
        /\ \A u \in Thread \ {t} : handler'[u] = handler[u]
    BY <1>3, <2>1 DEF HandlerStates
  <2>3. recdSignal' \in Signal /\ recdSignal' \in delivered[t]
    BY <1>5, <2>1 DEF IInv, HandlersInv
  <2>4. Types'
    BY <1>1, <2>1, <2>2, <2>3 DEF IInv, Types
  <2>5. HandlersInv'
    BY <1>1, <2>2 DEF IInv, HandlersInv
  <2>6. GlobalsInv' /\ KilledInv'
    BY <1>1, <2>1, <2>3, SignalNames DEF IInv, GlobalsInv, KilledInv, Sent
  <2> QED
    BY <1>2, <2>4, <2>5, <2>6 DEF IInv
<1> QED
  BY <1>4, <1>5 DEF sigHandler

\* The timer's handler: one more expiry, at most one more report due.
LEMMA TimerStep ==
  ASSUME IInv, timerHandler
  PROVE  IInv'
<1>1. /\ ticks' = ticks + 1 /\ CPUUtilFlag' = 1
      /\ UNCHANGED <<killedThreadID, recdSignal, pc, handler, handles, log, delivered>>
  BY DEF timerHandler
<1>2. Types' /\ FlagInv'
  BY <1>1 DEF IInv, Types, FlagInv, ReportsAreTicked
<1> QED
  BY <1>1, <1>2 DEF IInv, HandlersInv, GlobalsInv, KilledInv, LogInv, Sent

\* The character thread.
LEMMA CharStep ==
  ASSUME IInv, processCharacters
  PROVE  IInv'
<1>1. /\ Local /\ UNCHANGED <<CPUUtilFlag, handles>> /\ handler["char"].at = "idle"
      /\ \E next \in {"test", "eof", "killed", "complete", "read", "done"} :
           /\ pc' = [pc EXCEPT !["char"] = next]
           /\ next = "killed" => killedThreadID = "char"
  BY DEF processCharacters, CharRead, CharTest, CharEnd, Local, Runs, Killed, Continue
<1>2. /\ DOMAIN pc' = Thread /\ (\A t \in Thread \ {"char"} : pc'[t] = pc[t])
      /\ pc'["char"] = "killed" => killedThreadID = "char"
  BY <1>1 DEF IInv, Types, Thread, Worker
<1>3. KilledInv'
  BY <1>1, <1>2 DEF IInv, KilledInv, GlobalsInv, Local, Worker, Thread
<1>4. FlagInv'
  BY <1>1, <1>2 DEF IInv, FlagInv, ReportsAreTicked, Local, Thread, Worker
<1>5. log' \in [Worker -> Logs] /\ LogInv'
  <2>1. CASE UNCHANGED log
    BY <1>1, <2>1 DEF IInv, Types, LogInv, Sent, Local
  <2>2. CASE CharEnd
    <3>1. /\ pc["char"] \in {"killed", "complete"}
          /\ log' = [log EXCEPT !["char"] =
                       IF pc["char"] = "killed" THEN recdSignal ELSE "completion"]
      BY <2>2 DEF CharEnd
    <3>2. pc["char"] = "killed" => /\ recdSignal \in Signal /\ Sent(recdSignal)
                                   /\ delivered["char"] # {}
      BY DEF IInv, KilledInv, GlobalsInv, Types, Worker
    <3>3. log \in [Worker -> Logs] /\ log' \in [Worker -> Logs] /\ log'["cpu"] = log["cpu"]
      BY <3>1, <3>2 DEF IInv, Types, Logs, Worker
    <3>4. log'["char"] = IF pc["char"] = "killed" THEN recdSignal ELSE "completion"
      BY <3>1, <3>3 DEF Worker
    <3> QED
      BY <1>1, <3>1, <3>2, <3>3, <3>4, SignalNames DEF IInv, LogInv, Sent, Local, Worker
  <2> QED
    BY <2>1, <2>2 DEF processCharacters, CharRead, CharTest
<1> QED
  BY <1>1, <1>2, <1>3, <1>4, <1>5, LocalStep DEF IInv, Types

\* The thread of the CPU's load.
LEMMA CPUStep ==
  ASSUME IInv, reportCPUUtil
  PROVE  IInv'
<1> USE DEF Worker, Thread
<1>1. DOMAIN pc = Thread /\ log \in [Worker -> Logs] /\ handles \in Nat /\ ticks \in Nat
  BY DEF IInv, Types
<1>2. CASE CPUTest
  <2>1. /\ Local /\ UNCHANGED <<CPUUtilFlag, handles, log>> /\ handler["cpu"].at = "idle"
        /\ pc' = [pc EXCEPT !["cpu"] = IF killedThreadID = "cpu" THEN "killed" ELSE "flag"]
        /\ pc["cpu"] = "test"
    BY <1>2 DEF CPUTest, Local, Runs, Killed
  <2>2. KilledInv' /\ LogInv'
    BY <1>1, <2>1 DEF IInv, KilledInv, GlobalsInv, LogInv, Sent, Local
  <2>3. FlagInv'
    BY <1>1, <2>1 DEF IInv, FlagInv, ReportsAreTicked, Local
  <2> QED
    BY <1>1, <2>1, <2>2, <2>3, LocalStep
<1>3. CASE CPUFlag
  <2>1. /\ Local /\ UNCHANGED <<CPUUtilFlag, handles, log>> /\ pc["cpu"] = "flag"
        /\ pc' = [pc EXCEPT !["cpu"] = IF CPUUtilFlag = 1 THEN "stat" ELSE "test"]
    BY <1>3 DEF CPUFlag, Local
  <2>2. KilledInv' /\ LogInv'
    BY <1>1, <2>1 DEF IInv, KilledInv, LogInv, Sent, Local
  <2>3. FlagInv'
    BY <1>1, <2>1 DEF IInv, FlagInv, ReportsAreTicked, Local
  <2> QED
    BY <1>1, <2>1, <2>2, <2>3, LocalStep
<1>4. CASE checkStatFile
  <2>1. /\ Local /\ UNCHANGED <<CPUUtilFlag, log>> /\ pc["cpu"] = "stat"
        /\ handles' = handles + 1 /\ pc' = [pc EXCEPT !["cpu"] = "clear"]
    BY <1>4 DEF checkStatFile, Local
  <2>2. KilledInv' /\ LogInv'
    BY <1>1, <2>1 DEF IInv, KilledInv, LogInv, Sent, Local
  <2>3. FlagInv'
    BY <1>1, <2>1 DEF IInv, FlagInv, ReportsAreTicked, Local
  <2> QED
    BY <1>1, <2>1, <2>2, <2>3, LocalStep
<1>5. CASE CPUClear
  <2>1. /\ Local /\ UNCHANGED <<handles, log>> /\ pc["cpu"] = "clear"
        /\ CPUUtilFlag' = 0 /\ pc' = [pc EXCEPT !["cpu"] = "test"]
    BY <1>5 DEF CPUClear, Local
  <2>2. KilledInv' /\ LogInv'
    BY <1>1, <2>1 DEF IInv, KilledInv, LogInv, Sent, Local
  <2>3. FlagInv'
    BY <1>1, <2>1 DEF IInv, FlagInv, ReportsAreTicked, Local
  <2> QED
    BY <1>1, <2>1, <2>2, <2>3, LocalStep
<1>6. CASE CPUEnd
  <2>1. /\ Local /\ UNCHANGED <<CPUUtilFlag, handles>> /\ pc["cpu"] = "killed"
        /\ log' = [log EXCEPT !["cpu"] = recdSignal] /\ pc' = [pc EXCEPT !["cpu"] = "done"]
    BY <1>6 DEF CPUEnd, Local
  <2>2. recdSignal \in Signal /\ Sent(recdSignal) /\ delivered["cpu"] # {}
    BY <2>1 DEF IInv, KilledInv, GlobalsInv, Types
  <2>3. log' \in [Worker -> Logs] /\ KilledInv' /\ LogInv'
    BY <1>1, <2>1, <2>2 DEF IInv, KilledInv, LogInv, Sent, Local, Logs
  <2>4. FlagInv'
    BY <1>1, <2>1 DEF IInv, FlagInv, ReportsAreTicked, Local
  <2> QED
    BY <1>1, <2>1, <2>3, <2>4, LocalStep
<1> QED
  BY <1>2, <1>3, <1>4, <1>5, <1>6 DEF reportCPUUtil

\* main starts and joins.
LEMMA MainStep ==
  ASSUME IInv, main
  PROVE  IInv'
<1> USE DEF Worker, Thread
<1>1. /\ Local /\ UNCHANGED <<CPUUtilFlag, handles, log>> /\ DOMAIN pc' = Thread
      /\ \A t \in Worker : pc'[t] = pc[t] \/ pc'[t] \in {"read", "test"}
      /\ pc'["cpu"] = pc["cpu"] \/ pc["main"] = "create2"
      /\ pc'["main"] \in {"create", "create2"} => pc["main"] = "create" /\ pc'["cpu"] = pc["cpu"]
  BY DEF main, Main, Local
<1>2. KilledInv' /\ LogInv'
  BY <1>1 DEF IInv, KilledInv, LogInv, Sent, Local
<1>3. FlagInv'
  BY <1>1 DEF IInv, FlagInv, ReportsAreTicked, Local
<1> QED
  BY <1>1, <1>2, <1>3, LocalStep DEF IInv, Types

\* The invariant holds in every reachable state.
THEOREM ThreadsInvariant == Spec => []IInv
<1>1. IInv /\ [Next]_vars => IInv'
  <2>1. ASSUME IInv, Next PROVE IInv'
    BY <2>1, MainStep, CharStep, CPUStep, TimerStep, HandlerStep, DeliverStep DEF Next
  <2>2. ASSUME IInv, UNCHANGED vars PROVE IInv'
    BY <2>2 DEF IInv, Types, HandlersInv, GlobalsInv, KilledInv, LogInv, FlagInv,
       ReportsAreTicked, Sent, vars
  <2> QED
    BY <2>1, <2>2
<1> QED
  BY InitInv, <1>1, PTL DEF Spec

\* However many handlers run at once, a thread that ends early was sent a signal itself,
\* and while no other thread is sent any, its log names a signal it was sent: the two
\* stores of sigHandler and the polling of killedThreadID need no lock for that.
THEOREM ThreadsEndByOwnSignal == Spec => []EndsByOwnSignal
<1>1. IInv => EndsByOwnSignal
  <2> SUFFICES ASSUME IInv, NEW t \in Worker, log[t] \notin {"running", "completion"}
               PROVE  delivered[t] # {} /\ (OnlyTo(t) => log[t] \in delivered[t])
    BY DEF EndsByOwnSignal
  <2>1. log[t] \in Signal
    BY DEF IInv, Types, Logs
  <2>2. delivered[t] # {} /\ Sent(log[t])
    BY <2>1 DEF IInv, LogInv
  <2> QED
    BY <2>2 DEF OnlyTo, Sent
<1> QED
  BY <1>1, ThreadsInvariant, PTL

\* The load is logged at most once for each expiry of the timer.
THEOREM EveryReportIsTicked == Spec => []ReportsAreTicked
<1>1. IInv => ReportsAreTicked
  BY DEF IInv, FlagInv
<1> QED
  BY <1>1, ThreadsInvariant, PTL

==============================================================================
