---------------------------- MODULE SignalThreads ----------------------------
(***************************************************************************)
(* HW4/Ques1/pthreadtest.c: main starts a thread that counts the letters of *)
(* a file and a thread that logs the CPU's load whenever a periodic timer   *)
(* has set a flag, and joins both.  SIGUSR1 and SIGUSR2 ask the thread they *)
(* are delivered to to end: the handler notes the thread and the signal in  *)
(* two globals, which the threads poll.                                     *)
(*                                                                          *)
(* Handlers run between any two steps of the thread they interrupt and at   *)
(* the same time as the other threads.  One signal's handler can interrupt  *)
(* the other's in the same thread, but both write that thread's ID, so the  *)
(* outcome is that of one after the other.                                  *)
(***************************************************************************)
EXTENDS Naturals, Sequences, FiniteSets

CONSTANTS
  File,        \* gdb.txt: a sequence of letters and other characters
  Letters,
  Limit,       \* only counts below it are written (100)
  MaxSignals,  \* bound: SIGUSR1s and SIGUSR2s delivered
  MaxTicks     \* bound: expiries of the timer

ASSUME ThreadsAssumption ==
  /\ Limit \in Nat \ {0} /\ MaxSignals \in Nat /\ MaxTicks \in Nat
  /\ File # <<>> /\ IsFiniteSet(Letters)

VARIABLES
  killedThreadID, recdSignal, CPUUtilFlag,   \* the globals
  pc,           \* pc[t]: where thread t is
  handler,      \* handler[t]: the signal being handled, and how far
  read, charCounts, reported,                \* the character thread
  handles,      \* open handles of /proc/stat: one more with every report
  log,          \* log[t]: the end of t as its log says it
  delivered,    \* ghost: delivered[t]: the signals t was asked to end by
  ticks, signals

vars == <<killedThreadID, recdSignal, CPUUtilFlag, pc, handler, read, charCounts,
          reported, handles, log, delivered, ticks, signals>>

Worker == {"char", "cpu"}
Thread == Worker \cup {"main"}
Signal == {"SIGUSR1", "SIGUSR2"}
NoSignal == "none"

Init ==
  /\ killedThreadID = "none" /\ recdSignal = NoSignal /\ CPUUtilFlag = 0
  /\ pc = [t \in Thread |-> IF t = "main" THEN "create" ELSE "new"]
  /\ handler = [t \in Thread |-> [at |-> "idle", signal |-> NoSignal]]
  /\ read = 0 /\ charCounts = [l \in Letters |-> 0] /\ reported = {}
  /\ handles = 0
  /\ log = [t \in Worker |-> "running"]
  /\ delivered = [t \in Thread |-> {}]
  /\ ticks = 0 /\ signals = 0

\* t runs: it is not inside a handler.
Runs(t) == handler[t].at = "idle"

-----------------------------------------------------------------------------
(* Signals.                                                                 *)

\* A signal for a thread, or for the process and delivered to that thread.
Deliver(t, s) ==
  /\ pc[t] \notin {"new", "done"} /\ Runs(t) /\ signals < MaxSignals
  /\ signals' = signals + 1
  /\ handler' = [handler EXCEPT ![t] = [at |-> "thread", signal |-> s]]
  /\ delivered' = [delivered EXCEPT ![t] = @ \cup {s}]
  /\ UNCHANGED <<killedThreadID, recdSignal, CPUUtilFlag, pc, read, charCounts, reported,
                 handles, log, ticks>>

\* sigHandler: first the thread, then the signal.
sigHandler(t) ==
  \/ /\ handler[t].at = "thread"
     /\ killedThreadID' = t
     /\ handler' = [handler EXCEPT ![t].at = "signal"]
     /\ UNCHANGED <<recdSignal, CPUUtilFlag, pc, read, charCounts, reported, handles, log,
                    delivered, ticks, signals>>
  \/ /\ handler[t].at = "signal"
     /\ recdSignal' = handler[t].signal
     /\ handler' = [handler EXCEPT ![t] = [at |-> "idle", signal |-> NoSignal]]
     /\ UNCHANGED <<killedThreadID, CPUUtilFlag, pc, read, charCounts, reported, handles,
                    log, delivered, ticks, signals>>

\* timerHandler, in whichever thread: one store.
timerHandler ==
  /\ pc["cpu"] \notin {"new", "done"} /\ ticks < MaxTicks
  /\ ticks' = ticks + 1
  /\ CPUUtilFlag' = 1
  /\ UNCHANGED <<killedThreadID, recdSignal, pc, handler, read, charCounts, reported,
                 handles, log, delivered, signals>>

-----------------------------------------------------------------------------
(* processCharacters.                                                       *)

\* ++charCounts[toupper(ip)-ALPHA_ASCII_OFFSET]
Counted(ch) == [charCounts EXCEPT ![ch] = @ + 1]

\* One character, while the end of the file was not met.
CharRead ==
  /\ pc["char"] = "read" /\ Runs("char")
  /\ \/ /\ read < Len(File)
        /\ charCounts' = IF File[read + 1] \in Letters THEN Counted(File[read + 1])
                         ELSE charCounts
        /\ read' = read + 1
        /\ pc' = [pc EXCEPT !["char"] = "test"]
        /\ UNCHANGED <<log>>
     \/ /\ read = Len(File)
        /\ pc' = [pc EXCEPT !["char"] = "eof"]
        /\ UNCHANGED <<charCounts, read, log>>
  /\ UNCHANGED <<killedThreadID, recdSignal, CPUUtilFlag, handler, reported, handles,
                 delivered, ticks, signals>>

\* fgetc returned EOF: one more test of the kill, then the loop ends.
Continue(t) == IF pc[t] = "eof" THEN "complete" ELSE "read"

\* Mutant of Killed: any kill is taken for one's own.
KilledAny(t) == killedThreadID # "none"

\* Mutant of Killed: only one of the two signals counts.
KilledBySIGUSR1(t) == killedThreadID = t /\ recdSignal = "SIGUSR1"

\* killedThreadID==(pid_t)syscall(SYS_gettid)
Killed(t) == killedThreadID = t

CharTest ==
  /\ pc["char"] \in {"test", "eof"} /\ Runs("char")
  /\ pc' = [pc EXCEPT !["char"] = IF Killed("char") THEN "killed" ELSE Continue("char")]
  /\ UNCHANGED <<killedThreadID, recdSignal, CPUUtilFlag, handler, read, charCounts,
                 reported, handles, log, delivered, ticks, signals>>

Rare == {l \in Letters : charCounts[l] > 0 /\ charCounts[l] < Limit}

\* The closing log line, and flushAndClose.
CharEnd ==
  /\ pc["char"] \in {"killed", "complete"} /\ Runs("char")
  /\ log' = [log EXCEPT !["char"] =
               IF pc["char"] = "killed" THEN recdSignal ELSE "completion"]
  /\ reported' = Rare
  /\ pc' = [pc EXCEPT !["char"] = "done"]
  /\ UNCHANGED <<killedThreadID, recdSignal, CPUUtilFlag, handler, read, charCounts,
                 handles, delivered, ticks, signals>>

processCharacters == CharRead \/ CharTest \/ CharEnd

-----------------------------------------------------------------------------
(* reportCPUUtil.                                                           *)

CPUTest ==
  /\ pc["cpu"] = "test" /\ Runs("cpu")
  /\ pc' = [pc EXCEPT !["cpu"] = IF Killed("cpu") THEN "killed" ELSE "flag"]
  /\ UNCHANGED <<killedThreadID, recdSignal, CPUUtilFlag, handler, read, charCounts,
                 reported, handles, log, delivered, ticks, signals>>

CPUFlag ==
  /\ pc["cpu"] = "flag" /\ Runs("cpu")
  /\ pc' = [pc EXCEPT !["cpu"] = IF CPUUtilFlag = 1 THEN "stat" ELSE "test"]
  /\ UNCHANGED <<killedThreadID, recdSignal, CPUUtilFlag, handler, read, charCounts,
                 reported, handles, log, delivered, ticks, signals>>

\* The handle of /proc/stat is not closed.
checkStatFile ==
  /\ pc["cpu"] = "stat" /\ Runs("cpu")
  /\ handles' = handles + 1
  /\ pc' = [pc EXCEPT !["cpu"] = "clear"]
  /\ UNCHANGED <<killedThreadID, recdSignal, CPUUtilFlag, handler, read, charCounts,
                 reported, log, delivered, ticks, signals>>

\* Mutant of CPUClear: the flag stays set.
CPUKeep ==
  /\ pc["cpu"] = "clear" /\ Runs("cpu")
  /\ pc' = [pc EXCEPT !["cpu"] = "test"]
  /\ UNCHANGED <<killedThreadID, recdSignal, CPUUtilFlag, handler, read, charCounts,
                 reported, handles, log, delivered, ticks, signals>>

CPUClear ==
  /\ pc["cpu"] = "clear" /\ Runs("cpu")
  /\ CPUUtilFlag' = 0
  /\ pc' = [pc EXCEPT !["cpu"] = "test"]
  /\ UNCHANGED <<killedThreadID, recdSignal, handler, read, charCounts,
                 reported, handles, log, delivered, ticks, signals>>

CPUEnd ==
  /\ pc["cpu"] = "killed" /\ Runs("cpu")
  /\ log' = [log EXCEPT !["cpu"] = recdSignal]
  /\ pc' = [pc EXCEPT !["cpu"] = "done"]
  /\ UNCHANGED <<killedThreadID, recdSignal, CPUUtilFlag, handler, read, charCounts,
                 reported, handles, delivered, ticks, signals>>

reportCPUUtil == CPUTest \/ CPUFlag \/ checkStatFile \/ CPUClear \/ CPUEnd

-----------------------------------------------------------------------------
(* main.                                                                    *)

Main(here, next, guard, started) ==
  /\ pc["main"] = here /\ Runs("main") /\ guard
  /\ pc' = [t \in Thread |-> IF t = "main" THEN next
                             ELSE IF t \in DOMAIN started THEN started[t] ELSE pc[t]]
  /\ UNCHANGED <<killedThreadID, recdSignal, CPUUtilFlag, handler, read, charCounts,
                 reported, handles, log, delivered, ticks, signals>>

main ==
  \/ Main("create", "create2", TRUE, [char |-> "read"])
  \/ Main("create2", "join_char", TRUE, [cpu |-> "test"])
  \/ Main("join_char", "join_cpu", pc["char"] = "done", <<>>)
  \/ Main("join_cpu", "done", pc["cpu"] = "done", <<>>)

Next ==
  \/ main \/ processCharacters \/ reportCPUUtil \/ timerHandler
  \/ \E t \in Thread : sigHandler(t) \/ \E s \in Signal : Deliver(t, s)

Spec == Init /\ [][Next]_vars

\* Every thread is scheduled; nothing forces a signal or the end of the timer.
FairSpec ==
  /\ Spec /\ WF_vars(main) /\ WF_vars(processCharacters) /\ WF_vars(reportCPUUtil)
  /\ \A t \in Thread : WF_vars(sigHandler(t))

-----------------------------------------------------------------------------
(* Properties.                                                              *)

\* No other thread than t was sent a signal.
OnlyTo(t) == \A u \in Thread \ {t} : delivered[u] = {}

\* A thread ends early only if a signal was delivered to it, however many
\* handlers run at once: polling killedThreadID never takes a kill of one
\* thread for a kill of the other.  While no other thread is sent signals,
\* killedThreadID and recdSignal belong together: the signal that its closing
\* log line names was delivered to it.
EndsByOwnSignal ==
  \A t \in Worker : log[t] \notin {"running", "completion"} =>
    delivered[t] # {} /\ (OnlyTo(t) => log[t] \in delivered[t])

\* A delivered signal ends the thread it was delivered to ("Check if a kill
\* signal was issued for this particular thread"), unless a signal to another
\* thread overwrites the one killedThreadID there is.
KillTakesEffect ==
  \A t \in Worker : delivered[t] # {} ~> pc[t] = "done" \/ ~OnlyTo(t)

\* The load is logged at most once for every expiry of the timer, and while
\* the flag is set there is one more expiry than reports or a report under
\* way, however the handler falls between the test of the flag and its reset.
ReportsAreTicked ==
  handles + (IF CPUUtilFlag = 1 /\ pc["cpu"] # "clear" THEN 1 ELSE 0) <= ticks
==============================================================================
