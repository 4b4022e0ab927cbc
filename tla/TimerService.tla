----------------------------- MODULE TimerService -----------------------------
(***************************************************************************)
(* The software timer service of HW5 (utils/timers.c): the timer daemon    *)
(* task, its two lists of active timers, its command queue, the calls that *)
(* tasks and interrupt handlers make, and the tick interrupt.              *)
(*                                                                         *)
(* The daemon has the highest priority of all tasks (FreeRTOSConfig.h: 4,  *)
(* the tasks of HW5 have 1 and 2), so a task runs only before the          *)
(* scheduler is started and while the daemon is blocked.  Interrupts (the  *)
(* tick and the handlers that use the ...FromISR calls) come between any   *)
(* two steps of the daemon.                                                *)
(***************************************************************************)
EXTENDS TickTime, Sequences, FiniteSets

CONSTANTS
    Timers,           \* Timer control blocks that can be created.
    Tasks,            \* Tasks that use the timer calls.
    Periods,          \* Periods a timer may be given.
    QueueLength,      \* configTIMER_QUEUE_LENGTH.
    StartupCommands,  \* Commands main() issues before the scheduler runs.
    TaskCommands,     \* Commands tasks issue.
    IsrCommands,      \* Commands interrupt handlers issue.
    MaxEpoch          \* Bound: the clock stops at the end of this epoch.

\* START stands for START and RESET, which the daemon treats alike; RELOAD is
\* tmrCOMMAND_START_DONT_TRACE, which only the daemon sends.
UserCommands == {"START", "STOP", "CHANGE_PERIOD", "DELETE"}
Commands     == UserCommands \cup {"RELOAD"}
StartLike    == {"START", "RELOAD"}

ASSUME ServiceAssumption ==
    /\ Periods \subseteq 1 .. (TickMod - 1) /\ Periods # {}
    /\ QueueLength \in Nat /\ QueueLength > 0
    /\ StartupCommands \subseteq UserCommands
    /\ TaskCommands \subseteq UserCommands
    /\ IsrCommands \subseteq UserCommands \ {"DELETE"}
    /\ MaxEpoch \in Nat

\* DaemonTaskMessage_t: `at' is the command time of START and RELOAD, `period'
\* the argument of CHANGE_PERIOD (the code keeps both in xMessageValue).
Message == [cmd : Commands, timer : Timers, at : Instant, period : Periods]
NoMessage == [cmd |-> "none"]

Lists     == {"xActiveTimerList1", "xActiveTimerList2"}
Forever   == TickMod                 \* xWaitIndefinitely of the block call.
DaemonPCs == {"created", "check", "expired", "blocked", "receive", "switch",
              "dispatch"}

VARIABLES
    now,                 \* xTickCount.
    pc,                  \* Where the daemon is.
    xLastTime,           \* Last sampled time; also the xTimeNow in use.
    xTicksToWait,        \* Ticks until a blocked daemon times out.
    xMessage,            \* The command the daemon is processing.
    xTimerQueue,         \* The command queue.
    pxCurrentTimerList,  \* Which list is the current one.
    container,           \* List that holds each timer's list item, or "NULL".
    itemValue,           \* Expiry time in each timer's list item.
    period,              \* xTimerPeriodInTicks.
    auto,                \* uxAutoReload.
    block,               \* Memory of each timer: unused, live, doomed, freed.
    pending,             \* Command each task has stamped and not yet sent.
    xResult,             \* Result of the daemon's last reload command.
    calls                \* Parity of the callbacks made.

listVars  == <<pxCurrentTimerList, container, itemValue>>
timerVars == <<period, auto, block>>
vars == <<now, pc, xLastTime, xTicksToWait, xMessage, xTimerQueue, listVars,
          timerVars, pending, xResult, calls>>

OtherList(l) == CHOOSE m \in Lists : m # l
pxOverflowTimerList == OtherList(pxCurrentTimerList)
Current  == {t \in Timers : container[t] = pxCurrentTimerList}
Overflow == {t \in Timers : container[t] = pxOverflowTimerList}
Listed   == {t \in Timers : container[t] # "NULL"}

\* The timers at the head of the current list: vListInsert keeps the list in
\* tick order; which of several equal items comes first is left open.
Heads == {t \in Current : \A u \in Current :
                              itemValue[t].tick <= itemValue[u].tick}

-------------------------------------------------------------------------------
(***************************************************************************)
(* Calls of the application.                                               *)
(***************************************************************************)
\* A task other than the daemon can be running.
TaskMayRun == pc \in {"created", "blocked"}

\* What an application may still do with a timer: nothing after its deletion.
InUse(t) == /\ block[t] = "live"
            /\ \A c \in Tasks : pending[c] # NoMessage =>
                   ~(pending[c].timer = t /\ pending[c].cmd = "DELETE")

\* The time a command carries: the macros stamp a start, the others carry 0.
Stamp(cmd) == IF cmd \in StartLike THEN now ELSE Zero

xTimerCreate(t, p, reload) ==
    /\ TaskMayRun
    /\ block[t] = "unused"
    /\ block'  = [block EXCEPT ![t] = "live"]
    /\ period' = [period EXCEPT ![t] = p]
    /\ auto'   = [auto EXCEPT ![t] = reload]
    /\ UNCHANGED <<now, pc, xLastTime, xTicksToWait, xMessage, xTimerQueue,
                   listVars, pending, xResult, calls>>

\* xTimerStart, xTimerStop, ... are macros: the task reads the tick count,
\* and only later gets to send the command; the clock and the daemon may run
\* in between.
xTimerCommandMacro(c, t, cmd, p) ==
    /\ TaskMayRun
    /\ cmd \in (IF pc = "created" THEN StartupCommands ELSE TaskCommands)
    /\ pending[c] = NoMessage
    /\ InUse(t)
    /\ cmd # "CHANGE_PERIOD" => p = period[t]
    /\ cmd = "DELETE" =>
           \A d \in Tasks : pending[d] # NoMessage => pending[d].timer # t
    /\ pending' = [pending EXCEPT ![c] =
                      [cmd |-> cmd, timer |-> t, at |-> Stamp(cmd), period |-> p]]
    /\ UNCHANGED <<now, pc, xLastTime, xTicksToWait, xMessage, xTimerQueue,
                   listVars, timerVars, xResult, calls>>

\* xQueueSendToBack of a message, with no wait: m is dropped when the queue is
\* full.  A message wakes a daemon that is blocked on the queue.
HasRoomOffByOne == Len(xTimerQueue) + 1 < QueueLength   \* Mutant.
HasRoom == Len(xTimerQueue) < QueueLength
Send(m) ==
    /\ xTimerQueue' = IF HasRoom THEN Append(xTimerQueue, m) ELSE xTimerQueue
    /\ IF pc = "blocked" /\ HasRoom
       THEN pc' = "receive" /\ xTicksToWait' = 0
       ELSE UNCHANGED <<pc, xTicksToWait>>

xTimerGenericCommand(c) ==
    /\ TaskMayRun
    /\ pending[c] # NoMessage
    /\ Send(pending[c])
    /\ block' = IF HasRoom /\ pending[c].cmd = "DELETE"
                THEN [block EXCEPT ![pending[c].timer] = "doomed"] ELSE block
    /\ pending' = [pending EXCEPT ![c] = NoMessage]
    /\ UNCHANGED <<now, xLastTime, xMessage, listVars, period, auto, xResult,
                   calls>>

xTimerGenericCommandFromISR(t, cmd, p) ==
    /\ pc # "created"
    /\ cmd \in IsrCommands
    /\ InUse(t)
    /\ cmd # "CHANGE_PERIOD" => p = period[t]
    /\ HasRoom
    /\ Send([cmd |-> cmd, timer |-> t, at |-> Stamp(cmd), period |-> p])
    /\ UNCHANGED <<now, xLastTime, xMessage, listVars, timerVars, pending,
                   xResult, calls>>

-------------------------------------------------------------------------------
(***************************************************************************)
(* The tick interrupt.                                                     *)
(***************************************************************************)
\* prvProcessTimerOrBlockTask switches the lists with the scheduler suspended:
\* the kernel then holds ticks back until it resumes.
SchedulerSuspended == pc = "switch" /\ xMessage = NoMessage

\* The messages that are stamped, queued or being processed.
Outstanding == {xTimerQueue[i] : i \in DOMAIN xTimerQueue}
               \cup {pending[c] : c \in Tasks} \cup {xMessage}

\* The environment assumption of the service: the processor is never so loaded
\* that something waits for the daemon for a full turn of the counter.
WaitingSince ==
    (IF Listed # {} \/ pc \in {"switch", "dispatch"} THEN {xLastTime} ELSE {})
    \cup {itemValue[t] : t \in {u \in Listed : Leq(itemValue[u], now)}}
    \cup {m.at : m \in {n \in Outstanding : n.cmd \in StartLike}}
Punctual(next) == \A a \in WaitingSince : WithinWrap(a, next)

xTaskIncrementTick ==
    /\ pc # "created"
    /\ ~SchedulerSuspended
    /\ Plus(now, 1).epoch <= MaxEpoch
    /\ Punctual(Plus(now, 1))
    /\ now' = Plus(now, 1)
    /\ IF pc # "blocked" \/ xTicksToWait = Forever
       THEN UNCHANGED <<pc, xTicksToWait>>
       ELSE IF xTicksToWait <= 1
            THEN pc' = "receive" /\ xTicksToWait' = 0
            ELSE pc' = pc /\ xTicksToWait' = xTicksToWait - 1
    /\ UNCHANGED <<xLastTime, xMessage, xTimerQueue, listVars, timerVars,
                   pending, xResult, calls>>

-------------------------------------------------------------------------------
(***************************************************************************)
(* The daemon.                                                             *)
(***************************************************************************)
vTaskStartScheduler ==
    /\ pc = "created"
    /\ pc' = "check"
    /\ UNCHANGED <<now, xLastTime, xTicksToWait, xMessage, xTimerQueue,
                   listVars, timerVars, pending, xResult, calls>>

\* prvGetNextExpireTime.
xListWasEmpty   == Current = {}
xNextExpireTime == IF xListWasEmpty THEN 0
                   ELSE itemValue[CHOOSE t \in Heads : TRUE].tick

\* The tick count is less than it was: it has wrapped.
Wrapped == now.tick < xLastTime.tick

\* Mutant: an empty current list is taken for no active timer at all.
BlockTimeIgnoringOverflow ==
    IF xListWasEmpty THEN Forever ELSE TickSub(xNextExpireTime, now.tick)

\* The arguments of vQueueWaitForMessageRestricted: with an empty current list
\* the wait ends when the counter wraps.
BlockTime == IF xListWasEmpty /\ Overflow = {}
             THEN Forever ELSE TickSub(xNextExpireTime, now.tick)

\* prvGetNextExpireTime and the part of prvProcessTimerOrBlockTask that runs
\* with the scheduler suspended: sample the time, then switch lists, go on to
\* the expired timer, or wait on the queue (a wait on a queue that holds a
\* message ends at once).
prvProcessTimerOrBlockTask ==
    /\ pc = "check"
    /\ xLastTime' = now
    /\ \/ /\ Wrapped
          /\ pc' = "switch"
          /\ UNCHANGED xTicksToWait
       \/ /\ ~Wrapped
          /\ ~xListWasEmpty /\ xNextExpireTime <= now.tick
          /\ pc' = "expired"
          /\ UNCHANGED xTicksToWait
       \/ /\ ~Wrapped
          /\ xListWasEmpty \/ xNextExpireTime > now.tick
          /\ IF xTimerQueue # <<>>
             THEN pc' = "receive" /\ UNCHANGED xTicksToWait
             ELSE /\ pc' = "blocked"
                  /\ xTicksToWait' = BlockTime
    /\ UNCHANGED <<now, xMessage, xTimerQueue, listVars, timerVars, pending,
                   xResult, calls>>

\* Mutant: the reload counts from the time of service, so lateness adds up.
SendReloadFromNow(t, at) ==
    /\ xTimerQueue' =
           IF HasRoom
           THEN Append(xTimerQueue, [cmd |-> "RELOAD", timer |-> t,
                                     at |-> xLastTime, period |-> period[t]])
           ELSE xTimerQueue
    /\ xResult' = HasRoom

\* xTimerGenericCommand called by the daemon itself, to start t over at
\* instant `at'.
SendReload(t, at) ==
    /\ xTimerQueue' =
           IF HasRoom
           THEN Append(xTimerQueue, [cmd |-> "RELOAD", timer |-> t, at |-> at,
                                     period |-> period[t]])
           ELSE xTimerQueue
    /\ xResult' = HasRoom
NoReload == UNCHANGED <<xTimerQueue, xResult>>

Callback == calls' = 1 - calls

\* uxListRemove.  The value of an item in no list is never read; the model
\* keeps it at Zero.
TakeOffList(t) ==
    /\ container' = [container EXCEPT ![t] = "NULL"]
    /\ itemValue' = [itemValue EXCEPT ![t] = Zero]

\* The insertion of prvInsertTimerInActiveList, none when it answers pdTRUE.
PutInList(t, next, verdict) ==
    /\ itemValue' = [itemValue EXCEPT ![t] = IF verdict = "now" THEN Zero ELSE next]
    /\ container' = [container EXCEPT ![t] =
           CASE verdict = "current"  -> pxCurrentTimerList
             [] verdict = "overflow" -> pxOverflowTimerList
             [] OTHER -> "NULL"]

prvProcessExpiredTimer(t) ==
    LET due     == itemValue[t]
        next    == Plus(due, period[t])
        verdict == InsertVerdict(next.tick, xLastTime.tick, due.tick, period[t])
    IN  /\ pc = "expired"
        /\ t \in Heads
        /\ Callback
        /\ IF auto[t]
           THEN /\ PutInList(t, next, verdict)
                /\ IF verdict = "now" THEN SendReload(t, due) ELSE NoReload
           ELSE TakeOffList(t) /\ NoReload
        /\ pc' = "receive"
        /\ UNCHANGED <<now, xLastTime, xTicksToWait, xMessage,
                       pxCurrentTimerList, timerVars, pending>>

\* One turn of the loop of prvSwitchTimerLists: the timers left in the current
\* list have expired.
prvSwitchTimerListsExpire(t) ==
    LET due    == itemValue[t]
        reload == Plus(due, period[t])
    IN  /\ pc = "switch"
        /\ t \in Heads
        /\ Callback
        /\ IF auto[t] /\ reload.tick > due.tick
           THEN /\ itemValue' = [itemValue EXCEPT ![t] = reload]
                /\ UNCHANGED container
                /\ NoReload
           ELSE /\ TakeOffList(t)
                /\ IF auto[t] THEN SendReload(t, due) ELSE NoReload
        /\ UNCHANGED <<now, pc, xLastTime, xTicksToWait, xMessage,
                       pxCurrentTimerList, timerVars, pending>>

\* The end of prvSwitchTimerLists, and the return to its caller.
prvSwitchTimerListsSwap ==
    /\ pc = "switch"
    /\ Current = {}
    /\ pxCurrentTimerList' = pxOverflowTimerList
    /\ pc' = IF xMessage = NoMessage THEN "receive" ELSE "dispatch"
    /\ UNCHANGED <<now, xLastTime, xTicksToWait, xMessage, xTimerQueue,
                   container, itemValue, timerVars, pending, xResult, calls>>

\* Mutant: the timer stays on its list while its command is processed.
ReceiveKeepingItem ==
    /\ pc = "receive"
    /\ xTimerQueue # <<>>
    /\ xMessage' = Head(xTimerQueue)
    /\ xTimerQueue' = Tail(xTimerQueue)
    /\ xLastTime' = now
    /\ pc' = IF Wrapped THEN "switch" ELSE "dispatch"
    /\ UNCHANGED <<now, xTicksToWait, listVars, timerVars, pending, xResult,
                   calls>>

\* The head of the loop of prvProcessReceivedCommands: take a message, take
\* its timer off its list, and only then sample the time.
prvProcessReceivedCommands ==
    /\ pc = "receive"
    /\ xTimerQueue # <<>>
    /\ xMessage' = Head(xTimerQueue)
    /\ xTimerQueue' = Tail(xTimerQueue)
    /\ TakeOffList(Head(xTimerQueue).timer)
    /\ xLastTime' = now
    /\ pc' = IF Wrapped THEN "switch" ELSE "dispatch"
    /\ UNCHANGED <<now, xTicksToWait, pxCurrentTimerList, timerVars, pending,
                   xResult, calls>>

CommandsDone ==
    /\ pc = "receive"
    /\ xTimerQueue = <<>>
    /\ pc' = "check"
    /\ UNCHANGED <<now, xLastTime, xTicksToWait, xMessage, xTimerQueue,
                   listVars, timerVars, pending, xResult, calls>>

\* The switch of prvProcessReceivedCommands, one action per case.
Dispatch(t, cmds) ==
    /\ pc = "dispatch"
    /\ xMessage.cmd \in cmds
    /\ xMessage.timer = t
    /\ xMessage' = NoMessage
    /\ pc' = "receive"
    /\ UNCHANGED <<now, xLastTime, xTicksToWait, pxCurrentTimerList, auto,
                   pending>>

DispatchStart(t) ==
    LET cmdTime == xMessage.at
        next    == Plus(cmdTime, period[t])
        verdict == InsertVerdict(next.tick, xLastTime.tick, cmdTime.tick,
                                 period[t])
    IN  /\ Dispatch(t, StartLike)
        /\ PutInList(t, next, verdict)
        /\ IF verdict = "now" THEN Callback ELSE UNCHANGED calls
        /\ IF verdict = "now" /\ auto[t] THEN SendReload(t, next) ELSE NoReload
        /\ UNCHANGED <<period, block>>

DispatchStop(t) ==
    /\ Dispatch(t, {"STOP"})
    /\ UNCHANGED <<container, itemValue, period, block, calls>>
    /\ NoReload

DispatchChangePeriod(t) ==
    LET p    == xMessage.period
        next == Plus(xLastTime, p)
    IN  /\ Dispatch(t, {"CHANGE_PERIOD"})
        /\ period' = [period EXCEPT ![t] = p]
        /\ PutInList(t, next, InsertVerdict(next.tick, xLastTime.tick,
                                            xLastTime.tick, p))
        /\ UNCHANGED <<block, calls>>
        /\ NoReload

DispatchDelete(t) ==
    /\ Dispatch(t, {"DELETE"})
    /\ block' = [block EXCEPT ![t] = "freed"]
    /\ UNCHANGED <<container, itemValue, period, calls>>
    /\ NoReload

-------------------------------------------------------------------------------
Init ==
    /\ now = Zero
    /\ pc = "created"
    /\ xLastTime = Zero
    /\ xTicksToWait = 0
    /\ xMessage = NoMessage
    /\ xTimerQueue = <<>>
    /\ pxCurrentTimerList = "xActiveTimerList1"
    /\ container = [t \in Timers |-> "NULL"]
    /\ itemValue = [t \in Timers |-> Zero]
    /\ period = [t \in Timers |-> CHOOSE p \in Periods : TRUE]
    /\ auto = [t \in Timers |-> FALSE]
    /\ block = [t \in Timers |-> "unused"]
    /\ pending = [c \in Tasks |-> NoMessage]
    /\ xResult = TRUE
    /\ calls = 0

Daemon ==
    \/ prvProcessTimerOrBlockTask
    \/ prvSwitchTimerListsSwap
    \/ prvProcessReceivedCommands
    \/ CommandsDone
    \/ \E t \in Timers :
          \/ prvProcessExpiredTimer(t)
          \/ prvSwitchTimerListsExpire(t)
          \/ DispatchStart(t)
          \/ DispatchStop(t)
          \/ DispatchChangePeriod(t)
          \/ DispatchDelete(t)

Application ==
    \/ \E t \in Timers, p \in Periods :
          \/ \E reload \in BOOLEAN : xTimerCreate(t, p, reload)
          \/ \E c \in Tasks, cmd \in UserCommands : xTimerCommandMacro(c, t, cmd, p)
          \/ \E cmd \in UserCommands : xTimerGenericCommandFromISR(t, cmd, p)
    \/ \E c \in Tasks : xTimerGenericCommand(c)
    \/ vTaskStartScheduler

Next == Daemon \/ Application \/ xTaskIncrementTick

Spec == Init /\ [][Next]_vars

\* The daemon is the ready task of the highest priority, so it is scheduled
\* whenever it has something to do.
FairSpec == Spec /\ WF_vars(Daemon)

-------------------------------------------------------------------------------
(***************************************************************************)
(* Properties.                                                             *)
(***************************************************************************)
\* Every variable keeps its type.
TypeOK ==
    /\ now \in Instant
    /\ pc \in DaemonPCs
    /\ xLastTime \in Instant
    /\ xTicksToWait \in 0 .. TickMod
    /\ xMessage \in Message \cup {NoMessage}
    /\ xTimerQueue \in Seq(Message)
    /\ pxCurrentTimerList \in Lists
    /\ container \in [Timers -> Lists \cup {"NULL"}]
    /\ itemValue \in [Timers -> Instant]
    /\ period \in [Timers -> Periods]
    /\ auto \in [Timers -> BOOLEAN]
    /\ block \in [Timers -> {"unused", "live", "doomed", "freed"}]
    /\ pending \in [Tasks -> Message \cup {NoMessage}]
    /\ xResult \in BOOLEAN
    /\ calls \in 0 .. 1

\* The two lists mean what prvSampleTimeNow and prvInsertTimerInActiveList take
\* them to mean across wraps of the tick counter: the current list holds the
\* timers due in the turn the daemon last sampled, the overflow list those due
\* in the next one, and while prvSwitchTimerLists runs each is one turn
\* behind.
ListsMatchEpochs ==
    /\ \A t \in Current : IF pc = "switch"
                         THEN itemValue[t].epoch + 1 = xLastTime.epoch
                         ELSE itemValue[t].epoch = xLastTime.epoch
    /\ \A t \in Overflow : IF pc = "switch"
                          THEN itemValue[t].epoch = xLastTime.epoch
                          ELSE itemValue[t].epoch = xLastTime.epoch + 1

\* A blocked daemon never sleeps past the expiry of a timer, in whichever list
\* it is (the wait prvProcessTimerOrBlockTask computes, also across a wrap),
\* and never with a command left in its queue.
NeverSleepsThrough ==
    pc = "blocked" => /\ \A t \in Listed : Lt(now, itemValue[t])
                      /\ xTimerQueue = <<>>

\* The assertions after the three reload commands of the daemon: the command
\* that keeps an auto-reload timer going finds room in the queue.
ReloadNeverLost == xResult = TRUE

\* A timer whose memory vPortFree has released is in no list and is named by no
\* command that has still to be processed.
NoUseAfterFree ==
    \A t \in Timers : block[t] = "freed" =>
        /\ container[t] = "NULL"
        /\ \A i \in DOMAIN xTimerQueue : xTimerQueue[i].timer # t
        /\ xMessage # NoMessage => xMessage.timer # t
        /\ \A c \in Tasks : pending[c] # NoMessage => pending[c].timer # t

\* When the daemon processes a STOP nothing is left that would start the timer
\* again: no reload command of its own is queued behind the STOP.
StopIsFinal ==
    pc = "dispatch" /\ xMessage.cmd = "STOP" =>
        /\ container[xMessage.timer] = "NULL"
        /\ \A i \in DOMAIN xTimerQueue :
               xTimerQueue[i].timer = xMessage.timer =>
                   xTimerQueue[i].cmd # "RELOAD"

(***************************************************************************)
(* Refinement of TimerPromise.  The schedule of a timer is what the last   *)
(* start that reached the daemon says: its message while it is being       *)
(* processed, its list item, or the reload the daemon has sent to itself.  *)
(***************************************************************************)
Dormant == [epoch |-> 0, tick |-> TickMod]

Reloads(t) == {i \in DOMAIN xTimerQueue : /\ xTimerQueue[i].cmd = "RELOAD"
                                          /\ xTimerQueue[i].timer = t}
LastReload(t) == xTimerQueue[CHOOSE i \in Reloads(t) :
                                 \A j \in Reloads(t) : j <= i]
InHand(t) == xMessage.cmd \in StartLike /\ xMessage.timer = t

Scheduled(t) ==
    IF InHand(t) THEN Plus(xMessage.at, period[t])
    ELSE IF container[t] # "NULL" THEN itemValue[t]
    ELSE IF Reloads(t) # {} THEN Plus(LastReload(t).at, period[t])
    ELSE Dormant

Promise == INSTANCE TimerPromise
               WITH schedule <- [t \in Timers |-> Scheduled(t)]

\* The daemon, its lists and its queue keep the promise of TimerPromise: every
\* callback serves one scheduled expiry that is due, none is early, skipped or
\* repeated, and an auto-reload timer never drifts.
KeepsPromise == Promise!PromiseSpec

\* Once an expiry is due the daemon gets round to it: it neither sleeps for ever
\* nor stays in a loop over its queue or over the expired list.
OverdueServed ==
    \A t \in Timers :
        (Scheduled(t) # Dormant /\ Leq(Scheduled(t), now))
            ~> (Scheduled(t) = Dormant \/ Lt(now, Scheduled(t)))
===============================================================================
