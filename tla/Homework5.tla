------------------------------ MODULE Homework5 ------------------------------
(***************************************************************************)
(* The HW5 application: main.c, LED.c, tempSensor.c and logger.c on top of  *)
(* the timer service, of which it assumes TimerPromise (TimerService is     *)
(* shown to implement it), and on top of I2CHelper, whose steps are those   *)
(* of the temperature task inside readTemp and of the I2C hardware.         *)
(*                                                                          *)
(* One processor, preemptive priorities: the timer daemon (4) runs before   *)
(* the alert task (2), which runs before the temperature, logger and LED    *)
(* tasks (1).  Those three are time-sliced: any of them may take the next   *)
(* step.  A tick may come at any moment, and the I2C hardware goes on while  *)
(* the temperature task is preempted.                                       *)
(***************************************************************************)
EXTENDS TimerPromise, Integers, Sequences

CONSTANTS
  TempPeriod, LEDPeriod,  \* ticks of the two auto-reload timers
  QUEUE_MAX_SIZE,         \* places of each of the two queues
  Registers,              \* values the sensor's register can hold (16 bits)
  MaxTicks                \* bound: ticks in one behaviour

\* main creates these two timers.
ASSUME Homework5Assumption ==
  /\ Timers = {"TempTimer", "LEDTimer"}
  /\ {TempPeriod, LEDPeriod} \subseteq Nat \ {0}
  /\ QUEUE_MAX_SIZE \in Nat \ {0}
  /\ \A r \in Registers : r \in Nat /\ r < 65536
  /\ MaxTicks \in Nat /\ MaxTicks + TempPeriod + LEDPeriod < TickMod

VARIABLES
  semaphore,        \* of each timer: tempSemaphore and LEDSempahore
  ulNotifiedValue,  \* pending notifications of the alert task
  alertPc, tempPc, ledPc, loggerPc,
  notified,         \* ghost: the last reading was announced
  txLog,            \* the LED task's txLog
  LEDval,           \* its LED1val and LED2val: the values of the next write
  pin,              \* the two LED pins
  xQueueTemp, xQueueLED,
  count,            \* ghost counters
  step, at, result, data_one, master, data, latched, unanswered   \* of I2CHelper

I2C == INSTANCE I2CHelper WITH Words <- Registers

alertVars == <<ulNotifiedValue, alertPc>>
tempVars == <<tempPc, notified>>
ledVars == <<ledPc, txLog, LEDval, pin>>
queueVars == <<xQueueTemp, xQueueLED>>
appVars == <<alertVars, tempVars, ledVars, queueVars, semaphore, loggerPc, count>>
i2cVars == <<step, at, result, data_one, master, data, latched, unanswered>>
vars == <<promiseVars, appVars, i2cVars>>

-----------------------------------------------------------------------------
(* Conversion of the TMP102 register, in sixteenths of a degree.            *)

TEMPERATURE_THRESHOLD == 27 * 16

\* Mutant of readTemp: every reading is taken for a 13-bit one.
ReadTempAs13Bit(r) == r \div 8

\* Bit 0 tells 13-bit from 12-bit readings; the rest is read as unsigned.
readTemp(r) == IF r % 2 = 1 THEN r \div 8 ELSE r \div 16

\* What the sensor measured: a reading in two's complement, left-justified.
Measured(r) ==
  LET signed == IF r < 32768 THEN r ELSE r - 65536
  IN  IF r % 2 = 1 THEN signed \div 8 ELSE signed \div 16

-----------------------------------------------------------------------------
(* Initial state: main has created everything and started both timers and   *)
(* the scheduler.  vSemaphoreCreateBinary creates a semaphore given.        *)

Init ==
  /\ now = Zero
  /\ period = [t \in Timers |-> IF t = "TempTimer" THEN TempPeriod ELSE LEDPeriod]
  /\ schedule = [t \in Timers |-> Plus(Zero, period[t])]
  /\ auto = [t \in Timers |-> TRUE]
  /\ calls = 0
  /\ semaphore = [t \in Timers |-> 1]
  /\ ulNotifiedValue = 0
  /\ alertPc = "take" /\ tempPc = "take" /\ ledPc = "take" /\ loggerPc = "poll_temp"
  /\ notified = FALSE
  /\ txLog = [toggleCount |-> 0, timestamp |-> 0]
  /\ LEDval = [led1 |-> 0, led2 |-> 1]
  /\ pin = [led1 |-> 1, led2 |-> 1]
  /\ xQueueTemp = <<>> /\ xQueueLED = <<>>
  /\ count = [hot |-> 0, alerts |-> 0, printed |-> 0,
              fired |-> [t \in Timers |-> 0], merged |-> [t \in Timers |-> 0]]
  /\ I2C!I2CInit

-----------------------------------------------------------------------------
(* Scheduling.                                                              *)

DaemonReady == \E t \in Timers : Leq(schedule[t], now)
AlertReady == alertPc = "print" \/ ulNotifiedValue > 0

\* Mutant of LowTaskRuns: the alert task has the priority of the others.
LowTaskRunsAtEqualPriority == ~DaemonReady

LowTaskRuns == ~DaemonReady /\ ~AlertReady

\* The daemon serves what is due before the next tick.
xTaskIncrementTick ==
  /\ ~DaemonReady
  /\ now.tick < MaxTicks
  /\ Pass
  /\ UNCHANGED <<appVars, i2cVars>>

-----------------------------------------------------------------------------
(* Timer callbacks, in the daemon.  Giving a binary semaphore that is       *)
(* already given does nothing.                                              *)

\* Mutant of xSemaphoreGive: the semaphore counts.
GiveCounting(t) == semaphore' = [semaphore EXCEPT ![t] = @ + 1]

xSemaphoreGive(t) == semaphore' = [semaphore EXCEPT ![t] = 1]

TimerCallBack(t) ==
  /\ Fire(t)
  /\ xSemaphoreGive(t)
  /\ count' = [count EXCEPT !.fired[t] = @ + 1, !.merged[t] = @ + semaphore[t]]
  /\ UNCHANGED <<i2cVars, alertVars, tempVars, ledVars, queueVars, loggerPc>>

vTempTimerCallBack == TimerCallBack("TempTimer")
vLEDTimerCallBack == TimerCallBack("LEDTimer")

-----------------------------------------------------------------------------
(* Queues: xQueueSend with no wait drops the record when the queue is full. *)

\* Mutant of xQueueSend: the record goes to the front of the queue.
SendToFront(q, rec) == IF Len(q) < QUEUE_MAX_SIZE THEN <<rec>> \o q ELSE q

xQueueSend(q, rec) == IF Len(q) < QUEUE_MAX_SIZE THEN Append(q, rec) ELSE q

-----------------------------------------------------------------------------
(* tempTaskCode.                                                            *)

\* The semaphore is taken and readTemp calls I2CGet2Bytes.
TempTake ==
  /\ LowTaskRuns /\ tempPc = "take" /\ semaphore["TempTimer"] = 1
  /\ semaphore' = [semaphore EXCEPT !["TempTimer"] = 0]
  /\ tempPc' = "read"
  /\ I2C!Call
  /\ UNCHANGED <<promiseVars, alertVars, ledVars, queueVars, loggerPc, notified, count>>

TempI2C ==
  /\ LowTaskRuns /\ tempPc = "read"
  /\ I2C!I2CGet2Bytes
  /\ UNCHANGED <<promiseVars, appVars>>

I2CHardware == I2C!I2CModule /\ UNCHANGED <<promiseVars, appVars>>

Hot(r) == readTemp(r) > TEMPERATURE_THRESHOLD

\* I2CGet2Bytes has returned.
TempNotify ==
  /\ LowTaskRuns /\ tempPc = "read" /\ step = 0
  /\ \/ /\ Hot(result)
        /\ ulNotifiedValue' = ulNotifiedValue + 1
        /\ count' = [count EXCEPT !.hot = @ + 1]
        /\ notified' = TRUE
     \/ /\ ~Hot(result)
        /\ notified' = FALSE
        /\ UNCHANGED <<ulNotifiedValue, count>>
  /\ tempPc' = "send"
  /\ UNCHANGED <<promiseVars, i2cVars, ledVars, queueVars, semaphore, alertPc,
                 loggerPc>>

\* The record: of its temperature and time only the number of hot readings up to it is
\* kept.
TempSend ==
  /\ LowTaskRuns /\ tempPc = "send"
  /\ xQueueTemp' = xQueueSend(xQueueTemp, count.hot)
  /\ tempPc' = "take"
  /\ UNCHANGED <<promiseVars, i2cVars, alertVars, ledVars, semaphore, loggerPc,
                 notified, xQueueLED, count>>

tempTaskCode == TempTake \/ TempI2C \/ TempNotify \/ TempSend

-----------------------------------------------------------------------------
(* alertTaskCode: ulTaskNotifyTake clears the count, UARTprintf takes time. *)

AlertTake ==
  /\ ~DaemonReady /\ alertPc = "take" /\ ulNotifiedValue > 0
  /\ ulNotifiedValue' = 0
  /\ alertPc' = "print"
  /\ UNCHANGED <<promiseVars, i2cVars, tempVars, ledVars, queueVars, semaphore,
                 loggerPc, count>>

AlertPrint ==
  /\ ~DaemonReady /\ alertPc = "print"
  /\ alertPc' = "take"
  /\ count' = [count EXCEPT !.alerts = @ + 1]
  /\ UNCHANGED <<promiseVars, i2cVars, tempVars, ledVars, queueVars, semaphore,
                 ulNotifiedValue, loggerPc>>

alertTaskCode == AlertTake \/ AlertPrint

-----------------------------------------------------------------------------
(* LEDTaskCode.                                                             *)

LEDTake ==
  /\ LowTaskRuns /\ ledPc = "take" /\ semaphore["LEDTimer"] = 1
  /\ semaphore' = [semaphore EXCEPT !["LEDTimer"] = 0]
  /\ ledPc' = "write1"
  /\ UNCHANGED <<promiseVars, i2cVars, alertVars, tempVars, queueVars, loggerPc,
                 txLog, LEDval, pin, count>>

LEDWrite(led, here, next) ==
  /\ LowTaskRuns /\ ledPc = here
  /\ pin' = [pin EXCEPT ![led] = LEDval[led]]
  /\ ledPc' = next
  /\ UNCHANGED <<promiseVars, i2cVars, alertVars, tempVars, queueVars, semaphore,
                 loggerPc, txLog, LEDval, count>>

\* Mutant of Toggled: only the first LED's next value is flipped.
ToggledFirstOnly == [LEDval EXCEPT !.led1 = 1 - @]

Toggled == [led1 |-> 1 - LEDval.led1, led2 |-> 1 - LEDval.led2]

LEDToggle ==
  /\ LowTaskRuns /\ ledPc = "toggle"
  /\ LEDval' = Toggled
  /\ txLog' = [txLog EXCEPT !.toggleCount = @ + 1]
  /\ ledPc' = "stamp"
  /\ UNCHANGED <<promiseVars, i2cVars, alertVars, tempVars, queueVars, semaphore,
                 loggerPc, pin, count>>

LEDStamp ==
  /\ LowTaskRuns /\ ledPc = "stamp"
  /\ txLog' = [txLog EXCEPT !.timestamp = now.tick]
  /\ ledPc' = "send"
  /\ UNCHANGED <<promiseVars, i2cVars, alertVars, tempVars, queueVars, semaphore,
                 loggerPc, LEDval, pin, count>>

LEDSend ==
  /\ LowTaskRuns /\ ledPc = "send"
  /\ xQueueLED' = xQueueSend(xQueueLED, txLog)
  /\ ledPc' = "take"
  /\ UNCHANGED <<promiseVars, i2cVars, alertVars, tempVars, semaphore, loggerPc,
                 txLog, LEDval, pin, xQueueTemp, count>>

LEDTaskCode ==
  \/ LEDTake \/ LEDWrite("led1", "write1", "write2") \/ LEDWrite("led2", "write2", "toggle")
  \/ LEDToggle \/ LEDStamp \/ LEDSend

-----------------------------------------------------------------------------
(* loggerTaskCode: it polls the two queues in turn and never blocks.        *)

loggerRest == <<promiseVars, i2cVars, alertVars, tempVars, ledVars, semaphore>>

\* Mutant of LoggerPollTemp: an empty queue is polled again at once.
PollTempUntilReceived ==
  /\ LowTaskRuns /\ loggerPc = "poll_temp"
  /\ xQueueTemp # <<>>
  /\ xQueueTemp' = Tail(xQueueTemp)
  /\ loggerPc' = "print_temp"
  /\ UNCHANGED <<loggerRest, xQueueLED, count>>

LoggerPollTemp ==
  /\ LowTaskRuns /\ loggerPc = "poll_temp"
  /\ \/ /\ xQueueTemp # <<>>
        /\ xQueueTemp' = Tail(xQueueTemp)
        /\ loggerPc' = "print_temp"
     \/ /\ xQueueTemp = <<>>
        /\ loggerPc' = "poll_led"
        /\ UNCHANGED xQueueTemp
  /\ UNCHANGED <<loggerRest, xQueueLED, count>>

LoggerPollLED ==
  /\ LowTaskRuns /\ loggerPc = "poll_led"
  /\ \/ /\ xQueueLED # <<>>
        /\ xQueueLED' = Tail(xQueueLED)
        /\ count' = [count EXCEPT !.printed = Head(xQueueLED).toggleCount]
        /\ loggerPc' = "print_led"
     \/ /\ xQueueLED = <<>>
        /\ loggerPc' = "poll_temp"
        /\ UNCHANGED <<xQueueLED, count>>
  /\ UNCHANGED <<loggerRest, xQueueTemp>>

AfterLine == IF loggerPc = "print_temp" THEN "poll_led" ELSE "poll_temp"

LoggerPrinted ==
  /\ LowTaskRuns /\ loggerPc \in {"print_temp", "print_led"}
  /\ loggerPc' = AfterLine
  /\ UNCHANGED <<loggerRest, queueVars, count>>

loggerTaskCode == LoggerPollTemp \/ LoggerPollLED \/ LoggerPrinted

-----------------------------------------------------------------------------
Next ==
  \/ xTaskIncrementTick \/ vTempTimerCallBack \/ vLEDTimerCallBack \/ I2CHardware
  \/ tempTaskCode \/ alertTaskCode \/ LEDTaskCode \/ loggerTaskCode

Spec == Init /\ [][Next]_vars

\* The scheduler runs the highest ready priority and shares the lowest level
\* among its tasks in time slices; the I2C hardware ends what it has begun.
FairSpec ==
  /\ Spec
  /\ WF_vars(vTempTimerCallBack) /\ WF_vars(vLEDTimerCallBack) /\ WF_vars(alertTaskCode)
  /\ WF_vars(tempTaskCode) /\ WF_vars(LEDTaskCode) /\ WF_vars(loggerTaskCode)
  /\ WF_vars(I2CHardware)

-----------------------------------------------------------------------------
(* Properties.                                                              *)

\* A hot reading is announced before its record reaches the queue, each one
\* on its own: notifications never merge, although ulTaskNotifyTake clears
\* them all at once (the alert task's higher priority in main.c).
AlertBeforeRecord ==
  /\ \A k \in 1..Len(xQueueTemp) : xQueueTemp[k] <= count.alerts
  /\ tempPc = "send" /\ ~AlertReady => count.hot = count.alerts
  /\ ulNotifiedValue <= 1

\* What readTemp hands on is the register as the sensor latched it, both bytes of one
\* reading, if the sensor answered.  If it did not, no byte of an earlier reading takes
\* its place: the data register holds the zero the call put there, or this reading's
\* first byte again (the two waits of I2CGet2Bytes, however long the task is preempted).
ReturnsTheRegister ==
  tempPc = "read" /\ step = 0 =>
    \/ unanswered = {} /\ result = latched
    \/ unanswered = {3} /\ result = (latched \div 256) * 257
    \/ unanswered = {2, 3} /\ result = I2C!RegisterAddress

\* The alert task is notified of an answered reading of zero degrees or more if and only
\* if the temperature the sensor measured is above the threshold, in either of its modes.
\* A sensor that answers nothing raises no alert.  Of what is below zero nothing is said
\* here: see AlertOnlyWhenHot.
AlertIffHot ==
  tempPc = "send" =>
    /\ unanswered = {} /\ Measured(latched) >= 0 =>
         (notified <=> Measured(latched) > TEMPERATURE_THRESHOLD)
    /\ unanswered = {2, 3} => ~notified

\* "Temperature is too high!" (tempSensor.c:69): when alertTaskCode prints it, the last
\* reading was above the threshold, unless the sensor left a part of it unanswered.  This
\* is false below zero, where readTemp shifts the register as an unsigned number: the
\* reading then is 128 degrees or more.
AlertOnlyWhenHot ==
  alertPc = "print" /\ unanswered = {} => Measured(latched) > TEMPERATURE_THRESHOLD

\* No callback is lost or served twice: each toggle stands for one giving of
\* the semaphore (the one of its creation included), and only a giving that
\* found the last one untaken is missing (xSemaphoreGive, LEDTaskCode).
TogglesAccounted ==
  txLog.toggleCount + (IF ledPc \in {"write1", "write2", "toggle"} THEN 1 ELSE 0)
      + semaphore["LEDTimer"] + count.merged["LEDTimer"]
    = 1 + count.fired["LEDTimer"]

\* When the LED task waits, the pins show exactly one LED, the one the
\* parity of the logged toggle count says, however it was preempted.
LEDsMatchCount ==
  ledPc = "take" /\ txLog.toggleCount > 0 =>
    /\ pin.led1 = (txLog.toggleCount + 1) % 2
    /\ pin.led2 = 1 - pin.led1

\* The log's toggle counts increase and its times do not go back, although
\* records are dropped when the queue is full.
LogInOrder ==
  /\ \A j, k \in 1..Len(xQueueLED) : j < k =>
       /\ xQueueLED[j].toggleCount < xQueueLED[k].toggleCount
       /\ xQueueLED[j].timestamp <= xQueueLED[k].timestamp
  /\ \A k \in 1..Len(xQueueLED) :
       count.printed < xQueueLED[k].toggleCount /\ xQueueLED[k].timestamp <= now.tick

\* The polling logger and the polling read get to everything: once the time is up both
\* queues stay empty, every toggle was taken from its semaphore, and the temperature
\* task waits for its own, or for ever for a busy flag it has missed.
LogDrained ==
  <>[](/\ xQueueTemp = <<>> /\ xQueueLED = <<>> /\ semaphore["LEDTimer"] = 0
       /\ \/ tempPc = "take" /\ semaphore["TempTimer"] = 0
          \/ tempPc = "read" /\ I2C!MissedBusy)
==============================================================================
