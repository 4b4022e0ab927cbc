--------------------------- MODULE Homework5Proofs ---------------------------
(***************************************************************************)
(* The safety properties of the HW5 application, for every period, every    *)
(* queue length, every set of register values and every number of ticks.    *)
(***************************************************************************)
EXTENDS Homework5, TLAPS

-----------------------------------------------------------------------------
(* Types.                                                                   *)

Record == [toggleCount : Nat, timestamp : Nat]
Counters == [hot : Nat, alerts : Nat, printed : Nat,
             fired : [Timers -> Nat], merged : [Timers -> Nat]]
Lights == [led1 : 0..1, led2 : 0..1]

\* The type invariant of the tasks and of what they share.
TaskTypes ==
  /\ semaphore \in [Timers -> 0..1]
  /\ ulNotifiedValue \in Nat
  /\ alertPc \in {"take", "print"}
  /\ tempPc \in {"take", "read", "send"}
  /\ ledPc \in {"take", "write1", "write2", "toggle", "stamp", "send"}
  /\ loggerPc \in {"poll_temp", "print_temp", "poll_led", "print_led"}
  /\ notified \in BOOLEAN
  /\ txLog \in Record
  /\ LEDval \in Lights
  /\ pin \in Lights
  /\ xQueueTemp \in Seq(Nat)
  /\ xQueueLED \in Seq(Record)
  /\ count \in Counters

\* The time, which MaxTicks keeps from wrapping.
TimeTypes == now \in Instant

\* The type invariant of the I2C read.
I2CTypes ==
  /\ step \in 0..3
  /\ at \in {"wait_busy", "wait_done"}
  /\ result \in Nat /\ data_one \in Nat /\ data \in Nat
  /\ master \in {"idle", "commanded", "busy"}
  /\ latched \in Registers \cup {0}
  /\ unanswered \in SUBSET {2, 3}

-----------------------------------------------------------------------------
(* The parts of the inductive invariant, one for each group of properties.  *)

\* Notifications the alert task has not printed yet.
Pending == ulNotifiedValue + (IF alertPc = "print" THEN 1 ELSE 0)

\* At most one notification is under way, and it is the only one that is missing; the
\* records in the queue were sent after their alerts.
AlertsInv ==
  /\ Pending <= 1
  /\ count.hot = count.alerts + Pending
  /\ \A k \in 1..Len(xQueueTemp) : xQueueTemp[k] <= count.alerts

\* The outcome of a call: both bytes of one reading, its first byte twice, or nothing.
Outcome ==
  \/ unanswered = {} /\ latched \in Registers /\ result = latched
  \/ unanswered = {3} /\ result = (latched \div 256) * 257
  \/ unanswered = {2, 3} /\ result = 0

\* The first byte is there, or the zero that the call put into the data register.
FirstByteIn(byte) ==
  \/ unanswered = {} /\ latched \in Registers /\ byte = latched \div 256
  \/ unanswered = {2} /\ byte = 0

\* The two waits after a command keep the task and the module in step: the module is
\* idle outside a call, and the data register holds what the last finished transaction
\* left there.
I2CInv ==
  /\ tempPc # "read" => step = 0
  /\ at = "wait_done" => master # "commanded"
  /\ step = 0 => at = "wait_done" /\ master = "idle"
  /\ step = 1 \/ (step = 2 /\ master # "idle") => unanswered = {} /\ data = 0
  /\ step = 2 /\ master = "idle" => FirstByteIn(data)
  /\ step = 3 /\ master # "idle" => FirstByteIn(data_one) /\ data = data_one
  /\ step = 3 /\ master = "idle" =>
       \/ /\ FirstByteIn(data_one) /\ unanswered = {} /\ data = latched % 256
       \/ unanswered = {3} /\ data_one = latched \div 256 /\ data = data_one
       \/ unanswered = {2, 3} /\ data_one = 0 /\ data = 0
  /\ step = 0 /\ tempPc # "take" => Outcome
  /\ tempPc = "send" => (notified <=> Hot(result))

\* The values of the next write follow the parity of the toggle count, and the pins
\* follow the values written.
LightsInv ==
  /\ LEDval.led1 = txLog.toggleCount % 2
  /\ LEDval.led2 = 1 - LEDval.led1
  /\ ledPc \in {"write2", "toggle"} => pin.led1 = LEDval.led1
  /\ ledPc = "toggle" => pin.led2 = LEDval.led2
  /\ ledPc \in {"stamp", "send"} \/ (ledPc = "take" /\ txLog.toggleCount > 0) =>
       pin.led1 = 1 - LEDval.led1 /\ pin.led2 = 1 - LEDval.led2

\* The record under construction is not in the queue yet.
Unsent == ledPc \in {"stamp", "send"}

\* A count that was sent or printed is not above the toggle count, and below it while the
\* new count is still to be sent.
Older(n) == IF Unsent THEN n < txLog.toggleCount ELSE n <= txLog.toggleCount

\* The queue is in order, behind what is printed and before what is to be sent.
LogInv ==
  /\ txLog.timestamp <= now.tick
  /\ Older(count.printed)
  /\ \A k \in 1..Len(xQueueLED) :
       /\ Older(xQueueLED[k].toggleCount)
       /\ count.printed < xQueueLED[k].toggleCount
       /\ xQueueLED[k].timestamp <= txLog.timestamp
  /\ \A j, k \in 1..Len(xQueueLED) : j < k =>
       /\ xQueueLED[j].toggleCount < xQueueLED[k].toggleCount
       /\ xQueueLED[j].timestamp <= xQueueLED[k].timestamp

Types == TaskTypes /\ TimeTypes /\ I2CTypes

IInv == Types /\ AlertsInv /\ I2CInv /\ LightsInv /\ TogglesAccounted /\ LogInv

-----------------------------------------------------------------------------
(* Lemmas about the operators.                                              *)

\* The two timers, and the place of the last tick in the counter.
LEMMA ConstantFacts ==
  /\ "TempTimer" \in Timers /\ "LEDTimer" \in Timers
  /\ MaxTicks \in Nat /\ MaxTicks + 1 < TickMod
<1>1. TempPeriod \in Nat \ {0} /\ LEDPeriod \in Nat \ {0}
  BY Homework5Assumption
<1>2. MaxTicks \in Nat /\ MaxTicks + TempPeriod + LEDPeriod < TickMod
  BY Homework5Assumption
<1>3. MaxTicks + 1 < TickMod
  BY <1>1, <1>2, TickModAssumption
<1> QED
  BY <1>2, <1>3, Homework5Assumption

\* A tick that may still come does not wrap the counter.
LEMMA TickAdvances ==
  ASSUME NEW a \in Instant, a.tick < MaxTicks
  PROVE  Plus(a, 1) \in Instant /\ Plus(a, 1).tick = a.tick + 1
<1>1. a.tick \in Nat /\ a.tick + 1 < TickMod
  BY ConstantFacts, TickModAssumption DEF Instant, Ticks
<1> QED
  BY <1>1, TickModAssumption DEF Plus, Instant, Ticks

\* A record that is sent is the last of the queue, or is dropped.
LEMMA SendResult ==
  ASSUME NEW S, NEW q \in Seq(S), NEW rec \in S
  PROVE  /\ xQueueSend(q, rec) \in Seq(S)
         /\ \/ xQueueSend(q, rec) = q
            \/ /\ Len(xQueueSend(q, rec)) = Len(q) + 1
               /\ xQueueSend(q, rec)[Len(q) + 1] = rec
               /\ \A k \in 1..Len(q) : xQueueSend(q, rec)[k] = q[k]
BY DEF xQueueSend

\* What is left when the head of a queue is received.
LEMMA TailResult ==
  ASSUME NEW S, NEW q \in Seq(S), q # <<>>
  PROVE  /\ Tail(q) \in Seq(S) /\ Head(q) \in S /\ Head(q) = q[1]
         /\ Len(q) \in Nat \ {0} /\ Len(Tail(q)) = Len(q) - 1
         /\ \A k \in 1..Len(Tail(q)) : Tail(q)[k] = q[k + 1]
OBVIOUS

\* The two bytes of a register, put together again.
LEMMA BytesCombine ==
  ASSUME NEW r \in Nat
  PROVE  /\ I2C!Combined(r \div 256, r % 256) = r
         /\ I2C!Combined(r \div 256, r \div 256) = (r \div 256) * 257
         /\ r \div 256 \in Nat /\ r % 256 \in Nat /\ (r \div 256) * 257 \in Nat
BY DEF I2C!Combined

\* From zero degrees on the unsigned reading is above the threshold if and only if the
\* temperature measured is.
LEMMA HotIffMeasured ==
  ASSUME NEW r \in Nat, r < 65536, Measured(r) >= 0
  PROVE  Hot(r) <=> Measured(r) > TEMPERATURE_THRESHOLD
<1>1. CASE r < 32768
  BY <1>1 DEF Hot, readTemp, Measured, TEMPERATURE_THRESHOLD
<1>2. CASE ~(r < 32768)
  <2>1. r - 65536 < 0 /\ r - 65536 \in Int
    BY <1>2
  <2>2. (r - 65536) \div 8 < 0 /\ (r - 65536) \div 16 < 0
    BY <2>1
  <2> QED
    BY <1>2, <2>2 DEF Measured
<1> QED
  BY <1>1, <1>2

-----------------------------------------------------------------------------
LEMMA InitIInv == Init => IInv
<1> SUFFICES ASSUME Init PROVE IInv
  OBVIOUS
<1>1. Types
  <2>1. TaskTypes
    <3>1. count \in Counters
      BY DEF Init, Counters
    <3>2. semaphore \in [Timers -> 0..1] /\ xQueueTemp \in Seq(Nat) /\ xQueueLED \in Seq(Record)
      BY DEF Init
    <3>3. txLog \in Record /\ LEDval \in Lights /\ pin \in Lights
      BY DEF Init, Record, Lights
    <3> QED
      BY <3>1, <3>2, <3>3 DEF Init, TaskTypes
  <2>2. TimeTypes
    BY TickModAssumption DEF Init, TimeTypes, Instant, Zero, Ticks
  <2>3. I2CTypes
    BY DEF Init, I2CTypes, I2C!I2CInit
  <2> QED
    BY <2>1, <2>2, <2>3 DEF Types
<1>2. AlertsInv
  BY DEF Init, AlertsInv, Pending
<1>3. I2CInv
  BY DEF Init, I2CInv, I2C!I2CInit
<1>4. LightsInv
  BY DEF Init, LightsInv
<1>5. TogglesAccounted
  <2>1. /\ semaphore["LEDTimer"] = 1 /\ count.merged["LEDTimer"] = 0
        /\ count.fired["LEDTimer"] = 0
    BY ConstantFacts DEF Init
  <2> QED
    BY <2>1 DEF Init, TogglesAccounted
<1>6. LogInv
  BY DEF Init, LogInv, Older, Unsent, Zero
<1> QED
  BY <1>1, <1>2, <1>3, <1>4, <1>5, <1>6 DEF IInv

-----------------------------------------------------------------------------
(* Types are preserved.                                                     *)

\* The fields of the counters.
LEMMA CounterFields ==
  ASSUME TaskTypes
  PROVE  /\ count.hot \in Nat /\ count.alerts \in Nat /\ count.printed \in Nat
         /\ count.fired \in [Timers -> Nat] /\ count.merged \in [Timers -> Nat]
BY DEF TaskTypes, Counters

\* Counting keeps the counters counters, and the other fields as they are.
LEMMA CounterUpdates ==
  ASSUME NEW c \in Counters, NEW n \in Nat
  PROVE  /\ [c EXCEPT !.hot = n] \in Counters
         /\ [c EXCEPT !.alerts = n] \in Counters
         /\ [c EXCEPT !.printed = n] \in Counters
BY DEF Counters

\* So do the two updates of the record under construction.
LEMMA RecordUpdates ==
  ASSUME NEW r \in Record, NEW n \in Nat
  PROVE  /\ [r EXCEPT !.toggleCount = n] \in Record
         /\ [r EXCEPT !.timestamp = n] \in Record
BY DEF Record

\* What a callback does to the counters.
LEMMA CallbackCounts ==
  ASSUME TaskTypes, NEW t \in Timers, TimerCallBack(t)
  PROVE  /\ semaphore' = [semaphore EXCEPT ![t] = 1]
         /\ count'.hot = count.hot /\ count'.alerts = count.alerts
         /\ count'.printed = count.printed
         /\ count'.fired = [count.fired EXCEPT ![t] = @ + 1]
         /\ count'.merged = [count.merged EXCEPT ![t] = @ + semaphore[t]]
         /\ count' \in Counters
<1>1. count' = [count EXCEPT !.fired[t] = @ + 1, !.merged[t] = @ + semaphore[t]]
  BY DEF TimerCallBack
<1>2. count \in Counters
  BY DEF TaskTypes
<1>3. /\ count'.hot = count.hot /\ count'.alerts = count.alerts
      /\ count'.printed = count.printed
      /\ count'.fired = [count.fired EXCEPT ![t] = @ + 1]
      /\ count'.merged = [count.merged EXCEPT ![t] = @ + semaphore[t]]
  BY <1>1, <1>2 DEF Counters
<1>4. /\ [count.fired EXCEPT ![t] = @ + 1] \in [Timers -> Nat]
      /\ [count.merged EXCEPT ![t] = @ + semaphore[t]] \in [Timers -> Nat]
  <2>1. semaphore[t] \in Nat
    BY DEF TaskTypes
  <2> QED
    BY <2>1, CounterFields
<1>5. count' = [hot |-> count.hot, alerts |-> count.alerts, printed |-> count.printed,
                fired |-> [count.fired EXCEPT ![t] = @ + 1],
                merged |-> [count.merged EXCEPT ![t] = @ + semaphore[t]]]
  BY <1>1, <1>2 DEF Counters
<1>6. count' \in Counters
  BY <1>4, <1>5, CounterFields DEF Counters
<1> QED
  BY <1>3, <1>6 DEF TimerCallBack, xSemaphoreGive

LEMMA TaskTypesNext ==
  ASSUME Types, Next
  PROVE  TaskTypes'
<1> USE ConstantFacts DEF Types, TaskTypes
<1>1. CASE xTaskIncrementTick \/ TempI2C \/ I2CHardware
  BY <1>1 DEF xTaskIncrementTick, TempI2C, I2CHardware, appVars, alertVars, tempVars,
     ledVars, queueVars
<1>2. ASSUME NEW t \in Timers, TimerCallBack(t)
      PROVE  TaskTypes'
  <2>1. semaphore' = [semaphore EXCEPT ![t] = 1] /\ count' \in Counters
    <3> HIDE DEF TaskTypes
    <3> QED BY <1>2, CallbackCounts
  <2> QED
    BY <1>2, <2>1 DEF TimerCallBack, alertVars, tempVars, ledVars, queueVars
<1>3. CASE TempTake
  BY <1>3 DEF TempTake, alertVars, ledVars, queueVars
<1>4. CASE TempNotify
  <2>1. count' \in Counters
    <3>1. count' = count \/ count' = [count EXCEPT !.hot = count.hot + 1]
      BY <1>4 DEF TempNotify
    <3>2. count.hot + 1 \in Nat
      BY CounterFields
    <3> QED
      BY <3>1, <3>2, CounterUpdates
  <2>2. ulNotifiedValue' \in Nat
    BY <1>4 DEF TempNotify
  <2>3. notified' \in BOOLEAN
    BY <1>4, Zenon DEF TempNotify
  <2> QED
    BY <1>4, <2>1, <2>2, <2>3 DEF TempNotify, ledVars, queueVars
<1>5. CASE TempSend
  <2>1. xQueueTemp' \in Seq(Nat)
    BY <1>5, SendResult, CounterFields DEF TempSend
  <2> QED
    BY <1>5, <2>1 DEF TempSend, alertVars, ledVars
<1>6. CASE AlertTake
  BY <1>6 DEF AlertTake, tempVars, ledVars, queueVars
<1>7. CASE AlertPrint
  <2>1. count' \in Counters
    <3>1. count' = [count EXCEPT !.alerts = count.alerts + 1]
      BY <1>7 DEF AlertPrint
    <3>2. count.alerts + 1 \in Nat
      BY CounterFields
    <3> QED
      BY <3>1, <3>2, CounterUpdates
  <2> QED
    BY <1>7, <2>1 DEF AlertPrint, tempVars, ledVars, queueVars
<1>8. CASE LEDTake
  BY <1>8 DEF LEDTake, alertVars, tempVars, queueVars
<1>9. ASSUME NEW led \in {"led1", "led2"}, NEW here, NEW next \in {"write2", "toggle"},
             LEDWrite(led, here, next)
      PROVE  TaskTypes'
  <2>1. pin' \in Lights
    BY <1>9 DEF LEDWrite, Lights
  <2> QED
    BY <1>9, <2>1 DEF LEDWrite, alertVars, tempVars, queueVars
<1>10. CASE LEDToggle
  <2>1. LEDval' \in Lights
    BY <1>10 DEF LEDToggle, Toggled, Lights
  <2>2. txLog' \in Record
    <3>1. txLog' = [txLog EXCEPT !.toggleCount = txLog.toggleCount + 1]
      BY <1>10 DEF LEDToggle
    <3>2. txLog.toggleCount + 1 \in Nat
      BY DEF Record
    <3> QED
      BY <3>1, <3>2, RecordUpdates
  <2> QED
    BY <1>10, <2>1, <2>2 DEF LEDToggle, alertVars, tempVars, queueVars
<1>11. CASE LEDStamp
  <2>1. txLog' \in Record
    <3>1. now.tick \in Nat
      BY TickModAssumption DEF TimeTypes, Instant, Ticks
    <3> QED
      BY <1>11, <3>1, RecordUpdates DEF LEDStamp
  <2> QED
    BY <1>11, <2>1 DEF LEDStamp, alertVars, tempVars, queueVars
<1>12. CASE LEDSend
  <2>1. xQueueLED' \in Seq(Record)
    BY <1>12, SendResult DEF LEDSend
  <2> QED
    BY <1>12, <2>1 DEF LEDSend, alertVars, tempVars
<1>13. CASE LoggerPollTemp
  <2>1. xQueueTemp' \in Seq(Nat)
    BY <1>13, TailResult DEF LoggerPollTemp
  <2> QED
    BY <1>13, <2>1 DEF LoggerPollTemp, loggerRest, alertVars, tempVars, ledVars
<1>14. CASE LoggerPollLED
  <2>1. xQueueLED' \in Seq(Record)
    <3>1. xQueueLED # <<>> => Tail(xQueueLED) \in Seq(Record)
      BY TailResult
    <3> QED
      BY <1>14, <3>1 DEF LoggerPollLED
  <2>2. count' \in Counters
    <3>1. xQueueLED # <<>> => Head(xQueueLED) \in Record
      BY TailResult
    <3>2. xQueueLED # <<>> => Head(xQueueLED).toggleCount \in Nat
      BY <3>1 DEF Record
    <3> QED
      BY <1>14, <3>2, CounterUpdates DEF LoggerPollLED
  <2> QED
    BY <1>14, <2>1, <2>2 DEF LoggerPollLED, loggerRest, alertVars, tempVars, ledVars
<1>15. CASE LoggerPrinted
  BY <1>15 DEF LoggerPrinted, AfterLine, loggerRest, alertVars, tempVars, ledVars, queueVars
<1> QED
  BY <1>1, <1>2, <1>3, <1>4, <1>5, <1>6, <1>7, <1>8, <1>9, <1>10, <1>11, <1>12, <1>13,
     <1>14, <1>15
     DEF Next, vTempTimerCallBack, vLEDTimerCallBack, tempTaskCode, alertTaskCode,
         LEDTaskCode, loggerTaskCode

-----------------------------------------------------------------------------
(* Which action changes what.                                               *)

LEMMA WhoChangesWhat ==
  ASSUME Next
  PROVE  /\ xTaskIncrementTick \/ UNCHANGED now
         /\ TempTake \/ TempI2C \/ I2CHardware \/ UNCHANGED i2cVars
         /\ TempTake \/ TempNotify \/ TempSend \/ UNCHANGED tempVars
         /\ TempNotify \/ alertTaskCode \/ UNCHANGED alertVars
         /\ TempSend \/ LoggerPollTemp \/ UNCHANGED xQueueTemp
         /\ LEDTaskCode \/ UNCHANGED ledVars
         /\ LEDSend \/ LoggerPollLED \/ UNCHANGED xQueueLED
<1> USE DEF appVars, i2cVars, alertVars, tempVars, ledVars, queueVars, promiseVars,
            loggerRest
<1>1. CASE xTaskIncrementTick \/ TempI2C \/ I2CHardware
  BY <1>1 DEF xTaskIncrementTick, TempI2C, I2CHardware
<1>2. ASSUME NEW t, TimerCallBack(t)
      PROVE  UNCHANGED <<now, i2cVars, tempVars, alertVars, queueVars, ledVars>>
  BY <1>2 DEF TimerCallBack, Fire
<1>3. CASE TempTake \/ TempNotify \/ TempSend
  BY <1>3 DEF TempTake, TempNotify, TempSend
<1>4. CASE alertTaskCode
  BY <1>4 DEF alertTaskCode, AlertTake, AlertPrint
<1>5. CASE LEDTaskCode
  BY <1>5 DEF LEDTaskCode, LEDTake, LEDWrite, LEDToggle, LEDStamp, LEDSend
<1>6. CASE loggerTaskCode
  BY <1>6 DEF loggerTaskCode, LoggerPollTemp, LoggerPollLED, LoggerPrinted
<1> QED
  BY <1>1, <1>2, <1>3, <1>4, <1>5, <1>6
     DEF Next, vTempTimerCallBack, vLEDTimerCallBack, tempTaskCode

LEMMA TimeNext ==
  ASSUME Types, Next
  PROVE  TimeTypes' /\ now.tick \in Nat /\ now'.tick \in Nat /\ now.tick <= now'.tick
<1> USE TickModAssumption DEF Types, TimeTypes
<1>1. now.tick \in Nat
  BY DEF Instant, Ticks
<1>2. CASE xTaskIncrementTick
  BY <1>1, <1>2, TickAdvances DEF xTaskIncrementTick, Pass
<1>3. CASE UNCHANGED now
  BY <1>1, <1>3
<1> QED
  BY <1>2, <1>3, WhoChangesWhat

-----------------------------------------------------------------------------
(* The I2C read.                                                            *)

\* The register's values are numbers of 16 bits.
LEMMA RegisterType == \A r \in Registers \cup {0} : r \in Nat /\ r < 65536
<1>1. \A r \in Registers : r \in Nat /\ r < 65536
  BY Homework5Assumption
<1> QED
  BY <1>1

LEMMA LatchedType == I2CTypes => latched \in Nat /\ latched < 65536
BY RegisterType DEF I2CTypes

\* A step of the task inside I2CGet2Bytes.
LEMMA TempI2CKeeps ==
  ASSUME Types, I2CInv, TempI2C
  PROVE  I2CTypes' /\ I2CInv'
<1> USE DEF Types, I2CTypes, I2CInv, TempI2C, I2C!I2CGet2Bytes, I2C!Control, I2C!Done,
            FirstByteIn
<1>1. /\ tempPc = "read" /\ tempPc' = tempPc /\ notified' = notified
  BY DEF appVars, tempVars
<1>2. CASE I2C!WaitBusy
  BY <1>1, <1>2 DEF I2C!WaitBusy, I2C!SeenBusy, Outcome
<1>3. CASE I2C!Sent
  BY <1>1, <1>3 DEF I2C!Sent
<1>4. CASE I2C!FirstByte
  BY <1>1, <1>4 DEF I2C!FirstByte
<1>5. CASE I2C!SecondByte
  <2>1. /\ step = 3 /\ step' = 0 /\ result' = I2C!Combined(data_one, data)
        /\ at = "wait_done" /\ master = "idle" /\ data_one' = 0
        /\ UNCHANGED <<at, master, data, latched, unanswered>>
    BY <1>5 DEF I2C!SecondByte
  <2>2. latched \in Nat
    BY LatchedType
  <2>3. Outcome' /\ result' \in Nat
    <3> HIDE DEF Types, I2CTypes, I2CInv, FirstByteIn
    <3>1. CASE unanswered = {} /\ latched \in Registers /\ data_one = latched \div 256
               /\ data = latched % 256
      BY <2>1, <2>2, <3>1, BytesCombine DEF Outcome
    <3>2. CASE unanswered = {3} /\ data_one = latched \div 256 /\ data = data_one
      <4>1. result' = I2C!Combined(latched \div 256, latched \div 256)
        BY <2>1, <3>2
      <4>2. result' = (latched \div 256) * 257
        BY <2>2, <4>1, BytesCombine
      <4>3. result' \in Nat
        BY <2>2, <4>2, BytesCombine
      <4> QED
        BY <2>1, <3>2, <4>2, <4>3 DEF Outcome
    <3>3. CASE unanswered = {2, 3} /\ data_one = 0 /\ data = 0
      BY <2>1, <3>3 DEF Outcome, I2C!Combined
    <3> QED
      BY <2>1, <3>1, <3>2, <3>3 DEF I2CInv, FirstByteIn
  <2> QED
    BY <1>1, <2>1, <2>3
<1> QED
  BY <1>2, <1>3, <1>4, <1>5

\* A step of the hardware.
LEMMA I2CHardwareKeeps ==
  ASSUME Types, I2CInv, I2CHardware
  PROVE  I2CTypes' /\ I2CInv'
<1> USE DEF Types, I2CTypes, I2CInv, I2CHardware, I2C!I2CModule, FirstByteIn
<1>1. tempPc' = tempPc /\ notified' = notified
  BY DEF appVars, tempVars
<1>2. step # 0 /\ step' = step /\ result' = result /\ tempPc = "read"
  BY DEF I2C!RaiseBusy, I2C!Answer, I2C!NoAnswer
<1>3. CASE I2C!RaiseBusy
  BY <1>1, <1>2, <1>3 DEF I2C!RaiseBusy
<1>4. CASE I2C!Answer
  <2>1. master = "busy" /\ master' = "idle" /\ UNCHANGED <<at, data_one, unanswered>>
    BY <1>4 DEF I2C!Answer
  <2>2. CASE step = 1 /\ UNCHANGED <<data, latched>>
    BY <1>1, <1>2, <2>1, <2>2
  <2>3. CASE step = 2 /\ latched' \in Registers /\ data' = latched' \div 256
    <3>1. latched' \in Nat /\ data' \in Nat
      BY <2>3, RegisterType, BytesCombine
    <3>2. unanswered' = {} /\ step' = 2
      BY <1>2, <2>1, <2>3
    <3>3. FirstByteIn(data)'
      BY <2>3, <3>2
    <3>4. I2CTypes'
      BY <1>2, <2>1, <2>3, <3>1
    <3>5. step' = 2 /\ master' = "idle" /\ tempPc' = "read" /\ at' \in {"wait_busy", "wait_done"}
      BY <1>1, <1>2, <2>1, <2>3
    <3> HIDE DEF FirstByteIn, Types, I2CTypes
    <3> QED
      BY <3>3, <3>4, <3>5
  <2>4. CASE step = 3 /\ 2 \notin unanswered /\ data' = latched % 256 /\ UNCHANGED latched
    <3>1. latched \in Nat /\ data' \in Nat
      <4>1. latched \in Nat
        BY LatchedType
      <4> HIDE DEF Types, I2CTypes, I2CInv, FirstByteIn
      <4> QED
        BY <2>4, <4>1, BytesCombine
    <3>2. unanswered = {} /\ latched \in Registers /\ data_one = latched \div 256
      BY <2>1, <2>4
    <3> QED
      BY <1>1, <1>2, <2>1, <2>4, <3>1, <3>2
  <2> QED
    BY <1>4, <2>2, <2>3, <2>4 DEF I2C!Answer
<1>5. CASE I2C!NoAnswer
  <2>1. /\ master = "busy" /\ master' = "idle" /\ UNCHANGED <<at, data_one, data, latched>>
        /\ unanswered' = unanswered \cup ({2, 3} \cap {step})
    BY <1>5 DEF I2C!NoAnswer
  <2>2. CASE step = 1
    <3>1. unanswered' = unanswered
      BY <2>1, <2>2
    <3> QED
      BY <1>1, <1>2, <2>1, <2>2, <3>1
  <2>3. CASE step = 2
    <3>1. unanswered' = {2}
      BY <2>1, <2>3
    <3> QED
      BY <1>1, <1>2, <2>1, <2>3, <3>1
  <2>4. CASE step = 3
    <3>1. \/ unanswered = {} /\ unanswered' = {3}
          \/ unanswered = {2} /\ unanswered' = {2, 3}
      BY <2>1, <2>4
    <3> QED
      BY <1>1, <1>2, <2>1, <2>4, <3>1
  <2> QED
    BY <1>2, <2>2, <2>3, <2>4
<1> QED
  BY <1>3, <1>4, <1>5

LEMMA I2CNext ==
  ASSUME Types, I2CInv, Next
  PROVE  I2CTypes' /\ I2CInv'
<1> USE DEF Types, I2CTypes, I2CInv
<1>1. CASE TempTake
  BY <1>1 DEF TempTake, I2C!Call, I2C!Control, I2C!RegisterAddress
<1>2. CASE TempI2C \/ I2CHardware
  <2> HIDE DEF Types, I2CTypes, I2CInv
  <2> QED BY <1>2, TempI2CKeeps, I2CHardwareKeeps
<1>3. CASE TempNotify
  <2>1. tempPc = "read" /\ step = 0 /\ tempPc' = "send" /\ UNCHANGED i2cVars
    BY <1>3 DEF TempNotify
  <2>2. notified' <=> Hot(result)
    BY <1>3, Zenon DEF TempNotify
  <2>3. Hot(result)' <=> Hot(result)
    BY <2>1 DEF Hot, readTemp, i2cVars
  <2> QED
    BY <2>1, <2>2, <2>3 DEF i2cVars, FirstByteIn, Outcome
<1>4. CASE TempSend
  BY <1>4 DEF TempSend, i2cVars, FirstByteIn, Outcome
<1>5. CASE UNCHANGED i2cVars /\ UNCHANGED tempVars
  <2>1. Hot(result)' <=> Hot(result)
    BY <1>5 DEF Hot, readTemp, i2cVars
  <2> QED
    BY <1>5, <2>1 DEF i2cVars, tempVars, FirstByteIn, Outcome
<1> QED
  BY <1>1, <1>2, <1>3, <1>4, <1>5, WhoChangesWhat

-----------------------------------------------------------------------------
(* The alerts.                                                              *)

\* The steps that change what AlertsInv is about; the others keep these two counts.
LEMMA OthersKeepAlerts ==
  ASSUME TaskTypes, Next
  PROVE  \/ TempNotify \/ TempSend \/ alertTaskCode \/ LoggerPollTemp
         \/ /\ UNCHANGED <<alertVars, xQueueTemp>>
            /\ count'.hot = count.hot /\ count'.alerts = count.alerts
<1> USE DEF appVars, i2cVars, alertVars, tempVars, ledVars, queueVars, promiseVars,
            loggerRest
<1>1. CASE xTaskIncrementTick \/ TempI2C \/ I2CHardware \/ TempTake
  BY <1>1 DEF xTaskIncrementTick, TempI2C, I2CHardware, TempTake
<1>2. ASSUME NEW t \in Timers, TimerCallBack(t)
      PROVE  /\ UNCHANGED <<alertVars, xQueueTemp>>
             /\ count'.hot = count.hot /\ count'.alerts = count.alerts
  <2>1. UNCHANGED <<alertVars, xQueueTemp>>
    BY <1>2 DEF TimerCallBack
  <2> QED
    BY <1>2, <2>1, CallbackCounts
<1>3. CASE LEDTaskCode
  BY <1>3 DEF LEDTaskCode, LEDTake, LEDWrite, LEDToggle, LEDStamp, LEDSend
<1>4. CASE LoggerPollLED
  BY <1>4 DEF LoggerPollLED, TaskTypes, Counters
<1>5. CASE LoggerPrinted
  BY <1>5 DEF LoggerPrinted
<1> QED
  BY <1>1, <1>2, <1>3, <1>4, <1>5, ConstantFacts
     DEF Next, vTempTimerCallBack, vLEDTimerCallBack, tempTaskCode, loggerTaskCode

LEMMA AlertsNext ==
  ASSUME TaskTypes, AlertsInv, Next
  PROVE  AlertsInv'
<1> USE CounterFields DEF AlertsInv, Pending
<1>1. CASE TempNotify
  <2>1. /\ alertPc # "print" /\ ulNotifiedValue = 0 /\ alertPc' = alertPc
        /\ xQueueTemp' = xQueueTemp
    BY <1>1 DEF TempNotify, LowTaskRuns, AlertReady, TaskTypes, queueVars
  <2>2. count.hot = count.alerts
    BY <2>1
  <2>3. \/ /\ ulNotifiedValue' = 1
           /\ count'.hot = count.hot + 1 /\ count'.alerts = count.alerts
        \/ ulNotifiedValue' = 0 /\ count' = count
    BY <1>1, <2>1 DEF TempNotify, TaskTypes, Counters
  <2> QED
    BY <2>1, <2>2, <2>3
<1>2. CASE TempSend
  <2>1. alertPc # "print" /\ ulNotifiedValue = 0 /\ UNCHANGED <<alertPc, ulNotifiedValue, count>>
    BY <1>2 DEF TempSend, LowTaskRuns, AlertReady, TaskTypes, alertVars
  <2>2. count.hot = count.alerts
    BY <2>1
  <2>3. xQueueTemp' = xQueueSend(xQueueTemp, count.hot) /\ xQueueTemp \in Seq(Nat)
    BY <1>2 DEF TempSend, TaskTypes
  <2>4. \/ xQueueTemp' = xQueueTemp
        \/ /\ Len(xQueueTemp') = Len(xQueueTemp) + 1
           /\ xQueueTemp'[Len(xQueueTemp) + 1] = count.hot
           /\ \A k \in 1..Len(xQueueTemp) : xQueueTemp'[k] = xQueueTemp[k]
    <3>1. count.hot \in Nat
      OBVIOUS
    <3> HIDE DEF AlertsInv, Pending
    <3>2. xQueueTemp' = xQueueTemp \/ xQueueTemp' = Append(xQueueTemp, count.hot)
      BY <2>3 DEF xQueueSend
    <3> QED
      BY <2>3, <3>1, <3>2
  <2>5. ASSUME NEW k \in 1..Len(xQueueTemp')
        PROVE  xQueueTemp'[k] <= count.alerts
    <3>1. Len(xQueueTemp) \in Nat
      BY <2>3
    <3>2. k \in 1..Len(xQueueTemp) \/ (k = Len(xQueueTemp) + 1 /\ xQueueTemp'[k] = count.hot)
      BY <2>4, <3>1
    <3> QED
      BY <2>2, <2>4, <3>2
  <2> QED
    BY <2>1, <2>5
<1>3. CASE AlertTake
  <2>1. /\ ulNotifiedValue > 0 /\ ulNotifiedValue' = 0 /\ alertPc = "take" /\ alertPc' = "print"
        /\ UNCHANGED <<count, xQueueTemp>>
    BY <1>3 DEF AlertTake, queueVars
  <2> QED
    BY <2>1 DEF TaskTypes
<1>4. CASE AlertPrint
  <2>1. /\ alertPc = "print" /\ alertPc' = "take"
        /\ UNCHANGED <<ulNotifiedValue, xQueueTemp>>
        /\ count'.hot = count.hot /\ count'.alerts = count.alerts + 1
    BY <1>4 DEF AlertPrint, queueVars, TaskTypes, Counters
  <2>2. \A k \in 1..Len(xQueueTemp) : xQueueTemp[k] \in Nat
    BY DEF TaskTypes
  <2>3. /\ \A k \in 1..Len(xQueueTemp) : xQueueTemp[k] <= count.alerts + 1
    BY <2>2
  <2> QED
    BY <2>1, <2>3 DEF TaskTypes
<1>5. CASE LoggerPollTemp
  <2>1. UNCHANGED <<ulNotifiedValue, alertPc, count>>
    BY <1>5 DEF LoggerPollTemp, loggerRest, alertVars
  <2>2. xQueueTemp' = xQueueTemp \/ (xQueueTemp # <<>> /\ xQueueTemp' = Tail(xQueueTemp))
    BY <1>5 DEF LoggerPollTemp
  <2>3. \A k \in 1..Len(xQueueTemp') : xQueueTemp'[k] <= count.alerts
    <3>1. xQueueTemp \in Seq(Nat)
      BY DEF TaskTypes
    <3>2. CASE xQueueTemp # <<>> /\ xQueueTemp' = Tail(xQueueTemp)
      <4>1. /\ Len(xQueueTemp) \in Nat \ {0} /\ Len(xQueueTemp') = Len(xQueueTemp) - 1
            /\ \A k \in 1..Len(xQueueTemp') : xQueueTemp'[k] = xQueueTemp[k + 1]
        BY <3>1, <3>2, TailResult
      <4>2. \A k \in 1..Len(xQueueTemp') : k + 1 \in 1..Len(xQueueTemp)
        BY <4>1
      <4> QED
        BY <4>1, <4>2
    <3> QED
      BY <2>2, <3>2
  <2> QED
    BY <2>1, <2>3
<1>6. CASE /\ UNCHANGED <<alertVars, xQueueTemp>>
           /\ count'.hot = count.hot /\ count'.alerts = count.alerts
  BY <1>6 DEF alertVars
<1> QED
  BY <1>1, <1>2, <1>3, <1>4, <1>5, <1>6, OthersKeepAlerts DEF alertTaskCode

-----------------------------------------------------------------------------
(* The LEDs.                                                                *)

\* One more toggle turns the parity.
LEMMA ParityTurns ==
  ASSUME NEW n \in Nat
  PROVE  (n + 1) % 2 = 1 - (n % 2) /\ n % 2 \in 0..1
OBVIOUS

LEMMA LightsNext ==
  ASSUME TaskTypes, LightsInv, Next
  PROVE  LightsInv'
<1> USE DEF LightsInv
<1>1. /\ txLog.toggleCount \in Nat /\ LEDval.led1 \in 0..1 /\ LEDval.led2 \in 0..1
      /\ pin.led1 \in 0..1 /\ pin.led2 \in 0..1
  BY DEF TaskTypes, Record, Lights
<1>2. CASE LEDTake
  BY <1>2 DEF LEDTake
<1>3. CASE LEDWrite("led1", "write1", "write2")
  <2>1. /\ ledPc' = "write2" /\ pin'.led1 = LEDval.led1
        /\ UNCHANGED <<LEDval, txLog>>
    BY <1>3 DEF LEDWrite, TaskTypes, Lights
  <2> QED
    BY <2>1
<1>4. CASE LEDWrite("led2", "write2", "toggle")
  <2>1. /\ ledPc = "write2" /\ ledPc' = "toggle" /\ pin'.led1 = pin.led1 /\ pin'.led2 = LEDval.led2
        /\ UNCHANGED <<LEDval, txLog>>
    BY <1>4 DEF LEDWrite, TaskTypes, Lights
  <2> QED
    BY <2>1
<1>5. CASE LEDToggle
  <2>1. /\ ledPc = "toggle" /\ ledPc' = "stamp" /\ pin' = pin
        /\ LEDval'.led1 = 1 - LEDval.led1 /\ LEDval'.led2 = 1 - LEDval.led2
        /\ txLog'.toggleCount = txLog.toggleCount + 1
    BY <1>5 DEF LEDToggle, Toggled, TaskTypes, Record
  <2>2. txLog'.toggleCount % 2 = 1 - (txLog.toggleCount % 2)
    BY <1>1, <2>1, ParityTurns
  <2> QED
    BY <1>1, <2>1, <2>2
<1>6. CASE LEDStamp
  <2>1. /\ ledPc = "stamp" /\ ledPc' = "send" /\ UNCHANGED <<pin, LEDval>>
        /\ txLog'.toggleCount = txLog.toggleCount
    BY <1>6 DEF LEDStamp, TaskTypes, Record
  <2> QED
    BY <2>1
<1>7. CASE LEDSend
  BY <1>7 DEF LEDSend
<1>8. CASE UNCHANGED ledVars
  BY <1>8 DEF ledVars
<1> QED
  BY <1>2, <1>3, <1>4, <1>5, <1>6, <1>7, <1>8, WhoChangesWhat DEF LEDTaskCode

\* What the LED timer's semaphore and counters are after a step of each kind.
LEMMA TogglesNext ==
  ASSUME TaskTypes, TogglesAccounted, Next
  PROVE  TogglesAccounted'
<1> DEFINE sem == semaphore["LEDTimer"]
           fired == count.fired["LEDTimer"]
           merged == count.merged["LEDTimer"]
<1> USE DEF TogglesAccounted
<1>1. /\ sem \in 0..1 /\ fired \in Nat /\ merged \in Nat /\ txLog.toggleCount \in Nat
  BY ConstantFacts, CounterFields DEF TaskTypes, Record
<1>2. ASSUME NEW t \in Timers, TimerCallBack(t)
      PROVE  TogglesAccounted'
  <2>1. UNCHANGED <<txLog, ledPc>>
    BY <1>2 DEF TimerCallBack, ledVars
  <2>2. CASE t = "LEDTimer"
    <3>1. sem' = 1 /\ fired' = fired + 1 /\ merged' = merged + sem
      BY <1>2, <2>2, CallbackCounts, CounterFields DEF TaskTypes
    <3> QED
      BY <1>1, <2>1, <3>1
  <2>3. CASE t # "LEDTimer"
    <3>1. sem' = sem /\ fired' = fired /\ merged' = merged
      <4>1. /\ semaphore' = [semaphore EXCEPT ![t] = 1]
            /\ count'.fired = [count.fired EXCEPT ![t] = count.fired[t] + 1]
            /\ count'.merged = [count.merged EXCEPT ![t] = count.merged[t] + semaphore[t]]
        BY <1>2, CallbackCounts
      <4>2. "LEDTimer" \in Timers /\ semaphore \in [Timers -> 0..1]
        BY ConstantFacts DEF TaskTypes
      <4> HIDE DEF TogglesAccounted
      <4> QED
        BY <2>3, <4>1, <4>2, CounterFields
    <3> QED
      BY <1>1, <2>1, <3>1
  <2> QED
    BY <2>2, <2>3
<1>3. CASE TempTake
  <2>1. semaphore' = [semaphore EXCEPT !["TempTimer"] = 0] /\ UNCHANGED <<txLog, ledPc, count>>
    BY <1>3 DEF TempTake, ledVars
  <2>2. sem' = sem
    BY <2>1 DEF TaskTypes
  <2> QED
    BY <2>1, <2>2
<1>4. CASE LEDTake
  <2>1. sem = 1 /\ sem' = 0 /\ ledPc = "take" /\ ledPc' = "write1" /\ UNCHANGED <<txLog, count>>
    BY <1>4, ConstantFacts DEF LEDTake, TaskTypes
  <2> QED
    BY <1>1, <2>1
<1>5. CASE \/ LEDWrite("led1", "write1", "write2") \/ LEDWrite("led2", "write2", "toggle")
           \/ LEDSend
  BY <1>5 DEF LEDWrite, LEDSend
<1>6. CASE LEDToggle
  <2>1. /\ ledPc = "toggle" /\ ledPc' = "stamp" /\ UNCHANGED <<semaphore, count>>
        /\ txLog'.toggleCount = txLog.toggleCount + 1
    BY <1>6 DEF LEDToggle, TaskTypes, Record
  <2> QED
    BY <1>1, <2>1
<1>7. CASE LEDStamp
  <2>1. /\ ledPc = "stamp" /\ ledPc' = "send" /\ UNCHANGED <<semaphore, count>>
        /\ txLog'.toggleCount = txLog.toggleCount
    BY <1>7 DEF LEDStamp, TaskTypes, Record
  <2> QED
    BY <2>1
<1>8. CASE xTaskIncrementTick \/ TempI2C \/ I2CHardware
  BY <1>8 DEF xTaskIncrementTick, TempI2C, I2CHardware, appVars, ledVars
<1>9. CASE TempNotify
  <2>1. UNCHANGED <<semaphore, txLog, ledPc>> /\ fired' = fired /\ merged' = merged
    BY <1>9 DEF TempNotify, ledVars, TaskTypes, Counters
  <2> QED
    BY <2>1
<1>10. CASE TempSend \/ AlertTake
  BY <1>10 DEF TempSend, AlertTake, ledVars
<1>11. CASE AlertPrint
  <2>1. UNCHANGED <<semaphore, txLog, ledPc>> /\ fired' = fired /\ merged' = merged
    BY <1>11 DEF AlertPrint, ledVars, TaskTypes, Counters
  <2> QED
    BY <2>1
<1>12. CASE LoggerPollTemp \/ LoggerPrinted
  BY <1>12 DEF LoggerPollTemp, LoggerPrinted, loggerRest, ledVars
<1>13. CASE LoggerPollLED
  <2>1. UNCHANGED <<semaphore, txLog, ledPc>> /\ fired' = fired /\ merged' = merged
    BY <1>13 DEF LoggerPollLED, loggerRest, ledVars, TaskTypes, Counters
  <2> QED
    BY <2>1
<1> QED
  BY <1>2, <1>3, <1>4, <1>5, <1>6, <1>7, <1>8, <1>9, <1>10, <1>11, <1>12, <1>13,
     ConstantFacts
     DEF Next, vTempTimerCallBack, vLEDTimerCallBack, tempTaskCode, alertTaskCode,
         LEDTaskCode, loggerTaskCode

-----------------------------------------------------------------------------
(* The log.                                                                 *)

\* The steps that change what LogInv is about; the others keep it, and the time does not
\* go back.
LEMMA OthersKeepLog ==
  ASSUME TaskTypes, Next
  PROVE  \/ LEDTaskCode \/ LoggerPollLED
         \/ /\ UNCHANGED <<ledVars, xQueueLED>>
            /\ count'.printed = count.printed
<1> USE DEF appVars, i2cVars, alertVars, tempVars, ledVars, queueVars, promiseVars,
            loggerRest
<1>1. CASE xTaskIncrementTick \/ TempI2C \/ I2CHardware \/ TempTake \/ TempSend
  BY <1>1 DEF xTaskIncrementTick, TempI2C, I2CHardware, TempTake, TempSend
<1>2. ASSUME NEW t \in Timers, TimerCallBack(t)
      PROVE  UNCHANGED <<ledVars, xQueueLED>> /\ count'.printed = count.printed
  <2>1. UNCHANGED <<ledVars, xQueueLED>>
    BY <1>2 DEF TimerCallBack
  <2> QED
    BY <1>2, <2>1, CallbackCounts
<1>3. CASE TempNotify
  BY <1>3 DEF TempNotify, TaskTypes, Counters
<1>4. CASE alertTaskCode
  BY <1>4 DEF alertTaskCode, AlertTake, AlertPrint, TaskTypes, Counters
<1>5. CASE LoggerPollTemp \/ LoggerPrinted
  BY <1>5 DEF LoggerPollTemp, LoggerPrinted
<1> QED
  BY <1>1, <1>2, <1>3, <1>4, <1>5, ConstantFacts
     DEF Next, vTempTimerCallBack, vLEDTimerCallBack, tempTaskCode, loggerTaskCode

LEMMA LogNext ==
  ASSUME Types, LogInv, Next
  PROVE  LogInv'
<1>1. /\ TaskTypes
      /\ txLog.toggleCount \in Nat /\ txLog.timestamp \in Nat /\ count.printed \in Nat
      /\ Len(xQueueLED) \in Nat
      /\ \A k \in 1..Len(xQueueLED) :
           xQueueLED[k].toggleCount \in Nat /\ xQueueLED[k].timestamp \in Nat
  <2>1. TaskTypes /\ txLog \in Record /\ xQueueLED \in Seq(Record)
    BY DEF Types, TaskTypes
  <2>2. count.printed \in Nat
    BY <2>1, CounterFields
  <2>3. Len(xQueueLED) \in Nat /\ \A k \in 1..Len(xQueueLED) : xQueueLED[k] \in Record
    BY <2>1
  <2> QED
    BY <2>1, <2>2, <2>3 DEF Record
<1>2. /\ now.tick \in Nat /\ now'.tick \in Nat /\ now.tick <= now'.tick
  BY TimeNext
<1>3. CASE \/ LEDTake \/ LEDWrite("led1", "write1", "write2")
           \/ LEDWrite("led2", "write2", "toggle")
  <2>1. UNCHANGED <<txLog, xQueueLED, count, now>> /\ ~Unsent /\ ~Unsent'
    BY <1>3 DEF LEDTake, LEDWrite, Unsent, queueVars, promiseVars
  <2> QED
    BY <2>1 DEF LogInv, Older
<1>4. CASE LEDToggle
  <2>1. /\ UNCHANGED <<xQueueLED, count, now>> /\ ~Unsent /\ Unsent'
        /\ txLog'.toggleCount = txLog.toggleCount + 1 /\ txLog'.timestamp = txLog.timestamp
    BY <1>1, <1>4 DEF LEDToggle, Unsent, queueVars, promiseVars, TaskTypes, Record
  <2> QED
    BY <1>1, <2>1 DEF LogInv, Older
<1>5. CASE LEDStamp
  <2>1. /\ UNCHANGED <<xQueueLED, count, now>> /\ Unsent /\ Unsent'
        /\ txLog'.toggleCount = txLog.toggleCount /\ txLog'.timestamp = now.tick
    BY <1>1, <1>5 DEF LEDStamp, Unsent, queueVars, promiseVars, TaskTypes, Record
  <2>2. \A k \in 1..Len(xQueueLED) : xQueueLED[k].timestamp <= now.tick
    BY <1>1, <1>2 DEF LogInv
  <2> QED
    BY <1>1, <1>2, <2>1, <2>2 DEF LogInv, Older
<1>6. CASE LEDSend
  <2>1. UNCHANGED <<txLog, count, now>> /\ Unsent /\ ~Unsent'
    BY <1>6 DEF LEDSend, Unsent, promiseVars
  <2>2. \/ xQueueLED' = xQueueLED
        \/ /\ Len(xQueueLED') = Len(xQueueLED) + 1
           /\ xQueueLED'[Len(xQueueLED) + 1] = txLog
           /\ \A k \in 1..Len(xQueueLED) : xQueueLED'[k] = xQueueLED[k]
    <3>1. xQueueLED' = xQueueLED \/ xQueueLED' = Append(xQueueLED, txLog)
      BY <1>6 DEF LEDSend, xQueueSend
    <3>2. xQueueLED \in Seq(Record) /\ txLog \in Record
      BY <1>1 DEF TaskTypes
    <3> QED
      BY <3>1, <3>2
  <2>3. CASE xQueueLED' = xQueueLED
    <3>1. \A n \in Nat : Older(n) => Older(n)'
      BY <1>1, <2>1 DEF Older
    <3> QED
      BY <1>1, <2>1, <2>3, <3>1 DEF LogInv
  <2>4. CASE /\ Len(xQueueLED') = Len(xQueueLED) + 1
             /\ xQueueLED'[Len(xQueueLED) + 1] = txLog
             /\ \A k \in 1..Len(xQueueLED) : xQueueLED'[k] = xQueueLED[k]
    <3>1. \A k \in 1..Len(xQueueLED') :
            \/ k \in 1..Len(xQueueLED) /\ xQueueLED'[k] = xQueueLED[k]
            \/ k = Len(xQueueLED) + 1 /\ xQueueLED'[k] = txLog
      BY <1>1, <2>4
    <3>2. \A k \in 1..Len(xQueueLED) : /\ xQueueLED[k].toggleCount < txLog.toggleCount
                                       /\ xQueueLED[k].timestamp <= txLog.timestamp
      BY <2>1 DEF LogInv, Older
    <3>3. \A k \in 1..Len(xQueueLED') :
            /\ xQueueLED'[k].toggleCount <= txLog.toggleCount
            /\ count.printed < xQueueLED'[k].toggleCount
            /\ xQueueLED'[k].timestamp <= txLog.timestamp
      <4>1. count.printed < txLog.toggleCount
        BY <2>1 DEF LogInv, Older
      <4> QED
        BY <1>1, <3>1, <3>2, <4>1 DEF LogInv
    <3>4. \A j, k \in 1..Len(xQueueLED') : j < k =>
            /\ xQueueLED'[j].toggleCount < xQueueLED'[k].toggleCount
            /\ xQueueLED'[j].timestamp <= xQueueLED'[k].timestamp
      <4> SUFFICES ASSUME NEW j \in 1..Len(xQueueLED'), NEW k \in 1..Len(xQueueLED'), j < k
                   PROVE  /\ xQueueLED'[j].toggleCount < xQueueLED'[k].toggleCount
                          /\ xQueueLED'[j].timestamp <= xQueueLED'[k].timestamp
        OBVIOUS
      <4>1. j \in 1..Len(xQueueLED) /\ xQueueLED'[j] = xQueueLED[j]
        BY <1>1, <2>4, <3>1
      <4>2. CASE k \in 1..Len(xQueueLED)
        BY <2>4, <4>1, <4>2 DEF LogInv
      <4>3. CASE k = Len(xQueueLED) + 1
        BY <2>4, <3>2, <4>1, <4>3
      <4> QED
        BY <3>1, <4>2, <4>3
    <3> QED
      BY <1>1, <2>1, <3>3, <3>4 DEF LogInv, Older
  <2> QED
    BY <2>2, <2>3, <2>4
<1>7. CASE LoggerPollLED
  <2>1. UNCHANGED <<txLog, now, ledPc>>
    BY <1>7 DEF LoggerPollLED, loggerRest, ledVars, promiseVars
  <2>2. CASE xQueueLED' = xQueueLED /\ count' = count
    BY <2>1, <2>2 DEF LogInv, Older, Unsent
  <2>3. CASE /\ xQueueLED # <<>> /\ xQueueLED' = Tail(xQueueLED)
             /\ count' = [count EXCEPT !.printed = Head(xQueueLED).toggleCount]
    <3>1. /\ Len(xQueueLED) \in Nat \ {0} /\ Len(xQueueLED') = Len(xQueueLED) - 1
          /\ Head(xQueueLED) = xQueueLED[1]
          /\ \A k \in 1..Len(xQueueLED') : xQueueLED'[k] = xQueueLED[k + 1]
      BY <1>1, <2>3, TailResult DEF TaskTypes
    <3>2. count'.printed = xQueueLED[1].toggleCount
      BY <1>1, <2>3, <3>1 DEF TaskTypes, Counters
    <3>3. 1 \in 1..Len(xQueueLED)
      BY <3>1
    <3>4. \A k \in 1..Len(xQueueLED') : k + 1 \in 1..Len(xQueueLED) /\ 1 < k + 1
      BY <3>1
    <3>5. \A k \in 1..Len(xQueueLED') :
            /\ Older(xQueueLED'[k].toggleCount)
            /\ count'.printed < xQueueLED'[k].toggleCount
            /\ xQueueLED'[k].timestamp <= txLog.timestamp
      BY <3>1, <3>2, <3>3, <3>4 DEF LogInv
    <3>6. \A j, k \in 1..Len(xQueueLED') : j < k =>
            /\ xQueueLED'[j].toggleCount < xQueueLED'[k].toggleCount
            /\ xQueueLED'[j].timestamp <= xQueueLED'[k].timestamp
      BY <3>1, <3>4 DEF LogInv
    <3>7. Older(count'.printed)
      BY <3>2, <3>3 DEF LogInv
    <3> QED
      BY <2>1, <3>5, <3>6, <3>7 DEF LogInv, Older, Unsent
  <2> QED
    BY <1>7, <2>2, <2>3 DEF LoggerPollLED
<1>8. CASE UNCHANGED <<ledVars, xQueueLED>> /\ count'.printed = count.printed
  <2>1. UNCHANGED <<txLog, ledPc, xQueueLED>>
    BY <1>8 DEF ledVars
  <2>2. txLog.timestamp <= now'.tick
    BY <1>1, <1>2 DEF LogInv
  <2> QED
    BY <1>8, <2>1, <2>2 DEF LogInv, Older, Unsent
<1> QED
  BY <1>1, <1>3, <1>4, <1>5, <1>6, <1>7, <1>8, OthersKeepLog DEF LEDTaskCode

-----------------------------------------------------------------------------
(* The theorems.                                                            *)

\* A step that changes no variable.
LEMMA StutterKeeps == ASSUME IInv, UNCHANGED vars PROVE IInv'
<1> USE DEF vars, appVars, alertVars, tempVars, ledVars, queueVars, i2cVars, promiseVars,
            IInv, Types
<1>1. TaskTypes' /\ TimeTypes' /\ I2CTypes'
  BY DEF TaskTypes, TimeTypes, I2CTypes
<1>2. AlertsInv'
  BY DEF AlertsInv, Pending
<1>3. I2CInv'
  BY DEF I2CInv, FirstByteIn, Outcome, Hot, readTemp
<1>4. LightsInv' /\ TogglesAccounted'
  BY DEF LightsInv, TogglesAccounted
<1>5. LogInv'
  BY DEF LogInv, Older, Unsent
<1> QED
  BY <1>1, <1>2, <1>3, <1>4, <1>5

\* The invariant holds throughout, of every interleaving of the daemon, the four tasks,
\* the tick and the I2C hardware.
THEOREM ApplicationInvariant == Spec => []IInv
<1>1. IInv /\ [Next]_vars => IInv'
  <2>1. ASSUME IInv, Next PROVE IInv'
    BY <2>1, TaskTypesNext, TimeNext, I2CNext, AlertsNext, LightsNext, TogglesNext, LogNext
       DEF IInv, Types
  <2> QED
    BY <2>1, StutterKeeps
<1> QED
  BY InitIInv, <1>1, PTL DEF Spec

\* Every hot reading is announced, each on its own, before its record is sent: the
\* notifications of tempTaskCode never merge in alertTaskCode's ulTaskNotifyTake.
THEOREM AlertsPrecedeRecords == Spec => []AlertBeforeRecord
<1>1. IInv => AlertBeforeRecord
  <2> SUFFICES ASSUME IInv PROVE AlertBeforeRecord
    OBVIOUS
  <2>1. ulNotifiedValue \in Nat /\ Pending <= 1 /\ count.hot = count.alerts + Pending
    BY DEF IInv, Types, TaskTypes, AlertsInv
  <2>2. ulNotifiedValue <= 1
    BY <2>1 DEF Pending
  <2>3. ~AlertReady => count.hot = count.alerts
    <3>1. count.alerts \in Nat
      BY CounterFields DEF IInv, Types
    <3> QED
      BY <2>1, <3>1 DEF Pending, AlertReady
  <2> QED
    BY <2>2, <2>3 DEF AlertBeforeRecord, IInv, AlertsInv
<1> QED
  BY <1>1, ApplicationInvariant, PTL

\* However long the task is preempted between the polls of I2CGet2Bytes, it returns the
\* two bytes of one reading, or what an unanswered transaction leaves, and no old byte.
THEOREM RegisterIsReturned == Spec => []ReturnsTheRegister
<1>1. IInv => ReturnsTheRegister
  BY DEF IInv, I2CInv, Outcome, ReturnsTheRegister, I2C!RegisterAddress
<1> QED
  BY <1>1, ApplicationInvariant, PTL

\* Of the readings that are not below zero tempTaskCode notifies the alert task of exactly
\* those above the threshold, in both modes of the sensor, and of none that was not
\* answered.
THEOREM NotifiedIffHot == Spec => []AlertIffHot
<1>1. IInv => AlertIffHot
  <2> SUFFICES ASSUME IInv, tempPc = "send"
               PROVE  /\ unanswered = {} /\ Measured(latched) >= 0 =>
                           (notified <=> Measured(latched) > TEMPERATURE_THRESHOLD)
                      /\ unanswered = {2, 3} => ~notified
    BY DEF AlertIffHot
  <2>1. step = 0 /\ Outcome /\ (notified <=> Hot(result))
    BY DEF IInv, I2CInv
  <2>2. ASSUME unanswered = {}, Measured(latched) >= 0
        PROVE  Hot(result) <=> Measured(latched) > TEMPERATURE_THRESHOLD
    <3>1. result = latched
      BY <2>1, <2>2 DEF Outcome
    <3>2. latched \in Nat /\ latched < 65536
      BY LatchedType DEF IInv, Types
    <3> QED
      BY <2>2, <3>1, <3>2, HotIffMeasured
  <2>3. ASSUME unanswered = {2, 3}
        PROVE  ~Hot(result)
    <3>1. result = 0
      BY <2>1, <2>3 DEF Outcome
    <3> QED
      BY <3>1 DEF Hot, readTemp, TEMPERATURE_THRESHOLD
  <2> QED
    BY <2>1, <2>2, <2>3, Zenon
<1> QED
  BY <1>1, ApplicationInvariant, PTL

\* Each toggle of LEDTaskCode stands for one giving of its semaphore; only a giving that
\* finds the last one untaken is without a toggle.
THEOREM EveryToggleAccounted == Spec => []TogglesAccounted
<1>1. IInv => TogglesAccounted
  BY DEF IInv
<1> QED
  BY <1>1, ApplicationInvariant, PTL

\* When LEDTaskCode waits, the pins show the LED that the parity of its count names.
THEOREM LEDsShowParity == Spec => []LEDsMatchCount
<1>1. IInv => LEDsMatchCount
  <2> SUFFICES ASSUME IInv, ledPc = "take", txLog.toggleCount > 0
               PROVE  /\ pin.led1 = (txLog.toggleCount + 1) % 2
                      /\ pin.led2 = 1 - pin.led1
    BY DEF LEDsMatchCount
  <2>1. txLog.toggleCount \in Nat
    BY DEF IInv, Types, TaskTypes, Record
  <2>2. (txLog.toggleCount + 1) % 2 = 1 - (txLog.toggleCount % 2)
    BY <2>1, ParityTurns
  <2>3. /\ LEDval.led1 = txLog.toggleCount % 2 /\ LEDval.led2 = 1 - LEDval.led1
        /\ pin.led1 = 1 - LEDval.led1 /\ pin.led2 = 1 - LEDval.led2
    BY DEF IInv, LightsInv
  <2>4. LEDval.led1 \in 0..1
    BY DEF IInv, Types, TaskTypes, Lights
  <2>5. pin.led1 = (txLog.toggleCount + 1) % 2
    BY <2>1, <2>2, <2>3, <2>4
  <2>6. pin.led2 = 1 - pin.led1
    BY <2>3, <2>4
  <2> QED
    BY <2>5, <2>6
<1> QED
  BY <1>1, ApplicationInvariant, PTL

\* The records reach loggerTaskCode in the order of their counts and times, although a
\* full queue drops some.
THEOREM LogKeepsOrder == Spec => []LogInOrder
<1>1. IInv => LogInOrder
  <2> SUFFICES ASSUME IInv PROVE LogInOrder
    OBVIOUS
  <2>1. \A k \in 1..Len(xQueueLED) : xQueueLED[k].timestamp <= now.tick
    <3>1. /\ xQueueLED \in Seq(Record)
          /\ txLog.timestamp \in Nat /\ now.tick \in Nat
      <4>1. xQueueLED \in Seq(Record) /\ txLog \in Record /\ now \in Instant
        BY DEF IInv, Types, TaskTypes, TimeTypes
      <4> QED
        BY <4>1, TickModAssumption DEF Record, Instant, Ticks
    <3>2. \A k \in 1..Len(xQueueLED) : xQueueLED[k].timestamp \in Nat
      <4>1. \A k \in 1..Len(xQueueLED) : xQueueLED[k] \in Record
        BY <3>1
      <4> QED
        BY <4>1 DEF Record
    <3> QED
      BY <3>1, <3>2 DEF IInv, LogInv
  <2> QED
    BY <2>1 DEF LogInOrder, IInv, LogInv
<1> QED
  BY <1>1, ApplicationInvariant, PTL
==============================================================================
