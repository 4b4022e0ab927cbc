------------------------------ MODULE I2CHelper ------------------------------
(***************************************************************************)
(* i2cHelper.c: the temperature task reads a two-byte register of a slave   *)
(* through the I2C master module, in three transactions: it sends the       *)
(* register's address, receives the first byte and receives the second.     *)
(* After each command it polls I2CMasterBusy, first until the module says   *)
(* it is busy (its busy flag comes up late, erratum I2C#08) and then until  *)
(* it is done.  The module and the sensor are external: they go through a   *)
(* transaction in their own time, also while the task is preempted, and the *)
(* sensor may leave one unanswered; I2CMasterErr is never called.           *)
(*                                                                          *)
(* The steps of one component; Homework5 schedules them with the tasks.     *)
(***************************************************************************)
EXTENDS Naturals

CONSTANT Words     \* values the sensor's register may have (16 bits)

VARIABLES
  step,      \* the transaction I2CGet2Bytes is at; 0 outside a call
  at,        \* which of its two waits: "wait_busy" or "wait_done"
  result,    \* what the last call returned
  data_one,  \* the first byte
  master,    \* the module: "idle", "commanded" (flag not yet up), "busy"
  data,      \* its data register
  latched,   \* the sensor's register, latched for a read; 0 before
  unanswered \* ghost: the receives of this call the sensor did not answer

i2cVars == <<step, at, result, data_one, master, data, latched, unanswered>>

RegisterAddress == 0

I2CInit ==
  /\ step = 0 /\ at = "wait_done" /\ result = 0 /\ data_one = 0
  /\ master = "idle" /\ data = 0 /\ latched = 0 /\ unanswered = {}

-----------------------------------------------------------------------------
(* I2CGet2Bytes.  I2CMasterControl gives a command and returns at once.  The  *)
(* task may be preempted between any two polls; between the end of one       *)
(* transaction and the command for the next the module is idle, and the step *)
(* from the one to the other is taken whole.                                 *)

\* I2CMasterControl for transaction n.
Control(n) ==
  /\ step' = n /\ at' = "wait_busy"
  /\ master' = "commanded"

\* The call: the register's address is put into the data register and sent.
Call ==
  /\ step = 0
  /\ data' = RegisterAddress
  /\ Control(1)
  /\ unanswered' = {} /\ latched' = 0
  /\ UNCHANGED <<result, data_one>>

\* Mutant of SeenBusy: the wait for the busy flag is compiled out.
NoBusyWait == TRUE

\* while(!I2CMasterBusy(I2C2_BASE));
SeenBusy == master = "busy"

WaitBusy ==
  /\ step > 0 /\ at = "wait_busy"
  /\ SeenBusy
  /\ at' = "wait_done"
  /\ UNCHANGED <<step, result, data_one, master, data, latched, unanswered>>

\* while(I2CMasterBusy(I2C2_BASE));
Done == at = "wait_done" /\ master # "busy"

\* The address is sent: the first receive is commanded.
Sent ==
  /\ step = 1 /\ Done
  /\ Control(2)
  /\ UNCHANGED <<result, data_one, data, latched, unanswered>>

\* I2CMasterDataGet of the first byte, and the second receive is commanded.
FirstByte ==
  /\ step = 2 /\ Done
  /\ data_one' = data
  /\ Control(3)
  /\ UNCHANGED <<result, data, latched, unanswered>>

\* (data_one << 8) | data_two
Combined(one, two) == one * 256 + two

\* I2CMasterDataGet of the second byte, and the return.
SecondByte ==
  /\ step = 3 /\ Done
  /\ result' = Combined(data_one, data)
  /\ step' = 0 /\ data_one' = 0
  /\ UNCHANGED <<at, master, data, latched, unanswered>>

\* The call once made.
I2CGet2Bytes == WaitBusy \/ Sent \/ FirstByte \/ SecondByte

-----------------------------------------------------------------------------
(* The module and the sensor.                                               *)

\* The module raises its busy flag, some time after the command.
RaiseBusy ==
  /\ master = "commanded"
  /\ master' = "busy"
  /\ UNCHANGED <<step, at, result, data_one, data, latched, unanswered>>

\* The sensor answers: to the start of a receive with its register, of which the first
\* byte goes to the data register, to the end of one it started with the second byte.
Answer ==
  /\ master = "busy"
  /\ master' = "idle"
  /\ \/ step = 1 /\ UNCHANGED <<data, latched>>
     \/ step = 2 /\ latched' \in Words /\ data' = latched' \div 256
     \/ step = 3 /\ 2 \notin unanswered /\ data' = latched % 256 /\ UNCHANGED latched
  /\ UNCHANGED <<step, at, result, data_one, unanswered>>

\* It does not: the transaction ends with an error and the data register is as it was.
NoAnswer ==
  /\ master = "busy"
  /\ master' = "idle"
  /\ unanswered' = unanswered \cup ({2, 3} \cap {step})
  /\ UNCHANGED <<step, at, result, data_one, data, latched>>

I2CModule == RaiseBusy \/ Answer \/ NoAnswer

\* The whole transaction went by while the task was preempted, between its command
\* and its first poll: it waits for a busy flag that has come and gone.
MissedBusy == at = "wait_busy" /\ master = "idle"
==============================================================================
