# Verification of APES

TLA+ models of the concurrent and stateful programs of this repository, the TLC
runs that check them on small instances, and TLAPS proofs of the properties that
matter most, for every value of the constants.

The repository is a course's worth of embedded Linux and FreeRTOS programs. They
are independent of each other, except for HW5, where an application runs on a
timer service and calls an I2C driver, and for the system calls of `sys.c`, which
work on the same processes. Each module below models one part; `PROJECT.json` maps
every definition to the lines it stands for.

## 1. The system

| Part | State | Operations | What makes it hard |
|---|---|---|---|
| HW5 timer service, `utils/timers.c` | tick counter, two lists of active timers, command queue, timer blocks | create, start/reset, stop, change period, delete (from tasks and interrupts); daemon: check, expire, block, receive, switch lists | the counter wraps; commands are stamped, queued and processed at three different times; the daemon sends commands to itself |
| HW5 application, `main.c`, `LED.c`, `tempSensor.c`, `logger.c` | semaphores, notification, two queues, LED pins | two timer callbacks, four tasks | priorities and time slices, full queues, merged semaphores |
| HW5 I2C read, `i2cHelper.c` | the read's progress, the I2C module | three transactions, each with two polling loops | the module runs while the task is preempted; the sensor may not answer |
| HW4 threads, `pthreadtest.c` | `killedThreadID`, `recdSignal`, `CPUUtilFlag` | two threads, two kinds of signal handler, `main` | handlers in several threads at once over shared globals |
| HW4 shared memory, `sharedMem.c` | segment, two named semaphores | parent and child loops, start-up, clean-up | interrupted waits, killed processes, names left over from the last run |
| HW4 named pipes, `pipestest.c` | two FIFOs | open, send, receive, exit | blocking opens and writes, short reads, interrupted calls |
| HW4 sockets, `socketServer.c`, `socketClient.c` | connections, backlog, log file, reused buffer | server loop, clients | unchecked results, dying clients, a second connection |
| HW3 kernel timer, `timermodule.c` | timer, `count`, `period` | load, remove, callback, write of the parameter | the callback runs against load, remove and writes |
| HW2 system call, `sys.c` (`kMergeSort`), `syscalltest.c` | a kernel buffer per call | argument tests, copies, merge sort | failing copies, arrays changed meanwhile |
| HW2 ID system calls, `sys.c` (`setreuid` ... `setfsgid`) | user and group IDs, accounting, capability | eight calls and `set_user` | long sequences of legal calls; failures after partial work |
| HW2 group and session calls, `sys.c` (`setpgid`, `setsid`) | each process's parent, group and session | two calls; fork, exec and exit | parent and child both act on the child; numbers outlive processes and are used again |
| HW2 subreapers, `sys.c` (`prctl`) | two flags of each process | the call and its walk over the descendants | walks of several callers at once; forks and exits between flag and walk |
| HW2 priorities and limits, `sys.c` (`setpriority`, `prlimit64`) | nice value, soft and hard limit, users | both calls, process by process | a lock held for reading only; a check and a change under two locks; partial refusal |

How the parts interact: the HW5 tasks and callbacks call the timer service, which
calls them back from its daemon task; they share semaphores, a task notification
and two queues with each other; the temperature task calls the I2C read. `setpriority`
goes through the groups that `setpgid` and `setsid` make, is held to the limit that
`prlimit64` sets, and all of them run against fork and exit, which hand orphans to
the subreapers. The HW4
programs interact through the kernel's objects (semaphores, FIFOs, sockets,
signals), the HW3 module through the kernel's timer wheel.

Parts without a model are listed at the end.

## 2. Modules

**`TickTime`** is the arithmetic on `TickType_t`. An instant is a record: `tick` is
what the code sees, `epoch` counts the wraps and is a ghost. `InsertVerdict` is the
decision of `prvInsertTimerInActiveList` on tick values alone, `TickSub` the
unsigned difference.

**`TimerService`** models `timers.c`. `pc` is where the daemon is: `check`
(`prvProcessTimerOrBlockTask`), `expired`, `blocked`, `receive`, `switch`
(`prvSwitchTimerLists`, one expired timer per step) and `dispatch` (the command's
case). A list is the set of timers whose `container` names it, ordered by
`itemValue`; `pending` is a command that a task has stamped with the tick count and
not yet sent (the API is macros that read the time first). Tasks run only while the
daemon is blocked, because it has the highest priority; interrupt handlers run
between any two steps. Two assumptions about the environment are part of the model:

* `Punctual`: nothing waits for the daemon for a full turn of the counter (2^32
  ticks). Without it no arithmetic modulo 2^32 can tell one turn from the next.
* `main()` issues only `START` before the scheduler runs (`StartupCommands`), as
  `main.c` does.

**`TimerPromise`** is the abstract specification of the service: a timer is dormant
or has one scheduled expiry; a callback serves an expiry that is due, never early
and once only; an auto-reload timer is then scheduled one period after the expiry,
not after the moment it was served.

**`I2CHelper`** models `I2CGet2Bytes` as a component without a specification of its
own: `step` is the point the call has reached, `FirstByte`, `SecondByte` and
`Combined` what it makes of the data register. The I2C module and the sensor are
external and proceed on their own (`RaiseBusy`, `Answer`); the sensor may leave a
transaction unanswered (`NoAnswer`), which ends it with an error nobody asks for and
leaves the data register as it was.

**`Homework5`** composes the application with the service by extending
`TimerPromise`, and with the I2C read by `I2C == INSTANCE I2CHelper`: timers expire as
promised, the tasks run by priority (daemon 4, alert 2, the other three 1 and
time-sliced), and the I2C hardware goes on while the temperature task is preempted in
the middle of its read. One action is one stretch of code between two points where
another task can get in: each poll and each register access of the read, notifying and
sending for the temperature task; taking, the two pin writes, toggling and sending for
the LED task; the two polls and the printing for the logger. `readTemp` converts the
16-bit register as the code does (unsigned); `Measured` is what the sensor means (two's
complement).

**`SignalThreads`** models `pthreadtest.c`. A handler's two assignments are two steps
of the thread it interrupts.

**`SharedMem`** models `sharedMem.c`. `pos[p]` runs over both loops of a process;
`budget` holds the three bounds. The ghost `disturbed` records that a token of this
run was lost, forged (a wait broken by a signal is followed by a post) or left over
from a killed run; `hurried` that the parent's `usleep(1)` ended before the child's
last read.

**`Pipes`** and **`Sockets`** model the other two exchanges. In `Pipes` a message is
a sequence of bytes, because a read may return fewer than asked for. In `Sockets` no
result of a call is checked, as in the code: what `result` and `buffer` hold is state
(`sresult`, `sbuffer`, `cresult`, `cbuffer`), a read that fails leaves it as it was, and
the turn of the loop logs it as received once more (`ServerTurn`, `ClientTurn`). A read of
a packet by the wrong loop is `ReadAs`. The kernel's answers are external: a connection
that the server closed with packets unread fails the client's next call (`Reset`), and a
write to a process that is gone fails or ends the writer, since POSIX and Linux differ on
SIGPIPE for these sockets (`ServerWrite`). Using the log after it was closed with the
first connection goes on or crashes.

**`KernelTimer`** models `timermodule.c`; every load is another image. A callback of
an image that is gone sets the ghost `stray`, after which nothing is claimed. The
ghost `age` counts the jiffies since the last iteration up to `MaxAge`, which is at
least every period: more than that it need not tell apart.

**`KMergeSort`** models the system call and `mergeSort`. The recursion is a function
of the length of the run (`sort` in `mergeSort`), the three loops of the merge are one
function that counts, turn by turn, the elements taken from the left run
(`LeftTaken`); where the next element comes from is `FromLeft`.

**`Credentials`** models the eight calls. `MayRe`/`AfterRe` and their siblings are
the checks and the new IDs, the same for users and groups; `FollowUser` is
`set_user`; the effect of a change on capabilities is the security module's and
external.

**`ProcessGroups`** models `setpgid` and `setsid`, single steps under the task list's
write lock. fork, exec and exit are external; a process ID is given out again once no
process, group or session has it. Who gets the children of a process that exits is
left open (`Exit(p, reaper)`).

**`Subreapers`** extends it with `prctl(PR_SET_CHILD_SUBREAPER)` and fixes the reaper.
The call sets `is_child_subreaper` without a lock (`walk[c].at = "flagged"`), then
visits its descendants one by one under the read lock; `walk[c].left` is whom it is
still to visit. exit looks for a subreaper above only if `has_child_subreaper` is set
(`find_new_reaper`).

**`Priorities`** extends it with `setpriority` and `prlimit64`. `setpriority` is one step
to take the lock, one per process and one to return, with the error it has so far in
`call`; `prlimit64` is the check and, later, the change, and its target may have exited
in between (`Gone`). `task` holds the users, the nice value and `RLIMIT_NICE`.
`WriteLock` is what fork, exit, `setpgid` and `setsid` wait for. The three modules form
a chain of refinements: `Priorities` implements `Subreapers`, which implements
`ProcessGroups`.

`MC*` modules instantiate these for TLC; `*Proofs` hold the theorems.

## 3. Runs

| Run | Properties | Bounds and why they suffice |
|---|---|---|
| `timer_tasks` | `ListsMatchEpochs`, `NeverSleepsThrough`, `ReloadNeverLost`, `NoUseAfterFree`, `StopIsFinal`, `KeepsPromise`, `OverdueServed` | two timers, one task with every command, counter of three values, one wrap: both lists, the switch, commands stamped before and processed after a wrap, and both sides of every comparison occur. The queue has as many places as there are timers (the program: ten for two timers) |
| `timer_isr` | `NoUseAfterFree` | interrupt handlers start and stop timers and fill the queue while a task deletes; two wraps |
| `timer_stop_race` | `StopIsFinal`, **violated** | an interrupt handler stops an auto-reload timer; see section 6 |
| `app_tasks` | `AlertBeforeRecord`, `ReturnsTheRegister`, `AlertIffHot`, `TogglesAccounted`, `LEDsMatchCount`, `LogInOrder`, `LogDrained` | two ticks (LED timer twice, temperature timer once), queues of two places, so that they overflow; registers at the threshold, one step above it and below zero; the I2C hardware may finish at any point of the read, or not answer |
| `app_cold_alert` | `AlertOnlyWhenHot`, **violated** | the same instance; one reading of -25 degrees is enough; see section 6 |
| `threads_signals` | `EndsByOwnSignal`, `ReportsAreTicked`, `KillTakesEffect` | two signals and two expiries, at any point and in any thread; a file with a letter at the limit, one below it and one that does not occur |
| `shm_exchange` | `TokenConserved`, `ReadsInOrder`, `StartsFresh`, `ExchangeCompletes` | one command and two strings, two signals, one kill, two runs |
| `pipes_exchange` | `ReceivedInOrder`, `ClosingIsSafe`, `ExchangeCompletes` | two messages of each kind, three signals, pipes that just hold what one process sends (8 bytes) and pipes that fill up (5) |
| `socket_exchange` | `InOrder`, `OnlyFailedReadsRepeat`, `ExchangeCompletes` | two clients, two commands and one string, one signal, one kill; a log keeps one line more than there are messages (`MaxLines`), so that a line logged again shows, and a loop of failing reads stays finite |
| `ktimer_reload` | `Spaced`, `Finishes` | three iterations, periods 0, 1 and 3, two loads; `age` counts to 3, the longest period |
| `sys_calls` | `UserMatchesReal`, `UnprivilegedGainNothing`, `DropIsForever`, `RootSetuidDrops`, `ResultIsPrefix`, `LeaksOnlyOnFault` | the ID calls: root, two users, two groups, an unmapped ID, a user over the limit, a security module that may refuse; no bound on the number of calls. `kMergeSort`: two callers, sizes 1 (refused) and 3. The two kinds share no state, so each is explored while the other is at rest. `MCSysCalls` also evaluates `mergeSort` on all arrays of up to six elements of three values, sorted from every index on |
| `groups_calls` | `OneSession`, `SetWhole`, `SubreapersFound`, `CeilingKept` | three processes, one of root and two of a user, two nice values, limits 0 and 2. Three kinds of behaviour: two calls of `setpriority` or `prlimit64` at once in a session of all three, with one fork, exit, exec or change of group; nine such changes without calls, enough for a group to outlive the process it is named after and for that ID to be used again; six changes and two calls of `prctl`, whose walks overlap |

What the properties say is stated above each of them in the modules. Where a
property holds only under a condition, the condition is in its formula and is a
state the run reaches: for instance `ReadsInOrder` of `SharedMem` excuses the parent
when its sleep was too short, and not the child.

Deadlock checking is off where a program ends or blocks by design (a bound is used
up, all clients are gone); `app_tasks` keeps it on, since the application always has a
next step.

### Fairness

* Timer service: weak fairness of the daemon. It has the highest priority, so it
  runs whenever it can. Nothing is assumed of tasks, interrupts or the clock.
* Application: weak fairness of each task. The logger polls and never blocks, and
  the three tasks of its priority share the processor in time slices
  (`configUSE_TIME_SLICING` is on by default), so none starves.
* I2C: the module ends each transaction, answered or not (weak fairness of
  `I2CHardware`); the task gets the processor as the others do.
* Processes and threads of HW4: the Linux scheduler runs whoever is ready. No signal
  and no kill has to come.
* Kernel timer: the clock goes on, the softirq serves expired timers, and a module
  not yet loaded is loaded.

## 4. Proofs

All proofs are checked by TLAPS with Z3, Zenon and LS4, to the last leaf.

### `TimerServiceProofs`

For every set of timers and tasks, queue length, set of periods and width of the
counter, from `TickModAssumption` and `ServiceAssumption` alone (and the environment
assumptions in the actions' guards):

* `TypeCorrect`: `Spec => []TypeOK`.
* `ServiceInvariant`: the inductive invariant `IInv`.
* `ListsCorrect`: `Spec => []ListsMatchEpochs`. The two lists mean what the code
  takes them to mean, across any number of wraps.
* `NoOversleeping`: `Spec => []NeverSleepsThrough`.

`ListsMatchEpochs` is not inductive. The code compares ticks, and a comparison is
right only if what it compares is less than one turn apart. `IInv` adds that: the
last sample, the due items, the queued start commands and the command in hand are
fresh (`SampleFresh`, `ItemsFresh`, `MessagesFresh`, `HandFresh`), items of the
overflow list lie behind the last sample (`OverflowBehind`), the head is due where
the daemon thinks so (`HeadDue`), and a sleep ends no later than the first expiry
(`SleepBound`). The central lemma is `VerdictCorrect`: for a command given within the
last turn, `InsertVerdict`, which sees ticks only, decides as if it saw the wraps.
Each action has a lemma of its own; those that put a timer into a list share
`PutStep`.

The next three theorems are about commands that meet in the queue. A task sends only
while the daemon is blocked, and the daemon blocks only on an empty queue, so what a
task sends is received before the daemon can queue a reload behind or before it. That
is not so for commands that `main()` queues before the scheduler runs, nor for those of
interrupt handlers. Each theorem names as a hypothesis which of these it excludes:

* `NothingUsedAfterFree`: `[]NoUseAfterFree`, if `main()` queues no `DELETE`
  (`StartupCommands`). `main.c` only calls `xTimerStart` there. Interrupt handlers may
  send what they like. The invariant is `FreeInv`: a `DELETE` is first in the queue and
  nothing behind it, in a list or about to be sent is about its timer.
* `StopsAreFinal`: `[]StopIsFinal`, if neither `main()` nor an interrupt handler sends
  `STOP`. Without the second the run `timer_stop_race` violates it. Invariant:
  `StopFirst`.
* `ReloadsNeverLost`: `[]ReloadNeverLost`, if interrupt handlers send nothing and there
  are not more timers than places in the queue (`FewTimers`). The program has no handler
  that uses a timer, two timers and `configTIMER_QUEUE_LENGTH` 10. Invariant: `RoomInv`,
  a count of the listed timers, the queue and the message in hand, which rests on the
  theorems of finite cardinalities.

And the refinement, step by step:

* `PromiseUnlessReloadLost`: `Spec /\ []ReloadNeverLost => KeepsPromise`. Every step is
  a step of `TimerPromise` or leaves its variables alone, until a reload is lost. It
  needs `IInv` for what is due, and `ReferInv`: the timer of a message in hand is in no
  list, nothing refers to a timer that is not created, and only the daemon reloads.
* `ServiceKeepsPromise`: `Spec => KeepsPromise`, under the hypotheses of
  `ReloadsNeverLost`.

### `Homework5Proofs`

For every period, queue length, number of ticks and set of 16-bit register values, from
`Homework5Assumption` (the two timers of `main.c`; the run ends before the counter
wraps): `ApplicationInvariant` is the inductive invariant `IInv`, from which follow
`AlertsPrecedeRecords` (`AlertBeforeRecord`), `RegisterIsReturned`
(`ReturnsTheRegister`), `NotifiedIffHot` (`AlertIffHot`: readings from zero degrees on),
`EveryToggleAccounted`
(`TogglesAccounted`), `LEDsShowParity` (`LEDsMatchCount`) and `LogKeepsOrder`
(`LogInOrder`). The parts of `IInv`:

* `AlertsInv`: at most one notification is under way, since the alert task has the
  higher priority, and a queued record was sent after its alert;
* `I2CInv`: what the module's registers and the two bytes read hold at each step of the
  read, for each set of transactions that were not answered;
* `LightsInv`: the values to write follow the parity of the toggle count, and the pins
  follow the values;
* `TogglesAccounted`, which is inductive by itself, given the types;
* `LogInv`: the queue is in order, behind what is printed and before what is to be sent.

### `SignalThreadsProofs`

For every file, and any number of signals and expiries: `ThreadsInvariant`, and from it
`ThreadsEndByOwnSignal` (`EndsByOwnSignal`) and `EveryReportIsTicked`
(`ReportsAreTicked`). `EndsByOwnSignal` speaks of the log only; the invariant follows the
signal from the handler (`HandlersInv`) through the globals, of which a second handler
may already have overwritten one (`GlobalsInv`), and the thread that has found itself
killed (`KilledInv`) to the log (`LogInv`).

### `SharedMemProofs`

For any number of messages, signals, kills and runs:

* `ExchangeInvariant` and `TokenAlwaysConserved`: `[]TokenConserved`. Inductive together
  with the types, `StartupAlone` (the semaphores are opened before there is a child) and
  `InLoop` (a process at a semaphore has a message left).
* `EveryRunStartsFresh`: `[]StartsFresh`, from `NamesInv`: unless a process was killed, no
  name is left when all processes are gone.
* `ReadsAreInOrder`: `[]ReadsInOrder`, from `StageInv`. The one token fixes the stage of
  the exchange: how far the writer is ahead of the reader and what the segment holds.
  `SleepInv` tells when the parent's `usleep` was long enough.

### `PipesProofs`

For any numbers of commands and strings, length of a string, capacity and number of
signals: `PipesInvariant`, `MessagesArriveWhole` (`[]ReceivedInOrder`) and
`LeavingIsSafe` (`[]ClosingIsSafe`). The invariant says, until a call is interrupted,
that a pipe holds exactly the messages which its writer has sent and its reader has not
read (`PipeMatches`), that the ends are where the processes are (`Ends`, `Met`) and that
the logs are what was read (`LogMatches`). To say what a pipe holds without a recursive
definition, `Whole` says it of each byte: it belongs to one of these messages, all of
that message is around it, the next message follows, and bytes are in ascending order.
`WholeAppend` and `WholeRead` are what a write and a read do to it; `ReadDecodes` is
that a read of a fixed size takes exactly the first message. `NoFailures` then excludes
the failing calls: if the other end is closed, its process has read everything, so
there is nothing left to send, and what is left to read is in the pipe.

### `SocketsProofs`

For any clients, numbers of messages, signals and kills:

* `SocketsInvariant` and `RepeatsOnlyAfterFailures`: `Spec => OnlyFailedReadsRepeat`,
  whatever disturbs the exchange. A read that gets a packet logs a younger message than
  all before: what is logged is older than what is under way (`OrderInv`), and that is
  older than what is sent next (`SenderInv`). A read that fails logs the youngest line
  again, because that is what `result` or `buffer` still holds (`HeldInv`). The server
  starts its count again for every connection, so a client must not be accepted twice,
  and its old result must not pass for a command of the next client (`BacklogInv`). A
  connection that the server has closed fails no read before `END` was read from it
  (`ClosedInv`).
* `MessagesInOrder`: `[]InOrder`. While nothing disturbs them, a connected client waits,
  is heard, is answered or was served; each stage fixes what was sent, what is under way
  and what is logged (`StageInv`).

### `KernelTimerProofs`

For any periods, numbers of iterations and loads, from `ModuleAssumption` alone:

* `IterationsAreSpaced`: `Spec => Spaced`. That a callback about to print has waited for
  its period (`Waited`) is inductive only together with what holds while it waits: the
  jiffies left and the jiffies passed make up the period (`Waits`). An iteration sets the
  second to zero, so the timer must be off the wheel while its callback runs (`OneShot`).
* `FinishedForGood`: an image that has printed its last iteration stays finished until it
  is removed, whatever the timers of earlier images do; what `Finishes` needs besides
  fairness.

### `SysProofs`

The system calls of `sys.c`; three specifications that share no state.

**User and group IDs.** For any sets of IDs: `CredentialsTyped`, `AccountedToRealUser` (`UserMatchesReal`),
`FsIDShadows` (`FsShadowsEffective`: until a `setfsuid` the file system ID is the
effective one), `NothingGained` (`UnprivilegedGainNothing`), `DroppedForGood`
(`DropIsForever`) and `SetuidDropsForGood` (`RootSetuidDrops`). The invariant is the
types, the accounting and the shadowing together. `StepOutcome` reduces the eight
calls to a few kinds of step (a refusal, new user IDs, new group IDs, new file system
IDs), on which the theorems rest.

**Calls on other processes.** `ProcessGroups`, `Subreapers` and `Priorities` are a chain, and so are their proofs. For
any set of process IDs, users, nice values and limits, from `GroupsAssumption` and
`PrioritiesAssumption` alone:

* `GroupInOneSession`: `GroupsSpec => []OneSession`. Not inductive as it stands:
  `setpgid` puts a process into the group of its own number without looking at that
  group's members. `NumberedGroup` (such members are in the process's session) closes
  it, and rests in turn on `setsid`'s test and on IDs not being reused while a group or
  session has them. `LeaderStaysHome` is proved along with it.
* `EverySubreaperFound`: `ReapersSpec => []SubreapersFound`. `SubreapersFound` speaks of
  ancestors and of moments without a walk; the invariant speaks of parents and of all
  moments: a child of a marking process has the flag or is still to be visited
  (`ParentsMark`). An orphan without the flag goes to the first process, which must then
  not be a subreaper itself; that follows only because parents lead up to the first
  process (`Rooted`, stated with sets closed under parents, so that no induction is
  needed).
* `ReapersImplementGroups`, `ImplementsReapers`: the chain of refinements, by which
  `OneSessionWithCalls` and `SubreapersFoundWithCalls` carry both over to `Priorities`.
* `TypeCorrectWithCalls`: `Spec => []TypeOK`.
* `CeilingIsKept`: `Spec => CeilingKept`. `can_nice` looks at the soft limit and the
  ceiling is the hard one, so the invariant `LimitsInv` keeps soft below hard, for the
  limits and for those a `prlimit64` is about to set, and callers alive during a call.
* `GroupSetWhole`: `Spec => []SetWhole`. `SetInv` says how far a `setpriority` for a group
  has come: who is not left was set or refused, and the error kept in `call` tells
  whether there was anyone and whether one was refused. The read lock keeps the group
  as it is meanwhile.

**`kMergeSort`.** For any number of programs, any integers and any sizes, from
`SortAssumption` alone:

* `mergeSortSorts`: `mergeSort(arr, l, r)` is ascending on `l .. r` (`Ascends`) and is `arr`
  with the places `l .. r` rearranged one to one (`Rearranged`), for arrays of any length.
  The library's induction theorems take the predicate as an operator, which the provers
  cannot instantiate; `NatSetInduction` and `NatSetStrongInduction` take it as a set and
  follow from the well-foundedness of the naturals. A recursive function is a `CHOOSE`, so
  that the function exists has to be proved too: `CourseOfValues`, once for all recursions
  on naturals, used for the merge's turns (`LeftTakenTurns`) and for the recursion of
  `mergeSort` (`mergeSortCalls`). The merge takes no more of a run than it has
  (`TurnsStayInside`), no element twice (`FromInjective`), and the smaller one first
  (`MergedAscends`).
* `SortedOrPrefix`: `SortSpec => []ResultIsPrefix`. The invariant `CallUnderWay` follows a
  call through its places: the result array is unwritten up to the second copy, and from
  the first copy on the buffer holds what was taken, whatever the program does to its
  array. `PlaceIsRank` turns an ascending rearrangement into the ranks of the property.
* `LeakOnlyOnFault`: `SortSpec => []LeaksOnlyOnFault`, which is inductive given the types.

### Only model-checked

Every safety property that a run checks is proved. What is left is liveness, which needs
fairness and `ENABLED`: `OverdueServed`, `LogDrained`, `KillTakesEffect`,
`ExchangeCompletes`, `Finishes`.

## 5. Mutants

Every property has a mutant: a definition replaced by a plausible mistake (a dropped
wrap test, a wait that does not take the semaphore, a flag that is not cleared), next
to the definition in its module. TLC refutes the property for each, so none of them
holds for want of trying.

## 6. Disagreements met while modelling

Two are checked by runs that must fail:

* `timers.c:686`: the `STOP` case does nothing, since "The timer has already been
  removed from the active list". If an interrupt handler's `STOP` is already queued
  when the daemon serves that auto-reload timer late, the daemon queues its own
  restart behind it, and the timer runs on after the `STOP` (`timer_stop_race`).
* `tempSensor.c:32`: the two's complement register is masked and shifted as an unsigned
  number, so a temperature below zero reads as 128 degrees or more. The alert task, which
  waits for "a high temperature value" (`tempSensor.c:66`), then prints "Temperature is
  too high!" (`app_cold_alert`). `AlertIffHot` says what holds of all other readings.

The others are conditions in the properties, which would be violated without them:

| Where | What happens |
|---|---|
| `timers.c:763` | with a queue shorter than the number of auto-reload timers, a reload finds no room and the timer stops; `ReloadNeverLost` holds with as many places as timers |
| `logger.c:24` | the mutex around the UART is declared and never created, and lines of the alert task and the logger mix |
| `i2cHelper.c:57` | preempted for a whole transaction, the task waits for a busy flag that has come and gone, and never runs again; the other tasks do (`MissedBusy` in `LogDrained`) |
| `i2cHelper.c:63` | a sensor that does not acknowledge goes unnoticed, and what is left in the data register is taken for a temperature (`unanswered`) |
| `pthreadtest.c:37` | a second signal to another thread overwrites `killedThreadID`, and the first thread runs on (`OnlyTo`) |
| `pthreadtest.c:225` | an expiry between the report and the clearing of the flag is lost |
| `pthreadtest.c:146` | every report opens `/proc/stat`, and nothing closes it (`handles` only grows) |
| `sharedMem.c:158` | when `usleep(1)` is too short, the parent takes the token it posted for the child and reads its own message (`hurried`) |
| `sharedMem.c:131` | a signal breaks `sem_wait`, and the process goes on without the token (`disturbed`) |
| `socketServer.c:92`, `socketServer.c:100`, `socketClient.c:99`, `socketClient.c:107` | no read is checked: after a failed one the last message is logged as received once more, for ever if the other side is gone (the third case of `Continues`) |
| `socketServer.c:92` | `result` outlives the connection, so a failed read may log a command of an earlier client (`Of`) |
| `socketClient.c:109` | after a failed read the client's own `END`, still in the buffer, ends its loop |
| `socketServer.c:116`, `socketClient.c:72` | a write to a process that is gone goes unnoticed or ends the writer, and packets left unread make the client's next call fail (`Undisturbed`) |
| `socketServer.c:133` | the log is closed after the first connection and written in the second |
| `socketServer.c:89` | a client that dies before `END` leaves the server reading for ever |
| `timermodule.c:55` | removing the module leaves its timer armed (`stray`) |
| `sys.c:1003`, `sys.c:1016` | a failing copy returns without freeing the buffer (`LeaksOnlyOnFault`) |

## 7. Not modelled

* `linkedListModule.c`: builds, filters and frees a list in one thread from a constant
  table. Its exit loop reads each node's link after freeing the node.
* `file_io.c`, `crontest.c`, the HW1 script, makefiles: sequences of library calls
  without state of their own.
* In `sys.c`: `prctl_set_mm` (one check of a whole map and one store under one lock),
  the options of `prctl`, `sethostname`, `setdomainname` and `umask` that store one value,
  the calls that only read, and the limits other than `RLIMIT_NICE`. Whether the two
  subreaper flags share a word, so that the store without the lock could undo another
  walk's, is decided in a header that is not in the repository.
* The system call tables: declarations.
* `FreeRTOSConfig.h`, `startup_ccs.c`, the UART configuration: constants and board
  start-up; the priorities, queue lengths and the time base are taken from them.
* In `timers.c`: names, IDs, trace hooks and pended function calls (compiled out).
* Everywhere: the text of logs, and failures of calls made once at start-up (`fork`,
  `mmap`, `socket`, `xTaskCreate`).

## 8. Plan

Done: all modules above, one run per program or group of calls, and the proofs of
section 4. The order was the timer service first, since everything in HW5 stands on it
and its hazards (wraps, stale commands) are the least testable; then the other
programs; then the compositions (the I2C read in the application, groups, subreapers
and priorities in one system of processes).

Next: what the proofs suggest beyond the runs. In `Sockets`, how much of `InOrder` and
`ExchangeCompletes` survives for the other clients when one is killed.
