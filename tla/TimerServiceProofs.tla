-------------------------- MODULE TimerServiceProofs --------------------------
(***************************************************************************)
(* Proofs about TimerService, for every number of timers and tasks, every  *)
(* queue length, every period and every width of the tick counter.         *)
(***************************************************************************)
EXTENDS TimerService, WellFoundedInduction, FiniteSetTheorems, TLAPS

-------------------------------------------------------------------------------
(***************************************************************************)
(* Arithmetic of instants.                                                 *)
(***************************************************************************)
\* A sum of an instant and a period is an instant, later than the first.
LEMMA PlusType ==
    ASSUME NEW a \in Instant, NEW p \in 0 .. (TickMod - 1)
    PROVE  Plus(a, p) \in Instant
BY TickModAssumption DEF Plus, Instant, Ticks

\* A period is a positive number of ticks, shorter than a turn of the counter.
LEMMA PeriodRange ==
    \A p \in Periods : p \in 1 .. (TickMod - 1) /\ p \in 0 .. (TickMod - 1)
<1> TAKE p \in Periods
<1>1. p \in 1 .. (TickMod - 1)
  BY ServiceAssumption
<1> QED BY <1>1, TickModAssumption

\* The code can tell from ticks alone what to do with an expiry: for a command
\* given within the last turn of the counter, prvInsertTimerInActiveList says
\* "now" exactly when the expiry has passed, "current" when it is to come in
\* this turn, and "overflow" when it is to come in the next.
LEMMA VerdictCorrect ==
    ASSUME NEW cmd \in Instant, NEW t \in Instant, NEW p \in 1 .. (TickMod - 1),
           WithinWrap(cmd, t)
    PROVE  LET next == Plus(cmd, p)
               verdict == InsertVerdict(next.tick, t.tick, cmd.tick, p)
           IN  /\ verdict \in {"now", "current", "overflow"}
               /\ verdict = "now" => Leq(next, t)
               /\ verdict = "current" => next.epoch = t.epoch /\ t.tick < next.tick
               /\ verdict = "overflow" => next.epoch = t.epoch + 1 /\ next.tick < t.tick
<1> USE TickModAssumption DEF Instant, Ticks
<1>1. CASE cmd.tick + p < TickMod
  BY <1>1 DEF Plus, InsertVerdict, WithinWrap, Leq, TickSub
<1>2. CASE ~(cmd.tick + p < TickMod)
  BY <1>2 DEF Plus, InsertVerdict, WithinWrap, Leq, TickSub
<1> QED BY <1>1, <1>2

-------------------------------------------------------------------------------
(***************************************************************************)
(* The inductive invariant.  ListsMatchEpochs is not inductive by itself:  *)
(* that a wrap is seen as one wrap, and that a command or an expired item  *)
(* is not mistaken for one of another turn, needs everything the daemon    *)
(* still has to look at to be less than one turn old (Fresh), the wrapped  *)
(* items to lie behind the last sample (OverflowBehind), and the sleep to  *)
(* end no later than the first expiry (SleepBound).                        *)
(***************************************************************************)
SampleFresh == (Listed # {} \/ pc \in {"switch", "dispatch"})
                   => WithinWrap(xLastTime, now)
ItemsFresh == \A t \in Listed :
                  Leq(itemValue[t], now) => WithinWrap(itemValue[t], now)
MessagesFresh == \A m \in Outstanding :
                     m.cmd \in StartLike => WithinWrap(m.at, now)
HandFresh == pc \in {"switch", "dispatch"} /\ xMessage.cmd \in StartLike
                 => WithinWrap(xMessage.at, xLastTime)
HeadDue == pc = "expired" =>
               \A t \in Heads : itemValue[t].tick <= xLastTime.tick
OverflowBehind == pc # "switch" =>
                      \A t \in Overflow : itemValue[t].tick < xLastTime.tick
SleepBound ==
    pc = "blocked" =>
        /\ xTimerQueue = <<>>
        /\ \A t \in Listed : /\ 1 <= xTicksToWait
                             /\ xTicksToWait < TickMod
                             /\ Leq(Plus(now, xTicksToWait), itemValue[t])

IInv == /\ TypeOK
        /\ ListsMatchEpochs
        /\ SampleFresh
        /\ ItemsFresh
        /\ MessagesFresh
        /\ HandFresh
        /\ HeadDue
        /\ OverflowBehind
        /\ SleepBound

-------------------------------------------------------------------------------
(***************************************************************************)
(* Typing.                                                                 *)
(***************************************************************************)
LEMMA OtherListIsOther ==
    \A l \in Lists : OtherList(l) \in Lists /\ OtherList(l) # l
<1> TAKE l \in Lists
<1>1. \E m \in Lists : m # l
  BY DEF Lists
<1> QED BY <1>1 DEF OtherList

\* A set of naturals that is not empty has a least element.
LEMMA MinExists ==
    ASSUME NEW S \in SUBSET Nat, S # {}
    PROVE  \E x \in S : \A y \in S : x <= y
<1>1. PICK x \in S : \A y \in S : ~(<<y, x>> \in OpToRel(<, Nat))
  BY NatLessThanWellFounded, WFMin
<1>2. \A y \in S : ~(y < x)
  BY <1>1 DEF OpToRel
<1> QED BY <1>2

\* A list that is not empty has a head.
LEMMA HeadExists == ASSUME TypeOK, Current # {} PROVE Heads # {}
<1> DEFINE S == {itemValue[t].tick : t \in Current}
<1>1. S \in SUBSET Nat /\ S # {}
  <2>1. \A t \in Current : itemValue[t].tick \in Nat
    BY TickModAssumption DEF TypeOK, Current, Instant, Ticks
  <2> QED BY <2>1
<1>2. PICK x \in S : \A y \in S : x <= y
  BY <1>1, MinExists
<1> QED BY <1>2 DEF Heads

\* The state before the scheduler starts is typed.
LEMMA InitType == Init => TypeOK
<1> SUFFICES ASSUME Init PROVE TypeOK OBVIOUS
<1> USE TickModAssumption, ServiceAssumption
<1>1. Zero \in Instant
  BY DEF Zero, Instant, Ticks
<1>2. (CHOOSE p \in Periods : TRUE) \in Periods
  OBVIOUS
<1> QED BY <1>1, <1>2 DEF Init, TypeOK, DaemonPCs, Lists

\* Every step of the daemon, the application and the tick interrupt keeps the types.
LEMMA NextType == TypeOK /\ [Next]_vars => TypeOK'
<1> SUFFICES ASSUME TypeOK, [Next]_vars PROVE TypeOK' OBVIOUS
<1> USE TickModAssumption, ServiceAssumption
<1> USE DEF TypeOK, DaemonPCs, listVars, timerVars
<1>z. Zero \in Instant
  BY DEF Zero, Instant, Ticks
<1>p. \A a \in Instant, p \in Periods : Plus(a, p) \in Instant
  BY PlusType
<1>o. pxOverflowTimerList \in Lists
  BY OtherListIsOther DEF pxOverflowTimerList
<1>h. \A t \in Heads : t \in Timers
  BY DEF Heads, Current
<1>1. ASSUME prvProcessTimerOrBlockTask PROVE TypeOK'
  <2>1. xNextExpireTime \in Ticks
    <3>1. CASE xListWasEmpty
      BY <3>1 DEF xNextExpireTime, Ticks
    <3>2. CASE ~xListWasEmpty
      BY <1>h, <3>2, HeadExists DEF xListWasEmpty, xNextExpireTime, Instant
    <3> QED BY <3>1, <3>2
  <2>2. BlockTime \in 0 .. TickMod
    BY <2>1 DEF BlockTime, TickSub, Forever, Instant, Ticks
  <2> QED BY <1>1, <2>2 DEF prvProcessTimerOrBlockTask
<1>2. ASSUME prvSwitchTimerListsSwap PROVE TypeOK'
  BY <1>2, <1>o DEF prvSwitchTimerListsSwap
<1>3. ASSUME prvProcessReceivedCommands PROVE TypeOK'
  <2>1. Head(xTimerQueue) \in Message /\ Tail(xTimerQueue) \in Seq(Message)
    BY <1>3 DEF prvProcessReceivedCommands
  <2> QED BY <1>3, <1>z, <2>1 DEF prvProcessReceivedCommands, TakeOffList, Message
<1>4. ASSUME CommandsDone PROVE TypeOK'
  BY <1>4 DEF CommandsDone
<1>5. ASSUME NEW t \in Timers, NEW at \in Instant, SendReload(t, at)
      PROVE  xTimerQueue' \in Seq(Message) /\ xResult' \in BOOLEAN
  <2>1. [cmd |-> "RELOAD", timer |-> t, at |-> at, period |-> period[t]] \in Message
    BY DEF Message, Commands
  <2> QED BY <1>5, <2>1 DEF SendReload, HasRoom
<1>6. ASSUME NEW t \in Timers, NEW next \in Instant, NEW v, PutInList(t, next, v)
      PROVE  /\ itemValue' \in [Timers -> Instant]
             /\ container' \in [Timers -> Lists \cup {"NULL"}]
  BY <1>6, <1>z, <1>o DEF PutInList
<1>7. ASSUME NEW t \in Timers, TakeOffList(t)
      PROVE  /\ itemValue' \in [Timers -> Instant]
             /\ container' \in [Timers -> Lists \cup {"NULL"}]
  BY <1>7, <1>z DEF TakeOffList
<1>8. ASSUME NEW t \in Timers, prvProcessExpiredTimer(t) PROVE TypeOK'
  <2>1. itemValue[t] \in Instant /\ Plus(itemValue[t], period[t]) \in Instant
    BY <1>p
  <2>2. xTimerQueue' \in Seq(Message) /\ xResult' \in BOOLEAN
    BY <1>8, <1>5, <2>1 DEF prvProcessExpiredTimer, NoReload
  <2>3. /\ itemValue' \in [Timers -> Instant]
        /\ container' \in [Timers -> Lists \cup {"NULL"}]
    BY <1>8, <1>6, <1>7, <2>1 DEF prvProcessExpiredTimer
  <2> QED BY <1>8, <2>2, <2>3 DEF prvProcessExpiredTimer, Callback
<1>9. ASSUME NEW t \in Timers, prvSwitchTimerListsExpire(t) PROVE TypeOK'
  <2>1. itemValue[t] \in Instant /\ Plus(itemValue[t], period[t]) \in Instant
    BY <1>p
  <2>2. xTimerQueue' \in Seq(Message) /\ xResult' \in BOOLEAN
    BY <1>9, <1>5, <2>1 DEF prvSwitchTimerListsExpire, NoReload
  <2>3. /\ itemValue' \in [Timers -> Instant]
        /\ container' \in [Timers -> Lists \cup {"NULL"}]
    BY <1>9, <1>7, <2>1 DEF prvSwitchTimerListsExpire
  <2> QED BY <1>9, <2>2, <2>3 DEF prvSwitchTimerListsExpire, Callback
<1>d. ASSUME NEW t \in Timers, NEW cmds \in SUBSET Commands, Dispatch(t, cmds)
      PROVE  xMessage \in Message
  BY <1>d DEF Dispatch, NoMessage, Commands, UserCommands
<1>10. ASSUME NEW t \in Timers, DispatchStart(t) PROVE TypeOK'
  <2>1. xMessage.at \in Instant /\ Plus(xMessage.at, period[t]) \in Instant
    BY <1>10, <1>d, <1>p DEF DispatchStart, StartLike, Commands, UserCommands, Message
  <2>2. xTimerQueue' \in Seq(Message) /\ xResult' \in BOOLEAN
    BY <1>10, <1>5, <2>1 DEF DispatchStart, NoReload
  <2>3. /\ itemValue' \in [Timers -> Instant]
        /\ container' \in [Timers -> Lists \cup {"NULL"}]
    BY <1>10, <1>6, <2>1 DEF DispatchStart
  <2> QED BY <1>10, <2>2, <2>3 DEF DispatchStart, Dispatch, Callback
<1>11. ASSUME NEW t \in Timers, DispatchStop(t) PROVE TypeOK'
  BY <1>11 DEF DispatchStop, Dispatch, NoReload
<1>12. ASSUME NEW t \in Timers, DispatchChangePeriod(t) PROVE TypeOK'
  <2>1. xMessage.period \in Periods /\ Plus(xLastTime, xMessage.period) \in Instant
    BY <1>12, <1>d, <1>p DEF DispatchChangePeriod, Commands, UserCommands, Message
  <2>3. /\ itemValue' \in [Timers -> Instant]
        /\ container' \in [Timers -> Lists \cup {"NULL"}]
    BY <1>12, <1>6, <2>1 DEF DispatchChangePeriod
  <2> QED BY <1>12, <2>1, <2>3 DEF DispatchChangePeriod, Dispatch, NoReload
<1>13. ASSUME NEW t \in Timers, DispatchDelete(t) PROVE TypeOK'
  BY <1>13 DEF DispatchDelete, Dispatch, NoReload
<1>s. \A t \in Timers, cmd \in UserCommands, p \in Periods :
         [cmd |-> cmd, timer |-> t, at |-> Stamp(cmd), period |-> p] \in Message
  BY <1>z DEF Message, Commands, Stamp
<1>14. ASSUME NEW t \in Timers, NEW p \in Periods, NEW reload \in BOOLEAN,
              xTimerCreate(t, p, reload)
       PROVE  TypeOK'
  BY <1>14 DEF xTimerCreate
<1>15. ASSUME NEW c \in Tasks, NEW t \in Timers, NEW cmd \in UserCommands,
              NEW p \in Periods, xTimerCommandMacro(c, t, cmd, p)
       PROVE  TypeOK'
  BY <1>15, <1>s DEF xTimerCommandMacro
<1>16. ASSUME NEW t \in Timers, NEW cmd \in UserCommands, NEW p \in Periods,
              xTimerGenericCommandFromISR(t, cmd, p)
       PROVE  TypeOK'
  BY <1>16, <1>s DEF xTimerGenericCommandFromISR, Send
<1>17. ASSUME NEW c \in Tasks, xTimerGenericCommand(c) PROVE TypeOK'
  <2>1. pending[c] \in Message
    BY <1>17 DEF xTimerGenericCommand
  <2>2. pending[c].timer \in Timers
    BY <2>1 DEF Message
  <2>3. xTimerQueue' \in Seq(Message)
    BY <1>17, <2>1 DEF xTimerGenericCommand, Send
  <2>4. block' \in [Timers -> {"unused", "live", "doomed", "freed"}]
    BY <1>17, <2>2 DEF xTimerGenericCommand
  <2> QED BY <1>17, <2>3, <2>4 DEF xTimerGenericCommand, Send
<1>18. ASSUME vTaskStartScheduler PROVE TypeOK'
  BY <1>18 DEF vTaskStartScheduler
<1>19. ASSUME xTaskIncrementTick PROVE TypeOK'
  <2>1. Plus(now, 1) \in Instant
    BY PlusType
  <2> QED BY <1>19, <2>1 DEF xTaskIncrementTick
<1>20. CASE UNCHANGED vars
  BY <1>20 DEF vars
<1> QED BY <1>1, <1>2, <1>3, <1>4, <1>8, <1>9, <1>10, <1>11, <1>12, <1>13, <1>14,
           <1>15, <1>16, <1>17, <1>18, <1>19, <1>20
        DEF Next, Daemon, Application

\* Every variable keeps its type, for all values of the constants.
THEOREM TypeCorrect == Spec => []TypeOK
BY InitType, NextType, PTL DEF Spec

-------------------------------------------------------------------------------
(***************************************************************************)
(* More arithmetic of instants.                                            *)
(***************************************************************************)
LEMMA WrapBetween ==
    ASSUME NEW a \in Instant, NEW b \in Instant, NEW n \in Instant,
           WithinWrap(a, n), Leq(a, b), Leq(b, n)
    PROVE  WithinWrap(b, n)
BY TickModAssumption DEF Instant, Ticks, WithinWrap, Leq

\* An instant within the last turn before another is not after it.
LEMMA WrapLeq ==
    ASSUME NEW a \in Instant, NEW n \in Instant, WithinWrap(a, n)
    PROVE  Leq(a, n)
BY TickModAssumption DEF Instant, Ticks, WithinWrap, Leq

\* An instant is within the last turn before itself.
LEMMA WrapRefl == \A a \in Instant : WithinWrap(a, a)
BY TickModAssumption DEF Instant, Ticks, WithinWrap

\* The order of instants is transitive.
LEMMA LeqTrans ==
    ASSUME NEW a \in Instant, NEW b \in Instant, NEW c \in Instant,
           Leq(a, b), Leq(b, c)
    PROVE  Leq(a, c)
BY TickModAssumption DEF Instant, Ticks, Leq

\* Adding ticks does not go back in time.
LEMMA PlusLeq ==
    ASSUME NEW a \in Instant, NEW p \in 1 .. (TickMod - 1)
    PROVE  Leq(a, Plus(a, p)) /\ Lt(a, Plus(a, p))
BY TickModAssumption DEF Instant, Ticks, Leq, Lt, Plus

\* What the next tick makes due is due exactly then.
LEMMA TickDue ==
    ASSUME NEW a \in Instant, NEW n \in Instant,
           ~Leq(a, n), Leq(a, Plus(n, 1))
    PROVE  WithinWrap(a, Plus(n, 1))
BY TickModAssumption DEF Instant, Ticks, Leq, Plus, WithinWrap

\* One tick at a time or all at once comes to the same.
LEMMA PlusTick ==
    ASSUME NEW n \in Instant, NEW w \in 2 .. (TickMod - 1)
    PROVE  Plus(Plus(n, 1), w - 1) = Plus(n, w)
BY TickModAssumption DEF Instant, Ticks, Plus

\* What is at or after a later instant is after this one.
LEMMA LtPlus ==
    ASSUME NEW n \in Instant, NEW a \in Instant, NEW w \in 1 .. (TickMod - 1),
           Leq(Plus(n, w), a)
    PROVE  Lt(n, a)
BY TickModAssumption DEF Instant, Ticks, Plus, Leq, Lt

-------------------------------------------------------------------------------
(***************************************************************************)
(* The invariant is inductive: one lemma for each kind of step.            *)
(***************************************************************************)
\* A listed timer is in one of the two lists.
LEMMA ListedIsInOne ==
    ASSUME TypeOK
    PROVE  /\ Listed = Current \cup Overflow
           /\ Current \cap Overflow = {}
           /\ pxOverflowTimerList \in Lists
           /\ pxOverflowTimerList # pxCurrentTimerList
           /\ "NULL" \notin Lists
<1>1. pxOverflowTimerList \in Lists /\ pxOverflowTimerList # pxCurrentTimerList
  BY OtherListIsOther DEF TypeOK, pxOverflowTimerList
<1>2. \A l \in Lists : l = pxCurrentTimerList \/ l = pxOverflowTimerList
  BY <1>1 DEF TypeOK, Lists
<1>3. "NULL" \notin Lists
  BY DEF Lists
<1> QED BY <1>1, <1>2, <1>3 DEF TypeOK, Listed, Current, Overflow

\* The invariant holds before the scheduler starts, when no timer is listed.
LEMMA InitInv == Init => IInv
<1> SUFFICES ASSUME Init PROVE IInv OBVIOUS
<1>1. TypeOK
  BY InitType
<1>2. Listed = {} /\ Current = {} /\ Overflow = {}
  BY <1>1, ListedIsInOne DEF Init, Listed
<1>3. Outstanding \subseteq {NoMessage}
  BY DEF Init, Outstanding
<1> QED BY <1>1, <1>2, <1>3
        DEF IInv, Init, ListsMatchEpochs, SampleFresh, ItemsFresh, MessagesFresh,
            HandFresh, HeadDue, OverflowBehind, SleepBound, NoMessage, StartLike

\* Steps that leave the clock, the lists and the daemon's locals alone, and at
\* most add a command stamped with the present time or wake the daemon.
LEMMA ApplicationStep ==
    ASSUME IInv, TypeOK',
           UNCHANGED <<now, xLastTime, xMessage, listVars>>,
           pc' = pc \/ (pc \in {"created", "blocked"} /\ pc' \in {"check", "receive"}),
           pc' = "blocked" => UNCHANGED <<xTimerQueue, xTicksToWait>>,
           \A m \in Outstanding' :
               m \in Outstanding \/ (m.cmd \in StartLike => m.at = now)
    PROVE  IInv'
<1> USE DEF listVars
<1>1. /\ Listed' = Listed /\ Current' = Current /\ Overflow' = Overflow
      /\ Heads' = Heads
  BY DEF Listed, Current, Overflow, Heads, pxOverflowTimerList
<1>2. ListsMatchEpochs' /\ SampleFresh' /\ ItemsFresh' /\ HandFresh' /\ HeadDue'
      /\ OverflowBehind'
  BY <1>1 DEF IInv, ListsMatchEpochs, SampleFresh, ItemsFresh, HandFresh, HeadDue,
              OverflowBehind
<1>3. MessagesFresh'
  <2>1. WithinWrap(now, now)
    BY WrapRefl DEF IInv, TypeOK
  <2> QED BY <2>1 DEF IInv, MessagesFresh
<1>4. SleepBound'
  BY <1>1 DEF IInv, SleepBound
<1> QED BY <1>2, <1>3, <1>4 DEF IInv

\* The tick keeps the invariant: it comes only while nothing is about to be a full
\* turn old, and it shortens a sleep that ends in time.
LEMMA TickStep == ASSUME IInv, TypeOK', xTaskIncrementTick PROVE IInv'
<1> USE DEF listVars
<1>t. TypeOK /\ now \in Instant /\ now' \in Instant /\ now' = Plus(now, 1)
  BY DEF IInv, TypeOK, xTaskIncrementTick
<1>1. /\ Listed' = Listed /\ Current' = Current /\ Overflow' = Overflow
      /\ Heads' = Heads /\ Outstanding' = Outstanding
  BY DEF xTaskIncrementTick, Listed, Current, Overflow, Heads, pxOverflowTimerList,
         Outstanding
<1>2. \A a \in WaitingSince : WithinWrap(a, now')
  BY DEF xTaskIncrementTick, Punctual
<1>3. /\ UNCHANGED <<xLastTime, xMessage, xTimerQueue, container, itemValue>>
      /\ pc' = pc \/ (pc = "blocked" /\ pc' = "receive")
  BY DEF xTaskIncrementTick
<1>4. ListsMatchEpochs' /\ HandFresh' /\ HeadDue' /\ OverflowBehind'
  BY <1>1, <1>3 DEF IInv, ListsMatchEpochs, HandFresh, HeadDue, OverflowBehind
<1>5. SampleFresh'
  BY <1>1, <1>2, <1>3 DEF SampleFresh, WaitingSince
<1>6. ItemsFresh'
  <2> SUFFICES ASSUME NEW t \in Listed, Leq(itemValue[t], now')
               PROVE  WithinWrap(itemValue[t], now')
    BY <1>1, <1>3 DEF ItemsFresh
  <2>1. itemValue[t] \in Instant
    BY <1>t DEF TypeOK, Listed
  <2>2. CASE Leq(itemValue[t], now)
    BY <2>2, <1>2 DEF WaitingSince
  <2>3. CASE ~Leq(itemValue[t], now)
    BY <2>1, <2>3, <1>t, TickDue
  <2> QED BY <2>2, <2>3
<1>7. MessagesFresh'
  BY <1>1, <1>2 DEF MessagesFresh, WaitingSince
<1>8. SleepBound'
  <2> SUFFICES ASSUME pc' = "blocked", NEW t \in Listed
               PROVE  /\ 1 <= xTicksToWait' /\ xTicksToWait' < TickMod
                      /\ Leq(Plus(now', xTicksToWait'), itemValue[t])
    BY <1>1, <1>3 DEF IInv, SleepBound
  <2>1. /\ pc = "blocked"
        /\ xTicksToWait \in 1 .. (TickMod - 1)
        /\ Leq(Plus(now, xTicksToWait), itemValue[t])
    BY <1>3, TickModAssumption DEF IInv, SleepBound, TypeOK
  <2>2. xTicksToWait \in 2 .. (TickMod - 1) /\ xTicksToWait' = xTicksToWait - 1
    BY <2>1, TickModAssumption DEF xTaskIncrementTick, Forever
  <2>3. Plus(now', xTicksToWait') = Plus(now, xTicksToWait)
    BY <2>2, <1>t, PlusTick
  <2> QED BY <2>1, <2>2, <2>3, TickModAssumption
<1> QED BY <1>4, <1>5, <1>6, <1>7, <1>8 DEF IInv

\* What a sample of the clock tells: the counter is less than at the last
\* sample exactly when it has wrapped once, while there is a listed timer.
LEMMA SampleTells ==
    ASSUME IInv, Listed # {} \/ pc \in {"switch", "dispatch"}
    PROVE  /\ Wrapped => now.epoch = xLastTime.epoch + 1
           /\ ~Wrapped => now.epoch = xLastTime.epoch /\ xLastTime.tick <= now.tick
BY TickModAssumption DEF IInv, TypeOK, SampleFresh, WithinWrap, Wrapped, Instant, Ticks

\* The wait that prvProcessTimerOrBlockTask asks for ends by the first expiry.
LEMMA BlockTimeRight ==
    ASSUME IInv, ~Wrapped, NEW t \in Listed, pc # "switch",
           xListWasEmpty \/ xNextExpireTime > now.tick
    PROVE  /\ 1 <= BlockTime /\ BlockTime < TickMod
           /\ Leq(Plus(now, BlockTime), itemValue[t])
<1> USE TickModAssumption DEF Instant, Ticks
<1>t. /\ TypeOK /\ now \in Instant /\ xLastTime \in Instant
      /\ itemValue[t] \in Instant
  BY DEF IInv, TypeOK, Listed
<1>1. now.epoch = xLastTime.epoch /\ xLastTime.tick <= now.tick
  BY SampleTells
<1>2. \A u \in Current : itemValue[u].epoch = now.epoch
  BY <1>1 DEF IInv, ListsMatchEpochs
<1>3. \A u \in Overflow : /\ itemValue[u].epoch = now.epoch + 1
                          /\ itemValue[u].tick < now.tick
  <2>1. \A u \in Overflow : /\ itemValue[u].epoch = xLastTime.epoch + 1
                            /\ itemValue[u].tick < xLastTime.tick
    BY DEF IInv, ListsMatchEpochs, OverflowBehind
  <2>2. \A u \in Overflow : itemValue[u] \in Instant
    BY <1>t DEF TypeOK, Overflow
  <2> QED BY <1>1, <1>t, <2>1, <2>2
<1>4. t \in Current \/ t \in Overflow
  BY <1>t, ListedIsInOne
<1>5. CASE xListWasEmpty
  <2>1. t \in Overflow /\ xNextExpireTime = 0
    BY <1>4, <1>5 DEF xListWasEmpty, xNextExpireTime
  <2>2. BlockTime = TickMod - now.tick /\ 0 < now.tick
    BY <2>1, <1>3, <1>t DEF BlockTime, TickSub
  <2> QED BY <2>1, <2>2, <1>3, <1>t DEF Plus, Leq
<1>6. CASE ~xListWasEmpty
  <2>1. PICK h \in Heads : xNextExpireTime = itemValue[h].tick
    BY <1>6, <1>t, HeadExists DEF xListWasEmpty, xNextExpireTime
  <2>2. h \in Current /\ itemValue[h] \in Instant
    BY <2>1, <1>t DEF Heads, Current, TypeOK
  <2>3. xNextExpireTime > now.tick
    BY <1>6
  <2>4. BlockTime = itemValue[h].tick - now.tick /\ now.tick < itemValue[h].tick
    BY <1>6, <2>1, <2>2, <2>3, <1>t DEF BlockTime, TickSub
  <2>5. Plus(now, BlockTime) = [epoch |-> now.epoch, tick |-> itemValue[h].tick]
    BY <2>2, <2>4, <1>t DEF Plus
  <2>6. CASE t \in Current
    <3>1. itemValue[h].tick <= itemValue[t].tick
      BY <2>1, <2>6 DEF Heads
    <3> QED BY <3>1, <2>2, <2>4, <2>5, <2>6, <1>2, <1>t DEF Leq
  <2>7. CASE t \in Overflow
    BY <2>2, <2>4, <2>5, <2>7, <1>3, <1>t DEF Leq
  <2> QED BY <1>4, <2>6, <2>7
<1> QED BY <1>5, <1>6

\* prvProcessTimerOrBlockTask samples the time and decides: to expire a head that is
\* due, to switch lists, or to sleep no longer than to the first expiry.
LEMMA CheckStep == ASSUME IInv, TypeOK', prvProcessTimerOrBlockTask PROVE IInv'
<1> USE DEF listVars
<1>t. /\ TypeOK /\ now \in Instant /\ xLastTime \in Instant /\ pc = "check"
      /\ now' = now /\ xLastTime' = now
      /\ UNCHANGED <<xMessage, xTimerQueue, pxCurrentTimerList, container, itemValue>>
  BY DEF IInv, TypeOK, prvProcessTimerOrBlockTask
<1>1. /\ Listed' = Listed /\ Current' = Current /\ Overflow' = Overflow
      /\ Heads' = Heads /\ Outstanding' = Outstanding
  BY DEF prvProcessTimerOrBlockTask, Listed, Current, Overflow, Heads,
         pxOverflowTimerList, Outstanding
<1>2. Listed = Current \cup Overflow
  BY <1>t, ListedIsInOne
<1>3. \A t \in Listed : itemValue[t] \in Instant
  BY <1>t DEF TypeOK, Listed
<1>4. ListsMatchEpochs'
  <2>1. CASE Wrapped
    BY <1>t, <1>1, <1>2, <2>1, SampleTells
       DEF IInv, ListsMatchEpochs, prvProcessTimerOrBlockTask
  <2>2. CASE ~Wrapped
    BY <1>t, <1>1, <1>2, <2>2, SampleTells
       DEF IInv, ListsMatchEpochs, prvProcessTimerOrBlockTask
  <2> QED BY <2>1, <2>2
<1>5. SampleFresh' /\ HandFresh'
  BY <1>t, <1>1, WrapRefl DEF IInv, SampleFresh, MessagesFresh, HandFresh, Outstanding
<1>6. ItemsFresh' /\ MessagesFresh'
  BY <1>t, <1>1 DEF IInv, ItemsFresh, MessagesFresh
<1>7. HeadDue'
  <2> SUFFICES ASSUME pc' = "expired", NEW t \in Heads
               PROVE  itemValue[t].tick <= now.tick
    BY <1>t, <1>1 DEF HeadDue
  <2>1. ~xListWasEmpty /\ xNextExpireTime <= now.tick
    BY DEF prvProcessTimerOrBlockTask
  <2>2. PICK h \in Heads : xNextExpireTime = itemValue[h].tick
    BY <2>1, <1>t, HeadExists DEF xListWasEmpty, xNextExpireTime
  <2>3. itemValue[t].tick <= itemValue[h].tick
    BY <2>2 DEF Heads
  <2>4. itemValue[t] \in Instant /\ itemValue[h] \in Instant
    BY <1>t DEF TypeOK, Heads, Current
  <2> QED BY <2>1, <2>2, <2>3, <2>4, <1>t, TickModAssumption DEF Instant, Ticks
<1>8. OverflowBehind'
  <2> SUFFICES ASSUME pc' # "switch", NEW t \in Overflow
               PROVE  itemValue[t].tick < now.tick
    BY <1>t, <1>1 DEF OverflowBehind
  <2>1. ~Wrapped
    BY DEF prvProcessTimerOrBlockTask
  <2>2. xLastTime.tick <= now.tick
    BY <1>2, <2>1, SampleTells
  <2>3. itemValue[t].tick < xLastTime.tick
    BY <1>t DEF IInv, OverflowBehind
  <2> QED BY <2>2, <2>3, <1>t, <1>2, <1>3, TickModAssumption DEF Instant, Ticks
<1>9. SleepBound'
  <2> SUFFICES ASSUME pc' = "blocked"
               PROVE  /\ xTimerQueue = <<>>
                      /\ \A t \in Listed :
                            /\ 1 <= xTicksToWait' /\ xTicksToWait' < TickMod
                            /\ Leq(Plus(now, xTicksToWait'), itemValue[t])
    BY <1>t, <1>1 DEF SleepBound
  <2>1. /\ ~Wrapped /\ xTimerQueue = <<>> /\ xTicksToWait' = BlockTime
        /\ xListWasEmpty \/ xNextExpireTime > now.tick
    BY DEF prvProcessTimerOrBlockTask
  <2> QED BY <2>1, <1>t, BlockTimeRight
<1> QED BY <1>4, <1>5, <1>6, <1>7, <1>8, <1>9 DEF IInv

\* A list handle that is not the current list is the overflow list.
LEMMA TwoLists ==
    \A l \in Lists, c \in Lists \cup {"NULL"} :
        c # "NULL" <=> (c = l \/ c = OtherList(l))
BY OtherListIsOther DEF Lists

\* What prvInsertTimerInActiveList (or a removal, verdict "now") does to the
\* lists, apart from the timer it is about.
LEMMA PutInListEffect ==
    ASSUME TypeOK, NEW t \in Timers, NEW next \in Instant,
           NEW v \in {"now", "current", "overflow"},
           PutInList(t, next, v), pxCurrentTimerList' = pxCurrentTimerList
    PROVE  /\ \A u \in Timers \ {t} :
                 container'[u] = container[u] /\ itemValue'[u] = itemValue[u]
           /\ Current' = (Current \ {t}) \cup (IF v = "current" THEN {t} ELSE {})
           /\ Overflow' = (Overflow \ {t}) \cup (IF v = "overflow" THEN {t} ELSE {})
           /\ v # "now" => itemValue'[t] = next
<1>1. /\ pxOverflowTimerList' = pxOverflowTimerList
      /\ pxOverflowTimerList \in Lists /\ pxOverflowTimerList # pxCurrentTimerList
      /\ "NULL" \notin Lists /\ pxCurrentTimerList \in Lists
  BY ListedIsInOne DEF pxOverflowTimerList, TypeOK
<1>2. \A u \in Timers \ {t} :
          container'[u] = container[u] /\ itemValue'[u] = itemValue[u]
  BY DEF PutInList, TypeOK
<1>3. /\ v = "current" => container'[t] = pxCurrentTimerList /\ itemValue'[t] = next
      /\ v = "overflow" => container'[t] = pxOverflowTimerList /\ itemValue'[t] = next
      /\ v = "now" => container'[t] = "NULL"
  BY DEF PutInList, TypeOK
<1>4. Current' = (Current \ {t}) \cup (IF v = "current" THEN {t} ELSE {})
  BY <1>1, <1>2, <1>3 DEF Current
<1>5. Overflow' = (Overflow \ {t}) \cup (IF v = "overflow" THEN {t} ELSE {})
  BY <1>1, <1>2, <1>3 DEF Overflow
<1> QED BY <1>2, <1>3, <1>4, <1>5

\* uxListRemove is an insertion into no list.
LEMMA TakeOffIsPut ==
    ASSUME NEW t, TakeOffList(t) PROVE PutInList(t, Zero, "now")
BY DEF TakeOffList, PutInList

\* A step that ends a callback or a command: one timer is put where its expiry
\* belongs, seen from the last sample, and the daemon goes on to its queue.
LEMMA PutStep ==
    ASSUME IInv, TypeOK', NEW t \in Timers, NEW next \in Instant,
           NEW v \in {"now", "current", "overflow"}, PutInList(t, next, v),
           UNCHANGED <<now, xLastTime, pxCurrentTimerList>>,
           pc # "switch", pc' = "receive",
           WithinWrap(xLastTime, now),
           v = "current" => next.epoch = xLastTime.epoch /\ xLastTime.tick < next.tick,
           v = "overflow" => next.epoch = xLastTime.epoch + 1 /\ next.tick < xLastTime.tick,
           \A m \in Outstanding' :
               m \in Outstanding \/ (m.cmd \in StartLike => WithinWrap(m.at, now))
    PROVE  IInv'
<1>t. /\ TypeOK /\ now \in Instant /\ xLastTime \in Instant
      /\ Listed = Current \cup Overflow
  BY ListedIsInOne DEF IInv, TypeOK
<1>l. Listed' = Current' \cup Overflow'
  BY TwoLists DEF TypeOK, Listed, Current, Overflow, pxOverflowTimerList
<1>1. /\ Current' = (Current \ {t}) \cup (IF v = "current" THEN {t} ELSE {})
      /\ Overflow' = (Overflow \ {t}) \cup (IF v = "overflow" THEN {t} ELSE {})
      /\ v # "now" => itemValue'[t] = next
      /\ \A u \in Timers \ {t} : itemValue'[u] = itemValue[u]
  BY <1>t, PutInListEffect
<1>2. ListsMatchEpochs' /\ OverflowBehind'
  BY <1>1, <1>t DEF IInv, ListsMatchEpochs, OverflowBehind, Current, Overflow
<1>3. ItemsFresh'
  <2> SUFFICES ASSUME NEW u \in Listed', Leq(itemValue'[u], now)
               PROVE  WithinWrap(itemValue'[u], now)
    BY DEF ItemsFresh
  <2>1. CASE u # t
    BY <2>1, <1>1, <1>t, <1>l DEF IInv, ItemsFresh, Listed
  <2>2. CASE u = t
    <3>1. v # "now" /\ itemValue'[t] = next
      BY <2>2, <1>1, <1>l
    <3>2. Leq(xLastTime, next)
      BY <3>1, <1>t, TickModAssumption DEF Leq, Instant, Ticks
    <3> QED BY <2>2, <3>1, <3>2, <1>t, WrapBetween
  <2> QED BY <2>1, <2>2
<1>4. SampleFresh' /\ HandFresh' /\ HeadDue' /\ SleepBound'
  BY DEF SampleFresh, HandFresh, HeadDue, SleepBound
<1>5. MessagesFresh'
  BY DEF IInv, MessagesFresh
<1> QED BY <1>2, <1>3, <1>4, <1>5 DEF IInv

\* The messages after the daemon has sent itself a reload.
LEMMA ReloadOutstanding ==
    ASSUME TypeOK, NEW t \in Timers, NEW at \in Instant, SendReload(t, at),
           xMessage' \in {xMessage, NoMessage}, pending' = pending
    PROVE  \A m \in Outstanding' : m \in Outstanding \/ m.cmd \notin StartLike \/ m.at = at
<1> SUFFICES ASSUME NEW m \in Outstanding', m \notin Outstanding
             PROVE  m.cmd \notin StartLike \/ m.at = at
  OBVIOUS
<1> DEFINE r == [cmd |-> "RELOAD", timer |-> t, at |-> at, period |-> period[t]]
<1>0. r \in Message
  BY DEF Message, Commands, TypeOK
<1>1. \A i \in DOMAIN xTimerQueue' :
          xTimerQueue'[i] \in {xTimerQueue[j] : j \in DOMAIN xTimerQueue} \cup {r}
  <2>1. CASE HasRoom
    <3>1. xTimerQueue' = Append(xTimerQueue, r) /\ xTimerQueue \in Seq(Message)
      BY <2>1 DEF SendReload, TypeOK
    <3> QED BY <1>0, <3>1
  <2>2. CASE ~HasRoom
    BY <2>2 DEF SendReload
  <2> QED BY <2>1, <2>2
<1>2. m \in {r, NoMessage}
  BY <1>1 DEF Outstanding
<1> QED BY <1>2 DEF NoMessage, StartLike

\* prvProcessExpiredTimer keeps the invariant: an auto-reload timer goes back with its
\* next expiry, or gets a restart command less than one turn old.
LEMMA ExpiredStep ==
    ASSUME IInv, TypeOK', NEW t \in Timers, prvProcessExpiredTimer(t) PROVE IInv'
<1> DEFINE due     == itemValue[t]
           next    == Plus(due, period[t])
           verdict == InsertVerdict(next.tick, xLastTime.tick, due.tick, period[t])
<1>t. /\ TypeOK /\ now \in Instant /\ xLastTime \in Instant /\ due \in Instant
      /\ pc = "expired" /\ pc' = "receive" /\ t \in Current
      /\ UNCHANGED <<now, xLastTime, pxCurrentTimerList, xMessage, pending>>
  BY DEF IInv, TypeOK, prvProcessExpiredTimer, Heads
<1>p. period[t] \in 1 .. (TickMod - 1)
  BY <1>t, ServiceAssumption DEF TypeOK
<1>n. next \in Instant /\ Zero \in Instant
  <2>1. period[t] \in 0 .. (TickMod - 1)
    BY <1>p, TickModAssumption
  <2>2. next \in Instant
    BY <1>t, <2>1, PlusType
  <2> QED BY <2>2, TickModAssumption DEF Zero, Instant, Ticks
<1>1. WithinWrap(xLastTime, now)
  BY <1>t, ListedIsInOne DEF IInv, SampleFresh
<1>2. due.epoch = xLastTime.epoch /\ due.tick <= xLastTime.tick
  BY <1>t DEF IInv, ListsMatchEpochs, HeadDue, prvProcessExpiredTimer
<1>3. WithinWrap(due, xLastTime) /\ Leq(due, xLastTime)
  BY <1>2 DEF WithinWrap, Leq
<1>4. WithinWrap(due, now)
  <2>1. Leq(due, now)
    BY <1>1, <1>3, <1>t, WrapLeq, LeqTrans
  <2> QED BY <2>1, <1>t, ListedIsInOne DEF IInv, ItemsFresh
<1>5. /\ verdict \in {"now", "current", "overflow"}
      /\ verdict = "current" => next.epoch = xLastTime.epoch /\ xLastTime.tick < next.tick
      /\ verdict = "overflow" => next.epoch = xLastTime.epoch + 1 /\ next.tick < xLastTime.tick
  BY <1>3, <1>t, <1>p, VerdictCorrect
<1>6. \A m \in Outstanding' :
         m \in Outstanding \/ (m.cmd \in StartLike => WithinWrap(m.at, now))
  <2> HIDE DEF due
  <2>1. CASE SendReload(t, due)
    <3>1. \A m \in Outstanding' :
              m \in Outstanding \/ m.cmd \notin StartLike \/ m.at = due
      BY <2>1, <1>t, ReloadOutstanding
    <3> QED BY <3>1, <1>4
  <2>2. CASE NoReload
    BY <2>2, <1>t DEF NoReload, Outstanding
  <2> QED BY <2>1, <2>2 DEF prvProcessExpiredTimer, due
<1> HIDE DEF due, next, verdict
<1>7. CASE auto[t]
  <2>1. PutInList(t, next, verdict)
    BY <1>7 DEF prvProcessExpiredTimer, due, next, verdict
  <2> QED BY <2>1, <1>t, <1>n, <1>1, <1>5, <1>6, PutStep
<1>8. CASE ~auto[t]
  <2>1. PutInList(t, Zero, "now")
    BY <1>8, TakeOffIsPut DEF prvProcessExpiredTimer
  <2> QED BY <2>1, <1>t, <1>n, <1>1, <1>6, PutStep
<1> QED BY <1>7, <1>8

\* The loop of prvSwitchTimerLists takes every timer left in the current list, all of
\* which are due, and puts back what expires in the turn that ends.
LEMMA SwitchExpireStep ==
    ASSUME IInv, TypeOK', NEW t \in Timers, prvSwitchTimerListsExpire(t) PROVE IInv'
<1> DEFINE due    == itemValue[t]
           reload == Plus(due, period[t])
<1>t. /\ TypeOK /\ now \in Instant /\ xLastTime \in Instant /\ due \in Instant
      /\ pc = "switch" /\ pc' = "switch" /\ t \in Current
      /\ UNCHANGED <<now, xLastTime, pxCurrentTimerList, xMessage, pending>>
      /\ Listed = Current \cup Overflow
  BY ListedIsInOne DEF IInv, TypeOK, prvSwitchTimerListsExpire, Heads
<1>l. Listed' = Current' \cup Overflow'
  BY TwoLists DEF TypeOK, Listed, Current, Overflow, pxOverflowTimerList
<1>p. period[t] \in 1 .. (TickMod - 1)
  BY <1>t, ServiceAssumption DEF TypeOK
<1>z. Zero \in Instant
  BY TickModAssumption DEF Zero, Instant, Ticks
<1>1. WithinWrap(xLastTime, now) /\ due.epoch + 1 = xLastTime.epoch
  BY <1>t DEF IInv, SampleFresh, ListsMatchEpochs
<1>2. WithinWrap(due, now)
  <2>1. Leq(due, now)
    BY <1>1, <1>t, TickModAssumption DEF Leq, WithinWrap, Instant, Ticks
  <2> QED BY <2>1, <1>t DEF IInv, ItemsFresh
<1>3. MessagesFresh'
  <2> HIDE DEF due
  <2>1. CASE SendReload(t, due)
    <3>1. \A m \in Outstanding' :
              m \in Outstanding \/ m.cmd \notin StartLike \/ m.at = due
      BY <2>1, <1>t, ReloadOutstanding
    <3> QED BY <3>1, <1>2, <1>t DEF IInv, MessagesFresh
  <2>2. CASE NoReload
    <3>1. Outstanding' = Outstanding
      BY <2>2, <1>t DEF NoReload, Outstanding
    <3> QED BY <3>1, <1>t DEF IInv, MessagesFresh
  <2> QED BY <2>1, <2>2 DEF prvSwitchTimerListsExpire, due
<1>4. SampleFresh' /\ HandFresh' /\ HeadDue' /\ OverflowBehind' /\ SleepBound'
  BY <1>t, <1>1 DEF IInv, SampleFresh, HandFresh, HeadDue, OverflowBehind, SleepBound
<1>5. ListsMatchEpochs' /\ ItemsFresh'
  <2>1. CASE auto[t] /\ reload.tick > due.tick
    <3>1. /\ itemValue' = [itemValue EXCEPT ![t] = reload]
          /\ container' = container
      BY <2>1 DEF prvSwitchTimerListsExpire
    <3>2. Current' = Current /\ Overflow' = Overflow
      BY <3>1, <1>t DEF Current, Overflow, pxOverflowTimerList
    <3>3. reload.epoch = due.epoch /\ reload \in Instant
      BY <2>1, <1>t, <1>p, TickModAssumption DEF Plus, Instant, Ticks
    <3>4. Leq(due, reload) /\ Leq(reload, now)
      BY <2>1, <3>3, <1>1, <1>t, TickModAssumption DEF Leq, WithinWrap, Instant, Ticks
    <3>5. WithinWrap(reload, now)
      BY <3>3, <3>4, <1>2, <1>t, WrapBetween
    <3>6. /\ itemValue'[t] = reload
          /\ \A u \in Timers \ {t} : itemValue'[u] = itemValue[u]
      BY <3>1, <1>t DEF TypeOK
    <3> HIDE DEF reload, due
    <3>7. ListsMatchEpochs'
      <4>1. t \notin Overflow
        BY <1>t, ListedIsInOne
      <4> QED BY <3>2, <3>3, <3>6, <4>1, <1>1, <1>t
              DEF IInv, ListsMatchEpochs, Current, Overflow
    <3>8. ItemsFresh'
      BY <3>2, <3>5, <3>6, <1>t, <1>l DEF IInv, ItemsFresh, Current, Overflow
    <3> QED BY <3>7, <3>8
  <2>2. CASE ~(auto[t] /\ reload.tick > due.tick)
    <3>1. PutInList(t, Zero, "now")
      BY <2>2, TakeOffIsPut DEF prvSwitchTimerListsExpire
    <3>2. /\ Current' = Current \ {t} /\ Overflow' = Overflow \ {t}
          /\ \A u \in Timers \ {t} : itemValue'[u] = itemValue[u]
      BY <3>1, <1>t, <1>z, PutInListEffect
    <3> QED BY <3>2, <1>t, <1>l
            DEF IInv, ListsMatchEpochs, ItemsFresh, Current, Overflow
  <2> QED BY <2>1, <2>2
<1> QED BY <1>3, <1>4, <1>5 DEF IInv

\* The swap of prvSwitchTimerLists makes the overflow list the list of the new turn.
LEMMA SwapStep == ASSUME IInv, TypeOK', prvSwitchTimerListsSwap PROVE IInv'
<1>t. /\ TypeOK /\ pc = "switch" /\ pc' \in {"receive", "dispatch"} /\ Current = {}
      /\ UNCHANGED <<now, xLastTime, xMessage, xTimerQueue, container, itemValue,
                     pending>>
      /\ pxCurrentTimerList' = pxOverflowTimerList
  BY DEF IInv, prvSwitchTimerListsSwap
<1>1. OtherList(pxOverflowTimerList) = pxCurrentTimerList
  BY <1>t, OtherListIsOther DEF TypeOK, Lists, pxOverflowTimerList
<1>2. Current' = Overflow /\ Overflow' = {} /\ Listed' = Listed
      /\ Outstanding' = Outstanding
  BY <1>t, <1>1 DEF Current, Overflow, pxOverflowTimerList, Listed, Outstanding
<1> QED BY <1>t, <1>2
        DEF IInv, ListsMatchEpochs, SampleFresh, ItemsFresh, MessagesFresh, HandFresh,
            HeadDue, OverflowBehind, SleepBound

\* prvProcessReceivedCommands takes a message and its timer off the lists and samples
\* the time, which may ask for a switch of lists first.
LEMMA ReceiveStep == ASSUME IInv, TypeOK', prvProcessReceivedCommands PROVE IInv'
<1> DEFINE m0 == Head(xTimerQueue)
           t  == m0.timer
<1>t. /\ TypeOK /\ now \in Instant /\ xLastTime \in Instant /\ pc = "receive"
      /\ UNCHANGED <<now, pxCurrentTimerList, pending>>
      /\ xLastTime' = now /\ xMessage' = m0 /\ xTimerQueue' = Tail(xTimerQueue)
      /\ xTimerQueue \in Seq(Message) /\ xTimerQueue # <<>>
      /\ pc' = IF Wrapped THEN "switch" ELSE "dispatch"
      /\ TakeOffList(t)
  BY DEF IInv, TypeOK, prvProcessReceivedCommands
<1>m. /\ m0 \in Message /\ t \in Timers /\ m0 \in Outstanding
      /\ Outstanding' \subseteq Outstanding
  <2>1. m0 \in Message /\ m0 = xTimerQueue[1] /\ 1 \in DOMAIN xTimerQueue
    BY <1>t
  <2>2. \A i \in DOMAIN xTimerQueue' :
            i + 1 \in DOMAIN xTimerQueue /\ xTimerQueue'[i] = xTimerQueue[i + 1]
    BY <1>t
  <2> QED BY <2>1, <2>2, <1>t DEF Message, Outstanding
<1> HIDE DEF m0, t
<1>z. Zero \in Instant
  BY TickModAssumption DEF Zero, Instant, Ticks
<1>l. /\ Listed = Current \cup Overflow
      /\ Listed' = Current' \cup Overflow'
  <2>1. Listed = Current \cup Overflow
    BY <1>t, ListedIsInOne
  <2>2. Listed' = Current' \cup Overflow'
    BY TwoLists DEF TypeOK, Listed, Current, Overflow, pxOverflowTimerList
  <2> QED BY <2>1, <2>2
<1>1. /\ Current' = Current \ {t} /\ Overflow' = Overflow \ {t}
      /\ \A u \in Timers \ {t} : itemValue'[u] = itemValue[u]
  BY <1>t, <1>m, <1>z, TakeOffIsPut, PutInListEffect
<1>2. \A u \in Timers : itemValue[u] \in Instant
  BY <1>t DEF TypeOK
<1>3. ListsMatchEpochs'
  <2>1. CASE Wrapped
    BY <1>t, <1>1, <1>l, <2>1, SampleTells
       DEF IInv, ListsMatchEpochs, Current, Overflow
  <2>2. CASE ~Wrapped
    BY <1>t, <1>1, <1>l, <2>2, SampleTells
       DEF IInv, ListsMatchEpochs, Current, Overflow
  <2> QED BY <2>1, <2>2
<1>4. SampleFresh' /\ HeadDue' /\ SleepBound'
  BY <1>t, WrapRefl DEF SampleFresh, HeadDue, SleepBound
<1>5. MessagesFresh' /\ HandFresh'
  BY <1>t, <1>m DEF IInv, MessagesFresh, HandFresh
<1>6. ItemsFresh'
  BY <1>t, <1>1, <1>l DEF IInv, ItemsFresh, Current, Overflow
<1>7. OverflowBehind'
  <2> SUFFICES ASSUME pc' # "switch", NEW u \in Overflow'
               PROVE  itemValue'[u].tick < now.tick
    BY <1>t DEF OverflowBehind
  <2>1. ~Wrapped /\ u \in Overflow /\ itemValue'[u] = itemValue[u] /\ u \in Timers
    BY <1>t, <1>1 DEF Overflow
  <2>2. xLastTime.tick <= now.tick
    BY <2>1, <1>l, SampleTells
  <2>3. itemValue[u].tick < xLastTime.tick
    BY <2>1, <1>t DEF IInv, OverflowBehind
  <2> QED BY <2>1, <2>2, <2>3, <1>2, <1>t, TickModAssumption DEF Instant, Ticks
<1> QED BY <1>3, <1>4, <1>5, <1>6, <1>7 DEF IInv

\* In each case of the switch of prvProcessReceivedCommands.
LEMMA DispatchFacts ==
    ASSUME IInv, NEW t \in Timers, NEW cmds \in SUBSET Commands, Dispatch(t, cmds)
    PROVE  /\ TypeOK /\ now \in Instant /\ xLastTime \in Instant
           /\ xMessage \in Message /\ xMessage.cmd \in cmds /\ xMessage.timer = t
           /\ xMessage' = NoMessage
           /\ pc = "dispatch" /\ pc' = "receive"
           /\ UNCHANGED <<now, xLastTime, pxCurrentTimerList, pending>>
           /\ WithinWrap(xLastTime, now)
<1>1. xMessage \in Message
  BY DEF IInv, TypeOK, Dispatch, NoMessage, Commands, UserCommands
<1> QED BY <1>1 DEF IInv, TypeOK, SampleFresh, Dispatch

\* The START case inserts the timer where VerdictCorrect says, or expires it at once.
LEMMA DispatchStartStep ==
    ASSUME IInv, TypeOK', NEW t \in Timers, DispatchStart(t) PROVE IInv'
<1> DEFINE at      == xMessage.at
           next    == Plus(at, period[t])
           verdict == InsertVerdict(next.tick, xLastTime.tick, at.tick, period[t])
<1>t. /\ TypeOK /\ now \in Instant /\ xLastTime \in Instant
      /\ xMessage \in Message /\ xMessage.cmd \in StartLike
      /\ xMessage' = NoMessage
      /\ pc = "dispatch" /\ pc' = "receive"
      /\ UNCHANGED <<now, xLastTime, pxCurrentTimerList, pending>>
      /\ WithinWrap(xLastTime, now)
  <2>1. StartLike \in SUBSET Commands
    BY DEF StartLike, Commands, UserCommands
  <2> QED BY <2>1, DispatchFacts DEF DispatchStart
<1>a. at \in Instant
  BY <1>t DEF Message
<1>p. period[t] \in 1 .. (TickMod - 1) /\ period[t] \in 0 .. (TickMod - 1)
  BY <1>t, PeriodRange DEF TypeOK
<1>n. next \in Instant
  BY <1>a, <1>p, PlusType
<1>1. WithinWrap(at, xLastTime) /\ WithinWrap(at, now)
  BY <1>t DEF IInv, HandFresh, MessagesFresh, Outstanding
<1>2. /\ verdict \in {"now", "current", "overflow"}
      /\ verdict = "now" => Leq(next, xLastTime)
      /\ verdict = "current" => next.epoch = xLastTime.epoch /\ xLastTime.tick < next.tick
      /\ verdict = "overflow" => next.epoch = xLastTime.epoch + 1 /\ next.tick < xLastTime.tick
  BY <1>1, <1>t, <1>a, <1>p, VerdictCorrect
<1>3. Leq(at, next)
  BY <1>a, <1>p, PlusLeq
<1>4. PutInList(t, next, verdict)
  BY DEF DispatchStart
<1>5. (verdict = "now" /\ SendReload(t, next)) \/ NoReload
  BY DEF DispatchStart
<1> HIDE DEF at, next, verdict
<1>6. \A m \in Outstanding' :
         m \in Outstanding \/ (m.cmd \in StartLike => WithinWrap(m.at, now))
  <2>1. CASE verdict = "now" /\ SendReload(t, next)
    <3>1. \A m \in Outstanding' :
              m \in Outstanding \/ m.cmd \notin StartLike \/ m.at = next
      BY <2>1, <1>t, <1>n, ReloadOutstanding
    <3>2. WithinWrap(next, now)
      <4>1. Leq(next, now)
        BY <2>1, <1>2, <1>n, <1>t, WrapLeq, LeqTrans
      <4> QED BY <4>1, <1>1, <1>3, <1>n, <1>a, <1>t, WrapBetween
    <3> QED BY <3>1, <3>2
  <2>2. CASE NoReload
    BY <2>2, <1>t DEF NoReload, Outstanding, NoMessage, StartLike
  <2> QED BY <1>5, <2>1, <2>2
<1> QED BY <1>2, <1>4, <1>6, <1>n, <1>t, PutStep

\* The CHANGE_PERIOD case inserts the timer counting from the sample.
LEMMA DispatchChangePeriodStep ==
    ASSUME IInv, TypeOK', NEW t \in Timers, DispatchChangePeriod(t) PROVE IInv'
<1> DEFINE p       == xMessage.period
           next    == Plus(xLastTime, p)
           verdict == InsertVerdict(next.tick, xLastTime.tick, xLastTime.tick, p)
<1>t. /\ TypeOK /\ now \in Instant /\ xLastTime \in Instant
      /\ xMessage \in Message
      /\ xMessage' = NoMessage
      /\ pc = "dispatch" /\ pc' = "receive"
      /\ UNCHANGED <<now, xLastTime, pxCurrentTimerList, pending>>
      /\ WithinWrap(xLastTime, now)
  <2>1. {"CHANGE_PERIOD"} \in SUBSET Commands
    BY DEF Commands, UserCommands
  <2> QED BY <2>1, DispatchFacts DEF DispatchChangePeriod
<1>p. p \in 1 .. (TickMod - 1) /\ p \in 0 .. (TickMod - 1)
  <2>1. p \in Periods
    BY <1>t DEF Message
  <2> QED BY <2>1, PeriodRange
<1>n. next \in Instant
  BY <1>t, <1>p, PlusType
<1>2. /\ verdict \in {"now", "current", "overflow"}
      /\ verdict = "current" => next.epoch = xLastTime.epoch /\ xLastTime.tick < next.tick
      /\ verdict = "overflow" => next.epoch = xLastTime.epoch + 1 /\ next.tick < xLastTime.tick
  BY <1>t, <1>p, VerdictCorrect, WrapRefl
<1>3. PutInList(t, next, verdict) /\ NoReload
  BY DEF DispatchChangePeriod
<1> HIDE DEF p, next, verdict
<1>4. \A m \in Outstanding' :
         m \in Outstanding \/ (m.cmd \in StartLike => WithinWrap(m.at, now))
  BY <1>3, <1>t DEF NoReload, Outstanding, NoMessage, StartLike
<1> QED BY <1>2, <1>3, <1>4, <1>n, <1>t, PutStep

\* STOP, DELETE and the end of the queue leave the lists alone.
LEMMA QuietStep ==
    ASSUME IInv, TypeOK',
           UNCHANGED <<now, xLastTime, listVars, pending, xTimerQueue>>,
           xMessage' \in {xMessage, NoMessage},
           pc \in {"dispatch", "receive"}, pc' \in {"check", "receive"}
    PROVE  IInv'
<1>1. /\ Listed' = Listed /\ Current' = Current /\ Overflow' = Overflow
  BY DEF listVars, Listed, Current, Overflow, pxOverflowTimerList
<1>2. \A m \in Outstanding' : m \in Outstanding \/ m = NoMessage
  BY DEF Outstanding
<1> QED BY <1>1, <1>2
        DEF IInv, listVars, ListsMatchEpochs, SampleFresh, ItemsFresh, MessagesFresh,
            HandFresh, HeadDue, OverflowBehind, SleepBound, NoMessage, StartLike

\* The messages after a call that adds at most m to the queue.
LEMMA SendOutstanding ==
    ASSUME TypeOK, NEW m \in Message, Send(m), xMessage' = xMessage
    PROVE  \A n \in {xTimerQueue'[i] : i \in DOMAIN xTimerQueue'} :
               n \in Outstanding \/ n = m
<1>1. CASE HasRoom
  <2>1. xTimerQueue' = Append(xTimerQueue, m) /\ xTimerQueue \in Seq(Message)
    BY <1>1 DEF Send, TypeOK
  <2>2. \A i \in DOMAIN xTimerQueue' :
            xTimerQueue'[i] \in {xTimerQueue[j] : j \in DOMAIN xTimerQueue} \cup {m}
    BY <2>1
  <2> QED BY <2>2 DEF Outstanding
<1>2. CASE ~HasRoom
  BY <1>2 DEF Send, Outstanding
<1> QED BY <1>1, <1>2

\* Every step keeps the invariant.
LEMMA NextInv == IInv /\ [Next]_vars => IInv'
<1> SUFFICES ASSUME IInv, [Next]_vars PROVE IInv' OBVIOUS
<1>t. TypeOK /\ TypeOK'
  BY NextType DEF IInv
<1>1. CASE prvProcessTimerOrBlockTask
  BY <1>1, <1>t, CheckStep
<1>2. CASE prvSwitchTimerListsSwap
  BY <1>2, <1>t, SwapStep
<1>3. CASE prvProcessReceivedCommands
  BY <1>3, <1>t, ReceiveStep
<1>4. CASE CommandsDone
  BY <1>4, <1>t, QuietStep DEF CommandsDone
<1>5. ASSUME NEW t \in Timers, prvProcessExpiredTimer(t) PROVE IInv'
  BY <1>5, <1>t, ExpiredStep
<1>6. ASSUME NEW t \in Timers, prvSwitchTimerListsExpire(t) PROVE IInv'
  BY <1>6, <1>t, SwitchExpireStep
<1>7. ASSUME NEW t \in Timers, DispatchStart(t) PROVE IInv'
  BY <1>7, <1>t, DispatchStartStep
<1>8. ASSUME NEW t \in Timers, DispatchChangePeriod(t) PROVE IInv'
  BY <1>8, <1>t, DispatchChangePeriodStep
<1>9. ASSUME NEW t \in Timers, DispatchStop(t) PROVE IInv'
  BY <1>9, <1>t, QuietStep DEF DispatchStop, Dispatch, NoReload, listVars
<1>10. ASSUME NEW t \in Timers, DispatchDelete(t) PROVE IInv'
  BY <1>10, <1>t, QuietStep DEF DispatchDelete, Dispatch, NoReload, listVars
<1>11. ASSUME NEW t \in Timers, NEW p \in Periods, NEW reload \in BOOLEAN,
              xTimerCreate(t, p, reload)
       PROVE  IInv'
  <2>1. Outstanding' = Outstanding
    BY <1>11 DEF xTimerCreate, Outstanding
  <2> QED BY <1>11, <2>1, <1>t, ApplicationStep DEF xTimerCreate
<1>12. ASSUME NEW c \in Tasks, NEW t \in Timers, NEW cmd \in UserCommands,
              NEW p \in Periods, xTimerCommandMacro(c, t, cmd, p)
       PROVE  IInv'
  <2> DEFINE new == [cmd |-> cmd, timer |-> t, at |-> Stamp(cmd), period |-> p]
  <2>1. \A d \in Tasks : pending'[d] = pending[d] \/ pending'[d] = new
    BY <1>12, <1>t DEF xTimerCommandMacro, TypeOK
  <2>2. xTimerQueue' = xTimerQueue /\ xMessage' = xMessage
    BY <1>12 DEF xTimerCommandMacro
  <2>3. \A m \in Outstanding' : m \in Outstanding \/ m = new
    BY <2>1, <2>2 DEF Outstanding
  <2>4. \A m \in Outstanding' : m \in Outstanding \/ (m.cmd \in StartLike => m.at = now)
    BY <2>3 DEF Stamp
  <2> QED BY <1>12, <2>4, <1>t, ApplicationStep DEF xTimerCommandMacro
<1>13. ASSUME NEW t \in Timers, NEW cmd \in UserCommands, NEW p \in Periods,
              xTimerGenericCommandFromISR(t, cmd, p)
       PROVE  IInv'
  <2> DEFINE new == [cmd |-> cmd, timer |-> t, at |-> Stamp(cmd), period |-> p]
  <2>1. new \in Message
    BY <1>t, TickModAssumption
       DEF Message, Commands, Stamp, TypeOK, Zero, Instant, Ticks
  <2>2. Send(new) /\ xMessage' = xMessage /\ pending' = pending /\ HasRoom
    BY <1>13 DEF xTimerGenericCommandFromISR
  <2>3. \A m \in Outstanding' : m \in Outstanding \/ m = new
    <3>1. \A n \in {xTimerQueue'[i] : i \in DOMAIN xTimerQueue'} :
              n \in Outstanding \/ n = new
      BY <2>1, <2>2, <1>t, SendOutstanding
    <3> QED BY <2>2, <3>1 DEF Outstanding
  <2>4. \A m \in Outstanding' : m \in Outstanding \/ (m.cmd \in StartLike => m.at = now)
    BY <2>3 DEF Stamp
  <2>5. /\ pc' = pc \/ (pc = "blocked" /\ pc' = "receive")
        /\ pc' = "blocked" => UNCHANGED <<xTimerQueue, xTicksToWait>>
    BY <2>2 DEF Send
  <2> QED BY <1>13, <2>4, <2>5, <1>t, ApplicationStep DEF xTimerGenericCommandFromISR
<1>14. ASSUME NEW c \in Tasks, xTimerGenericCommand(c) PROVE IInv'
  <2>1. pending[c] \in Message /\ pending[c] \in Outstanding
    BY <1>14, <1>t DEF xTimerGenericCommand, TypeOK, Outstanding
  <2>2. Send(pending[c]) /\ xMessage' = xMessage
    BY <1>14 DEF xTimerGenericCommand
  <2>3. \A m \in Outstanding' : m \in Outstanding \/ m = NoMessage
    <3>1. \A n \in {xTimerQueue'[i] : i \in DOMAIN xTimerQueue'} : n \in Outstanding
      BY <2>1, <2>2, <1>t, SendOutstanding
    <3>2. \A d \in Tasks : pending'[d] = pending[d] \/ pending'[d] = NoMessage
      BY <1>14, <1>t DEF xTimerGenericCommand, TypeOK
    <3> QED BY <2>2, <3>1, <3>2 DEF Outstanding
  <2>4. \A m \in Outstanding' : m \in Outstanding \/ (m.cmd \in StartLike => m.at = now)
    BY <2>3 DEF NoMessage, StartLike
  <2>5. /\ pc' = pc \/ (pc = "blocked" /\ pc' = "receive")
        /\ pc' = "blocked" => UNCHANGED <<xTimerQueue, xTicksToWait>>
    BY <2>2 DEF Send
  <2> QED BY <1>14, <2>4, <2>5, <1>t, ApplicationStep DEF xTimerGenericCommand
<1>15. CASE vTaskStartScheduler
  <2>1. Outstanding' = Outstanding
    BY <1>15 DEF vTaskStartScheduler, Outstanding
  <2> QED BY <1>15, <2>1, <1>t, ApplicationStep DEF vTaskStartScheduler
<1>16. CASE xTaskIncrementTick
  BY <1>16, <1>t, TickStep
<1>17. CASE UNCHANGED vars
  <2>1. Outstanding' = Outstanding
    BY <1>17 DEF vars, Outstanding
  <2> QED BY <1>17, <2>1, <1>t, ApplicationStep DEF vars
<1> QED BY <1>1, <1>2, <1>3, <1>4, <1>5, <1>6, <1>7, <1>8, <1>9, <1>10, <1>11, <1>12,
           <1>13, <1>14, <1>15, <1>16, <1>17
        DEF Next, Daemon, Application

\* The invariant holds in every state the timer service reaches.
THEOREM ServiceInvariant == Spec => []IInv
BY InitInv, NextInv, PTL DEF Spec

-------------------------------------------------------------------------------
(***************************************************************************)
(* The theorems.                                                           *)
(***************************************************************************)
\* The two lists of timers.c hold the timers of the turn of the tick counter
\* they stand for, whatever commands tasks and interrupt handlers issue and
\* however often the counter wraps.
THEOREM ListsCorrect == Spec => []ListsMatchEpochs
<1>1. IInv => ListsMatchEpochs
  BY DEF IInv
<1> QED BY <1>1, ServiceInvariant, PTL

\* The daemon never blocks past the expiry of a listed timer, nor with a command
\* in its queue.
THEOREM NoOversleeping == Spec => []NeverSleepsThrough
<1>1. IInv => NeverSleepsThrough
  <2> SUFFICES ASSUME IInv, pc = "blocked"
               PROVE  /\ \A t \in Listed : Lt(now, itemValue[t])
                      /\ xTimerQueue = <<>>
    BY DEF NeverSleepsThrough
  <2>1. ASSUME NEW t \in Listed PROVE Lt(now, itemValue[t])
    <3>1. /\ now \in Instant /\ itemValue[t] \in Instant
          /\ xTicksToWait \in 1 .. (TickMod - 1)
          /\ Leq(Plus(now, xTicksToWait), itemValue[t])
      BY TickModAssumption DEF IInv, SleepBound, TypeOK, Listed
    <3> QED BY <3>1, LtPlus
  <2> QED BY <2>1 DEF IInv, SleepBound
<1> QED BY <1>1, ServiceInvariant, PTL

-------------------------------------------------------------------------------
(***************************************************************************)
(* Deletions, stops and reloads.  What a task sends finds the daemon       *)
(* blocked, and so the queue empty: a DELETE or a STOP of a task is first  *)
(* in the queue and is received before the daemon can queue a reload       *)
(* behind it.  Only commands that main() queues before the scheduler runs, *)
(* and those of interrupt handlers, may be overtaken.                      *)
(***************************************************************************)
\* The message in hand is there from its receipt to its case of the switch, and no
\* timer is listed before the daemon runs.
PlaceInv ==
    /\ xMessage # NoMessage => pc \in {"switch", "dispatch"}
    /\ pc = "created" => Listed = {}

\* The elements of a longer queue.
LEMMA AppendEach ==
    ASSUME NEW S, NEW q \in Seq(S), NEW m
    PROVE  /\ Len(Append(q, m)) = Len(q) + 1
           /\ \A i \in DOMAIN Append(q, m) :
                  (\E j \in DOMAIN q : Append(q, m)[i] = q[j]) \/ Append(q, m)[i] = m
OBVIOUS

\* The elements of a queue whose head is taken.
LEMMA TailEach ==
    ASSUME NEW S, NEW q \in Seq(S), q # <<>>
    PROVE  /\ 1 \in DOMAIN q /\ Head(q) = q[1] /\ Head(q) \in S
           /\ Tail(q) \in Seq(S) /\ Len(Tail(q)) = Len(q) - 1
           /\ \A i \in DOMAIN Tail(q) : i + 1 \in DOMAIN q /\ Tail(q)[i] = q[i + 1]
           /\ Len(q) = 1 => DOMAIN Tail(q) = {}
<1>1. Len(q) \in Nat /\ Len(q) > 0 /\ DOMAIN q = 1 .. Len(q)
  OBVIOUS
<1>2. 1 \in DOMAIN q /\ Head(q) = q[1] /\ Head(q) \in S
  OBVIOUS
<1>3. Tail(q) \in Seq(S) /\ Len(Tail(q)) = Len(q) - 1
  OBVIOUS
<1>4. DOMAIN Tail(q) = 1 .. (Len(q) - 1)
  BY <1>3
<1>5. \A i \in 1 .. (Len(q) - 1) : Tail(q)[i] = q[i + 1]
  OBVIOUS
<1> QED BY <1>1, <1>2, <1>3, <1>4, <1>5

\* What a step of the daemon on timer t may do: move t, which it found in a list or
\* was told of by the message in hand, and send a reload of t.
Works(t) ==
    /\ pc \notin {"created", "receive"} /\ pc' # "created"
    /\ UNCHANGED <<pending, block, auto>>
    /\ \A u \in Timers \ {t} : container'[u] = container[u]
    /\ xTimerQueue' # xTimerQueue => auto[t]
    /\ \A i \in DOMAIN xTimerQueue' :
           \/ \E j \in DOMAIN xTimerQueue : xTimerQueue'[i] = xTimerQueue[j]
           \/ xTimerQueue'[i].cmd = "RELOAD" /\ xTimerQueue'[i].timer = t
    /\ \/ container[t] # "NULL" /\ xMessage' = xMessage
       \/ /\ xMessage # NoMessage /\ xMessage' = NoMessage
          /\ xMessage.timer = t /\ xMessage.cmd \notin {"STOP", "DELETE"}
    /\ xMessage' # NoMessage => pc' \in {"switch", "dispatch"}

\* What a step that moves no timer and sends nothing may do.
Idles ==
    /\ UNCHANGED <<pending, block, auto, container, xTimerQueue>>
    /\ xMessage' = xMessage \/ xMessage' = NoMessage
    /\ xMessage' # NoMessage => pc' \in {"switch", "dispatch"}
    /\ pc = "receive" /\ xTimerQueue # <<>> => pc' = "receive"
    /\ pc' = "created" => pc = "created"

\* The daemon adds at most a reload of the timer it works on to its queue.
LEMMA ReloadElements ==
    ASSUME TypeOK, NEW t, NEW at, SendReload(t, at) \/ NoReload
    PROVE  \A i \in DOMAIN xTimerQueue' :
               \/ \E j \in DOMAIN xTimerQueue : xTimerQueue'[i] = xTimerQueue[j]
               \/ xTimerQueue'[i].cmd = "RELOAD" /\ xTimerQueue'[i].timer = t
<1> DEFINE m == [cmd |-> "RELOAD", timer |-> t, at |-> at, period |-> period[t]]
<1>1. xTimerQueue' = Append(xTimerQueue, m) \/ xTimerQueue' = xTimerQueue
  BY DEF SendReload, NoReload
<1>2. m.cmd = "RELOAD" /\ m.timer = t
  OBVIOUS
<1> HIDE DEF m
<1>3. xTimerQueue \in Seq(Message)
  BY DEF TypeOK
<1> QED BY <1>1, <1>2, <1>3, AppendEach

\* The moves of a timer leave the others where they are.
LEMMA MoveOne ==
    ASSUME TypeOK, NEW t \in Timers, NEW next, NEW v,
           TakeOffList(t) \/ PutInList(t, next, v)
    PROVE  \A u \in Timers \ {t} : container'[u] = container[u]
BY DEF TypeOK, TakeOffList, PutInList

\* Timers at the head of the current list are timers, and listed.
LEMMA HeadIsListed ==
    ASSUME TypeOK, NEW t \in Heads
    PROVE  t \in Timers /\ t \in Listed /\ container[t] # "NULL"
BY ListedIsInOne DEF Heads, Current, Listed, TypeOK

\* Every step is of one of these kinds.
LEMMA StepKinds ==
    ASSUME TypeOK, PlaceInv, [Next]_vars
    PROVE  \/ Idles
           \/ \E t \in Timers : Works(t) \/ DispatchDelete(t)
           \/ prvProcessReceivedCommands
           \/ \E t \in Timers, p \in Periods, reload \in BOOLEAN :
                  xTimerCreate(t, p, reload)
           \/ \E c \in Tasks, t \in Timers, cmd \in UserCommands, p \in Periods :
                  xTimerCommandMacro(c, t, cmd, p)
           \/ \E c \in Tasks : xTimerGenericCommand(c)
           \/ \E t \in Timers, cmd \in UserCommands, p \in Periods :
                  xTimerGenericCommandFromISR(t, cmd, p)
<1>h. xMessage # NoMessage => pc \in {"switch", "dispatch"}
  BY DEF PlaceInv
<1>1. CASE prvProcessTimerOrBlockTask
  <2>1. pc = "check" /\ pc' \in {"switch", "expired", "receive", "blocked"}
        /\ UNCHANGED <<pending, block, auto, container, xTimerQueue, xMessage>>
    BY <1>1 DEF prvProcessTimerOrBlockTask, listVars, timerVars
  <2> QED BY <2>1, <1>h DEF Idles
<1>2. CASE prvSwitchTimerListsSwap
  BY <1>2 DEF prvSwitchTimerListsSwap, timerVars, Idles
<1>3. CASE CommandsDone
  BY <1>3, <1>h DEF CommandsDone, listVars, timerVars, Idles
<1>4. ASSUME NEW t \in Timers, prvProcessExpiredTimer(t) PROVE Works(t)
  <2>1. /\ pc = "expired" /\ pc' = "receive" /\ t \in Heads
        /\ UNCHANGED <<pending, block, auto, xMessage>>
    BY <1>4 DEF prvProcessExpiredTimer, timerVars
  <2>2. xMessage = NoMessage /\ container[t] # "NULL"
    BY <2>1, <1>h, HeadIsListed
  <2>3. \A u \in Timers \ {t} : container'[u] = container[u]
    BY <1>4, MoveOne DEF prvProcessExpiredTimer
  <2>4. (auto[t] /\ SendReload(t, itemValue[t])) \/ NoReload
    BY <1>4 DEF prvProcessExpiredTimer
  <2> QED BY <2>1, <2>2, <2>3, <2>4, ReloadElements DEF Works, NoReload
<1>5. ASSUME NEW t \in Timers, prvSwitchTimerListsExpire(t) PROVE Works(t)
  <2>1. /\ pc = "switch" /\ pc' = "switch" /\ t \in Heads
        /\ UNCHANGED <<pending, block, auto, xMessage>>
    BY <1>5 DEF prvSwitchTimerListsExpire, timerVars
  <2>2. container[t] # "NULL"
    BY <2>1, HeadIsListed
  <2>3. \A u \in Timers \ {t} : container'[u] = container[u]
    BY <1>5, MoveOne DEF prvSwitchTimerListsExpire
  <2>4. (auto[t] /\ SendReload(t, itemValue[t])) \/ NoReload
    BY <1>5 DEF prvSwitchTimerListsExpire
  <2> QED BY <2>1, <2>2, <2>3, <2>4, ReloadElements DEF Works, NoReload
<1>6. ASSUME NEW t \in Timers, DispatchStart(t) PROVE Works(t)
  <2>1. /\ pc = "dispatch" /\ pc' = "receive" /\ UNCHANGED <<pending, block, auto>>
        /\ xMessage # NoMessage /\ xMessage' = NoMessage
        /\ xMessage.timer = t /\ xMessage.cmd \notin {"STOP", "DELETE"}
    BY <1>6 DEF DispatchStart, Dispatch, StartLike, NoMessage
  <2>2. \A u \in Timers \ {t} : container'[u] = container[u]
    BY <1>6, MoveOne DEF DispatchStart
  <2>3. (auto[t] /\ SendReload(t, Plus(xMessage.at, period[t]))) \/ NoReload
    BY <1>6 DEF DispatchStart
  <2> QED BY <2>1, <2>2, <2>3, ReloadElements DEF Works, NoReload
<1>7. ASSUME NEW t \in Timers, DispatchChangePeriod(t) PROVE Works(t)
  <2>1. /\ pc = "dispatch" /\ pc' = "receive" /\ UNCHANGED <<pending, block, auto, xTimerQueue>>
        /\ xMessage # NoMessage /\ xMessage' = NoMessage
        /\ xMessage.timer = t /\ xMessage.cmd \notin {"STOP", "DELETE"}
    BY <1>7 DEF DispatchChangePeriod, Dispatch, NoReload, NoMessage
  <2>2. \A u \in Timers \ {t} : container'[u] = container[u]
    BY <1>7, MoveOne DEF DispatchChangePeriod
  <2> QED BY <2>1, <2>2 DEF Works
<1>8. ASSUME NEW t \in Timers, DispatchStop(t) PROVE Idles
  BY <1>8 DEF DispatchStop, Dispatch, NoReload, Idles
<1>9. CASE vTaskStartScheduler
  BY <1>9, <1>h DEF vTaskStartScheduler, listVars, timerVars, Idles
<1>10. CASE xTaskIncrementTick
  <2>1. pc' = pc \/ (pc = "blocked" /\ pc' = "receive")
    BY <1>10 DEF xTaskIncrementTick
  <2>2. UNCHANGED <<pending, block, auto, container, xTimerQueue, xMessage>>
    BY <1>10 DEF xTaskIncrementTick, listVars, timerVars
  <2> QED BY <2>1, <2>2, <1>h DEF Idles
<1>11. CASE UNCHANGED vars
  BY <1>11, <1>h DEF vars, listVars, timerVars, Idles
<1> QED BY <1>1, <1>2, <1>3, <1>4, <1>5, <1>6, <1>7, <1>8, <1>9, <1>10, <1>11
        DEF Next, Daemon, Application

\* The effect of sending a command: it is added to the queue if there is room.
LEMMA SendEffect ==
    ASSUME TypeOK, NEW m, Send(m)
    PROVE  /\ \A i \in DOMAIN xTimerQueue' :
                  \/ i \in DOMAIN xTimerQueue /\ xTimerQueue'[i] = xTimerQueue[i]
                  \/ i \notin DOMAIN xTimerQueue /\ xTimerQueue'[i] = m
           /\ pc' = pc \/ (pc = "blocked" /\ pc' = "receive")
<1>1. xTimerQueue' = Append(xTimerQueue, m) \/ xTimerQueue' = xTimerQueue
  BY DEF Send
<1>2. xTimerQueue \in Seq(Message)
  BY DEF TypeOK
<1>3. pc' = pc \/ (pc = "blocked" /\ pc' = "receive")
  BY DEF Send
<1> QED BY <1>1, <1>2, <1>3

\* Every step keeps the message in hand, and the lists, in their place.
LEMMA NextPlace == TypeOK /\ PlaceInv /\ [Next]_vars => PlaceInv'
<1> SUFFICES ASSUME TypeOK, PlaceInv, [Next]_vars PROVE PlaceInv' OBVIOUS
<1>1. CASE Idles
  BY <1>1 DEF Idles, PlaceInv, Listed
<1>2. ASSUME NEW t \in Timers, Works(t) PROVE PlaceInv'
  BY <1>2 DEF Works, PlaceInv
<1>3. ASSUME NEW t \in Timers, DispatchDelete(t) PROVE PlaceInv'
  BY <1>3 DEF DispatchDelete, Dispatch, PlaceInv
<1>4. CASE prvProcessReceivedCommands
  BY <1>4 DEF prvProcessReceivedCommands, PlaceInv
<1>5. ASSUME NEW t, NEW p, NEW reload, xTimerCreate(t, p, reload) PROVE PlaceInv'
  BY <1>5 DEF xTimerCreate, listVars, PlaceInv, Listed
<1>6. ASSUME NEW c, NEW t, NEW cmd, NEW p, xTimerCommandMacro(c, t, cmd, p)
      PROVE  PlaceInv'
  BY <1>6 DEF xTimerCommandMacro, listVars, PlaceInv, Listed
<1>7. ASSUME NEW c \in Tasks, xTimerGenericCommand(c) PROVE PlaceInv'
  <2>1. UNCHANGED <<xMessage, container>> /\ (pc' = pc \/ (pc = "blocked" /\ pc' = "receive"))
    BY <1>7, SendEffect DEF xTimerGenericCommand, listVars
  <2> QED BY <2>1 DEF PlaceInv, Listed
<1>8. ASSUME NEW t, NEW cmd, NEW p, xTimerGenericCommandFromISR(t, cmd, p)
      PROVE  PlaceInv'
  <2>1. UNCHANGED <<xMessage, container>> /\ (pc' = pc \/ (pc = "blocked" /\ pc' = "receive"))
    BY <1>8, SendEffect DEF xTimerGenericCommandFromISR, listVars
  <2> QED BY <2>1 DEF PlaceInv, Listed
<1> QED BY <1>1, <1>2, <1>3, <1>4, <1>5, <1>6, <1>7, <1>8, StepKinds

\* The message in hand and the lists are in their place at the start.
LEMMA InitPlace == Init => PlaceInv
BY DEF Init, PlaceInv, Listed

-------------------------------------------------------------------------------
(***************************************************************************)
(* No use after free.                                                      *)
(***************************************************************************)
\* Before the scheduler runs nothing is deleted.
NoDeleteYet ==
    pc = "created" =>
        /\ \A c \in Tasks : pending[c] # NoMessage => pending[c].cmd # "DELETE"
        /\ \A i \in DOMAIN xTimerQueue : xTimerQueue[i].cmd # "DELETE"

\* A task is about to send a command only for a timer that nobody has deleted, and
\* nobody else is if that command is a DELETE.
PendingLive ==
    /\ \A c \in Tasks : pending[c] # NoMessage => block[pending[c].timer] = "live"
    /\ \A c, d \in Tasks :
           c # d /\ pending[c] # NoMessage /\ pending[d] # NoMessage
               /\ pending[c].cmd = "DELETE" => pending[d].timer # pending[c].timer

\* A DELETE is first in the queue and about to be received; nothing behind it is about
\* its timer.  When it is in hand nothing else is left of its timer.
DeleteFirst ==
    /\ \A i \in DOMAIN xTimerQueue : xTimerQueue[i].cmd = "DELETE" =>
           /\ i = 1 /\ pc = "receive"
           /\ \A j \in DOMAIN xTimerQueue :
                  j # 1 => xTimerQueue[j].timer # xTimerQueue[1].timer
    /\ xMessage.cmd = "DELETE" =>
           /\ container[xMessage.timer] = "NULL"
           /\ \A i \in DOMAIN xTimerQueue : xTimerQueue[i].timer # xMessage.timer

\* The timer of a DELETE waits to be freed.
Doomed ==
    /\ \A i \in DOMAIN xTimerQueue :
           xTimerQueue[i].cmd = "DELETE" => block[xTimerQueue[i].timer] = "doomed"
    /\ xMessage.cmd = "DELETE" => block[xMessage.timer] = "doomed"

FreeInv == NoDeleteYet /\ PendingLive /\ DeleteFirst /\ Doomed /\ NoUseAfterFree

\* No message in hand is neither a STOP nor a DELETE.
LEMMA NoneIsNone == NoMessage.cmd = "none"
BY DEF NoMessage

\* Messages are about timers.
LEMMA MessageTimers ==
    ASSUME TypeOK
    PROVE  /\ \A i \in DOMAIN xTimerQueue : xTimerQueue[i].timer \in Timers
           /\ xMessage # NoMessage => xMessage.timer \in Timers
           /\ \A c \in Tasks : pending[c] # NoMessage => pending[c].timer \in Timers
<1>1. \A i \in DOMAIN xTimerQueue : xTimerQueue[i] \in Message
  BY DEF TypeOK
<1> QED BY <1>1 DEF TypeOK, Message

\* A step of the daemon on a timer leaves the deleted ones alone.
LEMMA FreeWorks ==
    ASSUME TypeOK, FreeInv, NEW t \in Timers, Works(t)
    PROVE  FreeInv'
<1> USE DEF Works
<1>0. block[t] # "freed" /\ (xMessage'.cmd = "DELETE" => xMessage.timer # t)
  BY NoneIsNone DEF FreeInv, NoUseAfterFree, DeleteFirst
<1>1. NoDeleteYet' /\ PendingLive'
  BY DEF FreeInv, NoDeleteYet, PendingLive
<1>2. \A i \in DOMAIN xTimerQueue : xTimerQueue[i].cmd # "DELETE"
  BY DEF FreeInv, DeleteFirst
<1>3. \A i \in DOMAIN xTimerQueue' : xTimerQueue'[i].cmd # "DELETE"
  BY <1>2
<1>4. xMessage'.cmd = "DELETE" => /\ xMessage' = xMessage
                                  /\ xMessage.timer \in Timers \ {t}
  BY <1>0, NoneIsNone, MessageTimers
<1>5. DeleteFirst' /\ Doomed'
  <2>1. ASSUME xMessage'.cmd = "DELETE"
        PROVE  /\ container'[xMessage'.timer] = "NULL"
               /\ \A i \in DOMAIN xTimerQueue' : xTimerQueue'[i].timer # xMessage'.timer
               /\ block'[xMessage'.timer] = "doomed"
    BY <1>4, <2>1 DEF FreeInv, DeleteFirst, Doomed
  <2> QED BY <1>3, <2>1 DEF DeleteFirst, Doomed
<1>6. NoUseAfterFree'
  <2> SUFFICES ASSUME NEW u \in Timers, block[u] = "freed"
               PROVE  /\ container'[u] = "NULL"
                      /\ \A i \in DOMAIN xTimerQueue' : xTimerQueue'[i].timer # u
                      /\ xMessage' # NoMessage => xMessage'.timer # u
                      /\ \A c \in Tasks : pending'[c] # NoMessage => pending'[c].timer # u
    BY DEF NoUseAfterFree
  <2> QED BY <1>0 DEF FreeInv, NoUseAfterFree
<1> QED BY <1>1, <1>5, <1>6 DEF FreeInv

\* A step that moves and sends nothing.
LEMMA FreeIdles == ASSUME TypeOK, FreeInv, Idles PROVE FreeInv'
<1> USE DEF Idles
<1>1. NoDeleteYet' /\ PendingLive'
  BY DEF FreeInv, NoDeleteYet, PendingLive
<1>2. DeleteFirst' /\ Doomed'
  <2>1. ASSUME NEW i \in DOMAIN xTimerQueue PROVE xTimerQueue # <<>>
    OBVIOUS
  <2>2. DeleteFirst'
    BY <2>1, NoneIsNone DEF FreeInv, DeleteFirst
  <2>3. Doomed'
    BY NoneIsNone DEF FreeInv, Doomed
  <2> QED BY <2>2, <2>3
<1>3. NoUseAfterFree'
  BY DEF FreeInv, NoUseAfterFree
<1> QED BY <1>1, <1>2, <1>3 DEF FreeInv

\* The receipt of a command takes its timer off its list.
LEMMA FreeReceive ==
    ASSUME TypeOK, FreeInv, prvProcessReceivedCommands
    PROVE  FreeInv'
<1> DEFINE h == Head(xTimerQueue)
<1>1. /\ pc = "receive" /\ pc' \in {"switch", "dispatch"}
      /\ xTimerQueue \in Seq(Message) /\ xTimerQueue # <<>>
      /\ xMessage' = h /\ xTimerQueue' = Tail(xTimerQueue)
      /\ TakeOffList(h.timer)
      /\ UNCHANGED <<pending, block>>
  BY DEF prvProcessReceivedCommands, timerVars, TypeOK
<1>2. /\ 1 \in DOMAIN xTimerQueue /\ h = xTimerQueue[1] /\ h \in Message
      /\ \A i \in DOMAIN xTimerQueue' :
             /\ i + 1 \in DOMAIN xTimerQueue /\ i + 1 # 1
             /\ xTimerQueue'[i] = xTimerQueue[i + 1]
  <2>1. \A i \in DOMAIN xTimerQueue' : i + 1 # 1
    <3>1. Tail(xTimerQueue) \in Seq(Message)
      BY <1>1, TailEach
    <3> QED BY <1>1, <3>1
  <2> QED BY <1>1, <2>1, TailEach
<1> HIDE DEF h
<1>3. /\ h.timer \in Timers /\ container'[h.timer] = "NULL"
      /\ \A u \in Timers : container'[u] = container[u] \/ container'[u] = "NULL"
  BY <1>1, <1>2 DEF TakeOffList, TypeOK, Message
<1>4. NoDeleteYet' /\ PendingLive'
  BY <1>1 DEF FreeInv, NoDeleteYet, PendingLive
<1>5. DeleteFirst'
  <2>1. \A i \in DOMAIN xTimerQueue' : xTimerQueue'[i].cmd # "DELETE"
    BY <1>2 DEF FreeInv, DeleteFirst
  <2>2. h.cmd = "DELETE" => \A i \in DOMAIN xTimerQueue' : xTimerQueue'[i].timer # h.timer
    BY <1>2 DEF FreeInv, DeleteFirst
  <2> QED BY <2>1, <2>2, <1>1, <1>3 DEF DeleteFirst
<1>6. Doomed'
  BY <1>1, <1>2 DEF FreeInv, Doomed
<1>7. NoUseAfterFree'
  <2> SUFFICES ASSUME NEW u \in Timers, block[u] = "freed"
               PROVE  /\ container'[u] = "NULL"
                      /\ \A i \in DOMAIN xTimerQueue' : xTimerQueue'[i].timer # u
                      /\ xMessage'.timer # u
                      /\ \A c \in Tasks : pending'[c] # NoMessage => pending'[c].timer # u
    BY <1>1 DEF NoUseAfterFree
  <2> QED BY <1>1, <1>2, <1>3 DEF FreeInv, NoUseAfterFree
<1> QED BY <1>4, <1>5, <1>6, <1>7 DEF FreeInv

\* The DELETE case frees a timer that nothing refers to any more.
LEMMA FreeDelete ==
    ASSUME TypeOK, FreeInv, NEW t \in Timers, DispatchDelete(t)
    PROVE  FreeInv'
<1>1. /\ pc' = "receive" /\ xMessage' = NoMessage /\ pc = "dispatch"
      /\ xMessage.cmd = "DELETE" /\ xMessage.timer = t
      /\ block' = [block EXCEPT ![t] = "freed"]
      /\ UNCHANGED <<pending, container, xTimerQueue>>
  BY DEF DispatchDelete, Dispatch, NoReload
<1>2. /\ container[t] = "NULL"
      /\ \A i \in DOMAIN xTimerQueue : xTimerQueue[i].timer # t
      /\ block[t] = "doomed"
  BY <1>1 DEF FreeInv, DeleteFirst, Doomed
<1>3. \A c \in Tasks : pending[c] # NoMessage =>
          pending[c].timer \in Timers /\ pending[c].timer # t
  BY <1>2, MessageTimers DEF FreeInv, PendingLive
<1>4. \A u \in Timers : block'[u] = IF u = t THEN "freed" ELSE block[u]
  BY <1>1 DEF TypeOK
<1>5. \A i \in DOMAIN xTimerQueue : xTimerQueue[i].cmd # "DELETE"
  BY <1>1 DEF FreeInv, DeleteFirst
<1>6. NoDeleteYet' /\ PendingLive'
  BY <1>1, <1>3, <1>4 DEF FreeInv, NoDeleteYet, PendingLive
<1>7. DeleteFirst' /\ Doomed'
  BY <1>1, <1>5, NoneIsNone DEF DeleteFirst, Doomed
<1>8. NoUseAfterFree'
  BY <1>1, <1>2, <1>3, <1>4 DEF FreeInv, NoUseAfterFree
<1> QED BY <1>6, <1>7, <1>8 DEF FreeInv

\* A new timer is not yet known to anybody.
LEMMA FreeCreate ==
    ASSUME TypeOK, FreeInv, NEW t \in Timers, NEW p, NEW reload,
           xTimerCreate(t, p, reload)
    PROVE  FreeInv'
<1>1. /\ UNCHANGED <<pc, xMessage, pending, container, xTimerQueue>>
      /\ block[t] = "unused"
      /\ \A u \in Timers : block'[u] = IF u = t THEN "live" ELSE block[u]
  BY DEF xTimerCreate, listVars, TypeOK
<1>2. NoDeleteYet' /\ PendingLive' /\ DeleteFirst'
  BY <1>1, MessageTimers DEF FreeInv, NoDeleteYet, PendingLive, DeleteFirst
<1>3. Doomed'
  BY <1>1, MessageTimers, NoneIsNone DEF FreeInv, Doomed
<1>4. NoUseAfterFree'
  BY <1>1 DEF FreeInv, NoUseAfterFree
<1> QED BY <1>2, <1>3, <1>4 DEF FreeInv

\* A task decides on a command for a timer that nobody is deleting.
LEMMA FreeMacro ==
    ASSUME "DELETE" \notin StartupCommands,
           TypeOK, FreeInv, NEW c \in Tasks, NEW t \in Timers,
           NEW cmd, NEW p, xTimerCommandMacro(c, t, cmd, p)
    PROVE  FreeInv'
<1> DEFINE new == [cmd |-> cmd, timer |-> t, at |-> Stamp(cmd), period |-> p]
<1>1. /\ UNCHANGED <<pc, xMessage, block, container, xTimerQueue>>
      /\ pending[c] = NoMessage /\ InUse(t)
      /\ pc = "created" => cmd # "DELETE"
      /\ cmd = "DELETE" =>
             \A d \in Tasks : pending[d] # NoMessage => pending[d].timer # t
      /\ \A d \in Tasks : pending'[d] = IF d = c THEN new ELSE pending[d]
  BY DEF xTimerCommandMacro, listVars, timerVars, TypeOK
<1>2. new.cmd = cmd /\ new.timer = t
  OBVIOUS
<1> HIDE DEF new
<1>3. block[t] = "live"
  BY <1>1 DEF InUse
<1>4. NoDeleteYet' /\ DeleteFirst' /\ Doomed'
  BY <1>1, <1>2 DEF FreeInv, NoDeleteYet, DeleteFirst, Doomed
<1>5. PendingLive'
  <2>1. \A d \in Tasks : pending'[d] # NoMessage => block'[pending'[d].timer] = "live"
    BY <1>1, <1>2, <1>3 DEF FreeInv, PendingLive
  <2>2. ASSUME NEW d \in Tasks, NEW e \in Tasks, d # e,
               pending'[d] # NoMessage, pending'[e] # NoMessage,
               pending'[d].cmd = "DELETE"
        PROVE  pending'[e].timer # pending'[d].timer
    <3>1. CASE d = c
      BY <1>1, <1>2, <2>2, <3>1
    <3>2. CASE e = c
      BY <1>1, <1>2, <2>2, <3>2 DEF InUse
    <3>3. CASE d # c /\ e # c
      BY <1>1, <2>2, <3>3 DEF FreeInv, PendingLive
    <3> QED BY <3>1, <3>2, <3>3
  <2> QED BY <2>1, <2>2 DEF PendingLive
<1>6. NoUseAfterFree'
  BY <1>1, <1>2, <1>3 DEF FreeInv, NoUseAfterFree
<1> QED BY <1>4, <1>5, <1>6 DEF FreeInv

\* A task's command finds the daemon blocked on an empty queue, or is none that
\* deletes.
LEMMA FreeSend ==
    ASSUME IInv, PlaceInv, FreeInv, NEW c \in Tasks, xTimerGenericCommand(c)
    PROVE  FreeInv'
<1> DEFINE m == pending[c]
<1>1. /\ pc \in {"created", "blocked"} /\ m # NoMessage
      /\ TypeOK /\ m.timer \in Timers /\ Send(m)
      /\ UNCHANGED <<xMessage, container>>
      /\ \A d \in Tasks : pending'[d] = IF d = c THEN NoMessage ELSE pending[d]
      /\ block[m.timer] = "live"
      /\ xMessage = NoMessage
  BY MessageTimers DEF IInv, xTimerGenericCommand, TaskMayRun, listVars, TypeOK,
         FreeInv, PendingLive, PlaceInv
<1>2. /\ \A i \in DOMAIN xTimerQueue' :
             \/ i \in DOMAIN xTimerQueue /\ xTimerQueue'[i] = xTimerQueue[i]
             \/ i \notin DOMAIN xTimerQueue /\ xTimerQueue'[i] = m
      /\ pc' = pc \/ (pc = "blocked" /\ pc' = "receive")
  BY <1>1, SendEffect
<1>3. \A d \in Tasks : pending'[d] # NoMessage =>
          d # c /\ pending'[d] = pending[d] /\ pending[d] # NoMessage
  BY <1>1
<1>4. \A u \in Timers :
          block'[u] = IF HasRoom /\ m.cmd = "DELETE" /\ u = m.timer THEN "doomed"
                      ELSE block[u]
  BY <1>1 DEF xTimerGenericCommand, TypeOK
<1>5. PendingLive'
  <2>1. \A d \in Tasks : pending'[d] # NoMessage => block'[pending'[d].timer] = "live"
    BY <1>1, <1>3, <1>4, MessageTimers DEF FreeInv, PendingLive
  <2>2. ASSUME NEW d \in Tasks, NEW e \in Tasks, d # e,
               pending'[d] # NoMessage, pending'[e] # NoMessage,
               pending'[d].cmd = "DELETE"
        PROVE  pending'[e].timer # pending'[d].timer
    BY <1>3, <2>2 DEF FreeInv, PendingLive
  <2> QED BY <2>1, <2>2 DEF PendingLive
<1>6. NoUseAfterFree'
  <2> SUFFICES ASSUME NEW u \in Timers, block'[u] = "freed"
               PROVE  /\ container'[u] = "NULL"
                      /\ \A i \in DOMAIN xTimerQueue' : xTimerQueue'[i].timer # u
                      /\ xMessage' # NoMessage => xMessage'.timer # u
                      /\ \A d \in Tasks : pending'[d] # NoMessage => pending'[d].timer # u
    BY DEF NoUseAfterFree
  <2>1. block[u] = "freed" /\ u # m.timer
    BY <1>1, <1>4
  <2> QED BY <1>1, <1>2, <1>3, <2>1 DEF FreeInv, NoUseAfterFree
<1>7. CASE pc = "created"
  <2>1. m.cmd # "DELETE"
    BY <1>1, <1>7 DEF FreeInv, NoDeleteYet
  <2>2. \A i \in DOMAIN xTimerQueue' : xTimerQueue'[i].cmd # "DELETE"
    BY <1>2, <1>7, <2>1 DEF FreeInv, NoDeleteYet
  <2>3. NoDeleteYet' /\ DeleteFirst' /\ Doomed'
    BY <1>1, <1>2, <1>3, <1>7, <2>2, NoneIsNone
       DEF FreeInv, NoDeleteYet, DeleteFirst, Doomed
  <2> QED BY <1>5, <1>6, <2>3 DEF FreeInv
<1>8. CASE pc = "blocked"
  <2>1. xTimerQueue = <<>> /\ HasRoom
    BY <1>8, ServiceAssumption DEF IInv, SleepBound, HasRoom
  <2>2. xTimerQueue' = <<m>> /\ pc' = "receive"
    BY <1>1, <1>8, <2>1 DEF Send
  <2>3. \A i \in DOMAIN xTimerQueue' : i = 1 /\ xTimerQueue'[i] = m
    BY <2>2
  <2>4. NoDeleteYet' /\ DeleteFirst' /\ Doomed'
    BY <1>1, <1>4, <2>1, <2>2, <2>3, NoneIsNone DEF NoDeleteYet, DeleteFirst, Doomed
  <2> QED BY <1>5, <1>6, <2>4 DEF FreeInv
<1> QED BY <1>1, <1>7, <1>8

\* A handler's command is about a timer that nobody has deleted.
LEMMA FreeIsr ==
    ASSUME TypeOK, FreeInv, NEW t \in Timers, NEW cmd, NEW p,
           xTimerGenericCommandFromISR(t, cmd, p)
    PROVE  FreeInv'
<1> DEFINE m == [cmd |-> cmd, timer |-> t, at |-> Stamp(cmd), period |-> p]
<1>1. /\ pc # "created" /\ Send(m) /\ m.timer = t /\ m.cmd = cmd /\ cmd # "DELETE"
      /\ UNCHANGED <<xMessage, container, block, pending>>
      /\ block[t] = "live"
  BY ServiceAssumption
     DEF xTimerGenericCommandFromISR, listVars, timerVars, InUse
<1> HIDE DEF m
<1>2. /\ \A i \in DOMAIN xTimerQueue' :
             \/ i \in DOMAIN xTimerQueue /\ xTimerQueue'[i] = xTimerQueue[i]
             \/ i \notin DOMAIN xTimerQueue /\ xTimerQueue'[i] = m
      /\ pc' = pc \/ (pc = "blocked" /\ pc' = "receive")
  BY <1>1, SendEffect
<1>3. NoDeleteYet' /\ PendingLive' /\ Doomed'
  BY <1>1, <1>2 DEF FreeInv, NoDeleteYet, PendingLive, Doomed
<1>4. DeleteFirst'
  <2>1. ASSUME NEW i \in DOMAIN xTimerQueue', xTimerQueue'[i].cmd = "DELETE"
        PROVE  /\ i = 1 /\ pc' = "receive"
               /\ \A j \in DOMAIN xTimerQueue' :
                      j # 1 => xTimerQueue'[j].timer # xTimerQueue'[1].timer
    <3>1. i \in DOMAIN xTimerQueue /\ xTimerQueue'[i] = xTimerQueue[i]
      BY <1>1, <1>2, <2>1
    <3>2. i = 1 /\ pc = "receive" /\ block[xTimerQueue[1].timer] = "doomed"
      BY <2>1, <3>1 DEF FreeInv, DeleteFirst, Doomed
    <3> QED BY <1>1, <1>2, <2>1, <3>1, <3>2 DEF FreeInv, DeleteFirst
  <2>2. ASSUME xMessage.cmd = "DELETE"
        PROVE  \A i \in DOMAIN xTimerQueue' : xTimerQueue'[i].timer # xMessage.timer
    BY <1>1, <1>2, <2>2 DEF FreeInv, DeleteFirst, Doomed
  <2> QED BY <1>1, <2>1, <2>2 DEF FreeInv, DeleteFirst
<1>5. NoUseAfterFree'
  BY <1>1, <1>2 DEF FreeInv, NoUseAfterFree
<1> QED BY <1>3, <1>4, <1>5 DEF FreeInv

\* Unless main() deletes a timer before the scheduler runs, no timer is in a list, in
\* the queue, in the daemon's hand or in a task's once vPortFree has released it,
\* whatever tasks and interrupt handlers do.
THEOREM NothingUsedAfterFree ==
    ASSUME "DELETE" \notin StartupCommands PROVE Spec => []NoUseAfterFree
<1> DEFINE Inv == IInv /\ PlaceInv /\ FreeInv
<1>1. Init => Inv
  <2>1. Init => FreeInv
    BY NoneIsNone DEF Init, FreeInv, NoDeleteYet, PendingLive, DeleteFirst, Doomed,
                      NoUseAfterFree
  <2> QED BY <2>1, InitInv, InitPlace
<1>2. Inv /\ [Next]_vars => Inv'
  <2> SUFFICES ASSUME IInv, PlaceInv, FreeInv, [Next]_vars PROVE FreeInv'
    BY NextInv, NextPlace DEF IInv
  <2>1. TypeOK
    BY DEF IInv
  <2> QED BY <2>1, StepKinds, FreeIdles, FreeWorks, FreeReceive, FreeDelete, FreeCreate,
             FreeMacro, FreeSend, FreeIsr
<1>3. Inv => NoUseAfterFree
  BY DEF FreeInv
<1> QED BY <1>1, <1>2, <1>3, PTL DEF Spec

-------------------------------------------------------------------------------
(***************************************************************************)
(* Stops are final.                                                        *)
(***************************************************************************)
\* A STOP is first in the queue, about to be received, with no reload behind it; when it
\* is in hand its timer is in no list, and no reload of it is queued.
StopFirst ==
    /\ pc = "created" =>
           /\ \A c \in Tasks : pending[c] # NoMessage => pending[c].cmd # "STOP"
           /\ \A i \in DOMAIN xTimerQueue : xTimerQueue[i].cmd # "STOP"
    /\ \A c \in Tasks : pending[c] # NoMessage => pending[c].cmd # "RELOAD"
    /\ \A i \in DOMAIN xTimerQueue : xTimerQueue[i].cmd = "STOP" =>
           /\ i = 1 /\ pc = "receive"
           /\ \A j \in DOMAIN xTimerQueue : xTimerQueue[j].cmd # "RELOAD"
    /\ xMessage.cmd = "STOP" =>
           /\ container[xMessage.timer] = "NULL"
           /\ \A i \in DOMAIN xTimerQueue :
                  xTimerQueue[i].timer = xMessage.timer => xTimerQueue[i].cmd # "RELOAD"

\* Every step keeps a STOP in front of the reloads.
LEMMA NextStop ==
    ASSUME "STOP" \notin StartupCommands \cup IsrCommands,
           IInv, PlaceInv, StopFirst, [Next]_vars
    PROVE  StopFirst'
<1>t. TypeOK
  BY DEF IInv
<1>u. \A cmd \in UserCommands : cmd # "RELOAD"
  BY DEF UserCommands
<1>1. CASE Idles
  <2>1. ASSUME NEW i \in DOMAIN xTimerQueue PROVE xTimerQueue # <<>>
    OBVIOUS
  <2> QED BY <1>1, <2>1, NoneIsNone DEF Idles, StopFirst
<1>2. ASSUME NEW t \in Timers, Works(t) PROVE StopFirst'
  <2> USE <1>2 DEF Works
  <2>1. \A i \in DOMAIN xTimerQueue' : xTimerQueue'[i].cmd # "STOP"
    BY DEF StopFirst
  <2>2. ASSUME xMessage'.cmd = "STOP"
        PROVE  /\ container'[xMessage'.timer] = "NULL"
               /\ \A i \in DOMAIN xTimerQueue' :
                     xTimerQueue'[i].timer = xMessage'.timer => xTimerQueue'[i].cmd # "RELOAD"
    <3>1. xMessage' = xMessage /\ xMessage.timer \in Timers \ {t}
      BY <1>t, <2>2, NoneIsNone, MessageTimers DEF StopFirst
    <3> QED BY <2>2, <3>1 DEF StopFirst
  <2> QED BY <2>1, <2>2 DEF StopFirst
<1>3. ASSUME NEW t \in Timers, DispatchDelete(t) PROVE StopFirst'
  BY <1>3, NoneIsNone DEF DispatchDelete, Dispatch, NoReload, StopFirst
<1>4. CASE prvProcessReceivedCommands
  <2> DEFINE h == Head(xTimerQueue)
  <2>1. /\ pc = "receive" /\ pc' \in {"switch", "dispatch"}
        /\ xTimerQueue \in Seq(Message) /\ xTimerQueue # <<>>
        /\ xMessage' = h /\ xTimerQueue' = Tail(xTimerQueue)
        /\ TakeOffList(h.timer) /\ UNCHANGED pending
    BY <1>4, <1>t DEF prvProcessReceivedCommands, TypeOK
  <2>2. /\ 1 \in DOMAIN xTimerQueue /\ h = xTimerQueue[1] /\ h \in Message
        /\ \A i \in DOMAIN xTimerQueue' :
               /\ i + 1 \in DOMAIN xTimerQueue /\ i + 1 # 1
               /\ xTimerQueue'[i] = xTimerQueue[i + 1]
    <3>1. \A i \in DOMAIN xTimerQueue' : i + 1 # 1
      <4>1. Tail(xTimerQueue) \in Seq(Message)
        BY <2>1, TailEach
      <4> QED BY <2>1, <4>1
    <3> QED BY <2>1, <3>1, TailEach
  <2> HIDE DEF h
  <2>3. container'[h.timer] = "NULL"
    BY <2>1, <2>2, <1>t DEF TakeOffList, TypeOK, Message
  <2>4. \A i \in DOMAIN xTimerQueue' : xTimerQueue'[i].cmd # "STOP"
    BY <2>2 DEF StopFirst
  <2>5. h.cmd = "STOP" => \A i \in DOMAIN xTimerQueue' : xTimerQueue'[i].cmd # "RELOAD"
    BY <2>2 DEF StopFirst
  <2> QED BY <2>1, <2>3, <2>4, <2>5 DEF StopFirst
<1>5. ASSUME NEW t, NEW p, NEW reload, xTimerCreate(t, p, reload) PROVE StopFirst'
  BY <1>5 DEF xTimerCreate, listVars, StopFirst
<1>6. ASSUME NEW c \in Tasks, NEW t, NEW cmd \in UserCommands, NEW p,
             xTimerCommandMacro(c, t, cmd, p)
      PROVE  StopFirst'
  <2> DEFINE new == [cmd |-> cmd, timer |-> t, at |-> Stamp(cmd), period |-> p]
  <2>1. /\ UNCHANGED <<pc, xMessage, container, xTimerQueue>>
        /\ pc = "created" => cmd # "STOP"
        /\ \A d \in Tasks : pending'[d] = IF d = c THEN new ELSE pending[d]
    BY <1>6, <1>t DEF xTimerCommandMacro, listVars, TypeOK
  <2>2. new.cmd = cmd /\ cmd # "RELOAD"
    BY <1>u
  <2> HIDE DEF new
  <2> QED BY <2>1, <2>2 DEF StopFirst
<1>7. ASSUME NEW c \in Tasks, xTimerGenericCommand(c) PROVE StopFirst'
  <2> DEFINE m == pending[c]
  <2>1. /\ pc \in {"created", "blocked"} /\ m # NoMessage /\ Send(m)
        /\ UNCHANGED <<xMessage, container>>
        /\ \A d \in Tasks : pending'[d] = IF d = c THEN NoMessage ELSE pending[d]
        /\ xMessage = NoMessage /\ m.cmd # "RELOAD"
    BY <1>7, <1>t DEF xTimerGenericCommand, TaskMayRun, listVars, TypeOK, PlaceInv, StopFirst
  <2>2. /\ \A i \in DOMAIN xTimerQueue' :
               \/ i \in DOMAIN xTimerQueue /\ xTimerQueue'[i] = xTimerQueue[i]
               \/ i \notin DOMAIN xTimerQueue /\ xTimerQueue'[i] = m
        /\ pc' = pc \/ (pc = "blocked" /\ pc' = "receive")
    BY <2>1, <1>t, SendEffect
  <2>3. CASE pc = "created"
    <3>1. \A i \in DOMAIN xTimerQueue' : xTimerQueue'[i].cmd # "STOP"
      BY <2>1, <2>2, <2>3 DEF StopFirst
    <3> QED BY <2>1, <2>2, <2>3, <3>1, NoneIsNone DEF StopFirst
  <2>4. CASE pc = "blocked"
    <3>1. xTimerQueue = <<>> /\ HasRoom
      BY <2>4, ServiceAssumption DEF IInv, SleepBound, HasRoom
    <3>2. xTimerQueue' = <<m>> /\ pc' = "receive"
      BY <2>1, <2>4, <3>1 DEF Send
    <3>3. \A i \in DOMAIN xTimerQueue' : i = 1 /\ xTimerQueue'[i] = m
      BY <3>2
    <3> QED BY <2>1, <3>2, <3>3, NoneIsNone DEF StopFirst
  <2> QED BY <2>1, <2>3, <2>4
<1>8. ASSUME NEW t \in Timers, NEW cmd \in UserCommands, NEW p,
             xTimerGenericCommandFromISR(t, cmd, p)
      PROVE  StopFirst'
  <2> DEFINE m == [cmd |-> cmd, timer |-> t, at |-> Stamp(cmd), period |-> p]
  <2>1. /\ pc # "created" /\ Send(m) /\ m.cmd = cmd /\ cmd \notin {"STOP", "RELOAD"}
        /\ UNCHANGED <<xMessage, container, pending>>
    BY <1>8, <1>u DEF xTimerGenericCommandFromISR, listVars
  <2> HIDE DEF m
  <2>2. /\ \A i \in DOMAIN xTimerQueue' :
               \/ i \in DOMAIN xTimerQueue /\ xTimerQueue'[i] = xTimerQueue[i]
               \/ i \notin DOMAIN xTimerQueue /\ xTimerQueue'[i] = m
        /\ pc' = pc \/ (pc = "blocked" /\ pc' = "receive")
    BY <2>1, <1>t, SendEffect
  <2> QED BY <2>1, <2>2 DEF StopFirst
<1> QED BY <1>t, <1>1, <1>2, <1>3, <1>4, <1>5, <1>6, <1>7, <1>8, StepKinds

\* A timer whose STOP the daemon processes is not started again by the daemon itself,
\* unless the STOP came from an interrupt handler or from before the scheduler ran.
\* (From an interrupt handler it can be overtaken: the run timer_stop_race.)
THEOREM StopsAreFinal ==
    ASSUME "STOP" \notin StartupCommands \cup IsrCommands PROVE Spec => []StopIsFinal
<1> DEFINE Inv == IInv /\ PlaceInv /\ StopFirst
<1>1. Init => Inv
  <2>1. Init => StopFirst
    BY NoneIsNone DEF Init, StopFirst
  <2> QED BY <2>1, InitInv, InitPlace
<1>2. Inv /\ [Next]_vars => Inv'
  <2> SUFFICES ASSUME IInv, PlaceInv, StopFirst, [Next]_vars PROVE StopFirst'
    BY NextInv, NextPlace DEF IInv
  <2> QED BY NextStop
<1>3. Inv => StopIsFinal
  BY DEF StopFirst, StopIsFinal
<1> QED BY <1>1, <1>2, <1>3, PTL DEF Spec

-------------------------------------------------------------------------------
(***************************************************************************)
(* Room for the reloads.                                                   *)
(***************************************************************************)
\* The timers are not more than the queue has places.
FewTimers == IsFiniteSet(Timers) /\ Cardinality(Timers) <= QueueLength

InHandCount == IF xMessage = NoMessage THEN 0 ELSE 1

\* Each listed timer and the message in hand can add one reload to the queue, for which
\* there is room, except just after a task has sent a command, whose receipt takes one
\* timer off its list.
RoomInv ==
    /\ xResult = TRUE
    /\ \/ Len(xTimerQueue) + Cardinality(Listed) + InHandCount <= QueueLength
       \/ pc = "receive" /\ Len(xTimerQueue) = 1 /\ xMessage = NoMessage

\* Sets of timers are finite.
LEMMA TimerSets ==
    ASSUME FewTimers
    PROVE  /\ Cardinality(Timers) \in Nat
           /\ \A S \in SUBSET Timers : IsFiniteSet(S) /\ Cardinality(S) \in Nat
           /\ \A S, T \in SUBSET Timers :
                  S \subseteq T => Cardinality(S) <= Cardinality(T)
           /\ \A T \in SUBSET Timers : \A t \in T :
                  Cardinality(T \ {t}) = Cardinality(T) - 1
           /\ \A T \in SUBSET Timers, t \in Timers :
                  Cardinality(T \cup {t}) <= Cardinality(T) + 1
<1>0. IsFiniteSet(Timers)
  BY DEF FewTimers
<1>1. \A S \in SUBSET Timers : IsFiniteSet(S) /\ Cardinality(S) \in Nat
  BY <1>0, FS_Subset, FS_CardinalityType
<1>2. \A S, T \in SUBSET Timers : S \subseteq T => Cardinality(S) <= Cardinality(T)
  BY <1>1, FS_Subset
<1>3. \A T \in SUBSET Timers : \A t \in T : Cardinality(T \ {t}) = Cardinality(T) - 1
  BY <1>1, FS_RemoveElement
<1>4. \A T \in SUBSET Timers, t \in Timers :
          Cardinality(T \cup {t}) <= Cardinality(T) + 1
  <2> TAKE T \in SUBSET Timers, t \in Timers
  <2>1. CASE t \in T
    <3>1. T \cup {t} = T
      BY <2>1
    <3> QED BY <3>1, <1>1
  <2>2. CASE t \notin T
    BY <2>2, <1>1, FS_AddElement
  <2> QED BY <2>1, <2>2
<1>5. Cardinality(Timers) \in Nat
  BY <1>0, FS_CardinalityType
<1> QED BY <1>1, <1>2, <1>3, <1>4, <1>5

\* Steps that send nothing and list nothing.
LEMMA RoomQuiet ==
    ASSUME FewTimers, TypeOK, RoomInv,
           UNCHANGED <<xTimerQueue, container, xResult>>,
           xMessage' = xMessage \/ xMessage' = NoMessage,
           pc = "receive" /\ xTimerQueue # <<>> => pc' = "receive"
    PROVE  RoomInv'
<1>1. Listed' = Listed /\ Listed \in SUBSET Timers /\ Cardinality(Listed) \in Nat
  BY TimerSets DEF Listed
<1>2. Len(xTimerQueue) \in Nat /\ (Len(xTimerQueue) = 1 => xTimerQueue # <<>>)
  <2>1. Len(<<>>) = 0 /\ xTimerQueue \in Seq(Message)
    BY DEF TypeOK
  <2> QED BY <2>1
<1>3. InHandCount' <= InHandCount /\ InHandCount \in 0 .. 1 /\ InHandCount' \in 0 .. 1
  BY DEF InHandCount
<1>4. QueueLength \in Nat
  BY ServiceAssumption
<1> HIDE DEF InHandCount
<1> QED BY <1>1, <1>2, <1>3, <1>4 DEF RoomInv

\* A step of the daemon that sends a reload takes a timer off its list for it, or
\* spends the message in hand.
LEMMA RoomReload ==
    ASSUME FewTimers, TypeOK, RoomInv, pc # "receive",
           NEW t \in Timers, NEW at, SendReload(t, at),
           \/ t \in Listed /\ Listed' = Listed \ {t} /\ xMessage' = xMessage
           \/ /\ Listed' \in SUBSET Listed
              /\ xMessage # NoMessage /\ xMessage' = NoMessage
    PROVE  RoomInv'
<1>1. /\ Listed \in SUBSET Timers /\ Cardinality(Listed) \in Nat
      /\ Listed' \in SUBSET Timers /\ Cardinality(Listed') \in Nat
  BY TimerSets DEF Listed
<1>2. Len(xTimerQueue) \in Nat /\ QueueLength \in Nat
  BY ServiceAssumption DEF TypeOK
<1>3. InHandCount \in 0 .. 1 /\ InHandCount' \in 0 .. 1
  BY DEF InHandCount
<1>4. Len(xTimerQueue) + Cardinality(Listed) + InHandCount <= QueueLength
  BY DEF RoomInv
<1>5. /\ Cardinality(Listed') + InHandCount' <= Cardinality(Listed) + InHandCount - 1
  <2>1. CASE t \in Listed /\ Listed' = Listed \ {t} /\ xMessage' = xMessage
    <3>1. Cardinality(Listed') = Cardinality(Listed) - 1
      BY <2>1, <1>1, TimerSets
    <3>2. InHandCount' = InHandCount
      BY <2>1 DEF InHandCount
    <3> QED BY <3>1, <3>2, <1>1, <1>3
  <2>2. CASE Listed' \in SUBSET Listed /\ xMessage # NoMessage /\ xMessage' = NoMessage
    <3>1. Cardinality(Listed') <= Cardinality(Listed)
      BY <2>2, <1>1, TimerSets
    <3>2. InHandCount = 1 /\ InHandCount' = 0
      BY <2>2 DEF InHandCount
    <3> QED BY <3>1, <3>2, <1>1
  <2> QED BY <2>1, <2>2
<1> HIDE DEF InHandCount
<1>6. Len(xTimerQueue) < QueueLength
  BY <1>1, <1>2, <1>3, <1>4, <1>5
<1>7. HasRoom
  BY <1>6 DEF HasRoom
<1>8. xResult' = TRUE
  BY <1>7, Zenon DEF SendReload, HasRoom
<1>9. Len(xTimerQueue') = Len(xTimerQueue) + 1
  <2>1. xTimerQueue \in Seq(Message)
    BY DEF TypeOK
  <2> QED BY <2>1, <1>7, AppendEach DEF SendReload
<1>10. Len(xTimerQueue') + Cardinality(Listed') + InHandCount' <= QueueLength
  BY <1>1, <1>2, <1>3, <1>4, <1>5, <1>9
<1> QED BY <1>8, <1>10 DEF RoomInv

\* A step of the daemon that sends no reload lists at most the timer of the message
\* in hand.
LEMMA RoomNoReload ==
    ASSUME FewTimers, TypeOK, RoomInv, pc # "receive", NoReload,
           NEW t \in Timers,
           \/ Listed' \in SUBSET Listed /\ xMessage' = xMessage
           \/ /\ Listed' \in SUBSET (Listed \cup {t})
              /\ xMessage # NoMessage /\ xMessage' = NoMessage
    PROVE  RoomInv'
<1>1. /\ Listed \in SUBSET Timers /\ Cardinality(Listed) \in Nat
      /\ Listed' \in SUBSET Timers /\ Cardinality(Listed') \in Nat
      /\ Listed \cup {t} \in SUBSET Timers /\ Cardinality(Listed \cup {t}) \in Nat
  BY TimerSets DEF Listed
<1>2. Len(xTimerQueue) \in Nat /\ QueueLength \in Nat
  BY ServiceAssumption DEF TypeOK
<1>3. InHandCount \in 0 .. 1 /\ InHandCount' \in 0 .. 1
  BY DEF InHandCount
<1>4. Len(xTimerQueue) + Cardinality(Listed) + InHandCount <= QueueLength
      /\ xResult = TRUE
  BY DEF RoomInv
<1>5. /\ Cardinality(Listed') + InHandCount' <= Cardinality(Listed) + InHandCount
  <2>1. CASE Listed' \in SUBSET Listed /\ xMessage' = xMessage
    <3>1. Cardinality(Listed') <= Cardinality(Listed)
      BY <2>1, <1>1, TimerSets
    <3>2. InHandCount' = InHandCount
      BY <2>1 DEF InHandCount
    <3> QED BY <3>1, <3>2, <1>1, <1>3
  <2>2. CASE /\ Listed' \in SUBSET (Listed \cup {t})
             /\ xMessage # NoMessage /\ xMessage' = NoMessage
    <3>1. /\ Cardinality(Listed') <= Cardinality(Listed \cup {t})
          /\ Cardinality(Listed \cup {t}) <= Cardinality(Listed) + 1
      BY <2>2, <1>1, TimerSets
    <3>2. InHandCount = 1 /\ InHandCount' = 0
      BY <2>2 DEF InHandCount
    <3> QED BY <3>1, <3>2, <1>1
  <2> QED BY <2>1, <2>2
<1> HIDE DEF InHandCount
<1>6. xTimerQueue' = xTimerQueue /\ xResult' = TRUE
  BY <1>4 DEF NoReload
<1>7. Len(xTimerQueue') + Cardinality(Listed') + InHandCount' <= QueueLength
  BY <1>1, <1>2, <1>3, <1>4, <1>5, <1>6
<1> QED BY <1>6, <1>7 DEF RoomInv

\* The receipt of a command takes its timer off its list, which makes the room that a
\* reload of that timer may need.
LEMMA RoomReceive ==
    ASSUME FewTimers, TypeOK, PlaceInv, RoomInv, prvProcessReceivedCommands
    PROVE  RoomInv'
<1> DEFINE h == Head(xTimerQueue)
<1>1. /\ pc = "receive" /\ xTimerQueue \in Seq(Message) /\ xTimerQueue # <<>>
      /\ xTimerQueue' = Tail(xTimerQueue) /\ TakeOffList(h.timer)
      /\ xResult' = xResult
  BY DEF prvProcessReceivedCommands, TypeOK
<1>2. /\ h \in Message /\ h.timer \in Timers
      /\ Len(xTimerQueue) \in Nat /\ Len(xTimerQueue') = Len(xTimerQueue) - 1
  <2>1. h \in Message /\ Len(xTimerQueue') = Len(xTimerQueue) - 1
    BY <1>1, TailEach
  <2>2. Len(xTimerQueue) \in Nat
    BY <1>1
  <2> QED BY <2>1, <2>2 DEF Message
<1> HIDE DEF h
<1>3. Listed' = Listed \ {h.timer}
  BY <1>1, <1>2 DEF TakeOffList, Listed, TypeOK
<1>4. /\ Listed \in SUBSET Timers /\ Cardinality(Listed) \in Nat
      /\ Listed' \in SUBSET Timers /\ Cardinality(Listed') \in Nat
      /\ Listed' \in SUBSET (Timers \ {h.timer})
      /\ Timers \ {h.timer} \in SUBSET Timers /\ Timers \in SUBSET Timers
  BY <1>3, TimerSets DEF Listed
<1>5. /\ Cardinality(Listed') <= Cardinality(Listed)
      /\ Cardinality(Listed') <= Cardinality(Timers) - 1
      /\ Cardinality(Timers) \in Nat /\ QueueLength \in Nat
      /\ Cardinality(Timers) <= QueueLength
  <2>1. Cardinality(Listed') <= Cardinality(Listed)
    BY <1>3, <1>4, TimerSets
  <2>2. /\ Cardinality(Listed') <= Cardinality(Timers \ {h.timer})
        /\ Cardinality(Timers \ {h.timer}) = Cardinality(Timers) - 1
    BY <1>2, <1>4, TimerSets
  <2> QED BY <2>1, <2>2, <1>4, TimerSets, ServiceAssumption DEF FewTimers
<1>6. InHandCount = 0 /\ InHandCount' \in 0 .. 1
  BY <1>1 DEF PlaceInv, InHandCount
<1> HIDE DEF InHandCount
<1>7. Len(xTimerQueue') + Cardinality(Listed') + InHandCount' <= QueueLength
  <2>1. CASE Len(xTimerQueue) + Cardinality(Listed) + InHandCount <= QueueLength
    BY <2>1, <1>2, <1>4, <1>5, <1>6
  <2>2. CASE Len(xTimerQueue) = 1
    BY <2>2, <1>2, <1>4, <1>5, <1>6
  <2> QED BY <2>1, <2>2 DEF RoomInv
<1> QED BY <1>1, <1>7 DEF RoomInv

\* A task finds an empty queue, or sends before any timer is listed.
LEMMA RoomSend ==
    ASSUME FewTimers, IInv, PlaceInv, RoomInv, NEW c \in Tasks, xTimerGenericCommand(c)
    PROVE  RoomInv'
<1> DEFINE m == pending[c]
<1>1. /\ pc \in {"created", "blocked"} /\ TypeOK /\ Send(m)
      /\ UNCHANGED <<xMessage, container, xResult>>
      /\ xTimerQueue \in Seq(Message) /\ Len(xTimerQueue) \in Nat
      /\ QueueLength \in Nat /\ QueueLength > 0
  BY ServiceAssumption DEF IInv, TypeOK, xTimerGenericCommand, TaskMayRun, listVars
<1>2. xMessage = NoMessage /\ xMessage' = NoMessage /\ Listed' = Listed
  BY <1>1 DEF PlaceInv, Listed
<1>3. /\ HasRoom => Len(xTimerQueue') = Len(xTimerQueue) + 1
      /\ ~HasRoom => xTimerQueue' = xTimerQueue
  BY <1>1, AppendEach DEF Send
<1>4. CASE pc = "created"
  <2>1. Cardinality(Listed') = 0 /\ Cardinality(Listed) = 0
    BY <1>2, <1>4, FS_EmptySet DEF PlaceInv
  <2>2. InHandCount = 0 /\ InHandCount' = 0
    BY <1>2 DEF InHandCount
  <2>3. Len(xTimerQueue) + Cardinality(Listed) + InHandCount <= QueueLength
    BY <1>4 DEF RoomInv
  <2>4. Len(xTimerQueue') <= QueueLength /\ Len(xTimerQueue') \in Nat
    BY <1>1, <1>3, <2>1, <2>2, <2>3 DEF HasRoom
  <2>5. Len(xTimerQueue') + Cardinality(Listed') + InHandCount' <= QueueLength
    BY <2>1, <2>2, <2>4
  <2> QED BY <1>1, <2>5 DEF RoomInv
<1>5. CASE pc = "blocked"
  <2>1. xTimerQueue = <<>> /\ Len(xTimerQueue) = 0
    BY <1>5 DEF IInv, SleepBound
  <2>2. HasRoom
    BY <1>1, <2>1 DEF HasRoom
  <2>3. pc' = "receive" /\ Len(xTimerQueue') = 1
    BY <1>1, <1>3, <1>5, <2>1, <2>2 DEF Send
  <2> QED BY <1>1, <1>2, <2>3 DEF RoomInv
<1> QED BY <1>1, <1>4, <1>5

\* What the moves of a timer do to the set of listed timers.
LEMMA MoveListed ==
    ASSUME TypeOK, NEW t \in Timers, NEW next, NEW v
    PROVE  /\ TakeOffList(t) => Listed' = Listed \ {t}
           /\ PutInList(t, next, v) /\ v = "now" => Listed' = Listed \ {t}
           /\ PutInList(t, next, v) => Listed' \in SUBSET (Listed \cup {t})
BY DEF TypeOK, TakeOffList, PutInList, Listed

\* Every step keeps room for the reloads.
LEMMA NextRoom ==
    ASSUME IsrCommands = {}, FewTimers, IInv, PlaceInv, RoomInv, [Next]_vars
    PROVE  RoomInv'
<1>t. TypeOK /\ TypeOK'
  BY NextType DEF IInv
<1>1. CASE prvProcessTimerOrBlockTask
  BY <1>1, <1>t, RoomQuiet DEF prvProcessTimerOrBlockTask, listVars
<1>2. CASE prvSwitchTimerListsSwap
  BY <1>2, <1>t, RoomQuiet DEF prvSwitchTimerListsSwap
<1>3. CASE prvProcessReceivedCommands
  BY <1>3, <1>t, RoomReceive
<1>4. CASE CommandsDone
  BY <1>4, <1>t, RoomQuiet DEF CommandsDone, listVars
<1>5. ASSUME NEW t \in Timers, prvProcessExpiredTimer(t) PROVE RoomInv'
  <2> DEFINE due     == itemValue[t]
             next    == Plus(due, period[t])
             verdict == InsertVerdict(next.tick, xLastTime.tick, due.tick, period[t])
  <2>1. pc = "expired" /\ t \in Heads /\ xMessage' = xMessage
    BY <1>5 DEF prvProcessExpiredTimer
  <2>2. t \in Listed
    BY <2>1, <1>t, HeadIsListed
  <2>3. \/ PutInList(t, next, verdict) /\ verdict = "now" /\ SendReload(t, due)
        \/ PutInList(t, next, verdict) /\ NoReload
        \/ TakeOffList(t) /\ NoReload
    BY <1>5 DEF prvProcessExpiredTimer
  <2> HIDE DEF due, next, verdict
  <2>4. \/ Listed' = Listed \ {t} /\ SendReload(t, due)
        \/ Listed' \in SUBSET Listed /\ NoReload
    BY <2>2, <2>3, <1>t, MoveListed
  <2> QED BY <2>1, <2>2, <2>4, <1>t, RoomReload, RoomNoReload
<1>6. ASSUME NEW t \in Timers, prvSwitchTimerListsExpire(t) PROVE RoomInv'
  <2> DEFINE due == itemValue[t]
  <2>1. pc = "switch" /\ t \in Heads /\ xMessage' = xMessage
    BY <1>6 DEF prvSwitchTimerListsExpire
  <2>2. t \in Listed
    BY <2>1, <1>t, HeadIsListed
  <2>3. \/ UNCHANGED container /\ NoReload
        \/ TakeOffList(t) /\ (SendReload(t, due) \/ NoReload)
    BY <1>6 DEF prvSwitchTimerListsExpire
  <2> HIDE DEF due
  <2>4. \/ Listed' = Listed \ {t} /\ SendReload(t, due)
        \/ Listed' \in SUBSET Listed /\ NoReload
    <3>1. UNCHANGED container => Listed' = Listed
      BY DEF Listed
    <3> QED BY <2>3, <3>1, <1>t, MoveListed
  <2> QED BY <2>1, <2>2, <2>4, <1>t, RoomReload, RoomNoReload
<1>7. ASSUME NEW t \in Timers, DispatchStart(t) PROVE RoomInv'
  <2> DEFINE next    == Plus(xMessage.at, period[t])
             verdict == InsertVerdict(next.tick, xLastTime.tick, xMessage.at.tick,
                                      period[t])
  <2>1. pc = "dispatch" /\ xMessage # NoMessage /\ xMessage' = NoMessage
    BY <1>7 DEF DispatchStart, Dispatch, StartLike, NoMessage
  <2>2. \/ PutInList(t, next, verdict) /\ verdict = "now" /\ SendReload(t, next)
        \/ PutInList(t, next, verdict) /\ NoReload
    BY <1>7 DEF DispatchStart
  <2> HIDE DEF next, verdict
  <2>3. \/ Listed' \in SUBSET Listed /\ SendReload(t, next)
        \/ Listed' \in SUBSET (Listed \cup {t}) /\ NoReload
    BY <2>2, <1>t, MoveListed
  <2> QED BY <2>1, <2>3, <1>t, RoomReload, RoomNoReload
<1>8. ASSUME NEW t \in Timers, DispatchChangePeriod(t) PROVE RoomInv'
  <2>1. pc = "dispatch" /\ xMessage # NoMessage /\ xMessage' = NoMessage /\ NoReload
    BY <1>8 DEF DispatchChangePeriod, Dispatch, NoMessage
  <2>2. Listed' \in SUBSET (Listed \cup {t})
    BY <1>8, <1>t, MoveListed DEF DispatchChangePeriod
  <2> QED BY <2>1, <2>2, <1>t, RoomNoReload
<1>9. ASSUME NEW t \in Timers, DispatchStop(t) PROVE RoomInv'
  BY <1>9, <1>t, RoomQuiet DEF DispatchStop, Dispatch, NoReload
<1>10. ASSUME NEW t \in Timers, DispatchDelete(t) PROVE RoomInv'
  BY <1>10, <1>t, RoomQuiet DEF DispatchDelete, Dispatch, NoReload
<1>11. ASSUME NEW t \in Timers, NEW p \in Periods, NEW reload \in BOOLEAN,
              xTimerCreate(t, p, reload)
       PROVE  RoomInv'
  BY <1>11, <1>t, RoomQuiet DEF xTimerCreate, listVars
<1>12. ASSUME NEW c \in Tasks, NEW t \in Timers, NEW cmd \in UserCommands,
              NEW p \in Periods, xTimerCommandMacro(c, t, cmd, p)
       PROVE  RoomInv'
  BY <1>12, <1>t, RoomQuiet DEF xTimerCommandMacro, listVars
<1>13. ASSUME NEW t \in Timers, NEW cmd \in UserCommands, NEW p \in Periods,
              xTimerGenericCommandFromISR(t, cmd, p)
       PROVE  RoomInv'
  BY <1>13 DEF xTimerGenericCommandFromISR
<1>14. ASSUME NEW c \in Tasks, xTimerGenericCommand(c) PROVE RoomInv'
  BY <1>14, RoomSend
<1>15. CASE vTaskStartScheduler
  BY <1>15, <1>t, RoomQuiet DEF vTaskStartScheduler, listVars
<1>16. CASE xTaskIncrementTick
  BY <1>16, <1>t, RoomQuiet DEF xTaskIncrementTick, listVars
<1>17. CASE UNCHANGED vars
  BY <1>17, <1>t, RoomQuiet DEF vars, listVars
<1> QED BY <1>1, <1>2, <1>3, <1>4, <1>5, <1>6, <1>7, <1>8, <1>9, <1>10, <1>11, <1>12,
           <1>13, <1>14, <1>15, <1>16, <1>17
        DEF Next, Daemon, Application

\* With no more timers than places in the queue, and no commands from interrupt
\* handlers to fill it, the daemon's own reload commands always find room: the
\* assertions after them in timers.c never fail, and no auto-reload timer goes dead.
THEOREM ReloadsNeverLost ==
    ASSUME IsrCommands = {}, FewTimers PROVE Spec => []ReloadNeverLost
<1> DEFINE Inv == IInv /\ PlaceInv /\ RoomInv
<1>1. Init => Inv
  <2> SUFFICES ASSUME Init PROVE RoomInv
    BY InitInv, InitPlace
  <2>1. Cardinality(Listed) = 0 /\ Len(xTimerQueue) = 0 /\ InHandCount = 0
    <3>1. Listed = {}
      BY DEF Init, Listed
    <3> QED BY <3>1, FS_EmptySet DEF Init, InHandCount
  <2> QED BY <2>1, ServiceAssumption DEF Init, RoomInv
<1>2. Inv /\ [Next]_vars => Inv'
  <2> SUFFICES ASSUME IInv, PlaceInv, RoomInv, [Next]_vars PROVE RoomInv'
    BY NextInv, NextPlace DEF IInv
  <2> QED BY NextRoom
<1>3. Inv => ReloadNeverLost
  BY DEF RoomInv, ReloadNeverLost
<1> QED BY <1>1, <1>2, <1>3, PTL DEF Spec

-------------------------------------------------------------------------------
(***************************************************************************)
(* The service keeps the promise of TimerPromise.                          *)
(***************************************************************************)
\* The timer of the message in hand is in no list.
HandOff == xMessage # NoMessage => container[xMessage.timer] = "NULL"

\* Nothing refers to a timer that has not been created.
UnusedUnknown ==
    \A t \in Timers : block[t] = "unused" =>
        /\ container[t] = "NULL"
        /\ \A i \in DOMAIN xTimerQueue : xTimerQueue[i].timer # t
        /\ xMessage # NoMessage => xMessage.timer # t
        /\ \A c \in Tasks : pending[c] # NoMessage => pending[c].timer # t

\* Only the daemon sends reloads, and only of auto-reload timers.
ReloadsAuto ==
    /\ \A i \in DOMAIN xTimerQueue :
           xTimerQueue[i].cmd = "RELOAD" => auto[xTimerQueue[i].timer]
    /\ xMessage.cmd = "RELOAD" => auto[xMessage.timer]
    /\ \A c \in Tasks : pending[c] # NoMessage => pending[c].cmd # "RELOAD"

ReferInv == HandOff /\ UnusedUnknown /\ ReloadsAuto

\* Every step keeps what messages and lists may refer to.
LEMMA NextRefer ==
    ASSUME TypeOK, PlaceInv, ReferInv, [Next]_vars
    PROVE  ReferInv'
<1>u. \A cmd \in UserCommands : cmd # "RELOAD"
  BY DEF UserCommands
<1>1. CASE Idles
  <2>1. HandOff' /\ UnusedUnknown'
    BY <1>1 DEF Idles, ReferInv, HandOff, UnusedUnknown
  <2>2. ReloadsAuto'
    BY <1>1, NoneIsNone DEF Idles, ReferInv, ReloadsAuto
  <2> QED BY <2>1, <2>2 DEF ReferInv
<1>2. ASSUME NEW t \in Timers, Works(t) PROVE ReferInv'
  <2> USE <1>2 DEF Works
  <2>1. block[t] # "unused"
    BY DEF ReferInv, UnusedUnknown
  <2>2. HandOff'
    <3> SUFFICES ASSUME xMessage' # NoMessage PROVE container'[xMessage'.timer] = "NULL"
      BY DEF HandOff
    <3>1. xMessage' = xMessage /\ xMessage.timer \in Timers \ {t}
      BY MessageTimers DEF ReferInv, HandOff
    <3> QED BY <3>1 DEF ReferInv, HandOff
  <2>3. UnusedUnknown'
    <3> SUFFICES ASSUME NEW u \in Timers, block[u] = "unused"
                 PROVE  /\ container'[u] = "NULL"
                        /\ \A i \in DOMAIN xTimerQueue' : xTimerQueue'[i].timer # u
                        /\ xMessage' # NoMessage => xMessage'.timer # u
                        /\ \A c \in Tasks : pending'[c] # NoMessage => pending'[c].timer # u
      BY DEF UnusedUnknown
    <3> QED BY <2>1 DEF ReferInv, UnusedUnknown
  <2>4. ReloadsAuto'
    <3>1. CASE xTimerQueue' = xTimerQueue
      BY <3>1, NoneIsNone DEF ReferInv, ReloadsAuto
    <3>2. CASE auto[t]
      BY <3>2, NoneIsNone DEF ReferInv, ReloadsAuto
    <3> QED BY <3>1, <3>2
  <2> QED BY <2>2, <2>3, <2>4 DEF ReferInv
<1>3. ASSUME NEW t \in Timers, DispatchDelete(t) PROVE ReferInv'
  <2>1. /\ xMessage' = NoMessage
        /\ \A u \in Timers : block'[u] = IF u = t THEN "freed" ELSE block[u]
        /\ UNCHANGED <<pending, container, xTimerQueue, auto>>
    BY <1>3 DEF DispatchDelete, Dispatch, NoReload, TypeOK
  <2> QED BY <2>1, NoneIsNone DEF ReferInv, HandOff, UnusedUnknown, ReloadsAuto
<1>4. CASE prvProcessReceivedCommands
  <2> DEFINE h == Head(xTimerQueue)
  <2>1. /\ xTimerQueue \in Seq(Message) /\ xTimerQueue # <<>>
        /\ xMessage' = h /\ xTimerQueue' = Tail(xTimerQueue)
        /\ TakeOffList(h.timer) /\ UNCHANGED <<pending, block, auto>>
    BY <1>4 DEF prvProcessReceivedCommands, timerVars, TypeOK
  <2>2. /\ 1 \in DOMAIN xTimerQueue /\ h = xTimerQueue[1] /\ h \in Message
        /\ \A i \in DOMAIN xTimerQueue' :
               i + 1 \in DOMAIN xTimerQueue /\ xTimerQueue'[i] = xTimerQueue[i + 1]
    BY <2>1, TailEach
  <2> HIDE DEF h
  <2>3. /\ container'[h.timer] = "NULL"
        /\ \A u \in Timers : container'[u] = container[u] \/ container'[u] = "NULL"
    BY <2>1, <2>2 DEF TakeOffList, TypeOK, Message
  <2>4. UnusedUnknown'
    <3> SUFFICES ASSUME NEW u \in Timers, block[u] = "unused"
                 PROVE  /\ container'[u] = "NULL"
                        /\ \A i \in DOMAIN xTimerQueue' : xTimerQueue'[i].timer # u
                        /\ xMessage'.timer # u
                        /\ \A c \in Tasks : pending'[c] # NoMessage => pending'[c].timer # u
      BY <2>1 DEF UnusedUnknown
    <3> QED BY <2>1, <2>2, <2>3 DEF ReferInv, UnusedUnknown
  <2>5. HandOff' /\ ReloadsAuto'
    BY <2>1, <2>2, <2>3 DEF ReferInv, HandOff, ReloadsAuto
  <2> QED BY <2>4, <2>5 DEF ReferInv
<1>5. ASSUME NEW t \in Timers, NEW p, NEW reload, xTimerCreate(t, p, reload)
      PROVE  ReferInv'
  <2>1. /\ UNCHANGED <<xMessage, pending, container, xTimerQueue>>
        /\ block[t] = "unused"
        /\ \A u \in Timers : block'[u] = IF u = t THEN "live" ELSE block[u]
        /\ \A u \in Timers \ {t} : auto'[u] = auto[u]
    BY <1>5 DEF xTimerCreate, listVars, TypeOK
  <2>2. HandOff' /\ UnusedUnknown'
    BY <2>1 DEF ReferInv, HandOff, UnusedUnknown
  <2>3. ReloadsAuto'
    BY <2>1, MessageTimers, NoneIsNone DEF ReferInv, UnusedUnknown, ReloadsAuto
  <2> QED BY <2>2, <2>3 DEF ReferInv
<1>6. ASSUME NEW c \in Tasks, NEW t, NEW cmd \in UserCommands, NEW p,
             xTimerCommandMacro(c, t, cmd, p)
      PROVE  ReferInv'
  <2> DEFINE new == [cmd |-> cmd, timer |-> t, at |-> Stamp(cmd), period |-> p]
  <2>1. /\ UNCHANGED <<xMessage, block, auto, container, xTimerQueue>>
        /\ block[t] = "live"
        /\ \A d \in Tasks : pending'[d] = IF d = c THEN new ELSE pending[d]
    BY <1>6 DEF xTimerCommandMacro, listVars, timerVars, TypeOK, InUse
  <2>2. new.cmd # "RELOAD" /\ new.timer = t
    BY <1>u
  <2> HIDE DEF new
  <2> QED BY <2>1, <2>2 DEF ReferInv, HandOff, UnusedUnknown, ReloadsAuto
<1>7. ASSUME NEW c \in Tasks, xTimerGenericCommand(c) PROVE ReferInv'
  <2> DEFINE m == pending[c]
  <2>1. /\ m # NoMessage /\ Send(m) /\ m.timer \in Timers /\ m.cmd # "RELOAD"
        /\ block[m.timer] # "unused"
        /\ UNCHANGED <<xMessage, container, auto>>
        /\ \A d \in Tasks : pending'[d] = IF d = c THEN NoMessage ELSE pending[d]
    BY <1>7, MessageTimers
       DEF xTimerGenericCommand, listVars, TypeOK, ReferInv, UnusedUnknown, ReloadsAuto
  <2>2. \A u \in Timers : block'[u] = "unused" => block[u] = "unused"
    BY <1>7, <2>1 DEF xTimerGenericCommand, TypeOK
  <2>3. \A i \in DOMAIN xTimerQueue' :
            \/ i \in DOMAIN xTimerQueue /\ xTimerQueue'[i] = xTimerQueue[i]
            \/ i \notin DOMAIN xTimerQueue /\ xTimerQueue'[i] = m
    BY <2>1, SendEffect
  <2> QED BY <2>1, <2>2, <2>3 DEF ReferInv, HandOff, UnusedUnknown, ReloadsAuto
<1>8. ASSUME NEW t \in Timers, NEW cmd \in UserCommands, NEW p,
             xTimerGenericCommandFromISR(t, cmd, p)
      PROVE  ReferInv'
  <2> DEFINE m == [cmd |-> cmd, timer |-> t, at |-> Stamp(cmd), period |-> p]
  <2>1. /\ Send(m) /\ m.cmd # "RELOAD" /\ m.timer = t /\ block[t] = "live"
        /\ UNCHANGED <<xMessage, container, pending, block, auto>>
    BY <1>8, <1>u DEF xTimerGenericCommandFromISR, listVars, timerVars, InUse
  <2> HIDE DEF m
  <2>2. \A i \in DOMAIN xTimerQueue' :
            \/ i \in DOMAIN xTimerQueue /\ xTimerQueue'[i] = xTimerQueue[i]
            \/ i \notin DOMAIN xTimerQueue /\ xTimerQueue'[i] = m
    BY <2>1, SendEffect
  <2> QED BY <2>1, <2>2 DEF ReferInv, HandOff, UnusedUnknown, ReloadsAuto
<1> QED BY <1>1, <1>2, <1>3, <1>4, <1>5, <1>6, <1>7, <1>8, StepKinds

\* Nothing refers to anything before the scheduler starts.
LEMMA InitRefer == Init => ReferInv
BY NoneIsNone DEF Init, ReferInv, HandOff, UnusedUnknown, ReloadsAuto

\* The greatest element of a set of indices.
LEMMA MaxExists ==
    ASSUME NEW n \in Nat, NEW S \in SUBSET (1 .. n), S # {}
    PROVE  \E k \in S : \A j \in S : j <= k
<1> DEFINE T == {n - i : i \in S}
<1>1. T \in SUBSET Nat /\ T # {}
  <2>1. \A i \in 1 .. n : n - i \in Nat
    OBVIOUS
  <2> QED BY <2>1
<1>2. PICK x \in T : \A y \in T : x <= y
  BY <1>1, MinExists
<1>3. PICK k \in S : x = n - k
  BY <1>2
<1>4. \A j \in S : j <= k
  <2> TAKE j \in S
  <2>1. n - k <= n - j
    BY <1>2, <1>3
  <2> QED BY <2>1
<1> QED BY <1>4

\* It is the one LastReload chooses.
LEMMA MaxChosen ==
    ASSUME NEW S \in SUBSET Nat, NEW k \in S, \A j \in S : j <= k
    PROVE  (CHOOSE i \in S : \A j \in S : j <= i) = k
<1> DEFINE c == CHOOSE i \in S : \A j \in S : j <= i
<1>1. c \in S /\ \A j \in S : j <= c
  OBVIOUS
<1> HIDE DEF c
<1>2. c \in Nat /\ k \in Nat /\ c <= k /\ k <= c
  BY <1>1
<1>3. c = k
  BY <1>2
<1> QED BY <1>3 DEF c

\* Which reload counts, when there is one.
LEMMA LastReloadAt ==
    ASSUME TypeOK, NEW u, Reloads(u) # {}
    PROVE  \E k \in Reloads(u) :
               (\A j \in Reloads(u) : j <= k) /\ LastReload(u) = xTimerQueue[k]
<1>1. Len(xTimerQueue) \in Nat /\ Reloads(u) \in SUBSET (1 .. Len(xTimerQueue))
  BY DEF TypeOK, Reloads
<1>2. PICK k \in Reloads(u) : \A j \in Reloads(u) : j <= k
  BY <1>1, MaxExists
<1>3. LastReload(u) = xTimerQueue[k]
  BY <1>1, <1>2, MaxChosen DEF LastReload
<1> QED BY <1>2, <1>3

\* Messages that are no reload of u leave its reloads as they are.
LEMMA ReloadsKept ==
    ASSUME TypeOK, TypeOK', NEW u,
           \A i \in DOMAIN xTimerQueue : i \in DOMAIN xTimerQueue',
           \A i \in DOMAIN xTimerQueue' :
               \/ i \in DOMAIN xTimerQueue /\ xTimerQueue'[i] = xTimerQueue[i]
               \/ /\ i \notin DOMAIN xTimerQueue
                  /\ ~(xTimerQueue'[i].cmd = "RELOAD" /\ xTimerQueue'[i].timer = u)
    PROVE  /\ Reloads(u)' = Reloads(u)
           /\ Reloads(u) # {} => LastReload(u)' = LastReload(u)
<1>1. Reloads(u)' = Reloads(u)
  BY DEF Reloads
<1>2. ASSUME Reloads(u) # {} PROVE LastReload(u)' = LastReload(u)
  <2>1. PICK k \in Reloads(u) :
            (\A j \in Reloads(u) : j <= k) /\ LastReload(u) = xTimerQueue[k]
    BY <1>2, LastReloadAt
  <2>2. Reloads(u)' \in SUBSET Nat
    BY DEF Reloads, TypeOK
  <2>3. k \in Reloads(u)' /\ \A j \in Reloads(u)' : j <= k
    BY <1>1, <2>1
  <2>4. LastReload(u)' = xTimerQueue'[k]
    BY <2>2, <2>3, MaxChosen DEF LastReload
  <2>5. xTimerQueue'[k] = xTimerQueue[k]
    BY <2>1 DEF Reloads
  <2> QED BY <2>1, <2>4, <2>5
<1> QED BY <1>1, <1>2

\* A reload that is sent is the last one.
LEMMA ReloadSent ==
    ASSUME TypeOK, TypeOK', NEW t, NEW m, m.cmd = "RELOAD", m.timer = t,
           xTimerQueue' = Append(xTimerQueue, m)
    PROVE  Reloads(t)' # {} /\ LastReload(t)' = m
<1> DEFINE k == Len(xTimerQueue) + 1
<1>1. k \in Nat /\ k \in DOMAIN xTimerQueue' /\ xTimerQueue'[k] = m
      /\ \A j \in DOMAIN xTimerQueue' : j \in Nat /\ j <= k
  BY DEF TypeOK
<1> HIDE DEF k
<1>2. k \in Reloads(t)' /\ Reloads(t)' \in SUBSET Nat /\ \A j \in Reloads(t)' : j <= k
  BY <1>1 DEF Reloads
<1>3. LastReload(t)' = xTimerQueue'[k]
  BY <1>2, MaxChosen DEF LastReload
<1> QED BY <1>1, <1>2, <1>3

\* When the head of the queue is taken the reloads behind it stay.
LEMMA ReloadsTail ==
    ASSUME TypeOK, TypeOK', NEW u, xTimerQueue # <<>>,
           xTimerQueue' = Tail(xTimerQueue)
    PROVE  /\ Reloads(u)' = {} <=> Reloads(u) \in SUBSET {1}
           /\ Reloads(u)' # {} => LastReload(u)' = LastReload(u)
<1>0. xTimerQueue \in Seq(Message) /\ Len(xTimerQueue) \in Nat
      /\ DOMAIN xTimerQueue = 1 .. Len(xTimerQueue)
  BY DEF TypeOK
<1>1. /\ DOMAIN xTimerQueue' = 1 .. (Len(xTimerQueue) - 1)
      /\ \A i \in DOMAIN xTimerQueue' :
             i + 1 \in DOMAIN xTimerQueue /\ xTimerQueue'[i] = xTimerQueue[i + 1]
  <2>1. Tail(xTimerQueue) \in Seq(Message) /\ Len(Tail(xTimerQueue)) = Len(xTimerQueue) - 1
    BY <1>0, TailEach
  <2> QED BY <1>0, <2>1, TailEach
<1>2. /\ \A i \in Reloads(u)' : i \in Nat /\ i + 1 \in Reloads(u) /\ i + 1 # 1
      /\ \A i \in Reloads(u) \ {1} : i \in Nat /\ i - 1 \in Nat /\ i - 1 \in Reloads(u)'
  BY <1>0, <1>1 DEF Reloads
<1>3. ASSUME Reloads(u)' # {} PROVE LastReload(u)' = LastReload(u)
  <2>1. PICK k \in Reloads(u) :
            (\A j \in Reloads(u) : j <= k) /\ LastReload(u) = xTimerQueue[k]
    BY <1>2, <1>3, LastReloadAt
  <2>2. k # 1 /\ k \in Nat
    BY <1>0, <1>2, <1>3, <2>1 DEF Reloads
  <2>3. k - 1 \in Reloads(u)' /\ \A j \in Reloads(u)' : j <= k - 1
    BY <1>2, <2>1, <2>2
  <2>4. Reloads(u)' \in SUBSET Nat
    BY <1>2
  <2>5. LastReload(u)' = xTimerQueue'[k - 1]
    BY <2>3, <2>4, MaxChosen DEF LastReload
  <2>6. xTimerQueue'[k - 1] = xTimerQueue[k]
    BY <1>1, <2>2, <2>3 DEF Reloads
  <2> QED BY <2>1, <2>5, <2>6
<1> QED BY <1>2, <1>3

\* What the schedule of u depends on.
LEMMA ScheduleKept ==
    ASSUME NEW u \in Timers,
           InHand(u)' <=> InHand(u), InHand(u) => xMessage' = xMessage,
           container'[u] = container[u], itemValue'[u] = itemValue[u],
           period'[u] = period[u],
           Reloads(u)' = Reloads(u), Reloads(u) # {} => LastReload(u)' = LastReload(u)
    PROVE  Scheduled(u)' = Scheduled(u)
BY DEF Scheduled

-------------------------------------------------------------------------------
\* A change of one timer's schedule.
LEMMA ScheduleOne ==
    ASSUME NEW t \in Timers, NEW x, Scheduled(t)' = x,
           \A u \in Timers \ {t} : Scheduled(u)' = Scheduled(u)
    PROVE  [u \in Timers |-> Scheduled(u)]' =
               [[u \in Timers |-> Scheduled(u)] EXCEPT ![t] = x]
OBVIOUS

\* Instants that have passed.
LEMMA InPast ==
    ASSUME NEW a \in Instant, now \in Instant, Leq(a, now) PROVE a \in Promise!Past
BY DEF Promise!Past, Instant, Leq, Ticks, Promise!Ticks, Promise!Leq

\* An instant is not the mark of a dormant timer.
LEMMA NotDormant == ASSUME NEW a \in Instant PROVE a # Dormant
BY TickModAssumption DEF Instant, Ticks, Dormant

\* A callback for an expiry that was scheduled and is due.
LEMMA FireOne ==
    ASSUME NEW t \in Timers, Scheduled(t) \in Instant, Leq(Scheduled(t), now),
           Scheduled(t)' = (IF auto[t] THEN Plus(Scheduled(t), period[t]) ELSE Dormant),
           \A u \in Timers \ {t} : Scheduled(u)' = Scheduled(u),
           Callback, UNCHANGED <<now, period, auto>>
    PROVE  Promise!Fire(t)
<1>1. Scheduled(t) # Dormant
  BY NotDormant
<1>2. [u \in Timers |-> Scheduled(u)]' =
          [[u \in Timers |-> Scheduled(u)] EXCEPT
              ![t] = IF auto[t] THEN Plus(Scheduled(t), period[t]) ELSE Dormant]
  BY ScheduleOne
<1> QED BY <1>1, <1>2 DEF Promise!Fire, Promise!Leq, Leq, Promise!Plus, Plus, Callback

\* A start that counts from an instant that has passed.
LEMMA ArmOne ==
    ASSUME TypeOK, NEW t \in Timers, NEW at \in Instant, Leq(at, now),
           Scheduled(t)' = Plus(at, period[t]),
           \A u \in Timers \ {t} : Scheduled(u)' = Scheduled(u),
           UNCHANGED <<now, period, auto, calls>>
    PROVE  Promise!Arm(t)
<1>1. at \in Promise!Past
  BY InPast DEF TypeOK
<1>2. [u \in Timers |-> Scheduled(u)]' =
          [[u \in Timers |-> Scheduled(u)] EXCEPT ![t] = Plus(at, period[t])]
  BY ScheduleOne
<1> QED BY <1>1, <1>2 DEF Promise!Arm, Promise!Plus, Plus

\* A timer that goes dormant.
LEMMA DisarmOne ==
    ASSUME NEW t \in Timers, Scheduled(t)' = Dormant,
           \A u \in Timers \ {t} : Scheduled(u)' = Scheduled(u),
           UNCHANGED <<now, period, auto, calls>>
    PROVE  Promise!Disarm(t)
<1>1. [u \in Timers |-> Scheduled(u)]' =
          [[u \in Timers |-> Scheduled(u)] EXCEPT ![t] = Dormant]
  BY ScheduleOne
<1> QED BY <1>1 DEF Promise!Disarm

\* Nothing changes for a user of timers.
LEMMA PromiseStutters ==
    ASSUME \A u \in Timers : Scheduled(u)' = Scheduled(u),
           UNCHANGED <<now, period, auto, calls>>
    PROVE  UNCHANGED Promise!promiseVars
BY DEF Promise!promiseVars

-------------------------------------------------------------------------------
\* The other timers' reloads do not depend on what the daemon does with t.
LEMMA ReloadsOfOthers ==
    ASSUME TypeOK, TypeOK', NEW t, NEW at, SendReload(t, at) \/ NoReload, NEW u, u # t
    PROVE  /\ Reloads(u)' = Reloads(u)
           /\ Reloads(u) # {} => LastReload(u)' = LastReload(u)
<1> DEFINE m == [cmd |-> "RELOAD", timer |-> t, at |-> at, period |-> period[t]]
<1>1. xTimerQueue' = Append(xTimerQueue, m) \/ xTimerQueue' = xTimerQueue
  BY DEF SendReload, NoReload
<1>2. m.timer # u
  OBVIOUS
<1> HIDE DEF m
<1>3. xTimerQueue \in Seq(Message)
  BY DEF TypeOK
<1>4. /\ \A i \in DOMAIN xTimerQueue : i \in DOMAIN xTimerQueue'
      /\ \A i \in DOMAIN xTimerQueue' :
             \/ i \in DOMAIN xTimerQueue /\ xTimerQueue'[i] = xTimerQueue[i]
             \/ i \notin DOMAIN xTimerQueue /\ xTimerQueue'[i] = m
  BY <1>1, <1>3
<1> QED BY <1>2, <1>4, ReloadsKept

\* Nor do their schedules.
LEMMA OtherSchedules ==
    ASSUME TypeOK, TypeOK', NEW t \in Timers, NEW at, SendReload(t, at) \/ NoReload,
           \A u \in Timers \ {t} : /\ container'[u] = container[u]
                                   /\ itemValue'[u] = itemValue[u]
                                   /\ period'[u] = period[u],
           xMessage' = xMessage \/ (xMessage' = NoMessage /\ xMessage.timer = t)
    PROVE  \A u \in Timers \ {t} : Scheduled(u)' = Scheduled(u)
<1> TAKE u \in Timers \ {t}
<1>1. /\ Reloads(u)' = Reloads(u)
      /\ Reloads(u) # {} => LastReload(u)' = LastReload(u)
  BY ReloadsOfOthers
<1>2. /\ InHand(u)' <=> InHand(u)
      /\ InHand(u) => xMessage' = xMessage
  BY NoneIsNone DEF InHand, StartLike
<1> QED BY <1>1, <1>2, ScheduleKept

\* The moves of t leave the items of the others alone.
LEMMA MoveItems ==
    ASSUME TypeOK, NEW t \in Timers, NEW next, NEW v,
           TakeOffList(t) \/ PutInList(t, next, v)
    PROVE  \A u \in Timers \ {t} : /\ container'[u] = container[u]
                                   /\ itemValue'[u] = itemValue[u]
BY DEF TypeOK, TakeOffList, PutInList

\* The schedule of a timer that is put in a list.
LEMMA PutSchedule ==
    ASSUME TypeOK, NEW t \in Timers, NEW next, NEW v, PutInList(t, next, v), ~InHand(t)'
    PROVE  /\ v \in {"current", "overflow"} => Scheduled(t)' = next
           /\ v = "now" => container'[t] = "NULL"
<1>1. ASSUME v \in {"current", "overflow"} PROVE Scheduled(t)' = next
  <2>1. container'[t] # "NULL" /\ itemValue'[t] = next
    BY <1>1, ListedIsInOne DEF TypeOK, PutInList
  <2> QED BY <2>1 DEF Scheduled
<1>2. v = "now" => container'[t] = "NULL"
  BY DEF TypeOK, PutInList
<1> QED BY <1>1, <1>2

\* The schedule of a timer that waits for its reload.
LEMMA ReloadSchedule ==
    ASSUME TypeOK, TypeOK', NEW t \in Timers, NEW at, SendReload(t, at), xResult' = TRUE,
           container'[t] = "NULL", ~InHand(t)', period'[t] = period[t]
    PROVE  Scheduled(t)' = Plus(at, period[t])
<1> DEFINE m == [cmd |-> "RELOAD", timer |-> t, at |-> at, period |-> period[t]]
<1>1. HasRoom
  <2>1. xResult' = HasRoom
    BY DEF SendReload
  <2>2. HasRoom = TRUE
    BY <2>1
  <2> QED BY <2>2
<1>2. xTimerQueue' = Append(xTimerQueue, m)
  BY <1>1 DEF SendReload
<1>3. m.cmd = "RELOAD" /\ m.timer = t /\ m.at = at
  OBVIOUS
<1> HIDE DEF m
<1>4. Reloads(t)' # {} /\ LastReload(t)' = m
  BY <1>2, <1>3, ReloadSent
<1> QED BY <1>3, <1>4 DEF Scheduled

\* A one-shot timer off the lists is dormant.
LEMMA DormantSchedule ==
    ASSUME NEW t \in Timers, ReferInv, ~auto[t], NoReload,
           container'[t] = "NULL", ~InHand(t)'
    PROVE  Scheduled(t)' = Dormant
<1>1. Reloads(t) = {}
  BY DEF Reloads, ReferInv, ReloadsAuto
<1>2. Reloads(t)' = {}
  BY <1>1 DEF Reloads, NoReload
<1> QED BY <1>2 DEF Scheduled

\* What prvInsertTimerInActiveList may answer.
LEMMA VerdictValues ==
    ASSUME NEW a, NEW b, NEW c, NEW p
    PROVE  InsertVerdict(a, b, c, p) \in {"now", "current", "overflow"}
BY DEF InsertVerdict

\* The timers the daemon takes from the current list are due.
LEMMA HeadsDue ==
    ASSUME IInv, NEW t \in Heads, pc \in {"expired", "switch"}
    PROVE  itemValue[t] \in Instant /\ Leq(itemValue[t], now)
<1>t. /\ TypeOK /\ now \in Instant /\ xLastTime \in Instant /\ itemValue[t] \in Instant
      /\ t \in Current /\ t \in Timers
  BY DEF IInv, TypeOK, Heads, Current
<1>1. WithinWrap(xLastTime, now)
  BY <1>t, ListedIsInOne DEF IInv, SampleFresh
<1>2. CASE pc = "expired"
  <2>1. Leq(itemValue[t], xLastTime)
    BY <1>t, <1>2 DEF IInv, ListsMatchEpochs, HeadDue, Leq
  <2> QED BY <2>1, <1>t, <1>1, WrapLeq, LeqTrans
<1>3. CASE pc = "switch"
  <2>1. itemValue[t].epoch + 1 = xLastTime.epoch
    BY <1>t, <1>3 DEF IInv, ListsMatchEpochs
  <2> QED BY <2>1, <1>t, <1>1, TickModAssumption DEF Leq, WithinWrap, Instant, Ticks
<1> QED BY <1>2, <1>3

\* prvProcessExpiredTimer serves the scheduled expiry of its timer.
LEMMA ExpiredFires ==
    ASSUME IInv, TypeOK', PlaceInv, ReferInv, NEW t \in Timers, xResult' = TRUE,
           prvProcessExpiredTimer(t)
    PROVE  Promise!Fire(t)
<1> DEFINE due     == itemValue[t]
           next    == Plus(due, period[t])
           verdict == InsertVerdict(next.tick, xLastTime.tick, due.tick, period[t])
<1>t. /\ TypeOK /\ pc = "expired" /\ t \in Heads /\ Callback
      /\ UNCHANGED <<now, period, auto, xMessage>>
  BY DEF IInv, prvProcessExpiredTimer, timerVars
<1>1. due \in Instant /\ Leq(due, now) /\ container[t] # "NULL"
  BY <1>t, HeadsDue, HeadIsListed
<1>2. ~InHand(t) /\ ~InHand(t)'
  BY <1>t, NoneIsNone DEF PlaceInv, InHand, StartLike
<1>3. Scheduled(t) = due
  BY <1>1, <1>2 DEF Scheduled
<1>4. verdict \in {"now", "current", "overflow"}
  BY VerdictValues
<1>5. IF auto[t]
      THEN /\ PutInList(t, next, verdict)
           /\ IF verdict = "now" THEN SendReload(t, due) ELSE NoReload
      ELSE TakeOffList(t) /\ NoReload
  BY DEF prvProcessExpiredTimer
<1>6. next = Plus(due, period[t])
  OBVIOUS
<1> HIDE DEF due, next, verdict
<1>7. Scheduled(t)' = IF auto[t] THEN next ELSE Dormant
  <2>1. CASE auto[t] /\ verdict # "now"
    BY <2>1, <1>t, <1>2, <1>4, <1>5, PutSchedule
  <2>2. CASE auto[t] /\ verdict = "now"
    <3>1. container'[t] = "NULL"
      BY <2>2, <1>t, <1>2, <1>5, PutSchedule
    <3> QED BY <3>1, <2>2, <1>t, <1>2, <1>5, <1>6, ReloadSchedule
  <2>3. CASE ~auto[t]
    <3>1. container'[t] = "NULL"
      BY <2>3, <1>5, <1>t DEF TakeOffList, TypeOK
    <3> QED BY <3>1, <2>3, <1>2, <1>5, DormantSchedule
  <2> QED BY <2>1, <2>2, <2>3
<1>8. \A u \in Timers \ {t} : Scheduled(u)' = Scheduled(u)
  <2>1. \A u \in Timers \ {t} : /\ container'[u] = container[u]
                                /\ itemValue'[u] = itemValue[u]
    BY <1>t, <1>5, MoveItems
  <2>2. SendReload(t, due) \/ NoReload
    BY <1>5
  <2> QED BY <2>1, <2>2, <1>t, OtherSchedules
<1> QED BY <1>t, <1>1, <1>3, <1>6, <1>7, <1>8, FireOne

\* So does each turn of the loop of prvSwitchTimerLists.
LEMMA SwitchFires ==
    ASSUME IInv, TypeOK', PlaceInv, ReferInv, NEW t \in Timers, xResult' = TRUE,
           prvSwitchTimerListsExpire(t)
    PROVE  Promise!Fire(t)
<1> DEFINE due    == itemValue[t]
           reload == Plus(due, period[t])
<1>t. /\ TypeOK /\ pc = "switch" /\ t \in Heads /\ Callback
      /\ UNCHANGED <<now, period, auto, xMessage>>
  BY DEF IInv, prvSwitchTimerListsExpire, timerVars
<1>1. due \in Instant /\ Leq(due, now) /\ container[t] # "NULL"
  BY <1>t, HeadsDue, HeadIsListed
<1>2. ~InHand(t) /\ ~InHand(t)'
  BY <1>t, <1>1, NoneIsNone DEF ReferInv, HandOff, InHand, StartLike
<1>3. Scheduled(t) = due
  BY <1>1, <1>2 DEF Scheduled
<1>4. IF auto[t] /\ reload.tick > due.tick
      THEN /\ itemValue' = [itemValue EXCEPT ![t] = reload]
           /\ UNCHANGED container
           /\ NoReload
      ELSE /\ TakeOffList(t)
           /\ IF auto[t] THEN SendReload(t, due) ELSE NoReload
  BY DEF prvSwitchTimerListsExpire
<1>5. reload = Plus(due, period[t])
  OBVIOUS
<1> HIDE DEF due, reload
<1>6. Scheduled(t)' = IF auto[t] THEN reload ELSE Dormant
  <2>1. CASE auto[t] /\ reload.tick > due.tick
    <3>1. container'[t] # "NULL" /\ itemValue'[t] = reload
      BY <2>1, <1>1, <1>4, <1>t DEF TypeOK
    <3> QED BY <2>1, <3>1, <1>2 DEF Scheduled
  <2>2. CASE ~(auto[t] /\ reload.tick > due.tick)
    <3>1. container'[t] = "NULL"
      BY <2>2, <1>4, <1>t DEF TakeOffList, TypeOK
    <3>2. CASE auto[t]
      BY <2>2, <3>1, <3>2, <1>t, <1>2, <1>4, <1>5, ReloadSchedule
    <3>3. CASE ~auto[t]
      BY <2>2, <3>1, <3>3, <1>2, <1>4, DormantSchedule
    <3> QED BY <3>2, <3>3
  <2> QED BY <2>1, <2>2
<1>7. \A u \in Timers \ {t} : Scheduled(u)' = Scheduled(u)
  <2>1. \A u \in Timers \ {t} : /\ container'[u] = container[u]
                                /\ itemValue'[u] = itemValue[u]
    BY <1>t, <1>4, MoveItems DEF TypeOK
  <2>2. SendReload(t, due) \/ NoReload
    BY <1>4
  <2> QED BY <2>1, <2>2, <1>t, OtherSchedules
<1> QED BY <1>t, <1>1, <1>3, <1>5, <1>6, <1>7, FireOne

\* The START case has nothing to do for the promise but a callback that is due.
LEMMA StartKeeps ==
    ASSUME IInv, TypeOK', PlaceInv, ReferInv, NEW t \in Timers, xResult' = TRUE,
           DispatchStart(t)
    PROVE  Promise!Fire(t) \/ UNCHANGED Promise!promiseVars
<1> DEFINE at      == xMessage.at
           next    == Plus(at, period[t])
           verdict == InsertVerdict(next.tick, xLastTime.tick, at.tick, period[t])
<1>s. StartLike \in SUBSET Commands
  BY DEF StartLike, Commands, UserCommands
<1>t. /\ TypeOK /\ now \in Instant /\ xLastTime \in Instant
      /\ xMessage \in Message /\ xMessage.cmd \in StartLike /\ xMessage.timer = t
      /\ xMessage' = NoMessage /\ pc = "dispatch"
      /\ UNCHANGED <<now, period, auto>>
      /\ WithinWrap(xLastTime, now)
  BY <1>s, DispatchFacts DEF DispatchStart, Dispatch
<1>a. at \in Instant
  BY <1>t DEF Message
<1>p. period[t] \in 1 .. (TickMod - 1) /\ period[t] \in 0 .. (TickMod - 1)
  BY <1>t, PeriodRange DEF TypeOK
<1>n. next \in Instant
  BY <1>a, <1>p, PlusType
<1>1. WithinWrap(at, xLastTime)
  BY <1>t DEF IInv, HandFresh
<1>2. verdict \in {"now", "current", "overflow"} /\ (verdict = "now" => Leq(next, xLastTime))
  BY <1>1, <1>t, <1>a, <1>p, VerdictCorrect
<1>3. InHand(t) /\ ~InHand(t)'
  BY <1>t, NoneIsNone DEF InHand, StartLike
<1>4. Scheduled(t) = next
  BY <1>3 DEF Scheduled
<1>5. /\ PutInList(t, next, verdict)
      /\ IF verdict = "now" THEN Callback ELSE UNCHANGED calls
      /\ IF verdict = "now" /\ auto[t] THEN SendReload(t, next) ELSE NoReload
  BY DEF DispatchStart
<1> HIDE DEF at, next, verdict
<1>6. \A u \in Timers \ {t} : Scheduled(u)' = Scheduled(u)
  <2>1. \A u \in Timers \ {t} : /\ container'[u] = container[u]
                                /\ itemValue'[u] = itemValue[u]
    BY <1>t, <1>5, MoveItems
  <2>2. SendReload(t, next) \/ NoReload
    BY <1>5
  <2> QED BY <2>1, <2>2, <1>t, OtherSchedules
<1>7. CASE verdict # "now"
  <2>1. Scheduled(t)' = next
    BY <1>7, <1>t, <1>2, <1>3, <1>5, PutSchedule
  <2>2. \A u \in Timers : Scheduled(u)' = Scheduled(u)
    BY <2>1, <1>4, <1>6
  <2> QED BY <2>2, <1>7, <1>t, <1>5, PromiseStutters
<1>8. CASE verdict = "now"
  <2>1. Leq(next, now)
    BY <1>8, <1>2, <1>n, <1>t, WrapLeq, LeqTrans
  <2>2. container'[t] = "NULL"
    BY <1>8, <1>t, <1>3, <1>5, PutSchedule
  <2>3. Scheduled(t)' = IF auto[t] THEN Plus(next, period[t]) ELSE Dormant
    <3>1. CASE auto[t]
      BY <3>1, <2>2, <1>8, <1>t, <1>3, <1>5, ReloadSchedule
    <3>2. CASE ~auto[t]
      BY <3>2, <2>2, <1>8, <1>3, <1>5, DormantSchedule
    <3> QED BY <3>1, <3>2
  <2> QED BY <2>1, <2>3, <1>8, <1>t, <1>n, <1>4, <1>5, <1>6, FireOne
<1> QED BY <1>7, <1>8

\* The CHANGE_PERIOD case retimes its timer, counting from the sample.
LEMMA ChangePeriodRetimes ==
    ASSUME IInv, TypeOK', NEW t \in Timers, DispatchChangePeriod(t)
    PROVE  \E p \in Periods : Promise!Retime(t, p)
<1> DEFINE p       == xMessage.period
           next    == Plus(xLastTime, p)
           verdict == InsertVerdict(next.tick, xLastTime.tick, xLastTime.tick, p)
<1>s. {"CHANGE_PERIOD"} \in SUBSET Commands
  BY DEF Commands, UserCommands
<1>t. /\ TypeOK /\ now \in Instant /\ xLastTime \in Instant
      /\ xMessage \in Message /\ xMessage.cmd = "CHANGE_PERIOD" /\ xMessage.timer = t
      /\ xMessage' = NoMessage
      /\ UNCHANGED <<now, auto, calls>>
      /\ WithinWrap(xLastTime, now)
  BY <1>s, DispatchFacts DEF DispatchChangePeriod, Dispatch
<1>p. p \in Periods /\ p \in 1 .. (TickMod - 1)
  <2>1. p \in Periods
    BY <1>t DEF Message
  <2> QED BY <2>1, PeriodRange
<1>2. verdict \in {"current", "overflow"}
  BY <1>t, <1>p, TickModAssumption DEF InsertVerdict, TickSub, Instant, Ticks, Plus
<1>3. PutInList(t, next, verdict) /\ NoReload /\ period' = [period EXCEPT ![t] = p]
  BY DEF DispatchChangePeriod
<1>4. next = Plus(xLastTime, p)
  OBVIOUS
<1> HIDE DEF p, next, verdict
<1>5. ~InHand(t)'
  BY <1>t, NoneIsNone DEF InHand, StartLike
<1>6. Scheduled(t)' = next
  BY <1>2, <1>3, <1>5, <1>t, PutSchedule
<1>7. \A u \in Timers \ {t} : Scheduled(u)' = Scheduled(u)
  <2>1. \A u \in Timers \ {t} : /\ container'[u] = container[u]
                                /\ itemValue'[u] = itemValue[u]
    BY <1>t, <1>3, MoveItems
  <2>2. \A u \in Timers \ {t} : period'[u] = period[u]
    BY <1>3, <1>t DEF TypeOK
  <2> QED BY <2>1, <2>2, <1>3, <1>t, OtherSchedules
<1>8. xLastTime \in Promise!Past
  BY <1>t, WrapLeq, InPast
<1>9. [u \in Timers |-> Scheduled(u)]' =
          [[u \in Timers |-> Scheduled(u)] EXCEPT ![t] = Plus(xLastTime, p)]
  BY <1>4, <1>6, <1>7, ScheduleOne
<1>10. Promise!Retime(t, p)
  BY <1>t, <1>3, <1>8, <1>9 DEF Promise!Retime, Promise!Plus, Plus
<1> QED BY <1>p, <1>10

\* The receipt of a command starts its timer, or ends its schedule.
LEMMA ReceiptArms ==
    ASSUME IInv, TypeOK', PlaceInv, ReferInv, prvProcessReceivedCommands
    PROVE  \E t \in Timers : Promise!Arm(t) \/ Promise!Disarm(t)
<1> DEFINE h == Head(xTimerQueue)
<1>q. xTimerQueue \in Seq(Message) /\ xTimerQueue # <<>>
  BY DEF IInv, prvProcessReceivedCommands, TypeOK
<1>2. PICK t \in Timers : /\ t = h.timer
                          /\ 1 \in DOMAIN xTimerQueue /\ h = xTimerQueue[1] /\ h \in Message
  <2>1. 1 \in DOMAIN xTimerQueue /\ h = xTimerQueue[1] /\ h \in Message
    BY <1>q, TailEach
  <2>2. h.timer \in Timers
    BY <2>1 DEF Message
  <2> QED BY <2>1, <2>2
<1>1. /\ TypeOK /\ now \in Instant /\ pc = "receive"
      /\ xTimerQueue \in Seq(Message) /\ xTimerQueue # <<>>
      /\ xMessage' = h /\ xTimerQueue' = Tail(xTimerQueue) /\ TakeOffList(t)
      /\ UNCHANGED <<now, period, auto, calls>>
      /\ xMessage = NoMessage
  BY <1>2, <1>q DEF IInv, prvProcessReceivedCommands, timerVars, TypeOK, PlaceInv
<1>3. h.cmd \in StartLike => h.at \in Instant /\ Leq(h.at, now)
  <2>1. h.at \in Instant /\ h \in Outstanding
    BY <1>2 DEF Message, Outstanding
  <2>2. h.cmd \in StartLike => WithinWrap(h.at, now)
    BY <2>1 DEF IInv, MessagesFresh
  <2> QED BY <2>1, <2>2, <1>1, WrapLeq
<1> HIDE DEF h
<1>4. \A u : /\ Reloads(u)' = {} <=> Reloads(u) \in SUBSET {1}
             /\ Reloads(u)' # {} => LastReload(u)' = LastReload(u)
  BY <1>1, ReloadsTail
<1>5. \A u \in Timers : InHand(u)' <=> h.cmd \in StartLike /\ u = t
  BY <1>1, <1>2 DEF InHand
<1>6. \A u \in Timers \ {t} : Scheduled(u)' = Scheduled(u)
  <2> TAKE u \in Timers \ {t}
  <2>1. ~InHand(u) /\ ~InHand(u)'
    BY <1>1, <1>5, NoneIsNone DEF InHand, StartLike
  <2>2. /\ container'[u] = container[u] /\ itemValue'[u] = itemValue[u]
        /\ period'[u] = period[u]
    BY <1>1, <1>2, MoveItems
  <2>3. 1 \notin Reloads(u)
    BY <1>2 DEF Reloads
  <2>4. (Reloads(u)' = {}) <=> (Reloads(u) = {})
    BY <1>4, <2>3
  <2> QED BY <1>4, <2>1, <2>2, <2>4 DEF Scheduled
<1>7. container'[t] = "NULL"
  BY <1>1, <1>2 DEF TakeOffList, TypeOK
<1>8. CASE h.cmd \in StartLike
  <2>1. Scheduled(t)' = Plus(h.at, period[t])
    BY <1>1, <1>2, <1>5, <1>8 DEF Scheduled
  <2> QED BY <2>1, <1>1, <1>2, <1>3, <1>6, <1>8, ArmOne
<1>9. CASE h.cmd \notin StartLike /\ Reloads(t)' = {}
  <2>1. Scheduled(t)' = Dormant
    BY <1>2, <1>5, <1>7, <1>9 DEF Scheduled
  <2> QED BY <2>1, <1>1, <1>2, <1>6, DisarmOne
<1>10. CASE h.cmd \notin StartLike /\ Reloads(t)' # {}
  <2>1. Scheduled(t)' = Plus(LastReload(t).at, period[t])
    BY <1>1, <1>2, <1>4, <1>5, <1>7, <1>10 DEF Scheduled
  <2>2. LastReload(t).at \in Instant /\ Leq(LastReload(t).at, now)
    <3>1. PICK k \in Reloads(t) : LastReload(t) = xTimerQueue[k]
      BY <1>1, <1>4, <1>10, LastReloadAt
    <3>2. xTimerQueue[k] \in Outstanding /\ xTimerQueue[k] \in Message
          /\ xTimerQueue[k].cmd \in StartLike
      BY <1>1 DEF Reloads, Outstanding, StartLike
    <3>3. xTimerQueue[k].at \in Instant /\ WithinWrap(xTimerQueue[k].at, now)
      BY <3>2 DEF IInv, MessagesFresh, Message
    <3> QED BY <3>1, <3>3, <1>1, WrapLeq
  <2> QED BY <2>1, <2>2, <1>1, <1>2, <1>6, ArmOne
<1> QED BY <1>8, <1>9, <1>10

\* The steps that leave lists, messages in hand and reloads alone.
LEMMA QuietKeeps ==
    ASSUME TypeOK, TypeOK', UNCHANGED <<container, itemValue, period>>,
           xMessage' = xMessage \/ (xMessage' = NoMessage /\ xMessage.cmd \notin StartLike),
           \A i \in DOMAIN xTimerQueue : i \in DOMAIN xTimerQueue',
           \A i \in DOMAIN xTimerQueue' :
               \/ i \in DOMAIN xTimerQueue /\ xTimerQueue'[i] = xTimerQueue[i]
               \/ i \notin DOMAIN xTimerQueue /\ xTimerQueue'[i].cmd # "RELOAD"
    PROVE  \A u \in Timers : Scheduled(u)' = Scheduled(u)
<1> TAKE u \in Timers
<1>1. /\ Reloads(u)' = Reloads(u)
      /\ Reloads(u) # {} => LastReload(u)' = LastReload(u)
  BY ReloadsKept
<1>2. /\ InHand(u)' <=> InHand(u)
      /\ InHand(u) => xMessage' = xMessage
  BY NoneIsNone DEF InHand, StartLike
<1> QED BY <1>1, <1>2, ScheduleKept

\* A new timer is dormant.
LEMMA CreateIsPromised ==
    ASSUME TypeOK, TypeOK', ReferInv, NEW t \in Timers, NEW p \in Periods,
           NEW reload \in BOOLEAN, xTimerCreate(t, p, reload)
    PROVE  Promise!Create(t, p, reload)
<1>1. /\ UNCHANGED <<now, xMessage, xTimerQueue, container, itemValue, calls>>
      /\ block[t] = "unused"
      /\ period' = [period EXCEPT ![t] = p] /\ auto' = [auto EXCEPT ![t] = reload]
  BY DEF xTimerCreate, listVars
<1>2. /\ container[t] = "NULL" /\ Reloads(t) = {} /\ Reloads(t)' = {}
      /\ ~InHand(t) /\ ~InHand(t)'
  BY <1>1, NoneIsNone DEF ReferInv, UnusedUnknown, Reloads, InHand, StartLike
<1>3. Scheduled(t) = Dormant /\ Scheduled(t)' = Dormant
  BY <1>1, <1>2 DEF Scheduled
<1>4. \A u \in Timers \ {t} : Scheduled(u)' = Scheduled(u)
  <2> TAKE u \in Timers \ {t}
  <2>1. period'[u] = period[u]
    BY <1>1 DEF TypeOK
  <2>2. /\ Reloads(u)' = Reloads(u)
        /\ Reloads(u) # {} => LastReload(u)' = LastReload(u)
    BY <1>1, ReloadsKept
  <2>3. InHand(u)' <=> InHand(u)
    BY <1>1 DEF InHand
  <2> QED BY <2>1, <2>2, <2>3, <1>1, ScheduleKept
<1>5. [u \in Timers |-> Scheduled(u)]' = [u \in Timers |-> Scheduled(u)]
  BY <1>3, <1>4
<1> QED BY <1>1, <1>3, <1>5 DEF Promise!Create

\* Every step of the service is a step of the promise, unless a reload was lost.
LEMMA StepKeepsPromise ==
    ASSUME IInv, PlaceInv, ReferInv, xResult' = TRUE, [Next]_vars
    PROVE  [Promise!PromiseNext]_(Promise!promiseVars)
<1>t. TypeOK /\ TypeOK'
  BY NextType DEF IInv
<1>q. UNCHANGED <<container, itemValue, period, auto, now, calls, xMessage, xTimerQueue>>
          => UNCHANGED Promise!promiseVars
  BY <1>t, QuietKeeps, PromiseStutters
<1>1. CASE prvProcessTimerOrBlockTask
  BY <1>1, <1>q DEF prvProcessTimerOrBlockTask, listVars, timerVars
<1>2. CASE prvSwitchTimerListsSwap
  BY <1>2, <1>q DEF prvSwitchTimerListsSwap, timerVars
<1>3. CASE prvProcessReceivedCommands
  BY <1>3, <1>t, ReceiptArms DEF Promise!PromiseNext
<1>4. CASE CommandsDone
  BY <1>4, <1>q DEF CommandsDone, listVars, timerVars
<1>5. ASSUME NEW t \in Timers, prvProcessExpiredTimer(t) PROVE Promise!PromiseNext
  BY <1>5, <1>t, ExpiredFires DEF Promise!PromiseNext
<1>6. ASSUME NEW t \in Timers, prvSwitchTimerListsExpire(t) PROVE Promise!PromiseNext
  BY <1>6, <1>t, SwitchFires DEF Promise!PromiseNext
<1>7. ASSUME NEW t \in Timers, DispatchStart(t)
      PROVE  Promise!PromiseNext \/ UNCHANGED Promise!promiseVars
  BY <1>7, <1>t, StartKeeps DEF Promise!PromiseNext
<1>8. ASSUME NEW t \in Timers, DispatchChangePeriod(t) PROVE Promise!PromiseNext
  BY <1>8, <1>t, ChangePeriodRetimes DEF Promise!PromiseNext
<1>9. ASSUME NEW t \in Timers, DispatchStop(t) \/ DispatchDelete(t)
      PROVE  UNCHANGED Promise!promiseVars
  <2>1. /\ UNCHANGED <<container, itemValue, period, auto, now, calls, xTimerQueue>>
        /\ xMessage' = NoMessage /\ xMessage.cmd \notin StartLike
    BY <1>9 DEF DispatchStop, DispatchDelete, Dispatch, NoReload, StartLike
  <2> QED BY <2>1, <1>t, QuietKeeps, PromiseStutters
<1>10. ASSUME NEW t \in Timers, NEW p \in Periods, NEW reload \in BOOLEAN,
              xTimerCreate(t, p, reload)
       PROVE  Promise!PromiseNext
  BY <1>10, <1>t, CreateIsPromised DEF Promise!PromiseNext
<1>11. ASSUME NEW c \in Tasks, NEW t \in Timers, NEW cmd \in UserCommands,
              NEW p \in Periods, xTimerCommandMacro(c, t, cmd, p)
       PROVE  UNCHANGED Promise!promiseVars
  BY <1>11, <1>q DEF xTimerCommandMacro, listVars, timerVars
<1>s. ASSUME NEW m, Send(m), m.cmd # "RELOAD",
             UNCHANGED <<container, itemValue, period, auto, now, calls, xMessage>>
      PROVE  UNCHANGED Promise!promiseVars
  <2>1. xTimerQueue' = Append(xTimerQueue, m) \/ xTimerQueue' = xTimerQueue
    BY <1>s DEF Send
  <2>2. xTimerQueue \in Seq(Message)
    BY <1>t DEF TypeOK
  <2>3. /\ \A i \in DOMAIN xTimerQueue : i \in DOMAIN xTimerQueue'
        /\ \A i \in DOMAIN xTimerQueue' :
               \/ i \in DOMAIN xTimerQueue /\ xTimerQueue'[i] = xTimerQueue[i]
               \/ i \notin DOMAIN xTimerQueue /\ xTimerQueue'[i] = m
    BY <2>1, <2>2
  <2> QED BY <2>3, <1>s, <1>t, QuietKeeps, PromiseStutters
<1>12. ASSUME NEW c \in Tasks, xTimerGenericCommand(c)
       PROVE  UNCHANGED Promise!promiseVars
  <2>1. /\ Send(pending[c]) /\ pending[c].cmd # "RELOAD"
        /\ UNCHANGED <<container, itemValue, period, auto, now, calls, xMessage>>
    BY <1>12 DEF xTimerGenericCommand, listVars, ReferInv, ReloadsAuto
  <2> QED BY <2>1, <1>s
<1>13. ASSUME NEW t \in Timers, NEW cmd \in UserCommands, NEW p \in Periods,
              xTimerGenericCommandFromISR(t, cmd, p)
       PROVE  UNCHANGED Promise!promiseVars
  <2> DEFINE m == [cmd |-> cmd, timer |-> t, at |-> Stamp(cmd), period |-> p]
  <2>1. /\ Send(m) /\ m.cmd # "RELOAD"
        /\ UNCHANGED <<container, itemValue, period, auto, now, calls, xMessage>>
    BY <1>13 DEF xTimerGenericCommandFromISR, listVars, timerVars, UserCommands
  <2> HIDE DEF m
  <2> QED BY <2>1, <1>s
<1>14. CASE vTaskStartScheduler
  BY <1>14, <1>q DEF vTaskStartScheduler, listVars, timerVars
<1>15. CASE xTaskIncrementTick
  <2>1. /\ UNCHANGED <<container, itemValue, period, auto, calls, xMessage, xTimerQueue>>
        /\ now' = Plus(now, 1)
    BY <1>15 DEF xTaskIncrementTick, listVars, timerVars
  <2>2. \A u \in Timers : Scheduled(u)' = Scheduled(u)
    BY <2>1, <1>t, QuietKeeps
  <2>3. Promise!Pass
    BY <2>1, <2>2 DEF Promise!Pass, Promise!Plus, Plus
  <2> QED BY <2>3 DEF Promise!PromiseNext
<1>16. CASE UNCHANGED vars
  BY <1>16, <1>q DEF vars, listVars, timerVars
<1> QED BY <1>1, <1>2, <1>3, <1>4, <1>5, <1>6, <1>7, <1>8, <1>9, <1>10, <1>11, <1>12,
           <1>13, <1>14, <1>15, <1>16
        DEF Next, Daemon, Application

\* At the start every timer is dormant.
LEMMA InitKeepsPromise == Init => Promise!PromiseInit
<1> SUFFICES ASSUME Init PROVE Promise!PromiseInit OBVIOUS
<1>1. TypeOK
  BY InitType
<1>2. ASSUME NEW t \in Timers PROVE Scheduled(t) = Dormant
  <2>1. ~InHand(t) /\ container[t] = "NULL" /\ Reloads(t) = {}
    BY NoneIsNone DEF Init, InHand, Reloads, StartLike
  <2> QED BY <2>1 DEF Scheduled
<1>3. [t \in Timers |-> Scheduled(t)] = [t \in Timers |-> Dormant]
  BY <1>2
<1> QED BY <1>1, <1>3 DEF Init, TypeOK, Promise!PromiseInit, Promise!Zero, Zero

\* As long as no reload command is lost the service keeps its promise: every callback
\* serves one scheduled expiry that is due, none is early, skipped or repeated, and an
\* auto-reload timer never drifts, whatever tasks and interrupt handlers command and
\* however often the counter wraps.
THEOREM PromiseUnlessReloadLost == Spec /\ []ReloadNeverLost => KeepsPromise
<1>1. Init => IInv /\ PlaceInv /\ ReferInv
  BY InitInv, InitPlace, InitRefer
<1>2. IInv /\ PlaceInv /\ ReferInv /\ [Next]_vars => (IInv /\ PlaceInv /\ ReferInv)'
  <2> SUFFICES ASSUME IInv, PlaceInv, ReferInv, [Next]_vars
               PROVE  (IInv /\ PlaceInv /\ ReferInv)'
    OBVIOUS
  <2>1. TypeOK
    BY DEF IInv
  <2> QED BY <2>1, NextInv, NextPlace, NextRefer
<1>3. IInv /\ PlaceInv /\ ReferInv /\ ReloadNeverLost' /\ [Next]_vars
          => [Promise!PromiseNext]_(Promise!promiseVars)
  BY StepKeepsPromise DEF ReloadNeverLost
<1>4. Init => Promise!PromiseInit
  BY InitKeepsPromise
<1> QED BY <1>1, <1>2, <1>3, <1>4, PTL DEF Spec, KeepsPromise, Promise!PromiseSpec

\* And none is lost when there are no more timers than places in the queue and no
\* interrupt handler sends commands, as in HW5: then the service implements TimerPromise.
THEOREM ServiceKeepsPromise ==
    ASSUME IsrCommands = {}, FewTimers PROVE Spec => KeepsPromise
BY ReloadsNeverLost, PromiseUnlessReloadLost, PTL
===============================================================================
