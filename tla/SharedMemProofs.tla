-------------------------- MODULE SharedMemProofs --------------------------
(***************************************************************************)
(* Proofs about SharedMem, for every number of messages, signals, kills and *)
(* runs, however long the usleep.                                           *)
(*                                                                          *)
(* TokenConserved is inductive together with the types, with StartupAlone   *)
(* (the semaphores are opened before there is a child to use them) and with *)
(* InLoop.  StartsFresh follows from the names that each process unlinks on *)
(* its way out, ReadsInOrder from the stage of the exchange that the one    *)
(* token is at.                                                             *)
(***************************************************************************)
EXTENDS SharedMem, TLAPS

IInv == TypeOK /\ StartupAlone /\ InLoop /\ TokenConserved

\* There is at least one message in each direction.
LEMMA CountType == Count \in Nat /\ Count >= 2
BY ShmAssumption DEF Count

\* A process waits for one of the two semaphores and posts the other.
LEMMA GuardReleased ==
  ASSUME NEW p \in Process
  PROVE  \/ Guard(p) = "shm_write" /\ Released(p) = "shm_read"
         \/ Guard(p) = "shm_read" /\ Released(p) = "shm_write"
BY DEF Guard, Released

\* What a reader sees is a content.
LEMMA ViewType ==
  ASSUME NEW c \in Content, NEW i
  PROVE  View(c, i) \in Content
BY DEF View, Content

\* Whatever can be torn is a content.
LEMMA TornType ==
  ASSUME NEW p \in Process
  PROVE  Torn(p) \subseteq Content
BY DEF Torn, Content

\* The message a process inside a loop writes is one of its messages.
LEMMA WrittenType ==
  ASSUME TypeOK, InLoop, NEW p \in Process, pc[p] = "access"
  PROVE  [from |-> p, i |-> Index(p)] \in Content
<1>1. pos[p] \in 1..(2 * Count)
  BY CountType DEF TypeOK, InLoop
<1>2. Index(p) \in 1..Count
  BY <1>1, CountType DEF Index
<1> QED
  BY <1>2 DEF Content, Message

\* Spending from a bound that is not used up keeps the budget a budget.
LEMMA BudgetType ==
  ASSUME NEW b \in [signals : Nat, kills : Nat, runs : Nat]
  PROVE  /\ b.signals > 0 =>
              [b EXCEPT !.signals = @ - 1] \in [signals : Nat, kills : Nat, runs : Nat]
         /\ b.kills > 0 =>
              [b EXCEPT !.kills = @ - 1] \in [signals : Nat, kills : Nat, runs : Nat]
         /\ b.runs > 0 =>
              [b EXCEPT !.runs = @ - 1] \in [signals : Nat, kills : Nat, runs : Nat]
<1>1. b.signals \in Nat /\ b.kills \in Nat /\ b.runs \in Nat
  OBVIOUS
<1>2. /\ b.signals > 0 => b.signals - 1 \in Nat
      /\ b.kills > 0 => b.kills - 1 \in Nat
      /\ b.runs > 0 => b.runs - 1 \in Nat
  BY <1>1
<1> QED
  BY <1>2

\* The initial state satisfies the invariant.
LEMMA InitIInv == Init => IInv
<1> SUFFICES ASSUME Init PROVE IInv
  OBVIOUS
<1>1. TypeOK
  <2>1. segment \in Content
    BY DEF Init, Content
  <2>2. budget \in [signals : Nat, kills : Nat, runs : Nat]
    BY ShmAssumption DEF Init
  <2>3. pos \in [Process -> 1..(2 * Count + 1)]
    BY CountType DEF Init
  <2>4. rx \in [Process -> Seq(Content)]
    BY DEF Init
  <2>5. pc \in [Process -> Label]
    BY DEF Init, Label
  <2> QED
    BY <2>1, <2>2, <2>3, <2>4, <2>5 DEF Init, TypeOK
<1>2. StartupAlone /\ InLoop /\ TokenConserved
  BY DEF Init, StartupAlone, InLoop, TokenConserved, Exchanging, Process
<1> QED
  BY <1>1, <1>2 DEF IInv

\* Types are preserved by every action.
LEMMA NextType ==
  ASSUME IInv, Next
  PROVE  TypeOK'
<1> USE DEF IInv, TypeOK
<1>1. CASE Start
  <2>1. /\ pos' \in [Process -> 1..(2 * Count + 1)]
        /\ rx' \in [Process -> Seq(Content)]
        /\ terminateSignal' \in [Process -> BOOLEAN]
    BY <1>1, CountType DEF Start
  <2>2. budget' \in [signals : Nat, kills : Nat, runs : Nat]
    BY <1>1, BudgetType DEF Start
  <2>3. pc' \in [Process -> Label]
    BY <1>1 DEF Start, Label, Running
  <2> QED
    BY <1>1, <2>1, <2>2, <2>3 DEF Start
<1>2. CASE ShmOpen
  BY <1>2 DEF ShmOpen, Label, Running, Process, Content
<1>3. ASSUME NEW s \in Semaphore, NEW here, NEW next \in Label, SemOpen(s, here, next)
      PROVE  TypeOK'
  BY <1>3 DEF SemOpen, Initial, Process
<1>4. CASE get_shared_memory
  BY <1>2, <1>3, <1>4 DEF get_shared_memory, Semaphore, Label, Running
<1>5. CASE Fork
  BY <1>5 DEF Fork, Label, Running, Process
<1>6. CASE Usleep
  BY <1>6 DEF Usleep, WakeUp, Label, Running, Process
<1>7. ASSUME NEW p \in Process, SemWait(p)
      PROVE  TypeOK'
  BY <1>7, GuardReleased DEF SemWait, Label, Running, Semaphore
<1>8. ASSUME NEW p \in Process, Write(p)
      PROVE  TypeOK'
  <2>1. segment' \in Content
    BY <1>8, WrittenType, TornType DEF Write
  <2> QED
    BY <1>8, <2>1 DEF Write, Label, Running
<1>9. ASSUME NEW p \in Process, Read(p)
      PROVE  TypeOK'
  <2>1. PICK m \in {View(segment, Index(p))} \cup Torn(p) :
          rx' = [rx EXCEPT ![p] = Append(@, m)]
    BY <1>9 DEF Read
  <2>2. m \in Content
    BY <2>1, ViewType, TornType
  <2>3. rx' \in [Process -> Seq(Content)]
    BY <2>1, <2>2
  <2> QED
    BY <1>9, <2>3 DEF Read, Label, Running
<1>10. ASSUME NEW p \in Process, SemPost(p)
       PROVE  TypeOK'
  <2>1. pos' \in [Process -> 1..(2 * Count + 1)]
    BY <1>10, CountType DEF SemPost, InLoop
  <2>2. sem' \in [Semaphore -> Nat]
    BY <1>10, GuardReleased DEF SemPost, Semaphore
  <2>3. AfterPost(p) \in Label
    BY DEF AfterPost, Label, Running
  <2> QED
    BY <1>10, <2>1, <2>2, <2>3 DEF SemPost
<1>11. ASSUME NEW p \in Process, Spin(p)
       PROVE  TypeOK'
  BY <1>11 DEF Spin, Label, Running
<1>12. ASSUME NEW p \in Process, Exit(p)
       PROVE  TypeOK'
  <2>1. linked' \in [Semaphore -> BOOLEAN]
    BY <1>12 DEF Exit, SemUnlink
  <2>2. pc' \in [Process -> Label]
    BY <1>12 DEF Exit, SemUnlink, Label, Running
  <2> QED
    BY <1>12, <2>1, <2>2 DEF Exit, SemUnlink
<1>13. ASSUME NEW p \in Process, sigHandler(p)
       PROVE  TypeOK'
  <2>1. budget' \in [signals : Nat, kills : Nat, runs : Nat]
    BY <1>13, BudgetType DEF sigHandler
  <2>2. pc' \in [Process -> Label]
    BY <1>13 DEF sigHandler, WakeUp, Label, Running
  <2>4. disturbed' \in BOOLEAN
    BY <1>13 DEF sigHandler
  <2>5. hurried' \in BOOLEAN
    <3>1. (pos["child"] <= Count) \in BOOLEAN
      OBVIOUS
    <3> QED
      BY <1>13, <3>1 DEF sigHandler, WakeUp
  <2>3. terminateSignal' \in [Process -> BOOLEAN]
    BY <1>13 DEF sigHandler
  <2> QED
    BY <1>13, <2>1, <2>2, <2>3, <2>4, <2>5 DEF sigHandler
<1>14. ASSUME NEW p \in Process, Kill(p)
       PROVE  TypeOK'
  <2>1. budget' \in [signals : Nat, kills : Nat, runs : Nat]
    BY <1>14, BudgetType DEF Kill
  <2> QED
    BY <1>14, <2>1 DEF Kill, Label
<1> QED
  BY <1>1, <1>4, <1>5, <1>6, <1>7, <1>8, <1>9, <1>10, <1>11, <1>12, <1>13, <1>14
     DEF Next, Step

\* No action breaks StartupAlone or InLoop.
LEMMA NextControl ==
  ASSUME IInv, Next
  PROVE  StartupAlone' /\ InLoop'
<1> USE CountType DEF IInv, TypeOK, StartupAlone, InLoop, Process
<1>1. CASE Start
  BY <1>1 DEF Start
<1>2. CASE get_shared_memory
  BY <1>2 DEF get_shared_memory, ShmOpen, SemOpen
<1>3. CASE Fork
  <2>1. /\ \A p \in Process : pos'[p] = 1
        /\ pc' = [p \in Process |-> "wait"]
    BY <1>3 DEF Fork
  <2> QED
    BY <2>1
<1>4. CASE Usleep
  BY <1>4 DEF Usleep, WakeUp
<1>5. ASSUME NEW p \in Process, SemWait(p) \/ Write(p) \/ Read(p)
      PROVE  StartupAlone' /\ InLoop'
  BY <1>5 DEF SemWait, Write, Read
<1>6. ASSUME NEW p \in Process, SemPost(p)
      PROVE  StartupAlone' /\ InLoop'
  <2>1. /\ pc' = [pc EXCEPT ![p] = AfterPost(p)]
        /\ pos' = [pos EXCEPT ![p] = @ + 1]
        /\ pc[p] = "post"
    BY <1>6 DEF SemPost
  <2>2. pc["parent"] \notin {"shm_open", "sem_open_read", "sem_open_write", "fork"}
    BY <2>1
  <2>3. StartupAlone'
    BY <2>1, <2>2 DEF AfterPost
  <2>4. ASSUME NEW q \in Process
        PROVE  /\ pc'[q] \in {"wait", "access", "post"} => pos'[q] <= 2 * Count
               /\ pc'[q] = "usleep" => pos'[q] = Count + 1
    <3>1. CASE q # p
      BY <2>1, <2>4, <3>1
    <3>2. CASE q = p
      <4>1. /\ pc'[p] = AfterPost(p) /\ pos'[p] = pos[p] + 1
            /\ pos[p] \in 1..(2 * Count)
        BY <2>1
      <4>2. CASE p = "parent" /\ pos[p] = Count
        BY <3>2, <4>1, <4>2 DEF AfterPost
      <4>3. CASE ~(p = "parent" /\ pos[p] = Count) /\ pos[p] = 2 * Count
        <5>1. AfterPost(p) = "spin"
          BY <4>3 DEF AfterPost
        <5> QED
          BY <3>2, <4>1, <5>1
      <4>4. CASE ~(p = "parent" /\ pos[p] = Count) /\ pos[p] # 2 * Count
        <5>1. AfterPost(p) = "wait"
          BY <4>4 DEF AfterPost
        <5>2. pos[p] + 1 <= 2 * Count
          <6> HIDE DEF IInv, TypeOK, StartupAlone, InLoop, Process
          <6> DEFINE n == pos[p]
          <6>1. n \in 1..(2 * Count) /\ n # 2 * Count
            BY <4>1, <4>4
          <6> HIDE DEF n
          <6>2. n + 1 <= 2 * Count
            BY <6>1, CountType
          <6> QED
            BY <6>2 DEF n
        <5>3. pc'[q] = "wait" /\ pos'[q] <= 2 * Count
          BY <3>2, <4>1, <5>1, <5>2
        <5> QED
          BY <5>3
      <4> QED
        BY <4>2, <4>3, <4>4
    <3> QED
      BY <3>1, <3>2
  <2> QED
    BY <2>3, <2>4
<1>7. ASSUME NEW p \in Process, Spin(p) \/ Exit(p)
      PROVE  StartupAlone' /\ InLoop'
  BY <1>7 DEF Spin, Exit, SemUnlink
<1>8. ASSUME NEW p \in Process, sigHandler(p) \/ Kill(p)
      PROVE  StartupAlone' /\ InLoop'
  BY <1>8 DEF sigHandler, WakeUp, Kill
<1> QED
  BY <1>1, <1>2, <1>3, <1>4, <1>5, <1>6, <1>7, <1>8 DEF Next, Step

\* No action changes the number of tokens of an undisturbed exchange.
LEMMA NextToken ==
  ASSUME IInv, Next
  PROVE  TokenConserved'
<1> USE DEF IInv, TypeOK, TokenConserved, Exchanging, Holding, Process
<1>1. CASE Start
  BY <1>1 DEF Start
<1>2. CASE get_shared_memory
  BY <1>2 DEF get_shared_memory, ShmOpen, SemOpen, StartupAlone
<1>3. CASE Fork
  <2>1. ~disturbed' => sem["shm_read"] = 0 /\ sem["shm_write"] = 1
    BY <1>3 DEF Fork, Initial, Semaphore
  <2> QED
    BY <1>3, <2>1 DEF Fork
<1>4. CASE Usleep
  BY <1>4 DEF Usleep, WakeUp
<1>5. ASSUME NEW p \in Process, SemWait(p)
      PROVE  TokenConserved'
  <2>1. CASE Guard(p) = "shm_write"
    BY <1>5, <2>1 DEF SemWait, Semaphore
  <2>2. CASE Guard(p) = "shm_read"
    BY <1>5, <2>2 DEF SemWait, Semaphore
  <2> QED
    BY <2>1, <2>2, GuardReleased
<1>6. ASSUME NEW p \in Process, Write(p) \/ Read(p)
      PROVE  TokenConserved'
  BY <1>6 DEF Write, Read
<1>7. ASSUME NEW p \in Process, SemPost(p)
      PROVE  TokenConserved'
  <2>1. AfterPost(p) \notin {"access", "post", "gone"}
    BY DEF AfterPost
  <2>2. CASE Released(p) = "shm_read"
    BY <1>7, <2>1, <2>2 DEF SemPost, Semaphore
  <2>3. CASE Released(p) = "shm_write"
    BY <1>7, <2>1, <2>3 DEF SemPost, Semaphore
  <2> QED
    BY <2>2, <2>3, GuardReleased
<1>8. ASSUME NEW p \in Process, Spin(p) \/ Exit(p)
      PROVE  TokenConserved'
  BY <1>8 DEF Spin, Exit, SemUnlink
<1>9. ASSUME NEW p \in Process, sigHandler(p)
      PROVE  TokenConserved'
  BY <1>9 DEF sigHandler, WakeUp
<1>10. ASSUME NEW p \in Process, Kill(p)
       PROVE  TokenConserved'
  BY <1>10 DEF Kill
<1> QED
  BY <1>1, <1>2, <1>3, <1>4, <1>5, <1>6, <1>7, <1>8, <1>9, <1>10 DEF Next, Step

\* The invariant holds throughout: of every run, signal and kill of
\* sharedMem.c, for any number of messages.
THEOREM ExchangeInvariant == Spec => []IInv
<1>1. IInv /\ [Next]_vars => IInv'
  <2>1. ASSUME IInv, Next PROVE IInv'
    BY <2>1, NextType, NextControl, NextToken DEF IInv
  <2>2. ASSUME IInv, UNCHANGED vars PROVE IInv'
    BY <2>2 DEF IInv, TypeOK, StartupAlone, InLoop, TokenConserved, Exchanging,
       Holding, vars
  <2> QED
    BY <2>1, <2>2
<1> QED
  BY InitIInv, <1>1, PTL DEF Spec

\* The one token of an undisturbed exchange is never lost or doubled, so at
\* most one process of sharedMem.c is between sem_wait and sem_post.
THEOREM TokenAlwaysConserved == Spec => []TokenConserved
<1>1. IInv => TokenConserved
  BY DEF IInv
<1> QED
  BY <1>1, ExchangeInvariant, PTL

-----------------------------------------------------------------------------
(***************************************************************************)
(* StartsFresh.  The names are opened by the parent alone, before the fork, *)
(* and each process that leaves the program unlinks both of them.           *)
(***************************************************************************)

\* As long as nothing was killed: no name is there when all processes are gone, and the
\* semaphores opened in this run have their initial values until the fork.
NamesInv ==
  ~Killed =>
    /\ (\A p \in Process : pc[p] = "gone") \/ pc["parent"] \in {"shm_open", "sem_open_read"}
         => linked = [s \in Semaphore |-> FALSE]
    /\ pc["parent"] = "sem_open_write" =>
         ~linked["shm_write"] /\ sem["shm_read"] = Initial("shm_read")
    /\ pc["parent"] = "fork" => \A s \in Semaphore : sem[s] = Initial(s)
    /\ \A p \in Process : pc[p] = "unlink_write" => ~linked["shm_read"]

KillsBounded == budget.kills <= MaxKills

FreshInv == IInv /\ KillsBounded /\ NamesInv

LEMMA InitFresh == Init => FreshInv
<1> SUFFICES ASSUME Init PROVE FreshInv
  OBVIOUS
<1>1. KillsBounded
  BY ShmAssumption DEF Init, KillsBounded
<1>2. NamesInv
  BY DEF Init, NamesInv, Process
<1> QED
  BY <1>1, <1>2, InitIInv DEF FreshInv

\* A process that has forked off or is in its loops is past the start-up.
LEMMA StartupOver ==
  ASSUME IInv, NEW p \in Process,
         pc[p] \notin {"gone", "shm_open", "sem_open_read", "sem_open_write", "fork"}
  PROVE  pc["parent"] \notin {"shm_open", "sem_open_read", "sem_open_write", "fork"}
BY DEF IInv, StartupAlone, Process

\* A kill is remembered, and the bound is kept.
LEMMA KillsNext ==
  ASSUME IInv, KillsBounded, Next
  PROVE  /\ KillsBounded' /\ (Killed => Killed')
         /\ (\E p \in Process : Kill(p)) => Killed'
<1>1. MaxKills \in Nat /\ budget.kills \in Nat /\ budget.kills <= MaxKills
  BY ShmAssumption DEF IInv, TypeOK, KillsBounded
<1>2. budget \in [signals : Nat, kills : Nat, runs : Nat]
  BY DEF IInv, TypeOK
<1>3. ASSUME NEW p \in Process, Kill(p)
      PROVE  budget'.kills = budget.kills - 1
  BY <1>2, <1>3 DEF Kill
<1>4. (\A p \in Process : ~Kill(p)) => budget'.kills = budget.kills
  BY <1>2 DEF Next, Start, get_shared_memory, ShmOpen, SemOpen, Fork, Usleep, Step, SemWait,
     Write, Read, SemPost, Spin, Exit, SemUnlink, sigHandler
<1> QED
  BY <1>1, <1>3, <1>4 DEF KillsBounded, Killed

LEMMA NamesNext ==
  ASSUME FreshInv, Next
  PROVE  NamesInv'
<1>0. IInv /\ KillsBounded /\ TypeOK
  BY DEF FreshInv, IInv
<1> SUFFICES ASSUME ~Killed, ~Killed', \A p \in Process : ~Kill(p)
             PROVE  NamesInv'
  BY <1>0, KillsNext DEF NamesInv
<1>1. /\ linked \in [Semaphore -> BOOLEAN] /\ sem \in [Semaphore -> Nat]
      /\ pc \in [Process -> Label]
  BY <1>0 DEF TypeOK
<1> USE DEF NamesInv, Process, Semaphore
<1>2. NamesInv
  BY DEF FreshInv
<1>3. CASE Start
  BY <1>1, <1>2, <1>3 DEF Start
<1>4. CASE ShmOpen
  BY <1>1, <1>2, <1>4 DEF ShmOpen
<1>5. CASE SemOpen("shm_read", "sem_open_read", "sem_open_write")
  <2>1. pc["child"] = "gone"
    BY <1>0, <1>5 DEF SemOpen, IInv, StartupAlone
  <2> QED
    BY <1>1, <1>2, <1>5, <2>1 DEF SemOpen
<1>6. CASE SemOpen("shm_write", "sem_open_write", "fork")
  <2>1. pc["child"] = "gone"
    BY <1>0, <1>6 DEF SemOpen, IInv, StartupAlone
  <2> QED
    BY <1>1, <1>2, <1>6, <2>1 DEF SemOpen
<1>7. CASE Fork
  BY <1>7 DEF Fork
<1>8. CASE Usleep
  BY <1>1, <1>2, <1>8 DEF Usleep, WakeUp
<1>9. ASSUME NEW p \in Process, SemWait(p) \/ Write(p) \/ Read(p) \/ Spin(p)
      PROVE  NamesInv'
  <2>1. pc["parent"] \notin {"shm_open", "sem_open_read", "sem_open_write", "fork"}
    BY <1>0, <1>9, StartupOver DEF SemWait, Write, Read, Spin
  <2> QED
    BY <1>1, <1>2, <1>9, <2>1 DEF SemWait, Write, Read, Spin
<1>10. ASSUME NEW p \in Process, SemPost(p)
       PROVE  NamesInv'
  <2>1. pc["parent"] \notin {"shm_open", "sem_open_read", "sem_open_write", "fork"}
    BY <1>0, <1>10, StartupOver DEF SemPost
  <2>2. AfterPost(p) \in {"usleep", "spin", "wait"}
    BY DEF AfterPost
  <2> QED
    BY <1>1, <1>2, <1>10, <2>1, <2>2 DEF SemPost
<1>11. ASSUME NEW p \in Process, Exit(p)
       PROVE  NamesInv'
  <2>1. pc["parent"] \notin {"shm_open", "sem_open_read", "sem_open_write", "fork"}
    BY <1>0, <1>11, StartupOver DEF Exit, SemUnlink
  <2>2. CASE SemUnlink(p, "shm_read", "unlink_read", "unlink_write")
    BY <1>1, <1>2, <2>1, <2>2 DEF SemUnlink
  <2>3. CASE SemUnlink(p, "shm_write", "unlink_write", "gone")
    <3>1. linked' = [s \in Semaphore |-> FALSE]
      BY <1>1, <1>2, <2>3 DEF SemUnlink
    <3> QED
      BY <1>1, <1>2, <2>1, <2>3, <3>1 DEF SemUnlink
  <2> QED
    BY <1>11, <2>2, <2>3 DEF Exit
<1>12. ASSUME NEW p \in Process, sigHandler(p)
       PROVE  NamesInv'
  BY <1>1, <1>2, <1>12 DEF sigHandler, WakeUp
<1> QED
  BY <1>3, <1>4, <1>5, <1>6, <1>7, <1>8, <1>9, <1>10, <1>11, <1>12
     DEF Next, get_shared_memory, Step

\* As long as no process is killed, every run of sharedMem.c starts its exchange with
\* the semaphores at their initial values, whatever signals did to the runs before.
THEOREM EveryRunStartsFresh == Spec => []StartsFresh
<1>1. FreshInv /\ [Next]_vars => FreshInv'
  <2>1. ASSUME FreshInv, Next PROVE FreshInv'
    <3>1. IInv'
      BY <2>1, NextType, NextControl, NextToken DEF FreshInv, IInv
    <3> QED
      BY <2>1, <3>1, KillsNext, NamesNext DEF FreshInv
  <2>2. ASSUME FreshInv, UNCHANGED vars PROVE FreshInv'
    <3>1. IInv'
      BY <2>2 DEF FreshInv, IInv, TypeOK, StartupAlone, InLoop, TokenConserved, Exchanging,
         Holding, vars
    <3> QED
      BY <2>2, <3>1 DEF FreshInv, KillsBounded, NamesInv, Killed, vars
  <2> QED
    BY <2>1, <2>2
<1>2. FreshInv => StartsFresh
  <2> SUFFICES ASSUME FreshInv, pc["parent"] = "fork", ~Killed
               PROVE  sem = [s \in Semaphore |-> Initial(s)]
    BY DEF StartsFresh
  <2>1. \A s \in Semaphore : sem[s] = Initial(s)
    BY DEF FreshInv, NamesInv
  <2>2. sem \in [Semaphore -> Nat]
    BY DEF FreshInv, IInv, TypeOK
  <2> QED
    BY <2>1, <2>2
<1> QED
  BY InitFresh, <1>1, <1>2, PTL DEF Spec

-----------------------------------------------------------------------------
(***************************************************************************)
(* ReadsInOrder.  The token is at one of six stages of the exchange.        *)
(***************************************************************************)
Msg(p, i) == [from |-> p, i |-> i]

\* The token is in semaphore s, or with p.
TokenIn(s) ==
  /\ sem[s] = 1 /\ \A r \in Semaphore \ {s} : sem[r] = 0
  /\ Holding("parent") = 0 /\ Holding("child") = 0
TokenWith(p) ==
  /\ sem["shm_read"] = 0 /\ sem["shm_write"] = 0
  /\ Holding(p) = 1 /\ Holding(Other(p)) = 0

\* w is about to write its message i for r, or has just written it.
ToWrite(w, i) ==
  \/ TokenIn("shm_write")
  \/ TokenWith(w) /\ (pc[w] = "post" => segment = Msg(w, i))

\* r is about to read message i, or has just read it.
ToRead(r, i) ==
  /\ segment = Msg(Other(r), i)
  /\ TokenIn("shm_read") \/ TokenWith(r)

ParentSends ==
  /\ pos["parent"] <= Count /\ pos["child"] = pos["parent"]
  /\ ToWrite("parent", pos["parent"])
ChildReads ==
  /\ pos["child"] <= Count /\ pos["parent"] = pos["child"] + 1
  /\ ToRead("child", pos["child"])
ChildSends ==
  /\ pos["child"] > Count /\ pos["child"] <= 2 * Count /\ pos["parent"] = pos["child"]
  /\ ToWrite("child", pos["child"] - Count)
ParentReads ==
  /\ pos["parent"] > Count /\ pos["parent"] <= 2 * Count /\ pos["child"] = pos["parent"] + 1
  /\ ToRead("parent", pos["parent"] - Count)
Finished ==
  /\ pos["parent"] = 2 * Count + 1 /\ pos["child"] = 2 * Count + 1
  /\ TokenIn("shm_write")
\* The parent woke up too early and took the token it had posted for the child.
Stolen ==
  /\ hurried /\ pos["child"] = Count
  /\ \/ pos["parent"] = Count + 1 /\ TokenWith("parent")
     \/ pos["parent"] = Count + 2 /\ TokenIn("shm_write")

Stage == ParentSends \/ ChildReads \/ ChildSends \/ ParentReads \/ Finished \/ Stolen

\* What a process has read so far, by its place in its reading loop.
ReadSoFar(p, n) == IF pc[p] = "post" /\ n <= Count THEN n ELSE n - 1

ReadsInv ==
  /\ Len(rx["child"]) = IF pos["child"] > Count THEN Count
                        ELSE ReadSoFar("child", pos["child"])
  /\ ~hurried =>
       Len(rx["parent"]) = IF pos["parent"] <= Count THEN 0
                           ELSE ReadSoFar("parent", pos["parent"] - Count)

\* After the fork, as long as a process is left.
Live == \E p \in Process : pc[p] \in {"wait", "access", "post", "usleep", "spin",
                                      "unlink_read", "unlink_write"}

StartsEmpty ==
  pc["parent"] \in {"shm_open", "sem_open_read", "sem_open_write", "fork"}
    => rx = [p \in Process |-> <<>>] /\ ~hurried

\* The parent sleeps between its two loops, and not to the end if it finds the child
\* still reading.
SleepInv ==
  /\ pos["parent"] <= Count \/ pc["parent"] = "usleep" => ~hurried
  /\ pc["child"] # "usleep"
  /\ ~disturbed /\ pos["parent"] > Count /\ pos["child"] <= Count
       /\ pc["parent"] \notin {"usleep", "gone"} => hurried

StageInv ==
  /\ StartsEmpty /\ SleepInv
  /\ ~disturbed => ReadsInOrder /\ (Live => Stage /\ ReadsInv)

\* Two processes and two semaphores.
LEMMA Others ==
  /\ Other("parent") = "child" /\ Other("child") = "parent"
  /\ \A s \in Semaphore : TokenIn(s) <=>
       /\ sem[s] = 1 /\ Holding("parent") = 0 /\ Holding("child") = 0
       /\ s = "shm_read" => sem["shm_write"] = 0
       /\ s = "shm_write" => sem["shm_read"] = 0
BY DEF Other, TokenIn, Semaphore

LEMMA InitStage == Init => StageInv
<1> SUFFICES ASSUME Init PROVE StageInv
  OBVIOUS
<1>1. ~Live /\ StartsEmpty /\ SleepInv
  BY CountType DEF Init, Live, StartsEmpty, SleepInv, Process
<1>2. ReadsInOrder
  BY CountType DEF Init, ReadsInOrder, InOrder, Process
<1> QED
  BY <1>1, <1>2 DEF StageInv

\* A step that moves no message, no token and nobody in or out of the segment keeps the
\* stage of the exchange.
Quiet ==
  /\ UNCHANGED <<pos, sem, segment, rx>>
  /\ \A p \in Process : /\ Holding(p)' = Holding(p)
                        /\ pc'[p] = "post" <=> pc[p] = "post"

LEMMA QuietKeeps ==
  ASSUME Quiet, Stage, ReadsInv, hurried' = hurried \/ ~hurried
  PROVE  Stage' /\ ReadsInv'
<1> USE DEF Quiet, Process
<1>1. /\ TokenIn("shm_read")' <=> TokenIn("shm_read")
      /\ TokenIn("shm_write")' <=> TokenIn("shm_write")
      /\ TokenWith("parent")' <=> TokenWith("parent")
      /\ TokenWith("child")' <=> TokenWith("child")
  BY DEF TokenIn, TokenWith, Other, Semaphore
<1>2. Stage'
  BY <1>1 DEF Stage, ParentSends, ChildReads, ChildSends, ParentReads, Finished, Stolen,
     ToWrite, ToRead
<1>3. ReadsInv'
  BY DEF ReadsInv, ReadSoFar
<1> QED
  BY <1>2, <1>3

\* Reading what is there: the k-th read of a message of the same loop.
LEMMA ViewSame ==
  ASSUME NEW p \in Process, NEW k \in 1..Count
  PROVE  View(Msg(p, k), k) = Msg(p, k)
<1>1. Msg(p, k) \in Message /\ Msg(p, k).i = k
  BY DEF Msg, Message
<1> QED
  BY <1>1 DEF View

\* One more message in order.
LEMMA AppendInOrder ==
  ASSUME TypeOK, NEW p \in Process, InOrder(p), Len(rx[p]) + 1 <= Count,
         rx' = [rx EXCEPT ![p] = Append(@, Msg(Other(p), Len(rx[p]) + 1))]
  PROVE  InOrder(p)' /\ Len(rx'[p]) = Len(rx[p]) + 1 /\ \A q \in Process \ {p} : rx'[q] = rx[q]
<1>1. rx \in [Process -> Seq(Content)]
  BY DEF TypeOK
<1>2. rx'[p] = Append(rx[p], Msg(Other(p), Len(rx[p]) + 1)) /\ rx[p] \in Seq(Content)
  BY <1>1
<1>3. Len(rx'[p]) = Len(rx[p]) + 1 /\ Len(rx[p]) \in Nat
  BY <1>2
<1>4. \A k \in 1..Len(rx'[p]) : rx'[p][k] = Msg(Other(p), k)
  BY <1>2, <1>3 DEF InOrder, Msg
<1> QED
  BY <1>1, <1>3, <1>4 DEF InOrder, Msg

\* The places of the two processes.
LEMMA Places ==
  ASSUME IInv
  PROVE  /\ pos["parent"] \in 1..(2 * Count + 1) /\ pos["child"] \in 1..(2 * Count + 1)
         /\ pos["parent"] \in Nat /\ pos["child"] \in Nat
         /\ sem["shm_read"] \in Nat /\ sem["shm_write"] \in Nat
         /\ pc \in [Process -> Label] /\ pos \in [Process -> 1..(2 * Count + 1)]
         /\ sem \in [Semaphore -> Nat]
         /\ \A p \in Process : /\ pc[p] \in {"wait", "access", "post"} => pos[p] <= 2 * Count
                               /\ pc[p] = "usleep" => pos[p] = Count + 1
<1>1. /\ pc \in [Process -> Label] /\ pos \in [Process -> 1..(2 * Count + 1)]
      /\ sem \in [Semaphore -> Nat]
  BY DEF IInv, TypeOK
<1> QED
  BY <1>1, CountType DEF IInv, InLoop, Process, Semaphore

\* Starting, opening and forking.
LEMMA StartupStage ==
  ASSUME IInv, StageInv, Start \/ get_shared_memory \/ Fork
  PROVE  StageInv'
<1> USE CountType DEF Process
<1>1. CASE Start
  <2>1. /\ pc'["parent"] = "shm_open" /\ pc'["child"] = "gone"
        /\ pos' = [p \in Process |-> 1] /\ rx' = [p \in Process |-> <<>>]
        /\ disturbed' = FALSE /\ hurried' = FALSE
    BY <1>1, Places DEF Start
  <2>2. StartsEmpty' /\ SleepInv' /\ ~Live'
    BY <2>1 DEF StartsEmpty, SleepInv, Live
  <2>3. ReadsInOrder'
    BY <2>1 DEF ReadsInOrder, InOrder
  <2> QED
    BY <2>2, <2>3 DEF StageInv
<1>2. CASE get_shared_memory
  <2>1. /\ pc["parent"] \in {"shm_open", "sem_open_read", "sem_open_write"}
        /\ pc'["parent"] \in {"sem_open_read", "sem_open_write", "fork"}
        /\ pc'["child"] = pc["child"]
        /\ UNCHANGED <<pos, rx, disturbed, hurried>>
    BY <1>2, Places DEF get_shared_memory, ShmOpen, SemOpen
  <2>2. pc["child"] = "gone" /\ pos["parent"] = 1
    BY <2>1 DEF IInv, StartupAlone
  <2>3. StartsEmpty' /\ SleepInv' /\ ~Live'
    BY <2>1, <2>2 DEF StageInv, StartsEmpty, SleepInv, Live
  <2>4. disturbed \/ ReadsInOrder'
    BY <2>1 DEF StageInv, ReadsInOrder, InOrder
  <2> QED
    BY <2>1, <2>3, <2>4 DEF StageInv
<1>3. CASE Fork
  <2>1. /\ pc["parent"] = "fork" /\ pc' = [p \in Process |-> "wait"]
        /\ UNCHANGED <<sem, pos, rx, hurried>>
        /\ disturbed' = (sem # [s \in Semaphore |-> Initial(s)])
    BY <1>3 DEF Fork
  <2>2. pos["parent"] = 1 /\ pos["child"] = 1 /\ rx = [p \in Process |-> <<>>] /\ ~hurried
    BY <2>1 DEF IInv, StartupAlone, StageInv, StartsEmpty
  <2>3. StartsEmpty' /\ SleepInv'
    BY <2>1, <2>2 DEF StartsEmpty, SleepInv
  <2>4. ReadsInOrder' /\ ReadsInv'
    BY <2>1, <2>2 DEF ReadsInOrder, InOrder, ReadsInv, ReadSoFar
  <2>5. ASSUME ~disturbed' PROVE Stage'
    <3>1. sem'["shm_write"] = 1 /\ sem'["shm_read"] = 0
      BY <2>1, <2>5 DEF Semaphore, Initial
    <3>2. TokenIn("shm_write")'
      BY <2>1, <3>1 DEF TokenIn, Holding, Semaphore
    <3> QED
      BY <2>1, <2>2, <3>2 DEF Stage, ParentSends, ToWrite
  <2> QED
    BY <2>3, <2>4, <2>5 DEF StageInv
<1> QED
  BY <1>1, <1>2, <1>3

\* A process that is alive is past the start-up, and the exchange is live.
LEMMA LiveStep ==
  ASSUME IInv, NEW p \in Process,
         pc[p] \in {"wait", "access", "post", "usleep", "spin", "unlink_read", "unlink_write"}
  PROVE  /\ Live
         /\ pc["parent"] \notin {"shm_open", "sem_open_read", "sem_open_write", "fork"}
BY StartupOver DEF Live

\* Waking up, leaving, signals and kills.
LEMMA OutsideStage ==
  ASSUME IInv, StageInv, NEW p \in Process,
         Usleep \/ Spin(p) \/ Exit(p) \/ sigHandler(p) \/ Kill(p)
  PROVE  StageInv'
<1> USE CountType DEF Process
<1>1. CASE Usleep \/ (pc[p] = "usleep" /\ sigHandler(p) )
  <2>1. pc["parent"] = "usleep"
    BY <1>1 DEF Usleep, StageInv, SleepInv
  <2>2. /\ pc' = [pc EXCEPT !["parent"] = "wait"] /\ hurried' = (pos["child"] <= Count)
        /\ UNCHANGED <<segment, sem, pos, rx, disturbed>>
    BY <1>1, <2>1 DEF Usleep, sigHandler, WakeUp, StageInv, SleepInv
  <2>3. pos["parent"] = Count + 1 /\ ~hurried
    BY <2>1, Places DEF StageInv, SleepInv
  <2>4. Quiet /\ Live
    BY <2>1, <2>2, Places, LiveStep DEF Quiet, Holding
  <2>5. StartsEmpty' /\ SleepInv'
    <3>1. /\ pc'["parent"] = "wait" /\ pc'["child"] = pc["child"] /\ pos' = pos
          /\ pos["child"] <= Count => hurried'
      BY <2>2, Places
    <3>2. ~(pos["parent"] <= Count)
      BY <2>3
    <3> QED
      BY <3>1, <3>2 DEF StageInv, StartsEmpty, SleepInv
  <2>6. ASSUME ~disturbed
        PROVE  ReadsInOrder' /\ Stage' /\ ReadsInv'
    <3>1. Stage /\ ReadsInv /\ ReadsInOrder
      BY <2>4, <2>6 DEF StageInv
    <3>2. Stage' /\ ReadsInv'
      BY <2>3, <2>4, <3>1, QuietKeeps
    <3>3. ReadsInOrder'
      BY <2>2, <2>3, <2>6, <3>1 DEF ReadsInOrder, InOrder
    <3> QED
      BY <3>2, <3>3
  <2> QED
    BY <2>2, <2>5, <2>6 DEF StageInv
<1>2. CASE Spin(p) \/ Exit(p)
  <2>1. /\ pc[p] \in {"spin", "unlink_read", "unlink_write"}
        /\ \E new \in {"unlink_read", "unlink_write", "gone"} : pc' = [pc EXCEPT ![p] = new]
        /\ UNCHANGED <<segment, sem, pos, rx, disturbed, hurried>>
    BY <1>2 DEF Spin, Exit, SemUnlink
  <2>2. Live /\ pc["parent"] \notin {"shm_open", "sem_open_read", "sem_open_write", "fork"}
    BY <2>1, LiveStep
  <2>3. Quiet
    BY <2>1, Places DEF Quiet, Holding
  <2>4. StartsEmpty' /\ SleepInv'
    BY <2>1, <2>2, Places DEF StageInv, StartsEmpty, SleepInv
  <2>5. ~disturbed => Stage' /\ ReadsInv' /\ ReadsInOrder'
    BY <2>1, <2>2, <2>3, QuietKeeps DEF StageInv, ReadsInOrder, InOrder
  <2> QED
    BY <2>1, <2>4, <2>5 DEF StageInv
<1>3. CASE sigHandler(p) /\ pc[p] = "wait" /\ sem[Guard(p)] = 0
  <2>1. pc' = [pc EXCEPT ![p] = "access"] /\ disturbed' = TRUE /\ UNCHANGED <<pos, rx, hurried>>
    BY <1>3 DEF sigHandler
  <2>2. pc["parent"] \notin {"shm_open", "sem_open_read", "sem_open_write", "fork"}
    BY <1>3, LiveStep
  <2>3. StartsEmpty' /\ SleepInv'
    BY <2>1, <2>2, Places DEF StageInv, StartsEmpty, SleepInv
  <2> QED
    BY <2>1, <2>3 DEF StageInv
<1>4. CASE sigHandler(p) /\ pc[p] # "usleep" /\ ~(pc[p] = "wait" /\ sem[Guard(p)] = 0)
  <2>1. UNCHANGED <<segment, sem, pos, rx, pc, disturbed, hurried>>
    BY <1>4 DEF sigHandler
  <2>2. Quiet /\ (Live' <=> Live)
    BY <2>1 DEF Quiet, Holding, Live
  <2>3. StartsEmpty' /\ SleepInv'
    BY <2>1 DEF StageInv, StartsEmpty, SleepInv
  <2>4. ~disturbed => ReadsInOrder' /\ (Live => Stage' /\ ReadsInv')
    BY <2>1, <2>2, QuietKeeps DEF StageInv, ReadsInOrder, InOrder
  <2> QED
    BY <2>1, <2>2, <2>3, <2>4 DEF StageInv
<1>5. CASE Kill(p)
  <2>1. /\ pc' = [pc EXCEPT ![p] = "gone"] /\ disturbed' = (disturbed \/ Holding(p) = 1)
        /\ UNCHANGED <<segment, sem, pos, rx, hurried>>
    BY <1>5 DEF Kill
  <2>2. StartsEmpty' /\ SleepInv'
    BY <2>1, Places DEF StageInv, StartsEmpty, SleepInv
  <2>3. Live' => Live
    BY <2>1, Places DEF Live
  <2>4. ASSUME ~disturbed' PROVE ReadsInOrder' /\ (Live => Stage' /\ ReadsInv')
    <3>1. ~disturbed /\ Holding(p) # 1
      BY <2>1, <2>4
    <3>2. Quiet
      BY <2>1, <3>1, Places DEF Quiet, Holding
    <3> QED
      BY <2>1, <3>1, <3>2, QuietKeeps DEF StageInv, ReadsInOrder, InOrder
  <2> QED
    BY <2>2, <2>3, <2>4 DEF StageInv
<1> QED
  BY <1>1, <1>2, <1>3, <1>4, <1>5

\* Inside the loops the start-up is over, and waiting, writing and reading do not end the
\* parent's sleep.
LEMMA LoopFrame ==
  ASSUME IInv, StageInv, NEW p \in Process, SemWait(p) \/ Write(p) \/ Read(p)
  PROVE  /\ StartsEmpty' /\ SleepInv' /\ Live
         /\ UNCHANGED <<pos, disturbed, hurried>>
<1>1. /\ pc[p] \in {"wait", "access"} /\ UNCHANGED <<pos, disturbed, hurried>>
      /\ pc' = [pc EXCEPT ![p] = "access"] \/ pc' = [pc EXCEPT ![p] = "post"]
  BY DEF SemWait, Write, Read
<1>2. Live /\ pc["parent"] \notin {"shm_open", "sem_open_read", "sem_open_write", "fork"}
  BY <1>1, LiveStep
<1> QED
  BY <1>1, <1>2, Places DEF StageInv, StartsEmpty, SleepInv, Process

\* Taking the token.
LEMMA WaitStage ==
  ASSUME IInv, StageInv, NEW p \in Process, SemWait(p)
  PROVE  StageInv'
<1>1. StartsEmpty' /\ SleepInv' /\ Live /\ UNCHANGED <<pos, disturbed, hurried>>
  BY LoopFrame
<1> SUFFICES ASSUME ~disturbed PROVE ReadsInOrder' /\ Stage' /\ ReadsInv'
  BY <1>1 DEF StageInv
<1>2. /\ pc[p] = "wait" /\ sem[Guard(p)] > 0 /\ UNCHANGED <<segment, rx>>
      /\ sem' = [sem EXCEPT ![Guard(p)] = @ - 1] /\ pc' = [pc EXCEPT ![p] = "access"]
  BY DEF SemWait
<1>3. Stage /\ ReadsInv /\ ReadsInOrder
  BY <1>1 DEF StageInv
<1>4. ReadsInOrder' /\ ReadsInv'
  BY <1>1, <1>2, <1>3, Places DEF ReadsInOrder, InOrder, ReadsInv, ReadSoFar, Process
<1>5. \A s \in Semaphore : TokenIn(s) /\ Guard(p) = s => TokenWith(p)'
  BY <1>2, Places DEF TokenIn, TokenWith, Holding, Other, Process, Semaphore
<1>6. \A s \in Semaphore : TokenIn(s) => Guard(p) = s
  BY <1>2, GuardReleased DEF TokenIn, Semaphore
<1>7. ~TokenWith("parent") /\ ~TokenWith("child")
  BY <1>2, GuardReleased DEF TokenWith
<1>8. Guard(p) = IF (p = "parent") = (pos[p] <= Count) THEN "shm_write" ELSE "shm_read"
  BY DEF Guard, Writing
<1>9. Stage'
  <2> USE DEF Process, Semaphore
  <2>1. CASE ParentSends
    <3>1. p = "parent" /\ TokenWith("parent")'
      BY <1>5, <1>6, <1>7, <1>8, <2>1 DEF ParentSends, ToWrite
    <3> QED
      BY <1>1, <1>2, <2>1, <3>1, Places DEF Stage, ParentSends, ToWrite
  <2>2. CASE ChildReads
    <3>1. TokenIn("shm_read") /\ Guard(p) = "shm_read" /\ TokenWith(p)'
      BY <1>5, <1>6, <1>7, <2>2 DEF ChildReads, ToRead
    <3>2. CASE p = "child"
      BY <1>1, <1>2, <2>2, <3>1, <3>2 DEF Stage, ChildReads, ToRead
    <3>3. CASE p = "parent"
      <4>1. pos["parent"] > Count
        BY <1>8, <3>1, <3>3, Places, CountType
      <4>2. pos["parent"] = Count + 1 /\ pos["child"] = Count
        BY <2>2, <4>1, Places, CountType DEF ChildReads
      <4>3. hurried
        BY <1>2, <3>3, <4>1, <4>2, CountType DEF StageInv, SleepInv
      <4> QED
        BY <1>1, <3>1, <3>3, <4>2, <4>3 DEF Stage, Stolen
    <3> QED
      BY <3>2, <3>3
  <2>3. CASE ChildSends
    <3>1. Guard(p) = "shm_write" /\ TokenWith(p)'
      BY <1>5, <1>6, <1>7, <2>3 DEF ChildSends, ToWrite
    <3>2. p = "child"
      BY <1>8, <2>3, <3>1, Places, CountType DEF ChildSends
    <3> QED
      BY <1>1, <1>2, <2>3, <3>1, <3>2, Places DEF Stage, ChildSends, ToWrite
  <2>4. CASE ParentReads
    <3>1. Guard(p) = "shm_read" /\ TokenWith(p)'
      BY <1>5, <1>6, <1>7, <2>4 DEF ParentReads, ToRead
    <3>2. p = "parent"
      BY <1>8, <2>4, <3>1, Places, CountType DEF ParentReads
    <3> QED
      BY <1>1, <1>2, <2>4, <3>1, <3>2 DEF Stage, ParentReads, ToRead
  <2>5. CASE Finished
    BY <1>2, <2>5, Places, CountType DEF Finished
  <2>6. CASE Stolen
    <3>1. Guard(p) = "shm_write"
      BY <1>6, <1>7, <2>6 DEF Stolen
    <3> QED
      BY <1>7, <1>8, <2>6, <3>1, Places, CountType DEF Stolen
  <2> QED
    BY <1>3, <2>1, <2>2, <2>3, <2>4, <2>5, <2>6 DEF Stage
<1> QED
  BY <1>4, <1>9

\* A process inside has the token, and the other is not inside.
LEMMA InsideStage ==
  ASSUME IInv, Stage, NEW p \in Process, pc[p] \in {"access", "post"}
  PROVE  /\ TokenWith(p) /\ Torn(p) = {} /\ Holding(Other(p)) = 0 /\ pos[p] <= 2 * Count
         /\ p = "parent" /\ pos[p] <= Count => ParentSends
         /\ p = "parent" /\ ~(pos[p] <= Count) => ParentReads \/ Stolen
         /\ p = "child" /\ pos[p] <= Count => ChildReads
         /\ p = "child" /\ ~(pos[p] <= Count) => ChildSends
<1>1. Holding(p) = 1 /\ pos[p] <= 2 * Count
  BY Places DEF Holding
<1>2. \A s \in Semaphore : ~TokenIn(s)
  BY <1>1 DEF TokenIn, Process
<1>3. ~TokenWith(Other(p))
  BY <1>1, Others DEF TokenWith, Process
<1>4. TokenWith(p)
  BY <1>2, <1>3, Others DEF Stage, ParentSends, ChildReads, ChildSends, ParentReads, Finished,
     Stolen, ToWrite, ToRead, Process, Semaphore
<1>5. Holding(Other(p)) = 0 /\ Torn(p) = {}
  BY <1>4 DEF TokenWith, Torn, Holding
<1>6. CASE p = "parent"
  <2>1. ~TokenWith("child")
    BY <1>3, <1>6, Others
  <2>2. ParentSends \/ ParentReads \/ Stolen
    BY <1>2, <2>1 DEF Stage, ChildReads, ChildSends, Finished, ToWrite, ToRead, Semaphore
  <2> QED
    BY <1>1, <1>4, <1>5, <1>6, <2>1, <2>2, Places, CountType
       DEF ParentSends, ParentReads, Stolen, ChildReads
<1>7. CASE p = "child"
  <2>1. ~TokenWith("parent")
    BY <1>3, <1>7, Others
  <2>2. ChildReads \/ ChildSends
    BY <1>2, <2>1 DEF Stage, ParentSends, ParentReads, Finished, Stolen, ToWrite, ToRead, Semaphore
  <2> QED
    BY <1>1, <1>4, <1>5, <1>7, <2>1, <2>2, Places, CountType
       DEF ParentSends, ChildReads, ChildSends
<1> QED
  BY <1>6, <1>7 DEF Process

\* Writing a message.
LEMMA WriteStage ==
  ASSUME IInv, StageInv, NEW p \in Process, Write(p)
  PROVE  StageInv'
<1>1. StartsEmpty' /\ SleepInv' /\ Live /\ UNCHANGED <<pos, disturbed, hurried>>
  BY LoopFrame
<1> SUFFICES ASSUME ~disturbed PROVE ReadsInOrder' /\ Stage' /\ ReadsInv'
  BY <1>1 DEF StageInv
<1>2. /\ pc[p] = "access" /\ Writing(p) /\ UNCHANGED <<sem, rx>>
      /\ segment' \in {[from |-> p, i |-> Index(p)]} \cup Torn(p)
      /\ pc' = [pc EXCEPT ![p] = "post"]
  BY DEF Write
<1>3. Stage /\ ReadsInv /\ ReadsInOrder
  BY <1>1 DEF StageInv
<1>4. TokenWith(p) /\ segment' = Msg(p, Index(p))
  BY <1>2, <1>3, InsideStage DEF Msg
<1>5. TokenWith(p)' /\ pc'[p] = "post"
  BY <1>2, <1>4, Places DEF TokenWith, Holding, Other, Process
<1>6. CASE p = "parent"
  <2>1. pos["parent"] <= Count /\ Index(p) = pos["parent"]
    BY <1>2, <1>6 DEF Writing, Index
  <2>2. ParentSends
    BY <1>2, <1>3, <1>6, <2>1, InsideStage
  <2>3. ParentSends'
    BY <1>1, <1>4, <1>5, <1>6, <2>1, <2>2 DEF ParentSends, ToWrite, Msg
  <2>4. ReadsInOrder' /\ ReadsInv'
    BY <1>1, <1>2, <1>3, <1>6, <2>1, Places DEF ReadsInOrder, InOrder, ReadsInv, ReadSoFar, Process
  <2> QED
    BY <2>3, <2>4 DEF Stage
<1>7. CASE p = "child"
  <2>1. ~(pos["child"] <= Count) /\ Index(p) = pos["child"] - Count
    BY <1>2, <1>7 DEF Writing, Index
  <2>2. ChildSends
    BY <1>2, <1>3, <1>7, <2>1, InsideStage
  <2>3. ChildSends'
    BY <1>1, <1>4, <1>5, <1>7, <2>1, <2>2 DEF ChildSends, ToWrite, Msg
  <2>4. ReadsInOrder' /\ ReadsInv'
    BY <1>1, <1>2, <1>3, <1>7, <2>1, Places, CountType
       DEF ReadsInOrder, InOrder, ReadsInv, ReadSoFar, Process
  <2> QED
    BY <2>3, <2>4 DEF Stage
<1> QED
  BY <1>6, <1>7 DEF Process

\* Reading a message.
LEMMA ReadStage ==
  ASSUME IInv, StageInv, NEW p \in Process, Read(p)
  PROVE  StageInv'
<1>1. StartsEmpty' /\ SleepInv' /\ Live /\ UNCHANGED <<pos, disturbed, hurried>>
  BY LoopFrame
<1> SUFFICES ASSUME ~disturbed PROVE ReadsInOrder' /\ Stage' /\ ReadsInv'
  BY <1>1 DEF StageInv
<1>2. Stage /\ ReadsInv /\ ReadsInOrder /\ TypeOK
  BY <1>1 DEF StageInv, IInv
<1>3. /\ pc[p] = "access" /\ ~Writing(p) /\ UNCHANGED <<sem, segment>>
      /\ pc' = [pc EXCEPT ![p] = "post"]
  BY DEF Read
<1>4. rx' = [rx EXCEPT ![p] = Append(@, View(segment, Index(p)))] /\ TokenWith(p)
  BY <1>2, <1>3, InsideStage DEF Read
<1>5. TokenWith(p)' /\ pc'[p] = "post" /\ pc[p] # "post" /\ \A q \in Process \ {p} : pc'[q] = pc[q]
  BY <1>3, <1>4, Places DEF TokenWith, Holding, Other, Process
<1>6. CASE p = "child"
  <2>1. pos["child"] <= Count /\ Index(p) = pos["child"]
    BY <1>3, <1>6 DEF Writing, Index
  <2>2. ChildReads
    BY <1>2, <1>3, <1>6, <2>1, InsideStage
  <2>3. Len(rx["child"]) = pos["child"] - 1 /\ pos["child"] \in 1..Count
    BY <1>2, <1>5, <1>6, <2>1, Places, CountType DEF ReadsInv, ReadSoFar
  <2>4. View(segment, Index(p)) = Msg("parent", pos["child"])
    BY <2>1, <2>2, <2>3, ViewSame, Others DEF ChildReads, ToRead, Process
  <2>5. InOrder("child")' /\ Len(rx'["child"]) = pos["child"] /\ rx'["parent"] = rx["parent"]
    <3>1. InOrder("child") /\ pos["child"] = Len(rx["child"]) + 1 /\ Len(rx["child"]) + 1 <= Count
      BY <1>2, <2>3, Places DEF ReadsInOrder
    <3>2. rx' = [rx EXCEPT !["child"] = Append(@, Msg(Other("child"), Len(rx["child"]) + 1))]
      BY <1>4, <1>6, <2>4, <3>1, Others
    <3> QED
      BY <1>2, <3>1, <3>2, AppendInOrder DEF Process
  <2>6. ChildReads'
    BY <1>1, <1>3, <1>5, <1>6, <2>2 DEF ChildReads, ToRead
  <2>7. ReadsInOrder' /\ ReadsInv'
    BY <1>1, <1>2, <1>5, <1>6, <2>1, <2>5 DEF ReadsInOrder, InOrder, ReadsInv, ReadSoFar, Process
  <2> QED
    BY <2>6, <2>7 DEF Stage
<1>7. CASE p = "parent"
  <2>1. ~(pos["parent"] <= Count) /\ Index(p) = pos["parent"] - Count
    BY <1>3, <1>7 DEF Writing, Index
  <2>2. rx'["child"] = rx["child"] /\ pc'["child"] = pc["child"]
    BY <1>2, <1>4, <1>5, <1>7 DEF TypeOK, Process
  <2>3. InOrder("child")'
    BY <1>2, <2>2 DEF ReadsInOrder, InOrder
  <2>4. CASE Stolen
    <3>1. hurried /\ Stolen'
      <4>1. ~TokenIn("shm_write")
        BY <1>4, <1>7 DEF TokenIn, TokenWith
      <4> QED
        BY <1>1, <1>5, <1>7, <2>4, <4>1 DEF Stolen
    <3> QED
      BY <1>1, <1>2, <2>2, <2>3, <3>1 DEF Stage, ReadsInOrder, ReadsInv, ReadSoFar
  <2>5. CASE ParentReads
    <3>1. ParentReads'
      BY <1>1, <1>3, <1>5, <1>7, <2>5 DEF ParentReads, ToRead
    <3>2. CASE hurried
      BY <1>1, <1>2, <2>2, <2>3, <3>1, <3>2 DEF Stage, ReadsInOrder, ReadsInv, ReadSoFar
    <3>3. CASE ~hurried
      <4>1. /\ Len(rx["parent"]) = pos["parent"] - Count - 1
            /\ pos["parent"] - Count \in 1..Count
        BY <1>2, <1>5, <1>7, <2>1, <2>5, <3>3, Places, CountType DEF ReadsInv, ReadSoFar, ParentReads
      <4>2. View(segment, Index(p)) = Msg("child", pos["parent"] - Count)
        BY <2>1, <2>5, <4>1, ViewSame, Others DEF ParentReads, ToRead, Process
      <4>3. /\ InOrder("parent") /\ Len(rx["parent"]) + 1 <= Count
            /\ pos["parent"] - Count = Len(rx["parent"]) + 1
        BY <1>2, <3>3, <4>1, Places, CountType DEF ReadsInOrder
      <4>4. rx' = [rx EXCEPT !["parent"] = Append(@, Msg(Other("parent"), Len(rx["parent"]) + 1))]
        BY <1>4, <1>7, <4>2, <4>3, Others
      <4>5. InOrder("parent")' /\ Len(rx'["parent"]) = pos["parent"] - Count
        BY <1>2, <4>3, <4>4, AppendInOrder DEF Process
      <4>6. ReadsInv'
        BY <1>1, <1>2, <1>5, <1>7, <2>1, <2>2, <4>1, <4>5, Places, CountType
           DEF ReadsInv, ReadSoFar
      <4> QED
        BY <1>1, <2>3, <3>1, <4>5, <4>6 DEF Stage, ReadsInOrder
    <3> QED
      BY <3>2, <3>3
  <2> QED
    BY <1>2, <1>3, <1>7, <2>1, <2>4, <2>5, InsideStage
<1> QED
  BY <1>6, <1>7 DEF Process

\* Passing the token on.
LEMMA PostStage ==
  ASSUME IInv, StageInv, NEW p \in Process, SemPost(p)
  PROVE  StageInv'
<1> USE CountType DEF Process
<1>1. /\ pc[p] = "post" /\ UNCHANGED <<segment, rx, disturbed, hurried>>
      /\ sem' = [sem EXCEPT ![Released(p)] = @ + 1]
      /\ pc' = [pc EXCEPT ![p] = AfterPost(p)]
      /\ pos' = [pos EXCEPT ![p] = @ + 1]
  BY DEF SemPost
<1>2. Live /\ pc["parent"] \notin {"shm_open", "sem_open_read", "sem_open_write", "fork"}
  BY <1>1, LiveStep
<1>3. /\ pos'[p] = pos[p] + 1 /\ \A q \in Process \ {p} : pos'[q] = pos[q] /\ pc'[q] = pc[q]
      /\ pc'[p] = AfterPost(p) /\ AfterPost(p) \in {"usleep", "spin", "wait"}
      /\ AfterPost(p) = "usleep" <=> p = "parent" /\ pos[p] = Count
      /\ pos[p] <= 2 * Count
  BY <1>1, Places DEF AfterPost
<1>4. StartsEmpty'
  BY <1>2, <1>3 DEF StartsEmpty
<1>5. SleepInv'
  <2>1. CASE p = "child"
    BY <1>1, <1>3, <2>1, Places DEF StageInv, SleepInv
  <2>2. CASE p = "parent"
    <3>1. pos'["parent"] <= Count \/ pc'["parent"] = "usleep" => pos["parent"] <= Count
      BY <1>3, <2>2, Places
    <3>2. pc'["child"] # "usleep" /\ pos'["child"] = pos["child"]
      BY <1>3, <2>2 DEF StageInv, SleepInv
    <3>3. ASSUME pos'["parent"] > Count, pc'["parent"] # "usleep" PROVE pos["parent"] > Count
      BY <1>3, <2>2, <3>3, Places
    <3> QED
      BY <1>1, <2>2, <3>1, <3>2, <3>3 DEF StageInv, SleepInv
  <2> QED
    BY <2>1, <2>2
<1> SUFFICES ASSUME ~disturbed PROVE ReadsInOrder' /\ Stage' /\ ReadsInv'
  BY <1>1, <1>4, <1>5 DEF StageInv
<1>6. Stage /\ ReadsInv /\ ReadsInOrder /\ TokenWith(p)
  BY <1>1, <1>2, InsideStage DEF StageInv
<1>7. ReadsInOrder'
  BY <1>1, <1>6 DEF ReadsInOrder, InOrder
<1>8. /\ Holding("parent")' = 0 /\ Holding("child")' = 0
      /\ Released(p) = "shm_read" => TokenIn("shm_read")'
      /\ Released(p) = "shm_write" => TokenIn("shm_write")'
  <2>1. Holding("parent")' = 0 /\ Holding("child")' = 0
    BY <1>3, <1>6, Others DEF TokenWith, Holding
  <2>2. sem["shm_read"] = 0 /\ sem["shm_write"] = 0
    BY <1>6 DEF TokenWith
  <2> QED
    BY <1>1, <2>1, <2>2, Places DEF TokenIn, Semaphore
<1>9. Released(p) = IF (p = "parent") = (pos[p] <= Count) THEN "shm_read" ELSE "shm_write"
  BY DEF Released, Writing
<1>10. CASE p = "parent" /\ pos["parent"] <= Count
  <2>1. ParentSends /\ TokenIn("shm_read")'
    BY <1>1, <1>6, <1>8, <1>9, <1>10, InsideStage
  <2>2. segment = Msg("parent", pos["parent"])
    BY <1>1, <1>6, <1>10, <2>1 DEF ParentSends, ToWrite, TokenIn, TokenWith
  <2>3. ChildReads'
    BY <1>1, <1>3, <1>10, <2>1, <2>2, Places, Others DEF ParentSends, ChildReads, ToRead, Msg
  <2>4. ReadsInv'
    BY <1>1, <1>3, <1>6, <1>10, <2>1, Places DEF ReadsInv, ReadSoFar, ParentSends
  <2> QED
    BY <1>7, <2>3, <2>4 DEF Stage
<1>11. CASE p = "child" /\ pos["child"] <= Count
  <2>1. ChildReads /\ TokenIn("shm_write")'
    BY <1>1, <1>6, <1>8, <1>9, <1>11, InsideStage
  <2>2. pos'["child"] = pos["child"] + 1 /\ pos'["parent"] = pos["child"] + 1
    BY <1>3, <1>11, <2>1 DEF ChildReads
  <2>3. ParentSends' \/ ChildSends'
    BY <1>11, <2>1, <2>2, Places DEF ParentSends, ChildSends, ToWrite
  <2>4. ReadsInv'
    BY <1>1, <1>3, <1>6, <1>11, <2>1, <2>2, Places DEF ReadsInv, ReadSoFar
  <2> QED
    BY <1>7, <2>3, <2>4 DEF Stage
<1>12. CASE p = "child" /\ ~(pos["child"] <= Count)
  <2>1. ChildSends /\ TokenIn("shm_read")'
    BY <1>1, <1>6, <1>8, <1>9, <1>12, InsideStage
  <2>2. segment = Msg("child", pos["child"] - Count)
    BY <1>1, <1>6, <1>12, <2>1 DEF ChildSends, ToWrite, TokenIn, TokenWith
  <2>3. ParentReads'
    BY <1>1, <1>3, <1>12, <2>1, <2>2, Places, Others DEF ChildSends, ParentReads, ToRead, Msg
  <2>4. ReadsInv'
    BY <1>1, <1>3, <1>6, <1>12, Places DEF ReadsInv, ReadSoFar
  <2> QED
    BY <1>7, <2>3, <2>4 DEF Stage
<1>13. CASE p = "parent" /\ ~(pos["parent"] <= Count)
  <2>1. (ParentReads \/ Stolen) /\ TokenIn("shm_write")'
    BY <1>1, <1>6, <1>8, <1>9, <1>13, InsideStage
  <2>2. /\ pos'["parent"] = pos["parent"] + 1 /\ pos'["child"] = pos["child"]
        /\ pc'["parent"] # "post" /\ pc'["child"] = pc["child"]
    BY <1>3, <1>13
  <2>3. ReadsInv'
    BY <1>1, <1>6, <1>13, <2>2, Places DEF ReadsInv, ReadSoFar
  <2>4. CASE ParentReads
    <3>1. ChildSends' \/ Finished'
      BY <1>13, <2>1, <2>2, <2>4, Places DEF ParentReads, ChildSends, Finished, ToWrite
    <3> QED
      BY <1>7, <2>3, <3>1 DEF Stage
  <2>5. CASE Stolen
    <3>1. pos["parent"] = Count + 1
      BY <1>6, <1>13, <2>5 DEF Stolen, TokenIn, TokenWith
    <3>2. Stolen'
      BY <1>1, <2>1, <2>2, <2>5, <3>1 DEF Stolen
    <3> QED
      BY <1>7, <2>3, <3>2 DEF Stage
  <2> QED
    BY <2>1, <2>4, <2>5
<1> QED
  BY <1>10, <1>11, <1>12, <1>13

\* What each process has read is what the other wrote, in order, in every run that no
\* signal, kill or left-over semaphore disturbed: the child's reads however short the
\* parent's usleep, the parent's if the sleep outlasted the child's last read.
THEOREM ReadsAreInOrder == Spec => []ReadsInOrder
<1>1. IInv /\ StageInv /\ [Next]_vars => StageInv'
  <2>1. ASSUME IInv, StageInv, Next PROVE StageInv'
    <3>1. CASE Start \/ get_shared_memory \/ Fork
      BY <2>1, <3>1, StartupStage
    <3>2. CASE Usleep
      BY <2>1, <3>2, OutsideStage DEF Process
    <3>3. ASSUME NEW p \in Process, Step(p) \/ sigHandler(p) \/ Kill(p) PROVE StageInv'
      BY <2>1, <3>3, WaitStage, WriteStage, ReadStage, PostStage, OutsideStage DEF Step
    <3> QED
      BY <2>1, <3>1, <3>2, <3>3 DEF Next
  <2>2. ASSUME StageInv, UNCHANGED vars PROVE StageInv'
    <3>1. Quiet /\ UNCHANGED <<disturbed, hurried>> /\ pc' = pc /\ (Live' <=> Live)
      BY <2>2 DEF vars, Quiet, Holding, Live
    <3>2. StartsEmpty' /\ SleepInv' /\ (ReadsInOrder' <=> ReadsInOrder)
      BY <2>2, <3>1 DEF StageInv, StartsEmpty, SleepInv, ReadsInOrder, InOrder, Quiet
    <3> QED
      BY <2>2, <3>1, <3>2, QuietKeeps DEF StageInv
  <2> QED
    BY <2>1, <2>2
<1>2. StageInv => ReadsInOrder
  BY DEF StageInv, ReadsInOrder
<1> QED
  BY InitStage, <1>1, <1>2, ExchangeInvariant, PTL DEF Spec

=============================================================================
