----------------------------- MODULE SharedMem -----------------------------
(***************************************************************************)
(* HW4/Ques2/Shared Memory/sharedMem.c: a parent and a child exchange       *)
(* messages through one shared segment, guarded by two named semaphores.    *)
(* shm_write holds the right to write the segment (initially 1), shm_read   *)
(* the right to read it (initially 0).  The parent writes all its messages, *)
(* sleeps one microsecond and reads; the child reads and then writes.       *)
(*                                                                          *)
(* Signals interrupt sem_wait, whose result the code does not check; a      *)
(* process can be killed; and the program is started again on whatever      *)
(* names the last run left behind.                                          *)
(***************************************************************************)
EXTENDS Integers, Sequences

CONSTANTS
  Commands,     \* number of one-byte commands each side sends (5)
  Strings,      \* number of strings each side sends after them (5)
  MaxSignals,   \* bound: SIGINTs delivered in one behaviour
  MaxKills,     \* bound: processes killed in one behaviour
  MaxRuns       \* bound: times the program is started

ASSUME ShmAssumption ==
  /\ Commands \in Nat \ {0} /\ Strings \in Nat \ {0}
  /\ MaxSignals \in Nat /\ MaxKills \in Nat /\ MaxRuns \in Nat

VARIABLES
  segment,          \* what the segment holds; Absent before its creation
  linked,           \* linked[s]: the name of semaphore s exists
  sem,              \* sem[s]: its value
  pc,               \* pc[p]: where process p is
  pos,              \* pos[p]: its current message, over both of its loops
  rx,               \* rx[p]: what it has read
  terminateSignal,  \* the flag its signal handler sets
  budget,           \* what is left of the three bounds
  disturbed,        \* ghost: a token of this run was lost, forged or left over
  hurried           \* ghost: the usleep of this run ended before the child's last read

vars == <<segment, linked, sem, pc, pos, rx, terminateSignal, budget, disturbed, hurried>>

Process == {"parent", "child"}
Semaphore == {"shm_read", "shm_write"}
Count == Commands + Strings

Other(p) == IF p = "parent" THEN "child" ELSE "parent"

-----------------------------------------------------------------------------
(* Messages.  The i-th message of a process is a command or a string.       *)

Absent == [from |-> "absent", i |-> 0]
Zeros == [from |-> "zeros", i |-> 0]
Garbled == [from |-> "garbled", i |-> 0]
Message == [from : Process, i : 1..Count]
Content == Message \cup {Absent, Zeros, Garbled}

IsCommand(i) == i <= Commands

Sent(p) == [i \in 1..Count |-> [from |-> p, i |-> i]]

\* The i-th read takes one byte in the command loop and a string in the
\* other, whatever the segment holds.
View(c, i) ==
  IF c \in Message /\ IsCommand(c.i) = IsCommand(i) THEN c ELSE Garbled

-----------------------------------------------------------------------------
(* The control of a process.                                                *)

\* The parent's first loop writes, the child's first loop reads.
Writing(p) == (p = "parent") = (pos[p] <= Count)

\* The index of p's current message within its direction.
Index(p) == IF pos[p] <= Count THEN pos[p] ELSE pos[p] - Count

Guard(p) == IF Writing(p) THEN "shm_write" ELSE "shm_read"

\* Mutant of Released: a reader gives the right to read on.
ReleasedByReader(p) == "shm_read"

Released(p) == IF Writing(p) THEN "shm_read" ELSE "shm_write"

Holding(p) == IF pc[p] \in {"access", "post"} THEN 1 ELSE 0

Initial(s) == IF s = "shm_write" THEN 1 ELSE 0

Running == {"shm_open", "sem_open_read", "sem_open_write", "fork", "wait",
            "access", "post", "usleep", "spin", "unlink_read", "unlink_write"}

Label == Running \cup {"gone"}

Init ==
  /\ segment = Absent
  /\ linked = [s \in Semaphore |-> FALSE]
  /\ sem = [s \in Semaphore |-> 0]
  /\ pc = [p \in Process |-> "gone"]
  /\ pos = [p \in Process |-> 1]
  /\ rx = [p \in Process |-> <<>>]
  /\ terminateSignal = [p \in Process |-> FALSE]
  /\ budget = [signals |-> MaxSignals, kills |-> MaxKills, runs |-> MaxRuns]
  /\ disturbed = FALSE /\ hurried = FALSE

\* The program is started: a fresh process, its handler installed.
Start ==
  /\ \A p \in Process : pc[p] = "gone"
  /\ budget.runs > 0
  /\ budget' = [budget EXCEPT !.runs = @ - 1]
  /\ pc' = [pc EXCEPT !["parent"] = "shm_open"]
  /\ pos' = [p \in Process |-> 1]
  /\ rx' = [p \in Process |-> <<>>]
  /\ terminateSignal' = [p \in Process |-> FALSE]
  /\ disturbed' = FALSE /\ hurried' = FALSE
  /\ UNCHANGED <<segment, linked, sem>>

\* shm_open: ftruncate zeroes a new segment, an old one keeps its content.
ShmOpen ==
  /\ pc["parent"] = "shm_open"
  /\ segment' = IF segment = Absent THEN Zeros ELSE segment
  /\ pc' = [pc EXCEPT !["parent"] = "sem_open_read"]
  /\ UNCHANGED <<linked, sem, pos, rx, terminateSignal, budget, disturbed, hurried>>

\* sem_open with O_CREAT and without O_EXCL: the initial value is for a new
\* semaphore only.
SemOpen(s, here, next) ==
  /\ pc["parent"] = here
  /\ sem' = [sem EXCEPT ![s] = IF linked[s] THEN @ ELSE Initial(s)]
  /\ linked' = [linked EXCEPT ![s] = TRUE]
  /\ pc' = [pc EXCEPT !["parent"] = next]
  /\ UNCHANGED <<segment, pos, rx, terminateSignal, budget, disturbed, hurried>>

get_shared_memory ==
  \/ ShmOpen
  \/ SemOpen("shm_read", "sem_open_read", "sem_open_write")
  \/ SemOpen("shm_write", "sem_open_write", "fork")

\* fork: the child inherits the flag.  A run on stale semaphores is disturbed.
Fork ==
  /\ pc["parent"] = "fork"
  /\ pc' = [p \in Process |-> "wait"]
  /\ terminateSignal' = [p \in Process |-> terminateSignal["parent"]]
  /\ disturbed' = (sem # [s \in Semaphore |-> Initial(s)])
  /\ UNCHANGED <<segment, linked, sem, pos, rx, budget, hurried>>

\* Mutant of SemWait: the semaphore is tested but not taken.
WaitWithoutTaking(p) ==
  /\ pc[p] = "wait"
  /\ sem[Guard(p)] > 0
  /\ pc' = [pc EXCEPT ![p] = "access"]
  /\ UNCHANGED <<segment, linked, sem, pos, rx, terminateSignal, budget, disturbed, hurried>>

SemWait(p) ==
  /\ pc[p] = "wait"
  /\ sem[Guard(p)] > 0
  /\ sem' = [sem EXCEPT ![Guard(p)] = @ - 1]
  /\ pc' = [pc EXCEPT ![p] = "access"]
  /\ UNCHANGED <<segment, linked, pos, rx, terminateSignal, budget, disturbed, hurried>>

\* Two processes inside at once tear what they write and read.
Torn(p) == IF pc[Other(p)] = "access" THEN {Garbled} ELSE {}

Write(p) ==
  /\ pc[p] = "access" /\ Writing(p)
  /\ segment' \in {[from |-> p, i |-> Index(p)]} \cup Torn(p)
  /\ pc' = [pc EXCEPT ![p] = "post"]
  /\ UNCHANGED <<linked, sem, pos, rx, terminateSignal, budget, disturbed, hurried>>

Read(p) ==
  /\ pc[p] = "access" /\ ~Writing(p)
  /\ \E m \in {View(segment, Index(p))} \cup Torn(p) :
       rx' = [rx EXCEPT ![p] = Append(@, m)]
  /\ pc' = [pc EXCEPT ![p] = "post"]
  /\ UNCHANGED <<segment, linked, sem, pos, terminateSignal, budget, disturbed, hurried>>

\* Where a process goes after the post of its current message.
AfterPost(p) ==
  CASE p = "parent" /\ pos[p] = Count -> "usleep"
    [] pos[p] = 2 * Count             -> "spin"
    [] OTHER                          -> "wait"

SemPost(p) ==
  /\ pc[p] = "post"
  /\ sem' = [sem EXCEPT ![Released(p)] = @ + 1]
  /\ pc' = [pc EXCEPT ![p] = AfterPost(p)]
  /\ pos' = [pos EXCEPT ![p] = @ + 1]
  /\ UNCHANGED <<segment, linked, rx, terminateSignal, budget, disturbed, hurried>>

\* One microsecond, after which the parent is scheduled sooner or later: nothing makes
\* it wait for the child.
WakeUp(p) ==
  /\ pc' = [pc EXCEPT ![p] = "wait"]
  /\ hurried' = (pos["child"] <= Count)

Usleep ==
  /\ pc["parent"] = "usleep"
  /\ WakeUp("parent")
  /\ UNCHANGED <<segment, linked, sem, pos, rx, terminateSignal, budget, disturbed>>

Spin(p) ==
  /\ pc[p] = "spin"
  /\ terminateSignal[p]
  /\ pc' = [pc EXCEPT ![p] = "unlink_read"]
  /\ UNCHANGED <<segment, linked, sem, pos, rx, terminateSignal, budget, disturbed, hurried>>

\* sem_unlink removes the name if it is there.  The segment stays: shmdt and
\* shmctl do not apply to a POSIX segment.
SemUnlink(p, s, here, next) ==
  /\ pc[p] = here
  /\ linked' = [linked EXCEPT ![s] = FALSE]
  /\ pc' = [pc EXCEPT ![p] = next]
  /\ UNCHANGED <<segment, sem, pos, rx, terminateSignal, budget, disturbed, hurried>>

\* Mutant of Exit: the second name is never unlinked.
ExitKeepingWrite(p) == SemUnlink(p, "shm_read", "unlink_read", "gone")

Exit(p) ==
  \/ SemUnlink(p, "shm_read", "unlink_read", "unlink_write")
  \/ SemUnlink(p, "shm_write", "unlink_write", "gone")

\* SIGINT.  A process blocked in sem_wait gets EINTR (sa_flags is 0) and goes
\* on without the semaphore; usleep ends early.
sigHandler(p) ==
  /\ pc[p] # "gone" /\ budget.signals > 0
  /\ budget' = [budget EXCEPT !.signals = @ - 1]
  /\ terminateSignal' = [terminateSignal EXCEPT ![p] = TRUE]
  /\ \/ /\ pc[p] = "wait" /\ sem[Guard(p)] = 0
        /\ pc' = [pc EXCEPT ![p] = "access"]
        /\ disturbed' = TRUE
        /\ UNCHANGED hurried
     \/ /\ pc[p] = "usleep"
        /\ WakeUp(p)
        /\ UNCHANGED disturbed
     \/ /\ ~(pc[p] = "wait" /\ sem[Guard(p)] = 0) /\ pc[p] # "usleep"
        /\ UNCHANGED <<pc, disturbed, hurried>>
  /\ UNCHANGED <<segment, linked, sem, pos, rx>>

Kill(p) ==
  /\ pc[p] # "gone" /\ budget.kills > 0
  /\ budget' = [budget EXCEPT !.kills = @ - 1]
  /\ pc' = [pc EXCEPT ![p] = "gone"]
  /\ disturbed' = (disturbed \/ Holding(p) = 1)
  /\ UNCHANGED <<segment, linked, sem, pos, rx, terminateSignal, hurried>>

Step(p) ==
  SemWait(p) \/ Write(p) \/ Read(p) \/ SemPost(p) \/ Spin(p) \/ Exit(p)

Next ==
  \/ Start \/ get_shared_memory \/ Fork \/ Usleep
  \/ \E p \in Process : Step(p) \/ sigHandler(p) \/ Kill(p)

Spec == Init /\ [][Next]_vars

\* Both processes are scheduled; nothing forces a signal, a kill or a start.
FairSpec ==
  /\ Spec
  /\ WF_vars(get_shared_memory \/ Fork)
  /\ WF_vars(Usleep)
  /\ \A p \in Process : WF_vars(Step(p))

-----------------------------------------------------------------------------
(* Properties.                                                              *)

\* The type invariant.
TypeOK ==
  /\ segment \in Content
  /\ linked \in [Semaphore -> BOOLEAN]
  /\ sem \in [Semaphore -> Nat]
  /\ pc \in [Process -> Label]
  /\ pos \in [Process -> 1..(2 * Count + 1)]
  /\ rx \in [Process -> Seq(Content)]
  /\ terminateSignal \in [Process -> BOOLEAN]
  /\ budget \in [signals : Nat, kills : Nat, runs : Nat]
  /\ disturbed \in BOOLEAN /\ hurried \in BOOLEAN

\* Before the fork there is no child, and no message was sent.
StartupAlone ==
  pc["parent"] \in {"shm_open", "sem_open_read", "sem_open_write", "fork"}
    => pc["child"] = "gone" /\ \A p \in Process : pos[p] = 1

\* A process at a semaphore has a message left; one asleep is half way.
InLoop ==
  \A p \in Process :
    /\ pc[p] \in {"wait", "access", "post"} => pos[p] <= 2 * Count
    /\ pc[p] = "usleep" => pos[p] = Count + 1

\* The exchange is under way: both processes were forked.
Exchanging == pc["child"] # "gone"

\* As long as no signal broke a wait, no killed process took the token with
\* it and the run began on fresh semaphores, there is exactly one token: in
\* shm_read, in shm_write or with the one process inside (sem_wait and
\* sem_post of sharedMem.c).  So no two processes are inside at once.
TokenConserved ==
  Exchanging /\ ~disturbed =>
    sem["shm_read"] + sem["shm_write"] + Holding("parent") + Holding("child") = 1

\* p has read the other process's messages, in order, none skipped or twice.
InOrder(p) ==
  /\ Len(rx[p]) <= Count
  /\ \A k \in 1..Len(rx[p]) : rx[p][k] = [from |-> Other(p), i |-> k]

\* The child's reads are the parent's messages in the order sent, however short the
\* parent's usleep is; the parent's reads are the child's, provided that its usleep
\* outlasted the child's last read.
ReadsInOrder == ~disturbed => InOrder("child") /\ (~hurried => InOrder("parent"))

\* A process was killed.
Killed == budget.kills < MaxKills

\* As long as nothing was killed, a run begins with the right to write free and the
\* right to read taken, also after runs that signals cut short: the names are unlinked
\* on the way out by both processes and opened with O_CREAT.
StartsFresh ==
  pc["parent"] = "fork" /\ ~Killed => sem = [s \in Semaphore |-> Initial(s)]

\* A program that is started gets all messages across in both directions, unless a
\* signal broke a wait, a process was killed or the sleep was too short.
ExchangeCompletes ==
  pc["parent"] = "shm_open" ~>
    disturbed \/ hurried \/ Killed \/ \A p \in Process : rx[p] = Sent(Other(p))

=============================================================================
