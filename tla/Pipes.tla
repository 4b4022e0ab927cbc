-------------------------------- MODULE Pipes --------------------------------
(***************************************************************************)
(* HW4/Ques2/pipes/pipestest.c: a parent and a child exchange commands of   *)
(* one byte and strings of a fixed size through two named pipes, fifo1 from *)
(* the parent to the child and fifo2 back.  Both open the two pipes, send   *)
(* all they have, and then read.                                            *)
(*                                                                          *)
(* The pipes are external: open waits for the other end, write waits for    *)
(* room and puts its bytes in as one piece, read waits for a byte and       *)
(* returns what there is.  A signal makes a waiting call fail; the code     *)
(* checks no result.                                                        *)
(***************************************************************************)
EXTENDS Naturals, Sequences

CONSTANTS
  Commands, Strings,  \* messages of each kind a process sends (5 and 5)
  STR_MAX_LEN,        \* bytes of a string message (20)
  Capacities,         \* bytes a pipe may hold (65536)
  MaxSignals          \* bound: SIGINTs delivered

ASSUME PipesAssumption ==
  /\ {Commands, Strings, STR_MAX_LEN} \cup Capacities \subseteq Nat \ {0}
  /\ MaxSignals \in Nat

VARIABLES
  capacity,         \* the bytes a pipe holds here
  fd,               \* fd[p][f]: process p's end of pipe f
  pipe,             \* pipe[f]: the bytes in it
  pc,               \* "open1", "open2", "send", "receive", "spin", "gone"
  i,                \* i[p]: the current message of the current loops
  rx,               \* rx[p]: what p has received
  terminateSignal,
  signals,          \* SIGINTs delivered so far
  interrupted,      \* ghost: some call was interrupted
  broken            \* ghost: some call found the other end closed

vars == <<capacity, fd, pipe, pc, i, rx, terminateSignal, signals, interrupted, broken>>

Process == {"parent", "child"}
Fifo == {"fifo1", "fifo2"}
Count == Commands + Strings

Other(p) == IF p = "parent" THEN "child" ELSE "parent"
Out(p) == IF p = "parent" THEN "fifo1" ELSE "fifo2"
In(p) == Out(Other(p))

\* Mutant of Opens: the child opens its pipes in the order of its use of them.
OpensOutFirst(p) == [open1 |-> Out(p), open2 |-> In(p)]

\* Both processes open fifo1 first.
Opens(p) == [open1 |-> "fifo1", open2 |-> "fifo2"]

\* The bytes of the k-th message as its reader expects it.
ReadSize(k) == IF k <= Commands THEN 1 ELSE STR_MAX_LEN

\* Mutant of WriteSize: a string is sent without its padding.
WriteSizeUnpadded(k) == 1

\* The bytes write is asked to send: sizeof of the message's array.
WriteSize(k) == IF k <= Commands THEN 1 ELSE STR_MAX_LEN

\* The first n bytes of the k-th message of p.
Bytes(p, k, n) == [b \in 1..n |-> [from |-> p, msg |-> k, byte |-> b]]

Bad == [from |-> "nobody", msg |-> 0]

\* A buffer of the k-th read holds a message only if it holds all its bytes.
Decoded(bytes, k) ==
  IF \E p \in Process : bytes = Bytes(p, k, ReadSize(k))
  THEN [from |-> bytes[1].from, msg |-> k]
  ELSE Bad

-----------------------------------------------------------------------------
Init ==
  /\ capacity \in Capacities
  /\ fd = [p \in Process |-> [f \in Fifo |-> "none"]]
  /\ pipe = [f \in Fifo |-> <<>>]
  /\ pc = [p \in Process |-> "open1"]
  /\ i = [p \in Process |-> 1]
  /\ rx = [p \in Process |-> <<>>]
  /\ terminateSignal = [p \in Process |-> FALSE]
  /\ signals = 0 /\ interrupted = FALSE /\ broken = FALSE

Present == {"opening", "met", "open"}

\* open: the process shows up at its end, which lets in one that waits there.
OpenBegin(p) ==
  /\ pc[p] \in {"open1", "open2"}
  /\ LET f == Opens(p)[pc[p]]
         o == Other(p)
     IN  /\ fd[p][f] = "none"
         /\ fd' = [fd EXCEPT
              ![p][f] = IF fd[o][f] \in Present THEN "met" ELSE "opening",
              ![o][f] = IF @ = "opening" THEN "met" ELSE @]
  /\ UNCHANGED <<capacity, pipe, pc, i, rx, terminateSignal, signals, interrupted, broken>>

AfterOpen(p) == IF pc[p] = "open1" THEN "open2" ELSE "send"

OpenReturn(p) ==
  /\ pc[p] \in {"open1", "open2"}
  /\ LET f == Opens(p)[pc[p]]
     IN  fd[p][f] = "met" /\ fd' = [fd EXCEPT ![p][f] = "open"]
  /\ pc' = [pc EXCEPT ![p] = AfterOpen(p)]
  /\ UNCHANGED <<capacity, pipe, i, rx, terminateSignal, signals, interrupted, broken>>

\* The loop goes on with the next message, or to the next loop.
Advance(p, here, next) ==
  /\ pc' = [pc EXCEPT ![p] = IF i[p] = Count THEN next ELSE here]
  /\ i' = [i EXCEPT ![p] = IF @ = Count THEN 1 ELSE @ + 1]

HasReader(p) == fd[Other(p)][Out(p)] \in Present
HasWriter(p) == fd[Other(p)][In(p)] \in Present

Write(p) ==
  /\ pc[p] = "send" /\ fd[p][Out(p)] = "open" /\ HasReader(p)
  /\ Len(pipe[Out(p)]) + WriteSize(i[p]) <= capacity
  /\ pipe' = [pipe EXCEPT ![Out(p)] = @ \o Bytes(p, i[p], WriteSize(i[p]))]
  /\ Advance(p, "send", "receive")
  /\ UNCHANGED <<capacity, fd, rx, terminateSignal, signals, interrupted, broken>>

\* write to an end that could not be opened fails and is ignored.
WriteFails(p) ==
  /\ pc[p] = "send" /\ fd[p][Out(p)] # "open"
  /\ Advance(p, "send", "receive")
  /\ UNCHANGED <<capacity, fd, pipe, rx, terminateSignal, signals, interrupted, broken>>

\* write with no reader left: SIGPIPE ends the process.
WriteBroken(p) ==
  /\ pc[p] = "send" /\ fd[p][Out(p)] = "open" /\ ~HasReader(p)
  /\ pc' = [pc EXCEPT ![p] = "gone"]
  /\ fd' = [fd EXCEPT ![p] = [f \in Fifo |-> "closed"]]
  /\ broken' = TRUE
  /\ UNCHANGED <<capacity, pipe, i, rx, terminateSignal, signals, interrupted>>

Smaller(m, n) == IF m < n THEN m ELSE n

\* read returns the bytes that are there, at most those asked for.
Read(p) ==
  /\ pc[p] = "receive" /\ fd[p][In(p)] = "open" /\ pipe[In(p)] # <<>>
  /\ LET q == pipe[In(p)]
         n == Smaller(ReadSize(i[p]), Len(q))
     IN  /\ rx' = [rx EXCEPT ![p] = Append(@, Decoded(SubSeq(q, 1, n), i[p]))]
         /\ pipe' = [pipe EXCEPT ![In(p)] = SubSeq(q, n + 1, Len(q))]
  /\ Advance(p, "receive", "spin")
  /\ UNCHANGED <<capacity, fd, terminateSignal, signals, interrupted, broken>>

\* read fails, or meets the end of file: the old buffer is logged again.
ReadFails(p) ==
  /\ pc[p] = "receive"
  /\ \/ fd[p][In(p)] # "open" /\ UNCHANGED broken
     \/ /\ fd[p][In(p)] = "open" /\ pipe[In(p)] = <<>> /\ ~HasWriter(p)
        /\ broken' = TRUE
  /\ rx' = [rx EXCEPT ![p] = Append(@, Bad)]
  /\ Advance(p, "receive", "spin")
  /\ UNCHANGED <<capacity, fd, pipe, terminateSignal, signals, interrupted>>

\* Mutant of Exit: the process does not wait for the termination signal.
ExitAtOnce(p) ==
  /\ pc[p] \in {"receive", "spin"}
  /\ pc' = [pc EXCEPT ![p] = "gone"]
  /\ fd' = [fd EXCEPT ![p] = [f \in Fifo |-> "closed"]]
  /\ UNCHANGED <<capacity, pipe, i, rx, terminateSignal, signals, interrupted, broken>>

\* while(!terminateSignal); then both ends are closed.
Exit(p) ==
  /\ pc[p] = "spin" /\ terminateSignal[p]
  /\ pc' = [pc EXCEPT ![p] = "gone"]
  /\ fd' = [fd EXCEPT ![p] = [f \in Fifo |-> "closed"]]
  /\ UNCHANGED <<capacity, pipe, i, rx, terminateSignal, signals, interrupted, broken>>

\* A call of p waits in the kernel.
WaitsInOpen(p) ==
  pc[p] \in {"open1", "open2"} /\ fd[p][Opens(p)[pc[p]]] = "opening"
WaitsInWrite(p) ==
  /\ pc[p] = "send" /\ fd[p][Out(p)] = "open" /\ HasReader(p)
  /\ Len(pipe[Out(p)]) + WriteSize(i[p]) > capacity
WaitsInRead(p) ==
  /\ pc[p] = "receive" /\ fd[p][In(p)] = "open"
  /\ pipe[In(p)] = <<>> /\ HasWriter(p)

\* SIGINT: the handler sets the flag, and a waiting call returns with EINTR
\* (sa_flags is 0).
sigHandler(p) ==
  /\ pc[p] # "gone" /\ signals < MaxSignals
  /\ signals' = signals + 1
  /\ terminateSignal' = [terminateSignal EXCEPT ![p] = TRUE]
  /\ interrupted' = (interrupted \/ WaitsInOpen(p) \/ WaitsInWrite(p) \/ WaitsInRead(p))
  /\ \/ /\ WaitsInOpen(p)
        /\ fd' = [fd EXCEPT ![p][Opens(p)[pc[p]]] = "failed"]
        /\ pc' = [pc EXCEPT ![p] = AfterOpen(p)]
        /\ UNCHANGED <<i, rx>>
     \/ WaitsInWrite(p) /\ Advance(p, "send", "receive") /\ UNCHANGED <<fd, rx>>
     \/ /\ WaitsInRead(p) /\ Advance(p, "receive", "spin")
        /\ rx' = [rx EXCEPT ![p] = Append(@, Bad)]
        /\ UNCHANGED fd
     \/ /\ ~(WaitsInOpen(p) \/ WaitsInWrite(p) \/ WaitsInRead(p))
        /\ UNCHANGED <<fd, pc, i, rx>>
  /\ UNCHANGED <<capacity, pipe, broken>>

Step(p) ==
  \/ OpenBegin(p) \/ OpenReturn(p) \/ Write(p) \/ WriteFails(p) \/ WriteBroken(p)
  \/ Read(p) \/ ReadFails(p) \/ Exit(p)

Next == \E p \in Process : Step(p) \/ sigHandler(p)

Spec == Init /\ [][Next]_vars

\* Both processes are scheduled; signals need not come.
FairSpec == Spec /\ \A p \in Process : WF_vars(Step(p))

-----------------------------------------------------------------------------
\* Without an interrupted call each process receives the other's messages in
\* order and whole, although read may return fewer bytes than asked for and
\* nothing marks where a message ends.
ReceivedInOrder ==
  ~interrupted =>
    \A p \in Process : \A k \in 1..Len(rx[p]) : rx[p][k] = [from |-> Other(p), msg |-> k]

\* A process that leaves never cuts the other one off: without an interrupted
\* call none meets an end of file or SIGPIPE, whenever SIGINT reaches whom.
ClosingIsSafe == broken => interrupted

\* A pipe holds all that one process sends before it reads.
Fits == Commands + Strings * STR_MAX_LEN <= capacity

\* Neither the opening of the two pipes nor the exchange blocks for ever, as long as
\* the pipes are large enough and no signal interrupts a call.
ExchangeCompletes ==
  Fits => <>(interrupted \/ \A p \in Process : Len(rx[p]) = Count)
==============================================================================
