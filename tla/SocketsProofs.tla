---------------------------- MODULE SocketsProofs ----------------------------
(***************************************************************************)
(* Proofs about Sockets, for any clients, any numbers of commands and       *)
(* strings, and any signals and kills.                                      *)
(*                                                                          *)
(* OnlyFailedReadsRepeat: what a process has logged is older than what is   *)
(* still under way to it, and that is older than what the sender sends next  *)
(* (OrderInv, SenderInv), so a read that gets a packet logs a new one.  What *)
(* result and buffer hold when a read fails is the youngest line of the log  *)
(* (HeldInv).  That the server begins with its first message only once for a *)
(* client, and does not take an old result for one of its commands, needs    *)
(* that a client is in the backlog once, and never again after it was        *)
(* accepted (BacklogInv); that no read fails after the server has closed the *)
(* connection in order, that END is the last packet on it (ClosedInv).       *)
(*                                                                          *)
(* InOrder: while nothing disturbs them a connected client waits, is heard, *)
(* is answered or was served, and each of these stages fixes what has been  *)
(* sent, what is under way and what is logged (StageInv).                   *)
(***************************************************************************)
EXTENDS Sockets, TLAPS

Message == {Packet(k) : k \in 1..(Count + 1)}
Logged == Message \cup {Bad}

Types ==
  /\ backlog \in Seq(Clients)
  /\ link \in [Clients -> {"none", "up", "closed"}]
  /\ toServer \in [Clients -> Seq(Message)]
  /\ toClient \in [Clients -> Seq(Message)]
  /\ srx \in [Clients -> Seq(Logged)]
  /\ crx \in [Clients -> Seq(Logged)]
  /\ spc \in {"start", "accept", "receive", "send", "dead"}
  /\ si \in 1..(Count + 1)
  /\ data_socket \in Clients \cup {NoSocket}
  /\ sresult \in [from : Clients \cup {NoSocket}, pkt : Logged] /\ sbuffer \in Logged
  /\ cresult \in [Clients -> Logged] /\ cbuffer \in [Clients -> Logged]
  /\ cpc \in [Clients -> {"start", "send", "receive", "spin", "gone"}]
  /\ ci \in [Clients -> 1..(Count + 1)]

\* The messages of s are in the order they were sent.
Ordered(s) ==
  \A j, k \in 1..Len(s) : j < k /\ s[j] # Bad /\ s[k] # Bad => s[j].k < s[k].k

\* What is under way is in order, and what is logged is older.
Ahead(log, wire) ==
  /\ Ordered(wire)
  /\ \A j \in 1..Len(log), k \in 1..Len(wire) : log[j] # Bad => log[j].k < wire[k].k

\* All messages of s are older than the n-th.
Below(s, n) == \A j \in 1..Len(s) : s[j] # Bad => s[j].k < n

OrderInv == \A c \in Clients : Ahead(srx[c], toServer[c]) /\ Ahead(crx[c], toClient[c])

\* Nothing of the server has reached c or is on its way.
Unserved(c) == toClient[c] = <<>> /\ Below(crx[c], 1)

\* What a sender sends next is younger than all it has sent.
SenderInv ==
  /\ \A c \in Clients : cpc[c] \in {"start", "send"} =>
       Below(srx[c], ci[c]) /\ Below(toServer[c], ci[c])
  /\ spc = "receive" /\ data_socket # NoSocket => Unserved(data_socket)
  /\ spc = "send" /\ data_socket # NoSocket =>
       Below(crx[data_socket], si) /\ Below(toClient[data_socket], si)

\* A client that waits in the backlog does so once, and for the first time.
BacklogInv ==
  /\ \A j \in 1..Len(backlog) :
       /\ Unserved(backlog[j]) /\ cpc[backlog[j]] # "start"
       /\ backlog[j] # data_socket /\ backlog[j] # sresult.from
       /\ \A k \in 1..Len(backlog) : backlog[j] = backlog[k] => j = k
  /\ \A c \in Clients : cpc[c] = "start" => Unserved(c) /\ data_socket # c /\ sresult.from # c

IInv == Types /\ OrderInv /\ SenderInv /\ BacklogInv

\* What a read that fails now would log is no message, or the youngest of the log, or
\* there is no room for a line.
Stale(log, held) ==
  \/ held = Bad
  \/ Len(log) >= MaxLines
  \/ /\ \E i \in 1..Len(log) : log[i] = held
     /\ \A j \in 1..Len(log) : log[j].k <= held.k

\* What result and buffer hold while their reads are due.
ServerHeld ==
  /\ spc = "receive" /\ data_socket # NoSocket =>
       /\ si <= Commands /\ sresult.from = data_socket => Stale(srx[data_socket], sresult.pkt)
       /\ si > Commands => sbuffer = End \/ Stale(srx[data_socket], sbuffer)
  /\ spc = "receive" /\ (data_socket = NoSocket \/ si <= Commands) => sbuffer \in {Bad, End}
  /\ spc \in {"start", "accept", "send"} => sbuffer \in {Bad, End}

ClientHeld(c) ==
  /\ cpc[c] \in {"start", "send"} => cresult[c] = Bad
  /\ cpc[c] = "receive" /\ ci[c] <= Commands =>
       cbuffer[c] = End /\ Stale(crx[c], cresult[c])
  /\ cpc[c] = "receive" /\ ci[c] > Commands => cbuffer[c] = End \/ Stale(crx[c], cbuffer[c])

HeldInv == ServerHeld /\ \A c \in Clients : ClientHeld(c)

\* c has taken a turn for each of n packets that is no longer under way.
Pending(c, n) ==
  /\ cpc[c] = "send" => Len(toClient[c]) >= n
  /\ cpc[c] = "receive" => ci[c] = Count + 1 \/ ci[c] + Len(toClient[c]) >= n + 1

\* c finds END at the end of its connection, and not in one of the turns that read a byte.
Ended(c) ==
  /\ cpc[c] # "start" /\ Pending(c, Count + 1)
  /\ cpc[c] \in {"send", "receive"} =>
       toClient[c] # <<>> /\ toClient[c][Len(toClient[c])] = End

ClosedInv ==
  /\ \A j \in 1..Len(backlog) : link[backlog[j]] = "up"
  /\ spc \in {"receive", "send"} /\ data_socket # NoSocket => link[data_socket] = "up"
  /\ spc = "send" /\ data_socket # NoSocket => Pending(data_socket, si - 1)
  /\ \A c \in Clients : link[c] = "closed" => Ended(c)

-----------------------------------------------------------------------------
\* Packets p + 1, p + 2, ... in s.
From(s, p) == \A k \in 1..Len(s) : s[k] = Packet(p + k)

\* Client c has sent n packets, none of which is lost.
Heard(c, n) ==
  /\ Len(srx[c]) <= Count /\ From(srx[c], 0) /\ From(toServer[c], Len(srx[c]))
  /\ Len(srx[c]) + Len(toServer[c]) = n

\* The server has sent n packets to c, which reads them in its receive loop.
Answered(c, n) ==
  /\ cpc[c] = "receive" /\ ci[c] = Len(crx[c]) + 1
  /\ From(crx[c], 0) /\ From(toClient[c], Len(crx[c]))
  /\ Len(crx[c]) + Len(toClient[c]) = n

\* c sends, or waits for the first answer.
Sends(c) ==
  /\ link[c] = "up" /\ toClient[c] = <<>> /\ crx[c] = <<>>
  /\ \/ cpc[c] = "send" /\ Heard(c, ci[c] - 1)
     \/ cpc[c] = "receive" /\ ci[c] = 1 /\ Heard(c, Count + 1)

Waiting(c) == Sends(c) /\ srx[c] = <<>> /\ \E j \in 1..Len(backlog) : backlog[j] = c

Receiving(c) == Sends(c) /\ data_socket = c /\ spc = "receive" /\ si = Len(srx[c]) + 1

AllHeard(c) == toServer[c] = <<>> /\ From(srx[c], 0)

Sending(c) ==
  link[c] = "up" /\ AllHeard(c) /\ data_socket = c /\ spc = "send" /\ Answered(c, si - 1)

Served(c) ==
  /\ link[c] = "closed" /\ AllHeard(c)
  /\ \/ Answered(c, Count + 1)
     \/ cpc[c] = "spin" /\ From(crx[c], 0) /\ toClient[c] = <<>>

\* c has done nothing yet.
Fresh(c) ==
  /\ link[c] = "none" /\ ci[c] = 1
  /\ toServer[c] = <<>> /\ toClient[c] = <<>> /\ srx[c] = <<>> /\ crx[c] = <<>>

Stage(c) == Waiting(c) \/ Receiving(c) \/ Sending(c) \/ Served(c)

\* Nothing is said of clients that could not connect: they only talk to themselves.
Calm ==
  /\ data_socket = NoSocket <=> spc \in {"start", "accept"}
  /\ data_socket # NoSocket => link[data_socket] = "up"
  /\ \A j \in 1..Len(backlog) : link[backlog[j]] = "up"
  /\ \A c \in Clients :
       /\ ~terminateSignal[c] /\ cpc[c] # "gone" /\ (cpc[c] = "start" => Fresh(c))
       /\ link[c] # "none" => Stage(c)

StageInv == Undisturbed => Calm

BudgetInv ==
  /\ budget \in [signals : Nat, kills : Nat]
  /\ budget.signals <= MaxSignals /\ budget.kills <= MaxKills

-----------------------------------------------------------------------------
(* Lemmas on packets and sequences of them.                                 *)

\* There are commands and strings, and room for all of them in a log.
LEMMA CountType ==
  /\ Count \in Nat /\ Commands \in Nat /\ Commands >= 1 /\ Commands < Count
  /\ MaxLines \in Nat /\ Count <= MaxLines
BY SocketsAssumption DEF Count, MaxLines

\* A packet has the number it was sent with; the outcome of a failed read has none.
LEMMA PacketFacts ==
  ASSUME NEW n \in 1..(Count + 1)
  PROVE  Packet(n) \in Message /\ Packet(n).k = n /\ Packet(n) # Bad
<1>1. Packet(n).k = n /\ Bad.k = 0
  BY DEF Packet, Bad
<1> QED BY <1>1, CountType DEF Message

LEMMA MessageFacts ==
  ASSUME NEW m \in Message
  PROVE  m.k \in 1..(Count + 1) /\ m # Bad /\ m \in Logged
<1> PICK n \in 1..(Count + 1) : m = Packet(n)
  BY DEF Message
<1> QED BY PacketFacts DEF Logged

LEMMA LoggedFacts ==
  ASSUME NEW m \in Logged
  PROVE  /\ m # Bad => m \in Message /\ m.k \in 1..(Count + 1)
         /\ m = Bad => m.k = 0
         /\ m.k \in Nat
<1>1. m # Bad => m \in Message /\ m.k \in 1..(Count + 1)
  BY MessageFacts DEF Logged
<1>2. m = Bad => m.k = 0
  BY DEF Bad
<1> QED BY <1>1, <1>2, CountType

LEMMA EndFacts == End \in Message /\ End \in Logged /\ End # Bad /\ Bad \in Logged
BY PacketFacts, CountType DEF End, Logged

\* What a read that fails does to the log: nothing, garbage, or its youngest line again.
Again(log, log2) ==
  \/ log2 = log \/ log2 = Append(log, Bad)
  \/ \E i \in 1..Len(log) : /\ log2 = Append(log, log[i])
                            /\ \A j \in 1..Len(log) : log[j].k <= log[i].k

\* One step of a reader: a read that fails, after which the wire may be cleared, or a
\* packet that is taken from the wire and logged, logged as Bad or not logged at all.
Reads(log, wire, log2, wire2) ==
  \/ Again(log, log2) /\ wire2 \in {wire, <<>>}
  \/ /\ wire # <<>> /\ wire2 = Tail(wire)
     /\ log2 \in {log, Append(log, Head(wire)), Append(log, Bad)}

\* Append and Tail, index by index.
LEMMA AppendFacts ==
  ASSUME NEW S, NEW s \in Seq(S), NEW x \in S
  PROVE  /\ Append(s, x) \in Seq(S) /\ Len(s) \in Nat /\ Len(Append(s, x)) = Len(s) + 1
         /\ Append(s, x)[Len(s) + 1] = x
         /\ \A j \in 1..Len(s) : Append(s, x)[j] = s[j]
OBVIOUS

LEMMA TailFacts ==
  ASSUME NEW S, NEW s \in Seq(S), s # <<>>
  PROVE  /\ Tail(s) \in Seq(S) /\ Len(s) \in Nat /\ Len(s) >= 1 /\ Len(Tail(s)) = Len(s) - 1
         /\ Head(s) = s[1] /\ s[1] \in S
         /\ \A j \in 1..Len(Tail(s)) : Tail(s)[j] = s[j + 1] /\ j + 1 \in 1..Len(s)
OBVIOUS

LEMMA EmptyByLength ==
  ASSUME NEW S, NEW s \in Seq(S), Len(s) = 0
  PROVE  s = <<>>
OBVIOUS

\* A line that stays in a log.
LEMMA WithLineFacts ==
  ASSUME NEW log \in Seq(Logged), NEW line \in Logged
  PROVE  /\ WithLine(log, line) \in {log, Append(log, line)}
         /\ WithLine(log, line) \in Seq(Logged)
         /\ Len(log) < MaxLines => WithLine(log, line) = Append(log, line)
BY DEF WithLine

\* What a read that fails logs.
LEMMA StaleAgain ==
  ASSUME NEW log \in Seq(Logged), NEW held \in Logged, Stale(log, held)
  PROVE  Again(log, WithLine(log, held))
<1>1. CASE Len(log) < MaxLines
  <2>1. WithLine(log, held) = Append(log, held)
    BY <1>1 DEF WithLine
  <2>2. CASE held = Bad
    BY <2>1, <2>2 DEF Again
  <2>3. CASE /\ \E i \in 1..Len(log) : log[i] = held
             /\ \A j \in 1..Len(log) : log[j].k <= held.k
    BY <2>1, <2>3 DEF Again
  <2>4. ~(Len(log) >= MaxLines)
    <3>1. Len(log) \in Nat /\ MaxLines \in Nat
      BY CountType
    <3> QED BY ONLY <1>1, <3>1
  <2> QED BY <2>2, <2>3, <2>4 DEF Stale
<1>2. CASE ~(Len(log) < MaxLines)
  BY <1>2 DEF WithLine, Again
<1> QED BY <1>1, <1>2

\* What was logged at last is what a read that fails would log.
LEMMA StaleAfter ==
  ASSUME NEW log \in Seq(Logged), NEW held \in Logged,
         Stale(log, held) \/ \A j \in 1..Len(log) : log[j].k < held.k
  PROVE  Stale(WithLine(log, held), held)
<1>0. Len(log) \in Nat /\ MaxLines \in Nat /\ held.k \in Nat
  BY LoggedFacts, CountType
<1>1. CASE Len(log) < MaxLines
  <2>1. WithLine(log, held) = Append(log, held)
    BY <1>1 DEF WithLine
  <2>2. /\ Len(Append(log, held)) = Len(log) + 1
        /\ Append(log, held)[Len(log) + 1] = held
        /\ \A j \in 1..Len(log) : Append(log, held)[j] = log[j]
    BY AppendFacts
  <2>3. ~(Len(log) >= MaxLines)
    BY ONLY <1>0, <1>1
  <2>4. \A j \in 1..Len(log) : log[j] \in Logged /\ log[j].k \in Nat
    BY LoggedFacts
  <2>5. held = Bad \/ \A j \in 1..Len(log) : log[j].k <= held.k
    BY <1>0, <2>3, <2>4 DEF Stale
  <2>6. ASSUME held # Bad, NEW j \in 1..(Len(log) + 1) PROVE Append(log, held)[j].k <= held.k
    <3>1. CASE j \in 1..Len(log)
      BY <2>2, <2>5, <2>6, <3>1
    <3>2. CASE j = Len(log) + 1
      BY <1>0, <2>2, <3>2
    <3> QED BY <1>0, <3>1, <3>2
  <2>7. Len(log) + 1 \in 1..(Len(log) + 1)
    BY <1>0
  <2> QED BY <2>1, <2>2, <2>6, <2>7 DEF Stale
<1>2. CASE ~(Len(log) < MaxLines)
  BY <1>0, <1>2 DEF WithLine, Stale
<1> QED BY <1>1, <1>2

\* Appending to a log, and taking from the wire, keeps a bound.
LEMMA AppendBelow ==
  ASSUME NEW s \in Seq(Logged), NEW x \in Logged, NEW n \in Nat
  PROVE  Below(Append(s, x), n) <=> Below(s, n) /\ (x = Bad \/ x.k < n)
BY AppendFacts DEF Below

LEMMA TailBelow ==
  ASSUME NEW s \in Seq(Message), s # <<>>, NEW n \in Nat, Below(s, n)
  PROVE  Below(Tail(s), n) /\ Head(s).k < n
<1>1. Head(s) # Bad
  BY TailFacts, MessageFacts
<1> QED BY <1>1, TailFacts DEF Below

\* What is in the two sequences after a step of a reader was in the wire or the log
\* before, so it is no younger.
LEMMA AgainBelow ==
  ASSUME NEW log \in Seq(Logged), NEW log2, Again(log, log2), NEW n \in Nat, Below(log, n)
  PROVE  Below(log2, n)
<1>1. Bad \in Logged /\ \A i \in 1..Len(log) : log[i] \in Logged
  BY DEF Logged
<1>2. \A x \in Logged : x = Bad \/ x.k < n => Below(Append(log, x), n)
  BY AppendBelow
<1>3. \A i \in 1..Len(log) : log[i] = Bad \/ log[i].k < n
  BY DEF Below
<1> QED BY <1>1, <1>2, <1>3 DEF Again

LEMMA ReadBelow ==
  ASSUME NEW log \in Seq(Logged), NEW wire \in Seq(Message), NEW log2, NEW wire2,
         Reads(log, wire, log2, wire2), NEW n \in Nat, Below(log, n), Below(wire, n)
  PROVE  Below(log2, n) /\ Below(wire2, n)
<1>1. Bad \in Logged /\ (wire # <<>> => Head(wire) \in Logged)
  BY TailFacts DEF Logged
<1>2. wire # <<>> => Below(Tail(wire), n) /\ Head(wire).k < n
  BY TailBelow
<1>3. \A x \in Logged : x = Bad \/ x.k < n => Below(Append(log, x), n)
  BY AppendBelow
<1>4. Again(log, log2) => Below(log2, n)
  BY AgainBelow
<1>5. Below(<<>>, n)
  BY DEF Below
<1> QED BY <1>1, <1>2, <1>3, <1>4, <1>5 DEF Reads

\* What is logged stays older than what is under way.
LEMMA ReadAhead ==
  ASSUME NEW log \in Seq(Logged), NEW wire \in Seq(Message), NEW log2, NEW wire2,
         Reads(log, wire, log2, wire2), Ahead(log, wire)
  PROVE  Ahead(log2, wire2)
<1>1. \A k \in 1..Len(wire) : wire[k] \in Message /\ wire[k] # Bad /\ wire[k].k \in Nat
  BY MessageFacts, CountType
<1>2. \A k \in 1..Len(wire) : Below(log, wire[k].k)
  BY DEF Ahead, Below
<1>3. ASSUME Again(log, log2), NEW k \in 1..Len(wire) PROVE Below(log2, wire[k].k)
  BY <1>1, <1>2, <1>3, AgainBelow
<1>4. CASE Again(log, log2) /\ wire2 = wire
  BY <1>3, <1>4 DEF Ahead, Below
<1>5. CASE wire2 = <<>>
  BY <1>5 DEF Ahead, Ordered
<1>6. ASSUME wire # <<>>, wire2 = Tail(wire),
             log2 \in {log, Append(log, Head(wire)), Append(log, Bad)}
      PROVE  Ahead(log2, wire2)
  <2>1. /\ Len(wire) \in Nat /\ Len(wire) >= 1 /\ Len(wire2) = Len(wire) - 1
        /\ Head(wire) = wire[1] /\ 1 \in 1..Len(wire)
        /\ \A j \in 1..Len(wire2) : wire2[j] = wire[j + 1] /\ j + 1 \in 1..Len(wire)
    BY <1>6, TailFacts
  <2>2. Ordered(wire2)
    <3>1. ASSUME NEW j \in 1..Len(wire2), NEW k \in 1..Len(wire2), j < k
          PROVE  wire2[j].k < wire2[k].k
      <4>1. j + 1 < k + 1
        BY <2>1, <3>1
      <4> QED BY <1>1, <2>1, <4>1 DEF Ahead, Ordered
    <3> QED BY <3>1 DEF Ordered
  <2>3. ASSUME NEW k \in 1..Len(wire2) PROVE Below(log2, wire2[k].k)
    <3>1. k + 1 \in 1..Len(wire) /\ wire2[k] = wire[k + 1] /\ 1 < k + 1
      BY <2>1
    <3>2. Head(wire).k < wire2[k].k
      BY <1>1, <2>1, <3>1 DEF Ahead, Ordered
    <3>3. Below(log, wire2[k].k) /\ wire2[k].k \in Nat
      BY <1>1, <1>2, <3>1
    <3>4. Head(wire) \in Logged /\ Bad \in Logged
      BY <1>1, <2>1 DEF Logged
    <3>5. /\ Below(Append(log, Head(wire)), wire2[k].k)
          /\ Below(Append(log, Bad), wire2[k].k)
      BY ONLY <3>2, <3>3, <3>4, AppendBelow
    <3> QED BY <1>6, <3>3, <3>5
  <2> QED BY <2>2, <2>3 DEF Ahead, Below
<1> QED BY <1>4, <1>5, <1>6 DEF Reads

\* A sender appends a packet that is younger than all before.
LEMMA SendAhead ==
  ASSUME NEW log \in Seq(Logged), NEW wire \in Seq(Message), Ahead(log, wire),
         NEW n \in 1..(Count + 1), Below(log, n), Below(wire, n)
  PROVE  /\ Append(wire, Packet(n)) \in Seq(Message)
         /\ Ahead(log, Append(wire, Packet(n)))
         /\ Below(log, n + 1) /\ Below(Append(wire, Packet(n)), n + 1)
<1>1. Packet(n) \in Message /\ Packet(n).k = n /\ Packet(n) # Bad
  BY PacketFacts
<1>2. \A j \in 1..Len(log) : log[j] # Bad => log[j].k \in Nat
  BY LoggedFacts, CountType
<1>3. \A j \in 1..Len(wire) : wire[j] # Bad /\ wire[j].k \in Nat
  BY MessageFacts, CountType
<1>4. Below(log, n + 1)
  BY <1>2 DEF Below
<1>5. Below(Append(wire, Packet(n)), n + 1)
  BY <1>1, <1>3, AppendFacts DEF Below
<1>6. Ordered(Append(wire, Packet(n)))
  <2> DEFINE wire2 == Append(wire, Packet(n))
  <2>1. /\ Len(wire) \in Nat /\ Len(wire2) = Len(wire) + 1 /\ wire2[Len(wire) + 1] = Packet(n)
        /\ \A j \in 1..Len(wire) : wire2[j] = wire[j]
    BY <1>1, AppendFacts
  <2> HIDE DEF wire2
  <2>2. ASSUME NEW j \in 1..Len(wire2), NEW k \in 1..Len(wire2), j < k
        PROVE  wire2[j].k < wire2[k].k
    <3>1. j \in 1..Len(wire)
      BY <2>1, <2>2
    <3>2. CASE k \in 1..Len(wire)
      BY <1>3, <2>1, <2>2, <3>1, <3>2 DEF Ahead, Ordered
    <3>3. CASE k = Len(wire) + 1
      BY <1>1, <1>3, <2>1, <3>1, <3>3 DEF Below
    <3> QED BY <2>1, <3>2, <3>3
  <2> QED BY <2>2 DEF Ordered, wire2
<1>7. \A j \in 1..Len(log), k \in 1..Len(Append(wire, Packet(n))) :
        log[j] # Bad => log[j].k < Append(wire, Packet(n))[k].k
  BY <1>1, AppendFacts DEF Ahead, Below
<1> QED BY <1>1, <1>4, <1>5, <1>6, <1>7, AppendFacts DEF Ahead

-----------------------------------------------------------------------------
(* The effect of the read loops, and of steps that only read.               *)

\* A read yields the packet or Bad.
LEMMA ReadAsFacts == \A pkt, k : ReadAs(pkt, k) \in {pkt, Bad}
BY DEF ReadAs

\* What a read in its turn makes of the packet it expects.
LEMMA TurnFacts ==
  ASSUME NEW n \in 1..(Count + 1)
  PROVE  /\ ReadAs(Packet(n), n) = Packet(n)
         /\ n <= Count => Packet(n) # End
         /\ n = Count + 1 => n > Commands /\ Packet(n) = End
<1>0. /\ Packet(n).kind = (CASE n <= Commands -> "command"
                            [] n > Commands /\ n <= Count -> "string"
                            [] OTHER -> "END")
  BY DEF Packet
<1>1. n <= Commands <=> Packet(n).kind = "command"
  BY <1>0, CountType
<1>2. ReadAs(Packet(n), n) = Packet(n)
  BY <1>1 DEF ReadAs
<1>3. n <= Count => Packet(n) # End
  <2>1. Count + 1 \in 1..(Count + 1) /\ Count \in Nat
    BY CountType
  <2>2. Packet(n).k = n /\ End.k = Count + 1
    BY <2>1, PacketFacts DEF End
  <2> QED BY <2>1, <2>2
<1> QED BY <1>2, <1>3, CountType DEF End

\* The types of result and buffer.
Results == [from : Clients \cup {NoSocket}, pkt : Logged]

\* The line that a turn of the server's loop logs.
ServerLine(result, buffer) == IF si <= Commands THEN Of(data_socket, result) ELSE buffer

\* A turn of the server's loop logs at most its line, for the client it serves.
LEMMA ServerTurnEffect ==
  ASSUME Types, NEW result \in Results, NEW buffer \in Logged, ServerTurn(result, buffer)
  PROVE  /\ srx' \in [Clients -> Seq(Logged)]
         /\ \A c \in Clients :
              \/ srx'[c] = srx[c]
              \/ /\ c = data_socket /\ ~(si > Commands /\ buffer = End)
                 /\ srx'[c] = WithLine(srx[c], ServerLine(result, buffer))
         /\ si' \in 1..(Count + 1)
         /\ sresult' = result /\ sbuffer' = buffer
         /\ spc' \in {"receive", "send", "dead"}
         /\ spc' = "send" => si' = 1 /\ buffer = End
         /\ spc' = "receive" =>
              /\ ~(si > Commands /\ buffer = End)
              /\ si' = IF si <= Count THEN si + 1 ELSE si
              /\ data_socket \in Clients =>
                   srx'[data_socket] = WithLine(srx[data_socket], ServerLine(result, buffer))
<1>0. /\ sresult' = result /\ sbuffer' = buffer /\ ServerLine(result, buffer) \in Logged
      /\ \A c \in Clients : c # NoSocket
  <2>1. Of(data_socket, result) \in Logged
    BY EndFacts DEF Of, Results
  <2> QED BY <2>1, SocketsAssumption DEF ServerTurn, ServerLine
<1>1. si' \in 1..(Count + 1)
  BY CountType DEF Types, ServerTurn
<1>2. CASE si > Commands /\ buffer = End /\ spc' = "send" /\ si' = 1 /\ UNCHANGED srx
  BY <1>0, <1>1, <1>2 DEF Types
<1>3. CASE /\ ~(si > Commands /\ buffer = End)
           /\ Log("receive")
           /\ si' = IF si <= Count THEN si + 1 ELSE si
           /\ srx' = IF data_socket = NoSocket THEN srx
                     ELSE [srx EXCEPT ![data_socket] =
                             WithLine(@, IF si <= Commands THEN Of(data_socket, result)
                                         ELSE buffer)]
  <2>1. spc' \in {"receive", "dead"}
    BY <1>3 DEF Log
  <2>2. CASE data_socket = NoSocket
    BY <1>0, <1>1, <1>3, <2>1, <2>2 DEF Types
  <2>3. CASE data_socket # NoSocket
    <3>1. data_socket \in Clients /\ srx \in [Clients -> Seq(Logged)]
      BY <2>3 DEF Types
    <3>2. srx' = [srx EXCEPT ![data_socket] = WithLine(@, ServerLine(result, buffer))]
      BY <1>3, <2>3 DEF ServerLine
    <3>3. WithLine(srx[data_socket], ServerLine(result, buffer)) \in Seq(Logged)
      BY <1>0, <3>1, WithLineFacts
    <3> QED BY <1>0, <1>1, <1>3, <2>1, <3>1, <3>2, <3>3
  <2> QED BY <2>2, <2>3
<1> QED BY <1>2, <1>3 DEF ServerTurn

\* A turn with a packet logs what the read makes of it.
LEMMA ServerTakeEffect ==
  ASSUME Types, data_socket \in Clients, NEW pkt \in Message, ServerTake(pkt)
  PROVE  \E result \in Results, buffer \in Logged :
           /\ ServerTurn(result, buffer) /\ ServerLine(result, buffer) = ReadAs(pkt, si)
           /\ si <= Commands => /\ result = [from |-> data_socket, pkt |-> ReadAs(pkt, si)]
                                /\ buffer = sbuffer
           /\ si > Commands => result = sresult /\ buffer = ReadAs(pkt, si)
<1>1. ReadAs(pkt, si) \in Logged
  BY MessageFacts, EndFacts, ReadAsFacts
<1>2. si \in Nat /\ Commands \in Nat /\ ~(si <= Commands /\ si > Commands)
  BY CountType DEF Types
<1>3. sresult \in Results /\ sbuffer \in Logged
  BY DEF Types, Results
<1>4. CASE si <= Commands
  <2> DEFINE result == [from |-> data_socket, pkt |-> ReadAs(pkt, si)]
  <2>1. ServerTurn(result, sbuffer) /\ result \in Results
    BY <1>1, <1>2, <1>4 DEF ServerTake, Results
  <2>2. ServerLine(result, sbuffer) = ReadAs(pkt, si)
    BY <1>4 DEF ServerLine, Of
  <2> QED BY <1>2, <1>3, <1>4, <2>1, <2>2
<1>5. CASE si > Commands
  <2>1. ServerTurn(sresult, ReadAs(pkt, si)) /\ ServerLine(sresult, ReadAs(pkt, si)) = ReadAs(pkt, si)
    BY <1>2, <1>5 DEF ServerTake, ServerLine
  <2> QED BY <1>1, <1>2, <1>3, <1>5, <2>1
<1> QED BY <1>4, <1>5 DEF ServerTake

\* The line that a turn of a client's loop logs.
ClientLine(c, result, buffer) == IF ci[c] <= Commands THEN result ELSE buffer

\* A turn of a client's loop logs at most its line, and changes no other client.
LEMMA ClientTurnEffect ==
  ASSUME Types, NEW c \in Clients, NEW result \in Logged, NEW buffer \in Logged,
         ClientTurn(c, result, buffer)
  PROVE  /\ crx' \in [Clients -> Seq(Logged)]
         /\ ci' \in [Clients -> 1..(Count + 1)]
         /\ cpc' \in [Clients -> {"start", "send", "receive", "spin", "gone"}]
         /\ cresult' \in [Clients -> Logged] /\ cbuffer' \in [Clients -> Logged]
         /\ cresult'[c] = result /\ cbuffer'[c] = buffer
         /\ \/ /\ ci[c] > Commands /\ buffer = End
               /\ cpc'[c] = "spin" /\ ci'[c] = ci[c] /\ crx'[c] = crx[c]
            \/ /\ ~(ci[c] > Commands /\ buffer = End)
               /\ cpc'[c] = cpc[c] /\ ci'[c] = (IF ci[c] <= Count THEN ci[c] + 1 ELSE ci[c])
               /\ crx'[c] = WithLine(crx[c], ClientLine(c, result, buffer))
         /\ \A d \in Clients \ {c} : /\ crx'[d] = crx[d] /\ ci'[d] = ci[d] /\ cpc'[d] = cpc[d]
                                     /\ cresult'[d] = cresult[d] /\ cbuffer'[d] = cbuffer[d]
<1>1. /\ crx[c] \in Seq(Logged) /\ ClientLine(c, result, buffer) \in Logged
      /\ WithLine(crx[c], ClientLine(c, result, buffer)) \in Seq(Logged)
  <2>1. crx[c] \in Seq(Logged) /\ ClientLine(c, result, buffer) \in Logged
    BY DEF Types, ClientLine
  <2> QED BY <2>1, WithLineFacts
<1>2. ci[c] <= Count => ci[c] + 1 \in 1..(Count + 1)
  <2>1. ci[c] \in 1..(Count + 1) /\ Count \in Nat
    BY CountType DEF Types
  <2> QED BY ONLY <2>1
<1>3. /\ cresult' = [cresult EXCEPT ![c] = result] /\ cbuffer' = [cbuffer EXCEPT ![c] = buffer]
  BY DEF ClientTurn
<1>4. CASE /\ ci[c] > Commands /\ buffer = End
           /\ cpc' = [cpc EXCEPT ![c] = "spin"] /\ UNCHANGED <<ci, crx>>
  BY <1>3, <1>4 DEF Types
<1>5. CASE /\ ~(ci[c] > Commands /\ buffer = End)
           /\ ci' = [ci EXCEPT ![c] = IF @ <= Count THEN @ + 1 ELSE @]
           /\ crx' = [crx EXCEPT ![c] = WithLine(@, IF ci[c] <= Commands THEN result ELSE buffer)]
           /\ UNCHANGED cpc
  <2>1. crx' = [crx EXCEPT ![c] = WithLine(@, ClientLine(c, result, buffer))]
    BY <1>5 DEF ClientLine
  <2> QED BY <1>1, <1>2, <1>3, <1>5, <2>1 DEF Types
<1> QED BY <1>4, <1>5 DEF ClientTurn

\* A turn with a packet logs what the read makes of it.
LEMMA ClientTakeEffect ==
  ASSUME Types, NEW c \in Clients, NEW pkt \in Message, ClientTake(c, pkt)
  PROVE  \E result \in Logged, buffer \in Logged :
           /\ ClientTurn(c, result, buffer) /\ ClientLine(c, result, buffer) = ReadAs(pkt, ci[c])
           /\ ci[c] <= Commands => result = ReadAs(pkt, ci[c]) /\ buffer = cbuffer[c]
           /\ ci[c] > Commands => result = cresult[c] /\ buffer = ReadAs(pkt, ci[c])
<1>1. ReadAs(pkt, ci[c]) \in Logged /\ cresult[c] \in Logged /\ cbuffer[c] \in Logged
  BY MessageFacts, EndFacts, ReadAsFacts DEF Types
<1>2. ci[c] \in Nat /\ Commands \in Nat /\ ~(ci[c] <= Commands /\ ci[c] > Commands)
  BY CountType DEF Types
<1>3. CASE ci[c] <= Commands /\ ClientTurn(c, ReadAs(pkt, ci[c]), cbuffer[c])
  BY <1>1, <1>2, <1>3 DEF ClientLine
<1>4. CASE ci[c] > Commands /\ ClientTurn(c, cresult[c], ReadAs(pkt, ci[c]))
  BY <1>1, <1>2, <1>4 DEF ClientLine
<1> QED BY <1>3, <1>4 DEF ClientTake

\* Steps that read, or do not touch the messages at all, keep the order, and keep old
\* what was old.
LEMMA ReadersKeep ==
  ASSUME Types, OrderInv,
         \A c \in Clients : /\ Reads(srx[c], toServer[c], srx'[c], toServer'[c])
                            /\ Reads(crx[c], toClient[c], crx'[c], toClient'[c])
  PROVE  /\ OrderInv'
         /\ \A c \in Clients, n \in Nat :
              /\ Below(srx[c], n) /\ Below(toServer[c], n) =>
                   Below(srx'[c], n) /\ Below(toServer'[c], n)
              /\ Below(crx[c], n) /\ Below(toClient[c], n) =>
                   Below(crx'[c], n) /\ Below(toClient'[c], n)
         /\ \A c \in Clients : Unserved(c) => Unserved(c)'
<1>t. \A c \in Clients : /\ srx[c] \in Seq(Logged) /\ toServer[c] \in Seq(Message)
                         /\ crx[c] \in Seq(Logged) /\ toClient[c] \in Seq(Message)
  BY DEF Types
<1>1. OrderInv'
  BY <1>t, ReadAhead DEF OrderInv
<1>2. \A c \in Clients, n \in Nat :
        /\ Below(srx[c], n) /\ Below(toServer[c], n) =>
             Below(srx'[c], n) /\ Below(toServer'[c], n)
        /\ Below(crx[c], n) /\ Below(toClient[c], n) =>
             Below(crx'[c], n) /\ Below(toClient'[c], n)
  BY <1>t, ReadBelow
<1>3. ASSUME NEW c \in Clients, Unserved(c) PROVE Unserved(c)'
  <2>1. toClient[c] = <<>> /\ Below(crx[c], 1) /\ Below(toClient[c], 1)
    BY <1>3 DEF Unserved, Below
  <2>2. toClient'[c] = <<>>
    BY <2>1 DEF Reads
  <2>3. Below(crx'[c], 1)
    BY <1>2, <2>1
  <2> QED BY <2>2, <2>3 DEF Unserved
<1> QED BY <1>1, <1>2, <1>3

\* A step that reads, leaves the backlog and the connection served as they are and
\* begins with no client keeps the rest, too.
LEMMA ReadStepKeeps ==
  ASSUME IInv, Types',
         \A c \in Clients : /\ Reads(srx[c], toServer[c], srx'[c], toServer'[c])
                            /\ Reads(crx[c], toClient[c], crx'[c], toClient'[c]),
         UNCHANGED backlog, data_socket' \in {data_socket, NoSocket},
         sresult'.from \in {sresult.from, data_socket},
         data_socket' # NoSocket => spc' = "dead" \/ (spc' = spc /\ si' = si)
                                    \/ (spc = "receive" /\ spc' = "receive")
                                    \/ (spc = "receive" /\ spc' = "send" /\ si' = 1),
         \A c \in Clients : cpc'[c] \in {"start", "send"} => cpc'[c] = cpc[c] /\ ci'[c] = ci[c]
  PROVE  IInv'
<1>t. Types
  BY DEF IInv
<1>1. /\ OrderInv'
      /\ \A c \in Clients, n \in Nat :
           /\ Below(srx[c], n) /\ Below(toServer[c], n) =>
                Below(srx'[c], n) /\ Below(toServer'[c], n)
           /\ Below(crx[c], n) /\ Below(toClient[c], n) =>
                Below(crx'[c], n) /\ Below(toClient'[c], n)
      /\ \A c \in Clients : Unserved(c) => Unserved(c)'
  BY ReadersKeep DEF IInv
<1>2. \A c \in Clients : ci[c] \in Nat
  BY <1>t, CountType DEF Types
<1>3. SenderInv'
  <2>1. ASSUME NEW c \in Clients, cpc'[c] \in {"start", "send"}
        PROVE  Below(srx'[c], ci'[c]) /\ Below(toServer'[c], ci'[c])
    BY <1>1, <1>2, <2>1 DEF IInv, SenderInv
  <2>2. ASSUME data_socket' # NoSocket PROVE data_socket' = data_socket /\ data_socket \in Clients
    BY <1>t, <2>2 DEF Types
  <2>3. ASSUME spc' = "receive", data_socket' # NoSocket PROVE Unserved(data_socket)'
    <3>1. spc = "receive" /\ Unserved(data_socket)
      BY <2>2, <2>3 DEF IInv, SenderInv
    <3>2. Unserved(data_socket) => toClient'[data_socket] = <<>> /\ Below(crx'[data_socket], 1)
      BY <1>1, <2>2, <2>3 DEF Unserved
    <3> QED BY <2>2, <2>3, <3>1, <3>2 DEF Unserved
  <2>4. ASSUME spc' = "send", data_socket' # NoSocket
        PROVE  Below(crx'[data_socket'], si') /\ Below(toClient'[data_socket'], si')
    <3>1. si \in Nat
      BY <1>t, CountType DEF Types
    <3>2. CASE spc = "send" /\ si' = si
      BY <1>1, <2>2, <2>4, <3>1, <3>2 DEF IInv, SenderInv
    <3>3. CASE spc = "receive" /\ si' = 1
      <4>1. Unserved(data_socket)
        BY <2>2, <2>4, <3>3 DEF IInv, SenderInv
      <4>2. Below(toClient[data_socket], 1) /\ Below(crx[data_socket], 1)
        BY <4>1 DEF Unserved, Below
      <4> QED BY <1>1, <2>2, <2>4, <3>3, <4>2
    <3> QED BY <2>4, <3>2, <3>3
  <2> QED BY <2>1, <2>3, <2>4 DEF SenderInv
<1>4. BacklogInv'
  <2>1. \A j \in 1..Len(backlog) : backlog[j] \in Clients
    BY <1>t DEF Types
  <2>2. ASSUME NEW j \in 1..Len(backlog)
        PROVE  /\ Unserved(backlog[j]) /\ cpc[backlog[j]] # "start"
               /\ backlog[j] # data_socket /\ backlog[j] # sresult.from
               /\ \A k \in 1..Len(backlog) : backlog[j] = backlog[k] => j = k
    BY DEF IInv, BacklogInv
  <2>3. ASSUME NEW j \in 1..Len(backlog')
        PROVE  /\ Unserved(backlog[j])' /\ cpc'[backlog'[j]] # "start"
               /\ backlog'[j] # data_socket' /\ backlog'[j] # sresult'.from
               /\ \A k \in 1..Len(backlog') : backlog'[j] = backlog'[k] => j = k
    <3> PICK c \in Clients : c = backlog[j] /\ c = backlog'[j]
      BY <2>1
    <3>1. Unserved(c)'
      BY <1>1, <2>2
    <3>2. c # NoSocket
      BY SocketsAssumption
    <3> QED BY <2>2, <3>1, <3>2 DEF Unserved
  <2>4. ASSUME NEW c \in Clients, cpc'[c] = "start"
        PROVE  Unserved(c)' /\ data_socket' # c /\ sresult'.from # c
    BY <1>1, <2>4, SocketsAssumption DEF IInv, BacklogInv
  <2> QED BY <2>3, <2>4 DEF BacklogInv
<1> QED BY <1>1, <1>3, <1>4 DEF IInv

-----------------------------------------------------------------------------
(* Each step keeps IInv.                                                    *)

LEMMA InitKeeps == Init => IInv
<1> SUFFICES ASSUME Init PROVE IInv
  OBVIOUS
<1>1. Types
  BY CountType, EndFacts DEF Init, Types
<1>2. \A n : Below(<<>>, n)
  BY DEF Below
<1>3. Ahead(<<>>, <<>>)
  BY DEF Ahead, Ordered
<1>4. OrderInv
  BY <1>3 DEF Init, OrderInv
<1>5. SenderInv
  BY <1>2 DEF Init, SenderInv
<1>6. BacklogInv
  BY <1>2, SocketsAssumption DEF Init, BacklogInv, Unserved
<1> QED BY <1>1, <1>4, <1>5, <1>6 DEF IInv

LEMMA ListenKeeps == ASSUME IInv, Listen PROVE IInv'
<1> USE DEF Listen, linkVars, clientVars
<1>1. Types'
  BY DEF IInv, Types
<1>2. SenderInv'
  BY DEF IInv, SenderInv
<1>3. OrderInv'
  BY DEF IInv, OrderInv
<1>4. BacklogInv'
  <2>1. BacklogInv
    BY DEF IInv
  <2> QED BY <2>1, Zenon DEF BacklogInv, Unserved
<1> QED BY <1>1, <1>2, <1>3, <1>4 DEF IInv

LEMMA AcceptKeeps == ASSUME IInv, Accept PROVE IInv'
<1> USE DEF Accept, clientVars
<1>0. Types /\ BacklogInv /\ backlog \in Seq(Clients) /\ backlog # <<>>
  BY DEF IInv, Types
<1>1. /\ backlog' \in Seq(Clients) /\ Len(backlog) \in Nat /\ Len(backlog) >= 1
      /\ Len(backlog') = Len(backlog) - 1
      /\ data_socket' = backlog[1] /\ backlog[1] \in Clients
      /\ \A j \in 1..Len(backlog') : backlog'[j] = backlog[j + 1] /\ j + 1 \in 1..Len(backlog)
  BY <1>0, TailFacts
<1>2. Types'
  <2>1. si' \in 1..(Count + 1) /\ data_socket' \in Clients \cup {NoSocket}
    BY <1>1, CountType
  <2> QED BY <1>0, <1>1, <2>1 DEF Types
<1>3. \A c \in Clients : Unserved(c)' <=> Unserved(c)
  BY DEF Unserved
<1>4. SenderInv'
  <2>1. Unserved(backlog[1])
    BY <1>0, <1>1 DEF BacklogInv
  <2>2. Unserved(data_socket)'
    BY <1>1, <2>1 DEF Unserved
  <2> QED BY <2>2 DEF IInv, SenderInv
<1>5. BacklogInv'
  <2>1. ASSUME NEW j \in 1..Len(backlog')
        PROVE  /\ Unserved(backlog[j])' /\ cpc'[backlog'[j]] # "start"
               /\ backlog'[j] # data_socket' /\ backlog'[j] # sresult'.from
               /\ \A k \in 1..Len(backlog') : backlog'[j] = backlog'[k] => j = k
    <3>1. j + 1 \in 1..Len(backlog) /\ j + 1 # 1 /\ 1 \in 1..Len(backlog) /\ j \in Nat
      BY <1>1
    <3>2. /\ Unserved(backlog[j + 1]) /\ cpc[backlog[j + 1]] # "start"
          /\ backlog[j + 1] # backlog[1] /\ backlog[j + 1] # sresult.from
      BY <1>0, <3>1 DEF BacklogInv
    <3>3. ASSUME NEW k \in 1..Len(backlog'), backlog'[j] = backlog'[k] PROVE j = k
      <4>1. backlog[j + 1] = backlog[k + 1] /\ k + 1 \in 1..Len(backlog)
        BY <1>1, <3>3
      <4>2. j + 1 = k + 1
        BY <1>0, <3>1, <4>1 DEF BacklogInv
      <4> QED BY <1>1, <4>2
    <3>4. Unserved(backlog[j])'
      BY <1>1, <3>2 DEF Unserved
    <3> QED BY <1>1, <3>2, <3>3, <3>4
  <2>2. ASSUME NEW c \in Clients, cpc'[c] = "start"
        PROVE  Unserved(c)' /\ data_socket' # c /\ sresult'.from # c
    <3>1. cpc[backlog[1]] # "start"
      BY <1>0, <1>1 DEF BacklogInv
    <3> QED BY <1>0, <1>1, <1>3, <2>2, <3>1 DEF BacklogInv
  <2> QED BY <2>1, <2>2 DEF BacklogInv
<1>6. OrderInv'
  BY DEF IInv, OrderInv
<1> QED BY <1>2, <1>4, <1>5, <1>6 DEF IInv

\* A read of the server that fails logs the youngest line of the log again, if anything.
LEMMA ServerHeldLine ==
  ASSUME IInv, HeldInv, spc = "receive", ServerTurn(sresult, sbuffer), NEW c \in Clients
  PROVE  Again(srx[c], srx'[c]) /\ (c # data_socket => srx'[c] = srx[c])
<1>0. Types /\ sresult \in Results /\ sbuffer \in Logged /\ srx[c] \in Seq(Logged)
  BY DEF IInv, Types, Results
<1>1. \/ srx'[c] = srx[c]
      \/ /\ c = data_socket /\ ~(si > Commands /\ sbuffer = End)
         /\ srx'[c] = WithLine(srx[c], ServerLine(sresult, sbuffer))
  BY <1>0, ServerTurnEffect
<1>2. CASE srx'[c] = srx[c]
  BY <1>2 DEF Again
<1>3. CASE /\ c = data_socket /\ ~(si > Commands /\ sbuffer = End)
           /\ srx'[c] = WithLine(srx[c], ServerLine(sresult, sbuffer))
  <2>0. c # NoSocket /\ Stale(srx[c], Bad) /\ Bad \in Logged
    BY SocketsAssumption, EndFacts DEF Stale
  <2>1. CASE si <= Commands
    <3>1. ServerLine(sresult, sbuffer) \in Logged /\ Stale(srx[c], ServerLine(sresult, sbuffer))
      BY <1>0, <1>3, <2>0, <2>1 DEF ServerLine, Of, HeldInv, ServerHeld, Results
    <3> QED BY <1>0, <1>3, <3>1, StaleAgain
  <2>2. CASE ~(si <= Commands)
    <3>1. si > Commands
      <4>1. si \in Nat /\ Commands \in Nat
        BY <1>0, CountType DEF Types
      <4> QED BY ONLY <2>2, <4>1
    <3>2. ServerLine(sresult, sbuffer) = sbuffer /\ Stale(srx[c], sbuffer)
      BY <1>3, <2>0, <2>2, <3>1 DEF ServerLine, HeldInv, ServerHeld
    <3> QED BY <1>0, <1>3, <3>2, StaleAgain
  <2> QED BY <2>1, <2>2
<1> QED BY <1>1, <1>2, <1>3

\* A turn of the server's loop in which nothing is read.
LEMMA FailedTurnKeeps ==
  ASSUME IInv, HeldInv, spc = "receive", ServerTurn(sresult, sbuffer),
         UNCHANGED <<linkVars, data_socket, fp, clientVars>>
  PROVE  IInv'
<1> USE DEF linkVars, clientVars
<1>0. Types /\ sresult \in Results /\ sbuffer \in Logged
  BY DEF IInv, Types, Results
<1>1. /\ srx' \in [Clients -> Seq(Logged)]
      /\ si' \in 1..(Count + 1) /\ sresult' = sresult /\ sbuffer' = sbuffer
      /\ spc' \in {"receive", "send", "dead"} /\ (spc' = "send" => si' = 1)
  BY <1>0, ServerTurnEffect
<1>2. Types'
  BY <1>0, <1>1 DEF Types
<1>3. \A c \in Clients : /\ Reads(srx[c], toServer[c], srx'[c], toServer'[c])
                         /\ Reads(crx[c], toClient[c], crx'[c], toClient'[c])
  BY ServerHeldLine DEF Reads, Again
<1> QED BY <1>1, <1>2, <1>3, ReadStepKeeps

LEMMA ServerReadKeeps == ASSUME IInv, ServerRead PROVE IInv'
<1> USE DEF ServerRead, clientVars
<1> DEFINE pkt == Head(toServer[data_socket])
<1>0. Types /\ data_socket \in Clients /\ toServer[data_socket] \in Seq(Message)
  BY DEF IInv, Types
<1>1. pkt \in Message /\ Tail(toServer[data_socket]) \in Seq(Message)
  BY <1>0
<1>2. ReadAs(pkt, si) \in {pkt, Bad} /\ ReadAs(pkt, si) \in Logged
  BY <1>1, ReadAsFacts, EndFacts DEF Logged
<1>3. ServerTake(pkt)
  OBVIOUS
<1> HIDE DEF pkt
<1> PICK result \in Results, buffer \in Logged :
      /\ ServerTurn(result, buffer) /\ ServerLine(result, buffer) = ReadAs(pkt, si)
      /\ result.from \in {sresult.from, data_socket}
  <2>1. si \in Nat /\ Commands \in Nat
    BY <1>0, CountType DEF Types
  <2>2. si <= Commands \/ si > Commands
    BY ONLY <2>1
  <2> QED BY <1>0, <1>1, <1>3, <2>2, ServerTakeEffect
<1>4. /\ srx' \in [Clients -> Seq(Logged)]
      /\ \A c \in Clients :
           \/ srx'[c] = srx[c]
           \/ c = data_socket /\ srx'[c] = WithLine(srx[c], ReadAs(pkt, si))
      /\ si' \in 1..(Count + 1) /\ sresult' = result /\ sbuffer' = buffer
      /\ spc' \in {"receive", "send", "dead"} /\ (spc' = "send" => si' = 1)
  BY <1>0, ServerTurnEffect
<1>5. Types'
  BY <1>0, <1>1, <1>4 DEF Types, Results
<1>6. ASSUME NEW c \in Clients
      PROVE  /\ Reads(srx[c], toServer[c], srx'[c], toServer'[c])
             /\ Reads(crx[c], toClient[c], crx'[c], toClient'[c])
  <2>0. crx'[c] = crx[c] /\ toClient'[c] = toClient[c]
    OBVIOUS
  <2>1. CASE c = data_socket
    <3>1. toServer[c] # <<>> /\ toServer'[c] = Tail(toServer[c])
      BY <1>0, <2>1 DEF Types
    <3>2. srx[c] \in Seq(Logged)
      BY <1>0 DEF Types
    <3>3. WithLine(srx[c], ReadAs(pkt, si)) \in {srx[c], Append(srx[c], ReadAs(pkt, si))}
      BY <1>2, <3>2, WithLineFacts
    <3>4. srx'[c] \in {srx[c], Append(srx[c], Head(toServer[c])), Append(srx[c], Bad)}
      BY <1>2, <1>4, <2>1, <3>3 DEF pkt
    <3> QED BY <2>0, <3>1, <3>4 DEF Reads, Again
  <2>2. CASE c # data_socket
    <3>1. toServer'[c] = toServer[c] /\ srx'[c] = srx[c]
      BY <1>0, <1>4, <2>2 DEF Types
    <3> QED BY <2>0, <3>1 DEF Reads, Again
  <2> QED BY <2>1, <2>2
<1> QED BY <1>4, <1>5, <1>6, ReadStepKeeps

LEMMA ServerReadFailsKeeps == ASSUME IInv, HeldInv, ServerReadFails PROVE IInv'
BY FailedTurnKeeps DEF ServerReadFails

LEMMA ServerSignalKeeps == ASSUME IInv, HeldInv, ServerSignal PROVE IInv'
<1> USE DEF ServerSignal, linkVars, clientVars
<1>0. Types
  BY DEF IInv
<1>1. \A c \in Clients : srx' = srx => /\ Reads(srx[c], toServer[c], srx'[c], toServer'[c])
                                       /\ Reads(crx[c], toClient[c], crx'[c], toClient'[c])
  BY DEF Reads, Again
<1>2. CASE /\ data_socket' = NoSocket /\ spc' = "receive" /\ si' = 1
           /\ UNCHANGED <<sresult, sbuffer, srx>>
  <2>0. UNCHANGED <<linkVars, clientVars>> /\ 1 \in 1..(Count + 1)
    BY CountType
  <2>1. Types'
    BY ONLY <1>0, <1>2, <2>0 DEF Types
  <2> QED BY <1>1, <1>2, <2>1, ReadStepKeeps
<1>3. CASE spc = "receive" /\ ServerTurn(sresult, sbuffer) /\ UNCHANGED data_socket
  BY <1>3, FailedTurnKeeps
<1>4. CASE UNCHANGED <<spc, si, data_socket, sresult, sbuffer, srx>>
  <2>1. Types'
    BY <1>0, <1>4 DEF Types
  <2> QED BY <1>1, <1>4, <2>1, ReadStepKeeps
<1> QED BY <1>2, <1>3, <1>4

\* What the server sends to the client it serves: packet si, and nothing else changes
\* for the clients.
LEMMA AnswerKeeps ==
  ASSUME IInv, Types', spc = "send", data_socket # NoSocket,
         toClient' = [toClient EXCEPT ![data_socket] = Append(@, Packet(si))],
         UNCHANGED <<backlog, toServer, sresult, srx, clientVars>>,
         spc' # "receive", data_socket' \in {data_socket, NoSocket},
         spc' = "send" => si' = si + 1
  PROVE  IInv'
<1> USE DEF clientVars
<1>0. Types /\ data_socket \in Clients /\ si \in 1..(Count + 1)
  BY DEF IInv, Types
<1> DEFINE d == data_socket
<1>1. /\ crx[d] \in Seq(Logged) /\ toClient[d] \in Seq(Message)
      /\ Ahead(crx[d], toClient[d]) /\ Below(crx[d], si) /\ Below(toClient[d], si)
  BY <1>0 DEF IInv, Types, OrderInv, SenderInv
<1>2. /\ Ahead(crx[d], Append(toClient[d], Packet(si)))
      /\ Below(crx[d], si + 1) /\ Below(Append(toClient[d], Packet(si)), si + 1)
  BY <1>0, <1>1, SendAhead
<1>3. /\ toClient'[d] = Append(toClient[d], Packet(si))
      /\ \A c \in Clients : c # d => toClient'[c] = toClient[c]
  BY <1>0 DEF Types
<1>4. OrderInv'
  BY <1>2, <1>3 DEF IInv, OrderInv
<1>5. SenderInv'
  <2>1. ASSUME spc' = "send", data_socket' # NoSocket
        PROVE  Below(crx'[data_socket'], si') /\ Below(toClient'[data_socket'], si')
    <3>1. data_socket' = d /\ si' = si + 1 /\ crx' = crx
      BY <2>1
    <3> QED BY <1>2, <1>3, <3>1
  <2> QED BY <2>1 DEF IInv, SenderInv
<1>6. BacklogInv'
  <2>0. BacklogInv /\ \A j \in 1..Len(backlog) : backlog[j] \in Clients
    BY <1>0 DEF IInv, Types
  <2>1. \A c \in Clients : c # d /\ Unserved(c) => Unserved(c)'
    BY <1>3 DEF Unserved
  <2>2. ASSUME NEW j \in 1..Len(backlog')
        PROVE  /\ Unserved(backlog[j])' /\ cpc'[backlog'[j]] # "start"
               /\ backlog'[j] # data_socket' /\ backlog'[j] # sresult'.from
               /\ \A k \in 1..Len(backlog') : backlog'[j] = backlog'[k] => j = k
    <3> PICK c \in Clients : c = backlog[j] /\ c = backlog'[j]
      BY <2>0
    <3>1. Unserved(c) /\ c # d /\ cpc[c] # "start" /\ c # sresult.from
      BY <2>0 DEF BacklogInv
    <3>2. Unserved(c)' /\ c # NoSocket
      BY <2>1, <3>1, SocketsAssumption
    <3> QED BY <2>0, <3>1, <3>2 DEF Unserved, BacklogInv
  <2>3. ASSUME NEW c \in Clients, cpc'[c] = "start"
        PROVE  Unserved(c)' /\ data_socket' # c /\ sresult'.from # c
    BY <2>0, <2>1, <2>3, SocketsAssumption DEF BacklogInv
  <2> QED BY <2>2, <2>3 DEF BacklogInv
<1> QED BY <1>4, <1>5, <1>6 DEF IInv

\* A step of the server that sends nothing, or after which it answers nobody.
LEMMA SilentKeeps ==
  ASSUME IInv, Types', UNCHANGED <<backlog, toServer, toClient, sresult, srx, clientVars>>,
         spc' # "receive", data_socket' \in {data_socket, NoSocket},
         spc' = "send" /\ data_socket' # NoSocket => spc = "send" /\ si' = si + 1
  PROVE  IInv'
<1> USE DEF clientVars
<1>1. OrderInv'
  BY DEF IInv, OrderInv
<1>2. SenderInv'
  <2>1. ASSUME spc' = "send", data_socket' # NoSocket
        PROVE  Below(crx'[data_socket'], si') /\ Below(toClient'[data_socket'], si')
    <3>1. /\ data_socket' = data_socket /\ data_socket \in Clients
          /\ spc = "send" /\ si' = si + 1 /\ si \in Nat
      BY <2>1, CountType DEF IInv, Types
    <3>2. /\ crx[data_socket] \in Seq(Logged) /\ toClient[data_socket] \in Seq(Message)
          /\ Below(crx[data_socket], si) /\ Below(toClient[data_socket], si)
      BY <3>1, <2>1 DEF IInv, Types, SenderInv
    <3>3. /\ \A j \in 1..Len(crx[data_socket]) : crx[data_socket][j].k \in Nat
          /\ \A j \in 1..Len(toClient[data_socket]) : toClient[data_socket][j].k \in Nat
      BY <3>2, LoggedFacts, MessageFacts, CountType
    <3>4. Below(crx[data_socket], si + 1) /\ Below(toClient[data_socket], si + 1)
      BY <3>1, <3>2, <3>3 DEF Below
    <3> QED BY <3>1, <3>4
  <2> QED BY <2>1 DEF IInv, SenderInv
<1>3. \A c \in Clients : Unserved(c)' <=> Unserved(c)
  BY DEF Unserved
<1>4. BacklogInv'
  <2>0. BacklogInv /\ \A j \in 1..Len(backlog) : backlog[j] \in Clients
    BY DEF IInv, Types
  <2>1. ASSUME NEW j \in 1..Len(backlog')
        PROVE  /\ Unserved(backlog[j])' /\ cpc'[backlog'[j]] # "start"
               /\ backlog'[j] # data_socket' /\ backlog'[j] # sresult'.from
               /\ \A k \in 1..Len(backlog') : backlog'[j] = backlog'[k] => j = k
    <3> PICK c \in Clients : c = backlog[j] /\ c = backlog'[j]
      BY <2>0
    <3>1. /\ Unserved(c)' /\ c # NoSocket /\ c # data_socket /\ cpc[c] # "start"
          /\ c # sresult.from
      BY <1>3, <2>0, SocketsAssumption DEF BacklogInv
    <3> QED BY <2>0, <3>1 DEF Unserved, BacklogInv
  <2>2. ASSUME NEW c \in Clients, cpc'[c] = "start"
        PROVE  Unserved(c)' /\ data_socket' # c /\ sresult'.from # c
    BY <1>3, <2>0, <2>2, SocketsAssumption DEF BacklogInv
  <2> QED BY <2>1, <2>2 DEF BacklogInv
<1> QED BY <1>1, <1>2, <1>4 DEF IInv

LEMMA ServerSendKeeps == ASSUME IInv, ServerSend PROVE IInv'
<1> USE DEF ServerSend, clientVars
<1>0. /\ Types /\ si \in 1..(Count + 1) /\ si' \in 1..(Count + 1) /\ Packet(si) \in Message
      /\ spc' \in {"send", "dead"}
  BY CountType, PacketFacts DEF IInv, Types, Log
<1>1. CASE /\ data_socket # NoSocket
           /\ toClient' = [toClient EXCEPT ![data_socket] = Append(@, Packet(si))]
  <2>1. data_socket \in Clients /\ Append(toClient[data_socket], Packet(si)) \in Seq(Message)
    BY <1>0, <1>1 DEF Types
  <2>2. Types'
    BY <1>0, <1>1, <2>1 DEF Types
  <2> QED BY <1>0, <1>1, <2>2, AnswerKeeps
<1>2. CASE UNCHANGED toClient
  <2>1. Types'
    BY <1>0, <1>2 DEF Types
  <2> QED BY <1>0, <1>2, <2>1, SilentKeeps
<1> QED BY <1>1, <1>2 DEF ServerWrite

LEMMA ServerEndKeeps == ASSUME IInv, ServerEnd PROVE IInv'
<1> USE DEF ServerEnd, clientVars
<1>0. Types /\ si = Count + 1 /\ Packet(si) = End /\ End \in Message /\ End \in Logged
  <2>1. Types /\ si \in 1..(Count + 1) /\ si > Count /\ Count \in Nat
    BY CountType DEF IInv, Types
  <2>2. si = Count + 1
    BY ONLY <2>1
  <2> QED BY <2>1, <2>2, EndFacts DEF End
<1>1. spc' \in {"accept", "dead"} /\ link' \in [Clients -> {"none", "up", "closed"}]
  BY <1>0 DEF Types
<1>2. CASE /\ data_socket # NoSocket
           /\ toClient' = [toClient EXCEPT ![data_socket] = Append(@, End)]
  <2>1. data_socket \in Clients /\ Append(toClient[data_socket], End) \in Seq(Message)
    BY <1>0, <1>2 DEF Types
  <2>2. Types'
    BY <1>0, <1>1, <1>2, <2>1 DEF Types
  <2> QED BY <1>0, <1>1, <1>2, <2>2, AnswerKeeps
<1>3. CASE UNCHANGED toClient
  <2>1. Types'
    BY <1>0, <1>1, <1>3 DEF Types
  <2> QED BY <1>1, <1>3, <2>1, SilentKeeps
<1> QED BY <1>2, <1>3 DEF ServerWrite

LEMMA ConnectKeeps == ASSUME IInv, NEW c \in Clients, Connect(c) PROVE IInv'
<1> USE DEF Connect, serverVars
<1>0. /\ Types /\ BacklogInv /\ backlog \in Seq(Clients)
      /\ \A j \in 1..Len(backlog) : backlog[j] \in Clients
  BY DEF IInv, Types
<1>1. CASE backlog' = Append(backlog, c) /\ link' = [link EXCEPT ![c] = "up"]
  <2>1. /\ backlog' \in Seq(Clients) /\ Len(backlog) \in Nat /\ Len(backlog') = Len(backlog) + 1
        /\ backlog'[Len(backlog) + 1] = c
        /\ \A j \in 1..Len(backlog) : backlog'[j] = backlog[j]
    BY <1>0, <1>1, AppendFacts
  <2>2. Types'
    BY <1>0, <1>1, <2>1 DEF Types
  <2>3. cpc[c] = "start" /\ Unserved(c) /\ data_socket # c /\ sresult.from # c
    BY <1>0 DEF BacklogInv
  <2>4. \A d \in Clients : /\ Unserved(d)' <=> Unserved(d)
                           /\ d # c => cpc'[d] = cpc[d]
    BY <1>0 DEF Unserved, Types
  <2>5. cpc'[c] = "send"
    BY <1>0 DEF Types
  <2>6. OrderInv'
    BY DEF IInv, OrderInv
  <2>7. SenderInv'
    <3>1. SenderInv
      BY DEF IInv
    <3>2. ASSUME NEW d \in Clients, cpc'[d] \in {"start", "send"}
          PROVE  Below(srx'[d], ci'[d]) /\ Below(toServer'[d], ci'[d])
      BY <2>3, <2>4, <3>1, <3>2 DEF SenderInv
    <3> QED BY <3>1, <3>2 DEF SenderInv, Unserved
  <2>8. BacklogInv'
    <3>1. \A j \in 1..Len(backlog) : backlog[j] # c
      BY <1>0, <2>3 DEF BacklogInv
    <3>2. ASSUME NEW j \in 1..Len(backlog')
          PROVE  /\ Unserved(backlog[j])' /\ cpc'[backlog'[j]] # "start"
               /\ backlog'[j] # data_socket' /\ backlog'[j] # sresult'.from
                 /\ \A k \in 1..Len(backlog') : backlog'[j] = backlog'[k] => j = k
      <4>1. CASE j = Len(backlog) + 1
        BY <2>1, <2>3, <2>4, <2>5, <3>1, <4>1 DEF Unserved
      <4>2. CASE j \in 1..Len(backlog)
        <5>1. backlog'[j] = backlog[j] /\ backlog[j] \in Clients /\ backlog[j] # c
          BY <1>0, <2>1, <3>1, <4>2
        <5>2. /\ Unserved(backlog[j]) /\ cpc[backlog[j]] # "start"
              /\ backlog[j] # data_socket /\ backlog[j] # sresult.from
          BY <1>0, <4>2 DEF BacklogInv
        <5>3. Unserved(backlog[j])'
          BY <5>1, <5>2 DEF Unserved
        <5>4. ASSUME NEW k \in 1..Len(backlog'), backlog'[j] = backlog'[k] PROVE j = k
          <6>1. k \in 1..Len(backlog) /\ backlog[j] = backlog[k]
            BY <2>1, <5>1, <5>4
          <6> QED BY <1>0, <4>2, <6>1 DEF BacklogInv
        <5> QED BY <2>4, <5>1, <5>2, <5>3, <5>4
      <4> QED BY <2>1, <4>1, <4>2
    <3>3. ASSUME NEW d \in Clients, cpc'[d] = "start"
          PROVE  Unserved(d)' /\ data_socket' # d /\ sresult'.from # d
      BY <1>0, <2>4, <2>5, <3>3 DEF BacklogInv
    <3> QED BY <3>2, <3>3 DEF BacklogInv
  <2> QED BY <2>2, <2>6, <2>7, <2>8 DEF IInv
<1>2. CASE UNCHANGED <<link, backlog>>
  <2>1. Types'
    BY <1>0, <1>2 DEF Types
  <2>2. \A d \in Clients : /\ Unserved(d)' <=> Unserved(d)
                           /\ d # c => cpc'[d] = cpc[d]
    BY <1>0 DEF Unserved, Types
  <2>3. cpc[c] = "start" /\ cpc'[c] = "send"
    BY <1>0 DEF Types
  <2>4. OrderInv'
    BY DEF IInv, OrderInv
  <2>5. SenderInv'
    <3>1. SenderInv
      BY DEF IInv
    <3>2. ASSUME NEW d \in Clients, cpc'[d] \in {"start", "send"}
          PROVE  Below(srx'[d], ci'[d]) /\ Below(toServer'[d], ci'[d])
      BY <2>2, <2>3, <3>1, <3>2 DEF SenderInv
    <3> QED BY <3>1, <3>2 DEF SenderInv, Unserved
  <2>6. BacklogInv'
    <3>1. ASSUME NEW j \in 1..Len(backlog)
          PROVE  Unserved(backlog[j])' /\ cpc'[backlog[j]] # "start"
      BY <1>0, <2>2, <2>3, <1>2 DEF BacklogInv, Unserved
    <3> QED BY <1>0, <1>2, <2>2, <2>3, <3>1 DEF BacklogInv, Unserved
  <2> QED BY <2>1, <2>4, <2>5, <2>6 DEF IInv
<1> QED BY <1>1, <1>2

LEMMA ClientSendKeeps == ASSUME IInv, NEW c \in Clients, ClientSend(c) PROVE IInv'
<1> USE DEF ClientSend, serverVars
<1>0. /\ Types /\ SenderInv /\ BacklogInv /\ OrderInv
      /\ ci[c] \in 1..(Count + 1) /\ Packet(ci[c]) \in Message
      /\ srx[c] \in Seq(Logged) /\ toServer[c] \in Seq(Message)
  BY PacketFacts DEF IInv, Types
<1>1. /\ Ahead(srx[c], toServer[c]) /\ Below(srx[c], ci[c]) /\ Below(toServer[c], ci[c])
  BY <1>0 DEF OrderInv, SenderInv
<1>2. /\ Append(toServer[c], Packet(ci[c])) \in Seq(Message)
      /\ Ahead(srx[c], Append(toServer[c], Packet(ci[c])))
      /\ Below(srx[c], ci[c] + 1) /\ Below(Append(toServer[c], Packet(ci[c])), ci[c] + 1)
  BY <1>0, <1>1, SendAhead
<1>3. /\ toServer'[c] \in {toServer[c], <<>>, Append(toServer[c], Packet(ci[c]))}
      /\ toServer' \in [Clients -> Seq(Message)]
      /\ \A d \in Clients \ {c} : toServer'[d] = toServer[d]
  <2>1. <<>> \in Seq(Message) /\ toServer \in [Clients -> Seq(Message)]
    BY <1>0 DEF Types
  <2>2. \/ toServer' = [toServer EXCEPT ![c] = Append(@, Packet(ci[c]))]
        \/ toServer' = [toServer EXCEPT ![c] = <<>>]
        \/ toServer' = toServer
    OBVIOUS
  <2> QED BY ONLY <1>2, <2>1, <2>2
<1>4. AfterSend(c) \in {"send", "receive"} /\ (AfterSend(c) = "send" => ci[c] # Count + 1)
  BY DEF AfterSend
<1>5. /\ cpc'[c] \in {"send", "receive", "gone"} /\ (cpc'[c] = "send" => AfterSend(c) = "send")
      /\ cpc' \in [Clients -> {"start", "send", "receive", "spin", "gone"}]
      /\ \A d \in Clients \ {c} : cpc'[d] = cpc[d]
  BY <1>0, <1>4 DEF Types
<1>6. /\ ci' \in [Clients -> 1..(Count + 1)]
      /\ cpc'[c] = "send" => ci'[c] = ci[c] + 1
      /\ \A d \in Clients \ {c} : ci'[d] = ci[d]
  <2>1. ASSUME AfterSend(c) = "send" PROVE ci[c] + 1 \in 1..(Count + 1)
    <3>1. ci[c] \in 1..(Count + 1) /\ Count \in Nat /\ ci[c] # Count + 1
      BY <1>0, <1>4, <2>1, CountType
    <3> QED BY ONLY <3>1
  <2>2. 1 \in 1..(Count + 1)
    BY CountType
  <2>3. ci \in [Clients -> 1..(Count + 1)]
    BY <1>0 DEF Types
  <2>4. ci' = [ci EXCEPT ![c] = IF AfterSend(c) = "send" THEN ci[c] + 1 ELSE 1]
    OBVIOUS
  <2>5. (IF AfterSend(c) = "send" THEN ci[c] + 1 ELSE 1) \in 1..(Count + 1)
    BY ONLY <2>1, <2>2
  <2>6. cpc'[c] = "send" => AfterSend(c) = "send"
    BY <1>5
  <2> QED BY ONLY <2>3, <2>4, <2>5, <2>6
<1>7. Types'
  BY <1>0, <1>3, <1>5, <1>6, EndFacts DEF Types
<1>8. OrderInv'
  <2>1. Ahead(srx[c], <<>>)
    BY DEF Ahead, Ordered
  <2> QED BY <1>0, <1>1, <1>2, <1>3, <2>1 DEF OrderInv
<1>9. SenderInv'
  <2>1. Below(toServer[c], ci[c] + 1) /\ Below(<<>>, ci[c] + 1)
    <3>1. \A j \in 1..Len(toServer[c]) : toServer[c][j].k \in Nat
      BY <1>0, MessageFacts, CountType
    <3> QED BY <1>0, <1>1, <3>1 DEF Below
  <2>2. ASSUME NEW d \in Clients, cpc'[d] \in {"start", "send"}
        PROVE  Below(srx'[d], ci'[d]) /\ Below(toServer'[d], ci'[d])
    <3>1. CASE d = c
      BY <1>2, <1>3, <1>5, <1>6, <2>1, <2>2, <3>1
    <3>2. CASE d # c
      BY <1>0, <1>3, <1>5, <1>6, <2>2, <3>2 DEF SenderInv
    <3> QED BY <3>1, <3>2
  <2> QED BY <1>0, <2>2 DEF SenderInv, Unserved
<1>10. BacklogInv'
  <2>1. \A d \in Clients : cpc'[d] = "start" <=> cpc[d] = "start"
    BY <1>5
  <2>2. \A d \in Clients : Unserved(d)' <=> Unserved(d)
    BY DEF Unserved
  <2>3. \A j \in 1..Len(backlog) : backlog[j] \in Clients
    BY <1>0 DEF Types
  <2> QED BY <1>0, <2>1, <2>2, <2>3 DEF BacklogInv, Unserved
<1> QED BY <1>7, <1>8, <1>9, <1>10 DEF IInv

\* A read of a client that fails logs the youngest line of the log again, if anything.
LEMMA ClientHeldLine ==
  ASSUME IInv, HeldInv, NEW c \in Clients, cpc[c] = "receive",
         ClientTurn(c, cresult[c], cbuffer[c])
  PROVE  Again(crx[c], crx'[c])
<1>0. Types /\ cresult[c] \in Logged /\ cbuffer[c] \in Logged /\ crx[c] \in Seq(Logged)
  BY DEF IInv, Types
<1>1. \/ crx'[c] = crx[c]
      \/ /\ ~(ci[c] > Commands /\ cbuffer[c] = End)
         /\ crx'[c] = WithLine(crx[c], ClientLine(c, cresult[c], cbuffer[c]))
  BY <1>0, ClientTurnEffect
<1>2. CASE crx'[c] = crx[c]
  BY <1>2 DEF Again
<1>3. CASE /\ ~(ci[c] > Commands /\ cbuffer[c] = End)
           /\ crx'[c] = WithLine(crx[c], ClientLine(c, cresult[c], cbuffer[c]))
  <2>1. CASE ci[c] <= Commands
    <3>1. ClientLine(c, cresult[c], cbuffer[c]) = cresult[c] /\ Stale(crx[c], cresult[c])
      BY <1>0, <2>1 DEF ClientLine, HeldInv, ClientHeld
    <3> QED BY <1>0, <1>3, <3>1, StaleAgain
  <2>2. CASE ~(ci[c] <= Commands)
    <3>1. ci[c] > Commands
      <4>1. ci[c] \in Nat /\ Commands \in Nat
        BY <1>0, CountType DEF Types
      <4> QED BY ONLY <2>2, <4>1
    <3>2. ClientLine(c, cresult[c], cbuffer[c]) = cbuffer[c] /\ Stale(crx[c], cbuffer[c])
      BY <1>3, <2>2, <3>1 DEF ClientLine, HeldInv, ClientHeld
    <3> QED BY <1>0, <1>3, <3>2, StaleAgain
  <2> QED BY <2>1, <2>2
<1> QED BY <1>1, <1>2, <1>3

\* A turn of a client's loop in which nothing is read.
LEMMA ClientFailsKeeps ==
  ASSUME IInv, HeldInv, NEW c \in Clients, cpc[c] = "receive",
         ClientTurn(c, cresult[c], cbuffer[c]),
         toServer' \in {toServer, [toServer EXCEPT ![c] = <<>>]},
         UNCHANGED <<backlog, link, toClient, serverVars>>
  PROVE  IInv'
<1> USE DEF serverVars
<1>0. Types /\ cresult[c] \in Logged /\ cbuffer[c] \in Logged
  BY DEF IInv, Types
<1>1. /\ crx' \in [Clients -> Seq(Logged)]
      /\ ci' \in [Clients -> 1..(Count + 1)]
      /\ cpc' \in [Clients -> {"start", "send", "receive", "spin", "gone"}]
      /\ cresult' \in [Clients -> Logged] /\ cbuffer' \in [Clients -> Logged]
      /\ cpc'[c] \in {cpc[c], "spin"}
      /\ \A d \in Clients \ {c} : crx'[d] = crx[d] /\ ci'[d] = ci[d] /\ cpc'[d] = cpc[d]
  BY <1>0, ClientTurnEffect
<1>2. /\ toServer' \in [Clients -> Seq(Message)]
      /\ \A d \in Clients : toServer'[d] \in {toServer[d], <<>>}
  <2>1. <<>> \in Seq(Message) /\ toServer \in [Clients -> Seq(Message)]
    BY <1>0 DEF Types
  <2> QED BY <2>1
<1>3. Types'
  BY <1>0, <1>1, <1>2 DEF Types
<1>4. ASSUME NEW d \in Clients
      PROVE  /\ Reads(srx[d], toServer[d], srx'[d], toServer'[d])
             /\ Reads(crx[d], toClient[d], crx'[d], toClient'[d])
  <2>1. Reads(srx[d], toServer[d], srx'[d], toServer'[d])
    BY <1>2 DEF Reads, Again
  <2>2. Again(crx[d], crx'[d])
    <3>1. CASE d = c
      BY <3>1, ClientHeldLine
    <3>2. CASE d # c
      BY <1>1, <3>2 DEF Again
    <3> QED BY <3>1, <3>2
  <2> QED BY <2>1, <2>2 DEF Reads
<1>5. \A d \in Clients : cpc'[d] \in {"start", "send"} => cpc'[d] = cpc[d] /\ ci'[d] = ci[d]
  BY <1>1
<1> QED BY <1>3, <1>4, <1>5, ReadStepKeeps

LEMMA ClientReadKeeps == ASSUME IInv, NEW c \in Clients, ClientRead(c) PROVE IInv'
<1> USE DEF ClientRead, serverVars
<1> DEFINE pkt == Head(toClient[c])
<1>0. Types /\ toClient[c] \in Seq(Message)
  BY DEF IInv, Types
<1>1. pkt \in Message /\ Tail(toClient[c]) \in Seq(Message)
  BY <1>0
<1>2. ReadAs(pkt, ci[c]) \in {pkt, Bad} /\ ReadAs(pkt, ci[c]) \in Logged
  BY <1>1, ReadAsFacts, EndFacts DEF Logged
<1>3. ClientTake(c, pkt)
  OBVIOUS
<1> HIDE DEF pkt
<1> PICK result \in Logged, buffer \in Logged :
      ClientTurn(c, result, buffer) /\ ClientLine(c, result, buffer) = ReadAs(pkt, ci[c])
  BY <1>0, <1>1, <1>3, ClientTakeEffect
<1>4. /\ crx' \in [Clients -> Seq(Logged)]
      /\ crx'[c] \in {crx[c], WithLine(crx[c], ReadAs(pkt, ci[c]))}
      /\ ci' \in [Clients -> 1..(Count + 1)]
      /\ cpc' \in [Clients -> {"start", "send", "receive", "spin", "gone"}]
      /\ cresult' \in [Clients -> Logged] /\ cbuffer' \in [Clients -> Logged]
      /\ cpc'[c] \in {cpc[c], "spin"}
      /\ \A d \in Clients \ {c} : crx'[d] = crx[d] /\ ci'[d] = ci[d] /\ cpc'[d] = cpc[d]
  BY <1>0, ClientTurnEffect
<1>5. Types'
  BY <1>0, <1>1, <1>4 DEF Types
<1>6. ASSUME NEW d \in Clients
      PROVE  /\ Reads(srx[d], toServer[d], srx'[d], toServer'[d])
             /\ Reads(crx[d], toClient[d], crx'[d], toClient'[d])
  <2>0. Reads(srx[d], toServer[d], srx'[d], toServer'[d])
    BY DEF Reads, Again
  <2>1. CASE d = c
    <3>1. toClient[c] # <<>> /\ toClient'[c] = Tail(toClient[c]) /\ crx[c] \in Seq(Logged)
      BY <1>0 DEF Types
    <3>2. WithLine(crx[c], ReadAs(pkt, ci[c])) \in {crx[c], Append(crx[c], ReadAs(pkt, ci[c]))}
      BY <1>2, <3>1, WithLineFacts
    <3>3. crx'[c] \in {crx[c], Append(crx[c], Head(toClient[c])), Append(crx[c], Bad)}
      BY <1>2, <1>4, <3>2 DEF pkt
    <3> QED BY <2>0, <2>1, <3>1, <3>3 DEF Reads
  <2>2. CASE d # c
    <3>1. toClient'[d] = toClient[d] /\ crx'[d] = crx[d]
      BY <1>0, <1>4, <2>2 DEF Types
    <3> QED BY <2>0, <3>1 DEF Reads, Again
  <2> QED BY <2>1, <2>2
<1>7. \A d \in Clients : cpc'[d] \in {"start", "send"} => cpc'[d] = cpc[d] /\ ci'[d] = ci[d]
  BY <1>4
<1> QED BY <1>5, <1>6, <1>7, ReadStepKeeps

\* A client that goes away, or a flag that is set, changes nothing here.
LEMMA GoneKeeps ==
  ASSUME IInv, NEW c \in Clients,
         cpc' \in {cpc, [cpc EXCEPT ![c] = "gone"]}, UNCHANGED <<linkVars, serverVars, ci, cresult, cbuffer, crx>>
  PROVE  IInv'
<1> USE DEF linkVars, serverVars
<1>0. Types
  BY DEF IInv
<1>1. Types'
  BY <1>0 DEF Types
<1>2. \A d \in Clients : /\ Reads(srx[d], toServer[d], srx'[d], toServer'[d])
                         /\ Reads(crx[d], toClient[d], crx'[d], toClient'[d])
  BY DEF Reads, Again
<1>3. \A d \in Clients : cpc'[d] \in {"start", "send"} => cpc'[d] = cpc[d] /\ ci'[d] = ci[d]
  BY <1>0 DEF Types
<1> QED BY <1>1, <1>2, <1>3, ReadStepKeeps

LEMMA StutterKeeps == ASSUME IInv, UNCHANGED vars PROVE IInv'
<1> USE DEF vars, linkVars, serverVars, clientVars
<1>1. Types'
  BY DEF IInv, Types
<1>2. \A d \in Clients : /\ Reads(srx[d], toServer[d], srx'[d], toServer'[d])
                         /\ Reads(crx[d], toClient[d], crx'[d], toClient'[d])
  BY DEF Reads, Again
<1> QED BY <1>1, <1>2, ReadStepKeeps

LEMMA NextKeeps == IInv /\ HeldInv /\ [Next]_vars => IInv'
<1> SUFFICES ASSUME IInv, HeldInv, [Next]_vars PROVE IInv'
  OBVIOUS
<1>1. CASE Server
  BY <1>1, ListenKeeps, AcceptKeeps, ServerReadKeeps, ServerReadFailsKeeps, ServerSendKeeps,
     ServerEndKeeps DEF Server
<1>2. CASE ServerSignal
  BY <1>2, ServerSignalKeeps
<1>3. ASSUME NEW c \in Clients, Client(c) PROVE IInv'
  <2>1. CASE ClientReadFails(c)
    BY <2>1, ClientFailsKeeps DEF ClientReadFails
  <2>2. CASE ClientExit(c)
    BY <2>2, GoneKeeps DEF ClientExit
  <2> QED BY <1>3, <2>1, <2>2, ConnectKeeps, ClientSendKeeps, ClientReadKeeps DEF Client
<1>4. ASSUME NEW c \in Clients, sigHandler(c) PROVE IInv'
  <2>1. CASE cpc[c] = "receive" /\ ClientTurn(c, cresult[c], cbuffer[c])
    BY <1>4, <2>1, ClientFailsKeeps DEF sigHandler, linkVars
  <2>2. CASE UNCHANGED <<cpc, ci, cresult, cbuffer, crx>>
    BY <1>4, <2>2, GoneKeeps DEF sigHandler
  <2> QED BY <1>4, <2>1, <2>2 DEF sigHandler
<1>5. ASSUME NEW c \in Clients, Kill(c) PROVE IInv'
  BY <1>5, GoneKeeps DEF Kill
<1> QED BY <1>1, <1>2, <1>3, <1>4, <1>5, StutterKeeps DEF Next

-----------------------------------------------------------------------------
(* What result and buffer hold.                                             *)

\* A line that may come next in a log: one that a failed read logs, or a younger one.
ComesNext(log, line) == Stale(log, line) \/ \A j \in 1..Len(log) : log[j].k < line.k

\* What a read makes of a packet comes next in the log.
LEMMA PacketComesNext ==
  ASSUME NEW log \in Seq(Logged), NEW wire \in Seq(Message), wire # <<>>, Ahead(log, wire),
         NEW k
  PROVE  /\ Head(wire) \in Message /\ ReadAs(Head(wire), k) \in Logged
         /\ ComesNext(log, ReadAs(Head(wire), k))
         /\ \/ ReadAs(Head(wire), k) = Bad
            \/ \A j \in 1..Len(log) : log[j].k < ReadAs(Head(wire), k).k
<1>1. Head(wire) = wire[1] /\ wire[1] \in Message /\ 1 \in 1..Len(wire)
  BY TailFacts
<1>2. Head(wire).k \in 1..(Count + 1) /\ Head(wire) \in Logged
  BY <1>1, MessageFacts
<1>3. ASSUME NEW j \in 1..Len(log) PROVE log[j].k < Head(wire).k
  <2>1. CASE log[j] = Bad
    BY <1>2, <2>1, CountType DEF Bad
  <2>2. CASE log[j] # Bad
    BY <1>1, <2>2 DEF Ahead
  <2> QED BY <2>1, <2>2
<1>4. ReadAs(Head(wire), k) \in {Head(wire), Bad}
  BY ReadAsFacts
<1> QED BY <1>1, <1>2, <1>3, <1>4, EndFacts DEF ComesNext, Stale

\* A turn of the server's loop that leaves alone what is not due.
LEMMA ServerTurnHeld ==
  ASSUME IInv, NEW result \in Results, NEW buffer \in Logged, ServerTurn(result, buffer),
         UNCHANGED data_socket,
         data_socket = NoSocket \/ si <= Commands => buffer \in {Bad, End},
         data_socket # NoSocket /\ si <= Commands /\ result.from = data_socket =>
           ComesNext(srx[data_socket], result.pkt),
         data_socket # NoSocket /\ si > Commands =>
           buffer = End \/ ComesNext(srx[data_socket], buffer)
  PROVE  ServerHeld'
<1>0. /\ Types /\ si \in Nat /\ Commands \in Nat /\ si' \in Nat
      /\ sresult' = result /\ sbuffer' = buffer
      /\ spc' \in {"receive", "send", "dead"}
      /\ spc' = "send" => buffer = End
      /\ spc' = "receive" =>
           /\ ~(si > Commands /\ buffer = End)
           /\ si' = IF si <= Count THEN si + 1 ELSE si
           /\ data_socket \in Clients =>
                srx'[data_socket] = WithLine(srx[data_socket], ServerLine(result, buffer))
  <2>1. Types
    BY DEF IInv
  <2>2. si \in Nat /\ Commands \in Nat
    BY <2>1, CountType DEF Types
  <2>3. si' \in 1..(Count + 1) /\ Count \in Nat
    BY <2>1, ServerTurnEffect, CountType
  <2> QED BY <2>1, <2>2, <2>3, ServerTurnEffect
<1>1. ASSUME spc' = "receive", data_socket # NoSocket
      PROVE  /\ si' <= Commands /\ result.from = data_socket => Stale(srx'[data_socket], result.pkt)
             /\ si' > Commands => buffer = End \/ Stale(srx'[data_socket], buffer)
             /\ si' <= Commands => buffer \in {Bad, End}
  <2>1. data_socket \in Clients /\ srx[data_socket] \in Seq(Logged)
    BY <1>0, <1>1 DEF Types
  <2>2. srx'[data_socket] = WithLine(srx[data_socket], ServerLine(result, buffer))
    BY <1>0, <1>1, <2>1
  <2>3. CASE si <= Commands
    <3>1. ASSUME result.from = data_socket PROVE Stale(srx'[data_socket], result.pkt)
      <4>1. ServerLine(result, buffer) = result.pkt /\ result.pkt \in Logged
        BY <2>3, <3>1 DEF ServerLine, Of, Results
      <4>2. ComesNext(srx[data_socket], result.pkt)
        BY <1>1, <2>3, <3>1
      <4> QED BY <2>1, <2>2, <4>1, <4>2, StaleAfter DEF ComesNext
    <3>2. buffer \in {Bad, End} /\ (buffer = End \/ Stale(srx'[data_socket], buffer))
      BY <2>3 DEF Stale
    <3> QED BY <3>1, <3>2
  <2>4. CASE si > Commands
    <3>1. ServerLine(result, buffer) = buffer /\ ComesNext(srx[data_socket], buffer)
      BY <1>0, <1>1, <2>4 DEF ServerLine
    <3>2. Stale(srx'[data_socket], buffer)
      BY <2>1, <2>2, <3>1, StaleAfter DEF ComesNext
    <3>3. ~(si' <= Commands)
      <4>1. Count \in Nat /\ si' = IF si <= Count THEN si + 1 ELSE si
        BY <1>0, <1>1, CountType
      <4> QED BY ONLY <1>0, <2>4, <4>1
    <3> QED BY <3>2, <3>3
  <2>5. si <= Commands \/ si > Commands
    BY ONLY <1>0
  <2> QED BY <2>3, <2>4, <2>5
<1>2. CASE spc' = "receive" /\ data_socket # NoSocket
  BY <1>0, <1>1, <1>2 DEF ServerHeld
<1>3. CASE spc' = "receive" /\ data_socket = NoSocket
  BY <1>0, <1>3 DEF ServerHeld
<1>4. CASE spc' # "receive"
  BY <1>0, <1>4 DEF ServerHeld
<1> QED BY <1>2, <1>3, <1>4

LEMMA ServerHeldKeeps ==
  ASSUME IInv, HeldInv, [Next]_vars
  PROVE  ServerHeld'
<1>0. ServerHeld /\ Types /\ sresult \in Results /\ sbuffer \in Logged
  BY DEF HeldInv, IInv, Types, Results
<1>1. CASE UNCHANGED <<spc, si, data_socket, sresult, sbuffer, srx>>
  BY <1>0, <1>1 DEF ServerHeld
<1>2. CASE Listen
  BY <1>0, <1>2 DEF Listen, ServerHeld
<1>3. CASE Accept
  <2>1. backlog \in Seq(Clients) /\ backlog # <<>> /\ data_socket' = Head(backlog) /\ BacklogInv
    BY <1>3 DEF Accept, IInv, Types
  <2>2. data_socket' = backlog[1] /\ 1 \in 1..Len(backlog)
    BY <2>1, TailFacts
  <2>3. sresult.from # data_socket'
    BY <2>1, <2>2 DEF BacklogInv
  <2>4. spc = "accept" /\ spc' = "receive" /\ si' = 1 /\ UNCHANGED <<sresult, sbuffer, srx>>
    BY <1>3 DEF Accept
  <2>5. ~(1 > Commands)
    BY CountType
  <2> QED BY <1>0, <2>3, <2>4, <2>5 DEF ServerHeld
<1>4. CASE ServerRead
  <2> DEFINE d == data_socket
             pkt == Head(toServer[d])
  <2>1. /\ d \in Clients /\ d # NoSocket /\ srx[d] \in Seq(Logged)
        /\ toServer[d] \in Seq(Message) /\ toServer[d] # <<>>
        /\ Ahead(srx[d], toServer[d]) /\ spc = "receive" /\ ServerTake(pkt) /\ UNCHANGED data_socket
    BY <1>0, <1>4 DEF ServerRead, Types, IInv, OrderInv
  <2>2. pkt \in Message /\ ReadAs(pkt, si) \in Logged /\ ComesNext(srx[d], ReadAs(pkt, si))
    BY <2>1, PacketComesNext
  <2> HIDE DEF pkt
  <2>3. PICK result \in Results, buffer \in Logged :
          /\ ServerTurn(result, buffer)
          /\ si <= Commands => /\ result = [from |-> d, pkt |-> ReadAs(pkt, si)]
                               /\ buffer = sbuffer
          /\ si > Commands => result = sresult /\ buffer = ReadAs(pkt, si)
    BY <1>0, <2>1, <2>2, ServerTakeEffect
  <2>4. si <= Commands => buffer \in {Bad, End} /\ ComesNext(srx[d], result.pkt)
    BY <1>0, <2>1, <2>2, <2>3 DEF ServerHeld
  <2> QED BY <2>1, <2>2, <2>3, <2>4, ServerTurnHeld
<1>5. CASE spc = "receive" /\ ServerTurn(sresult, sbuffer) /\ UNCHANGED data_socket
  BY <1>0, <1>5, ServerTurnHeld DEF ServerHeld, ComesNext
<1>6. CASE ServerSend
  BY <1>0, <1>6 DEF ServerSend, Log, ServerHeld
<1>7. CASE ServerEnd
  BY <1>7 DEF ServerEnd, ServerHeld
<1>8. CASE spc = "accept" /\ spc' = "receive" /\ data_socket' = NoSocket
           /\ UNCHANGED <<sresult, sbuffer, srx>>
  BY <1>0, <1>8 DEF ServerHeld
<1>9. CASE ServerSignal
  BY <1>1, <1>5, <1>8, <1>9 DEF ServerSignal
<1>10. CASE ServerReadFails
  BY <1>5, <1>10 DEF ServerReadFails
<1>11. ASSUME NEW c \in Clients, Client(c) \/ sigHandler(c) \/ Kill(c) PROVE ServerHeld'
  BY <1>1, <1>11, Zenon DEF Client, Connect, ClientSend, ClientRead, ClientReadFails,
     ClientExit, sigHandler, Kill, serverVars
<1>12. CASE UNCHANGED vars
  BY <1>1, <1>12 DEF vars, serverVars
<1> QED BY <1>2, <1>3, <1>4, <1>6, <1>7, <1>9, <1>10, <1>11, <1>12 DEF Next, Server

\* A turn of a client's loop that leaves alone what is not due.
LEMMA ClientTurnHeld ==
  ASSUME IInv, NEW c \in Clients, cpc[c] = "receive",
         NEW result \in Logged, NEW buffer \in Logged, ClientTurn(c, result, buffer),
         ci[c] <= Commands => buffer = End /\ ComesNext(crx[c], result),
         ci[c] > Commands => buffer = End \/ ComesNext(crx[c], buffer)
  PROVE  ClientHeld(c)'
<1>0. /\ Types /\ crx[c] \in Seq(Logged) /\ ci[c] \in Nat /\ Commands \in Nat /\ Count \in Nat
      /\ Commands < Count
  <2>1. Types /\ crx[c] \in Seq(Logged) /\ ci[c] \in 1..(Count + 1)
    BY DEF IInv, Types
  <2> QED BY <2>1, CountType
<1>1. /\ cresult'[c] = result /\ cbuffer'[c] = buffer
      /\ \/ cpc'[c] = "spin"
         \/ /\ ~(ci[c] > Commands /\ buffer = End)
            /\ cpc'[c] = cpc[c] /\ ci'[c] = (IF ci[c] <= Count THEN ci[c] + 1 ELSE ci[c])
            /\ crx'[c] = WithLine(crx[c], ClientLine(c, result, buffer))
  BY <1>0, ClientTurnEffect
<1>2. CASE cpc'[c] = "spin"
  BY <1>2 DEF ClientHeld
<1>3. CASE /\ ~(ci[c] > Commands /\ buffer = End)
           /\ cpc'[c] = cpc[c] /\ ci'[c] = (IF ci[c] <= Count THEN ci[c] + 1 ELSE ci[c])
           /\ crx'[c] = WithLine(crx[c], ClientLine(c, result, buffer))
  <2>1. CASE ci[c] <= Commands
    <3>1. ClientLine(c, result, buffer) = result /\ buffer = End
      BY <2>1 DEF ClientLine
    <3>2. Stale(crx'[c], result)
      BY <1>0, <1>3, <2>1, <3>1, StaleAfter DEF ComesNext
    <3> QED BY <1>1, <1>3, <3>1, <3>2 DEF ClientHeld
  <2>2. CASE ci[c] > Commands
    <3>1. ClientLine(c, result, buffer) = buffer /\ ComesNext(crx[c], buffer)
      BY <1>0, <1>3, <2>2 DEF ClientLine
    <3>2. Stale(crx'[c], buffer)
      BY <1>0, <1>3, <3>1, StaleAfter DEF ComesNext
    <3>3. ~(ci'[c] <= Commands)
      <4> PICK n \in Nat : n = ci[c]
        BY <1>0
      <4>1. ci'[c] \in {n, n + 1} /\ n > Commands
        BY <1>3, <2>2
      <4> QED BY ONLY <1>0, <4>1
    <3> QED BY <1>1, <1>3, <3>2, <3>3 DEF ClientHeld
  <2>3. ci[c] <= Commands \/ ci[c] > Commands
    BY ONLY <1>0
  <2> QED BY <2>1, <2>2, <2>3
<1> QED BY <1>1, <1>2, <1>3

LEMMA ClientHeldKeeps ==
  ASSUME IInv, HeldInv, [Next]_vars, NEW c \in Clients
  PROVE  ClientHeld(c)'
<1>0. ClientHeld(c) /\ Types /\ cresult[c] \in Logged /\ cbuffer[c] \in Logged
  BY DEF HeldInv, IInv, Types
<1>1. CASE UNCHANGED <<cpc[c], ci[c], cresult[c], cbuffer[c], crx[c]>>
  BY <1>0, <1>1 DEF ClientHeld
<1>2. CASE Connect(c)
  <2>1. cpc[c] = "start" /\ cpc'[c] = "send" /\ cresult' = cresult
    BY <1>0, <1>2 DEF Connect, Types
  <2> QED BY <1>0, <2>1 DEF ClientHeld
<1>3. CASE ClientSend(c)
  <2>1. /\ cpc[c] = "send" /\ cpc'[c] \in {AfterSend(c), "gone"} /\ cresult' = cresult
        /\ crx' = crx /\ AfterSend(c) \in {"send", "receive"}
        /\ AfterSend(c) = "receive" => cbuffer'[c] = End /\ ci'[c] = 1
    BY <1>0, <1>3 DEF ClientSend, Types, AfterSend
  <2>2. CASE cpc'[c] = "receive"
    <3>1. cbuffer'[c] = End /\ ci'[c] = 1 /\ cresult'[c] = Bad
      BY <1>0, <2>1, <2>2 DEF ClientHeld
    <3>2. ~(1 > Commands) /\ Stale(crx'[c], Bad)
      BY CountType DEF Stale
    <3> QED BY <2>2, <3>1, <3>2 DEF ClientHeld
  <2>3. CASE cpc'[c] # "receive"
    BY <1>0, <2>1, <2>3 DEF ClientHeld
  <2> QED BY <2>2, <2>3
<1>4. CASE ClientRead(c)
  <2> DEFINE pkt == Head(toClient[c])
  <2>1. /\ crx[c] \in Seq(Logged) /\ toClient[c] \in Seq(Message) /\ toClient[c] # <<>>
        /\ Ahead(crx[c], toClient[c]) /\ cpc[c] = "receive" /\ ClientTake(c, pkt)
    BY <1>0, <1>4 DEF ClientRead, Types, IInv, OrderInv
  <2>2. pkt \in Message /\ ComesNext(crx[c], ReadAs(pkt, ci[c]))
    BY <2>1, PacketComesNext
  <2> HIDE DEF pkt
  <2>3. PICK result \in Logged, buffer \in Logged :
          /\ ClientTurn(c, result, buffer)
          /\ ci[c] <= Commands => result = ReadAs(pkt, ci[c]) /\ buffer = cbuffer[c]
          /\ ci[c] > Commands => result = cresult[c] /\ buffer = ReadAs(pkt, ci[c])
    BY <1>0, <2>1, <2>2, ClientTakeEffect
  <2>4. ci[c] <= Commands => buffer = End
    BY <1>0, <2>1, <2>3 DEF ClientHeld
  <2> QED BY <2>1, <2>2, <2>3, <2>4, ClientTurnHeld
<1>5. CASE cpc[c] = "receive" /\ ClientTurn(c, cresult[c], cbuffer[c])
  BY <1>0, <1>5, ClientTurnHeld DEF ClientHeld, ComesNext
<1>6. CASE ClientReadFails(c)
  BY <1>5, <1>6 DEF ClientReadFails
<1>7. CASE cpc' = [cpc EXCEPT ![c] = "gone"]
  BY <1>0, <1>7 DEF ClientHeld, Types
<1>8. CASE sigHandler(c)
  BY <1>1, <1>5, <1>8 DEF sigHandler
<1>9. ASSUME NEW b \in Clients, b # c, Client(b) \/ sigHandler(b) \/ Kill(b)
      PROVE  ClientHeld(c)'
  <2>1. UNCHANGED <<cpc[c], ci[c], cresult[c], cbuffer[c], crx[c]>>
    BY <1>0, <1>9 DEF Client, Connect, ClientSend, ClientRead, ClientReadFails, ClientExit,
       sigHandler, Kill, Types, ClientTake, ClientTurn
  <2> QED BY <1>1, <2>1
<1>10. CASE Server \/ ServerSignal \/ UNCHANGED vars
  <2>1. UNCHANGED clientVars
    BY <1>10, Zenon DEF Server, Listen, Accept, ServerRead, ServerReadFails, ServerSend,
       ServerEnd, ServerSignal, vars
  <2> QED BY <1>1, <2>1 DEF clientVars
<1>11. CASE Client(c) \/ Kill(c)
  BY <1>2, <1>3, <1>4, <1>6, <1>7, <1>11 DEF Client, ClientExit, Kill
<1> QED BY <1>8, <1>9, <1>10, <1>11 DEF Next

-----------------------------------------------------------------------------
(* The end of a connection.                                                 *)

\* A step of client c alone.
LEMMA ClosedClient ==
  ASSUME IInv, ClosedInv, NEW c \in Clients,
         UNCHANGED <<backlog, link, spc, si, data_socket>>,
         \A d \in Clients \ {c} : UNCHANGED <<cpc[d], ci[d], toClient[d]>>,
         \A n \in Nat : Pending(c, n) => Pending(c, n)',
         link[c] = "closed" => Ended(c)'
  PROVE  ClosedInv'
<1>0. Types /\ si - 1 \in Nat /\ Count + 1 \in Nat
  <2>1. Types /\ si \in 1..(Count + 1) /\ Count \in Nat
    BY CountType DEF IInv, Types
  <2> QED BY <2>1
<1>1. ASSUME NEW d \in Clients, NEW n \in Nat, Pending(d, n) PROVE Pending(d, n)'
  BY <1>1 DEF Pending
<1>2. ASSUME spc' = "send", data_socket' # NoSocket PROVE Pending(data_socket, si - 1)'
  <2>1. data_socket \in Clients /\ Pending(data_socket, si - 1)
    BY <1>0, <1>2 DEF Types, ClosedInv
  <2>2. Pending(data_socket, si - 1) => Pending(data_socket, si - 1)'
    <3> PICK d \in Clients, n \in Nat : d = data_socket /\ n = si - 1 /\ d = data_socket' /\ n = si' - 1
      BY <1>0, <2>1
    <3>1. Pending(d, n) => Pending(d, n)'
      BY <1>1
    <3> QED BY <3>1 DEF Pending
  <2> QED BY <2>1, <2>2
<1>3. ASSUME NEW d \in Clients, link'[d] = "closed" PROVE Ended(d)'
  <2>1. CASE d = c
    BY <1>3, <2>1
  <2>2. CASE d # c
    BY <1>3, <2>2 DEF ClosedInv, Ended, Pending
  <2> QED BY <2>1, <2>2
<1> QED BY <1>2, <1>3 DEF ClosedInv

\* A turn of a client's loop that takes nothing from the wire.
LEMMA ClosedFailedTurn ==
  ASSUME IInv, ClosedInv, NEW c \in Clients, cpc[c] = "receive",
         ClientTurn(c, cresult[c], cbuffer[c]), UNCHANGED <<backlog, link, toClient, serverVars>>
  PROVE  ClosedInv'
<1>0. Types /\ cresult[c] \in Logged /\ cbuffer[c] \in Logged
  BY DEF IInv, Types
<1>1. PICK i \in Nat, m \in Nat : i = ci[c] /\ m = Len(toClient[c]) /\ i <= Count + 1
  <2>1. ci[c] \in 1..(Count + 1) /\ toClient[c] \in Seq(Message) /\ Count \in Nat
    BY <1>0, CountType DEF Types
  <2> QED BY <2>1
<1>2. /\ \/ cpc'[c] = "spin"
         \/ cpc'[c] = "receive" /\ ci'[c] = (IF i <= Count THEN i + 1 ELSE i)
      /\ \A d \in Clients \ {c} : ci'[d] = ci[d] /\ cpc'[d] = cpc[d]
  BY <1>0, <1>1, ClientTurnEffect
<1>3. ASSUME NEW n \in Nat, Pending(c, n) PROVE Pending(c, n)'
  <2>1. CASE cpc'[c] = "spin"
    BY <2>1 DEF Pending
  <2>2. CASE cpc'[c] = "receive" /\ ci'[c] = (IF i <= Count THEN i + 1 ELSE i)
    <3>1. i = Count + 1 \/ i + m >= n + 1
      BY <1>1, <1>3 DEF Pending
    <3>2. Count \in Nat
      BY CountType
    <3>3. ci'[c] = Count + 1 \/ ci'[c] + m >= n + 1
      <4>1. CASE i = Count + 1
        BY <2>2, <3>2, <4>1
      <4>2. CASE i # Count + 1
        <5>1. i <= Count /\ i + 1 + m >= n + 1
          BY ONLY <1>1, <3>1, <3>2, <4>2
        <5> QED BY <2>2, <5>1
      <4> QED BY <4>1, <4>2
    <3> QED BY <1>1, <2>2, <3>3 DEF Pending
  <2> QED BY <1>2, <2>1, <2>2
<1>4. ASSUME link[c] = "closed" PROVE Ended(c)'
  <2>1. Ended(c) /\ Count + 1 \in Nat /\ cpc'[c] # "start"
    BY <1>2, <1>4, CountType DEF ClosedInv
  <2>2. Pending(c, Count + 1)'
    BY <1>3, <2>1 DEF Ended
  <2>3. toClient'[c] # <<>> /\ toClient'[c][Len(toClient'[c])] = End
    BY <2>1 DEF Ended
  <2> QED BY <2>1, <2>2, <2>3 DEF Ended
<1> QED BY <1>2, <1>3, <1>4, ClosedClient DEF serverVars

LEMMA ClosedClientRead ==
  ASSUME IInv, ClosedInv, NEW c \in Clients, ClientRead(c)
  PROVE  ClosedInv'
<1> USE DEF ClientRead, serverVars
<1> DEFINE wire == toClient[c]
           pkt == Head(wire)
<1>0. /\ Types /\ wire \in Seq(Message) /\ wire # <<>> /\ Len(wire) \in Nat /\ Len(wire) >= 1
      /\ toClient'[c] = Tail(wire) /\ Len(Tail(wire)) = Len(wire) - 1
      /\ pkt = wire[1] /\ pkt \in Message /\ cpc[c] = "receive" /\ ClientTake(c, pkt)
      /\ \A j \in 1..Len(Tail(wire)) : Tail(wire)[j] = wire[j + 1]
  <2>1. Types /\ wire \in Seq(Message) /\ toClient'[c] = Tail(wire)
    BY DEF IInv, Types
  <2> QED BY <2>1, TailFacts
<1> HIDE DEF pkt, wire
<1>1. PICK i \in Nat, m \in Nat : i = ci[c] /\ m = Len(wire) /\ i <= Count + 1 /\ m >= 1
  <2>1. ci[c] \in 1..(Count + 1) /\ Count \in Nat
    BY <1>0, CountType DEF Types
  <2>2. ci[c] \in Nat /\ ci[c] <= Count + 1
    BY ONLY <2>1
  <2>3. Len(wire) \in Nat /\ Len(wire) >= 1
    BY <1>0
  <2> QED BY ONLY <2>2, <2>3
<1>2. PICK result \in Logged, buffer \in Logged :
        /\ ClientTurn(c, result, buffer)
        /\ ci[c] > Commands => result = cresult[c] /\ buffer = ReadAs(pkt, ci[c])
  BY <1>0, ClientTakeEffect
<1>3. /\ \/ cpc'[c] = "spin"
         \/ /\ cpc'[c] = "receive" /\ ci'[c] = (IF i <= Count THEN i + 1 ELSE i)
            /\ ~(ci[c] > Commands /\ buffer = End)
      /\ \A d \in Clients \ {c} : ci'[d] = ci[d] /\ cpc'[d] = cpc[d]
  BY <1>0, <1>1, <1>2, ClientTurnEffect
<1>4. \A d \in Clients \ {c} : toClient'[d] = toClient[d]
  BY <1>0 DEF Types
<1>5. Count \in Nat /\ Commands \in Nat /\ Commands < Count
  BY CountType
<1>6. ASSUME NEW n \in Nat, Pending(c, n) PROVE Pending(c, n)'
  <2>1. CASE cpc'[c] = "spin"
    BY <2>1 DEF Pending
  <2>2. CASE cpc'[c] = "receive" /\ ci'[c] = (IF i <= Count THEN i + 1 ELSE i)
    <3>1. i = Count + 1 \/ i + m >= n + 1
      BY <1>0, <1>1, <1>6 DEF Pending, wire
    <3>2. ci'[c] = Count + 1 \/ ci'[c] + (m - 1) >= n + 1
      <4>1. CASE i = Count + 1
        BY <2>2, <1>5, <4>1
      <4>2. CASE i # Count + 1
        <5>1. i <= Count /\ (i + 1) + (m - 1) >= n + 1
          BY ONLY <1>1, <3>1, <1>5, <4>2
        <5> QED BY <2>2, <5>1
      <4> QED BY <4>1, <4>2
    <3>3. Len(toClient'[c]) = m - 1
      BY <1>0, <1>1
    <3> QED BY <2>2, <3>2, <3>3 DEF Pending
  <2> QED BY <1>3, <2>1, <2>2
<1>7. ASSUME link[c] = "closed" PROVE Ended(c)'
  <2>1. Ended(c) /\ cpc'[c] # "start"
    BY <1>3, <1>7 DEF ClosedInv
  <2>2. Pending(c, Count + 1)'
    BY <1>5, <1>6, <2>1 DEF Ended
  <2>3. wire[m] = End
    BY <1>0, <1>1, <2>1 DEF Ended, wire
  <2>4. ASSUME cpc'[c] \in {"send", "receive"}, m = 1 PROVE FALSE
    <3>1. i = Count + 1
      <4>1. i = Count + 1 \/ i + m >= (Count + 1) + 1
        BY <1>0, <1>1, <2>1 DEF Ended, Pending, wire
      <4> QED BY ONLY <1>1, <1>5, <2>4, <4>1
    <3>2. ReadAs(End, Count + 1) = End
      <4>1. Count + 1 \in 1..(Count + 1)
        BY <1>5
      <4> QED BY <4>1, TurnFacts DEF End
    <3>3. i > Commands
      BY ONLY <1>1, <1>5, <3>1
    <3>4. buffer = End
      BY <1>0, <1>1, <1>2, <2>3, <2>4, <3>1, <3>2, <3>3
    <3> QED BY <1>1, <1>3, <2>4, <3>3, <3>4
  <2>5. ASSUME cpc'[c] \in {"send", "receive"}
        PROVE  toClient'[c] # <<>> /\ toClient'[c][Len(toClient'[c])] = End
    <3>1. m - 1 \in Nat /\ m - 1 >= 1 /\ (m - 1) + 1 = m
      BY ONLY <1>1, <2>4, <2>5
    <3>2. Len(Tail(wire)) = m - 1 /\ Tail(wire)[m - 1] = wire[(m - 1) + 1]
      BY <1>0, <1>1, <3>1
    <3>3. toClient'[c] = Tail(wire)
      BY <1>0
    <3>4. Len(toClient'[c]) = m - 1 /\ toClient'[c][m - 1] = End
      BY <2>3, <3>1, <3>2, <3>3
    <3>5. toClient'[c] # <<>>
      BY <3>1, <3>4
    <3> QED BY <3>4, <3>5
  <2> QED BY <2>1, <2>2, <2>5 DEF Ended
<1> QED BY <1>3, <1>4, <1>6, <1>7, ClosedClient

LEMMA ClosedClientSend ==
  ASSUME IInv, ClosedInv, NEW c \in Clients, ClientSend(c)
  PROVE  ClosedInv'
<1> USE DEF ClientSend, serverVars
<1>0. /\ Types /\ cpc[c] = "send" /\ cpc'[c] \in {AfterSend(c), "gone"}
      /\ AfterSend(c) \in {"send", "receive"} /\ (AfterSend(c) = "receive" => ci'[c] = 1)
      /\ \A d \in Clients \ {c} : ci'[d] = ci[d] /\ cpc'[d] = cpc[d]
  BY DEF IInv, Types, AfterSend
<1>1. PICK m \in Nat : m = Len(toClient[c])
  BY <1>0 DEF Types
<1>2. ASSUME NEW n \in Nat, Pending(c, n) PROVE Pending(c, n)'
  <2>1. m >= n
    BY <1>0, <1>1, <1>2 DEF Pending
  <2>2. 1 + m >= n + 1
    BY ONLY <2>1, <1>2
  <2> QED BY <1>0, <1>1, <2>1, <2>2 DEF Pending
<1>3. ASSUME link[c] = "closed" PROVE Ended(c)'
  <2>1. Ended(c) /\ Count + 1 \in Nat /\ cpc'[c] # "start"
    BY <1>0, <1>3, CountType DEF ClosedInv
  <2>2. Pending(c, Count + 1)'
    BY <1>2, <2>1 DEF Ended
  <2> QED BY <1>0, <2>1, <2>2 DEF Ended
<1> QED BY <1>0, <1>2, <1>3, ClosedClient

LEMMA ClosedGone ==
  ASSUME IInv, ClosedInv, NEW c \in Clients, cpc' \in {cpc, [cpc EXCEPT ![c] = "gone"]},
         UNCHANGED <<linkVars, serverVars, ci>>
  PROVE  ClosedInv'
<1> USE DEF linkVars, serverVars
<1>1. Types /\ cpc'[c] \in {cpc[c], "gone"} /\ \A d \in Clients \ {c} : cpc'[d] = cpc[d]
  BY DEF IInv, Types
<1>2. \A n \in Nat : Pending(c, n) => Pending(c, n)'
  BY <1>1 DEF Pending
<1>3. link[c] = "closed" => Ended(c)'
  BY <1>1, <1>2 DEF ClosedInv, Ended, Pending
<1> QED BY <1>1, <1>2, <1>3, ClosedClient

LEMMA ClosedConnect ==
  ASSUME IInv, ClosedInv, NEW c \in Clients, Connect(c)
  PROVE  ClosedInv'
<1> USE DEF Connect, serverVars
<1>0. /\ Types /\ backlog \in Seq(Clients) /\ link[c] # "closed" /\ data_socket # c
      /\ \A d \in Clients \ {c} : cpc'[d] = cpc[d] /\ link'[d] = link[d]
      /\ link'[c] \in {"up", link[c]}
  BY DEF IInv, Types, ClosedInv, Ended, BacklogInv
<1>1. \A j \in 1..Len(backlog') : link'[backlog'[j]] = "up"
  <2>1. \A j \in 1..Len(backlog) : link[backlog[j]] = "up" /\ backlog[j] \in Clients
    BY <1>0 DEF ClosedInv
  <2>2. CASE UNCHANGED <<link, backlog>>
    BY <2>1, <2>2
  <2>3. CASE link' = [link EXCEPT ![c] = "up"] /\ backlog' = Append(backlog, c)
    <3>1. /\ Len(backlog) \in Nat /\ Len(backlog') = Len(backlog) + 1
          /\ backlog'[Len(backlog) + 1] = c
          /\ \A j \in 1..Len(backlog) : backlog'[j] = backlog[j]
      BY <1>0, <2>3, AppendFacts
    <3>2. link'[c] = "up"
      BY <1>0, <2>3 DEF Types
    <3>3. ASSUME NEW j \in 1..Len(backlog') PROVE link'[backlog'[j]] = "up"
      <4>1. CASE j = Len(backlog) + 1
        BY <3>1, <3>2, <4>1
      <4>2. CASE j \in 1..Len(backlog)
        BY <1>0, <2>1, <3>1, <3>2, <4>2
      <4> QED BY <3>1, <4>1, <4>2
    <3> QED BY <3>3
  <2> QED BY <2>2, <2>3
<1>2. ASSUME spc \in {"receive", "send"}, data_socket # NoSocket
      PROVE  /\ link'[data_socket] = "up"
             /\ spc = "send" => Pending(data_socket, si - 1)'
  BY <1>0, <1>2 DEF ClosedInv, Types, Pending
<1>3. ASSUME NEW d \in Clients, link'[d] = "closed" PROVE Ended(d)'
  BY <1>0, <1>3 DEF ClosedInv, Ended, Pending
<1> QED BY <1>1, <1>2, <1>3 DEF ClosedInv

\* A step of the server that sends nothing.
LEMMA ClosedSilent ==
  ASSUME IInv, ClosedInv, data_socket' \in Clients \cup {NoSocket},
         UNCHANGED <<link, toClient, cpc, ci>>,
         \A j \in 1..Len(backlog') : link[backlog'[j]] = "up",
         spc' \in {"receive", "send"} /\ data_socket' # NoSocket => link[data_socket'] = "up",
         spc' = "send" /\ data_socket' # NoSocket =>
            si' = 1 \/ cpc[data_socket'] = "gone" \/ (spc = "send" /\ UNCHANGED <<si, data_socket>>)
  PROVE  ClosedInv'
<1>1. ASSUME spc' = "send", data_socket' # NoSocket PROVE Pending(data_socket, si - 1)'
  <2>0. data_socket' \in Clients /\ Types /\ ci[data_socket'] \in Nat /\ ci[data_socket'] >= 1
        /\ Len(toClient[data_socket']) \in Nat
    <3>1. data_socket' \in Clients /\ Types
      BY <1>1 DEF IInv, Types
    <3> PICK d \in Clients : d = data_socket'
      BY <3>1
    <3>2. ci[d] \in 1..(Count + 1) /\ toClient[d] \in Seq(Message) /\ Count \in Nat
      BY <3>1, CountType DEF Types
    <3>3. ci[d] \in Nat /\ ci[d] >= 1 /\ Len(toClient[d]) \in Nat
      BY ONLY <3>2
    <3> QED BY <3>1, <3>3
  <2> PICK d \in Clients : d = data_socket'
    BY <2>0
  <2>1. CASE si' = 1
    <3>1. 1 - 1 = 0 /\ Len(toClient[d]) >= 0 /\ ci[d] + Len(toClient[d]) >= 0 + 1
      BY <2>0
    <3> QED BY <2>1, <3>1 DEF Pending
  <2>2. CASE cpc[d] = "gone"
    BY <2>2 DEF Pending
  <2>3. CASE spc = "send" /\ UNCHANGED <<si, data_socket>>
    BY <1>1, <2>3 DEF ClosedInv, Pending
  <2> QED BY <1>1, <2>1, <2>2, <2>3
<1>2. ASSUME NEW d \in Clients, link'[d] = "closed" PROVE Ended(d)'
  BY <1>2 DEF ClosedInv, Ended, Pending
<1> QED BY <1>1, <1>2 DEF ClosedInv

LEMMA ClosedServerSend ==
  ASSUME IInv, ClosedInv, ServerSend
  PROVE  ClosedInv'
<1> USE DEF ServerSend, clientVars
<1>0. /\ Types /\ spc' \in {"send", "dead"} /\ data_socket \in Clients \cup {NoSocket}
      /\ \A j \in 1..Len(backlog) : link[backlog[j]] = "up"
      /\ data_socket # NoSocket => link[data_socket] = "up"
  BY DEF IInv, Types, Log, ClosedInv
<1>1. CASE UNCHANGED toClient /\ (data_socket = NoSocket \/ ClientGone)
  BY <1>0, <1>1, ClosedSilent DEF ClientGone
<1>2. ASSUME NEW d \in Clients, d = data_socket, d # NoSocket,
             toClient' = [toClient EXCEPT ![d] = Append(@, Packet(si))]
      PROVE  ClosedInv'
  <2>1. /\ toClient[d] \in Seq(Message) /\ Packet(si) \in Message /\ si \in Nat
        /\ toClient'[d] = Append(toClient[d], Packet(si))
        /\ \A c \in Clients \ {d} : toClient'[c] = toClient[c]
    BY <1>0, <1>2, PacketFacts, CountType DEF Types
  <2>2. PICK i \in Nat, m \in Nat : i = ci[d] /\ m = Len(toClient[d])
    BY <1>0, <2>1, CountType DEF Types
  <2>3. Len(toClient'[d]) = m + 1
    BY <2>1, <2>2, AppendFacts
  <2>4. ASSUME spc' = "send" PROVE Pending(data_socket, si - 1)'
    <3>0. PICK n \in Nat : n = si
      BY <2>1
    <3>1. /\ cpc[d] = "send" => m >= n - 1
          /\ cpc[d] = "receive" => i = Count + 1 \/ i + m >= (n - 1) + 1
      BY <1>2, <2>2, <3>0 DEF ClosedInv, Pending
    <3>2. /\ cpc[d] = "send" => m + 1 >= n
          /\ cpc[d] = "receive" => i = Count + 1 \/ i + (m + 1) >= n + 1
      BY ONLY <2>2, <3>0, <3>1
    <3>3. si' - 1 = n /\ data_socket' = d
      BY <1>2, <3>0
    <3> QED BY <2>2, <2>3, <3>2, <3>3 DEF Pending
  <2>5. ASSUME NEW c \in Clients, link'[c] = "closed" PROVE Ended(c)'
    <3>1. c # d /\ Ended(c)
      BY <1>0, <1>2, <2>5 DEF ClosedInv
    <3> QED BY <2>1, <3>1 DEF Ended, Pending
  <2> QED BY <1>0, <2>4, <2>5 DEF ClosedInv
<1>3. data_socket # NoSocket => data_socket \in Clients
  BY <1>0
<1> QED BY <1>1, <1>2, <1>3 DEF ServerWrite

LEMMA ClosedServerEnd ==
  ASSUME IInv, ClosedInv, ServerEnd
  PROVE  ClosedInv'
<1> USE DEF ServerEnd, clientVars
<1>0. /\ Types /\ spc' \in {"accept", "dead"} /\ backlog \in Seq(Clients)
      /\ data_socket' = NoSocket /\ UNCHANGED <<backlog, cpc, ci>>
      /\ \A j \in 1..Len(backlog) : link[backlog[j]] = "up" /\ backlog[j] # data_socket
  BY DEF IInv, Types, ClosedInv, BacklogInv
<1>1. CASE UNCHANGED <<toClient, link>>
  BY <1>0, <1>1, ClosedSilent
<1>2. ASSUME NEW d \in Clients, d = data_socket, ServerWrite(End),
             link' = [link EXCEPT ![d] = "closed"]
      PROVE  ClosedInv'
  <2>0. /\ link'[d] = "closed" /\ \A c \in Clients \ {d} : link'[c] = link[c]
    BY <1>0, <1>2 DEF Types
  <2>1. \A j \in 1..Len(backlog') : link'[backlog'[j]] = "up"
    BY <1>0, <1>2, <2>0
  <2>2. ASSUME NEW c \in Clients, c # d, link'[c] = "closed" PROVE Ended(c)'
    <3>1. Ended(c) /\ toClient'[c] = toClient[c]
      BY <1>0, <1>2, <2>0, <2>2 DEF ClosedInv, ServerWrite, Types
    <3> QED BY <1>0, <3>1 DEF Ended, Pending
  <2>3. cpc[d] # "start" /\ d # NoSocket
    BY <1>2, SocketsAssumption DEF IInv, BacklogInv
  <2>4. CASE cpc[d] = "gone"
    <3>1. Ended(d)'
      BY <1>0, <2>4 DEF Ended, Pending
    <3> QED BY <1>0, <2>1, <2>2, <3>1 DEF ClosedInv
  <2>5. CASE cpc[d] # "gone"
    <3>1. toClient'[d] = Append(toClient[d], End) /\ toClient[d] \in Seq(Message)
      BY <1>0, <1>2, <2>3, <2>5 DEF ServerWrite, ClientGone, Types
    <3>2. PICK i \in Nat, m \in Nat, n \in Nat : i = ci[d] /\ m = Len(toClient[d]) /\ n = Count
      <4>1. ci[d] \in 1..(Count + 1) /\ Count \in Nat
        BY <1>0, CountType DEF Types
      <4> QED BY <3>1, <4>1
    <3>3. Len(toClient'[d]) = m + 1 /\ toClient'[d][m + 1] = End /\ toClient'[d] # <<>>
      <4>1. Len(toClient'[d]) = m + 1 /\ toClient'[d][m + 1] = End
        BY <3>1, <3>2, EndFacts, AppendFacts
      <4> QED BY <4>1, <3>2
    <3>4. si = n + 1 /\ si - 1 = n
      <4>1. si \in 1..(Count + 1) /\ si > Count /\ Count \in Nat
        BY <1>0, CountType DEF Types
      <4> QED BY ONLY <3>2, <4>1
    <3>5. /\ cpc[d] = "send" => m >= n
          /\ cpc[d] = "receive" => i = Count + 1 \/ i + m >= n + 1
      BY <1>2, <2>3, <3>2, <3>4 DEF ClosedInv, Pending
    <3>6. /\ cpc[d] = "send" => m + 1 >= n + 1
          /\ cpc[d] = "receive" => i = Count + 1 \/ i + (m + 1) >= (n + 1) + 1
      BY ONLY <3>2, <3>5
    <3>7. Pending(d, Count + 1)'
      BY <1>0, <3>2, <3>3, <3>6 DEF Pending
    <3>8. Ended(d)'
      BY <1>0, <2>3, <3>3, <3>7 DEF Ended
    <3> QED BY <1>0, <2>1, <2>2, <3>8 DEF ClosedInv
  <2> QED BY <2>4, <2>5
<1>3. CASE ServerWrite(End) /\ data_socket = NoSocket /\ link' = link
  BY <1>1, <1>3 DEF ServerWrite
<1>4. data_socket # NoSocket => data_socket \in Clients
  BY <1>0 DEF Types
<1> QED BY <1>1, <1>2, <1>3, <1>4

\* A turn of the server's loop.
LEMMA ClosedServerTurn ==
  ASSUME IInv, ClosedInv, spc = "receive", NEW result \in Results, NEW buffer \in Logged,
         ServerTurn(result, buffer), UNCHANGED <<backlog, link, toClient, data_socket, cpc, ci>>
  PROVE  ClosedInv'
<1>1. spc' = "send" => si' = 1
  BY ServerTurnEffect DEF IInv
<1>2. data_socket' \in Clients \cup {NoSocket}
  BY DEF IInv, Types
<1> QED BY <1>1, <1>2, ClosedSilent DEF ClosedInv

LEMMA ClosedServer ==
  ASSUME IInv, ClosedInv, Server \/ ServerSignal
  PROVE  ClosedInv'
<1>0. /\ Types /\ backlog \in Seq(Clients) /\ data_socket \in Clients \cup {NoSocket}
      /\ sresult \in Results /\ sbuffer \in Logged
  BY DEF IInv, Types, Results
<1>1. CASE Listen
  BY <1>0, <1>1, ClosedSilent DEF Listen, linkVars, clientVars, ClosedInv
<1>2. CASE Accept
  <2>1. /\ backlog # <<>> /\ data_socket' = Head(backlog) /\ backlog' = Tail(backlog)
        /\ spc' = "receive" /\ UNCHANGED <<link, toClient, cpc, ci>>
    BY <1>2 DEF Accept, clientVars
  <2>2. /\ data_socket' = backlog[1] /\ 1 \in 1..Len(backlog) /\ backlog[1] \in Clients
        /\ \A j \in 1..Len(backlog') : backlog'[j] = backlog[j + 1] /\ j + 1 \in 1..Len(backlog)
    BY <1>0, <2>1, TailFacts
  <2>3. link[data_socket'] = "up" /\ \A j \in 1..Len(backlog') : link[backlog'[j]] = "up"
    BY <2>2 DEF ClosedInv
  <2> QED BY <2>1, <2>2, <2>3, ClosedSilent
<1>3. CASE ServerRead
  <2>1. /\ spc = "receive" /\ data_socket \in Clients /\ toServer[data_socket] \in Seq(Message)
        /\ toServer[data_socket] # <<>> /\ ServerTake(Head(toServer[data_socket]))
        /\ UNCHANGED <<backlog, link, toClient, data_socket, cpc, ci>>
    BY <1>0, <1>3 DEF ServerRead, Types, clientVars
  <2>2. Head(toServer[data_socket]) \in Message
    BY <2>1
  <2>3. PICK result \in Results, buffer \in Logged : ServerTurn(result, buffer)
    BY <1>0, <2>1, <2>2, ServerTakeEffect
  <2> QED BY <2>1, <2>3, ClosedServerTurn
<1>4. CASE ServerReadFails
  BY <1>0, <1>4, ClosedServerTurn DEF ServerReadFails, linkVars, clientVars
<1>5. CASE ServerSignal
  <2>0. UNCHANGED <<backlog, link, toClient, cpc, ci>>
    BY <1>5 DEF ServerSignal, linkVars, clientVars
  <2>1. CASE data_socket' = NoSocket /\ spc' = "receive"
    BY <2>0, <2>1, ClosedSilent DEF ClosedInv
  <2>2. CASE spc = "receive" /\ ServerTurn(sresult, sbuffer) /\ UNCHANGED data_socket
    BY <1>0, <2>0, <2>2, ClosedServerTurn
  <2>3. CASE UNCHANGED <<spc, si, data_socket>>
    BY <1>0, <2>0, <2>3, ClosedSilent DEF ClosedInv
  <2> QED BY <1>5, <2>1, <2>2, <2>3 DEF ServerSignal
<1> QED BY <1>1, <1>2, <1>3, <1>4, <1>5, ClosedServerSend, ClosedServerEnd DEF Server

LEMMA ClosedKeeps == IInv /\ ClosedInv /\ [Next]_vars => ClosedInv'
<1> SUFFICES ASSUME IInv, ClosedInv, [Next]_vars PROVE ClosedInv'
  OBVIOUS
<1>1. ASSUME NEW c \in Clients, Client(c) PROVE ClosedInv'
  <2>1. CASE ClientReadFails(c)
    BY <2>1, ClosedFailedTurn DEF ClientReadFails
  <2>2. CASE ClientExit(c)
    BY <2>2, ClosedGone DEF ClientExit
  <2> QED BY <1>1, <2>1, <2>2, ClosedConnect, ClosedClientSend, ClosedClientRead DEF Client
<1>2. ASSUME NEW c \in Clients, sigHandler(c) PROVE ClosedInv'
  <2>1. CASE cpc[c] = "receive" /\ ClientTurn(c, cresult[c], cbuffer[c])
    BY <1>2, <2>1, ClosedFailedTurn DEF sigHandler, linkVars
  <2>2. CASE UNCHANGED <<cpc, ci, cresult, cbuffer, crx>>
    BY <1>2, <2>2, ClosedGone DEF sigHandler
  <2> QED BY <1>2, <2>1, <2>2 DEF sigHandler
<1>3. ASSUME NEW c \in Clients, Kill(c) PROVE ClosedInv'
  BY <1>3, ClosedGone DEF Kill
<1>4. CASE UNCHANGED vars
  BY <1>4 DEF vars, linkVars, serverVars, clientVars, ClosedInv, Ended, Pending
<1> QED BY <1>1, <1>2, <1>3, <1>4, ClosedServer DEF Next

-----------------------------------------------------------------------------
(* What is logged again.                                                    *)

\* Signals and kills are counted.
LEMMA BudgetKeeps == BudgetInv /\ [Next]_vars => BudgetInv'
<1> SUFFICES ASSUME BudgetInv, [Next]_vars PROVE BudgetInv'
  OBVIOUS
<1>1. \/ UNCHANGED budget
      \/ budget.signals > 0 /\ budget' = [budget EXCEPT !.signals = @ - 1]
      \/ budget.kills > 0 /\ budget' = [budget EXCEPT !.kills = @ - 1]
  <2>1. CASE UNCHANGED vars
    BY <2>1 DEF vars
  <2>2. CASE Next
    BY <2>2, Zenon DEF Next, Server, Listen, Accept, ServerRead, ServerReadFails, ServerSend,
       ServerEnd, ServerSignal, Client, Connect, ClientSend, ClientRead, ClientReadFails,
       ClientExit, sigHandler, Kill
  <2> QED BY <2>1, <2>2
<1>2. /\ budget.signals \in Nat /\ budget.kills \in Nat
      /\ budget.signals <= MaxSignals /\ budget.kills <= MaxKills
  BY DEF BudgetInv
<1>3. CASE UNCHANGED budget
  BY <1>3 DEF BudgetInv
<1>4. CASE budget.signals > 0 /\ budget' = [budget EXCEPT !.signals = @ - 1]
  <2>1. budget.signals - 1 \in Nat /\ budget.signals - 1 <= MaxSignals
    BY <1>2, <1>4, SocketsAssumption
  <2> QED BY <1>2, <1>4, <2>1 DEF BudgetInv
<1>5. CASE budget.kills > 0 /\ budget' = [budget EXCEPT !.kills = @ - 1]
  <2>1. budget.kills - 1 \in Nat /\ budget.kills - 1 <= MaxKills
    BY <1>2, <1>5, SocketsAssumption
  <2> QED BY <1>2, <1>5, <2>1 DEF BudgetInv
<1> QED BY <1>1, <1>3, <1>4, <1>5

\* A signal takes one from the budget.
LEMMA SignalSpent ==
  ASSUME BudgetInv, budget' = [budget EXCEPT !.signals = @ - 1]
  PROVE  budget'.signals < budget.signals
<1>1. budget'.signals = budget.signals - 1 /\ budget.signals \in Nat
  BY DEF BudgetInv
<1> QED BY ONLY <1>1

LEMMA SocketsInit == Init => IInv /\ HeldInv /\ ClosedInv
<1> SUFFICES ASSUME Init PROVE HeldInv /\ ClosedInv
  BY InitKeeps
<1>1. HeldInv
  BY DEF Init, HeldInv, ServerHeld, ClientHeld
<1>2. ClosedInv
  BY DEF Init, ClosedInv
<1> QED BY <1>1, <1>2

LEMMA SocketsNext == IInv /\ HeldInv /\ ClosedInv /\ [Next]_vars => (IInv /\ HeldInv /\ ClosedInv)'
BY NextKeeps, ServerHeldKeeps, ClientHeldKeeps, ClosedKeeps DEF HeldInv

\* The inductive invariant: types; all messages under way are younger than what was logged
\* before and older than what is still to be sent; each client is in the backlog once and
\* before it is answered; what result and buffer hold when a read fails is the youngest line
\* of the log; END is at the end of a connection that was closed in order.
THEOREM SocketsInvariant == Spec => [](IInv /\ HeldInv /\ ClosedInv)
BY SocketsInit, SocketsNext, PTL DEF Spec

\* What a failed read does to a log.
LEMMA AgainContinues ==
  ASSUME NEW log \in Seq(Logged), NEW log2, Again(log, log2)
  PROVE  Continues(log, log2, TRUE)
<1>1. CASE log2 = log
  BY <1>1 DEF Continues
<1>2. ASSUME NEW line \in Logged, log2 = Append(log, line),
             \/ line = Bad
             \/ /\ \E i \in 1..Len(log) : log[i] = line
                /\ \A j \in 1..Len(log) : log[j].k <= line.k
      PROVE  Continues(log, log2, TRUE)
  <2>1. log2[Len(log2)] = line
    BY <1>2, AppendFacts
  <2> QED BY <1>2, <2>1 DEF Continues
<1>3. \A i \in 1..Len(log) : log[i] \in Logged
  OBVIOUS
<1> QED BY <1>1, <1>2, <1>3, EndFacts DEF Again

\* A read that gets a packet logs nothing, garbage or a younger message.
LEMMA YoungerContinues ==
  ASSUME NEW log \in Seq(Logged), NEW line \in Logged, NEW log2 \in {log, WithLine(log, line)},
         line = Bad \/ \A j \in 1..Len(log) : log[j].k < line.k
  PROVE  Continues(log, log2, FALSE)
<1>1. CASE log2 = log
  BY <1>1 DEF Continues
<1>2. CASE log2 = Append(log, line)
  <2>1. log2[Len(log2)] = line
    BY <1>2, AppendFacts
  <2> QED BY <1>2, <2>1 DEF Continues
<1> QED BY <1>1, <1>2, WithLineFacts

LEMMA ServerContinues ==
  ASSUME IInv, HeldInv, BudgetInv, [Next]_vars, NEW c \in Clients
  PROVE  Continues(srx[c], srx'[c], budget'.signals < budget.signals \/ cpc[c] = "gone")
<1> DEFINE failed == budget'.signals < budget.signals \/ cpc[c] = "gone"
<1>0. Types /\ srx[c] \in Seq(Logged)
  BY DEF IInv, Types
<1>1. CASE srx'[c] = srx[c]
  BY <1>1 DEF Continues
<1>2. ASSUME failed, Again(srx[c], srx'[c]) PROVE Continues(srx[c], srx'[c], failed)
  BY <1>0, <1>2, AgainContinues DEF Continues
<1>3. CASE ServerRead
  <2>1. /\ data_socket \in Clients /\ toServer[data_socket] \in Seq(Message)
        /\ toServer[data_socket] # <<>> /\ ServerTake(Head(toServer[data_socket]))
        /\ Ahead(srx[c], toServer[c])
    BY <1>0, <1>3 DEF ServerRead, Types, IInv, OrderInv
  <2> DEFINE line == ReadAs(Head(toServer[data_socket]), si)
  <2>2. Head(toServer[data_socket]) \in Message
    BY <2>1
  <2>3. srx'[c] = srx[c] \/ (c = data_socket /\ srx'[c] = WithLine(srx[c], line))
    <3>1. PICK result \in Results, buffer \in Logged :
            ServerTurn(result, buffer) /\ ServerLine(result, buffer) = line
      BY <1>0, <2>1, <2>2, ServerTakeEffect
    <3> QED BY <1>0, <3>1, ServerTurnEffect
  <2>4. ASSUME c = data_socket, srx'[c] = WithLine(srx[c], line)
        PROVE  Continues(srx[c], srx'[c], failed)
    <3>1. line \in Logged /\ (line = Bad \/ \A j \in 1..Len(srx[c]) : srx[c][j].k < line.k)
      BY <1>0, <2>1, <2>4, PacketComesNext
    <3> HIDE DEF line
    <3>2. Continues(srx[c], srx'[c], FALSE)
      BY <1>0, <2>4, <3>1, YoungerContinues
    <3> QED BY <3>2 DEF Continues
  <2> QED BY <1>1, <2>3, <2>4
<1>4. CASE ServerReadFails
  <2>1. Again(srx[c], srx'[c]) /\ (c # data_socket => srx'[c] = srx[c])
    BY <1>4, ServerHeldLine DEF ServerReadFails
  <2>2. c = data_socket => cpc[c] = "gone"
    BY <1>4, SocketsAssumption DEF ServerReadFails
  <2> QED BY <1>1, <1>2, <2>1, <2>2
<1>5. CASE ServerSignal
  <2>1. budget'.signals < budget.signals
    BY <1>5, SignalSpent DEF ServerSignal
  <2>2. srx' = srx \/ (spc = "receive" /\ ServerTurn(sresult, sbuffer))
    BY <1>5 DEF ServerSignal
  <2> QED BY <1>1, <1>2, <2>1, <2>2, ServerHeldLine
<1>6. ASSUME UNCHANGED srx PROVE Continues(srx[c], srx'[c], failed)
  BY <1>1, <1>6
<1>7. ServerRead \/ ServerReadFails \/ ServerSignal \/ UNCHANGED srx
  BY Zenon DEF Next, Server, Listen, Accept, ServerSend, ServerEnd, Client, Connect, ClientSend,
     ClientRead, ClientReadFails, ClientExit, sigHandler, Kill, serverVars, vars
<1> QED BY <1>3, <1>4, <1>5, <1>6, <1>7

LEMMA ClientContinues ==
  ASSUME IInv, HeldInv, ClosedInv, BudgetInv, [Next]_vars, NEW c \in Clients
  PROVE  Continues(crx[c], crx'[c],
           \/ budget'.signals < budget.signals
           \/ link[c] = "none" \/ Reset(c) \/ (link[c] = "up" /\ spc = "dead"))
<1> DEFINE failed == \/ budget'.signals < budget.signals
                     \/ link[c] = "none" \/ Reset(c) \/ (link[c] = "up" /\ spc = "dead")
<1>0. Types /\ crx[c] \in Seq(Logged)
  BY DEF IInv, Types
<1>1. CASE crx'[c] = crx[c]
  BY <1>1 DEF Continues
<1>2. ASSUME failed, Again(crx[c], crx'[c]) PROVE Continues(crx[c], crx'[c], failed)
  BY <1>0, <1>2, AgainContinues DEF Continues
<1>3. CASE ClientRead(c)
  <2>1. /\ toClient[c] \in Seq(Message) /\ toClient[c] # <<>>
        /\ ClientTake(c, Head(toClient[c])) /\ Ahead(crx[c], toClient[c])
    BY <1>0, <1>3 DEF ClientRead, Types, IInv, OrderInv
  <2> DEFINE line == ReadAs(Head(toClient[c]), ci[c])
  <2>2. /\ Head(toClient[c]) \in Message /\ line \in Logged
        /\ line = Bad \/ \A j \in 1..Len(crx[c]) : crx[c][j].k < line.k
    BY <1>0, <2>1, PacketComesNext
  <2>3. crx'[c] \in {crx[c], WithLine(crx[c], line)}
    <3>1. PICK result \in Logged, buffer \in Logged :
            ClientTurn(c, result, buffer) /\ ClientLine(c, result, buffer) = line
      BY <1>0, <2>1, <2>2, ClientTakeEffect
    <3> QED BY <1>0, <3>1, ClientTurnEffect
  <2> HIDE DEF line
  <2>4. Continues(crx[c], crx'[c], FALSE)
    BY <1>0, <2>2, <2>3, YoungerContinues
  <2> QED BY <2>4 DEF Continues
<1>4. CASE ClientReadFails(c)
  <2>1. Again(crx[c], crx'[c])
    BY <1>4, ClientHeldLine DEF ClientReadFails
  <2>2. ~(link[c] = "closed" /\ toClient[c] = <<>>)
    BY <1>4 DEF ClientReadFails, ClosedInv, Ended
  <2>3. failed
    BY <1>4, <2>2 DEF ClientReadFails, Broken
  <2> QED BY <1>2, <2>1, <2>3
<1>5. CASE sigHandler(c)
  <2>1. budget'.signals < budget.signals
    BY <1>5, SignalSpent DEF sigHandler
  <2>2. crx' = crx \/ (cpc[c] = "receive" /\ ClientTurn(c, cresult[c], cbuffer[c]))
    BY <1>5 DEF sigHandler
  <2> QED BY <1>1, <1>2, <2>1, <2>2, ClientHeldLine
<1>6. ASSUME NEW b \in Clients, b # c, Client(b) \/ sigHandler(b) PROVE crx'[c] = crx[c]
  BY <1>0, <1>6 DEF Client, Connect, ClientSend, ClientRead, ClientReadFails, ClientExit,
     sigHandler, Types, ClientTake, ClientTurn
<1>7. ASSUME Server \/ ServerSignal \/ UNCHANGED vars \/ \E b \in Clients : Kill(b)
      PROVE  UNCHANGED crx
  BY <1>7, Zenon DEF Server, Listen, Accept, ServerRead, ServerReadFails, ServerSend,
     ServerEnd, ServerSignal, Kill, clientVars, vars
<1>8. ASSUME Connect(c) \/ ClientSend(c) \/ ClientExit(c) PROVE UNCHANGED crx
  BY <1>8, Zenon DEF Connect, ClientSend, ClientExit
<1>9. \/ ClientRead(c) \/ ClientReadFails(c) \/ sigHandler(c) \/ crx'[c] = crx[c]
  BY <1>6, <1>7, <1>8 DEF Next, Client
<1> QED BY <1>1, <1>3, <1>4, <1>5, <1>9

\* Whatever signals, kills and crashes do, and although no result of a read is checked, no
\* message is logged after a later one; only a read that a signal broke, or that had nobody
\* to read from, logs one again, and then the last one.
THEOREM RepeatsOnlyAfterFailures == Spec => OnlyFailedReadsRepeat
<1>1. IInv /\ HeldInv /\ ClosedInv /\ BudgetInv /\ [Next]_vars => [LogsContinue]_vars
  BY ServerContinues, ClientContinues DEF LogsContinue
<1>2. Init => BudgetInv
  BY SocketsAssumption DEF Init, BudgetInv
<1> QED BY <1>1, <1>2, SocketsInvariant, BudgetKeeps, PTL DEF Spec, OnlyFailedReadsRepeat

-----------------------------------------------------------------------------
(* An exchange that nothing disturbs.                                       *)

\* Sequences of successive packets grow at the end and shrink at the front.
LEMMA FromAppend ==
  ASSUME NEW S, NEW s \in Seq(S), NEW p \in Nat, From(s, p), NEW n \in Nat, n = p + Len(s) + 1,
         Packet(n) \in S
  PROVE  From(Append(s, Packet(n)), p)
BY AppendFacts DEF From

LEMMA FromTail ==
  ASSUME NEW S, NEW s \in Seq(S), s # <<>>, NEW p \in Nat, From(s, p)
  PROVE  Head(s) = Packet(p + 1) /\ From(Tail(s), p + 1)
<1>1. Head(s) = Packet(p + 1)
  BY TailFacts DEF From
<1>2. \A j \in 1..Len(Tail(s)) : Tail(s)[j] = Packet(p + (j + 1))
  BY TailFacts DEF From
<1>3. \A j \in 1..Len(Tail(s)) : p + (j + 1) = (p + 1) + j
  BY TailFacts
<1> QED BY <1>1, <1>2, <1>3 DEF From

\* All of the state that belongs to client c.
Own(c) == <<link[c], toServer[c], toClient[c], srx[c], crx[c], cpc[c], ci[c], terminateSignal[c]>>

\* What only a client's own state decides.
LEMMA OwnFrame ==
  ASSUME NEW c \in Clients, UNCHANGED Own(c)
  PROVE  /\ Sends(c) => Sends(c)'
         /\ Served(c) => Served(c)'
         /\ AllHeard(c) => AllHeard(c)'
         /\ \A n : Answered(c, n) => Answered(c, n)'
         /\ Fresh(c) => Fresh(c)'
<1> USE DEF Own
<1>1. \A n : Answered(c, n) => Answered(c, n)'
  BY DEF Answered, From
<1>2. Sends(c) => Sends(c)'
  BY DEF Sends, Heard, From
<1>3. AllHeard(c) => AllHeard(c)'
  BY DEF AllHeard, From
<1>4. Fresh(c) => Fresh(c)'
  BY DEF Fresh
<1>5. Served(c) => Served(c)'
  BY <1>1, <1>3 DEF Served, From
<1> QED BY <1>1, <1>2, <1>3, <1>4, <1>5

\* A client whose state a step leaves alone stays in its stage if the server does, or
\* if it is not the one that is served.
LEMMA StageFrame ==
  ASSUME NEW c \in Clients, Stage(c), UNCHANGED Own(c),
         \A j \in 1..Len(backlog) : backlog[j] = c =>
            \E k \in 1..Len(backlog') : backlog'[k] = c,
         UNCHANGED <<data_socket, spc, si>> \/ data_socket # c
  PROVE  Stage(c)'
<1>0. /\ link'[c] = link[c] /\ srx'[c] = srx[c]
  BY DEF Own
<1>1. CASE Waiting(c)
  <2>1. Sends(c)' /\ srx'[c] = <<>>
    BY <1>0, <1>1, OwnFrame DEF Waiting
  <2>2. \E k \in 1..Len(backlog') : backlog'[k] = c
    BY <1>1 DEF Waiting
  <2>3. Waiting(c)'
    BY <2>1, <2>2 DEF Waiting
  <2> QED BY <2>3 DEF Stage
<1>2. CASE Receiving(c)
  <2>1. Sends(c)' /\ UNCHANGED <<data_socket, spc, si>>
    BY <1>2, OwnFrame DEF Receiving
  <2>2. Receiving(c)'
    BY <1>0, <1>2, <2>1 DEF Receiving
  <2> QED BY <2>2 DEF Stage
<1>3. CASE Sending(c)
  <2>1. UNCHANGED <<data_socket, spc, si>> /\ AllHeard(c)'
    BY <1>3, OwnFrame DEF Sending
  <2>2. Answered(c, si - 1)'
    <3> PICK n : n = si - 1 /\ n = si' - 1
      BY <2>1
    <3>1. Answered(c, n) => Answered(c, n)'
      BY OwnFrame
    <3> QED BY <1>3, <3>1 DEF Sending, Answered
  <2>3. Sending(c)'
    BY <1>0, <1>3, <2>1, <2>2 DEF Sending
  <2> QED BY <2>3 DEF Stage
<1>4. CASE Served(c)
  BY <1>4, OwnFrame DEF Stage
<1> QED BY <1>1, <1>2, <1>3, <1>4 DEF Stage

LEMMA CalmListen == ASSUME IInv, Calm, Listen PROVE Calm'
<1> USE DEF Listen, linkVars, clientVars
<1>1. \A c \in Clients : UNCHANGED Own(c)
  BY DEF Own
<1>2. \A c \in Clients : data_socket # c
  BY SocketsAssumption DEF Calm
<1>3. ASSUME NEW c \in Clients
      PROVE  /\ ~terminateSignal'[c] /\ cpc'[c] # "gone" /\ (cpc'[c] = "start" => Fresh(c)')
             /\ link'[c] # "none" => Stage(c)'
  BY <1>1, <1>2, OwnFrame, StageFrame DEF Calm
<1> QED BY <1>3 DEF Calm

LEMMA CalmAccept == ASSUME IInv, Calm, Accept PROVE Calm'
<1> USE DEF Accept, clientVars
<1>0. Types /\ backlog \in Seq(Clients) /\ backlog # <<>> /\ BacklogInv
  BY DEF IInv, Types
<1>1. /\ Len(backlog) \in Nat /\ Len(backlog) >= 1 /\ Len(backlog') = Len(backlog) - 1
      /\ data_socket' = backlog[1] /\ backlog[1] \in Clients
      /\ \A j \in 1..Len(backlog') : backlog'[j] = backlog[j + 1] /\ j + 1 \in 1..Len(backlog)
  BY <1>0, TailFacts
<1>2. data_socket = NoSocket /\ \A c \in Clients : c # NoSocket
  BY SocketsAssumption DEF Calm
<1>3. \A c \in Clients : UNCHANGED Own(c)
  BY <1>0 DEF Own
<1> PICK h \in Clients : h = backlog[1]
  BY <1>1
<1>4. link[h] = "up" /\ Stage(h)
  BY <1>1 DEF Calm
<1>5. Waiting(h)
  BY <1>1, <1>2, <1>4 DEF Stage, Receiving, Sending, Served
<1>6. Stage(h)'
  <2>1. Sends(h)' /\ srx[h] = <<>>
    BY <1>1, <1>3, <1>5, OwnFrame DEF Waiting
  <2>2. Receiving(h)'
    BY <1>1, <2>1 DEF Receiving
  <2> QED BY <2>2 DEF Stage
<1>7. ASSUME NEW c \in Clients
      PROVE  /\ ~terminateSignal'[c] /\ cpc'[c] # "gone" /\ (cpc'[c] = "start" => Fresh(c)')
             /\ link'[c] # "none" => Stage(c)'
  <2>1. ~terminateSignal'[c] /\ cpc'[c] # "gone" /\ (cpc'[c] = "start" => Fresh(c)')
    BY <1>3, OwnFrame DEF Calm
  <2>2. ASSUME link'[c] # "none", c # h PROVE Stage(c)'
    <3>1. ASSUME NEW j \in 1..Len(backlog), backlog[j] = c
          PROVE  \E k \in 1..Len(backlog') : backlog'[k] = c
      <4>1. j - 1 \in 1..Len(backlog') /\ (j - 1) + 1 = j
        BY <1>1, <2>2, <3>1
      <4> QED BY <1>1, <3>1, <4>1
    <3>2. Stage(c) /\ data_socket # c
      BY <1>2, <2>2 DEF Calm
    <3>3. UNCHANGED Own(c)
      BY <1>3
    <3> QED BY <3>1, <3>2, <3>3, StageFrame
  <2> QED BY <1>1, <1>6, <2>1, <2>2
<1>8. \A j \in 1..Len(backlog') : link'[backlog'[j]] = "up"
  BY <1>1 DEF Calm
<1>9. /\ data_socket' = NoSocket <=> spc' \in {"start", "accept"}
      /\ data_socket' # NoSocket => link'[data_socket'] = "up"
  BY <1>1, <1>2, <1>4
<1> QED BY <1>7, <1>8, <1>9 DEF Calm

\* The connection the server is busy with.
LEMMA BusyWith ==
  ASSUME IInv, Calm, spc \in {"receive", "send"}
  PROVE  /\ data_socket \in Clients /\ data_socket # NoSocket
         /\ link[data_socket] = "up" /\ cpc[data_socket] # "gone"
         /\ spc = "receive" => Receiving(data_socket)
         /\ spc = "send" => Sending(data_socket)
<1>1. data_socket # NoSocket /\ data_socket \in Clients
  BY DEF IInv, Types, Calm
<1>2. link[data_socket] = "up" /\ cpc[data_socket] # "gone" /\ Stage(data_socket)
  BY <1>1 DEF Calm
<1>3. \A j \in 1..Len(backlog) : backlog[j] # data_socket
  BY DEF IInv, BacklogInv
<1> QED BY <1>1, <1>2, <1>3 DEF Stage, Waiting, Receiving, Sending, Served

\* It is enough to look at the client that is served: the others are left alone.
LEMMA CalmServed ==
  ASSUME IInv, Calm, NEW d \in Clients, d = data_socket, spc \in {"receive", "send"},
         UNCHANGED <<backlog, clientVars>>,
         \A c \in Clients \ {d} :
            /\ toServer'[c] = toServer[c] /\ toClient'[c] = toClient[c]
            /\ link'[c] = link[c] /\ srx'[c] = srx[c],
         Stage(d)',
         \/ spc' \in {"receive", "send"} /\ data_socket' = d /\ link'[d] = "up"
         \/ spc' = "accept" /\ data_socket' = NoSocket
  PROVE  Calm'
<1> USE DEF clientVars
<1>1. \A c \in Clients \ {d} : UNCHANGED Own(c)
  BY DEF Own
<1>2. link[d] = "up" /\ cpc[d] # "start" /\ d # NoSocket
  BY BusyWith DEF Calm, Fresh
<1>3. ASSUME NEW c \in Clients
      PROVE  /\ ~terminateSignal'[c] /\ cpc'[c] # "gone" /\ (cpc'[c] = "start" => Fresh(c)')
             /\ link'[c] # "none" => Stage(c)'
  <2>1. CASE c = d
    BY <1>2, <2>1 DEF Calm
  <2>2. CASE c # d
    BY <1>1, <2>2, OwnFrame, StageFrame DEF Calm
  <2> QED BY <2>1, <2>2
<1>4. ASSUME NEW j \in 1..Len(backlog') PROVE link'[backlog'[j]] = "up"
  <2>1. backlog'[j] = backlog[j] /\ backlog[j] \in Clients /\ backlog[j] # d
    <3>1. backlog' = backlog /\ backlog \in Seq(Clients) /\ BacklogInv
      BY DEF IInv, Types
    <3> QED BY <3>1 DEF BacklogInv
  <2>2. link[backlog[j]] = "up"
    BY DEF Calm
  <2> QED BY <2>1, <2>2
<1>5. /\ data_socket' = NoSocket <=> spc' \in {"start", "accept"}
      /\ data_socket' # NoSocket => link'[data_socket'] = "up"
  BY <1>2
<1> QED BY <1>3, <1>4, <1>5 DEF Calm

LEMMA CalmServerRead == ASSUME IInv, Calm, ServerRead, spc' # "dead" PROVE Calm'
<1> USE DEF ServerRead, clientVars
<1> PICK d \in Clients : d = data_socket /\ d # NoSocket /\ link[d] = "up" /\ Receiving(d)
  BY BusyWith
<1>0. /\ Types /\ toServer[d] \in Seq(Message) /\ toServer[d] # <<>> /\ srx[d] \in Seq(Logged)
      /\ si \in 1..(Count + 1) /\ ci[d] \in 1..(Count + 1)
  BY DEF IInv, Types
<1>1. PICK n \in Nat :
        /\ n <= Count + 1 /\ Heard(d, n) /\ link[d] = "up" /\ toClient[d] = <<>> /\ crx[d] = <<>>
        /\ \/ cpc[d] = "send" /\ n = ci[d] - 1
           \/ cpc[d] = "receive" /\ ci[d] = 1 /\ n = Count + 1
  <2>1. ci[d] - 1 \in Nat /\ ci[d] - 1 <= Count + 1 /\ Count + 1 \in Nat
    BY <1>0, CountType
  <2> QED BY <2>1 DEF Receiving, Sends
<1>2. /\ Len(srx[d]) <= Count /\ From(srx[d], 0) /\ From(toServer[d], Len(srx[d]))
      /\ Len(srx[d]) + Len(toServer[d]) = n /\ si = Len(srx[d]) + 1 /\ Len(srx[d]) \in Nat
  <2>1. si = Len(srx[d]) + 1
    BY DEF Receiving
  <2>2. Len(srx[d]) \in Nat
    BY <1>0
  <2> QED BY ONLY <1>1, <2>1, <2>2 DEF Heard
<1>3. Head(toServer[d]) = Packet(si) /\ From(Tail(toServer[d]), si)
  BY <1>0, <1>2, FromTail
<1>4. /\ toServer'[d] = Tail(toServer[d]) /\ link' = link /\ toClient' = toClient /\ cpc' = cpc
      /\ Len(toServer'[d]) = Len(toServer[d]) - 1 /\ ci' = ci /\ crx' = crx
      /\ Len(toServer[d]) \in Nat /\ Len(toServer[d]) >= 1
  BY <1>0, TailFacts DEF Types
<1>5. \A c \in Clients \ {d} : toServer'[c] = toServer[c]
  BY <1>0 DEF Types
<1>6. PICK result \in Results, buffer \in Logged :
        /\ ServerTurn(result, buffer) /\ ServerLine(result, buffer) = Packet(si)
        /\ si > Commands => buffer = Packet(si)
  <2>1. Packet(si) \in Message /\ ServerTake(Packet(si)) /\ ReadAs(Packet(si), si) = Packet(si)
    BY <1>0, <1>3, PacketFacts, TurnFacts
  <2> QED BY <1>0, <2>1, ServerTakeEffect
<1>7. CASE si <= Count
  <2>1. ~(si > Commands /\ buffer = End)
    BY <1>0, <1>6, <1>7, TurnFacts
  <2>2. spc' = "receive" /\ si' = si + 1
    BY <1>7, <1>6, <2>1 DEF ServerTurn, Log
  <2>4. Packet(si) \in Logged
    BY <1>0, PacketFacts DEF Logged
  <2>3. /\ srx'[d] = Append(srx[d], Packet(si))
        /\ \A c \in Clients \ {d} : srx'[c] = srx[c]
    <3>1. Len(srx[d]) < MaxLines
      <4>1. Len(srx[d]) + 1 <= Count /\ MaxLines = Count + MaxSignals
        BY <1>2, <1>7 DEF MaxLines
      <4>2. Count \in Nat /\ MaxSignals \in Nat /\ Len(srx[d]) \in Nat
        BY <1>2, CountType, SocketsAssumption
      <4> QED BY ONLY <4>1, <4>2
    <3>2. WithLine(srx[d], Packet(si)) = Append(srx[d], Packet(si))
      BY <1>0, <2>4, <3>1, WithLineFacts
    <3>3. /\ srx'[d] = WithLine(srx[d], Packet(si))
          /\ \A c \in Clients \ {d} : srx'[c] = srx[c]
      BY <1>0, <1>6, <2>2, ServerTurnEffect
    <3> QED BY <3>2, <3>3
  <2>5. Len(srx'[d]) = si /\ From(srx'[d], 0)
    BY <1>0, <1>2, <2>3, <2>4, AppendFacts, FromAppend
  <2>6. Heard(d, n)'
    <3>1. From(toServer'[d], Len(srx'[d]))
      BY <1>3, <1>4, <2>5
    <3>2. Len(srx'[d]) <= Count /\ Len(srx'[d]) + Len(toServer'[d]) = n
      <4>0. PICK a \in Nat, b \in Nat : a = Len(srx[d]) /\ b = Len(toServer[d])
        BY <1>2, <1>4
      <4>1. a + b = n /\ si = a + 1
        BY <1>2, <4>0
      <4>2. si + (b - 1) = n
        BY ONLY <4>1
      <4>3. Len(toServer'[d]) = b - 1
        BY <1>4, <4>0
      <4> QED BY <1>7, <2>5, <4>2, <4>3
    <3> QED BY <2>5, <3>1, <3>2 DEF Heard
  <2>7. Receiving(d)'
    <3>1. Sends(d)'
      <4>1. CASE cpc[d] = "send" /\ n = ci[d] - 1
        BY <1>1, <1>4, <2>6, <4>1 DEF Sends, Heard
      <4>2. CASE cpc[d] = "receive" /\ ci[d] = 1 /\ n = Count + 1
        BY <1>1, <1>4, <2>6, <4>2 DEF Sends, Heard
      <4> QED BY <1>1, <4>1, <4>2
    <3> QED BY <2>2, <2>5, <3>1 DEF Receiving
  <2>8. Stage(d)'
    BY <2>7 DEF Stage
  <2>9. link'[d] = "up"
    BY <1>4
  <2> QED BY <1>4, <1>5, <2>2, <2>3, <2>8, <2>9, CalmServed
<1>8. CASE si = Count + 1
  <2>1. si > Commands /\ buffer = End
    BY <1>0, <1>6, <1>8, TurnFacts
  <2>2. spc' = "send" /\ si' = 1 /\ srx' = srx
    BY <1>6, <2>1 DEF ServerTurn
  <2>3. n = Count + 1 /\ Len(toServer[d]) = 1
    <3>1. PICK a \in Nat, b \in Nat : a = Len(srx[d]) /\ b = Len(toServer[d])
      BY <1>2, <1>4
    <3>2. a + b = n /\ n <= Count + 1 /\ a = Count /\ b >= 1 /\ Count \in Nat
      <4>1. Count \in Nat
        BY CountType
      <4>2. n <= Count + 1
        BY <1>1
      <4>3. b >= 1
        BY <1>4, <3>1
      <4>4. a + b = n
        BY <1>2, <3>1
      <4>5. si = Len(srx[d]) + 1
        BY <1>2
      <4>6. a = Count
        BY ONLY <1>8, <3>1, <4>1, <4>5
      <4> QED BY <4>1, <4>2, <4>3, <4>4, <4>6
    <3>3. n = Count + 1 /\ b = 1
      BY ONLY <3>2
    <3> QED BY <3>1, <3>3
  <2>4. cpc[d] = "receive" /\ ci[d] = 1
    BY <1>0, <1>1, <2>3, CountType
  <2>5. toServer'[d] = <<>>
    BY <1>0, <1>4, <2>3
  <2>6. AllHeard(d)'
    BY <1>2, <2>2, <2>5 DEF AllHeard
  <2>7. Answered(d, si - 1)'
    <3>1. Len(crx'[d]) = 0 /\ Len(toClient'[d]) = 0 /\ si' - 1 = 0
      BY <1>1, <1>4, <2>2
    <3>2. From(crx'[d], 0) /\ From(toClient'[d], Len(crx'[d]))
      BY <3>1 DEF From
    <3> QED BY <1>4, <2>4, <3>1, <3>2 DEF Answered
  <2>8. Sending(d)'
    BY <1>1, <1>4, <2>2, <2>6, <2>7 DEF Sending
  <2>9. Stage(d)' /\ link'[d] = "up"
    BY <1>4, <2>8 DEF Stage
  <2> QED BY <1>4, <1>5, <2>2, <2>9, CalmServed
<1> QED BY <1>0, <1>7, <1>8, CountType

\* Nothing makes a read of the server fail.
LEMMA CalmServerReadFails == ASSUME IInv, Calm, ServerReadFails PROVE FALSE
BY BusyWith DEF ServerReadFails

LEMMA CalmServerSend == ASSUME IInv, Calm, ServerSend, spc' # "dead" PROVE Calm'
<1> USE DEF ServerSend, clientVars
<1> PICK d \in Clients : d = data_socket /\ d # NoSocket /\ cpc[d] # "gone" /\ Sending(d)
  BY BusyWith
<1>0. /\ Types /\ toClient[d] \in Seq(Message) /\ crx[d] \in Seq(Logged)
      /\ si \in 1..(Count + 1) /\ Packet(si) \in Message /\ Len(crx[d]) \in Nat
  BY PacketFacts DEF IInv, Types
<1>1. /\ toClient' = [toClient EXCEPT ![d] = Append(@, Packet(si))]
      /\ spc' = "send" /\ si' = si + 1
  <2>1. ~ClientGone
    BY DEF ClientGone
  <2> QED BY <2>1 DEF Log, ServerWrite
<1>2. /\ toClient'[d] = Append(toClient[d], Packet(si))
      /\ \A c \in Clients \ {d} : toClient'[c] = toClient[c]
  BY <1>0, <1>1 DEF Types
<1>3. /\ Len(crx[d]) + Len(toClient[d]) = si - 1 /\ From(toClient[d], Len(crx[d]))
      /\ cpc[d] = "receive" /\ ci[d] = Len(crx[d]) + 1 /\ From(crx[d], 0)
      /\ link[d] = "up" /\ AllHeard(d)
  BY DEF Sending, Answered
<1>4. Len(toClient'[d]) = Len(toClient[d]) + 1 /\ Len(toClient[d]) \in Nat
  BY <1>0, <1>2, AppendFacts
<1>5. From(toClient'[d], Len(crx[d]))
  <2>1. si \in Nat /\ si = Len(crx[d]) + Len(toClient[d]) + 1
    <3>0. PICK a \in Nat, b \in Nat : a = Len(crx[d]) /\ b = Len(toClient[d])
      BY <1>0, <1>4
    <3>1. si \in Nat
      BY <1>0, CountType
    <3>2. a + b = si - 1
      BY <1>3, <3>0
    <3>3. si = a + b + 1
      BY ONLY <3>1, <3>2
    <3> QED BY <3>0, <3>1, <3>3
  <2> QED BY <1>0, <1>2, <1>3, <2>1, FromAppend
<1>6. Answered(d, si - 1)'
  <2>1. Len(crx[d]) + Len(toClient'[d]) = si' - 1
    <3>0. PICK a \in Nat, b \in Nat : a = Len(crx[d]) /\ b = Len(toClient[d])
      BY <1>0, <1>4
    <3>1. si \in Nat /\ si' = si + 1
      BY <1>0, <1>1, CountType
    <3>2. a + b = si - 1
      BY <1>3, <3>0
    <3>3. a + (b + 1) = si' - 1
      BY ONLY <3>1, <3>2
    <3> QED BY <1>4, <3>0, <3>3
  <2> QED BY <1>3, <1>5, <2>1 DEF Answered
<1>7. Sending(d)'
  BY <1>1, <1>3, <1>6 DEF Sending, AllHeard
<1>8. Stage(d)' /\ link'[d] = "up"
  BY <1>3, <1>7 DEF Stage
<1> QED BY <1>1, <1>2, <1>8, CalmServed

LEMMA CalmServerEnd == ASSUME IInv, Calm, ServerEnd, spc' # "dead" PROVE Calm'
<1> USE DEF ServerEnd, clientVars
<1> PICK d \in Clients : d = data_socket /\ d # NoSocket /\ cpc[d] # "gone" /\ Sending(d)
  BY BusyWith
<1>0. /\ Types /\ toClient[d] \in Seq(Message) /\ crx[d] \in Seq(Logged)
      /\ si = Count + 1 /\ Packet(si) \in Message /\ Len(crx[d]) \in Nat
  BY PacketFacts, CountType DEF IInv, Types
<1>1. /\ toClient' = [toClient EXCEPT ![d] = Append(@, Packet(si))]
      /\ link' = [link EXCEPT ![d] = "closed"]
      /\ spc' = "accept"
  <2>1. ~ClientGone
    BY DEF ClientGone
  <2> QED BY <1>0, <2>1 DEF ServerWrite, End
<1>2. /\ toClient'[d] = Append(toClient[d], Packet(si)) /\ link'[d] = "closed"
      /\ \A c \in Clients \ {d} : toClient'[c] = toClient[c] /\ link'[c] = link[c]
  BY <1>0, <1>1 DEF Types
<1>3. /\ Len(crx[d]) + Len(toClient[d]) = si - 1 /\ From(toClient[d], Len(crx[d]))
      /\ cpc[d] = "receive" /\ ci[d] = Len(crx[d]) + 1 /\ From(crx[d], 0) /\ AllHeard(d)
  BY DEF Sending, Answered
<1>4. Len(toClient'[d]) = Len(toClient[d]) + 1 /\ Len(toClient[d]) \in Nat
  BY <1>0, <1>2, AppendFacts
<1>5. Count \in Nat /\ si \in Nat /\ si = Len(crx[d]) + Len(toClient[d]) + 1
  <2>1. Count \in Nat
    BY CountType
  <2>2. PICK a \in Nat, b \in Nat : a = Len(crx[d]) /\ b = Len(toClient[d])
    BY <1>0, <1>4
  <2>3. a + b = si - 1 /\ si = Count + 1
    BY <1>0, <1>3, <2>2
  <2>4. si \in Nat /\ si = a + b + 1
    BY ONLY <2>1, <2>3
  <2> QED BY <2>1, <2>2, <2>4
<1>6. Answered(d, Count + 1)'
  <2>1. From(toClient'[d], Len(crx[d]))
    <3>1. toClient[d] \in Seq(Message) /\ Len(crx[d]) \in Nat /\ Packet(si) \in Message
      BY <1>0
    <3>2. From(toClient[d], Len(crx[d]))
      BY <1>3
    <3>3. From(Append(toClient[d], Packet(si)), Len(crx[d]))
      BY ONLY <1>5, <3>1, <3>2, FromAppend
    <3> QED BY <1>2, <3>3
  <2>2. Len(crx[d]) + Len(toClient'[d]) = Count + 1
    <3>1. PICK a \in Nat, b \in Nat : a = Len(crx[d]) /\ b = Len(toClient[d])
      BY <1>0, <1>4
    <3>2. a + b + 1 = Count + 1
      BY <1>0, <1>5, <3>1
    <3>3. a + (b + 1) = Count + 1
      BY ONLY <3>2
    <3> QED BY <1>4, <3>1, <3>3
  <2> QED BY <1>3, <2>1, <2>2 DEF Answered
<1>7. Served(d)'
  BY <1>2, <1>3, <1>6 DEF Served, AllHeard
<1>8. Stage(d)'
  BY <1>7 DEF Stage
<1> QED BY <1>1, <1>2, <1>8, CalmServed

\* It is enough to look at the client that takes a step.
LEMMA CalmClient ==
  ASSUME IInv, Calm, NEW c \in Clients, UNCHANGED serverVars, UNCHANGED <<backlog, link>>,
         \A d \in Clients \ {c} : UNCHANGED Own(d),
         ~terminateSignal'[c], cpc'[c] \notin {"start", "gone"},
         link[c] # "none" => Stage(c)'
  PROVE  Calm'
<1> USE DEF serverVars
<1>1. ASSUME NEW d \in Clients
      PROVE  /\ ~terminateSignal'[d] /\ cpc'[d] # "gone" /\ (cpc'[d] = "start" => Fresh(d)')
             /\ link'[d] # "none" => Stage(d)'
  <2>1. CASE d = c
    BY <2>1
  <2>2. CASE d # c
    <3>1. UNCHANGED Own(d)
      BY <2>2
    <3>2. /\ ~terminateSignal[d] /\ cpc[d] # "gone" /\ (cpc[d] = "start" => Fresh(d))
          /\ link[d] # "none" => Stage(d)
      BY DEF Calm
    <3>3. /\ terminateSignal'[d] = terminateSignal[d] /\ cpc'[d] = cpc[d]
          /\ Fresh(d) => Fresh(d)'
      BY <3>1, OwnFrame DEF Own
    <3>4. Stage(d) => Stage(d)'
      BY <3>1, StageFrame
    <3> QED BY <3>2, <3>3, <3>4
  <2> QED BY <2>1, <2>2
<1> QED BY <1>1 DEF Calm

LEMMA CalmConnect == ASSUME IInv, Calm, spc # "dead", NEW c \in Clients, Connect(c) PROVE Calm'
<1> USE DEF Connect, serverVars
<1>0. Types /\ backlog \in Seq(Clients) /\ Fresh(c)
  BY DEF IInv, Types, Calm
<1>1. /\ \A d \in Clients \ {c} : UNCHANGED Own(d)
      /\ cpc'[c] = "send" /\ ~terminateSignal'[c]
  BY <1>0 DEF Types, Own, Calm
<1>2. CASE UNCHANGED <<link, backlog>>
  BY <1>0, <1>1, <1>2, CalmClient DEF Fresh
<1>3. CASE backlog' = Append(backlog, c) /\ link' = [link EXCEPT ![c] = "up"]
  <2>1. /\ Len(backlog) \in Nat /\ Len(backlog') = Len(backlog) + 1
        /\ backlog'[Len(backlog) + 1] = c /\ Len(backlog) + 1 \in 1..Len(backlog')
        /\ \A j \in 1..Len(backlog) : backlog'[j] = backlog[j] /\ j \in 1..Len(backlog')
    BY <1>0, <1>3, AppendFacts
  <2>2. link'[c] = "up" /\ \A d \in Clients \ {c} : link'[d] = link[d]
    BY <1>0, <1>3 DEF Types
  <2>3. Waiting(c)'
    <3>1. /\ toServer'[c] = <<>> /\ toClient'[c] = <<>> /\ srx'[c] = <<>> /\ crx'[c] = <<>>
          /\ ci'[c] = 1
      BY <1>0 DEF Fresh
    <3>2. Heard(c, ci[c] - 1)'
      BY <3>1, CountType DEF Heard, From
    <3>3. Sends(c)'
      BY <1>1, <2>2, <3>1, <3>2 DEF Sends
    <3>4. \E j \in 1..Len(backlog') : backlog'[j] = c
      BY <2>1
    <3> QED BY <3>1, <3>3, <3>4 DEF Waiting
  <2>4. ASSUME NEW d \in Clients
        PROVE  /\ ~terminateSignal'[d] /\ cpc'[d] # "gone" /\ (cpc'[d] = "start" => Fresh(d)')
               /\ link'[d] # "none" => Stage(d)'
    <3>1. CASE d = c
      BY <1>1, <2>3, <3>1 DEF Stage
    <3>2. CASE d # c
      <4>1. UNCHANGED Own(d)
        BY <1>1, <3>2
      <4>2. Stage(d) => Stage(d)'
        <5>1. \A j \in 1..Len(backlog) : backlog[j] = d =>
                \E k \in 1..Len(backlog') : backlog'[k] = d
          BY <2>1
        <5> QED BY <4>1, <5>1, StageFrame
      <4>3. /\ terminateSignal'[d] = terminateSignal[d] /\ cpc'[d] = cpc[d] /\ link'[d] = link[d]
            /\ Fresh(d) => Fresh(d)'
        BY <4>1, OwnFrame DEF Own
      <4> QED BY <4>2, <4>3 DEF Calm
    <3> QED BY <3>1, <3>2
  <2>5. ASSUME NEW j \in 1..Len(backlog') PROVE link'[backlog'[j]] = "up"
    <3>1. CASE j = Len(backlog) + 1
      BY <2>1, <2>2, <3>1
    <3>2. CASE j \in 1..Len(backlog)
      <4>1. backlog'[j] = backlog[j] /\ backlog[j] \in Clients /\ link[backlog[j]] = "up"
        BY <1>0, <2>1, <3>2 DEF Calm
      <4> QED BY <2>2, <4>1
    <3> QED BY <2>1, <3>1, <3>2
  <2>6. /\ data_socket' = NoSocket <=> spc' \in {"start", "accept"}
        /\ data_socket' # NoSocket => link'[data_socket'] = "up"
    <3>1. data_socket # NoSocket => data_socket \in Clients /\ link[data_socket] = "up"
      BY <1>0 DEF Types, Calm
    <3>2. data_socket # NoSocket => link'[data_socket] = "up"
      BY <2>2, <3>1
    <3> QED BY <3>2 DEF Calm
  <2> QED BY <2>4, <2>5, <2>6 DEF Calm
<1> QED BY <1>2, <1>3

LEMMA CalmClientSend ==
  ASSUME IInv, Calm, spc # "dead", NEW c \in Clients, ClientSend(c)
  PROVE  Calm'
<1>0. /\ Types /\ toServer[c] \in Seq(Message) /\ srx[c] \in Seq(Logged) /\ Len(srx[c]) \in Nat
      /\ ci[c] \in 1..(Count + 1) /\ Packet(ci[c]) \in Message /\ link[c] \in {"none", "up", "closed"}
  <2>1. /\ Types /\ toServer[c] \in Seq(Message) /\ srx[c] \in Seq(Logged)
        /\ ci[c] \in 1..(Count + 1) /\ link[c] \in {"none", "up", "closed"}
    BY DEF IInv, Types
  <2>2. Packet(ci[c]) \in Message /\ Len(srx[c]) \in Nat
    BY ONLY <2>1, PacketFacts
  <2> QED BY <2>1, <2>2
<1> USE DEF ClientSend, serverVars
<1>1. \A d \in Clients \ {c} : UNCHANGED Own(d)
  BY <1>0 DEF Types, Own
<1>2. ~terminateSignal'[c] /\ (link[c] # "none" => Stage(c)) /\ cpc[c] = "send"
  BY DEF Calm
<1>3. link[c] # "closed"
  BY <1>2 DEF Stage, Waiting, Receiving, Sends, Sending, Served, Answered
<1>4. ~Broken(c) /\ AfterSend(c) \in {"send", "receive"} /\ cpc'[c] = AfterSend(c)
  BY <1>0, <1>3 DEF AfterSend, Types, Broken
<1>5. CASE link[c] = "none"
  BY <1>1, <1>2, <1>4, <1>5, CalmClient
<1>6. CASE link[c] = "up"
  <2>1. toServer'[c] = Append(toServer[c], Packet(ci[c]))
    BY <1>0, <1>4, <1>6 DEF Types
  <2>2. Sends(c) /\ (Waiting(c) \/ Receiving(c))
    BY <1>2, <1>6 DEF Stage, Waiting, Receiving, Sending, Answered, Served
  <2>3. /\ Heard(c, ci[c] - 1) /\ toClient[c] = <<>> /\ crx[c] = <<>>
    BY <1>2, <2>2 DEF Sends
  <2>4. PICK n \in Nat, a \in Nat, b \in Nat :
          n = ci[c] /\ a = Len(srx[c]) /\ b = Len(toServer[c])
    BY <1>0, CountType
  <2>5. a + b = n - 1 /\ a <= Count /\ From(srx[c], 0) /\ From(toServer[c], a)
    BY <2>3, <2>4 DEF Heard
  <2>6. n = a + b + 1 /\ a + (b + 1) = n
    BY ONLY <2>5
  <2>7. From(toServer'[c], a) /\ Len(toServer'[c]) = b + 1
    <3>1. toServer[c] \in Seq(Message) /\ Packet(n) \in Message /\ n = a + Len(toServer[c]) + 1
      BY <1>0, <2>4, <2>6
    <3>2. From(toServer[c], a)
      BY <2>5
    <3>3. From(Append(toServer[c], Packet(n)), a)
      BY ONLY <3>1, <3>2, FromAppend
    <3>4. Len(Append(toServer[c], Packet(n))) = Len(toServer[c]) + 1
      BY ONLY <3>1, AppendFacts
    <3> QED BY <2>1, <2>4, <3>3, <3>4
  <2>8. Heard(c, n)'
    BY <2>4, <2>5, <2>6, <2>7 DEF Heard
  <2>9. Sends(c)'
    <3>1. CASE AfterSend(c) = "send"
      <4>1. ci'[c] = n + 1 /\ ci'[c] - 1 = n
        BY <1>0, <2>4, <3>1 DEF Types
      <4>2. Heard(c, ci[c] - 1)'
        BY <2>8, <4>1 DEF Heard
      <4> QED BY <1>4, <1>6, <2>3, <3>1, <4>2 DEF Sends
    <3>2. CASE AfterSend(c) = "receive"
      <4>1. ci'[c] = 1 /\ n = Count + 1
        BY <1>0, <2>4, <3>2 DEF Types, AfterSend
      <4> QED BY <1>4, <1>6, <2>3, <2>8, <3>2, <4>1 DEF Sends, Heard
    <3> QED BY <1>4, <3>1, <3>2
  <2>10. Stage(c)'
    <3>1. CASE Waiting(c)
      BY <2>9, <3>1 DEF Stage, Waiting
    <3>2. CASE Receiving(c)
      BY <2>9, <3>2 DEF Stage, Receiving
    <3> QED BY <2>2, <3>1, <3>2
  <2> QED BY <1>1, <1>2, <1>4, <2>10, CalmClient
<1> QED BY <1>0, <1>3, <1>5, <1>6

LEMMA CalmClientRead ==
  ASSUME IInv, Calm, spc # "dead", NEW c \in Clients, ClientRead(c)
  PROVE  Calm'
<1> USE DEF ClientRead, serverVars
<1>0. /\ Types /\ toClient[c] \in Seq(Message) /\ crx[c] \in Seq(Logged) /\ toClient[c] # <<>>
      /\ ci[c] \in 1..(Count + 1) /\ si \in 1..(Count + 1) /\ Count \in Nat
  BY CountType DEF IInv, Types
<1>6. PICK result \in Logged, buffer \in Logged :
        /\ ClientTurn(c, result, buffer)
        /\ ClientLine(c, result, buffer) = ReadAs(Head(toClient[c]), ci[c])
        /\ ci[c] > Commands => buffer = ReadAs(Head(toClient[c]), ci[c])
  <2>1. Head(toClient[c]) \in Message
    BY <1>0, TailFacts
  <2> QED BY <1>0, <2>1, ClientTakeEffect
<1>7. /\ \/ /\ ci[c] > Commands /\ buffer = End
            /\ cpc'[c] = "spin" /\ ci'[c] = ci[c] /\ crx'[c] = crx[c]
         \/ /\ ~(ci[c] > Commands /\ buffer = End)
            /\ cpc'[c] = cpc[c] /\ ci'[c] = (IF ci[c] <= Count THEN ci[c] + 1 ELSE ci[c])
            /\ crx'[c] = WithLine(crx[c], ClientLine(c, result, buffer))
      /\ \A d \in Clients \ {c} : crx'[d] = crx[d] /\ ci'[d] = ci[d] /\ cpc'[d] = cpc[d]
  BY <1>0, <1>6, ClientTurnEffect
<1>1. \A d \in Clients \ {c} : UNCHANGED Own(d)
  BY <1>0, <1>7 DEF Types, Own
<1>2. ~terminateSignal'[c] /\ (link[c] # "none" => Stage(c)) /\ cpc[c] = "receive"
  BY DEF Calm
<1>3. cpc'[c] \in {"receive", "spin"}
  BY <1>2, <1>7
<1>4. CASE link[c] = "none"
  BY <1>1, <1>2, <1>3, <1>4, CalmClient
<1>5. CASE link[c] # "none"
  <2>1. AllHeard(c) /\ (Sending(c) \/ (Served(c) /\ Answered(c, Count + 1)))
    BY <1>0, <1>2, <1>5 DEF Stage, Waiting, Receiving, Sends, Sending, Served
  <2>2. PICK n \in Nat : /\ Answered(c, n)
                         /\ \/ Sending(c) /\ n = si - 1
                            \/ Served(c) /\ n = Count + 1
    BY <1>0, <2>1 DEF Sending
  <2>3. PICK a \in Nat, b \in Nat : a = Len(crx[c]) /\ b = Len(toClient[c])
    BY <1>0
  <2>4. /\ ci[c] = a + 1 /\ From(crx[c], 0) /\ From(toClient[c], a) /\ a + b = n
        /\ a + 1 \in 1..(Count + 1)
    BY <1>0, <2>2, <2>3 DEF Answered
  <2>5. b >= 1 /\ Len(Tail(toClient[c])) = b - 1
    BY <1>0, <2>3, TailFacts
  <2>6. Head(toClient[c]) = Packet(a + 1) /\ From(Tail(toClient[c]), a + 1)
    BY <1>0, <2>4, FromTail
  <2>7. /\ toClient'[c] = Tail(toClient[c]) /\ ClientLine(c, result, buffer) = Packet(a + 1)
        /\ ci[c] > Commands => buffer = Packet(a + 1)
    <3>1. ReadAs(Packet(a + 1), a + 1) = Packet(a + 1)
      BY <2>4, TurnFacts
    <3> QED BY <1>0, <1>6, <2>4, <2>6, <3>1 DEF Types
  <2>8. CASE a + 1 <= Count
    <3>1. ~(ci[c] > Commands /\ buffer = End)
      BY <2>4, <2>7, <2>8, TurnFacts
    <3>3. Packet(a + 1) \in Logged
      BY <2>4, PacketFacts DEF Logged
    <3>2. ci'[c] = (a + 1) + 1 /\ crx'[c] = Append(crx[c], Packet(a + 1)) /\ cpc'[c] = cpc[c]
      <4>1. Len(crx[c]) < MaxLines
        <5>1. a + 1 <= Count /\ MaxLines = Count + MaxSignals
          BY <2>8 DEF MaxLines
        <5>2. a < MaxLines
          BY ONLY <5>1, <2>3, <1>0, SocketsAssumption
        <5> QED BY <2>3, <5>2
      <4>2. WithLine(crx[c], Packet(a + 1)) = Append(crx[c], Packet(a + 1))
        BY <1>0, <3>3, <4>1, WithLineFacts
      <4> QED BY <1>7, <2>4, <2>7, <2>8, <3>1, <4>2
    <3>4. Len(crx'[c]) = a + 1 /\ From(crx'[c], 0)
      <4>1. From(Append(crx[c], Packet(a + 1)), 0)
        BY <1>0, <2>3, <2>4, <3>3, FromAppend
      <4> QED BY <1>0, <2>3, <3>2, <3>3, <4>1, AppendFacts
    <3>5. (a + 1) + (b - 1) = n
      BY ONLY <2>4
    <3>6. Answered(c, n)'
      BY <1>2, <2>5, <2>6, <2>7, <3>2, <3>4, <3>5 DEF Answered
    <3>7. AllHeard(c)'
      BY <2>1 DEF AllHeard
    <3>8. Stage(c)'
      <4>1. CASE Sending(c) /\ n = si - 1
        <5>1. Answered(c, si - 1)'
          BY <3>6, <4>1 DEF Answered
        <5> QED BY <3>7, <4>1, <5>1 DEF Sending, Stage
      <4>2. CASE Served(c) /\ n = Count + 1
        <5>1. Answered(c, Count + 1)'
          BY <3>6, <4>2 DEF Answered
        <5> QED BY <3>7, <4>2, <5>1 DEF Served, Stage
      <4> QED BY <2>2, <4>1, <4>2
    <3> QED BY <1>1, <1>2, <1>3, <3>8, CalmClient
  <2>9. CASE a + 1 = Count + 1
    <3>1. ci[c] > Commands /\ buffer = End
      BY <2>4, <2>7, <2>9, TurnFacts
    <3>2. cpc'[c] = "spin" /\ crx'[c] = crx[c]
      BY <1>7, <3>1
    <3>3. n >= Count + 1
      BY <1>0, <2>4, <2>5, <2>9
    <3>4. Served(c) /\ n = Count + 1
      BY <1>0, <2>2, <3>3
    <3>5. b = 1
      BY <1>0, <2>4, <2>9, <3>4
    <3>6. toClient'[c] = <<>>
      <4>1. Tail(toClient[c]) \in Seq(Message) /\ Len(Tail(toClient[c])) = 0
        BY <1>0, <2>5, <3>5
      <4>2. Tail(toClient[c]) = <<>>
        BY ONLY <4>1, EmptyByLength
      <4> QED BY <2>7, <4>2
    <3>7. AllHeard(c)' /\ From(crx[c], 0)'
      BY <2>1, <2>4, <3>2 DEF AllHeard, From
    <3>8. Served(c)'
      BY <3>2, <3>4, <3>6, <3>7 DEF Served
    <3>9. Stage(c)'
      BY <3>8 DEF Stage
    <3> QED BY <1>1, <1>2, <1>3, <3>9, CalmClient
  <2> QED BY <1>0, <2>4, <2>8, <2>9
<1> QED BY <1>4, <1>5

LEMMA CalmClientReadFails ==
  ASSUME IInv, Calm, spc # "dead", NEW c \in Clients, ClientReadFails(c)
  PROVE  Calm'
<1> USE DEF ClientReadFails, serverVars
<1>0. /\ Types /\ ci[c] \in 1..(Count + 1) /\ Count \in Nat /\ crx[c] \in Seq(Logged)
      /\ cresult[c] \in Logged /\ cbuffer[c] \in Logged
  BY CountType DEF IInv, Types
<1>1. /\ \/ cpc'[c] = "spin"
         \/ cpc'[c] = cpc[c]
      /\ \A d \in Clients \ {c} : crx'[d] = crx[d] /\ ci'[d] = ci[d] /\ cpc'[d] = cpc[d]
  BY <1>0, ClientTurnEffect
<1>2. \A d \in Clients \ {c} : UNCHANGED Own(d)
  BY <1>0, <1>1 DEF Types, Own
<1>3. ~terminateSignal'[c] /\ (link[c] # "none" => Stage(c)) /\ cpc[c] = "receive"
  BY DEF Calm
<1>4. ASSUME link[c] # "none" PROVE FALSE
  <2>1. link[c] = "closed"
    BY <1>4 DEF Reset, Broken
  <2>2. AllHeard(c) /\ Answered(c, Count + 1)
    BY <1>3, <1>4, <2>1 DEF Stage, Waiting, Receiving, Sends, Sending, Served
  <2>3. toClient[c] = <<>>
    BY <1>4, <2>2 DEF AllHeard, Reset
  <2>4. PICK a \in Nat : a = Len(crx[c])
    BY <1>0
  <2>5. a + 0 = Count + 1 /\ ci[c] = a + 1
    BY <2>2, <2>3, <2>4 DEF Answered
  <2> QED BY <1>0, <2>4, <2>5
<1> QED BY <1>1, <1>2, <1>3, <1>4, CalmClient

\* What is undisturbed after a step was so before, and the step was no signal or kill.
LEMMA UndisturbedBefore ==
  ASSUME BudgetInv, [Next]_vars, Undisturbed'
  PROVE  Undisturbed /\ (UNCHANGED vars \/ Server \/ \E c \in Clients : Client(c))
<1>1. budget'.signals = MaxSignals /\ budget'.kills = MaxKills /\ spc' # "dead"
  BY DEF Undisturbed
<1>2. budget.signals \in Nat /\ budget.signals <= MaxSignals
      /\ budget.kills \in Nat /\ budget.kills <= MaxKills
  BY DEF BudgetInv
<1>3. ~(budget' = [budget EXCEPT !.signals = @ - 1])
  <2> SUFFICES ASSUME budget' = [budget EXCEPT !.signals = @ - 1] PROVE FALSE
    OBVIOUS
  <2>1. budget'.signals = budget.signals - 1
    BY DEF BudgetInv
  <2> QED BY <1>1, <1>2, <2>1, SocketsAssumption
<1>4. ~(budget' = [budget EXCEPT !.kills = @ - 1])
  <2> SUFFICES ASSUME budget' = [budget EXCEPT !.kills = @ - 1] PROVE FALSE
    OBVIOUS
  <2>1. budget'.kills = budget.kills - 1
    BY DEF BudgetInv
  <2> QED BY <1>1, <1>2, <2>1, SocketsAssumption
<1>5. UNCHANGED vars \/ Server \/ \E c \in Clients : Client(c)
  BY <1>3, <1>4 DEF Next, ServerSignal, sigHandler, Kill
<1>6. CASE UNCHANGED vars
  BY <1>5, <1>6 DEF vars, serverVars, Undisturbed
<1>7. CASE Server
  <2>1. UNCHANGED budget /\ spc # "dead"
    BY <1>7, Zenon DEF Server, Listen, Accept, ServerRead, ServerReadFails, ServerSend, ServerEnd
  <2> QED BY <1>5, <2>1 DEF Undisturbed
<1>8. CASE \E c \in Clients : Client(c)
  <2>1. UNCHANGED budget /\ UNCHANGED spc
    BY <1>8, Zenon DEF Client, Connect, ClientSend, ClientRead, ClientReadFails, ClientExit,
       serverVars
  <2> QED BY <1>5, <2>1 DEF Undisturbed
<1> QED BY <1>5, <1>6, <1>7, <1>8

LEMMA StageInit == Init => StageInv /\ BudgetInv
<1> SUFFICES ASSUME Init PROVE StageInv /\ BudgetInv
  OBVIOUS
<1>1. BudgetInv
  BY SocketsAssumption DEF Init, BudgetInv
<1>2. \A c \in Clients : Fresh(c)
  BY DEF Init, Fresh
<1>3. Calm
  BY <1>2 DEF Init, Calm
<1> QED BY <1>1, <1>3 DEF StageInv

LEMMA StageNext == IInv /\ BudgetInv /\ StageInv /\ [Next]_vars => StageInv'
<1> SUFFICES ASSUME IInv, BudgetInv, StageInv, [Next]_vars, Undisturbed' PROVE Calm'
  BY DEF StageInv
<1>0. /\ Calm /\ spc # "dead" /\ spc' # "dead"
      /\ UNCHANGED vars \/ Server \/ \E c \in Clients : Client(c)
  BY UndisturbedBefore DEF StageInv, Undisturbed
<1>1. CASE UNCHANGED vars
  <2> USE <1>1 DEF vars, linkVars, serverVars, clientVars
  <2>1. \A c \in Clients : UNCHANGED Own(c)
    BY DEF Own
  <2>2. ASSUME NEW c \in Clients
        PROVE  /\ ~terminateSignal'[c] /\ cpc'[c] # "gone" /\ (cpc'[c] = "start" => Fresh(c)')
               /\ link'[c] # "none" => Stage(c)'
    BY <1>0, <2>1, OwnFrame, StageFrame DEF Calm
  <2> QED BY <1>0, <2>2 DEF Calm
<1>2. CASE Server
  BY <1>0, <1>2, CalmListen, CalmAccept, CalmServerRead, CalmServerReadFails, CalmServerSend,
     CalmServerEnd DEF Server
<1>3. ASSUME NEW c \in Clients, Client(c) PROVE Calm'
  <2>1. ~ClientExit(c)
    BY <1>0 DEF ClientExit, Calm
  <2> QED BY <1>0, <1>3, <2>1, CalmConnect, CalmClientSend, CalmClientRead, CalmClientReadFails
      DEF Client
<1> QED BY <1>0, <1>1, <1>2, <1>3

\* As long as no signal, kill or crash disturbs them, both sides log the other's messages
\* whole, in order and none twice, for any number of clients that the server serves one
\* after the other.
THEOREM MessagesInOrder == Spec => []InOrder
<1>1. StageInv => InOrder
  <2> SUFFICES ASSUME Calm, NEW c \in Clients, link[c] # "none"
               PROVE  From(srx[c], 0) /\ From(crx[c], 0)
    <3>1. \A k \in Nat : 0 + k = k
      OBVIOUS
    <3>2. \A s : From(s, 0) => \A k \in 1..Len(s) : s[k] = Packet(k)
      BY <3>1 DEF From
    <3> QED BY <3>2 DEF StageInv, InOrder
  <2>1. Stage(c)
    BY DEF Calm
  <2>2. From(<<>>, 0)
    BY DEF From
  <2> QED BY <2>1, <2>2
      DEF Stage, Waiting, Receiving, Sends, Heard, Sending, AllHeard, Answered, Served
<1>2. Init => IInv /\ HeldInv /\ ClosedInv /\ BudgetInv /\ StageInv
  BY SocketsInit, StageInit
<1>3. IInv /\ HeldInv /\ ClosedInv /\ BudgetInv /\ StageInv /\ [Next]_vars
        => (IInv /\ HeldInv /\ ClosedInv /\ BudgetInv /\ StageInv)'
  BY SocketsNext, StageNext, BudgetKeeps
<1> QED BY <1>1, <1>2, <1>3, PTL DEF Spec
=============================================================================
