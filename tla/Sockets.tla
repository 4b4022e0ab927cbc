------------------------------- MODULE Sockets -------------------------------
(***************************************************************************)
(* HW4/Ques2/sockets: socketServer.c and socketClient.c.  A client connects *)
(* to the server's local SOCK_SEQPACKET socket, sends commands, strings and *)
(* END, and receives the server's commands, strings and END.  The server    *)
(* serves one connection after the other.                                   *)
(*                                                                          *)
(* The socket is external: connect queues the client in the backlog, a read *)
(* returns one packet, cut to the size asked for.  No result of a call is   *)
(* checked: after a failed read the code goes on with what result or buffer *)
(* held before, and logs it once more.                                      *)
(***************************************************************************)
EXTENDS Naturals, Sequences

CONSTANTS
  Clients,
  Commands, Strings,  \* messages of each kind (5 and 5)
  MaxSignals,         \* bound: SIGINTs delivered
  MaxKills            \* bound: clients killed

NoSocket == "-1"

ASSUME SocketsAssumption ==
  /\ {Commands, Strings} \subseteq Nat \ {0}
  /\ NoSocket \notin Clients
  /\ MaxSignals \in Nat /\ MaxKills \in Nat

VARIABLES
  backlog,          \* clients that are connected and not yet accepted
  link,             \* link[c]: state of c's connection
  toServer, toClient,  \* packets under way on it
  spc, si, data_socket, fp,                  \* the server; si is i + 1
  sresult, sbuffer,                          \* its result and its buffer
  cpc, ci, cresult, cbuffer, terminateSignal,  \* the clients
  srx, crx,         \* the lines each hands to fputs: the server's of client c, c's own
  budget

linkVars == <<backlog, link, toServer, toClient>>
serverVars == <<spc, si, data_socket, fp, sresult, sbuffer, srx>>
clientVars == <<cpc, ci, cresult, cbuffer, terminateSignal, crx>>
vars == <<linkVars, serverVars, clientVars, budget>>

Count == Commands + Strings
MaxLines == Count + MaxSignals   \* bound: lines of a log that are kept

\* The k-th packet of a process: a command, a string, and END at last.
Packet(k) == [kind |-> CASE k <= Commands -> "command"
                         [] k > Commands /\ k <= Count -> "string"
                         [] OTHER -> "END",
              k |-> k]
End == Packet(Count + 1)

\* What result or buffer holds if it is no message of the other side.
Bad == [kind |-> "bad", k |-> 0]

\* What the k-th read makes of a packet: one byte, or a string.  Of a string only the
\* first byte goes into result; a command spoils the first byte of buffer.
ReadAs(pkt, k) ==
  IF (k <= Commands) = (pkt.kind = "command") THEN pkt ELSE Bad

\* Neither variable is initialised: the server's buffer may even hold END.
Init ==
  /\ backlog = <<>>
  /\ link = [c \in Clients |-> "none"]
  /\ toServer = [c \in Clients |-> <<>>] /\ toClient = [c \in Clients |-> <<>>]
  /\ spc = "start" /\ si = 1 /\ data_socket = NoSocket /\ fp = "none"
  /\ sresult = [from |-> NoSocket, pkt |-> Bad]
  /\ sbuffer \in {Bad, End}
  /\ srx = [c \in Clients |-> <<>>]
  /\ cpc = [c \in Clients |-> "start"] /\ ci = [c \in Clients |-> 1]
  /\ cresult = [c \in Clients |-> Bad] /\ cbuffer = [c \in Clients |-> Bad]
  /\ crx = [c \in Clients |-> <<>>]
  /\ terminateSignal = [c \in Clients |-> FALSE]
  /\ budget = [signals |-> MaxSignals, kills |-> MaxKills]

\* The connection of c is over; the packets in toServer[c] were never read.
Broken(c) == link[c] = "closed" \/ (link[c] = "up" /\ spc = "dead")

\* So c's next call on it fails, once, with ECONNRESET.
Reset(c) == Broken(c) /\ toServer[c] # <<>>

\* A log with one more line.
WithLine(log, line) == IF Len(log) < MaxLines THEN Append(log, line) ELSE log

-----------------------------------------------------------------------------
(* The server.                                                              *)

\* unlink, socket, bind, listen and fopen.
Listen ==
  /\ spc = "start"
  /\ spc' = "accept" /\ fp' = "open"
  /\ UNCHANGED <<linkVars, clientVars, budget, si, sresult, sbuffer, data_socket, srx>>

Accept ==
  /\ spc = "accept" /\ backlog # <<>>
  /\ data_socket' = Head(backlog)
  /\ backlog' = Tail(backlog)
  /\ spc' = "receive" /\ si' = 1
  /\ UNCHANGED <<link, toServer, toClient, fp, sresult, sbuffer, srx, clientVars, budget>>

\* fputs on a closed FILE is undefined: the server goes on or crashes.
Log(next) ==
  \/ spc' = next
  \/ fp = "closed" /\ spc' = "dead"

\* Result as a line about client c: the command of an earlier client that may still be
\* there is no message of c.
Of(c, result) == IF result.from = c THEN result.pkt ELSE Bad

\* One turn of the receive loop, with what result and buffer hold after its read.  END
\* in buffer ends the loop; what else is there is logged.
ServerTurn(result, buffer) ==
  /\ sresult' = result /\ sbuffer' = buffer
  /\ \/ /\ si > Commands /\ buffer = End
        /\ spc' = "send" /\ si' = 1
        /\ UNCHANGED srx
     \/ /\ ~(si > Commands /\ buffer = End)
        /\ Log("receive")
        /\ si' = IF si <= Count THEN si + 1 ELSE si
        /\ srx' = IF data_socket = NoSocket THEN srx
                  ELSE [srx EXCEPT ![data_socket] =
                          WithLine(@, IF si <= Commands THEN Of(data_socket, result)
                                      ELSE buffer)]

\* One turn with a packet.
ServerTake(pkt) ==
  \/ si <= Commands /\ ServerTurn([from |-> data_socket, pkt |-> ReadAs(pkt, si)], sbuffer)
  \/ si > Commands /\ ServerTurn(sresult, ReadAs(pkt, si))

\* Mutant of ServerRead: the packet is looked at and stays in the socket.
ServerPeek ==
  /\ spc = "receive" /\ data_socket # NoSocket /\ toServer[data_socket] # <<>>
  /\ ServerTake(Head(toServer[data_socket]))
  /\ UNCHANGED <<linkVars, data_socket, fp, clientVars, budget>>

ServerRead ==
  /\ spc = "receive" /\ data_socket # NoSocket /\ toServer[data_socket] # <<>>
  /\ ServerTake(Head(toServer[data_socket]))
  /\ toServer' = [toServer EXCEPT ![data_socket] = Tail(@)]
  /\ UNCHANGED <<backlog, link, toClient, data_socket, fp, clientVars, budget>>

\* read of no socket, or of one whose client is gone: both variables stay as they are.
ServerReadFails ==
  /\ spc = "receive"
  /\ \/ data_socket = NoSocket
     \/ /\ data_socket # NoSocket
        /\ toServer[data_socket] = <<>> /\ cpc[data_socket] = "gone"
  /\ ServerTurn(sresult, sbuffer)
  /\ UNCHANGED <<linkVars, data_socket, fp, clientVars, budget>>

\* A write to the client.  It fails without a socket, or if the client is gone: POSIX
\* then lets SIGPIPE end the server, Linux only does so for streams.
ClientGone == data_socket # NoSocket /\ cpc[data_socket] = "gone"

ServerWrite(pkt) ==
  \/ /\ data_socket # NoSocket /\ ~ClientGone
     /\ toClient' = [toClient EXCEPT ![data_socket] = Append(@, pkt)]
  \/ /\ data_socket = NoSocket \/ ClientGone
     /\ UNCHANGED toClient

\* A command or a string to the client.
ServerSend ==
  /\ spc = "send" /\ si <= Count
  /\ ServerWrite(Packet(si))
  /\ \/ Log("send")
     \/ ClientGone /\ spc' = "dead"
  /\ si' = si + 1
  /\ UNCHANGED <<backlog, link, toServer, data_socket, fp, sresult, sbuffer, srx,
                 clientVars, budget>>

\* fflush, fclose, END and close.  A second fclose may crash the server.
ServerEnd ==
  /\ spc = "send" /\ si > Count
  /\ \/ /\ ServerWrite(End)
        /\ link' = IF data_socket = NoSocket THEN link
                   ELSE [link EXCEPT ![data_socket] = "closed"]
        /\ spc' = "accept"
     \/ /\ fp = "closed" \/ ClientGone
        /\ spc' = "dead" /\ UNCHANGED <<toClient, link>>
  /\ fp' = "closed" /\ sbuffer' = End
  /\ data_socket' = NoSocket
  /\ UNCHANGED <<backlog, toServer, si, sresult, srx, clientVars, budget>>

\* SIGINT: accept and read return with EINTR, and the code goes on with the old content
\* of result or buffer; the flag is set and never read.
ServerSignal ==
  /\ spc \notin {"start", "dead"} /\ budget.signals > 0
  /\ budget' = [budget EXCEPT !.signals = @ - 1]
  /\ \/ /\ spc = "accept" /\ backlog = <<>>
        /\ data_socket' = NoSocket /\ spc' = "receive" /\ si' = 1
        /\ UNCHANGED <<sresult, sbuffer, srx>>
     \/ /\ spc = "receive" /\ data_socket # NoSocket /\ toServer[data_socket] = <<>>
        /\ cpc[data_socket] # "gone"
        /\ ServerTurn(sresult, sbuffer)
        /\ UNCHANGED data_socket
     \/ /\ \/ spc = "send"
           \/ spc = "accept" /\ backlog # <<>>
           \/ spc = "receive" /\ data_socket # NoSocket /\ toServer[data_socket] # <<>>
        /\ UNCHANGED <<spc, si, data_socket, sresult, sbuffer, srx>>
  /\ UNCHANGED <<linkVars, fp, clientVars>>

Server == Listen \/ Accept \/ ServerRead \/ ServerReadFails \/ ServerSend \/ ServerEnd

-----------------------------------------------------------------------------
(* A client.                                                                *)

\* socket, connect and fopen.  connect fails while nobody listens.
Connect(c) ==
  /\ cpc[c] = "start"
  /\ cpc' = [cpc EXCEPT ![c] = "send"]
  /\ \/ /\ spc \notin {"start", "dead"}
        /\ link' = [link EXCEPT ![c] = "up"]
        /\ backlog' = Append(backlog, c)
     \/ /\ spc \in {"start", "dead"}
        /\ UNCHANGED <<link, backlog>>
  /\ UNCHANGED <<toServer, toClient, serverVars, ci, cresult, cbuffer, crx, terminateSignal,
                 budget>>

\* Mutant of AfterSend: the client forgets to request the results.
AfterSendNoEnd(c) == IF ci[c] >= Count THEN "receive" ELSE "send"

\* The commands, the strings and END.
AfterSend(c) == IF ci[c] = Count + 1 THEN "receive" ELSE "send"

\* A write that fails goes unnoticed, or ends the client (SIGPIPE, see ServerWrite).
ClientSend(c) ==
  /\ cpc[c] = "send"
  /\ \/ /\ link[c] = "up" /\ ~Broken(c)
        /\ toServer' = [toServer EXCEPT ![c] = Append(@, Packet(ci[c]))]
        /\ cpc' = [cpc EXCEPT ![c] = AfterSend(c)]
     \/ /\ link[c] = "none" \/ Broken(c)
        /\ toServer' = [toServer EXCEPT ![c] = <<>>]
        /\ cpc' = [cpc EXCEPT ![c] = AfterSend(c)]
     \/ /\ Broken(c)
        /\ cpc' = [cpc EXCEPT ![c] = "gone"] /\ UNCHANGED toServer
  /\ ci' = [ci EXCEPT ![c] = IF AfterSend(c) = "send" THEN @ + 1 ELSE 1]
  /\ cbuffer' = [cbuffer EXCEPT ![c] = IF AfterSend(c) = "receive" THEN End ELSE @]
  /\ UNCHANGED <<backlog, link, toClient, serverVars, cresult, crx, terminateSignal, budget>>

\* One turn of the receive loop, as in the server.  When it begins, buffer still holds
\* the END that the client sent.
ClientTurn(c, result, buffer) ==
  /\ cresult' = [cresult EXCEPT ![c] = result]
  /\ cbuffer' = [cbuffer EXCEPT ![c] = buffer]
  /\ \/ /\ ci[c] > Commands /\ buffer = End
        /\ cpc' = [cpc EXCEPT ![c] = "spin"]
        /\ UNCHANGED <<ci, crx>>
     \/ /\ ~(ci[c] > Commands /\ buffer = End)
        /\ ci' = [ci EXCEPT ![c] = IF @ <= Count THEN @ + 1 ELSE @]
        /\ crx' = [crx EXCEPT ![c] = WithLine(@, IF ci[c] <= Commands THEN result ELSE buffer)]
        /\ UNCHANGED cpc

ClientTake(c, pkt) ==
  \/ ci[c] <= Commands /\ ClientTurn(c, ReadAs(pkt, ci[c]), cbuffer[c])
  \/ ci[c] > Commands /\ ClientTurn(c, cresult[c], ReadAs(pkt, ci[c]))

ClientRead(c) ==
  /\ cpc[c] = "receive" /\ toClient[c] # <<>> /\ ~Reset(c)
  /\ ClientTake(c, Head(toClient[c]))
  /\ toClient' = [toClient EXCEPT ![c] = Tail(@)]
  /\ UNCHANGED <<backlog, link, toServer, serverVars, terminateSignal, budget>>

\* read of no connection, or of one that was reset, or that is over and empty: both
\* variables stay as they are.
ClientReadFails(c) ==
  /\ cpc[c] = "receive"
  /\ \/ Reset(c)
     \/ (link[c] = "none" \/ Broken(c)) /\ toClient[c] = <<>>
  /\ toServer' = [toServer EXCEPT ![c] = <<>>]
  /\ ClientTurn(c, cresult[c], cbuffer[c])
  /\ UNCHANGED <<backlog, link, toClient, serverVars, terminateSignal, budget>>

ClientExit(c) ==
  /\ cpc[c] = "spin" /\ terminateSignal[c]
  /\ cpc' = [cpc EXCEPT ![c] = "gone"]
  /\ UNCHANGED <<linkVars, serverVars, ci, cresult, cbuffer, crx, terminateSignal, budget>>

\* SIGINT breaks a read that waits.
sigHandler(c) ==
  /\ cpc[c] # "gone" /\ budget.signals > 0
  /\ budget' = [budget EXCEPT !.signals = @ - 1]
  /\ terminateSignal' = [terminateSignal EXCEPT ![c] = TRUE]
  /\ LET waits == cpc[c] = "receive" /\ toClient[c] = <<>> /\ link[c] = "up" /\ ~Broken(c)
     IN  \/ waits /\ ClientTurn(c, cresult[c], cbuffer[c])
         \/ ~waits /\ UNCHANGED <<cpc, ci, cresult, cbuffer, crx>>
  /\ UNCHANGED <<linkVars, serverVars>>

Kill(c) ==
  /\ cpc[c] # "gone" /\ budget.kills > 0
  /\ budget' = [budget EXCEPT !.kills = @ - 1]
  /\ cpc' = [cpc EXCEPT ![c] = "gone"]
  /\ UNCHANGED <<linkVars, serverVars, ci, cresult, cbuffer, crx, terminateSignal>>

Client(c) ==
  \/ Connect(c) \/ ClientSend(c) \/ ClientRead(c) \/ ClientReadFails(c) \/ ClientExit(c)

Next ==
  \/ Server \/ ServerSignal
  \/ \E c \in Clients : Client(c) \/ sigHandler(c) \/ Kill(c)

Spec == Init /\ [][Next]_vars

\* The processes are scheduled; signals and kills need not come.
FairSpec == Spec /\ WF_vars(Server) /\ \A c \in Clients : WF_vars(Client(c))

-----------------------------------------------------------------------------
(* Properties.                                                              *)

\* No signal, no killed client, and the server has not crashed.
Undisturbed ==
  budget = [signals |-> MaxSignals, kills |-> MaxKills] /\ spc # "dead"

\* Both sides receive the other's messages whole, in order and none twice, as long as
\* nothing disturbs them; also when the server serves a second client ("Main loop for
\* handling connections", socketServer.c).
InOrder ==
  Undisturbed => \A c \in Clients : link[c] # "none" =>
    /\ \A k \in 1..Len(srx[c]) : srx[c][k] = Packet(k)
    /\ \A k \in 1..Len(crx[c]) : crx[c][k] = Packet(k)

\* log2 is log, or has one more line: garbage, a message younger than all before it or,
\* if a read failed, the youngest one again.
Continues(log, log2, failed) ==
  \/ log2 = log
  \/ \E line \in {log2[Len(log2)]} :
       /\ log2 = Append(log, line)
       /\ \/ line = Bad
          \/ \A j \in 1..Len(log) : log[j].k < line.k
          \/ /\ failed
             /\ \E i \in 1..Len(log) : log[i] = line
             /\ \A j \in 1..Len(log) : log[j].k <= line.k

\* Both logs of every client, when a failed read is one that a signal broke or that had
\* nobody to read from.
LogsContinue ==
  LET signal == budget'.signals < budget.signals
  IN  \A c \in Clients :
        /\ Continues(srx[c], srx'[c], signal \/ cpc[c] = "gone")
        /\ Continues(crx[c], crx'[c],
             signal \/ link[c] = "none" \/ Reset(c) \/ (link[c] = "up" /\ spc = "dead"))

\* Whatever signals, kills and crashes do, no message is logged after a later one, and
\* none is logged twice unless a signal broke the read or there was nobody to read from.
\* Then it is the one that result or buffer still holds, which is the last one and never
\* one of before ("RECEIVED: %d" and "RECEIVED: %s" in both programs).
OnlyFailedReadsRepeat == [][LogsContinue]_vars

\* A connected client gets through the whole exchange and leaves its receive
\* loop with every message the server sends, unless it is disturbed; so no
\* client waits for ever in the backlog behind one that is being served.
ExchangeCompletes ==
  \A c \in Clients :
    link[c] = "up" ~> ~Undisturbed \/ (cpc[c] = "spin" /\ Len(crx[c]) = Count)
==============================================================================
