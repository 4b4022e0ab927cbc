----------------------------- MODULE PipesProofs -----------------------------
(***************************************************************************)
(* Proofs about Pipes, for any numbers of commands and strings, any length  *)
(* of a string, any capacity and any signals.                               *)
(*                                                                          *)
(* As long as no call is interrupted, a pipe holds exactly the messages     *)
(* that its writer has sent and its reader has not read, each of them whole *)
(* (Whole), so the next read finds a message of the size it asks for.  An   *)
(* end is closed only by a process that has read all there is to read, so   *)
(* that the other has sent all it has to send, and it finds what is left in *)
(* the pipe.                                                                *)
(***************************************************************************)
EXTENDS Pipes, TLAPS, SequenceTheorems

\* A byte of a message.
Byte(p, m, b) == [from |-> p, msg |-> m, byte |-> b]

Types ==
  /\ capacity \in Nat
  /\ fd \in [Process -> [Fifo -> {"none", "opening", "met", "open", "failed", "closed"}]]
  /\ pipe \in [Fifo -> Seq([from : Process, msg : Nat, byte : Nat])]
  /\ pc \in [Process -> {"open1", "open2", "send", "receive", "spin", "gone"}]
  /\ i \in [Process -> 1..Count]
  /\ rx \in [Process -> Seq([from : Process \cup {"nobody"}, msg : Nat])]
  /\ interrupted \in BOOLEAN /\ broken \in BOOLEAN

\* The messages p has sent, and those it has read.
Wrote(p) ==
  IF pc[p] \in {"open1", "open2"} THEN 0 ELSE IF pc[p] = "send" THEN i[p] - 1 ELSE Count
Got(p) ==
  IF pc[p] \in {"spin", "gone"} THEN Count ELSE IF pc[p] = "receive" THEN i[p] - 1 ELSE 0

\* Byte j of q is a byte of a message of p after the r-th, up to the w-th, and all the
\* other bytes of that message are around it.
InMessage(q, j, p, r, w) ==
  \E m \in (r + 1)..w : \E b \in 1..ReadSize(m) :
    /\ q[j] = Byte(p, m, b) /\ b <= j /\ j - b + ReadSize(m) <= Len(q)
    /\ \A c \in 1..ReadSize(m) : q[j - b + c] = Byte(p, m, c)
    /\ b = ReadSize(m) /\ j < Len(q) => q[j + 1] = Byte(p, m + 1, 1)

\* The bytes are in the order they were sent.
Increasing(q) ==
  \A j, k \in 1..Len(q) :
    j < k => q[j].msg < q[k].msg \/ (q[j].msg = q[k].msg /\ q[j].byte < q[k].byte)

\* The pipe holds the messages r + 1 to w of p.
Whole(q, p, r, w) ==
  /\ r <= w /\ (q = <<>> <=> r = w)
  /\ \A j \in 1..Len(q) : InMessage(q, j, p, r, w)
  /\ Increasing(q)
  /\ q # <<>> => q[1] = Byte(p, r + 1, 1) /\ q[Len(q)].msg = w

\* The ends of p, by where it is.
Ends(p) ==
  \/ pc[p] = "open1" /\ i[p] = 1 /\ fd[p]["fifo1"] \in {"none", "opening", "met"}
     /\ fd[p]["fifo2"] = "none"
  \/ pc[p] = "open2" /\ i[p] = 1 /\ fd[p]["fifo1"] = "open"
     /\ fd[p]["fifo2"] \in {"none", "opening", "met"}
  \/ pc[p] \in {"send", "receive", "spin"} /\ \A f \in Fifo : fd[p][f] = "open"
  \/ pc[p] = "gone" /\ \A f \in Fifo : fd[p][f] = "closed"

\* An end that is past its open has met the other one.
Met(p, f) == fd[p][f] \in {"met", "open"} => fd[Other(p)][f] \in {"met", "open", "closed"}

\* p has logged what it has read, in order.
LogMatches(p) ==
  Len(rx[p]) = Got(p) /\ \A k \in 1..Len(rx[p]) : rx[p][k] = [from |-> Other(p), msg |-> k]

\* The pipe of p holds the messages that are sent and not read.
PipeMatches(p) == Whole(pipe[Out(p)], p, Got(Other(p)), Wrote(p))

Smooth ==
  /\ ~broken
  /\ \A p \in Process : Ends(p) /\ LogMatches(p) /\ PipeMatches(p) /\ \A f \in Fifo : Met(p, f)

SmoothInv == ~interrupted => Smooth

-----------------------------------------------------------------------------
(* Lemmas on bytes and on what a pipe holds.                                *)

\* The bytes in a pipe.
B == [from : Process, msg : Nat, byte : Nat]

\* There are messages of both kinds, and a message has at least one byte.
LEMMA SizeType ==
  /\ Count \in Nat /\ Count >= 1
  /\ \A m \in Nat : ReadSize(m) \in Nat /\ ReadSize(m) >= 1 /\ WriteSize(m) = ReadSize(m)
<1>1. Commands \in Nat /\ Strings \in Nat /\ STR_MAX_LEN \in Nat
      /\ Commands >= 1 /\ Strings >= 1 /\ STR_MAX_LEN >= 1
  BY PipesAssumption
<1> QED BY <1>1 DEF Count, ReadSize, WriteSize

LEMMA ByteFacts ==
  ASSUME NEW p \in Process, NEW m \in Nat, NEW b \in Nat
  PROVE  /\ Byte(p, m, b) \in B /\ Byte(p, m, b).msg = m /\ Byte(p, m, b).byte = b
         /\ Byte(p, m, b).from = p
BY DEF Byte, B

LEMMA BytesFacts ==
  ASSUME NEW p \in Process, NEW m \in Nat, NEW n \in Nat
  PROVE  /\ Bytes(p, m, n) \in Seq(B) /\ Len(Bytes(p, m, n)) = n
         /\ \A b \in 1..n : Bytes(p, m, n)[b] = Byte(p, m, b)
<1>1. \A b \in 1..n : [from |-> p, msg |-> m, byte |-> b] \in B
  BY DEF B
<1>2. Bytes(p, m, n) \in [1..n -> B]
  BY <1>1 DEF Bytes
<1>3. Bytes(p, m, n) \in Seq(B) /\ Len(Bytes(p, m, n)) = n
  BY <1>2
<1>4. \A b \in 1..n : Bytes(p, m, n)[b] = Byte(p, m, b)
  BY DEF Bytes, Byte
<1> QED BY <1>3, <1>4

\* A pipe after a write, byte by byte.
LEMMA ConcatFacts ==
  ASSUME NEW S, NEW s \in Seq(S), NEW t \in Seq(S)
  PROVE  /\ s \o t \in Seq(S) /\ Len(s) \in Nat /\ Len(t) \in Nat
         /\ Len(s \o t) = Len(s) + Len(t)
         /\ \A j \in 1..Len(s) : (s \o t)[j] = s[j]
         /\ \A j \in 1..Len(t) : (s \o t)[Len(s) + j] = t[j]
OBVIOUS

\* A pipe after a read of its first n bytes.
LEMMA SplitFacts ==
  ASSUME NEW S, NEW s \in Seq(S), NEW n \in Nat, n <= Len(s)
  PROVE  /\ SubSeq(s, 1, n) \in Seq(S) /\ Len(SubSeq(s, 1, n)) = n
         /\ \A j \in 1..n : SubSeq(s, 1, n)[j] = s[j]
         /\ SubSeq(s, n + 1, Len(s)) \in Seq(S) /\ Len(SubSeq(s, n + 1, Len(s))) = Len(s) - n
         /\ \A j \in 1..(Len(s) - n) : SubSeq(s, n + 1, Len(s))[j] = s[n + j]
OBVIOUS

LEMMA EmptyByLength ==
  ASSUME NEW S, NEW s \in Seq(S)
  PROVE  Len(s) \in Nat /\ (s = <<>> <=> Len(s) = 0)
OBVIOUS

\* An empty pipe holds no messages.
LEMMA WholeEmpty ==
  ASSUME NEW p \in Process, NEW r \in Nat
  PROVE  Whole(<<>>, p, r, r)
BY DEF Whole, Increasing

\* The last byte in the pipe ends the last message.
LEMMA LastByte ==
  ASSUME NEW p \in Process, NEW q \in Seq(B), NEW r \in Nat, NEW w \in Nat,
         Whole(q, p, r, w), q # <<>>
  PROVE  q[Len(q)] = Byte(p, w, ReadSize(w))
<1>1. PICK L \in Nat : L = Len(q) /\ L >= 1
  BY EmptyByLength
<1>2. InMessage(q, L, p, r, w) /\ q[L].msg = w
  BY <1>1 DEF Whole
<1>3. PICK m \in (r + 1)..w : \E b \in 1..ReadSize(m) :
        q[L] = Byte(p, m, b) /\ L - b + ReadSize(m) <= Len(q)
  BY <1>2 DEF InMessage
<1>4. ReadSize(m) \in Nat /\ m \in Nat
  <2>1. m \in Nat
    OBVIOUS
  <2> QED BY <2>1, SizeType
<1>5. PICK b \in 1..ReadSize(m) : q[L] = Byte(p, m, b) /\ L - b + ReadSize(m) <= Len(q)
  BY <1>3
<1>6. b = ReadSize(m)
  BY <1>1, <1>4, <1>5
<1>7. m = w
  BY <1>2, <1>4, <1>5, ByteFacts
<1> QED BY <1>1, <1>5, <1>6, <1>7

\* Writing message w + 1.
LEMMA WholeAppend ==
  ASSUME NEW p \in Process, NEW q \in Seq(B), NEW r \in Nat, NEW w \in Nat,
         Whole(q, p, r, w)
  PROVE  /\ q \o Bytes(p, w + 1, ReadSize(w + 1)) \in Seq(B)
         /\ Whole(q \o Bytes(p, w + 1, ReadSize(w + 1)), p, r, w + 1)
<1>0. w + 1 \in Nat /\ ReadSize(w + 1) \in Nat /\ ReadSize(w + 1) >= 1
  <2>1. w + 1 \in Nat
    OBVIOUS
  <2> QED BY ONLY <2>1, SizeType
<1> PICK L \in Nat, z \in Nat : L = Len(q) /\ z = ReadSize(w + 1) /\ z >= 1
  BY <1>0, EmptyByLength
<1>1. PICK x \in Seq(B) : /\ x = Bytes(p, w + 1, z) /\ Len(x) = z
                          /\ \A b \in 1..z : x[b] = Byte(p, w + 1, b)
  BY <1>0, BytesFacts
<1> PICK q2 \in Seq(B) : q2 = q \o x
  BY ConcatFacts
<1>2. /\ Len(q2) = L + z
      /\ \A j \in 1..L : q2[j] = q[j]
      /\ \A b \in 1..z : q2[L + b] = Byte(p, w + 1, b)
  <2>1. /\ Len(q2) = Len(q) + Len(x)
        /\ \A j \in 1..Len(q) : q2[j] = q[j]
        /\ \A j \in 1..Len(x) : q2[Len(q) + j] = x[j]
    BY ConcatFacts
  <2> QED BY <1>1, <2>1
<1>3. r <= w + 1 /\ r # w + 1 /\ q2 # <<>>
  BY <1>2, EmptyByLength DEF Whole
<1>4. ASSUME NEW j \in 1..L PROVE InMessage(q2, j, p, r, w + 1)
  <2>1. InMessage(q, j, p, r, w)
    BY DEF Whole
  <2>2. PICK m \in (r + 1)..w : \E b \in 1..ReadSize(m) :
          /\ q[j] = Byte(p, m, b) /\ b <= j /\ j - b + ReadSize(m) <= Len(q)
          /\ \A c \in 1..ReadSize(m) : q[j - b + c] = Byte(p, m, c)
          /\ b = ReadSize(m) /\ j < Len(q) => q[j + 1] = Byte(p, m + 1, 1)
    BY <2>1 DEF InMessage
  <2>3. PICK s \in Nat : s = ReadSize(m)
    <3>1. m \in Nat
      OBVIOUS
    <3> QED BY <3>1, SizeType
  <2>4. PICK b \in 1..s :
          /\ q[j] = Byte(p, m, b) /\ b <= j /\ j - b + s <= L
          /\ \A c \in 1..s : q[j - b + c] = Byte(p, m, c)
          /\ b = s /\ j < L => q[j + 1] = Byte(p, m + 1, 1)
    BY <2>2, <2>3
  <2>5. /\ q2[j] = Byte(p, m, b) /\ b <= j /\ j - b + s <= Len(q2)
    BY <1>2, <2>4
  <2>6. ASSUME NEW c \in 1..s PROVE q2[j - b + c] = Byte(p, m, c)
    <3>1. j - b + c \in 1..L
      BY <2>4
    <3> QED BY <1>2, <2>4, <3>1
  <2>7. ASSUME b = s, j < Len(q2) PROVE q2[j + 1] = Byte(p, m + 1, 1)
    <3>1. CASE j < L
      <4>1. j + 1 \in 1..L
        BY <3>1
      <4> QED BY <1>2, <2>4, <2>7, <3>1, <4>1
    <3>2. CASE j = L
      <4>1. q # <<>>
        BY <3>2, EmptyByLength
      <4>2. q[j].msg = w
        BY <3>2, <4>1 DEF Whole
      <4>3. m = w
        BY <2>4, <4>2, ByteFacts
      <4>4. q2[L + 1] = Byte(p, w + 1, 1)
        BY <1>2
      <4>5. m + 1 = w + 1 /\ j + 1 = L + 1
        BY <3>2, <4>3
      <4> QED BY <4>4, <4>5, Zenon
    <3>3. j < L \/ j = L
      BY ONLY j \in 1..L, L \in Nat
    <3> QED BY ONLY <3>1, <3>2, <3>3
  <2>8. m \in (r + 1)..(w + 1)
    OBVIOUS
  <2> QED BY <2>3, <2>5, <2>6, <2>7, <2>8 DEF InMessage
<1>5. ASSUME NEW b \in 1..z PROVE InMessage(q2, L + b, p, r, w + 1)
  <2>1. w + 1 \in (r + 1)..(w + 1)
    BY DEF Whole
  <2>2. (L + b) - b = L /\ L + b < Len(q2) => b < z
    BY <1>2
  <2>3. /\ q2[L + b] = Byte(p, w + 1, b) /\ b <= L + b /\ (L + b) - b + z <= Len(q2)
        /\ \A c \in 1..z : q2[(L + b) - b + c] = Byte(p, w + 1, c)
        /\ b = z /\ L + b < Len(q2) => q2[(L + b) + 1] = Byte(p, (w + 1) + 1, 1)
    BY <1>2
  <2> QED BY <2>1, <2>3 DEF InMessage
<1>6. ASSUME NEW j \in 1..Len(q2) PROVE InMessage(q2, j, p, r, w + 1)
  <2>1. CASE j \in 1..L
    BY <1>4, <2>1
  <2>2. CASE j \notin 1..L
    <3>1. j - L \in 1..z /\ L + (j - L) = j
      BY <1>2, <2>2
    <3>2. InMessage(q2, L + (j - L), p, r, w + 1)
      BY <1>5, <3>1
    <3> QED BY <3>1, <3>2
  <2> QED BY <2>1, <2>2
<1>7. \A j \in 1..L : q[j].msg <= w
  <2> SUFFICES ASSUME NEW j \in 1..L PROVE q[j].msg <= w
    OBVIOUS
  <2>1. InMessage(q, j, p, r, w)
    BY DEF Whole
  <2>2. PICK m \in (r + 1)..w : \E b \in 1..ReadSize(m) : q[j] = Byte(p, m, b)
    BY <2>1 DEF InMessage
  <2>3. PICK b \in 1..ReadSize(m) : q[j] = Byte(p, m, b)
    BY <2>2
  <2>4. q[j].msg = m
    BY <2>3 DEF Byte
  <2> QED BY <2>4
<1>8. Increasing(q2)
  <2> SUFFICES ASSUME NEW j \in 1..Len(q2), NEW k \in 1..Len(q2), j < k
               PROVE  \/ q2[j].msg < q2[k].msg
                      \/ q2[j].msg = q2[k].msg /\ q2[j].byte < q2[k].byte
    BY DEF Increasing
  <2>0. \A b \in 1..z : q2[L + b].msg = w + 1 /\ q2[L + b].byte = b
    <3> SUFFICES ASSUME NEW b \in 1..z PROVE q2[L + b].msg = w + 1 /\ q2[L + b].byte = b
      OBVIOUS
    <3>1. q2[L + b] = Byte(p, w + 1, b)
      BY <1>2
    <3> QED BY <3>1 DEF Byte
  <2>1. CASE k \in 1..L
    <3>1. j \in 1..L /\ q2[j] = q[j] /\ q2[k] = q[k]
      BY <1>2, <2>1
    <3> QED BY <2>1, <3>1 DEF Whole, Increasing
  <2>2. CASE k \notin 1..L
    <3>1. PICK c \in 1..z : k = L + c
      <4>1. k - L \in 1..z /\ k = L + (k - L)
        BY <1>2, <2>2
      <4> QED BY <4>1
    <3>2. CASE j \in 1..L
      <4>1. q2[j] = q[j] /\ q[j].msg <= w /\ q[j].msg \in Nat
        <5>1. q[j] \in B
          BY <3>2
        <5>2. q[j].msg \in Nat
          BY <5>1 DEF B
        <5> QED BY <1>2, <1>7, <3>2, <5>2
      <4>2. q2[k].msg = w + 1
        BY <2>0, <3>1
      <4>3. q[j].msg < w + 1
        BY ONLY <4>1
      <4> QED BY <4>1, <4>2, <4>3
    <3>3. CASE j \notin 1..L
      <4>1. j - L \in 1..z /\ j = L + (j - L) /\ j - L < c
        BY <1>2, <3>1, <3>3
      <4>2. q2[j].msg = w + 1 /\ q2[j].byte = j - L
        BY <2>0, <4>1
      <4>3. q2[k].msg = w + 1 /\ q2[k].byte = c
        BY <2>0, <3>1
      <4> QED BY <4>1, <4>2, <4>3
    <3> QED BY <3>2, <3>3
  <2> QED BY <2>1, <2>2
<1>9. q2[1] = Byte(p, r + 1, 1) /\ q2[Len(q2)].msg = w + 1
  <2>1. q2[L + z].msg = w + 1
    <3>1. q2[L + z] = Byte(p, w + 1, z)
      BY <1>2
    <3> QED BY <3>1 DEF Byte
  <2>2. CASE q = <<>>
    <3>1. L = 0 /\ r = w
      BY <2>2, EmptyByLength DEF Whole
    <3>2. q2[0 + 1] = Byte(p, w + 1, 1)
      BY <1>2, <3>1
    <3> QED BY <1>2, <2>1, <3>1, <3>2
  <2>3. CASE q # <<>>
    <3>1. 1 \in 1..L /\ q[1] = Byte(p, r + 1, 1)
      BY <2>3, EmptyByLength DEF Whole
    <3> QED BY <1>2, <2>1, <3>1
  <2> QED BY <2>2, <2>3
<1>10. Whole(q2, p, r, w + 1)
  BY <1>3, <1>6, <1>8, <1>9 DEF Whole
<1> QED BY <1>1, <1>10

\* A pipe that is not empty begins with message r + 1, whole.
LEMMA FirstMessage ==
  ASSUME NEW p \in Process, NEW q \in Seq(B), NEW r \in Nat, NEW w \in Nat,
         Whole(q, p, r, w), q # <<>>
  PROVE  /\ r + 1 <= w /\ ReadSize(r + 1) <= Len(q)
         /\ \A c \in 1..ReadSize(r + 1) : q[c] = Byte(p, r + 1, c)
         /\ ReadSize(r + 1) < Len(q) => q[ReadSize(r + 1) + 1] = Byte(p, (r + 1) + 1, 1)
<1>0. r + 1 \in Nat
  OBVIOUS
<1> PICK L \in Nat, s \in Nat : L = Len(q) /\ s = ReadSize(r + 1) /\ s >= 1 /\ L >= 1
  BY <1>0, EmptyByLength, SizeType
<1>1. q[1] = Byte(p, r + 1, 1) /\ r + 1 <= w
  BY DEF Whole
<1>2. InMessage(q, 1, p, r, w)
  BY DEF Whole
<1>3. PICK m \in (r + 1)..w : \E b \in 1..ReadSize(m) :
        /\ q[1] = Byte(p, m, b) /\ b <= 1 /\ 1 - b + ReadSize(m) <= Len(q)
        /\ \A c \in 1..ReadSize(m) : q[1 - b + c] = Byte(p, m, c)
  BY <1>2 DEF InMessage
<1>4. m = r + 1
  <2>1. PICK b : q[1] = Byte(p, m, b)
    BY <1>3
  <2> QED BY <1>1, <2>1 DEF Byte
<1>5. PICK b \in 1..s : /\ q[1] = Byte(p, m, b) /\ b <= 1 /\ 1 - b + s <= L
                        /\ \A c \in 1..s : q[1 - b + c] = Byte(p, r + 1, c)
  BY <1>3, <1>4
<1>6. b = 1 /\ 1 - b = 0
  BY <1>5
<1>7. s <= L /\ \A c \in 1..s : q[c] = Byte(p, r + 1, c)
  <2>1. \A c \in 1..s : 1 - b + c = c
    BY <1>6
  <2> QED BY <1>5, <1>6, <2>1
<1>8. ASSUME s < L PROVE q[s + 1] = Byte(p, (r + 1) + 1, 1)
  <2>1. InMessage(q, s, p, r, w) /\ q[s] = Byte(p, r + 1, s)
    BY <1>7, <1>8 DEF Whole
  <2>2. PICK m2 \in (r + 1)..w : \E b2 \in 1..ReadSize(m2) :
          /\ q[s] = Byte(p, m2, b2)
          /\ b2 = ReadSize(m2) /\ s < Len(q) => q[s + 1] = Byte(p, m2 + 1, 1)
    BY <2>1 DEF InMessage
  <2>3. PICK b2 \in 1..ReadSize(m2) :
          /\ q[s] = Byte(p, m2, b2)
          /\ b2 = ReadSize(m2) /\ s < Len(q) => q[s + 1] = Byte(p, m2 + 1, 1)
    BY <2>2
  <2>4. m2 = r + 1 /\ b2 = s
    BY <2>1, <2>3 DEF Byte
  <2> QED BY <1>8, <2>3, <2>4
<1> QED BY <1>1, <1>7, <1>8

\* Reading message r + 1.
LEMMA WholeRead ==
  ASSUME NEW p \in Process, NEW q \in Seq(B), NEW r \in Nat, NEW w \in Nat,
         Whole(q, p, r, w), q # <<>>
  PROVE  /\ SubSeq(q, ReadSize(r + 1) + 1, Len(q)) \in Seq(B)
         /\ Whole(SubSeq(q, ReadSize(r + 1) + 1, Len(q)), p, r + 1, w)
<1>0. r + 1 \in Nat
  OBVIOUS
<1>a. PICK L \in Nat : L = Len(q)
  BY EmptyByLength
<1>b. PICK n \in Nat : n = ReadSize(r + 1)
  BY <1>0, SizeType
<1>c. L >= 1 /\ n >= 1
  BY <1>0, <1>a, <1>b, EmptyByLength, SizeType
<1>1. /\ r + 1 <= w /\ n <= L
      /\ \A c \in 1..n : q[c] = Byte(p, r + 1, c)
      /\ n < L => q[n + 1] = Byte(p, (r + 1) + 1, 1)
  BY <1>a, <1>b, FirstMessage
<1>2. n <= L
  BY <1>1
<1>3. PICK q2 \in Seq(B) : /\ q2 = SubSeq(q, n + 1, Len(q)) /\ Len(q2) = Len(q) - n
                           /\ \A j \in 1..(Len(q) - n) : q2[j] = q[n + j]
  <2>1. n <= Len(q)
    BY ONLY <1>2, <1>a
  <2>2. /\ SubSeq(q, n + 1, Len(q)) \in Seq(B) /\ Len(SubSeq(q, n + 1, Len(q))) = Len(q) - n
        /\ \A j \in 1..(Len(q) - n) : SubSeq(q, n + 1, Len(q))[j] = q[n + j]
    BY ONLY <2>1, q \in Seq(B), n \in Nat, SplitFacts
  <2> QED BY ONLY <2>2
<1>4. PICK d \in Nat : d = Len(q2) /\ n + d = L
  <2>1. Len(q2) = L - n
    BY <1>3, <1>a
  <2>2. L - n \in Nat /\ n + (L - n) = L
    BY ONLY <1>2, L \in Nat, n \in Nat
  <2> QED BY <2>1, <2>2
<1>5. \A j \in 1..d : q2[j] = q[n + j]
  <2>1. L - n = d
    BY ONLY <1>4, L \in Nat, n \in Nat, d \in Nat
  <2> QED BY <1>3, <1>a, <2>1
<1>6. ASSUME NEW j \in 1..d PROVE InMessage(q2, j, p, r + 1, w)
  <2>0. n + j \in 1..L
    BY ONLY <1>4, n \in Nat, L \in Nat, d \in Nat, j \in 1..d
  <2>1. InMessage(q, n + j, p, r, w)
    BY <1>a, <2>0 DEF Whole
  <2>2. PICK m \in (r + 1)..w : \E b \in 1..ReadSize(m) :
          /\ q[n + j] = Byte(p, m, b) /\ b <= n + j /\ (n + j) - b + ReadSize(m) <= Len(q)
          /\ \A c \in 1..ReadSize(m) : q[(n + j) - b + c] = Byte(p, m, c)
          /\ b = ReadSize(m) /\ n + j < Len(q) => q[(n + j) + 1] = Byte(p, m + 1, 1)
    BY <2>1 DEF InMessage
  <2>3. PICK s \in Nat : s = ReadSize(m)
    <3>1. m \in Nat
      OBVIOUS
    <3> QED BY <3>1, SizeType
  <2>4. PICK b \in 1..s :
          /\ q[n + j] = Byte(p, m, b) /\ b <= n + j /\ (n + j) - b + s <= L
          /\ \A c \in 1..s : q[(n + j) - b + c] = Byte(p, m, c)
          /\ b = s /\ n + j < L => q[(n + j) + 1] = Byte(p, m + 1, 1)
    BY <1>a, <2>2, <2>3
  <2>5. b <= n + j /\ (n + j) - b + s <= L
    BY <2>4
  <2>6. PICK a \in Nat : a = (n + j) - b
    BY ONLY <2>5, n \in Nat, j \in 1..d, d \in Nat, b \in 1..s, s \in Nat
  <2>7. a + 1 \in 1..L /\ 1 \in 1..s /\ a + b = n + j /\ a + s <= L
    BY ONLY <2>5, <2>6, n \in Nat, j \in 1..d, d \in Nat, b \in 1..s, s \in Nat, L \in Nat,
            a \in Nat
  <2>8. q[a + 1] = Byte(p, m, 1)
    BY <2>4, <2>6, <2>7
  <2>9. a >= n
    <3>1. ASSUME a < n PROVE FALSE
      <4>1. a + 1 \in 1..n
        BY ONLY a \in Nat, n \in Nat, <3>1
      <4>2. q[a + 1] = Byte(p, r + 1, a + 1)
        BY <1>1, <4>1
      <4>3. m = r + 1 /\ a + 1 = 1
        BY <2>8, <4>2 DEF Byte
      <4>4. s = n
        BY <1>b, <2>3, <4>3
      <4>5. a = 0
        BY ONLY <4>3, a \in Nat
      <4> QED BY ONLY <2>7, <4>4, <4>5, n \in Nat, j \in 1..d, d \in Nat, b \in 1..s, s \in Nat
    <3>2. a < n \/ a >= n
      BY ONLY a \in Nat, n \in Nat
    <3> QED BY ONLY <3>1, <3>2
  <2>10. m # r + 1
    <3> SUFFICES ASSUME m = r + 1 PROVE FALSE
      OBVIOUS
    <3>1. 1 < a + 1 /\ 1 \in 1..L
      BY ONLY <1>c, <2>9, a \in Nat, n \in Nat, L \in Nat
    <3>2. Increasing(q)
      BY DEF Whole
    <3>3. q[1].msg < q[a + 1].msg \/ (q[1].msg = q[a + 1].msg /\ q[1].byte < q[a + 1].byte)
      BY <1>a, <2>7, <3>1, <3>2 DEF Increasing
    <3>4. q[1] = Byte(p, r + 1, 1) /\ q[a + 1] = Byte(p, r + 1, 1)
      BY <2>8 DEF Whole
    <3>5. q[1].msg = r + 1 /\ q[a + 1].msg = r + 1 /\ q[1].byte = 1 /\ q[a + 1].byte = 1
      BY <3>4 DEF Byte
    <3> QED BY <3>3, <3>5
  <2>11. m \in ((r + 1) + 1)..w
    BY ONLY <2>10, m \in (r + 1)..w, r \in Nat, w \in Nat
  <2>12. b <= j /\ j - b + s <= d /\ \A c \in 1..s : /\ j - b + c \in 1..d
                                                    /\ n + (j - b + c) = (n + j) - b + c
    BY ONLY <1>4, <2>7, <2>9, n \in Nat, j \in 1..d, d \in Nat, b \in 1..s, s \in Nat,
            L \in Nat, a \in Nat
  <2>13. q2[j] = Byte(p, m, b) /\ b <= j /\ j - b + s <= Len(q2)
    BY <1>4, <1>5, <2>4, <2>12
  <2>14. ASSUME NEW c \in 1..s PROVE q2[j - b + c] = Byte(p, m, c)
    <3>1. q2[j - b + c] = q[n + (j - b + c)]
      BY <1>5, <2>12
    <3>2. q[(n + j) - b + c] = Byte(p, m, c)
      BY <2>4
    <3>3. n + (j - b + c) = (n + j) - b + c
      BY <2>12
    <3> QED BY ONLY <3>1, <3>2, <3>3
  <2>15. ASSUME b = s, j < Len(q2) PROVE q2[j + 1] = Byte(p, m + 1, 1)
    <3>0. j < d
      BY <1>4, <2>15
    <3>1. j + 1 \in 1..d /\ n + (j + 1) = (n + j) + 1 /\ n + j < L
      BY ONLY <1>4, <3>0, n \in Nat, j \in 1..d, d \in Nat, L \in Nat
    <3>2. q2[j + 1] = q[n + (j + 1)]
      BY <1>5, <3>1
    <3>3. q[(n + j) + 1] = Byte(p, m + 1, 1)
      BY <2>4, <2>15, <3>1
    <3> QED BY ONLY <3>1, <3>2, <3>3
  <2> QED BY <2>3, <2>11, <2>13, <2>14, <2>15 DEF InMessage
<1>7. \A j \in 1..Len(q2) : InMessage(q2, j, p, r + 1, w)
  BY <1>4, <1>6
<1>8. Increasing(q2)
  <2> SUFFICES ASSUME NEW j \in 1..d, NEW k \in 1..d, j < k
               PROVE  \/ q2[j].msg < q2[k].msg
                      \/ q2[j].msg = q2[k].msg /\ q2[j].byte < q2[k].byte
    BY <1>4 DEF Increasing
  <2>1. n + j \in 1..L /\ n + k \in 1..L /\ n + j < n + k
    BY ONLY <1>4, n \in Nat, j \in 1..d, k \in 1..d, j < k, d \in Nat, L \in Nat
  <2>2. q2[j] = q[n + j] /\ q2[k] = q[n + k]
    BY <1>5
  <2>3. Increasing(q)
    BY DEF Whole
  <2>4. \/ q[n + j].msg < q[n + k].msg
        \/ q[n + j].msg = q[n + k].msg /\ q[n + j].byte < q[n + k].byte
    BY <1>a, <2>1, <2>3 DEF Increasing
  <2> QED BY ONLY <2>2, <2>4
<1>9. q2 # <<>> => q2[1] = Byte(p, (r + 1) + 1, 1) /\ q2[Len(q2)].msg = w
  <2> SUFFICES ASSUME q2 # <<>>
               PROVE  q2[1] = Byte(p, (r + 1) + 1, 1) /\ q2[Len(q2)].msg = w
    OBVIOUS
  <2>1. d >= 1
    BY <1>4, EmptyByLength
  <2>2. n < L /\ 1 \in 1..d /\ d \in 1..d
    BY ONLY <1>4, <2>1, n \in Nat, d \in Nat, L \in Nat
  <2>3. q2[1] = q[n + 1] /\ q2[d] = q[L]
    BY <1>4, <1>5, <2>2
  <2>4. q[Len(q)].msg = w
    BY DEF Whole
  <2> QED BY <1>1, <1>4, <1>a, <2>2, <2>3, <2>4
<1>10. q2 = <<>> <=> r + 1 = w
  <2>1. ASSUME q2 = <<>> PROVE r + 1 = w
    <3>1. d = 0
      BY <1>4, <2>1, EmptyByLength
    <3>2. L = n /\ n \in 1..n
      BY ONLY <1>4, <1>c, <3>1, n \in Nat, L \in Nat
    <3>3. q[n] = Byte(p, r + 1, n)
      BY <1>1, <3>2
    <3>4. q[n].msg = w
      BY <1>a, <3>2 DEF Whole
    <3> QED BY <3>3, <3>4 DEF Byte
  <2>2. ASSUME q2 # <<>> PROVE r + 1 # w
    <3>1. 1 \in 1..d
      BY <1>4, <2>2, EmptyByLength
    <3>2. InMessage(q2, 1, p, r + 1, w)
      BY <1>6, <3>1
    <3>3. PICK m \in ((r + 1) + 1)..w : TRUE
      BY <3>2 DEF InMessage
    <3> QED BY <3>3
  <2> QED BY <2>1, <2>2
<1>11. Whole(q2, p, r + 1, w)
  BY <1>1, <1>7, <1>8, <1>9, <1>10 DEF Whole
<1> QED BY <1>3, <1>11, <1>b

\* What a read of message r + 1 yields.
LEMMA ReadDecodes ==
  ASSUME NEW p \in Process, NEW q \in Seq(B), NEW r \in Nat, NEW w \in Nat,
         Whole(q, p, r, w), q # <<>>
  PROVE  /\ Smaller(ReadSize(r + 1), Len(q)) = ReadSize(r + 1)
         /\ Decoded(SubSeq(q, 1, ReadSize(r + 1)), r + 1) = [from |-> p, msg |-> r + 1]
<1>0. r + 1 \in Nat
  OBVIOUS
<1> PICK L \in Nat, n \in Nat : L = Len(q) /\ n = ReadSize(r + 1) /\ n >= 1
  BY <1>0, EmptyByLength, SizeType
<1>1. n <= L /\ \A c \in 1..n : q[c] = Byte(p, r + 1, c)
  BY FirstMessage
<1>2. Smaller(n, L) = n
  BY <1>1 DEF Smaller
<1> PICK s \in Seq(B) : s = SubSeq(q, 1, n)
  BY <1>1, SplitFacts
<1>3. Len(s) = n /\ \A c \in 1..n : s[c] = q[c]
  BY <1>1, SplitFacts
<1> PICK t \in Seq(B) : t = Bytes(p, r + 1, n)
  BY <1>0, BytesFacts
<1>4. Len(t) = n /\ \A c \in 1..n : t[c] = Byte(p, r + 1, c)
  BY <1>0, BytesFacts
<1>5. s = t
  <2>1. \A c \in 1..n : s[c] = t[c]
    BY <1>1, <1>3, <1>4
  <2> QED BY <1>3, <1>4, <2>1, SeqEqual
<1>6. \E x \in Process : s = Bytes(x, r + 1, ReadSize(r + 1))
  BY <1>5
<1>7. s[1].from = p
  <2>1. s[1] = Byte(p, r + 1, 1)
    BY <1>4, <1>5
  <2> QED BY <2>1 DEF Byte
<1>8. Decoded(s, r + 1) = [from |-> p, msg |-> r + 1]
  BY <1>6, <1>7 DEF Decoded
<1> QED BY <1>2, <1>8

-----------------------------------------------------------------------------
(* The processes, their ends and their counters.                            *)

LEMMA Sides ==
  ASSUME NEW p \in Process
  PROVE  /\ Other(p) \in Process /\ Other(p) # p /\ Other(Other(p)) = p
         /\ Out(p) \in Fifo /\ In(p) \in Fifo /\ Out(p) # In(p)
         /\ Out(Other(p)) = In(p) /\ In(Other(p)) = Out(p)
         /\ \A f \in Fifo : f = Out(p) \/ f = In(p)
         /\ \A x \in Process : x = p \/ x = Other(p)
BY DEF Process, Fifo, Other, Out, In

\* What p opens is one of the two pipes.
LEMMA OpensType ==
  ASSUME Types, NEW p \in Process, pc[p] \in {"open1", "open2"}
  PROVE  /\ Opens(p)[pc[p]] \in Fifo
         /\ pc[p] = "open1" => Opens(p)[pc[p]] = "fifo1"
         /\ pc[p] = "open2" => Opens(p)[pc[p]] = "fifo2"
BY DEF Opens, Fifo

LEMMA CountersType ==
  ASSUME Types, NEW p \in Process
  PROVE  /\ Wrote(p) \in Nat /\ Wrote(p) <= Count /\ Got(p) \in Nat /\ Got(p) <= Count
         /\ i[p] \in Nat /\ 1 <= i[p] /\ i[p] <= Count
<1>1. Count \in Nat /\ Count >= 1
  BY SizeType
<1>2. i[p] \in 1..Count
  BY DEF Types
<1>3. i[p] \in Nat /\ 1 <= i[p] /\ i[p] <= Count
  BY ONLY <1>1, <1>2
<1>4. PICK k \in Nat : k = i[p]
  BY <1>3
<1>5. k - 1 \in Nat /\ k - 1 <= Count /\ 0 <= Count
  BY ONLY <1>1, <1>3, <1>4, k \in Nat
<1> QED BY <1>1, <1>3, <1>4, <1>5 DEF Wrote, Got

\* The counter of a loop stays within it.
LEMMA AdvanceType ==
  ASSUME Types, NEW p \in Process, NEW here, NEW next, Advance(p, here, next)
  PROVE  /\ i' \in [Process -> 1..Count]
         /\ \A x \in Process : x # p => i'[x] = i[x] /\ pc'[x] = pc[x]
         /\ i[p] = Count => i'[p] = 1 /\ pc'[p] = next
         /\ i[p] # Count => i'[p] = i[p] + 1 /\ pc'[p] = here
<1>1. Count \in Nat /\ Count >= 1
  BY SizeType
<1>2. i[p] \in Nat /\ 1 <= i[p] /\ i[p] <= Count
  BY CountersType
<1>3. (IF i[p] = Count THEN 1 ELSE i[p] + 1) \in 1..Count
  BY ONLY <1>1, <1>2
<1>4. i' = [i EXCEPT ![p] = IF i[p] = Count THEN 1 ELSE i[p] + 1]
  BY DEF Advance
<1>5. i \in [Process -> 1..Count]
  BY DEF Types
<1>6. i' \in [Process -> 1..Count]
  BY ONLY <1>3, <1>4, <1>5, p \in Process
<1>7. \A x \in Process : x # p => i'[x] = i[x] /\ pc'[x] = pc[x]
  BY <1>4, <1>5 DEF Types, Advance
<1>8. /\ i[p] = Count => i'[p] = 1 /\ pc'[p] = next
      /\ i[p] # Count => i'[p] = i[p] + 1 /\ pc'[p] = here
  BY <1>4, <1>5 DEF Types, Advance
<1> QED BY <1>6, <1>7, <1>8

LEMMA TypesInit == Init => Types
<1> SUFFICES ASSUME Init PROVE Types
  OBVIOUS
<1>1. 1 \in 1..Count
  BY SizeType
<1>2. capacity \in Nat
  BY PipesAssumption DEF Init
<1>3. pipe \in [Fifo -> Seq([from : Process, msg : Nat, byte : Nat])]
  BY DEF Init
<1>4. rx \in [Process -> Seq([from : Process \cup {"nobody"}, msg : Nat])]
  BY DEF Init
<1>5. i \in [Process -> 1..Count]
  BY <1>1 DEF Init
<1>6. /\ fd \in [Process -> [Fifo -> {"none", "opening", "met", "open", "failed", "closed"}]]
      /\ pc \in [Process -> {"open1", "open2", "send", "receive", "spin", "gone"}]
      /\ interrupted \in BOOLEAN /\ broken \in BOOLEAN
  BY DEF Init
<1> QED BY <1>2, <1>3, <1>4, <1>5, <1>6, Zenon DEF Types

LEMMA TypesStep ==
  ASSUME Types, [Next]_vars
  PROVE  Types'
<1>1. CASE UNCHANGED vars
  BY <1>1 DEF vars, Types
<1>2. ASSUME NEW p \in Process, OpenBegin(p) PROVE Types'
  <2>1. Opens(p)[pc[p]] \in Fifo /\ Other(p) \in Process
    BY <1>2, OpensType, Sides DEF OpenBegin
  <2>2. fd' \in [Process -> [Fifo -> {"none", "opening", "met", "open", "failed", "closed"}]]
    BY <1>2, <2>1 DEF OpenBegin, Types
  <2> QED BY <1>2, <2>2 DEF OpenBegin, Types
<1>3. ASSUME NEW p \in Process, OpenReturn(p) PROVE Types'
  <2>1. Opens(p)[pc[p]] \in Fifo
    BY <1>3, OpensType DEF OpenReturn
  <2> QED BY <1>3, <2>1 DEF OpenReturn, AfterOpen, Types
<1>4. ASSUME NEW p \in Process, Write(p) PROVE Types'
  <2>0. Advance(p, "send", "receive")
    BY <1>4 DEF Write
  <2>1. i' \in [Process -> 1..Count]
    BY <2>0, AdvanceType
  <2>2. i[p] \in Nat /\ WriteSize(i[p]) \in Nat /\ Out(p) \in Fifo
    <3>1. i[p] \in Nat
      BY CountersType
    <3>2. WriteSize(i[p]) \in Nat
      BY <3>1, SizeType
    <3> QED BY <3>1, <3>2, Sides
  <2>3. Bytes(p, i[p], WriteSize(i[p])) \in Seq(B)
    BY <2>2, BytesFacts
  <2>4. pipe \in [Fifo -> Seq(B)]
    BY DEF Types, B
  <2>5. pipe[Out(p)] \o Bytes(p, i[p], WriteSize(i[p])) \in Seq(B)
    BY <2>2, <2>3, <2>4, ConcatFacts
  <2>6. pipe' \in [Fifo -> Seq(B)]
    BY <1>4, <2>2, <2>4, <2>5 DEF Write
  <2>7. pc' \in [Process -> {"open1", "open2", "send", "receive", "spin", "gone"}]
    BY <2>0 DEF Advance, Types
  <2> QED BY <1>4, <2>1, <2>6, <2>7 DEF Write, Types, B
<1>5. ASSUME NEW p \in Process, WriteFails(p) PROVE Types'
  <2>0. Advance(p, "send", "receive")
    BY <1>5 DEF WriteFails
  <2>1. i' \in [Process -> 1..Count]
    BY <2>0, AdvanceType
  <2>7. pc' \in [Process -> {"open1", "open2", "send", "receive", "spin", "gone"}]
    BY <2>0 DEF Advance, Types
  <2> QED BY <1>5, <2>1, <2>7 DEF WriteFails, Types
<1>6. ASSUME NEW p \in Process, WriteBroken(p) PROVE Types'
  BY <1>6 DEF WriteBroken, Types
<1>7. ASSUME NEW p \in Process, Read(p) PROVE Types'
  <2>0. Advance(p, "receive", "spin") /\ In(p) \in Fifo
    BY <1>7, Sides DEF Read
  <2>1. i' \in [Process -> 1..Count]
    BY <2>0, AdvanceType
  <2>2. pc' \in [Process -> {"open1", "open2", "send", "receive", "spin", "gone"}]
    BY <2>0 DEF Advance, Types
  <2>3. i[p] \in Nat /\ ReadSize(i[p]) \in Nat
    <3>1. i[p] \in Nat
      BY CountersType
    <3> QED BY <3>1, SizeType
  <2>4. pipe \in [Fifo -> Seq(B)]
    BY DEF Types, B
  <2>5. PICK q \in Seq(B) : q = pipe[In(p)]
    BY <2>0, <2>4
  <2>6. PICK n \in Nat : n = Smaller(ReadSize(i[p]), Len(q)) /\ n <= Len(q)
    <3>1. PICK a \in Nat, c \in Nat : a = ReadSize(i[p]) /\ c = Len(q)
      BY <2>3, <2>5, EmptyByLength
    <3>2. Smaller(a, c) \in Nat /\ Smaller(a, c) <= c
      BY ONLY a \in Nat, c \in Nat DEF Smaller
    <3> QED BY <3>1, <3>2
  <2>7. SubSeq(q, n + 1, Len(q)) \in Seq(B)
    BY ONLY <2>6, q \in Seq(B), n \in Nat, SplitFacts
  <2>8. pipe' = [pipe EXCEPT ![In(p)] = SubSeq(q, n + 1, Len(q))]
    BY <1>7, <2>5, <2>6 DEF Read
  <2>9. pipe' \in [Fifo -> Seq(B)]
    BY <2>0, <2>4, <2>7, <2>8
  <2>10. Decoded(SubSeq(q, 1, n), i[p]) \in [from : Process \cup {"nobody"}, msg : Nat]
    <3>0. PICK y : y = SubSeq(q, 1, n)
      BY Zenon
    <3>1. CASE \E x \in Process : y = Bytes(x, i[p], ReadSize(i[p]))
      <4>1. PICK x \in Process : y = Bytes(x, i[p], ReadSize(i[p]))
        BY <3>1
      <4>2. 1 \in 1..ReadSize(i[p])
        BY <2>3, SizeType
      <4>3. y[1] = Byte(x, i[p], 1)
        BY <2>3, <4>1, <4>2, BytesFacts
      <4>4. y[1].from = x
        BY <4>3 DEF Byte
      <4>5. Decoded(y, i[p]) \in [from : Process \cup {"nobody"}, msg : Nat]
        BY <2>3, <3>1, <4>4 DEF Decoded
      <4> QED BY ONLY <3>0, <4>5
    <3>2. CASE ~\E x \in Process : y = Bytes(x, i[p], ReadSize(i[p]))
      <4>1. Decoded(y, i[p]) \in [from : Process \cup {"nobody"}, msg : Nat]
        BY <3>2 DEF Decoded, Bad
      <4> QED BY ONLY <3>0, <4>1
    <3> QED BY <3>1, <3>2
  <2>11. rx' = [rx EXCEPT ![p] = Append(rx[p], Decoded(SubSeq(q, 1, n), i[p]))]
    BY <1>7, <2>5, <2>6 DEF Read
  <2>12. rx' \in [Process -> Seq([from : Process \cup {"nobody"}, msg : Nat])]
    BY <2>10, <2>11 DEF Types
  <2> QED BY <1>7, <2>1, <2>2, <2>9, <2>12 DEF Read, Types, B
<1>8. ASSUME NEW p \in Process, Advance(p, "receive", "spin"), 
             rx' = [rx EXCEPT ![p] = Append(@, Bad)], broken' \in BOOLEAN, interrupted' \in BOOLEAN,
             UNCHANGED <<capacity, fd, pipe>>
      PROVE  Types'
  <2>1. i' \in [Process -> 1..Count]
    BY <1>8, AdvanceType
  <2>2. pc' \in [Process -> {"open1", "open2", "send", "receive", "spin", "gone"}]
    BY <1>8 DEF Advance, Types
  <2>3. rx' \in [Process -> Seq([from : Process \cup {"nobody"}, msg : Nat])]
    BY <1>8 DEF Types, Bad
  <2> QED BY <1>8, <2>1, <2>2, <2>3 DEF Types
<1>9. ASSUME NEW p \in Process, ReadFails(p) PROVE Types'
  <2>1. broken' \in BOOLEAN /\ interrupted' \in BOOLEAN
    BY <1>9 DEF ReadFails, Types
  <2> QED BY <1>8, <1>9, <2>1 DEF ReadFails
<1>10. ASSUME NEW p \in Process, Exit(p) PROVE Types'
  BY <1>10 DEF Exit, Types
<1>11. ASSUME NEW p \in Process, sigHandler(p) PROVE Types'
  <2>0. interrupted' \in BOOLEAN /\ broken' \in BOOLEAN /\ UNCHANGED <<capacity, pipe, broken>>
    <3>1. interrupted' = (interrupted \/ WaitsInOpen(p) \/ WaitsInWrite(p) \/ WaitsInRead(p))
      BY <1>11 DEF sigHandler
    <3>2. interrupted' \in BOOLEAN
      BY <3>1, Zenon
    <3> QED BY <1>11, <3>2 DEF sigHandler, Types
  <2>1. CASE WaitsInOpen(p) /\ fd' = [fd EXCEPT ![p][Opens(p)[pc[p]]] = "failed"]
             /\ pc' = [pc EXCEPT ![p] = AfterOpen(p)] /\ UNCHANGED <<i, rx>>
    <3>1. Opens(p)[pc[p]] \in Fifo
      BY <2>1, OpensType DEF WaitsInOpen
    <3> QED BY <2>0, <2>1, <3>1 DEF AfterOpen, Types
  <2>2. CASE Advance(p, "send", "receive") /\ UNCHANGED <<fd, rx>>
    <3>1. i' \in [Process -> 1..Count]
      BY <2>2, AdvanceType
    <3> QED BY <2>0, <2>2, <3>1 DEF Advance, Types
  <2>3. CASE Advance(p, "receive", "spin") /\ rx' = [rx EXCEPT ![p] = Append(@, Bad)]
             /\ UNCHANGED fd
    BY <1>8, <2>0, <2>3
  <2>4. CASE UNCHANGED <<fd, pc, i, rx>>
    BY <2>0, <2>4 DEF Types
  <2> QED BY <1>11, <2>1, <2>2, <2>3, <2>4 DEF sigHandler
<1> QED
  BY <1>1, <1>2, <1>3, <1>4, <1>5, <1>6, <1>7, <1>9, <1>10, <1>11 DEF Next, Step

-----------------------------------------------------------------------------
(* Each step of an undisturbed exchange keeps it so.                        *)

LEMMA PipeKept ==
  ASSUME NEW p \in Process, PipeMatches(p), pipe'[Out(p)] = pipe[Out(p)],
         Got(Other(p))' = Got(Other(p)), Wrote(p)' = Wrote(p)
  PROVE  PipeMatches(p)'
BY DEF PipeMatches

LEMMA LogKept ==
  ASSUME NEW p \in Process, LogMatches(p), rx'[p] = rx[p], Got(p)' = Got(p)
  PROVE  LogMatches(p)'
BY DEF LogMatches

LEMMA EndsKept ==
  ASSUME NEW p \in Process, Ends(p), fd'[p] = fd[p], pc'[p] = pc[p], i'[p] = i[p]
  PROVE  Ends(p)'
BY DEF Ends

LEMMA CountersKept ==
  ASSUME NEW p \in Process, pc'[p] = pc[p], i'[p] = i[p]
  PROVE  Got(p)' = Got(p) /\ Wrote(p)' = Wrote(p)
BY DEF Got, Wrote

LEMMA SmoothInit == Init => Smooth
<1> SUFFICES ASSUME Init PROVE Smooth
  OBVIOUS
<1>1. ASSUME NEW p \in Process PROVE Got(p) = 0 /\ Wrote(p) = 0
  BY DEF Init, Got, Wrote
<1>2. ASSUME NEW p \in Process PROVE Ends(p)
  BY DEF Init, Ends, Fifo
<1>3. ASSUME NEW p \in Process PROVE LogMatches(p)
  BY <1>1 DEF Init, LogMatches
<1>4. ASSUME NEW p \in Process PROVE PipeMatches(p)
  <2>1. pipe[Out(p)] = <<>>
    BY Sides DEF Init
  <2>2. Got(Other(p)) = 0 /\ Wrote(p) = 0
    BY <1>1, Sides
  <2>3. Whole(<<>>, p, 0, 0)
    BY WholeEmpty
  <2> QED BY <2>1, <2>2, <2>3 DEF PipeMatches
<1>5. ASSUME NEW p \in Process, NEW f \in Fifo PROVE Met(p, f)
  BY DEF Init, Met
<1> QED BY <1>2, <1>3, <1>4, <1>5 DEF Smooth, Init

\* A process whose end is closed has left, after it has read everything.
LEMMA ClosedHasLeft ==
  ASSUME Types, Smooth, NEW p \in Process, NEW f \in Fifo, fd[p][f] = "closed"
  PROVE  pc[p] = "gone"
<1>1. Ends(p)
  BY DEF Smooth
<1> QED BY <1>1 DEF Ends, Fifo

\* The other end of an open pipe is there, or its process has left.
LEMMA OtherEnd ==
  ASSUME Types, Smooth, NEW p \in Process, NEW f \in Fifo,
         fd[p][f] = "open", fd[Other(p)][f] \notin Present
  PROVE  pc[Other(p)] = "gone"
<1>1. Met(p, f) /\ Other(p) \in Process
  BY Sides DEF Smooth
<1>2. fd[Other(p)][f] = "closed"
  BY <1>1 DEF Met, Present
<1> QED BY <1>1, <1>2, ClosedHasLeft

\* No call of an undisturbed exchange fails.
LEMMA NoFailures ==
  ASSUME Types, Smooth, NEW p \in Process
  PROVE  ~WriteFails(p) /\ ~WriteBroken(p) /\ ~ReadFails(p)
<1>0. /\ Other(p) \in Process /\ Out(p) \in Fifo /\ In(p) \in Fifo /\ Out(Other(p)) = In(p)
      /\ Other(Other(p)) = p
  BY Sides
<1>1. Ends(p)
  BY DEF Smooth
<1>2. pc[p] \in {"send", "receive"} => fd[p][Out(p)] = "open" /\ fd[p][In(p)] = "open"
  BY <1>0, <1>1 DEF Ends
<1>3. PICK k \in Nat, c \in Nat : k = i[p] /\ c = Count /\ 1 <= k /\ k <= c
  BY CountersType, SizeType
<1>4. ~(k - 1 = c) /\ ~(c <= k - 1)
  BY ONLY <1>3, k \in Nat, c \in Nat
<1>5. ~WriteFails(p)
  BY <1>2 DEF WriteFails
<1>6. ASSUME WriteBroken(p) PROVE FALSE
  <2>1. pc[p] = "send" /\ fd[p][Out(p)] = "open" /\ fd[Other(p)][Out(p)] \notin Present
    BY <1>6 DEF WriteBroken, HasReader
  <2>2. pc[Other(p)] = "gone"
    BY <1>0, <2>1, OtherEnd
  <2>3. Got(Other(p)) = Count /\ Wrote(p) = i[p] - 1
    BY <2>1, <2>2 DEF Got, Wrote
  <2>4. Got(Other(p)) <= Wrote(p)
    BY DEF Smooth, PipeMatches, Whole
  <2> QED BY <1>3, <1>4, <2>3, <2>4
<1>7. ASSUME ReadFails(p) PROVE FALSE
  <2>1. pc[p] = "receive" /\ pipe[In(p)] = <<>> /\ fd[p][In(p)] = "open"
        /\ fd[Other(p)][In(p)] \notin Present
    BY <1>2, <1>7 DEF ReadFails, HasWriter
  <2>2. pc[Other(p)] = "gone"
    BY <1>0, <2>1, OtherEnd
  <2>3. Wrote(Other(p)) = Count /\ Got(p) = i[p] - 1
    BY <2>1, <2>2 DEF Got, Wrote
  <2>4. PipeMatches(Other(p))
    BY <1>0 DEF Smooth
  <2>5. Got(p) = Wrote(Other(p))
    BY <1>0, <2>1, <2>4 DEF PipeMatches, Whole
  <2> QED BY <1>3, <1>4, <2>3, <2>5
<1> QED BY <1>5, <1>6, <1>7

LEMMA OpenBeginSmooth ==
  ASSUME Types, Smooth, NEW p \in Process, OpenBegin(p)
  PROVE  Smooth'
<1>0. PICK o \in Process : /\ o = Other(p) /\ o # p /\ Other(o) = p
                           /\ \A x \in Process : x = p \/ x = o
  BY Sides
<1>1. PICK f \in Fifo : /\ f = Opens(p)[pc[p]] /\ pc[p] \in {"open1", "open2"}
                        /\ pc[p] = "open1" => f = "fifo1"
                        /\ pc[p] = "open2" => f = "fifo2"
  BY OpensType DEF OpenBegin
<1>2. /\ fd[p][f] = "none"
      /\ fd' = [fd EXCEPT ![p][f] = IF fd[o][f] \in Present THEN "met" ELSE "opening",
                          ![o][f] = IF @ = "opening" THEN "met" ELSE @]
  BY <1>0, <1>1 DEF OpenBegin
<1>3. /\ fd'[p][f] = IF fd[o][f] \in Present THEN "met" ELSE "opening"
      /\ fd'[o][f] = IF fd[o][f] = "opening" THEN "met" ELSE fd[o][f]
      /\ \A g \in Fifo : g # f => fd'[p][g] = fd[p][g] /\ fd'[o][g] = fd[o][g]
  BY <1>0, <1>2 DEF Types
<1>4. UNCHANGED <<pipe, pc, i, rx, broken>>
  BY DEF OpenBegin
<1>5. ASSUME NEW x \in Process PROVE LogMatches(x)' /\ PipeMatches(x)'
  <2>1. LogMatches(x) /\ PipeMatches(x) /\ Other(x) \in Process
    BY Sides DEF Smooth
  <2>2. Got(x)' = Got(x) /\ Wrote(x)' = Wrote(x) /\ Got(Other(x))' = Got(Other(x))
    BY <1>4, <2>1, CountersKept
  <2>3. rx'[x] = rx[x] /\ pipe'[Out(x)] = pipe[Out(x)]
    BY <1>4
  <2> QED BY <2>1, <2>2, <2>3, LogKept, PipeKept
<1>6. Ends(p)'
  <2>1. Ends(p)
    BY DEF Smooth
  <2> QED BY <1>1, <1>3, <1>4, <2>1 DEF Ends, Fifo
<1>7. Ends(o)'
  <2>1. Ends(o)
    BY DEF Smooth
  <2> QED BY <1>1, <1>3, <1>4, <2>1 DEF Ends, Fifo
<1>8. ASSUME NEW g \in Fifo PROVE Met(p, g)' /\ Met(o, g)'
  <2>1. Met(p, g) /\ Met(o, g)
    BY DEF Smooth
  <2>2. CASE g = f
    BY <1>0, <1>2, <1>3, <2>1, <2>2 DEF Met, Present
  <2>3. CASE g # f
    BY <1>0, <1>3, <2>1, <2>3 DEF Met
  <2> QED BY <2>2, <2>3
<1>9. ~broken'
  BY <1>4 DEF Smooth
<1> QED BY <1>0, <1>5, <1>6, <1>7, <1>8, <1>9 DEF Smooth

LEMMA OpenReturnSmooth ==
  ASSUME Types, Smooth, NEW p \in Process, OpenReturn(p)
  PROVE  Smooth'
<1>0. PICK o \in Process : /\ o = Other(p) /\ o # p /\ Other(o) = p
                           /\ \A x \in Process : x = p \/ x = o
  BY Sides
<1>1. PICK f \in Fifo : /\ f = Opens(p)[pc[p]] /\ pc[p] \in {"open1", "open2"}
                        /\ pc[p] = "open1" => f = "fifo1"
                        /\ pc[p] = "open2" => f = "fifo2"
  BY OpensType DEF OpenReturn
<1>2. /\ fd[p][f] = "met" /\ fd' = [fd EXCEPT ![p][f] = "open"]
      /\ pc' = [pc EXCEPT ![p] = IF pc[p] = "open1" THEN "open2" ELSE "send"]
  BY <1>1 DEF OpenReturn, AfterOpen
<1>3. /\ fd'[p][f] = "open" /\ fd'[o] = fd[o]
      /\ \A g \in Fifo : g # f => fd'[p][g] = fd[p][g]
      /\ pc'[o] = pc[o] /\ pc'[p] = IF pc[p] = "open1" THEN "open2" ELSE "send"
  BY <1>0, <1>2 DEF Types
<1>4. UNCHANGED <<pipe, i, rx, broken>>
  BY DEF OpenReturn
<1>5. Ends(p) /\ Ends(o) /\ i[p] = 1
  BY <1>1 DEF Smooth, Ends
<1>6. ASSUME NEW x \in Process PROVE Got(x)' = Got(x) /\ Wrote(x)' = Wrote(x)
  <2>1. CASE x = o
    BY <1>3, <1>4, <2>1, CountersKept
  <2>2. CASE x = p
    <3>1. Got(p) = 0 /\ Wrote(p) = 0
      BY <1>1 DEF Got, Wrote
    <3>2. Got(p)' = 0 /\ Wrote(p)' = 0
      BY <1>3, <1>4, <1>5 DEF Got, Wrote
    <3> QED BY <2>2, <3>1, <3>2
  <2> QED BY <1>0, <2>1, <2>2
<1>7. ASSUME NEW x \in Process PROVE LogMatches(x)' /\ PipeMatches(x)'
  <2>1. LogMatches(x) /\ PipeMatches(x) /\ Other(x) \in Process
    BY Sides DEF Smooth
  <2>2. Got(x)' = Got(x) /\ Wrote(x)' = Wrote(x) /\ Got(Other(x))' = Got(Other(x))
    BY <1>6, <2>1
  <2>3. rx'[x] = rx[x] /\ pipe'[Out(x)] = pipe[Out(x)]
    BY <1>4
  <2> QED BY <2>1, <2>2, <2>3, LogKept, PipeKept
<1>8. Ends(p)' /\ Ends(o)'
  <2>1. Ends(o)'
    BY <1>3, <1>4, <1>5, EndsKept
  <2>2. Ends(p)'
    BY <1>1, <1>3, <1>4, <1>5 DEF Ends, Fifo
  <2> QED BY <2>1, <2>2
<1>9. ASSUME NEW g \in Fifo PROVE Met(p, g)' /\ Met(o, g)'
  <2>1. Met(p, g) /\ Met(o, g)
    BY DEF Smooth
  <2>2. CASE g = f
    BY <1>0, <1>2, <1>3, <2>1, <2>2 DEF Met
  <2>3. CASE g # f
    BY <1>0, <1>3, <2>1, <2>3 DEF Met
  <2> QED BY <2>2, <2>3
<1>10. ~broken'
  BY <1>4 DEF Smooth
<1> QED BY <1>0, <1>7, <1>8, <1>9, <1>10 DEF Smooth

\* A step that opens and closes nothing keeps the ends met.
LEMMA MetKept ==
  ASSUME Smooth, UNCHANGED fd, NEW p \in Process, NEW f \in Fifo
  PROVE  Met(p, f)'
<1>1. Met(p, f)
  BY DEF Smooth
<1> QED BY <1>1 DEF Met

LEMMA WriteSmooth ==
  ASSUME Types, Smooth, NEW p \in Process, Write(p)
  PROVE  Smooth'
<1>0. PICK o \in Process : /\ o = Other(p) /\ o # p /\ Other(o) = p /\ Out(o) = In(p)
                           /\ Out(p) \in Fifo /\ In(p) \in Fifo /\ Out(p) # In(p)
                           /\ \A x \in Process : x = p \/ x = o
  BY Sides
<1>1. /\ pc[p] = "send" /\ Advance(p, "send", "receive")
      /\ UNCHANGED <<fd, rx, broken>>
      /\ pipe' = [pipe EXCEPT ![Out(p)] = pipe[Out(p)] \o Bytes(p, i[p], WriteSize(i[p]))]
  BY DEF Write
<1>2. /\ i'[o] = i[o] /\ pc'[o] = pc[o]
      /\ i[p] = Count => i'[p] = 1 /\ pc'[p] = "receive"
      /\ i[p] # Count => i'[p] = i[p] + 1 /\ pc'[p] = "send"
  BY <1>0, <1>1, AdvanceType
<1>3. PICK w \in Nat, r \in Nat, k \in Nat :
        w = Wrote(p) /\ r = Got(o) /\ k = i[p] /\ w = k - 1 /\ 1 <= k /\ k <= Count
  BY <1>1, CountersType DEF Wrote
<1>4. w + 1 = k
  BY ONLY <1>3, w \in Nat, k \in Nat
<1>5. Wrote(p)' = w + 1 /\ Got(p)' = Got(p)
  <2>1. CASE i[p] = Count
    BY <1>1, <1>2, <1>3, <1>4, <2>1 DEF Wrote, Got
  <2>2. CASE i[p] # Count
    <3>1. (k + 1) - 1 = k
      BY ONLY k \in Nat
    <3>2. Wrote(p)' = (k + 1) - 1 /\ Got(p)' = 0 /\ Got(p) = 0
      BY <1>1, <1>2, <1>3, <2>2 DEF Wrote, Got
    <3> QED BY ONLY <1>4, <3>1, <3>2
  <2> QED BY <2>1, <2>2
<1>6. Wrote(o)' = Wrote(o) /\ Got(o)' = Got(o)
  BY <1>2, CountersKept
<1>7. ASSUME NEW x \in Process PROVE LogMatches(x)'
  <2>1. LogMatches(x) /\ rx'[x] = rx[x] /\ Got(x)' = Got(x)
    BY <1>0, <1>1, <1>5, <1>6 DEF Smooth
  <2> QED BY <2>1, LogKept
<1>8. PipeMatches(o)'
  <2>1. PipeMatches(o) /\ pipe'[Out(o)] = pipe[Out(o)]
    BY <1>0, <1>1 DEF Smooth, Types
  <2>2. Got(Other(o))' = Got(Other(o))
    BY <1>0, <1>5
  <2> QED BY <1>6, <2>1, <2>2, PipeKept
<1>9. PipeMatches(p)'
  <2>1. PICK q \in Seq(B) : q = pipe[Out(p)]
    BY <1>0 DEF Types, B
  <2>2. Whole(q, p, r, w)
    BY <1>0, <1>3, <2>1 DEF Smooth, PipeMatches
  <2>3. Whole(q \o Bytes(p, w + 1, ReadSize(w + 1)), p, r, w + 1)
    BY <2>2, WholeAppend
  <2>4. WriteSize(i[p]) = ReadSize(w + 1) /\ i[p] = w + 1
    BY <1>3, <1>4, SizeType
  <2>5. pipe'[Out(p)] = q \o Bytes(p, w + 1, ReadSize(w + 1))
    BY <1>0, <1>1, <2>1, <2>4 DEF Types
  <2>6. Got(Other(p))' = r
    BY <1>0, <1>3, <1>6
  <2> QED BY <1>5, <2>3, <2>5, <2>6 DEF PipeMatches
<1>10. Ends(p)' /\ Ends(o)'
  <2>1. Ends(p) /\ Ends(o)
    BY DEF Smooth
  <2>2. Ends(o)'
    BY <1>1, <1>2, <2>1, EndsKept
  <2>3. Ends(p)'
    BY <1>1, <1>2, <2>1 DEF Ends
  <2> QED BY <2>2, <2>3
<1>11. \A x \in Process : \A f \in Fifo : Met(x, f)'
  BY <1>1, MetKept
<1>12. ~broken'
  BY <1>1 DEF Smooth
<1> QED BY <1>0, <1>7, <1>8, <1>9, <1>10, <1>11, <1>12 DEF Smooth

\* The log after one more message.
LEMMA LogAppend ==
  ASSUME NEW S, NEW s \in Seq(S), NEW e \in S, NEW r \in Nat, Len(s) = r,
         NEW o, \A k \in 1..Len(s) : s[k] = [from |-> o, msg |-> k],
         e = [from |-> o, msg |-> r + 1]
  PROVE  /\ Len(Append(s, e)) = r + 1
         /\ \A k \in 1..(r + 1) : Append(s, e)[k] = [from |-> o, msg |-> k]
<1>1. Len(Append(s, e)) = r + 1 /\ Append(s, e)[r + 1] = e
      /\ \A k \in 1..r : Append(s, e)[k] = s[k]
  OBVIOUS
<1>2. ASSUME NEW k \in 1..(r + 1) PROVE Append(s, e)[k] = [from |-> o, msg |-> k]
  <2>1. k \in 1..r \/ k = r + 1
    BY ONLY k \in 1..(r + 1), r \in Nat
  <2> QED BY <1>1, <2>1
<1> QED BY <1>1, <1>2

LEMMA ReadSmooth ==
  ASSUME Types, Smooth, NEW p \in Process, Read(p)
  PROVE  Smooth'
<1>0. PICK o \in Process : /\ o = Other(p) /\ o # p /\ Other(o) = p /\ Out(o) = In(p)
                           /\ Out(p) \in Fifo /\ In(p) \in Fifo /\ Out(p) # In(p)
                           /\ \A x \in Process : x = p \/ x = o
  BY Sides
<1>1. /\ pc[p] = "receive" /\ Advance(p, "receive", "spin") /\ pipe[In(p)] # <<>>
      /\ UNCHANGED <<fd, broken>>
  BY DEF Read
<1>2. /\ i'[o] = i[o] /\ pc'[o] = pc[o]
      /\ i[p] = Count => i'[p] = 1 /\ pc'[p] = "spin"
      /\ i[p] # Count => i'[p] = i[p] + 1 /\ pc'[p] = "receive"
  BY <1>0, <1>1, AdvanceType
<1>3. PICK w \in Nat, r \in Nat, k \in Nat :
        w = Wrote(o) /\ r = Got(p) /\ k = i[p] /\ r = k - 1 /\ 1 <= k /\ k <= Count
  BY <1>1, CountersType DEF Got
<1>4. r + 1 = k
  BY ONLY <1>3, r \in Nat, k \in Nat
<1>5. Got(p)' = r + 1 /\ Wrote(p)' = Wrote(p)
  <2>1. CASE i[p] = Count
    BY <1>1, <1>2, <1>3, <1>4, <2>1 DEF Wrote, Got
  <2>2. CASE i[p] # Count
    <3>1. (k + 1) - 1 = k
      BY ONLY k \in Nat
    <3>2. Got(p)' = (k + 1) - 1 /\ Wrote(p)' = Count /\ Wrote(p) = Count
      BY <1>1, <1>2, <1>3, <2>2 DEF Wrote, Got
    <3> QED BY ONLY <1>4, <3>1, <3>2
  <2> QED BY <2>1, <2>2
<1>6. Wrote(o)' = Wrote(o) /\ Got(o)' = Got(o)
  BY <1>2, CountersKept
<1>7. PICK q \in Seq(B) : q = pipe[In(p)] /\ q # <<>>
  BY <1>0, <1>1 DEF Types, B
<1>8. Whole(q, o, r, w)
  <2>1. PipeMatches(o)
    BY DEF Smooth
  <2> QED BY <1>0, <1>3, <1>7, <2>1 DEF PipeMatches
<1>9. PICK n \in Nat : n = ReadSize(r + 1)
  <2>1. r + 1 \in Nat
    OBVIOUS
  <2> QED BY <2>1, SizeType
<1>10. Smaller(n, Len(q)) = n /\ Decoded(SubSeq(q, 1, n), r + 1) = [from |-> o, msg |-> r + 1]
  BY <1>7, <1>8, <1>9, ReadDecodes
<1>11. Smaller(ReadSize(i[p]), Len(pipe[In(p)])) = n
  BY <1>3, <1>4, <1>7, <1>9, <1>10
<1>12. /\ pipe' = [pipe EXCEPT ![In(p)] = SubSeq(q, n + 1, Len(q))]
       /\ rx' = [rx EXCEPT ![p] = Append(rx[p], Decoded(SubSeq(q, 1, n), r + 1))]
  BY <1>3, <1>4, <1>7, <1>11 DEF Read
<1>13. PipeMatches(o)'
  <2>1. Whole(SubSeq(q, n + 1, Len(q)), o, r + 1, w)
    BY <1>7, <1>8, <1>9, WholeRead
  <2>2. pipe'[Out(o)] = SubSeq(q, n + 1, Len(q))
    BY <1>0, <1>12 DEF Types
  <2>3. Got(Other(o))' = r + 1 /\ Wrote(o)' = w
    BY <1>0, <1>3, <1>5, <1>6
  <2> QED BY ONLY <2>1, <2>2, <2>3 DEF PipeMatches
<1>14. PipeMatches(p)'
  <2>1. PipeMatches(p) /\ pipe'[Out(p)] = pipe[Out(p)]
    BY <1>0, <1>12 DEF Smooth, Types
  <2>2. Got(Other(p))' = Got(Other(p))
    BY <1>0, <1>6
  <2> QED BY <1>5, <2>1, <2>2, PipeKept
<1>15. LogMatches(o)'
  <2>1. LogMatches(o) /\ rx'[o] = rx[o]
    BY <1>0, <1>12 DEF Smooth, Types
  <2> QED BY <1>6, <2>1, LogKept
<1>16. LogMatches(p)'
  <2>1. PICK s \in Seq([from : Process \cup {"nobody"}, msg : Nat]) : s = rx[p]
    BY DEF Types
  <2>2. Len(s) = r /\ \A j \in 1..Len(s) : s[j] = [from |-> o, msg |-> j]
    <3>1. LogMatches(p)
      BY DEF Smooth
    <3> QED BY <1>0, <1>3, <2>1, <3>1 DEF LogMatches
  <2>3. PICK e \in [from : Process \cup {"nobody"}, msg : Nat] : e = [from |-> o, msg |-> r + 1]
    <3>1. r + 1 \in Nat
      OBVIOUS
    <3>2. [from |-> o, msg |-> r + 1] \in [from : Process \cup {"nobody"}, msg : Nat]
      BY ONLY <3>1, o \in Process
    <3> QED BY ONLY <3>2
  <2>4. rx'[p] = Append(s, e)
    BY <1>10, <1>12, <2>1, <2>3 DEF Types
  <2>5. /\ Len(Append(s, e)) = r + 1
        /\ \A j \in 1..(r + 1) : Append(s, e)[j] = [from |-> o, msg |-> j]
    BY <2>2, <2>3, LogAppend
  <2> QED BY ONLY <1>0, <1>5, <2>4, <2>5 DEF LogMatches
<1>17. Ends(p)' /\ Ends(o)'
  <2>1. Ends(p) /\ Ends(o)
    BY DEF Smooth
  <2>2. Ends(o)'
    BY <1>1, <1>2, <2>1, EndsKept
  <2>3. Ends(p)'
    BY <1>1, <1>2, <2>1 DEF Ends
  <2> QED BY <2>2, <2>3
<1>18. \A x \in Process : \A f \in Fifo : Met(x, f)'
  BY <1>1, MetKept
<1>19. ~broken'
  BY <1>1 DEF Smooth
<1> QED BY <1>0, <1>13, <1>14, <1>15, <1>16, <1>17, <1>18, <1>19 DEF Smooth

LEMMA ExitSmooth ==
  ASSUME Types, Smooth, NEW p \in Process, Exit(p)
  PROVE  Smooth'
<1>0. PICK o \in Process : /\ o = Other(p) /\ o # p /\ Other(o) = p
                           /\ \A x \in Process : x = p \/ x = o
  BY Sides
<1>1. /\ pc[p] = "spin" /\ pc'[p] = "gone" /\ pc'[o] = pc[o]
      /\ fd'[o] = fd[o] /\ \A f \in Fifo : fd'[p][f] = "closed"
      /\ UNCHANGED <<pipe, i, rx, broken>>
  BY <1>0 DEF Exit, Types
<1>2. ASSUME NEW x \in Process PROVE Got(x)' = Got(x) /\ Wrote(x)' = Wrote(x)
  <2>1. CASE x = o
    BY <1>1, <2>1, CountersKept
  <2>2. CASE x = p
    BY <1>1, <2>2 DEF Got, Wrote
  <2> QED BY <1>0, <2>1, <2>2
<1>3. ASSUME NEW x \in Process PROVE LogMatches(x)' /\ PipeMatches(x)'
  <2>1. LogMatches(x) /\ PipeMatches(x) /\ Other(x) \in Process
    BY Sides DEF Smooth
  <2>2. Got(x)' = Got(x) /\ Wrote(x)' = Wrote(x) /\ Got(Other(x))' = Got(Other(x))
    BY <1>2, <2>1
  <2>3. rx'[x] = rx[x] /\ pipe'[Out(x)] = pipe[Out(x)]
    BY <1>1
  <2> QED BY <2>1, <2>2, <2>3, LogKept, PipeKept
<1>4. Ends(p)' /\ Ends(o)'
  <2>1. Ends(o)'
    BY <1>1, EndsKept DEF Smooth
  <2>2. Ends(p)'
    BY <1>1 DEF Ends
  <2> QED BY <2>1, <2>2
<1>5. ASSUME NEW f \in Fifo PROVE Met(p, f)' /\ Met(o, f)'
  BY <1>0, <1>1 DEF Met
<1>6. ~broken'
  BY <1>1 DEF Smooth
<1> QED BY <1>0, <1>3, <1>4, <1>5, <1>6 DEF Smooth

\* A step that changes neither a pipe nor where a process is.
LEMMA IdleSmooth ==
  ASSUME Smooth, UNCHANGED <<fd, pipe, pc, i, rx, broken>>
  PROVE  Smooth'
<1>1. ASSUME NEW x \in Process PROVE Ends(x)' /\ LogMatches(x)' /\ PipeMatches(x)'
  <2>1. Ends(x) /\ LogMatches(x) /\ PipeMatches(x) /\ Other(x) \in Process
    BY Sides DEF Smooth
  <2>2. Got(x)' = Got(x) /\ Wrote(x)' = Wrote(x) /\ Got(Other(x))' = Got(Other(x))
    BY <2>1, CountersKept
  <2>3. rx'[x] = rx[x] /\ pipe'[Out(x)] = pipe[Out(x)] /\ fd'[x] = fd[x] /\ pc'[x] = pc[x]
        /\ i'[x] = i[x]
    OBVIOUS
  <2> QED BY <2>1, <2>2, <2>3, EndsKept, LogKept, PipeKept
<1>2. \A x \in Process : \A f \in Fifo : Met(x, f)'
  BY MetKept
<1>3. ~broken'
  BY DEF Smooth
<1> QED BY <1>1, <1>2, <1>3 DEF Smooth

LEMMA SmoothStep ==
  ASSUME Types, SmoothInv, [Next]_vars
  PROVE  SmoothInv'
<1> SUFFICES ASSUME ~interrupted' PROVE Smooth'
  BY DEF SmoothInv
<1>1. CASE UNCHANGED vars
  BY <1>1, IdleSmooth DEF vars, SmoothInv
<1>2. CASE Next
  <2>1. PICK p \in Process : Step(p) \/ sigHandler(p)
    BY <1>2 DEF Next
  <2>2. ~interrupted
    BY <2>1 DEF Step, sigHandler, OpenBegin, OpenReturn, Write, WriteFails, WriteBroken, Read,
                ReadFails, Exit
  <2>3. Smooth
    BY <2>2 DEF SmoothInv
  <2>4. CASE Step(p)
    BY <2>3, <2>4, NoFailures, OpenBeginSmooth, OpenReturnSmooth, WriteSmooth, ReadSmooth,
       ExitSmooth DEF Step
  <2>5. CASE sigHandler(p)
    <3>1. UNCHANGED <<fd, pipe, pc, i, rx, broken>>
      BY <2>5 DEF sigHandler
    <3> QED BY <2>3, <3>1, IdleSmooth
  <2> QED BY <2>1, <2>4, <2>5
<1> QED BY <1>1, <1>2

-----------------------------------------------------------------------------
\* The inductive invariant: until a call is interrupted, pipes, logs and ends are as
\* the two processes' positions in pipestest.c say.
THEOREM PipesInvariant == Spec => [](Types /\ SmoothInv)
<1>1. Init => Types /\ SmoothInv
  BY TypesInit, SmoothInit DEF SmoothInv
<1>2. Types /\ SmoothInv /\ [Next]_vars => (Types /\ SmoothInv)'
  BY TypesStep, SmoothStep
<1> QED BY <1>1, <1>2, PTL DEF Spec

\* Without an interrupted call each process of pipestest.c logs the other's messages in
\* order and whole: its reads of a fixed size never straddle two messages.
THEOREM MessagesArriveWhole == Spec => []ReceivedInOrder
<1>1. Types /\ SmoothInv => ReceivedInOrder
  BY DEF SmoothInv, Smooth, LogMatches, ReceivedInOrder
<1> QED BY <1>1, PipesInvariant, PTL

\* A process that leaves after SIGINT never makes the other meet an end of file or
\* SIGPIPE, unless a signal has interrupted a call.
THEOREM LeavingIsSafe == Spec => []ClosingIsSafe
<1>1. Types /\ SmoothInv => ClosingIsSafe
  BY DEF SmoothInv, Smooth, ClosingIsSafe, Types
<1> QED BY <1>1, PipesInvariant, PTL
=============================================================================
