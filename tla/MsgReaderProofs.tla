--------------------------- MODULE MsgReaderProofs ---------------------------
(***************************************************************************)
(* Proofs about MsgReader, for any number of messages of any length, cut    *)
(* into any pieces, on a build of either byte order: InStep, and            *)
(* HandedIntact.                                                            *)
(*                                                                         *)
(* The invariant counts the bytes of the stream: off[m] is where message m  *)
(* begins, and r how many the reader has taken from the socket.  Where a    *)
(* length was used in the wrong byte order, r may be anywhere.              *)
(***************************************************************************)
EXTENDS MsgReader, SequenceTheorems, TLAPS

Byte == Nat \X Nat
Streamed == 1 .. Len(stream)

Types ==
  /\ sock \in Seq(Byte) /\ hdr \in Seq(Byte) /\ buf \in Seq(Byte)
  /\ handed \in Seq([msg : Nat, data : Seq(Byte)])
  /\ TypeOK

\* A body that msg_len_read can count before its last byte.
Short == Body <= Byte8

\* What the switch has sent, in bytes.
Sent(off) == IF stream = <<>> THEN 0 ELSE off[Len(stream)] + arrived

\* b is byte x of the stream.
ByteAt(off, x, b) ==
  \E m \in Streamed : \E a \in 1 .. stream[m].len : b = <<m, a>> /\ off[m] + a = x

\* The socket holds the bytes of the stream behind r, in order.
StreamInv(off, r) ==
  /\ \A m \in Nat : off[m] \in Nat
  /\ off[1] = 0
  /\ \A m \in Streamed : off[m + 1] = off[m] + stream[m].len
  /\ \A m, n \in 1 .. (Len(stream) + 1) : m <= n => off[m] <= off[n]
  /\ stream # <<>> => arrived <= stream[Len(stream)].len
  /\ r + Len(sock) = Sent(off)
  /\ \A i \in 1 .. Len(sock) : ByteAt(off, r + i, sock[i])

\* The header read so far is the beginning of a message.
HdrInv ==
  /\ hdr # <<>> => Cur \in Streamed
  /\ \A i \in 1 .. Len(hdr) : hdr[i] = <<Cur, i>>

\* Where the thread is, and how far in the stream.
AtNew(off, r) ==
  /\ msg_state = "new" /\ pc = "epoll" /\ hdr = <<>>
  /\ ~missed /\ ~misled => \E m \in 1 .. (Len(stream) + 1) : r = off[m]

AtHeader(off, r) ==
  /\ msg_state = "header" /\ pc = "epoll" /\ 0 < Len(hdr) /\ Len(hdr) < HdrLen
  /\ r = off[Cur] + Len(hdr) /\ msg_len_read = 0

AtStart(off, r) ==
  /\ msg_state = "start" /\ pc \in {"epoll", "process"} /\ Len(hdr) = HdrLen
  /\ r = off[Cur] + HdrLen /\ msg_len_read = 0

AtBody(off, r) ==
  /\ pc = "body" /\ msg_state \in {"start", "wait"} /\ Len(hdr) = HdrLen
  /\ r = off[Cur] + HdrLen /\ msg_len_read = 0 /\ length1 = HdrLen /\ Body > 0

AtWait(off, r) ==
  /\ pc = "epoll" /\ msg_state = "wait" /\ Len(hdr) = HdrLen
  /\ ~misled => r = off[Cur] + length1 /\ HdrLen < length1 /\ length1 < CurLen

AtComplete(off, r) ==
  /\ pc = "process" /\ msg_state = "complete" /\ Len(hdr) = HdrLen
  /\ ~misled => r = off[Cur] + CurLen

AtDrain(off, r) ==
  /\ pc = "drain" /\ msg_state \in {"start", "drain"} /\ Len(hdr) = HdrLen
  /\ Body > 0
  /\ ~misled => todo > 0
  /\ ~missed /\ ~misled => msg_state = "start" /\ r + todo = off[Cur] + CurLen

\* The length in the wrong byte order has left nothing to drain.
AtStuck ==
  /\ pc = "epoll" /\ msg_state = "drain" /\ misled /\ Len(hdr) = HdrLen

PlaceInv(off, r) ==
  \/ pc = "lost" /\ (missed \/ misled)
  \/ /\ HdrInv
     /\ \/ AtNew(off, r) \/ AtHeader(off, r) \/ AtStart(off, r) \/ AtBody(off, r)
        \/ AtWait(off, r) \/ AtComplete(off, r) \/ AtDrain(off, r) \/ AtStuck

\* The first k bytes of the message are in its buffer.
Filled(k) ==
  /\ buf = [i \in 1 .. CurLen |-> buf[i]]
  /\ \A i \in 1 .. k : buf[i] = <<Cur, i>>

\* The buffer holds what was read of a body that can be counted, and where more is
\* waited for, its count is right or none.
BufInv ==
  /\ pc = "body" => Filled(HdrLen)
  /\ pc = "epoll" /\ msg_state = "wait" /\ Short =>
       Filled(length1) /\ (msg_len_read = 0 \/ msg_len_read = length1 - HdrLen)
  /\ pc = "process" /\ msg_state = "complete" /\ Short => Filled(CurLen)

\* What was handed over are messages the reader is past, in order.
HandInv(off, r) ==
  /\ \A i \in 1 .. Len(handed) :
       /\ handed[i].msg \in Streamed
       /\ stream[handed[i].msg].len - HdrLen <= Byte8 => handed[i].data = Message(handed[i].msg)
       /\ off[handed[i].msg + 1] <= r
       /\ \A j \in 1 .. (i - 1) : handed[j].msg < handed[i].msg
  /\ pc # "lost" /\ hdr # <<>> => \A i \in 1 .. Len(handed) : handed[i].msg < Cur

Inv(off, r) ==
  /\ Types /\ StreamInv(off, r) /\ PlaceInv(off, r)
  /\ ~misled => BufInv /\ HandInv(off, r)

InvExists == \E off \in [Nat -> Nat], r \in Nat : Inv(off, r)

-----------------------------------------------------------------------------
(* Lengths.                                                                 *)

\* The constants as the provers use them: a message has a header, and its length fits
\* the field.
LEMMA Constants ==
  /\ HdrLen \in Nat /\ HdrLen > 0 /\ Byte8 \in Nat /\ Byte8 > 0 /\ DrainLen \in Nat /\ DrainLen > 0
  /\ Uint16 \in Nat /\ Uint16 > 0 /\ Byte8 <= Uint16
  /\ \A len \in Lens : len \in Nat /\ HdrLen <= len /\ len < Uint16
  /\ MaxMsg \in Nat /\ StartLimit \in Nat /\ WaitLimit \in Nat
<1>1. \A b \in Nat : b > 0 => b * b \in Nat /\ b <= b * b
  OBVIOUS
<1>2. Uint16 \in Nat /\ Byte8 <= Uint16 /\ Byte8 > 0 /\ Byte8 \in Nat
  BY <1>1, MsgReaderAssumption DEF Uint16
<1> QED  BY <1>2, MsgReaderAssumption

\* A difference that is not negative is passed on as it is.
LEMMA SubExact ==
  ASSUME NEW a \in Nat, NEW b \in Nat, b <= a, a < Uint16
  PROVE  Sub16(a, b) = a - b
<1>1. \A x, y, c \in Nat : y <= x /\ x < c => (x + c - y) % c = x - y
  OBVIOUS
<1> QED  BY <1>1, Constants DEF Sub16

\* What a difference is passed on as is in the range of the parameter.
LEMMA SubRange ==
  ASSUME NEW a \in Nat, NEW b \in Nat
  PROVE  Sub16(a, b) \in Nat /\ Sub16(a, b) \in 0 .. (Uint16 - 1)
<1>1. \A x \in Int : \A c \in Nat : c > 0 => x % c \in 0 .. (c - 1)
  OBVIOUS
<1>2. a + Uint16 - b \in Int /\ Uint16 \in Nat /\ Uint16 > 0
  BY Constants
<1>3. (a + Uint16 - b) % Uint16 \in 0 .. (Uint16 - 1)
  BY <1>1, <1>2
<1> QED  BY <1>2, <1>3 DEF Sub16

\* The length of a message of the stream.
LEMMA StreamLen ==
  ASSUME Types, NEW m \in Streamed
  PROVE  /\ stream[m].len \in Nat /\ HdrLen <= stream[m].len /\ stream[m].len < Uint16
         /\ stream[m].len \in Lens /\ stream[m].kind \in Kinds
         /\ m \in Nat /\ m > 0 /\ m + 1 \in 1 .. (Len(stream) + 1) /\ Len(stream) \in Nat
<1> DEFINE M == [len : Lens, kind : Kinds]
<1>1. stream \in Seq(M) /\ m \in 1 .. Len(stream)
  BY DEF Types, TypeOK, Streamed
<1> HIDE DEF M
<1>2. stream[m] \in M /\ Len(stream) \in Nat
  BY <1>1, ElementOfSeq, LenProperties
<1>3. stream[m].len \in Lens /\ stream[m].kind \in Kinds
  BY <1>2 DEF M
<1>4. m \in Nat /\ m > 0 /\ m + 1 \in 1 .. (Len(stream) + 1)
  BY <1>1, <1>2
<1> QED  BY <1>2, <1>3, <1>4, Constants

\* Where a message of the stream begins and ends.
LEMMA OffStep ==
  ASSUME Types, NEW off, NEW r, StreamInv(off, r), NEW m \in Streamed
  PROVE  /\ off[m] \in Nat /\ off[m + 1] \in Nat
         /\ off[m + 1] = off[m] + stream[m].len
<1>1. m \in Nat /\ m + 1 \in Nat
  BY StreamLen
<1> QED  BY <1>1 DEF StreamInv

-----------------------------------------------------------------------------
(* The socket.                                                              *)

\* What a read of n bytes returns.
LEMMA FrontFacts ==
  ASSUME sock \in Seq(Byte), NEW n \in Nat
  PROVE  /\ Least(n, Len(sock)) \in Nat /\ Least(n, Len(sock)) <= n
         /\ Least(n, Len(sock)) <= Len(sock)
         /\ Least(n, Len(sock)) = n \/ Least(n, Len(sock)) = Len(sock)
         /\ Front(n) \in Seq(Byte) /\ Len(Front(n)) = Least(n, Len(sock))
         /\ \A i \in 1 .. Least(n, Len(sock)) : Front(n)[i] = sock[i]
         /\ Taken(n) = SubSeq(sock, Len(Front(n)) + 1, Len(sock))
<1> DEFINE k == Least(n, Len(sock))
<1>1. /\ k \in Nat /\ k <= n /\ k <= Len(sock) /\ (k = n \/ k = Len(sock))
      /\ Len(sock) \in Nat /\ k \in Int /\ 1 \in Int
  BY DEF Least
<1>2. \A i \in 1 .. k : sock[i] \in Byte
  BY <1>1
<1> HIDE DEF k
<1>3. /\ SubSeq(sock, 1, k) \in Seq(Byte)
      /\ Len(SubSeq(sock, 1, k)) = IF 1 <= k THEN k - 1 + 1 ELSE 0
      /\ \A i \in 1 .. (k - 1 + 1) : SubSeq(sock, 1, k)[i] = sock[1 + i - 1]
  BY <1>1, <1>2, SubSeqProperties
<1>4. Len(SubSeq(sock, 1, k)) = k
  BY <1>1, <1>3
<1>5. \A i \in 1 .. k : SubSeq(sock, 1, k)[i] = sock[i]
  BY <1>1, <1>3
<1>6. Front(n) = SubSeq(sock, 1, k) /\ Taken(n) = SubSeq(sock, k + 1, Len(sock))
  BY DEF Front, Taken, k
<1> QED  BY <1>1, <1>3, <1>4, <1>5, <1>6 DEF k

\* A byte of the stream belongs to one message.
LEMMA OnePlace ==
  ASSUME Types, NEW off, NEW r \in Nat, StreamInv(off, r),
         NEW m \in Streamed, NEW n \in Streamed,
         NEW a \in Nat, NEW b \in Nat, 0 < a, 0 < b, a <= stream[m].len, b <= stream[n].len,
         off[m] + a = off[n] + b
  PROVE  m = n /\ a = b
<1>1. /\ m \in Nat /\ n \in Nat /\ stream[m].len \in Nat /\ stream[n].len \in Nat
      /\ Len(stream) \in Nat
      /\ m + 1 \in 1 .. (Len(stream) + 1) /\ n + 1 \in 1 .. (Len(stream) + 1)
  BY StreamLen
<1>2. /\ off[m] \in Nat /\ off[n] \in Nat /\ off[m + 1] \in Nat /\ off[n + 1] \in Nat
      /\ off[m + 1] = off[m] + stream[m].len /\ off[n + 1] = off[n] + stream[n].len
  BY <1>1 DEF StreamInv
<1>3. m \in 1 .. (Len(stream) + 1) /\ n \in 1 .. (Len(stream) + 1)
  BY <1>1 DEF Streamed
<1>4. \A x, y \in 1 .. (Len(stream) + 1) : x <= y => off[x] <= off[y]
  BY DEF StreamInv
<1>5. m < n => off[m + 1] <= off[n]
  BY <1>1, <1>3, <1>4
<1>6. n < m => off[n + 1] <= off[m]
  BY <1>1, <1>3, <1>4
<1>7. \A x, y, z, l, c \in Nat : z = x + l /\ c <= l /\ z <= y => x + c <= y
  OBVIOUS
<1>8. ~(m < n) /\ ~(n < m)
  <2>1. ASSUME m < n  PROVE FALSE
    <3>1. off[m + 1] <= off[n]
      BY <1>5, <2>1
    <3>2. off[m] + a <= off[n]
      BY <1>2, <1>1, <1>7, <3>1
    <3> QED  BY <1>2, <3>2
  <2>2. ASSUME n < m  PROVE FALSE
    <3>1. off[n + 1] <= off[m]
      BY <1>6, <2>2
    <3>2. off[n] + b <= off[m]
      BY <1>2, <1>1, <1>7, <3>1
    <3> QED  BY <1>2, <3>2
  <2> QED  BY <2>1, <2>2, <1>1
<1>9. m = n
  BY <1>1, <1>8
<1> QED  BY <1>2, <1>9

\* Inside a message, or at its begin, the next bytes of the socket are its next bytes.
LEMMA NextBytes ==
  ASSUME Types, NEW off, NEW r \in Nat, StreamInv(off, r),
         NEW m \in Streamed, NEW j \in Nat, r = off[m] + j,
         NEW i \in 1 .. Len(sock), j + i <= stream[m].len
  PROVE  sock[i] = <<m, j + i>>
<1>1. PICK n \in Streamed : \E a \in 1 .. stream[n].len : sock[i] = <<n, a>> /\ off[n] + a = r + i
  BY DEF StreamInv, ByteAt
<1>2. PICK a \in 1 .. stream[n].len : sock[i] = <<n, a>> /\ off[n] + a = r + i
  BY <1>1
<1>3. Len(sock) \in Nat
  BY LenProperties DEF Types
<1>4. m \in Nat /\ n \in Nat /\ stream[m].len \in Nat /\ stream[n].len \in Nat
  BY StreamLen
<1>5. i \in Nat /\ i > 0
  BY <1>3
<1>6. \A x \in Nat : off[x] \in Nat
  BY DEF StreamInv
<1>7. off[m] \in Nat /\ off[n] \in Nat /\ i \in Nat /\ i > 0
  BY <1>4, <1>5, <1>6
<1>8. j + i \in 1 .. stream[m].len /\ off[m] + (j + i) = off[n] + a
  BY <1>2, <1>7, <1>4, SMTT(30)
<1>9. m = n /\ j + i = a
  BY <1>8, OnePlace
<1> QED  BY <1>2, <1>9

\* A read takes bytes from the front.
LEMMA Consume ==
  ASSUME Types, NEW off, NEW r \in Nat, StreamInv(off, r),
         NEW n \in Nat, NEW k \in Nat, k = Len(Front(n)), sock' = Taken(n), UNCHANGED source
  PROVE  /\ r + k \in Nat /\ StreamInv(off, r + k)'
         /\ sock' \in Seq(Byte)
<1>0. sock \in Seq(Byte) /\ Len(sock) \in Nat
  BY LenProperties DEF Types
<1>1. /\ Len(Front(n)) \in Nat /\ Len(Front(n)) <= Len(sock)
      /\ Taken(n) = SubSeq(sock, Len(Front(n)) + 1, Len(sock))
  BY <1>0, FrontFacts
<1>2. /\ k \in Nat /\ k <= Len(sock) /\ Len(sock) \in Nat /\ sock' = SubSeq(sock, k + 1, Len(sock))
      /\ k + 1 \in Int /\ Len(sock) \in Int
  BY <1>0, <1>1
<1>3. \A i \in (k + 1) .. Len(sock) : sock[i] \in Byte
  BY <1>0, <1>2, ElementOfSeq
<1>4. /\ sock' \in Seq(Byte)
      /\ Len(sock') = IF k + 1 <= Len(sock) THEN Len(sock) - (k + 1) + 1 ELSE 0
      /\ \A i \in 1 .. (Len(sock) - (k + 1) + 1) : sock'[i] = sock[(k + 1) + i - 1]
  BY <1>2, <1>3, SubSeqProperties
<1>5. Len(sock') = Len(sock) - k /\ \A i \in 1 .. Len(sock') : sock'[i] = sock[k + i]
  BY <1>2, <1>4
<1>6. stream' = stream /\ arrived' = arrived
  BY DEF source
<1>7. (r + k) + Len(sock') = Sent(off)'
  <2>1. r + Len(sock) = Sent(off)
    BY DEF StreamInv
  <2>2. Sent(off)' = Sent(off)
    BY <1>6 DEF Sent
  <2>3. \A x, y, z \in Nat : z <= y => (x + z) + (y - z) = x + y
    OBVIOUS
  <2>4. (r + k) + Len(sock') = r + Len(sock)
    <3>1. (r + k) + (Len(sock) - k) = r + Len(sock)
      BY <1>2, <2>3
    <3> QED  BY <1>5, <3>1
  <2> QED  BY <2>1, <2>2, <2>4
<1>8. ASSUME NEW i \in 1 .. Len(sock')  PROVE ByteAt(off, (r + k) + i, sock'[i])
  <2>1. k + i \in 1 .. Len(sock) /\ r + (k + i) = (r + k) + i
    BY <1>2, <1>5
  <2>2. ByteAt(off, r + (k + i), sock[k + i])
    BY <2>1 DEF StreamInv
  <2>3. sock'[i] = sock[k + i]
    BY <1>5
  <2>4. ByteAt(off, (r + k) + i, sock'[i])
    BY <2>1, <2>2, <2>3
  <2> QED  BY <2>4
<1>9. StreamInv(off, r + k)'
  <2>1. /\ \A m \in Nat : off[m] \in Nat
        /\ off[1] = 0
        /\ \A m \in Streamed : off[m + 1] = off[m] + stream[m].len
        /\ \A m, q \in 1 .. (Len(stream) + 1) : m <= q => off[m] <= off[q]
        /\ stream # <<>> => arrived <= stream[Len(stream)].len
    BY DEF StreamInv
  <2>2. \A i \in 1 .. Len(sock') : ByteAt(off, (r + k) + i, sock'[i])
    BY <1>8
  <2>3. \A i \in 1 .. Len(sock') : ByteAt(off, (r + k) + i, sock[i])'
    <3>1. ASSUME NEW i \in 1 .. Len(sock')
          PROVE  \E m \in 1 .. Len(stream') : \E a \in 1 .. stream'[m].len :
                   sock'[i] = <<m, a>> /\ off[m] + a = (r + k) + i
      <4>1. ByteAt(off, (r + k) + i, sock'[i])
        BY <2>2, <3>1
      <4>2. stream' = stream
        BY <1>6
      <4> QED  BY <4>1, <4>2, Zenon DEF Streamed, ByteAt
    <3> QED  BY <3>1 DEF Streamed, ByteAt
  <2>4. /\ (\A m \in Streamed : off[m + 1] = off[m] + stream[m].len)'
        /\ (\A m, q \in 1 .. (Len(stream) + 1) : m <= q => off[m] <= off[q])'
        /\ (stream # <<>> => arrived <= stream[Len(stream)].len)'
    BY <1>6, <2>1 DEF Streamed
  <2>5. ((r + k) + Len(sock) = Sent(off))'
    BY <1>7, Zenon
  <2> QED  BY <2>1, <2>3, <2>4, <2>5, Zenon DEF StreamInv
<1> QED  BY <1>2, <1>4, <1>9

\* What a read of n bytes gets, as a number that does not change with the state.
LEMMA ReadFacts ==
  ASSUME Types, NEW n \in Nat
  PROVE  \E k \in Nat :
           /\ k = Len(Front(n)) /\ k <= n /\ k <= Len(sock) /\ (k = n \/ k = Len(sock))
           /\ sock # <<>> /\ n > 0 => k > 0
           /\ Front(n) \in Seq(Byte) /\ \A i \in 1 .. k : Front(n)[i] = sock[i]
<1>1. sock \in Seq(Byte) /\ Len(sock) \in Nat /\ (sock # <<>> => Len(sock) > 0)
  BY EmptySeq, LenProperties DEF Types
<1>2. PICK k : k = Len(Front(n))
  OBVIOUS
<1>3. k \in Nat /\ k <= n /\ k <= Len(sock) /\ (k = n \/ k = Len(sock))
  BY <1>1, <1>2, FrontFacts
<1>4. Front(n) \in Seq(Byte) /\ \A i \in 1 .. k : Front(n)[i] = sock[i]
  BY <1>1, <1>2, FrontFacts
<1> QED  BY <1>1, <1>2, <1>3, <1>4

\* The socket and what was sent are as before.
LEMMA StreamStays ==
  ASSUME NEW off, NEW r \in Nat, StreamInv(off, r), UNCHANGED <<source, sock>>
  PROVE  StreamInv(off, r)'
<1>1. stream' = stream /\ arrived' = arrived /\ sock' = sock
  BY DEF source
<1>2. Streamed' = Streamed /\ Sent(off)' = Sent(off)
  BY <1>1 DEF Streamed, Sent
<1>3. \A i \in 1 .. Len(sock') : ByteAt(off, r + i, sock[i])'
  <2>1. \A i \in 1 .. Len(sock) : ByteAt(off, r + i, sock[i])
    BY DEF StreamInv
  <2> QED  BY <1>1, <1>2, <2>1 DEF ByteAt
<1>4. /\ \A m \in Nat : off[m] \in Nat
      /\ off[1] = 0
      /\ \A m \in Streamed : off[m + 1] = off[m] + stream[m].len
      /\ \A m, n \in 1 .. (Len(stream) + 1) : m <= n => off[m] <= off[n]
      /\ stream # <<>> => arrived <= stream[Len(stream)].len
      /\ r + Len(sock) = Sent(off)
  BY DEF StreamInv
<1> QED  BY <1>1, <1>2, <1>3, <1>4 DEF StreamInv

-----------------------------------------------------------------------------
(* The thread.                                                              *)

\* Where the thread is, read off pc and msg_state.
LEMMA Places ==
  ASSUME NEW off, NEW r \in Nat, PlaceInv(off, r), pc # "lost"
  PROVE  /\ HdrInv
         /\ pc = "epoll" /\ msg_state = "drain" => AtStuck
         /\ pc = "epoll" /\ msg_state = "new" => AtNew(off, r)
         /\ pc = "epoll" /\ msg_state = "header" => AtHeader(off, r)
         /\ pc \in {"epoll", "process"} /\ msg_state = "start" => AtStart(off, r)
         /\ pc = "body" => AtBody(off, r)
         /\ pc = "epoll" /\ msg_state = "wait" => AtWait(off, r)
         /\ pc = "process" /\ msg_state = "complete" => AtComplete(off, r)
         /\ pc = "drain" => AtDrain(off, r)
  BY DEF PlaceInv, AtNew, AtHeader, AtStart, AtBody, AtWait, AtComplete, AtDrain, AtStuck

\* The message whose header is being read or has been read.
LEMMA CurFacts ==
  ASSUME Types, HdrInv, hdr # <<>>, NEW off, NEW r \in Nat, StreamInv(off, r)
  PROVE  /\ Cur \in Streamed /\ Cur \in Nat /\ Cur > 0 /\ Cur + 1 \in 1 .. (Len(stream) + 1)
         /\ CurLen \in Nat /\ HdrLen <= CurLen /\ CurLen < Uint16 /\ CurLen \in Lens
         /\ Kind \in Kinds /\ Body \in Nat /\ Body = CurLen - HdrLen
         /\ off[Cur] \in Nat /\ off[Cur + 1] = off[Cur] + CurLen
         /\ HostLen \in Nat
<1>1. Cur \in Streamed
  BY DEF HdrInv
<1>2. PICK m \in Streamed : m = Cur
  BY <1>1
<1>3. /\ stream[m].len \in Nat /\ HdrLen <= stream[m].len /\ stream[m].len < Uint16
      /\ stream[m].len \in Lens /\ stream[m].kind \in Kinds
      /\ m \in Nat /\ m > 0 /\ m + 1 \in 1 .. (Len(stream) + 1)
  BY StreamLen
<1>4. off[m] \in Nat /\ off[m + 1] = off[m] + stream[m].len
  BY <1>3 DEF StreamInv
<1>5. stream[m].len - HdrLen \in Nat
  BY <1>3, Constants
<1>6. CurLen \in Nat /\ HostLen \in Nat
  <2>1. CurLen \in Nat
    BY <1>2, <1>3 DEF CurLen
  <2>2. \A x, b \in Nat : b > 0 => x % b \in Nat /\ x \div b \in Nat
    OBVIOUS
  <2>3. CurLen % Byte8 \in Nat /\ CurLen \div Byte8 \in Nat /\ Byte8 \in Nat
    BY <2>1, <2>2, Constants
  <2>4. \A x, b, y \in Nat : x * b + y \in Nat
    OBVIOUS
  <2> QED  BY <2>1, <2>3, <2>4 DEF HostLen
<1> QED  BY <1>2, <1>3, <1>4, <1>5, <1>6 DEF CurLen, Kind, Body

\* What is handed over stays so, while the reader moves on.
LEMMA HandKept ==
  ASSUME NEW off, NEW r \in Nat, NEW s \in Nat, r <= s, HandInv(off, r), StreamInv(off, r), Types,
         stream' = stream, handed' = handed,
         pc' # "lost" /\ hdr' # <<>> => \A i \in 1 .. Len(handed) : handed[i].msg < Cur'
  PROVE  HandInv(off, s)'
<1>1. \A i \in 1 .. Len(handed) : off[handed[i].msg + 1] <= s
  <2>1. ASSUME NEW i \in 1 .. Len(handed)  PROVE off[handed[i].msg + 1] <= s
    <3>1. off[handed[i].msg + 1] <= r /\ handed[i].msg \in Streamed
      BY DEF HandInv
    <3>2. handed[i].msg + 1 \in Nat
      BY <3>1, StreamLen
    <3>3. off[handed[i].msg + 1] \in Nat
      BY <3>2 DEF StreamInv
    <3> QED  BY <3>1, <3>3
  <2> QED  BY <2>1
<1> QED  BY <1>1 DEF HandInv, Streamed, Message

\* A step that begins no header leaves the order alone.
LEMMA HandStays ==
  ASSUME NEW off, NEW r \in Nat, NEW s \in Nat, r <= s, HandInv(off, r), StreamInv(off, r), Types,
         stream' = stream, handed' = handed,
         pc' # "lost" /\ hdr' # <<>> => pc # "lost" /\ hdr' = hdr
  PROVE  HandInv(off, s)'
<1>1. pc' # "lost" /\ hdr' # <<>> => \A i \in 1 .. Len(handed) : handed[i].msg < Cur'
  BY DEF HandInv, Cur
<1> QED  BY <1>1, HandKept

\* The buffer holds bytes, whatever is put into it.
LEMMA BufBytes ==
  ASSUME buf \in Seq(Byte), buf' = [i \in DOMAIN buf |-> buf'[i]],
         \A i \in DOMAIN buf : buf'[i] \in Byte
  PROVE  buf' \in Seq(Byte)
<1>1. PICK n \in Nat : n = Len(buf) /\ DOMAIN buf = 1 .. n
  BY LenProperties
<1>2. buf' \in [1 .. n -> Byte]
  BY <1>1
<1> QED  BY <1>1, <1>2, SeqDef

-----------------------------------------------------------------------------
(* The other channels, and messages that are not read.                      *)

\* Another channel has counted an event: the reader is where it was.
LEMMA OtherInvalidInv ==
  ASSUME NEW off, NEW r \in Nat, Inv(off, r), OtherInvalid
  PROVE  Inv(off, r)'
<1>0. /\ stream' = stream /\ arrived' = arrived /\ sock' = sock /\ msg_state' = msg_state
      /\ hdr' = hdr /\ msg_len_read' = msg_len_read /\ buf' = buf /\ length1' = length1
      /\ event' = event /\ todo' = todo /\ open' = open /\ pc' = pc
      /\ handed' = handed /\ missed' = missed /\ misled' = misled
  BY DEF OtherInvalid, source, reader
<1>1. Types'
  <2>1. invalid' \in 0 .. WaitLimit
    BY Constants DEF OtherInvalid, Inv, Types, TypeOK
  <2> QED  BY <1>0, <2>1 DEF Inv, Types, TypeOK
<1>2. StreamInv(off, r)'
  BY <1>0, StreamStays DEF Inv, source
<1>3. HdrInv' = HdrInv /\ Filled(HdrLen)' = Filled(HdrLen) /\ Filled(length1)' = Filled(length1)
      /\ Filled(CurLen)' = Filled(CurLen) /\ Short' = Short
  BY <1>0 DEF HdrInv, Cur, CurLen, Streamed, Filled, Short, Body
<1>4. PlaceInv(off, r)'
  BY <1>0, <1>3 DEF Inv, PlaceInv, AtNew, AtHeader, AtStart, AtBody, AtWait, AtComplete, AtDrain, AtStuck,
                    Cur, CurLen, Body
<1>5. ~misled' => BufInv'
  BY <1>0, <1>3 DEF Inv, BufInv
<1>6. ~misled' => HandInv(off, r)'
  BY <1>0, HandStays DEF Inv
<1> QED  BY <1>1, <1>2, <1>4, <1>5, <1>6 DEF Inv

\* A message without header handled again: the place stays, or the channel ends.
LEMMA ReadInvalidInv ==
  ASSUME NEW off, NEW r \in Nat, Inv(off, r), ReadInvalid
  PROVE  Inv(off, r)'
<1>0. /\ stream' = stream /\ arrived' = arrived /\ sock' = sock /\ msg_state' = msg_state
      /\ hdr' = hdr /\ msg_len_read' = msg_len_read /\ buf' = buf /\ length1' = length1
      /\ event' = "read" /\ todo' = todo
      /\ handed' = handed /\ missed' = missed /\ misled' = misled
      /\ pc = "epoll" /\ msg_state \in {"start", "drain"} /\ pc' \in {"epoll", "process"}
  BY DEF ReadInvalid, source, Polled
<1>1. /\ HdrInv
      /\ \/ msg_state = "start" /\ AtStart(off, r)
         \/ msg_state = "drain" /\ AtStuck /\ pc' = pc
  <2>1. msg_state = "drain" => pc' = pc
    BY <1>0 DEF ReadInvalid
  <2> QED  BY <1>0, <2>1, Places DEF Inv
<1>2. Types'
  <2>1. invalid' \in 0 .. WaitLimit /\ open' \in BOOLEAN
    BY Constants DEF ReadInvalid, CountInvalid, Inv, Types, TypeOK
  <2> QED  BY <1>0, <2>1 DEF Inv, Types, TypeOK
<1>3. StreamInv(off, r)'
  BY <1>0, StreamStays DEF Inv, source
<1>4. HdrInv'
  BY <1>0, <1>1 DEF HdrInv, Cur, Streamed
<1>5. PlaceInv(off, r)'
  BY <1>0, <1>4, <1>1 DEF PlaceInv, AtStart, AtStuck, Cur
<1>6. BufInv'
  BY <1>0, <1>1 DEF BufInv
<1>7. ~misled' => HandInv(off, r)'
  BY <1>0, HandStays DEF Inv
<1> QED  BY <1>2, <1>3, <1>5, <1>6, <1>7 DEF Inv

\* The wait that is not counted goes on, or the channel ends.
LEMMA WaitInvalidInv ==
  ASSUME NEW off, NEW r \in Nat, Inv(off, r), WaitInvalid
  PROVE  Inv(off, r)'
<1>0. /\ stream' = stream /\ arrived' = arrived /\ sock' = sock /\ msg_state' = msg_state
      /\ hdr' = hdr /\ msg_len_read' = msg_len_read /\ buf' = buf /\ length1' = length1
      /\ event' = "read" /\ todo' = todo /\ pc' = pc
      /\ handed' = handed /\ missed' = missed /\ misled' = misled
      /\ pc = "epoll" /\ msg_state = "wait"
  BY DEF WaitInvalid, source, Polled
<1>1. HdrInv /\ AtWait(off, r)
  BY <1>0, Places DEF Inv
<1>2. Types'
  <2>1. invalid' \in 0 .. WaitLimit /\ open' \in BOOLEAN
    BY Constants DEF WaitInvalid, CountInvalid, Inv, Types, TypeOK
  <2> QED  BY <1>0, <2>1 DEF Inv, Types, TypeOK
<1>3. StreamInv(off, r)'
  BY <1>0, StreamStays DEF Inv, source
<1>4. HdrInv' /\ Filled(length1)' = Filled(length1) /\ Short' = Short
  BY <1>0, <1>1 DEF HdrInv, Cur, CurLen, Streamed, Filled, Short, Body
<1>5. PlaceInv(off, r)'
  BY <1>0, <1>4, <1>1 DEF PlaceInv, AtWait, Cur, CurLen
<1>6. ~misled' => BufInv'
  BY <1>0, <1>4 DEF Inv, BufInv
<1>7. ~misled' => HandInv(off, r)'
  BY <1>0, HandStays DEF Inv
<1> QED  BY <1>2, <1>3, <1>5, <1>6, <1>7 DEF Inv

\* After a reset no header is read.
LEMMA EmptyHdr ==
  /\ <<>> \in Seq(Byte) /\ NoBuf \in Seq(Byte) /\ Len(<<>>) = 0 /\ Len(<<>>) <= HdrLen
  /\ \A h \in Seq(Byte) : (h # <<>> <=> Len(h) > 0) /\ Len(h) \in Nat
<1>1. <<>> \in Seq(Byte) /\ NoBuf \in Seq(Byte) /\ Len(<<>>) = 0
  BY EmptySeq DEF NoBuf
<1>2. \A h \in Seq(Byte) : (h # <<>> <=> Len(h) > 0) /\ Len(h) \in Nat
  BY EmptySeq, LenProperties
<1> QED  BY <1>1, <1>2, Constants

\* A type without handler is left where it is; an unknown one of no body is passed.
LEMMA ProcessNoneInv ==
  ASSUME NEW off, NEW r \in Nat, Inv(off, r), ProcessNone
  PROVE  Inv(off, r)'
<1>0. /\ stream' = stream /\ arrived' = arrived /\ sock' = sock
      /\ msg_len_read' = msg_len_read /\ length1' = length1
      /\ event' = event /\ todo' = todo /\ invalid' = invalid /\ open' = open
      /\ handed' = handed /\ misled' = misled
      /\ pc = "process" /\ msg_state = "start" /\ pc' = "epoll"
  BY DEF ProcessNone, source
<1>1. HdrInv /\ AtStart(off, r)
  BY <1>0, Places DEF Inv
<1>2. hdr # <<>>
  BY <1>1, Constants, EmptySeq DEF AtStart
<1>3. \/ Kind = "none" /\ msg_state' = msg_state /\ hdr' = hdr /\ buf' = buf
      \/ Kind = "unknown" /\ msg_state' = "new" /\ hdr' = <<>> /\ buf' = NoBuf
  BY DEF ProcessNone, Reset
<1>4. missed' = (missed \/ (Kind = "unknown" /\ Body > 0))
  BY DEF ProcessNone
<1>5. Types'
  <2>1. hdr' \in Seq(Byte) /\ Len(hdr') <= HdrLen
    <3>1. hdr \in Seq(Byte) /\ Len(hdr) <= HdrLen
      BY DEF Inv, Types, TypeOK
    <3> QED  BY <1>3, <3>1, EmptyHdr
  <2>2. missed' \in BOOLEAN
    BY <1>4
  <2>3. msg_state' \in {"new", "start"}
    BY <1>0, <1>3
  <2>4. buf' \in Seq(Byte)
    BY <1>3, EmptyHdr DEF Inv, Types
  <2> QED  BY <1>0, <2>1, <2>2, <2>3, <2>4 DEF Inv, Types, TypeOK
<1>6. StreamInv(off, r)'
  BY <1>0, StreamStays DEF Inv, source
<1>7. HdrInv'
  BY <1>0, <1>1, <1>3 DEF HdrInv, Cur, Streamed
<1>8. PlaceInv(off, r)'
  <2>1. CASE Kind = "none"
    BY <1>0, <1>7, <1>1, <1>3, <2>1 DEF PlaceInv, AtStart, Cur
  <2>2. CASE Kind = "unknown"
    <3>1. /\ Cur + 1 \in 1 .. (Len(stream) + 1) /\ off[Cur + 1] = off[Cur] + CurLen
          /\ Body \in Nat /\ Body = CurLen - HdrLen /\ CurLen \in Nat
      BY <1>1, <1>2, CurFacts DEF Inv
    <3>2. ~missed' => ~(Body > 0)
      BY <1>4, <2>2
    <3>3. ~missed' => Body = 0
      BY <3>1, <3>2
    <3>4. ~missed' => r = off[Cur + 1]
      BY <1>1, <3>1, <3>3, Constants DEF AtStart
    <3>5. AtNew(off, r)'
      BY <1>0, <1>3, <2>2, <3>1, <3>4 DEF AtNew
    <3> QED  BY <1>7, <3>5 DEF PlaceInv
  <2> QED  BY <1>3, <2>1, <2>2
<1>9. BufInv'
  BY <1>0, <1>3 DEF BufInv
<1>10. ~misled' => HandInv(off, r)'
  BY <1>0, <1>3, HandStays DEF Inv
<1> QED  BY <1>5, <1>6, <1>8, <1>9, <1>10 DEF Inv

-----------------------------------------------------------------------------
(* A message is taken up.                                                   *)

\* The buffer holds the header.
LEMMA ProcessAllocInv ==
  ASSUME NEW off, NEW r \in Nat, Inv(off, r), ProcessAlloc
  PROVE  Inv(off, r)'
<1>0. /\ stream' = stream /\ arrived' = arrived /\ sock' = sock /\ hdr' = hdr
      /\ msg_len_read' = msg_len_read /\ length1' = HdrLen
      /\ event' = event /\ todo' = todo /\ invalid' = invalid /\ open' = open
      /\ handed' = handed /\ missed' = missed /\ misled' = misled
      /\ pc = "process" /\ msg_state = "start"
      /\ buf' = [i \in 1 .. CurLen |-> IF i <= HdrLen THEN hdr[i] ELSE NoByte]
  BY DEF ProcessAlloc, source
<1>1. HdrInv /\ AtStart(off, r)
  BY <1>0, Places DEF Inv
<1>2. hdr # <<>>
  BY <1>1, Constants, EmptyHdr DEF AtStart
<1>3. \/ Body = 0 /\ msg_state' = "complete" /\ pc' = "process"
      \/ Body # 0 /\ msg_state' \in {"start", "wait"} /\ pc' = "body"
  BY <1>0 DEF ProcessAlloc
<1>4. /\ Body \in Nat /\ CurLen \in Nat /\ HdrLen <= CurLen /\ Body = CurLen - HdrLen
      /\ Cur' = Cur /\ CurLen' = CurLen /\ Body' = Body
  BY <1>0, <1>1, <1>2, CurFacts DEF Inv, Cur, CurLen, Body
<1>5. Types'
  <2>1. length1' \in Nat
    BY <1>0, Constants
  <2>3. buf' \in Seq(Byte)
    <3>1. ASSUME NEW i \in 1 .. CurLen  PROVE (IF i <= HdrLen THEN hdr[i] ELSE NoByte) \in Byte
      <4>1. hdr \in Seq(Byte) /\ Len(hdr) = HdrLen
        BY <1>1 DEF Inv, Types, AtStart
      <4>2. i <= HdrLen => hdr[i] \in Byte
        BY <1>4, <4>1, ElementOfSeq, Constants
      <4>3. NoByte \in Byte
        BY DEF NoByte, Byte
      <4> QED  BY <4>2, <4>3
    <3>2. buf' \in [1 .. CurLen -> Byte]
      BY <1>0, <3>1
    <3> QED  BY <1>4, <3>2, SeqDef
  <2>2. /\ msg_state' \in {"new", "header", "start", "wait", "complete", "drain"}
        /\ pc' \in {"epoll", "process", "body", "drain", "lost"}
    BY <1>3
  <2> QED  BY <1>0, <2>1, <2>2, <2>3 DEF Inv, Types, TypeOK
<1>6. StreamInv(off, r)'
  BY <1>0, StreamStays DEF Inv, source
<1>7. HdrInv'
  BY <1>0, <1>1 DEF HdrInv, Cur, Streamed
<1>8. PlaceInv(off, r)'
  <2>1. CASE Body = 0
    <3>1. CurLen = HdrLen
      BY <1>4, <2>1, Constants
    <3>2. AtComplete(off, r)'
      BY <1>0, <1>1, <1>3, <1>4, <2>1, <3>1 DEF AtStart, AtComplete
    <3> QED  BY <1>7, <3>2 DEF PlaceInv
  <2>2. CASE Body # 0
    <3>1. Body > 0
      BY <1>4, <2>2
    <3>2. AtBody(off, r)'
      BY <1>0, <1>1, <1>3, <1>4, <2>2, <3>1 DEF AtStart, AtBody
    <3> QED  BY <1>7, <3>2 DEF PlaceInv
  <2> QED  BY <2>1, <2>2
<1>9. BufInv'
  <2>1. \A i \in 1 .. HdrLen : i \in 1 .. CurLen /\ hdr[i] = <<Cur, i>>
    <3>1. Len(hdr) = HdrLen
      BY <1>1 DEF AtStart
    <3> QED  BY <1>1, <1>4, <3>1, Constants DEF HdrInv
  <2>2. \A i \in 1 .. HdrLen : buf'[i] = <<Cur, i>>
    BY <1>0, <2>1, Constants
  <2>3. buf' = [i \in 1 .. CurLen |-> buf'[i]]
    BY <1>0
  <2>4. Filled(HdrLen)'
    BY <1>4, <2>2, <2>3 DEF Filled
  <2>5. pc' = "process" => HdrLen = CurLen'
    BY <1>3, <1>4, Constants
  <2>6. pc' = "process" => Filled(CurLen)'
    BY <2>4, <2>5 DEF Filled
  <2> QED  BY <1>3, <2>4, <2>6 DEF BufInv
<1>10. ~misled' => HandInv(off, r)'
  BY <1>0, <1>3, HandStays DEF Inv
<1> QED  BY <1>5, <1>6, <1>8, <1>9, <1>10 DEF Inv

\* No buffer or no transaction: the body is about to be drained.
LEMMA ProcessDiscardInv ==
  ASSUME NEW off, NEW r \in Nat, Inv(off, r), ProcessDiscard
  PROVE  Inv(off, r)'
<1>0. /\ stream' = stream /\ arrived' = arrived /\ sock' = sock /\ hdr' = hdr
      /\ msg_len_read' = msg_len_read /\ length1' = length1 /\ buf' = buf
      /\ event' = event /\ todo' = Body /\ invalid' = invalid /\ open' = open
      /\ handed' = handed /\ missed' = missed /\ misled' = misled
      /\ pc = "process" /\ msg_state = "start" /\ msg_state' = msg_state /\ pc' = "drain" /\ Body > 0
  BY DEF ProcessDiscard, DiscardLen, source
<1>1. HdrInv /\ AtStart(off, r)
  BY <1>0, Places DEF Inv
<1>2. hdr # <<>>
  BY <1>1, Constants, EmptyHdr DEF AtStart
<1>3. /\ Body \in Nat /\ CurLen \in Nat /\ HdrLen <= CurLen /\ Body = CurLen - HdrLen
      /\ Cur' = Cur /\ CurLen' = CurLen /\ Body' = Body /\ CurLen < Uint16 /\ off[Cur] \in Nat
  BY <1>0, <1>1, <1>2, CurFacts DEF Inv, Cur, CurLen, Body
<1>4. Types'
  <2>1. todo' \in 0 .. (Uint16 - 1)
    BY <1>0, <1>3, Constants
  <2> QED  BY <1>0, <2>1 DEF Inv, Types, TypeOK
<1>5. StreamInv(off, r)'
  BY <1>0, StreamStays DEF Inv, source
<1>6. HdrInv'
  BY <1>0, <1>1 DEF HdrInv, Cur, Streamed
<1>7. PlaceInv(off, r)'
  <2>1. r + Body = off[Cur] + CurLen
    <3>1. \A x, y, h, b \in Nat : b = y - h /\ h <= y => (x + h) + b = x + y
      OBVIOUS
    <3>2. r = off[Cur] + HdrLen
      BY <1>1 DEF AtStart
    <3> QED  BY <1>3, <3>1, <3>2, Constants
  <2>2. AtDrain(off, r)'
    BY <1>0, <1>1, <1>3, <2>1 DEF AtDrain, AtStart
  <2> QED  BY <1>6, <2>2 DEF PlaceInv
<1>8. BufInv'
  BY <1>0 DEF BufInv
<1>9. ~misled' => HandInv(off, r)'
  BY <1>0, HandStays DEF Inv
<1> QED  BY <1>4, <1>5, <1>7, <1>8, <1>9 DEF Inv

\* The message is complete, and the reader behind it.
LEMMA HandOverInv ==
  ASSUME NEW off, NEW r \in Nat, Inv(off, r), HandOver
  PROVE  Inv(off, r)'
<1>0. /\ stream' = stream /\ arrived' = arrived /\ sock' = sock /\ hdr' = <<>>
      /\ msg_len_read' = msg_len_read /\ length1' = length1 /\ buf' = NoBuf
      /\ event' = event /\ todo' = todo /\ invalid' = invalid /\ open' = open
      /\ handed' = Append(handed, [msg |-> Cur, data |-> buf]) /\ missed' = missed /\ misled' = misled
      /\ pc = "process" /\ msg_state = "complete" /\ msg_state' = "new" /\ pc' = "epoll"
  BY DEF HandOver, Reset, source
<1>1. HdrInv /\ AtComplete(off, r)
  BY <1>0, Places DEF Inv
<1>2. hdr # <<>>
  BY <1>1, Constants, EmptyHdr DEF AtComplete
<1>3. /\ Cur \in Streamed /\ Cur \in Nat /\ CurLen \in Nat
      /\ off[Cur + 1] = off[Cur] + CurLen /\ Cur + 1 \in 1 .. (Len(stream) + 1)
  BY <1>1, <1>2, CurFacts DEF Inv
<1>4. ~misled => r = off[Cur + 1]
  BY <1>1, <1>3 DEF AtComplete
<1>5. Types'
  <2> DEFINE M == [msg : Nat, data : Seq(Byte)]
             h == [msg |-> Cur, data |-> buf]
  <2>1. h \in M /\ handed \in Seq(M)
    BY <1>3 DEF Inv, Types
  <2> HIDE DEF M
  <2>2. Append(handed, h) \in Seq(M)
    BY <2>1, AppendProperties
  <2>3. handed' \in Seq([msg : Nat, data : Seq(Byte)])
    BY <1>0, <2>2 DEF M
  <2> QED  BY <1>0, <2>3, EmptyHdr DEF Inv, Types, TypeOK
<1>6. StreamInv(off, r)'
  BY <1>0, StreamStays DEF Inv, source
<1>7. HdrInv'
  BY <1>0, EmptyHdr DEF HdrInv
<1>8. PlaceInv(off, r)'
  <2>1. AtNew(off, r)'
    BY <1>0, <1>3, <1>4 DEF AtNew
  <2> QED  BY <1>7, <2>1 DEF PlaceInv
<1>9. BufInv'
  BY <1>0 DEF BufInv
<1>10. ASSUME ~misled'  PROVE HandInv(off, r)'
  <2> DEFINE M == [msg : Nat, data : Seq(Byte)]
             h == [msg |-> Cur, data |-> buf]
  <2>0. ~misled
    BY <1>0, <1>10
  <2>1. (Short => Filled(CurLen)) /\ HandInv(off, r)
    BY <1>0, <2>0 DEF Inv, BufInv
  <2>2. Short => buf = Message(Cur)
    BY <2>1 DEF Filled, Message, CurLen
  <2>3. Short <=> stream[Cur].len - HdrLen <= Byte8
    BY DEF Short, Body, CurLen
  <2>5. h \in M /\ handed \in Seq(M) /\ h.msg = Cur /\ h.data = buf
    BY <1>3 DEF Inv, Types
  <2> HIDE DEF M, h
  <2>6. handed' = Append(handed, h)
    BY <1>0 DEF h
  <2>7. /\ handed' \in Seq(M) /\ Len(handed') = Len(handed) + 1 /\ Len(handed) \in Nat
        /\ \A i \in 1 .. Len(handed) : handed'[i] = handed[i]
        /\ handed'[Len(handed) + 1] = h
    BY <2>5, <2>6, AppendProperties, LenProperties
  <2>8. \A i \in 1 .. Len(handed) : handed[i].msg < Cur
    BY <1>0, <1>2, <2>1 DEF HandInv
  <2>9. ASSUME NEW i \in 1 .. Len(handed')
        PROVE  /\ handed'[i].msg \in Streamed
               /\ stream[handed'[i].msg].len - HdrLen <= Byte8
                    => handed'[i].data = Message(handed'[i].msg)
               /\ off[handed'[i].msg + 1] <= r
               /\ \A j \in 1 .. (i - 1) : handed'[j].msg < handed'[i].msg
    <3>1. CASE i \in 1 .. Len(handed)
      <4>1. handed'[i] = handed[i] /\ \A j \in 1 .. (i - 1) : handed'[j] = handed[j]
        BY <2>7, <3>1
      <4> QED  BY <2>1, <3>1, <4>1 DEF HandInv
    <3>2. CASE i = Len(handed) + 1
      <4>1. \A j \in 1 .. (i - 1) : handed'[j] = handed[j] /\ j \in 1 .. Len(handed)
        BY <2>7, <3>2
      <4>2. handed'[i].msg = Cur /\ handed'[i].data = buf
        BY <2>5, <2>7, <3>2
      <4>3. \A j \in 1 .. (i - 1) : handed'[j].msg < handed'[i].msg
        BY <2>8, <4>1, <4>2
      <4>4. off[handed'[i].msg + 1] <= r
        <5>1. r = off[Cur + 1] /\ off[Cur + 1] \in Nat
          BY <1>3, <1>4, <2>0 DEF Inv, StreamInv
        <5> QED  BY <4>2, <5>1
      <4> QED  BY <1>3, <2>2, <2>3, <4>2, <4>3, <4>4
    <3> QED  BY <2>7, <3>1, <3>2
  <2>10. Streamed' = Streamed /\ stream' = stream
    BY <1>0 DEF Streamed
  <2>12. hdr' = <<>>
    BY <1>0
  <2> QED  BY <2>9, <2>10, <2>12 DEF HandInv, Message
<1> QED  BY <1>5, <1>6, <1>8, <1>9, <1>10 DEF Inv

-----------------------------------------------------------------------------
(* The body.                                                                *)

\* The bytes of a message are put behind those already there.
LEMMA FillMore ==
  ASSUME Types, NEW off, NEW r \in Nat, StreamInv(off, r), HdrInv, hdr # <<>>,
         NEW j \in Nat, NEW k \in Nat, k <= Len(sock), j + k <= CurLen,
         r = off[Cur] + j, Filled(j),
         buf' = [i \in DOMAIN buf |-> buf'[i]],
         \A i \in DOMAIN buf : buf'[i] = IF i - j \in 1 .. k THEN sock[i - j] ELSE buf[i]
  PROVE  /\ buf' = [i \in 1 .. CurLen |-> buf'[i]]
         /\ \A i \in 1 .. (j + k) : buf'[i] = <<Cur, i>>
<1>1. /\ Cur \in Streamed /\ CurLen \in Nat
  BY CurFacts
<1>2. DOMAIN buf = 1 .. CurLen /\ \A i \in 1 .. j : buf[i] = <<Cur, i>>
  BY DEF Filled
<1>3. ASSUME NEW i \in 1 .. (j + k)  PROVE buf'[i] = <<Cur, i>>
  <2>1. i \in 1 .. CurLen
    BY <1>1
  <2>2. buf'[i] = IF i - j \in 1 .. k THEN sock[i - j] ELSE buf[i]
    BY <1>2, <2>1
  <2>3. CASE i <= j
    <3>1. i \in 1 .. j /\ ~(i - j \in 1 .. k)
      BY <2>3
    <3> QED  BY <1>2, <2>2, <3>1
  <2>4. CASE j < i
    <3>1. PICK x \in Nat : x = i - j
      BY <2>4
    <3>2. x \in 1 .. k /\ j + x = i
      BY <2>4, <3>1
    <3>3. x \in 1 .. Len(sock) /\ j + x <= stream[Cur].len
      <4>1. Len(sock) \in Nat
        BY LenProperties DEF Types
      <4>2. j + x <= CurLen
        BY <2>1, <3>2
      <4> QED  BY <3>2, <4>1, <4>2 DEF CurLen
    <3>4. sock[x] = <<Cur, j + x>>
      BY <1>1, <3>3, NextBytes
    <3>5. buf'[i] = sock[x]
      BY <2>2, <3>1, <3>2
    <3>6. j + x = i
      BY <3>2
    <3> QED  BY <3>4, <3>5, <3>6, Zenon
  <2>5. i \in Nat
    OBVIOUS
  <2> QED  BY <2>3, <2>4, <2>5
<1>4. buf' = [i \in 1 .. CurLen |-> buf'[i]]
  BY <1>2
<1> QED  BY <1>3, <1>4

\* The first read of the body.
LEMMA ReadBodyInv ==
  ASSUME NEW off, NEW r \in Nat, Inv(off, r), ReadBody
  PROVE  \E s \in Nat : Inv(off, s)'
<1>0. /\ stream' = stream /\ arrived' = arrived /\ hdr' = hdr
      /\ event' = event /\ todo' = todo /\ invalid' = invalid /\ open' = open
      /\ handed' = handed /\ missed' = missed /\ misled' = misled
      /\ pc = "body" /\ sock # <<>>
  BY DEF ReadBody, source
<1>1. HdrInv /\ AtBody(off, r) /\ hdr # <<>>
  <2>1. HdrInv /\ AtBody(off, r)
    BY <1>0, Places DEF Inv
  <2> QED  BY <2>1, Constants, EmptyHdr DEF AtBody
<1>2. /\ Body \in Nat /\ CurLen \in Nat /\ HdrLen <= CurLen /\ Body = CurLen - HdrLen
      /\ Cur' = Cur /\ CurLen' = CurLen /\ Body' = Body /\ CurLen < Uint16 /\ off[Cur] \in Nat
      /\ CurLen \in Lens /\ HdrLen \in Nat /\ HdrLen > 0
  BY <1>0, <1>1, Constants, CurFacts DEF Inv, Cur, CurLen, Body
<1>3. PICK k \in Nat : /\ k = Len(Front(Body)) /\ k <= Body /\ k <= Len(sock) /\ k > 0
                       /\ (k = Body \/ k = Len(sock))
  <2>1. Body > 0 /\ sock # <<>>
    BY <1>0, <1>1 DEF AtBody
  <2>2. PICK k \in Nat : /\ k = Len(Front(Body)) /\ k <= Body /\ k <= Len(sock)
                         /\ (k = Body \/ k = Len(sock))
                         /\ sock # <<>> /\ Body > 0 => k > 0
    <3>1. Types
      BY DEF Inv
    <3> QED  BY <1>2, <3>1, ReadFacts
  <2> QED  BY <2>1, <2>2
<1>4. /\ sock' = Taken(Body)
      /\ buf' = [i \in DOMAIN buf |-> IF i - HdrLen \in 1 .. k THEN sock[i - HdrLen] ELSE buf[i]]
      /\ \/ /\ k = Body /\ msg_state' = "complete" /\ pc' = "process"
            /\ length1' = length1 /\ msg_len_read' = msg_len_read
         \/ /\ k # Body /\ msg_state' = "wait" /\ pc' = "epoll" /\ length1' = length1 + k
            /\ msg_len_read' = IF Kind = "async" THEN k % Byte8 ELSE msg_len_read
  BY <1>3 DEF ReadBody
<1>5. r + k \in Nat /\ StreamInv(off, r + k)' /\ sock' \in Seq(Byte)
  BY <1>0, <1>2, <1>3, <1>4, Consume DEF Inv, source
<1>6. r = off[Cur] + HdrLen /\ length1 = HdrLen /\ msg_len_read = 0 /\ Len(hdr) = HdrLen
  BY <1>1 DEF AtBody
<1>7. HdrLen + k <= CurLen /\ (k # Body => HdrLen + k < CurLen) /\ (k = Body => HdrLen + k = CurLen)
      /\ HdrLen < HdrLen + k /\ HdrLen + k \in Nat /\ (HdrLen + k) - HdrLen = k
  BY <1>2, <1>3
<1>8. msg_len_read' \in 0 .. (Byte8 - 1)
  <2>1. \A x, b \in Nat : b > 0 => x % b \in 0 .. (b - 1)
    OBVIOUS
  <2>2. k % Byte8 \in 0 .. (Byte8 - 1) /\ 0 \in 0 .. (Byte8 - 1)
    BY <2>1, Constants
  <2> QED  BY <1>4, <1>6, <2>2
<1>9. Types'
  <2>1. length1' = HdrLen \/ length1' = HdrLen + k
    BY <1>4, <1>6
  <2>2. length1' \in Nat
    BY <1>2, <1>7, <2>1, Constants
  <2>3. buf' \in Seq(Byte)
    <3>1. ASSUME NEW i \in DOMAIN buf
          PROVE  (IF i - HdrLen \in 1 .. k THEN sock[i - HdrLen] ELSE buf[i]) \in Byte
      <4>1. sock \in Seq(Byte) /\ buf \in Seq(Byte)
        BY DEF Inv, Types
      <4>2. buf[i] \in Byte
        BY <4>1, LenProperties, ElementOfSeq
      <4>3. Len(sock) \in Nat
        BY <4>1, LenProperties
      <4>4. \A x \in 1 .. k : x \in 1 .. Len(sock)
        BY <1>3, <4>3
      <4>5. \A x \in 1 .. k : sock[x] \in Byte
        BY <4>1, <4>4, ElementOfSeq
      <4> QED  BY <4>2, <4>5
    <3>2. buf' = [i \in DOMAIN buf |-> buf'[i]] /\ \A i \in DOMAIN buf : buf'[i] \in Byte
      BY <1>4, <3>1
    <3> QED  BY <3>2, BufBytes DEF Inv, Types
  <2> QED  BY <1>0, <1>4, <1>5, <1>8, <2>2, <2>3 DEF Inv, Types, TypeOK
<1>10. HdrInv'
  BY <1>0, <1>1 DEF HdrInv, Cur, Streamed
<1>11. PlaceInv(off, r + k)'
  <2>0. r + k = off[Cur] + (HdrLen + k)
    <3>1. \A x, y, z \in Nat : (x + y) + z = x + (y + z)
      OBVIOUS
    <3> QED  BY <1>2, <1>6, <3>1
  <2>1. CASE k = Body
    <3>1. AtComplete(off, r + k)'
      BY <1>0, <1>2, <1>4, <1>6, <1>7, <2>0, <2>1 DEF AtComplete
    <3> QED  BY <1>10, <3>1 DEF PlaceInv
  <2>2. CASE k # Body
    <3>1. length1' = HdrLen + k
      BY <1>4, <1>6, <2>2
    <3>2. AtWait(off, r + k)'
      BY <1>0, <1>2, <1>4, <1>6, <1>7, <2>0, <2>2, <3>1 DEF AtWait
    <3> QED  BY <1>10, <3>2 DEF PlaceInv
  <2> QED  BY <2>1, <2>2
<1>12. ASSUME ~misled'  PROVE BufInv'
  <2>0. Short' = Short
    BY <1>2 DEF Short
  <2>1. Filled(HdrLen)
    BY <1>0, <1>12 DEF Inv, BufInv
  <2>2. /\ buf' = [i \in 1 .. CurLen |-> buf'[i]]
        /\ \A i \in 1 .. (HdrLen + k) : buf'[i] = <<Cur, i>>
    <3>1. Types /\ StreamInv(off, r)
      BY DEF Inv
    <3>2. k <= Len(sock) /\ HdrLen + k <= CurLen /\ HdrLen \in Nat
      BY <1>2, <1>3, <1>7
    <3>3. buf' = [i \in DOMAIN buf |-> IF i - HdrLen \in 1 .. k THEN sock[i - HdrLen] ELSE buf[i]]
      BY <1>4
    <3>4. /\ buf' = [i \in DOMAIN buf |-> buf'[i]]
          /\ \A i \in DOMAIN buf :
               buf'[i] = IF i - HdrLen \in 1 .. k THEN sock[i - HdrLen] ELSE buf[i]
      BY <3>3
    <3>5. r = off[Cur] + HdrLen /\ HdrInv /\ hdr # <<>>
      BY <1>1, <1>6
    <3> QED  BY <2>1, <3>1, <3>2, <3>4, <3>5, FillMore
  <2>3. CASE k = Body
    <3>1. Filled(CurLen)'
      BY <1>2, <1>7, <2>2, <2>3 DEF Filled
    <3> QED  BY <1>4, <2>3, <3>1 DEF BufInv
  <2>4. CASE k # Body
    <3>1. length1' = HdrLen + k
      BY <1>4, <1>6, <2>4
    <3>2. Filled(length1)'
      BY <1>2, <2>2, <3>1 DEF Filled
    <3>3. Short => k < Byte8
      <4>0. SUFFICES ASSUME Short  PROVE k < Byte8
        OBVIOUS
      <4>1. CurLen <= HdrLen + Byte8
        BY <1>2, <4>0, Constants DEF Short
      <4>2. HdrLen + k < CurLen
        BY <1>7, <2>4
      <4> QED  BY <1>2, <4>1, <4>2, Constants
    <3>4. Short => k % Byte8 = k
      <4>1. \A x, b \in Nat : x < b => x % b = x
        OBVIOUS
      <4> QED  BY <3>3, <4>1, Constants
    <3>5. Short => msg_len_read' = 0 \/ msg_len_read' = length1' - HdrLen
      BY <1>4, <1>6, <1>7, <2>4, <3>1, <3>4
    <3> QED  BY <1>4, <2>0, <2>4, <3>2, <3>5 DEF BufInv
  <2> QED  BY <2>3, <2>4
<1>13. ~misled' => HandInv(off, r + k)'
  <2>1. r <= r + k
    OBVIOUS
  <2> QED  BY <1>0, <1>5, <2>1, HandStays DEF Inv
<1>14. Inv(off, r + k)'
  BY <1>9, <1>11, <1>12, <1>13, <1>5 DEF Inv
<1> QED  BY <1>14, <1>5

\* A resumed read: it asks for what is missing, and puts it behind what is there.
LEMMA ReadRestInv ==
  ASSUME NEW off, NEW r \in Nat, Inv(off, r), ReadRest
  PROVE  \E s \in Nat : Inv(off, s)'
<1>0. /\ stream' = stream /\ arrived' = arrived /\ hdr' = hdr
      /\ event' = "read" /\ todo' = todo /\ invalid' = invalid /\ open' = open
      /\ handed' = handed /\ missed' = missed /\ misled' = (misled \/ HostLen # CurLen)
      /\ pc = "epoll" /\ msg_state = "wait" /\ sock # <<>> /\ msg_len_read # 0
  BY DEF ReadRest, Polled, Misled, source
<1>1. HdrInv /\ AtWait(off, r) /\ hdr # <<>>
  <2>1. HdrInv /\ AtWait(off, r)
    BY <1>0, Places DEF Inv
  <2> QED  BY <2>1, Constants, EmptyHdr DEF AtWait
<1>2. /\ CurLen \in Nat /\ HdrLen <= CurLen /\ HostLen \in Nat
      /\ Cur' = Cur /\ CurLen' = CurLen /\ CurLen < Uint16 /\ off[Cur] \in Nat
      /\ CurLen \in Lens /\ HdrLen \in Nat /\ HdrLen > 0
  BY <1>0, <1>1, Constants, CurFacts DEF Inv, Cur, CurLen
<1>3. length1 \in Nat /\ msg_len_read \in Nat /\ Len(hdr) = HdrLen
  <2>1. length1 \in Nat /\ msg_len_read \in Nat
    BY Constants DEF Inv, Types, TypeOK
  <2> QED  BY <1>1, <2>1 DEF AtWait
<1>4. PICK n \in Nat : n = Sub16(HostLen, length1)
  BY <1>2, <1>3, SubRange
<1>5. ~misled' => /\ ~misled /\ HostLen = CurLen
                  /\ r = off[Cur] + length1 /\ HdrLen < length1 /\ length1 < CurLen
                  /\ n > 0 /\ length1 + n = CurLen
  <2> SUFFICES ASSUME ~misled'
               PROVE  /\ ~misled /\ HostLen = CurLen
                      /\ r = off[Cur] + length1 /\ HdrLen < length1 /\ length1 < CurLen
                      /\ n > 0 /\ length1 + n = CurLen
    OBVIOUS
  <2>1. ~misled /\ HostLen = CurLen
    BY <1>0
  <2>2. r = off[Cur] + length1 /\ HdrLen < length1 /\ length1 < CurLen
    BY <1>1, <2>1 DEF AtWait
  <2>3. Sub16(HostLen, length1) = CurLen - length1
    BY <1>2, <1>3, <2>1, <2>2, SubExact
  <2> QED  BY <1>2, <1>3, <1>4, <2>1, <2>2, <2>3
<1>6. PICK k \in Nat : /\ k = Len(Front(n)) /\ k <= n /\ k <= Len(sock) /\ (n > 0 => k > 0)
                       /\ (k = n \/ k = Len(sock))
                       /\ Front(n) \in Seq(Byte) /\ \A i \in 1 .. k : Front(n)[i] = sock[i]
  <2>1. Types
    BY DEF Inv
  <2> QED  BY <1>0, <2>1, ReadFacts
<1>7. /\ sock' = Taken(n) /\ buf' = Stored(Front(n))
      /\ \/ /\ k = n /\ msg_state' = "complete" /\ pc' = "process"
            /\ length1' = length1 /\ msg_len_read' = msg_len_read
         \/ /\ k # n \/ misled'
            /\ msg_state' = "wait" /\ pc' = "epoll" /\ length1' = length1 + k
            /\ msg_len_read' = (msg_len_read + k) % Byte8
  <2>1. ~misled' => length1 <= HostLen
    BY <1>2, <1>3, <1>5
  <2>2. /\ sock' = Taken(n) /\ buf' = Stored(Front(n))
        /\ IF k = n /\ length1 <= HostLen
           THEN /\ msg_state' = "complete" /\ pc' = "process"
                /\ length1' = length1 /\ msg_len_read' = msg_len_read
           ELSE /\ length1' = length1 + k
                /\ msg_len_read' = (msg_len_read + k) % Byte8
                /\ msg_state' = msg_state /\ pc' = pc
    BY <1>6, <1>4 DEF ReadRest
  <2> QED  BY <1>0, <2>1, <2>2
<1>8. r + k \in Nat /\ StreamInv(off, r + k)' /\ sock' \in Seq(Byte)
  BY <1>0, <1>6, <1>7, Consume DEF Inv, source
<1>9. /\ length1 + k \in Nat
      /\ ~misled' => /\ length1 + k <= CurLen /\ (k # n => length1 + k < CurLen)
                     /\ (k = n => length1 + k = CurLen) /\ HdrLen < length1 + k
  BY <1>2, <1>6, <1>3, <1>5
<1>10. msg_len_read' \in 0 .. (Byte8 - 1)
  <2>1. \A x, b \in Nat : b > 0 => x % b \in 0 .. (b - 1)
    OBVIOUS
  <2>2. (msg_len_read + k) % Byte8 \in 0 .. (Byte8 - 1)
    BY <1>3, <2>1, Constants
  <2>3. msg_len_read \in 0 .. (Byte8 - 1)
    BY DEF Inv, Types, TypeOK
  <2> QED  BY <1>7, <2>2, <2>3
<1>11. Types'
  <2>1. length1' \in Nat /\ misled' \in BOOLEAN
    BY <1>0, <1>3, <1>7, <1>9
  <2>2. buf' \in Seq(Byte)
    <3>1. buf \in Seq(Byte)
      BY DEF Inv, Types
    <3>2. \A i \in DOMAIN buf : buf[i] \in Byte
      BY <3>1, LenProperties, ElementOfSeq
    <3>3. \A i \in DOMAIN Front(n) : Front(n)[i] \in Byte
      BY <1>6, LenProperties, ElementOfSeq
    <3>4. buf' = [i \in DOMAIN buf |-> buf'[i]] /\ \A i \in DOMAIN buf : buf'[i] \in Byte
      BY <1>7, <3>2, <3>3 DEF Stored
    <3> QED  BY <3>1, <3>4, BufBytes
  <2> QED  BY <1>0, <1>7, <1>8, <1>10, <2>1, <2>2 DEF Inv, Types, TypeOK
<1>12. HdrInv'
  BY <1>0, <1>1 DEF HdrInv, Cur, Streamed
<1>13. PlaceInv(off, r + k)'
  <2>0. ~misled' => r + k = off[Cur] + (length1 + k)
    <3>1. \A x, y, z \in Nat : (x + y) + z = x + (y + z)
      OBVIOUS
    <3> QED  BY <1>2, <1>3, <1>5, <3>1
  <2>1. CASE msg_state' = "complete"
    <3>1. k = n /\ pc' = "process"
      BY <1>7, <2>1
    <3>2. AtComplete(off, r + k)'
      BY <1>0, <1>2, <1>3, <1>9, <2>0, <2>1, <3>1 DEF AtComplete
    <3> QED  BY <1>12, <3>2 DEF PlaceInv
  <2>2. CASE msg_state' = "wait"
    <3>1. length1' = length1 + k /\ pc' = "epoll" /\ (~misled' => k # n)
      BY <1>7, <2>2
    <3>2. AtWait(off, r + k)'
      BY <1>0, <1>2, <1>3, <1>9, <2>0, <2>2, <3>1 DEF AtWait
    <3> QED  BY <1>12, <3>2 DEF PlaceInv
  <2> QED  BY <1>7, <2>1, <2>2
<1>14. ASSUME ~misled'  PROVE BufInv'
  <2>0. Short' = Short
    BY <1>2 DEF Short, Body
  <2> SUFFICES ASSUME Short  PROVE BufInv'
    BY <1>7, <2>0 DEF BufInv
  <2>5. ~misled
    BY <1>5, <1>14
  <2>1. Filled(length1) /\ msg_len_read = length1 - HdrLen
    BY <1>0, <2>5 DEF Inv, BufInv
  <2>2. /\ buf' = [i \in 1 .. CurLen |-> buf'[i]]
        /\ \A i \in 1 .. (length1 + k) : buf'[i] = <<Cur, i>>
    <3>1. Types /\ StreamInv(off, r)
      BY DEF Inv
    <3>2. DOMAIN Front(n) = 1 .. k
      BY <1>6, LenProperties
    <3>3. \A i \in Nat : i - HdrLen - msg_len_read = i - length1
      BY <1>2, <1>3, <1>5, <1>14, <2>1
    <3>4. DOMAIN buf = 1 .. CurLen
      BY <2>1 DEF Filled
    <3>5. /\ buf' = [i \in DOMAIN buf |-> buf'[i]]
          /\ \A i \in DOMAIN buf :
               buf'[i] = IF i - HdrLen - msg_len_read \in 1 .. k
                         THEN Front(n)[i - HdrLen - msg_len_read] ELSE buf[i]
      BY <1>7, <3>2 DEF Stored
    <3>6. \A i \in DOMAIN buf : i \in Nat
      BY <1>2, <3>4
    <3>7. /\ buf' = [i \in DOMAIN buf |-> buf'[i]]
          /\ \A i \in DOMAIN buf :
               buf'[i] = IF i - length1 \in 1 .. k THEN sock[i - length1] ELSE buf[i]
      BY <1>6, <3>3, <3>5, <3>6
    <3>8. HdrInv /\ hdr # <<>>
      BY <1>1
    <3>9. PICK j \in Nat : j = length1
      BY <1>3
    <3>10. /\ r = off[Cur] + j /\ Filled(j) /\ k <= Len(sock) /\ j + k <= CurLen
           /\ \A i \in DOMAIN buf : buf'[i] = IF i - j \in 1 .. k THEN sock[i - j] ELSE buf[i]
      BY <1>5, <1>6, <1>3, <1>9, <1>14, <2>1, <3>7, <3>9
    <3>11. /\ buf' = [i \in 1 .. CurLen |-> buf'[i]]
           /\ \A i \in 1 .. (j + k) : buf'[i] = <<Cur, i>>
      BY <3>1, <3>7, <3>8, <3>10, FillMore, SMTT(30)
    <3> QED  BY <3>9, <3>11
  <2>3. CASE k = n
    <3>1. Filled(CurLen)'
      BY <1>2, <1>9, <1>14, <2>2, <2>3 DEF Filled
    <3> QED  BY <1>7, <1>14, <2>3, <3>1 DEF BufInv
  <2>4. CASE k # n
    <3>1. length1' = length1 + k
      BY <1>7, <2>4
    <3>2. Filled(length1)'
      BY <1>2, <2>2, <3>1 DEF Filled
    <3>3. msg_len_read + k = (length1 + k) - HdrLen /\ msg_len_read + k < Byte8
      <4>1. CurLen <= HdrLen + Byte8
        BY <1>2, Constants DEF Short, Body
      <4>2. length1 + k < CurLen
        BY <1>9, <1>14, <2>4
      <4> QED  BY <1>2, <1>3, <2>1, <4>1, <4>2, Constants
    <3>4. (msg_len_read + k) % Byte8 = msg_len_read + k
      <4>1. \A x, b \in Nat : x < b => x % b = x
        OBVIOUS
      <4>2. msg_len_read + k \in Nat
        BY <1>3
      <4> QED  BY <3>3, <4>1, <4>2, Constants
    <3>5. msg_len_read' = length1' - HdrLen
      BY <1>7, <2>4, <3>1, <3>3, <3>4
    <3> QED  BY <1>7, <2>4, <3>2, <3>5 DEF BufInv
  <2> QED  BY <2>3, <2>4
<1>15. ~misled' => HandInv(off, r + k)'
  <2>1. r <= r + k
    OBVIOUS
  <2>2. ~misled' => ~misled
    BY <1>5
  <2> QED  BY <1>0, <1>7, <1>8, <2>1, <2>2, HandStays DEF Inv
<1>16. Inv(off, r + k)'
  BY <1>11, <1>13, <1>14, <1>15, <1>8 DEF Inv
<1> QED  BY <1>16, <1>8

-----------------------------------------------------------------------------
(* Draining.                                                                *)

\* The body is not there: the read error handler drains it.
LEMMA ReadBodyEmptyInv ==
  ASSUME NEW off, NEW r \in Nat, Inv(off, r), ReadBodyEmpty
  PROVE  Inv(off, r)'
<1>0. /\ stream' = stream /\ arrived' = arrived /\ sock' = sock /\ hdr' = hdr
      /\ msg_len_read' = msg_len_read /\ length1' = length1 /\ buf' = NoBuf
      /\ event' = "fail" /\ todo' = Sub16(HostLen, HdrLen) /\ invalid' = invalid /\ open' = open
      /\ handed' = handed /\ missed' = TRUE /\ misled' = (misled \/ HostLen # CurLen)
      /\ pc = "body" /\ msg_state' = "drain" /\ pc' = IF todo' = 0 THEN "epoll" ELSE "drain"
  BY DEF ReadBodyEmpty, Misled, source
<1>1. HdrInv /\ AtBody(off, r) /\ hdr # <<>>
  <2>1. HdrInv /\ AtBody(off, r)
    BY <1>0, Places DEF Inv
  <2> QED  BY <2>1, Constants, EmptyHdr DEF AtBody
<1>2. /\ CurLen \in Nat /\ HdrLen <= CurLen /\ HostLen \in Nat /\ Body = CurLen - HdrLen
      /\ Body' = Body /\ CurLen < Uint16 /\ HdrLen \in Nat /\ Body \in Nat
  BY <1>0, <1>1, Constants, CurFacts DEF Inv, Cur, CurLen, Body
<1>3. /\ todo' \in 0 .. (Uint16 - 1) /\ Body > 0 /\ misled' \in BOOLEAN
      /\ ~misled' => todo' > 0 /\ ~misled
  <2>1. todo' \in 0 .. (Uint16 - 1) /\ misled' \in BOOLEAN
    BY <1>0, <1>2, SubRange
  <2>2. Body > 0
    BY <1>1 DEF AtBody
  <2>3. HostLen = CurLen => todo' = Body
    BY <1>0, <1>2, SubExact
  <2>4. ~misled' => HostLen = CurLen /\ ~misled
    BY <1>0
  <2> QED  BY <2>1, <2>2, <2>3, <2>4
<1>4. pc' \in {"epoll", "drain"}
  BY <1>0
<1>5. Types'
  <2>1. buf' \in Seq(Byte)
    BY <1>0, EmptyHdr
  <2> QED  BY <1>0, <1>3, <1>4, <2>1 DEF Inv, Types, TypeOK
<1>6. StreamInv(off, r)'
  BY <1>0, StreamStays DEF Inv, source
<1>7. HdrInv'
  BY <1>0, <1>1 DEF HdrInv, Cur, Streamed
<1>8. PlaceInv(off, r)'
  <2>1. pc' = "drain" => AtDrain(off, r)'
    BY <1>0, <1>1, <1>2, <1>3, <1>4 DEF AtDrain, AtBody
  <2>2. pc' = "epoll" => AtStuck'
    BY <1>0, <1>1, <1>3 DEF AtStuck, AtBody
  <2> QED  BY <1>4, <1>7, <2>1, <2>2 DEF PlaceInv
<1>9. BufInv'
  BY <1>0, <1>4 DEF BufInv
<1>10. ~misled' => HandInv(off, r)'
  BY <1>0, <1>3, <1>4, HandStays DEF Inv
<1> QED  BY <1>5, <1>6, <1>8, <1>9, <1>10 DEF Inv

\* Bytes are thrown away; the last ones end the message.
LEMMA DrainInv ==
  ASSUME NEW off, NEW r \in Nat, Inv(off, r), Drain
  PROVE  \E s \in Nat : Inv(off, s)'
<1>0. /\ stream' = stream /\ arrived' = arrived
      /\ msg_len_read' = msg_len_read /\ length1' = length1
      /\ event' = event /\ invalid' = invalid /\ open' = open
      /\ handed' = handed /\ missed' = missed /\ misled' = misled
      /\ pc = "drain" /\ sock # <<>>
  BY DEF Drain, source
<1>1. HdrInv /\ AtDrain(off, r) /\ hdr # <<>>
  <2>1. HdrInv /\ AtDrain(off, r)
    BY <1>0, Places DEF Inv
  <2> QED  BY <2>1, Constants, EmptyHdr DEF AtDrain
<1>2. /\ CurLen \in Nat /\ off[Cur] \in Nat /\ off[Cur + 1] = off[Cur] + CurLen
      /\ Cur + 1 \in 1 .. (Len(stream) + 1)
  BY <1>1, CurFacts DEF Inv
<1>3. /\ todo \in Nat /\ (~misled => todo > 0) /\ Body > 0 /\ Len(hdr) = HdrLen /\ todo < Uint16
      /\ msg_state \in {"start", "drain"}
      /\ ~missed /\ ~misled => msg_state = "start" /\ r + todo = off[Cur] + CurLen
  <2>1. todo \in Nat /\ todo < Uint16
    BY Constants DEF Inv, Types, TypeOK
  <2> QED  BY <1>1, <2>1 DEF AtDrain
<1>4. PICK n \in Nat : n = Least(todo, DrainLen) /\ n <= todo
  BY <1>3, Constants DEF Least
<1>5. PICK k \in Nat : k = Len(Front(n)) /\ k <= n /\ k <= Len(sock)
  <2>1. Types
    BY DEF Inv
  <2> QED  BY <1>0, <1>4, <2>1, ReadFacts
<1>6. /\ sock' = Taken(n) /\ todo' = todo - k
      /\ \/ /\ todo' = 0 /\ msg_state' = "new" /\ hdr' = <<>> /\ buf' = NoBuf /\ pc' = "epoll"
         \/ /\ todo' # 0 /\ msg_state' = msg_state /\ hdr' = hdr /\ buf' = buf /\ pc' = pc
  BY <1>5, <1>4 DEF Drain, Reset
<1>7. r + k \in Nat /\ StreamInv(off, r + k)' /\ sock' \in Seq(Byte)
  BY <1>0, <1>5, <1>6, Consume DEF Inv, source
<1>8. todo' \in Nat /\ todo' < Uint16
  BY <1>5, <1>6, <1>3, <1>4, Constants
<1>9. ~missed /\ ~misled => (r + k) + todo' = off[Cur] + CurLen
  <2>1. \A x, y, z \in Nat : z <= y => (x + z) + (y - z) = x + y
    OBVIOUS
  <2>2. k <= todo
    BY <1>5, <1>3, <1>4
  <2> QED  BY <1>6, <1>3, <2>1, <2>2
<1>10. Types'
  <2>1. todo' \in 0 .. (Uint16 - 1)
    BY <1>8, Constants
  <2>2. hdr' \in Seq(Byte) /\ Len(hdr') <= HdrLen
    <3>1. hdr \in Seq(Byte) /\ Len(hdr) <= HdrLen
      BY DEF Inv, Types, TypeOK
    <3> QED  BY <1>6, <3>1, EmptyHdr
  <2>4. buf' \in Seq(Byte)
    BY <1>6, EmptyHdr DEF Inv, Types
  <2>3. /\ msg_state' \in {"new", "header", "start", "wait", "complete", "drain"}
        /\ pc' \in {"epoll", "process", "body", "drain", "lost"}
    BY <1>0, <1>6, <1>3
  <2> QED  BY <1>0, <1>7, <2>1, <2>2, <2>3, <2>4 DEF Inv, Types, TypeOK
<1>11. HdrInv'
  BY <1>0, <1>1, <1>6, EmptyHdr DEF HdrInv, Cur, Streamed
<1>12. PlaceInv(off, r + k)'
  <2>1. CASE todo' = 0
    <3>1. ~missed' /\ ~misled' => r + k = off[Cur + 1]
      BY <1>0, <1>2, <1>7, <1>9, <2>1
    <3>2. AtNew(off, r + k)'
      BY <1>0, <1>2, <1>6, <2>1, <3>1 DEF AtNew
    <3> QED  BY <1>11, <3>2 DEF PlaceInv
  <2>2. CASE todo' # 0
    <3>1. todo' > 0
      BY <1>8, <2>2
    <3>2. Body' = Body /\ CurLen' = CurLen /\ Cur' = Cur
      BY <1>0, <1>6, <2>2 DEF Body, CurLen, Cur
    <3>3. AtDrain(off, r + k)'
      BY <1>0, <1>6, <1>3, <1>9, <2>2, <3>1, <3>2 DEF AtDrain
    <3> QED  BY <1>11, <3>3 DEF PlaceInv
  <2> QED  BY <2>1, <2>2
<1>13. BufInv'
  BY <1>0, <1>6 DEF BufInv
<1>14. ~misled' => HandInv(off, r + k)'
  <2>1. r <= r + k
    OBVIOUS
  <2> QED  BY <1>0, <1>6, <1>7, <2>1, HandStays DEF Inv
<1>15. Inv(off, r + k)'
  BY <1>10, <1>12, <1>13, <1>14, <1>7 DEF Inv
<1> QED  BY <1>15, <1>7

\* A drain finds the socket empty: the body counts as missed.
LEMMA DrainEmptyInv ==
  ASSUME NEW off, NEW r \in Nat, Inv(off, r), DrainEmpty
  PROVE  Inv(off, r)'
<1>0. /\ stream' = stream /\ arrived' = arrived /\ sock' = sock
      /\ msg_len_read' = msg_len_read /\ length1' = length1
      /\ invalid' = invalid /\ open' = open
      /\ handed' = handed /\ missed' = TRUE /\ pc = "drain"
  BY DEF DrainEmpty, source
<1>1. HdrInv /\ AtDrain(off, r) /\ hdr # <<>>
  <2>1. HdrInv /\ AtDrain(off, r)
    BY <1>0, Places DEF Inv
  <2> QED  BY <2>1, Constants, EmptyHdr DEF AtDrain
<1>2. \/ /\ event' = "fail" /\ msg_state' = "drain" /\ todo' = Sub16(HostLen, HdrLen)
         /\ hdr' = hdr /\ buf' = buf /\ pc' = pc /\ misled' = (misled \/ HostLen # CurLen)
      \/ /\ msg_state' = "new" /\ hdr' = <<>> /\ buf' = NoBuf /\ pc' = "epoll" /\ todo' = 0
         /\ event' = event /\ misled' = misled
  BY DEF DrainEmpty, Reset, Misled
<1>3. /\ CurLen \in Nat /\ HdrLen <= CurLen /\ HostLen \in Nat /\ Body = CurLen - HdrLen
      /\ CurLen < Uint16 /\ HdrLen \in Nat /\ Body \in Nat /\ Body > 0
      /\ HostLen = CurLen => Sub16(HostLen, HdrLen) = Body
      /\ Sub16(HostLen, HdrLen) \in 0 .. (Uint16 - 1)
  <2>1. /\ CurLen \in Nat /\ HdrLen <= CurLen /\ HostLen \in Nat /\ Body = CurLen - HdrLen
        /\ CurLen < Uint16 /\ HdrLen \in Nat /\ Body \in Nat
    BY <1>1, Constants, CurFacts DEF Inv
  <2> QED  BY <1>1, <2>1, SubExact, SubRange DEF AtDrain
<1>4. Types'
  <2>1. todo' \in 0 .. (Uint16 - 1)
    BY <1>2, <1>3, Constants
  <2>2. hdr' \in Seq(Byte) /\ Len(hdr') <= HdrLen
    <3>1. hdr \in Seq(Byte) /\ Len(hdr) <= HdrLen
      BY DEF Inv, Types, TypeOK
    <3> QED  BY <1>2, <3>1, EmptyHdr
  <2>3. buf' \in Seq(Byte) /\ misled' \in BOOLEAN
    BY <1>2, EmptyHdr DEF Inv, Types, TypeOK
  <2> QED  BY <1>0, <1>2, <2>1, <2>2, <2>3 DEF Inv, Types, TypeOK
<1>5. StreamInv(off, r)'
  BY <1>0, StreamStays DEF Inv, source
<1>6. HdrInv'
  BY <1>0, <1>1, <1>2, EmptyHdr DEF HdrInv, Cur, Streamed
<1>7. PlaceInv(off, r)'
  <2>1. CASE msg_state' = "new"
    <3>1. AtNew(off, r)'
      BY <1>0, <1>2, <2>1 DEF AtNew
    <3> QED  BY <1>6, <3>1 DEF PlaceInv
  <2>2. CASE msg_state' = "drain"
    <3>1. /\ Body' = Body /\ hdr' = hdr /\ pc' = "drain"
          /\ ~misled' => todo' = Body
      BY <1>0, <1>2, <1>3, <2>2 DEF Body, CurLen, Cur
    <3>2. AtDrain(off, r)'
      BY <1>0, <1>1, <1>3, <2>2, <3>1 DEF AtDrain
    <3> QED  BY <1>6, <3>2 DEF PlaceInv
  <2> QED  BY <1>2, <2>1, <2>2
<1>8. BufInv'
  BY <1>0, <1>2 DEF BufInv
<1>9. ~misled' => HandInv(off, r)'
  <2>1. ~misled' => ~misled
    BY <1>2
  <2> QED  BY <1>0, <1>2, <2>1, HandStays DEF Inv
<1> QED  BY <1>4, <1>5, <1>7, <1>8, <1>9 DEF Inv

-----------------------------------------------------------------------------
(* The header.                                                              *)

\* Where the reader is between two messages and the socket holds a byte, that byte is
\* the first of a message.
LEMMA AtBegin ==
  ASSUME Types, NEW off, NEW r \in Nat, StreamInv(off, r), sock # <<>>,
         NEW m \in 1 .. (Len(stream) + 1), r = off[m]
  PROVE  m \in Streamed /\ \A i \in 1 .. Len(sock) : i <= stream[m].len => sock[i] = <<m, i>>
<1>1. Len(sock) \in Nat /\ 1 \in 1 .. Len(sock) /\ Len(stream) \in Nat
  <2>1. Len(stream) \in Nat
    BY LenProperties DEF Types, TypeOK
  <2> QED  BY <2>1, EmptyHdr DEF Types
<1>2. PICK q \in Streamed : \E a \in 1 .. stream[q].len : sock[1] = <<q, a>> /\ off[q] + a = r + 1
  BY <1>1 DEF StreamInv, ByteAt
<1>3. PICK a \in 1 .. stream[q].len : sock[1] = <<q, a>> /\ off[q] + a = r + 1
  BY <1>2
<1>4. /\ q \in Nat /\ q + 1 \in 1 .. (Len(stream) + 1) /\ stream[q].len \in Nat
  BY StreamLen
<1>5. /\ off[q] \in Nat /\ off[q + 1] \in Nat /\ off[q + 1] = off[q] + stream[q].len
  BY <1>4 DEF StreamInv
<1>6. r + 1 <= off[q + 1]
  BY <1>3, <1>4, <1>5
<1>7. m # Len(stream) + 1
  <2>1. ASSUME m = Len(stream) + 1  PROVE FALSE
    <3>1. q + 1 <= m
      BY <1>1, <1>4, <2>1
    <3>2. off[q + 1] <= off[m]
      BY <1>4, <3>1 DEF StreamInv
    <3> QED  BY <1>5, <1>6, <3>2
  <2> QED  BY <2>1
<1>8. m \in Streamed
  BY <1>1, <1>7 DEF Streamed
<1>9. r = off[m] + 0
  <2>1. m \in Nat
    BY <1>1
  <2>2. off[m] \in Nat
    BY <2>1 DEF StreamInv
  <2> QED  BY <2>2
<1>10. ASSUME NEW i \in 1 .. Len(sock), i <= stream[m].len  PROVE sock[i] = <<m, i>>
  <2>1. 0 + i = i
    BY <1>1
  <2>2. 0 + i <= stream[m].len
    BY <1>10, <2>1
  <2>3. sock[i] = <<m, 0 + i>>
    BY <1>8, <1>9, <2>2, NextBytes
  <2> QED  BY <2>1, <2>3
<1> QED  BY <1>8, <1>10

\* A header of another version is forgotten; the reader keeps its place if nothing but
\* the header belonged to the message.
LEMMA ReadOtherVersionInv ==
  ASSUME NEW off, NEW r \in Nat, Inv(off, r), ReadOtherVersion
  PROVE  \E s \in Nat : Inv(off, s)'
<1>0. /\ stream' = stream /\ arrived' = arrived /\ sock' = Taken(HdrLen)
      /\ msg_len_read' = 0 /\ length1' = length1 /\ todo' = todo
      /\ event' = "read" /\ invalid' = invalid /\ open' = open
      /\ msg_state' = "new" /\ hdr' = <<>> /\ buf' = NoBuf
      /\ handed' = handed /\ pc' = pc /\ misled' = misled
      /\ pc = "epoll" /\ sock # <<>> /\ msg_state = "new"
      /\ missed' = (missed \/ stream[sock[1][1]].len > Len(Front(HdrLen)))
  BY DEF ReadOtherVersion, OtherVersion, Polled, Reset, source
<1>1. HdrInv /\ AtNew(off, r)
  BY <1>0, Places DEF Inv
<1>2. PICK k \in Nat : k = Len(Front(HdrLen)) /\ k <= HdrLen
  <2>1. Types
    BY DEF Inv
  <2> QED  BY <2>1, ReadFacts, Constants
<1>3. r + k \in Nat /\ StreamInv(off, r + k)' /\ sock' \in Seq(Byte)
  BY <1>0, <1>2, Consume, Constants DEF Inv, source
<1>4. Types'
  <2>1. 0 \in 0 .. (Byte8 - 1)
    BY Constants
  <2>2. missed' \in BOOLEAN
    BY <1>0
  <2> QED  BY <1>0, <1>3, <2>1, <2>2, EmptyHdr DEF Inv, Types, TypeOK
<1>5. HdrInv'
  BY <1>0, EmptyHdr DEF HdrInv
<1>6. PlaceInv(off, r + k)'
  <2>1. ASSUME ~missed', ~misled'  PROVE \E m \in 1 .. (Len(stream) + 1) : r + k = off[m]
    <3>1. ~missed /\ ~misled /\ ~(stream[sock[1][1]].len > k)
      BY <1>0, <1>2, <2>1
    <3>2. PICK m \in 1 .. (Len(stream) + 1) : r = off[m]
      BY <1>1, <3>1 DEF AtNew
    <3>3. m \in Streamed /\ \A i \in 1 .. Len(sock) : i <= stream[m].len => sock[i] = <<m, i>>
      BY <1>0, <3>2, AtBegin DEF Inv
    <3>4. /\ stream[m].len \in Nat /\ HdrLen <= stream[m].len /\ m + 1 \in 1 .. (Len(stream) + 1)
          /\ m \in Nat
      BY <3>3, StreamLen DEF Inv
    <3>5. 1 \in 1 .. Len(sock) /\ 1 <= stream[m].len
      <4>1. sock \in Seq(Byte)
        BY DEF Inv, Types
      <4>2. Len(sock) \in Nat /\ Len(sock) > 0
        BY <1>0, <4>1, EmptyHdr
      <4> QED  BY <3>4, <4>2, Constants
    <3>6. sock[1][1] = m
      BY <3>3, <3>5
    <3>7. k = stream[m].len
      BY <1>2, <3>1, <3>4, <3>6, Constants
    <3>8. off[m + 1] = off[m] + stream[m].len
      BY <3>3 DEF Inv, StreamInv
    <3> QED  BY <3>2, <3>4, <3>7, <3>8
  <2>2. AtNew(off, r + k)'
    BY <1>0, <2>1 DEF AtNew
  <2> QED  BY <1>5, <2>2 DEF PlaceInv
<1>7. BufInv'
  BY <1>0 DEF BufInv
<1>8. ~misled' => HandInv(off, r + k)'
  <2>1. r <= r + k
    OBVIOUS
  <2> QED  BY <1>0, <1>3, <2>1, HandStays DEF Inv
<1>9. Inv(off, r + k)'
  BY <1>4, <1>6, <1>7, <1>8, <1>3 DEF Inv
<1> QED  BY <1>9, <1>3

\* The header as far as it is read after a read of k bytes: it is aligned unless the
\* reader was out of step, and if it is aligned then its message begins where the
\* reader took its first byte.
LEMMA HeaderFacts ==
  ASSUME Types, NEW off, NEW r \in Nat, StreamInv(off, r), HdrInv, sock # <<>>,
         AtNew(off, r) \/ AtHeader(off, r),
         NEW k \in Nat, 0 < k, k <= Len(sock), Len(hdr) + k <= HdrLen,
         NEW h \in Seq(Byte), Len(h) = Len(hdr) + k,
         \A i \in 1 .. Len(hdr) : h[i] = hdr[i],
         \A i \in 1 .. k : h[Len(hdr) + i] = sock[i]
  PROVE  /\ ~missed /\ ~misled => Aligned(h)
         /\ Aligned(h) => /\ h[1][1] \in Streamed /\ r = off[h[1][1]] + Len(hdr)
                          /\ \A i \in 1 .. Len(h) : h[i] = <<h[1][1], i>>
                          /\ hdr # <<>> => h[1][1] = Cur
<1>1. /\ Len(hdr) \in Nat /\ Len(sock) \in Nat /\ 1 \in 1 .. Len(sock) /\ 1 \in 1 .. Len(h) /\ 1 \in 1 .. k
      /\ DOMAIN h = 1 .. Len(h)
  <2>1. sock \in Seq(Byte) /\ hdr \in Seq(Byte)
    BY DEF Types
  <2>2. Len(hdr) \in Nat /\ Len(sock) \in Nat
    BY <2>1, LenProperties
  <2>3. DOMAIN h = 1 .. Len(h)
    BY LenProperties
  <2> QED  BY <2>2, <2>3
<1>2. CASE AtHeader(off, r)
  <2>1. hdr # <<>> /\ Len(hdr) > 0 /\ r = off[Cur] + Len(hdr)
    BY <1>2, EmptyHdr DEF AtHeader
  <2>2. Cur \in Streamed /\ CurLen \in Nat /\ HdrLen <= CurLen
    BY <2>1, CurFacts
  <2>3. \A i \in 1 .. k : sock[i] = <<Cur, Len(hdr) + i>>
    <3>1. ASSUME NEW i \in 1 .. k  PROVE sock[i] = <<Cur, Len(hdr) + i>>
      <4>1. i \in 1 .. Len(sock) /\ i \in Nat /\ i <= k
        BY <1>1
      <4>2. \A x, y, z, c \in Nat : x <= y /\ z + y <= c => z + x <= c
        OBVIOUS
      <4>3. i \in 1 .. Len(sock) /\ Len(hdr) + i <= HdrLen
        BY <1>1, <4>1, <4>2, Constants
      <4>4. Len(hdr) + i <= stream[Cur].len
        BY <1>1, <2>2, <4>3, Constants DEF CurLen
      <4> QED  BY <1>1, <2>1, <2>2, <4>3, <4>4, NextBytes
    <3> QED  BY <3>1
  <2>4. ASSUME NEW i \in 1 .. Len(h)  PROVE h[i] = <<Cur, i>>
    <3>1. CASE i <= Len(hdr)
      <4>1. i \in 1 .. Len(hdr)
        BY <1>1, <3>1
      <4> QED  BY <4>1 DEF HdrInv
    <3>2. CASE Len(hdr) < i
      <4>1. PICK x \in 1 .. k : Len(hdr) + x = i
        <5>1. i - Len(hdr) \in 1 .. k /\ Len(hdr) + (i - Len(hdr)) = i
          BY <1>1, <3>2
        <5> QED  BY <5>1
      <4>2. h[i] = sock[x] /\ sock[x] = <<Cur, Len(hdr) + x>>
        BY <2>3, <4>1
      <4> QED  BY <4>1, <4>2, Zenon
    <3>3. i \in Nat
      BY <1>1
    <3> QED  BY <1>1, <3>1, <3>2, <3>3
  <2>5. h[1] = <<Cur, 1>>
    BY <1>1, <2>4
  <2>6. h[1][1] = Cur
    BY <2>5
  <2>7. \A i \in 1 .. Len(h) : h[i] = <<h[1][1], i>>
    BY <2>4, <2>6
  <2> QED  BY <1>1, <2>1, <2>2, <2>6, <2>7 DEF Aligned
<1>3. CASE AtNew(off, r)
  <2>1. hdr = <<>> /\ Len(hdr) = 0
    BY <1>3, EmptyHdr DEF AtNew
  <2>2. Len(h) = k /\ \A i \in 1 .. k : h[i] = sock[i]
    <3>1. \A i \in 1 .. k : 0 + i = i
      OBVIOUS
    <3>2. Len(h) = k
      BY <2>1
    <3> QED  BY <2>1, <3>1, <3>2
  <2>3. ASSUME ~missed, ~misled  PROVE Aligned(h)
    <3>1. PICK m \in 1 .. (Len(stream) + 1) : r = off[m]
      BY <1>3, <2>3 DEF AtNew
    <3>2. m \in Streamed /\ \A i \in 1 .. Len(sock) : i <= stream[m].len => sock[i] = <<m, i>>
      BY <3>1, AtBegin
    <3>3. stream[m].len \in Nat /\ HdrLen <= stream[m].len
      BY <3>2, StreamLen
    <3>4. \A i \in 1 .. k : i \in 1 .. Len(sock) /\ i <= stream[m].len
      BY <1>1, <2>1, <3>3, Constants
    <3>5. \A i \in 1 .. k : h[i] = <<m, i>>
      BY <2>2, <3>2, <3>4
    <3>6. h[1][1] = m
      BY <1>1, <3>5
    <3> QED  BY <1>1, <2>2, <3>5, <3>6 DEF Aligned
  <2>4. ASSUME Aligned(h)
        PROVE  /\ h[1][1] \in Streamed /\ r = off[h[1][1]] + Len(hdr)
               /\ \A i \in 1 .. Len(h) : h[i] = <<h[1][1], i>>
    <3>1. \A i \in 1 .. Len(h) : h[i] = <<h[1][1], i>>
      BY <1>1, <2>4 DEF Aligned
    <3>2. sock[1] = <<h[1][1], 1>>
      BY <1>1, <2>2, <3>1
    <3>3. PICK q \in Streamed : \E a \in 1 .. stream[q].len : sock[1] = <<q, a>> /\ off[q] + a = r + 1
      BY <1>1 DEF StreamInv, ByteAt
    <3>4. h[1][1] = q /\ off[q] + 1 = r + 1
      BY <3>2, <3>3
    <3>5. off[q] \in Nat
      BY StreamLen DEF StreamInv
    <3>6. r = off[q] + 0
      BY <3>4, <3>5
    <3> QED  BY <2>1, <3>1, <3>4, <3>6
  <2> QED  BY <2>1, <2>3, <2>4
<1> QED  BY <1>2, <1>3

\* The header, or a part of it.
LEMMA ReadHeaderInv ==
  ASSUME NEW off, NEW r \in Nat, Inv(off, r), ReadHeader
  PROVE  \E s \in Nat : Inv(off, s)'
<1>0. /\ stream' = stream /\ arrived' = arrived /\ length1' = length1 /\ todo' = todo
      /\ event' = "read" /\ invalid' = invalid /\ open' = open
      /\ handed' = handed /\ missed' = missed /\ misled' = misled
      /\ pc = "epoll" /\ sock # <<>> /\ msg_state \in {"new", "header"}
  BY DEF ReadHeader, Polled, source
<1>1. /\ HdrInv /\ (AtNew(off, r) \/ AtHeader(off, r))
      /\ msg_state = "new" => hdr = <<>>
      /\ msg_state = "header" => msg_len_read = 0
  <2>1. HdrInv /\ (AtNew(off, r) \/ AtHeader(off, r))
    BY <1>0, Places DEF Inv
  <2> QED  BY <2>1 DEF AtNew, AtHeader
<1>2. Types /\ StreamInv(off, r)
  BY DEF Inv
<1>3. hdr \in Seq(Byte) /\ Len(hdr) \in Nat /\ Len(hdr) < HdrLen
  <2>1. hdr \in Seq(Byte)
    BY <1>2 DEF Types
  <2>2. Len(hdr) < HdrLen
    BY <1>1, EmptyHdr, Constants DEF AtNew, AtHeader
  <2> QED  BY <2>1, <2>2, EmptyHdr
<1>4. PICK n \in Nat : n = HdrLen - Len(hdr) /\ n > 0
  BY <1>3, Constants
<1>5. PICK k \in Nat : /\ k = Len(Front(n)) /\ k <= n /\ k <= Len(sock) /\ k > 0
                       /\ Front(n) \in Seq(Byte) /\ \A i \in 1 .. k : Front(n)[i] = sock[i]
  BY <1>0, <1>2, <1>4, ReadFacts
<1>6. PICK h : h = hdr \o Front(n)
  OBVIOUS
<1>7. /\ h \in Seq(Byte) /\ Len(h) = Len(hdr) + k
      /\ \A i \in 1 .. Len(hdr) : h[i] = hdr[i]
      /\ \A i \in 1 .. k : h[Len(hdr) + i] = sock[i]
  <2>1. /\ h \in Seq(Byte) /\ Len(h) = Len(hdr) + k
        /\ \A i \in 1 .. (Len(hdr) + k) : h[i] = IF i <= Len(hdr) THEN hdr[i] ELSE Front(n)[i - Len(hdr)]
    BY <1>3, <1>5, <1>6, ConcatProperties
  <2>2. \A i \in 1 .. Len(hdr) : i \in 1 .. (Len(hdr) + k) /\ i <= Len(hdr)
    BY <1>3
  <2>3. \A i \in 1 .. k : /\ Len(hdr) + i \in 1 .. (Len(hdr) + k) /\ ~(Len(hdr) + i <= Len(hdr))
                          /\ (Len(hdr) + i) - Len(hdr) = i
    BY <1>3
  <2>4. \A i \in 1 .. Len(hdr) : h[i] = hdr[i]
    BY <2>1, <2>2
  <2>5. \A i \in 1 .. k : h[Len(hdr) + i] = sock[i]
    BY <1>5, <2>1, <2>3
  <2> QED  BY <2>1, <2>4, <2>5
<1>8. HeaderAsk = n /\ HeaderRead = h
  <2>1. HeaderAsk = n
    BY <1>0, <1>1, <1>4, EmptyHdr, Constants DEF HeaderAsk
  <2>2. HeaderRead = hdr \o Front(n)
    BY <1>0, <1>1, <2>1 DEF HeaderRead
  <2> QED  BY <1>6, <2>1, <2>2
<1>9. /\ hdr' = h /\ sock' = Taken(n) /\ msg_len_read' = 0
      /\ IF Len(h) = HdrLen THEN msg_state' = "start" /\ buf' = NoBuf
                            ELSE msg_state' = "header" /\ buf' = buf
      /\ pc' = IF ~Aligned(h) THEN "lost" ELSE IF Len(h) = HdrLen THEN "process" ELSE "epoll"
  BY <1>0, <1>1, <1>8 DEF ReadHeader
<1>10. /\ ~missed /\ ~misled => Aligned(h)
       /\ Aligned(h) => /\ h[1][1] \in Streamed /\ r = off[h[1][1]] + Len(hdr)
                        /\ \A i \in 1 .. Len(h) : h[i] = <<h[1][1], i>>
                        /\ hdr # <<>> => h[1][1] = Cur
  <2>1. Len(hdr) + k <= HdrLen
    BY <1>3, <1>4, <1>5, Constants
  <2> QED  BY <1>0, <1>1, <1>2, <1>5, <1>7, <2>1, HeaderFacts
<1>11. r + k \in Nat /\ StreamInv(off, r + k)' /\ sock' \in Seq(Byte)
  BY <1>0, <1>2, <1>5, <1>9, Consume DEF source
<1>12. Len(h) \in Nat /\ 0 < Len(h) /\ Len(h) <= HdrLen
  BY <1>3, <1>4, <1>5, <1>7, Constants, SMTT(30)
<1>13. Types'
  <2>1. 0 \in 0 .. (Byte8 - 1)
    BY Constants
  <2>2. /\ msg_state' \in {"new", "header", "start", "wait", "complete", "drain"}
        /\ pc' \in {"epoll", "process", "body", "drain", "lost"}
    BY <1>9
  <2>3. hdr' \in Seq(Byte) /\ Len(hdr') <= HdrLen
    BY <1>7, <1>9, <1>12
  <2>4. buf' \in Seq(Byte)
    BY <1>2, <1>9, EmptyHdr DEF Types
  <2> QED  BY <1>0, <1>2, <1>9, <1>11, <2>1, <2>2, <2>3, <2>4 DEF Types, TypeOK
<1>14. Aligned(h) => HdrInv'
  BY <1>0, <1>9, <1>10 DEF HdrInv, Cur, Streamed
<1>15. PlaceInv(off, r + k)'
  <2>1. CASE ~Aligned(h)
    <3>1. missed \/ misled
      BY <1>2, <1>10, <2>1 DEF Types, TypeOK
    <3> QED  BY <1>0, <1>9, <2>1, <3>1 DEF PlaceInv
  <2>2. CASE Aligned(h)
    <3>0. Cur' = h[1][1]
      BY <1>9 DEF Cur
    <3>1. r + k = off[Cur'] + Len(h)
      <4>1. h[1][1] \in Streamed /\ r = off[h[1][1]] + Len(hdr)
        BY <1>10, <2>2
      <4>2. off[h[1][1]] \in Nat
        BY <1>2, <4>1, StreamLen DEF StreamInv
      <4>3. \A x, y, z \in Nat : (x + y) + z = x + (y + z)
        OBVIOUS
      <4> QED  BY <1>3, <1>7, <3>0, <4>1, <4>2, <4>3
    <3>2. CASE Len(h) = HdrLen
      <4>1. AtStart(off, r + k)'
        BY <1>9, <2>2, <3>1, <3>2 DEF AtStart
      <4> QED  BY <1>14, <2>2, <4>1 DEF PlaceInv
    <3>3. CASE Len(h) # HdrLen
      <4>1. Len(h) < HdrLen
        BY <1>12, <3>3, Constants
      <4>2. AtHeader(off, r + k)'
        BY <1>9, <1>12, <2>2, <3>1, <3>3, <4>1 DEF AtHeader
      <4> QED  BY <1>14, <2>2, <4>2 DEF PlaceInv
    <3> QED  BY <3>2, <3>3
  <2> QED  BY <2>1, <2>2
<1>16. BufInv'
  BY <1>9 DEF BufInv
<1>17. ASSUME ~misled'  PROVE HandInv(off, r + k)'
  <2>1. r <= r + k
    OBVIOUS
  <2>2. HandInv(off, r)
    BY <1>0, <1>17 DEF Inv
  <2>3. ASSUME Aligned(h), NEW i \in 1 .. Len(handed)  PROVE handed[i].msg < Cur'
    <3>1. Cur' = h[1][1]
      BY <1>9 DEF Cur
    <3>2. CASE hdr # <<>>
      BY <1>0, <1>10, <2>2, <2>3, <3>1, <3>2 DEF HandInv
    <3>3. CASE hdr = <<>>
      <4>1. PICK q \in Streamed : q = h[1][1] /\ r = off[q] + Len(hdr)
        BY <1>10, <2>3
      <4>2. PICK m \in Streamed : m = handed[i].msg /\ off[m + 1] <= r
        BY <2>2 DEF HandInv
      <4>3. /\ q \in Nat /\ m \in Nat /\ q + 1 \in 1 .. (Len(stream) + 1)
            /\ m + 1 \in 1 .. (Len(stream) + 1) /\ stream[q].len \in Nat /\ HdrLen <= stream[q].len
        BY <1>2, StreamLen
      <4>4. /\ off[q] \in Nat /\ off[q + 1] \in Nat /\ off[m + 1] \in Nat
            /\ off[q + 1] = off[q] + stream[q].len
        BY <1>2, OffStep
      <4>5. r = off[q]
        BY <3>3, <4>1, <4>4, EmptyHdr
      <4>6. off[q] < off[q + 1]
        <5>1. 0 < stream[q].len
          BY <4>3, Constants
        <5> QED  BY <4>3, <4>4, <5>1
      <4>7. ASSUME q <= m  PROVE FALSE
        <5>1. off[q + 1] <= off[m + 1]
          <6>1. q + 1 <= m + 1
            BY <4>3, <4>7
          <6> QED  BY <1>2, <4>3, <6>1 DEF StreamInv
        <5> QED  BY <4>2, <4>4, <4>5, <4>6, <5>1
      <4>8. m < q
        BY <4>3, <4>7
      <4> QED  BY <3>1, <4>1, <4>2, <4>8
    <3> QED  BY <3>2, <3>3
  <2>4. pc' # "lost" => Aligned(h)
    BY <1>9
  <2> QED  BY <1>0, <1>2, <1>11, <2>1, <2>2, <2>3, <2>4, HandKept
<1>18. Inv(off, r + k)'
  BY <1>13, <1>15, <1>16, <1>17, <1>11 DEF Inv
<1> QED  BY <1>11, <1>18

-----------------------------------------------------------------------------
(* The switch.                                                              *)

\* The place of the reader and what it handed over do not depend on what is sent
\* behind it.
LEMMA SendInv ==
  ASSUME NEW off, NEW r \in Nat, Inv(off, r),
         NEW len \in Lens, NEW kind \in Kinds, Send(len, kind)
  PROVE  \E o \in [Nat -> Nat] : Inv(o, r)'
<1> DEFINE M == [len : Lens, kind : Kinds]
           e == [len |-> len, kind |-> kind]
<1>0. /\ arrived' = 0 /\ sock' = sock /\ msg_state' = msg_state
      /\ hdr' = hdr /\ msg_len_read' = msg_len_read /\ buf' = buf /\ length1' = length1
      /\ event' = event /\ todo' = todo /\ invalid' = invalid /\ open' = open /\ pc' = pc
      /\ handed' = handed /\ missed' = missed /\ misled' = misled
      /\ stream # <<>> => arrived = stream[Len(stream)].len
      /\ stream' = Append(stream, e)
  BY DEF Send, reader
<1>1. stream \in Seq(M) /\ e \in M
  BY DEF Inv, Types, TypeOK
<1> HIDE DEF M
<1>2. PICK L \in Nat : L = Len(stream)
  BY <1>1, LenProperties
<1>3. e.len = len
  OBVIOUS
<1> HIDE DEF e
<1>4. /\ stream' \in Seq(M) /\ Len(stream') = L + 1
      /\ \A m \in 1 .. L : stream'[m] = stream[m]
      /\ stream'[L + 1] = e /\ stream' # <<>> /\ (stream # <<>> <=> L > 0)
  <2>1. stream # <<>> <=> L > 0
    <3>1. \A q \in Seq(M) : q # <<>> <=> Len(q) > 0
      BY EmptySeq, LenProperties
    <3> QED  BY <1>1, <1>2, <3>1
  <2> QED  BY <1>0, <1>1, <1>2, <2>1, AppendProperties
<1>5. len \in Nat
  BY Constants
<1>6. PICK o : o = [m \in Nat |-> IF m = L + 2 THEN off[L + 1] + len ELSE off[m]]
  OBVIOUS
<1>7. o \in [Nat -> Nat]
  <2>1. \A m \in Nat : off[m] \in Nat
    BY DEF Inv, StreamInv
  <2> QED  BY <1>5, <1>6, <2>1
<1>8. /\ \A m \in Nat : o[m] \in Nat /\ off[m] \in Nat
      /\ \A m \in 1 .. (L + 1) : o[m] = off[m]
      /\ o[L + 2] = off[L + 1] + len
  <2>1. \A m \in 1 .. (L + 1) : m \in Nat /\ m # L + 2
    OBVIOUS
  <2>2. \A m \in 1 .. (L + 1) : o[m] = off[m]
    BY <1>6, <2>1
  <2>3. o[L + 2] = off[L + 1] + len
    BY <1>6
  <2>4. \A m \in Nat : off[m] \in Nat
    BY DEF Inv, StreamInv
  <2>5. \A m \in Nat : o[m] \in Nat
    BY <1>7
  <2> QED  BY <2>2, <2>3, <2>4, <2>5
<1>9. /\ StreamInv(off, r) /\ PlaceInv(off, r) /\ Types
  BY DEF Inv
<1>10. /\ off[1] = 0
       /\ \A m \in 1 .. L : off[m + 1] = off[m] + stream[m].len
       /\ \A m, n \in 1 .. (L + 1) : m <= n => off[m] <= off[n]
       /\ stream # <<>> => arrived <= stream[Len(stream)].len
       /\ r + Len(sock) = Sent(off)
       /\ \A i \in 1 .. Len(sock) : ByteAt(off, r + i, sock[i])
  BY <1>2, <1>9 DEF StreamInv, Streamed
<1>11. Streamed = 1 .. L /\ Streamed' = 1 .. (L + 1)
  BY <1>2, <1>4 DEF Streamed
<1>12. Types'
  <2>1. (stream \in Seq([len : Lens, kind : Kinds]))'
    BY <1>4 DEF M
  <2> QED  BY <1>0, <1>9, <2>1 DEF Types, TypeOK
<1>13. StreamInv(o, r)'
  <2>1. o[1] = 0
    BY <1>8, <1>10
  <2>2. ASSUME NEW m \in 1 .. (L + 1)  PROVE o[m + 1] = o[m] + stream'[m].len
    <3>1. CASE m \in 1 .. L
      <4>1. m + 1 \in 1 .. (L + 1) /\ m \in 1 .. (L + 1)
        BY <3>1
      <4> QED  BY <1>4, <1>8, <1>10, <3>1, <4>1
    <3>2. CASE m = L + 1
      <4>1. m + 1 = L + 2 /\ m \in 1 .. (L + 1)
        BY <3>2
      <4>2. stream'[m].len = len
        BY <1>4, <1>3, <3>2
      <4> QED  BY <1>8, <3>2, <4>1, <4>2
    <3> QED  BY <3>1, <3>2
  <2>3. ASSUME NEW m \in 1 .. (L + 2), NEW n \in 1 .. (L + 2), m <= n  PROVE o[m] <= o[n]
    <3>1. CASE n \in 1 .. (L + 1)
      <4>1. m \in 1 .. (L + 1)
        BY <2>3, <3>1
      <4> QED  BY <1>8, <1>10, <2>3, <3>1, <4>1
    <3>2. CASE n = L + 2 /\ m \in 1 .. (L + 1)
      <4>1. off[m] <= off[L + 1]
        BY <1>10, <3>2
      <4>2. off[m] \in Nat /\ off[L + 1] \in Nat
        BY <1>8, <3>2
      <4>3. off[m] <= off[L + 1] + len
        BY <1>5, <4>1, <4>2
      <4> QED  BY <1>8, <3>2, <4>3
    <3>3. CASE n = L + 2 /\ m = L + 2
      <4>1. o[L + 2] \in Nat
        BY <1>8
      <4> QED  BY <3>3, <4>1
    <3> QED  BY <3>1, <3>2, <3>3
  <2>4. Sent(o)' = Sent(off)
    <3>1. Sent(o)' = o[L + 1] + 0 /\ o[L + 1] = off[L + 1] /\ off[L + 1] \in Nat
      <4>1. L + 1 \in Nat /\ L + 1 \in 1 .. (L + 1)
        OBVIOUS
      <4>2. o[L + 1] = off[L + 1] /\ off[L + 1] \in Nat
        BY <1>8, <4>1
      <4>3. Sent(o)' = o[L + 1] + 0
        BY <1>0, <1>4 DEF Sent
      <4> QED  BY <4>2, <4>3
    <3>2. CASE L = 0
      BY <1>4, <1>10, <3>1, <3>2 DEF Sent
    <3>3. CASE L > 0
      <4>1. off[L + 1] = off[L] + stream[L].len
        BY <1>10, <3>3
      <4>2. Sent(off) = off[L] + stream[L].len
        BY <1>0, <1>2, <1>4, <3>3, Zenon DEF Sent
      <4> QED  BY <3>1, <4>1, <4>2
    <3> QED  BY <3>2, <3>3
  <2>5. ASSUME NEW i \in 1 .. Len(sock)  PROVE ByteAt(o, r + i, sock[i])'
    <3>1. PICK m \in Streamed : \E a \in 1 .. stream[m].len : sock[i] = <<m, a>> /\ off[m] + a = r + i
      BY <1>10 DEF ByteAt
    <3>2. m \in 1 .. L /\ m \in 1 .. (L + 1) /\ stream'[m] = stream[m] /\ o[m] = off[m]
      BY <1>4, <1>8, <1>11
    <3>3. \E a \in 1 .. stream'[m].len : sock'[i] = <<m, a>> /\ o[m] + a = r + i
      BY <1>0, <3>1, <3>2
    <3> QED  BY <1>11, <3>2, <3>3 DEF ByteAt
  <2>6. (L + 1) + 1 = L + 2
    OBVIOUS
  <2>7. (\A m \in Streamed : o[m + 1] = o[m] + stream[m].len)'
    BY <1>11, <2>2
  <2>8. (\A m, n \in 1 .. (Len(stream) + 1) : m <= n => o[m] <= o[n])'
    BY <1>4, <2>3, <2>6
  <2>9. (stream # <<>> => arrived <= stream[Len(stream)].len)'
    BY <1>0, <1>4, <1>5, <1>3
  <2>10. (r + Len(sock) = Sent(o))'
    BY <1>0, <1>10, <2>4
  <2>11. (\A i \in 1 .. Len(sock) : ByteAt(o, r + i, sock[i]))'
    BY <1>0, <2>5
  <2> QED  BY <1>8, <2>1, <2>7, <2>8, <2>9, <2>10, <2>11, Zenon DEF StreamInv
<1>14. Cur' = Cur
  BY <1>0 DEF Cur
<1>15. ASSUME HdrInv, hdr # <<>>
       PROVE  /\ o[Cur] = off[Cur] /\ CurLen' = CurLen /\ Body' = Body
              /\ Filled(HdrLen)' = Filled(HdrLen) /\ Filled(length1)' = Filled(length1)
              /\ Filled(CurLen)' = Filled(CurLen) /\ Short' = Short
  <2>1. Cur \in 1 .. L
    BY <1>11, <1>15 DEF HdrInv
  <2>2. o[Cur] = off[Cur] /\ CurLen' = CurLen
    BY <1>4, <1>8, <1>14, <2>1 DEF CurLen
  <2> QED  BY <1>0, <1>14, <2>2 DEF Body, Filled, Short
<1>16. HdrInv => HdrInv'
  <2>1. \A m \in 1 .. L : m \in 1 .. (L + 1)
    OBVIOUS
  <2> QED  BY <1>0, <1>11, <1>14, <2>1 DEF HdrInv
<1>17. PlaceInv(o, r)'
  <2>1. CASE pc = "lost"
    BY <1>0, <1>9, <2>1 DEF PlaceInv, AtNew, AtHeader, AtStart, AtBody, AtWait, AtComplete, AtDrain, AtStuck
  <2>2. CASE pc # "lost"
    <3>1. HdrInv
      BY <1>9, <2>2, Places
    <3>2. CASE AtNew(off, r)
      <4>1. ASSUME ~missed, ~misled  PROVE \E m \in 1 .. (L + 2) : r = o[m]
        <5>1. PICK m \in 1 .. (L + 1) : r = off[m]
          BY <1>2, <3>2, <4>1 DEF AtNew
        <5> QED  BY <1>8, <5>1
      <4>2. Len(stream') + 1 = L + 2
        BY <1>4
      <4>3. AtNew(o, r)'
        BY <1>0, <3>2, <4>1, <4>2 DEF AtNew
      <4> QED  BY <1>16, <3>1, <4>3 DEF PlaceInv
    <3>3. CASE \/ AtHeader(off, r) \/ AtStart(off, r) \/ AtBody(off, r)
               \/ AtWait(off, r) \/ AtComplete(off, r) \/ AtDrain(off, r) \/ AtStuck
      <4>1. hdr # <<>>
        BY <3>3, Constants, EmptyHdr
           DEF AtHeader, AtStart, AtBody, AtWait, AtComplete, AtDrain, AtStuck
      <4>2. o[Cur] = off[Cur] /\ CurLen' = CurLen /\ Body' = Body
        BY <1>15, <3>1, <4>1
      <4>3. \/ AtHeader(o, r)' \/ AtStart(o, r)' \/ AtBody(o, r)'
            \/ AtWait(o, r)' \/ AtComplete(o, r)' \/ AtDrain(o, r)' \/ AtStuck'
        BY <1>0, <1>14, <3>3, <4>2 DEF AtHeader, AtStart, AtBody, AtWait, AtComplete, AtDrain, AtStuck
      <4> QED  BY <1>16, <3>1, <4>3 DEF PlaceInv
    <3> QED  BY <1>9, <2>2, <3>2, <3>3 DEF PlaceInv
  <2> QED  BY <2>1, <2>2
<1>18. ASSUME ~misled'  PROVE BufInv'
  <2>1. BufInv
    BY <1>0, <1>18 DEF Inv
  <2>2. CASE pc = "body" \/ (pc = "epoll" /\ msg_state = "wait") \/ (pc = "process" /\ msg_state = "complete")
    <3>1. HdrInv /\ (AtBody(off, r) \/ AtWait(off, r) \/ AtComplete(off, r))
      BY <1>9, <2>2, Places
    <3>2. hdr # <<>>
      BY <3>1, Constants, EmptyHdr DEF AtBody, AtWait, AtComplete
    <3> QED  BY <1>0, <1>15, <2>1, <3>1, <3>2 DEF BufInv
  <2>3. CASE ~(pc = "body" \/ (pc = "epoll" /\ msg_state = "wait") \/ (pc = "process" /\ msg_state = "complete"))
    BY <1>0, <2>3 DEF BufInv
  <2> QED  BY <2>2, <2>3
<1>19. ASSUME ~misled'  PROVE HandInv(o, r)'
  <2>1. HandInv(off, r)
    BY <1>0, <1>19 DEF Inv
  <2>2. ASSUME NEW i \in 1 .. Len(handed)
        PROVE  /\ handed[i].msg \in 1 .. (L + 1)
               /\ stream'[handed[i].msg].len - HdrLen <= Byte8
                    => handed[i].data = Message(handed[i].msg)'
               /\ o[handed[i].msg + 1] <= r
               /\ \A j \in 1 .. (i - 1) : handed[j].msg < handed[i].msg
    <3>1. PICK m \in Streamed : /\ m = handed[i].msg /\ off[m + 1] <= r
                                /\ stream[m].len - HdrLen <= Byte8 => handed[i].data = Message(m)
      BY <2>1 DEF HandInv
    <3>2. m \in 1 .. L /\ m \in 1 .. (L + 1) /\ m + 1 \in 1 .. (L + 1)
      BY <1>11
    <3>3. Message(m)' = Message(m) /\ stream'[m] = stream[m] /\ o[m + 1] = off[m + 1]
      BY <1>4, <1>8, <3>2 DEF Message
    <3>4. \A j \in 1 .. (i - 1) : handed[j].msg < handed[i].msg
      BY <2>1 DEF HandInv
    <3>5. handed[i].msg \in 1 .. (L + 1) /\ o[handed[i].msg + 1] <= r
      BY <3>1, <3>2, <3>3
    <3>6. stream'[handed[i].msg].len - HdrLen <= Byte8 => handed[i].data = Message(handed[i].msg)'
      <4>1. handed' = handed
        BY <1>0
      <4> QED  BY <3>1, <3>3, <4>1 DEF Message
    <3> QED  BY <3>4, <3>5, <3>6
  <2>3. pc' # "lost" /\ hdr' # <<>> => \A i \in 1 .. Len(handed) : handed[i].msg < Cur'
    BY <1>0, <1>14, <2>1 DEF HandInv
  <2>5. (\A i \in 1 .. Len(handed) :
           /\ handed[i].msg \in Streamed
           /\ stream[handed[i].msg].len - HdrLen <= Byte8 => handed[i].data = Message(handed[i].msg)
           /\ o[handed[i].msg + 1] <= r
           /\ \A j \in 1 .. (i - 1) : handed[j].msg < handed[i].msg)'
    BY <1>0, <1>11, <2>2 DEF Message
  <2>6. (pc # "lost" /\ hdr # <<>> => \A i \in 1 .. Len(handed) : handed[i].msg < Cur)'
    BY <1>0, <2>3
  <2> QED  BY <2>5, <2>6 DEF HandInv
<1>20. Inv(o, r)'
  BY <1>12, <1>13, <1>17, <1>18, <1>19 DEF Inv
<1> QED  BY <1>20, <1>7

\* Bytes of the last message arrive at the end of the socket.
LEMMA ArriveInv ==
  ASSUME NEW off, NEW r \in Nat, Inv(off, r),
         NEW k \in 1 .. Uint16, Arrive(k)
  PROVE  Inv(off, r)'
<1>0. /\ stream' = stream /\ msg_state' = msg_state
      /\ hdr' = hdr /\ msg_len_read' = msg_len_read /\ buf' = buf /\ length1' = length1
      /\ event' = event /\ todo' = todo /\ invalid' = invalid /\ open' = open /\ pc' = pc
      /\ handed' = handed /\ missed' = missed /\ misled' = misled
      /\ arrived' = arrived + k
      /\ stream # <<>> /\ arrived + k <= stream[Len(stream)].len
      /\ sock' = sock \o SubSeq(Message(Len(stream)), arrived + 1, arrived + k)
  BY DEF Arrive, reader
<1>1. Types /\ StreamInv(off, r)
  BY DEF Inv
<1>2. k \in Nat /\ k > 0 /\ arrived \in Nat /\ sock \in Seq(Byte) /\ Len(sock) \in Nat
  <2>1. arrived \in Nat /\ sock \in Seq(Byte)
    BY <1>1 DEF Types, TypeOK
  <2> QED  BY <2>1, LenProperties, Constants
<1>3. Len(stream) \in Streamed
  <2> DEFINE M == [len : Lens, kind : Kinds]
  <2>1. stream \in Seq(M)
    BY <1>1 DEF Types, TypeOK
  <2> HIDE DEF M
  <2>2. Len(stream) \in Nat \ {0}
    BY <1>0, <2>1, EmptySeq
  <2> QED  BY <2>2 DEF Streamed
<1>4. PICK L \in Streamed : L = Len(stream)
  BY <1>3
<1>5. L \in Nat /\ L > 0 /\ stream[L].len \in Nat /\ arrived + k <= stream[L].len
  BY <1>0, <1>1, <1>4, StreamLen
<1>6. \A i \in (arrived + 1) .. (arrived + k) : i \in 1 .. stream[L].len
  BY <1>2, <1>5
<1>7. \A i \in (arrived + 1) .. (arrived + k) : Message(L)[i] = <<L, i>> /\ Message(L)[i] \in Byte
  BY <1>2, <1>5, <1>6 DEF Message, Byte
<1>8. PICK q : q = SubSeq(Message(L), arrived + 1, arrived + k)
  OBVIOUS
<1>9. /\ q \in Seq(Byte) /\ Len(q) = k
      /\ \A i \in 1 .. k : q[i] = <<L, arrived + i>>
  <2>1. /\ q \in Seq(Byte)
        /\ Len(q) = IF arrived + 1 <= arrived + k THEN (arrived + k) - (arrived + 1) + 1 ELSE 0
        /\ \A i \in 1 .. ((arrived + k) - (arrived + 1) + 1) : q[i] = Message(L)[(arrived + 1) + i - 1]
    <3>1. arrived + 1 \in Int /\ arrived + k \in Int
      BY <1>2
    <3> QED  BY <1>7, <1>8, <3>1, SubSeqProperties
  <2>2. /\ arrived + 1 <= arrived + k /\ (arrived + k) - (arrived + 1) + 1 = k
        /\ \A i \in 1 .. k : /\ (arrived + 1) + i - 1 = arrived + i
                             /\ arrived + i \in (arrived + 1) .. (arrived + k)
    BY <1>2
  <2>3. \A i \in 1 .. k : q[i] = Message(L)[arrived + i]
    BY <2>1, <2>2
  <2>4. \A i \in 1 .. k : Message(L)[arrived + i] = <<L, arrived + i>>
    BY <1>7, <2>2
  <2> QED  BY <2>1, <2>2, <2>3, <2>4
<1>10. /\ sock' \in Seq(Byte) /\ Len(sock') = Len(sock) + k
       /\ \A i \in 1 .. (Len(sock) + k) : sock'[i] = IF i <= Len(sock) THEN sock[i] ELSE q[i - Len(sock)]
  <2>1. sock' = sock \o q
    BY <1>0, <1>4, <1>8
  <2> QED  BY <1>2, <1>9, <2>1, ConcatProperties
<1>11. /\ off[L] \in Nat /\ Sent(off) = off[L] + arrived /\ r + Len(sock) = off[L] + arrived
  <2>1. off[L] \in Nat /\ r + Len(sock) = Sent(off)
    BY <1>1, <1>5 DEF StreamInv
  <2>2. Sent(off) = off[L] + arrived
    BY <1>0, <1>4, Zenon DEF Sent
  <2> QED  BY <2>1, <2>2
<1>12. Types'
  <2>1. arrived' \in Nat
    BY <1>0, <1>2
  <2> QED  BY <1>0, <1>1, <1>10, <2>1 DEF Types, TypeOK
<1>13. StreamInv(off, r)'
  <2>1. (r + Len(sock) = Sent(off))'
    <3>1. Sent(off)' = off[L] + (arrived + k)
      BY <1>0, <1>4, Zenon DEF Sent
    <3>2. \A x, y, u, v, z \in Nat : x + y = u + v => x + (y + z) = u + (v + z)
      OBVIOUS
    <3>3. r + (Len(sock) + k) = off[L] + (arrived + k)
      BY <1>2, <1>11, <3>2
    <3> QED  BY <1>10, <3>1, <3>3
  <2>2. ASSUME NEW i \in 1 .. (Len(sock) + k)  PROVE ByteAt(off, r + i, sock'[i])
    <3>1. CASE i <= Len(sock)
      <4>1. i \in 1 .. Len(sock)
        BY <1>2, <3>1
      <4>2. ByteAt(off, r + i, sock[i])
        BY <1>1, <4>1 DEF StreamInv
      <4>3. sock'[i] = sock[i]
        BY <1>10, <3>1
      <4> QED  BY <4>2, <4>3, Zenon
    <3>2. CASE Len(sock) < i
      <4>1. PICK x \in 1 .. k : x = i - Len(sock) /\ i = Len(sock) + x
        BY <1>2, <3>2
      <4>2. sock'[i] = q[x]
        BY <1>2, <1>10, <3>2, <4>1
      <4>3. sock'[i] = <<L, arrived + x>>
        BY <1>9, <4>2
      <4>4. x \in Nat /\ arrived + x \in 1 .. stream[L].len
        BY <1>2, <1>5
      <4>5. off[L] + (arrived + x) = r + i
        <5>1. \A u, v, w, y, z \in Nat : u + v = w + y => w + (y + z) = u + (v + z)
          OBVIOUS
        <5>2. off[L] + (arrived + x) = r + (Len(sock) + x)
          <6>1. r \in Nat /\ Len(sock) \in Nat /\ off[L] \in Nat /\ arrived \in Nat /\ x \in Nat
            BY <1>2, <1>11, <4>4
          <6>2. r + Len(sock) = off[L] + arrived
            BY <1>11
          <6> QED  BY <5>1, <6>1, <6>2
        <5> QED  BY <4>1, <5>2
      <4> QED  BY <4>3, <4>4, <4>5, Zenon DEF ByteAt
    <3>3. i \in Nat
      BY <1>2
    <3> QED  BY <1>2, <3>1, <3>2, <3>3
  <2>3. \A i \in 1 .. Len(sock') : ByteAt(off, r + i, sock[i])'
    <3>1. \A i \in 1 .. Len(sock') : ByteAt(off, r + i, sock'[i])
      BY <1>10, <2>2
    <3> QED  BY <1>0, <3>1 DEF ByteAt, Streamed
  <2>4. /\ \A m \in Nat : off[m] \in Nat
        /\ off[1] = 0
        /\ \A m \in Streamed : off[m + 1] = off[m] + stream[m].len
        /\ \A m, n \in 1 .. (Len(stream) + 1) : m <= n => off[m] <= off[n]
    BY <1>1 DEF StreamInv
  <2>5. (stream # <<>> => arrived <= stream[Len(stream)].len)'
    BY <1>0
  <2>6. stream' = stream /\ Streamed' = Streamed
    BY <1>0 DEF Streamed
  <2> QED  BY <2>1, <2>3, <2>4, <2>5, <2>6 DEF StreamInv
<1>14. HdrInv' = HdrInv /\ Filled(HdrLen)' = Filled(HdrLen) /\ Filled(length1)' = Filled(length1)
       /\ Filled(CurLen)' = Filled(CurLen) /\ Short' = Short
  BY <1>0 DEF HdrInv, Cur, CurLen, Streamed, Filled, Short, Body
<1>15. PlaceInv(off, r)'
  BY <1>0, <1>14 DEF Inv, PlaceInv, AtNew, AtHeader, AtStart, AtBody, AtWait, AtComplete, AtDrain, AtStuck,
                    Cur, CurLen, Body
<1>16. ~misled' => BufInv'
  BY <1>0, <1>14 DEF Inv, BufInv
<1>17. ~misled' => HandInv(off, r)'
  BY <1>0, <1>1, HandStays DEF Inv
<1> QED  BY <1>12, <1>13, <1>15, <1>16, <1>17 DEF Inv

-----------------------------------------------------------------------------
(* The theorems.                                                            *)

\* Nothing is sent, read or handed over.
LEMMA InitInv == Init => InvExists
<1> SUFFICES ASSUME Init  PROVE InvExists
  OBVIOUS
<1> DEFINE off == [m \in Nat |-> 0]
<1>0. off \in [Nat -> Nat] /\ 0 \in Nat
  OBVIOUS
<1>1. /\ Len(stream) = 0 /\ Len(sock) = 0 /\ Len(hdr) = 0 /\ Len(handed) = 0
      /\ sock \in Seq(Byte) /\ hdr \in Seq(Byte)
      /\ stream \in Seq([len : Lens, kind : Kinds])
      /\ handed \in Seq([msg : Nat, data : Seq(Byte)]) /\ buf \in Seq(Byte)
  BY EmptySeq DEF Init, NoBuf
<1>2. Types
  <2>1. /\ 0 \in 0 .. (Byte8 - 1) /\ 0 \in 0 .. Uint16 /\ 0 \in 0 .. (Uint16 - 1)
        /\ 0 \in 0 .. WaitLimit /\ 0 <= HdrLen
    BY Constants
  <2> QED  BY <1>1, <2>1 DEF Init, Types, TypeOK
<1>3. Streamed = {} /\ 1 .. Len(sock) = {} /\ 1 .. Len(handed) = {} /\ 1 .. Len(hdr) = {}
  BY <1>1 DEF Streamed
<1>4. \A m, n \in 1 .. (Len(stream) + 1) : off[m] = 0 /\ off[n] = 0 /\ m \in Nat
  BY <1>1
<1>5. StreamInv(off, 0)
  BY <1>0, <1>1, <1>3, <1>4 DEF Init, StreamInv, Sent
<1>6. PlaceInv(off, 0)
  <2>1. 1 \in 1 .. (Len(stream) + 1) /\ 0 = off[1]
    BY <1>1
  <2>2. AtNew(off, 0)
    BY <2>1 DEF Init, AtNew
  <2>3. HdrInv
    BY <1>3 DEF Init, HdrInv
  <2> QED  BY <2>2, <2>3 DEF PlaceInv
<1>7. BufInv
  BY DEF Init, BufInv
<1>8. HandInv(off, 0)
  BY <1>1, <1>3 DEF Init, HandInv
<1> HIDE DEF off
<1> QED  BY <1>0, <1>2, <1>5, <1>6, <1>7, <1>8 DEF InvExists, Inv

\* Every step keeps the count of the stream right.
LEMMA NextInv ==
  ASSUME InvExists, [Next]_vars
  PROVE  InvExists'
<1>1. PICK off \in [Nat -> Nat], r \in Nat : Inv(off, r)
  BY DEF InvExists
<1>2. SUFFICES \E o \in [Nat -> Nat], s \in Nat : Inv(o, s)'
  BY DEF InvExists
<1>3. ASSUME NEW len \in Lens, NEW kind \in Kinds, Send(len, kind)
      PROVE  \E o \in [Nat -> Nat], s \in Nat : Inv(o, s)'
  <2>1. \E o \in [Nat -> Nat] : Inv(o, r)'
    BY <1>1, <1>3, SendInv
  <2> QED  BY <2>1
<1>4. ASSUME NEW k \in 1 .. Uint16, Arrive(k)
      PROVE  \E o \in [Nat -> Nat], s \in Nat : Inv(o, s)'
  <2>1. Inv(off, r)'
    BY <1>1, <1>4, ArriveInv
  <2> QED  BY <2>1
<1>5. CASE OtherInvalid
  BY <1>1, <1>5, OtherInvalidInv
<1>6. CASE Thread
  <2>1. \/ ReadInvalid \/ WaitInvalid \/ ProcessNone \/ ProcessAlloc \/ ProcessDiscard \/ HandOver
        \/ ReadBodyEmpty \/ DrainEmpty
        => Inv(off, r)'
    BY <1>1, ReadInvalidInv, WaitInvalidInv, ProcessNoneInv, ProcessAllocInv, ProcessDiscardInv,
       HandOverInv, ReadBodyEmptyInv, DrainEmptyInv
  <2>2. ReadOtherVersion \/ ReadHeader \/ ReadRest \/ ReadBody \/ Drain => \E s \in Nat : Inv(off, s)'
    BY <1>1, ReadOtherVersionInv, ReadHeaderInv, ReadRestInv, ReadBodyInv, DrainInv
  <2> QED  BY <1>1, <1>6, <2>1, <2>2 DEF Thread
<1>7. CASE UNCHANGED vars
  <2>0. /\ stream' = stream /\ arrived' = arrived /\ sock' = sock /\ msg_state' = msg_state
        /\ hdr' = hdr /\ msg_len_read' = msg_len_read /\ buf' = buf /\ length1' = length1
        /\ event' = event /\ todo' = todo /\ invalid' = invalid /\ open' = open /\ pc' = pc
        /\ handed' = handed /\ missed' = missed /\ misled' = misled
    BY <1>7 DEF vars, source, reader
  <2>1. Types'
    BY <1>1, <2>0 DEF Inv, Types, TypeOK
  <2>2. StreamInv(off, r)'
    BY <1>1, <2>0, StreamStays DEF Inv, source
  <2>3. HdrInv' = HdrInv /\ Filled(HdrLen)' = Filled(HdrLen) /\ Filled(length1)' = Filled(length1)
        /\ Filled(CurLen)' = Filled(CurLen) /\ Short' = Short
    BY <2>0 DEF HdrInv, Cur, CurLen, Streamed, Filled, Short, Body
  <2>4. PlaceInv(off, r)'
    BY <1>1, <2>0, <2>3 DEF Inv, PlaceInv, AtNew, AtHeader, AtStart, AtBody, AtWait, AtComplete, AtStuck,
                            AtDrain, Cur, CurLen, Body
  <2>5. ~misled' => BufInv'
    BY <1>1, <2>0, <2>3 DEF Inv, BufInv
  <2>6. ~misled' => HandInv(off, r)'
    BY <1>1, <2>0, HandStays DEF Inv
  <2>7. Inv(off, r)'
    BY <2>1, <2>2, <2>4, <2>5, <2>6 DEF Inv
  <2> QED  BY <1>1, <2>7
<1> QED  BY <1>3, <1>4, <1>5, <1>6, <1>7 DEF Next

\* The reader's place in the stream is counted right through every read, drain and
\* reset, until a length is used in the wrong byte order.
THEOREM ReaderInvariant == Spec => []InvExists
<1>1. InvExists /\ [Next]_vars => InvExists'
  BY NextInv
<1> QED  BY <1>1, InitInv, PTL DEF Spec

\* The types of every variable: no count of the reader leaves its range, whatever the
\* build's byte order makes of the lengths.
THEOREM TypeCorrect == Spec => []TypeOK
<1>1. InvExists => TypeOK
  BY DEF InvExists, Inv, Types
<1> QED  BY <1>1, ReaderInvariant, PTL

\* The reader loses its place in the stream only through a body that was not there when
\* it was read or drained, one of an unknown type or version (of_cntlr_msg.c:782, 891,
\* 3442, 3912-3982), or a length used in the wrong byte order (channel_fsm.c:318, 359,
\* 726): bodies of any length, one that the uint8_t cannot count included.
THEOREM StaysInStep == Spec => []InStep
<1>1. InvExists => InStep
  BY DEF InvExists, Inv, PlaceInv, InStep, AtNew, AtHeader, AtStart, AtBody, AtWait, AtComplete,
         AtDrain, AtStuck
<1> QED  BY <1>1, ReaderInvariant, PTL

\* Until a length is used in the wrong byte order handlers are given the messages the
\* switch sent in order, however they were cut, and byte for byte where msg_len_read can
\* count the body (channel_fsm.c:341-381, of_cntlr_msg.c:796-829).
THEOREM HandsIntact == Spec => []HandedIntact
<1>1. InvExists => HandedIntact
  <2> SUFFICES ASSUME NEW off, NEW r, Types, HandInv(off, r)  PROVE HandedIntact
    BY DEF InvExists, Inv, HandedIntact
  <2>1. DOMAIN handed = 1 .. Len(handed)
    BY LenProperties DEF Types
  <2> QED  BY <2>1 DEF HandInv, HandedIntact
<1> QED  BY <1>1, ReaderInvariant, PTL
=============================================================================
