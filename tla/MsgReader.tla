------------------------------ MODULE MsgReader ------------------------------
(***************************************************************************)
(* How messages of a switch are put together on one bound channel:          *)
(* fsm_xprt_proto_channel_read (transport/base/channel_fsm.c) reads the     *)
(* header, in pieces if need be, and resumes a body that came in pieces;    *)
(* the handlers of messages/of_cntlr_msg.c allocate a buffer and make the   *)
(* first read of the body; a body that is not wanted, or cannot be read, is *)
(* drained.  The socket does not block, and epoll reports it as long as it  *)
(* holds a byte.                                                            *)
(*                                                                         *)
(* Every recv is a step, so bytes may arrive between any two.  A byte is    *)
(* the message it belongs to and its place in it.  Headers have HdrLen      *)
(* bytes and a byte has Byte8 values (8 and 256 in the code), so that the   *)
(* length field has Byte8 squared.  What a header made of other bytes says  *)
(* is arbitrary: a reader that is out of step is not followed any further.  *)
(* The version of the second kind (FSLX) and the end of the connection by   *)
(* the peer (Channel) are left out.                                         *)
(***************************************************************************)
EXTENDS Naturals, Sequences

CONSTANTS MaxMsg,       \* bound: messages the switch sends
          Lens,         \* their lengths
          Kinds,        \* "async", "sync": read by of_alloc_and_read_async_message or
                        \* of_alloc_and_read_message_from_dp; "none": a type without
                        \* handler; "unknown": not a type; "version": another version
          HdrLen,       \* sizeof(struct ofp_header)
          Byte8,        \* the values of uint8_t
          DrainLen,     \* OF_SOCKET_BUFFER_READ_LENGTH_FOR_DRAIN_OUT
          StartLimit, WaitLimit,   \* 5 and 10: what invalid_channel_state_g may reach
          BigEndian,    \* the build's byte order
          MayDiscard    \* whether a buffer may be missing, or a reply's transaction gone

Uint16 == Byte8 * Byte8

ASSUME MsgReaderAssumption ==
  /\ MaxMsg \in Nat /\ HdrLen \in Nat \ {0} /\ Byte8 \in Nat \ {0} /\ DrainLen \in Nat \ {0}
  /\ Lens \subseteq HdrLen .. (Uint16 - 1)
  /\ Kinds \subseteq {"async", "sync", "none", "unknown", "version"}
  /\ StartLimit \in Nat /\ WaitLimit \in Nat /\ StartLimit <= WaitLimit
  /\ BigEndian \in BOOLEAN /\ MayDiscard \in BOOLEAN

VARIABLES
  stream,       \* the messages sent so far, the last one perhaps in part
  arrived,      \* the bytes of the last one that have arrived
  sock,         \* the bytes in the socket
  msg_state,    \* OF_CHN_WAITING_FOR_NEW_MSG, _WAITING_FOR_MSG_HEADER, _START_READING_MSG,
                \* _WAITING_FOR_COMPLETE_MSG, _RCVD_COMPLETE_MSG, _DRAIN_OUT_COMPLETE_MSG
  hdr,          \* msg_hdr: its first hdr_len_read bytes
  msg_len_read, \* an uint8_t
  buf, length1, \* the message buffer and desc.length1
  event,        \* fsm_event: "read" or "fail"
  todo,         \* bytes_to_read of a drain
  invalid,      \* invalid_channel_state_g, counted to WaitLimit
  open,         \* the channel has not been closed
  pc,           \* where the thread is
  handed,       \* what the handlers were given (history)
  missed,       \* a body was not there when it was read, or was not read (history)
  misled        \* a length was used that ntohs would have changed (history)

source == <<stream, arrived>>
reader == <<msg_state, hdr, msg_len_read, buf, length1, event, todo>>
vars == <<source, sock, reader, invalid, open, pc, handed, missed, misled>>

NoByte == <<0, 0>>
NoBuf == <<>>

Least(a, b) == IF a < b THEN a ELSE b
Front(n) == SubSeq(sock, 1, Least(n, Len(sock)))
Taken(n) == SubSeq(sock, Least(n, Len(sock)) + 1, Len(sock))

\* The message whose header has been read.
Cur == hdr[1][1]
CurLen == stream[Cur].len
Kind == stream[Cur].kind
Body == CurLen - HdrLen
Message(m) == [i \in 1 .. stream[m].len |-> <<m, i>>]

\* The length field without ntohs.
HostLen == IF BigEndian THEN CurLen ELSE (CurLen % Byte8) * Byte8 + CurLen \div Byte8

\* Whoever uses it is misled if that makes a difference.
Misled == misled' = (misled \/ HostLen # CurLen)

\* The difference of two lengths as the uint16_t parameter that it is passed in.
Sub16(a, b) == (a + Uint16 - b) % Uint16

Init ==
  /\ stream = <<>> /\ arrived = 0 /\ sock = <<>>
  /\ msg_state = "new" /\ hdr = <<>> /\ msg_len_read = 0
  /\ buf = NoBuf /\ length1 = 0 /\ event = "read" /\ todo = 0
  /\ invalid = 0 /\ open = TRUE /\ pc = "epoll"
  /\ handed = <<>> /\ missed = FALSE /\ misled = FALSE

-----------------------------------------------------------------------------
(* The switch, and the other channels.                                      *)

\* The next message is begun.
Send(len, kind) ==
  /\ Len(stream) < MaxMsg
  /\ stream # <<>> => arrived = stream[Len(stream)].len
  /\ stream' = Append(stream, [len |-> len, kind |-> kind])
  /\ arrived' = 0
  /\ UNCHANGED <<sock, reader, invalid, open, pc, handed, missed, misled>>

\* k more of its bytes arrive.
Arrive(k) ==
  /\ stream # <<>> /\ arrived + k <= stream[Len(stream)].len
  /\ sock' = sock \o SubSeq(Message(Len(stream)), arrived + 1, arrived + k)
  /\ arrived' = arrived + k
  /\ UNCHANGED <<stream, reader, invalid, open, pc, handed, missed, misled>>

\* The counter is shared by all channels and never set back.
OtherInvalid ==
  /\ invalid < WaitLimit /\ invalid' = invalid + 1
  /\ UNCHANGED <<source, sock, reader, open, pc, handed, missed, misled>>

-----------------------------------------------------------------------------
(* epoll reports the socket: of_read_and_process_msg_from_dp.               *)

Polled == open /\ pc = "epoll" /\ sock # <<>> /\ event' = "read"

\* OF_TRNSPRT_CHN_RESET_2_READ_NEW_MSG
Reset == msg_state' = "new" /\ hdr' = <<>> /\ buf' = NoBuf

\* Mutant: a whole header is asked for again.
HeaderAskWhole == HdrLen

\* What a read of the header asks for.
HeaderAsk == IF msg_state = "new" THEN HdrLen ELSE HdrLen - Len(hdr)

\* The header as far as it is read, and whether it is one.
HeaderRead == (IF msg_state = "new" THEN <<>> ELSE hdr) \o Front(HeaderAsk)
Aligned(h) == \A i \in DOMAIN h : h[i] = <<h[1][1], i>>

\* The version is the first byte of a header: what was read of one of another version
\* is forgotten, complete or not.
OtherVersion == msg_state = "new" /\ sock[1][2] = 1 /\ stream[sock[1][1]].kind = "version"

ReadOtherVersion ==
  /\ Polled /\ OtherVersion
  /\ sock' = Taken(HdrLen) /\ msg_len_read' = 0 /\ Reset
  /\ missed' = (missed \/ stream[sock[1][1]].len > Len(Front(HdrLen)))
  /\ UNCHANGED <<source, length1, todo, invalid, open, pc, handed, misled>>

ReadHeader ==
  /\ Polled /\ msg_state \in {"new", "header"} /\ ~OtherVersion
  /\ hdr' = HeaderRead /\ sock' = Taken(HeaderAsk)
  /\ msg_len_read' = IF msg_state = "new" THEN 0 ELSE msg_len_read
  /\ IF Len(HeaderRead) = HdrLen
     THEN msg_state' = "start" /\ buf' = NoBuf
     ELSE msg_state' = "header" /\ UNCHANGED buf
  /\ pc' = IF ~Aligned(HeaderRead) THEN "lost"
           ELSE IF Len(HeaderRead) = HdrLen THEN "process" ELSE "epoll"
  /\ UNCHANGED <<source, length1, todo, invalid, open, handed, missed, misled>>

\* Mutant: the event is not counted.
CountInvalidNot == invalid' = invalid

CountInvalid == invalid' = IF invalid < WaitLimit THEN invalid + 1 ELSE invalid

\* The last message was left in a state that no read expects.  The channel is closed
\* from the fifth time on; else the message is given to its handler once more.
ReadInvalid ==
  /\ Polled /\ msg_state \in {"start", "drain"}
  /\ CountInvalid
  /\ open' = (invalid' < StartLimit)
  /\ pc' = IF open' /\ msg_state = "start" THEN "process" ELSE "epoll"
  /\ UNCHANGED <<source, sock, msg_state, hdr, msg_len_read, buf, length1, todo, handed, missed, misled>>

\* The rest of a body is waited for and nothing of it is counted as read.
WaitInvalid ==
  /\ Polled /\ msg_state = "wait" /\ msg_len_read = 0
  /\ CountInvalid
  /\ open' = (invalid' < WaitLimit)
  /\ UNCHANGED <<source, sock, msg_state, hdr, msg_len_read, buf, length1, todo, pc, handed, missed, misled>>

\* Mutant: the bytes are put where the last read put its own.
StoredAgain(bytes) ==
  [i \in DOMAIN buf |-> IF i - HdrLen \in DOMAIN bytes THEN bytes[i - HdrLen] ELSE buf[i]]

\* Bytes are put at ptr1 + msg_len_read; what lies behind the buffer is not modelled.
Stored(bytes) ==
  [i \in DOMAIN buf |-> IF i - HdrLen - msg_len_read \in DOMAIN bytes
                        THEN bytes[i - HdrLen - msg_len_read] ELSE buf[i]]

\* The rest of the body is read, or a part of it.
ReadRest ==
  /\ Polled /\ msg_state = "wait" /\ msg_len_read # 0
  /\ LET n == Sub16(HostLen, length1)
         k == Len(Front(n))
     IN  /\ sock' = Taken(n)
         /\ buf' = Stored(Front(n))
         /\ IF k = n /\ length1 <= HostLen
            THEN /\ msg_state' = "complete" /\ pc' = "process"
                 /\ UNCHANGED <<length1, msg_len_read>>
            ELSE /\ length1' = length1 + k
                 /\ msg_len_read' = (msg_len_read + k) % Byte8
                 /\ UNCHANGED <<msg_state, pc>>
  /\ Misled
  /\ UNCHANGED <<source, hdr, todo, invalid, open, handed, missed>>

-----------------------------------------------------------------------------
(* of_process_dp_message and the handlers.                                  *)

\* A type without handler is left as it is; an unknown one is forgotten, and its
\* body left in the socket.
ProcessNone ==
  /\ pc = "process" /\ msg_state = "start" /\ Kind \in {"none", "unknown"}
  /\ IF Kind = "unknown" THEN Reset ELSE UNCHANGED <<msg_state, hdr, buf>>
  /\ missed' = (missed \/ (Kind = "unknown" /\ Body > 0))
  /\ pc' = "epoll"
  /\ UNCHANGED <<source, sock, msg_len_read, length1, event, todo, invalid, open, handed, misled>>

\* The buffer is allocated and holds the header.
ProcessAlloc ==
  /\ pc = "process" /\ msg_state = "start" /\ Kind \in {"async", "sync"}
  /\ buf' = [i \in 1 .. CurLen |-> IF i <= HdrLen THEN hdr[i] ELSE NoByte]
  /\ length1' = HdrLen
  /\ IF Body = 0
     THEN msg_state' = "complete" /\ UNCHANGED pc
     ELSE /\ msg_state' = IF Kind = "async" THEN "wait" ELSE "start"
          /\ pc' = "body"
  /\ UNCHANGED <<source, sock, hdr, msg_len_read, event, todo, invalid, open, handed, missed, misled>>

\* Mutant: the header is drained once more.
DiscardLenWhole == CurLen

\* What is drained of a message that is not wanted (a head room is never configured).
DiscardLen == Body

\* No buffer, or no transaction for a reply: the body is drained.
ProcessDiscard ==
  /\ MayDiscard
  /\ pc = "process" /\ msg_state = "start" /\ Kind \in {"async", "sync"} /\ Body > 0
  /\ todo' = DiscardLen /\ pc' = "drain"
  /\ UNCHANGED <<source, sock, msg_state, hdr, msg_len_read, buf, length1, event, invalid, open, handed, missed, misled>>

\* The first read of the body, right after the header.
ReadBody ==
  /\ pc = "body" /\ sock # <<>>
  /\ LET k == Len(Front(Body))
     IN  /\ sock' = Taken(Body)
         /\ buf' = [i \in DOMAIN buf |-> IF i - HdrLen \in 1 .. k THEN sock[i - HdrLen] ELSE buf[i]]
         /\ IF k = Body
            THEN /\ msg_state' = "complete" /\ pc' = "process"
                 /\ UNCHANGED <<length1, msg_len_read>>
            ELSE /\ msg_state' = "wait" /\ pc' = "epoll"
                 /\ length1' = length1 + k
                 /\ msg_len_read' = IF Kind = "async" THEN k % Byte8 ELSE msg_len_read
  /\ UNCHANGED <<source, hdr, event, todo, invalid, open, handed, missed, misled>>

\* The first read of the body finds the socket empty (EAGAIN): the read error handler
\* drains the body, and the buffer is given up afterwards.
ReadBodyEmpty ==
  /\ pc = "body" /\ sock = <<>>
  /\ msg_state' = "drain" /\ event' = "fail"
  /\ todo' = Sub16(HostLen, HdrLen)
  /\ pc' = IF todo' = 0 THEN "epoll" ELSE "drain"
  /\ buf' = NoBuf
  /\ missed' = TRUE /\ Misled
  /\ UNCHANGED <<source, sock, hdr, msg_len_read, length1, invalid, open, handed>>

\* of_drain_out_socket_buf: up to DrainLen bytes are thrown away.
Drain ==
  /\ pc = "drain" /\ sock # <<>>
  /\ LET n == Least(todo, DrainLen)
     IN  /\ sock' = Taken(n)
         /\ todo' = todo - Len(Front(n))
         /\ IF todo' = 0 THEN Reset /\ pc' = "epoll"
                         ELSE UNCHANGED <<msg_state, hdr, buf, pc>>
  /\ UNCHANGED <<source, msg_len_read, length1, event, invalid, open, handed, missed, misled>>

\* The socket is empty.  The first time the read error handler drains the whole body;
\* the second time the reader goes back to wait for a new message.
DrainEmpty ==
  /\ pc = "drain" /\ sock = <<>>
  /\ IF event = "read"
     THEN /\ event' = "fail" /\ msg_state' = "drain"
          /\ todo' = Sub16(HostLen, HdrLen) /\ Misled
          /\ UNCHANGED <<hdr, buf, pc>>
     ELSE /\ Reset /\ pc' = "epoll" /\ todo' = 0
          /\ UNCHANGED <<event, misled>>
  /\ missed' = TRUE
  /\ UNCHANGED <<source, sock, msg_len_read, length1, invalid, open, handed>>

\* The message is complete: its handler is given the buffer.
HandOver ==
  /\ pc = "process" /\ msg_state = "complete"
  /\ handed' = Append(handed, [msg |-> Cur, data |-> buf])
  /\ Reset /\ pc' = "epoll"
  /\ UNCHANGED <<source, sock, msg_len_read, length1, event, todo, invalid, open, missed, misled>>

Thread == \/ ReadOtherVersion \/ ReadHeader \/ ReadInvalid \/ WaitInvalid \/ ReadRest
          \/ ProcessNone \/ ProcessAlloc \/ ProcessDiscard \/ HandOver
          \/ ReadBody \/ ReadBodyEmpty \/ Drain \/ DrainEmpty

Next == \/ \E len \in Lens, kind \in Kinds : Send(len, kind)
        \/ \E k \in 1 .. Uint16 : Arrive(k)
        \/ OtherInvalid
        \/ Thread

Spec == Init /\ [][Next]_vars

\* The thread runs on and serves its events; the switch ends a message it has begun.
Fairness == WF_vars(Thread) /\ WF_vars(\E k \in 1 .. Uint16 : Arrive(k))

LiveSpec == Spec /\ Fairness

-----------------------------------------------------------------------------
(* Properties.                                                              *)

\* Every variable has its type.
TypeOK ==
  /\ stream \in Seq([len : Lens, kind : Kinds]) /\ arrived \in Nat
  /\ msg_state \in {"new", "header", "start", "wait", "complete", "drain"}
  /\ Len(hdr) <= HdrLen /\ msg_len_read \in 0 .. (Byte8 - 1)
  /\ length1 \in Nat /\ todo \in 0 .. (Uint16 - 1)
  /\ event \in {"read", "fail"} /\ invalid \in 0 .. WaitLimit
  /\ open \in BOOLEAN /\ missed \in BOOLEAN /\ misled \in BOOLEAN
  /\ pc \in {"epoll", "process", "body", "drain", "lost"}

\* What a handler is given are messages the switch sent, in the order it sent them,
\* and byte for byte, however header and body were cut into pieces: the first read of
\* the body and all resumed ones put their bytes side by side (channel_fsm.c:341-381,
\* of_cntlr_msg.c:796-829).  Not so for a body that msg_len_read cannot count, and no
\* more once a length was used in the wrong byte order (channel_fsm.c:318).
HandedIntact ==
  ~misled =>
    \A i \in DOMAIN handed :
      /\ stream[handed[i].msg].len - HdrLen <= Byte8 => handed[i].data = Message(handed[i].msg)
      /\ \A j \in 1 .. (i - 1) : handed[j].msg < handed[i].msg

\* The reader gets out of step with the stream only through a body that was not there
\* when its first read, or its drain, came to it, one of an unknown type or version, or
\* a length used in the wrong byte order (channel_fsm.c:318, 359, 726): messages
\* without buffer, without transaction or in several pieces do not cost the next
\* message (of_cntlr_msg.c:782, 891, 3442, 3912-3982).
InStep == pc = "lost" => missed \/ misled

\* A message that is waited for is completed, or the channel is closed: also the one
\* whose bytes are not counted and that is never resumed (channel_fsm.c:319-335).
\* Only a length used in the wrong byte order makes the reader wait for bytes that
\* the message does not have.
WaitEnds == (open /\ msg_state = "wait") ~> (msg_state # "wait" \/ ~open \/ misled)
=============================================================================
