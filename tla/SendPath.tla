------------------------------- MODULE SendPath -------------------------------
(***************************************************************************)
(* How messages leave on one channel: transport/base/trnsprt_core.c.  Any   *)
(* thread writes directly to the socket while no message is waiting; what   *)
(* the socket does not take is put on the channel's list of waiting         *)
(* messages, and the thread that owns the channel drains that list when     *)
(* epoll reports POLLOUT.  Only the owner may change the epoll set, so      *)
(* another thread asks it to by a datagram on the channel's loopback        *)
(* socket; epoll_wr_enabled and bSendEvent keep it from asking twice.       *)
(* None of the flags is under a lock.                                       *)
(*                                                                         *)
(* A thread's call is split at every access to what other threads write:    *)
(* the list (its count is read without the lock), the socket (fd_lock), the *)
(* two flags.  A message is Chunks equal pieces; a write sends any number   *)
(* of those that are left.  A released message buffer reads as a message    *)
(* of length 0, which is what the pool's memset leaves in a block of the    *)
(* pool (utils/memory/mheap/mheapapi.c 407).                                *)
(***************************************************************************)
EXTENDS Naturals, Sequences, FiniteSets

CONSTANTS MaxMsg,       \* bound: the messages handed over, numbered in that order
          Chunks,       \* the pieces of a message
          Sender,       \* threads other than the owner that send
          Owner,        \* the transport thread the channel belongs to
          OwnerSends,   \* whether the owner sends messages of its own
          Faults        \* whether calloc and sendto may fail

Msg == 1 .. MaxMsg
NoMsg == 0
Thread == Sender \cup {Owner}

ASSUME SendPathAssumption ==
  /\ MaxMsg \in Nat /\ Chunks \in Nat \ {0}
  /\ Owner \notin Sender
  /\ OwnerSends \in BOOLEAN /\ Faults \in BOOLEAN

VARIABLES
  open,         \* trnsprt_fd is not -1
  list,         \* send_msg_list: the waiting messages and their length_sent
  enabled,      \* channel->epoll_wr_enabled
  pollout,      \* the epoll set has POLLOUT for the channel's fd
  bSendEvent,   \* msg_q_box->bSendEvent
  events,       \* EPOLL_EVENT_RCVD datagrams the owner has not read
  pc, msg, off, \* where a thread is, its message and the bytes of it sent
  stuck,        \* threads that left a call with the RCU read lock taken
  frees,        \* how often every message buffer was released
  gone,         \* the channel's memory has been released
  accepted,     \* the messages every thread has handed over (history)
  wire,         \* the chunks written to the socket (history)
  lost          \* messages dropped because no list node could be had (history)

flags == <<enabled, pollout, bSendEvent, events>>
local == <<pc, msg, off>>
vars == <<open, list, flags, local, stuck, frees, gone, accepted, wire, lost>>

SenderPc == {"idle", "write", "append", "arm", "signal", "unflag"}
OwnerPc  == {"idle", "write", "append", "arm", "drain", "pop", "check", "disarm", "event"}

S == INSTANCE Stream WITH up <- open, dropped <- lost

Goto(t, p) == pc' = [pc EXCEPT ![t] = p]
Leave(t) == /\ Goto(t, "idle")
            /\ msg' = [msg EXCEPT ![t] = NoMsg]
            /\ off' = [off EXCEPT ![t] = 0]
Release(m) == frees' = [frees EXCEPT ![m] = @ + 1]

Init ==
  /\ open = TRUE /\ gone = FALSE
  /\ list = <<>>
  /\ enabled = FALSE /\ pollout = FALSE /\ bSendEvent = TRUE /\ events = 0
  /\ pc = [t \in Thread |-> "idle"]
  /\ msg = [t \in Thread |-> NoMsg]
  /\ off = [t \in Thread |-> 0]
  /\ stuck = {}
  /\ frees = [m \in Msg |-> 0]
  /\ accepted = [t \in Thread |-> <<>>]
  /\ wire = <<>>
  /\ lost = {}

-----------------------------------------------------------------------------
(* A thread sends a message.                                                *)

\* Mutant: the socket is tried although messages are waiting.
SendOvertakes(t, m) ==
  /\ pc[t] = "idle" /\ ~gone
  /\ t = Owner => OwnerSends
  /\ S!Handed = 1 .. (m - 1)
  /\ accepted' = [accepted EXCEPT ![t] = Append(@, m)]
  /\ msg' = [msg EXCEPT ![t] = m]
  /\ Goto(t, "write")
  /\ UNCHANGED <<open, list, flags, off, stuck, frees, gone, wire, lost>>

\* cntlr_tnsprt_send_msg_to_dp_channel: reads the count of waiting messages
\* and decides between the list and the socket.
SendMsg(t, m) ==
  /\ pc[t] = "idle" /\ ~gone
  /\ t = Owner => OwnerSends
  /\ S!Handed = 1 .. (m - 1)
  /\ accepted' = [accepted EXCEPT ![t] = Append(@, m)]
  /\ msg' = [msg EXCEPT ![t] = m]
  /\ Goto(t, IF Len(list) > 0 THEN "append" ELSE "write")
  /\ UNCHANGED <<open, list, flags, off, stuck, frees, gone, wire, lost>>

\* The chunks of m from a that the socket takes: k of them.  It takes none
\* when the fd is already closed.
Put(m, a, k) == wire' = wire \o S!Piece(m, a, k)

\* cntlr_tnsprt_try_2_send_msg_on_line for a new message: the socket takes
\* all of it and it is released; or a part and the rest is to wait; or the
\* peer has reset the connection, the channel is closed and the message
\* released.  With the fd closed errno is a stale one: either branch.
TrySend(t) ==
  /\ pc[t] = "write"
  /\ UNCHANGED <<list, flags, stuck, gone, accepted, lost>>
  /\ \/ /\ open
        /\ Put(msg[t], 0, Chunks) /\ Release(msg[t]) /\ Leave(t)
        /\ UNCHANGED open
     \/ \E k \in 0 .. (Chunks - 1) :
          /\ k > 0 => open
          /\ Put(msg[t], 0, k)
          /\ off' = [off EXCEPT ![t] = k]
          /\ Goto(t, "append")
          /\ UNCHANGED <<open, msg, frees>>
     \/ \E k \in 0 .. (Chunks - 1) :
          /\ k > 0 => open
          /\ Put(msg[t], 0, k) /\ open' = FALSE
          /\ Release(msg[t]) /\ Leave(t)

\* Mutant: the node starts at 0, not at len_sent_currently.
AppendFromStart(t) ==
  /\ pc[t] = "append"
  /\ list' = Append(list, [msg |-> msg[t], sent |-> 0])
  /\ Goto(t, "arm")
  /\ UNCHANGED <<open, flags, msg, off, stuck, frees, gone, accepted, wire, lost>>

\* of_add_2_epoll_4_wr_event: the node is appended under the list's lock.
AppendMsg(t) ==
  /\ pc[t] = "append"
  /\ list' = Append(list, [msg |-> msg[t], sent |-> off[t]])
  /\ Goto(t, "arm")
  /\ UNCHANGED <<open, flags, msg, off, stuck, frees, gone, accepted, wire, lost>>

\* No memory for the node: the failure is only logged.
AppendFails(t) ==
  /\ Faults
  /\ pc[t] = "append"
  /\ lost' = lost \cup {msg[t]}
  /\ Leave(t)
  /\ UNCHANGED <<open, list, flags, stuck, frees, gone, accepted, wire>>

\* The owner changes the epoll set itself; modifying a closed fd fails.
ArmOwner ==
  IF ~enabled /\ open
  THEN enabled' = TRUE /\ pollout' = TRUE /\ UNCHANGED <<bSendEvent, events>>
  ELSE UNCHANGED flags

\* The rest of of_add_2_epoll_4_wr_event: nothing to do while POLLOUT is
\* believed to be on, else the owner arms it and another thread goes on to
\* cntlr_send_epoll_write_event_2_xprt_conn.
Arm(t) ==
  /\ pc[t] = "arm"
  /\ IF t # Owner /\ ~enabled
     THEN Goto(t, "signal") /\ UNCHANGED <<flags, msg, off>>
     ELSE /\ Leave(t)
          /\ IF t = Owner THEN ArmOwner ELSE UNCHANGED flags
  /\ UNCHANGED <<open, list, stuck, frees, gone, accepted, wire, lost>>

\* cntlr_send_epoll_write_event_2_xprt_conn: reads the flag again, and
\* returns with the read lock taken when it is now set; sends the datagram
\* when bSendEvent is set.
Signal(t) ==
  /\ pc[t] = "signal"
  /\ IF ~enabled /\ bSendEvent
     THEN /\ events' = events + 1
          /\ Goto(t, "unflag")
          /\ UNCHANGED <<msg, off, stuck>>
     ELSE /\ Leave(t)
          /\ stuck' = IF enabled THEN stuck \cup {t} ELSE stuck
          /\ UNCHANGED events
  /\ UNCHANGED <<open, list, enabled, pollout, bSendEvent, frees, gone, accepted, wire, lost>>

\* The socket cannot be created or the datagram not be sent.
SignalFails(t) ==
  /\ Faults
  /\ pc[t] = "signal"
  /\ ~enabled /\ bSendEvent
  /\ Leave(t)
  /\ UNCHANGED <<open, list, flags, stuck, frees, gone, accepted, wire, lost>>

\* bSendEvent is cleared after the datagram has been sent.
Unflag(t) ==
  /\ pc[t] = "unflag"
  /\ bSendEvent' = FALSE
  /\ Leave(t)
  /\ UNCHANGED <<open, list, enabled, pollout, events, stuck, frees, gone, accepted, wire, lost>>

-----------------------------------------------------------------------------
(* The owner's event loop.                                                  *)

\* Mutant: the event is handled without having been received.
HandleNoEvent ==
  /\ pc[Owner] = "idle" /\ ~gone
  /\ events' = events - 1
  /\ IF ~enabled /\ open
     THEN enabled' = TRUE /\ pollout' = TRUE
     ELSE UNCHANGED <<enabled, pollout>>
  /\ Goto(Owner, "event")
  /\ UNCHANGED <<open, list, bSendEvent, msg, off, stuck, frees, gone, accepted, wire, lost>>

\* cntlr_trnsprt_handle_ctrl_thread_msgs: EPOLL_EVENT_RCVD arms POLLOUT.
HandleEvent ==
  /\ pc[Owner] = "idle" /\ ~gone
  /\ events > 0
  /\ events' = events - 1
  /\ IF ~enabled /\ open
     THEN enabled' = TRUE /\ pollout' = TRUE
     ELSE UNCHANGED <<enabled, pollout>>
  /\ Goto(Owner, "event")
  /\ UNCHANGED <<open, list, bSendEvent, msg, off, stuck, frees, gone, accepted, wire, lost>>

\* and only then allows the next datagram.
EventDone ==
  /\ pc[Owner] = "event"
  /\ bSendEvent' = TRUE
  /\ Leave(Owner)
  /\ UNCHANGED <<open, list, enabled, pollout, events, stuck, frees, gone, accepted, wire, lost>>

\* of_handle_dp_msg on POLLOUT.
DrainBegin ==
  /\ pc[Owner] = "idle"
  /\ open /\ pollout
  /\ Goto(Owner, "drain")
  /\ UNCHANGED <<open, list, flags, msg, off, stuck, frees, gone, accepted, wire, lost>>

\* The head h is written from its length_sent on, to its end: it is taken
\* off next.  A message sent whole in this round has been released, one that
\* was resumed has not.
DrainWhole(h) ==
  /\ open
  /\ Put(h.msg, h.sent, Chunks - h.sent)
  /\ IF h.sent = 0 THEN Release(h.msg) ELSE UNCHANGED frees
  /\ Goto(Owner, "pop")
  /\ UNCHANGED <<open, list>>

\* A part of the rest is taken: length_sent grows and the loop ends.
DrainPart(h) ==
  \E k \in 0 .. (Chunks - h.sent - 1) :
    /\ k > 0 => open
    /\ Put(h.msg, h.sent, k)
    /\ list' = [list EXCEPT ![1].sent = @ + k]
    /\ Goto(Owner, "check")
    /\ UNCHANGED <<open, frees>>

\* Mutant: the loop ends with the released message still at the head.
DrainErrorStays(h) ==
  \E k \in 0 .. (Chunks - h.sent - 1) :
    /\ k > 0 => open
    /\ Put(h.msg, h.sent, k) /\ open' = FALSE
    /\ Release(h.msg)
    /\ Goto(Owner, "check")
    /\ UNCHANGED list

\* Any other error releases the message; its length then reads 0, which is
\* what makes the loop take it off.  The channel is closed.
DrainError(h) ==
  \E k \in 0 .. (Chunks - h.sent - 1) :
    /\ k > 0 => open
    /\ Put(h.msg, h.sent, k) /\ open' = FALSE
    /\ Release(h.msg)
    /\ Goto(Owner, "pop")
    /\ UNCHANGED list

\* One round of of_send_all_msgs_waiting_on_chn_to_dp.
DrainWrite ==
  /\ pc[Owner] = "drain" /\ list # <<>>
  /\ DrainWhole(list[1]) \/ DrainPart(list[1]) \/ DrainError(list[1])
  /\ UNCHANGED <<flags, msg, off, stuck, gone, accepted, lost>>

\* The increment of OF_LIST_REMOVE_HEAD_AND_SCAN: the head leaves the list.
DrainPop ==
  /\ pc[Owner] = "pop"
  /\ list' = Tail(list)
  /\ Goto(Owner, "drain")
  /\ UNCHANGED <<open, flags, msg, off, stuck, frees, gone, accepted, wire, lost>>

\* The loop ends when the list has no head.
DrainEmpty ==
  /\ pc[Owner] = "drain" /\ list = <<>>
  /\ Goto(Owner, "check")
  /\ UNCHANGED <<open, list, flags, msg, off, stuck, frees, gone, accepted, wire, lost>>

\* Mutant: POLLOUT is taken out although messages are waiting.
DrainCheckAlways ==
  /\ pc[Owner] = "check"
  /\ pollout' = FALSE /\ Goto(Owner, "disarm")
  /\ UNCHANGED <<msg, off>>
  /\ UNCHANGED <<open, list, enabled, bSendEvent, events, stuck, frees, gone, accepted, wire, lost>>

\* With nothing waiting POLLOUT is taken out of the epoll set,
DrainCheck ==
  /\ pc[Owner] = "check"
  /\ IF list = <<>>
     THEN pollout' = FALSE /\ Goto(Owner, "disarm") /\ UNCHANGED <<msg, off>>
     ELSE Leave(Owner) /\ UNCHANGED pollout
  /\ UNCHANGED <<open, list, enabled, bSendEvent, events, stuck, frees, gone, accepted, wire, lost>>

\* and then epoll_wr_enabled is cleared, without another look at the list.
Disarm ==
  /\ pc[Owner] = "disarm"
  /\ enabled' = FALSE
  /\ Leave(Owner)
  /\ UNCHANGED <<open, list, pollout, bSendEvent, events, stuck, frees, gone, accepted, wire, lost>>

\* The channel is closed for a reason of its own (see Channel).
CloseChannel ==
  /\ pc[Owner] = "idle" /\ open
  /\ open' = FALSE
  /\ UNCHANGED <<list, flags, local, stuck, frees, gone, accepted, wire, lost>>

\* cntlr_trnsprt_conn_close, the RCU callback: runs when no thread is in a
\* call; releases every waiting message.
FreeChannel ==
  /\ ~open /\ ~gone
  /\ \A t \in Thread : pc[t] = "idle"
  /\ stuck = {}
  /\ gone' = TRUE
  /\ bSendEvent' = FALSE
  /\ frees' = [m \in Msg |-> frees[m] + Cardinality({i \in DOMAIN list : list[i].msg = m})]
  /\ list' = <<>>
  /\ UNCHANGED <<open, enabled, pollout, events, local, stuck, accepted, wire, lost>>

SenderStep(t) == \/ TrySend(t) \/ AppendMsg(t) \/ AppendFails(t) \/ Arm(t)
                 \/ Signal(t) \/ SignalFails(t) \/ Unflag(t)
OwnerStep == \/ HandleEvent \/ EventDone \/ DrainBegin \/ DrainWrite \/ DrainPop
             \/ DrainEmpty \/ DrainCheck \/ Disarm

Next == \/ \E t \in Thread, m \in Msg : SendMsg(t, m)
        \/ \E t \in Thread : SenderStep(t)
        \/ OwnerStep
        \/ CloseChannel \/ FreeChannel

Spec == Init /\ [][Next]_vars

\* A thread inside a call runs on; the owner's loop serves its events; a peer
\* that keeps reading makes room again and again, so a drain that can run
\* again and again does not find a full socket for ever.
Fairness == /\ \A t \in Thread : WF_vars(SenderStep(t))
            /\ WF_vars(OwnerStep)
            /\ SF_vars(DrainWrite /\ wire' # wire)

LiveSpec == Spec /\ Fairness

-----------------------------------------------------------------------------
(* Properties.                                                              *)

\* Every variable has its type.
TypeOK ==
  /\ open \in BOOLEAN /\ gone \in BOOLEAN
  /\ list \in Seq([msg : Msg, sent : 0 .. Chunks])
  /\ enabled \in BOOLEAN /\ pollout \in BOOLEAN /\ bSendEvent \in BOOLEAN
  /\ events \in Nat
  /\ pc \in [Thread -> SenderPc \cup OwnerPc]
  /\ \A t \in Sender : pc[t] \in SenderPc
  /\ pc[Owner] \in OwnerPc
  /\ msg \in [Thread -> Msg \cup {NoMsg}]
  /\ off \in [Thread -> 0 .. Chunks]
  /\ stuck \subseteq Sender
  /\ frees \in [Msg -> Nat]
  /\ accepted \in [Thread -> Seq(Msg)]
  /\ wire \in Seq(Msg \X (1 .. Chunks))
  /\ lost \subseteq Msg

\* The places a message that has not left can be in.
InHand(m) == {t \in Thread : msg[t] = m /\ pc[t] \in {"write", "append"}}
Waiting(m) == {i \in DOMAIN list : list[i].msg = m /\ ~(i = 1 /\ pc[Owner] = "pop")}

\* No message is forgotten or held twice between the direct write, the list
\* and the drain, whichever thread gets in between: while the channel is open
\* a message that was handed over has left whole or is in exactly one place,
\* with its buffer not yet released and the bytes recorded as sent
\* (length_sent) exactly those the socket took.
Accounted ==
  open => \A m \in S!Handed \ lost :
    \/ S!Whole(m) /\ InHand(m) = {} /\ Waiting(m) = {}
    \/ \E t \in Thread : /\ InHand(m) = {t} /\ Waiting(m) = {}
                          /\ S!Out(m) = 1 .. off[t] /\ frees[m] = 0
    \/ \E i \in DOMAIN list : /\ Waiting(m) = {i} /\ InHand(m) = {}
                               /\ S!Out(m) = 1 .. list[i].sent /\ frees[m] = 0

\* A message buffer is released at most once, by the sender, by the drain or
\* by the channel's release, although all three can meet the same message
\* when the connection breaks.
ReleasedOnce == \A m \in Msg : frees[m] <= 1

\* The send path implements Stream: the messages of one thread leave in the
\* order it sent them and without a gap or a repetition, although some are
\* written by the thread and some by the owner.
StreamOK == S!SSpec

\* A message of the owner that has to wait leaves: the owner arms POLLOUT
\* itself, and no race on the flags can take it back before the list is empty.
OwnerServed ==
  \A m \in Msg : (pc[Owner] = "arm" /\ msg[Owner] = m) ~> (S!Whole(m) \/ ~open)

\* "Unable to send message adding to epoll to send it at later point of time"
\* (trnsprt_core.c 593): a message that waits is sent later.
WaitingSent ==
  \A m \in Msg : (\E i \in DOMAIN list : list[i].msg = m) ~> (S!Whole(m) \/ ~open)
=============================================================================
