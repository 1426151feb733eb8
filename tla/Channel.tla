------------------------------- MODULE Channel -------------------------------
(***************************************************************************)
(* The OpenFlow channels of the transport layer and the datapath entries   *)
(* they attach to: ofproto/src/transport/base/{channel_fsm,trnsprt_msg,     *)
(* trnsprt_channel,trnsprt_epoll}.c, with the echo messages of              *)
(* messages/of_symmetric_msgapi.c and coreapp/cntlr_app.c that drive the    *)
(* keep-alive.                                                              *)
(*                                                                         *)
(* A transport thread runs one handler at a time: an epoll handler or a     *)
(* timer callback of its channels; applications send from any thread, and   *)
(* the configuration thread deletes datapaths.  Two handlers hold no lock   *)
(* between steps that others can come between, and are several actions: the *)
(* features reply (attach, then keep-alive timer) and the deletion of a     *)
(* datapath (look up, DETACH handler, state).  Every other handler is one   *)
(* action, as if it were not interrupted.                                   *)
(* channel->state is left out: it says how far the handshake has come and   *)
(* only decides whether a HELLO is answered with one; the test of it in     *)
(* xprt_proto_channel_close says less than is_chn_added_2_hash_tbl there.   *)
(* A safe reference to a channel is the channel itself; it is valid while   *)
(* the channel is in the connection table.                                  *)
(* The C heap is never exhausted: the error timer_create_and_start has for  *)
(* that (-62) would pass its callers' test for OF_FAILURE (-1).             *)
(* The transport is TCP or TLS: accepted descriptors, and a                 *)
(* transport_close that cannot fail (tcp_api.c, tls_api.c).  Logging is at   *)
(* the level main.c sets, where the arguments of a log call are evaluated.  *)
(***************************************************************************)
EXTENDS Naturals, Sequences, FiniteSets

CONSTANTS Channel,      \* channel control blocks, each used for one connection
          Datapath,     \* datapath entries of DPRM
          Thread,       \* transport threads
          AuxId,        \* auxiliary ids a switch may announce; 0 is the main one
          MaxRetries,   \* OF_TRNSPRT_CHN_CONN_KEEP_ALIVE_MAX_RETRIES
          Outcome,      \* what can fail in a handler: registering a descriptor
                        \* with epoll, queueing a stop to another thread
          NoChannel, NoDp, App   \* null references; App is any other thread

ASSUME ChannelAssumption ==
  /\ NoChannel \notin Channel
  /\ NoDp \notin Datapath
  /\ App \notin Thread
  /\ Thread # {}
  /\ AuxId \subseteq Nat /\ 0 \in AuxId
  /\ MaxRetries \in Nat
  /\ Outcome \subseteq [epoll : BOOLEAN, queued : BOOLEAN]

VARIABLES ch,    \* cntlr_channel_info_t of every channel
          dpt,   \* the channel part of every struct dprm_datapath_entry
          fault  \* the null pointer or released block the process died of, or
                 \* the loop one of its threads never leaves; "none" till then

vars == <<ch, dpt, fault>>

\* Keep-alive bits of channel->keep_alive_state.
NOT_READY == 0
READY     == 1
SENT      == 2
RESP_RCVD == 4

KeepAlive == {NOT_READY, READY, SENT, RESP_RCVD, READY + RESP_RCVD, SENT + RESP_RCVD}

HasResp(k) == k >= RESP_RCVD
HasSent(k) == k \in {SENT, SENT + RESP_RCVD}

OrResp(k)  == IF HasResp(k) THEN k ELSE k + RESP_RCVD

ChannelRec ==
  [fsm    : {"init", "wait", "bound", "closed"},   \* channel->fsm_state
   added  : BOOLEAN,                    \* is_chn_added_to_dp
   dp     : Datapath \cup {NoDp},       \* channel->datapath and dp_handle
   aux    : AuxId,                      \* auxiliary_id
   hash   : BOOLEAN,                    \* in the connection table, descriptor open
   epoll  : {"none", "handshake", "dp"},   \* the handler its descriptor has
   ready  : BOOLEAN,                    \* is_dp_ready
   ka     : KeepAlive,                  \* keep_alive_state
   count  : 0 .. (MaxRetries + 1),      \* uiKeepAliveCount, saturated
   ktimer : {"off", "on", "stopping", "left"},  \* keepalive_timer (periodic);
                                        \* left: runs on, not stopped by a detach
   stray  : BOOLEAN,                    \* one more periodic timer runs, unnamed
   rtimer : {"off", "on", "stopping"},  \* keepalive_resptimer (one shot)
   busy   : BOOLEAN,                    \* its thread is inside the features reply
   thr    : Thread \cup {App},          \* channel->thread; App until it is assigned
   freed  : BOOLEAN,                    \* released by the RCU callback
   peer   : {"up", "mute", "gone"}]     \* the other end (environment)

DatapathRec ==
  [status  : {"absent", "live", "found", "detached", "deleted"},
   victim  : Channel \cup {NoChannel},  \* the main channel a deletion looked up
   present : BOOLEAN,                   \* is_main_conn_present
   main    : Channel \cup {NoChannel},  \* main_channel; NoChannel when zeroed
   active  : BOOLEAN,                   \* is_dp_active
   aux     : Seq(Channel)]              \* aux_channels .. aux_chn_tail

\* CNTLR_XPRT_CHANNEL_ALLOC zeroes the block; the defaults below are that block.
NewChannel(t) ==
  [fsm |-> "init", added |-> FALSE, dp |-> NoDp, aux |-> 0,
   hash |-> FALSE, epoll |-> "none", ready |-> FALSE, ka |-> NOT_READY, count |-> 0,
   ktimer |-> "off", stray |-> FALSE, rtimer |-> "off", busy |-> FALSE, thr |-> t,
   freed |-> FALSE, peer |-> "up"]

NewDatapath ==
  [status |-> "absent", victim |-> NoChannel, present |-> FALSE,
   main |-> NoChannel, active |-> FALSE, aux |-> << >>]

Init == /\ ch = [c \in Channel |-> NewChannel(App)]
        /\ dpt = [d \in Datapath |-> NewDatapath]
        /\ fault = "none"

Up == fault = "none"

Die(how) == fault' = how /\ UNCHANGED <<ch, dpt>>

\* The thread t is not inside the features reply of one of its channels.
Idle(t) == \A x \in Channel : ch[x].busy => ch[x].thr # t

\* The entry can be found in DPRM's table; a deletion takes it out last.
InDprm(d) == dpt[d].status \in {"live", "found", "detached"}

Listed(d, c) == \E i \in 1 .. Len(dpt[d].aux) : dpt[d].aux[i] = c

-----------------------------------------------------------------------------
(***************************************************************************)
(* Detach.  The keep-alive timers are stopped first: at once on the         *)
(* channel's own thread, by a request queued to it from any other one; when *)
(* there is no memory for the request the timer runs on.  The response      *)
(* timer is stopped only in the state SENT exactly.  The main channel's     *)
(* descriptor goes back to the handshake handler, and when that             *)
(* registration fails, as it does once the descriptor is closed, the rest   *)
(* of the detach is skipped.  What fails is the outcome o of the handler.   *)
(***************************************************************************)
StopTimer(status, owner, t, o) ==
  IF status \notin {"on", "left"} THEN status
  ELSE IF owner = t THEN "off" ELSE IF o.queued THEN "stopping" ELSE "left"

\* The response timer fires once in any case: a stop that is refused changes nothing.
StopResponse(status, owner, t, o) ==
  IF status # "on" THEN status
  ELSE IF owner = t THEN "off" ELSE IF o.queued THEN "stopping" ELSE "on"

\* Mutant: the periodic timer is stopped only while no echo is outstanding.
StopKeepAliveWhenReady(r, t, o) ==
  [r EXCEPT !.rtimer = IF r.ka = SENT THEN StopResponse(@, r.thr, t, o) ELSE @,
            !.ktimer = IF r.ka = READY THEN StopTimer(@, r.thr, t, o) ELSE @]

StopKeepAlive(r, t, o) ==
  [r EXCEPT !.rtimer = IF r.ka = SENT THEN StopResponse(@, r.thr, t, o) ELSE @,
            !.ktimer = IF r.ka >= READY THEN StopTimer(@, r.thr, t, o) ELSE @]

Detaches(r, o) == r.added /\ (r.aux # 0 \/ (o.epoll /\ r.hash))

DetachRec(r, t, o) ==
  IF ~ r.added THEN r
  ELSE LET s == StopKeepAlive(r, t, o) IN
       IF Detaches(r, o)
       THEN [s EXCEPT !.epoll = IF r.aux = 0 THEN "handshake" ELSE "none",
                      !.dp = NoDp, !.added = FALSE, !.fsm = "wait"]
       ELSE [s EXCEPT !.epoll = "none"]

\* Mutants: the reset of one of the three fields is lost.
ClearMainKeepsFlag(e) == [e EXCEPT !.active = FALSE, !.main = NoChannel]
ClearMainKeepsActive(e) == [e EXCEPT !.present = FALSE, !.main = NoChannel]

\* Every detach, of the main or of an auxiliary channel, clears the main fields.
ClearMain(e) == [e EXCEPT !.present = FALSE, !.active = FALSE, !.main = NoChannel]

\* Mutant: the node stays in the connection table.
CloseRecKeepsNode(r, t, o) ==
  [DetachRec(r, t, o) EXCEPT !.fsm = "closed", !.epoll = "none"]

(***************************************************************************)
(* xprt_proto_channel_close: detach, close the descriptor, leave the        *)
(* connection table once.                                                   *)
(***************************************************************************)
CloseRec(r, t, o) ==
  [DetachRec(r, t, o) EXCEPT !.fsm = "closed", !.epoll = "none", !.hash = FALSE,
                             !.peer = "gone"]

\* The close of channel c alone, from the state (C, D) its handler has reached.
PlainClose(C, D, c, t, o) ==
  /\ ch' = [C EXCEPT ![c] = CloseRec(C[c], t, o)]
  /\ dpt' = IF Detaches(C[c], o)
            THEN [D EXCEPT ![C[c].dp] = ClearMain(@)]
            ELSE D
  /\ UNCHANGED fault

(***************************************************************************)
(* fsm_xprt_proto_channel_close of an attached channel with auxiliary id 0  *)
(* whose datapath lists auxiliary channels: the list is closed from its     *)
(* tail until an entry whose reference is stale, entry n; that entry and    *)
(* the ones before it stay.  A second main channel is itself on the list:   *)
(* the loop detaches it and then reads its datapath pointer, now null       *)
(* (still set when its detach failed: the loop goes on).                    *)
(***************************************************************************)
CascadeClose(C, D, c, t, o) ==
  LET d == C[c].dp
      list == D[d].aux
  IN  \E n \in 0 .. Len(list) :
        LET closing == {list[i] : i \in (n + 1) .. Len(list)}
            closed  == closing \cup {c}
        IN /\ n > 0 => ~ C[list[n]].hash
           /\ \A x \in closing : C[x].hash
           /\ IF c \in closing /\ o.epoll
              THEN Die("null_datapath")
              ELSE /\ ch' = [x \in Channel |-> IF x \in closed
                                               THEN CloseRec(C[x], t, o) ELSE C[x]]
                   /\ dpt' = [e \in Datapath |->
                        LET cut == IF e = d
                                   THEN [D[e] EXCEPT !.aux = SubSeq(list, 1, n)]
                                   ELSE D[e]
                        IN IF \E x \in closed : Detaches(C[x], o) /\ C[x].dp = e
                           THEN ClearMain(cut) ELSE cut]
                   /\ UNCHANGED fault

CascadeNeeded(C, D, c) ==
  C[c].aux = 0 /\ C[c].added /\ D[C[c].dp].aux # << >>

\* The CLOSE event in the states WAIT_FOR_HANDSHAKE and BOUND_TO_DP.
CloseEvent(C, D, c, t, o) ==
  IF CascadeNeeded(C, D, c) THEN CascadeClose(C, D, c, t, o)
                            ELSE PlainClose(C, D, c, t, o)

(***************************************************************************)
(* The DETACH handler followed by the CLOSE handler (a write, or the rest   *)
(* of a header, that finds the peer gone).  Once the detach has succeeded   *)
(* the close no longer sees the auxiliary list.                             *)
(***************************************************************************)
DetachThenClose(C, D, c, t, o) ==
  \/ PlainClose(C, D, c, t, [o EXCEPT !.epoll = TRUE])
  \/ /\ ~ o.epoll /\ C[c].added /\ C[c].aux = 0
     /\ CloseEvent(C, D, c, t, o)

-----------------------------------------------------------------------------
(***************************************************************************)
(* The LEARN event of an accepted connection: the channel enters the        *)
(* connection table and sends HELLO.                                        *)
(***************************************************************************)
Learnt(t) ==
  [NewChannel(t) EXCEPT !.fsm = "wait", !.hash = TRUE, !.epoll = "handshake"]

Learn(c) ==
  /\ Up
  /\ ch[c].fsm = "init"
  /\ \E t \in Thread :
       \/ ch' = [ch EXCEPT ![c] = Learnt(t)] /\ UNCHANGED <<dpt, fault>>
       \/ LET C == [ch EXCEPT ![c] = Learnt(t)]       \* the peer is gone already
          IN \E o \in Outcome : PlainClose(C, dpt, c, t, o)

\* The handshake handler of c can run: on the channel's thread.
HandshakeRead(c) == Up /\ ch[c].epoll = "handshake" /\ Idle(ch[c].thr)

\* A bad version, a message type the handshake does not take, or end of stream.
HandshakeClose(c) ==
  /\ HandshakeRead(c) /\ ch[c].peer # "mute"
  /\ \E o \in Outcome : CloseEvent(ch, dpt, c, ch[c].thr, o)

(***************************************************************************)
(* of_process_feature_reply_msg, first part: of_add_channel_to_dp makes the *)
(* channel the main one when the datapath has none, and lists it otherwise; *)
(* the FSM's learn_dp binds the channel and gives its descriptor to the     *)
(* datapath handler, and nobody looks at its result: when the registration  *)
(* fails, no message of the channel is read any more.                       *)
(***************************************************************************)
AttachRec(r, d, a, o) ==
  [r EXCEPT !.aux = a, !.dp = d, !.added = TRUE, !.fsm = "bound",
            !.epoll = IF o.epoll THEN "dp" ELSE "none", !.busy = TRUE]

\* Mutant: an auxiliary channel is not linked.
AttachDpNoLink(e, c) ==
  IF e.present THEN e ELSE [e EXCEPT !.present = TRUE, !.main = c]

AttachDp(e, c) ==
  IF e.present THEN [e EXCEPT !.aux = Append(@, c)]
               ELSE [e EXCEPT !.present = TRUE, !.main = c]

CanAttach(d, a) == InDprm(d) /\ (dpt[d].present \/ a = 0)

FeatureReplyRefused(c, a) ==
  /\ HandshakeRead(c) /\ ch[c].peer = "up"
  /\ \E o \in Outcome : PlainClose([ch EXCEPT ![c].aux = a], dpt, c, ch[c].thr, o)

FeatureReplyAttach(c, d, a) ==
  /\ HandshakeRead(c) /\ ch[c].peer = "up"
  /\ CanAttach(d, a)
  /\ \E o \in Outcome : ch' = [ch EXCEPT ![c] = AttachRec(@, d, a, o)]
  /\ dpt' = [dpt EXCEPT ![d] = AttachDp(@, c)]
  /\ UNCHANGED fault

(***************************************************************************)
(* The second part, whatever other threads have done to the channel since:  *)
(* the periodic timer is started, also for a channel that a detach or a     *)
(* close has overtaken (nothing will stop it there), and a timer that still *)
(* ran loses its name.  Or the configuration of the switch or the timer     *)
(* fails, and the channel gets the CLOSE event in the state it is in.       *)
(***************************************************************************)
WithTimer(r) ==
  [r EXCEPT !.ka = READY, !.busy = FALSE,
            !.ktimer = IF r.added /\ r.hash THEN "on" ELSE "left",
            !.stray = @ \/ r.ktimer \in {"on", "left"}]

\* Mutant: the keep-alive timer is started for the main channel only.
FeatureReplyTimerMainOnly(c) ==
  /\ Up /\ ch[c].busy /\ ~ ch[c].freed
  /\ ch' = [ch EXCEPT ![c] = IF ch[c].aux = 0 THEN WithTimer(@)
                             ELSE [@ EXCEPT !.ka = READY, !.busy = FALSE]]
  /\ UNCHANGED <<dpt, fault>>

FeatureReplyTimer(c) ==
  /\ Up /\ ch[c].busy
  /\ IF ch[c].freed THEN Die("freed_channel")
     ELSE ch' = [ch EXCEPT ![c] = WithTimer(@)] /\ UNCHANGED <<dpt, fault>>

FeatureReplyFail(c) ==
  /\ Up /\ ch[c].busy /\ ~ ch[c].freed
  /\ LET C == [ch EXCEPT ![c].busy = FALSE]
         T == [C EXCEPT ![c].ka = READY]      \* it is the timer that fails
     IN IF ch[c].fsm = "closed"
        THEN ch' \in {C, T} /\ UNCHANGED <<dpt, fault>>
        ELSE \E o \in Outcome :
               \/ CloseEvent(T, dpt, c, ch[c].thr, o)
               \/ ch[c].aux = 0 /\ CloseEvent(C, dpt, c, ch[c].thr, o)
               \/ /\ ch[c].aux = 0 /\ ch[c].added /\ ch[c].hash
                  /\ ch[c].peer = "gone"
                  /\ DetachThenClose(C, dpt, c, ch[c].thr, o)

-----------------------------------------------------------------------------
(***************************************************************************)
(* Messages on a bound channel.  Any of them zeroes uiKeepAliveCount.       *)
(***************************************************************************)
Heard(c) == [ch EXCEPT ![c].count = 0]

\* The datapath handler of c can run, and reads a message.
BoundHandler(c) == Up /\ ch[c].epoll = "dp" /\ Idle(ch[c].thr)

BoundRead(c) == BoundHandler(c) /\ ch[c].peer = "up"

\* HELLO, another features reply, or a message for an application.
BoundMessage(c) ==
  /\ BoundRead(c)
  /\ ch' = Heard(c)
  /\ UNCHANGED <<dpt, fault>>

\* The reply to an echo sent on any channel marks the datapath's main channel.
EchoReply(c) ==
  /\ BoundRead(c)
  /\ LET m == dpt[ch[c].dp].main
     IN ch' = IF InDprm(ch[c].dp) /\ m # NoChannel /\ ch[m].hash
              THEN [Heard(c) EXCEPT ![m].ka = OrResp(@)]
              ELSE Heard(c)
  /\ UNCHANGED <<dpt, fault>>

\* The last part of the port description: the datapath becomes active.
PortDescReply(c) ==
  /\ BoundRead(c)
  /\ InDprm(ch[c].dp)
  /\ IF ch[c].aux = 0 /\ ~ ch[c].ready
     THEN /\ ch' = [Heard(c) EXCEPT ![c].ready = TRUE]
          /\ dpt' = [dpt EXCEPT ![ch[c].dp].active = TRUE]
     ELSE ch' = Heard(c) /\ UNCHANGED dpt
  /\ UNCHANGED fault

\* Too many malformed messages.
MalformedClose(c) ==
  /\ BoundRead(c)
  /\ \E o \in Outcome : CloseEvent(ch, dpt, c, ch[c].thr, o)

\* Hang-up, error, or end of stream where a message starts or continues.
PeerClosed(c) ==
  /\ BoundHandler(c) /\ ch[c].peer = "gone"
  /\ \E o \in Outcome : CloseEvent(ch, dpt, c, ch[c].thr, o)

\* End of stream in the middle of a header.
PeerClosedInHeader(c) ==
  /\ BoundHandler(c) \/ HandshakeRead(c)
  /\ ch[c].peer = "gone"
  /\ \E o \in Outcome : DetachThenClose(ch, dpt, c, ch[c].thr, o)

\* A write by an application, on any thread, that finds the peer gone.
SendToGonePeer(c, t) ==
  /\ Up /\ ch[c].added /\ ch[c].hash /\ ch[c].peer = "gone" /\ Idle(t)
  /\ \E o \in Outcome : DetachThenClose(ch, dpt, c, t, o)

-----------------------------------------------------------------------------
(***************************************************************************)
(* The keep-alive.  A queued stop may lose against the expiry it cancels.   *)
(* The response timer (15 s) has expired when the periodic one (30 s) fires *)
(* again; a second periodic timer keeps no such distance, and the response  *)
(* timer it starts next to a running one is taken for that one.  A timer    *)
(* that was not stopped finds a released control block, whatever it holds.  *)
(***************************************************************************)
\* ofp_prepare_and_send_echo_request picks the channel of the datapath that
\* the datapath's list names for this auxiliary id.
EchoTargets(d, a) ==
  IF a = 0 THEN {dpt[d].main}
  ELSE {dpt[d].aux[i] : i \in {j \in 1 .. Len(dpt[d].aux) :
          /\ ch[dpt[d].aux[j]].aux = a
          /\ \A k \in 1 .. (j - 1) : ch[dpt[d].aux[k]].aux # a}}

Saturate(n) == IF n > MaxRetries THEN n ELSE n + 1

\* Mutant: the echo is not counted.
EchoSentUncounted(c, m) == [ch EXCEPT ![c].ka = SENT, ![c].rtimer = "on"]

EchoSent(c, m) ==
  LET C == [ch EXCEPT ![m].count = Saturate(@)]
  IN [C EXCEPT ![c].ka = SENT, ![c].rtimer = "on"]

\* An echo that finds m gone closes m, and with it channel c when c is m or
\* one of the channels a failed detach of m leaves to the cascade.
LosesDatapath(c, m) ==
  LET list == dpt[ch[m].dp].aux
  IN  \/ c = m
      \/ /\ (\E o \in Outcome : ~ o.epoll) /\ ch[m].added /\ ch[m].aux = 0
         /\ \E i \in 1 .. Len(list) :
              list[i] = c /\ \A j \in i .. Len(list) : ch[list[j]].hash

EchoToGonePeer(c, m) ==
  \/ LosesDatapath(c, m) /\ Die("null_datapath")
  \/ \E o \in Outcome :
       DetachThenClose(ch, dpt, m, ch[c].thr, o) /\ ch'[c].dp # NoDp

\* The callback logs channel->datapath->dpid when it starts and again when the
\* echo could not be sent: it dies when the channel is no longer attached.
KeepAliveExpiry(c) ==
  /\ Up /\ Idle(ch[c].thr)
  /\ ch[c].stray \/ (ch[c].ktimer # "off" /\ ch[c].rtimer # "on")
  /\ \/ ch[c].freed /\ (ch[c].stray \/ ch[c].ktimer # "stopping") /\ Die("freed_channel")
     \/ ~ ch[c].freed /\ ch[c].dp = NoDp /\ Die("null_datapath")
     \/ /\ ~ ch[c].freed /\ ch[c].dp # NoDp /\ InDprm(ch[c].dp)
        /\ LET targets == EchoTargets(ch[c].dp, ch[c].aux)
           IN IF targets = {} THEN Die("null_aux_entry")
              ELSE \E m \in targets \ {NoChannel} :
                     /\ ch[m].hash
                     /\ \/ /\ ch[m].peer # "gone"
                           /\ ch' = EchoSent(c, m)
                           /\ UNCHANGED <<dpt, fault>>
                        \/ ch[m].peer = "gone" /\ EchoToGonePeer(c, m)

\* The states in which the FSM has a handler for the CLOSE event.
Open(c) == ch[c].fsm \in {"wait", "bound"}

ResponseCheck(c) ==
  /\ Up /\ Idle(ch[c].thr)
  /\ ch[c].rtimer # "off"
  /\ LET C == [ch EXCEPT ![c].rtimer = "off"]
         r == ch[c]
     IN CASE r.freed -> r.rtimer = "on" /\ Die("freed_channel")
          [] ~ r.freed /\ ~ HasResp(r.ka) /\ HasSent(r.ka) /\ r.count > MaxRetries
               /\ Open(c) ->
               \E o \in Outcome : CloseEvent(C, dpt, c, r.thr, o)
          [] OTHER ->
               /\ ch' = IF HasResp(r.ka)
                        THEN [C EXCEPT ![c].ka = READY, ![c].count = 0]
                        ELSE C
               /\ UNCHANGED <<dpt, fault>>

\* The owner thread works off its list of queued stops.
StopListDone(c) ==
  /\ Up /\ Idle(ch[c].thr)
  /\ "stopping" \in {ch[c].ktimer, ch[c].rtimer}
  /\ ch' = [ch EXCEPT ![c].ktimer = IF @ = "stopping" THEN "off" ELSE @,
                      ![c].rtimer = IF @ = "stopping" THEN "off" ELSE @]
  /\ UNCHANGED <<dpt, fault>>

\* The end of the RCU grace period of a channel taken off the table.  The
\* deletion of a datapath holds a read section, the handshake handler does not.
\* The pool clears the block; what tells how its detach ended is kept.
RcuFree(c) ==
  /\ Up
  /\ ch[c].fsm # "init" /\ ~ ch[c].hash /\ ~ ch[c].freed
  /\ \A d \in Datapath : dpt[d].victim # c
  /\ ch' = [ch EXCEPT ![c].freed = TRUE, ![c].ka = NOT_READY, ![c].count = 0]
  /\ UNCHANGED <<dpt, fault>>

-----------------------------------------------------------------------------
(***************************************************************************)
(* Datapath entries, on the configuration thread.                           *)
(***************************************************************************)
AddDatapath(d) ==
  /\ Up /\ dpt[d].status = "absent"
  /\ dpt' = [dpt EXCEPT ![d].status = "live"]
  /\ UNCHANGED <<ch, fault>>

(***************************************************************************)
(* dprm_free_datapath_channels, called when a datapath is deleted.  A stale *)
(* entry of the list is logged through the channel found before it, a null  *)
(* pointer for the first entry, and retried for ever after that; the first  *)
(* detach of a listed channel zeroes main_channel, whose null table is read *)
(* next (a failed registration of every listed descriptor, the one way past *)
(* that, is left out).  Without a list the main channel is looked up, where *)
(* a stale reference to it is logged the same way.                          *)
(***************************************************************************)
\* Mutant: the main channel is taken from a stale reference.
DelDatapathFindStale(d) ==
  /\ Up /\ dpt[d].status = "live" /\ dpt[d].present /\ dpt[d].aux = << >>
  /\ dpt' = [dpt EXCEPT ![d].status = "found", ![d].victim = dpt[d].main]
  /\ UNCHANGED <<ch, fault>>

\* Mutant: the channels of the list are detached but stay on it.
DelDatapathFindKeepsList(d) ==
  /\ Up /\ dpt[d].status = "live" /\ dpt[d].present
  /\ \E o \in Outcome :
       ch' = [x \in Channel |->
                IF ch[x].hash /\ Listed(d, x)
                THEN [DetachRec(ch[x], App, o) EXCEPT !.fsm = "wait"] ELSE ch[x]]
  /\ dpt' = [dpt EXCEPT ![d] = [ClearMain(@) EXCEPT !.status = "detached"]]
  /\ UNCHANGED fault

DelDatapathFind(d) ==
  /\ Up /\ dpt[d].status = "live"
  /\ LET e == dpt[d]
     IN CASE e.present /\ e.aux # << >> ->
               Die(IF \A i \in 1 .. Len(e.aux) : ch[e.aux[i]].hash THEN "null_table"
                   ELSE IF ch[e.aux[1]].hash THEN "stuck_delete" ELSE "null_channel")
          [] e.present /\ e.aux = << >> /\ ~ ch[e.main].hash -> Die("null_channel")
          [] e.present /\ e.aux = << >> /\ ch[e.main].hash ->
               /\ dpt' = [dpt EXCEPT ![d].status = "found", ![d].victim = e.main]
               /\ UNCHANGED <<ch, fault>>
          [] OTHER -> /\ dpt' = [dpt EXCEPT ![d].status = "detached"]
                      /\ UNCHANGED <<ch, fault>>

\* The DETACH event of that channel, handled as the state it is in by now says.
DelDatapathDetach(d) ==
  /\ Up /\ dpt[d].status = "found"
  /\ LET v == dpt[d].victim
         next == [dpt EXCEPT ![d].status = "detached"]
     IN IF ch[v].fsm = "closed" THEN dpt' = next /\ UNCHANGED ch
        ELSE \E o \in Outcome :
               /\ ch' = [ch EXCEPT ![v] = DetachRec(@, App, o)]
               /\ dpt' = IF Detaches(ch[v], o)
                         THEN [next EXCEPT ![ch[v].dp] = ClearMain(@)] ELSE next
  /\ UNCHANGED fault

\* fsm_send_channel_event sets the state, whatever it is; the entry goes.
DelDatapathEnd(d) ==
  /\ Up /\ dpt[d].status = "detached"
  /\ ch' = [x \in Channel |-> IF x = dpt[d].victim
                             THEN [ch[x] EXCEPT !.fsm = "wait"] ELSE ch[x]]
  /\ dpt' = [dpt EXCEPT ![d].status = "deleted", ![d].victim = NoChannel]
  /\ UNCHANGED fault

\* The environment: a peer goes silent, or disconnects.
PeerMute(c) ==
  /\ Up /\ ch[c].added /\ ch[c].hash /\ ch[c].peer = "up"
  /\ ch' = [ch EXCEPT ![c].peer = "mute"]
  /\ UNCHANGED <<dpt, fault>>

PeerGone(c) ==
  /\ Up /\ ch[c].hash /\ ch[c].peer # "gone"
  /\ ch' = [ch EXCEPT ![c].peer = "gone"]
  /\ UNCHANGED <<dpt, fault>>

-----------------------------------------------------------------------------
ChannelNext(c) ==
  \/ Learn(c) \/ HandshakeClose(c)
  \/ \E a \in AuxId : FeatureReplyRefused(c, a)
  \/ \E d \in Datapath, a \in AuxId : FeatureReplyAttach(c, d, a)
  \/ FeatureReplyTimer(c) \/ FeatureReplyFail(c)
  \/ BoundMessage(c) \/ EchoReply(c) \/ PortDescReply(c)
  \/ MalformedClose(c) \/ PeerClosed(c) \/ PeerClosedInHeader(c)
  \/ \E t \in Thread \cup {App} : SendToGonePeer(c, t)
  \/ KeepAliveExpiry(c) \/ ResponseCheck(c) \/ StopListDone(c)
  \/ RcuFree(c) \/ PeerMute(c) \/ PeerGone(c)

DatapathNext(d) ==
  AddDatapath(d) \/ DelDatapathFind(d) \/ DelDatapathDetach(d) \/ DelDatapathEnd(d)

Next == (\E c \in Channel : ChannelNext(c)) \/ (\E d \in Datapath : DatapathNext(d))

Spec == Init /\ [][Next]_vars

\* The event loop of a transport thread reports a readable descriptor until it
\* is handled (level-triggered epoll) and runs every expired timer; a handler
\* that has begun goes on; the RCU thread ends every grace period.  Peers and
\* applications owe nothing.
Fairness ==
  /\ \A c \in Channel :
       /\ WF_vars(PeerClosed(c))
       /\ WF_vars(FeatureReplyTimer(c))
       /\ WF_vars(KeepAliveExpiry(c))
       /\ WF_vars(ResponseCheck(c))
       /\ WF_vars(StopListDone(c))
       /\ WF_vars(RcuFree(c))
  /\ \A d \in Datapath : WF_vars(DelDatapathDetach(d)) /\ WF_vars(DelDatapathEnd(d))

FairSpec == Spec /\ Fairness
-----------------------------------------------------------------------------
(***************************************************************************)
(* Properties.                                                              *)
(***************************************************************************)
TypeOK == /\ ch \in [Channel -> ChannelRec]
          /\ dpt \in [Datapath -> DatapathRec]
          /\ fault \in {"none", "null_datapath", "null_table", "null_channel",
                        "stuck_delete", "null_aux_entry", "freed_channel"}

\* The channel is in the middle of one of the two handlers that others come
\* between: the features reply, and the DETACH of a deletion.
Changing(c) ==
  ch[c].busy \/ \E d \in Datapath : dpt[d].status = "detached" /\ dpt[d].victim = c

\* A channel in the state BOUND_TO_DP is attached, can be reached through the
\* connection table and is watched by a running keep-alive timer, whatever
\* detached, failed or raced before (channel_fsm.c 522-680, trnsprt_msg.c 202-310);
\* the timer is only missing while the handler that starts or stops it runs.
BoundIsWatched ==
  \A c \in Channel : ch[c].fsm = "bound" =>
    /\ ch[c].added /\ ch[c].dp \in Datapath
    /\ ch[c].hash /\ ~ ch[c].freed
    /\ ch[c].ktimer = "on" \/ Changing(c)

\* A periodic timer belongs to an attached channel whose reference is valid, or
\* it was left behind in one of two ways: its stop was refused, or the attach
\* that started it had been overtaken by a detach or close on another thread.
\* No sequence of attaches, detaches, failed registrations and closes leaves a
\* timer running in any other way.
TimerHasDatapath ==
  \A c \in Channel : ch[c].ktimer = "on" => ch[c].added /\ ch[c].hash

\* While is_main_conn_present is set, main_channel names a channel with
\* auxiliary id 0 that is attached to this datapath (never one that has been
\* detached, and never an auxiliary one).
MainRefAttached ==
  \A d \in Datapath : dpt[d].present =>
    /\ dpt[d].main \in Channel
    /\ ch[dpt[d].main].added
    /\ ch[dpt[d].main].dp = d
    /\ ch[dpt[d].main].aux = 0

\* No attached auxiliary channel is lost: it is on its datapath's list, where
\* the close of the main channel and of_get_dp_channel look for it.
AuxListed ==
  \A c \in Channel : ch[c].added /\ ch[c].aux # 0 => Listed(ch[c].dp, c)

\* The close of a main channel closes whatever its list names: an entry whose
\* reference is still valid is a channel attached to this very datapath.
AuxRefSafe ==
  \A d \in Datapath : \A i \in 1 .. Len(dpt[d].aux) :
    LET c == dpt[d].aux[i] IN
    ch[c].hash => ch[c].added /\ ch[c].dp = d

\* is_dp_active is set only while a main channel that has reported its ports is
\* attached to the datapath.
ActiveHasMain ==
  \A d \in Datapath : dpt[d].active =>
    \E c \in Channel : ch[c].added /\ ch[c].dp = d /\ ch[c].aux = 0 /\ ch[c].ready

\* The keep-alive of an auxiliary channel finds its entry: the null pointer
\* that of_symmetric_msgapi.c line 150 does not test for never comes back.
EchoFindsChannel == fault # "null_aux_entry"

\* A channel that has left the connection table never comes back: it is not
\* attached again, no handler gets its descriptor, and its node is not handed to
\* call_rcu a second time.  The state alone may go back to WAIT_FOR_HANDSHAKE, by
\* the deletion of a datapath that had looked the channel up before
\* (channel_fsm.c 918); and once the block is released nobody writes to it.
ClosedForever ==
  [][\A c \in Channel : ch[c].fsm # "init" /\ ~ ch[c].hash =>
       /\ ~ ch'[c].hash /\ ch'[c].epoll = "none"
       /\ ch'[c].added => ch[c].added
       /\ ch[c].fsm = "closed" /\ ch'[c].fsm # "closed" =>
            \E d \in Datapath : dpt[d].status = "detached" /\ dpt[d].victim = c
       /\ ch[c].freed =>
            ch'[c] = [ch[c] EXCEPT !.ktimer = ch'[c].ktimer, !.rtimer = ch'[c].rtimer]]_vars

\* A peer that disconnects, or falls silent, does not keep its channel: the
\* echoes go unanswered and the response check closes it ("No keep-alive
\* response received, closing connection", trnsprt_msg.c 576), as long as the
\* datapath is not deleted.
SilentChannelClosed ==
  \A c \in Channel :
    ch[c].fsm = "bound" /\ ch[c].peer # "up" ~>
      ch[c].fsm # "bound" \/ dpt[ch[c].dp].status # "live" \/ ~ Up

\* A closed channel's control block is given back.
ClosedIsFreed ==
  \A c \in Channel : ch[c].fsm = "closed" ~> ch[c].freed \/ ~ Up

-----------------------------------------------------------------------------
(***************************************************************************)
(* The inductive invariant behind the safety properties, over an arbitrary  *)
(* state (C, D) so that it can be stated of the state a handler has reached *)
(* before it closes the channel.                                            *)
(***************************************************************************)
\* What the fields of one channel say about each other.
RecOK(r) ==
  /\ r.fsm = "bound" => r.added /\ r.hash
  /\ r.added <=> r.dp # NoDp
  /\ r.added /\ ~ r.hash => r.aux = 0
  /\ r.hash => r.fsm \in {"wait", "bound"}
  /\ r.fsm = "init" => ~ r.added /\ ~ r.busy
  /\ r.epoll = "handshake" => r.hash /\ ~ r.added
  /\ r.epoll = "dp" => r.hash /\ r.added
  /\ r.ktimer = "on" => r.added /\ r.hash /\ r.ka # NOT_READY
  /\ r.freed => ~ r.hash

\* What a datapath's references say about the channels.
MainRefs(C, D) ==
  \A d \in Datapath : D[d].present =>
    /\ D[d].main \in Channel
    /\ C[D[d].main].added /\ C[D[d].main].dp = d /\ C[D[d].main].aux = 0

AuxRefs(C, D) ==
  \A d \in Datapath : \A i \in 1 .. Len(D[d].aux) :
    /\ C[D[d].aux[i]].fsm # "init"
    /\ C[D[d].aux[i]].hash => C[D[d].aux[i]].added /\ C[D[d].aux[i]].dp = d

AuxOnList(C, D) ==
  \A c \in Channel : C[c].added /\ C[c].aux # 0 =>
    \E i \in 1 .. Len(D[C[c].dp].aux) : D[C[c].dp].aux[i] = c

ActiveRefs(C, D) ==
  \A d \in Datapath : D[d].active =>
    \E c \in Channel : C[c].added /\ C[c].dp = d /\ C[c].aux = 0 /\ C[c].ready

\* The channel a deletion has looked up is not released under it; until the
\* DETACH event is sent it is the datapath's main channel, not a listed one, or
\* another thread has closed it.
Victims(C, D) ==
  \A d \in Datapath :
    /\ D[d].status = "found" => D[d].victim \in Channel
    /\ D[d].victim # NoChannel =>
         LET v == C[D[d].victim] IN
         /\ v.fsm # "init" /\ ~ v.freed
         /\ D[d].status = "found" /\ v.hash =>
              /\ v.added /\ v.dp = d /\ v.aux = 0
              /\ \A i \in 1 .. Len(D[d].aux) : D[d].aux[i] # D[d].victim

StateOK(C, D) ==
  /\ C \in [Channel -> ChannelRec]
  /\ D \in [Datapath -> DatapathRec]
  /\ \A c \in Channel : RecOK(C[c])
  /\ MainRefs(C, D)
  /\ AuxRefs(C, D)
  /\ AuxOnList(C, D)
  /\ ActiveRefs(C, D)
  /\ Victims(C, D)

\* The keep-alive of every bound channel runs, or a handler is about to see to it.
Watched(C, D) ==
  \A c \in Channel : C[c].fsm = "bound" =>
    \/ C[c].ktimer = "on" \/ C[c].busy
    \/ \E d \in Datapath : D[d].status = "detached" /\ D[d].victim = c

IndInv ==
  /\ TypeOK
  /\ StateOK(ch, dpt)
  /\ Watched(ch, dpt)
  /\ EchoFindsChannel
=============================================================================
