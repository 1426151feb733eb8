--------------------------- MODULE ChannelProofs ---------------------------
(***************************************************************************)
(* The safety properties of Channel for any number of channels, datapaths  *)
(* and threads.                                                             *)
(***************************************************************************)
EXTENDS Channel, SequenceTheorems, WellFoundedInduction, TLAPS

Outcomes == [epoll : BOOLEAN, queued : BOOLEAN]

-----------------------------------------------------------------------------
(***************************************************************************)
(* What detaching and closing do to one channel.                            *)
(***************************************************************************)
\* StopKeepAlive touches the two timers and nothing else.
LEMMA StopKeepAliveFacts ==
  ASSUME NEW r \in ChannelRec, NEW t, NEW o
  PROVE  LET s == StopKeepAlive(r, t, o) IN
         /\ s \in ChannelRec
         /\ s.fsm = r.fsm /\ s.added = r.added /\ s.dp = r.dp /\ s.aux = r.aux
         /\ s.hash = r.hash /\ s.epoll = r.epoll /\ s.ready = r.ready
         /\ s.busy = r.busy /\ s.freed = r.freed
         /\ r.ka # NOT_READY => s.ktimer # "on"
         /\ s.ktimer = "on" => r.ktimer = "on"
  <1> DEFINE x == IF r.ka = SENT THEN StopResponse(r.rtimer, r.thr, t, o) ELSE r.rtimer
             y == IF r.ka >= READY THEN StopTimer(r.ktimer, r.thr, t, o) ELSE r.ktimer
             z == [r EXCEPT !.rtimer = x, !.ktimer = y]
  <1>1. x \in {"off", "on", "stopping"}
    BY DEF StopResponse, ChannelRec
  <1>2. y \in {"off", "on", "stopping", "left"} /\ (y = "on" => r.ktimer = "on")
    BY DEF StopTimer, ChannelRec
  <1>3. r.ka # NOT_READY => y # "on"
    BY DEF StopTimer, ChannelRec, KeepAlive, NOT_READY, READY, SENT, RESP_RCVD
  <1>4. StopKeepAlive(r, t, o) = z
    BY DEF StopKeepAlive
  <1> HIDE DEF x, y
  <1>5. z \in ChannelRec
    BY <1>1, <1>2, ZenonT(60) DEF ChannelRec
  <1>6. /\ z.fsm = r.fsm /\ z.added = r.added /\ z.dp = r.dp /\ z.aux = r.aux
        /\ z.hash = r.hash /\ z.epoll = r.epoll /\ z.ready = r.ready
        /\ z.busy = r.busy /\ z.freed = r.freed /\ z.ktimer = y
    BY DEF ChannelRec
  <1> HIDE DEF z
  <1>7. QED
    BY <1>2, <1>3, <1>4, <1>5, <1>6

\* The record a detach leaves when the registration of the descriptor fails.
LEMMA HalfDetachUpdate ==
  ASSUME NEW s \in ChannelRec
  PROVE  LET u == [s EXCEPT !.epoll = "none"]
         IN /\ u \in ChannelRec
            /\ u.added = s.added /\ u.dp = s.dp /\ u.fsm = s.fsm /\ u.epoll = "none"
            /\ u.aux = s.aux /\ u.ready = s.ready /\ u.hash = s.hash
            /\ u.busy = s.busy /\ u.freed = s.freed /\ u.ktimer = s.ktimer
  BY DEF ChannelRec

\* The record a close leaves, field by field (xprt_proto_channel_close).
LEMMA CloseUpdate ==
  ASSUME NEW s \in ChannelRec
  PROVE  LET u == [s EXCEPT !.fsm = "closed", !.epoll = "none", !.hash = FALSE,
                            !.peer = "gone"]
         IN /\ u \in ChannelRec
            /\ u.fsm = "closed" /\ u.hash = FALSE /\ u.epoll = "none"
            /\ u.aux = s.aux /\ u.ready = s.ready /\ u.added = s.added /\ u.dp = s.dp
            /\ u.busy = s.busy /\ u.freed = s.freed /\ u.ktimer = s.ktimer
  BY ZenonT(60) DEF ChannelRec

\* A detach keeps a channel well formed, and unbinds it when it succeeds.
LEMMA DetachFacts ==
  ASSUME NEW r \in ChannelRec, RecOK(r), NEW t, NEW o \in Outcomes
  PROVE  LET s == DetachRec(r, t, o) IN
         /\ s \in ChannelRec /\ RecOK(s)
         /\ s.aux = r.aux /\ s.ready = r.ready /\ s.hash = r.hash
         /\ s.busy = r.busy /\ s.freed = r.freed /\ s.ktimer # "on"
         /\ IF Detaches(r, o) THEN ~ s.added /\ s.dp = NoDp /\ s.fsm = "wait"
                              ELSE s.added = r.added /\ s.dp = r.dp /\ s.fsm = r.fsm
  <1> DEFINE s == StopKeepAlive(r, t, o)
  <1>1. /\ s \in ChannelRec
        /\ s.fsm = r.fsm /\ s.added = r.added /\ s.dp = r.dp /\ s.aux = r.aux
        /\ s.hash = r.hash /\ s.epoll = r.epoll /\ s.ready = r.ready
        /\ s.busy = r.busy /\ s.freed = r.freed
        /\ r.ka # NOT_READY => s.ktimer # "on"
        /\ s.ktimer = "on" => r.ktimer = "on"
    BY StopKeepAliveFacts
  <1> HIDE DEF s
  <1>2. s.ktimer # "on"
    BY <1>1 DEF RecOK
  <1>3. CASE ~ r.added
    BY <1>3 DEF DetachRec, Detaches, RecOK
  <1>4. CASE Detaches(r, o)
    <2> DEFINE e == IF r.aux = 0 THEN "handshake" ELSE "none"
    <2>1. e \in {"none", "handshake", "dp"}
      OBVIOUS
    <2>2. (e = "handshake" => r.hash) /\ e # "dp"
      BY <1>4 DEF Detaches
    <2> HIDE DEF e
    <2> DEFINE u == [s EXCEPT !.epoll = e, !.dp = NoDp, !.added = FALSE, !.fsm = "wait"]
    <2>3. DetachRec(r, t, o) = u
      BY <1>4 DEF DetachRec, Detaches, s, e
    <2>4. /\ u \in ChannelRec
          /\ u.added = FALSE /\ u.dp = NoDp /\ u.fsm = "wait" /\ u.epoll = e
          /\ u.aux = s.aux /\ u.ready = s.ready /\ u.hash = s.hash
          /\ u.busy = s.busy /\ u.freed = s.freed /\ u.ktimer = s.ktimer
      BY <1>1, <2>1 DEF ChannelRec
    <2> HIDE DEF u
    <2>5. RecOK(u)
      BY <1>1, <1>2, <2>2, <2>4 DEF RecOK
    <2>6. QED
      BY <1>1, <1>2, <1>4, <2>3, <2>4, <2>5
  <1>5. CASE r.added /\ ~ Detaches(r, o)
    <2> DEFINE u == [s EXCEPT !.epoll = "none"]
    <2>1. DetachRec(r, t, o) = u
      BY <1>5 DEF DetachRec, s
    <2>2. /\ u \in ChannelRec
          /\ u.added = s.added /\ u.dp = s.dp /\ u.fsm = s.fsm /\ u.epoll = "none"
          /\ u.aux = s.aux /\ u.ready = s.ready /\ u.hash = s.hash
          /\ u.busy = s.busy /\ u.freed = s.freed /\ u.ktimer = s.ktimer
      BY <1>1, HalfDetachUpdate
    <2> HIDE DEF u
    <2>3. RecOK(u)
      BY <1>1, <1>2, <2>2 DEF RecOK
    <2>4. QED
      BY <1>1, <1>2, <1>5, <2>1, <2>2, <2>3
  <1>6. QED
    BY <1>3, <1>4, <1>5 DEF Detaches

\* A close takes a channel out of the connection table.
LEMMA CloseFacts ==
  ASSUME NEW r \in ChannelRec, RecOK(r), NEW t, NEW o \in Outcomes
  PROVE  LET s == CloseRec(r, t, o) IN
         /\ s \in ChannelRec
         /\ RecOK(s)
         /\ s.fsm = "closed" /\ ~ s.hash /\ s.epoll = "none"
         /\ s.aux = r.aux /\ s.ready = r.ready /\ s.freed = r.freed
         /\ IF Detaches(r, o) THEN ~ s.added /\ s.dp = NoDp
                              ELSE s.added = r.added /\ s.dp = r.dp
  <1> DEFINE s == DetachRec(r, t, o)
             u == [s EXCEPT !.fsm = "closed", !.epoll = "none", !.hash = FALSE,
                            !.peer = "gone"]
  <1>1. /\ s \in ChannelRec /\ RecOK(s)
        /\ s.aux = r.aux /\ s.ready = r.ready /\ s.hash = r.hash
        /\ s.busy = r.busy /\ s.freed = r.freed /\ s.ktimer # "on"
        /\ IF Detaches(r, o) THEN ~ s.added /\ s.dp = NoDp /\ s.fsm = "wait"
                             ELSE s.added = r.added /\ s.dp = r.dp /\ s.fsm = r.fsm
    BY DetachFacts
  <1>2. CloseRec(r, t, o) = u
    BY DEF CloseRec
  <1> HIDE DEF s
  <1>4. /\ u \in ChannelRec
        /\ u.fsm = "closed" /\ u.hash = FALSE /\ u.epoll = "none"
        /\ u.aux = s.aux /\ u.ready = s.ready /\ u.added = s.added /\ u.dp = s.dp
        /\ u.busy = s.busy /\ u.freed = s.freed /\ u.ktimer = s.ktimer
    BY <1>1, CloseUpdate
  <1> HIDE DEF u
  <1>5. s.added => s.aux = 0
    BY <1>1 DEF Detaches
  <1>7. RecOK(u)
    BY <1>1, <1>4, <1>5 DEF RecOK
  <1>8. QED
    BY <1>1, <1>2, <1>4, <1>7

-----------------------------------------------------------------------------
(***************************************************************************)
(* What a step must not disturb, over arbitrary states of the two tables.   *)
(***************************************************************************)
\* ClosedForever, as a relation between two records of one channel; only the
\* deletion of a datapath changes the state of a closed channel.
Onward(q, r) ==
  q.fsm # "init" /\ ~ q.hash =>
    /\ ~ r.hash /\ r.epoll = "none"
    /\ r.added => q.added
    /\ q.fsm = "closed" => r.fsm = "closed"
    /\ q.freed => r = [q EXCEPT !.ktimer = r.ktimer, !.rtimer = r.rtimer]

\* The channel r is what a step that attaches nothing may leave of q.
Looser(q, r) ==
  /\ r.added => q.added /\ r.dp = q.dp /\ r.aux = q.aux /\ (q.ready => r.ready)
  /\ r.hash => q.hash \/ q.fsm = "init"
  /\ q.fsm # "init" => r.fsm # "init"

\* A step that attaches nothing: the references of a channel that is detached
\* are cleared, and what leaves a list has been closed.
Loosens(C, D, C2, D2) ==
  /\ C2 \in [Channel -> ChannelRec] /\ D2 \in [Datapath -> DatapathRec]
  /\ \A x \in Channel :
       /\ RecOK(C2[x]) /\ Looser(C[x], C2[x])
       /\ C2[x].freed => C[x].freed \/ \A d \in Datapath : D2[d].victim # x
       /\ C[x].added /\ ~ C2[x].added =>
            ~ D2[C[x].dp].present /\ ~ D2[C[x].dp].active
       /\ C[x].added /\ ~ C2[x].added /\ C2[x].hash =>
            \A d \in Datapath :
              /\ \A i \in 1 .. Len(D2[d].aux) : D2[d].aux[i] # x
              /\ ~ (D2[d].status = "found" /\ D2[d].victim = x)
  /\ \A d \in Datapath :
       /\ D2[d].present => D[d].present /\ D2[d].main = D[d].main
       /\ D2[d].active => D[d].active
       /\ Len(D2[d].aux) \in 0 .. Len(D[d].aux)
       /\ \A i \in 1 .. Len(D2[d].aux) : D2[d].aux[i] = D[d].aux[i]
       /\ \A i \in 1 .. Len(D[d].aux) : i > Len(D2[d].aux) => ~ C2[D[d].aux[i]].hash
       /\ D2[d].victim \in {D[d].victim, NoChannel}
       /\ D2[d].status = "found" => D[d].status = "found" /\ D2[d].victim = D[d].victim

\* Such a step keeps every reference sound.
LEMMA LooserRefs ==
  ASSUME NEW C, NEW D, StateOK(C, D), NEW C2, NEW D2, Loosens(C, D, C2, D2)
  PROVE  StateOK(C2, D2)
  <1> USE DEF StateOK, Loosens
  <1>1. \A d \in Datapath : /\ D[d].main \in Channel \cup {NoChannel}
                           /\ D[d].victim \in Channel \cup {NoChannel}
                           /\ D2[d].victim \in Channel \cup {NoChannel}
                           /\ D[d].aux \in Seq(Channel) /\ D2[d].aux \in Seq(Channel)
    BY DEF DatapathRec
  <1>2. MainRefs(C2, D2)
    <2> SUFFICES ASSUME NEW d \in Datapath, D2[d].present
                 PROVE  /\ D2[d].main \in Channel
                        /\ C2[D2[d].main].added /\ C2[D2[d].main].dp = d
                        /\ C2[D2[d].main].aux = 0
      BY DEF MainRefs
    <2> DEFINE m == D[d].main
    <2>1. D2[d].main = m /\ m \in Channel /\ C[m].added /\ C[m].dp = d /\ C[m].aux = 0
      BY DEF MainRefs
    <2>2. C2[m].added
      BY <2>1
    <2>3. QED
      BY <2>1, <2>2 DEF Looser
  <1>3. AuxRefs(C2, D2)
    <2> SUFFICES ASSUME NEW d \in Datapath, NEW i \in 1 .. Len(D2[d].aux)
                 PROVE  /\ C2[D2[d].aux[i]].fsm # "init"
                        /\ C2[D2[d].aux[i]].hash =>
                             C2[D2[d].aux[i]].added /\ C2[D2[d].aux[i]].dp = d
      BY DEF AuxRefs
    <2> DEFINE a == D[d].aux[i]
    <2>1. D2[d].aux[i] = a /\ i \in 1 .. Len(D[d].aux) /\ a \in Channel
      BY <1>1
    <2>2. C[a].fsm # "init" /\ (C[a].hash => C[a].added /\ C[a].dp = d)
      BY <2>1 DEF AuxRefs
    <2> HIDE DEF a
    <2>3. C2[a].fsm # "init" /\ (C2[a].hash => C[a].added /\ C[a].dp = d)
      BY <2>1, <2>2 DEF Looser
    <2>4. C2[a].hash => C2[a].added
      BY <2>1, <2>3
    <2>5. QED
      BY <2>1, <2>3, <2>4 DEF Looser
  <1>4. AuxOnList(C2, D2)
    <2> SUFFICES ASSUME NEW c \in Channel, C2[c].added, C2[c].aux # 0
                 PROVE  \E i \in 1 .. Len(D2[C2[c].dp].aux) : D2[C2[c].dp].aux[i] = c
      BY DEF AuxOnList
    <2>1. C[c].added /\ C[c].aux # 0 /\ C[c].dp = C2[c].dp
      BY DEF Looser
    <2>2. C2[c].hash /\ C2[c].dp \in Datapath
      BY DEF RecOK, ChannelRec
    <2> DEFINE d == C2[c].dp
    <2>3. PICK i \in 1 .. Len(D[d].aux) : D[d].aux[i] = c
      BY <2>1 DEF AuxOnList
    <2> HIDE DEF d
    <2>4. i \in 1 .. Len(D2[d].aux)
      BY <1>1, <2>2, <2>3 DEF d
    <2>5. QED
      BY <2>2, <2>3, <2>4 DEF d
  <1>5. ActiveRefs(C2, D2)
    <2> SUFFICES ASSUME NEW d \in Datapath, D2[d].active
                 PROVE  \E c \in Channel : /\ C2[c].added /\ C2[c].dp = d
                                          /\ C2[c].aux = 0 /\ C2[c].ready
      BY DEF ActiveRefs
    <2>1. PICK c \in Channel : C[c].added /\ C[c].dp = d /\ C[c].aux = 0 /\ C[c].ready
      BY DEF ActiveRefs
    <2>2. C2[c].added
      BY <2>1
    <2>3. QED
      BY <2>1, <2>2 DEF Looser
  <1>6. Victims(C2, D2)
    <2> SUFFICES ASSUME NEW d \in Datapath
                 PROVE  /\ D2[d].status = "found" => D2[d].victim \in Channel
                        /\ D2[d].victim # NoChannel =>
                             LET v == C2[D2[d].victim] IN
                             /\ v.fsm # "init" /\ ~ v.freed
                             /\ D2[d].status = "found" /\ v.hash =>
                                  /\ v.added /\ v.dp = d /\ v.aux = 0
                                  /\ \A i \in 1 .. Len(D2[d].aux) :
                                       D2[d].aux[i] # D2[d].victim
      BY DEF Victims
    <2>1. D2[d].status = "found" => D2[d].victim \in Channel
      BY DEF Victims
    <2>2. ASSUME D2[d].victim # NoChannel
          PROVE  LET v == C2[D2[d].victim] IN
                 /\ v.fsm # "init" /\ ~ v.freed
                 /\ D2[d].status = "found" /\ v.hash =>
                      /\ v.added /\ v.dp = d /\ v.aux = 0
                      /\ \A i \in 1 .. Len(D2[d].aux) : D2[d].aux[i] # D2[d].victim
      <3> DEFINE v == D[d].victim
      <3>1. v \in Channel /\ D2[d].victim = v
        BY <1>1, <2>2
      <3>2. C[v].fsm # "init" /\ ~ C[v].freed
        BY <2>2, <3>1 DEF Victims
      <3>3. D[d].status = "found" /\ C[v].hash =>
              /\ C[v].added /\ C[v].dp = d /\ C[v].aux = 0
              /\ \A i \in 1 .. Len(D[d].aux) : D[d].aux[i] # v
        BY <2>2, <3>1 DEF Victims
      <3> HIDE DEF v
      <3>4. C2[v].fsm # "init" /\ (C2[v].hash => C[v].hash)
        BY <3>1, <3>2 DEF Looser
      <3>5. ~ C2[v].freed
        BY <3>1, <3>2
      <3>6. ASSUME D2[d].status = "found", C2[v].hash
            PROVE  /\ C2[v].added /\ C2[v].dp = d /\ C2[v].aux = 0
                   /\ \A i \in 1 .. Len(D2[d].aux) : D2[d].aux[i] # v
        <4>1. /\ C[v].added /\ C[v].dp = d /\ C[v].aux = 0
              /\ \A i \in 1 .. Len(D[d].aux) : D[d].aux[i] # v
          BY <3>3, <3>4, <3>6
        <4>2. C2[v].added
          BY <3>1, <3>6, <4>1
        <4>3. \A i \in 1 .. Len(D2[d].aux) : i \in 1 .. Len(D[d].aux)
          BY <1>1
        <4>4. QED
          BY <3>1, <4>1, <4>2, <4>3 DEF Looser
      <3>7. QED
        BY <3>1, <3>4, <3>5, <3>6
    <2>3. QED
      BY <2>1, <2>2
  <1>7. QED
    BY <1>2, <1>3, <1>4, <1>5, <1>6

\* The channels of S are closed: every datapath that loses a channel has its
\* main fields cleared, and entries dropped from a list name closed channels.
Closes(C, D, S, t, o, C2, D2) ==
  /\ S \in SUBSET Channel
  /\ \A x \in S : ~ C[x].freed
  /\ C2 = [x \in Channel |-> IF x \in S THEN CloseRec(C[x], t, o) ELSE C[x]]
  /\ D2 \in [Datapath -> DatapathRec]
  /\ \A x \in S : Detaches(C[x], o) => ~ D2[C[x].dp].present /\ ~ D2[C[x].dp].active
  /\ \A d \in Datapath :
       /\ D2[d].present => D[d].present /\ D2[d].main = D[d].main
       /\ D2[d].active => D[d].active
       /\ Len(D2[d].aux) \in 0 .. Len(D[d].aux)
       /\ \A i \in 1 .. Len(D2[d].aux) : D2[d].aux[i] = D[d].aux[i]
       /\ \A i \in 1 .. Len(D[d].aux) : i > Len(D2[d].aux) => D[d].aux[i] \in S
       /\ D2[d].victim = D[d].victim /\ D2[d].status = D[d].status

\* The keep-alive of one channel is seen to.
WatchedAt(C, D, x) ==
  C[x].fsm = "bound" =>
    \/ C[x].ktimer = "on" \/ C[x].busy
    \/ \E d \in Datapath : D[d].status = "detached" /\ D[d].victim = x

Onwards(C, C2) == \A x \in Channel : Onward(C[x], C2[x])

\* Closing a set of channels keeps every reference of the datapaths right,
\* as long as each datapath that loses a channel has its main fields cleared.
LEMMA ClosedRefs ==
  ASSUME NEW C, NEW D, StateOK(C, D), NEW S, NEW t, NEW o \in Outcomes,
         \A x \in Channel \ S : WatchedAt(C, D, x),
         NEW C2, NEW D2, Closes(C, D, S, t, o, C2, D2)
  PROVE  StateOK(C2, D2) /\ Watched(C2, D2) /\ Onwards(C, C2)
  <1> USE DEF Closes
  <1>1. /\ C \in [Channel -> ChannelRec]
        /\ \A x \in Channel : C[x] \in ChannelRec /\ RecOK(C[x])
    BY DEF StateOK
  <1>2. \A x \in S : /\ C2[x] \in ChannelRec /\ RecOK(C2[x])
                    /\ C2[x].fsm = "closed" /\ ~ C2[x].hash /\ C2[x].epoll = "none"
                    /\ C2[x].aux = C[x].aux /\ C2[x].ready = C[x].ready
                    /\ C2[x].freed = C[x].freed
                    /\ IF Detaches(C[x], o) THEN ~ C2[x].added /\ C2[x].dp = NoDp
                       ELSE C2[x].added = C[x].added /\ C2[x].dp = C[x].dp
    <2> SUFFICES ASSUME NEW x \in S
                 PROVE  /\ C2[x] \in ChannelRec /\ RecOK(C2[x])
                        /\ C2[x].fsm = "closed" /\ ~ C2[x].hash /\ C2[x].epoll = "none"
                        /\ C2[x].aux = C[x].aux /\ C2[x].ready = C[x].ready
                        /\ C2[x].freed = C[x].freed
                        /\ IF Detaches(C[x], o) THEN ~ C2[x].added /\ C2[x].dp = NoDp
                           ELSE C2[x].added = C[x].added /\ C2[x].dp = C[x].dp
      OBVIOUS
    <2>1. C[x] \in ChannelRec /\ RecOK(C[x]) /\ C2[x] = CloseRec(C[x], t, o)
      BY <1>1
    <2>2. QED
      BY <2>1, CloseFacts
  <1>3. \A x \in Channel \ S : C2[x] = C[x]
    OBVIOUS
  <1>4. C2 \in [Channel -> ChannelRec]
    <2>1. \A x \in Channel : C2[x] \in ChannelRec
      BY <1>1, <1>2, <1>3
    <2>2. QED
      BY <2>1
  <1>5. \A x \in Channel : RecOK(C2[x]) /\ Looser(C[x], C2[x])
    BY <1>1, <1>2, <1>3 DEF Looser
  <1>6. \A x \in Channel :
          /\ C2[x].freed => C[x].freed \/ \A d \in Datapath : D2[d].victim # x
          /\ C[x].added /\ ~ C2[x].added =>
               ~ D2[C[x].dp].present /\ ~ D2[C[x].dp].active
          /\ C[x].added /\ ~ C2[x].added => ~ C2[x].hash
    BY <1>2, <1>3
  <1>7. \A d \in Datapath : \A i \in 1 .. Len(D[d].aux) :
          i > Len(D2[d].aux) => ~ C2[D[d].aux[i]].hash
    BY <1>2
  <1>8. Loosens(C, D, C2, D2)
    BY <1>4, <1>5, <1>6, <1>7 DEF Loosens
  <1>9. StateOK(C2, D2)
    BY <1>8, LooserRefs
  <1>10. Watched(C2, D2)
    <2> SUFFICES ASSUME NEW x \in Channel, C2[x].fsm = "bound"
                 PROVE  \/ C2[x].ktimer = "on" \/ C2[x].busy
                        \/ \E d \in Datapath : D2[d].status = "detached" /\ D2[d].victim = x
      BY DEF Watched
    <2>1. x \notin S /\ C2[x] = C[x]
      BY <1>2, <1>3
    <2>2. QED
      BY <2>1 DEF WatchedAt
  <1>11. Onwards(C, C2)
    <2> SUFFICES ASSUME NEW x \in Channel PROVE Onward(C[x], C2[x])
      BY DEF Onwards
    <2>1. CASE x \in S
      BY <1>2, <2>1 DEF Onward
    <2>2. CASE x \notin S
      <3>1. C[x].fsm # "init" /\ ~ C[x].hash => C[x].epoll = "none"
        BY <1>1 DEF RecOK, ChannelRec
      <3>2. C[x] = [C[x] EXCEPT !.ktimer = C[x].ktimer, !.rtimer = C[x].rtimer]
        BY <1>1 DEF ChannelRec
      <3>3. QED
        BY <1>3, <2>2, <3>1, <3>2 DEF Onward
    <2>3. QED
      BY <2>1, <2>2
  <1>12. QED
    BY <1>9, <1>10, <1>11

-----------------------------------------------------------------------------
(***************************************************************************)
(* The close of a channel, from any sound state its handler may have        *)
(* reached; the channel itself need not be watched any more.                *)
(***************************************************************************)
\* The state after a step that has read the channel table C.
Settled(C) == /\ StateOK(ch', dpt')
              /\ Watched(ch', dpt')
              /\ Onwards(C, ch')
              /\ fault' = fault

Died == UNCHANGED <<ch, dpt>> /\ fault' \in {"null_datapath", "null_table", "null_channel",
                                             "stuck_delete", "freed_channel"}

\* What the reset of the three main fields changes in a datapath entry.
LEMMA ClearMainFacts ==
  ASSUME NEW e \in DatapathRec
  PROVE  /\ ClearMain(e) \in DatapathRec
         /\ ~ ClearMain(e).present /\ ~ ClearMain(e).active
         /\ ClearMain(e).aux = e.aux /\ ClearMain(e).status = e.status
         /\ ClearMain(e).victim = e.victim
  BY DEF ClearMain, DatapathRec

\* An attached channel names a datapath.
LEMMA AddedHasDatapath ==
  ASSUME NEW r \in ChannelRec, RecOK(r), r.added
  PROVE  r.dp \in Datapath
  BY DEF RecOK, ChannelRec

\* The close of one channel ends in a good state.
LEMMA PlainCloseSettles ==
  ASSUME NEW C, NEW D, StateOK(C, D), NEW c \in Channel, ~ C[c].freed,
         \A x \in Channel \ {c} : WatchedAt(C, D, x),
         NEW t, NEW o \in Outcomes, PlainClose(C, D, c, t, o)
  PROVE  Settled(C)
  <1> DEFINE S == {c}
  <1>1. /\ C \in [Channel -> ChannelRec] /\ D \in [Datapath -> DatapathRec]
        /\ C[c] \in ChannelRec /\ RecOK(C[c])
    BY DEF StateOK
  <1>2. ch' = [x \in Channel |-> IF x \in S THEN CloseRec(C[x], t, o) ELSE C[x]]
    BY <1>1 DEF PlainClose
  <1>3. Detaches(C[c], o) => C[c].dp \in Datapath
    BY <1>1, AddedHasDatapath DEF Detaches
  <1>4. \A d \in Datapath :
          \/ dpt'[d] = D[d] /\ ~ (Detaches(C[c], o) /\ C[c].dp = d)
          \/ dpt'[d] = ClearMain(D[d])
    BY <1>1, <1>3 DEF PlainClose
  <1>5. dpt' \in [Datapath -> DatapathRec]
    BY <1>1, <1>3, ClearMainFacts DEF PlainClose
  <1>6. \A d \in Datapath : D[d] \in DatapathRec /\ D[d].aux \in Seq(Channel)
    BY <1>1 DEF DatapathRec
  <1>7. \A d \in Datapath :
          /\ dpt'[d].present => D[d].present /\ dpt'[d].main = D[d].main
          /\ dpt'[d].active => D[d].active
          /\ dpt'[d].aux = D[d].aux
          /\ dpt'[d].victim = D[d].victim /\ dpt'[d].status = D[d].status
          /\ Detaches(C[c], o) /\ C[c].dp = d => ~ dpt'[d].present /\ ~ dpt'[d].active
    BY <1>4, <1>6, ClearMainFacts
  <1>8. \A x \in S : Detaches(C[x], o) =>
          ~ dpt'[C[x].dp].present /\ ~ dpt'[C[x].dp].active
    BY <1>3, <1>7
  <1>9. \A d \in Datapath :
          /\ Len(dpt'[d].aux) \in 0 .. Len(D[d].aux)
          /\ \A i \in 1 .. Len(dpt'[d].aux) : dpt'[d].aux[i] = D[d].aux[i]
          /\ \A i \in 1 .. Len(D[d].aux) : i > Len(dpt'[d].aux) => D[d].aux[i] \in S
    BY <1>6, <1>7
  <1>10. S \in SUBSET Channel /\ (\A x \in S : ~ C[x].freed)
         /\ \A x \in Channel \ S : WatchedAt(C, D, x)
    OBVIOUS
  <1> HIDE DEF S
  <1>11. Closes(C, D, S, t, o, ch', dpt')
    BY <1>2, <1>5, <1>7, <1>8, <1>9, <1>10 DEF Closes
  <1>12. StateOK(ch', dpt') /\ Watched(ch', dpt') /\ Onwards(C, ch')
    BY <1>10, <1>11, ClosedRefs
  <1>13. QED
    BY <1>12 DEF Settled, PlainClose

\* So does the close of a main channel with its auxiliary channels, unless
\* the loop dies on a second main channel.
LEMMA CascadeCloseSettles ==
  ASSUME NEW C, NEW D, StateOK(C, D), NEW c \in Channel, ~ C[c].freed,
         CascadeNeeded(C, D, c),
         \A x \in Channel \ {c} : WatchedAt(C, D, x),
         NEW t, NEW o \in Outcomes, CascadeClose(C, D, c, t, o)
  PROVE  Settled(C) \/ Died
  <1> DEFINE d == C[c].dp
             list == D[d].aux
             closing(n) == {list[i] : i \in (n + 1) .. Len(list)}
             closed(n) == closing(n) \cup {c}
             cut(e, n) == IF e = d THEN [D[e] EXCEPT !.aux = SubSeq(list, 1, n)] ELSE D[e]
             lost(e, n) == \E x \in closed(n) : Detaches(C[x], o) /\ C[x].dp = e
  <1>1. /\ C \in [Channel -> ChannelRec] /\ D \in [Datapath -> DatapathRec]
        /\ \A x \in Channel : C[x] \in ChannelRec /\ RecOK(C[x])
    BY DEF StateOK
  <1>2. d \in Datapath /\ list \in Seq(Channel)
    BY <1>1, AddedHasDatapath DEF CascadeNeeded, DatapathRec
  <1>3. PICK n \in 0 .. Len(list) :
          /\ \A x \in closing(n) : C[x].hash
          /\ \/ Died
             \/ /\ ch' = [x \in Channel |-> IF x \in closed(n)
                                            THEN CloseRec(C[x], t, o) ELSE C[x]]
                /\ dpt' = [e \in Datapath |-> IF lost(e, n) THEN ClearMain(cut(e, n))
                                                            ELSE cut(e, n)]
                /\ UNCHANGED fault
    BY DEF CascadeClose, Died, Die
  <1>4. CASE Died
    BY <1>4
  <1>5. ASSUME ch' = [x \in Channel |-> IF x \in closed(n)
                                        THEN CloseRec(C[x], t, o) ELSE C[x]],
               dpt' = [e \in Datapath |-> IF lost(e, n) THEN ClearMain(cut(e, n))
                                                        ELSE cut(e, n)],
               UNCHANGED fault
        PROVE  Settled(C)
    <2>1. /\ SubSeq(list, 1, n) \in Seq(Channel)
          /\ Len(SubSeq(list, 1, n)) = n
          /\ \A i \in 1 .. n : SubSeq(list, 1, n)[i] = list[i]
      BY <1>2
    <2>2. closed(n) \in SUBSET Channel
      BY <1>2
    <2>3. \A x \in closed(n) : ~ C[x].freed
      BY <1>1, <1>3, <2>2 DEF RecOK
    <2>4. \A e \in Datapath : D[e] \in DatapathRec /\ D[e].aux \in Seq(Channel)
      BY <1>1 DEF DatapathRec
    <2>5. \A e \in Datapath :
            /\ cut(e, n) \in DatapathRec
            /\ cut(e, n).present = D[e].present /\ cut(e, n).main = D[e].main
            /\ cut(e, n).active = D[e].active
            /\ cut(e, n).victim = D[e].victim /\ cut(e, n).status = D[e].status
            /\ cut(e, n).aux = IF e = d THEN SubSeq(list, 1, n) ELSE D[e].aux
      BY <2>1, <2>4 DEF DatapathRec
    <2>6. \A x \in Channel \ closed(n) : WatchedAt(C, D, x)
      OBVIOUS
    <2> HIDE DEF cut, closed, closing, lost
    <2>7. \A e \in Datapath : dpt'[e] = IF lost(e, n) THEN ClearMain(cut(e, n)) ELSE cut(e, n)
      BY <1>5
    <2>8. dpt' \in [Datapath -> DatapathRec]
      BY <1>5, <2>5, ClearMainFacts
    <2>9. \A e \in Datapath :
            /\ dpt'[e].present => D[e].present /\ dpt'[e].main = D[e].main
            /\ dpt'[e].active => D[e].active
            /\ dpt'[e].aux = cut(e, n).aux
            /\ dpt'[e].victim = D[e].victim /\ dpt'[e].status = D[e].status
            /\ lost(e, n) => ~ dpt'[e].present /\ ~ dpt'[e].active
      BY <2>5, <2>7, ClearMainFacts
    <2>10. \A x \in closed(n) : Detaches(C[x], o) =>
             ~ dpt'[C[x].dp].present /\ ~ dpt'[C[x].dp].active
      <3> SUFFICES ASSUME NEW x \in closed(n), Detaches(C[x], o)
                   PROVE  ~ dpt'[C[x].dp].present /\ ~ dpt'[C[x].dp].active
        OBVIOUS
      <3>1. C[x].dp \in Datapath
        BY <1>1, <2>2, AddedHasDatapath DEF Detaches
      <3>2. QED
        BY <2>9, <3>1 DEF lost
    <2>11. \A e \in Datapath :
             /\ Len(dpt'[e].aux) \in 0 .. Len(D[e].aux)
             /\ \A i \in 1 .. Len(dpt'[e].aux) : dpt'[e].aux[i] = D[e].aux[i]
             /\ \A i \in 1 .. Len(D[e].aux) : i > Len(dpt'[e].aux) => D[e].aux[i] \in closed(n)
      <3> SUFFICES ASSUME NEW e \in Datapath
                   PROVE  /\ Len(dpt'[e].aux) \in 0 .. Len(D[e].aux)
                          /\ \A i \in 1 .. Len(dpt'[e].aux) : dpt'[e].aux[i] = D[e].aux[i]
                          /\ \A i \in 1 .. Len(D[e].aux) :
                               i > Len(dpt'[e].aux) => D[e].aux[i] \in closed(n)
        OBVIOUS
      <3>1. CASE e # d
        BY <2>4, <2>5, <2>9, <3>1
      <3>2. CASE e = d
        <4>1. dpt'[e].aux = SubSeq(list, 1, n) /\ D[e].aux = list
          BY <2>5, <2>9, <3>2, ZenonT(60)
        <4>2. \A i \in 1 .. Len(list) : i > n => list[i] \in closed(n)
          BY <1>2 DEF closed, closing
        <4> HIDE DEF list, d
        <4>3. QED
          BY <1>2, <2>1, <4>1, <4>2
      <3>3. QED
        BY <3>1, <3>2
    <2>12. \A e \in Datapath :
             /\ dpt'[e].present => D[e].present /\ dpt'[e].main = D[e].main
             /\ dpt'[e].active => D[e].active
             /\ Len(dpt'[e].aux) \in 0 .. Len(D[e].aux)
             /\ \A i \in 1 .. Len(dpt'[e].aux) : dpt'[e].aux[i] = D[e].aux[i]
             /\ \A i \in 1 .. Len(D[e].aux) : i > Len(dpt'[e].aux) => D[e].aux[i] \in closed(n)
             /\ dpt'[e].victim = D[e].victim /\ dpt'[e].status = D[e].status
      BY <2>9, <2>11, Zenon
    <2>13. Closes(C, D, closed(n), t, o, ch', dpt')
      BY <1>5, <2>2, <2>3, <2>8, <2>10, <2>12 DEF Closes
    <2>14. StateOK(ch', dpt') /\ Watched(ch', dpt') /\ Onwards(C, ch')
      BY <2>6, <2>13, ClosedRefs
    <2>15. QED
      BY <1>5, <2>14 DEF Settled
  <1>6. QED
    BY <1>3, <1>4, <1>5

\* The CLOSE event, whichever of the two it is.
LEMMA CloseEventSettles ==
  ASSUME NEW C, NEW D, StateOK(C, D), NEW c \in Channel, ~ C[c].freed,
         \A x \in Channel \ {c} : WatchedAt(C, D, x),
         NEW t, NEW o \in Outcomes, CloseEvent(C, D, c, t, o)
  PROVE  Settled(C) \/ Died
  BY PlainCloseSettles, CascadeCloseSettles DEF CloseEvent

\* The DETACH handler followed by the CLOSE handler.
LEMMA DetachThenCloseSettles ==
  ASSUME NEW C, NEW D, StateOK(C, D), NEW c \in Channel, ~ C[c].freed,
         \A x \in Channel \ {c} : WatchedAt(C, D, x),
         NEW t, NEW o \in Outcomes, DetachThenClose(C, D, c, t, o)
  PROVE  Settled(C) \/ Died
  <1>1. [o EXCEPT !.epoll = TRUE] \in Outcomes
    BY DEF Outcomes
  <1>2. QED
    BY <1>1, PlainCloseSettles, CloseEventSettles DEF DetachThenClose

-----------------------------------------------------------------------------
(***************************************************************************)
(* Steps that neither attach, detach nor close: they turn a channel q into  *)
(* a channel r that every reference sees alike.                             *)
(***************************************************************************)
Quiet(q, r) ==
  /\ r \in ChannelRec /\ RecOK(r)
  /\ Looser(q, r) /\ Onward(q, r)
  /\ r.added = q.added /\ r.dp = q.dp
  /\ r.freed => q.freed

\* The keep-alive that watches q watches r.
Watches(q, r) ==
  r.fsm = "bound" => /\ q.fsm = "bound"
                     /\ q.ktimer = "on" \/ q.busy => r.ktimer = "on" \/ r.busy

\* Updates of the fields no reference depends on are quiet; those of a released
\* block may change its timers only.
LEMMA QuietFields ==
  ASSUME NEW q \in ChannelRec, RecOK(q), NEW r \in ChannelRec,
         r.fsm = q.fsm, r.added = q.added, r.dp = q.dp, r.aux = q.aux \/ ~ q.added,
         r.hash = q.hash, r.epoll = q.epoll, r.freed = q.freed,
         r.busy => q.busy, q.ready => r.ready,
         r.ktimer = "on" => q.added /\ q.hash /\ r.ka # NOT_READY,
         ~ q.freed \/ r = [q EXCEPT !.ktimer = r.ktimer, !.rtimer = r.rtimer]
  PROVE  Quiet(q, r)
  <1>1. RecOK(r)
    BY DEF RecOK
  <1>2. Looser(q, r)
    BY DEF Looser
  <1>3. Onward(q, r)
    BY DEF Onward, RecOK, ChannelRec
  <1>4. QED
    BY <1>1, <1>2, <1>3 DEF Quiet

\* A channel that does not change is quiet.
LEMMA QuietSame ==
  ASSUME NEW q \in ChannelRec, RecOK(q)
  PROVE  Quiet(q, q) /\ Watches(q, q)
  <1>1. q = [q EXCEPT !.ktimer = q.ktimer, !.rtimer = q.rtimer]
    BY DEF ChannelRec
  <1>2. q.ktimer = "on" => q.added /\ q.hash /\ q.ka # NOT_READY
    BY DEF RecOK
  <1>3. QED
    BY <1>1, <1>2, QuietFields DEF Watches

\* A table of channels that changed quietly keeps the invariant.
LEMMA QuietTable ==
  ASSUME NEW C, NEW D, StateOK(C, D), NEW C2, C2 = [x \in Channel |-> C2[x]],
         \A x \in Channel : Quiet(C[x], C2[x])
  PROVE  StateOK(C2, D) /\ Onwards(C, C2)
  <1>1. C2 \in [Channel -> ChannelRec]
    BY DEF Quiet
  <1>2. D \in [Datapath -> DatapathRec] /\ \A d \in Datapath : D[d].aux \in Seq(Channel)
    BY DEF StateOK, DatapathRec
  <1>3. Loosens(C, D, C2, D)
    BY <1>1, <1>2 DEF Loosens, Quiet
  <1>4. QED
    BY <1>3, LooserRefs DEF Onwards, Quiet

\* The same for one channel c.
LEMMA QuietChannel ==
  ASSUME NEW C, NEW D, StateOK(C, D), NEW c \in Channel,
         NEW r, Quiet(C[c], r)
  PROVE  LET C2 == [C EXCEPT ![c] = r] IN
         /\ StateOK(C2, D) /\ Onwards(C, C2)
         /\ \A x \in Channel : Quiet(C[x], C2[x])
         /\ C2[c] = r /\ \A x \in Channel \ {c} : C2[x] = C[x]
  <1> DEFINE C2 == [C EXCEPT ![c] = r]
  <1>1. C \in [Channel -> ChannelRec] /\ \A x \in Channel : RecOK(C[x])
    BY DEF StateOK
  <1>2. C2[c] = r /\ \A x \in Channel \ {c} : C2[x] = C[x]
    BY <1>1
  <1>3. C2 = [x \in Channel |-> C2[x]]
    BY <1>1
  <1>4. \A x \in Channel : Quiet(C[x], C2[x])
    BY <1>1, <1>2, QuietSame
  <1>5. QED
    BY <1>2, <1>3, <1>4, QuietTable

-----------------------------------------------------------------------------
(***************************************************************************)
(* One lemma per group of actions.                                          *)
(***************************************************************************)
\* ClosedForever, as a relation between two channel tables.
Forward(C, D, C2) ==
  \A c \in Channel : C[c].fsm # "init" /\ ~ C[c].hash =>
    /\ ~ C2[c].hash /\ C2[c].epoll = "none"
    /\ C2[c].added => C[c].added
    /\ C[c].fsm = "closed" /\ C2[c].fsm # "closed" =>
         \E d \in Datapath : D[d].status = "detached" /\ D[d].victim = c
    /\ C[c].freed =>
         C2[c] = [C[c] EXCEPT !.ktimer = C2[c].ktimer, !.rtimer = C2[c].rtimer]

\* What every step has to establish.
Preserved == IndInv' /\ Forward(ch, dpt, ch')

\* The invariant, as the handlers find it.
LEMMA Sound ==
  ASSUME IndInv
  PROVE  /\ StateOK(ch, dpt) /\ Watched(ch, dpt)
         /\ ch \in [Channel -> ChannelRec] /\ dpt \in [Datapath -> DatapathRec]
         /\ \A x \in Channel : /\ ch[x] \in ChannelRec /\ RecOK(ch[x])
                              /\ WatchedAt(ch, dpt, x)
                              /\ ch[x].freed => ~ ch[x].hash
         /\ Outcome \subseteq Outcomes
  BY ChannelAssumption DEF IndInv, StateOK, Watched, WatchedAt, RecOK, Outcomes

\* A handler that settles, or dies, preserves the invariant.
LEMMA StepDone ==
  ASSUME IndInv, Settled(ch) \/ Died
  PROVE  Preserved
  <1>1. CASE Settled(ch)
    <2>1. Forward(ch, dpt, ch')
      BY <1>1 DEF Settled, Onwards, Onward, Forward
    <2>2. QED
      BY <1>1, <2>1 DEF Settled, IndInv, TypeOK, StateOK, EchoFindsChannel, Preserved
  <1>2. CASE Died
    <2>1. ch' = ch /\ dpt' = dpt /\ Watched(ch, dpt) /\ StateOK(ch, dpt)
      BY <1>2 DEF Died, IndInv
    <2>2. \A x \in Channel : Onward(ch[x], ch[x])
      <3>1. \A x \in Channel : ch[x] \in ChannelRec /\ RecOK(ch[x])
        BY DEF IndInv, StateOK
      <3>2. QED
        BY <3>1, QuietSame DEF Quiet
    <2>3. Forward(ch, dpt, ch')
      BY <2>1, <2>2 DEF Onward, Forward
    <2>4. StateOK(ch', dpt') /\ Watched(ch', dpt')
      BY <2>1
    <2>5. QED
      BY <1>2, <2>3, <2>4 DEF Died, IndInv, TypeOK, StateOK, EchoFindsChannel, Preserved
  <1>3. QED
    BY <1>1, <1>2

\* No closed channel comes back over two updates in a row.
LEMMA OnwardTrans ==
  ASSUME NEW q \in ChannelRec, NEW r \in ChannelRec, NEW s \in ChannelRec,
         Onward(q, r), q.fsm # "init" => r.fsm # "init", Onward(r, s)
  PROVE  Onward(q, s)
  <1>1. CASE q.fsm = "init" \/ q.hash
    BY <1>1 DEF Onward
  <1>2. CASE q.fsm # "init" /\ ~ q.hash
    <2>1. ASSUME q.freed
          PROVE  s = [q EXCEPT !.ktimer = s.ktimer, !.rtimer = s.rtimer]
      <3>1. r = [q EXCEPT !.ktimer = r.ktimer, !.rtimer = r.rtimer]
        BY <1>2, <2>1 DEF Onward
      <3>2. r.freed
        BY <2>1, <3>1 DEF ChannelRec
      <3>3. s = [r EXCEPT !.ktimer = s.ktimer, !.rtimer = s.rtimer]
        BY <1>2, <3>2 DEF Onward
      <3>4. QED
        BY <3>1, <3>3, ZenonT(60) DEF ChannelRec
    <2>2. QED
      BY <1>2, <2>1 DEF Onward
  <1>3. QED
    BY <1>1, <1>2

\* So a handler that settles from a quiet change of the table settles.
LEMMA ForwardTrans ==
  ASSUME IndInv, NEW C, StateOK(C, dpt), \A x \in Channel : Quiet(ch[x], C[x]), Settled(C)
  PROVE  Settled(ch)
  <1>1. ASSUME NEW x \in Channel PROVE Onward(ch[x], ch'[x])
    <2>1. /\ ch[x] \in ChannelRec /\ C[x] \in ChannelRec /\ ch'[x] \in ChannelRec
      BY Sound DEF Settled, StateOK
    <2>2. Onward(ch[x], C[x]) /\ Onward(C[x], ch'[x])
      BY DEF Settled, Onwards, Quiet
    <2>3. ch[x].fsm # "init" => C[x].fsm # "init"
      BY DEF Quiet, Looser
    <2>4. QED
      BY <2>1, <2>2, <2>3, OnwardTrans
  <1>2. QED
    BY <1>1 DEF Settled, Onwards

\* Two quiet updates in a row are one.
LEMMA QuietTrans ==
  ASSUME NEW q \in ChannelRec, NEW r, NEW s, Quiet(q, r), Quiet(r, s)
  PROVE  Quiet(q, s)
  <1>1. Onward(q, s)
    BY OnwardTrans DEF Quiet, Looser
  <1>2. QED
    BY <1>1 DEF Quiet, Looser

\* A quiet step of the whole table.
LEMMA QuietStep ==
  ASSUME IndInv, ch' = [x \in Channel |-> ch'[x]],
         \A x \in Channel : Quiet(ch[x], ch'[x]) /\ Watches(ch[x], ch'[x]),
         UNCHANGED <<dpt, fault>>
  PROVE  Preserved
  <1>1. StateOK(ch', dpt') /\ Onwards(ch, ch')
    BY Sound, QuietTable
  <1>2. Watched(ch', dpt')
    BY Sound DEF Watched, WatchedAt, Watches
  <1>3. QED
    BY <1>1, <1>2, StepDone DEF Settled

\* A quiet step of one channel.
LEMMA QuietChannelStep ==
  ASSUME IndInv, NEW c \in Channel, NEW r, Quiet(ch[c], r), Watches(ch[c], r),
         ch' = [ch EXCEPT ![c] = r], UNCHANGED <<dpt, fault>>
  PROVE  Preserved
  <1>1. /\ \A x \in Channel : Quiet(ch[x], ch'[x])
        /\ ch'[c] = r /\ \A x \in Channel \ {c} : ch'[x] = ch[x]
    BY Sound, QuietChannel
  <1>2. \A x \in Channel : Watches(ch[x], ch'[x])
    BY <1>1 DEF Watches
  <1>3. ch' = [x \in Channel |-> ch'[x]]
    BY Sound
  <1>4. QED
    BY <1>1, <1>2, <1>3, QuietStep

\* Reading a message zeroes the keep-alive count.
LEMMA HeardQuiet ==
  ASSUME IndInv, NEW c \in Channel, BoundRead(c)
  PROVE  /\ Heard(c) \in [Channel -> ChannelRec]
         /\ \A x \in Channel : Quiet(ch[x], Heard(c)[x]) /\ Watches(ch[x], Heard(c)[x])
         /\ Heard(c)[c] = [ch[c] EXCEPT !.count = 0]
         /\ \A x \in Channel \ {c} : Heard(c)[x] = ch[x]
  <1> DEFINE r == [ch[c] EXCEPT !.count = 0]
  <1>1. /\ ch \in [Channel -> ChannelRec] /\ StateOK(ch, dpt)
        /\ ch[c] \in ChannelRec /\ RecOK(ch[c])
    BY DEF IndInv, StateOK
  <1>2. ~ ch[c].freed
    BY <1>1 DEF BoundRead, BoundHandler, RecOK
  <1>3. 0 \in 0 .. (MaxRetries + 1)
    BY ChannelAssumption
  <1>4. Quiet(ch[c], r) /\ Watches(ch[c], r)
    <2>1. /\ r \in ChannelRec
          /\ r.fsm = ch[c].fsm /\ r.added = ch[c].added /\ r.dp = ch[c].dp
          /\ r.aux = ch[c].aux /\ r.hash = ch[c].hash /\ r.epoll = ch[c].epoll
          /\ r.freed = ch[c].freed /\ r.busy = ch[c].busy /\ r.ready = ch[c].ready
          /\ r.ktimer = ch[c].ktimer /\ r.ka = ch[c].ka
      BY <1>1, <1>3 DEF ChannelRec
    <2> HIDE DEF r
    <2>2. r.ktimer = "on" => ch[c].added /\ ch[c].hash /\ r.ka # NOT_READY
      BY <1>1, <2>1 DEF RecOK
    <2>3. QED
      BY <1>1, <1>2, <2>1, <2>2, QuietFields DEF Watches
  <1>5. Heard(c) = [ch EXCEPT ![c] = r]
    BY DEF Heard
  <1> HIDE DEF r
  <1>6. /\ \A x \in Channel : Quiet(ch[x], Heard(c)[x])
        /\ Heard(c)[c] = r /\ \A x \in Channel \ {c} : Heard(c)[x] = ch[x]
        /\ Heard(c) \in [Channel -> ChannelRec]
    BY <1>1, <1>4, <1>5, QuietChannel DEF StateOK
  <1>7. \A x \in Channel : Watches(ch[x], Heard(c)[x])
    BY <1>4, <1>6 DEF Watches
  <1>8. QED
    BY <1>6, <1>7 DEF r

\* Messages of a bound channel that only reset its count.
LEMMA BoundMessages ==
  ASSUME IndInv, NEW c \in Channel, BoundMessage(c)
  PROVE  Preserved
  <1>1. BoundRead(c) /\ ch' = Heard(c) /\ UNCHANGED <<dpt, fault>>
    BY DEF BoundMessage
  <1>2. ch' = [x \in Channel |-> ch'[x]]
    BY <1>1, HeardQuiet
  <1>3. QED
    BY <1>1, <1>2, HeardQuiet, QuietStep

\* An echo reply or-s the response bit into some channel of the table.
LEMMA OrRespFacts ==
  ASSUME NEW k \in KeepAlive
  PROVE  OrResp(k) \in KeepAlive \ {NOT_READY}
  BY DEF OrResp, HasResp, KeepAlive, NOT_READY, READY, SENT, RESP_RCVD

\* A channel of the table whose keep-alive bits change, but not to NOT_READY.
LEMMA KeepAliveUpdate ==
  ASSUME NEW q \in ChannelRec, RecOK(q), ~ q.freed, NEW k \in KeepAlive \ {NOT_READY}
  PROVE  LET r == [q EXCEPT !.ka = k] IN Quiet(q, r) /\ Watches(q, r)
  <1> DEFINE r == [q EXCEPT !.ka = k]
  <1>1. /\ r \in ChannelRec
        /\ r.fsm = q.fsm /\ r.added = q.added /\ r.dp = q.dp
        /\ r.aux = q.aux /\ r.hash = q.hash /\ r.epoll = q.epoll
        /\ r.freed = q.freed /\ r.busy = q.busy /\ r.ready = q.ready
        /\ r.ktimer = q.ktimer /\ r.ka = k
    BY DEF ChannelRec
  <1> HIDE DEF r
  <1>2. r.ktimer = "on" => q.added /\ q.hash /\ r.ka # NOT_READY
    BY <1>1 DEF RecOK
  <1>3. Quiet(q, r) /\ Watches(q, r)
    BY <1>1, <1>2, QuietFields DEF Watches
  <1>4. QED
    BY <1>3 DEF r

\* What watches q and then r watches on.
LEMMA WatchesTrans ==
  ASSUME NEW q, NEW r, NEW s, Watches(q, r), Watches(r, s)
  PROVE  Watches(q, s)
  BY DEF Watches

\* An echo reply marks the main channel, if there is one.
LEMMA EchoReplies ==
  ASSUME IndInv, NEW c \in Channel, EchoReply(c)
  PROVE  Preserved
  <1> DEFINE m == dpt[ch[c].dp].main
             H == Heard(c)
  <1>1. /\ H \in [Channel -> ChannelRec]
        /\ \A x \in Channel : Quiet(ch[x], H[x]) /\ Watches(ch[x], H[x])
        /\ \A x \in Channel : H[x] \in ChannelRec /\ RecOK(H[x])
    BY HeardQuiet DEF EchoReply, Quiet
  <1>2. UNCHANGED <<dpt, fault>>
    BY DEF EchoReply
  <1>3. CASE ch' = H
    <2>1. ch' = [x \in Channel |-> ch'[x]]
      BY <1>1, <1>3
    <2>2. QED
      BY <1>1, <1>2, <1>3, <2>1, QuietStep
  <1>4. CASE m \in Channel /\ ch[m].hash /\ ch' = [H EXCEPT ![m].ka = OrResp(@)]
    <2> HIDE DEF H, m
    <2> DEFINE r == [H[m] EXCEPT !.ka = OrResp(H[m].ka)]
    <2>1. OrResp(H[m].ka) \in KeepAlive \ {NOT_READY}
      <3>1. H[m].ka \in KeepAlive
        BY <1>1, <1>4 DEF ChannelRec
      <3>2. QED
        BY <3>1, OrRespFacts
    <2>2. ~ H[m].freed
      <3>1. ~ ch[m].freed
        BY <1>4 DEF IndInv, StateOK, RecOK
      <3>2. QED
        BY <1>1, <1>4, <3>1 DEF Quiet
    <2>3. Quiet(H[m], r) /\ Watches(H[m], r)
      BY <1>1, <1>4, <2>1, <2>2, KeepAliveUpdate
    <2>4. ch' = [H EXCEPT ![m] = r]
      BY <1>1, <1>4
    <2> HIDE DEF r
    <2>5. Quiet(ch[m], r) /\ Watches(ch[m], r)
      BY <1>1, <1>4, <2>3, Sound, QuietTrans, WatchesTrans
    <2>6. \A x \in Channel : Quiet(ch[x], ch'[x]) /\ Watches(ch[x], ch'[x])
      BY <1>1, <1>4, <2>4, <2>5
    <2>7. ch' = [x \in Channel |-> ch'[x]]
      BY <1>1, <2>4
    <2>8. QED
      BY <1>2, <2>6, <2>7, QuietStep
  <1>5. dpt[ch[c].dp].main # NoChannel /\ InDprm(ch[c].dp) => m \in Channel
    <2>1. ch[c].dp \in Datapath
      BY AddedHasDatapath DEF EchoReply, BoundRead, BoundHandler, IndInv, StateOK, RecOK
    <2>2. QED
      BY <2>1 DEF IndInv, StateOK, DatapathRec
  <1>6. QED
    BY <1>3, <1>4, <1>5 DEF EchoReply

\* The datapath becomes active: its witness is the channel that reports.
LEMMA PortDescReplies ==
  ASSUME IndInv, NEW c \in Channel, PortDescReply(c)
  PROVE  Preserved
  <1> DEFINE H == Heard(c)
             d == ch[c].dp
             r == [H[c] EXCEPT !.ready = TRUE]
             C2 == [H EXCEPT ![c] = r]
  <1>1. BoundRead(c) /\ ch[c].epoll = "dp"
    BY DEF PortDescReply, BoundRead, BoundHandler
  <1>2. /\ H \in [Channel -> ChannelRec]
        /\ \A x \in Channel : Quiet(ch[x], H[x]) /\ Watches(ch[x], H[x])
        /\ \A x \in Channel : H[x] \in ChannelRec /\ RecOK(H[x])
        /\ H[c] = [ch[c] EXCEPT !.count = 0]
    BY <1>1, HeardQuiet DEF Quiet
  <1>3. /\ ch[c] \in ChannelRec /\ ch[c].added /\ ch[c].hash /\ ~ ch[c].freed
        /\ d \in Datapath
    BY <1>1, AddedHasDatapath DEF IndInv, StateOK, RecOK
  <1>4. /\ StateOK(ch, dpt) /\ Watched(ch, dpt) /\ dpt \in [Datapath -> DatapathRec]
        /\ ch[c].ktimer = "on" => ch[c].added /\ ch[c].hash /\ ch[c].ka # NOT_READY
    BY DEF IndInv, StateOK, RecOK
  <1>5. CASE ch' = H /\ UNCHANGED <<dpt, fault>>
    <2>1. ch' = [x \in Channel |-> ch'[x]]
      BY <1>2, <1>5
    <2>2. QED
      BY <1>2, <1>5, <2>1, QuietStep
  <1>6. ASSUME ch[c].aux = 0, ch' = [H EXCEPT ![c].ready = TRUE],
               dpt' = [dpt EXCEPT ![d].active = TRUE], UNCHANGED fault
        PROVE  Preserved
    <2>1. ch' = C2
      BY <1>6
    <2> HIDE DEF H, d
    <2>2. /\ r \in ChannelRec
          /\ r.fsm = H[c].fsm /\ r.added = H[c].added /\ r.dp = H[c].dp
          /\ r.aux = H[c].aux /\ r.hash = H[c].hash /\ r.epoll = H[c].epoll
          /\ r.freed = H[c].freed /\ r.busy = H[c].busy /\ r.ready
          /\ r.ktimer = H[c].ktimer /\ r.ka = H[c].ka
      BY <1>2, ZenonT(60) DEF ChannelRec
    <2>3. /\ H[c].added = ch[c].added /\ H[c].hash = ch[c].hash /\ H[c].ka = ch[c].ka
          /\ H[c].ktimer = ch[c].ktimer /\ H[c].freed = ch[c].freed
          /\ H[c].dp = ch[c].dp /\ H[c].aux = ch[c].aux
      BY <1>2, <1>3, ZenonT(60) DEF ChannelRec
    <2> HIDE DEF r
    <2>4. Quiet(H[c], r) /\ Watches(H[c], r)
      <3>1. H[c] \in ChannelRec /\ RecOK(H[c])
        BY <1>2
      <3>2. r.ktimer = "on" => H[c].added /\ H[c].hash /\ r.ka # NOT_READY
        BY <1>4, <2>2, <2>3
      <3>3. ~ H[c].freed
        BY <1>3, <2>3
      <3>4. QED
        BY <2>2, <3>1, <3>2, <3>3, QuietFields DEF Watches
    <2>5. Quiet(ch[c], r) /\ Watches(ch[c], r)
      BY <1>2, <1>3, <2>4, QuietTrans, WatchesTrans
    <2>6. C2[c] = r /\ (\A x \in Channel \ {c} : C2[x] = H[x]) /\ C2 = [x \in Channel |-> C2[x]]
      BY <1>2
    <2> HIDE DEF C2
    <2>7. \A x \in Channel : Quiet(ch[x], C2[x]) /\ Watches(ch[x], C2[x])
      BY <1>2, <2>5, <2>6
    <2>8. StateOK(C2, dpt) /\ Onwards(ch, C2)
      BY <1>4, <2>6, <2>7, QuietTable
    <2>9. C2[c].added /\ C2[c].dp = d /\ C2[c].aux = 0 /\ C2[c].ready
      BY <1>3, <1>6, <2>2, <2>3, <2>6 DEF d
    <2>10. /\ dpt' \in [Datapath -> DatapathRec]
           /\ \A e \in Datapath :
                /\ dpt'[e].present = dpt[e].present /\ dpt'[e].main = dpt[e].main
                /\ dpt'[e].aux = dpt[e].aux /\ dpt'[e].status = dpt[e].status
                /\ dpt'[e].victim = dpt[e].victim
                /\ e # d => dpt'[e].active = dpt[e].active
      BY <1>4, <1>6, ZenonT(60) DEF DatapathRec
    <2>11. StateOK(C2, dpt')
      <3>1. MainRefs(C2, dpt')
        BY <2>8, <2>10 DEF StateOK, MainRefs
      <3>2. AuxRefs(C2, dpt')
        BY <2>8, <2>10 DEF StateOK, AuxRefs
      <3>3. AuxOnList(C2, dpt')
        <4>1. \A x \in Channel : C2[x].added => C2[x].dp \in Datapath
          BY <2>8, AddedHasDatapath DEF StateOK
        <4>2. QED
          BY <2>8, <2>10, <4>1 DEF StateOK, AuxOnList
      <3>4. ActiveRefs(C2, dpt')
        <4> SUFFICES ASSUME NEW e \in Datapath, dpt'[e].active
                     PROVE  \E x \in Channel : /\ C2[x].added /\ C2[x].dp = e
                                              /\ C2[x].aux = 0 /\ C2[x].ready
          BY DEF ActiveRefs
        <4>1. CASE e = d
          BY <2>9, <4>1
        <4>2. CASE e # d
          BY <2>8, <2>10, <4>2 DEF StateOK, ActiveRefs
        <4>3. QED
          BY <4>1, <4>2
      <3>5. Victims(C2, dpt')
        BY <2>8, <2>10 DEF StateOK, Victims
      <3>6. QED
        BY <2>8, <2>10, <3>1, <3>2, <3>3, <3>4, <3>5 DEF StateOK
    <2>12. Watched(C2, dpt')
      BY <1>4, <2>7, <2>10 DEF Watched, Watches
    <2>13. QED
      BY <1>6, <2>1, <2>8, <2>11, <2>12, StepDone DEF Settled
  <1>7. QED
    BY <1>5, <1>6 DEF PortDescReply

\* The stops an owner works off; a timer that is not stopped stays as it is.
LEMMA StopLists ==
  ASSUME IndInv, NEW c \in Channel, StopListDone(c)
  PROVE  Preserved
  <1> DEFINE k == IF ch[c].ktimer = "stopping" THEN "off" ELSE ch[c].ktimer
             v == IF ch[c].rtimer = "stopping" THEN "off" ELSE ch[c].rtimer
             r == [ch[c] EXCEPT !.ktimer = k, !.rtimer = v]
  <1>1. ch \in [Channel -> ChannelRec] /\ ch[c] \in ChannelRec /\ RecOK(ch[c])
    BY DEF IndInv, StateOK
  <1>2. ch' = [ch EXCEPT ![c] = r] /\ UNCHANGED <<dpt, fault>>
    BY <1>1 DEF StopListDone
  <1>3. /\ k \in {"off", "on", "stopping", "left"} /\ v \in {"off", "on", "stopping"}
        /\ k = "on" <=> ch[c].ktimer = "on"
    BY <1>1 DEF ChannelRec
  <1> HIDE DEF k, v
  <1>4. /\ r \in ChannelRec
        /\ r.fsm = ch[c].fsm /\ r.added = ch[c].added /\ r.dp = ch[c].dp
        /\ r.aux = ch[c].aux /\ r.hash = ch[c].hash /\ r.epoll = ch[c].epoll
        /\ r.freed = ch[c].freed /\ r.busy = ch[c].busy /\ r.ready = ch[c].ready
        /\ r.ka = ch[c].ka /\ r.ktimer = k /\ r.rtimer = v
    <2> DEFINE q == ch[c]
               u == [q EXCEPT !.ktimer = k, !.rtimer = v]
    <2>1. q \in ChannelRec
      BY <1>1
    <2> HIDE DEF q
    <2>2. u \in ChannelRec
      BY <1>3, <2>1 DEF ChannelRec
    <2>3. /\ u.fsm = q.fsm /\ u.added = q.added /\ u.dp = q.dp
          /\ u.aux = q.aux /\ u.hash = q.hash /\ u.epoll = q.epoll
          /\ u.freed = q.freed /\ u.busy = q.busy /\ u.ready = q.ready
          /\ u.ka = q.ka /\ u.ktimer = k /\ u.rtimer = v
      BY <2>1 DEF ChannelRec
    <2> HIDE DEF u
    <2>4. QED
      BY <2>2, <2>3 DEF q, u
  <1>5. r = [ch[c] EXCEPT !.ktimer = r.ktimer, !.rtimer = r.rtimer]
    BY <1>4
  <1> HIDE DEF r
  <1>6. r.ktimer = "on" => ch[c].added /\ ch[c].hash /\ r.ka # NOT_READY
    BY <1>1, <1>3, <1>4 DEF RecOK
  <1>7. Quiet(ch[c], r) /\ Watches(ch[c], r)
    BY <1>1, <1>3, <1>4, <1>5, <1>6, QuietFields, ZenonT(60) DEF Watches
  <1>8. QED
    BY <1>2, <1>7, QuietChannelStep

\* The peer of a channel that is still in the table.
LEMMA PeerSteps ==
  ASSUME IndInv, NEW c \in Channel, PeerMute(c) \/ PeerGone(c)
  PROVE  Preserved
  <1>1. /\ ch \in [Channel -> ChannelRec] /\ ch[c] \in ChannelRec /\ RecOK(ch[c])
        /\ ~ ch[c].freed
    BY DEF IndInv, StateOK, RecOK, PeerMute, PeerGone
  <1>2. PICK v \in {"mute", "gone"} :
          ch' = [ch EXCEPT ![c] = [ch[c] EXCEPT !.peer = v]] /\ UNCHANGED <<dpt, fault>>
    BY DEF PeerMute, PeerGone
  <1> DEFINE r == [ch[c] EXCEPT !.peer = v]
  <1>3. /\ r \in ChannelRec
        /\ r.fsm = ch[c].fsm /\ r.added = ch[c].added /\ r.dp = ch[c].dp
        /\ r.aux = ch[c].aux /\ r.hash = ch[c].hash /\ r.epoll = ch[c].epoll
        /\ r.freed = ch[c].freed /\ r.busy = ch[c].busy /\ r.ready = ch[c].ready
        /\ r.ka = ch[c].ka /\ r.ktimer = ch[c].ktimer
    BY <1>1 DEF ChannelRec
  <1>4. ch' = [ch EXCEPT ![c] = r] /\ UNCHANGED <<dpt, fault>>
    BY <1>2
  <1> HIDE DEF r
  <1>5. r.ktimer = "on" => ch[c].added /\ ch[c].hash /\ r.ka # NOT_READY
    BY <1>1, <1>3 DEF RecOK
  <1>6. Quiet(ch[c], r) /\ Watches(ch[c], r)
    BY <1>1, <1>3, <1>5, QuietFields DEF Watches
  <1>7. QED
    BY <1>4, <1>6, QuietChannelStep

\* The release of a block that no deletion of a datapath holds.
LEMMA Releases ==
  ASSUME IndInv, NEW c \in Channel, RcuFree(c)
  PROVE  Preserved
  <1> DEFINE r == [ch[c] EXCEPT !.freed = TRUE, !.ka = NOT_READY, !.count = 0]
  <1>1. /\ StateOK(ch, dpt) /\ Watched(ch, dpt)
        /\ ch \in [Channel -> ChannelRec] /\ dpt \in [Datapath -> DatapathRec]
        /\ \A x \in Channel : ch[x] \in ChannelRec /\ RecOK(ch[x])
    BY DEF IndInv, StateOK
  <1>2. /\ ch[c].fsm # "init" /\ ~ ch[c].hash /\ ~ ch[c].freed
        /\ \A d \in Datapath : dpt[d].victim # c
        /\ UNCHANGED <<dpt, fault>>
    BY DEF RcuFree
  <1>3. ch' = [ch EXCEPT ![c] = r]
    BY <1>1 DEF RcuFree
  <1>4. /\ r \in ChannelRec
        /\ r.fsm = ch[c].fsm /\ r.added = ch[c].added /\ r.dp = ch[c].dp
        /\ r.aux = ch[c].aux /\ r.hash = ch[c].hash /\ r.epoll = ch[c].epoll
        /\ r.busy = ch[c].busy /\ r.ready = ch[c].ready /\ r.ktimer = ch[c].ktimer
    <2>1. 0 \in 0 .. (MaxRetries + 1) /\ NOT_READY \in KeepAlive
      BY ChannelAssumption DEF KeepAlive
    <2> DEFINE q == ch[c]
               u == [q EXCEPT !.freed = TRUE, !.ka = NOT_READY, !.count = 0]
    <2>2. q \in ChannelRec
      BY <1>1
    <2> HIDE DEF q
    <2>3. u \in ChannelRec
      BY <2>1, <2>2 DEF ChannelRec
    <2>4. /\ u.fsm = q.fsm /\ u.added = q.added /\ u.dp = q.dp
          /\ u.aux = q.aux /\ u.hash = q.hash /\ u.epoll = q.epoll
          /\ u.busy = q.busy /\ u.ready = q.ready /\ u.ktimer = q.ktimer
      BY <2>2 DEF ChannelRec
    <2> HIDE DEF u
    <2>5. QED
      BY <2>3, <2>4 DEF q, u
  <1> HIDE DEF r
  <1>5. /\ ch' \in [Channel -> ChannelRec]
        /\ ch'[c] = r /\ \A x \in Channel \ {c} : ch'[x] = ch[x]
    BY <1>1, <1>3, <1>4
  <1>6. RecOK(r) /\ Looser(ch[c], r)
    BY <1>1, <1>2, <1>4 DEF RecOK, Looser
  <1>7. Onward(ch[c], r)
    <2>1. ch[c].epoll = "none"
      BY <1>1, <1>2 DEF RecOK, ChannelRec
    <2>2. QED
      BY <1>2, <1>4, <2>1 DEF Onward
  <1>8. \A x \in Channel \ {c} : Quiet(ch[x], ch'[x])
    BY <1>1, <1>5, QuietSame
  <1>9. \A x \in Channel : RecOK(ch'[x]) /\ Looser(ch[x], ch'[x]) /\ Onward(ch[x], ch'[x])
    BY <1>5, <1>6, <1>7, <1>8 DEF Quiet
  <1>10. \A x \in Channel :
           /\ ch'[x].freed => ch[x].freed \/ \A d \in Datapath : dpt[d].victim # x
           /\ ch[x].added => ch'[x].added
    BY <1>2, <1>4, <1>5
  <1>11. \A d \in Datapath : dpt[d].aux \in Seq(Channel)
    BY <1>1 DEF DatapathRec
  <1>12. dpt' = dpt
    BY <1>2
  <1>13. Loosens(ch, dpt, ch', dpt')
    BY <1>1, <1>5, <1>9, <1>10, <1>11, <1>12 DEF Loosens
  <1>14. StateOK(ch', dpt')
    BY <1>1, <1>13, LooserRefs
  <1>15. Watched(ch', dpt')
    BY <1>1, <1>4, <1>5, <1>12 DEF Watched
  <1>16. QED
    BY <1>2, <1>9, <1>14, <1>15, StepDone DEF Settled, Onwards

\* The handlers that close the channel they run for.
LEMMA ClosingActions ==
  ASSUME IndInv, NEW c \in Channel,
         \/ HandshakeClose(c) \/ MalformedClose(c) \/ PeerClosed(c)
         \/ PeerClosedInHeader(c) \/ \E t \in Thread \cup {App} : SendToGonePeer(c, t)
  PROVE  Preserved
  <1>1. StateOK(ch, dpt) /\ (\A x \in Channel \ {c} : WatchedAt(ch, dpt, x))
        /\ Outcome \subseteq Outcomes
    <2>1. \A x \in Channel : WatchedAt(ch, dpt, x)
      BY DEF IndInv, Watched, WatchedAt
    <2>2. StateOK(ch, dpt) /\ Outcome \subseteq Outcomes
      BY Sound
    <2>3. QED
      BY <2>1, <2>2
  <1>2. ~ ch[c].freed
    <2>1. ch[c].hash \/ ch[c].epoll \in {"handshake", "dp"}
      BY DEF HandshakeClose, MalformedClose, PeerClosed, PeerClosedInHeader,
             SendToGonePeer, HandshakeRead, BoundRead, BoundHandler
    <2>2. QED
      BY <2>1 DEF IndInv, StateOK, RecOK
  <1>3. \E t : \E o \in Outcomes :
          CloseEvent(ch, dpt, c, t, o) \/ DetachThenClose(ch, dpt, c, t, o)
    BY <1>1 DEF HandshakeClose, MalformedClose, PeerClosed, PeerClosedInHeader, SendToGonePeer
  <1>4. QED
    BY <1>1, <1>2, <1>3, CloseEventSettles, DetachThenCloseSettles, StepDone
\* A non-empty set of naturals has a least element.
LEMMA LeastIndex ==
  ASSUME NEW T \in SUBSET Nat, T # {}
  PROVE  \E x \in T : \A y \in T : x <= y
  <1> DEFINE R == {ss \in Nat \X Nat : ss[1] < ss[2]}
  <1>1. IsWellFoundedOn(R, Nat)
    BY NatLessThanWellFounded DEF OpToRel
  <1>2. \A x, y \in Nat : y < x => <<y, x>> \in R
    OBVIOUS
  <1> HIDE DEF R
  <1>3. PICK x \in T : \A y \in T : ~ (<<y, x>> \in R)
    BY <1>1, WFMin
  <1>4. ASSUME NEW y \in T PROVE x <= y
    <2>1. x \in Nat /\ y \in Nat
      OBVIOUS
    <2>2. ~ (y < x)
      BY <1>2, <1>3, <2>1
    <2>3. QED
      BY <2>1, <2>2
  <1>5. QED
    BY <1>4

\* An attached channel's echo finds an entry: a main reference or, for an
\* auxiliary id, the first channel of the list with that id.
LEMMA EchoTargetsFound ==
  ASSUME IndInv, NEW c \in Channel, ch[c].dp # NoDp
  PROVE  /\ EchoTargets(ch[c].dp, ch[c].aux) # {}
         /\ EchoTargets(ch[c].dp, ch[c].aux) \subseteq Channel \cup {NoChannel}
  <1> DEFINE d == ch[c].dp
             a == ch[c].aux
             list == dpt[d].aux
             Match == {j \in 1 .. Len(list) : ch[list[j]].aux = a}
  <1>1. ch[c].added /\ d \in Datapath
    BY AddedHasDatapath DEF IndInv, StateOK, RecOK
  <1>2. list \in Seq(Channel) /\ dpt[d].main \in Channel \cup {NoChannel}
    BY <1>1 DEF IndInv, TypeOK, DatapathRec
  <1>3. CASE a = 0
    BY <1>2, <1>3 DEF EchoTargets
  <1>4. CASE a # 0
    <2>1. \E j \in 1 .. Len(list) : list[j] = c
      BY <1>1, <1>4 DEF IndInv, StateOK, AuxOnList
    <2>2. Match # {} /\ Match \in SUBSET Nat
      BY <2>1, <1>2
    <2>3. PICK j \in Match : \A k \in Match : j <= k
      BY <2>2, LeastIndex
    <2>4. j \in 1 .. Len(list) /\ ch[list[j]].aux = a
      BY <2>3
    <2>5. \A k \in 1 .. (j - 1) : ch[list[k]].aux # a
      <3>1. \A k \in 1 .. (j - 1) : k \in 1 .. Len(list) /\ ~(j <= k)
        BY <1>2, <2>4
      <3>2. QED
        BY <2>3, <3>1
    <2> DEFINE First == {i \in 1 .. Len(list) :
                           /\ ch[list[i]].aux = a
                           /\ \A k \in 1 .. (i - 1) : ch[list[k]].aux # a}
    <2>6. EchoTargets(d, a) = {list[i] : i \in First}
      BY <1>4 DEF EchoTargets
    <2>7. j \in First /\ \A i \in First : list[i] \in Channel
      <3>1. j \in First
        BY <2>4, <2>5
      <3>2. First \subseteq 1 .. Len(list)
        OBVIOUS
      <3> HIDE DEF First, list
      <3>3. QED
        BY <1>2, <3>1, <3>2
    <2> HIDE DEF First, list
    <2>8. /\ list[j] \in EchoTargets(d, a)
          /\ \A x \in EchoTargets(d, a) : x \in Channel
      BY <2>6, <2>7
    <2> HIDE DEF d, a
    <2>9. EchoTargets(d, a) # {} /\ EchoTargets(d, a) \subseteq Channel \cup {NoChannel}
      BY <2>8
    <2>10. QED
      BY <2>9 DEF d, a
  <1>5. QED
    BY <1>3, <1>4

\* An echo is counted on the channel that sends it; the channel that asked for
\* it waits for the answer.
LEMMA EchoSends ==
  ASSUME IndInv, NEW c \in Channel, NEW m \in Channel, ~ ch[c].freed, ch[m].hash,
         ch' = EchoSent(c, m), UNCHANGED <<dpt, fault>>
  PROVE  Preserved
  <1> DEFINE n == Saturate(ch[m].count)
             p == [ch[m] EXCEPT !.count = n]
             C == [ch EXCEPT ![m] = p]
             r == [C[c] EXCEPT !.ka = SENT, !.rtimer = "on"]
  <1>1. /\ StateOK(ch, dpt) /\ ch \in [Channel -> ChannelRec]
        /\ ch[m] \in ChannelRec /\ RecOK(ch[m]) /\ ~ ch[m].freed
        /\ \A x \in Channel : ch[x] \in ChannelRec
    BY DEF IndInv, StateOK, RecOK
  <1>2. n \in 0 .. (MaxRetries + 1)
    BY <1>1, ChannelAssumption DEF Saturate, ChannelRec
  <1>3. ch' = [C EXCEPT ![c] = r]
    <2>1. EchoSent(c, m) = [C EXCEPT ![c].ka = SENT, ![c].rtimer = "on"]
      BY DEF EchoSent
    <2>2. QED
      BY <1>1, <2>1
  <1> HIDE DEF n
  <1>4. Quiet(ch[m], p) /\ Watches(ch[m], p)
    <2>1. /\ p \in ChannelRec
          /\ p.fsm = ch[m].fsm /\ p.added = ch[m].added /\ p.dp = ch[m].dp
          /\ p.aux = ch[m].aux /\ p.hash = ch[m].hash /\ p.epoll = ch[m].epoll
          /\ p.freed = ch[m].freed /\ p.busy = ch[m].busy /\ p.ready = ch[m].ready
          /\ p.ktimer = ch[m].ktimer /\ p.ka = ch[m].ka
      BY <1>1, <1>2 DEF ChannelRec
    <2> HIDE DEF p
    <2>2. p.ktimer = "on" => ch[m].added /\ ch[m].hash /\ p.ka # NOT_READY
      BY <1>1, <2>1 DEF RecOK
    <2>3. QED
      BY <1>1, <2>1, <2>2, QuietFields DEF Watches
  <1> HIDE DEF p
  <1>5. /\ StateOK(C, dpt) /\ \A x \in Channel : Quiet(ch[x], C[x])
        /\ C[m] = p /\ \A x \in Channel \ {m} : C[x] = ch[x]
    BY <1>1, <1>4, QuietChannel
  <1>6. \A x \in Channel : Watches(ch[x], C[x])
    BY <1>4, <1>5 DEF Watches
  <1>7. C \in [Channel -> ChannelRec] /\ C[c] \in ChannelRec /\ RecOK(C[c]) /\ ~ C[c].freed
    BY <1>5 DEF StateOK, Quiet
  <1> HIDE DEF C
  <1>8. Quiet(C[c], r) /\ Watches(C[c], r)
    <2> DEFINE q == C[c]
               u == [q EXCEPT !.ka = SENT, !.rtimer = "on"]
    <2>1. q \in ChannelRec /\ RecOK(q) /\ ~ q.freed
      BY <1>7
    <2>2. SENT \in KeepAlive /\ SENT # NOT_READY
      BY DEF KeepAlive, NOT_READY, SENT
    <2> HIDE DEF q
    <2>3. u \in ChannelRec
      BY <2>1, <2>2 DEF ChannelRec
    <2>4. /\ u.fsm = q.fsm /\ u.added = q.added /\ u.dp = q.dp
          /\ u.aux = q.aux /\ u.hash = q.hash /\ u.epoll = q.epoll
          /\ u.freed = q.freed /\ u.busy = q.busy /\ u.ready = q.ready
          /\ u.ktimer = q.ktimer /\ u.ka = SENT
      BY <2>1 DEF ChannelRec
    <2> HIDE DEF u
    <2>5. u.ktimer = "on" => q.added /\ q.hash /\ u.ka # NOT_READY
      BY <2>1, <2>2, <2>4 DEF RecOK
    <2>6. Quiet(q, u) /\ Watches(q, u)
      BY <2>1, <2>3, <2>4, <2>5, QuietFields DEF Watches
    <2>7. QED
      BY <2>6 DEF q, u
  <1> HIDE DEF r
  <1>9. Quiet(ch[c], r) /\ Watches(ch[c], r)
    BY <1>1, <1>5, <1>6, <1>8, QuietTrans, WatchesTrans
  <1>10. \A x \in Channel : Quiet(ch[x], ch'[x]) /\ Watches(ch[x], ch'[x])
    BY <1>3, <1>5, <1>6, <1>7, <1>9
  <1>11. ch' = [x \in Channel |-> ch'[x]]
    BY <1>3, <1>7
  <1>12. QED
    BY <1>10, <1>11, QuietStep

\* An expiry of the periodic timer: an echo is sent, its target is closed, or
\* the callback dies.
LEMMA KeepAliveExpiries ==
  ASSUME IndInv, NEW c \in Channel, KeepAliveExpiry(c)
  PROVE  Preserved
  <1>1. CASE Died
    BY <1>1, StepDone
  <1>2. CASE ~ Died
    <2>1. ~ ch[c].freed /\ ch[c].dp # NoDp
      BY <1>2 DEF KeepAliveExpiry, Die, Died
    <2>2. PICK m \in Channel :
            /\ ch[m].hash
            /\ \/ ch' = EchoSent(c, m) /\ UNCHANGED <<dpt, fault>>
               \/ EchoToGonePeer(c, m)
      BY <1>2, <2>1, EchoTargetsFound DEF KeepAliveExpiry, Die, Died
    <2>3. CASE ch' = EchoSent(c, m) /\ UNCHANGED <<dpt, fault>>
      BY <2>1, <2>2, <2>3, EchoSends
    <2>4. CASE EchoToGonePeer(c, m)
      <3>1. StateOK(ch, dpt) /\ Outcome \subseteq Outcomes
        BY Sound
      <3>2. (\A x \in Channel \ {m} : WatchedAt(ch, dpt, x)) /\ ~ ch[m].freed
        BY <2>2 DEF IndInv, StateOK, RecOK, Watched, WatchedAt
      <3>3. \E o \in Outcomes : DetachThenClose(ch, dpt, m, ch[c].thr, o)
        BY <1>2, <2>4, <3>1 DEF EchoToGonePeer, Die, Died
      <3>4. QED
        BY <3>1, <3>2, <3>3, DetachThenCloseSettles, StepDone
    <2>5. QED
      BY <2>2, <2>3, <2>4
  <1>3. QED
    BY <1>1, <1>2

\* The response check closes the channel or clears its keep-alive state.
LEMMA ResponseChecks ==
  ASSUME IndInv, NEW c \in Channel, ResponseCheck(c)
  PROVE  Preserved
  <1> DEFINE q == [ch[c] EXCEPT !.rtimer = "off"]
             C == [ch EXCEPT ![c] = q]
             r == [ch[c] EXCEPT !.rtimer = "off", !.ka = READY, !.count = 0]
  <1>1. /\ StateOK(ch, dpt) /\ ch \in [Channel -> ChannelRec]
        /\ ch[c] \in ChannelRec /\ RecOK(ch[c])
    BY DEF IndInv, StateOK
  <1>2. Outcome \subseteq Outcomes /\ \A x \in Channel \ {c} : WatchedAt(ch, dpt, x)
    BY ChannelAssumption DEF IndInv, Watched, WatchedAt, Outcomes
  <1>3. CASE ch[c].freed
    <2>1. Died
      BY <1>3 DEF ResponseCheck, Die, Died
    <2>2. QED
      BY <2>1, StepDone
  <1>4. CASE ~ ch[c].freed
    <2>1. \/ \E o \in Outcomes : CloseEvent(C, dpt, c, ch[c].thr, o)
          \/ ch' = C /\ UNCHANGED <<dpt, fault>>
          \/ ch' = [C EXCEPT ![c].ka = READY, ![c].count = 0] /\ UNCHANGED <<dpt, fault>>
      BY <1>2, <1>4 DEF ResponseCheck
    <2>2. Quiet(ch[c], q) /\ Watches(ch[c], q) /\ ~ q.freed
      <3>1. /\ q \in ChannelRec
            /\ q.fsm = ch[c].fsm /\ q.added = ch[c].added /\ q.dp = ch[c].dp
            /\ q.aux = ch[c].aux /\ q.hash = ch[c].hash /\ q.epoll = ch[c].epoll
            /\ q.freed = ch[c].freed /\ q.busy = ch[c].busy /\ q.ready = ch[c].ready
            /\ q.ktimer = ch[c].ktimer /\ q.ka = ch[c].ka
        BY <1>1 DEF ChannelRec
      <3> HIDE DEF q
      <3>2. q.ktimer = "on" => ch[c].added /\ ch[c].hash /\ q.ka # NOT_READY
        BY <1>1, <3>1 DEF RecOK
      <3>3. QED
        BY <1>1, <1>4, <3>1, <3>2, QuietFields DEF Watches
    <2> HIDE DEF q
    <2>3. /\ StateOK(C, dpt) /\ \A x \in Channel : Quiet(ch[x], C[x])
          /\ C[c] = q /\ \A x \in Channel \ {c} : C[x] = ch[x]
      BY <1>1, <2>2, QuietChannel
    <2>4. CASE \E o \in Outcomes : CloseEvent(C, dpt, c, ch[c].thr, o)
      <3>1. \A x \in Channel \ {c} : WatchedAt(C, dpt, x)
        BY <1>2, <2>3 DEF WatchedAt
      <3> HIDE DEF C
      <3>2. Settled(C) \/ Died
        BY <2>2, <2>3, <2>4, <3>1, CloseEventSettles
      <3>3. Settled(ch) \/ Died
        BY <2>3, <3>2, ForwardTrans
      <3>4. QED
        BY <3>3, StepDone
    <2>5. CASE ch' = C /\ UNCHANGED <<dpt, fault>>
      BY <2>2, <2>5, QuietChannelStep
    <2>6. CASE ch' = [C EXCEPT ![c].ka = READY, ![c].count = 0] /\ UNCHANGED <<dpt, fault>>
      <3>1. ch' = [ch EXCEPT ![c] = r]
        BY <1>1, <2>6 DEF q
      <3>2. Quiet(ch[c], r) /\ Watches(ch[c], r)
        <4> DEFINE p == ch[c]
                   u == [p EXCEPT !.rtimer = "off", !.ka = READY, !.count = 0]
        <4>1. /\ p \in ChannelRec /\ RecOK(p) /\ ~ p.freed
              /\ 0 \in 0 .. (MaxRetries + 1) /\ READY \in KeepAlive /\ READY # NOT_READY
          BY <1>1, <1>4, ChannelAssumption DEF KeepAlive, NOT_READY, READY
        <4> HIDE DEF p
        <4>2. u \in ChannelRec
          BY <4>1 DEF ChannelRec
        <4>3. /\ u.fsm = p.fsm /\ u.added = p.added /\ u.dp = p.dp
              /\ u.aux = p.aux /\ u.hash = p.hash /\ u.epoll = p.epoll
              /\ u.freed = p.freed /\ u.busy = p.busy /\ u.ready = p.ready
              /\ u.ktimer = p.ktimer /\ u.ka = READY
          BY <4>1 DEF ChannelRec
        <4> HIDE DEF u
        <4>4. u.ktimer = "on" => p.added /\ p.hash /\ u.ka # NOT_READY
          BY <4>1, <4>3 DEF RecOK
        <4>5. Quiet(p, u) /\ Watches(p, u)
          BY <4>1, <4>2, <4>3, <4>4, QuietFields DEF Watches
        <4>6. QED
          BY <4>5 DEF p, u
      <3> HIDE DEF r
      <3>3. QED
        BY <2>6, <3>1, <3>2, QuietChannelStep
    <2>7. QED
      BY <2>1, <2>4, <2>5, <2>6
  <1>5. QED
    BY <1>3, <1>4

\* A zeroed control block.
LEMMA NewChannelFacts ==
  ASSUME NEW t \in Thread \cup {App}
  PROVE  NewChannel(t) \in ChannelRec
  <1>1. 0 \in AuxId /\ 0 \in 0 .. (MaxRetries + 1) /\ NOT_READY \in KeepAlive
    BY ChannelAssumption DEF KeepAlive
  <1>2. QED
    BY <1>1 DEF NewChannel, ChannelRec

\* The record of a channel that has just been learnt.
LEMMA LearnUpdate ==
  ASSUME NEW n \in ChannelRec
  PROVE  LET u == [n EXCEPT !.fsm = "wait", !.hash = TRUE, !.epoll = "handshake"]
         IN /\ u \in ChannelRec
            /\ u.fsm = "wait" /\ u.hash = TRUE /\ u.epoll = "handshake"
            /\ u.added = n.added /\ u.dp = n.dp /\ u.ktimer = n.ktimer
            /\ u.freed = n.freed /\ u.busy = n.busy
  BY DEF ChannelRec

\* A closing handler that first changes its own channel's record quietly.
LEMMA CloseAfterUpdate ==
  ASSUME IndInv, NEW c \in Channel, NEW r, Quiet(ch[c], r), ~ r.freed,
         NEW t, NEW o \in Outcomes,
         \/ PlainClose([ch EXCEPT ![c] = r], dpt, c, t, o)
         \/ CloseEvent([ch EXCEPT ![c] = r], dpt, c, t, o)
         \/ DetachThenClose([ch EXCEPT ![c] = r], dpt, c, t, o)
  PROVE  Preserved
  <1> DEFINE C == [ch EXCEPT ![c] = r]
  <1>1. StateOK(ch, dpt) /\ \A x \in Channel \ {c} : WatchedAt(ch, dpt, x)
    BY DEF IndInv, Watched, WatchedAt
  <1>2. /\ StateOK(C, dpt) /\ \A x \in Channel : Quiet(ch[x], C[x])
        /\ C[c] = r /\ \A x \in Channel \ {c} : C[x] = ch[x]
    BY <1>1, QuietChannel
  <1> HIDE DEF C
  <1>3. \A x \in Channel \ {c} : WatchedAt(C, dpt, x)
    BY <1>1, <1>2 DEF WatchedAt
  <1>4. Settled(C) \/ Died
    BY <1>2, <1>3, PlainCloseSettles, CloseEventSettles, DetachThenCloseSettles DEF C
  <1>5. Settled(ch) \/ Died
    BY <1>2, <1>4, ForwardTrans
  <1>6. QED
    BY <1>5, StepDone

\* Accepting a connection: the control block is unused, so nothing refers to it.
LEMMA Learns ==
  ASSUME IndInv, NEW c \in Channel, Learn(c)
  PROVE  Preserved
  <1>1. ch[c] \in ChannelRec /\ RecOK(ch[c]) /\ ch[c].fsm = "init"
    BY DEF IndInv, StateOK, Learn
  <1>2. PICK t \in Thread :
          \/ ch' = [ch EXCEPT ![c] = Learnt(t)] /\ UNCHANGED <<dpt, fault>>
          \/ \E o \in Outcome : PlainClose([ch EXCEPT ![c] = Learnt(t)], dpt, c, t, o)
    BY DEF Learn
  <1> DEFINE n == NewChannel(t)
             r == Learnt(t)
  <1>3. /\ n \in ChannelRec /\ n.added = FALSE /\ n.dp = NoDp /\ n.ktimer = "off"
        /\ n.freed = FALSE /\ n.busy = FALSE
    BY NewChannelFacts DEF NewChannel
  <1>4. /\ r \in ChannelRec
        /\ r.fsm = "wait" /\ r.hash = TRUE /\ r.epoll = "handshake"
        /\ r.added = FALSE /\ r.dp = NoDp /\ r.ktimer = "off"
        /\ r.freed = FALSE /\ r.busy = FALSE
    <2> DEFINE u == [n EXCEPT !.fsm = "wait", !.hash = TRUE, !.epoll = "handshake"]
    <2>1. r = u
      BY DEF Learnt
    <2> HIDE DEF n
    <2>2. /\ u \in ChannelRec
          /\ u.fsm = "wait" /\ u.hash = TRUE /\ u.epoll = "handshake"
          /\ u.added = n.added /\ u.dp = n.dp /\ u.ktimer = n.ktimer
          /\ u.freed = n.freed /\ u.busy = n.busy
      BY <1>3, LearnUpdate
    <2> HIDE DEF u
    <2>3. QED
      BY <1>3, <2>1, <2>2
  <1> HIDE DEF n, r
  <1>5. Quiet(ch[c], r) /\ Watches(ch[c], r)
    <2>1. ch[c].added = FALSE /\ ch[c].dp = NoDp
      BY <1>1 DEF RecOK, ChannelRec
    <2>2. RecOK(r)
      BY <1>4 DEF RecOK
    <2>3. QED
      BY <1>1, <1>4, <2>1, <2>2 DEF Quiet, Watches, Looser, Onward
  <1>6. CASE ch' = [ch EXCEPT ![c] = r] /\ UNCHANGED <<dpt, fault>>
    BY <1>5, <1>6, QuietChannelStep
  <1>7. CASE \E o \in Outcome : PlainClose([ch EXCEPT ![c] = r], dpt, c, t, o)
    BY <1>4, <1>5, <1>7, Sound, CloseAfterUpdate
  <1>8. QED
    BY <1>2, <1>6, <1>7 DEF r

\* A features reply that is refused closes the channel.
LEMMA FeatureReplyRefusals ==
  ASSUME IndInv, NEW c \in Channel, NEW a \in AuxId, FeatureReplyRefused(c, a)
  PROVE  Preserved
  <1> DEFINE r == [ch[c] EXCEPT !.aux = a]
  <1>1. /\ ch[c] \in ChannelRec /\ RecOK(ch[c]) /\ ~ ch[c].added /\ ~ ch[c].freed
    BY DEF IndInv, StateOK, FeatureReplyRefused, HandshakeRead, RecOK
  <1>2. /\ r \in ChannelRec
        /\ r.fsm = ch[c].fsm /\ r.added = ch[c].added /\ r.dp = ch[c].dp
        /\ r.hash = ch[c].hash /\ r.epoll = ch[c].epoll
        /\ r.freed = ch[c].freed /\ r.busy = ch[c].busy /\ r.ready = ch[c].ready
        /\ r.ktimer = ch[c].ktimer /\ r.ka = ch[c].ka
    BY <1>1 DEF ChannelRec
  <1>3. \E o \in Outcome : PlainClose([ch EXCEPT ![c] = r], dpt, c, ch[c].thr, o)
    BY DEF FeatureReplyRefused
  <1> HIDE DEF r
  <1>4. r.ktimer = "on" => ch[c].added /\ ch[c].hash /\ r.ka # NOT_READY
    BY <1>1, <1>2 DEF RecOK
  <1>5. Quiet(ch[c], r)
    BY <1>1, <1>2, <1>4, QuietFields
  <1>6. QED
    BY <1>1, <1>2, <1>3, <1>5, Sound, CloseAfterUpdate

\* The second part of the features reply: the keep-alive of the channel, as the
\* steps of other threads have left it.
LEMMA FeatureReplyTimers ==
  ASSUME IndInv, NEW c \in Channel, FeatureReplyTimer(c)
  PROVE  Preserved
  <1> DEFINE q == ch[c]
  <1>1. q \in ChannelRec /\ RecOK(q)
    BY DEF IndInv, StateOK
  <1>2. CASE q.freed
    <2>1. Died
      BY <1>2 DEF FeatureReplyTimer, Die, Died
    <2>2. QED
      BY <2>1, StepDone
  <1>3. CASE ~ q.freed
    <2>1. ch' = [ch EXCEPT ![c] = WithTimer(q)] /\ UNCHANGED <<dpt, fault>>
      BY <1>3 DEF FeatureReplyTimer
    <2> HIDE DEF q
    <2> DEFINE k == IF q.added /\ q.hash THEN "on" ELSE "left"
               v == q.stray \/ q.ktimer \in {"on", "left"}
               u == [q EXCEPT !.ka = READY, !.busy = FALSE, !.ktimer = k, !.stray = v]
    <2>2. WithTimer(q) = u
      BY DEF WithTimer
    <2>3. k \in {"off", "on", "stopping", "left"} /\ v \in BOOLEAN
      BY <1>1 DEF ChannelRec
    <2>4. k = "on" <=> q.added /\ q.hash
      OBVIOUS
    <2>5. READY \in KeepAlive /\ READY # NOT_READY
      BY DEF KeepAlive, NOT_READY, READY
    <2> HIDE DEF k, v
    <2>6. u \in ChannelRec
      BY <1>1, <2>3, <2>5, ZenonT(60) DEF ChannelRec
    <2>7. /\ u.fsm = q.fsm /\ u.added = q.added /\ u.dp = q.dp
          /\ u.aux = q.aux /\ u.hash = q.hash /\ u.epoll = q.epoll
          /\ u.freed = q.freed /\ u.busy = FALSE /\ u.ready = q.ready
          /\ u.ktimer = k /\ u.ka = READY
      BY <1>1 DEF ChannelRec
    <2> HIDE DEF u
    <2>8. Quiet(q, u)
      BY <1>1, <1>3, <2>4, <2>5, <2>6, <2>7, QuietFields
    <2>9. Watches(q, u)
      BY <1>1, <2>4, <2>7 DEF Watches, RecOK
    <2>10. QED
      BY <2>1, <2>2, <2>8, <2>9, QuietChannelStep DEF q
  <1>4. QED
    BY <1>2, <1>3

\* The configuration of the switch fails, or the timer: the channel is closed,
\* in the state other threads have left it in.
LEMMA FeatureReplyFails ==
  ASSUME IndInv, NEW c \in Channel, FeatureReplyFail(c)
  PROVE  Preserved
  <1> DEFINE q == ch[c]
             r == [q EXCEPT !.busy = FALSE]
             s == [q EXCEPT !.busy = FALSE, !.ka = READY]
  <1>1. q \in ChannelRec /\ RecOK(q) /\ ~ q.freed /\ ch \in [Channel -> ChannelRec]
    BY DEF IndInv, StateOK, FeatureReplyFail
  <1>2. Outcome \subseteq Outcomes
    BY ChannelAssumption DEF Outcomes
  <1>3. [[ch EXCEPT ![c] = r] EXCEPT ![c].ka = READY] = [ch EXCEPT ![c] = s]
    BY <1>1
  <1>4. \/ /\ q.fsm = "closed" /\ UNCHANGED <<dpt, fault>>
           /\ ch' \in {[ch EXCEPT ![c] = r], [ch EXCEPT ![c] = s]}
        \/ \E o \in Outcomes, C \in {[ch EXCEPT ![c] = r], [ch EXCEPT ![c] = s]} :
             \/ CloseEvent(C, dpt, c, q.thr, o)
             \/ DetachThenClose(C, dpt, c, q.thr, o)
    BY <1>2, <1>3 DEF FeatureReplyFail
  <1>5. \A x \in {r, s} : Quiet(q, x) /\ ~ x.freed /\ x.fsm = q.fsm
    <2> HIDE DEF q
    <2>1. READY \in KeepAlive /\ READY # NOT_READY
      BY DEF KeepAlive, NOT_READY, READY
    <2>2. r \in ChannelRec /\ s \in ChannelRec
      BY <1>1, <2>1 DEF ChannelRec
    <2>3. /\ r.fsm = q.fsm /\ r.added = q.added /\ r.dp = q.dp
          /\ r.aux = q.aux /\ r.hash = q.hash /\ r.epoll = q.epoll
          /\ r.freed = q.freed /\ r.busy = FALSE /\ r.ready = q.ready
          /\ r.ktimer = q.ktimer /\ r.ka = q.ka
      BY <1>1 DEF ChannelRec
    <2>4. /\ s.fsm = q.fsm /\ s.added = q.added /\ s.dp = q.dp
          /\ s.aux = q.aux /\ s.hash = q.hash /\ s.epoll = q.epoll
          /\ s.freed = q.freed /\ s.busy = FALSE /\ s.ready = q.ready
          /\ s.ktimer = q.ktimer /\ s.ka = READY
      BY <1>1 DEF ChannelRec
    <2> HIDE DEF r, s
    <2>5. Quiet(q, r)
      <3>1. r.ktimer = "on" => q.added /\ q.hash /\ r.ka # NOT_READY
        BY <1>1, <2>3 DEF RecOK
      <3>2. QED
        BY <1>1, <2>2, <2>3, <3>1, QuietFields
    <2>6. Quiet(q, s)
      <3>1. s.ktimer = "on" => q.added /\ q.hash /\ s.ka # NOT_READY
        BY <1>1, <2>1, <2>4 DEF RecOK
      <3>2. QED
        BY <1>1, <2>2, <2>4, <3>1, QuietFields
    <2>7. QED
      BY <1>1, <2>3, <2>4, <2>5, <2>6
  <1> HIDE DEF q, r, s
  <1>6. CASE /\ q.fsm = "closed" /\ UNCHANGED <<dpt, fault>>
             /\ ch' \in {[ch EXCEPT ![c] = r], [ch EXCEPT ![c] = s]}
    <2>1. PICK x \in {r, s} : ch' = [ch EXCEPT ![c] = x]
      BY <1>6
    <2>2. Watches(q, x)
      BY <1>5, <1>6 DEF Watches
    <2>3. QED
      BY <1>5, <1>6, <2>1, <2>2, QuietChannelStep DEF q
  <1>7. ASSUME NEW o \in Outcomes, NEW x \in {r, s},
               \/ CloseEvent([ch EXCEPT ![c] = x], dpt, c, q.thr, o)
               \/ DetachThenClose([ch EXCEPT ![c] = x], dpt, c, q.thr, o)
        PROVE  Preserved
    <2>1. Quiet(ch[c], x) /\ ~ x.freed
      BY <1>5 DEF q
    <2>2. QED
      BY <1>7, <2>1, CloseAfterUpdate
  <1>8. QED
    BY <1>4, <1>6, <1>7

\* of_add_channel_to_dp: a channel of the handshake is on no list; it becomes the
\* main channel, with auxiliary id 0, or the last entry of the list.
LEMMA AttachRefs ==
  ASSUME NEW C, NEW D, StateOK(C, D), NEW c \in Channel,
         C[c].hash, ~ C[c].added,
         NEW r \in ChannelRec, RecOK(r), r.added, r.fsm = "bound", ~ r.freed,
         NEW d \in Datapath, r.dp = d, D[d].present \/ r.aux = 0
  PROVE  StateOK([C EXCEPT ![c] = r], [D EXCEPT ![d] = AttachDp(D[d], c)])
  <1> DEFINE C2 == [C EXCEPT ![c] = r]
             D2 == [D EXCEPT ![d] = AttachDp(D[d], c)]
  <1>1. /\ C \in [Channel -> ChannelRec] /\ D \in [Datapath -> DatapathRec]
        /\ C2 \in [Channel -> ChannelRec]
        /\ C2[c] = r /\ \A x \in Channel \ {c} : C2[x] = C[x]
    BY DEF StateOK
  <1>2. \A x \in Channel : RecOK(C2[x])
    BY <1>1 DEF StateOK
  <1>3. \A e \in Datapath : /\ D[e].aux \in Seq(Channel) /\ D[e] \in DatapathRec
                           /\ D[e].main \in Channel \cup {NoChannel}
                           /\ D[e].victim \in Channel \cup {NoChannel}
    BY <1>1 DEF DatapathRec
  <1>4. /\ AttachDp(D[d], c) \in DatapathRec
        /\ AttachDp(D[d], c).present
        /\ AttachDp(D[d], c).active = D[d].active
        /\ AttachDp(D[d], c).status = D[d].status
        /\ AttachDp(D[d], c).victim = D[d].victim
        /\ D[d].present => /\ AttachDp(D[d], c).main = D[d].main
                           /\ AttachDp(D[d], c).aux = Append(D[d].aux, c)
        /\ ~ D[d].present => /\ AttachDp(D[d], c).main = c
                             /\ AttachDp(D[d], c).aux = D[d].aux
    <2>1. Append(D[d].aux, c) \in Seq(Channel)
      BY <1>3
    <2>2. QED
      BY <1>3, <2>1 DEF AttachDp, DatapathRec
  <1>5. /\ D2 \in [Datapath -> DatapathRec]
        /\ D2[d] = AttachDp(D[d], c) /\ \A e \in Datapath \ {d} : D2[e] = D[e]
    BY <1>1, <1>4
  <1> HIDE DEF C2, D2
  <1>6. MainRefs(C2, D2)
    <2> SUFFICES ASSUME NEW e \in Datapath, D2[e].present
                 PROVE  /\ D2[e].main \in Channel
                        /\ C2[D2[e].main].added /\ C2[D2[e].main].dp = e
                        /\ C2[D2[e].main].aux = 0
      BY DEF MainRefs
    <2>1. CASE e = d /\ ~ D[d].present
      BY <1>1, <1>4, <1>5, <2>1
    <2>2. CASE D[e].present
      <3>1. D2[e].main = D[e].main
        BY <1>4, <1>5, <2>2
      <3>2. /\ D[e].main \in Channel
            /\ C[D[e].main].added /\ C[D[e].main].dp = e /\ C[D[e].main].aux = 0
        BY <2>2 DEF StateOK, MainRefs
      <3>3. QED
        BY <1>1, <3>1, <3>2
    <2>3. QED
      BY <1>5, <2>1, <2>2
  <1>7. \A e \in Datapath : \A i \in 1 .. Len(D[e].aux) : /\ D[e].aux[i] \in Channel
                                                         /\ D[e].aux[i] # c
    <2> SUFFICES ASSUME NEW e \in Datapath, NEW i \in 1 .. Len(D[e].aux)
                 PROVE  D[e].aux[i] \in Channel /\ D[e].aux[i] # c
      OBVIOUS
    <2>1. D[e].aux[i] \in Channel
      BY <1>3
    <2>2. QED
      BY <2>1 DEF StateOK, AuxRefs
  <1>8. \A e \in Datapath :
          /\ \A i \in 1 .. Len(D[e].aux) :
               i \in 1 .. Len(D2[e].aux) /\ D2[e].aux[i] = D[e].aux[i]
          /\ \A i \in 1 .. Len(D2[e].aux) :
               \/ i \in 1 .. Len(D[e].aux) /\ D2[e].aux[i] = D[e].aux[i]
               \/ e = d /\ D2[e].aux[i] = c
          /\ e = d /\ D[d].present => \E i \in 1 .. Len(D2[e].aux) : D2[e].aux[i] = c
    <2> SUFFICES ASSUME NEW e \in Datapath
                 PROVE  /\ \A i \in 1 .. Len(D[e].aux) :
                             i \in 1 .. Len(D2[e].aux) /\ D2[e].aux[i] = D[e].aux[i]
                        /\ \A i \in 1 .. Len(D2[e].aux) :
                             \/ i \in 1 .. Len(D[e].aux) /\ D2[e].aux[i] = D[e].aux[i]
                             \/ e = d /\ D2[e].aux[i] = c
                        /\ e = d /\ D[d].present =>
                             \E i \in 1 .. Len(D2[e].aux) : D2[e].aux[i] = c
      OBVIOUS
    <2>1. CASE e # d \/ ~ D[d].present
      <3>1. D2[e].aux = D[e].aux
        BY <1>4, <1>5, <2>1
      <3>2. QED
        BY <2>1, <3>1
    <2>2. CASE e = d /\ D[d].present
      <3> DEFINE list == D[d].aux
                 list2 == Append(list, c)
      <3>1. D2[e].aux = list2 /\ D[e].aux = list
        BY <1>4, <1>5, <2>2
      <3>2. /\ Len(list2) = Len(list) + 1 /\ list2[Len(list) + 1] = c
            /\ Len(list) \in Nat
            /\ \A i \in 1 .. Len(list) : list2[i] = list[i]
        BY <1>3
      <3> HIDE DEF list, list2
      <3>3. QED
        BY <2>2, <3>1, <3>2
    <2>3. QED
      BY <2>1, <2>2
  <1>9. AuxRefs(C2, D2)
    <2> SUFFICES ASSUME NEW e \in Datapath, NEW i \in 1 .. Len(D2[e].aux)
                 PROVE  /\ C2[D2[e].aux[i]].fsm # "init"
                        /\ C2[D2[e].aux[i]].hash =>
                             C2[D2[e].aux[i]].added /\ C2[D2[e].aux[i]].dp = e
      BY DEF AuxRefs
    <2>1. CASE e = d /\ D2[e].aux[i] = c
      BY <1>1, <2>1
    <2>2. CASE i \in 1 .. Len(D[e].aux) /\ D2[e].aux[i] = D[e].aux[i]
      <3>1. C2[D2[e].aux[i]] = C[D[e].aux[i]]
        BY <1>1, <1>7, <2>2
      <3>2. QED
        BY <2>2, <3>1 DEF StateOK, AuxRefs
    <2>3. QED
      BY <1>8, <2>1, <2>2
  <1>10. AuxOnList(C2, D2)
    <2> SUFFICES ASSUME NEW x \in Channel, C2[x].added, C2[x].aux # 0
                 PROVE  \E i \in 1 .. Len(D2[C2[x].dp].aux) : D2[C2[x].dp].aux[i] = x
      BY DEF AuxOnList
    <2>1. CASE x = c
      BY <1>1, <1>8, <2>1
    <2>2. CASE x # c
      <3>1. C2[x] = C[x] /\ C[x].dp \in Datapath
        BY <1>1, <2>2, AddedHasDatapath DEF StateOK
      <3>2. PICK i \in 1 .. Len(D[C[x].dp].aux) : D[C[x].dp].aux[i] = x
        BY <3>1 DEF StateOK, AuxOnList
      <3>3. QED
        BY <1>8, <3>1, <3>2
    <2>3. QED
      BY <2>1, <2>2
  <1>11. ActiveRefs(C2, D2)
    <2> SUFFICES ASSUME NEW e \in Datapath, D2[e].active
                 PROVE  \E x \in Channel : /\ C2[x].added /\ C2[x].dp = e
                                          /\ C2[x].aux = 0 /\ C2[x].ready
      BY DEF ActiveRefs
    <2>1. D[e].active
      BY <1>4, <1>5
    <2>2. PICK x \in Channel : C[x].added /\ C[x].dp = e /\ C[x].aux = 0 /\ C[x].ready
      BY <2>1 DEF StateOK, ActiveRefs
    <2>3. C2[x] = C[x]
      BY <1>1, <2>2
    <2>4. QED
      BY <2>2, <2>3
  <1>12. Victims(C2, D2)
    <2> SUFFICES ASSUME NEW e \in Datapath
                 PROVE  /\ D2[e].status = "found" => D2[e].victim \in Channel
                        /\ D2[e].victim # NoChannel =>
                             LET v == C2[D2[e].victim] IN
                             /\ v.fsm # "init" /\ ~ v.freed
                             /\ D2[e].status = "found" /\ v.hash =>
                                  /\ v.added /\ v.dp = e /\ v.aux = 0
                                  /\ \A i \in 1 .. Len(D2[e].aux) :
                                       D2[e].aux[i] # D2[e].victim
      BY DEF Victims
    <2>1. D2[e].status = D[e].status /\ D2[e].victim = D[e].victim
      BY <1>4, <1>5
    <2>2. D2[e].status = "found" => D2[e].victim \in Channel
      BY <2>1 DEF StateOK, Victims
    <2>3. ASSUME D[e].victim # NoChannel
          PROVE  LET v == C2[D[e].victim] IN
                 /\ v.fsm # "init" /\ ~ v.freed
                 /\ D[e].status = "found" /\ v.hash =>
                      /\ v.added /\ v.dp = e /\ v.aux = 0
                      /\ \A i \in 1 .. Len(D2[e].aux) : D2[e].aux[i] # D[e].victim
      <3> DEFINE w == D[e].victim
      <3>1. w \in Channel
        BY <1>3, <2>3
      <3>2. /\ C[w].fsm # "init" /\ ~ C[w].freed
            /\ D[e].status = "found" /\ C[w].hash =>
                 /\ C[w].added /\ C[w].dp = e /\ C[w].aux = 0
                 /\ \A i \in 1 .. Len(D[e].aux) : D[e].aux[i] # w
        BY <2>3, <3>1 DEF StateOK, Victims
      <3> HIDE DEF w
      <3>3. CASE w = c
        <4>1. D[e].status # "found"
          BY <3>2, <3>3
        <4>2. C2[w].fsm # "init" /\ ~ C2[w].freed
          BY <1>1, <3>3
        <4>3. QED
          BY <4>1, <4>2 DEF w
      <3>4. CASE w # c
        <4>1. C2[w] = C[w]
          BY <1>1, <3>1, <3>4
        <4>2. (\A i \in 1 .. Len(D[e].aux) : D[e].aux[i] # w) =>
                \A i \in 1 .. Len(D2[e].aux) : D2[e].aux[i] # w
          BY <1>8, <3>4
        <4>3. QED
          BY <3>2, <4>1, <4>2 DEF w
      <3>5. QED
        BY <3>3, <3>4
    <2>4. QED
      BY <2>1, <2>2, <2>3
  <1>13. QED
    BY <1>1, <1>2, <1>5, <1>6, <1>9, <1>10, <1>11, <1>12 DEF StateOK, C2, D2

\* A features reply that attaches the channel.
LEMMA FeatureReplyAttaches ==
  ASSUME IndInv, NEW c \in Channel, NEW d \in Datapath, NEW a \in AuxId,
         FeatureReplyAttach(c, d, a)
  PROVE  Preserved
  <1> DEFINE q == ch[c]
  <1>1. /\ StateOK(ch, dpt) /\ Watched(ch, dpt)
        /\ ch \in [Channel -> ChannelRec] /\ dpt \in [Datapath -> DatapathRec]
        /\ \A x \in Channel : ch[x] \in ChannelRec /\ RecOK(ch[x])
    BY DEF IndInv, StateOK
  <1>2. /\ q.epoll = "handshake" /\ (dpt[d].present \/ a = 0)
        /\ q \in ChannelRec /\ RecOK(q)
    BY <1>1 DEF FeatureReplyAttach, CanAttach, HandshakeRead
  <1>3. q.hash /\ ~ q.added /\ ~ q.freed /\ q.ktimer # "on"
    BY <1>2 DEF RecOK
  <1>4. PICK o \in Outcome : ch' = [ch EXCEPT ![c] = AttachRec(q, d, a, o)]
    BY DEF FeatureReplyAttach
  <1>5. dpt' = [dpt EXCEPT ![d] = AttachDp(dpt[d], c)] /\ fault' = fault
    BY DEF FeatureReplyAttach
  <1> DEFINE r == AttachRec(q, d, a, o)
  <1>6. /\ r \in ChannelRec
        /\ r.fsm = "bound" /\ r.added = TRUE /\ r.dp = d /\ r.aux = a
        /\ r.hash = q.hash /\ r.epoll \in {"dp", "none"}
        /\ r.freed = q.freed /\ r.busy = TRUE /\ r.ktimer = q.ktimer
    <2> HIDE DEF q
    <2> DEFINE e == IF o.epoll THEN "dp" ELSE "none"
               u == [q EXCEPT !.aux = a, !.dp = d, !.added = TRUE, !.fsm = "bound",
                              !.epoll = e, !.busy = TRUE]
    <2>1. r = u /\ e \in {"dp", "none"}
      BY DEF AttachRec
    <2> HIDE DEF e
    <2>2. u \in ChannelRec
      BY <1>2, <2>1 DEF ChannelRec
    <2>3. /\ u.fsm = "bound" /\ u.added = TRUE /\ u.dp = d /\ u.aux = a
          /\ u.hash = q.hash /\ u.epoll = e
          /\ u.freed = q.freed /\ u.busy = TRUE /\ u.ktimer = q.ktimer
      BY <1>2 DEF ChannelRec
    <2> HIDE DEF u
    <2>4. QED
      BY <2>1, <2>2, <2>3
  <1> HIDE DEF r, q
  <1>7. RecOK(r)
    BY <1>3, <1>6, ChannelAssumption DEF RecOK
  <1>8. ch' = [ch EXCEPT ![c] = r]
    BY <1>4 DEF r
  <1>9. StateOK(ch', dpt')
    BY <1>1, <1>2, <1>3, <1>5, <1>6, <1>7, <1>8, AttachRefs DEF q
  <1>10. ch'[c] = r /\ \A x \in Channel \ {c} : ch'[x] = ch[x]
    BY <1>1, <1>8
  <1>11. \A e \in Datapath : dpt'[e].status = dpt[e].status /\ dpt'[e].victim = dpt[e].victim
    <2>1. \A e \in DatapathRec : /\ AttachDp(e, c).status = e.status
                                 /\ AttachDp(e, c).victim = e.victim
      BY DEF AttachDp, DatapathRec
    <2>2. QED
      BY <1>1, <1>5, <2>1
  <1>12. Watched(ch', dpt')
    BY <1>1, <1>6, <1>10, <1>11 DEF Watched
  <1>13. Onwards(ch, ch')
    <2> SUFFICES ASSUME NEW x \in Channel PROVE Onward(ch[x], ch'[x])
      BY DEF Onwards
    <2>1. CASE x = c
      BY <1>3, <2>1 DEF Onward, q
    <2>2. CASE x # c
      BY <1>1, <1>10, <2>2, QuietSame DEF Quiet
    <2>3. QED
      BY <2>1, <2>2
  <1>14. QED
    BY <1>5, <1>9, <1>12, <1>13, StepDone DEF Settled

\* A change of a datapath's status and victim alone.
LEMMA StatusRefs ==
  ASSUME NEW C, NEW D, StateOK(C, D), NEW D2 \in [Datapath -> DatapathRec],
         \A e \in Datapath : /\ D2[e].present = D[e].present /\ D2[e].main = D[e].main
                            /\ D2[e].active = D[e].active /\ D2[e].aux = D[e].aux,
         Victims(C, D2)
  PROVE  StateOK(C, D2)
  <1>1. \A x \in Channel : C[x].added => C[x].dp \in Datapath
    BY AddedHasDatapath DEF StateOK
  <1>2. MainRefs(C, D2)
    BY DEF StateOK, MainRefs
  <1>3. AuxRefs(C, D2)
    BY DEF StateOK, AuxRefs
  <1>4. AuxOnList(C, D2)
    BY <1>1 DEF StateOK, AuxOnList
  <1>5. ActiveRefs(C, D2)
    BY DEF StateOK, ActiveRefs
  <1>6. QED
    BY <1>2, <1>3, <1>4, <1>5 DEF StateOK

\* A step of a datapath in which no channel changes.
LEMMA StatusStep ==
  ASSUME IndInv, NEW d \in Datapath, dpt[d].status # "detached",
         NEW v \in {"live", "found", "detached"}, NEW m \in Channel \cup {NoChannel},
         dpt' = [dpt EXCEPT ![d].status = v, ![d].victim = m], UNCHANGED <<ch, fault>>,
         v = "found" => /\ m \in Channel /\ ch[m].hash /\ ch[m].added /\ ch[m].dp = d
                        /\ ch[m].aux = 0 /\ dpt[d].aux = << >>,
         v # "found" => m = dpt[d].victim
  PROVE  Preserved
  <1>1. /\ StateOK(ch, dpt) /\ Watched(ch, dpt) /\ dpt \in [Datapath -> DatapathRec]
        /\ \A x \in Channel : ch[x] \in ChannelRec /\ RecOK(ch[x])
    BY DEF IndInv, StateOK
  <1>2. /\ dpt' \in [Datapath -> DatapathRec]
        /\ \A e \in Datapath : /\ dpt'[e].present = dpt[e].present /\ dpt'[e].main = dpt[e].main
                               /\ dpt'[e].active = dpt[e].active /\ dpt'[e].aux = dpt[e].aux
        /\ dpt'[d].status = v /\ dpt'[d].victim = m
        /\ \A e \in Datapath \ {d} : dpt'[e] = dpt[e]
    <2> DEFINE q == dpt[d]
               u == [q EXCEPT !.status = v, !.victim = m]
    <2>1. q \in DatapathRec
      BY <1>1
    <2>2. dpt' = [dpt EXCEPT ![d] = u]
      BY <1>1 DEF DatapathRec
    <2> HIDE DEF q
    <2>3. /\ u \in DatapathRec
          /\ u.present = q.present /\ u.main = q.main /\ u.active = q.active
          /\ u.aux = q.aux /\ u.status = v /\ u.victim = m
      BY <2>1 DEF DatapathRec
    <2> HIDE DEF u
    <2>4. dpt'[d] = u /\ \A e \in Datapath \ {d} : dpt'[e] = dpt[e]
      BY <1>1, <2>2
    <2>5. dpt' \in [Datapath -> DatapathRec]
      BY <1>1, <2>2, <2>3
    <2>6. QED
      BY <2>3, <2>4, <2>5 DEF q
  <1>3. Victims(ch, dpt')
    <2> SUFFICES ASSUME NEW e \in Datapath
                 PROVE  /\ dpt'[e].status = "found" => dpt'[e].victim \in Channel
                        /\ dpt'[e].victim # NoChannel =>
                             LET w == ch[dpt'[e].victim] IN
                             /\ w.fsm # "init" /\ ~ w.freed
                             /\ dpt'[e].status = "found" /\ w.hash =>
                                  /\ w.added /\ w.dp = e /\ w.aux = 0
                                  /\ \A i \in 1 .. Len(dpt'[e].aux) :
                                       dpt'[e].aux[i] # dpt'[e].victim
      BY DEF Victims
    <2>1. CASE e # d
      BY <1>1, <1>2, <2>1 DEF StateOK, Victims
    <2>2. CASE e = d /\ v = "found"
      <3>1. dpt'[e].victim = m /\ dpt'[e].aux = << >> /\ m \in Channel
        BY <1>2, <2>2
      <3>2. ch[m].fsm # "init" /\ ~ ch[m].freed
        BY <1>1, <2>2, <3>1 DEF RecOK
      <3>3. \A i \in 1 .. Len(dpt'[e].aux) : dpt'[e].aux[i] # m
        BY <3>1
      <3>4. ch[m].added /\ ch[m].dp = e /\ ch[m].aux = 0
        BY <2>2
      <3>5. QED
        BY <3>1, <3>2, <3>3, <3>4
    <2>3. CASE e = d /\ v # "found"
      <3>1. dpt'[e].victim = dpt[e].victim /\ dpt'[e].status # "found"
        BY <1>2, <2>3
      <3>2. dpt[e].victim # NoChannel =>
              ch[dpt[e].victim].fsm # "init" /\ ~ ch[dpt[e].victim].freed
        BY <1>1 DEF StateOK, Victims
      <3>3. QED
        BY <3>1, <3>2
    <2>4. QED
      BY <2>1, <2>2, <2>3
  <1>4. StateOK(ch, dpt')
    <2>1. \A e \in Datapath : /\ dpt'[e].present = dpt[e].present /\ dpt'[e].main = dpt[e].main
                               /\ dpt'[e].active = dpt[e].active /\ dpt'[e].aux = dpt[e].aux
      BY <1>2
    <2>2. dpt' \in [Datapath -> DatapathRec]
      BY <1>2
    <2> DEFINE D2 == dpt'
    <2> HIDE DEF D2
    <2>3. /\ D2 \in [Datapath -> DatapathRec] /\ Victims(ch, D2)
          /\ \A e \in Datapath : /\ D2[e].present = dpt[e].present /\ D2[e].main = dpt[e].main
                                 /\ D2[e].active = dpt[e].active /\ D2[e].aux = dpt[e].aux
      BY <1>3, <2>1, <2>2 DEF D2
    <2>4. StateOK(ch, D2)
      BY <1>1, <2>3, StatusRefs
    <2>5. QED
      BY <2>4 DEF D2
  <1>5. Watched(ch, dpt')
    BY <1>1, <1>2 DEF Watched
  <1>6. \A x \in Channel : Onward(ch[x], ch[x])
    BY <1>1, QuietSame DEF Quiet
  <1>7. QED
    BY <1>4, <1>5, <1>6, StepDone DEF Settled, Onwards

\* The deletion of a datapath looks up the main channel, or dies.
LEMMA DelDatapathFinds ==
  ASSUME IndInv, NEW d \in Datapath, DelDatapathFind(d)
  PROVE  Preserved
  <1> DEFINE e == dpt[d]
  <1>1. /\ StateOK(ch, dpt) /\ dpt \in [Datapath -> DatapathRec] /\ e \in DatapathRec
        /\ e.status = "live" /\ e.victim \in Channel \cup {NoChannel}
    BY DEF IndInv, StateOK, DelDatapathFind, DatapathRec
  <1>2. e.present => /\ e.main \in Channel
                     /\ ch[e.main].added /\ ch[e.main].dp = d /\ ch[e.main].aux = 0
    BY <1>1 DEF StateOK, MainRefs
  <1>3. CASE e.present /\ (e.aux # << >> \/ ~ ch[e.main].hash)
    <2>1. Died
      BY <1>3 DEF DelDatapathFind, Die, Died
    <2>2. QED
      BY <2>1, StepDone
  <1>4. CASE e.present /\ e.aux = << >> /\ ch[e.main].hash
    <2>1. dpt' = [dpt EXCEPT ![d].status = "found", ![d].victim = e.main]
          /\ UNCHANGED <<ch, fault>>
      BY <1>4 DEF DelDatapathFind
    <2>2. QED
      BY <1>1, <1>2, <1>4, <2>1, StatusStep
  <1>5. CASE ~ e.present
    <2>1. dpt' = [dpt EXCEPT ![d].status = "detached"] /\ UNCHANGED <<ch, fault>>
      BY <1>5 DEF DelDatapathFind
    <2>2. dpt' = [dpt EXCEPT ![d].status = "detached", ![d].victim = e.victim]
      BY <1>1, <2>1 DEF DatapathRec
    <2>3. QED
      BY <1>1, <2>1, <2>2, StatusStep
  <1>6. QED
    BY <1>3, <1>4, <1>5

\* Registration of a datapath.
LEMMA AddDatapaths ==
  ASSUME IndInv, NEW d \in Datapath, AddDatapath(d)
  PROVE  Preserved
  <1>1. /\ dpt \in [Datapath -> DatapathRec] /\ dpt[d] \in DatapathRec
        /\ dpt[d].victim \in Channel \cup {NoChannel}
    BY DEF IndInv, StateOK, DatapathRec
  <1>2. /\ dpt[d].status = "absent" /\ dpt' = [dpt EXCEPT ![d].status = "live"]
        /\ UNCHANGED <<ch, fault>>
    BY DEF AddDatapath
  <1>3. dpt' = [dpt EXCEPT ![d].status = "live", ![d].victim = dpt[d].victim]
    BY <1>1, <1>2 DEF DatapathRec
  <1>4. QED
    BY <1>1, <1>2, <1>3, StatusStep

\* The DETACH event that the deletion of a datapath sends to the channel it has
\* looked up, which other threads may have closed or detached since.
LEMMA DelDatapathDetaches ==
  ASSUME IndInv, NEW d \in Datapath, DelDatapathDetach(d)
  PROVE  Preserved
  <1> DEFINE v == dpt[d].victim
             next == [dpt EXCEPT ![d].status = "detached"]
  <1>1. /\ StateOK(ch, dpt) /\ Watched(ch, dpt)
        /\ ch \in [Channel -> ChannelRec] /\ dpt \in [Datapath -> DatapathRec]
        /\ \A x \in Channel : ch[x] \in ChannelRec /\ RecOK(ch[x])
    BY DEF IndInv, StateOK
  <1>2. dpt[d].status = "found" /\ v \in Channel /\ v # NoChannel
    BY <1>1, ChannelAssumption DEF DelDatapathDetach, StateOK, Victims
  <1>3. /\ ch[v].fsm # "init" /\ ~ ch[v].freed
        /\ ch[v].hash =>
             /\ ch[v].added /\ ch[v].dp = d /\ ch[v].aux = 0
             /\ \A i \in 1 .. Len(dpt[d].aux) : dpt[d].aux[i] # v
    BY <1>1, <1>2 DEF StateOK, Victims
  <1>4. /\ next \in [Datapath -> DatapathRec]
        /\ \A e \in Datapath :
             /\ next[e] \in DatapathRec
             /\ next[e].present = dpt[e].present /\ next[e].main = dpt[e].main
             /\ next[e].active = dpt[e].active /\ next[e].aux = dpt[e].aux
             /\ next[e].victim = dpt[e].victim
             /\ next[e].status = IF e = d THEN "detached" ELSE dpt[e].status
    BY <1>1 DEF DatapathRec
  <1>5. \A e \in Datapath : dpt[e].aux \in Seq(Channel)
    BY <1>1 DEF DatapathRec
  <1>6. fault' = fault
    BY DEF DelDatapathDetach
  <1>7. CASE ch[v].fsm = "closed"
    <2>1. dpt' = next /\ ch' = ch
      BY <1>7 DEF DelDatapathDetach
    <2>2. dpt' = [dpt EXCEPT ![d].status = "detached"]
      BY <2>1
    <2> HIDE DEF next
    <2>3. \A x \in Channel : Quiet(ch[x], ch[x])
      BY <1>1, QuietSame
    <2>4. Loosens(ch, dpt, ch, next)
      BY <1>1, <1>4, <1>5, <2>3 DEF Loosens, Quiet
    <2>5. StateOK(ch, next)
      BY <1>1, <2>4, LooserRefs
    <2>6. Watched(ch, next)
      BY <1>1, <1>4 DEF Watched
    <2>7. QED
      BY <1>6, <2>1, <2>3, <2>5, <2>6, StepDone DEF Settled, Onwards, Quiet
  <1>8. CASE ch[v].fsm # "closed"
    <2>1. PICK o \in Outcome :
            /\ ch' = [ch EXCEPT ![v] = DetachRec(ch[v], App, o)]
            /\ dpt' = IF Detaches(ch[v], o)
                      THEN [next EXCEPT ![ch[v].dp] = ClearMain(next[ch[v].dp])] ELSE next
      BY <1>8 DEF DelDatapathDetach
    <2>2. o \in Outcomes
      BY ChannelAssumption DEF Outcomes
    <2> DEFINE q == ch[v]
               s == DetachRec(q, App, o)
    <2>3. q \in ChannelRec /\ RecOK(q)
      BY <1>1, <1>2
    <2> HIDE DEF q
    <2>4. /\ s \in ChannelRec /\ RecOK(s)
          /\ s.aux = q.aux /\ s.ready = q.ready /\ s.hash = q.hash
          /\ s.busy = q.busy /\ s.freed = q.freed
          /\ IF Detaches(q, o) THEN ~ s.added /\ s.dp = NoDp /\ s.fsm = "wait"
                               ELSE s.added = q.added /\ s.dp = q.dp /\ s.fsm = q.fsm
      BY <2>2, <2>3, DetachFacts
    <2>5. ch' = [ch EXCEPT ![v] = s]
      BY <2>1 DEF q
    <2> HIDE DEF s, v, next
    <2>6. /\ ch' \in [Channel -> ChannelRec]
          /\ ch'[v] = s /\ \A x \in Channel \ {v} : ch'[x] = ch[x]
      BY <1>1, <1>2, <2>4, <2>5
    <2>7. Detaches(q, o) => q.hash /\ q.added /\ q.dp = d
      <3>1. Detaches(q, o) => q.hash
        BY <2>3 DEF Detaches, RecOK
      <3>2. QED
        BY <1>3, <3>1 DEF q
    <2>8. /\ dpt' \in [Datapath -> DatapathRec]
          /\ \A e \in Datapath :
               /\ dpt'[e].present => dpt[e].present /\ dpt'[e].main = dpt[e].main
               /\ dpt'[e].active => dpt[e].active
               /\ dpt'[e].aux = dpt[e].aux /\ dpt'[e].victim = dpt[e].victim
               /\ dpt'[e].status = IF e = d THEN "detached" ELSE dpt[e].status
          /\ Detaches(q, o) => ~ dpt'[d].present /\ ~ dpt'[d].active
      <3>1. CASE Detaches(q, o)
        <4>1. dpt' = [next EXCEPT ![d] = ClearMain(next[d])]
          BY <2>1, <2>7, <3>1 DEF q
        <4>2. dpt'[d] = ClearMain(next[d]) /\ \A e \in Datapath \ {d} : dpt'[e] = next[e]
          BY <1>4, <4>1
        <4>3. LET g == ClearMain(next[d])
              IN /\ g \in DatapathRec /\ ~ g.present /\ ~ g.active
                 /\ g.aux = next[d].aux /\ g.status = next[d].status
                 /\ g.victim = next[d].victim
          BY <1>4, ClearMainFacts
        <4>4. dpt' \in [Datapath -> DatapathRec]
          BY <1>4, <4>1, <4>3
        <4>5. QED
          BY <1>4, <4>2, <4>3, <4>4
      <3>2. CASE ~ Detaches(q, o)
        <4>1. dpt' = next
          BY <2>1, <3>2 DEF q
        <4>2. QED
          BY <1>4, <3>2, <4>1
      <3>3. QED
        BY <3>1, <3>2
    <2>9. Looser(q, s) /\ Onward(q, s)
      <3>1. Looser(q, s)
        BY <1>3, <2>4 DEF Looser, q
      <3>2. ~ q.hash => ~ s.hash /\ s.epoll = "none" /\ (s.added => q.added)
        BY <2>3, <2>4 DEF RecOK, ChannelRec
      <3>3. QED
        BY <1>3, <1>8, <3>1, <3>2 DEF Onward, q
    <2>10. \A x \in Channel \ {v} : Quiet(ch[x], ch'[x])
      BY <1>1, <2>6, QuietSame
    <2>11. \A x \in Channel :
             RecOK(ch'[x]) /\ Looser(ch[x], ch'[x]) /\ Onward(ch[x], ch'[x])
      BY <2>4, <2>6, <2>9, <2>10 DEF Quiet, q
    <2>12. \A x \in Channel : ch[x].added /\ ~ ch'[x].added => x = v /\ Detaches(q, o)
      BY <2>4, <2>6 DEF q
    <2>13. \A e \in Datapath : Detaches(q, o) =>
             /\ \A i \in 1 .. Len(dpt'[e].aux) : dpt'[e].aux[i] # v
             /\ ~ (dpt'[e].status = "found" /\ dpt'[e].victim = v)
      <3> SUFFICES ASSUME NEW e \in Datapath, Detaches(q, o)
                   PROVE  /\ \A i \in 1 .. Len(dpt'[e].aux) : dpt'[e].aux[i] # v
                          /\ ~ (dpt'[e].status = "found" /\ dpt'[e].victim = v)
        OBVIOUS
      <3>1. ch[v].hash /\ ch[v].dp = d
        BY <2>7 DEF q
      <3>2. \A i \in 1 .. Len(dpt[e].aux) : dpt[e].aux[i] # v
        <4>1. CASE e = d
          BY <1>3, <3>1, <4>1 DEF v
        <4>2. CASE e # d
          BY <1>1, <3>1, <4>2 DEF StateOK, AuxRefs
        <4>3. QED
          BY <4>1, <4>2
      <3>3. e # d => ~ (dpt[e].status = "found" /\ dpt[e].victim = v)
        BY <1>1, <1>2, <3>1 DEF StateOK, Victims, v
      <3>4. QED
        BY <2>8, <3>2, <3>3
    <2>14. Loosens(ch, dpt, ch', dpt')
      <3>1. \A x \in Channel :
              /\ RecOK(ch'[x]) /\ Looser(ch[x], ch'[x])
              /\ ch'[x].freed => ch[x].freed \/ \A e \in Datapath : dpt'[e].victim # x
              /\ ch[x].added /\ ~ ch'[x].added =>
                   ~ dpt'[ch[x].dp].present /\ ~ dpt'[ch[x].dp].active
              /\ ch[x].added /\ ~ ch'[x].added /\ ch'[x].hash =>
                   \A e \in Datapath :
                     /\ \A i \in 1 .. Len(dpt'[e].aux) : dpt'[e].aux[i] # x
                     /\ ~ (dpt'[e].status = "found" /\ dpt'[e].victim = x)
        <4> SUFFICES ASSUME NEW x \in Channel
                     PROVE  /\ RecOK(ch'[x]) /\ Looser(ch[x], ch'[x])
                            /\ ch'[x].freed => ch[x].freed
                            /\ ch[x].added /\ ~ ch'[x].added =>
                                 /\ ~ dpt'[ch[x].dp].present /\ ~ dpt'[ch[x].dp].active
                                 /\ \A e \in Datapath :
                                      /\ \A i \in 1 .. Len(dpt'[e].aux) : dpt'[e].aux[i] # x
                                      /\ ~ (dpt'[e].status = "found" /\ dpt'[e].victim = x)
          OBVIOUS
        <4>1. ch'[x].freed => ch[x].freed
          BY <2>4, <2>6 DEF q
        <4>2. ASSUME ch[x].added, ~ ch'[x].added
              PROVE  /\ ~ dpt'[ch[x].dp].present /\ ~ dpt'[ch[x].dp].active
                     /\ \A e \in Datapath :
                          /\ \A i \in 1 .. Len(dpt'[e].aux) : dpt'[e].aux[i] # x
                          /\ ~ (dpt'[e].status = "found" /\ dpt'[e].victim = x)
          <5>1. x = v /\ Detaches(q, o)
            BY <2>12, <4>2
          <5>2. ch[x].dp = d
            BY <2>7, <5>1 DEF q
          <5>3. QED
            BY <2>8, <2>13, <5>1, <5>2
        <4>3. QED
          BY <2>11, <4>1, <4>2
      <3>2. \A e \in Datapath :
              /\ dpt'[e].present => dpt[e].present /\ dpt'[e].main = dpt[e].main
              /\ dpt'[e].active => dpt[e].active
              /\ Len(dpt'[e].aux) \in 0 .. Len(dpt[e].aux)
              /\ \A i \in 1 .. Len(dpt'[e].aux) : dpt'[e].aux[i] = dpt[e].aux[i]
              /\ \A i \in 1 .. Len(dpt[e].aux) :
                   i > Len(dpt'[e].aux) => ~ ch'[dpt[e].aux[i]].hash
              /\ dpt'[e].victim \in {dpt[e].victim, NoChannel}
              /\ dpt'[e].status = "found" =>
                   dpt[e].status = "found" /\ dpt'[e].victim = dpt[e].victim
        BY <1>5, <2>8
      <3>3. QED
        BY <2>6, <2>8, <3>1, <3>2 DEF Loosens
    <2>15. StateOK(ch', dpt')
      BY <1>1, <2>14, LooserRefs
    <2>16. Watched(ch', dpt')
      <3> SUFFICES ASSUME NEW x \in Channel, ch'[x].fsm = "bound"
                   PROVE  \/ ch'[x].ktimer = "on" \/ ch'[x].busy
                          \/ \E e \in Datapath : dpt'[e].status = "detached" /\ dpt'[e].victim = x
        BY DEF Watched
      <3>1. CASE x = v
        BY <2>8, <3>1 DEF v
      <3>2. CASE x # v
        <4>1. ch'[x] = ch[x]
          BY <2>6, <3>2
        <4>2. QED
          BY <1>1, <2>8, <4>1 DEF Watched
      <3>3. QED
        BY <3>1, <3>2
    <2>17. QED
      BY <1>6, <2>11, <2>15, <2>16, StepDone DEF Settled, Onwards
  <1>9. QED
    BY <1>7, <1>8

\* The state that fsm_send_channel_event sets after that event, also for a
\* channel that has been closed meanwhile; and the end of the entry.
LEMMA DelDatapathEnds ==
  ASSUME IndInv, NEW d \in Datapath, DelDatapathEnd(d)
  PROVE  Preserved
  <1> DEFINE v == dpt[d].victim
             rest == [dpt[d] EXCEPT !.status = "deleted", !.victim = NoChannel]
             wait(q) == [q EXCEPT !.fsm = "wait"]
  <1>1. /\ StateOK(ch, dpt) /\ Watched(ch, dpt)
        /\ ch \in [Channel -> ChannelRec] /\ dpt \in [Datapath -> DatapathRec]
        /\ \A x \in Channel : ch[x] \in ChannelRec /\ RecOK(ch[x])
        /\ dpt[d].status = "detached" /\ fault' = fault
    BY DEF IndInv, StateOK, DelDatapathEnd
  <1>2. /\ rest \in DatapathRec
        /\ rest.present = dpt[d].present /\ rest.main = dpt[d].main
        /\ rest.active = dpt[d].active /\ rest.aux = dpt[d].aux
        /\ rest.status = "deleted" /\ rest.victim = NoChannel
    <2> DEFINE q == dpt[d]
               u == [q EXCEPT !.status = "deleted", !.victim = NoChannel]
    <2>1. q \in DatapathRec
      BY <1>1
    <2> HIDE DEF q
    <2>2. /\ u \in DatapathRec
          /\ u.present = q.present /\ u.main = q.main /\ u.active = q.active
          /\ u.aux = q.aux /\ u.status = "deleted" /\ u.victim = NoChannel
      BY <2>1 DEF DatapathRec
    <2>3. QED
      BY <2>2 DEF q
  <1>3. dpt' = [dpt EXCEPT ![d] = rest]
    BY <1>1 DEF DelDatapathEnd, DatapathRec
  <1> HIDE DEF rest
  <1>4. /\ dpt' \in [Datapath -> DatapathRec]
        /\ \A e \in Datapath :
             /\ dpt'[e].present = dpt[e].present /\ dpt'[e].main = dpt[e].main
             /\ dpt'[e].active = dpt[e].active /\ dpt'[e].aux = dpt[e].aux
             /\ dpt'[e].victim = IF e = d THEN NoChannel ELSE dpt[e].victim
             /\ dpt'[e].status = IF e = d THEN "deleted" ELSE dpt[e].status
    BY <1>1, <1>2, <1>3
  <1>5. v \in Channel => ch[v].fsm # "init" /\ ~ ch[v].freed
    BY <1>1, ChannelAssumption DEF StateOK, Victims
  <1>6. \A x \in Channel : ch'[x] = IF x = v THEN wait(ch[x]) ELSE ch[x]
    BY DEF DelDatapathEnd
  <1>7. ASSUME NEW x \in Channel
        PROVE  /\ ch'[x] \in ChannelRec /\ RecOK(ch'[x]) /\ Looser(ch[x], ch'[x])
               /\ ch'[x].added = ch[x].added /\ ch'[x].freed = ch[x].freed
               /\ ch[x].fsm # "init" /\ ~ ch[x].hash =>
                    /\ ~ ch'[x].hash /\ ch'[x].epoll = "none"
                    /\ ch[x].fsm = "closed" /\ ch'[x].fsm # "closed" => x = v
                    /\ ch[x].freed => ch'[x] = [ch[x] EXCEPT !.ktimer = ch'[x].ktimer,
                                                            !.rtimer = ch'[x].rtimer]
               /\ ch'[x].fsm = "bound" => x # v
    <2>1. CASE x = v
      <3> DEFINE q == ch[x]
                 u == wait(q)
      <3>1. q \in ChannelRec /\ RecOK(q) /\ q.fsm # "init" /\ ~ q.freed /\ ch'[x] = u
        BY <1>1, <1>5, <1>6, <2>1
      <3> HIDE DEF q
      <3>2. /\ u \in ChannelRec
            /\ u.fsm = "wait" /\ u.added = q.added /\ u.dp = q.dp /\ u.aux = q.aux
            /\ u.hash = q.hash /\ u.epoll = q.epoll /\ u.ready = q.ready
            /\ u.ka = q.ka /\ u.ktimer = q.ktimer /\ u.busy = q.busy /\ u.freed = q.freed
        BY <3>1 DEF ChannelRec
      <3> HIDE DEF u
      <3>3. RecOK(u)
        BY <3>1, <3>2 DEF RecOK
      <3>4. Looser(q, u)
        BY <3>1, <3>2 DEF Looser
      <3>5. ~ q.hash => u.epoll = "none"
        BY <3>1, <3>2 DEF RecOK, ChannelRec
      <3>6. QED
        BY <2>1, <3>1, <3>2, <3>3, <3>4, <3>5 DEF q
    <2>2. CASE x # v
      <3>1. ch'[x] = ch[x]
        BY <1>6, <2>2
      <3>2. Quiet(ch[x], ch[x])
        BY <1>1, QuietSame
      <3>3. QED
        BY <1>1, <2>2, <3>1, <3>2 DEF Quiet, Onward
    <2>3. QED
      BY <2>1, <2>2
  <1>8. ch' \in [Channel -> ChannelRec]
    BY <1>7 DEF DelDatapathEnd
  <1>9. \A e \in Datapath : dpt[e].aux \in Seq(Channel)
    BY <1>1 DEF DatapathRec
  <1>10. Loosens(ch, dpt, ch', dpt')
    <2>1. \A x \in Channel :
            /\ RecOK(ch'[x]) /\ Looser(ch[x], ch'[x])
            /\ ch'[x].freed = ch[x].freed /\ ch'[x].added = ch[x].added
      BY <1>7
    <2>2. \A e \in Datapath :
            /\ dpt'[e].present => dpt[e].present /\ dpt'[e].main = dpt[e].main
            /\ dpt'[e].active => dpt[e].active
            /\ Len(dpt'[e].aux) \in 0 .. Len(dpt[e].aux)
            /\ \A i \in 1 .. Len(dpt'[e].aux) : dpt'[e].aux[i] = dpt[e].aux[i]
            /\ \A i \in 1 .. Len(dpt[e].aux) :
                 i > Len(dpt'[e].aux) => ~ ch'[dpt[e].aux[i]].hash
            /\ dpt'[e].victim \in {dpt[e].victim, NoChannel}
            /\ dpt'[e].status = "found" =>
                 dpt[e].status = "found" /\ dpt'[e].victim = dpt[e].victim
      BY <1>4, <1>9
    <2>3. QED
      BY <1>4, <1>8, <2>1, <2>2 DEF Loosens
  <1>11. StateOK(ch', dpt')
    BY <1>1, <1>10, LooserRefs
  <1>12. Watched(ch', dpt')
    <2> SUFFICES ASSUME NEW x \in Channel, ch'[x].fsm = "bound"
                 PROVE  \/ ch'[x].ktimer = "on" \/ ch'[x].busy
                        \/ \E e \in Datapath : dpt'[e].status = "detached" /\ dpt'[e].victim = x
      BY DEF Watched
    <2>1. x # v /\ ch'[x] = ch[x]
      BY <1>6, <1>7
    <2>2. \/ ch[x].ktimer = "on" \/ ch[x].busy
          \/ \E e \in Datapath : dpt[e].status = "detached" /\ dpt[e].victim = x
      BY <1>1, <2>1 DEF Watched
    <2>3. QED
      BY <1>4, <2>1, <2>2
  <1>13. Forward(ch, dpt, ch')
    BY <1>1, <1>7 DEF Forward
  <1>14. QED
    BY <1>1, <1>11, <1>12, <1>13 DEF IndInv, TypeOK, StateOK, EchoFindsChannel, Preserved

-----------------------------------------------------------------------------
(***************************************************************************)
(* The inductive invariant, and the theorems.                               *)
(***************************************************************************)
LEMMA InitInv == Init => IndInv
  <1> SUFFICES ASSUME Init PROVE IndInv
    OBVIOUS
  <1>1. NewChannel(App) \in ChannelRec
    BY NewChannelFacts
  <1>2. NewDatapath \in DatapathRec
    BY DEF NewDatapath, DatapathRec
  <1>3. /\ ch \in [Channel -> ChannelRec] /\ dpt \in [Datapath -> DatapathRec]
        /\ \A c \in Channel : ch[c] = NewChannel(App)
        /\ \A d \in Datapath : dpt[d] = NewDatapath
    BY <1>1, <1>2 DEF Init
  <1>4. \A c \in Channel : RecOK(ch[c]) /\ ~ ch[c].added /\ ch[c].fsm = "init"
    BY <1>3 DEF NewChannel, RecOK
  <1>5. \A d \in Datapath : /\ ~ dpt[d].present /\ ~ dpt[d].active /\ dpt[d].aux = << >>
                           /\ dpt[d].victim = NoChannel /\ dpt[d].status = "absent"
    BY <1>3 DEF NewDatapath
  <1>6. MainRefs(ch, dpt) /\ AuxRefs(ch, dpt) /\ AuxOnList(ch, dpt) /\ ActiveRefs(ch, dpt)
    BY <1>4, <1>5 DEF MainRefs, AuxRefs, AuxOnList, ActiveRefs
  <1>7. Victims(ch, dpt) /\ Watched(ch, dpt)
    BY <1>4, <1>5 DEF Victims, Watched
  <1>8. QED
    BY <1>3, <1>4, <1>6, <1>7 DEF Init, IndInv, TypeOK, StateOK, EchoFindsChannel

\* Every step preserves the invariant and brings no closed channel back.
LEMMA NextInv ==
  ASSUME IndInv, Next
  PROVE  Preserved
  <1>1. ASSUME NEW c \in Channel, ChannelNext(c) PROVE Preserved
    BY <1>1, Learns, FeatureReplyRefusals, FeatureReplyAttaches, FeatureReplyTimers,
       FeatureReplyFails, BoundMessages, EchoReplies, PortDescReplies, StopLists,
       PeerSteps, Releases, ClosingActions, KeepAliveExpiries, ResponseChecks
       DEF ChannelNext
  <1>2. ASSUME NEW d \in Datapath, DatapathNext(d) PROVE Preserved
    BY <1>2, AddDatapaths, DelDatapathFinds, DelDatapathDetaches, DelDatapathEnds
       DEF DatapathNext
  <1>3. QED
    BY <1>1, <1>2 DEF Next

\* A stuttering step does, too.
LEMMA StutterInv ==
  ASSUME IndInv, UNCHANGED vars
  PROVE  IndInv'
  BY DEF vars, IndInv, TypeOK, StateOK, EchoFindsChannel, MainRefs, AuxRefs, AuxOnList,
         ActiveRefs, Victims, Watched

\* The invariant holds in every reachable state.
LEMMA Inductive == Spec => []IndInv
  <1>1. IndInv /\ [Next]_vars => IndInv'
    BY NextInv, StutterInv DEF Preserved
  <1>2. QED
    BY InitInv, <1>1, PTL DEF Spec

\* The tables stay well typed, and the process dies only of the causes named
\* in Channel, whatever the order of the handlers.
THEOREM TypeCorrect == Spec => []TypeOK
  BY Inductive, PTL DEF IndInv

\* A channel bound to a datapath is attached, reachable and watched by a
\* running keep-alive timer, but for the steps of the two handlers that are
\* about to start or have just stopped it.
THEOREM BoundChannelsWatched == Spec => []BoundIsWatched
  <1>1. IndInv => BoundIsWatched
    <2> SUFFICES ASSUME IndInv, NEW c \in Channel, ch[c].fsm = "bound"
                 PROVE  /\ ch[c].added /\ ch[c].dp \in Datapath
                        /\ ch[c].hash /\ ~ ch[c].freed
                        /\ ch[c].ktimer = "on" \/ Changing(c)
      BY DEF BoundIsWatched
    <2>1. ch[c] \in ChannelRec /\ RecOK(ch[c]) /\ Watched(ch, dpt)
      BY DEF IndInv, StateOK
    <2>2. ch[c].added /\ ch[c].hash /\ ~ ch[c].freed
      BY <2>1 DEF RecOK
    <2>3. ch[c].dp \in Datapath
      BY <2>1, <2>2, AddedHasDatapath
    <2>4. ch[c].ktimer = "on" \/ Changing(c)
      BY <2>1 DEF Watched, Changing
    <2>5. QED
      BY <2>2, <2>3, <2>4
  <1>2. QED
    BY Inductive, <1>1, PTL

\* A periodic timer that is not one of those left behind belongs to an attached
\* channel with a valid reference.
THEOREM TimersHaveDatapath == Spec => []TimerHasDatapath
  <1>1. IndInv => TimerHasDatapath
    BY DEF IndInv, StateOK, RecOK, TimerHasDatapath
  <1>2. QED
    BY Inductive, <1>1, PTL

\* The main reference of a datapath names an attached channel with id 0.
THEOREM MainReferencesAttached == Spec => []MainRefAttached
  <1>1. IndInv => MainRefAttached
    BY DEF IndInv, StateOK, MainRefs, MainRefAttached
  <1>2. QED
    BY Inductive, <1>1, PTL

\* Attached auxiliary channels are on their datapath's list.
THEOREM AuxChannelsListed == Spec => []AuxListed
  <1>1. IndInv => AuxListed
    BY DEF IndInv, StateOK, AuxOnList, AuxListed, Listed
  <1>2. QED
    BY Inductive, <1>1, PTL

\* A valid reference on a list names a channel of that datapath.
THEOREM AuxReferencesSafe == Spec => []AuxRefSafe
  <1>1. IndInv => AuxRefSafe
    BY DEF IndInv, StateOK, AuxRefs, AuxRefSafe
  <1>2. QED
    BY Inductive, <1>1, PTL

\* An active datapath has an attached main channel that reported its ports.
THEOREM ActiveDatapathsHaveMain == Spec => []ActiveHasMain
  <1>1. IndInv => ActiveHasMain
    BY DEF IndInv, StateOK, ActiveRefs, ActiveHasMain
  <1>2. QED
    BY Inductive, <1>1, PTL

\* The keep-alive of an auxiliary channel never reads a null list entry.
THEOREM EchoAlwaysFindsChannel == Spec => []EchoFindsChannel
  BY Inductive, PTL DEF IndInv

\* A channel that has left the connection table is not attached again, no
\* handler gets its descriptor, only the deletion of a datapath that had looked
\* it up changes its state, and nobody writes to it once it is released.
THEOREM ClosedChannelsStayClosed == Spec => ClosedForever
  <1>1. IndInv /\ [Next]_vars =>
          [\A c \in Channel : ch[c].fsm # "init" /\ ~ ch[c].hash =>
             /\ ~ ch'[c].hash /\ ch'[c].epoll = "none"
             /\ ch'[c].added => ch[c].added
             /\ ch[c].fsm = "closed" /\ ch'[c].fsm # "closed" =>
                  \E d \in Datapath : dpt[d].status = "detached" /\ dpt[d].victim = c
             /\ ch[c].freed =>
                  ch'[c] = [ch[c] EXCEPT !.ktimer = ch'[c].ktimer,
                                         !.rtimer = ch'[c].rtimer]]_vars
    BY NextInv DEF Preserved, Forward
  <1>2. QED
    BY Inductive, <1>1, PTL DEF Spec, ClosedForever
=============================================================================
