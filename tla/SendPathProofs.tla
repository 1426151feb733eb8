--------------------------- MODULE SendPathProofs ---------------------------
(***************************************************************************)
(* Proofs about SendPath, for any number of messages, pieces and threads:   *)
(* its types, Accounted, ReleasedOnce, and that it implements Stream.       *)
(***************************************************************************)
EXTENDS SendPath, FiniteSetTheorems, SequenceTheorems, TLAPS

Holds(t) == pc[t] \in {"write", "append"}
Popping == pc[Owner] = "pop"
Place == 1 .. Len(list)

\* The pieces of every message that the socket took, and the messages it took whole.
Written == [m \in Msg |-> S!Out(m)]
WholeMsg(m) == Written[m] = 1 .. Chunks

\* A message nobody will write any more, while the connection is open.
Settled(m) == WholeMsg(m) \/ m \in lost

\* A message is handed over once, by one thread.
HandedOnce ==
  \A t, u \in Thread : \A i \in 1 .. Len(accepted[t]), j \in 1 .. Len(accepted[u]) :
    accepted[t][i] = accepted[u][j] => t = u /\ i = j

\* A message that was not handed over has left no trace.
Untouched ==
  /\ \A m \in Msg : m \notin S!Handed => Written[m] = {} /\ frees[m] = 0
  /\ lost \subseteq S!Handed

\* What a thread has in hand is the last message it accepted, written up to off.
HandOK ==
  \A t \in Thread :
    /\ pc[t] \notin {"append", "arm", "signal", "unflag"} => off[t] = 0
    /\ Holds(t) =>
         /\ Len(accepted[t]) > 0 /\ msg[t] = accepted[t][Len(accepted[t])]
         /\ msg[t] \notin lost /\ frees[msg[t]] = 0
         /\ off[t] < Chunks /\ Written[msg[t]] = 1 .. off[t]
         /\ \A i \in Place : list[i].msg # msg[t]

\* What waits is on the list once and written up to length_sent, but for the head
\* that is about to be taken off.
ListOK ==
  /\ \A i, j \in Place : list[i].msg = list[j].msg => i = j
  /\ \A i \in Place : list[i].msg \in S!Handed \ lost
  /\ \A i \in Place : ~(i = 1 /\ Popping) =>
       /\ list[i].sent < Chunks
       /\ Written[list[i].msg] = 1 .. list[i].sent
       /\ frees[list[i].msg] = 0
  /\ Popping => Len(list) > 0 /\ (open => WholeMsg(list[1].msg))

\* While the connection is open a message that is not settled is in hand or waits.
Somewhere ==
  open => \A m \in S!Handed :
    \/ Settled(m)
    \/ \E t \in Thread : Holds(t) /\ msg[t] = m
    \/ \E i \in Place : list[i].msg = m

\* While the connection is open what a thread handed over before a message it is
\* writing is settled, and before one that waits, settled or further ahead.
InOrder ==
  open => \A t \in Thread : \A k, l \in 1 .. Len(accepted[t]) : k < l =>
    /\ pc[t] = "write" => Settled(accepted[t][k])
    /\ \A i \in Place : list[i].msg = accepted[t][l] =>
         \/ Settled(accepted[t][k])
         \/ \E j \in 1 .. (i - 1) : list[j].msg = accepted[t][k]

Inv == /\ TypeOK /\ ReleasedOnce
       /\ HandedOnce /\ Untouched /\ HandOK /\ ListOK /\ Somewhere /\ InOrder

-----------------------------------------------------------------------------
(* What a write adds.                                                       *)

\* The pieces of a message that left, as the pairs on the wire name them.
LEMMA OutMember ==
  ASSUME wire \in Seq(Msg \X (1 .. Chunks)), NEW m \in Msg, NEW x
  PROVE  x \in S!Out(m) <=> <<m, x>> \in Range(wire)
<1>1. Range(wire) = {wire[i] : i \in 1 .. Len(wire)}
  BY RangeEquality
<1>2. \A i \in 1 .. Len(wire) : wire[i] = <<wire[i][1], wire[i][2]>>
  OBVIOUS
<1>3. DOMAIN wire = 1 .. Len(wire)
  OBVIOUS
<1> QED  BY <1>1, <1>2, <1>3, SMTT(30) DEF S!Out

\* The same of the next state.
LEMMA OutMemberPrime ==
  ASSUME (wire \in Seq(Msg \X (1 .. Chunks)))', NEW m \in Msg, NEW x
  PROVE  x \in S!Out(m)' <=> <<m, x>> \in Range(wire')
<1>1. Range(wire') = {wire'[i] : i \in 1 .. Len(wire')}
  BY RangeEquality
<1>2. \A i \in 1 .. Len(wire') : wire'[i] = <<wire'[i][1], wire'[i][2]>>
  OBVIOUS
<1>3. DOMAIN wire' = 1 .. Len(wire')
  OBVIOUS
<1> QED  BY <1>1, <1>2, <1>3, SMTT(30) DEF S!Out

\* Written maps every message to numbers of chunks.
LEMMA WrittenType ==
  ASSUME TypeOK
  PROVE  Written \in [Msg -> SUBSET (1 .. Chunks)]
<1>1. \A m \in Msg : \A x \in S!Out(m) : x \in 1 .. Chunks
  <2>1. wire \in Seq(Msg \X (1 .. Chunks))
    BY DEF TypeOK
  <2>2. Range(wire) \in SUBSET (Msg \X (1 .. Chunks))
    BY <2>1, RangeOfSeq
  <2>3. ASSUME NEW m \in Msg, NEW x, x \in S!Out(m)  PROVE x \in 1 .. Chunks
    <3>1. <<m, x>> \in Range(wire)
      BY <2>1, <2>3, OutMember
    <3>2. <<m, x>> \in Msg \X (1 .. Chunks)
      BY <2>2, <3>1
    <3> QED  BY <3>2
  <2> QED  BY <2>3
<1> QED  BY <1>1 DEF Written

\* k pieces from a on are added to those of one message, and to no other.
LEMMA PutWritten ==
  ASSUME TypeOK, NEW m \in Msg, NEW a \in Nat, NEW k \in Nat, a + k <= Chunks,
         Put(m, a, k), Written[m] = 1 .. a
  PROVE  /\ wire' \in Seq(Msg \X (1 .. Chunks))
         /\ Written' = [Written EXCEPT ![m] = 1 .. (a + k)]
<1> DEFINE P == S!Piece(m, a, k)
<1>0. Chunks \in Nat \ {0}
  BY SendPathAssumption
<1>1. P \in Seq(Msg \X (1 .. Chunks)) /\ Len(P) = k /\ \A i \in 1 .. k : P[i] = <<m, a + i>>
  <2>1. \A i \in 1 .. k : a + i \in 1 .. Chunks
    BY <1>0
  <2> QED  BY <2>1 DEF S!Piece
<1>2. wire \in Seq(Msg \X (1 .. Chunks)) /\ wire' = wire \o P
  BY DEF TypeOK, Put
<1> HIDE DEF P
<1>3. wire' \in Seq(Msg \X (1 .. Chunks)) /\ Range(wire') = Range(wire) \cup Range(P)
  BY <1>1, <1>2, ConcatProperties, RangeConcatenation
<1>4. Range(P) = {<<m, a + i>> : i \in 1 .. k}
  <2>1. Range(P) = {P[i] : i \in 1 .. Len(P)}
    BY <1>1, RangeEquality
  <2> QED  BY <2>1, <1>1
<1>5. \A n \in Msg : \A x : x \in S!Out(n)' <=>
        x \in S!Out(n) \/ (n = m /\ \E i \in 1 .. k : x = a + i)
  BY <1>2, <1>3, <1>4, OutMember, OutMemberPrime
<1>6. \A n \in Msg : n # m => S!Out(n)' = S!Out(n)
  BY <1>5
<1>7. S!Out(m) = 1 .. a
  BY DEF Written
<1>8. S!Out(m)' = 1 .. (a + k)
  <2>1. \A x : x \in 1 .. (a + k) <=> x \in 1 .. a \/ \E i \in 1 .. k : x = a + i
    <3>1. ASSUME NEW x \in 1 .. (a + k), x \notin 1 .. a
          PROVE  \E i \in 1 .. k : x = a + i
      <4>1. x - a \in 1 .. k /\ x = a + (x - a)
        BY <3>1
      <4> QED  BY <4>1
    <3> QED  BY <3>1
  <2> QED  BY <1>5, <1>7, <2>1
<1> QED  BY <1>3, <1>6, <1>8 DEF Written
-----------------------------------------------------------------------------
(* The actions.                                                             *)

\* What was handed over is what some thread has accepted.
LEMMA HandedMember ==
  ASSUME TypeOK
  PROVE  /\ \A u \in Thread : \A i \in 1 .. Len(accepted[u]) : accepted[u][i] \in S!Handed
         /\ \A n \in S!Handed : /\ n \in Msg
                                /\ \E u \in Thread : \E i \in 1 .. Len(accepted[u]) : accepted[u][i] = n
<1>1. \A u \in Thread : accepted[u] \in Seq(Msg) /\ DOMAIN accepted[u] = 1 .. Len(accepted[u])
  BY DEF TypeOK
<1>2. \A u \in Thread : \A i \in 1 .. Len(accepted[u]) : accepted[u][i] \in Msg
  BY <1>1
<1> QED  BY <1>1, <1>2 DEF S!Handed

\* Two threads never have the same message in hand, and a thread has the number
\* of a message in hand.
LEMMA HandFacts ==
  ASSUME Inv, NEW t \in Thread, Holds(t)
  PROVE  /\ msg[t] \in Msg /\ msg[t] \in S!Handed
         /\ msg[t] = accepted[t][Len(accepted[t])]
         /\ Len(accepted[t]) \in 1 .. Len(accepted[t])
         /\ \A u \in Thread : Holds(u) /\ msg[u] = msg[t] => u = t
<1>1. /\ Len(accepted[t]) > 0 /\ msg[t] = accepted[t][Len(accepted[t])]
      /\ accepted[t] \in Seq(Msg)
  BY DEF Inv, HandOK, TypeOK
<1>2. msg[t] \in Msg /\ Len(accepted[t]) \in DOMAIN accepted[t]
  BY <1>1
<1>3. ASSUME NEW u \in Thread, Holds(u), msg[u] = msg[t]  PROVE u = t
  <2>1. /\ Len(accepted[u]) > 0 /\ msg[u] = accepted[u][Len(accepted[u])]
        /\ accepted[u] \in Seq(Msg)
    BY <1>3 DEF Inv, HandOK, TypeOK
  <2>2. /\ Len(accepted[u]) \in 1 .. Len(accepted[u])
        /\ Len(accepted[t]) \in 1 .. Len(accepted[t])
        /\ accepted[u][Len(accepted[u])] = accepted[t][Len(accepted[t])]
    BY <1>1, <1>3, <2>1
  <2> QED  BY <2>2 DEF Inv, HandedOnce
<1> QED  BY <1>1, <1>2, <1>3 DEF S!Handed

\* A step that leaves messages, list and wire alone, and takes nobody into or out of
\* the places where a message is in hand or the head is taken off.
Quiet ==
  /\ UNCHANGED <<list, frees, accepted, wire, lost>>
  /\ open' => open
  /\ Popping' <=> Popping
  /\ \A t \in Thread :
       /\ Holds(t) <=> Holds(t)'
       /\ Holds(t) => pc'[t] = pc[t] /\ msg'[t] = msg[t] /\ off'[t] = off[t]
       /\ pc'[t] \notin {"append", "arm", "signal", "unflag"} => off'[t] = 0

\* A quiet step keeps the invariant.
LEMMA QuietInv ==
  ASSUME Inv, TypeOK', Quiet
  PROVE  Inv'
<1>1. Written' = Written /\ S!Handed' = S!Handed /\ Place' = Place
  BY DEF Quiet, Written, S!Out, S!Handed, Place
<1>2. ReleasedOnce' /\ HandedOnce' /\ Untouched'
  BY <1>1 DEF Inv, Quiet, ReleasedOnce, HandedOnce, Untouched
<1>3. HandOK'
  BY <1>1 DEF Inv, Quiet, HandOK, Holds
<1>4. ListOK'
  BY <1>1 DEF Inv, Quiet, ListOK, WholeMsg
<1>5. Somewhere'
  <2> SUFFICES ASSUME open', NEW m \in S!Handed
               PROVE  \/ Settled(m)
                      \/ \E t \in Thread : Holds(t)' /\ msg'[t] = m
                      \/ \E i \in Place : list[i].msg = m
    BY <1>1 DEF Somewhere, Settled, WholeMsg, Quiet
  <2> QED  BY DEF Inv, Quiet, Somewhere
<1>6. InOrder'
  BY <1>1 DEF Inv, Quiet, InOrder, Settled, WholeMsg, Holds
<1> QED  BY <1>2, <1>3, <1>4, <1>5, <1>6 DEF Inv

\* The initial states satisfy the invariant.
LEMMA InitInv == Init => Inv
<1> SUFFICES ASSUME Init  PROVE Inv
  OBVIOUS
<1>0. Chunks \in Nat \ {0} /\ MaxMsg \in Nat
  BY SendPathAssumption
<1>1. TypeOK
  <2>1. list \in Seq([msg : Msg, sent : 0 .. Chunks]) /\ wire \in Seq(Msg \X (1 .. Chunks))
    BY DEF Init
  <2>2. accepted \in [Thread -> Seq(Msg)]
    BY DEF Init
  <2>3. pc \in [Thread -> SenderPc \cup OwnerPc] /\ \A t \in Thread : pc[t] \in SenderPc \cap OwnerPc
    BY DEF Init, SenderPc, OwnerPc
  <2>4. msg \in [Thread -> Msg \cup {NoMsg}] /\ off \in [Thread -> 0 .. Chunks]
    BY <1>0 DEF Init
  <2> QED  BY <2>1, <2>2, <2>3, <2>4 DEF Init, TypeOK, Thread
<1>2. S!Handed = {} /\ Place = {} /\ \A m \in Msg : Written[m] = {}
  BY DEF Init, S!Handed, Place, Written, S!Out
<1> QED
  BY <1>1, <1>2 DEF Init, Inv, ReleasedOnce, HandedOnce, Untouched, HandOK, ListOK,
     Somewhere, InOrder, Holds, Popping, Thread

\* A thread hands over a new message.
LEMMA SendMsgInv ==
  ASSUME Inv, NEW t \in Thread, NEW m \in Msg, SendMsg(t, m)
  PROVE  Inv'
<1>0. Chunks \in Nat \ {0} /\ MaxMsg \in Nat
  BY SendPathAssumption
<1>1. /\ pc[t] = "idle" /\ m \notin S!Handed
      /\ accepted' = [accepted EXCEPT ![t] = Append(accepted[t], m)]
      /\ msg' = [msg EXCEPT ![t] = m]
      /\ pc' = [pc EXCEPT ![t] = IF Len(list) > 0 THEN "append" ELSE "write"]
      /\ UNCHANGED <<open, list, flags, off, stuck, frees, gone, wire, lost>>
  BY DEF SendMsg, Goto
<1>2. /\ accepted[t] \in Seq(Msg) /\ Append(accepted[t], m) \in Seq(Msg)
      /\ Len(accepted[t]) \in Nat
      /\ Len(Append(accepted[t], m)) = Len(accepted[t]) + 1
      /\ \A i \in 1 .. Len(accepted[t]) : Append(accepted[t], m)[i] = accepted[t][i]
      /\ Append(accepted[t], m)[Len(accepted[t]) + 1] = m
  BY AppendProperties DEF Inv, TypeOK
<1>3. /\ Len(accepted'[t]) = Len(accepted[t]) + 1
      /\ \A i \in 1 .. Len(accepted[t]) : accepted'[t][i] = accepted[t][i]
      /\ accepted'[t][Len(accepted[t]) + 1] = m
      /\ \A u \in Thread : u # t => accepted'[u] = accepted[u]
      /\ accepted' \in [Thread -> Seq(Msg)]
  BY <1>1, <1>2 DEF Inv, TypeOK
<1>4. TypeOK'
  BY <1>1, <1>3 DEF Inv, TypeOK, flags, Thread, SenderPc, OwnerPc
<1>5. /\ Written' = Written /\ S!Handed' = S!Handed \cup {m} /\ Place' = Place
      /\ \A u \in Thread : \A i \in 1 .. Len(accepted[u]) : accepted[u][i] \in S!Handed
  <2>1. \A u \in Thread : accepted[u] \in Seq(Msg) /\ DOMAIN accepted[u] = 1 .. Len(accepted[u])
    BY DEF Inv, TypeOK
  <2>2. \A u \in Thread : accepted'[u] \in Seq(Msg) /\ DOMAIN accepted'[u] = 1 .. Len(accepted'[u])
    BY <1>3
  <2>3. \A n \in Msg : n \in S!Handed <=>
          \E u \in Thread : \E i \in 1 .. Len(accepted[u]) : accepted[u][i] = n
    BY <2>1 DEF S!Handed
  <2>4. \A n \in Msg : n \in S!Handed' <=>
          \E u \in Thread : \E i \in 1 .. Len(accepted'[u]) : accepted'[u][i] = n
    BY <2>2 DEF S!Handed
  <2>5. ASSUME NEW n \in S!Handed  PROVE n \in S!Handed'
    <3>1. n \in Msg
      BY DEF S!Handed
    <3>2. PICK u \in Thread, i \in Nat : i \in 1 .. Len(accepted[u]) /\ accepted[u][i] = n
      BY <2>3, <3>1
    <3>3. i \in 1 .. Len(accepted'[u]) /\ accepted'[u][i] = n
      BY <3>2, <1>2, <1>3
    <3> QED  BY <3>1, <3>3, <2>4
  <2>6. m \in S!Handed'
    BY <2>4, <1>2, <1>3
  <2>7. ASSUME NEW n \in S!Handed', n # m  PROVE n \in S!Handed
    <3>1. n \in Msg
      BY DEF S!Handed
    <3>2. PICK u \in Thread, i \in Nat : i \in 1 .. Len(accepted'[u]) /\ accepted'[u][i] = n
      BY <2>4, <3>1
    <3>3. i \in 1 .. Len(accepted[u]) /\ accepted[u][i] = n
      BY <3>2, <2>7, <1>2, <1>3
    <3> QED  BY <3>1, <3>3, <2>3
  <2>8. Written' = Written /\ Place' = Place
    BY <1>1 DEF Written, S!Out, Place
  <2> QED  BY <2>1, <2>3, <2>5, <2>6, <2>7, <2>8 DEF S!Handed
<1>6. HandedOnce'
  BY <1>1, <1>2, <1>3, <1>5 DEF Inv, HandedOnce
<1>7. ReleasedOnce' /\ Untouched'
  BY <1>1, <1>5 DEF Inv, ReleasedOnce, Untouched
<1>8. \A i \in Place : list[i].msg # m
  BY <1>1 DEF Inv, ListOK
<1>9. HandOK'
  <2>0. pc \in [Thread -> SenderPc \cup OwnerPc] /\ msg \in [Thread -> Msg \cup {NoMsg}]
    BY DEF Inv, TypeOK
  <2>1. off[t] = 0 /\ Written[m] = 1 .. 0 /\ frees[m] = 0 /\ m \notin lost
    BY <1>1 DEF Inv, HandOK, Untouched
  <2> SUFFICES ASSUME NEW u \in Thread
               PROVE  /\ pc'[u] \notin {"append", "arm", "signal", "unflag"} => off'[u] = 0
                      /\ Holds(u)' =>
                          /\ Len(accepted'[u]) > 0 /\ msg'[u] = accepted'[u][Len(accepted'[u])]
                          /\ msg'[u] \notin lost' /\ frees'[msg'[u]] = 0
                          /\ off'[u] < Chunks /\ Written'[msg'[u]] = 1 .. off'[u]
                          /\ \A i \in Place' : list'[i].msg # msg'[u]
    BY DEF HandOK
  <2>2. CASE u = t
    <3>1. /\ pc'[t] \in {"append", "write"} /\ msg'[t] = m /\ off'[t] = 0
          /\ lost' = lost /\ list' = list
      BY <2>0, <2>1, <1>1
    <3>2. frees'[m] = 0 /\ Written'[m] = 1 .. 0
      BY <2>1, <1>1, <1>5
    <3>3. pc'[t] \notin {"append", "arm", "signal", "unflag"} => off'[t] = 0
      BY <3>1
    <3>4. Len(accepted'[t]) > 0 /\ msg'[t] = accepted'[t][Len(accepted'[t])]
      BY <3>1, <1>2, <1>3
    <3> QED  BY <2>1, <2>2, <1>0, <3>1, <3>2, <3>3, <3>4, <1>5, <1>8
  <2>3. CASE u # t
    BY <2>0, <2>3, <1>1, <1>3, <1>5 DEF Inv, HandOK, Holds
  <2> QED  BY <2>2, <2>3
<1>10. Popping' <=> Popping
  BY <1>1 DEF Popping, Inv, TypeOK
<1>11. ListOK'
  BY <1>1, <1>5, <1>8, <1>10 DEF Inv, ListOK, WholeMsg
<1>12. Somewhere'
  BY <1>1, <1>5 DEF Inv, Somewhere, Settled, WholeMsg, Holds, TypeOK
<1>13. InOrder'
  <2> SUFFICES ASSUME open, NEW u \in Thread,
                      NEW k \in 1 .. Len(accepted'[u]), NEW l \in 1 .. Len(accepted'[u]), k < l
               PROVE  /\ pc'[u] = "write" => Settled(accepted'[u][k])
                      /\ \A i \in Place : list[i].msg = accepted'[u][l] =>
                           \/ Settled(accepted'[u][k])
                           \/ \E j \in 1 .. (i - 1) : list[j].msg = accepted'[u][k]
    BY <1>1, <1>5, SMTT(30) DEF InOrder, Settled, WholeMsg
  <2>0. pc'[t] = "write" => \A i \in 1 .. Len(accepted[t]) : Settled(accepted[t][i])
    <3> SUFFICES ASSUME Len(list) = 0, NEW i \in 1 .. Len(accepted[t])
                 PROVE  Settled(accepted[t][i])
      BY <1>1 DEF Inv, TypeOK
    <3>1. accepted[t][i] \in S!Handed /\ Place = {}
      BY <1>5 DEF Place
    <3>2. SUFFICES ASSUME NEW v \in Thread, Holds(v), msg[v] = accepted[t][i]  PROVE FALSE
      BY <3>1, <1>1 DEF Inv, Somewhere
    <3>3. msg[v] = accepted[v][Len(accepted[v])] /\ Len(accepted[v]) \in 1 .. Len(accepted[v])
      BY <3>2, HandFacts
    <3>4. v = t
      <4>1. accepted[v][Len(accepted[v])] = accepted[t][i]
        BY <3>2, <3>3
      <4>2. HandedOnce
        BY DEF Inv
      <4> QED  BY <3>3, <4>1, <4>2 DEF HandedOnce
    <3> QED  BY <3>2, <3>4, <1>1 DEF Holds
  <2>1. CASE u # t
    BY <2>1, <1>1, <1>3 DEF Inv, InOrder, TypeOK
  <2>2. CASE u = t /\ l <= Len(accepted[t])
    <3>1. k \in 1 .. Len(accepted[t]) /\ l \in 1 .. Len(accepted[t])
      BY <2>2, <1>2
    <3>2. accepted'[t][k] = accepted[t][k] /\ accepted'[t][l] = accepted[t][l]
      BY <3>1, <1>3
    <3> QED  BY <2>0, <2>2, <3>1, <3>2, <1>1 DEF Inv, InOrder
  <2>3. CASE u = t /\ l = Len(accepted[t]) + 1
    <3>1. k \in 1 .. Len(accepted[t])
      BY <2>3, <1>2
    <3>2. accepted'[t][k] = accepted[t][k] /\ accepted'[t][l] = m
      BY <2>3, <3>1, <1>3
    <3> QED  BY <2>0, <2>3, <3>1, <3>2, <1>1, <1>8
  <2> QED  BY <2>1, <2>2, <2>3, <1>2, <1>3
<1> QED  BY <1>4, <1>6, <1>7, <1>9, <1>11, <1>12, <1>13 DEF Inv

\* A step of a thread that has a message in hand: it writes of that message, and
\* then either keeps the rest or is done with it.
HandStep(t) ==
  LET m == msg[t] IN
  /\ UNCHANGED <<list, accepted>>
  /\ open' => open
  /\ \A n \in Msg : n # m => Written'[n] = Written[n] /\ frees'[n] = frees[n]
  /\ \A u \in Thread : u # t => pc'[u] = pc[u] /\ msg'[u] = msg[u] /\ off'[u] = off[u]
  /\ \/ /\ pc'[t] = "append" /\ msg'[t] = m /\ lost' = lost /\ frees'[m] = 0
        /\ off'[t] < Chunks /\ Written'[m] = 1 .. off'[t]
     \/ /\ pc'[t] = "idle" /\ off'[t] = 0 /\ frees'[m] \in {0, 1}
        /\ lost' \in {lost, lost \cup {m}}
        /\ open' => Written'[m] = 1 .. Chunks \/ m \in lost'

\* A HandStep of the thread that holds a message keeps the invariant.
LEMMA HandStepInv ==
  ASSUME Inv, TypeOK', NEW t \in Thread, Holds(t), HandStep(t)
  PROVE  Inv'
<1> DEFINE m == msg[t]
<1>1. /\ m \in Msg /\ m \in S!Handed /\ m \notin lost
      /\ \A u \in Thread : Holds(u) /\ msg[u] = m => u = t
      /\ \A i \in Place : list[i].msg # m
      /\ off[t] < Chunks /\ Written[m] = 1 .. off[t] /\ off[t] \in Nat
  BY HandFacts, SendPathAssumption, SMTT(30) DEF Inv, HandOK, TypeOK
<1>0. lost \subseteq lost' /\ lost' \subseteq lost \cup {m}
  BY DEF HandStep
<1>2. /\ S!Handed' = S!Handed /\ Place' = Place /\ list' = list /\ accepted' = accepted
      /\ open' => open
      /\ \A n \in Msg : n # m => Written'[n] = Written[n] /\ frees'[n] = frees[n]
      /\ \A u \in Thread : u # t => pc'[u] = pc[u] /\ msg'[u] = msg[u] /\ off'[u] = off[u]
  <2>1. list' = list /\ accepted' = accepted /\ (open' => open)
    BY DEF HandStep
  <2>2. S!Handed' = S!Handed /\ Place' = Place
    BY <2>1 DEF S!Handed, Place
  <2> QED  BY <2>1, <2>2 DEF HandStep
<1>3. \/ /\ pc'[t] = "append" /\ msg'[t] = m /\ lost' = lost /\ frees'[m] = 0
         /\ off'[t] < Chunks /\ Written'[m] = 1 .. off'[t]
      \/ /\ pc'[t] = "idle" /\ off'[t] = 0 /\ frees'[m] \in {0, 1}
         /\ open' => Written'[m] = 1 .. Chunks \/ m \in lost'
  BY DEF HandStep
<1>4. ~WholeMsg(m) /\ S!Handed \subseteq Msg
  <2>1. Chunks \in 1 .. Chunks /\ Chunks \notin 1 .. off[t]
    BY <1>1, SendPathAssumption
  <2> QED  BY <1>1, <2>1 DEF WholeMsg, S!Handed
<1>5. \A n \in S!Handed : n # m => /\ WholeMsg(n)' <=> WholeMsg(n)
                                   /\ n \in lost' <=> n \in lost
  <2> SUFFICES ASSUME NEW n \in S!Handed, n # m
               PROVE  (WholeMsg(n)' <=> WholeMsg(n)) /\ (n \in lost' <=> n \in lost)
    OBVIOUS
  <2>1. n \in lost' <=> n \in lost
    BY <1>0
  <2>2. Written'[n] = Written[n]
    BY <1>2, <1>4
  <2> QED  BY <2>1, <2>2 DEF WholeMsg
<1>6. \A n \in S!Handed : Settled(n) => Settled(n)'
  BY <1>1, <1>4, <1>5 DEF Settled
<1> HIDE DEF m
<1>7. ReleasedOnce'
  BY <1>2, <1>3 DEF Inv, ReleasedOnce
<1>8. HandedOnce' /\ Untouched'
  <2>1. HandedOnce'
    BY <1>2 DEF Inv, HandedOnce
  <2>2. \A n \in Msg : n \notin S!Handed => Written'[n] = {} /\ frees'[n] = 0
    BY <1>1, <1>2 DEF Inv, Untouched
  <2>3. lost' \subseteq S!Handed
    BY <1>0, <1>1 DEF Inv, Untouched
  <2> QED  BY <1>2, <2>1, <2>2, <2>3 DEF Untouched
<1>9. HandOK'
  <2> SUFFICES ASSUME NEW u \in Thread
               PROVE  /\ pc'[u] \notin {"append", "arm", "signal", "unflag"} => off'[u] = 0
                      /\ Holds(u)' =>
                          /\ Len(accepted[u]) > 0 /\ msg'[u] = accepted[u][Len(accepted[u])]
                          /\ msg'[u] \notin lost' /\ frees'[msg'[u]] = 0
                          /\ off'[u] < Chunks /\ Written'[msg'[u]] = 1 .. off'[u]
                          /\ \A i \in Place : list[i].msg # msg'[u]
    BY <1>2 DEF HandOK
  <2>1. CASE u = t
    BY <2>1, <1>1, <1>3 DEF m, Inv, HandOK, Holds
  <2>2. CASE u # t
    <3>1. Holds(u) => msg[u] # m /\ msg[u] \in Msg
      BY <2>2, <1>1, HandFacts
    <3>2. Holds(u)' <=> Holds(u)
      BY <2>2, <1>2 DEF Holds
    <3>3. /\ pc'[u] = pc[u] /\ msg'[u] = msg[u] /\ off'[u] = off[u] 
      BY <2>2, <1>2
    <3>4. Holds(u) => /\ msg[u] \notin lost' /\ frees'[msg[u]] = 0
                      /\ Written'[msg[u]] = 1 .. off[u]
      BY <1>0, <1>2, <3>1 DEF Inv, HandOK
    <3> QED  BY <3>2, <3>3, <3>4 DEF Inv, HandOK
  <2> QED  BY <2>1, <2>2
<1>10. ListOK'
  <2>1. \A i \in Place : list[i].msg \in S!Handed /\ list[i].msg # m
    BY <1>1 DEF Inv, ListOK
  <2>2. Popping' <=> Popping
    BY <1>2, <1>3 DEF Popping, Holds, Thread
  <2>3. \A i \in Place : list[i].msg \in S!Handed \ lost'
    BY <2>1, <1>0 DEF Inv, ListOK
  <2>4. Popping' => Len(list) > 0 /\ (open' => WholeMsg(list[1].msg)')
    <3> SUFFICES ASSUME Popping  PROVE Len(list) > 0 /\ (open' => WholeMsg(list[1].msg)')
      BY <2>2
    <3>1. Len(list) > 0 /\ (open => WholeMsg(list[1].msg)) /\ 1 \in Place
      BY DEF Inv, ListOK, Place, TypeOK
    <3>2. Written'[list[1].msg] = Written[list[1].msg]
      BY <3>1, <2>1, <1>2, <1>4
    <3> QED  BY <3>1, <3>2, <1>2 DEF WholeMsg
  <2>5. \A i \in Place : ~(i = 1 /\ Popping) =>
          /\ list[i].sent < Chunks
          /\ Written'[list[i].msg] = 1 .. list[i].sent
          /\ frees'[list[i].msg] = 0
    BY <2>1, <1>2, <1>4 DEF Inv, ListOK
  <2> QED  BY <2>2, <2>3, <2>4, <2>5, <1>2 DEF Inv, ListOK
<1>11. Somewhere'
  <2> SUFFICES ASSUME open', NEW n \in S!Handed
               PROVE  \/ Settled(n)'
                      \/ \E u \in Thread : Holds(u)' /\ msg'[u] = n
                      \/ \E i \in Place : list[i].msg = n
    BY <1>2 DEF Somewhere
  <2>1. CASE Settled(n)
    BY <2>1, <1>6
  <2>2. ASSUME NEW u \in Thread, Holds(u), msg[u] = n, u # t
        PROVE  Holds(u)' /\ msg'[u] = n
    BY <2>2, <1>2 DEF Holds
  <2>3. CASE n = m
    BY <2>3, <1>3 DEF Settled, WholeMsg, Holds
  <2>4. \/ Settled(n)
        \/ \E u \in Thread : Holds(u) /\ msg[u] = n
        \/ \E i \in Place : list[i].msg = n
    BY <1>2 DEF Inv, Somewhere
  <2> QED  BY <2>1, <2>2, <2>3, <2>4 DEF m
<1>12. InOrder'
  <2> SUFFICES ASSUME open', NEW u \in Thread,
                      NEW k \in 1 .. Len(accepted[u]), NEW l \in 1 .. Len(accepted[u]), k < l
               PROVE  /\ pc'[u] = "write" => Settled(accepted[u][k])'
                      /\ \A i \in Place : list[i].msg = accepted[u][l] =>
                           \/ Settled(accepted[u][k])'
                           \/ \E j \in 1 .. (i - 1) : list[j].msg = accepted[u][k]
    BY <1>2 DEF InOrder, Settled, WholeMsg
  <2>1. accepted[u][k] \in S!Handed
    BY HandedMember DEF Inv
  <2>2. Settled(accepted[u][k]) => Settled(accepted[u][k])'
    BY <2>1, <1>2, <1>6 DEF Settled, WholeMsg
  <2>3. pc'[u] = "write" => pc[u] = "write"
    BY <1>2, <1>3
  <2>4. /\ pc[u] = "write" => Settled(accepted[u][k])
        /\ \A i \in Place : list[i].msg = accepted[u][l] =>
             \/ Settled(accepted[u][k])
             \/ \E j \in 1 .. (i - 1) : list[j].msg = accepted[u][k]
    BY <1>2 DEF Inv, InOrder
  <2> QED  BY <2>2, <2>3, <2>4
<1> QED  BY <1>7, <1>8, <1>9, <1>10, <1>11, <1>12 DEF Inv

\* A direct write, whatever the socket takes.
LEMMA TrySendInv ==
  ASSUME Inv, NEW t \in Thread, TrySend(t)
  PROVE  Inv'
<1> DEFINE m == msg[t]
<1>0. Chunks \in Nat \ {0} /\ MaxMsg \in Nat
  BY SendPathAssumption
<1>1. /\ pc[t] = "write" /\ Holds(t) /\ m \in Msg /\ off[t] = 0
      /\ Written[m] = 1 .. 0 /\ frees[m] = 0
      /\ UNCHANGED <<list, flags, stuck, gone, accepted, lost>>
  BY HandFacts DEF Inv, HandOK, TrySend, Holds
<1>2. TypeOK
  BY DEF Inv
<1>3. ASSUME NEW k \in 0 .. Chunks, Put(m, 0, k)
      PROVE  /\ wire' \in Seq(Msg \X (1 .. Chunks))
             /\ Written'[m] = 1 .. k
             /\ \A n \in Msg : n # m => Written'[n] = Written[n]
  <2>1. Written \in [Msg -> SUBSET (1 .. Chunks)]
    BY <1>2, WrittenType
  <2>2. /\ wire' \in Seq(Msg \X (1 .. Chunks))
        /\ Written' = [Written EXCEPT ![m] = 1 .. (0 + k)]
    <3>1. m \in Msg /\ 0 \in Nat /\ k \in Nat /\ 0 + k <= Chunks
      BY <1>0, <1>1
    <3> HIDE DEF m
    <3> QED  BY <1>1, <1>2, <1>3, <3>1, PutWritten
  <2> QED  BY <1>1, <2>1, <2>2
<1> HIDE DEF m
<1>4. CASE open /\ Put(m, 0, Chunks) /\ Release(m) /\ Leave(t) /\ UNCHANGED open
  <2>1. TypeOK'
    BY <1>0, <1>1, <1>2, <1>3, <1>4 DEF TypeOK, Release, Leave, Goto, flags, Thread, SenderPc, OwnerPc, NoMsg
  <2>2. HandStep(t)
    BY <1>0, <1>1, <1>2, <1>3, <1>4 DEF m, HandStep, TypeOK, Release, Leave, Goto
  <2> QED  BY <2>1, <2>2, <1>1, HandStepInv
<1>5. ASSUME NEW k \in 0 .. (Chunks - 1), Put(m, 0, k),
             off' = [off EXCEPT ![t] = k], Goto(t, "append"), UNCHANGED <<open, msg, frees>>
      PROVE  Inv'
  <2>0. k \in 0 .. Chunks /\ k < Chunks
    BY <1>0
  <2>1. TypeOK'
    BY <2>0, <1>0, <1>1, <1>2, <1>3, <1>5 DEF TypeOK, Goto, flags, Thread, SenderPc, OwnerPc
  <2>2. HandStep(t)
    BY <2>0, <1>0, <1>1, <1>2, <1>3, <1>5 DEF m, HandStep, TypeOK, Goto
  <2> QED  BY <2>1, <2>2, <1>1, HandStepInv
<1>6. ASSUME NEW k \in 0 .. (Chunks - 1), Put(m, 0, k), open' = FALSE, Release(m), Leave(t)
      PROVE  Inv'
  <2>0. k \in 0 .. Chunks
    BY <1>0
  <2>1. TypeOK'
    <3>1. open' \in BOOLEAN /\ wire' \in Seq(Msg \X (1 .. Chunks)) /\ frees' \in [Msg -> Nat]
      <4>1. wire' \in Seq(Msg \X (1 .. Chunks))
        BY <2>0, <1>3, <1>6
      <4>2. frees' \in [Msg -> Nat]
        BY <1>1, <1>2, <1>6 DEF TypeOK, Release
      <4> QED  BY <4>1, <4>2, <1>6
    <3> QED  BY <3>1, <1>0, <1>1, <1>2, <1>6 DEF TypeOK, Leave, Goto, flags, Thread, SenderPc, OwnerPc, NoMsg
  <2>2. HandStep(t)
    BY <2>0, <1>0, <1>1, <1>2, <1>3, <1>6 DEF m, HandStep, TypeOK, Release, Leave, Goto
  <2> QED  BY <2>1, <2>2, <1>1, HandStepInv
<1> QED  BY <1>4, <1>5, <1>6 DEF TrySend, m

\* No memory for a list node: the message is given up.
LEMMA AppendFailsInv ==
  ASSUME Inv, NEW t \in Thread, AppendFails(t)
  PROVE  Inv'
<1> DEFINE m == msg[t]
<1>0. Chunks \in Nat \ {0}
  BY SendPathAssumption
<1>1. /\ pc[t] = "append" /\ Holds(t) /\ m \in Msg /\ frees[m] = 0
      /\ lost' = lost \cup {m} /\ Leave(t)
      /\ UNCHANGED <<open, list, flags, stuck, frees, gone, accepted, wire>>
  BY HandFacts DEF Inv, HandOK, AppendFails, Holds
<1>2. Written' = Written
  BY <1>1 DEF Written, S!Out
<1>3. TypeOK'
  BY <1>0, <1>1 DEF Inv, TypeOK, Leave, Goto, flags, Thread, SenderPc, OwnerPc, NoMsg
<1>4. HandStep(t)
  BY <1>1, <1>2 DEF Inv, HandStep, TypeOK, Leave, Goto
<1> QED  BY <1>1, <1>3, <1>4, HandStepInv

\* The message with what was sent of it goes to the end of the list.
LEMMA AppendMsgInv ==
  ASSUME Inv, NEW t \in Thread, AppendMsg(t)
  PROVE  Inv'
<1> DEFINE m == msg[t]
           node == [msg |-> msg[t], sent |-> off[t]]
           n == Len(list)
<1>0. Chunks \in Nat \ {0} /\ TypeOK
  BY SendPathAssumption DEF Inv
<1>1. /\ pc[t] = "append" /\ Holds(t) /\ m \in Msg /\ m \in S!Handed /\ m \notin lost
      /\ frees[m] = 0 /\ Written[m] = 1 .. off[t]
      /\ off[t] \in 0 .. Chunks /\ off[t] < Chunks
      /\ \A u \in Thread : Holds(u) /\ msg[u] = m => u = t
      /\ \A i \in Place : list[i].msg # m
      /\ list' = Append(list, node) /\ pc' = [pc EXCEPT ![t] = "arm"]
      /\ UNCHANGED <<open, flags, msg, off, stuck, frees, gone, accepted, wire, lost>>
  BY <1>0, HandFacts DEF Inv, HandOK, AppendMsg, Holds, Goto, TypeOK
<1>2. node \in [msg : Msg, sent : 0 .. Chunks] /\ node.msg = m /\ node.sent = off[t]
  BY <1>1
<1> HIDE DEF node
<1>3. /\ list' \in Seq([msg : Msg, sent : 0 .. Chunks]) /\ n \in Nat /\ Len(list') = n + 1
      /\ \A i \in Place : list'[i] = list[i]
      /\ list'[n + 1] = node
  BY <1>0, <1>1, <1>2, AppendProperties DEF TypeOK, Place
<1> HIDE DEF m
<1>4. TypeOK'
  BY <1>0, <1>1, <1>3 DEF TypeOK, flags, Thread, SenderPc, OwnerPc
<1>5. /\ Place' = Place \cup {n + 1} /\ n + 1 \notin Place /\ Place \subseteq Nat
      /\ \A i \in Place' : i \in Place \/ i = n + 1
  BY <1>3 DEF Place
<1> HIDE DEF n
<1>6. Written' = Written /\ S!Handed' = S!Handed
  BY <1>1 DEF Written, S!Out, S!Handed
<1>7. /\ \A u \in Thread : u # t => (Holds(u)' <=> Holds(u)) /\ pc'[u] = pc[u]
      /\ ~Holds(t)' /\ (Popping' <=> Popping) /\ pc'[t] = "arm"
  BY <1>0, <1>1 DEF Holds, Popping, TypeOK, Thread
<1>8. ReleasedOnce' /\ HandedOnce' /\ Untouched'
  BY <1>1, <1>6 DEF Inv, ReleasedOnce, HandedOnce, Untouched
<1>9. \A i \in Place : list'[i].msg = list[i].msg /\ list'[i].sent = list[i].sent
  BY <1>3
<1>10. list'[n + 1].msg = m /\ list'[n + 1].sent = off[t]
  BY <1>2, <1>3
<1>11. HandOK'
  <2> SUFFICES ASSUME NEW u \in Thread
               PROVE  /\ pc'[u] \notin {"append", "arm", "signal", "unflag"} => off[u] = 0
                      /\ Holds(u)' =>
                          /\ Len(accepted[u]) > 0 /\ msg[u] = accepted[u][Len(accepted[u])]
                          /\ msg[u] \notin lost /\ frees[msg[u]] = 0
                          /\ off[u] < Chunks /\ Written[msg[u]] = 1 .. off[u]
                          /\ \A i \in Place' : list'[i].msg # msg[u]
    BY <1>1, <1>6 DEF HandOK
  <2>1. CASE u = t
    BY <2>1, <1>7
  <2>2. CASE u # t
    <3>1. Holds(u) => /\ msg[u] # m
                      /\ \A i \in Place : list[i].msg # msg[u]
      BY <2>2, <1>1 DEF Inv, HandOK
    <3>2. Holds(u) => \A i \in Place' : list'[i].msg # msg[u]
      BY <3>1, <1>5, <1>9, <1>10
    <3> QED  BY <2>2, <3>2, <1>7 DEF Inv, HandOK
  <2> QED  BY <2>1, <2>2
<1>12. ListOK'
  <2>1. \A i, j \in Place' : list'[i].msg = list'[j].msg => i = j
    <3> SUFFICES ASSUME NEW i \in Place', NEW j \in Place', list'[i].msg = list'[j].msg
                 PROVE  i = j
      OBVIOUS
    <3>1. CASE i \in Place /\ j \in Place
      <4>1. list[i].msg = list[j].msg
        BY <3>1, <1>9
      <4> QED  BY <3>1, <4>1 DEF Inv, ListOK
    <3>2. \A q \in Place : list'[q].msg # m
      BY <1>1, <1>9
    <3> QED  BY <3>1, <3>2, <1>5, <1>10
  <2>2. \A i \in Place' : list'[i].msg \in S!Handed \ lost
    BY <1>1, <1>5, <1>9, <1>10, ZenonT(30) DEF Inv, ListOK
  <2>3. \A i \in Place' : ~(i = 1 /\ Popping) =>
          /\ list'[i].sent < Chunks
          /\ Written[list'[i].msg] = 1 .. list'[i].sent
          /\ frees[list'[i].msg] = 0
    BY <1>1, <1>5, <1>9, <1>10, ZenonT(30) DEF Inv, ListOK
  <2>4. Popping => Len(list') > 0 /\ (open => WholeMsg(list'[1].msg))
    BY <1>3, <1>9 DEF Inv, ListOK, Place, n
  <2> QED  BY <2>1, <2>2, <2>3, <2>4, <1>1, <1>6, <1>7 DEF ListOK, WholeMsg
<1>13. Somewhere'
  <2> SUFFICES ASSUME open, NEW x \in S!Handed
               PROVE  \/ Settled(x)
                      \/ \E u \in Thread : Holds(u)' /\ msg[u] = x
                      \/ \E i \in Place' : list'[i].msg = x
    BY <1>1, <1>6 DEF Somewhere, Settled, WholeMsg
  <2>1. CASE x = m
    BY <2>1, <1>5, <1>10
  <2>2. CASE x # m
    BY <2>2, <1>5, <1>7, <1>9 DEF Inv, Somewhere, m
  <2> QED  BY <2>1, <2>2
<1>14. InOrder'
  <2> SUFFICES ASSUME open, NEW u \in Thread,
                      NEW k \in 1 .. Len(accepted[u]), NEW l \in 1 .. Len(accepted[u]), k < l
               PROVE  /\ pc'[u] = "write" => Settled(accepted[u][k])
                      /\ \A i \in Place' : list'[i].msg = accepted[u][l] =>
                           \/ Settled(accepted[u][k])
                           \/ \E j \in 1 .. (i - 1) : list'[j].msg = accepted[u][k]
    <3>1. open' = open /\ accepted' = accepted /\ lost' = lost
      BY <1>1
    <3> QED  BY <3>1, <1>6 DEF InOrder, Settled, WholeMsg
  <2>1. pc'[u] = "write" => Settled(accepted[u][k])
    BY <1>7 DEF Inv, InOrder
  <2>2. ASSUME NEW i \in Place, list'[i].msg = accepted[u][l]
        PROVE  \/ Settled(accepted[u][k])
               \/ \E j \in 1 .. (i - 1) : list'[j].msg = accepted[u][k]
    <3>1. list[i].msg = accepted[u][l]
      BY <2>2, <1>9
    <3>2. ASSUME NEW j \in 1 .. (i - 1), list[j].msg = accepted[u][k]
          PROVE  list'[j].msg = accepted[u][k]
      <4>1. j \in Place
        BY <1>0 DEF Place, TypeOK
      <4> QED  BY <3>2, <4>1, <1>9
    <3> QED  BY <3>1, <3>2 DEF Inv, InOrder
  <2>3. ASSUME m = accepted[u][l]
        PROVE  Settled(accepted[u][k]) \/ \E j \in Place : list'[j].msg = accepted[u][k]
    <3>1. accepted[u][k] \in S!Handed
      BY <1>0, HandedMember
    <3>2. SUFFICES ASSUME NEW v \in Thread, Holds(v), msg[v] = accepted[u][k]  PROVE FALSE
      BY <3>1, <1>9 DEF Inv, Somewhere
    <3>3. /\ msg[v] = accepted[v][Len(accepted[v])] /\ Len(accepted[v]) \in 1 .. Len(accepted[v])
          /\ m = accepted[t][Len(accepted[t])] /\ Len(accepted[t]) \in 1 .. Len(accepted[t])
      BY <3>2, <1>1, HandFacts DEF m
    <3>4. HandedOnce
      BY DEF Inv
    <3>5. v = u /\ k = Len(accepted[v])
      <4>1. accepted[u][k] = accepted[v][Len(accepted[v])]
        BY <3>2, <3>3
      <4> QED  BY <3>3, <3>4, <4>1 DEF HandedOnce
    <3> QED  BY <3>3, <3>5
  <2>4. n + 1 - 1 = n /\ Place = 1 .. n
    BY <1>3 DEF n, Place
  <2>5. ASSUME NEW i \in Place', i = n + 1, list'[i].msg = accepted[u][l]
        PROVE  \/ Settled(accepted[u][k])
               \/ \E j \in 1 .. (i - 1) : list'[j].msg = accepted[u][k]
    <3>1. m = accepted[u][l]
      BY <2>5, <1>10
    <3>2. i - 1 = n
      BY <2>5, <1>3
    <3> QED  BY <2>3, <2>4, <3>1, <3>2
  <2> QED  BY <2>1, <2>2, <2>5, <1>5
<1> QED  BY <1>4, <1>8, <1>11, <1>12, <1>13, <1>14 DEF Inv

\* The head of a list that is not empty.
LEMMA HeadType ==
  ASSUME TypeOK, list # <<>>
  PROVE  /\ Len(list) \in Nat /\ Len(list) > 0 /\ 1 \in Place
         /\ list[1] \in [msg : Msg, sent : 0 .. Chunks]
         /\ list[1].msg \in Msg /\ list[1].sent \in 0 .. Chunks
<1>1. list \in Seq([msg : Msg, sent : 0 .. Chunks])
  BY DEF TypeOK
<1>2. Len(list) \in Nat \ {0}
  BY <1>1, EmptySeq
<1>3. Len(list) \in Nat /\ Len(list) > 0 /\ 1 \in 1 .. Len(list)
  BY <1>2
<1>4. list[1] \in [msg : Msg, sent : 0 .. Chunks]
  BY <1>1, <1>3, ElementOfSeq
<1> QED  BY <1>3, <1>4 DEF Place

\* The owner writes of the head and stays in its loop: it either keeps the rest
\* at the head, or takes the head off next.
HeadStep ==
  LET m == list[1].msg IN
  /\ UNCHANGED <<msg, off, accepted, lost>>
  /\ pc[Owner] = "drain"
  /\ open' => open
  /\ \A n \in Msg : n # m => Written'[n] = Written[n] /\ frees'[n] = frees[n]
  /\ \E p \in {"check", "pop"} : pc' = [pc EXCEPT ![Owner] = p]
  /\ Len(list') = Len(list)
  /\ \A i \in Place : i # 1 => list'[i] = list[i]
  /\ list'[1].msg = m
  /\ \/ /\ pc'[Owner] = "check" /\ frees'[m] = 0 /\ list'[1].sent < Chunks
        /\ Written'[m] = 1 .. list'[1].sent
     \/ /\ pc'[Owner] = "pop" /\ frees'[m] \in {0, 1}
        /\ open' => Written'[m] = 1 .. Chunks

\* A HeadStep of the owner keeps the invariant.
LEMMA HeadStepInv ==
  ASSUME Inv, TypeOK', list # <<>>, HeadStep
  PROVE  Inv'
<1> DEFINE m == list[1].msg
<1>0. Chunks \in Nat \ {0} /\ TypeOK
  BY SendPathAssumption DEF Inv
<1>1. /\ pc[Owner] = "drain" /\ 1 \in Place /\ m \in Msg /\ m \in S!Handed /\ m \notin lost
      /\ frees[m] = 0 /\ Written[m] = 1 .. list[1].sent
      /\ list[1].sent \in 0 .. Chunks /\ list[1].sent < Chunks
      /\ \A i \in Place : i # 1 => list[i].msg # m
      /\ \A u \in Thread : Holds(u) => msg[u] # m
  <2>1. /\ Len(list) > 0 /\ 1 \in Place
        /\ list[1].msg \in Msg /\ list[1].sent \in 0 .. Chunks
    BY <1>0, HeadType
  <2>2. pc[Owner] = "drain" /\ ~Popping
    BY DEF Place, HeadStep, Popping
  <2> QED  BY <2>1, <2>2 DEF Inv, ListOK, HandOK
<1>2. /\ UNCHANGED <<msg, off, accepted, lost>> /\ S!Handed' = S!Handed /\ Place' = Place
      /\ \A n \in Msg : n # m => Written'[n] = Written[n] /\ frees'[n] = frees[n]
  BY DEF HeadStep, S!Handed, Place
<1>3. /\ open' => open
      /\ \A u \in Thread : Holds(u)' <=> Holds(u)
      /\ \A u \in Thread : Holds(u) => pc'[u] = pc[u]
      /\ \A u \in Thread : u # Owner => pc'[u] = pc[u]
      /\ pc'[Owner] \in {"check", "pop"}
  BY <1>0, <1>1 DEF HeadStep, Holds, TypeOK, Thread
<1>4. /\ \A i \in Place : i # 1 => list'[i] = list[i]
      /\ \A i \in Place : list'[i].msg = list[i].msg
      /\ Len(list') = Len(list) /\ Len(list) > 0
  BY <1>1 DEF HeadStep, Place
<1>5. ~WholeMsg(m) /\ S!Handed \subseteq Msg
  <2>1. Chunks \in 1 .. Chunks /\ Chunks \notin 1 .. list[1].sent
    BY <1>0, <1>1
  <2> QED  BY <1>1, <2>1 DEF WholeMsg, S!Handed
<1>6. \A n \in S!Handed : Settled(n) => Settled(n)'
  <2> SUFFICES ASSUME NEW n \in S!Handed, Settled(n)  PROVE Settled(n)'
    OBVIOUS
  <2>1. n # m /\ n \in Msg
    BY <1>1, <1>5 DEF Settled
  <2> QED  BY <1>2, <2>1 DEF Settled, WholeMsg
<1>7. ReleasedOnce'
  BY <1>1, <1>2 DEF Inv, ReleasedOnce, HeadStep
<1>8. HandedOnce' /\ Untouched'
  <2>1. HandedOnce'
    BY <1>2 DEF Inv, HandedOnce
  <2> QED  BY <1>1, <1>2, <2>1 DEF Inv, Untouched
<1>9. HandOK'
  <2> SUFFICES ASSUME NEW u \in Thread
               PROVE  /\ pc'[u] \notin {"append", "arm", "signal", "unflag"} => off[u] = 0
                      /\ Holds(u) =>
                          /\ Len(accepted[u]) > 0 /\ msg[u] = accepted[u][Len(accepted[u])]
                          /\ msg[u] \notin lost /\ frees'[msg[u]] = 0
                          /\ off[u] < Chunks /\ Written'[msg[u]] = 1 .. off[u]
                          /\ \A i \in Place : list'[i].msg # msg[u]
    BY <1>2, <1>3 DEF HandOK
  <2>1. pc'[u] \notin {"append", "arm", "signal", "unflag"} => off[u] = 0
    BY <1>1, <1>3 DEF Inv, HandOK
  <2>2. Holds(u) => msg[u] # m /\ msg[u] \in Msg
    BY <1>1, HandFacts
  <2> QED  BY <2>1, <2>2, <1>2, <1>4 DEF Inv, HandOK
<1>10. ListOK'
  <2>1. \A i \in Place : list'[i].msg \in S!Handed \ lost
    BY <1>4 DEF Inv, ListOK
  <2>2. \A i, j \in Place : list'[i].msg = list'[j].msg => i = j
    BY <1>4 DEF Inv, ListOK
  <2>3. ASSUME NEW i \in Place, i # 1
        PROVE  /\ list'[i].sent < Chunks
               /\ Written'[list'[i].msg] = 1 .. list'[i].sent
               /\ frees'[list'[i].msg] = 0
    <3>1. list'[i] = list[i] /\ list[i].msg # m /\ list[i].msg \in Msg
      BY <2>3, <1>1, <1>4, <1>5 DEF Inv, ListOK
    <3>2. /\ list[i].sent < Chunks /\ Written[list[i].msg] = 1 .. list[i].sent
          /\ frees[list[i].msg] = 0
      BY <2>3 DEF Inv, ListOK
    <3> QED  BY <3>1, <3>2, <1>2
  <2>4. ~Popping' =>
          /\ list'[1].sent < Chunks
          /\ Written'[list'[1].msg] = 1 .. list'[1].sent
          /\ frees'[list'[1].msg] = 0
    BY DEF HeadStep, Popping
  <2>5. Popping' /\ open' => Written'[list'[1].msg] = 1 .. Chunks
    BY DEF HeadStep, Popping
  <2> QED  BY <2>1, <2>2, <2>3, <2>4, <2>5, <1>2, <1>4 DEF ListOK, WholeMsg
<1>11. Somewhere'
  <2> SUFFICES ASSUME open', NEW n \in S!Handed
               PROVE  \/ Settled(n)'
                      \/ \E u \in Thread : Holds(u)' /\ msg[u] = n
                      \/ \E i \in Place : list'[i].msg = n
    BY <1>2 DEF Somewhere
  <2>1. \/ Settled(n)
        \/ \E u \in Thread : Holds(u) /\ msg[u] = n
        \/ \E i \in Place : list[i].msg = n
    BY <1>3 DEF Inv, Somewhere
  <2> QED  BY <2>1, <1>3, <1>4, <1>6
<1>12. InOrder'
  <2> SUFFICES ASSUME open', NEW u \in Thread,
                      NEW k \in 1 .. Len(accepted[u]), NEW l \in 1 .. Len(accepted[u]), k < l
               PROVE  /\ pc'[u] = "write" => Settled(accepted[u][k])'
                      /\ \A i \in Place : list'[i].msg = accepted[u][l] =>
                           \/ Settled(accepted[u][k])'
                           \/ \E j \in 1 .. (i - 1) : list'[j].msg = accepted[u][k]
    BY <1>2 DEF InOrder, Settled, WholeMsg
  <2>1. accepted[u][k] \in S!Handed
    BY <1>0, HandedMember
  <2>2. Settled(accepted[u][k]) => Settled(accepted[u][k])'
    BY <2>1, <1>2, <1>6 DEF Settled, WholeMsg
  <2>3. pc'[u] = "write" => pc[u] = "write"
    BY <1>3
  <2>4. /\ pc[u] = "write" => Settled(accepted[u][k])
        /\ \A i \in Place : list[i].msg = accepted[u][l] =>
             \/ Settled(accepted[u][k])
             \/ \E j \in 1 .. (i - 1) : list[j].msg = accepted[u][k]
    BY <1>3 DEF Inv, InOrder
  <2>5. \A i \in Place : \A j \in 1 .. (i - 1) : j \in Place
    BY <1>0 DEF Place, TypeOK
  <2> QED  BY <2>2, <2>3, <2>4, <2>5, <1>4
<1> QED  BY <1>7, <1>8, <1>9, <1>10, <1>11, <1>12 DEF Inv

\* The owner writes of the head.
LEMMA DrainWriteInv ==
  ASSUME Inv, DrainWrite
  PROVE  Inv'
<1> DEFINE h == list[1]
           m == h.msg
<1>0. Chunks \in Nat \ {0} /\ TypeOK
  BY SendPathAssumption DEF Inv
<1>1. /\ pc[Owner] = "drain" /\ list # <<>> /\ ~Popping
      /\ UNCHANGED <<flags, msg, off, stuck, gone, accepted, lost>>
  BY DEF DrainWrite, Popping
<1>2. /\ 1 \in Place /\ h \in [msg : Msg, sent : 0 .. Chunks]
      /\ m \in Msg /\ h.sent \in 0 .. Chunks /\ h.sent \in Nat
  BY <1>0, <1>1, HeadType
<1>3. /\ frees[m] = 0 /\ Written[m] = 1 .. h.sent /\ h.sent < Chunks
  BY <1>1, <1>2 DEF Inv, ListOK
<1> HIDE DEF h
<1>4. ASSUME NEW k \in Nat, h.sent + k <= Chunks, Put(m, h.sent, k)
      PROVE  /\ wire' \in Seq(Msg \X (1 .. Chunks))
             /\ Written'[m] = 1 .. (h.sent + k)
             /\ \A n \in Msg : n # m => Written'[n] = Written[n]
  <2> HIDE DEF m
  <2>1. Written \in [Msg -> SUBSET (1 .. Chunks)]
    BY <1>0, WrittenType
  <2>2. /\ wire' \in Seq(Msg \X (1 .. Chunks))
        /\ Written' = [Written EXCEPT ![m] = 1 .. (h.sent + k)]
    BY <1>0, <1>2, <1>3, <1>4, PutWritten
  <2> QED  BY <1>2, <2>1, <2>2
<1>5. CASE DrainWhole(h)
  <2>1. /\ open /\ Put(m, h.sent, Chunks - h.sent) /\ list' = list /\ open' = open
        /\ pc' = [pc EXCEPT ![Owner] = "pop"]
        /\ frees' = frees \/ frees' = [frees EXCEPT ![m] = frees[m] + 1]
    BY <1>5 DEF DrainWhole, Release, Goto
  <2>2. Chunks - h.sent \in Nat /\ h.sent + (Chunks - h.sent) = Chunks
    BY <1>0, <1>2
  <2>3. /\ wire' \in Seq(Msg \X (1 .. Chunks)) /\ Written'[m] = 1 .. Chunks
        /\ \A n \in Msg : n # m => Written'[n] = Written[n]
    BY <1>0, <1>4, <2>1, <2>2
  <2> HIDE DEF m
  <2>4. /\ frees' \in [Msg -> Nat] /\ frees'[m] \in {0, 1}
        /\ \A n \in Msg : n # m => frees'[n] = frees[n]
    BY <1>0, <1>2, <1>3, <2>1 DEF TypeOK
  <2>5. TypeOK'
    BY <1>0, <1>1, <2>1, <2>3, <2>4, SendPathAssumption DEF TypeOK, flags, Thread, OwnerPc
  <2>6. pc'[Owner] = "pop"
    BY <1>0, <2>1 DEF TypeOK, Thread
  <2>7. HeadStep
    BY <1>1, <2>1, <2>3, <2>4, <2>6 DEF HeadStep, h, m
  <2> QED  BY <1>1, <2>5, <2>7, HeadStepInv
<1>6. CASE DrainPart(h)
  <2>1. PICK k \in 0 .. (Chunks - h.sent - 1) :
          /\ Put(m, h.sent, k)
          /\ list' = [list EXCEPT ![1].sent = @ + k]
          /\ pc' = [pc EXCEPT ![Owner] = "check"]
          /\ UNCHANGED <<open, frees>>
    BY <1>6 DEF DrainPart, Goto
  <2>2. k \in Nat /\ h.sent + k < Chunks /\ h.sent + k <= Chunks /\ h.sent + k \in 0 .. Chunks
    BY <1>0, <1>2
  <2>3. /\ wire' \in Seq(Msg \X (1 .. Chunks)) /\ Written'[m] = 1 .. (h.sent + k)
        /\ \A n \in Msg : n # m => Written'[n] = Written[n]
    BY <1>4, <2>1, <2>2
  <2> DEFINE v == [h EXCEPT !.sent = h.sent + k]
  <2>4. /\ v \in [msg : Msg, sent : 0 .. Chunks] /\ v.msg = m /\ v.sent = h.sent + k
    BY <1>2, <2>2
  <2>5. list' = [list EXCEPT ![1] = v]
    BY <2>1 DEF h
  <2> HIDE DEF v, m
  <2>6. /\ list' \in Seq([msg : Msg, sent : 0 .. Chunks])
        /\ Len(list') = Len(list) /\ list'[1] = v
        /\ \A i \in Place : i # 1 => list'[i] = list[i]
    <3>1. list \in Seq([msg : Msg, sent : 0 .. Chunks]) /\ 1 \in 1 .. Len(list)
      BY <1>0, <1>2 DEF TypeOK, Place
    <3> DEFINE T == [msg : Msg, sent : 0 .. Chunks]
    <3> HIDE DEF T
    <3>2. list \in Seq(T) /\ v \in T
      BY <2>4, <3>1 DEF T
    <3>3. list' \in Seq(T) /\ Len(list') = Len(list)
      BY <2>5, <3>1, <3>2, ExceptSeq
    <3>4. \A i \in 1 .. Len(list) : list'[i] = IF i = 1 THEN v ELSE list[i]
      BY <2>5, <3>1, <3>2, ExceptSeq
    <3> QED  BY <3>1, <3>3, <3>4 DEF T, Place
  <2>7. TypeOK'
    BY <1>0, <1>1, <2>1, <2>3, <2>6, SendPathAssumption DEF TypeOK, flags, Thread, OwnerPc
  <2>8. pc'[Owner] = "check"
    BY <1>0, <2>1 DEF TypeOK, Thread
  <2>9. HeadStep
    BY <1>1, <1>3, <2>1, <2>2, <2>3, <2>4, <2>6, <2>8 DEF HeadStep, h, m
  <2> QED  BY <1>1, <2>7, <2>9, HeadStepInv
<1>7. CASE DrainError(h)
  <2>1. PICK k \in 0 .. (Chunks - h.sent - 1) :
          /\ Put(m, h.sent, k) /\ open' = FALSE /\ list' = list
          /\ frees' = [frees EXCEPT ![m] = frees[m] + 1]
          /\ pc' = [pc EXCEPT ![Owner] = "pop"]
    BY <1>7 DEF DrainError, Goto, Release
  <2>2. k \in Nat /\ h.sent + k <= Chunks
    BY <1>0, <1>2
  <2>3. /\ wire' \in Seq(Msg \X (1 .. Chunks))
        /\ \A n \in Msg : n # m => Written'[n] = Written[n]
    BY <1>4, <2>1, <2>2
  <2> HIDE DEF m
  <2>4. /\ frees' \in [Msg -> Nat] /\ frees'[m] \in {0, 1}
        /\ \A n \in Msg : n # m => frees'[n] = frees[n]
    BY <1>0, <1>2, <1>3, <2>1 DEF TypeOK
  <2>5. TypeOK'
    BY <1>0, <1>1, <2>1, <2>3, <2>4, SendPathAssumption DEF TypeOK, flags, Thread, OwnerPc
  <2>6. pc'[Owner] = "pop"
    BY <1>0, <2>1 DEF TypeOK, Thread
  <2>7. HeadStep
    BY <1>1, <2>1, <2>3, <2>4, <2>6 DEF HeadStep, h, m
  <2> QED  BY <1>1, <2>5, <2>7, HeadStepInv
<1> QED  BY <1>5, <1>6, <1>7 DEF DrainWrite, h

\* The head leaves the list: while the connection is open it has left whole.
LEMMA DrainPopInv ==
  ASSUME Inv, DrainPop
  PROVE  Inv'
<1>0. TypeOK
  BY DEF Inv
<1>1. /\ Popping /\ list' = Tail(list) /\ pc' = [pc EXCEPT ![Owner] = "drain"]
      /\ UNCHANGED <<open, flags, msg, off, stuck, frees, gone, accepted, wire, lost>>
  BY DEF DrainPop, Popping, Goto
<1>2. Len(list) > 0 /\ (open => WholeMsg(list[1].msg))
  BY <1>1 DEF Inv, ListOK
<1>3. /\ list' \in Seq([msg : Msg, sent : 0 .. Chunks]) /\ Len(list) \in Nat
      /\ Len(list') = Len(list) - 1
      /\ \A i \in 1 .. Len(list') : list'[i] = list[i + 1]
  <2>1. list \in Seq([msg : Msg, sent : 0 .. Chunks]) /\ list # <<>>
    BY <1>0, <1>2 DEF TypeOK
  <2> DEFINE T == [msg : Msg, sent : 0 .. Chunks]
  <2> HIDE DEF T
  <2>2. list \in Seq(T)
    BY <2>1 DEF T
  <2>3. Tail(list) \in Seq(T) /\ Len(Tail(list)) = Len(list) - 1
    BY <2>1, <2>2, HeadTailProperties
  <2>4. \A i \in 1 .. Len(Tail(list)) : Tail(list)[i] = list[i + 1]
    BY <2>1, <2>2, HeadTailProperties
  <2> QED  BY <2>2, <2>3, <2>4, <1>1 DEF T
<1>4. /\ \A i \in Place' : i \in Nat /\ i + 1 \in Place /\ i + 1 # 1 /\ list'[i] = list[i + 1]
      /\ \A i \in Place : i # 1 => i - 1 \in Place' /\ list'[i - 1] = list[i]
  BY <1>2, <1>3 DEF Place
<1>5. TypeOK'
  BY <1>0, <1>1, <1>3, SendPathAssumption DEF TypeOK, flags, Thread, OwnerPc
<1>6. Written' = Written /\ S!Handed' = S!Handed
  BY <1>1 DEF Written, S!Out, S!Handed
<1>7. /\ \A u \in Thread : /\ Holds(u)' <=> Holds(u)
                           /\ Holds(u) => pc'[u] = pc[u]
                           /\ u # Owner => pc'[u] = pc[u]
      /\ pc'[Owner] = "drain" /\ ~Popping'
  BY <1>0, <1>1 DEF Holds, Popping, TypeOK, Thread
<1>8. ReleasedOnce' /\ HandedOnce' /\ Untouched'
  BY <1>1, <1>6 DEF Inv, ReleasedOnce, HandedOnce, Untouched
<1>9. HandOK'
  <2> SUFFICES ASSUME NEW u \in Thread
               PROVE  /\ pc'[u] \notin {"append", "arm", "signal", "unflag"} => off[u] = 0
                      /\ Holds(u) =>
                          /\ Len(accepted[u]) > 0 /\ msg[u] = accepted[u][Len(accepted[u])]
                          /\ msg[u] \notin lost /\ frees[msg[u]] = 0
                          /\ off[u] < Chunks /\ Written[msg[u]] = 1 .. off[u]
                          /\ \A i \in Place' : list'[i].msg # msg[u]
    BY <1>1, <1>6, <1>7 DEF HandOK
  <2>1. pc'[u] \notin {"append", "arm", "signal", "unflag"} => off[u] = 0
    BY <1>1, <1>7 DEF Inv, HandOK, Popping
  <2> QED  BY <2>1, <1>4 DEF Inv, HandOK
<1>10. ListOK'
  <2>1. \A i, j \in Place' : list'[i].msg = list'[j].msg => i = j
    <3> SUFFICES ASSUME NEW i \in Place', NEW j \in Place', list'[i].msg = list'[j].msg
                 PROVE  i = j
      OBVIOUS
    <3>1. i + 1 = j + 1
      BY <1>4 DEF Inv, ListOK
    <3> QED  BY <3>1, <1>4
  <2>2. \A i \in Place' : /\ list'[i].msg \in S!Handed \ lost
                          /\ list'[i].sent < Chunks
                          /\ Written[list'[i].msg] = 1 .. list'[i].sent
                          /\ frees[list'[i].msg] = 0
    BY <1>4 DEF Inv, ListOK
  <2> QED  BY <2>1, <2>2, <1>1, <1>6, <1>7 DEF ListOK
<1>11. Somewhere'
  <2> SUFFICES ASSUME open, NEW x \in S!Handed
               PROVE  \/ Settled(x)
                      \/ \E u \in Thread : Holds(u) /\ msg[u] = x
                      \/ \E i \in Place' : list'[i].msg = x
    BY <1>1, <1>6, <1>7 DEF Somewhere, Settled, WholeMsg
  <2>1. ASSUME NEW i \in Place, list[i].msg = x
        PROVE  Settled(x) \/ \E j \in Place' : list'[j].msg = x
    <3>1. CASE i = 1
      BY <2>1, <3>1, <1>2 DEF Settled
    <3>2. CASE i # 1
      BY <2>1, <3>2, <1>4
    <3> QED  BY <3>1, <3>2
  <2> QED  BY <2>1 DEF Inv, Somewhere
<1>12. InOrder'
  <2> SUFFICES ASSUME open, NEW u \in Thread,
                      NEW k \in 1 .. Len(accepted[u]), NEW l \in 1 .. Len(accepted[u]), k < l
               PROVE  /\ pc'[u] = "write" => Settled(accepted[u][k])
                      /\ \A i \in Place' : list'[i].msg = accepted[u][l] =>
                           \/ Settled(accepted[u][k])
                           \/ \E j \in 1 .. (i - 1) : list'[j].msg = accepted[u][k]
    <3>1. open' = open /\ accepted' = accepted /\ lost' = lost
      BY <1>1
    <3> QED  BY <3>1, <1>6 DEF InOrder, Settled, WholeMsg
  <2>1. pc'[u] = "write" => Settled(accepted[u][k])
    BY <1>7 DEF Inv, InOrder
  <2>2. ASSUME NEW i \in Place', list'[i].msg = accepted[u][l], ~Settled(accepted[u][k])
        PROVE  \E j \in 1 .. (i - 1) : list'[j].msg = accepted[u][k]
    <3>1. i \in Nat /\ i + 1 \in Place /\ list[i + 1].msg = accepted[u][l]
      BY <2>2, <1>4
    <3>2. PICK j \in 1 .. ((i + 1) - 1) : list[j].msg = accepted[u][k]
      BY <2>2, <3>1 DEF Inv, InOrder
    <3>3. j # 1
      BY <2>2, <3>2, <1>2 DEF Settled
    <3>4. j \in Place /\ j - 1 \in 1 .. (i - 1)
      BY <3>1, <3>2, <3>3, <1>3 DEF Place
    <3> QED  BY <3>2, <3>3, <3>4, <1>4
  <2> QED  BY <2>1, <2>2
<1> QED  BY <1>5, <1>8, <1>9, <1>10, <1>11, <1>12 DEF Inv

\* The channel's memory is released with every message that waits.
LEMMA FreeChannelInv ==
  ASSUME Inv, FreeChannel
  PROVE  Inv'
<1> DEFINE At(x) == {i \in DOMAIN list : list[i].msg = x}
<1>0. TypeOK
  BY DEF Inv
<1>1. /\ ~open /\ open' = open /\ list' = <<>> /\ \A t \in Thread : pc[t] = "idle"
      /\ gone' = TRUE /\ bSendEvent' = FALSE
      /\ UNCHANGED <<enabled, pollout, events, pc, msg, off, stuck, accepted, wire, lost>>
      /\ frees' = [x \in Msg |-> frees[x] + Cardinality(At(x))]
  BY DEF FreeChannel, local
<1>2. ~Popping /\ \A t \in Thread : ~Holds(t)
  BY <1>1 DEF Popping, Holds, Thread
<1>3. DOMAIN list = Place
  BY <1>0 DEF TypeOK, Place
<1>4. ASSUME NEW x \in Msg
      PROVE  /\ Cardinality(At(x)) \in {0, 1}
             /\ Cardinality(At(x)) # 0 => frees[x] = 0 /\ x \in S!Handed
  <2>1. CASE At(x) = {}
    BY <2>1, FS_EmptySet
  <2>2. CASE At(x) # {}
    <3>1. PICK i \in Place : list[i].msg = x
      BY <2>2, <1>3
    <3>2. At(x) = {i}
      BY <3>1, <1>3 DEF Inv, ListOK
    <3>3. frees[x] = 0 /\ x \in S!Handed
      BY <3>1, <1>2 DEF Inv, ListOK
    <3> HIDE DEF At
    <3> QED  BY <3>2, <3>3, FS_Singleton
  <2> QED  BY <2>1, <2>2
<1> HIDE DEF At
<1>5. /\ frees' \in [Msg -> Nat] /\ \A x \in Msg : frees'[x] <= 1
      /\ \A x \in Msg : x \notin S!Handed => frees'[x] = 0
  <2>1. ASSUME NEW x \in Msg
        PROVE  /\ frees'[x] = frees[x] + Cardinality(At(x)) /\ frees[x] \in {0, 1}
               /\ frees[x] + Cardinality(At(x)) \in Nat /\ frees'[x] <= 1
               /\ x \notin S!Handed => frees'[x] = 0
    <3>1. frees'[x] = frees[x] + Cardinality(At(x))
      BY <1>1
    <3>2. frees[x] \in {0, 1} /\ (x \notin S!Handed => frees[x] = 0)
      BY <1>0 DEF Inv, TypeOK, ReleasedOnce, Untouched
    <3> QED  BY <3>1, <3>2, <1>4
  <2> QED  BY <2>1, <1>1
<1>6. list' \in Seq([msg : Msg, sent : 0 .. Chunks]) /\ Place' = {}
  BY <1>1 DEF Place
<1>7. TypeOK'
  BY <1>0, <1>1, <1>5, <1>6 DEF TypeOK
<1>8. Written' = Written /\ S!Handed' = S!Handed
  BY <1>1 DEF Written, S!Out, S!Handed
<1>9. ReleasedOnce' /\ HandedOnce' /\ Untouched'
  BY <1>1, <1>5, <1>8 DEF Inv, ReleasedOnce, HandedOnce, Untouched
<1>10. HandOK'
  BY <1>1, <1>2 DEF Inv, HandOK, Holds
<1>11. ListOK' /\ Somewhere' /\ InOrder'
  BY <1>1, <1>2, <1>6 DEF ListOK, Somewhere, InOrder, Popping
<1> QED  BY <1>7, <1>9, <1>10, <1>11 DEF Inv

\* The local state of a thread that leaves its call, or goes on in it.
LocalType ==
  /\ pc \in [Thread -> SenderPc \cup OwnerPc]
  /\ \A t \in Sender : pc[t] \in SenderPc
  /\ pc[Owner] \in OwnerPc
  /\ msg \in [Thread -> Msg \cup {NoMsg}]
  /\ off \in [Thread -> 0 .. Chunks]

\* A thread that leaves its call has the local state of an idle one.
LEMMA LeaveType ==
  ASSUME TypeOK, NEW t \in Thread, Leave(t)
  PROVE  LocalType'
<1>1. pc' \in [Thread -> SenderPc \cup OwnerPc]
  BY DEF TypeOK, Leave, Goto, SenderPc
<1>2. \A u \in Thread : pc'[u] = IF u = t THEN "idle" ELSE pc[u]
  BY DEF TypeOK, Leave, Goto
<1>3. (\A u \in Sender : pc'[u] \in SenderPc) /\ pc'[Owner] \in OwnerPc
  BY <1>2 DEF TypeOK, Thread, SenderPc, OwnerPc
<1>4. msg' \in [Thread -> Msg \cup {NoMsg}] /\ off' \in [Thread -> 0 .. Chunks]
  BY SendPathAssumption DEF TypeOK, Leave
<1> QED  BY <1>1, <1>3, <1>4 DEF LocalType

\* A thread that goes on to one of its own steps keeps its message.
LEMMA GotoType ==
  ASSUME TypeOK, NEW t \in Thread, NEW p, Goto(t, p), UNCHANGED <<msg, off>>,
         (t = Owner /\ p \in OwnerPc) \/ (t # Owner /\ p \in SenderPc)
  PROVE  LocalType'
<1>1. pc' \in [Thread -> SenderPc \cup OwnerPc]
  BY DEF TypeOK, Goto
<1>2. \A u \in Thread : pc'[u] = IF u = t THEN p ELSE pc[u]
  BY DEF TypeOK, Goto
<1>3. (\A u \in Sender : pc'[u] \in SenderPc) /\ pc'[Owner] \in OwnerPc
  BY <1>2, SendPathAssumption DEF TypeOK, Thread
<1>4. msg' \in [Thread -> Msg \cup {NoMsg}] /\ off' \in [Thread -> 0 .. Chunks]
  BY DEF TypeOK
<1> QED  BY <1>1, <1>3, <1>4 DEF LocalType

\* The steps that only touch the flags, and those between two writes.
LEMMA QuietSteps ==
  ASSUME Inv, NEW t \in Thread,
         \/ Arm(t) \/ Signal(t) \/ SignalFails(t) \/ Unflag(t)
         \/ HandleEvent \/ EventDone \/ DrainBegin \/ DrainEmpty \/ DrainCheck \/ Disarm
         \/ CloseChannel
  PROVE  TypeOK' /\ Quiet
<1>0. Chunks \in Nat \ {0} /\ Owner \notin Sender /\ TypeOK
  BY SendPathAssumption DEF Inv
<1>1. \A u \in Thread : pc[u] \notin {"append", "arm", "signal", "unflag"} => off[u] = 0
  BY DEF Inv, HandOK
<1>2. CASE Arm(t)
  <2>1. /\ pc[t] = "arm" /\ UNCHANGED <<open, list, stuck, frees, gone, accepted, wire, lost>>
        /\ enabled' \in BOOLEAN /\ pollout' \in BOOLEAN
        /\ UNCHANGED <<bSendEvent, events>>
    BY <1>0, <1>2 DEF Arm, ArmOwner, flags, TypeOK
  <2>2. \/ t # Owner /\ pc' = [pc EXCEPT ![t] = "signal"] /\ UNCHANGED <<msg, off>>
        \/ Leave(t)
    BY <1>2 DEF Arm, Goto
  <2>3. TypeOK'
    <3>1. LocalType'
      BY <1>0, <2>2, LeaveType, GotoType DEF Goto, SenderPc
    <3> QED  BY <1>0, <2>1, <3>1 DEF TypeOK, LocalType
  <2>4. Quiet
    BY <1>0, <1>1, <2>1, <2>2 DEF TypeOK, Leave, Goto, Quiet, Holds, Popping, Thread
  <2> QED  BY <2>3, <2>4
<1>3. CASE Signal(t)
  <2>1. /\ pc[t] = "signal" /\ t \in Sender
        /\ UNCHANGED <<open, list, enabled, pollout, bSendEvent, frees, gone, accepted, wire, lost>>
        /\ events' \in Nat /\ stuck' \subseteq Sender
    BY <1>0, <1>3 DEF Signal, TypeOK, Thread, OwnerPc
  <2>2. \/ pc' = [pc EXCEPT ![t] = "unflag"] /\ UNCHANGED <<msg, off>>
        \/ Leave(t)
    BY <1>3 DEF Signal, Goto
  <2>3. TypeOK'
    <3>1. LocalType'
      BY <1>0, <2>1, <2>2, LeaveType, GotoType DEF Goto, SenderPc
    <3> QED  BY <1>0, <2>1, <3>1 DEF TypeOK, LocalType
  <2>4. Quiet
    BY <1>0, <1>1, <2>1, <2>2 DEF TypeOK, Leave, Goto, Quiet, Holds, Popping, Thread
  <2> QED  BY <2>3, <2>4
<1>4. CASE SignalFails(t)
  BY <1>0, <1>1, <1>4 DEF SignalFails, Leave, Goto, flags, TypeOK, Quiet, Holds, Popping,
     Thread, SenderPc, OwnerPc, NoMsg
<1>5. CASE Unflag(t)
  <2>1. TypeOK'
    <3>1. LocalType'
      BY <1>0, <1>5, LeaveType DEF Unflag
    <3> QED  BY <1>0, <1>5, <3>1 DEF Unflag, TypeOK, LocalType
  <2>2. Quiet
    BY <1>0, <1>1, <1>5 DEF Unflag, Leave, Goto, TypeOK, Quiet, Holds, Popping, Thread
  <2> QED  BY <2>1, <2>2
<1>6. CASE HandleEvent
  <2>1. /\ events' \in Nat /\ enabled' \in BOOLEAN /\ pollout' \in BOOLEAN
        /\ pc[Owner] = "idle" /\ pc' = [pc EXCEPT ![Owner] = "event"]
        /\ UNCHANGED <<open, list, bSendEvent, msg, off, stuck, frees, gone, accepted, wire, lost>>
    <3>1. events' \in Nat
      <4>1. events \in Nat /\ events > 0 /\ events' = events - 1
        BY <1>0, <1>6 DEF HandleEvent, TypeOK
      <4> QED  BY <4>1
    <3>2. enabled' \in BOOLEAN /\ pollout' \in BOOLEAN
      BY <1>0, <1>6 DEF HandleEvent, TypeOK
    <3> QED  BY <1>6, <3>1, <3>2 DEF HandleEvent, Goto
  <2>2. TypeOK'
    BY <1>0, <2>1 DEF TypeOK, Thread, SenderPc, OwnerPc
  <2>3. Quiet
    BY <1>0, <1>1, <2>1 DEF TypeOK, Quiet, Holds, Popping, Thread
  <2> QED  BY <2>2, <2>3
<1>7. CASE EventDone
  BY <1>0, <1>1, <1>7 DEF EventDone, Leave, Goto, TypeOK, Quiet, Holds, Popping,
     Thread, SenderPc, OwnerPc, NoMsg
<1>8. CASE DrainBegin
  BY <1>0, <1>1, <1>8 DEF DrainBegin, Goto, flags, TypeOK, Quiet, Holds, Popping,
     Thread, SenderPc, OwnerPc
<1>9. CASE DrainEmpty
  BY <1>0, <1>1, <1>9 DEF DrainEmpty, Goto, flags, TypeOK, Quiet, Holds, Popping,
     Thread, SenderPc, OwnerPc
<1>10. CASE DrainCheck
  BY <1>0, <1>1, <1>10, ZenonT(30) DEF DrainCheck, Leave, Goto, TypeOK, Quiet, Holds, Popping,
     Thread, SenderPc, OwnerPc, NoMsg
<1>11. CASE Disarm
  BY <1>0, <1>1, <1>11 DEF Disarm, Leave, Goto, TypeOK, Quiet, Holds, Popping,
     Thread, SenderPc, OwnerPc, NoMsg
<1>12. CASE CloseChannel
  BY <1>0, <1>1, <1>12 DEF CloseChannel, flags, local, TypeOK, Quiet, Holds, Popping
<1> QED  BY <1>2, <1>3, <1>4, <1>5, <1>6, <1>7, <1>8, <1>9, <1>10, <1>11, <1>12

\* Every step keeps the invariant.
LEMMA NextInv == Inv /\ [Next]_vars => Inv'
<1> SUFFICES ASSUME Inv, [Next]_vars  PROVE Inv'
  OBVIOUS
<1>1. ASSUME NEW t \in Thread, NEW m \in Msg, SendMsg(t, m)  PROVE Inv'
  BY <1>1, SendMsgInv
<1>2. ASSUME NEW t \in Thread, SenderStep(t)  PROVE Inv'
  BY <1>2, TrySendInv, AppendMsgInv, AppendFailsInv, QuietSteps, QuietInv DEF SenderStep
<1>3. Owner \in Thread
  BY DEF Thread
<1>4. CASE OwnerStep
  BY <1>3, <1>4, DrainWriteInv, DrainPopInv, QuietSteps, QuietInv DEF OwnerStep
<1>5. CASE CloseChannel
  BY <1>3, <1>5, QuietSteps, QuietInv
<1>6. CASE FreeChannel
  BY <1>6, FreeChannelInv
<1>7. CASE UNCHANGED vars
  <2>1. TypeOK'
    BY <1>7 DEF Inv, TypeOK, vars, flags, local
  <2>2. Quiet
    BY <1>7 DEF Inv, HandOK, Quiet, Holds, Popping, vars, flags, local
  <2> QED  BY <2>1, <2>2, QuietInv
<1> QED  BY <1>1, <1>2, <1>4, <1>5, <1>6, <1>7 DEF Next

\* Every state of the send path satisfies the invariant.
THEOREM SendPathInvariant == Spec => []Inv
<1> QED  BY InitInv, NextInv, PTL DEF Spec

-----------------------------------------------------------------------------
(* The properties.                                                          *)

\* The variables keep their types.
THEOREM TypeCorrect == Spec => []TypeOK
<1>1. Inv => TypeOK
  BY DEF Inv
<1> QED  BY <1>1, SendPathInvariant, PTL

\* A message buffer is released at most once, by whichever of the sender, the drain
\* and the channel's release comes first.
THEOREM NoDoubleRelease == Spec => []ReleasedOnce
<1>1. Inv => ReleasedOnce
  BY DEF Inv
<1> QED  BY <1>1, SendPathInvariant, PTL

\* In every state that satisfies the invariant a message handed over has left whole
\* or is in exactly one place with the bytes recorded as sent those the socket took.
LEMMA InvAccounted == Inv => Accounted
<1> SUFFICES ASSUME Inv, open, NEW m \in S!Handed \ lost
             PROVE  \/ S!Whole(m) /\ InHand(m) = {} /\ Waiting(m) = {}
                    \/ \E t \in Thread : /\ InHand(m) = {t} /\ Waiting(m) = {}
                                          /\ S!Out(m) = 1 .. off[t] /\ frees[m] = 0
                    \/ \E i \in DOMAIN list : /\ Waiting(m) = {i} /\ InHand(m) = {}
                                               /\ S!Out(m) = 1 .. list[i].sent /\ frees[m] = 0
  BY DEF Accounted
<1>0. TypeOK /\ m \in Msg /\ Chunks \in Nat \ {0}
  BY SendPathAssumption DEF Inv, S!Handed
<1>1. DOMAIN list = Place
  BY <1>0 DEF TypeOK, Place
<1>2. S!Out(m) = Written[m]
  BY <1>0 DEF Written
<1>3. InHand(m) = {t \in Thread : msg[t] = m /\ Holds(t)}
  BY DEF InHand, Holds
<1>4. Waiting(m) = {i \in Place : list[i].msg = m /\ ~(i = 1 /\ Popping)}
  BY <1>1 DEF Waiting, Popping
<1>5. \A n \in Nat : n < Chunks => 1 .. n # 1 .. Chunks
  <2>1. \A n \in Nat : n < Chunks => Chunks \in 1 .. Chunks /\ Chunks \notin 1 .. n
    BY <1>0
  <2> QED  BY <2>1
<1>6. CASE S!Whole(m)
  <2>1. \A t \in Thread : Holds(t) => msg[t] # m
    <3>1. ASSUME NEW t \in Thread, Holds(t), msg[t] = m  PROVE FALSE
      <4>1. off[t] \in Nat /\ off[t] < Chunks /\ Written[m] = 1 .. off[t]
        BY <1>0, <3>1 DEF Inv, HandOK, TypeOK
      <4> QED  BY <1>2, <1>5, <1>6, <4>1 DEF S!Whole
    <3> QED  BY <3>1
  <2>2. \A i \in Place : list[i].msg = m => i = 1 /\ Popping
    <3>1. ASSUME NEW i \in Place, list[i].msg = m, ~(i = 1 /\ Popping)  PROVE FALSE
      <4>1. list[i].sent < Chunks /\ Written[m] = 1 .. list[i].sent
        BY <3>1 DEF Inv, ListOK
      <4>2. list[i].sent \in Nat
        <5>1. list[i] \in [msg : Msg, sent : 0 .. Chunks]
          BY <1>0, ElementOfSeq DEF TypeOK, Place
        <5> QED  BY <1>0, <5>1
      <4> QED  BY <1>2, <1>5, <1>6, <4>1, <4>2 DEF S!Whole
    <3> QED  BY <3>1
  <2> QED  BY <1>3, <1>4, <1>6, <2>1, <2>2
<1>7. ASSUME NEW t \in Thread, Holds(t), msg[t] = m
      PROVE  InHand(m) = {t} /\ Waiting(m) = {} /\ S!Out(m) = 1 .. off[t] /\ frees[m] = 0
  <2>1. InHand(m) = {t}
    BY <1>3, <1>7, HandFacts
  <2>2. Waiting(m) = {}
    BY <1>4, <1>7 DEF Inv, HandOK
  <2> QED  BY <1>2, <1>7, <2>1, <2>2 DEF Inv, HandOK
<1>8. ASSUME NEW i \in Place, list[i].msg = m, ~S!Whole(m)
      PROVE  /\ Waiting(m) = {i} /\ InHand(m) = {}
             /\ S!Out(m) = 1 .. list[i].sent /\ frees[m] = 0
  <2>1. ~(i = 1 /\ Popping)
    BY <1>2, <1>8 DEF Inv, ListOK, WholeMsg, S!Whole
  <2>2. Waiting(m) = {i}
    BY <1>4, <1>8, <2>1 DEF Inv, ListOK
  <2>3. InHand(m) = {}
    BY <1>3, <1>8 DEF Inv, HandOK
  <2> QED  BY <1>2, <1>8, <2>1, <2>2, <2>3 DEF Inv, ListOK
<1>9. \/ S!Whole(m)
      \/ \E t \in Thread : Holds(t) /\ msg[t] = m
      \/ \E i \in Place : list[i].msg = m
  BY <1>2 DEF Inv, Somewhere, Settled, WholeMsg, S!Whole
<1> QED  BY <1>1, <1>6, <1>7, <1>8, <1>9

\* No message is forgotten or held twice between the direct write, the list and the
\* drain, whichever thread gets in between.
THEOREM EveryMessageAccounted == Spec => []Accounted
<1> QED  BY InvAccounted, SendPathInvariant, PTL

-----------------------------------------------------------------------------
(* SendPath implements Stream.                                              *)

\* A step of Stream, or one it does not see.
StreamStep == [S!SNext]_(S!svars)

\* What a thread is about to write is the oldest of what it handed over.
LEMMA HandOldest ==
  ASSUME Inv, open, NEW t \in Thread, pc[t] = "write"
  PROVE  S!Oldest(t, msg[t])
<1>0. TypeOK /\ Chunks \in Nat \ {0} /\ Holds(t)
  BY SendPathAssumption DEF Inv, Holds
<1>1. /\ msg[t] = accepted[t][Len(accepted[t])] /\ Len(accepted[t]) \in 1 .. Len(accepted[t])
      /\ DOMAIN accepted[t] = 1 .. Len(accepted[t]) /\ msg[t] \in Msg /\ msg[t] \notin lost
  BY <1>0, HandFacts DEF Inv, HandOK, TypeOK
<1>2. ~S!Whole(msg[t])
  <2>1. off[t] \in Nat /\ off[t] < Chunks /\ Written[msg[t]] = 1 .. off[t]
    BY <1>0 DEF Inv, HandOK, TypeOK
  <2>2. Chunks \in 1 .. Chunks /\ Chunks \notin 1 .. off[t]
    BY <1>0, <2>1
  <2> QED  BY <1>1, <2>1, <2>2 DEF Written, S!Whole
<1>3. ASSUME NEW j \in 1 .. (Len(accepted[t]) - 1)
      PROVE  S!Whole(accepted[t][j]) \/ accepted[t][j] \in lost
  <2>1. j \in 1 .. Len(accepted[t]) /\ j < Len(accepted[t])
    BY <1>1
  <2>2. Settled(accepted[t][j])
    BY <1>1, <2>1 DEF Inv, InOrder
  <2>3. accepted[t][j] \in Msg
    BY <1>0, <2>1, HandedMember
  <2> QED  BY <2>2, <2>3 DEF Settled, WholeMsg, Written, S!Whole
<1> QED  BY <1>1, <1>2, <1>3 DEF S!Oldest

\* So is, for the thread that handed it over, what the owner writes from the list.
LEMMA HeadOldest ==
  ASSUME Inv, open, list # <<>>, ~Popping
  PROVE  \E t \in Thread : S!Oldest(t, list[1].msg)
<1> DEFINE m == list[1].msg
<1>0. TypeOK /\ Chunks \in Nat \ {0}
  BY SendPathAssumption DEF Inv
<1>1. 1 \in Place /\ m \in Msg /\ list[1].sent \in 0 .. Chunks
  BY <1>0, HeadType
<1>2. m \in S!Handed /\ m \notin lost /\ list[1].sent < Chunks /\ Written[m] = 1 .. list[1].sent
  BY <1>1 DEF Inv, ListOK
<1>3. ~S!Whole(m)
  <2>1. Chunks \in 1 .. Chunks /\ Chunks \notin 1 .. list[1].sent
    BY <1>0, <1>1, <1>2
  <2> QED  BY <1>1, <1>2, <2>1 DEF Written, S!Whole
<1> HIDE DEF m
<1>4. PICK t \in Thread : \E i \in 1 .. Len(accepted[t]) : accepted[t][i] = m
  BY <1>0, <1>2, HandedMember
<1>5. PICK i \in 1 .. Len(accepted[t]) : accepted[t][i] = m
  BY <1>4
<1>6. DOMAIN accepted[t] = 1 .. Len(accepted[t]) /\ Len(accepted[t]) \in Nat
  BY <1>0 DEF TypeOK
<1>7. ASSUME NEW j \in 1 .. (i - 1)
      PROVE  S!Whole(accepted[t][j]) \/ accepted[t][j] \in lost
  <2>1. j \in 1 .. Len(accepted[t]) /\ j < i
    BY <1>5, <1>6
  <2>2. Settled(accepted[t][j])
    <3>1. \/ Settled(accepted[t][j])
          \/ \E q \in 1 .. (1 - 1) : list[q].msg = accepted[t][j]
      BY <1>1, <1>5, <2>1 DEF Inv, InOrder, m
    <3> QED  BY <3>1
  <2>3. accepted[t][j] \in Msg
    BY <1>0, <2>1, HandedMember
  <2> QED  BY <2>2, <2>3 DEF Settled, WholeMsg, Written, S!Whole
<1> QED  BY <1>2, <1>3, <1>5, <1>6, <1>7 DEF S!Oldest, m

\* A write of no piece leaves the wire as it is.
LEMMA PutNothing ==
  ASSUME TypeOK, NEW m \in Msg, NEW a \in Nat, Put(m, a, 0)
  PROVE  wire' = wire
<1>1. S!Piece(m, a, 0) = <<>>
  BY DEF S!Piece
<1>2. wire \in Seq(Msg \X (1 .. Chunks))
  BY DEF TypeOK
<1> QED  BY <1>1, <1>2, ConcatEmptySeq DEF Put

\* A write of the next pieces of a thread's oldest message is a step of Stream,
\* whether the connection survives it or not.
LEMMA PutStep ==
  ASSUME Inv, open, open' \in BOOLEAN, UNCHANGED <<accepted, lost>>,
         NEW t \in Thread, NEW m \in Msg, S!Oldest(t, m),
         NEW a \in Nat, NEW k \in Nat, a + k <= Chunks,
         Written[m] = 1 .. a, Put(m, a, k)
  PROVE  StreamStep
<1>0. TypeOK /\ Chunks \in Nat \ {0}
  BY SendPathAssumption DEF Inv
<1>1. CASE k = 0
  <2>1. wire' = wire
    BY <1>0, <1>1, PutNothing
  <2>2. CASE open'
    BY <2>1, <2>2 DEF StreamStep, S!svars
  <2>3. CASE ~open'
    BY <2>1, <2>3 DEF StreamStep, S!SNext, S!Down
  <2> QED  BY <2>2, <2>3
<1>2. CASE k # 0
  <2>1. k \in 1 .. Chunks /\ a \in 0 .. (Chunks - k)
    BY <1>0, <1>2
  <2>2. S!Out(m) = 1 .. a /\ wire' = wire \o S!Piece(m, a, k)
    BY DEF Written, Put
  <2>3. S!Emit(t, m, k)
    BY <2>1, <2>2 DEF S!Emit
  <2> QED  BY <2>1, <2>3 DEF StreamStep, S!SNext
<1> QED  BY <1>1, <1>2

\* A direct write.
LEMMA TrySendStream ==
  ASSUME Inv, NEW t \in Thread, TrySend(t)
  PROVE  StreamStep
<1>0. TypeOK /\ Chunks \in Nat \ {0}
  BY SendPathAssumption DEF Inv
<1>1. /\ pc[t] = "write" /\ msg[t] \in Msg /\ Written[msg[t]] = 1 .. 0
      /\ UNCHANGED <<accepted, lost>>
  BY HandFacts DEF Inv, HandOK, TrySend, Holds
<1>2. PICK k \in 0 .. Chunks :
        Put(msg[t], 0, k) /\ (k > 0 => open) /\ open' \in BOOLEAN /\ (open' => open)
  <2>1. ASSUME open, Put(msg[t], 0, Chunks), UNCHANGED open
        PROVE  \E k \in 0 .. Chunks :
                 Put(msg[t], 0, k) /\ (k > 0 => open) /\ open' \in BOOLEAN /\ (open' => open)
    BY <1>0, <2>1 DEF TypeOK
  <2>2. ASSUME NEW k \in 0 .. (Chunks - 1), k > 0 => open, Put(msg[t], 0, k),
               open' = open \/ open' = FALSE
        PROVE  \E q \in 0 .. Chunks :
                 Put(msg[t], 0, q) /\ (q > 0 => open) /\ open' \in BOOLEAN /\ (open' => open)
    <3>1. k \in 0 .. Chunks
      BY <1>0
    <3>2. open' \in BOOLEAN /\ (open' => open)
      <4>1. open \in BOOLEAN
        BY <1>0 DEF TypeOK
      <4>2. CASE open' = open
        BY <4>1, <4>2
      <4>3. CASE open' = FALSE
        BY <4>3
      <4> QED  BY <2>2, <4>2, <4>3
    <3> QED  BY <2>2, <3>1, <3>2
  <2> QED  BY <2>1, <2>2 DEF TrySend
<1>3. CASE open
  <2>1. S!Oldest(t, msg[t])
    BY <1>1, <1>3, HandOldest
  <2>2. 0 \in Nat /\ k \in Nat /\ 0 + k <= Chunks
    BY <1>0
  <2> QED  BY <1>1, <1>2, <1>3, <2>1, <2>2, PutStep
<1>4. CASE ~open
  <2>1. k = 0 /\ open' = open
    BY <1>0, <1>2, <1>4 DEF TypeOK
  <2>2. wire' = wire
    BY <1>0, <1>1, <1>2, <2>1, PutNothing
  <2> QED  BY <1>1, <2>1, <2>2 DEF StreamStep, S!svars
<1> QED  BY <1>3, <1>4

\* The owner's write.
LEMMA DrainWriteStream ==
  ASSUME Inv, DrainWrite
  PROVE  StreamStep
<1> DEFINE m == list[1].msg
           a == list[1].sent
<1>0. TypeOK /\ Chunks \in Nat \ {0}
  BY SendPathAssumption DEF Inv
<1>1. pc[Owner] = "drain" /\ list # <<>> /\ ~Popping /\ UNCHANGED <<accepted, lost>>
  BY DEF DrainWrite, Popping
<1>2. 1 \in Place /\ m \in Msg /\ a \in Nat /\ a \in 0 .. Chunks
  BY <1>0, <1>1, HeadType
<1>3. Written[m] = 1 .. a /\ a < Chunks
  BY <1>1, <1>2 DEF Inv, ListOK
<1> HIDE DEF m, a
<1>4. PICK k \in 0 .. (Chunks - a) :
        Put(m, a, k) /\ (k > 0 => open) /\ open' \in BOOLEAN /\ (open' => open)
  <2>1. ASSUME open, Put(m, a, Chunks - a), UNCHANGED open
        PROVE  \E k \in 0 .. (Chunks - a) :
                 Put(m, a, k) /\ (k > 0 => open) /\ open' \in BOOLEAN /\ (open' => open)
    <3>1. Chunks - a \in 0 .. (Chunks - a)
      BY <1>0, <1>2
    <3> QED  BY <1>0, <2>1, <3>1 DEF TypeOK
  <2>2. ASSUME NEW k \in 0 .. (Chunks - a - 1), k > 0 => open, Put(m, a, k),
               open' = open \/ open' = FALSE
        PROVE  \E q \in 0 .. (Chunks - a) :
                 Put(m, a, q) /\ (q > 0 => open) /\ open' \in BOOLEAN /\ (open' => open)
    <3>1. k \in 0 .. (Chunks - a)
      BY <1>0, <1>2
    <3>2. open' \in BOOLEAN /\ (open' => open)
      <4>1. open \in BOOLEAN
        BY <1>0 DEF TypeOK
      <4>2. CASE open' = open
        BY <4>1, <4>2
      <4>3. CASE open' = FALSE
        BY <4>3
      <4> QED  BY <2>2, <4>2, <4>3
    <3> QED  BY <2>2, <3>1, <3>2
  <2> QED  BY <2>1, <2>2 DEF DrainWrite, DrainWhole, DrainPart, DrainError, m, a
<1>5. k \in Nat /\ a + k <= Chunks
  BY <1>0, <1>2
<1>6. CASE open
  <2>1. PICK t \in Thread : S!Oldest(t, m)
    BY <1>1, <1>6, HeadOldest DEF m
  <2> QED  BY <1>1, <1>2, <1>3, <1>4, <1>5, <1>6, <2>1, PutStep
<1>7. CASE ~open
  <2>1. k = 0 /\ open' = open
    BY <1>0, <1>4, <1>5, <1>7 DEF TypeOK
  <2>2. wire' = wire
    BY <1>0, <1>2, <1>4, <2>1, PutNothing
  <2> QED  BY <1>1, <2>1, <2>2 DEF StreamStep, S!svars
<1> QED  BY <1>6, <1>7

\* Every step of the send path is one of Stream, or one that Stream does not see.
LEMMA NextStream == Inv /\ [Next]_vars => StreamStep
<1> SUFFICES ASSUME Inv, [Next]_vars  PROVE StreamStep
  OBVIOUS
<1>0. TypeOK /\ Chunks \in Nat \ {0}
  BY SendPathAssumption DEF Inv
<1>1. ASSUME NEW t \in Thread, NEW m \in Msg, SendMsg(t, m)  PROVE StreamStep
  <2>1. S!Accept(t, m)
    BY <1>1 DEF SendMsg, S!Accept
  <2> QED  BY <2>1 DEF StreamStep, S!SNext
<1>2. ASSUME NEW t \in Thread, AppendFails(t)  PROVE StreamStep
  <2>1. Holds(t) /\ msg[t] \in Msg /\ msg[t] \in S!Handed
    BY <1>2, HandFacts DEF AppendFails, Holds
  <2>2. off[t] \in Nat /\ off[t] < Chunks /\ Written[msg[t]] = 1 .. off[t]
    BY <1>0, <2>1 DEF Inv, HandOK, TypeOK
  <2>3. ~S!Whole(msg[t])
    <3>1. Chunks \in 1 .. Chunks /\ Chunks \notin 1 .. off[t]
      BY <1>0, <2>2
    <3> QED  BY <2>1, <2>2, <3>1 DEF Written, S!Whole
  <2>4. S!Drop(msg[t])
    BY <1>2, <2>1, <2>3 DEF AppendFails, S!Drop
  <2> QED  BY <2>1, <2>4 DEF StreamStep, S!SNext
<1>3. ASSUME NEW t \in Thread,
             AppendMsg(t) \/ Arm(t) \/ Signal(t) \/ SignalFails(t) \/ Unflag(t)
      PROVE  StreamStep
  BY <1>3 DEF AppendMsg, Arm, Signal, SignalFails, Unflag, StreamStep, S!svars
<1>4. ASSUME \/ HandleEvent \/ EventDone \/ DrainBegin \/ DrainPop \/ DrainEmpty
             \/ DrainCheck \/ Disarm \/ FreeChannel
      PROVE  StreamStep
  BY <1>4 DEF HandleEvent, EventDone, DrainBegin, DrainPop, DrainEmpty, DrainCheck, Disarm,
     FreeChannel, StreamStep, S!svars
<1>5. CASE CloseChannel
  BY <1>5 DEF CloseChannel, StreamStep, S!SNext, S!Down
<1>6. CASE UNCHANGED vars
  BY <1>6 DEF vars, StreamStep, S!svars
<1> QED
  BY <1>1, <1>2, <1>3, <1>4, <1>5, <1>6, TrySendStream, DrainWriteStream
     DEF Next, SenderStep, OwnerStep

\* The messages of one thread leave in the order it sent them, without a gap or a
\* repetition, whether the thread writes them or the owner.
THEOREM ImplementsStream == Spec => StreamOK
<1>1. Init => S!SInit
  BY DEF Init, S!SInit
<1>2. Inv /\ [Next]_vars => [S!SNext]_(S!svars)
  BY NextStream DEF StreamStep
<1> QED  BY <1>1, <1>2, SendPathInvariant, PTL DEF Spec, StreamOK, S!SSpec
=============================================================================
