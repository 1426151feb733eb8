-------------------------------- MODULE Stream --------------------------------
(***************************************************************************)
(* What the send path promises to the threads that use it: the messages a   *)
(* thread hands over leave in the order it handed them over, each chunk     *)
(* once and in its place, and nothing leaves after the connection is down.  *)
(* Nothing is promised between threads: chunks of two threads' messages may *)
(* be mixed, which is what the code does when two threads send at once.     *)
(***************************************************************************)
EXTENDS Naturals, Sequences

CONSTANTS Thread, Msg, Chunks

VARIABLES accepted,     \* the messages every thread has handed over, in order
          wire,         \* the chunks written to the socket, in order
          dropped,      \* messages given up for want of memory
          up            \* whether the connection is still open

svars == <<accepted, wire, dropped, up>>

Handed == {m \in Msg : \E t \in Thread : \E i \in DOMAIN accepted[t] : accepted[t][i] = m}
Out(m) == {wire[i][2] : i \in {j \in DOMAIN wire : wire[j][1] = m}}
Whole(m) == Out(m) = 1 .. Chunks

\* m is the first message of t that has neither left whole nor been dropped.
Oldest(t, m) ==
  \E i \in DOMAIN accepted[t] :
    /\ accepted[t][i] = m
    /\ ~Whole(m) /\ m \notin dropped
    /\ \A j \in 1 .. (i - 1) : Whole(accepted[t][j]) \/ accepted[t][j] \in dropped

\* Chunks a+1 .. a+k of m.
Piece(m, a, k) == [i \in 1 .. k |-> <<m, a + i>>]

SInit == /\ accepted = [t \in Thread |-> <<>>]
         /\ wire = <<>>
         /\ dropped = {}
         /\ up = TRUE

Accept(t, m) ==
  /\ m \notin Handed
  /\ accepted' = [accepted EXCEPT ![t] = Append(@, m)]
  /\ UNCHANGED <<wire, dropped, up>>

\* The next k chunks of the oldest unfinished message of t leave, possibly
\* together with the end of the connection.
Emit(t, m, k) ==
  /\ up
  /\ Oldest(t, m)
  /\ \E a \in 0 .. (Chunks - k) :
       /\ Out(m) = 1 .. a
       /\ wire' = wire \o Piece(m, a, k)
  /\ up' \in BOOLEAN
  /\ UNCHANGED <<accepted, dropped>>

Drop(m) == /\ m \in Handed /\ ~Whole(m)
           /\ dropped' = dropped \cup {m}
           /\ UNCHANGED <<accepted, wire, up>>

Down == up /\ up' = FALSE /\ UNCHANGED <<accepted, wire, dropped>>

SNext == \/ \E t \in Thread, m \in Msg : Accept(t, m)
         \/ \E t \in Thread, m \in Msg, k \in 1 .. Chunks : Emit(t, m, k)
         \/ \E m \in Msg : Drop(m)
         \/ Down

SSpec == SInit /\ [][SNext]_svars
=============================================================================
