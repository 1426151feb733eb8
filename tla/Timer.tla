-------------------------------- MODULE Timer --------------------------------
(***************************************************************************)
(* The timers of one worker thread: utils/timer.c.  A container has three   *)
(* wheels of buckets, wheel 0 the coarsest; a bucket of the finest wheel is *)
(* worked off in every tick, and whenever a wheel has gone round, one       *)
(* bucket of the next coarser wheel is distributed over it.  Timers are     *)
(* started and stopped by the owning thread, between two calls of           *)
(* timer_process_timers or in a timer's callback; another thread can only   *)
(* put a stop on the owner's stop list.                                     *)
(*                                                                         *)
(* A tick is one round of the loop at line 1015 of timer.c.  A bucket is a  *)
(* set: its list is worked off in an order nothing depends on.  A timer     *)
(* node, named by a safe reference that is never used again, is a member    *)
(* of Timer.                                                               *)
(***************************************************************************)
EXTENDS Integers, FiniteSets

CONSTANTS Timer,      \* timer nodes, each used once
          Size,       \* size_of_wheel of wheels 0, 1 and 2
          G,          \* bucket_gap of wheel 2, the granularity
          TmrTime,    \* the number of values of tmr_time_t
          Request,    \* the [timeout, periodic] timers are started with
          MaxTick     \* bound: the ticks of a behaviour

Wheel == 0 .. 2
Low == 2
LowTurn == Size[Low]
Gap == [w \in Wheel |-> CASE w = 2 -> G
                          [] w = 1 -> Size[2] * G
                          [] w = 0 -> Size[1] * Size[2] * G]
Span(w) == Size[w] * Gap[w]

\* The timeouts are those the container is made for (its range), and a
\* periodic timer's is at least the granularity.
ASSUME TimerAssumption ==
  /\ Size \in [Wheel -> Nat \ {0}] /\ G \in Nat \ {0}
  /\ TmrTime \in Nat /\ TmrTime >= 2 * Span(0)
  /\ Request \subseteq [timeout : 0 .. (Span(0) - 1), periodic : BOOLEAN]
  /\ \A r \in Request : r.periodic => r.timeout >= G
  /\ MaxTick \in Nat

None == <<Low, -1>>

VARIABLES
  now,        \* ticks completed
  bid,        \* bucket_id of every wheel
  where,      \* <<wheel, bucket>> a node is linked in
  left,       \* time_left of every node
  req,        \* what every node was started with
  life,       \* new, armed (linked), callback (running its callback), done (freed)
  stopped,    \* timer_stopped_b, set with periodic_timer_stopped_b for a periodic one
  phase,      \* the owner is between calls, in the tick's loop or in a callback
  stops,      \* tmr_stop_list_g of the owner
  halted,     \* timers the owner's timer_stop_tmr was called for (history)
  due,        \* the tick a timer is to fire in (history)
  held,       \* timers that were left in the last bucket of wheel 0 (history)
  fired       \* how often a timer has fired (history)

node == <<where, left, req, life, stopped>>
history == <<halted, due, fired, held>>
vars == <<now, bid, node, phase, stops, history>>

Linked(w, b) == {i \in Timer : life[i] = "armed" /\ where[i] = <<w, b>>}
InExpiry == IF phase = "idle" THEN {} ELSE Linked(Low, bid[Low])
Calling == {i \in Timer : life[i] = "callback"}
Sub(a, b) == (a - b) % TmrTime

\* The finest wheel whose span the timeout is within.
WheelOf(t) == CHOOSE w \in Wheel : /\ t < Span(w)
                                   /\ \A v \in (w + 1) .. Low : t >= Span(v)

Init ==
  /\ now = 0
  /\ bid = [w \in Wheel |-> 0]
  /\ where = [i \in Timer |-> None]
  /\ left = [i \in Timer |-> 0]
  /\ req = [i \in Timer |-> [timeout |-> 0, periodic |-> FALSE]]
  /\ life = [i \in Timer |-> "new"]
  /\ stopped = {}
  /\ phase = "idle"
  /\ stops = {}
  /\ halted = {}
  /\ due = [i \in Timer |-> 0]
  /\ held = {}
  /\ fired = [i \in Timer |-> 0]

-----------------------------------------------------------------------------
(* Starting and stopping.                                                   *)

\* Mutant: the part of the finer wheel's turn that is over is added, as for a
\* periodic timer.
RemainingAdds(w, t) ==
  IF w = Low THEN t ELSE t + bid[w + 1] * Gap[w + 1]

\* What timer_create_and_start takes off the timeout: what is left of the
\* next finer wheel's turn.
Remaining(w, t) ==
  IF w = Low THEN t ELSE Sub(t, (Size[w + 1] - bid[w + 1]) * Gap[w + 1])

\* timer_create_and_start.
Start(i, r) ==
  /\ life[i] = "new"
  /\ phase \in {"idle", "callback"}
  /\ LET w == WheelOf(r.timeout)
         t == Remaining(w, r.timeout)
     IN  /\ left' = [left EXCEPT ![i] = t]
         /\ where' = [where EXCEPT ![i] = <<w, (bid[w] + t \div Gap[w]) % Size[w]>>]
  /\ req' = [req EXCEPT ![i] = r]
  /\ life' = [life EXCEPT ![i] = "armed"]
  /\ due' = [due EXCEPT ![i] = now + r.timeout \div G]
  /\ UNCHANGED <<now, bid, stopped, phase, stops, halted, fired, held>>

\* Mutant: a node of the bucket that is being worked off is not marked.
StopOwnUnmarked(I) ==
  LET mark == I \cap {i \in Calling : req[i].periodic}
      free == {i \in I : life[i] = "armed"} \ InExpiry
  IN  /\ stopped' = stopped \cup mark
      /\ life' = [i \in Timer |-> IF i \in free THEN "done" ELSE life[i]]
      /\ where' = [i \in Timer |-> IF i \in free THEN None ELSE where[i]]

\* timer_stop_tmr for nodes I of the calling thread.  A node that is freed is
\* not found; a one-shot timer whose callback runs is left alone; a node of
\* the bucket that is being worked off (a periodic one whose callback runs
\* belongs to it) is only marked; any other is unlinked and freed.
StopOwn(I) ==
  LET mark == I \cap (InExpiry \cup {i \in Calling : req[i].periodic})
      free == {i \in I : life[i] = "armed"} \ mark
  IN  /\ stopped' = stopped \cup mark
      /\ life' = [i \in Timer |-> IF i \in free THEN "done" ELSE life[i]]
      /\ where' = [i \in Timer |-> IF i \in free THEN None ELSE where[i]]

\* timer_stop_tmr called by the owning thread.
Stop(i) ==
  /\ phase \in {"idle", "callback"}
  /\ life[i] # "new"
  /\ StopOwn({i})
  /\ halted' = halted \cup {i}
  /\ UNCHANGED <<now, bid, left, req, phase, stops, due, fired, held>>

\* timer_stop_tmr called by another thread: tmr_enque_stop.
StopRemote(i) ==
  /\ life[i] # "new"
  /\ stops' = stops \cup {i}
  /\ UNCHANGED <<now, bid, node, phase, history>>

-----------------------------------------------------------------------------
(* timer_process_timers.                                                    *)

\* Mutant: the stop list is emptied and not worked off.
ProcessForgets ==
  /\ phase = "idle"
  /\ stops' = {}
  /\ phase' \in {"idle", "expire"}
  /\ phase' = "expire" => now < MaxTick /\ \E i \in Timer : life[i] = "armed"
  /\ UNCHANGED <<now, bid, node, history>>

\* The stop list is taken over and worked off (tmr_deque_stop); then, if a
\* timer is left and the tick is due, its bucket is worked off.
ProcessBegin ==
  /\ phase = "idle"
  /\ StopOwn(stops)
  /\ halted' = halted \cup stops
  /\ stops' = {}
  /\ phase' \in {"idle", "expire"}
  /\ phase' = "expire" => /\ now < MaxTick
                          /\ \E i \in Timer : life'[i] = "armed"
  /\ UNCHANGED <<now, bid, left, req, due, fired, held>>

\* A node of the bucket is unlinked; it is freed if it was marked, else its
\* callback is called.
ExpireNext(i) ==
  /\ phase = "expire"
  /\ i \in Linked(Low, bid[Low])
  /\ where' = [where EXCEPT ![i] = None]
  /\ IF i \in stopped
     THEN /\ life' = [life EXCEPT ![i] = "done"]
          /\ UNCHANGED <<phase, due, fired>>
     ELSE /\ life' = [life EXCEPT ![i] = "callback"]
          /\ phase' = "callback"
          /\ fired' = [fired EXCEPT ![i] = @ + 1]
          /\ due' = [due EXCEPT ![i] = IF req[i].periodic
                                       THEN now + req[i].timeout \div G ELSE @]
  /\ UNCHANGED <<now, bid, left, req, stopped, stops, halted, held>>

\* Mutant: the bucket is not taken modulo the size of the wheel.
RearmNoWrap(i) ==
  LET t == req[i].timeout
      w == WheelOf(t)
  IN  /\ where' = [where EXCEPT ![i] = <<w, bid[w] + t \div Gap[w]>>]
      /\ left' = [left EXCEPT ![i] = t]

\* tmr_insert_periodic_tmr: the finer wheel's turn is not taken off the
\* timeout here, the part of it that is over is added to time_left.
Rearm(i) ==
  LET t == req[i].timeout
      w == WheelOf(t)
  IN  /\ where' = [where EXCEPT ![i] = <<w, (bid[w] + t \div Gap[w]) % Size[w]>>]
      /\ left' = [left EXCEPT ![i] =
                    IF w = Low THEN t ELSE t + bid[w + 1] * Gap[w + 1]]

\* The callback returns: a periodic timer is linked again, any other freed.
CallbackEnd(i) ==
  /\ phase = "callback"
  /\ i \in Calling
  /\ phase' = "expire"
  /\ IF req[i].periodic /\ i \notin stopped
     THEN /\ Rearm(i)
          /\ life' = [life EXCEPT ![i] = "armed"]
          /\ held' = held \ {i}
     ELSE /\ life' = [life EXCEPT ![i] = "done"]
          /\ UNCHANGED <<where, left, held>>
  /\ UNCHANGED <<now, bid, req, stopped, stops, halted, due, fired>>

\* Wheel w has gone round with this tick.
Turned(w) == \A v \in w .. Low : bid[v] = Size[v] - 1

\* The node of a bucket of wheel w that is distributed over wheel w + 1, whose
\* bucket_id is 0 again: its new time_left and place (redistribute_nodes).
Down(i, w) ==
  LET t == left[i] % Span(w + 1)
  IN  [left |-> t, where |-> <<w + 1, t \div Gap[w + 1]>>]

\* The last bucket of wheel 0 is taken for one of timers beyond the range: the
\* whole range is taken off, and a node with more left than that stays.
DownResidual(i) ==
  LET t == Sub(left[i], Span(0))
  IN  IF t >= Span(0)
      THEN [left |-> t, where |-> where[i]]
      ELSE [left |-> t, where |-> <<1, (t \div Gap[1]) % Size[1]>>]

Placed(i) ==
  LET w == where[i][1]
  IN  IF life[i] # "armed" \/ w = Low
      THEN [left |-> left[i], where |-> where[i]]
      ELSE IF ~Turned(w + 1) \/ where[i][2] # bid[w]
           THEN [left |-> left[i], where |-> where[i]]
           ELSE IF w = 0 /\ bid[0] = Size[0] - 1
                THEN DownResidual(i)
                ELSE Down(i, w)

\* The nodes of the last bucket of wheel 0 that are linked into it once more.
Stay == {i \in Linked(0, Size[0] - 1) : Turned(0) /\ Placed(i).where = where[i]}

\* The bucket is empty: the wheel advances, and the coarser ones with it as
\* far as the finer have gone round.  The loop goes on with the next tick when
\* the thread is behind, without a look at the stop list.
EndTick ==
  /\ phase = "expire"
  /\ Linked(Low, bid[Low]) = {}
  /\ now' = now + 1
  /\ bid' = [w \in Wheel |-> IF w = Low \/ Turned(w + 1)
                             THEN (bid[w] + 1) % Size[w] ELSE bid[w]]
  /\ left' = [i \in Timer |-> Placed(i).left]
  /\ where' = [i \in Timer |-> Placed(i).where]
  /\ held' = held \cup Stay
  /\ phase' \in {"idle", "expire"}
  /\ phase' = "expire" => now' < MaxTick
  /\ UNCHANGED <<req, life, stopped, stops, halted, due, fired>>

Next == \/ \E i \in Timer, r \in Request : Start(i, r)
        \/ \E i \in Timer : Stop(i) \/ StopRemote(i)
        \/ ProcessBegin
        \/ \E i \in Timer : ExpireNext(i) \/ CallbackEnd(i)
        \/ EndTick

Spec == Init /\ [][Next]_vars

\* The thread calls timer_process_timers again and again, the loop of a tick
\* and a callback come to their end.
Fairness == /\ WF_vars(ProcessBegin /\ stops' # stops)
            /\ WF_vars(\E i \in Timer : ExpireNext(i) \/ CallbackEnd(i))
            /\ WF_vars(EndTick)

LiveSpec == Spec /\ Fairness

-----------------------------------------------------------------------------
(* Properties.                                                              *)

\* Every variable has its type: a linked node is in a bucket that exists, and
\* at most one callback runs.
TypeOK ==
  /\ now \in 0 .. MaxTick
  /\ \A w \in Wheel : bid[w] \in 0 .. (Size[w] - 1)
  /\ \A i \in Timer :
       /\ life[i] \in {"new", "armed", "callback", "done"}
       /\ IF life[i] = "armed"
          THEN where[i][1] \in Wheel /\ where[i][2] \in 0 .. (Size[where[i][1]] - 1)
          ELSE where[i] = None
       /\ left[i] \in 0 .. (TmrTime - 1)
       /\ fired[i] \in Nat /\ due[i] \in Nat
  /\ held \subseteq Timer
  /\ stopped \subseteq halted /\ halted \subseteq Timer /\ stops \subseteq Timer
  /\ phase \in {"idle", "expire", "callback"}
  /\ Cardinality(Calling) = IF phase = "callback" THEN 1 ELSE 0

\* Running as the caller sees it: linked or being called back as a periodic
\* timer, and not stopped by the owner.
Running == {i \in Timer \ halted : \/ life[i] = "armed"
                                   \/ life[i] = "callback" /\ req[i].periodic}

C == INSTANCE Countdown WITH
       Interval <- {r.timeout \div G : r \in Request},
       Long <- Span(1) \div G,
       Slack <- LowTurn,
       on <- Running,
       interval <- [i \in Timer |-> [ticks |-> req[i].timeout \div G,
                                     periodic |-> req[i].periodic]]

\* The wheels implement Countdown: whatever wheel and bucket a timer is put
\* in, at whatever position of the wheels, and however often it is moved, it
\* does not fire early; with less than wheel 1's span it fires in its tick, or
\* as a periodic timer at most one turn of wheel 2 later; and once stopped it
\* does not fire, even when it is stopped by a callback of its own bucket.
TimersOK == C!CSpec

\* Also a timer of wheel 0 is at most one turn of wheel 2 late, a periodic one
\* at most one turn of wheel 2 and one of wheel 1, unless it was left in the
\* last bucket of wheel 0.
LongOnTime ==
  \A i \in Running :
    \/ life[i] # "armed" \/ i \in held
    \/ now <= due[i] + (IF req[i].periodic THEN (Gap[0] + Gap[1]) \div G ELSE LowTurn)

\* A stop that another thread asked for takes effect: the node is freed.
RemoteStopEffective == \A i \in Timer : (i \in stops) ~> (life[i] = "done")

\* "Func_p (I) Function pointer which should be called when timer expires"
\* (timer.c 477): a timer within the container's range is called back at most
\* one turn of the wheels 1 and 2 late.
ExpiredCalled ==
  \A i \in Running : now <= due[i] + (Gap[0] + Gap[1]) \div G
=============================================================================
