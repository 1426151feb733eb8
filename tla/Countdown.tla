------------------------------ MODULE Countdown ------------------------------
(***************************************************************************)
(* What a timer promises to the code that starts it, in ticks of its        *)
(* container: it does not fire before its time; a one-shot timer fires at   *)
(* that time and a periodic one at most Slack ticks after it; one that was  *)
(* stopped does not fire.  A timer of Long ticks or more is only promised   *)
(* not to fire early.                                                       *)
(***************************************************************************)
EXTENDS Naturals

CONSTANTS Timer,      \* timers, each started at most once
          Interval,   \* intervals in ticks
          Long,       \* the first interval without an upper bound
          Slack       \* how late a periodic timer may be

VARIABLES now,        \* ticks completed
          on,         \* timers that are running
          interval,   \* [ticks, periodic] of every timer that was started
          due,        \* the tick in which a running timer is to fire
          fired       \* how often every timer has fired

cvars == <<now, on, interval, due, fired>>

Rec(k, p) == [ticks |-> k, periodic |-> p]

CInit == /\ now = 0
         /\ on = {}
         /\ interval = [i \in Timer |-> Rec(0, FALSE)]
         /\ due = [i \in Timer |-> 0]
         /\ fired = [i \in Timer |-> 0]

CStart(i, k, p) ==
  /\ i \notin on /\ interval[i] = Rec(0, FALSE)
  /\ on' = on \cup {i}
  /\ interval' = [interval EXCEPT ![i] = Rec(k, p)]
  /\ due' = [due EXCEPT ![i] = now + k]
  /\ UNCHANGED <<now, fired>>

CStop(I) == /\ on' = on \ I
            /\ UNCHANGED <<now, interval, due, fired>>

CFire(i) ==
  /\ i \in on /\ now >= due[i]
  /\ fired' = [fired EXCEPT ![i] = @ + 1]
  /\ IF interval[i].periodic
     THEN /\ due' = [due EXCEPT ![i] = now + interval[i].ticks]
          /\ UNCHANGED on
     ELSE /\ on' = on \ {i}
          /\ UNCHANGED due
  /\ UNCHANGED <<now, interval>>

\* A tick ends only when every timer that had to fire in it has fired.
CTick ==
  /\ \A i \in on : \/ interval[i].ticks >= Long
                   \/ now < due[i] + (IF interval[i].periodic THEN Slack ELSE 0)
  /\ now' = now + 1
  /\ UNCHANGED <<on, interval, due, fired>>

CNext == \/ \E i \in Timer, k \in Interval, p \in BOOLEAN : CStart(i, k, p)
         \/ \E I \in SUBSET Timer : CStop(I)
         \/ \E i \in Timer : CFire(i)
         \/ CTick

CSpec == CInit /\ [][CNext]_cvars
=============================================================================
