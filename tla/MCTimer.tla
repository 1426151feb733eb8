------------------------------- MODULE MCTimer -------------------------------
EXTENDS Timer, TLC

\* Three wheels of 3, 3 and 2 buckets: 18 ticks of 2 time units.
ThreeWheels == (0 :> 3) @@ (1 :> 3) @@ (2 :> 2)

\* One-shot timers of every wheel, periodic ones of the two coarser.
EveryWheel == {[timeout |-> 3,  periodic |-> FALSE],
               [timeout |-> 7,  periodic |-> FALSE],
               [timeout |-> 21, periodic |-> FALSE],
               [timeout |-> 4,  periodic |-> TRUE],
               [timeout |-> 13, periodic |-> TRUE]}
=============================================================================
