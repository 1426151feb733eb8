----------------------------- MODULE TimerProofs -----------------------------
(***************************************************************************)
(* Proofs about Timer: the types, LongOnTime, and that the wheels implement *)
(* Countdown (TimersOK), for every number of timers, every size of the      *)
(* wheels, every granularity and every range of tmr_time_t that             *)
(* TimerAssumption allows.                                                  *)
(*                                                                         *)
(* The heart is Fire(i), the tick an armed timer will be called back in, as *)
(* its wheel, its bucket, its time_left and the position of the wheels say. *)
(* Ending a tick and moving a node to a finer wheel leave it unchanged, so  *)
(* what has to be shown of the places timer_create_and_start and            *)
(* tmr_insert_periodic_tmr choose is only that Fire is then neither before  *)
(* due nor more than Late after it.                                         *)
(***************************************************************************)
EXTENDS Timer, FiniteSetTheorems, TLAPS

-----------------------------------------------------------------------------
(* Quotients and remainders.                                                *)

\* A number is its quotient and its remainder.
LEMMA DivMod ==
  \A a, b \in Nat : b > 0 => /\ a \div b \in Nat /\ a % b \in Nat
                            /\ a = b * (a \div b) + (a % b)
                            /\ a % b < b
OBVIOUS

\* Quotient and remainder are what they have to be.
LEMMA Unique ==
  \A a, b, q, r \in Nat :
    b > 0 /\ r < b /\ a = b * q + r => a \div b = q /\ a % b = r
OBVIOUS

\* Products of naturals.
LEMMA Times ==
  \A a, b, c \in Nat : /\ a * b \in Nat /\ a * b = b * a
                       /\ (a * b) * c = a * (b * c)
                       /\ a * (b + c) = a * b + a * c
                       /\ a <= b => c * a <= c * b
OBVIOUS

\* A product of positive numbers.
LEMMA Positive ==
  \A a, b \in Nat : a > 0 /\ b > 0 => a * b > 0
OBVIOUS

\* A number divided by s * g: the quotient is that by s of the quotient by g,
\* and the remainder has the remainder by s as its quotient by g.
LEMMA DivDiv ==
  \A a, g, s, m \in Nat :
    g > 0 /\ s > 0 /\ m = s * g =>
      /\ m > 0 /\ a % m \in Nat
      /\ a \div m = (a \div g) \div s
      /\ (a % m) \div g = (a \div g) % s
<1>. SUFFICES ASSUME NEW a \in Nat, NEW g \in Nat, NEW s \in Nat, NEW m \in Nat,
                     g > 0, s > 0, m = s * g
              PROVE  /\ m > 0 /\ a % m \in Nat
                     /\ a \div m = (a \div g) \div s
                     /\ (a % m) \div g = (a \div g) % s
  OBVIOUS
<1>1. m > 0
  OBVIOUS
<1>2. PICK q \in Nat : q = a \div g
  BY DivMod
<1>3. PICK r \in Nat : r = a % g
  BY DivMod
<1>4. PICK p \in Nat : p = q \div s
  BY DivMod
<1>5. PICK t \in Nat : t = q % s
  BY DivMod
<1>6. a = g * q + r /\ r < g
  BY <1>2, <1>3, DivMod
<1>7. q = s * p + t /\ t < s
  BY <1>4, <1>5, DivMod
<1>8. PICK n \in Nat : n = g * t + r
  BY Times
<1>9. a = m * p + n
  <2>1. PICK u \in Nat : u = s * p
    BY Times
  <2>2. g * q = g * u + g * t
    BY <1>7, <2>1, Times
  <2>3. g * u = m * p
    BY <2>1, Times
  <2>. QED BY <1>6, <1>8, <2>2, <2>3
<1>10. n < m
  <2>1. PICK t1 \in Nat : t1 = t + 1
    OBVIOUS
  <2>2. g * t1 <= g * s
    BY <1>7, <2>1, Times
  <2>3. g * t1 = g * t + g
    BY <2>1
  <2>4. g * s = m
    BY Times
  <2>5. g * t \in Nat
    BY Times
  <2>. QED BY <1>6, <1>8, <2>2, <2>3, <2>4, <2>5
<1>11. a \div m = p /\ a % m = n
  BY <1>1, <1>9, <1>10, Unique
<1>12. n \div g = t
  BY <1>6, <1>8, Unique
<1>. QED BY <1>1, <1>2, <1>4, <1>5, <1>11, <1>12

\* Adding or taking a multiple of the divisor.
LEMMA DivShift ==
  \A a, c, g, k \in Nat :
    g > 0 /\ c = a + k * g => c \div g = a \div g + k /\ c % g = a % g
<1>. SUFFICES ASSUME NEW a \in Nat, NEW c \in Nat, NEW g \in Nat, NEW k \in Nat,
                     g > 0, c = a + k * g
              PROVE  c \div g = a \div g + k /\ c % g = a % g
  OBVIOUS
<1>1. PICK q \in Nat : q = a \div g
  BY DivMod
<1>2. PICK r \in Nat : r = a % g
  BY DivMod
<1>3. a = g * q + r /\ r < g
  BY <1>1, <1>2, DivMod
<1>4. PICK e \in Nat : e = q + k
  OBVIOUS
<1>5. g * e = g * q + g * k
  BY <1>4, Times
<1>6. c = g * e + r
  BY <1>3, <1>5, Times
<1>7. c \div g = e /\ c % g = r
  BY <1>3, <1>6, Unique
<1>. QED BY <1>1, <1>2, <1>4, <1>7

\* c is a, moved by k multiples of g.
Shifted(a, c, g, k) == c \div g = a \div g + k /\ c % g = a % g

\* What DivShift says, as Shifted.
LEMMA DivShifted ==
  \A a, c, g, k \in Nat : g > 0 /\ c = a + k * g => Shifted(a, c, g, k)
BY DivShift DEF Shifted

\* A number below k * g has a quotient by g below k, any other has not.
LEMMA DivBelow ==
  \A a, g, k \in Nat : g > 0 => (a < k * g <=> a \div g < k)
<1>. SUFFICES ASSUME NEW a \in Nat, NEW g \in Nat, NEW k \in Nat, g > 0
              PROVE  a < k * g <=> a \div g < k
  OBVIOUS
<1>1. PICK q \in Nat : q = a \div g
  BY DivMod
<1>2. PICK r \in Nat : r = a % g
  BY DivMod
<1>3. a = g * q + r /\ r < g
  BY <1>1, <1>2, DivMod
<1>4. k * g = g * k /\ g * q \in Nat /\ g * k \in Nat
  BY Times
<1>5. ASSUME q < k
      PROVE  a < k * g
  <2>1. PICK u \in Nat : u = q + 1
    OBVIOUS
  <2>2. g * u <= g * k
    BY <1>5, <2>1, Times
  <2>3. g * u = g * q + g
    BY <2>1
  <2>. QED BY <1>3, <1>4, <2>2, <2>3
<1>6. ASSUME k <= q
      PROVE  a >= k * g
  <2>1. g * k <= g * q
    BY <1>6, Times
  <2>. QED BY <1>3, <1>4, <2>1
<1>. QED BY <1>1, <1>4, <1>5, <1>6

\* The two lower digits of a number.
LEMMA TwoDigits ==
  \A a, s, g, m \in Nat :
    s > 0 /\ g > 0 /\ m = s * g =>
      /\ a % m = ((a \div g) % s) * g + (a % g)
      /\ (a % m) % g = a % g
<1>. TAKE a, s, g, m \in Nat
<1>. HAVE s > 0 /\ g > 0 /\ m = s * g
<1>1. /\ m > 0 /\ a % m \in Nat
      /\ a \div m = (a \div g) \div s
      /\ (a % m) \div g = (a \div g) % s
  BY DivDiv
<1>2. PICK n \in Nat : n = a % m
  BY <1>1
<1>3. n \div g = (a \div g) % s
  BY <1>1, <1>2
<1>4. n % g = a % g
  <2>1. PICK p \in Nat : p = a \div m
    BY <1>1, DivMod
  <2>2. a = m * p + n
    BY <1>1, <1>2, <2>1, DivMod
  <2>3. PICK k \in Nat : k = s * p
    BY Times
  <2>4. m * p = k * g
    BY <2>3, Times
  <2>5. a = n + k * g
    BY <2>2, <2>4, Times
  <2>6. a \div g = n \div g + k /\ a % g = n % g
    BY <2>5, DivShift
  <2>. QED BY <2>6
<1>5. n = g * (n \div g) + (n % g) /\ n \div g \in Nat /\ n % g \in Nat
  BY DivMod
<1>6. g * (n \div g) = (n \div g) * g
  BY <1>5, Times
<1>. QED BY <1>2, <1>3, <1>4, <1>5, <1>6

\* The part of a below m = s * g is its digit of g and the rest below g.
LowDigits(a, s, g, m) == /\ a % m = ((a \div g) % s) * g + (a % g)
                         /\ (a % m) % g = a % g

\* The lemma above, as LowDigits.
LEMMA TwoLowDigits ==
  \A a, s, g, m \in Nat : s > 0 /\ g > 0 /\ m = s * g => LowDigits(a, s, g, m)
BY TwoDigits DEF LowDigits

-----------------------------------------------------------------------------
(* Places on the wheels.                                                    *)

\* How many buckets a wheel of s buckets, now at bucket x, is before bucket b.
Dist(b, x, s) == IF x <= b THEN b - x ELSE b + s - x

\* The bucket d further on is at distance d.
LEMMA DistOf ==
  \A x, d, s \in Nat :
    x < s /\ d < s => /\ (x + d) % s \in 0 .. (s - 1)
                      /\ Dist((x + d) % s, x, s) = d
<1>. TAKE x, d, s \in Nat
<1>. HAVE x < s /\ d < s
<1>1. PICK c \in Nat : c = x + d
  OBVIOUS
<1>2. CASE c < s
  <2>1. c = s * 0 + c
    BY Times
  <2>2. c % s = c
    BY <2>1, <1>2, Unique
  <2>. QED BY <1>1, <1>2, <2>2 DEF Dist
<1>3. CASE c >= s
  <2>1. PICK e \in Nat : e = c - s
    BY <1>3
  <2>2. c = s * 1 + e /\ e < s
    BY <1>1, <2>1, Times
  <2>3. c % s = e
    BY <2>2, Unique
  <2>. QED BY <1>1, <1>3, <2>1, <2>3 DEF Dist
<1>. QED BY <1>2, <1>3

\* A step of the wheel comes one bucket nearer to every bucket but the one it
\* leaves.
LEMMA DistStep ==
  \A b, x, s \in Nat :
    b < s /\ x < s =>
      /\ Dist(b, x, s) \in Nat /\ Dist(b, x, s) < s
      /\ b = x <=> Dist(b, x, s) = 0
      /\ x + 1 < s /\ b # x => Dist(b, x, s) = Dist(b, x + 1, s) + 1
      /\ x + 1 = s /\ b # x => Dist(b, x, s) = Dist(b, 0, s) + 1
BY DEF Dist

-----------------------------------------------------------------------------
(* Where a periodic timer is put again, in ticks: u is the number of ticks  *)
(* of a bucket of its wheel, s the number of the wheel's buckets, x what is *)
(* over of the finer wheel's turn.                                          *)

\* A timer of k, put in the bucket k \div u ahead, has k \div u full turns of u
\* less the x that are over to go to that bucket, and (k + x) % u after it.
AddsOn(k, x, u, s) ==
  LET e == (u - x) + (k \div u) * u + ((k + x) % u)
  IN  /\ k \div u \in Nat
      /\ k \div u < s
      /\ e \in Nat /\ k <= e /\ e <= k + u

\* The part of the finer wheel's turn that is over is added to the interval k
\* when the rest is computed, and not when the bucket is chosen: the timer is
\* up to one turn late and never early.
LEMMA AddedOn ==
  \A k, x, u, s \in Nat : x < u /\ k < s * u => AddsOn(k, x, u, s)
<1>. SUFFICES ASSUME NEW k \in Nat, NEW x \in Nat, NEW u \in Nat, NEW s \in Nat,
                     x < u, k < s * u
              PROVE  AddsOn(k, x, u, s)
  OBVIOUS
<1>1. PICK d \in Nat : d = k \div u
  BY DivMod
<1>2. PICK r \in Nat : r = k % u
  BY DivMod
<1>3. k = u * d + r /\ r < u
  BY <1>1, <1>2, DivMod
<1>4. PICK c \in Nat : c = k + x
  OBVIOUS
<1>5. PICK m \in Nat : m = c % u /\ (m = r + x \/ m + u = r + x)
  <2>1. CASE r + x < u
    <3>1. PICK f \in Nat : f = r + x
      OBVIOUS
    <3>2. c = u * d + f /\ f < u
      BY <1>3, <1>4, <2>1, <3>1
    <3>3. c \div u = d /\ c % u = f
      BY <3>2, Unique
    <3>. QED BY <3>1, <3>3
  <2>2. CASE r + x >= u
    <3>1. PICK f \in Nat : f + u = r + x
      BY <2>2, r + x - u \in Nat, (r + x - u) + u = r + x
    <3>2. PICK h \in Nat : h = d + 1
      OBVIOUS
    <3>3. u * h = u * d + u
      BY <3>2
    <3>4. c = u * h + f /\ f < u
      BY <1>3, <1>4, <3>1, <3>3, Times
    <3>5. c \div u = h /\ c % u = f
      BY <3>4, Unique
    <3>. QED BY <3>1, <3>5
  <2>. QED BY <2>1, <2>2
<1>6. PICK y \in Nat : y = d * u /\ y = u * d
  BY Times
<1>7. d < s
  BY <1>1, DivBelow
<1>8. PICK e \in Int : e = (u - x) + y + m
  OBVIOUS
<1>9. e \in Nat /\ k <= e /\ e <= k + u
  BY <1>3, <1>5, <1>6, <1>8
<1>. QED BY <1>1, <1>4, <1>5, <1>6, <1>7, <1>8, <1>9 DEF AddsOn

-----------------------------------------------------------------------------
(* The container's constants.                                               *)

\* The ticks of one turn of the wheels 2 and 1.
Turn == Size[1] * Size[2]

\* Sizes, gaps and spans, in ticks and in units of time.
LEMMA Container ==
  /\ \A w \in Wheel : Size[w] \in Nat /\ Size[w] > 0
  /\ G \in Nat /\ G > 0
  /\ Turn \in Nat /\ Turn > 0 /\ Size[2] <= Turn /\ Turn = Size[1] * Size[2]
  /\ Gap[2] = G /\ Gap[1] = Size[2] * G /\ Gap[0] = Turn * G
  /\ Span(2) = Size[2] * G /\ Span(1) = Turn * G
  /\ Span(0) = (Size[0] * Turn) * G
  /\ Size[0] * Turn \in Nat /\ Turn <= Size[0] * Turn
  /\ TmrTime \in Nat /\ TmrTime >= 2 * Span(0)
<1>1. \A w \in Wheel : Size[w] \in Nat /\ Size[w] > 0
  BY TimerAssumption
<1>2. G \in Nat /\ G > 0 /\ TmrTime \in Nat /\ TmrTime >= 2 * Span(0)
  BY TimerAssumption
<1>3. 0 \in Wheel /\ 1 \in Wheel /\ 2 \in Wheel
  BY DEF Wheel
<1>4. PICK s0 \in Nat : s0 = Size[0] /\ s0 > 0
  BY <1>1, <1>3
<1>5. PICK s1 \in Nat : s1 = Size[1] /\ s1 > 0
  BY <1>1, <1>3
<1>6. PICK s2 \in Nat : s2 = Size[2] /\ s2 > 0
  BY <1>1, <1>3
<1>7. PICK t \in Nat : t = s1 * s2
  BY Times
<1>8. t > 0 /\ s2 <= t
  <2>1. 1 <= s1
    BY <1>5
  <2>2. s2 * 1 <= s2 * s1
    BY <2>1, Times
  <2>3. s2 * 1 = s2 /\ s2 * s1 = t
    BY <1>7, Times
  <2>. QED BY <2>2, <2>3, <1>6
<1>9. s0 * t \in Nat /\ t <= s0 * t
  <2>1. 1 <= s0
    BY <1>4
  <2>2. t * 1 <= t * s0
    BY <2>1, Times
  <2>3. t * 1 = t /\ t * s0 = s0 * t /\ s0 * t \in Nat
    BY Times
  <2>. QED BY <2>2, <2>3
<1>10. Gap[2] = G /\ Gap[1] = s2 * G /\ Gap[0] = t * G
  BY <1>3, <1>5, <1>6, <1>7 DEF Gap
<1>11. Turn = t
  BY <1>5, <1>6, <1>7 DEF Turn
<1>12. Span(2) = s2 * G
  BY <1>6, <1>10 DEF Span
<1>13. Span(1) = t * G
  <2>1. s1 * (s2 * G) = (s1 * s2) * G
    BY <1>2, Times
  <2>. QED BY <2>1, <1>5, <1>7, <1>10 DEF Span
<1>14. Span(0) = (s0 * t) * G
  <2>1. s0 * (t * G) = (s0 * t) * G
    BY <1>2, Times
  <2>. QED BY <2>1, <1>4, <1>10 DEF Span
<1>. QED BY <1>1, <1>2, <1>4, <1>5, <1>6, <1>7, <1>8, <1>9, <1>10, <1>11, <1>12,
            <1>13, <1>14

\* The wheel of a timeout that is within the container's range.
LEMMA WheelOfIs ==
  ASSUME NEW t \in Nat, t < Span(0)
  PROVE  \/ WheelOf(t) = 2 /\ t < Span(2)
         \/ WheelOf(t) = 1 /\ t >= Span(2) /\ t < Span(1)
         \/ WheelOf(t) = 0 /\ t >= Span(1)
<1>1. Span(2) \in Nat /\ Span(1) \in Nat /\ Span(0) \in Nat
  <2>1. \A a, b \in Nat : a * b \in Nat
    BY Times
  <2>2. /\ G \in Nat /\ Turn \in Nat /\ Size[2] \in Nat
        /\ Size[0] * Turn \in Nat
    BY Container DEF Wheel
  <2>3. Span(2) = Size[2] * G /\ Span(1) = Turn * G /\ Span(0) = (Size[0] * Turn) * G
    BY Container
  <2>. QED BY <2>1, <2>2, <2>3
<1>2. Span(2) <= Span(1)
  <2>1. G * Size[2] <= G * Turn
    BY Container, Times DEF Wheel
  <2>. QED BY <2>1, Container, Times DEF Wheel
<1>3. \E w \in Wheel : t < Span(w) /\ \A v \in (w + 1) .. Low : t >= Span(v)
  <2>1. CASE t < Span(2)
    <3>1. 2 \in Wheel /\ \A v \in (2 + 1) .. Low : t >= Span(v)
      BY DEF Wheel, Low
    <3>. QED BY <2>1, <3>1
  <2>2. CASE t >= Span(2) /\ t < Span(1)
    <3>1. 1 \in Wheel /\ \A v \in (1 + 1) .. Low : v = 2
      BY DEF Wheel, Low
    <3>. QED BY <2>2, <3>1
  <2>3. CASE t >= Span(2) /\ t >= Span(1)
    <3>1. 0 \in Wheel /\ \A v \in (0 + 1) .. Low : v = 1 \/ v = 2
      BY DEF Wheel, Low
    <3>. QED BY <2>3, <3>1
  <2>. QED BY <1>1, <2>1, <2>2, <2>3
<1>4. PICK w \in Wheel : w = WheelOf(t) /\ t < Span(w)
                         /\ \A v \in (w + 1) .. Low : t >= Span(v)
  BY <1>3 DEF WheelOf
<1>5. CASE w = 2
  BY <1>4, <1>5
<1>6. CASE w = 1
  <2>1. 2 \in (w + 1) .. Low
    BY <1>6 DEF Low
  <2>. QED BY <1>4, <1>6, <2>1
<1>7. CASE w = 0
  <2>1. 1 \in (w + 1) .. Low
    BY <1>7 DEF Low
  <2>. QED BY <1>4, <1>7, <2>1
<1>. QED BY <1>5, <1>6, <1>7 DEF Wheel

-----------------------------------------------------------------------------
(* When a timer will be called back.                                        *)

\* The ticks in which the turn of wheel 2, and that of wheel 1, are over.
Turn1(n, x) == n + (Size[2] - x[2])
Turn0(n, x) == Turn1(n, x) + (Size[1] - 1 - x[1]) * Size[2]

\* The tick in which a node of wheel 0 that was left in its last bucket
\* leaves it, and one more turn of wheel 2.
HeldAt(n, x, b) == Turn0(n, x) + Dist(b, x[0], Size[0]) * Turn + Size[2]

\* The tick in which a node in bucket b of wheel w with l ticks of time_left
\* will be called back, in tick n with the wheels at x.
FireAt(n, x, w, b, l) ==
  CASE w = 2 -> n + Dist(b, x[2], Size[2])
    [] w = 1 -> Turn1(n, x) + Dist(b, x[1], Size[1]) * Size[2] + (l % Size[2])
    [] w = 0 -> HeldAt(n, x, b) + (l % Turn)

Fire(i) == FireAt(now, bid, where[i][1], where[i][2], left[i] \div G)

\* How late a timer may be: a one-shot timer of less than wheel 1's span is
\* not.
LateOf(r) == IF r.timeout < Span(1)
             THEN IF r.periodic THEN Size[2] ELSE 0
             ELSE IF r.periodic THEN Turn + Size[2] ELSE Size[2]

\* Positions of the wheels.
Position(x) == \A w \in Wheel : x[w] \in Nat /\ x[w] < Size[w]

\* Subtraction of values of tmr_time_t.
LEMMA SubIs ==
  ASSUME NEW a \in Nat, a < TmrTime, NEW b \in Nat, b < TmrTime
  PROVE  /\ b <= a => Sub(a, b) = a - b
         /\ b > a => Sub(a, b) = a - b + TmrTime
         /\ Sub(a, b) \in 0 .. (TmrTime - 1)
<1>1. TmrTime \in Nat /\ TmrTime > 0
  BY Container
<1>2. CASE b <= a
  <2>1. PICK d \in Nat : d = a - b
    BY <1>2
  <2>2. d = TmrTime * 0 + d /\ d < TmrTime
    BY <1>1, <2>1
  <2>3. d % TmrTime = d
    BY <1>1, <2>2, Unique
  <2>. QED BY <1>1, <1>2, <2>1, <2>2, <2>3 DEF Sub
<1>3. CASE b > a
  <2>1. PICK d \in Int : d = a - b /\ d < 0 /\ d + TmrTime > 0
    BY <1>1, <1>3
  <2>2. d % TmrTime = d + TmrTime
    BY <1>1, <2>1
  <2>. QED BY <1>1, <1>3, <2>1, <2>2 DEF Sub
<1>. QED BY <1>2, <1>3

\* A timeout is within the container's range.
LEMMA TimeoutIs ==
  ASSUME NEW r \in Request
  PROVE  /\ r.timeout \in Nat /\ r.timeout < Span(0) /\ r.timeout < TmrTime
         /\ r.periodic \in BOOLEAN
         /\ r.periodic => r.timeout >= G
<1>1. /\ r \in [timeout : 0 .. (Span(0) - 1), periodic : BOOLEAN]
      /\ r.periodic => r.timeout >= G
  BY TimerAssumption
<1>2. \A a, b \in Nat : a * b \in Nat
  BY Times
<1>3. Span(0) \in Nat
  BY <1>2, Container
<1>. QED BY <1>1, <1>3, Container

\* The spans are numbers.
LEMMA SpanIs == Span(0) \in Nat /\ Span(1) \in Nat /\ Span(2) \in Nat
<1>1. \A a, b \in Nat : a * b \in Nat
  BY Times
<1>2. G \in Nat /\ Turn \in Nat /\ Size[2] \in Nat /\ Size[0] * Turn \in Nat
  BY Container DEF Wheel
<1>. QED BY <1>1, <1>2, Container

\* Where timer_create_and_start puts a timer: in a bucket of the wheel, to be
\* called back at its time, or up to one turn of wheel 2 late when it has
\* wheel 1's span or more.
LEMMA StartFire ==
  ASSUME Position(bid), now \in Nat,
         NEW r \in Request, NEW w, w = WheelOf(r.timeout),
         NEW t, t = Remaining(w, r.timeout),
         NEW b, b = (bid[w] + t \div Gap[w]) % Size[w],
         NEW f, f = FireAt(now, bid, w, b, t \div G),
         NEW k \in Nat, k = r.timeout \div G
  PROVE  /\ w \in Wheel
         /\ t \in 0 .. (TmrTime - 1)
         /\ b \in 0 .. (Size[w] - 1)
         /\ w = 0 => r.timeout >= Span(1)
         /\ f \in Nat
         /\ r.timeout < Span(1) => f = now + k
         /\ r.timeout >= Span(1) => now + k <= f /\ f <= now + k + Size[2]
<1>1. PICK a \in Nat : a = r.timeout /\ a < Span(0) /\ a < TmrTime
  BY TimeoutIs
<1>2. k = a \div G
  BY <1>1
<1>3. PICK s0 \in Nat : s0 = Size[0] /\ s0 > 0
  BY Container DEF Wheel
<1>4. PICK s1 \in Nat : s1 = Size[1] /\ s1 > 0
  BY Container DEF Wheel
<1>5. PICK s2 \in Nat : s2 = Size[2] /\ s2 > 0
  BY Container DEF Wheel
<1>6. PICK u \in Nat : u = Turn /\ u > 0 /\ u = s1 * s2 /\ s2 <= u
  BY <1>4, <1>5, Container
<1>7. PICK g \in Nat : g = G /\ g > 0
  BY Container
<1>8. PICK x0 \in Nat : x0 = bid[0] /\ x0 < s0
  BY <1>3 DEF Position, Wheel
<1>9. PICK x1 \in Nat : x1 = bid[1] /\ x1 < s1
  BY <1>4 DEF Position, Wheel
<1>10. PICK x2 \in Nat : x2 = bid[2] /\ x2 < s2
  BY <1>5 DEF Position, Wheel
<1>11. /\ Span(2) = s2 * g /\ Span(1) = u * g /\ Span(0) = (s0 * u) * g
       /\ Gap[2] = g /\ Gap[1] = s2 * g /\ Gap[0] = u * g
  BY <1>3, <1>5, <1>6, <1>7, Container
<1>12. \A e \in Nat : a < e * g <=> k < e
  BY <1>2, <1>7, DivBelow
<1>13. s0 * u \in Nat
  BY Times
<1>14. PICK n \in Nat : n = now
  OBVIOUS
<1>15. u > 0
  BY <1>6
<1>16. u * g \in Nat
  BY Times
<1>17. CASE w = 2 /\ a < Span(2)
  <2>1. t = a
    BY <1>1, <1>17 DEF Remaining, Low
  <2>2. k < s2
    BY <1>11, <1>12, <1>17
  <2>3. /\ (x2 + k) % s2 \in 0 .. (s2 - 1)
        /\ Dist((x2 + k) % s2, x2, s2) = k
    BY <1>10, <2>2, DistOf
  <2>4. b = (x2 + k) % s2
    BY <1>2, <1>5, <1>7, <1>10, <1>11, <1>17, <2>1
  <2>5. f = now + k
    BY <1>5, <1>10, <1>17, <2>3, <2>4 DEF FireAt
  <2>6. a < Span(1)
    <3>1. k < u
      BY <1>6, <2>2
    <3>. QED BY <1>11, <1>12, <3>1
  <2>7. ~(r.timeout >= Span(1))
    BY <1>1, <1>11, <1>16, <2>6
  <2>8. t \in 0 .. (TmrTime - 1)
    BY <1>1, <2>1, Container
  <2>9. b \in 0 .. (Size[w] - 1)
    <3>1. Size[w] = s2
      BY <1>5, <1>17
    <3>. QED BY <3>1, <2>3, <2>4
  <2>10. f \in Nat
    BY <1>14, <2>5
  <2>11. r.timeout < Span(1) => f = now + k
    BY <1>1, <2>5
  <2>12. r.timeout >= Span(1) => now + k <= f /\ f <= now + k + Size[2]
    BY <1>1, <2>7
  <2>13. w \in Wheel /\ (w = 0 => r.timeout >= Span(1))
    BY <1>1, <1>17 DEF Wheel
  <2>. QED BY <2>8, <2>9, <2>10, <2>11, <2>12, <2>13
<1>18. CASE w = 1 /\ a >= Span(2) /\ a < Span(1)
  <2>1. s2 <= k /\ k < u
    BY <1>6, <1>11, <1>12, <1>18
  <2>2. PICK e \in Nat : e = s2 - x2 /\ e <= s2
    BY <1>10
  <2>3. PICK y \in Nat : y = e * g /\ y <= a
    <3>1. e * g \in Nat
      BY Times
    <3>2. ~(a < e * g)
      BY <1>12, <2>1, <2>2
    <3>. QED BY <3>1, <3>2
  <2>4. PICK v \in Nat : v = t /\ v = a - y
    <3>1. (Size[2] - bid[2]) * Gap[2] = y
      BY <1>5, <1>10, <1>11, <2>2, <2>3
    <3>2. t = Sub(a, y)
      BY <1>1, <1>18, <3>1 DEF Remaining, Low
    <3>3. y < TmrTime
      BY <1>1, <2>3, Container
    <3>4. Sub(a, y) = a - y
      BY <1>1, <2>3, <3>3, SubIs
    <3>. QED BY <2>3, <3>2, <3>4
  <2>5. a = v + e * g /\ v \in 0 .. (TmrTime - 1)
    BY <1>1, <2>3, <2>4, Container
  <2>6. PICK l \in Nat : l = v \div g
    BY <1>7, DivMod
  <2>7. l = k - (s2 - x2)
    <3>1. a \div g = v \div g + e /\ a % g = v % g
      BY <1>7, <2>5, DivShift
    <3>2. a \div g = k /\ v \div g = l
      BY <1>2, <1>7, <2>6
    <3>. QED BY <2>2, <3>1, <3>2
  <2>8. PICK d \in Nat : d = l \div s2
    BY <1>5, DivMod
  <2>9. PICK m \in Nat : m = l % s2
    BY <1>5, DivMod
  <2>10. d < s1 /\ (s2 - x2) + d * s2 + m = k
    <3>1. l = s2 * d + m
      <4>1. l = s2 * (l \div s2) + (l % s2)
        BY <1>5, DivMod
      <4>. QED BY <4>1, <2>8, <2>9
    <3>2. s2 * d = d * s2 /\ d * s2 \in Nat
      BY Times
    <3>3. l < s1 * s2
      BY <1>6, <1>10, <2>1, <2>7
    <3>4. d < s1
      BY <1>5, <2>8, <3>3, DivBelow
    <3>. QED BY <1>10, <2>7, <3>1, <3>2, <3>4
  <2>11. t \div Gap[1] = d
    <3>1. PICK q \in Nat : q = s2 * g
      BY Times
    <3>2. /\ q > 0 /\ v % q \in Nat
          /\ v \div q = (v \div g) \div s2
          /\ (v % q) \div g = (v \div g) % s2
      BY <1>5, <1>7, <3>1, DivDiv
    <3>. QED BY <1>11, <2>4, <2>6, <2>8, <3>1, <3>2
  <2>12. b = (x1 + d) % s1
    BY <1>4, <1>9, <1>18, <2>11
  <2>13. b \in 0 .. (s1 - 1) /\ Dist(b, x1, s1) = d
    <3>1. /\ (x1 + d) % s1 \in 0 .. (s1 - 1)
          /\ Dist((x1 + d) % s1, x1, s1) = d
      BY <1>9, <2>10, DistOf
    <3>. QED BY <2>12, <3>1
  <2>14. f = (now + (s2 - x2)) + d * s2 + m
    BY <1>4, <1>5, <1>7, <1>9, <1>10, <1>18, <2>4, <2>6, <2>9, <2>13 DEF FireAt, Turn1
  <2>15. f = now + k
    <3>1. d * s2 \in Nat
      BY Times
    <3>. QED BY <1>10, <1>14, <2>10, <2>14, <3>1
  <2>16. ~(r.timeout >= Span(1))
    BY <1>1, <1>11, <1>18, <1>16
  <2>17. t \in 0 .. (TmrTime - 1)
    BY <2>4, <2>5
  <2>18. b \in 0 .. (Size[w] - 1)
    <3>1. Size[w] = s1
      BY <1>4, <1>18
    <3>. QED BY <3>1, <2>13
  <2>19. f \in Nat
    BY <1>14, <2>15
  <2>20. r.timeout < Span(1) => f = now + k
    BY <1>1, <2>15
  <2>21. r.timeout >= Span(1) => now + k <= f /\ f <= now + k + Size[2]
    BY <1>1, <2>16
  <2>22. w \in Wheel /\ (w = 0 => r.timeout >= Span(1))
    BY <1>1, <1>18 DEF Wheel
  <2>. QED BY <2>17, <2>18, <2>19, <2>20, <2>21, <2>22
<1>19. CASE w = 0 /\ a >= Span(1)
  <2>1. u <= k /\ k < s0 * u
    BY <1>11, <1>12, <1>13, <1>19, <1>1
  <2>2. PICK e \in Nat : e = s1 - x1 /\ e > 0
    BY <1>9
  <2>3. PICK h \in Nat : h = e * s2 /\ h <= u
    <3>1. s2 * e <= s2 * s1
      BY <1>9, <2>2, Times
    <3>2. s2 * e = e * s2 /\ s2 * s1 = u /\ e * s2 \in Nat
      BY <1>6, Times
    <3>. QED BY <3>1, <3>2
  <2>4. PICK y \in Nat : y = h * g /\ y <= a
    <3>1. h * g \in Nat
      BY Times
    <3>2. ~(a < h * g)
      BY <1>12, <2>1, <2>3
    <3>. QED BY <3>1, <3>2
  <2>5. PICK z \in Nat : z = t /\ z = a - y
    <3>1. (Size[1] - bid[1]) * Gap[1] = e * (s2 * g)
      BY <1>4, <1>9, <1>11, <2>2
    <3>2. e * (s2 * g) = y
      BY <2>3, <2>4, Times
    <3>3. t = Sub(a, y)
      BY <1>1, <1>19, <3>1, <3>2 DEF Remaining, Low
    <3>4. y < TmrTime
      BY <1>1, <2>4, Container
    <3>5. Sub(a, y) = a - y
      BY <1>1, <2>4, <3>4, SubIs
    <3>. QED BY <2>4, <3>3, <3>5
  <2>6. a = z + h * g /\ z \in 0 .. (TmrTime - 1)
    BY <1>1, <2>4, <2>5, Container
  <2>7. PICK l \in Nat : l = z \div g
    BY <1>7, DivMod
  <2>8. PICK x \in Nat : x = u - h
    BY <2>3
  <2>9. l = k - (u - x)
    <3>1. a \div g = z \div g + h /\ a % g = z % g
      BY <1>7, <2>6, DivShift
    <3>. QED BY <1>2, <1>7, <2>3, <2>7, <2>8, <3>1
  <2>10. PICK d \in Nat : d = l \div u
    BY <1>6, DivMod
  <2>11. PICK m \in Nat : m = l % u
    BY <1>6, DivMod
  <2>12. d < s0 /\ (u - x) + d * u + m = k
    <3>1. l = u * d + m
      BY <1>15, <2>10, <2>11, DivMod
    <3>2. u * d = d * u /\ d * u \in Nat
      BY Times
    <3>3. l < s0 * u
      BY <1>13, <2>1, <2>3, <2>8, <2>9
    <3>4. d < s0
      BY <1>15, <2>10, <3>3, DivBelow
    <3>. QED BY <2>3, <2>8, <2>9, <3>1, <3>2, <3>4
  <2>13. t \div Gap[0] = d
    <3>1. PICK q \in Nat : q = u * g
      BY Times
    <3>2. /\ q > 0 /\ z % q \in Nat
          /\ z \div q = (z \div g) \div u
          /\ (z % q) \div g = (z \div g) % u
      BY <1>7, <1>15, <3>1, DivDiv
    <3>. QED BY <1>11, <2>5, <2>7, <2>10, <3>1, <3>2
  <2>14. b = (x0 + d) % s0
    BY <1>3, <1>8, <1>19, <2>13
  <2>15. b \in 0 .. (s0 - 1) /\ Dist(b, x0, s0) = d
    <3>1. /\ (x0 + d) % s0 \in 0 .. (s0 - 1)
          /\ Dist((x0 + d) % s0, x0, s0) = d
      BY <1>8, <2>12, DistOf
    <3>. QED BY <2>14, <3>1
  <2>16. f = (now + (s2 - x2)) + (s1 - 1 - x1) * s2 + d * u + s2 + m
    BY <1>3, <1>4, <1>5, <1>6, <1>7, <1>8, <1>9, <1>10, <1>19, <2>5, <2>7, <2>11, <2>15
       DEF FireAt, HeldAt, Turn0, Turn1
  <2>17. (s1 - 1 - x1) * s2 + s2 = h
    <3>1. PICK v \in Nat : v = s1 - 1 - x1 /\ e = v + 1
      BY <1>9, <2>2
    <3>2. (v + 1) * s2 = v * s2 + s2
      OBVIOUS
    <3>. QED BY <2>3, <3>1, <3>2
  <2>18. f = now + k + (s2 - x2)
    <3>1. PICK v \in Nat : v = s1 - 1 - x1
      BY <1>9
    <3>2. d * u \in Nat /\ v * s2 \in Nat
      BY Times
    <3>3. f = (n + (s2 - x2)) + v * s2 + d * u + s2 + m /\ v * s2 + s2 = h
      BY <1>14, <2>16, <2>17, <3>1
    <3>4. h + d * u + m = k
      BY <2>3, <2>8, <2>12, <3>2
    <3>. QED BY <1>10, <1>14, <3>2, <3>3, <3>4
  <2>19. ~(r.timeout < Span(1))
    BY <1>1, <1>11, <1>19, <1>16
  <2>20. t \in 0 .. (TmrTime - 1)
    BY <2>5, <2>6
  <2>21. b \in 0 .. (Size[w] - 1)
    <3>1. Size[w] = s0
      BY <1>3, <1>19
    <3>. QED BY <3>1, <2>15
  <2>22. f \in Nat
    BY <1>10, <1>14, <2>18
  <2>23. r.timeout < Span(1) => f = now + k
    BY <1>1, <2>19
  <2>24. r.timeout >= Span(1) => now + k <= f /\ f <= now + k + Size[2]
    BY <1>1, <1>5, <1>10, <1>14, <2>18
  <2>25. w \in Wheel /\ (w = 0 => r.timeout >= Span(1))
    BY <1>1, <1>19 DEF Wheel
  <2>. QED BY <2>20, <2>21, <2>22, <2>23, <2>24, <2>25
<1>. QED BY <1>1, <1>17, <1>18, <1>19, WheelOfIs
\* Where tmr_insert_periodic_tmr puts a timer: never to be called back early,
\* and at most one turn of the wheel below late, and one of wheel 2 when that
\* is wheel 1.
LEMMA RearmFire ==
  ASSUME Position(bid), now \in Nat,
         NEW r \in Request, NEW w, w = WheelOf(r.timeout),
         NEW t, t = IF w = Low THEN r.timeout
                    ELSE r.timeout + bid[w + 1] * Gap[w + 1],
         NEW b, b = (bid[w] + r.timeout \div Gap[w]) % Size[w],
         NEW f, f = FireAt(now, bid, w, b, t \div G),
         NEW k \in Nat, k = r.timeout \div G
  PROVE  /\ w \in Wheel
         /\ t \in 0 .. (TmrTime - 1)
         /\ b \in 0 .. (Size[w] - 1)
         /\ w = 0 => r.timeout >= Span(1)
         /\ f \in Nat /\ now + k <= f
         /\ r.timeout < Span(1) => f <= now + k + Size[2]
         /\ r.timeout >= Span(1) => f <= now + k + Turn + Size[2]
<1>1. PICK a \in Nat : a = r.timeout /\ a < Span(0) /\ a < TmrTime
  BY TimeoutIs
<1>2. k = a \div G
  BY <1>1
<1>3. PICK s0 \in Nat : s0 = Size[0] /\ s0 > 0
  BY Container DEF Wheel
<1>4. PICK s1 \in Nat : s1 = Size[1] /\ s1 > 0
  BY Container DEF Wheel
<1>5. PICK s2 \in Nat : s2 = Size[2] /\ s2 > 0
  BY Container DEF Wheel
<1>6. PICK u \in Nat : u = Turn /\ u > 0 /\ u = s1 * s2 /\ s2 <= u
  BY <1>4, <1>5, Container
<1>7. PICK g \in Nat : g = G /\ g > 0
  BY Container
<1>8. PICK x0 \in Nat : x0 = bid[0] /\ x0 < s0
  BY <1>3 DEF Position, Wheel
<1>9. PICK x1 \in Nat : x1 = bid[1] /\ x1 < s1
  BY <1>4 DEF Position, Wheel
<1>10. PICK x2 \in Nat : x2 = bid[2] /\ x2 < s2
  BY <1>5 DEF Position, Wheel
<1>11. /\ Span(2) = s2 * g /\ Span(1) = u * g /\ Span(0) = (s0 * u) * g
       /\ Gap[2] = g /\ Gap[1] = s2 * g /\ Gap[0] = u * g
  BY <1>3, <1>5, <1>6, <1>7, Container
<1>12. \A e \in Nat : a < e * g <=> k < e
  BY <1>2, <1>7, DivBelow
<1>13. s0 * u \in Nat
  BY Times
<1>14. PICK n \in Nat : n = now
  OBVIOUS
<1>15. u > 0
  BY <1>6
<1>16. u * g \in Nat
  BY Times
<1>17. (s0 * u) * g \in Nat /\ 2 * ((s0 * u) * g) <= TmrTime /\ u * g <= (s0 * u) * g
  <2>1. (s0 * u) * g \in Nat
    BY <1>13, Times
  <2>2. u <= s0 * u
    BY <1>3, <1>6, Container
  <2>3. g * u <= g * (s0 * u)
    BY <1>13, <2>2, Times
  <2>4. g * u = u * g /\ g * (s0 * u) = (s0 * u) * g
    BY <1>13, Times
  <2>5. 2 * ((s0 * u) * g) <= TmrTime
    BY <1>11, Container
  <2>. QED BY <2>1, <2>3, <2>4, <2>5
<1>18. PICK big \in Nat : big = (s0 * u) * g
  BY <1>17
<1>19. PICK mid \in Nat : mid = u * g
  BY <1>16
<1>20. /\ mid <= big /\ 2 * big <= TmrTime /\ TmrTime \in Nat
       /\ Span(0) = big /\ Span(1) = mid
  BY <1>11, <1>17, <1>18, <1>19, Container
<1>21. CASE w = 2 /\ a < Span(2)
  <2>1. t = a
    BY <1>1, <1>21 DEF Low
  <2>2. k < s2
    BY <1>11, <1>12, <1>21
  <2>3. /\ (x2 + k) % s2 \in 0 .. (s2 - 1)
        /\ Dist((x2 + k) % s2, x2, s2) = k
    BY <1>10, <2>2, DistOf
  <2>4. b = (x2 + k) % s2
    BY <1>1, <1>2, <1>5, <1>7, <1>10, <1>11, <1>21
  <2>5. f = now + k
    BY <1>5, <1>10, <1>21, <2>3, <2>4 DEF FireAt
  <2>6. a < Span(1)
    <3>1. k < u
      BY <1>6, <2>2
    <3>. QED BY <1>11, <1>12, <3>1
  <2>7. ~(r.timeout >= Span(1))
    BY <1>1, <1>11, <1>16, <2>6
  <2>8. t \in 0 .. (TmrTime - 1)
    BY <1>1, <2>1, Container
  <2>9. b \in 0 .. (Size[w] - 1)
    <3>1. Size[w] = s2
      BY <1>5, <1>21
    <3>. QED BY <3>1, <2>3, <2>4
  <2>10. f \in Nat /\ now + k <= f
    BY <1>14, <2>5
  <2>11. r.timeout < Span(1) => f <= now + k + Size[2]
    BY <1>1, <1>5, <1>14, <2>5
  <2>12. r.timeout >= Span(1) => f <= now + k + Turn + Size[2]
    BY <1>1, <2>7
  <2>13. w \in Wheel /\ (w = 0 => r.timeout >= Span(1))
    BY <1>1, <1>21 DEF Wheel
  <2>. QED BY <2>8, <2>9, <2>10, <2>11, <2>12, <2>13
<1>22. CASE w = 1 /\ a >= Span(2) /\ a < Span(1)
  <2>1. k < u
    BY <1>11, <1>12, <1>22
  <2>2. PICK y \in Nat : y = x2 * g /\ y <= mid
    <3>1. g * x2 <= g * u
      BY <1>6, <1>10, Times
    <3>2. g * x2 = x2 * g /\ g * u = u * g /\ x2 * g \in Nat
      BY Times
    <3>. QED BY <1>19, <3>1, <3>2
  <2>3. PICK v \in Nat : v = t /\ v = a + y /\ v < TmrTime
    <3>1. t = a + y
      BY <1>1, <1>10, <1>11, <1>22, <2>2 DEF Low
    <3>2. a < mid
      BY <1>22, <1>20
    <3>. QED BY <1>20, <2>2, <3>1, <3>2
  <2>4. PICK l \in Nat : l = v \div g
    BY <1>7, DivMod
  <2>5. l = k + x2
    <3>1. v \div g = a \div g + x2 /\ v % g = a % g
      BY <1>7, <2>3, <2>2, DivShift, SMTT(30)
    <3>. QED BY <1>2, <1>7, <2>4, <3>1
  <2>6. PICK d \in Nat : d = k \div s2
    BY <1>5, DivMod
  <2>7. PICK m \in Nat : m = l % s2
    BY <1>5, DivMod
  <2>8. PICK e \in Nat : /\ e = (s2 - x2) + d * s2 + m
                         /\ d < s1 /\ k <= e /\ e <= k + s2
    <3>1. AddsOn(k, x2, s2, s1)
      BY <1>6, <1>10, <2>1, AddedOn
    <3>. QED BY <2>5, <2>6, <2>7, <3>1 DEF AddsOn
  <2>9. r.timeout \div Gap[1] = d
    <3>1. PICK z \in Nat : z = s2 * g
      BY Times
    <3>2. /\ z > 0 /\ a % z \in Nat
          /\ a \div z = (a \div g) \div s2
          /\ (a % z) \div g = (a \div g) % s2
      BY <1>5, <1>7, <3>1, DivDiv
    <3>. QED BY <1>1, <1>2, <1>7, <1>11, <2>6, <3>1, <3>2
  <2>10. b = (x1 + d) % s1
    BY <1>4, <1>9, <1>22, <2>9
  <2>11. b \in 0 .. (s1 - 1) /\ Dist(b, x1, s1) = d
    <3>1. /\ (x1 + d) % s1 \in 0 .. (s1 - 1)
          /\ Dist((x1 + d) % s1, x1, s1) = d
      BY <1>9, <2>8, DistOf
    <3>. QED BY <2>10, <3>1
  <2>12. f = (n + (s2 - x2)) + d * s2 + m
    BY <1>4, <1>5, <1>7, <1>9, <1>10, <1>22, <1>14, <2>3, <2>4, <2>7, <2>11
       DEF FireAt, Turn1
  <2>13. f = n + e
    <3>1. d * s2 \in Nat
      BY Times
    <3>. QED BY <1>10, <2>8, <2>12, <3>1
  <2>14. ~(r.timeout >= Span(1))
    BY <1>1, <1>11, <1>22, <1>16
  <2>15. t \in 0 .. (TmrTime - 1)
    BY <2>3, Container
  <2>16. b \in 0 .. (Size[w] - 1)
    <3>1. Size[w] = s1
      BY <1>4, <1>22
    <3>. QED BY <3>1, <2>11
  <2>17. f \in Nat /\ now + k <= f
    BY <1>14, <2>8, <2>13
  <2>18. r.timeout < Span(1) => f <= now + k + Size[2]
    BY <1>1, <1>5, <1>14, <2>8, <2>13
  <2>19. r.timeout >= Span(1) => f <= now + k + Turn + Size[2]
    BY <1>1, <2>14
  <2>20. w \in Wheel /\ (w = 0 => r.timeout >= Span(1))
    BY <1>1, <1>22 DEF Wheel
  <2>. QED BY <2>15, <2>16, <2>17, <2>18, <2>19, <2>20
<1>23. CASE w = 0 /\ a >= Span(1)
  <2>1. k < s0 * u
    BY <1>1, <1>11, <1>12, <1>13
  <2>2. PICK x \in Nat : x = x1 * s2
    BY Times
  <2>3. PICK c \in Nat : c = (s1 - 1 - x1) * s2 /\ x + c + s2 = u
    <3>1. PICK v \in Nat : v = s1 - 1 - x1 /\ s1 = x1 + v + 1
      BY <1>9
    <3>2. (x1 + v + 1) * s2 = x1 * s2 + v * s2 + s2
      OBVIOUS
    <3>3. v * s2 \in Nat
      BY Times
    <3>. QED BY <1>6, <2>2, <3>1, <3>2, <3>3
  <2>4. x < u
    BY <1>5, <2>3
  <2>5. PICK y \in Nat : y = x * g /\ y <= u * g
    <3>1. g * x <= g * u
      BY <2>4, Times
    <3>2. g * x = x * g /\ g * u = u * g /\ x * g \in Nat
      BY Times
    <3>. QED BY <3>1, <3>2
  <2>6. PICK v \in Nat : v = t /\ v = a + y /\ v < TmrTime
    <3>1. x1 * (s2 * g) = y
      BY <2>2, <2>5, Times
    <3>2. t = a + y
      <4>1. t = a + bid[1] * Gap[1]
        BY <1>1, <1>23 DEF Low
      <4>. QED BY <4>1, <1>9, <1>11, <3>1
    <3>3. a < big /\ y <= mid
      BY <1>1, <1>19, <1>20, <2>5
    <3>. QED BY <1>20, <3>2, <3>3
  <2>7. PICK l \in Nat : l = v \div g
    BY <1>7, DivMod
  <2>8. l = k + x
    <3>1. v \div g = a \div g + x /\ v % g = a % g
      BY <1>7, <2>5, <2>6, DivShift, SMTT(30)
    <3>. QED BY <1>2, <1>7, <2>7, <3>1
  <2>9. PICK d \in Nat : d = k \div u
    BY <1>15, DivMod
  <2>10. PICK m \in Nat : m = l % u
    BY <1>15, DivMod
  <2>11. PICK e \in Nat : /\ e = (u - x) + d * u + m
                          /\ d < s0 /\ k <= e /\ e <= k + u
    <3>1. AddsOn(k, x, u, s0)
      BY <2>1, <2>4, AddedOn
    <3>. QED BY <2>8, <2>9, <2>10, <3>1 DEF AddsOn
  <2>12. r.timeout \div Gap[0] = d
    <3>1. PICK z \in Nat : z = u * g
      BY Times
    <3>2. /\ z > 0 /\ a % z \in Nat
          /\ a \div z = (a \div g) \div u
          /\ (a % z) \div g = (a \div g) % u
      BY <1>7, <1>15, <3>1, DivDiv
    <3>. QED BY <1>1, <1>2, <1>7, <1>11, <2>9, <3>1, <3>2
  <2>13. b = (x0 + d) % s0
    BY <1>3, <1>8, <1>23, <2>12
  <2>14. b \in 0 .. (s0 - 1) /\ Dist(b, x0, s0) = d
    <3>1. /\ (x0 + d) % s0 \in 0 .. (s0 - 1)
          /\ Dist((x0 + d) % s0, x0, s0) = d
      BY <1>8, <2>11, DistOf
    <3>. QED BY <2>13, <3>1
  <2>15. f = (n + (s2 - x2)) + c + d * u + s2 + m
    BY <1>3, <1>4, <1>5, <1>6, <1>7, <1>8, <1>9, <1>10, <1>23, <1>14, <2>3, <2>6,
       <2>7, <2>10, <2>14 DEF FireAt, HeldAt, Turn0, Turn1
  <2>16. f = n + e + (s2 - x2)
    <3>1. d * u \in Nat
      BY Times
    <3>. QED BY <1>10, <2>3, <2>11, <2>15, <3>1
  <2>17. ~(r.timeout < Span(1))
    BY <1>1, <1>11, <1>23, <1>16
  <2>18. t \in 0 .. (TmrTime - 1)
    BY <2>6, Container
  <2>19. b \in 0 .. (Size[w] - 1)
    <3>1. Size[w] = s0
      BY <1>3, <1>23
    <3>. QED BY <3>1, <2>14
  <2>20. f \in Nat /\ now + k <= f
    BY <1>10, <1>14, <2>11, <2>16
  <2>21. r.timeout < Span(1) => f <= now + k + Size[2]
    BY <1>1, <2>17
  <2>22. r.timeout >= Span(1) => f <= now + k + Turn + Size[2]
    BY <1>1, <1>5, <1>6, <1>10, <1>14, <2>11, <2>16
  <2>23. w \in Wheel /\ (w = 0 => r.timeout >= Span(1))
    BY <1>1, <1>23 DEF Wheel
  <2>. QED BY <2>18, <2>19, <2>20, <2>21, <2>22, <2>23
<1>. QED BY <1>1, <1>21, <1>22, <1>23, WheelOfIs

-----------------------------------------------------------------------------
(* The end of a tick.                                                       *)

\* The position of the wheels after a tick.
After == [w \in Wheel |-> IF w = Low \/ Turned(w + 1)
                          THEN (bid[w] + 1) % Size[w] ELSE bid[w]]

\* One bucket further, or at the first one again.
LEMMA NextBucket ==
  \A x, s \in Nat : x < s => /\ x + 1 = s => (x + 1) % s = 0
                             /\ x + 1 # s => (x + 1) % s = x + 1
<1>. TAKE x, s \in Nat
<1>. HAVE x < s
<1>1. PICK c \in Nat : c = x + 1
  OBVIOUS
<1>2. CASE c = s
  <2>1. c = s * 1 + 0
    BY <1>2
  <2>2. c % s = 0
    BY <2>1, Unique
  <2>. QED BY <1>1, <1>2, <2>2
<1>3. CASE c # s
  <2>1. c = s * 0 + c /\ c < s
    BY <1>1, <1>3
  <2>2. c % s = c
    BY <2>1, Unique
  <2>. QED BY <1>1, <1>3, <2>2
<1>. QED BY <1>2, <1>3

\* A tick turns wheel 2 by one bucket, wheel 1 when wheel 2 has gone round,
\* and wheel 0 when both have.
LEMMA AfterIs ==
  ASSUME Position(bid)
  PROVE  /\ Position(After)
         /\ Turned(2) <=> bid[2] + 1 = Size[2]
         /\ Turned(1) <=> bid[2] + 1 = Size[2] /\ bid[1] + 1 = Size[1]
         /\ Turned(0) <=> Turned(1) /\ bid[0] + 1 = Size[0]
         /\ Turned(2) => After[2] = 0
         /\ ~Turned(2) => After[2] = bid[2] + 1 /\ After[1] = bid[1]
         /\ Turned(1) => After[1] = 0
         /\ Turned(2) /\ ~Turned(1) => After[1] = bid[1] + 1
         /\ ~Turned(1) => After[0] = bid[0]
         /\ Turned(0) => After[0] = 0
         /\ Turned(1) /\ ~Turned(0) => After[0] = bid[0] + 1
<1>1. \A w \in Wheel : /\ bid[w] \in Nat /\ Size[w] \in Nat /\ bid[w] < Size[w]
                       /\ bid[w] = Size[w] - 1 <=> bid[w] + 1 = Size[w]
  BY Container DEF Position
<1>2. /\ Turned(2) <=> bid[2] + 1 = Size[2]
      /\ Turned(1) <=> bid[2] + 1 = Size[2] /\ bid[1] + 1 = Size[1]
      /\ Turned(0) <=> Turned(1) /\ bid[0] + 1 = Size[0]
  <2>1. 2 .. Low = {2} /\ 1 .. Low = {1, 2} /\ 0 .. Low = {0, 1, 2}
    BY DEF Low
  <2>. QED BY <1>1, <2>1 DEF Turned, Wheel
<1>3. /\ After[2] = (bid[2] + 1) % Size[2]
      /\ After[1] = IF Turned(2) THEN (bid[1] + 1) % Size[1] ELSE bid[1]
      /\ After[0] = IF Turned(1) THEN (bid[0] + 1) % Size[0] ELSE bid[0]
  <2>1. 0 \in Wheel /\ 1 \in Wheel /\ 2 \in Wheel
    BY DEF Wheel
  <2>2. 0 # Low /\ 1 # Low /\ 0 + 1 = 1 /\ 1 + 1 = 2
    BY DEF Low
  <2>. QED BY <2>1, <2>2 DEF After, Low
<1>4. \A w \in Wheel : /\ bid[w] + 1 = Size[w] => (bid[w] + 1) % Size[w] = 0
                       /\ bid[w] + 1 # Size[w] => (bid[w] + 1) % Size[w] = bid[w] + 1
  BY <1>1, NextBucket
<1>5. \A w \in Wheel : w = 0 \/ w = 1 \/ w = 2
  BY DEF Wheel
<1>6. /\ Turned(2) => After[2] = 0
      /\ ~Turned(2) => After[2] = bid[2] + 1 /\ After[1] = bid[1]
  BY <1>2, <1>3, <1>4 DEF Wheel
<1>7. /\ Turned(1) => After[1] = 0
      /\ Turned(2) /\ ~Turned(1) => After[1] = bid[1] + 1
  BY <1>2, <1>3, <1>4 DEF Wheel
<1>8. /\ ~Turned(1) => After[0] = bid[0]
      /\ Turned(0) => After[0] = 0
      /\ Turned(1) /\ ~Turned(0) => After[0] = bid[0] + 1
  BY <1>2, <1>3, <1>4 DEF Wheel
<1>9. Position(After)
  <2>1. After[2] \in Nat /\ After[2] < Size[2]
    BY <1>1, <1>2, <1>6 DEF Wheel
  <2>2. After[1] \in Nat /\ After[1] < Size[1]
    BY <1>1, <1>2, <1>6, <1>7 DEF Wheel
  <2>3. After[0] \in Nat /\ After[0] < Size[0]
    BY <1>1, <1>2, <1>8 DEF Wheel
  <2>. QED BY <1>5, <2>1, <2>2, <2>3 DEF Position
<1>. QED BY <1>2, <1>6, <1>7, <1>8, <1>9

\* The ends of the turns are where they were, until they have come.
LEMMA AfterTurns ==
  ASSUME Position(bid), now \in Nat
  PROVE  /\ Turn1(now, bid) \in Nat /\ Turn0(now, bid) \in Nat
         /\ Turned(2) => /\ Turn1(now, bid) = now + 1
                         /\ Turn1(now + 1, After) = now + 1 + Size[2]
         /\ ~Turned(2) => Turn1(now + 1, After) = Turn1(now, bid)
         /\ Turned(1) => /\ Turn0(now, bid) = now + 1
                         /\ Turn0(now + 1, After) = now + 1 + Turn
         /\ ~Turned(1) => Turn0(now + 1, After) = Turn0(now, bid)
<1>1. PICK n \in Nat : n = now
  OBVIOUS
<1>2. PICK s1 \in Nat : s1 = Size[1] /\ s1 > 0
  BY Container DEF Wheel
<1>3. PICK s2 \in Nat : s2 = Size[2] /\ s2 > 0
  BY Container DEF Wheel
<1>4. PICK x1 \in Nat : x1 = bid[1] /\ x1 < s1
  BY <1>2 DEF Position, Wheel
<1>5. PICK x2 \in Nat : x2 = bid[2] /\ x2 < s2
  BY <1>3 DEF Position, Wheel
<1>6. PICK v \in Nat : v = s1 - 1 - x1
  BY <1>4
<1>7. PICK z \in Nat : z = v * s2
  BY Times
<1>8. Turn1(now, bid) = n + (s2 - x2) /\ Turn0(now, bid) = n + (s2 - x2) + z
  BY <1>1, <1>2, <1>3, <1>4, <1>5, <1>6, <1>7 DEF Turn0, Turn1
<1>9. /\ Turned(2) <=> x2 + 1 = s2
      /\ Turned(1) <=> x2 + 1 = s2 /\ x1 + 1 = s1
  BY <1>2, <1>3, <1>4, <1>5, AfterIs
<1>10. Turned(2) => /\ Turn1(now, bid) = now + 1
                    /\ Turn1(now + 1, After) = now + 1 + Size[2]
  BY <1>1, <1>3, <1>5, <1>8, <1>9, AfterIs DEF Turn1
<1>11. ~Turned(2) => Turn1(now + 1, After) = Turn1(now, bid)
  BY <1>1, <1>3, <1>5, <1>8, <1>9, AfterIs DEF Turn1
<1>12. Turned(1) => /\ Turn0(now, bid) = now + 1
                    /\ Turn0(now + 1, After) = now + 1 + Turn
  <2>. SUFFICES ASSUME Turned(1)
                PROVE  /\ Turn0(now, bid) = now + 1
                       /\ Turn0(now + 1, After) = now + 1 + Turn
    OBVIOUS
  <2>1. v = 0 /\ z = 0
    BY <1>6, <1>7, <1>9
  <2>2. Turn0(now, bid) = now + 1
    BY <1>1, <1>5, <1>8, <1>9, <2>1
  <2>3. Turn0(now + 1, After) = (n + 1 + s2) + (s1 - 1) * s2
    BY <1>1, <1>2, <1>3, <1>9, <1>10, AfterIs DEF Turn0
  <2>4. (s1 - 1) * s2 + s2 = s1 * s2
    <3>1. PICK c \in Nat : s1 = c + 1
      BY <1>2, s1 - 1 \in Nat, s1 = (s1 - 1) + 1
    <3>2. (c + 1) * s2 = c * s2 + s2
      OBVIOUS
    <3>. QED BY <3>1, <3>2
  <2>5. (s1 - 1) * s2 \in Int /\ s1 * s2 \in Int
    OBVIOUS
  <2>. QED BY <1>1, <1>2, <1>3, <2>2, <2>3, <2>4, <2>5 DEF Turn
<1>13. ~Turned(1) => Turn0(now + 1, After) = Turn0(now, bid)
  <2>1. CASE ~Turned(2)
    BY <1>1, <1>11, <2>1, AfterIs DEF Turn0
  <2>2. CASE Turned(2) /\ ~Turned(1)
    <3>1. PICK c \in Nat : v = c + 1
      BY <1>6, <1>4, <1>9, <2>2, v - 1 \in Nat, v = (v - 1) + 1
    <3>2. (c + 1) * s2 = c * s2 + s2 /\ c * s2 \in Nat
      BY Times
    <3>3. Turn0(now + 1, After) = (n + 1 + s2) + c * s2
      <4>1. After[1] = x1 + 1
        BY <1>4, <2>2, AfterIs
      <4>2. Size[1] - 1 - After[1] = c
        BY <1>2, <1>6, <3>1, <4>1
      <4>. QED BY <1>1, <1>3, <1>10, <2>2, <4>2 DEF Turn0
    <3>. QED BY <1>5, <1>7, <1>8, <1>9, <2>2, <3>1, <3>2, <3>3
  <2>. QED BY <2>1, <2>2
<1>. QED BY <1>1, <1>5, <1>8, <1>10, <1>11, <1>12, <1>13

\* A node of wheel 2 that is not called back in this tick comes a bucket
\* nearer.
LEMMA TickLow ==
  ASSUME Position(bid), now \in Nat,
         NEW b \in Nat, b < Size[2], b # bid[2], NEW l
  PROVE  FireAt(now + 1, After, 2, b, l) = FireAt(now, bid, 2, b, l)
<1>1. PICK s2 \in Nat : s2 = Size[2] /\ s2 > 0
  BY Container DEF Wheel
<1>2. PICK x2 \in Nat : x2 = bid[2] /\ x2 < s2
  BY <1>1 DEF Position, Wheel
<1>3. Dist(b, x2, s2) = Dist(b, After[2], s2) + 1
  <2>1. CASE x2 + 1 = s2
    <3>1. After[2] = 0
      BY <1>1, <1>2, <2>1, AfterIs
    <3>. QED BY <1>1, <1>2, <2>1, <3>1 DEF Dist
  <2>2. CASE x2 + 1 # s2
    <3>1. After[2] = x2 + 1
      BY <1>1, <1>2, <2>2, AfterIs
    <3>. QED BY <1>1, <1>2, <2>2, <3>1 DEF Dist
  <2>. QED BY <2>1, <2>2
<1>4. PICK y2 \in Nat : y2 = After[2] /\ y2 < s2
  BY <1>1, AfterIs DEF Position, Wheel
<1>5. /\ FireAt(now + 1, After, 2, b, l) = (now + 1) + Dist(b, y2, s2)
      /\ FireAt(now, bid, 2, b, l) = now + Dist(b, x2, s2)
  BY <1>1, <1>2, <1>4 DEF FireAt
<1>6. Dist(b, y2, s2) \in Int /\ Dist(b, x2, s2) \in Int
  BY <1>1, <1>2, <1>4 DEF Dist
<1>. QED BY <1>3, <1>4, <1>5, <1>6

\* A node of wheel 1 that stays where it is.
LEMMA TickMiddle ==
  ASSUME Position(bid), now \in Nat,
         NEW b \in Nat, b < Size[1], NEW l \in Nat, ~(Turned(2) /\ b = bid[1])
  PROVE  FireAt(now + 1, After, 1, b, l) = FireAt(now, bid, 1, b, l)
<1>1. PICK s1 \in Nat : s1 = Size[1] /\ s1 > 0
  BY Container DEF Wheel
<1>2. PICK s2 \in Nat : s2 = Size[2] /\ s2 > 0
  BY Container DEF Wheel
<1>3. PICK x1 \in Nat : x1 = bid[1] /\ x1 < s1
  BY <1>1 DEF Position, Wheel
<1>4. PICK y1 \in Nat : y1 = After[1] /\ y1 < s1
  BY <1>1, AfterIs DEF Position, Wheel
<1>5. PICK d \in Nat : d = Dist(b, x1, s1)
  BY <1>1, <1>3 DEF Dist
<1>6. PICK c \in Nat : c = Dist(b, y1, s1)
  BY <1>1, <1>4 DEF Dist
<1>7. PICK m \in Nat : m = l % s2
  BY <1>2, DivMod
<1>8. /\ FireAt(now + 1, After, 1, b, l) = Turn1(now + 1, After) + c * s2 + m
      /\ FireAt(now, bid, 1, b, l) = Turn1(now, bid) + d * s2 + m
  BY <1>1, <1>2, <1>3, <1>4, <1>5, <1>6, <1>7 DEF FireAt
<1>9. CASE ~Turned(2)
  <2>1. c = d
    BY <1>3, <1>4, <1>5, <1>6, <1>9, AfterIs
  <2>. QED BY <1>8, <1>9, <2>1, AfterTurns
<1>10. CASE Turned(2)
  <2>1. b # x1
    BY <1>3, <1>10
  <2>2. d = c + 1
    <3>1. CASE x1 + 1 = s1
      <4>1. y1 = 0
        BY <1>1, <1>3, <1>4, <1>10, <3>1, AfterIs
      <4>. QED BY <1>1, <1>3, <1>5, <1>6, <2>1, <3>1, <4>1 DEF Dist
    <3>2. CASE x1 + 1 # s1
      <4>1. y1 = x1 + 1
        BY <1>1, <1>3, <1>4, <1>10, <3>2, AfterIs
      <4>. QED BY <1>1, <1>3, <1>5, <1>6, <2>1, <3>2, <4>1 DEF Dist
    <3>. QED BY <3>1, <3>2
  <2>3. (c + 1) * s2 = c * s2 + s2 /\ c * s2 \in Nat
    BY Times
  <2>4. /\ Turn1(now, bid) = now + 1
        /\ Turn1(now + 1, After) = now + 1 + s2
    BY <1>2, <1>10, AfterTurns
  <2>. QED BY <1>8, <2>2, <2>3, <2>4
<1>. QED BY <1>9, <1>10

\* A node of wheel 0 that stays where it is.
LEMMA TickHigh ==
  ASSUME Position(bid), now \in Nat,
         NEW b \in Nat, b < Size[0], ~(Turned(1) /\ b = bid[0])
  PROVE  HeldAt(now + 1, After, b) = HeldAt(now, bid, b)
<1>1. PICK s0 \in Nat : s0 = Size[0] /\ s0 > 0
  BY Container DEF Wheel
<1>2. PICK s2 \in Nat : s2 = Size[2] /\ s2 > 0
  BY Container DEF Wheel
<1>3. PICK u \in Nat : u = Turn
  BY Container
<1>4. PICK x0 \in Nat : x0 = bid[0] /\ x0 < s0
  BY <1>1 DEF Position, Wheel
<1>5. PICK y0 \in Nat : y0 = After[0] /\ y0 < s0
  BY <1>1, AfterIs DEF Position, Wheel
<1>6. PICK d \in Nat : d = Dist(b, x0, s0)
  BY <1>1, <1>4 DEF Dist
<1>7. PICK c \in Nat : c = Dist(b, y0, s0)
  BY <1>1, <1>5 DEF Dist
<1>8. /\ HeldAt(now + 1, After, b) = Turn0(now + 1, After) + c * u + s2
      /\ HeldAt(now, bid, b) = Turn0(now, bid) + d * u + s2
  BY <1>1, <1>2, <1>3, <1>4, <1>5, <1>6, <1>7 DEF HeldAt
<1>9. CASE ~Turned(1)
  <2>1. c = d
    BY <1>4, <1>5, <1>6, <1>7, <1>9, AfterIs
  <2>. QED BY <1>8, <1>9, <2>1, AfterTurns
<1>10. CASE Turned(1)
  <2>1. b # x0
    BY <1>4, <1>10
  <2>2. d = c + 1
    <3>1. CASE x0 + 1 = s0
      <4>1. y0 = 0
        BY <1>1, <1>4, <1>5, <1>10, <3>1, AfterIs
      <4>. QED BY <1>1, <1>4, <1>6, <1>7, <2>1, <3>1, <4>1 DEF Dist
    <3>2. CASE x0 + 1 # s0
      <4>1. y0 = x0 + 1
        BY <1>1, <1>4, <1>5, <1>10, <3>2, AfterIs
      <4>. QED BY <1>1, <1>4, <1>6, <1>7, <2>1, <3>2, <4>1 DEF Dist
    <3>. QED BY <3>1, <3>2
  <2>3. (c + 1) * u = c * u + u /\ c * u \in Nat
    BY Times
  <2>4. /\ Turn0(now, bid) = now + 1
        /\ Turn0(now + 1, After) = now + 1 + u
    BY <1>3, <1>10, AfterTurns
  <2>. QED BY <1>8, <2>2, <2>3, <2>4
<1>. QED BY <1>9, <1>10

\* A node that goes from wheel 1 down to wheel 2.
LEMMA DownMiddle ==
  ASSUME Position(bid), now \in Nat, Turned(2), NEW a \in Nat,
         NEW c, c = a % Span(2), NEW b, b = c \div Gap[2]
  PROVE  /\ c \in Nat /\ c <= a
         /\ b \in 0 .. (Size[2] - 1)
         /\ FireAt(now + 1, After, 2, b, c \div G) = FireAt(now, bid, 1, bid[1], a \div G)
<1>1. PICK s1 \in Nat : s1 = Size[1] /\ s1 > 0
  BY Container DEF Wheel
<1>2. PICK s2 \in Nat : s2 = Size[2] /\ s2 > 0
  BY Container DEF Wheel
<1>3. PICK g \in Nat : g = G /\ g > 0
  BY Container
<1>4. PICK z \in Nat : z = s2 * g /\ z = Span(2)
  BY <1>2, <1>3, Container, Times
<1>5. PICK l \in Nat : l = a \div g
  BY <1>3, DivMod
<1>6. PICK m \in Nat : m = l % s2 /\ m < s2
  BY <1>2, DivMod
<1>7. /\ z > 0 /\ a % z \in Nat
      /\ a \div z = (a \div g) \div s2
      /\ (a % z) \div g = (a \div g) % s2
  BY <1>2, <1>3, <1>4, DivDiv
<1>8. c = a % z /\ c \in Nat
  BY <1>4, <1>7
<1>9. c <= a
  <2>1. PICK p \in Nat : p = a \div z
    BY <1>7, DivMod
  <2>2. a = z * (a \div z) + (a % z)
    BY <1>7, DivMod
  <2>3. z * p \in Nat
    BY Times
  <2>. QED BY <1>7, <1>8, <2>1, <2>2, <2>3
<1>10. b = m
  BY <1>3, <1>5, <1>6, <1>7, <1>8, Container
<1>11. FireAt(now + 1, After, 2, b, c \div G) = now + 1 + m
  <2>1. After[2] = 0
    BY AfterIs
  <2>2. Dist(m, 0, s2) = m
    BY <1>6 DEF Dist
  <2>. QED BY <1>2, <1>10, <2>1, <2>2 DEF FireAt
<1>12. FireAt(now, bid, 1, bid[1], a \div G) = now + 1 + m
  <2>1. PICK x1 \in Nat : x1 = bid[1]
    BY DEF Position, Wheel
  <2>2. Dist(x1, x1, s1) = 0
    BY <1>1, <2>1 DEF Dist
  <2>3. Turn1(now, bid) = now + 1
    BY AfterTurns
  <2>4. FireAt(now, bid, 1, bid[1], a \div G) = Turn1(now, bid) + 0 * s2 + m
    BY <1>1, <1>2, <1>3, <1>5, <1>6, <2>1, <2>2 DEF FireAt
  <2>. QED BY <2>3, <2>4
<1>. QED BY <1>2, <1>6, <1>8, <1>9, <1>10, <1>11, <1>12

\* A node of wheel 0 when its bucket is distributed: its tick is one turn of
\* wheel 2 and what its time_left is beyond a turn of the wheels 1 and 2 away.
LEMMA LeavesHigh ==
  ASSUME Position(bid), now \in Nat, Turned(1), NEW l \in Nat
  PROVE  /\ HeldAt(now, bid, bid[0]) = now + 1 + Size[2]
         /\ FireAt(now, bid, 0, bid[0], l) = now + 1 + Size[2] + (l % Turn)
         /\ l % Turn \in Nat /\ l % Turn < Turn
<1>1. PICK s0 \in Nat : s0 = Size[0] /\ s0 > 0
  BY Container DEF Wheel
<1>2. PICK s2 \in Nat : s2 = Size[2] /\ s2 > 0
  BY Container DEF Wheel
<1>3. PICK u \in Nat : u = Turn /\ u > 0
  BY Container
<1>4. PICK x0 \in Nat : x0 = bid[0]
  BY DEF Position, Wheel
<1>5. Dist(x0, x0, s0) = 0
  BY <1>1, <1>4 DEF Dist
<1>6. Turn0(now, bid) = now + 1
  BY AfterTurns
<1>7. HeldAt(now, bid, bid[0]) = (now + 1) + 0 * u + s2
  BY <1>1, <1>2, <1>3, <1>4, <1>5, <1>6 DEF HeldAt
<1>8. HeldAt(now, bid, bid[0]) = now + 1 + s2
  BY <1>7
<1>9. FireAt(now, bid, 0, bid[0], l) = now + 1 + s2 + (l % Turn)
  BY <1>8 DEF FireAt
<1>10. l % u \in Nat /\ l % u < u
  BY <1>3, DivMod
<1>. QED BY <1>2, <1>3, <1>8, <1>9, <1>10

\* A node that goes from wheel 0 down to wheel 1 keeps its tick, when bucket
\* and rest say what its time_left is beyond a turn of the wheels 1 and 2.
LEMMA EntersMiddle ==
  ASSUME Position(bid), now \in Nat, Turned(1), NEW l \in Nat, NEW h \in Nat,
         NEW b \in Nat, b < Size[1], b * Size[2] + (h % Size[2]) = l % Turn
  PROVE  FireAt(now + 1, After, 1, b, h) = FireAt(now, bid, 0, bid[0], l)
<1>1. PICK s1 \in Nat : s1 = Size[1] /\ s1 > 0
  BY Container DEF Wheel
<1>2. PICK s2 \in Nat : s2 = Size[2] /\ s2 > 0
  BY Container DEF Wheel
<1>3. After[1] = 0 /\ Turned(2)
  BY AfterIs
<1>4. Dist(b, 0, s1) = b
  BY <1>1 DEF Dist
<1>5. Turn1(now + 1, After) = now + 1 + s2
  BY <1>2, <1>3, AfterTurns
<1>6. PICK m \in Nat : m = h % s2
  BY <1>2, DivMod
<1>7. FireAt(now + 1, After, 1, b, h) = (now + 1 + s2) + b * s2 + m
  BY <1>1, <1>2, <1>3, <1>4, <1>5, <1>6 DEF FireAt
<1>8. PICK y \in Nat : y = b * s2
  BY Times
<1>9. l % Turn = y + m
  BY <1>2, <1>6, <1>8
<1>10. FireAt(now, bid, 0, bid[0], l) = now + 1 + s2 + (y + m)
  BY <1>2, <1>9, LeavesHigh
<1>. QED BY <1>7, <1>8, <1>10

\* A node that goes from wheel 0 down to wheel 1 by its time_left.
LEMMA DownHigh ==
  ASSUME Position(bid), now \in Nat, Turned(1), NEW a \in Nat,
         NEW c, c = a % Span(1), NEW b, b = c \div Gap[1]
  PROVE  /\ c \in Nat /\ c <= a
         /\ b \in 0 .. (Size[1] - 1)
         /\ FireAt(now + 1, After, 1, b, c \div G) = FireAt(now, bid, 0, bid[0], a \div G)
<1>1. PICK s1 \in Nat : s1 = Size[1] /\ s1 > 0
  BY Container DEF Wheel
<1>2. PICK s2 \in Nat : s2 = Size[2] /\ s2 > 0
  BY Container DEF Wheel
<1>3. PICK g \in Nat : g = G /\ g > 0
  BY Container
<1>4. PICK u \in Nat : u = Turn /\ u > 0 /\ u = s1 * s2
  BY <1>1, <1>2, Container
<1>5. PICK z \in Nat : z = u * g /\ z = Span(1)
  BY <1>3, <1>4, Container, Times
<1>6. PICK l \in Nat : l = a \div g
  BY <1>3, DivMod
<1>7. /\ z > 0 /\ a % z \in Nat
      /\ a \div z = (a \div g) \div u
      /\ (a % z) \div g = (a \div g) % u
  BY <1>3, <1>4, <1>5, DivDiv
<1>8. PICK e \in Nat : e = c /\ e = a % z
  BY <1>5, <1>7
<1>9. e <= a
  <2>1. PICK p \in Nat : p = a \div z
    BY <1>7, DivMod
  <2>2. a = z * (a \div z) + (a % z)
    BY <1>7, DivMod
  <2>3. z * p \in Nat
    BY Times
  <2>. QED BY <1>7, <1>8, <2>1, <2>2, <2>3
<1>10. PICK h \in Nat : h = e \div g
  BY <1>3, DivMod
<1>11. h = l % u
  BY <1>6, <1>7, <1>8, <1>10
<1>12. h < u
  BY <1>4, <1>11, DivMod
<1>13. PICK d \in Nat : d = h \div s2
  BY <1>2, DivMod
<1>14. b = d
  <2>1. PICK y \in Nat : y = s2 * g
    BY Times
  <2>2. /\ y > 0 /\ e % y \in Nat
        /\ e \div y = (e \div g) \div s2
        /\ (e % y) \div g = (e \div g) % s2
    BY <1>2, <1>3, <2>1, DivDiv
  <2>3. Gap[1] = y
    BY <1>2, <1>3, <2>1, Container
  <2>. QED BY <1>8, <1>10, <1>13, <2>2, <2>3
<1>15. d < s1
  <2>1. h < s1 * s2
    BY <1>4, <1>12
  <2>. QED BY <1>2, <1>13, <2>1, DivBelow
<1>16. d * s2 + (h % s2) = l % u
  <2>1. h = s2 * (h \div s2) + (h % s2)
    BY <1>2, DivMod
  <2>2. s2 * d = d * s2 /\ d * s2 \in Nat
    BY Times
  <2>. QED BY <1>11, <1>13, <2>1, <2>2
<1>17. FireAt(now + 1, After, 1, d, h) = FireAt(now, bid, 0, bid[0], l)
  BY <1>1, <1>2, <1>4, <1>15, <1>16, EntersMiddle
<1>. QED BY <1>1, <1>3, <1>6, <1>8, <1>9, <1>10, <1>14, <1>15, <1>17

\* A node of the last bucket of wheel 0: with less than the range left after
\* the range was taken off, it had more than the range.
LEMMA ResidualIs ==
  ASSUME Position(bid), now \in Nat, Turned(1), NEW a \in Nat, a < TmrTime,
         NEW c, c = Sub(a, Span(0))
  PROVE  /\ c \in 0 .. (TmrTime - 1) /\ Span(0) \in Nat
         /\ c < Span(0) =>
              LET b == (c \div Gap[1]) % Size[1]
              IN  /\ b \in 0 .. (Size[1] - 1)
                  /\ FireAt(now + 1, After, 1, b, c \div G)
                       = FireAt(now, bid, 0, bid[0], a \div G)
<1>1. PICK s0 \in Nat : s0 = Size[0] /\ s0 > 0
  BY Container DEF Wheel
<1>2. PICK s1 \in Nat : s1 = Size[1] /\ s1 > 0
  BY Container DEF Wheel
<1>3. PICK s2 \in Nat : s2 = Size[2] /\ s2 > 0
  BY Container DEF Wheel
<1>4. PICK g \in Nat : g = G /\ g > 0
  BY Container
<1>5. PICK u \in Nat : u = Turn /\ u > 0 /\ u = s1 * s2
  BY <1>2, <1>3, Container
<1>6. PICK q \in Nat : q = s0 * u
  BY Times
<1>7. PICK z \in Nat : z = q * g
  BY Times
<1>8. Span(0) = z /\ z > 0 /\ TmrTime \in Nat /\ z < TmrTime /\ 2 * z <= TmrTime
  <2>1. Span(0) = z /\ 2 * z <= TmrTime /\ TmrTime \in Nat
    BY <1>1, <1>4, <1>5, <1>6, <1>7, Container
  <2>2. q > 0
    BY <1>1, <1>5, <1>6, Positive
  <2>3. z > 0
    BY <1>4, <1>7, <2>2, Positive
  <2>. QED BY <2>1, <2>3
<1>9. c \in 0 .. (TmrTime - 1)
  BY <1>8, SubIs
<1>10. ASSUME c < z
       PROVE  LET b == (c \div Gap[1]) % Size[1]
              IN  /\ b \in 0 .. (Size[1] - 1)
                  /\ FireAt(now + 1, After, 1, b, c \div G)
                       = FireAt(now, bid, 0, bid[0], a \div G)
  <2>1. PICK e \in Nat : e = c /\ a = e + q * g
    <3>1. /\ z <= a => c = a - z
          /\ z > a => c = a - z + TmrTime
      BY <1>8, SubIs
    <3>. QED BY <1>7, <1>8, <1>9, <1>10, <3>1
  <2>2. PICK h \in Nat : h = e \div g
    BY <1>4, DivMod
  <2>3. PICK l \in Nat : l = a \div g
    BY <1>4, DivMod
  <2>4. l = h + q
    <3>1. g > 0
      BY <1>4
    <3>2. a = e + q * g
      BY <2>1
    <3>3. Shifted(e, a, g, q)
      BY <3>1, <3>2, DivShifted
    <3>. QED BY <2>2, <2>3, <3>3 DEF Shifted
  <2>5. l % u = h % u
    <3>1. l = h + s0 * u
      BY <1>6, <2>4
    <3>2. l \div u = h \div u + s0 /\ l % u = h % u
      BY <1>5, <3>1, DivShift
    <3>. QED BY <3>2
  <2>6. PICK d \in Nat : d = h \div s2
    BY <1>3, DivMod
  <2>7. PICK b \in Nat : b = d % s1 /\ b < s1
    BY <1>2, DivMod
  <2>8. (c \div Gap[1]) % Size[1] = b
    <3>1. PICK y \in Nat : y = s2 * g
      BY Times
    <3>2. /\ y > 0 /\ e % y \in Nat
          /\ e \div y = (e \div g) \div s2
          /\ (e % y) \div g = (e \div g) % s2
      BY <1>3, <1>4, <3>1, DivDiv
    <3>3. Gap[1] = y
      BY <1>3, <1>4, <3>1, Container
    <3>. QED BY <1>2, <2>1, <2>2, <2>6, <2>7, <3>2, <3>3
  <2>9. b * s2 + (h % s2) = l % u
    <3>1. s1 > 0 /\ s2 > 0 /\ u = s1 * s2
      BY <1>2, <1>3, <1>5
    <3>2. LowDigits(h, s1, s2, u)
      BY <3>1, TwoLowDigits
    <3>. QED BY <2>5, <2>6, <2>7, <3>2 DEF LowDigits
  <2>10. FireAt(now + 1, After, 1, b, h) = FireAt(now, bid, 0, bid[0], l)
    BY <1>2, <1>3, <1>5, <2>7, <2>9, EntersMiddle
  <2>11. b \in 0 .. (Size[1] - 1)
    BY <1>2, <2>7
  <2>12. c \div G = h /\ a \div G = l
    BY <1>4, <2>1, <2>2, <2>3
  <2>. QED BY <2>8, <2>10, <2>11, <2>12
<1>. QED BY <1>8, <1>9, <1>10

\* A node that is left in the last bucket of wheel 0 leaves it a whole turn of
\* that wheel later: not before it would have been called back.
LEMMA StaysHigh ==
  ASSUME Position(bid), now \in Nat, Turned(0), NEW l \in Nat
  PROVE  /\ bid[0] = Size[0] - 1
         /\ HeldAt(now, bid, bid[0]) <= HeldAt(now + 1, After, bid[0])
         /\ FireAt(now, bid, 0, bid[0], l) <= HeldAt(now + 1, After, bid[0])
         /\ HeldAt(now, bid, bid[0]) \in Nat
         /\ HeldAt(now + 1, After, bid[0]) \in Nat
         /\ FireAt(now, bid, 0, bid[0], l) \in Nat
<1>1. PICK s0 \in Nat : s0 = Size[0] /\ s0 > 0
  BY Container DEF Wheel
<1>2. PICK s2 \in Nat : s2 = Size[2] /\ s2 > 0
  BY Container DEF Wheel
<1>3. PICK u \in Nat : u = Turn /\ u > 0
  BY Container
<1>4. PICK x0 \in Nat : x0 = bid[0] /\ x0 < s0
  BY <1>1 DEF Position, Wheel
<1>5. Turned(1) /\ x0 + 1 = s0 /\ After[0] = 0
  BY <1>1, <1>4, AfterIs
<1>6. PICK d \in Nat : d = Dist(x0, 0, s0)
  BY <1>1, <1>4 DEF Dist
<1>7. Turn0(now + 1, After) = now + 1 + u
  BY <1>3, <1>5, AfterTurns
<1>8. HeldAt(now + 1, After, x0) = (now + 1 + u) + d * u + s2
  BY <1>1, <1>2, <1>3, <1>5, <1>6, <1>7 DEF HeldAt
<1>9. d * u \in Nat
  BY Times
<1>10. PICK m \in Nat : m = l % u /\ m < u
  BY <1>3, DivMod
<1>11. /\ HeldAt(now, bid, x0) = now + 1 + s2
       /\ FireAt(now, bid, 0, x0, l) = now + 1 + s2 + m
  BY <1>2, <1>3, <1>4, <1>5, <1>10, LeavesHigh
<1>12. PICK n \in Nat : n = now
  OBVIOUS
<1>. QED BY <1>1, <1>4, <1>5, <1>8, <1>9, <1>10, <1>11, <1>12

-----------------------------------------------------------------------------
(* The invariant.                                                           *)

\* The types of the variables.
Types ==
  /\ now \in 0 .. MaxTick
  /\ Position(bid)
  /\ where \in [Timer -> Wheel \X Int]
  /\ left \in [Timer -> 0 .. (TmrTime - 1)]
  /\ req \in [Timer -> [timeout : Nat, periodic : BOOLEAN]]
  /\ life \in [Timer -> {"new", "armed", "callback", "done"}]
  /\ due \in [Timer -> Nat] /\ fired \in [Timer -> Nat]
  /\ stopped \subseteq Timer /\ stops \subseteq Timer
  /\ halted \subseteq Timer /\ held \subseteq Timer
  /\ phase \in {"idle", "expire", "callback"}

\* A linked node is in a bucket of its wheel, any other in none.
InBucket == \A i \in Timer : IF life[i] = "armed"
                             THEN where[i][2] \in 0 .. (Size[where[i][1]] - 1)
                             ELSE where[i] = None

\* What nodes were started with.
Requests == \A i \in Timer : IF life[i] = "new"
                             THEN req[i] = [timeout |-> 0, periodic |-> FALSE]
                             ELSE req[i] \in Request

\* One callback at a time, in the phase for it, and no tick beyond the bound.
Phases == /\ \A i, j \in Calling : i = j
          /\ phase = "callback" <=> Calling # {}
          /\ phase # "idle" => now < MaxTick

\* What is stopped was started; a stopped timer that is still linked is marked
\* and in the bucket that is worked off, a stopped periodic timer in its
\* callback is marked.
Halted ==
  /\ stopped \subseteq halted
  /\ \A i \in Timer : i \in halted \/ i \in stops \/ i \in held => life[i] # "new"
  /\ \A i \in halted : life[i] = "armed" => i \in stopped /\ i \in InExpiry
  /\ \A i \in halted : life[i] = "callback" /\ req[i].periodic => i \in stopped

\* A linked timer will not be called back early, nor, unless it was left in
\* the last bucket of wheel 0, more than LateOf late; one that was left there
\* at least leaves it no sooner than one turn of wheel 2 before it is due.
Timely(i) ==
  /\ where[i][1] = 0 \/ i \in held => req[i].timeout >= Span(1)
  /\ where[i][1] = 0 /\ i \in held => due[i] <= HeldAt(now, bid, where[i][2])
  /\ ~(where[i][1] = 0 /\ i \in held) => due[i] <= Fire(i)
  /\ i \notin held => Fire(i) <= due[i] + LateOf(req[i])

OnTime == \A i \in Timer : life[i] = "armed" => Timely(i)

\* A periodic timer in its callback is due an interval later.
NextDue == \A i \in Calling :
             req[i].periodic => due[i] = now + req[i].timeout \div G

Inv == Types /\ InBucket /\ Requests /\ Phases /\ Halted /\ NextDue /\ OnTime

-----------------------------------------------------------------------------
(* The steps keep the invariant.                                            *)

\* Initially no timer is started.
LEMMA InitInv == Init => Inv
<1>. SUFFICES ASSUME Init
              PROVE  Inv
  OBVIOUS
<1>1. Position(bid)
  BY Container DEF Init, Position
<1>2. 0 \in 0 .. (TmrTime - 1)
  <2>1. Span(0) \in Nat /\ Span(0) > 0
    <3>1. PICK q \in Nat : q = Size[0] * Turn /\ q > 0
      BY Container
    <3>2. PICK g \in Nat : g = G /\ g > 0
      BY Container
    <3>3. q * g > 0 /\ q * g \in Nat
      BY <3>1, <3>2, Positive, Times
    <3>. QED BY <3>1, <3>2, <3>3, Container
  <2>. QED BY <2>1, Container
<1>3. None \in Wheel \X Int
  BY DEF None, Wheel, Low
<1>4. now \in 0 .. MaxTick
  BY TimerAssumption DEF Init
<1>5. Types
  BY <1>1, <1>2, <1>3, <1>4 DEF Init, Types
<1>6. InBucket /\ Requests /\ OnTime
  BY DEF Init, InBucket, Requests, OnTime
<1>7. Phases
  BY DEF Init, Phases, Calling
<1>8. Halted
  BY DEF Init, Halted
<1>9. NextDue
  BY DEF Init, NextDue, Calling
<1>. QED BY <1>5, <1>6, <1>7, <1>8, <1>9 DEF Inv

\* A timer that a step leaves alone remains on time.
LEMMA TimelySame ==
  ASSUME NEW k, Timely(k), now' = now, bid' = bid,
         where'[k] = where[k], left'[k] = left[k], req'[k] = req[k],
         due'[k] = due[k], k \in held' <=> k \in held
  PROVE  Timely(k)'
<1>1. Fire(k)' = Fire(k)
  BY DEF Fire
<1>2. HeldAt(now, bid, where[k][2])' = HeldAt(now, bid, where[k][2])
  OBVIOUS
<1>. QED BY <1>1, <1>2 DEF Timely

\* timer_create_and_start.
LEMMA StartInv ==
  ASSUME Inv, NEW i \in Timer, NEW r \in Request, Start(i, r)
  PROVE  Inv'
<1>1. PICK w : w = WheelOf(r.timeout)
  OBVIOUS
<1>2. PICK t : t = Remaining(w, r.timeout)
  OBVIOUS
<1>3. PICK b : b = (bid[w] + t \div Gap[w]) % Size[w]
  OBVIOUS
<1>4. PICK f : f = FireAt(now, bid, w, b, t \div G)
  OBVIOUS
<1>5. PICK d \in Nat : d = r.timeout \div G
  BY TimeoutIs, Container, DivMod
<1>6. /\ w \in Wheel /\ t \in 0 .. (TmrTime - 1)
      /\ b \in 0 .. (Size[w] - 1)
      /\ w = 0 => r.timeout >= Span(1)
      /\ f \in Nat
      /\ r.timeout < Span(1) => f = now + d
      /\ r.timeout >= Span(1) => now + d <= f /\ f <= now + d + Size[2]
  <2>1. Position(bid) /\ now \in Nat
    BY DEF Inv, Types
  <2>. QED BY <1>1, <1>2, <1>3, <1>4, <1>5, <2>1, StartFire
<1>7. /\ left' = [left EXCEPT ![i] = t]
      /\ where' = [where EXCEPT ![i] = <<w, b>>]
      /\ req' = [req EXCEPT ![i] = r]
      /\ life' = [life EXCEPT ![i] = "armed"]
      /\ due' = [due EXCEPT ![i] = now + d]
      /\ UNCHANGED <<now, bid, stopped, phase, stops, halted, fired, held>>
      /\ life[i] = "new"
  BY <1>1, <1>2, <1>3, <1>5 DEF Start
<1>8. /\ left'[i] = t /\ where'[i] = <<w, b>> /\ req'[i] = r
      /\ life'[i] = "armed" /\ due'[i] = now + d
      /\ \A j \in Timer : j # i => /\ left'[j] = left[j] /\ where'[j] = where[j]
                                   /\ req'[j] = req[j] /\ life'[j] = life[j]
                                   /\ due'[j] = due[j]
  BY <1>7 DEF Inv, Types
<1>9. i \notin halted /\ i \notin held
  BY <1>7 DEF Inv, Halted
<1>10. Types'
  <2>1. <<w, b>> \in Wheel \X Int /\ now + d \in Nat
    <3>1. b \in Int
      BY <1>6, Container
    <3>. QED BY <1>5, <1>6, <3>1 DEF Inv, Types
  <2>2. r \in [timeout : Nat, periodic : BOOLEAN]
    BY TimerAssumption
  <2>. QED BY <1>6, <1>7, <2>1, <2>2 DEF Inv, Types
<1>11. InBucket'
  BY <1>6, <1>8 DEF Inv, InBucket
<1>12. Requests'
  BY <1>8 DEF Inv, Requests
<1>13. Calling' = Calling
  BY <1>7, <1>8 DEF Calling
<1>14. Phases'
  BY <1>7, <1>13 DEF Inv, Phases
<1>15. Halted'
  <2>1. \A j \in halted : j \in InExpiry => j \in InExpiry'
    BY <1>7, <1>8, <1>9 DEF InExpiry, Linked
  <2>. QED BY <1>7, <1>8, <1>9, <2>1 DEF Inv, Halted, Types
<1>16. OnTime'
  <2>. SUFFICES ASSUME NEW j \in Timer, life'[j] = "armed"
                PROVE  Timely(j)'
    BY DEF OnTime
  <2>1. CASE j = i
    <3>1. Fire(i)' = f
      BY <1>4, <1>7, <1>8 DEF Fire
    <3>2. i \notin held'
      BY <1>7, <1>9
    <3>3. PICK n \in Nat : n = now + d
      BY <1>5 DEF Inv, Types
    <3>4. r.timeout < Span(1) \/ r.timeout >= Span(1)
      BY TimeoutIs, SpanIs
    <3>5. n <= f
      BY <1>6, <3>3, <3>4
    <3>6. f <= n + LateOf(r)
      <4>1. PICK s2 \in Nat : s2 = Size[2]
        BY Container DEF Wheel
      <4>2. PICK u \in Nat : u = Turn
        BY Container
      <4>3. CASE r.timeout < Span(1)
        <5>1. LateOf(r) = IF r.periodic THEN s2 ELSE 0
          BY <4>1, <4>3 DEF LateOf
        <5>. QED BY <1>6, <3>3, <4>3, <5>1
      <4>4. CASE r.timeout >= Span(1)
        <5>1. ~(r.timeout < Span(1))
          BY <4>4, TimeoutIs, SpanIs
        <5>2. LateOf(r) = IF r.periodic THEN u + s2 ELSE s2
          BY <4>1, <4>2, <5>1 DEF LateOf
        <5>3. f \in Nat /\ f <= n + s2
          BY <1>6, <3>3, <4>1, <4>4
        <5>. QED BY <5>2, <5>3
      <4>. QED BY <3>4, <4>3, <4>4
    <3>. QED BY <1>6, <1>8, <2>1, <3>1, <3>2, <3>3, <3>5, <3>6 DEF Timely
  <2>2. CASE j # i
    <3>1. Timely(j)
      BY <1>8, <2>2 DEF Inv, OnTime
    <3>. QED BY <1>7, <1>8, <2>2, <3>1, TimelySame
  <2>. QED BY <2>1, <2>2
<1>17. NextDue'
  BY <1>7, <1>8, <1>13 DEF Inv, NextDue, Calling
<1>. QED BY <1>10, <1>11, <1>12, <1>14, <1>15, <1>16, <1>17 DEF Inv

\* What timer_stop_tmr does to nodes that were started: a linked node is
\* marked or freed, the rest of the invariant is as it was.
LEMMA StopOwnInv ==
  ASSUME Inv, NEW I \in SUBSET Timer, \A i \in I : life[i] # "new",
         StopOwn(I), halted' = halted \cup I,
         UNCHANGED <<now, bid, left, req, due, fired, held>>,
         stops' \subseteq stops, phase' \in {"idle", "expire", "callback"},
         phase' # "idle" => now < MaxTick,
         phase' = "callback" <=> phase = "callback",
         phase # "idle" => phase' = phase
  PROVE  Inv'
<1>1. PICK mark : mark = I \cap (InExpiry \cup {i \in Calling : req[i].periodic})
  OBVIOUS
<1>2. PICK free : free = {i \in I : life[i] = "armed"} \ mark
  OBVIOUS
<1>3. stopped' = stopped \cup mark
  BY <1>1 DEF StopOwn
<1>4. \A i \in Timer : /\ i \in free => life[i] = "armed" /\ i \in I /\ i \notin mark
                                        /\ life'[i] = "done" /\ where'[i] = None
                       /\ i \notin free => life'[i] = life[i] /\ where'[i] = where[i]
  BY <1>1, <1>2 DEF StopOwn
<1>5. /\ life' \in [Timer -> {"new", "armed", "callback", "done"}]
      /\ where' \in [Timer -> Wheel \X Int]
  <2>1. None \in Wheel \X Int
    BY DEF None, Wheel, Low
  <2>2. /\ life' = [i \in Timer |-> IF i \in free THEN "done" ELSE life[i]]
        /\ where' = [i \in Timer |-> IF i \in free THEN None ELSE where[i]]
    BY <1>1, <1>2 DEF StopOwn
  <2>. QED BY <2>1, <2>2 DEF Inv, Types
<1>6. Types'
  BY <1>1, <1>3, <1>5 DEF Inv, Types
<1>7. InBucket'
  BY <1>4 DEF Inv, InBucket
<1>8. Requests'
  BY <1>4 DEF Inv, Requests
<1>9. Calling' = Calling
  BY <1>4 DEF Calling
<1>10. Phases'
  BY <1>9 DEF Inv, Phases
<1>11. Halted'
  <2>1. stopped' \subseteq halted'
    BY <1>1, <1>3 DEF Inv, Halted
  <2>2. \A i \in Timer : i \in halted' \/ i \in stops' \/ i \in held' => life'[i] # "new"
    BY <1>4 DEF Inv, Halted
  <2>3. \A i \in Timer : i \in InExpiry /\ i \notin free => i \in InExpiry'
    BY <1>4 DEF InExpiry, Linked
  <2>4. \A i \in halted' : life'[i] = "armed" => i \in stopped' /\ i \in InExpiry'
    <3>. SUFFICES ASSUME NEW i \in halted', life'[i] = "armed"
                  PROVE  i \in stopped' /\ i \in InExpiry'
      OBVIOUS
    <3>1. i \in Timer /\ life[i] = "armed" /\ i \notin free
      BY <1>4 DEF Inv, Types
    <3>2. CASE i \in halted
      BY <1>3, <2>3, <3>1, <3>2 DEF Inv, Halted
    <3>3. CASE i \in I
      <4>1. i \in mark
        BY <1>2, <3>1, <3>3
      <4>2. i \in InExpiry
        BY <1>1, <3>1, <4>1 DEF Calling
      <4>. QED BY <1>3, <2>3, <3>1, <4>1, <4>2
    <3>. QED BY <3>2, <3>3
  <2>5. \A i \in halted' : life'[i] = "callback" /\ req'[i].periodic => i \in stopped'
    <3>. SUFFICES ASSUME NEW i \in halted', life'[i] = "callback", req'[i].periodic
                  PROVE  i \in stopped'
      OBVIOUS
    <3>1. i \in Timer /\ life[i] = "callback" /\ req[i].periodic
      BY <1>4 DEF Inv, Types
    <3>2. CASE i \in halted
      BY <1>3, <3>1, <3>2 DEF Inv, Halted
    <3>3. CASE i \in I
      BY <1>1, <1>3, <3>1, <3>3 DEF Calling
    <3>. QED BY <3>2, <3>3
  <2>. QED BY <2>1, <2>2, <2>4, <2>5 DEF Halted
<1>12. OnTime'
  <2>. SUFFICES ASSUME NEW j \in Timer, life'[j] = "armed"
                PROVE  Timely(j)'
    BY DEF OnTime
  <2>1. life[j] = "armed" /\ where'[j] = where[j]
    BY <1>4
  <2>2. Timely(j)
    BY <2>1 DEF Inv, OnTime
  <2>. QED BY <2>1, <2>2, TimelySame
<1>13. NextDue'
  BY <1>9 DEF Inv, NextDue
<1>. QED BY <1>6, <1>7, <1>8, <1>10, <1>11, <1>12, <1>13 DEF Inv

\* timer_stop_tmr by the owner.
LEMMA StopInv ==
  ASSUME Inv, NEW i \in Timer, Stop(i)
  PROVE  Inv'
<1>1. /\ {i} \in SUBSET Timer /\ \A j \in {i} : life[j] # "new"
      /\ StopOwn({i}) /\ halted' = halted \cup {i}
      /\ UNCHANGED <<now, bid, left, req, due, fired, held>>
      /\ stops' \subseteq stops /\ phase' = phase
  BY DEF Stop
<1>2. phase' \in {"idle", "expire", "callback"} /\ (phase' # "idle" => now < MaxTick)
  BY <1>1 DEF Inv, Types, Phases
<1>. QED BY <1>1, <1>2, StopOwnInv

\* timer_stop_tmr by another thread.
LEMMA StopRemoteInv ==
  ASSUME Inv, NEW i \in Timer, StopRemote(i)
  PROVE  Inv'
<1>1. /\ UNCHANGED <<now, bid, where, left, req, life, stopped, phase>>
      /\ UNCHANGED <<halted, due, fired, held>>
      /\ stops' = stops \cup {i} /\ life[i] # "new"
  BY DEF StopRemote, node, history
<1>2. Types'
  BY <1>1 DEF Inv, Types
<1>3. InBucket' /\ Requests'
  BY <1>1 DEF Inv, InBucket, Requests
<1>4. Phases'
  BY <1>1 DEF Inv, Phases, Calling
<1>5. Halted'
  <2>1. InExpiry' = InExpiry
    BY <1>1 DEF InExpiry, Linked
  <2>. QED BY <1>1, <2>1 DEF Inv, Halted
<1>6. OnTime'
  BY <1>1, TimelySame DEF Inv, OnTime
<1>7. NextDue'
  BY <1>1 DEF Inv, NextDue, Calling
<1>. QED BY <1>2, <1>3, <1>4, <1>5, <1>6, <1>7 DEF Inv

\* The stop list is worked off, and a tick may begin.
LEMMA ProcessBeginInv ==
  ASSUME Inv, ProcessBegin
  PROVE  Inv'
<1>1. /\ phase = "idle" /\ StopOwn(stops) /\ halted' = halted \cup stops
      /\ stops' = {} /\ phase' \in {"idle", "expire"}
      /\ phase' = "expire" => now < MaxTick
      /\ UNCHANGED <<now, bid, left, req, due, fired, held>>
  BY DEF ProcessBegin
<1>2. stops \in SUBSET Timer /\ \A j \in stops : life[j] # "new"
  BY DEF Inv, Types, Halted
<1>. QED BY <1>1, <1>2, StopOwnInv

\* A timer is taken out of its bucket, to be freed or called back.
LEMMA ExpireNextInv ==
  ASSUME Inv, NEW i \in Timer, ExpireNext(i)
  PROVE  Inv'
<1>1. /\ phase = "expire" /\ life[i] = "armed"
      /\ where' = [where EXCEPT ![i] = None]
      /\ UNCHANGED <<now, bid, left, req, stopped, stops, halted, held>>
  BY DEF ExpireNext, Linked
<1>2. \A j \in Timer : j # i => life'[j] = life[j] /\ where'[j] = where[j]
                                /\ due'[j] = due[j]
  BY <1>1 DEF ExpireNext, Inv, Types
<1>3. /\ where'[i] = None
      /\ \/ i \in stopped /\ life'[i] = "done" /\ phase' = "expire"
         \/ i \notin stopped /\ life'[i] = "callback" /\ phase' = "callback"
  BY <1>1 DEF ExpireNext, Inv, Types
<1>4. Calling = {}
  BY <1>1 DEF Inv, Phases
<1>5. Types'
  <2>1. None \in Wheel \X Int
    BY DEF None, Wheel, Low
  <2>2. life' \in [Timer -> {"new", "armed", "callback", "done"}]
    BY DEF ExpireNext, Inv, Types
  <2>3. fired' \in [Timer -> Nat]
    BY DEF ExpireNext, Inv, Types
  <2>4. due' \in [Timer -> Nat]
    <3>1. req[i].timeout \div G \in Nat
      BY Container, DivMod DEF Inv, Types
    <3>2. now + req[i].timeout \div G \in Nat
      BY <3>1 DEF Inv, Types
    <3>. QED BY <3>2 DEF ExpireNext, Inv, Types
  <2>. QED BY <1>1, <1>3, <2>1, <2>2, <2>3, <2>4 DEF Inv, Types
<1>6. InBucket'
  BY <1>2, <1>3 DEF Inv, InBucket
<1>7. Requests'
  BY <1>1, <1>2, <1>3 DEF Inv, Requests
<1>8. Phases'
  <2>1. \A j \in Timer : j # i => life'[j] # "callback"
    BY <1>2, <1>4 DEF Calling
  <2>2. Calling' = IF life'[i] = "callback" THEN {i} ELSE {}
    BY <2>1 DEF Calling
  <2>. QED BY <1>1, <1>3, <2>2 DEF Inv, Phases
<1>9. Halted'
  <2>1. \A j \in halted : j # i /\ j \in InExpiry => j \in InExpiry'
    BY <1>1, <1>2, <1>3 DEF InExpiry, Linked, Inv, Types
  <2>2. i \in halted => i \in stopped
    BY <1>1 DEF Inv, Halted
  <2>. QED BY <1>1, <1>2, <1>3, <2>1, <2>2 DEF Inv, Halted, Types
<1>10. OnTime'
  <2>. SUFFICES ASSUME NEW j \in Timer, life'[j] = "armed"
                PROVE  Timely(j)'
    BY DEF OnTime
  <2>1. j # i
    BY <1>3
  <2>2. Timely(j)
    BY <1>2, <2>1 DEF Inv, OnTime
  <2>. QED BY <1>1, <1>2, <2>1, <2>2, TimelySame
<1>11. NextDue'
  <2>. SUFFICES ASSUME NEW j \in Calling', req'[j].periodic
                PROVE  due'[j] = now' + req'[j].timeout \div G
    BY DEF NextDue
  <2>1. j = i /\ life'[i] = "callback"
    BY <1>2, <1>4 DEF Calling
  <2>2. i \notin stopped
    BY <1>3, <2>1
  <2>3. due' = [due EXCEPT ![i] = IF req[i].periodic
                                  THEN now + req[i].timeout \div G ELSE @]
    BY <2>2 DEF ExpireNext
  <2>. QED BY <1>1, <2>1, <2>3 DEF Inv, Types
<1>. QED BY <1>5, <1>6, <1>7, <1>8, <1>9, <1>10, <1>11 DEF Inv

\* A callback returns.
LEMMA CallbackEndInv ==
  ASSUME Inv, NEW i \in Timer, CallbackEnd(i)
  PROVE  Inv'
<1>1. /\ phase = "callback" /\ phase' = "expire" /\ life[i] = "callback"
      /\ UNCHANGED <<now, bid, req, stopped, stops, halted, due, fired>>
  BY DEF CallbackEnd, Calling
<1>2. \A j \in Timer : j # i => life[j] # "callback"
  BY <1>1 DEF Inv, Phases, Calling
<1>3. CASE ~(req[i].periodic /\ i \notin stopped)
  <2>1. life' = [life EXCEPT ![i] = "done"] /\ UNCHANGED <<where, left, held>>
    BY <1>3 DEF CallbackEnd
  <2>2. life'[i] = "done" /\ \A j \in Timer : j # i => life'[j] = life[j]
    BY <2>1 DEF Inv, Types
  <2>3. Types'
    BY <1>1, <2>1 DEF Inv, Types
  <2>4. InBucket'
    BY <1>1, <2>1, <2>2 DEF Inv, InBucket
  <2>5. Requests'
    BY <1>1, <2>2 DEF Inv, Requests
  <2>6. Phases'
    <3>1. Calling' = {}
      BY <1>2, <2>2 DEF Calling
    <3>. QED BY <1>1, <3>1 DEF Inv, Phases
  <2>7. Halted'
    <3>1. \A j \in halted : j # i /\ j \in InExpiry => j \in InExpiry'
      BY <1>1, <2>1, <2>2 DEF InExpiry, Linked, Inv, Types
    <3>. QED BY <1>1, <2>1, <2>2, <3>1 DEF Inv, Halted, Types
  <2>8. OnTime'
    <3>. SUFFICES ASSUME NEW j \in Timer, life'[j] = "armed"
                  PROVE  Timely(j)'
      BY DEF OnTime
    <3>1. Timely(j)
      BY <2>2 DEF Inv, OnTime
    <3>. QED BY <1>1, <2>1, <3>1, TimelySame
  <2>9. NextDue'
    BY <1>2, <2>2 DEF NextDue, Calling
  <2>. QED BY <2>3, <2>4, <2>5, <2>6, <2>7, <2>8, <2>9 DEF Inv
<1>4. CASE req[i].periodic /\ i \notin stopped
  <2>1. PICK r \in Request : r = req[i] /\ r.periodic
    BY <1>1, <1>4 DEF Inv, Requests
  <2>2. PICK w : w = WheelOf(r.timeout)
    OBVIOUS
  <2>3. PICK t : t = IF w = Low THEN r.timeout
                     ELSE r.timeout + bid[w + 1] * Gap[w + 1]
    OBVIOUS
  <2>4. PICK b : b = (bid[w] + r.timeout \div Gap[w]) % Size[w]
    OBVIOUS
  <2>5. PICK f : f = FireAt(now, bid, w, b, t \div G)
    OBVIOUS
  <2>6. PICK d \in Nat : d = r.timeout \div G
    BY TimeoutIs, Container, DivMod
  <2>7. /\ w \in Wheel /\ t \in 0 .. (TmrTime - 1)
        /\ b \in 0 .. (Size[w] - 1)
        /\ w = 0 => r.timeout >= Span(1)
        /\ f \in Nat /\ now + d <= f
        /\ r.timeout < Span(1) => f <= now + d + Size[2]
        /\ r.timeout >= Span(1) => f <= now + d + Turn + Size[2]
    <3>1. Position(bid) /\ now \in Nat
      BY DEF Inv, Types
    <3>. QED BY <2>2, <2>3, <2>4, <2>5, <2>6, <3>1, RearmFire
  <2>8. /\ left' = [left EXCEPT ![i] = t]
        /\ where' = [where EXCEPT ![i] = <<w, b>>]
        /\ life' = [life EXCEPT ![i] = "armed"]
        /\ held' = held \ {i}
    <3>1. Rearm(i) /\ life' = [life EXCEPT ![i] = "armed"] /\ held' = held \ {i}
      BY <1>4 DEF CallbackEnd
    <3>. QED BY <2>1, <2>2, <2>3, <2>4, <3>1 DEF Rearm
  <2>9. /\ left'[i] = t /\ where'[i] = <<w, b>> /\ life'[i] = "armed"
        /\ \A j \in Timer : j # i => /\ left'[j] = left[j] /\ where'[j] = where[j]
                                     /\ life'[j] = life[j]
    BY <2>8 DEF Inv, Types
  <2>10. Types'
    <3>1. <<w, b>> \in Wheel \X Int
      <4>1. b \in Int
        BY <2>7, Container
      <4>. QED BY <2>7, <4>1
    <3>. QED BY <1>1, <2>7, <2>8, <3>1 DEF Inv, Types
  <2>11. InBucket'
    BY <2>7, <2>9 DEF Inv, InBucket
  <2>12. Requests'
    BY <1>1, <2>9 DEF Inv, Requests
  <2>13. Phases'
    <3>1. Calling' = {}
      BY <1>2, <2>9 DEF Calling
    <3>. QED BY <1>1, <3>1 DEF Inv, Phases
  <2>14. Halted'
    <3>1. i \notin halted
      BY <1>1, <1>4 DEF Inv, Halted
    <3>2. \A j \in halted : j \in InExpiry => j \in InExpiry'
      BY <1>1, <2>9, <3>1 DEF InExpiry, Linked, Inv, Types
    <3>. QED BY <1>1, <2>8, <2>9, <3>1, <3>2 DEF Inv, Halted, Types
  <2>15. OnTime'
    <3>. SUFFICES ASSUME NEW j \in Timer, life'[j] = "armed"
                  PROVE  Timely(j)'
      BY DEF OnTime
    <3>1. CASE j = i
      <4>1. Fire(i)' = f
        BY <1>1, <2>5, <2>9 DEF Fire
      <4>2. i \notin held'
        BY <2>8
      <4>3. due'[i] = now + d
        <5>1. due[i] = now + req[i].timeout \div G
          BY <1>1, <1>4 DEF Inv, NextDue, Calling
        <5>. QED BY <1>1, <2>1, <2>6, <5>1
      <4>4. PICK n \in Nat : n = now + d
        BY <2>6 DEF Inv, Types
      <4>5. f <= n + LateOf(r)
        <5>1. PICK s2 \in Nat : s2 = Size[2]
          BY Container DEF Wheel
        <5>2. PICK u \in Nat : u = Turn
          BY Container
        <5>3. CASE r.timeout < Span(1)
          <6>1. LateOf(r) = s2
            BY <2>1, <5>1, <5>3 DEF LateOf
          <6>. QED BY <2>7, <4>4, <5>1, <5>3, <6>1
        <5>4. CASE r.timeout >= Span(1)
          <6>1. ~(r.timeout < Span(1))
            BY <5>4, TimeoutIs, SpanIs
          <6>2. LateOf(r) = u + s2
            BY <2>1, <5>1, <5>2, <6>1 DEF LateOf
          <6>3. f <= (n + u) + s2
            BY <2>7, <4>4, <5>1, <5>2, <5>4
          <6>. QED BY <2>7, <6>2, <6>3
        <5>. QED BY <5>3, <5>4, TimeoutIs, SpanIs
      <4>6. n <= f
        BY <2>7, <4>4
      <4>7. req'[i] = r
        BY <1>1, <2>1
      <4>. QED BY <2>7, <2>9, <3>1, <4>1, <4>2, <4>3, <4>4, <4>5, <4>6, <4>7 DEF Timely
    <3>2. CASE j # i
      <4>1. Timely(j)
        BY <2>9, <3>2 DEF Inv, OnTime
      <4>. QED BY <1>1, <2>8, <2>9, <3>2, <4>1, TimelySame
    <3>. QED BY <3>1, <3>2
  <2>16. NextDue'
    BY <1>2, <2>9 DEF NextDue, Calling
  <2>. QED BY <2>10, <2>11, <2>12, <2>13, <2>14, <2>15, <2>16 DEF Inv
<1>. QED BY <1>3, <1>4

\* The tick of a timer of wheel 0 is not before the one it leaves that wheel in.
LEMMA HeldBefore ==
  ASSUME Position(bid), now \in Nat, NEW b \in Nat, b < Size[0], NEW l \in Nat
  PROVE  /\ HeldAt(now, bid, b) \in Nat
         /\ FireAt(now, bid, 0, b, l) \in Nat
         /\ HeldAt(now, bid, b) <= FireAt(now, bid, 0, b, l)
<1>1. PICK s0 \in Nat : s0 = Size[0] /\ s0 > 0
  BY Container DEF Wheel
<1>2. PICK s2 \in Nat : s2 = Size[2] /\ s2 > 0
  BY Container DEF Wheel
<1>3. PICK u \in Nat : u = Turn /\ u > 0
  BY Container
<1>4. PICK x0 \in Nat : x0 = bid[0] /\ x0 < s0
  BY <1>1 DEF Position, Wheel
<1>5. PICK d \in Nat : d = Dist(b, x0, s0)
  BY <1>1, <1>4 DEF Dist
<1>6. PICK y \in Nat : y = d * u
  BY Times
<1>7. PICK e \in Nat : e = Turn0(now, bid)
  BY AfterTurns
<1>8. HeldAt(now, bid, b) = e + y + s2
  BY <1>1, <1>2, <1>3, <1>4, <1>5, <1>6, <1>7 DEF HeldAt
<1>9. PICK m \in Nat : m = l % u
  BY <1>3, DivMod
<1>10. FireAt(now, bid, 0, b, l) = e + y + s2 + m
  BY <1>3, <1>8, <1>9 DEF FireAt
<1>. QED BY <1>8, <1>10

\* What the end of a tick makes of the place of a timer: its tick stays the
\* same, unless it is left in the last bucket of wheel 0.
LEMMA TickPlace ==
  ASSUME Inv, EndTick, NEW i \in Timer, life[i] = "armed"
  PROVE  /\ where'[i] \in Wheel \X Int
         /\ where'[i][2] \in 0 .. (Size[where'[i][1]] - 1)
         /\ left'[i] \in 0 .. (TmrTime - 1)
         /\ where'[i][1] = 0 => where[i][1] = 0
         /\ \/ /\ i \notin Stay
               /\ Fire(i)' = Fire(i)
               /\ where'[i][1] = 0 => HeldAt(now, bid, where[i][2])'
                                        = HeldAt(now, bid, where[i][2])
            \/ /\ i \in Stay
               /\ where'[i][1] = 0
               /\ HeldAt(now, bid, where[i][2]) <= HeldAt(now, bid, where[i][2])'
               /\ Fire(i) <= HeldAt(now, bid, where[i][2])'
               /\ Fire(i) \in Nat /\ HeldAt(now, bid, where[i][2]) \in Nat
               /\ HeldAt(now, bid, where[i][2])' \in Nat
<1>1. PICK w \in Wheel, b \in Int : where[i] = <<w, b>> /\ where[i][1] = w /\ where[i][2] = b
  BY DEF Inv, Types
<1>2. b \in Nat /\ b < Size[w]
  BY <1>1, Container DEF Inv, InBucket
<1>3. PICK a \in Nat : a = left[i] /\ a < TmrTime
  BY Container DEF Inv, Types
<1>4. Position(bid) /\ now \in Nat
  BY DEF Inv, Types
<1>5. /\ now' = now + 1 /\ bid' = After
      /\ where'[i] = Placed(i).where /\ left'[i] = Placed(i).left
      /\ w = 2 => b # bid[2]
  <2>1. w = 2 => b # bid[2]
    BY <1>1 DEF EndTick, Linked, Low
  <2>. QED BY <2>1 DEF EndTick, After
<1>6. PICK l \in Nat : l = a \div G
  BY Container, DivMod
<1>7. Fire(i) = FireAt(now, bid, w, b, l)
  BY <1>1, <1>3, <1>6 DEF Fire
<1>8. ASSUME NEW v \in Wheel, NEW e, NEW c, where'[i] = <<v, e>>, left'[i] = c
      PROVE  /\ where'[i][1] = v /\ where'[i][2] = e
             /\ Fire(i)' = FireAt(now + 1, After, v, e, c \div G)
             /\ HeldAt(now, bid, where[i][2])' = HeldAt(now + 1, After, e)
  BY <1>5, <1>8 DEF Fire
<1>9. i \in Stay <=> w = 0 /\ b = Size[0] - 1 /\ Turned(0) /\ Placed(i).where = where[i]
  BY <1>1 DEF Stay, Linked
<1>10. i \in Linked(w, b)
  BY <1>1 DEF Linked
<1>11. CASE w = 2 \/ (w = 1 /\ ~(Turned(2) /\ b = bid[1]))
            \/ (w = 0 /\ ~(Turned(1) /\ b = bid[0]))
  <2>1. Placed(i) = [left |-> left[i], where |-> where[i]]
    BY <1>1, <1>11 DEF Placed, Low
  <2>2. where'[i] = <<w, b>> /\ left'[i] = a
    BY <1>1, <1>3, <1>5, <2>1
  <2>3. FireAt(now + 1, After, w, b, l) = FireAt(now, bid, w, b, l)
        /\ (w = 0 => HeldAt(now + 1, After, b) = HeldAt(now, bid, b))
    <3>1. CASE w = 2
      BY <1>2, <1>4, <1>5, <3>1, TickLow
    <3>2. CASE w = 1
      BY <1>2, <1>4, <1>11, <3>2, TickMiddle
    <3>3. CASE w = 0
      <4>1. HeldAt(now + 1, After, b) = HeldAt(now, bid, b)
        BY <1>2, <1>4, <1>11, <3>3, TickHigh
      <4>. QED BY <3>3, <4>1 DEF FireAt
    <3>. QED BY <3>1, <3>2, <3>3 DEF Wheel
  <2>4. i \notin Stay
    <3>1. Turned(0) => Turned(1) /\ bid[0] + 1 = Size[0]
      BY <1>4, AfterIs
    <3>2. bid[0] \in Nat
      BY <1>4 DEF Position, Wheel
    <3>3. w = 0 /\ b = Size[0] - 1 /\ Turned(0) => Turned(1) /\ b = bid[0]
      BY <1>2, <3>1, <3>2
    <3>. QED BY <1>9, <1>11, <3>3
  <2>5. /\ where'[i][1] = w /\ where'[i][2] = b
        /\ Fire(i)' = FireAt(now + 1, After, w, b, l)
        /\ HeldAt(now, bid, where[i][2])' = HeldAt(now + 1, After, b)
    BY <1>6, <1>8, <2>2
  <2>6. Fire(i)' = Fire(i)
    BY <1>7, <2>3, <2>5
  <2>7. where'[i][1] = 0 => /\ w = 0
                            /\ HeldAt(now, bid, where[i][2])' = HeldAt(now, bid, where[i][2])
    BY <1>1, <2>3, <2>5
  <2>8. /\ where'[i] \in Wheel \X Int
        /\ where'[i][2] \in 0 .. (Size[where'[i][1]] - 1)
        /\ left'[i] \in 0 .. (TmrTime - 1)
    BY <1>2, <1>3, <2>2, <2>5, Container
  <2>. QED BY <1>1, <2>4, <2>6, <2>7, <2>8
<1>12. CASE w = 1 /\ Turned(2) /\ b = bid[1]
  <2>1. PICK c : c = a % Span(2)
    OBVIOUS
  <2>2. PICK e : e = c \div Gap[2]
    OBVIOUS
  <2>3. /\ c \in Nat /\ c <= a
        /\ e \in 0 .. (Size[2] - 1)
        /\ FireAt(now + 1, After, 2, e, c \div G) = FireAt(now, bid, 1, bid[1], a \div G)
    BY <1>4, <1>12, <2>1, <2>2, DownMiddle
  <2>4. Placed(i) = [left |-> c, where |-> <<2, e>>]
    <3>1. Placed(i) = Down(i, 1)
      BY <1>1, <1>12 DEF Placed, Low
    <3>. QED BY <1>3, <2>1, <2>2, <3>1 DEF Down
  <2>5. where'[i] = <<2, e>> /\ left'[i] = c
    BY <1>5, <2>4
  <2>6. /\ where'[i][1] = 2 /\ where'[i][2] = e
        /\ Fire(i)' = FireAt(now + 1, After, 2, e, c \div G)
    BY <1>8, <2>5 DEF Wheel
  <2>7. Fire(i)' = Fire(i)
    BY <1>6, <1>7, <1>12, <2>3, <2>6
  <2>8. i \notin Stay
    BY <1>9, <1>12
  <2>9. /\ where'[i] \in Wheel \X Int
        /\ where'[i][2] \in 0 .. (Size[where'[i][1]] - 1)
        /\ left'[i] \in 0 .. (TmrTime - 1)
    BY <1>3, <2>3, <2>5, <2>6, Container DEF Wheel
  <2>. QED BY <2>6, <2>7, <2>8, <2>9
<1>13. CASE w = 0 /\ Turned(1) /\ b = bid[0] /\ b # Size[0] - 1
  <2>1. PICK c : c = a % Span(1)
    OBVIOUS
  <2>2. PICK e : e = c \div Gap[1]
    OBVIOUS
  <2>3. /\ c \in Nat /\ c <= a
        /\ e \in 0 .. (Size[1] - 1)
        /\ FireAt(now + 1, After, 1, e, c \div G) = FireAt(now, bid, 0, bid[0], a \div G)
    BY <1>4, <1>13, <2>1, <2>2, DownHigh
  <2>4. Placed(i) = [left |-> c, where |-> <<1, e>>]
    <3>1. Placed(i) = Down(i, 0)
      BY <1>1, <1>13 DEF Placed, Low
    <3>. QED BY <1>3, <2>1, <2>2, <3>1 DEF Down
  <2>5. where'[i] = <<1, e>> /\ left'[i] = c
    BY <1>5, <2>4
  <2>6. /\ where'[i][1] = 1 /\ where'[i][2] = e
        /\ Fire(i)' = FireAt(now + 1, After, 1, e, c \div G)
    BY <1>8, <2>5 DEF Wheel
  <2>7. Fire(i)' = Fire(i)
    BY <1>6, <1>7, <1>13, <2>3, <2>6
  <2>8. i \notin Stay
    BY <1>9, <1>13
  <2>9. /\ where'[i] \in Wheel \X Int
        /\ where'[i][2] \in 0 .. (Size[where'[i][1]] - 1)
        /\ left'[i] \in 0 .. (TmrTime - 1)
    BY <1>3, <2>3, <2>5, <2>6, Container DEF Wheel
  <2>. QED BY <2>6, <2>7, <2>8, <2>9
<1>14. CASE w = 0 /\ Turned(1) /\ b = bid[0] /\ b = Size[0] - 1
  <2>1. PICK c : c = Sub(a, Span(0))
    OBVIOUS
  <2>2. PICK e : e = (c \div Gap[1]) % Size[1]
    OBVIOUS
  <2>3. /\ c \in 0 .. (TmrTime - 1) /\ Span(0) \in Nat
        /\ c < Span(0) =>
             /\ e \in 0 .. (Size[1] - 1)
             /\ FireAt(now + 1, After, 1, e, c \div G) = FireAt(now, bid, 0, bid[0], a \div G)
    BY <1>3, <1>4, <1>14, <2>1, <2>2, ResidualIs
  <2>4. Placed(i) = DownResidual(i)
    <3>1. w # Low /\ Turned(w + 1) /\ where[i][2] = bid[w]
      BY <1>1, <1>14 DEF Low
    <3>2. w = 0 /\ bid[0] = Size[0] - 1
      BY <1>14
    <3>. QED BY <1>1, <3>1, <3>2 DEF Placed
  <2>5. CASE c < Span(0)
    <3>1. Placed(i) = [left |-> c, where |-> <<1, e>>]
      BY <1>3, <2>1, <2>2, <2>3, <2>4, <2>5 DEF DownResidual
    <3>2. where'[i] = <<1, e>> /\ left'[i] = c
      BY <1>5, <3>1
    <3>3. /\ where'[i][1] = 1 /\ where'[i][2] = e
          /\ Fire(i)' = FireAt(now + 1, After, 1, e, c \div G)
      BY <1>8, <3>2 DEF Wheel
    <3>4. Fire(i)' = Fire(i)
      BY <1>6, <1>7, <1>14, <2>3, <2>5, <3>3
    <3>5. i \notin Stay
      BY <1>1, <1>9, <1>14, <3>1
    <3>6. /\ where'[i] \in Wheel \X Int
          /\ where'[i][2] \in 0 .. (Size[where'[i][1]] - 1)
          /\ left'[i] \in 0 .. (TmrTime - 1)
      BY <2>3, <2>5, <3>2, <3>3, Container DEF Wheel
    <3>. QED BY <3>3, <3>4, <3>5, <3>6
  <2>6. CASE ~(c < Span(0))
    <3>1. Placed(i) = [left |-> c, where |-> <<0, b>>]
      BY <1>1, <1>3, <1>14, <2>1, <2>3, <2>4, <2>6 DEF DownResidual
    <3>2. where'[i] = <<0, b>> /\ left'[i] = c
      BY <1>5, <3>1
    <3>3. /\ where'[i][1] = 0 /\ where'[i][2] = b
          /\ HeldAt(now, bid, where[i][2])' = HeldAt(now + 1, After, b)
      BY <1>8, <3>2 DEF Wheel
    <3>4. Turned(0)
      BY <1>2, <1>4, <1>14, AfterIs, Container DEF Position, Wheel
    <3>5. i \in Stay
      BY <1>1, <1>9, <1>14, <3>1, <3>4
    <3>6. /\ HeldAt(now, bid, b) <= HeldAt(now + 1, After, b)
          /\ FireAt(now, bid, 0, b, l) <= HeldAt(now + 1, After, b)
          /\ HeldAt(now, bid, b) \in Nat
          /\ HeldAt(now + 1, After, b) \in Nat
          /\ FireAt(now, bid, 0, b, l) \in Nat
      BY <1>4, <1>14, <3>4, StaysHigh
    <3>7. /\ where'[i] \in Wheel \X Int
          /\ where'[i][2] \in 0 .. (Size[where'[i][1]] - 1)
          /\ left'[i] \in 0 .. (TmrTime - 1)
      BY <1>2, <1>14, <2>3, <3>2, <3>3, Container DEF Wheel
    <3>. QED BY <1>1, <1>7, <1>14, <3>3, <3>5, <3>6, <3>7
  <2>. QED BY <2>5, <2>6
<1>. QED BY <1>11, <1>12, <1>13, <1>14 DEF Wheel

\* A tick ends, the wheels advance.
LEMMA EndTickInv ==
  ASSUME Inv, EndTick
  PROVE  Inv'
<1>1. /\ phase = "expire" /\ Linked(Low, bid[Low]) = {}
      /\ now' = now + 1 /\ bid' = After
      /\ held' = held \cup Stay
      /\ phase' \in {"idle", "expire"} /\ (phase' = "expire" => now' < MaxTick)
      /\ UNCHANGED <<req, life, stopped, stops, halted, due, fired>>
  BY DEF EndTick, After
<1>2. Calling = {} /\ now < MaxTick /\ Position(bid) /\ now \in Nat
  BY <1>1 DEF Inv, Types, Phases
<1>3. \A i \in Timer : life[i] # "armed" => where'[i] = where[i] /\ left'[i] = left[i]
  BY DEF EndTick, Placed
<1>4. \A i \in Stay : i \in Timer /\ life[i] = "armed"
  BY DEF Stay, Linked
<1>5. Types'
  <2>1. now' \in 0 .. MaxTick
    BY <1>1, <1>2, TimerAssumption
  <2>2. Position(bid)'
    <3>1. Position(After)
      BY <1>2, AfterIs
    <3>. QED BY <1>1, <3>1 DEF Position
  <2>3. where' \in [Timer -> Wheel \X Int]
    <3>1. where' = [i \in Timer |-> Placed(i).where]
      BY DEF EndTick
    <3>2. \A i \in Timer : where'[i] \in Wheel \X Int
      BY <1>3, TickPlace DEF Inv, Types
    <3>. QED BY <3>1, <3>2
  <2>4. left' \in [Timer -> 0 .. (TmrTime - 1)]
    <3>1. left' = [i \in Timer |-> Placed(i).left]
      BY DEF EndTick
    <3>2. \A i \in Timer : left'[i] \in 0 .. (TmrTime - 1)
      BY <1>3, TickPlace DEF Inv, Types
    <3>. QED BY <3>1, <3>2
  <2>. QED BY <1>1, <1>4, <2>1, <2>2, <2>3, <2>4 DEF Inv, Types
<1>6. InBucket'
  BY <1>1, <1>3, TickPlace DEF Inv, InBucket
<1>7. Requests'
  BY <1>1 DEF Inv, Requests
<1>8. Phases'
  <2>1. Calling' = {}
    BY <1>1, <1>2 DEF Calling
  <2>. QED BY <1>1, <2>1 DEF Phases
<1>9. Halted'
  <2>1. \A i \in halted : life[i] # "armed"
    BY <1>1 DEF Inv, Halted, InExpiry
  <2>. QED BY <1>1, <1>4, <2>1 DEF Inv, Halted
<1>10. NextDue'
  BY <1>1, <1>2 DEF NextDue, Calling
<1>11. OnTime'
  <2>. SUFFICES ASSUME NEW i \in Timer, life'[i] = "armed"
                PROVE  Timely(i)'
    BY DEF OnTime
  <2>1. life[i] = "armed" /\ Timely(i)
    BY <1>1 DEF Inv, OnTime
  <2>2. /\ req'[i] = req[i] /\ due'[i] = due[i] /\ due[i] \in Nat
        /\ i \in held' <=> i \in held \/ i \in Stay
    BY <1>1 DEF Inv, Types
  <2>3. where'[i][1] = 0 => where[i][1] = 0
    BY <2>1, TickPlace
  <2>4. CASE i \notin Stay
    <3>1. /\ Fire(i)' = Fire(i)
          /\ where'[i][1] = 0 => HeldAt(now, bid, where[i][2])'
                                   = HeldAt(now, bid, where[i][2])
      BY <2>1, <2>4, TickPlace
    <3>2. where[i][1] = 0 /\ i \in held => due[i] <= Fire(i)
      <4>. SUFFICES ASSUME where[i][1] = 0, i \in held
                    PROVE  due[i] <= Fire(i)
        OBVIOUS
      <4>1. PICK b \in Nat : b = where[i][2] /\ b < Size[0]
        BY <2>1, Container DEF Inv, InBucket, Wheel
      <4>2. left[i] \div G \in Nat
        <5>1. left[i] \in Nat
          BY Container DEF Inv, Types
        <5>. QED BY <5>1, Container, DivMod
      <4>3. /\ HeldAt(now, bid, b) \in Nat
            /\ FireAt(now, bid, 0, b, left[i] \div G) \in Nat
            /\ HeldAt(now, bid, b) <= FireAt(now, bid, 0, b, left[i] \div G)
        BY <1>2, <4>1, <4>2, HeldBefore
      <4>4. Fire(i) = FireAt(now, bid, 0, b, left[i] \div G)
        BY <4>1 DEF Fire
      <4>5. due[i] <= HeldAt(now, bid, b)
        BY <2>1, <4>1 DEF Timely
      <4>. QED BY <2>2, <4>3, <4>4, <4>5
    <3>3. due[i] <= Fire(i)
      BY <2>1, <3>2 DEF Timely
    <3>4. i \in held' <=> i \in held
      BY <2>2, <2>4
    <3>5. where'[i][1] = 0 \/ i \in held' => req'[i].timeout >= Span(1)
      BY <2>1, <2>2, <2>3, <3>4 DEF Timely
    <3>6. where'[i][1] = 0 /\ i \in held' => due'[i] <= HeldAt(now, bid, where[i][2])'
      BY <2>1, <2>2, <2>3, <3>1, <3>4 DEF Timely
    <3>7. ~(where'[i][1] = 0 /\ i \in held') => due'[i] <= Fire(i)'
      BY <2>2, <3>1, <3>3
    <3>8. i \notin held' => Fire(i)' <= due'[i] + LateOf(req'[i])
      BY <2>1, <2>2, <3>1, <3>4 DEF Timely
    <3>. QED BY <3>5, <3>6, <3>7, <3>8 DEF Timely
  <2>5. CASE i \in Stay
    <3>1. /\ where'[i][1] = 0
          /\ HeldAt(now, bid, where[i][2]) <= HeldAt(now, bid, where[i][2])'
          /\ Fire(i) <= HeldAt(now, bid, where[i][2])'
          /\ Fire(i) \in Nat /\ HeldAt(now, bid, where[i][2]) \in Nat
          /\ HeldAt(now, bid, where[i][2])' \in Nat
      BY <2>1, <2>5, TickPlace
    <3>2. i \in held' /\ where[i][1] = 0
      BY <2>2, <2>3, <2>5, <3>1
    <3>3. req'[i].timeout >= Span(1)
      BY <2>1, <2>2, <3>2 DEF Timely
    <3>4. due[i] <= HeldAt(now, bid, where[i][2]) \/ due[i] <= Fire(i)
      BY <2>1 DEF Timely
    <3>5. due'[i] <= HeldAt(now, bid, where[i][2])'
      BY <2>2, <3>1, <3>4
    <3>. QED BY <3>1, <3>2, <3>3, <3>5 DEF Timely
  <2>. QED BY <2>4, <2>5
<1>. QED BY <1>5, <1>6, <1>7, <1>8, <1>9, <1>10, <1>11 DEF Inv

\* Every step keeps the invariant.
LEMMA InvStep == Inv /\ [Next]_vars => Inv'
<1>. SUFFICES ASSUME Inv, [Next]_vars
              PROVE  Inv'
  OBVIOUS
<1>1. ASSUME NEW i \in Timer, NEW r \in Request, Start(i, r)
      PROVE  Inv'
  BY <1>1, StartInv
<1>2. ASSUME NEW i \in Timer, Stop(i)
      PROVE  Inv'
  BY <1>2, StopInv
<1>3. ASSUME NEW i \in Timer, StopRemote(i)
      PROVE  Inv'
  BY <1>3, StopRemoteInv
<1>4. CASE ProcessBegin
  BY <1>4, ProcessBeginInv
<1>5. ASSUME NEW i \in Timer, ExpireNext(i)
      PROVE  Inv'
  BY <1>5, ExpireNextInv
<1>6. ASSUME NEW i \in Timer, CallbackEnd(i)
      PROVE  Inv'
  BY <1>6, CallbackEndInv
<1>7. CASE EndTick
  BY <1>7, EndTickInv
<1>8. CASE UNCHANGED vars
  <2>1. /\ UNCHANGED <<now, bid, where, left, req, life, stopped, phase, stops>>
        /\ UNCHANGED <<halted, due, fired, held>>
    BY <1>8 DEF vars, node, history
  <2>2. Types'
    BY <2>1 DEF Inv, Types
  <2>3. InBucket' /\ Requests'
    BY <2>1 DEF Inv, InBucket, Requests
  <2>4. Phases' /\ NextDue'
    BY <2>1 DEF Inv, Phases, NextDue, Calling
  <2>5. Halted'
    <3>1. InExpiry' = InExpiry
      BY <2>1 DEF InExpiry, Linked
    <3>. QED BY <2>1, <3>1 DEF Inv, Halted
  <2>6. OnTime'
    BY <2>1, TimelySame DEF Inv, OnTime
  <2>. QED BY <2>2, <2>3, <2>4, <2>5, <2>6 DEF Inv
<1>. QED BY <1>1, <1>2, <1>3, <1>4, <1>5, <1>6, <1>7, <1>8 DEF Next

\* A linked timer is called back in this tick or a later one, and in this one
\* only from the bucket that is worked off.
LEMMA FireAhead ==
  ASSUME Inv, NEW i \in Timer, life[i] = "armed"
  PROVE  /\ Fire(i) \in Nat /\ now <= Fire(i)
         /\ where[i] = <<Low, bid[Low]>> => Fire(i) = now
         /\ where[i] # <<Low, bid[Low]>> => now < Fire(i)
<1>1. PICK w \in Wheel, b \in Int : where[i] = <<w, b>> /\ where[i][1] = w /\ where[i][2] = b
  BY DEF Inv, Types
<1>2. b \in Nat /\ b < Size[w]
  BY <1>1, Container DEF Inv, InBucket
<1>3. PICK l \in Nat : l = left[i] \div G
  <2>1. left[i] \in Nat
    BY Container DEF Inv, Types
  <2>. QED BY <2>1, Container, DivMod
<1>4. Fire(i) = FireAt(now, bid, w, b, l)
  BY <1>1, <1>3 DEF Fire
<1>5. PICK n \in Nat : n = now
  BY DEF Inv, Types
<1>6. PICK s \in Nat : s = Size[w] /\ s > 0
  BY Container
<1>7. PICK x \in Nat : x = bid[w] /\ x < s
  BY <1>6 DEF Inv, Types, Position
<1>8. PICK d \in Nat : d = Dist(b, x, s) /\ (d = 0 <=> b = x)
  BY <1>2, <1>6, <1>7 DEF Dist
<1>9. PICK s2 \in Nat : s2 = Size[2] /\ s2 > 0
  BY Container DEF Wheel
<1>10. PICK x2 \in Nat : x2 = bid[2] /\ x2 < s2
  BY <1>9 DEF Inv, Types, Position, Wheel
<1>11. CASE w = 2
  <2>1. Fire(i) = n + d
    BY <1>4, <1>5, <1>6, <1>7, <1>8, <1>11 DEF FireAt
  <2>2. where[i] = <<Low, bid[Low]>> <=> b = x
    BY <1>1, <1>7, <1>11 DEF Low
  <2>. QED BY <1>5, <1>8, <2>1, <2>2
<1>12. CASE w = 1
  <2>1. PICK m \in Nat : m = l % s2
    BY <1>9, DivMod
  <2>2. PICK y \in Nat : y = d * s2
    BY Times
  <2>3. Fire(i) = (n + (s2 - x2)) + y + m
    BY <1>4, <1>5, <1>6, <1>7, <1>8, <1>9, <1>10, <1>12, <2>1, <2>2 DEF FireAt, Turn1
  <2>4. where[i] # <<Low, bid[Low]>>
    BY <1>1, <1>12 DEF Low
  <2>. QED BY <1>5, <1>10, <2>3, <2>4
<1>13. CASE w = 0
  <2>1. PICK u \in Nat : u = Turn /\ u > 0
    BY Container
  <2>2. PICK y \in Nat : y = d * u
    BY Times
  <2>3. PICK v \in Nat : v = Size[1] - 1 - bid[1]
    <3>1. Size[1] \in Nat /\ bid[1] \in Nat /\ bid[1] < Size[1]
      BY Container DEF Inv, Types, Position, Wheel
    <3>. QED BY <3>1
  <2>4. PICK z \in Nat : z = v * s2
    BY Times
  <2>5. Turn0(now, bid) = (n + (s2 - x2)) + z
    BY <1>5, <1>9, <1>10, <2>3, <2>4 DEF Turn0, Turn1
  <2>6. PICK m \in Nat : m = l % u
    BY <2>1, DivMod
  <2>7. HeldAt(now, bid, b) = (n + (s2 - x2)) + z + y + s2
    BY <1>6, <1>7, <1>8, <1>9, <1>13, <2>1, <2>2, <2>5 DEF HeldAt
  <2>8. Fire(i) = (n + (s2 - x2)) + z + y + s2 + m
    BY <1>4, <1>13, <2>1, <2>6, <2>7 DEF FireAt
  <2>9. where[i] # <<Low, bid[Low]>>
    BY <1>1, <1>13 DEF Low
  <2>. QED BY <1>5, <1>10, <2>8, <2>9
<1>. QED BY <1>11, <1>12, <1>13 DEF Wheel

-----------------------------------------------------------------------------
(* The theorems.                                                            *)

\* The invariant holds of every behaviour of the timers.
THEOREM TimerInvariant == Spec => []Inv
BY InitInv, InvStep, PTL DEF Spec

\* The invariant gives the types.
LEMMA InvTypes == Inv => TypeOK
<1>. SUFFICES ASSUME Inv
              PROVE  TypeOK
  OBVIOUS
<1>1. \A w \in Wheel : bid[w] \in 0 .. (Size[w] - 1)
  BY Container DEF Inv, Types, Position
<1>2. ASSUME NEW i \in Timer
      PROVE  /\ life[i] \in {"new", "armed", "callback", "done"}
             /\ IF life[i] = "armed"
                THEN where[i][1] \in Wheel /\ where[i][2] \in 0 .. (Size[where[i][1]] - 1)
                ELSE where[i] = None
             /\ left[i] \in 0 .. (TmrTime - 1)
             /\ fired[i] \in Nat /\ due[i] \in Nat
  BY <1>2 DEF Inv, Types, InBucket
<1>3. Cardinality(Calling) = IF phase = "callback" THEN 1 ELSE 0
  <2>1. CASE phase = "callback"
    <3>1. PICK c : c \in Calling
      BY <2>1 DEF Inv, Phases
    <3>2. Calling = {c}
      BY <3>1 DEF Inv, Phases
    <3>. QED BY <2>1, <3>2, FS_Singleton
  <2>2. CASE phase # "callback"
    <3>1. Calling = {}
      BY <2>2 DEF Inv, Phases
    <3>. QED BY <2>2, <3>1, FS_EmptySet
  <2>. QED BY <2>1, <2>2
<1>4. stopped \subseteq halted
  BY DEF Inv, Halted
<1>. QED BY <1>1, <1>2, <1>3, <1>4 DEF Inv, Types, TypeOK

\* Every variable keeps its type: a linked node is in a bucket that exists,
\* time_left stays within tmr_time_t, at most one callback runs.
THEOREM TypeCorrect == Spec => []TypeOK
BY TimerInvariant, InvTypes, PTL

\* The invariant bounds the delay.
LEMMA InvLong == Inv => LongOnTime
<1>. SUFFICES ASSUME Inv, NEW i \in Timer, life[i] = "armed", i \notin held
              PROVE  now <= due[i] + (IF req[i].periodic THEN (Gap[0] + Gap[1]) \div G
                                      ELSE LowTurn)
  BY DEF LongOnTime, Running
<1>1. PICK n \in Nat : n = now
  BY DEF Inv, Types
<1>2. PICK d \in Nat : d = due[i]
  BY DEF Inv, Types
<1>3. PICK s2 \in Nat : s2 = Size[2]
  BY Container DEF Wheel
<1>4. PICK u \in Nat : u = Turn
  BY Container
<1>5. (Gap[0] + Gap[1]) \div G = u + s2
  <2>1. PICK g \in Nat : g = G /\ g > 0
    BY Container
  <2>2. PICK c \in Nat : c = Gap[0] + Gap[1] /\ c = u * g + s2 * g
    <3>1. u * g \in Nat /\ s2 * g \in Nat
      BY Times
    <3>. QED BY <1>3, <1>4, <2>1, <3>1, Container
  <2>3. PICK q \in Nat : q = u + s2
    OBVIOUS
  <2>4. c = g * q + 0
    <3>1. g * q = g * u + g * s2
      BY <2>3, Times
    <3>2. g * u = u * g /\ g * s2 = s2 * g
      BY Times
    <3>. QED BY <2>2, <3>1, <3>2
  <2>5. c \div g = q /\ c % g = 0
    BY <2>1, <2>4, Unique
  <2>. QED BY <2>1, <2>2, <2>3, <2>5
<1>6. PICK f \in Nat : f = Fire(i) /\ n <= f
  BY <1>1, FireAhead
<1>7. PICK e \in Nat : e = LateOf(req[i]) /\ e <= IF req[i].periodic THEN u + s2 ELSE s2
  BY <1>3, <1>4 DEF LateOf
<1>8. f <= d + e
  BY <1>2, <1>6, <1>7 DEF Inv, OnTime, Timely
<1>9. LowTurn = s2
  BY <1>3 DEF LowTurn, Low
<1>. QED BY <1>1, <1>2, <1>5, <1>6, <1>7, <1>8, <1>9

\* A timer of wheel 0 is at most one turn of wheel 2 late, a periodic one at
\* most one turn of the wheels 1 and 2 more, unless redistribute_nodes left it
\* in the last bucket of wheel 0.
THEOREM NeverTooLate == Spec => []LongOnTime
BY TimerInvariant, InvLong, PTL

-----------------------------------------------------------------------------
(* The wheels implement Countdown.                                          *)

\* What the callers see of the timers' intervals.
Intervals == [i \in Timer |-> [ticks |-> req[i].timeout \div G,
                               periodic |-> req[i].periodic]]

\* A step of Countdown, or one it does not see.
CountdownStep == [C!CNext]_(C!cvars)

\* Steps that Countdown does not see.
LEMMA Unseen ==
  ASSUME UNCHANGED <<now, req, due, fired>>, Running' = Running
  PROVE  CountdownStep
<1>1. Intervals' = Intervals
  BY DEF Intervals
<1>. QED BY <1>1 DEF CountdownStep, C!cvars, Intervals

\* Starting a timer is Countdown's start.
LEMMA StartStep ==
  ASSUME Inv, NEW i \in Timer, NEW r \in Request, Start(i, r)
  PROVE  CountdownStep
<1>1. PICK d \in Nat : d = r.timeout \div G
  BY TimeoutIs, Container, DivMod
<1>2. /\ life[i] = "new" /\ req' = [req EXCEPT ![i] = r]
      /\ life' = [life EXCEPT ![i] = "armed"]
      /\ due' = [due EXCEPT ![i] = now + d]
      /\ UNCHANGED <<now, halted, fired>>
  BY <1>1 DEF Start
<1>3. i \notin halted /\ req[i] = [timeout |-> 0, periodic |-> FALSE]
  BY <1>2 DEF Inv, Halted, Requests
<1>4. /\ life'[i] = "armed" /\ req'[i] = r
      /\ \A j \in Timer : j # i => life'[j] = life[j] /\ req'[j] = req[j]
  BY <1>2 DEF Inv, Types
<1>5. i \notin Running /\ Running' = Running \cup {i}
  BY <1>2, <1>3, <1>4 DEF Running
<1>6. Intervals[i] = C!Rec(0, FALSE)
  <2>1. 0 \div G = 0
    <3>1. PICK g \in Nat : g = G /\ g > 0
      BY Container
    <3>2. 0 = g * 0 + 0
      BY <3>1
    <3>3. 0 \div g = 0 /\ 0 % g = 0
      BY <3>1, <3>2, Unique
    <3>. QED BY <3>1, <3>3
  <2>2. Intervals[i] = [ticks |-> req[i].timeout \div G, periodic |-> req[i].periodic]
    BY DEF Intervals
  <2>3. req[i].timeout = 0 /\ req[i].periodic = FALSE
    BY <1>3
  <2>4. Intervals[i] = [ticks |-> 0, periodic |-> FALSE]
    BY <2>1, <2>2, <2>3
  <2>. QED BY <2>4 DEF C!Rec
<1>7. Intervals' = [Intervals EXCEPT ![i] = C!Rec(d, r.periodic)]
  BY <1>1, <1>4 DEF Intervals, C!Rec
<1>8. C!CStart(i, d, r.periodic)
  BY <1>2, <1>5, <1>6, <1>7 DEF C!CStart, Intervals
<1>9. d \in {q.timeout \div G : q \in Request} /\ r.periodic \in BOOLEAN
  BY <1>1, TimeoutIs
<1>10. C!CNext
  BY <1>8, <1>9 DEF C!CNext
<1>. QED BY <1>10 DEF CountdownStep

\* Stopping timers is Countdown's stop: what timer_stop_tmr frees or marks no
\* longer runs, and nothing else is stopped.
LEMMA StopStep ==
  ASSUME Inv, NEW I \in SUBSET Timer, StopOwn(I), halted' = halted \cup I,
         UNCHANGED <<now, req, due, fired>>
  PROVE  CountdownStep
<1>1. \A i \in Timer \ I : life'[i] = life[i]
  BY DEF StopOwn
<1>2. Running' = Running \ I
  BY <1>1 DEF Running
<1>3. Intervals' = Intervals
  BY DEF Intervals
<1>4. C!CStop(I)
  BY <1>2, <1>3 DEF C!CStop, Intervals
<1>5. C!CNext
  BY <1>4 DEF C!CNext
<1>. QED BY <1>5 DEF CountdownStep

\* Taking a timer out of the bucket is Countdown's fire, not before its time,
\* or for a marked one nothing.
LEMMA ExpireStep ==
  ASSUME Inv, NEW i \in Timer, ExpireNext(i)
  PROVE  CountdownStep
<1>1. /\ life[i] = "armed" /\ where[i] = <<Low, bid[Low]>>
      /\ UNCHANGED <<now, req, halted>>
  BY DEF ExpireNext, Linked
<1>2. Intervals' = Intervals
  BY <1>1 DEF Intervals
<1>3. \A j \in Timer : j # i => life'[j] = life[j]
  BY DEF ExpireNext, Inv, Types
<1>4. CASE i \in stopped
  <2>1. life'[i] = "done" /\ UNCHANGED <<due, fired>>
    BY <1>4 DEF ExpireNext, Inv, Types
  <2>2. i \in halted
    BY <1>4 DEF Inv, Halted
  <2>3. Running' = Running
    BY <1>1, <1>3, <2>2 DEF Running
  <2>. QED BY <1>1, <2>1, <2>3, Unseen
<1>5. CASE i \notin stopped
  <2>1. /\ life'[i] = "callback"
        /\ fired' = [fired EXCEPT ![i] = @ + 1]
        /\ due' = [due EXCEPT ![i] = IF req[i].periodic
                                     THEN now + req[i].timeout \div G ELSE @]
    BY <1>5 DEF ExpireNext, Inv, Types
  <2>2. i \notin halted
    BY <1>1, <1>5 DEF Inv, Halted
  <2>3. i \in Running /\ Running' = IF req[i].periodic THEN Running ELSE Running \ {i}
    BY <1>1, <1>3, <2>1, <2>2 DEF Running
  <2>4. now >= due[i]
    <3>1. where[i][1] = 2
      BY <1>1 DEF Low
    <3>2. due[i] <= Fire(i)
      BY <1>1, <3>1 DEF Inv, OnTime, Timely
    <3>3. Fire(i) = now
      BY <1>1, FireAhead
    <3>. QED BY <3>2, <3>3 DEF Inv, Types
  <2>5. /\ Intervals[i].ticks = req[i].timeout \div G
        /\ Intervals[i].periodic = req[i].periodic
        /\ req[i].periodic \in BOOLEAN
    BY DEF Intervals, Inv, Types
  <2>6. IF Intervals[i].periodic
        THEN /\ due' = [due EXCEPT ![i] = now + Intervals[i].ticks]
             /\ UNCHANGED Running
        ELSE /\ Running' = Running \ {i}
             /\ UNCHANGED due
    <3>1. [due EXCEPT ![i] = due[i]] = due
      BY DEF Inv, Types
    <3>2. CASE req[i].periodic = TRUE
      BY <2>1, <2>3, <2>5, <3>2
    <3>3. CASE req[i].periodic = FALSE
      BY <2>1, <2>3, <2>5, <3>1, <3>3
    <3>. QED BY <2>5, <3>2, <3>3
  <2>7. C!CFire(i)
    BY <1>1, <1>2, <2>1, <2>3, <2>4, <2>6 DEF C!CFire, Intervals
  <2>8. C!CNext
    BY <2>7 DEF C!CNext
  <2>. QED BY <2>8 DEF CountdownStep
<1>. QED BY <1>4, <1>5

\* The return of a callback is nothing to Countdown: a timer that is linked
\* again was running, one that is freed was not.
LEMMA ReturnStep ==
  ASSUME Inv, NEW i \in Timer, CallbackEnd(i)
  PROVE  CountdownStep
<1>1. life[i] = "callback" /\ UNCHANGED <<now, req, stopped, halted, due, fired>>
  BY DEF CallbackEnd, Calling
<1>2. /\ \A j \in Timer : j # i => life'[j] = life[j]
      /\ req[i].periodic /\ i \notin stopped => life'[i] = "armed"
      /\ ~(req[i].periodic /\ i \notin stopped) => life'[i] = "done"
  BY DEF CallbackEnd, Inv, Types
<1>3. i \in stopped => i \in halted
  BY DEF Inv, Halted
<1>4. Running' = Running
  BY <1>1, <1>2, <1>3 DEF Running
<1>. QED BY <1>1, <1>4, Unseen

\* The end of a tick is Countdown's: every timer that was to fire has fired.
LEMMA TickStep ==
  ASSUME Inv, EndTick
  PROVE  CountdownStep
<1>1. /\ phase = "expire" /\ Linked(Low, bid[Low]) = {}
      /\ now' = now + 1 /\ UNCHANGED <<req, life, halted, due, fired>>
  BY DEF EndTick
<1>2. Intervals' = Intervals /\ Running' = Running
  BY <1>1 DEF Intervals, Running
<1>3. ASSUME NEW i \in Running
      PROVE  \/ Intervals[i].ticks >= Span(1) \div G
             \/ now < due[i] + (IF Intervals[i].periodic THEN LowTurn ELSE 0)
  <2>1. i \in Timer /\ life[i] = "armed"
    BY <1>1 DEF Running, Inv, Phases, Calling
  <2>2. /\ Intervals[i].ticks = req[i].timeout \div G
        /\ Intervals[i].periodic = req[i].periodic
    BY <2>1 DEF Intervals
  <2>3. req[i] \in Request
    BY <2>1 DEF Inv, Requests
  <2>4. PICK t \in Nat : t = req[i].timeout
    BY <2>3, TimeoutIs
  <2>5. CASE t >= Span(1)
    <3>1. PICK u \in Nat : u = Turn
      BY Container
    <3>2. PICK g \in Nat : g = G /\ g > 0
      BY Container
    <3>3. Span(1) = u * g
      BY <3>1, <3>2, Container
    <3>4. PICK z \in Nat : z = u * g
      BY Times
    <3>5. PICK k \in Nat : k = t \div g
      BY <3>2, DivMod
    <3>6. t < u * g <=> t \div g < u
      BY <3>2, DivBelow
    <3>7. k >= u
      BY <2>5, <3>3, <3>4, <3>5, <3>6
    <3>8. z \div g = u
      <4>1. z = g * u + 0
        BY <3>4, Times
      <4>2. z \div g = u /\ z % g = 0
        BY <3>2, <4>1, Unique
      <4>. QED BY <4>2
    <3>. QED BY <2>2, <2>4, <3>2, <3>3, <3>4, <3>5, <3>7, <3>8
  <2>6. CASE t < Span(1)
    <3>1. ~(req[i].timeout >= Span(1))
      BY <2>4, <2>6, SpanIs
    <3>2. Timely(i)
      BY <2>1 DEF Inv, OnTime
    <3>3. i \notin held
      BY <3>1, <3>2 DEF Timely
    <3>4. Fire(i) <= due[i] + LateOf(req[i])
      BY <3>2, <3>3 DEF Timely
    <3>5. LateOf(req[i]) = IF req[i].periodic THEN LowTurn ELSE 0
      BY <2>4, <2>6 DEF LateOf, LowTurn, Low
    <3>6. where[i] # <<Low, bid[Low]>>
      BY <1>1, <2>1 DEF Linked
    <3>7. Fire(i) \in Nat /\ now < Fire(i)
      BY <2>1, <3>6, FireAhead
    <3>8. PICK e \in Nat : e = IF req[i].periodic THEN LowTurn ELSE 0
      BY Container DEF LowTurn, Low, Wheel
    <3>9. now \in Nat /\ due[i] \in Nat
      BY <2>1 DEF Inv, Types
    <3>10. now < due[i] + e
      BY <3>4, <3>5, <3>7, <3>8, <3>9
    <3>. QED BY <2>2, <3>8, <3>10
  <2>. QED BY <2>4, <2>5, <2>6, SpanIs
<1>4. C!CTick
  BY <1>1, <1>2, <1>3 DEF C!CTick, Intervals
<1>5. C!CNext
  BY <1>4 DEF C!CNext
<1>. QED BY <1>5 DEF CountdownStep

\* Every step is a step of Countdown, or one it does not see.
LEMMA NextCountdown == Inv /\ [Next]_vars => CountdownStep
<1>. SUFFICES ASSUME Inv, [Next]_vars
              PROVE  CountdownStep
  OBVIOUS
<1>1. ASSUME NEW i \in Timer, NEW r \in Request, Start(i, r)
      PROVE  CountdownStep
  BY <1>1, StartStep
<1>2. ASSUME NEW i \in Timer, Stop(i)
      PROVE  CountdownStep
  BY <1>2, StopStep DEF Stop
<1>3. ASSUME NEW i \in Timer, StopRemote(i)
      PROVE  CountdownStep
  <2>1. UNCHANGED <<now, req, life, halted, due, fired>>
    BY <1>3 DEF StopRemote, node, history
  <2>2. Running' = Running
    BY <2>1 DEF Running
  <2>. QED BY <2>1, <2>2, Unseen
<1>4. CASE ProcessBegin
  <2>1. stops \in SUBSET Timer
    BY DEF Inv, Types
  <2>. QED BY <1>4, <2>1, StopStep DEF ProcessBegin
<1>5. ASSUME NEW i \in Timer, ExpireNext(i)
      PROVE  CountdownStep
  BY <1>5, ExpireStep
<1>6. ASSUME NEW i \in Timer, CallbackEnd(i)
      PROVE  CountdownStep
  BY <1>6, ReturnStep
<1>7. CASE EndTick
  BY <1>7, TickStep
<1>8. CASE UNCHANGED vars
  <2>1. UNCHANGED <<now, req, life, halted, due, fired>>
    BY <1>8 DEF vars, node, history
  <2>2. Running' = Running
    BY <2>1 DEF Running
  <2>. QED BY <2>1, <2>2, Unseen
<1>. QED BY <1>1, <1>2, <1>3, <1>4, <1>5, <1>6, <1>7, <1>8 DEF Next

\* The wheels implement Countdown: no timer fires early, a one-shot timer of
\* less than wheel 1's span fires in its tick, a periodic one at most a turn
\* of wheel 2 later, and once the owner has stopped it a timer does not fire.
THEOREM ImplementsCountdown == Spec => TimersOK
<1>1. Init => C!CInit
  <2>. SUFFICES ASSUME Init
                PROVE  C!CInit
    OBVIOUS
  <2>1. 0 \div G = 0
    <3>1. PICK g \in Nat : g = G /\ g > 0
      BY Container
    <3>2. 0 = g * 0 + 0
      BY <3>1
    <3>3. 0 \div g = 0 /\ 0 % g = 0
      BY <3>1, <3>2, Unique
    <3>. QED BY <3>1, <3>3
  <2>2. Running = {}
    BY DEF Init, Running
  <2>3. Intervals = [i \in Timer |-> C!Rec(0, FALSE)]
    BY <2>1 DEF Init, Intervals, C!Rec
  <2>. QED BY <2>2, <2>3 DEF Init, Intervals, C!CInit
<1>2. Inv /\ [Next]_vars => [C!CNext]_(C!cvars)
  BY NextCountdown DEF CountdownStep
<1>. QED BY <1>1, <1>2, TimerInvariant, PTL DEF Spec, TimersOK, C!CSpec

=============================================================================
