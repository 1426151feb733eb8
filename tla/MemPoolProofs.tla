---------------------------- MODULE MemPoolProofs ----------------------------
(***************************************************************************)
(* The pool's counters are right and its limits are kept for every number   *)
(* of blocks and threads and every choice of the thresholds.  The four      *)
(* invariants are proved together: a refill keeps to the limits only        *)
(* because the counters are exact and within them before, and the counters  *)
(* stay exact only because Moved(N), taken from the counter, is never more  *)
(* than the list holds.                                                     *)
(***************************************************************************)
EXTENDS MemPool, FiniteSetTheorems, TLAPS

Inv == TypeOK /\ CountsExact /\ WithinLimits /\ HeapAccounted

\* The blocks that a placement f has at p.
Where(f, p) == {b \in Block : f[b] = p}
Places == {"os", "pool", "held"} \cup Worker
NotIdle(g) == {t \in Thread : g[t] # "no"}

-----------------------------------------------------------------------------
(* Sets and their sizes.                                                    *)

\* Sets of blocks are finite, and so is a set of threads.
LEMMA BlocksFinite ==
  ASSUME NEW S, S \subseteq Block
  PROVE  IsFiniteSet(S) /\ Cardinality(S) \in Nat
BY MemPoolAssumption, FS_Subset, FS_CardinalityType

\* The set of threads is finite.
LEMMA ThreadsFinite ==
  ASSUME NEW S, S \subseteq Thread
  PROVE  IsFiniteSet(S) /\ Cardinality(S) \in Nat
BY MemPoolAssumption, FS_Subset, FS_CardinalityType

\* Adding an element, and a disjoint set.
LEMMA CardAdd ==
  ASSUME NEW S, IsFiniteSet(S), NEW x, x \notin S
  PROVE  Cardinality(S \cup {x}) = Cardinality(S) + 1
BY FS_AddElement

\* Removing an element.
LEMMA CardRemove ==
  ASSUME NEW S, IsFiniteSet(S), NEW x, x \in S
  PROVE  /\ Cardinality(S \ {x}) = Cardinality(S) - 1
         /\ Cardinality(S) > 0
<1>1. Cardinality(S \ {x}) = Cardinality(S) - 1
  BY FS_RemoveElement
<1>2. Cardinality(S) \in Nat /\ (Cardinality(S) = 0 <=> S = {})
  BY FS_CardinalityType, FS_EmptySet
<1> QED BY <1>1, <1>2

\* The union of disjoint sets.
LEMMA CardUnion ==
  ASSUME NEW S, NEW T, IsFiniteSet(S), IsFiniteSet(T), S \cap T = {}
  PROVE  Cardinality(S \cup T) = Cardinality(S) + Cardinality(T)
<1>1. /\ Cardinality(S \cup T) =
            Cardinality(S) + Cardinality(T) - Cardinality(S \cap T)
      /\ Cardinality(S) \in Nat /\ Cardinality(T) \in Nat
  BY FS_Union, FS_CardinalityType
<1>2. Cardinality(S \cap T) = 0
  BY FS_EmptySet
<1> QED BY <1>1, <1>2

\* Taking away a subset.
LEMMA CardDiff ==
  ASSUME NEW S, NEW T, IsFiniteSet(S), T \subseteq S
  PROVE  Cardinality(S \ T) = Cardinality(S) - Cardinality(T)
<1>1. IsFiniteSet(T) /\ IsFiniteSet(S \ T)
  BY FS_Subset
<1>2. Cardinality((S \ T) \cup T) = Cardinality(S \ T) + Cardinality(T)
  BY <1>1, CardUnion
<1>3. (S \ T) \cup T = S
  OBVIOUS
<1>4. Cardinality(S \ T) \in Nat /\ Cardinality(T) \in Nat
  BY <1>1, FS_CardinalityType
<1>5. Cardinality(S) = Cardinality(S \ T) + Cardinality(T)
  BY <1>2, <1>3, Zenon
<1> QED BY <1>4, <1>5

\* What one block's move from its place to q does to the sizes of the places.
LEMMA MoveOne ==
  ASSUME NEW f \in [Block -> Places], NEW b \in Block, NEW q \in Places, f[b] # q
  PROVE  /\ [f EXCEPT ![b] = q] \in [Block -> Places]
         /\ Cardinality(Where([f EXCEPT ![b] = q], q)) = Cardinality(Where(f, q)) + 1
         /\ Cardinality(Where([f EXCEPT ![b] = q], f[b])) = Cardinality(Where(f, f[b])) - 1
         /\ Cardinality(Where(f, f[b])) > 0
<1>1. Where([f EXCEPT ![b] = q], q) = Where(f, q) \cup {b} /\ b \notin Where(f, q)
  BY DEF Where
<1>2. Where([f EXCEPT ![b] = q], f[b]) = Where(f, f[b]) \ {b} /\ b \in Where(f, f[b])
  BY DEF Where
<1>3. IsFiniteSet(Where(f, q)) /\ IsFiniteSet(Where(f, f[b]))
  BY BlocksFinite DEF Where
<1> QED BY <1>1, <1>2, <1>3, CardAdd, CardRemove DEF Where

\* The places are different from each other.
LEMMA PlacesDistinct ==
  \A t \in Worker : t # "os" /\ t # "pool" /\ t # "held" /\ t \in Thread
BY MemPoolAssumption DEF Thread

\* One thread more or less is between two steps.
LEMMA BusyMore ==
  ASSUME NEW t \in Thread, busy[t] = "no", busy \in [Thread -> {"no", "calloc", "freed"}],
         NEW s \in {"calloc", "freed"}
  PROVE  Cardinality(NotIdle([busy EXCEPT ![t] = s])) = Cardinality(NotIdle(busy)) + 1
<1>1. /\ NotIdle([busy EXCEPT ![t] = s]) = NotIdle(busy) \cup {t}
      /\ t \notin NotIdle(busy)
  BY DEF NotIdle
<1>2. IsFiniteSet(NotIdle(busy))
  BY ThreadsFinite DEF NotIdle
<1> QED BY <1>1, <1>2, CardAdd

\* One thread less is between two steps.
LEMMA BusyLess ==
  ASSUME NEW t \in Thread, busy[t] # "no", busy \in [Thread -> {"no", "calloc", "freed"}]
  PROVE  /\ Cardinality(NotIdle([busy EXCEPT ![t] = "no"])) = Cardinality(NotIdle(busy)) - 1
         /\ Cardinality(NotIdle(busy)) > 0
<1>1. /\ NotIdle([busy EXCEPT ![t] = "no"]) = NotIdle(busy) \ {t}
      /\ t \in NotIdle(busy)
  BY DEF NotIdle
<1>2. IsFiniteSet(NotIdle(busy))
  BY ThreadsFinite DEF NotIdle
<1> QED BY <1>1, <1>2, CardRemove

-----------------------------------------------------------------------------
(* The invariant in terms of Where and NotIdle.                             *)

\* The parts of the invariant, over the values of the variables.
StaticInv(f, fr, st, th) ==
  /\ f \in [Block -> Places]
  /\ fr = Cardinality(Where(f, "pool"))
  /\ th \in [Worker -> Nat]
  /\ \A t \in Worker : th[t] = Cardinality(Where(f, t))
  /\ st = Cardinality(Block \ Where(f, "os"))
  /\ fr <= ThresholdMax
  /\ st <= StaticBlocks
  /\ \A t \in Worker : th[t] <= MoveCount

HeapInv(hf, ho, hl, bu) ==
  /\ hf \in Nat /\ ho \in Nat /\ hl \in Nat
  /\ bu \in [Thread -> {"no", "calloc", "freed"}]
  /\ hf + ho + hl + Cardinality(NotIdle(bu)) = HeapAllowed

\* The parts of the invariant.
LEMMA InvParts ==
  Inv <=> /\ StaticInv(place, free, statics, thFree)
          /\ HeapInv(heapFree, heapOut, heapLost, busy)
          /\ dry \in BOOLEAN
<1>1. \A p : At(p) = Where(place, p)
  BY DEF At, Where
<1>2. {t \in Thread : ~Idle(t)} = NotIdle(busy)
  BY DEF Idle, NotIdle
<1>3. place \in [Block -> Places] =>
        /\ Cardinality(Where(place, "pool")) \in Nat
        /\ Cardinality(Block \ Where(place, "os")) \in Nat
  BY BlocksFinite DEF Where
<1> QED
  BY <1>1, <1>2, <1>3
  DEF Inv, TypeOK, CountsExact, WithinLimits, HeapAccounted, StaticInv, HeapInv, Places

\* The same for the next state.
LEMMA InvPartsPrimed ==
  Inv' <=> /\ StaticInv(place', free', statics', thFree')
           /\ HeapInv(heapFree', heapOut', heapLost', busy')
           /\ dry' \in BOOLEAN
<1>1. \A p : At(p)' = Where(place', p)
  BY DEF At, Where
<1>2. {t \in Thread : ~Idle(t)}' = NotIdle(busy')
  BY DEF Idle, NotIdle
<1>3. place' \in [Block -> Places] =>
        /\ Cardinality(Where(place', "pool")) \in Nat
        /\ Cardinality(Block \ Where(place', "os")) \in Nat
  BY BlocksFinite DEF Where
<1>4. At("pool")' = Where(place', "pool") /\ At("os")' = Where(place', "os")
      /\ \A t \in Worker : At(t)' = Where(place', t)
  BY <1>1
<1> QED
  BY <1>2, <1>3, <1>4
  DEF Inv, TypeOK, CountsExact, WithinLimits, HeapAccounted, StaticInv, HeapInv, Places

-----------------------------------------------------------------------------
(* Refilling.                                                               *)

\* A refill asks for no more than both limits allow.
LEMMA ChunkBound ==
  ASSUME free \in Nat, statics \in Nat, free <= ThresholdMax, statics <= StaticBlocks
  PROVE  /\ Chunk \in Nat
         /\ free + Chunk <= ThresholdMax
         /\ statics + Chunk <= StaticBlocks
BY MemPoolAssumption DEF Chunk

\* What is known of the list and the counters once N has been appended.
LEMMA RefillCounts ==
  ASSUME Inv, NEW N, Refill(N)
  PROVE  /\ N \subseteq Where(place, "os") /\ IsFiniteSet(N) /\ Cardinality(N) \in Nat
         /\ free \in Nat /\ statics \in Nat
         /\ Count(N) \in Nat /\ Count(N) <= ThresholdMax
         /\ statics + Cardinality(N) <= StaticBlocks
         /\ Pool(N) = Where(place, "pool") \cup N
         /\ IsFiniteSet(Pool(N)) /\ Cardinality(Pool(N)) = Count(N)
         /\ Cardinality((Block \ Where(place, "os")) \cup N) = statics + Cardinality(N)
         /\ dry' \in BOOLEAN
<1>1. /\ StaticInv(place, free, statics, thFree)
      /\ free \in Nat /\ statics \in Nat /\ dry \in BOOLEAN
  BY InvParts DEF Inv, TypeOK
<1>2. N \subseteq Where(place, "os") /\ N \subseteq Block
  BY DEF Refill, At, Where
<1>3. IsFiniteSet(N) /\ Cardinality(N) \in Nat
  BY <1>2, BlocksFinite
<1>4. Chunk \in Nat /\ free + Chunk <= ThresholdMax /\ statics + Chunk <= StaticBlocks
  BY <1>1, ChunkBound DEF StaticInv
<1>5. Cardinality(N) <= Chunk
  <2>1. CASE NeedsRefill
    BY <2>1, <1>3, <1>4 DEF Refill
  <2>2. CASE ~NeedsRefill
    <3>1. N = {}
      BY <2>2 DEF Refill
    <3>2. Cardinality(N) = 0
      BY <3>1, FS_EmptySet
    <3> QED BY <3>2, <1>4
  <2> QED BY <2>1, <2>2
<1>6. Count(N) \in Nat /\ Count(N) <= ThresholdMax /\ statics + Cardinality(N) <= StaticBlocks
  BY <1>1, <1>3, <1>4, <1>5, MemPoolAssumption DEF Count
<1>7. Pool(N) = Where(place, "pool") \cup N /\ Where(place, "pool") \cap N = {}
  BY <1>2 DEF Pool, At, Where
<1>8. IsFiniteSet(Pool(N)) /\ IsFiniteSet(Where(place, "pool"))
  BY <1>2, <1>7, BlocksFinite DEF Where
<1>9. Cardinality(Pool(N)) = Count(N)
  <2>1. Cardinality(Pool(N)) = Cardinality(Where(place, "pool")) + Cardinality(N)
    BY <1>3, <1>7, <1>8, CardUnion
  <2> QED BY <2>1, <1>1, <1>3 DEF Count, StaticInv
<1>10. Cardinality((Block \ Where(place, "os")) \cup N) = statics + Cardinality(N)
  <2>1. IsFiniteSet(Block \ Where(place, "os"))
    BY BlocksFinite
  <2>2. (Block \ Where(place, "os")) \cap N = {}
    BY <1>2
  <2>3. Cardinality((Block \ Where(place, "os")) \cup N)
          = Cardinality(Block \ Where(place, "os")) + Cardinality(N)
    BY <2>1, <2>2, <1>3, CardUnion
  <2> QED BY <2>3, <1>1 DEF StaticInv
<1>11. dry' \in BOOLEAN
  BY <1>1 DEF Refill
<1> QED BY <1>1, <1>2, <1>3, <1>6, <1>7, <1>8, <1>9, <1>10, <1>11

\* Blocks N come from the C heap to the pool's list, of which M goes to the
\* list of thread t and b of M to the caller.
Shift(f, N, M, b, t) ==
  [c \in Block |-> IF c = b THEN "held"
                   ELSE IF c \in M THEN t
                   ELSE IF c \in N THEN "pool" ELSE f[c]]

\* The same with a single block that goes to a caller, or none.
Take(f, N, B) ==
  [c \in Block |-> IF c \in B THEN "held" ELSE IF c \in N THEN "pool" ELSE f[c]]

\* Where the blocks are after one has been taken.
LEMMA TakePlaces ==
  ASSUME NEW f \in [Block -> Places], NEW N, N \subseteq Where(f, "os"),
         NEW B, B \subseteq Where(f, "pool") \cup N
  PROVE  /\ Take(f, N, B) \in [Block -> Places]
         /\ Where(Take(f, N, B), "pool") = (Where(f, "pool") \cup N) \ B
         /\ Block \ Where(Take(f, N, B), "os") = (Block \ Where(f, "os")) \cup N
<1> DEFINE g == Take(f, N, B)
<1>0. B \subseteq Block /\ N \subseteq Block
  BY DEF Where
<1>1. g \in [Block -> Places]
  BY DEF Take, Places
<1>2. \A c \in Block : g[c] = IF c \in B THEN "held"
                              ELSE IF c \in N THEN "pool" ELSE f[c]
  BY DEF Take
<1>3. Where(g, "pool") = (Where(f, "pool") \cup N) \ B
  BY <1>0, <1>2 DEF Where
<1>4. Block \ Where(g, "os") = (Block \ Where(f, "os")) \cup N
  BY <1>0, <1>2 DEF Where
<1> QED BY <1>1, <1>3, <1>4

-----------------------------------------------------------------------------
(* One lemma per action.                                                    *)

\* Facts of the invariant that every step uses.
LEMMA InvFacts ==
  ASSUME Inv
  PROVE  /\ StaticInv(place, free, statics, thFree)
         /\ HeapInv(heapFree, heapOut, heapLost, busy)
         /\ place \in [Block -> Places] /\ thFree \in [Worker -> Nat]
         /\ free \in Nat /\ statics \in Nat /\ dry \in BOOLEAN
BY InvParts DEF Inv, TypeOK, StaticInv

\* A get from the thread's own list keeps the invariant.
LEMMA GetOwnStep ==
  ASSUME Inv, NEW t \in Worker, NEW b \in Block, GetOwn(t, b)
  PROVE  Inv'
<1>1. place' = [place EXCEPT ![b] = "held"] /\ place[b] = t /\ t # "held"
  BY PlacesDistinct DEF GetOwn
<1>2. /\ place' \in [Block -> Places]
      /\ Cardinality(Where(place', t)) = Cardinality(Where(place, t)) - 1
      /\ \A p \in Places \ {"held", t} : Where(place', p) = Where(place, p)
  <2>1. place \in [Block -> Places] /\ "held" \in Places /\ place[b] # "held"
    BY <1>1, InvFacts DEF Places
  <2>2. /\ place' \in [Block -> Places]
        /\ Cardinality(Where(place', place[b])) = Cardinality(Where(place, place[b])) - 1
        /\ \A p \in Places \ {"held", place[b]} : Where(place', p) = Where(place, p)
    <3>1. \A p \in Places \ {"held", place[b]} : Where(place', p) = Where(place, p)
      BY <1>1, <2>1 DEF Where
    <3>2. [place EXCEPT ![b] = "held"] \in [Block -> Places]
      BY <2>1
    <3>3. Cardinality(Where([place EXCEPT ![b] = "held"], place[b]))
            = Cardinality(Where(place, place[b])) - 1
      BY <2>1, MoveOne
    <3> QED BY <1>1, <3>1, <3>2, <3>3
  <2> QED BY <2>2, <1>1
<1>3. StaticInv(place', free', statics', thFree')
  <2>1. Where(place', "pool") = Where(place, "pool") /\ Where(place', "os") = Where(place, "os")
    BY <1>2, PlacesDistinct DEF Places
  <2>2. \A u \in Worker \ {t} : Where(place', u) = Where(place, u) /\ thFree'[u] = thFree[u]
    BY <1>2, InvFacts, PlacesDistinct DEF Places, GetOwn
  <2>3. /\ thFree' \in [Worker -> Nat] /\ thFree'[t] = thFree[t] - 1
        /\ free' = free /\ statics' = statics
    BY InvFacts DEF GetOwn
  <2>4. thFree'[t] = Cardinality(Where(place', t)) /\ thFree'[t] <= MoveCount
    BY <1>2, <2>3, InvFacts, MemPoolAssumption DEF StaticInv
  <2> QED BY <1>2, <2>1, <2>2, <2>3, <2>4, InvFacts DEF StaticInv
<1>4. HeapInv(heapFree', heapOut', heapLost', busy') /\ dry' \in BOOLEAN
  BY InvFacts DEF GetOwn, heap
<1> QED BY <1>3, <1>4, InvPartsPrimed

\* A move from the shared list to a thread's keeps the invariant.
LEMMA GetMoveStep ==
  ASSUME Inv, NEW t \in Worker, NEW N, NEW M, NEW b, GetMove(t, N, M, b)
  PROVE  Inv'
<1>1. /\ N \subseteq Where(place, "os") /\ IsFiniteSet(N) /\ Cardinality(N) \in Nat
      /\ Count(N) \in Nat /\ Count(N) <= ThresholdMax
      /\ statics + Cardinality(N) <= StaticBlocks
      /\ Pool(N) = Where(place, "pool") \cup N
      /\ IsFiniteSet(Pool(N)) /\ Cardinality(Pool(N)) = Count(N)
      /\ Cardinality((Block \ Where(place, "os")) \cup N) = statics + Cardinality(N)
      /\ dry' \in BOOLEAN
  BY RefillCounts DEF GetMove
<1>2. /\ M \subseteq Pool(N) /\ b \in M /\ Cardinality(M) = Moved(N)
      /\ place' = Shift(place, N, M, b, t) /\ thFree[t] = 0
  BY DEF GetMove, Shift
<1>3. /\ place' \in [Block -> Places]
      /\ Where(place', "pool") = Pool(N) \ M
      /\ Where(place', t) = Where(place, t) \cup (M \ {b})
      /\ \A u \in Worker \ {t} : Where(place', u) = Where(place, u)
      /\ Block \ Where(place', "os") = (Block \ Where(place, "os")) \cup N
  <2>1. /\ place \in [Block -> Places] /\ N \subseteq Where(place, "os")
        /\ M \subseteq Where(place, "pool") \cup N /\ b \in M
    BY <1>1, <1>2, InvFacts
  <2>2. /\ M \subseteq Block /\ N \subseteq Block
        /\ \A c \in Block : place'[c] = IF c = b THEN "held" ELSE IF c \in M THEN t
                                      ELSE IF c \in N THEN "pool" ELSE place[c]
    BY <2>1, <1>2 DEF Where, Shift
  <2>3. place' \in [Block -> Places]
    BY <2>1, <1>2 DEF Shift, Places
  <2>4. Where(place', "pool") = Pool(N) \ M
    BY <2>1, <2>2, <1>1, PlacesDistinct DEF Where
  <2>5. Where(place', t) = Where(place, t) \cup (M \ {b})
    BY <2>1, <2>2, PlacesDistinct DEF Where
  <2>6. \A u \in Worker \ {t} : Where(place', u) = Where(place, u)
    BY <2>1, <2>2, PlacesDistinct DEF Where
  <2>7. Block \ Where(place', "os") = (Block \ Where(place, "os")) \cup N
    BY <2>1, <2>2, PlacesDistinct DEF Where
  <2> QED BY <2>3, <2>4, <2>5, <2>6, <2>7
<1>4. IsFiniteSet(M) /\ Cardinality(M \ {b}) = Moved(N) - 1 /\ Moved(N) > 0
  BY <1>1, <1>2, FS_Subset, CardRemove
<1>5. Moved(N) \in Nat /\ Moved(N) <= Count(N) /\ Moved(N) <= MoveCount
  BY <1>1, MemPoolAssumption DEF Moved
<1>6. Cardinality(Where(place', "pool")) = Count(N) - Moved(N)
  BY <1>1, <1>2, <1>3, CardDiff
<1>7. Where(place, t) = {}
  <2>1. Cardinality(Where(place, t)) = 0 /\ IsFiniteSet(Where(place, t))
    BY <1>2, InvFacts, BlocksFinite DEF StaticInv, Where
  <2> QED BY <2>1, FS_EmptySet
<1>8. Cardinality(Where(place', t)) = Moved(N) - 1
  BY <1>3, <1>4, <1>7
<1>9. StaticInv(place', free', statics', thFree')
  <2>1. /\ free' = Count(N) - Moved(N) /\ statics' = statics + Cardinality(N)
        /\ thFree' = [thFree EXCEPT ![t] = Moved(N) - 1]
    BY DEF GetMove
  <2>2. thFree' \in [Worker -> Nat] /\ thFree'[t] = Moved(N) - 1
        /\ \A u \in Worker \ {t} : thFree'[u] = thFree[u]
    BY <2>1, <1>4, <1>5, InvFacts
  <2>3. free' <= ThresholdMax /\ Moved(N) - 1 <= MoveCount
    BY <2>1, <1>1, <1>5, MemPoolAssumption
  <2>4. statics' = Cardinality(Block \ Where(place', "os")) /\ statics' <= StaticBlocks
    BY <2>1, <1>1, <1>3
  <2>5. \A u \in Worker : thFree'[u] = Cardinality(Where(place', u)) /\ thFree'[u] <= MoveCount
    BY <2>2, <2>3, <1>3, <1>8, InvFacts DEF StaticInv
  <2> QED BY <2>1, <2>2, <2>3, <2>4, <2>5, <1>3, <1>6 DEF StaticInv
<1>10. HeapInv(heapFree', heapOut', heapLost', busy')
  BY InvFacts DEF GetMove, heap
<1> QED BY <1>1, <1>9, <1>10, InvPartsPrimed

\* A block, or none, of the refilled list goes to the caller.
LEMMA TakeStep ==
  ASSUME Inv, NEW N, NEW B, Refill(N), B \subseteq Pool(N), place' = Take(place, N, B),
         statics' = statics + Cardinality(N), free' = Count(N) - Cardinality(B),
         UNCHANGED thFree
  PROVE  StaticInv(place', free', statics', thFree') /\ dry' \in BOOLEAN
<1>1. /\ N \subseteq Where(place, "os") /\ IsFiniteSet(N) /\ Cardinality(N) \in Nat
      /\ Count(N) \in Nat /\ Count(N) <= ThresholdMax
      /\ statics + Cardinality(N) <= StaticBlocks
      /\ Pool(N) = Where(place, "pool") \cup N
      /\ IsFiniteSet(Pool(N)) /\ Cardinality(Pool(N)) = Count(N)
      /\ Cardinality((Block \ Where(place, "os")) \cup N) = statics + Cardinality(N)
      /\ dry' \in BOOLEAN
  BY RefillCounts
<1>2. /\ place' \in [Block -> Places]
      /\ Where(place', "pool") = Pool(N) \ B
      /\ \A u \in Worker : Where(place', u) = Where(place, u)
      /\ Block \ Where(place', "os") = (Block \ Where(place, "os")) \cup N
  <2>1. /\ place \in [Block -> Places] /\ N \subseteq Where(place, "os")
        /\ B \subseteq Where(place, "pool") \cup N
    BY <1>1, InvFacts
  <2>2. \A u \in Worker : Where(place', u) = Where(place, u)
    BY <2>1, <1>1, PlacesDistinct DEF Take, Where
  <2>3. /\ Take(place, N, B) \in [Block -> Places]
        /\ Where(Take(place, N, B), "pool") = (Where(place, "pool") \cup N) \ B
        /\ Block \ Where(Take(place, N, B), "os") = (Block \ Where(place, "os")) \cup N
    BY <2>1, TakePlaces, Zenon
  <2> QED BY <2>2, <2>3, <1>1
<1>3. Cardinality(Where(place', "pool")) = Count(N) - Cardinality(B) /\ Cardinality(B) \in Nat
  BY <1>1, <1>2, CardDiff, FS_Subset, FS_CardinalityType
<1>4. free' <= ThresholdMax
  BY <1>1, <1>3, MemPoolAssumption
<1>5. statics' = Cardinality(Block \ Where(place', "os")) /\ statics' <= StaticBlocks
  BY <1>1, <1>2
<1>6. \A u \in Worker : thFree'[u] = Cardinality(Where(place', u)) /\ thFree'[u] <= MoveCount
  BY <1>2, InvFacts DEF StaticInv
<1> QED BY <1>1, <1>2, <1>3, <1>4, <1>5, <1>6, InvFacts DEF StaticInv

\* A get from the shared list keeps the invariant.
LEMMA GetSharedStep ==
  ASSUME Inv, NEW t \in Other, NEW N, NEW b, GetShared(t, N, b)
  PROVE  Inv'
<1>1. place' = Take(place, N, {b})
  BY DEF GetShared, Take
<1>2. Cardinality({b}) = 1
  BY FS_Singleton
<1>3. StaticInv(place', free', statics', thFree') /\ dry' \in BOOLEAN
  BY <1>1, <1>2, TakeStep DEF GetShared
<1>4. HeapInv(heapFree', heapOut', heapLost', busy')
  BY InvFacts DEF GetShared, heap
<1> QED BY <1>3, <1>4, InvPartsPrimed

\* Turning to the C heap keeps the invariant.
LEMMA GetHeapStep ==
  ASSUME Inv, NEW t \in Thread, NEW N, NEW wanted \in BOOLEAN, GetHeap(t, N, wanted)
  PROVE  Inv'
<1>1. place' = Take(place, N, {})
  BY DEF GetHeap, Take
<1>2. Cardinality({}) = 0
  BY FS_EmptySet
<1>3. free' = Count(N) - Cardinality({})
  <2>1. Count(N) \in Nat /\ free' = Count(N)
    BY RefillCounts DEF GetHeap
  <2> QED BY <2>1, <1>2
<1>4. StaticInv(place', free', statics', thFree') /\ dry' \in BOOLEAN
  BY <1>1, <1>3, TakeStep DEF GetHeap
<1>5. HeapInv(heapFree', heapOut', heapLost', busy')
  <2>1. CASE wanted /\ heapFree > 0
    <3>1. /\ heapFree' = heapFree - 1 /\ heapOut' = heapOut /\ heapLost' = heapLost
          /\ busy' = [busy EXCEPT ![t] = "calloc"] /\ busy[t] = "no"
      BY <2>1 DEF GetHeap, Idle
    <3>2. Cardinality(NotIdle(busy')) = Cardinality(NotIdle(busy)) + 1
      BY <3>1, InvFacts, BusyMore DEF HeapInv
    <3>3. Cardinality(NotIdle(busy)) \in Nat
      BY ThreadsFinite DEF NotIdle
    <3> QED BY <2>1, <3>1, <3>2, <3>3, InvFacts, MemPoolAssumption DEF HeapInv
  <2>2. CASE ~(wanted /\ heapFree > 0)
    BY <2>2, InvFacts DEF GetHeap, HeapInv
  <2> QED BY <2>1, <2>2
<1> QED BY <1>4, <1>5, InvPartsPrimed

\* A release keeps the invariant.
LEMMA ReleaseStep ==
  ASSUME Inv, NEW t \in Thread, NEW b \in Block, Release(t, b)
  PROVE  Inv'
<1> DEFINE q == IF t \in Worker /\ thFree[t] < MoveCount THEN t
                ELSE IF free >= ThresholdMax THEN "os" ELSE "pool"
<1>1. place' = [place EXCEPT ![b] = q] /\ place[b] = "held" /\ q # "held" /\ q \in Places
  BY PlacesDistinct DEF Release, Places
<1>2. /\ place' \in [Block -> Places]
      /\ Cardinality(Where(place', q)) = Cardinality(Where(place, q)) + 1
      /\ \A p \in Places \ {"held", q} : Where(place', p) = Where(place, p)
  <2> HIDE DEF q
  <2>1. place \in [Block -> Places]
    BY InvFacts
  <2>2. /\ place' \in [Block -> Places]
        /\ Cardinality(Where(place', q)) = Cardinality(Where(place, q)) + 1
        /\ \A p \in Places \ {q, place[b]} : Where(place', p) = Where(place, p)
    <3>1. \A p \in Places \ {q, place[b]} : Where(place', p) = Where(place, p)
      BY <1>1, <2>1 DEF Where
    <3>2. [place EXCEPT ![b] = q] \in [Block -> Places]
      BY <1>1, <2>1
    <3>3. Cardinality(Where([place EXCEPT ![b] = q], q)) = Cardinality(Where(place, q)) + 1
      BY <1>1, <2>1, MoveOne, ZenonT(30)
    <3> QED BY <1>1, <3>1, <3>2, <3>3
  <2> QED BY <2>2, <1>1
<1>3. StaticInv(place', free', statics', thFree')
  <2>1. CASE t \in Worker /\ thFree[t] < MoveCount
    <3>1. q = t /\ t # "os" /\ t # "pool"
      BY <2>1, PlacesDistinct
    <3>2. Where(place', "pool") = Where(place, "pool") /\ Where(place', "os") = Where(place, "os")
      BY <1>2, <3>1 DEF Places
    <3>3. \A u \in Worker \ {t} : Where(place', u) = Where(place, u) /\ thFree'[u] = thFree[u]
      BY <1>2, <2>1, <3>1, InvFacts, PlacesDistinct DEF Places, Release
    <3>4. /\ thFree' \in [Worker -> Nat] /\ thFree'[t] = thFree[t] + 1
          /\ free' = free /\ statics' = statics
      BY <2>1, InvFacts DEF Release
    <3>5. thFree'[t] = Cardinality(Where(place', t)) /\ thFree'[t] <= MoveCount
      BY <1>2, <2>1, <3>1, <3>4, InvFacts, MemPoolAssumption DEF StaticInv
    <3> QED BY <1>2, <3>2, <3>3, <3>4, <3>5, InvFacts DEF StaticInv
  <2>2. CASE ~(t \in Worker /\ thFree[t] < MoveCount) /\ free >= ThresholdMax
    <3>1. q = "os"
      BY <2>2
    <3>2. /\ Where(place', "pool") = Where(place, "pool")
          /\ \A u \in Worker : Where(place', u) = Where(place, u)
      BY <1>2, <3>1, PlacesDistinct DEF Places
    <3>3. free' = free /\ thFree' = thFree /\ statics' = statics - 1
      BY <2>2 DEF Release
    <3>4. Block \ Where(place', "os") = (Block \ Where(place, "os")) \ {b}
          /\ b \in Block \ Where(place, "os")
      BY <1>1, <3>1, InvFacts DEF Where
    <3>5. statics' = Cardinality(Block \ Where(place', "os"))
      BY <3>3, <3>4, InvFacts, BlocksFinite, CardRemove DEF StaticInv
    <3>6. statics' <= StaticBlocks
      BY <3>3, InvFacts, MemPoolAssumption DEF StaticInv
    <3> QED BY <1>2, <3>2, <3>3, <3>5, <3>6, InvFacts DEF StaticInv
  <2>3. CASE ~(t \in Worker /\ thFree[t] < MoveCount) /\ ~(free >= ThresholdMax)
    <3>1. q = "pool"
      BY <2>3
    <3>2. /\ Where(place', "os") = Where(place, "os")
          /\ \A u \in Worker : Where(place', u) = Where(place, u)
      BY <1>2, <3>1, PlacesDistinct DEF Places
    <3>3. free' = free + 1 /\ thFree' = thFree /\ statics' = statics
      BY <2>3 DEF Release
    <3>4. free' = Cardinality(Where(place', "pool")) /\ free' <= ThresholdMax
      BY <1>2, <2>3, <3>1, <3>3, InvFacts, MemPoolAssumption DEF StaticInv
    <3> QED BY <1>2, <3>2, <3>3, <3>4, InvFacts DEF StaticInv
  <2> QED BY <2>1, <2>2, <2>3
<1>4. HeapInv(heapFree', heapOut', heapLost', busy') /\ dry' \in BOOLEAN
  BY InvFacts DEF Release, heap
<1> QED BY <1>3, <1>4, InvPartsPrimed

\* The three steps outside the lock.
LEMMA HeapSteps ==
  ASSUME Inv, NEW t \in Thread, GetHeapEnd(t) \/ ReleaseHeap(t) \/ ReleaseHeapEnd(t)
  PROVE  Inv'
<1>1. StaticInv(place', free', statics', thFree') /\ dry' \in BOOLEAN
  BY InvFacts DEF GetHeapEnd, ReleaseHeap, ReleaseHeapEnd, static
<1>2. Cardinality(NotIdle(busy)) \in Nat /\ busy \in [Thread -> {"no", "calloc", "freed"}]
  BY ThreadsFinite, InvFacts DEF NotIdle, HeapInv
<1>3. HeapInv(heapFree', heapOut', heapLost', busy')
  <2>1. CASE GetHeapEnd(t) \/ ReleaseHeapEnd(t)
    <3>1. busy' = [busy EXCEPT ![t] = "no"] /\ busy[t] # "no"
      BY <2>1 DEF GetHeapEnd, ReleaseHeapEnd
    <3>2. /\ Cardinality(NotIdle(busy')) = Cardinality(NotIdle(busy)) - 1
          /\ busy' \in [Thread -> {"no", "calloc", "freed"}]
      BY <3>1, <1>2, BusyLess
    <3>3. \/ heapOut' = heapOut + 1 /\ heapLost' = heapLost /\ heapFree' = heapFree
          \/ heapOut' = heapOut /\ heapLost' = heapLost + 1 /\ heapFree' = heapFree
          \/ heapOut' = heapOut /\ heapLost' = heapLost /\ heapFree' = heapFree + 1
      BY <2>1 DEF GetHeapEnd, ReleaseHeapEnd
    <3> QED BY <1>2, <3>2, <3>3, InvFacts, MemPoolAssumption DEF HeapInv
  <2>2. CASE ReleaseHeap(t)
    <3>1. /\ busy' = [busy EXCEPT ![t] = "freed"] /\ busy[t] = "no" /\ heapOut > 0
          /\ heapOut' = heapOut - 1 /\ heapFree' = heapFree /\ heapLost' = heapLost
      BY <2>2 DEF ReleaseHeap, Idle
    <3>2. /\ Cardinality(NotIdle(busy')) = Cardinality(NotIdle(busy)) + 1
          /\ busy' \in [Thread -> {"no", "calloc", "freed"}]
      BY <3>1, <1>2, BusyMore
    <3> QED BY <1>2, <3>1, <3>2, InvFacts, MemPoolAssumption DEF HeapInv
  <2> QED BY <2>1, <2>2
<1> QED BY <1>1, <1>3, InvPartsPrimed

-----------------------------------------------------------------------------
(* The theorems.                                                            *)

\* A new pool satisfies the invariant.
LEMMA InitInv == Init => Inv
<1> SUFFICES ASSUME Init PROVE Inv
  OBVIOUS
<1>1. PICK B \in SUBSET Block :
        /\ IF CallocFails THEN Cardinality(B) \in 1 .. ThresholdMax
                          ELSE Cardinality(B) = ThresholdMax
        /\ place = [b \in Block |-> IF b \in B THEN "pool" ELSE "os"]
        /\ free = Cardinality(B)
        /\ statics = Cardinality(B)
        /\ dry = (Cardinality(B) # ThresholdMax)
  BY DEF Init
<1>2. /\ place \in [Block -> Places]
      /\ Where(place, "pool") = B /\ Block \ Where(place, "os") = B
      /\ \A t \in Worker : Where(place, t) = {}
  BY <1>1, PlacesDistinct DEF Where, Places
<1>3. Cardinality(B) <= ThresholdMax /\ Cardinality(B) \in Nat /\ Cardinality({}) = 0
  BY <1>1, BlocksFinite, MemPoolAssumption, FS_EmptySet
<1>4. Cardinality(B) <= StaticBlocks
  BY <1>3, MemPoolAssumption
<1>5. thFree = [t \in Worker |-> 0]
  BY DEF Init
<1>6. StaticInv(place, free, statics, thFree)
  <2>1. \A t \in Worker : Cardinality(Where(place, t)) = 0
    BY <1>2, <1>3
  <2>2. /\ thFree \in [Worker -> Nat]
        /\ \A t \in Worker : thFree[t] = Cardinality(Where(place, t)) /\ thFree[t] <= MoveCount
    BY <1>5, <2>1, MemPoolAssumption
  <2> QED BY <1>1, <1>2, <1>3, <1>4, <2>2 DEF StaticInv
<1>7. NotIdle(busy) = {} /\ busy \in [Thread -> {"no", "calloc", "freed"}]
  BY DEF Init, NotIdle
<1>8. HeapInv(heapFree, heapOut, heapLost, busy)
  <2>1. Cardinality(NotIdle(busy)) = 0
    BY <1>3, <1>7
  <2> QED BY <2>1, <1>7, MemPoolAssumption DEF Init, HeapInv
<1>9. dry \in BOOLEAN
  BY <1>1
<1> QED BY <1>6, <1>8, <1>9, InvParts

\* Every step keeps the invariant.
LEMMA NextInv == Inv /\ [Next]_vars => Inv'
<1> SUFFICES ASSUME Inv, [Next]_vars PROVE Inv'
  OBVIOUS
<1>1. CASE UNCHANGED vars
  BY <1>1, InvFacts, InvPartsPrimed DEF vars, static, heap
<1>2. ASSUME NEW t \in Worker, NEW b \in Block, GetOwn(t, b) PROVE Inv'
  BY <1>2, GetOwnStep
<1>3. ASSUME NEW t \in Worker, NEW N, NEW M, NEW b, GetMove(t, N, M, b) PROVE Inv'
  BY <1>3, GetMoveStep
<1>4. ASSUME NEW t \in Other, NEW N, NEW b \in Block, GetShared(t, N, b) PROVE Inv'
  BY <1>4, GetSharedStep
<1>5. ASSUME NEW t \in Thread, NEW N, NEW w \in BOOLEAN, GetHeap(t, N, w) PROVE Inv'
  BY <1>5, GetHeapStep
<1>6. ASSUME NEW t \in Thread, NEW b \in Block, Release(t, b) PROVE Inv'
  BY <1>6, ReleaseStep
<1>7. ASSUME NEW t \in Thread, GetHeapEnd(t) \/ ReleaseHeap(t) \/ ReleaseHeapEnd(t) PROVE Inv'
  BY <1>7, HeapSteps
<1> QED BY <1>1, <1>2, <1>3, <1>4, <1>5, <1>6, <1>7 DEF Next

\* All four invariants hold in every reachable state of every pool.
THEOREM PoolInvariant == Spec => []Inv
BY InitInv, NextInv, PTL DEF Spec

\* The variables keep their types: no counter goes below 0.
THEOREM PoolTypeCorrect == Spec => []TypeOK
<1>1. Inv => TypeOK
  BY DEF Inv
<1> QED BY <1>1, PoolInvariant, PTL

\* The counters are the lengths of the lists.
THEOREM PoolCountsExact == Spec => []CountsExact
<1>1. Inv => CountsExact
  BY DEF Inv
<1> QED BY <1>1, PoolInvariant, PTL

\* The limits of the pool and of the threads' lists are kept.
THEOREM PoolWithinLimits == Spec => []WithinLimits
<1>1. Inv => WithinLimits
  BY DEF Inv
<1> QED BY <1>1, PoolInvariant, PTL

\* No more heap blocks are handed out than are allowed.
THEOREM PoolHeapAccounted == Spec => []HeapAccounted
<1>1. Inv => HeapAccounted
  BY DEF Inv
<1> QED BY <1>1, PoolInvariant, PTL

\* An empty list after a refill that got all it asked for means that no
\* static block is left to ask for.
LEMMA EmptyMeansFull ==
  ASSUME Inv, NEW N, Refill(N), Pool(N) = {}, ~dry'
  PROVE  statics + Cardinality(N) = StaticBlocks
<1>1. /\ N = {} /\ Cardinality(N) = 0 /\ free = 0
      /\ statics \in Nat /\ statics <= StaticBlocks
  <2>1. N = {} /\ At("pool") = {}
    BY DEF Pool
  <2>2. free = Cardinality(At("pool")) /\ Cardinality({}) = 0
    BY FS_EmptySet DEF Inv, CountsExact
  <2> QED BY <2>1, <2>2 DEF Inv, TypeOK, WithinLimits
<1>2. CASE NeedsRefill
  <2>1. Chunk = 0
    BY <1>1, <1>2 DEF Refill
  <2> QED BY <2>1, <1>1, MemPoolAssumption DEF Chunk
<1>3. CASE ~NeedsRefill
  BY <1>1, <1>3, MemPoolAssumption DEF NeedsRefill
<1> QED BY <1>2, <1>3

\* A thread turns to the C heap only when the static blocks are all allocated.
THEOREM PoolHeapOnlyWhenFull == Spec => HeapOnlyWhenFull
<1> DEFINE A == \A t \in Thread : Idle(t) /\ busy'[t] = "calloc" /\ MoveCount > 0
                                  => statics' = StaticBlocks \/ dry'
<1>1. Inv /\ [Next]_vars => [A]_vars
  <2> SUFFICES ASSUME Inv, Next, NEW t \in Thread, Idle(t), busy'[t] = "calloc", MoveCount > 0, ~dry'
               PROVE  statics' = StaticBlocks
    OBVIOUS
  <2>1. busy \in [Thread -> {"no", "calloc", "freed"}]
    BY DEF Inv, TypeOK
  <2>2. PICK u \in Thread, N \in SUBSET At("os"), wanted \in BOOLEAN : GetHeap(u, N, wanted)
    BY <2>1, PlacesDistinct
    DEF Next, GetOwn, GetMove, GetShared, Release, GetHeapEnd, ReleaseHeap, ReleaseHeapEnd, heap, Idle
  <2>3. Refill(N) /\ Pool(N) = {} /\ statics' = statics + Cardinality(N)
    BY <2>2, MemPoolAssumption DEF GetHeap
  <2> QED BY <2>3, EmptyMeansFull
<1> QED BY <1>1, PoolInvariant, PTL DEF Spec, HeapOnlyWhenFull
=============================================================================
