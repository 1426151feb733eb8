------------------------------- MODULE MemPool -------------------------------
(***************************************************************************)
(* A memory pool of type heap: utils/memory/mheap/mheapapi.c over           *)
(* utils/memory/base/memapi.c.  The pool keeps up to ThresholdMax static    *)
(* blocks on a list under a lock and refills it from the C heap, up to      *)
(* StaticBlocks in all; a worker thread has a list of its own that it uses  *)
(* without the lock and fills MoveCount blocks at a time.  When a thread    *)
(* finds no static block it may get one of HeapAllowed blocks straight from *)
(* the C heap; calloc and free are called outside the lock.                 *)
(*                                                                         *)
(* The lists are walked by the counters the code keeps beside them, so the  *)
(* counters are variables of their own.  Which block of a list is taken is  *)
(* left open.  The statistics that nothing reads are left out.              *)
(***************************************************************************)
EXTENDS Naturals, FiniteSets

CONSTANTS Block,          \* the memory the C heap can give out
          Worker,         \* threads with a list (cntlr_thread_index > 0)
          Other,          \* threads without (cntlr_thread_index = 0)
          StaticBlocks, HeapAllowed, ThresholdMin, ThresholdMax,
          ReplenishCount, MoveCount,
          CallocFails     \* whether calloc may return NULL

Thread == Worker \cup Other

\* What mempool_set_threshold_values demands, and that the threshold is not
\* above the number of static blocks, which it does not.
ASSUME MemPoolAssumption ==
  /\ IsFiniteSet(Block) /\ IsFiniteSet(Thread)
  /\ Worker \cap Other = {}
  /\ {"os", "pool", "held"} \cap Worker = {}
  /\ StaticBlocks \in Nat /\ HeapAllowed \in Nat /\ MoveCount \in Nat
  /\ ThresholdMin \in Nat /\ ThresholdMax \in Nat \ {0} /\ ReplenishCount \in Nat \ {0}
  /\ ThresholdMin <= ThresholdMax /\ ReplenishCount <= ThresholdMax
  /\ ThresholdMax <= StaticBlocks
  /\ CallocFails \in BOOLEAN

VARIABLES
  place,     \* of every block: "os", "pool" (head_p's list), "held", or a thread's list
  free,      \* free_blocks_count
  statics,   \* static_allocated_blocks_count
  thFree,    \* free_count of every thread's list
  heapFree,  \* heap_free_blocks_count
  heapOut,   \* heap blocks in use
  heapLost,  \* calls of calloc that failed (heap_allocation_fail_blocks_count)
  busy,      \* threads between the counters and calloc, or free and the counters
  dry        \* a static block could not be allocated when it was wanted (history)

static == <<place, free, statics, thFree, dry>>
heap == <<heapFree, heapOut, heapLost, busy>>
vars == <<static, heap>>

At(p) == {b \in Block : place[b] = p}
Idle(t) == busy[t] = "no"

\* mempool_create_mheap_pool: ThresholdMax blocks, or as many as can be had.
Init ==
  /\ \E B \in SUBSET Block :
       /\ IF CallocFails THEN Cardinality(B) \in 1 .. ThresholdMax
                         ELSE Cardinality(B) = ThresholdMax
       /\ place = [b \in Block |-> IF b \in B THEN "pool" ELSE "os"]
       /\ free = Cardinality(B)
       /\ statics = Cardinality(B)
       /\ dry = (Cardinality(B) # ThresholdMax)
  /\ thFree = [t \in Worker |-> 0]
  /\ heapFree = HeapAllowed /\ heapOut = 0 /\ heapLost = 0
  /\ busy = [t \in Thread |-> "no"]

-----------------------------------------------------------------------------
(* Getting a block: mempool_mheap_get_mem_block.                            *)

\* MEMP_CHECK_STATIC_FREECNT_AND_REFILL
NeedsRefill == free <= ThresholdMin /\ statics < StaticBlocks + HeapAllowed

\* Mutant: nothing is asked for when less than ReplenishCount is left.
ChunkGivesUp ==
  IF free >= ThresholdMax \/ ReplenishCount + statics > StaticBlocks THEN 0
  ELSE IF free + ReplenishCount > ThresholdMax THEN ThresholdMax - free ELSE ReplenishCount

\* The blocks mempool_check_and_refill asks for.
Chunk ==
  LET c == IF ReplenishCount + statics <= StaticBlocks
           THEN ReplenishCount ELSE StaticBlocks - statics
  IN  IF free >= ThresholdMax \/ c = 0 THEN 0
      ELSE IF free + c > ThresholdMax THEN ThresholdMax - free ELSE c

\* N is what a call of mempool_check_and_refill appends to the list.
Refill(N) ==
  /\ N \subseteq At("os")
  /\ IF NeedsRefill
     THEN IF CallocFails THEN Cardinality(N) <= Chunk ELSE Cardinality(N) = Chunk
     ELSE N = {}
  /\ dry' = (dry \/ (NeedsRefill /\ Cardinality(N) # Chunk))

\* Mutant: the blocks of a refill are not counted as free.
CountStale(N) == free

\* The list and its counter after a refill with N.
Pool(N) == At("pool") \cup N
Count(N) == Cardinality(N) + free

\* A worker takes a block of its own list.
GetOwn(t, b) ==
  /\ Idle(t) /\ thFree[t] > 0
  /\ place[b] = t
  /\ place' = [place EXCEPT ![b] = "held"]
  /\ thFree' = [thFree EXCEPT ![t] = @ - 1]
  /\ UNCHANGED <<free, statics, dry, heap>>

\* How many blocks go to the list of a worker.
Moved(N) == IF MoveCount < Count(N) THEN MoveCount ELSE Count(N)

\* A worker with an empty list moves blocks M to it, and takes b of them.
GetMove(t, N, M, b) ==
  /\ Idle(t) /\ thFree[t] = 0
  /\ Refill(N)
  /\ MoveCount > 0 /\ Pool(N) # {}
  /\ M \subseteq Pool(N) /\ Cardinality(M) = Moved(N)
  /\ b \in M
  /\ place' = [c \in Block |-> IF c = b THEN "held"
                               ELSE IF c \in M THEN t
                               ELSE IF c \in N THEN "pool" ELSE place[c]]
  /\ statics' = statics + Cardinality(N)
  /\ free' = Count(N) - Moved(N)
  /\ thFree' = [thFree EXCEPT ![t] = Moved(N) - 1]
  /\ UNCHANGED heap

\* Any other thread takes a block of the pool's list.
GetShared(t, N, b) ==
  /\ Idle(t) /\ t \in Other
  /\ Refill(N)
  /\ b \in Pool(N)
  /\ place' = [c \in Block |-> IF c = b THEN "held"
                               ELSE IF c \in N THEN "pool" ELSE place[c]]
  /\ statics' = statics + Cardinality(N)
  /\ free' = Count(N) - 1
  /\ UNCHANGED <<thFree, heap>>

\* No static block: a heap block is counted and calloc is called next, or the
\* call fails, which changes nothing but the refill.
GetHeap(t, N, wanted) ==
  /\ Idle(t)
  /\ Refill(N)
  /\ Pool(N) = {} \/ (t \in Worker /\ MoveCount = 0)
  /\ t \in Worker => thFree[t] = 0
  /\ place' = [c \in Block |-> IF c \in N THEN "pool" ELSE place[c]]
  /\ statics' = statics + Cardinality(N)
  /\ free' = Count(N)
  /\ IF wanted /\ heapFree > 0
     THEN /\ heapFree' = heapFree - 1
          /\ busy' = [busy EXCEPT ![t] = "calloc"]
     ELSE UNCHANGED <<heapFree, busy>>
  /\ UNCHANGED <<thFree, heapOut, heapLost>>

\* calloc returns the block, or NULL: the counters are not set back.
GetHeapEnd(t) ==
  /\ busy[t] = "calloc"
  /\ busy' = [busy EXCEPT ![t] = "no"]
  /\ \/ heapOut' = heapOut + 1 /\ UNCHANGED heapLost
     \/ CallocFails /\ heapLost' = heapLost + 1 /\ UNCHANGED heapOut
  /\ UNCHANGED <<static, heapFree>>

-----------------------------------------------------------------------------
(* Releasing a block: mempool_mheap_release_mem_block.                      *)

\* Mutant: the limit of the list is not looked at.
ReleaseAlways(t, b) ==
  /\ Idle(t) /\ place[b] = "held"
  /\ IF t \in Worker /\ thFree[t] < MoveCount
     THEN /\ place' = [place EXCEPT ![b] = t]
          /\ thFree' = [thFree EXCEPT ![t] = @ + 1]
          /\ UNCHANGED <<free, statics>>
     ELSE /\ place' = [place EXCEPT ![b] = "pool"]
          /\ free' = free + 1
          /\ UNCHANGED <<thFree, statics>>
  /\ UNCHANGED <<dry, heap>>

\* To the thread's list while it has less than MoveCount blocks, else to the
\* pool's while that has less than ThresholdMax, else to the C heap.
Release(t, b) ==
  /\ Idle(t) /\ place[b] = "held"
  /\ IF t \in Worker /\ thFree[t] < MoveCount
     THEN /\ place' = [place EXCEPT ![b] = t]
          /\ thFree' = [thFree EXCEPT ![t] = @ + 1]
          /\ UNCHANGED <<free, statics>>
     ELSE /\ UNCHANGED thFree
          /\ IF free >= ThresholdMax
             THEN /\ place' = [place EXCEPT ![b] = "os"]
                  /\ statics' = statics - 1
                  /\ UNCHANGED free
             ELSE /\ place' = [place EXCEPT ![b] = "pool"]
                  /\ free' = free + 1
                  /\ UNCHANGED statics
  /\ UNCHANGED <<dry, heap>>

\* A heap block is freed,
ReleaseHeap(t) ==
  /\ Idle(t) /\ heapOut > 0
  /\ heapOut' = heapOut - 1
  /\ busy' = [busy EXCEPT ![t] = "freed"]
  /\ UNCHANGED <<static, heapFree, heapLost>>

\* and then counted, under the lock.
ReleaseHeapEnd(t) ==
  /\ busy[t] = "freed"
  /\ busy' = [busy EXCEPT ![t] = "no"]
  /\ heapFree' = heapFree + 1
  /\ UNCHANGED <<static, heapOut, heapLost>>

Next ==
  \/ \E t \in Worker, b \in Block : GetOwn(t, b)
  \/ \E t \in Worker, N \in SUBSET At("os") : \E M \in SUBSET Pool(N) : \E b \in M : GetMove(t, N, M, b)
  \/ \E t \in Other, N \in SUBSET At("os"), b \in Block : GetShared(t, N, b)
  \/ \E t \in Thread, N \in SUBSET At("os"), wanted \in BOOLEAN : GetHeap(t, N, wanted)
  \/ \E t \in Thread, b \in Block : Release(t, b)
  \/ \E t \in Thread : GetHeapEnd(t) \/ ReleaseHeap(t) \/ ReleaseHeapEnd(t)

Spec == Init /\ [][Next]_vars

-----------------------------------------------------------------------------
(* Properties.                                                              *)

\* Every variable has its type.
TypeOK ==
  /\ place \in [Block -> {"os", "pool", "held"} \cup Worker]
  /\ free \in Nat /\ statics \in Nat
  /\ thFree \in [Worker -> Nat]
  /\ heapFree \in Nat /\ heapOut \in Nat /\ heapLost \in Nat
  /\ busy \in [Thread -> {"no", "calloc", "freed"}]
  /\ dry \in BOOLEAN

\* The counters the lists are walked by are the lengths of the lists, after
\* any mixture of gets, moves, refills that got less than they asked for, and
\* releases by another thread than the one that got the block; and every
\* block that is not with the C heap is counted as a static one.
CountsExact ==
  /\ free = Cardinality(At("pool"))
  /\ \A t \in Worker : thFree[t] = Cardinality(At(t))
  /\ statics = Cardinality(Block \ At("os"))

\* "This is to ensure, only upto maximum threshold blocks will be present in
\* the pool" (mheapapi.c 439-440); also the static blocks and a thread's list keep
\* to their limits.
WithinLimits ==
  /\ free <= ThresholdMax
  /\ statics <= StaticBlocks
  /\ \A t \in Worker : thFree[t] <= MoveCount

\* Every heap block is free, in use, between two steps of a thread or lost to
\* a calloc that failed: calls that overlap never hand out more than allowed.
\* The blocks that are lost are the disagreement with the comment that the counters
\* "are reverted back" (mheapapi.c 366-369); the two lines are commented out (381-382).
HeapAccounted ==
  heapFree + heapOut + heapLost + Cardinality({t \in Thread : ~Idle(t)}) = HeapAllowed

\* A thread goes on to the heap only when all static blocks are in use or on
\* the lists of threads: the thresholds never leave one unallocated that the
\* pool may have, as long as calloc has not failed.
HeapOnlyWhenFull ==
  [][\A t \in Thread : Idle(t) /\ busy'[t] = "calloc" /\ MoveCount > 0
                         => statics' = StaticBlocks \/ dry']_vars
=============================================================================
