---------------------------- MODULE McHashProofs ----------------------------
(***************************************************************************)
(* The slots of a hash table, for any number of nodes, buckets, slots and   *)
(* threads: who owns a slot, and what a safe reference leads to.            *)
(***************************************************************************)
EXTENDS McHash, FiniteSetTheorems, SequenceTheorems, TLAPS

Owned == {"slot", "linking", "in"}
Removed == {"out", "rcu", "freed"}
RefHeldPc == {"ref_lock", "ref_submit", "ref_clear", "ref_push"}

FreeSlot(s) == \E i \in 1 .. Len(free_q) : free_q[i] = s
Gives(p) == pc[p] \in {"fill", "ref_submit", "ref_clear", "ref_push", "node_push"}

\* Nobody is about to put the node into a slot, now or later.
Filled(n) == life[n] # "new" /\ \A q \in Proc : pc[q] = "fill" => held[q] # n

\* The pointers a thread needs at each of its steps are there.
LocalOK ==
  \A p \in Proc :
    /\ pc[p] \in AppendPc \cup RefHeldPc \cup NodePc => held[p] \in Node
    /\ pc[p] = "scan" => at[p] # Null
    /\ pc[p] \in AppendPc /\ how[p] # "append" => anchor[p] \in Node

\* A node that is being appended is appended by one thread, and its slot is marked.
AppendOK ==
  /\ \A p \in Proc : pc[p] \in {"fill", "link"} => life[held[p]] = "slot"
  /\ \A p, q \in Proc :
       pc[p] \in {"fill", "link"} /\ pc[q] \in {"fill", "link"} /\ held[p] = held[q] => p = q
  /\ \A p \in Proc : pc[p] = "fill" => smagic[idx[p]] # 0 /\ snode[idx[p]] = Null
  /\ magic_no # 0

\* A node that was put into a slot and not taken out is what its reference names.
Resolves ==
  \A n \in Node : life[n] \in Owned /\ Filled(n) =>
    snode[index[n]] = n /\ smagic[index[n]] = ref[n] /\ ref[n] # 0

\* A slot points to the node whose slot it is.
Named == \A s \in Slot : snode[s] # Null => index[snode[s]] = s /\ Filled(snode[s])

\* A thread that deletes holds the node of its slot; from the unlinking on the slot's
\* magic number is reset, and node_p is cleared before the slot is given back.
DeleteOK ==
  \A p \in Proc :
    /\ pc[p] \in RefHeldPc => index[held[p]] = idx[p] /\ Filled(held[p])
    /\ pc[p] \in {"ref_submit", "ref_clear", "ref_push", "node_push", "node_submit"} =>
         life[held[p]] \in Removed
    /\ pc[p] \in {"ref_submit", "ref_clear"} => snode[idx[p]] = held[p]
    /\ pc[p] \in {"ref_push", "node_push"} => snode[idx[p]] = Null
    /\ pc[p] \in {"ref_submit", "ref_clear", "ref_push", "node_push"} => smagic[idx[p]] = 0

\* Every slot is free, given by one thread, or owned by the node it points to.
Partition ==
  /\ active + Len(free_q) = MaxNodes
  /\ \A i, j \in 1 .. Len(free_q) : free_q[i] = free_q[j] => i = j
  /\ \A s \in Slot : FreeSlot(s) => smagic[s] = 0 /\ snode[s] = Null
  /\ \A p \in Proc : Gives(p) => ~FreeSlot(idx[p])
  /\ \A p, q \in Proc : Gives(p) /\ Gives(q) /\ idx[p] = idx[q] => p = q
  /\ \A s \in Slot : \/ FreeSlot(s)
                     \/ \E p \in Proc : Gives(p) /\ idx[p] = s
                     \/ snode[s] # Null /\ life[snode[s]] \in Owned

SlotInv == AppendOK /\ Resolves /\ Named /\ DeleteOK /\ Partition

\* A fault ends the process: nothing is said of the state it leaves.
Inv == TypeOK /\ LocalOK /\ (fault = "none" => SlotInv)

-----------------------------------------------------------------------------
(* The invariant, and the property it is for.                               *)

\* The table as it is created: every slot is free.
LEMMA InitInv == Init => Inv
<1> SUFFICES ASSUME Init  PROVE Inv
  OBVIOUS
<1>0. /\ MaxNodes \in Nat \ {0} /\ Bucket0 \in Bucket /\ Null \notin Node \cup Bucket
      /\ 0 \in Slot
  BY McHashAssumption DEF Slot
<1>1. /\ free_q \in Seq(Slot) /\ Len(free_q) = MaxNodes
      /\ \A i \in 1 .. MaxNodes : free_q[i] = i - 1
  <2>1. \A i \in 1 .. MaxNodes : i - 1 \in Slot
    BY <1>0 DEF Slot
  <2>2. free_q = [i \in 1 .. MaxNodes |-> i - 1] /\ MaxNodes \in Nat
    BY <1>0 DEF Init
  <2> QED  BY <2>1, <2>2
<1>2. TypeOK
  <2>1. /\ smagic \in [Slot -> Nat] /\ snode \in [Slot -> Node \cup {Null}]
        /\ magic_no \in Nat /\ active \in Nat
        /\ next \in [Addr -> Node \cup {Null}] /\ prev \in [Addr -> Addr \cup {Null}]
    BY DEF Init
  <2>2. /\ index \in [Node -> Slot] /\ key \in [Node -> Bucket] /\ ref \in [Node -> Nat]
        /\ life \in [Node -> Life] /\ home \in [Node -> Bucket]
    BY <1>0 DEF Init, Life
  <2>3. /\ pc \in [Proc -> Pc] /\ how \in [Proc -> {"append", "before", "after"}]
        /\ held \in [Proc -> Node \cup {Null}] /\ idx \in [Proc -> Slot]
        /\ bkt \in [Proc -> Bucket]
    BY <1>0 DEF Init, Pc
  <2>4. /\ at \in [Proc -> Addr \cup {Null}] /\ anchor \in [Proc -> Node \cup {Null}]
        /\ seen \in [Proc -> SUBSET Node] /\ must \in [Proc -> SUBSET Node]
        /\ wait \in [Node -> SUBSET Proc]
        /\ table \in {"live", "deleted"}
        /\ fault \in Fault
    BY DEF Init, Fault
  <2> QED  BY <1>1, <2>1, <2>2, <2>3, <2>4 DEF TypeOK
<1>3. LocalOK
  BY DEF Init, LocalOK, AppendPc, RefHeldPc, NodePc
<1>4. AppendOK /\ Resolves /\ Named /\ DeleteOK
  BY DEF Init, AppendOK, Resolves, Named, DeleteOK, Owned, RefHeldPc
<1>5. Partition
  <2>1. \A s \in Slot : FreeSlot(s)
    <3> SUFFICES ASSUME NEW s \in Slot  PROVE \E i \in 1 .. MaxNodes : free_q[i] = s
      BY <1>1 DEF FreeSlot
    <3>1. s + 1 \in 1 .. MaxNodes /\ (s + 1) - 1 = s
      BY <1>0 DEF Slot
    <3> QED  BY <1>1, <3>1
  <2>2. \A i, j \in 1 .. Len(free_q) : free_q[i] = free_q[j] => i = j
    BY <1>0, <1>1
  <2>3. active + Len(free_q) = MaxNodes
    BY <1>0, <1>1 DEF Init
  <2>4. \A q \in Proc : ~Gives(q)
    BY DEF Init, Gives
  <2> QED  BY <2>1, <2>2, <2>3, <2>4 DEF Init, Partition
<1> QED  BY <1>2, <1>3, <1>4, <1>5 DEF Inv, SlotInv

\* While the process lives a slot belongs to one owner, and active_nodes counts the
\* slots that are not free.
LEMMA InvConserved == Inv => SlotsConserved
<1> SUFFICES ASSUME Inv, fault = "none"  PROVE SlotsConserved
  BY DEF SlotsConserved
<1>1. TypeOK /\ SlotInv
  BY DEF Inv
<1>2. ASSUME NEW s \in Slot
      PROVE  /\ Giving(s) = {p \in Proc : Gives(p) /\ idx[p] = s}
             /\ Owning(s) = {n \in Node : life[n] \in Owned /\ snode[s] = n}
  BY DEF Giving, Owning, Gives, Owned
<1>3. Null \notin Node
  BY McHashAssumption
<1>4. ASSUME NEW s \in Slot, FreeSlot(s)
      PROVE  Giving(s) \cup Owning(s) = {} /\ smagic[s] = 0 /\ snode[s] = Null
  BY <1>1, <1>2, <1>3, <1>4 DEF SlotInv, Partition
<1>5. ASSUME NEW s \in Slot, ~FreeSlot(s)
      PROVE  Cardinality(Giving(s)) + Cardinality(Owning(s)) = 1
  <2>1. CASE \E p \in Proc : Gives(p) /\ idx[p] = s
    <3>1. PICK p \in Proc : Gives(p) /\ idx[p] = s
      BY <2>1
    <3>2. Giving(s) = {p}
      BY <1>1, <1>2, <3>1 DEF SlotInv, Partition
    <3>3. Owning(s) = {}
      <4>1. snode[s] # Null => snode[s] = held[p] /\ life[held[p]] \in Removed
        BY <1>1, <3>1 DEF SlotInv, AppendOK, DeleteOK, Gives
      <4> QED  BY <1>2, <1>3, <4>1 DEF Owned, Removed
    <3> QED  BY <3>2, <3>3, FS_Singleton, FS_EmptySet
  <2>2. CASE ~\E p \in Proc : Gives(p) /\ idx[p] = s
    <3>1. Giving(s) = {}
      BY <1>2, <2>2
    <3>2. snode[s] # Null /\ life[snode[s]] \in Owned
      BY <1>1, <1>5, <2>2 DEF SlotInv, Partition
    <3>3. snode[s] \in Node
      BY <1>1, <3>2 DEF TypeOK
    <3>4. Owning(s) = {snode[s]}
      <4> DEFINE n == snode[s]
      <4>1. n \in Node /\ life[n] \in Owned /\ Owning(s) = {m \in Node : life[m] \in Owned /\ n = m}
        BY <1>2, <3>2, <3>3
      <4> HIDE DEF n
      <4>2. n \in Owning(s) /\ \A m \in Owning(s) : m = n
        BY <4>1
      <4>3. Owning(s) = {n}
        BY <4>2
      <4> QED  BY <4>3 DEF n
    <3>5. Cardinality(Giving(s)) = 0
      BY <3>1, FS_EmptySet
    <3>6. Cardinality(Owning(s)) = 1
      BY <3>4, FS_Singleton
    <3> QED  BY <3>5, <3>6
  <2> QED  BY <2>1, <2>2
<1>6. active + Len(free_q) = MaxNodes /\ \A i, j \in 1 .. Len(free_q) : free_q[i] = free_q[j] => i = j
  BY <1>1 DEF SlotInv, Partition
<1> QED  BY <1>4, <1>5, <1>6 DEF SlotsConserved, FreeSlot

\* A node in the table is what the reference made for it leads to.
LEMMA InvResolves == Inv => RefResolves
<1> SUFFICES ASSUME Inv, fault = "none", NEW n \in Node, life[n] = "in"
             PROVE  smagic[index[n]] = ref[n] /\ snode[index[n]] = n
  BY DEF RefResolves
<1>1. Filled(n)
  BY DEF Inv, SlotInv, AppendOK, Filled
<1> QED  BY <1>1 DEF Inv, SlotInv, Resolves, Owned

-----------------------------------------------------------------------------
(* The steps.                                                               *)

\* A step of p that leaves the slots and their owners alone.
Quiet(p) ==
  /\ UNCHANGED <<smagic, snode, free_q, magic_no, active, index, ref>>
  /\ \A q \in Proc : q # p => pc'[q] = pc[q] /\ held'[q] = held[q] /\ idx'[q] = idx[q]
  /\ pc[p] # "fill" /\ pc'[p] \notin {"fill", "link"}
  /\ Gives(p)' <=> Gives(p)
  /\ Gives(p) => idx'[p] = idx[p]
  /\ \A n \in Node : life'[n] # life[n] =>
       \/ life[n] = "slot" /\ life'[n] = "linking" /\ pc[p] = "link" /\ n = held[p]
       \/ life[n] = "linking" /\ life'[n] = "in"
       \/ life[n] \in Removed /\ life'[n] \in Removed
       \/ life[n] = "new" /\ life'[n] = "freed"
  /\ pc'[p] \in RefHeldPc => index[held'[p]] = idx'[p] /\ Filled(held'[p])
  /\ pc'[p] \in {"ref_submit", "ref_clear", "ref_push", "node_push", "node_submit"} =>
       life[held'[p]] \in Removed
  /\ pc'[p] \in {"ref_submit", "ref_clear"} => snode[idx'[p]] = held'[p]
  /\ pc'[p] \in {"ref_push", "node_push"} => snode[idx'[p]] = Null
  /\ pc'[p] \in {"ref_submit", "ref_clear", "ref_push", "node_push"} => smagic[idx'[p]] = 0

\* A quiet step keeps the invariant of the slots.
LEMMA QuietInv ==
  ASSUME TypeOK, TypeOK', LocalOK, LocalOK', SlotInv, NEW p \in Proc, Quiet(p)
  PROVE  SlotInv'
<1>1. /\ smagic' = smagic /\ snode' = snode /\ free_q' = free_q /\ magic_no' = magic_no
      /\ active' = active /\ index' = index /\ ref' = ref
      /\ \A q \in Proc : q # p => pc'[q] = pc[q] /\ held'[q] = held[q] /\ idx'[q] = idx[q]
      /\ pc[p] # "fill" /\ pc'[p] \notin {"fill", "link"}
  BY DEF Quiet
<1>2. \A n \in Node : life'[n] # life[n] =>
       \/ life[n] = "slot" /\ life'[n] = "linking" /\ pc[p] = "link" /\ n = held[p]
       \/ life[n] = "linking" /\ life'[n] = "in"
       \/ life[n] \in Removed /\ life'[n] \in Removed
       \/ life[n] = "new" /\ life'[n] = "freed"
  BY DEF Quiet
<1>3. \A n \in Node : /\ Filled(n) => Filled(n)'
                      /\ life'[n] \in Owned => (life[n] \in Owned /\ (Filled(n)' <=> Filled(n)))
                      /\ life[n] \in Owned => life'[n] \in Owned
                      /\ life[n] \in Removed => life'[n] \in Removed
  <2> SUFFICES ASSUME NEW n \in Node
               PROVE  /\ Filled(n) => Filled(n)'
                      /\ life'[n] \in Owned => (life[n] \in Owned /\ (Filled(n)' <=> Filled(n)))
                      /\ life[n] \in Owned => life'[n] \in Owned
                      /\ life[n] \in Removed => life'[n] \in Removed
    OBVIOUS
  <2>1. (\A q \in Proc : pc'[q] = "fill" => held'[q] # n) <=> \A q \in Proc : pc[q] = "fill" => held[q] # n
    BY <1>1
  <2>2. /\ life'[n] = "new" => life[n] = "new"
        /\ life'[n] \in Owned => life[n] \in Owned
        /\ life[n] \in Owned => life'[n] \in Owned
        /\ life[n] \in Removed => life'[n] \in Removed
    BY <1>2 DEF Owned, Removed
  <2>3. life'[n] \in Owned => life'[n] # "new" /\ life[n] # "new"
    BY <2>2 DEF Owned
  <2> QED  BY <2>1, <2>2, <2>3 DEF Filled
<1>4. \A q \in Proc : pc'[q] \in {"fill", "link"} => q # p /\ pc[q] \in {"fill", "link"} /\ held'[q] = held[q]
  BY <1>1
<1>5. AppendOK'
  <2>1. \A q \in Proc : pc'[q] \in {"fill", "link"} => life'[held[q]] = "slot"
    <3> SUFFICES ASSUME NEW q \in Proc, pc'[q] \in {"fill", "link"}  PROVE life'[held[q]] = "slot"
      OBVIOUS
    <3>1. q # p /\ pc[q] \in {"fill", "link"} /\ life[held[q]] = "slot" /\ held[q] \in Node
      BY <1>4 DEF SlotInv, AppendOK, LocalOK, AppendPc
    <3>2. pc[p] = "link" => held[p] # held[q]
      BY <3>1 DEF SlotInv, AppendOK
    <3> QED  BY <1>2, <3>1, <3>2 DEF Removed
  <2> QED  BY <2>1, <1>1, <1>4 DEF SlotInv, AppendOK
<1>6. Resolves'
  BY <1>1, <1>3 DEF SlotInv, Resolves
<1>7. Named'
  BY <1>1, <1>3 DEF SlotInv, Named, TypeOK
<1>8. DeleteOK'
  <2> SUFFICES ASSUME NEW q \in Proc
       PROVE /\ pc'[q] \in RefHeldPc => /\ index[held'[q]] = idx'[q]
                                       /\ life'[held'[q]] # "new"
                                       /\ \A r \in Proc : pc'[r] = "fill" => held'[r] # held'[q]
             /\ pc'[q] \in {"ref_submit", "ref_clear", "ref_push", "node_push", "node_submit"} =>
                  life'[held'[q]] \in Removed
             /\ pc'[q] \in {"ref_submit", "ref_clear"} => snode[idx'[q]] = held'[q]
             /\ pc'[q] \in {"ref_push", "node_push"} => snode[idx'[q]] = Null
             /\ pc'[q] \in {"ref_submit", "ref_clear", "ref_push", "node_push"} => smagic[idx'[q]] = 0
    BY <1>1 DEF DeleteOK, Filled
  <2>1. pc'[q] \in RefHeldPc \cup NodePc => held'[q] \in Node
    BY DEF LocalOK
  <2>2. /\ pc'[q] \in RefHeldPc => index[held'[q]] = idx'[q] /\ Filled(held'[q])
        /\ pc'[q] \in {"ref_submit", "ref_clear", "ref_push", "node_push", "node_submit"} =>
             life[held'[q]] \in Removed
        /\ pc'[q] \in {"ref_submit", "ref_clear"} => snode[idx'[q]] = held'[q]
        /\ pc'[q] \in {"ref_push", "node_push"} => snode[idx'[q]] = Null
        /\ pc'[q] \in {"ref_submit", "ref_clear", "ref_push", "node_push"} => smagic[idx'[q]] = 0
    <3>1. CASE q = p
      BY <3>1 DEF Quiet
    <3>2. CASE q # p
      BY <3>2, <1>1 DEF SlotInv, DeleteOK
    <3> QED  BY <3>1, <3>2
  <2>3. ASSUME NEW n \in Node, n = held'[q], Filled(n)
        PROVE  life'[n] # "new" /\ \A r \in Proc : pc'[r] = "fill" => held'[r] # n
    BY <2>3, <1>3 DEF Filled
  <2> QED  BY <2>1, <2>2, <2>3, <1>3 DEF RefHeldPc, NodePc
<1>9. Partition'
  <2>1. \A q \in Proc : /\ Gives(q)' <=> Gives(q)
                        /\ Gives(q) => idx'[q] = idx[q]
    BY <1>1 DEF Quiet, Gives
  <2>2. \A s : FreeSlot(s)' <=> FreeSlot(s)
    BY <1>1 DEF FreeSlot
  <2>3. \A s \in Slot : snode[s] # Null => snode[s] \in Node
    BY DEF TypeOK
  <2> QED  BY <1>1, <1>3, <2>1, <2>2, <2>3 DEF SlotInv, Partition
<1> QED  BY <1>5, <1>6, <1>7, <1>8, <1>9 DEF SlotInv

\* The table section of an insertion takes the first free slot and marks it.
LEMMA TakeSlotInv ==
  ASSUME Inv, fault = "none", NEW p \in Proc, NEW n \in Node, NEW b \in Bucket,
         NEW k \in {"append", "before", "after"},
         TakeSlot(p, n, b, k), pc[p] \in {"idle", "scan"},
         anchor' \in [Proc -> Node \cup {Null}],
         \A q \in Proc : q # p => anchor'[q] = anchor[q],
         k # "append" => anchor'[p] \in Node
  PROVE  Inv'
<1> DEFINE s0 == Head(free_q)
<1>0. TypeOK /\ LocalOK /\ SlotInv /\ MagicMod \in Nat /\ MagicMod > 1
  BY McHashAssumption DEF Inv
<1>1. /\ life[n] = "new" /\ free_q # <<>>
      /\ smagic' = [smagic EXCEPT ![s0] = magic_no]
      /\ idx' = [idx EXCEPT ![p] = s0]
      /\ free_q' = Tail(free_q) /\ magic_no' = NextMagic(magic_no) /\ active' = active + 1
      /\ life' = [life EXCEPT ![n] = "slot"] /\ home' = [home EXCEPT ![n] = b]
      /\ pc' = [pc EXCEPT ![p] = "fill"] /\ how' = [how EXCEPT ![p] = k]
      /\ held' = [held EXCEPT ![p] = n] /\ bkt' = [bkt EXCEPT ![p] = b]
      /\ UNCHANGED <<snode, table, next, prev, index, key, ref, at, seen, must, wait, fault>>
  BY DEF TakeSlot, listVars, linkVars
<1>2. /\ Len(free_q) \in Nat /\ Len(free_q) > 0 /\ s0 \in Slot /\ s0 = free_q[1]
      /\ free_q' \in Seq(Slot) /\ Len(free_q') = Len(free_q) - 1
      /\ \A i \in 1 .. Len(free_q') : free_q'[i] = free_q[i + 1]
  <2>1. free_q \in Seq(Slot)
    BY <1>0 DEF TypeOK
  <2>2. s0 \in Slot /\ Tail(free_q) \in Seq(Slot) /\ Len(Tail(free_q)) = Len(free_q) - 1
    BY <1>1, <2>1, HeadTailProperties
  <2>3. \A i \in 1 .. Len(Tail(free_q)) : Tail(free_q)[i] = free_q[i + 1]
    BY <1>1, <2>1, HeadTailProperties
  <2>4. Len(free_q) \in Nat \ {0}
    BY <1>1, <2>1, EmptySeq
  <2> QED  BY <1>1, <2>2, <2>3, <2>4
<1> HIDE DEF s0
<1>3. /\ \A s \in Slot : smagic'[s] = IF s = s0 THEN magic_no ELSE smagic[s]
      /\ \A q \in Proc : idx'[q] = IF q = p THEN s0 ELSE idx[q]
      /\ \A q \in Proc : pc'[q] = IF q = p THEN "fill" ELSE pc[q]
      /\ \A q \in Proc : held'[q] = IF q = p THEN n ELSE held[q]
      /\ \A m \in Node : life'[m] = IF m = n THEN "slot" ELSE life[m]
  BY <1>0, <1>1, <1>2 DEF TypeOK
<1>4. NextMagic(magic_no) \in Nat /\ NextMagic(magic_no) # 0 /\ magic_no # 0
  <2>1. magic_no \in Nat /\ magic_no # 0
    BY <1>0 DEF TypeOK, SlotInv, AppendOK
  <2>2. (magic_no + 1) % MagicMod \in Nat
    BY <1>0, <2>1
  <2> QED  BY <2>1, <2>2 DEF NextMagic
<1>5. TypeOK'
  <2>1. /\ smagic' \in [Slot -> Nat] /\ idx' \in [Proc -> Slot]
        /\ active' \in Nat /\ life' \in [Node -> Life] /\ home' \in [Node -> Bucket]
    BY <1>0, <1>1, <1>2 DEF TypeOK, Life
  <2>2. /\ pc' \in [Proc -> Pc] /\ how' \in [Proc -> {"append", "before", "after"}]
        /\ held' \in [Proc -> Node \cup {Null}] /\ bkt' \in [Proc -> Bucket]
    BY <1>0, <1>1 DEF TypeOK, Pc, AppendPc
  <2> QED  BY <1>0, <1>1, <1>2, <1>4, <2>1, <2>2 DEF TypeOK
<1>6. LocalOK'
  BY <1>0, <1>1, <1>3 DEF LocalOK, AppendPc, TypeOK
<1>7. FreeSlot(s0) /\ \A s \in Slot : FreeSlot(s)' <=> FreeSlot(s) /\ s # s0
  <2>1. FreeSlot(s0)
    BY <1>2 DEF FreeSlot
  <2>2. ASSUME NEW s \in Slot, FreeSlot(s)'  PROVE FreeSlot(s) /\ s # s0
    <3>1. PICK i \in 1 .. Len(free_q') : free_q'[i] = s
      BY <2>2 DEF FreeSlot
    <3>2. i + 1 \in 1 .. Len(free_q) /\ free_q[i + 1] = s /\ i + 1 # 1 /\ 1 \in 1 .. Len(free_q)
      BY <1>2, <3>1
    <3> QED  BY <1>0, <1>2, <3>2 DEF FreeSlot, SlotInv, Partition
  <2>3. ASSUME NEW s \in Slot, FreeSlot(s), s # s0  PROVE FreeSlot(s)'
    <3>1. PICK i \in 1 .. Len(free_q) : free_q[i] = s
      BY <2>3 DEF FreeSlot
    <3>2. i - 1 \in 1 .. Len(free_q') /\ (i - 1) + 1 = i
      BY <1>2, <2>3, <3>1
    <3>3. free_q'[i - 1] = s
      BY <1>2, <3>1, <3>2
    <3> QED  BY <3>2, <3>3 DEF FreeSlot
  <2> QED  BY <2>1, <2>2, <2>3
<1>8. /\ smagic[s0] = 0 /\ snode[s0] = Null
      /\ \A q \in Proc : Gives(q) => idx[q] # s0
      /\ \A m \in Node : snode[index[m]] = m => index[m] # s0
  <2>1. \A m \in Node : index[m] \in Slot /\ m # Null
    BY <1>0, McHashAssumption DEF TypeOK
  <2> QED  BY <1>0, <1>2, <1>7, <2>1 DEF SlotInv, Partition
<1>9. /\ \A q \in Proc : q # p => (Gives(q)' <=> Gives(q)) /\ idx'[q] = idx[q]
      /\ Gives(p)' /\ idx'[p] = s0 /\ ~Gives(p)
  BY <1>3 DEF Gives
<1>10. /\ \A m \in Node : m # n => (Filled(m)' <=> Filled(m)) /\ life'[m] = life[m]
       /\ ~Filled(n) /\ ~Filled(n)'
  <2>1. ~Filled(n) /\ ~Filled(n)'
    BY <1>1, <1>3 DEF Filled
  <2>2. ASSUME NEW m \in Node, m # n  PROVE (Filled(m)' <=> Filled(m)) /\ life'[m] = life[m]
    <3>1. (\A q \in Proc : pc'[q] = "fill" => held'[q] # m) <=> \A q \in Proc : pc[q] = "fill" => held[q] # m
      BY <1>3, <2>2
    <3> QED  BY <1>3, <2>2, <3>1 DEF Filled
  <2> QED  BY <2>1, <2>2
<1>11. AppendOK'
  <2>1. \A q \in Proc : q # p /\ pc[q] \in {"fill", "link"} => life[held[q]] = "slot" /\ held[q] # n
    BY <1>0, <1>1 DEF SlotInv, AppendOK
  <2>2. \A q \in Proc : pc'[q] \in {"fill", "link"} => life'[held'[q]] = "slot"
    BY <1>0, <1>3, <2>1 DEF LocalOK, AppendPc
  <2>3. \A q, r \in Proc :
          pc'[q] \in {"fill", "link"} /\ pc'[r] \in {"fill", "link"} /\ held'[q] = held'[r] => q = r
    BY <1>0, <1>3, <2>1 DEF SlotInv, AppendOK
  <2>4. \A q \in Proc : pc'[q] = "fill" => smagic'[idx'[q]] # 0 /\ snode'[idx'[q]] = Null
    <3>1. ASSUME NEW q \in Proc, q # p, pc'[q] = "fill"
          PROVE  smagic'[idx'[q]] # 0 /\ snode'[idx'[q]] = Null
      <4>1. pc[q] = "fill" /\ idx'[q] = idx[q] /\ idx[q] # s0 /\ idx[q] \in Slot
        BY <1>0, <1>3, <1>8, <3>1 DEF Gives, TypeOK
      <4> QED  BY <1>0, <1>1, <1>3, <4>1 DEF SlotInv, AppendOK
    <3> QED  BY <1>1, <1>2, <1>3, <1>4, <1>8, <3>1
  <2> QED  BY <2>2, <2>3, <2>4, <1>1, <1>4 DEF AppendOK
<1>12. Resolves'
  <2> SUFFICES ASSUME NEW m \in Node, life'[m] \in Owned, Filled(m)'
               PROVE  snode[index[m]] = m /\ smagic'[index[m]] = ref[m] /\ ref[m] # 0
    BY <1>1 DEF Resolves
  <2>1. m # n /\ life[m] \in Owned /\ Filled(m)
    BY <1>10
  <2>2. snode[index[m]] = m /\ smagic[index[m]] = ref[m] /\ ref[m] # 0 /\ index[m] \in Slot
    BY <1>0, <2>1 DEF SlotInv, Resolves, TypeOK
  <2> QED  BY <1>3, <1>8, <2>2
<1>13. Named'
  <2> SUFFICES ASSUME NEW s \in Slot, snode[s] # Null
               PROVE  index[snode[s]] = s /\ Filled(snode[s])'
    BY <1>1 DEF Named, Filled
  <2>1. snode[s] \in Node /\ index[snode[s]] = s /\ Filled(snode[s])
    BY <1>0 DEF SlotInv, Named, TypeOK
  <2>2. snode[s] # n
    BY <1>10, <2>1
  <2>3. life'[snode[s]] # "new" /\ \A q \in Proc : pc'[q] = "fill" => held'[q] # snode[s]
    BY <1>3, <2>1, <2>2 DEF Filled
  <2> QED  BY <2>1, <2>3, <1>1 DEF Filled
<1>14. DeleteOK'
  <2> SUFFICES ASSUME NEW q \in Proc, q # p
       PROVE /\ pc[q] \in RefHeldPc => /\ index[held[q]] = idx[q]
                                       /\ life'[held[q]] # "new"
                                       /\ \A r \in Proc : pc'[r] = "fill" => held'[r] # held[q]
             /\ pc[q] \in {"ref_submit", "ref_clear", "ref_push", "node_push", "node_submit"} =>
                  life'[held[q]] \in Removed
             /\ pc[q] \in {"ref_submit", "ref_clear"} => snode[idx[q]] = held[q]
             /\ pc[q] \in {"ref_push", "node_push"} => snode[idx[q]] = Null
             /\ pc[q] \in {"ref_submit", "ref_clear", "ref_push", "node_push"} => smagic'[idx[q]] = 0
    BY <1>1, <1>3 DEF DeleteOK, Filled, RefHeldPc
  <2>1. pc[q] \in RefHeldPc \cup NodePc => held[q] \in Node
    BY <1>0 DEF LocalOK
  <2>2. pc[q] \in RefHeldPc => held[q] # n
    BY <1>0, <1>10, <2>1 DEF SlotInv, DeleteOK
  <2>3. pc[q] \in {"ref_submit", "ref_clear", "ref_push", "node_push", "node_submit"} => life[held[q]] \in Removed
    BY <1>0 DEF SlotInv, DeleteOK
  <2>4. pc[q] \in {"ref_submit", "ref_clear", "ref_push", "node_push", "node_submit"} => life'[held[q]] \in Removed
    BY <1>1, <1>3, <2>1, <2>3 DEF Removed, RefHeldPc, NodePc
  <2>5. pc[q] \in RefHeldPc => /\ life'[held[q]] # "new"
                               /\ \A r \in Proc : pc'[r] = "fill" => held'[r] # held[q]
    BY <1>0, <1>3, <2>1, <2>2 DEF SlotInv, DeleteOK, Filled
  <2>6. pc[q] \in {"ref_submit", "ref_clear", "ref_push", "node_push"} => smagic'[idx[q]] = 0
    <3>1. Gives(q) => idx[q] # s0 /\ idx[q] \in Slot
      BY <1>0, <1>8 DEF TypeOK
    <3> QED  BY <1>0, <1>3, <3>1 DEF SlotInv, DeleteOK, Gives
  <2> QED  BY <1>0, <2>4, <2>5, <2>6 DEF SlotInv, DeleteOK
<1>15. Partition'
  <2>1. active' + Len(free_q') = MaxNodes
    BY <1>0, <1>1, <1>2 DEF SlotInv, Partition, TypeOK
  <2>2. \A i, j \in 1 .. Len(free_q') : free_q'[i] = free_q'[j] => i = j
    <3> SUFFICES ASSUME NEW i \in 1 .. Len(free_q'), NEW j \in 1 .. Len(free_q'),
                        free_q'[i] = free_q'[j]
                 PROVE  i = j
      OBVIOUS
    <3>1. i + 1 \in 1 .. Len(free_q) /\ j + 1 \in 1 .. Len(free_q) /\ free_q[i + 1] = free_q[j + 1]
      BY <1>2
    <3>2. i + 1 = j + 1
      BY <1>0, <3>1 DEF SlotInv, Partition
    <3> QED  BY <1>2, <3>2
  <2>3. \A s \in Slot : FreeSlot(s)' => smagic'[s] = 0 /\ snode'[s] = Null
    BY <1>0, <1>1, <1>3, <1>7 DEF SlotInv, Partition
  <2>4. \A q \in Proc : Gives(q)' => ~FreeSlot(idx[q])'
    <3> SUFFICES ASSUME NEW q \in Proc, Gives(q)', NEW s \in Slot, s = idx'[q], FreeSlot(s)'
                 PROVE  FALSE
      BY <1>5 DEF TypeOK, FreeSlot
    <3> QED  BY <1>0, <1>7, <1>9 DEF SlotInv, Partition
  <2>5. \A q, r \in Proc : Gives(q)' /\ Gives(r)' /\ idx'[q] = idx'[r] => q = r
    BY <1>0, <1>8, <1>9 DEF SlotInv, Partition
  <2>6. ASSUME NEW s \in Slot
        PROVE  \/ FreeSlot(s)'
               \/ \E q \in Proc : Gives(q)' /\ idx'[q] = s
               \/ snode[s] # Null /\ life'[snode[s]] \in Owned
    <3>1. CASE s = s0
      BY <3>1, <1>9
    <3>2. ASSUME s # s0, FreeSlot(s)  PROVE FreeSlot(s)'
      BY <3>2, <1>7
    <3>3. ASSUME NEW q \in Proc, Gives(q), idx[q] = s
          PROVE  \E r \in Proc : Gives(r)' /\ idx'[r] = s
      BY <3>3, <1>9
    <3>4. ASSUME snode[s] # Null, life[snode[s]] \in Owned  PROVE life'[snode[s]] \in Owned
      <4>1. snode[s] \in Node
        BY <1>0, <3>4 DEF TypeOK
      <4> QED  BY <3>4, <4>1, <1>3 DEF Owned
    <3> QED  BY <1>0, <3>1, <3>2, <3>3, <3>4 DEF SlotInv, Partition
  <2> QED  BY <2>1, <2>2, <2>3, <2>4, <2>5, <2>6, <1>1 DEF Partition
<1> QED  BY <1>5, <1>6, <1>11, <1>12, <1>13, <1>14, <1>15 DEF Inv, SlotInv

\* Between the two locks of an append: the marked slot points to the node, and the
\* reference handed out names both.
LEMMA FillSlotInv ==
  ASSUME Inv, NEW p \in Proc, FillSlot(p)
  PROVE  Inv'
<1>0. TypeOK /\ LocalOK /\ SlotInv /\ fault = "none"
  BY DEF Inv, FillSlot, Up
<1> PICK n : n = held[p]
  OBVIOUS
<1> PICK t : t = idx[p]
  OBVIOUS
<1>1. /\ pc[p] = "fill" /\ pc' = [pc EXCEPT ![p] = "link"]
      /\ snode' = [snode EXCEPT ![t] = n] /\ index' = [index EXCEPT ![n] = t]
      /\ ref' = [ref EXCEPT ![n] = smagic[t]]
      /\ UNCHANGED <<smagic, free_q, magic_no, active, table, next, prev, key, life, home,
                     how, held, idx, bkt, at, anchor, seen, must, wait, fault>>
  BY DEF FillSlot, Step, HandedMagic, tableVars, listVars, nodeVars
<1>2. n \in Node /\ t \in Slot /\ Null \notin Node
  BY <1>0, <1>1, McHashAssumption DEF LocalOK, TypeOK, AppendPc
<1>3. /\ \A q \in Proc : pc'[q] = IF q = p THEN "link" ELSE pc[q]
      /\ \A s \in Slot : snode'[s] = IF s = t THEN n ELSE snode[s]
      /\ \A m \in Node : index'[m] = IF m = n THEN t ELSE index[m]
      /\ \A m \in Node : ref'[m] = IF m = n THEN smagic[t] ELSE ref[m]
      /\ held[p] = n /\ idx[p] = t
  BY <1>0, <1>1, <1>2 DEF TypeOK
<1>4. TypeOK'
  <2>1. /\ snode' \in [Slot -> Node \cup {Null}] /\ index' \in [Node -> Slot]
        /\ ref' \in [Node -> Nat] /\ pc' \in [Proc -> Pc]
    BY <1>0, <1>1, <1>2 DEF TypeOK, Pc, AppendPc
  <2> QED  BY <1>0, <1>1, <2>1 DEF TypeOK
<1>5. LocalOK'
  BY <1>0, <1>1, <1>2, <1>3 DEF LocalOK, AppendPc
<1>6. /\ life[n] = "slot" /\ smagic[t] # 0 /\ snode[t] = Null /\ ~Filled(n)
      /\ \A q \in Proc : q # p /\ pc[q] \in {"fill", "link"} => held[q] # n
      /\ \A q \in Proc : q # p /\ Gives(q) => idx[q] # t
      /\ Gives(p) /\ ~Gives(p)' /\ ~FreeSlot(t)
  <2>1. life[n] = "slot" /\ smagic[t] # 0 /\ snode[t] = Null /\ ~Filled(n)
    BY <1>0, <1>1, <1>3 DEF SlotInv, AppendOK, Filled
  <2>2. \A q \in Proc : q # p /\ pc[q] \in {"fill", "link"} => held[q] # n
    BY <1>0, <1>1, <1>3 DEF SlotInv, AppendOK
  <2>3. Gives(p) /\ ~Gives(p)'
    BY <1>1, <1>3 DEF Gives
  <2> QED  BY <1>0, <1>3, <2>1, <2>2, <2>3 DEF SlotInv, Partition
<1>7. /\ \A m \in Node : m # n => (Filled(m)' <=> Filled(m))
      /\ Filled(n)'
  <2>1. ASSUME NEW m \in Node, m # n  PROVE Filled(m)' <=> Filled(m)
    <3>1. (\A q \in Proc : pc'[q] = "fill" => held'[q] # m) <=> \A q \in Proc : pc[q] = "fill" => held[q] # m
      BY <1>1, <1>3, <2>1
    <3> QED  BY <1>1, <3>1 DEF Filled
  <2>2. life'[n] # "new" /\ \A q \in Proc : pc'[q] = "fill" => held'[q] # n
    BY <1>1, <1>3, <1>6
  <2> QED  BY <2>1, <2>2 DEF Filled
<1>8. AppendOK'
  <2>1. \A q \in Proc : pc'[q] \in {"fill", "link"} => life'[held'[q]] = "slot"
    BY <1>0, <1>1, <1>3, <1>6 DEF SlotInv, AppendOK
  <2>2. \A q, r \in Proc :
          pc'[q] \in {"fill", "link"} /\ pc'[r] \in {"fill", "link"} /\ held'[q] = held'[r] => q = r
    BY <1>0, <1>1, <1>3 DEF SlotInv, AppendOK
  <2>3. ASSUME NEW q \in Proc, pc'[q] = "fill"
        PROVE  smagic'[idx'[q]] # 0 /\ snode'[idx'[q]] = Null
    <3>1. q # p /\ pc[q] = "fill" /\ idx[q] # t /\ idx[q] \in Slot
      BY <1>0, <1>3, <1>6, <2>3 DEF Gives, TypeOK
    <3> QED  BY <1>0, <1>1, <1>3, <3>1 DEF SlotInv, AppendOK
  <2> QED  BY <1>0, <1>1, <2>1, <2>2, <2>3 DEF SlotInv, AppendOK
<1>9. Resolves'
  <2> SUFFICES ASSUME NEW m \in Node, life[m] \in Owned, Filled(m)'
               PROVE  snode'[index'[m]] = m /\ smagic[index'[m]] = ref'[m] /\ ref'[m] # 0
    BY <1>1 DEF Resolves
  <2>1. CASE m = n
    BY <2>1, <1>2, <1>3, <1>6
  <2>2. CASE m # n
    <3>1. snode[index[m]] = m /\ smagic[index[m]] = ref[m] /\ ref[m] # 0 /\ index[m] \in Slot
      BY <2>2, <1>0, <1>7 DEF SlotInv, Resolves, TypeOK
    <3>2. index[m] # t
      BY <1>2, <1>6, <3>1
    <3> QED  BY <2>2, <1>3, <3>1, <3>2
  <2> QED  BY <2>1, <2>2
<1>10. Named'
  <2> SUFFICES ASSUME NEW s \in Slot, NEW m, m = snode'[s], m # Null
               PROVE  index'[m] = s /\ Filled(m)'
    BY DEF Named, Filled
  <2>1. CASE s = t
    BY <2>1, <1>2, <1>3, <1>7
  <2>2. CASE s # t
    <3>1. m \in Node /\ index[m] = s /\ Filled(m)
      BY <2>2, <1>0, <1>3 DEF SlotInv, Named, TypeOK
    <3> QED  BY <3>1, <1>3, <1>6, <1>7
  <2> QED  BY <2>1, <2>2
<1>11. DeleteOK'
  <2> SUFFICES ASSUME NEW q \in Proc, q # p
       PROVE /\ pc[q] \in RefHeldPc => /\ index'[held[q]] = idx[q]
                                       /\ Filled(held[q])'
             /\ pc[q] \in {"ref_submit", "ref_clear", "ref_push", "node_push", "node_submit"} =>
                  life[held[q]] \in Removed
             /\ pc[q] \in {"ref_submit", "ref_clear"} => snode'[idx[q]] = held[q]
             /\ pc[q] \in {"ref_push", "node_push"} => snode'[idx[q]] = Null
             /\ pc[q] \in {"ref_submit", "ref_clear", "ref_push", "node_push"} => smagic[idx[q]] = 0
    BY <1>1, <1>3 DEF DeleteOK, Filled, RefHeldPc
  <2>1. pc[q] \in RefHeldPc => held[q] \in Node /\ held[q] # n /\ index[held[q]] = idx[q] /\ Filled(held[q])
    BY <1>0, <1>6 DEF LocalOK, SlotInv, DeleteOK
  <2>2. pc[q] \in RefHeldPc => index'[held[q]] = idx[q]
    BY <1>3, <2>1
  <2>3. ASSUME NEW m \in Node, m = held[q], m # n, Filled(m)  PROVE Filled(m)'
    BY <2>3, <1>7
  <2>4. pc[q] \in RefHeldPc => life'[held[q]] # "new" /\ \A r \in Proc : pc'[r] = "fill" => held'[r] # held[q]
    BY <2>1, <2>3 DEF Filled
  <2>5. idx[q] \in Slot /\ (Gives(q) => idx[q] # t)
    BY <1>0, <1>6 DEF TypeOK
  <2>6. Gives(q) => snode'[idx[q]] = snode[idx[q]]
    BY <2>5, <1>3
  <2> QED  BY <1>0, <1>1, <2>2, <2>4, <2>6 DEF SlotInv, DeleteOK, Gives, Filled
<1>12. Partition'
  <2>1. \A q \in Proc : Gives(q)' <=> Gives(q) /\ q # p
    BY <1>3, <1>6 DEF Gives
  <2>2. \A s : FreeSlot(s)' <=> FreeSlot(s)
    BY <1>1 DEF FreeSlot
  <2>3. \A s \in Slot : FreeSlot(s) => smagic[s] = 0 /\ snode'[s] = Null
    BY <1>0, <1>3, <1>6 DEF SlotInv, Partition
  <2>4. ASSUME NEW s \in Slot
        PROVE  \/ FreeSlot(s)
               \/ \E q \in Proc : Gives(q)' /\ idx[q] = s
               \/ snode'[s] # Null /\ life[snode'[s]] \in Owned
    <3>1. CASE s = t
      BY <3>1, <1>2, <1>3, <1>6 DEF Owned
    <3>2. CASE s # t
      BY <3>2, <1>0, <1>3, <2>1 DEF SlotInv, Partition
    <3> QED  BY <3>1, <3>2
  <2> QED  BY <1>0, <1>1, <2>1, <2>2, <2>3, <2>4 DEF SlotInv, Partition
<1> QED  BY <1>0, <1>1, <1>4, <1>5, <1>8, <1>9, <1>10, <1>11, <1>12 DEF Inv, SlotInv

\* A delete that finds the node in its list takes it out and resets the slot's magic
\* number; a delete by node also clears node_p, a delete by reference does so later.
LEMMA TakeOutInv ==
  ASSUME TypeOK, LocalOK, SlotInv, NEW p \in Proc, NEW n \in Node, NEW t \in Slot,
         n = held[p], t = idx[p], Linked(n), snode[t] = n, NEW to,
         \/ pc[p] = "ref_lock" /\ to = "ref_submit" /\ snode' = snode
         \/ pc[p] = "node_lock" /\ to = "node_push" /\ snode' = [snode EXCEPT ![t] = Null],
         pc' = [pc EXCEPT ![p] = to],
         smagic' = [smagic EXCEPT ![t] = 0],
         life' = [life EXCEPT ![n] = "out"],
         UNCHANGED <<free_q, magic_no, active, index, ref, held, idx>>
  PROVE  SlotInv'
<1>1. /\ \A q \in Proc : pc'[q] = IF q = p THEN to ELSE pc[q]
      /\ \A s \in Slot : snode'[s] = IF s = t /\ to = "node_push" THEN Null ELSE snode[s]
      /\ \A s \in Slot : smagic'[s] = IF s = t THEN 0 ELSE smagic[s]
      /\ \A m \in Node : life'[m] = IF m = n THEN "out" ELSE life[m]
  BY DEF TypeOK
<1>2. to \in {"ref_submit", "node_push"} /\ pc[p] \in {"ref_lock", "node_lock"} /\ n # Null
  BY McHashAssumption
<1>3. index[n] = t /\ Filled(n) /\ life[n] \in {"linking", "in"}
  BY <1>2 DEF SlotInv, Named, Linked
<1>4. \A m \in Node : /\ (Filled(m)' <=> Filled(m))
                      /\ life[m] \in Removed => life'[m] \in Removed
                      /\ life'[m] \in Owned <=> life[m] \in Owned /\ m # n
  <2> SUFFICES ASSUME NEW m \in Node
               PROVE  /\ (Filled(m)' <=> Filled(m))
                      /\ life[m] \in Removed => life'[m] \in Removed
                      /\ life'[m] \in Owned <=> life[m] \in Owned /\ m # n
    OBVIOUS
  <2>1. (\A q \in Proc : pc'[q] = "fill" => held'[q] # m) <=> \A q \in Proc : pc[q] = "fill" => held[q] # m
    BY <1>1, <1>2
  <2>2. life'[m] = "new" <=> life[m] = "new"
    BY <1>1, <1>3
  <2> QED  BY <2>1, <2>2, <1>1 DEF Filled, Removed, Owned
<1>5. \A q \in Proc : q # p /\ Gives(q) => idx[q] # t /\ idx[q] \in Slot
  <2>1. \A q \in Proc : pc[q] = "fill" => snode[idx[q]] = Null
    BY DEF SlotInv, AppendOK
  <2>2. \A q \in Proc : pc[q] \in {"ref_submit", "ref_clear"} =>
          snode[idx[q]] = held[q] /\ life[held[q]] \in Removed
    BY DEF SlotInv, DeleteOK
  <2>3. \A q \in Proc : pc[q] \in {"ref_push", "node_push"} => snode[idx[q]] = Null
    BY DEF SlotInv, DeleteOK
  <2>4. snode[t] # Null /\ life[snode[t]] \notin Removed
    BY <1>2, <1>3 DEF Removed
  <2>5. \A q \in Proc : Gives(q) => idx[q] # t
    BY <2>1, <2>2, <2>3, <2>4 DEF Gives
  <2> QED  BY <2>5 DEF TypeOK
<1>6. ~Gives(p) /\ Gives(p)' /\ \A q \in Proc : q # p => (Gives(q)' <=> Gives(q))
  BY <1>1, <1>2 DEF Gives
<1>7. AppendOK'
  <2>1. \A q \in Proc : pc[q] \in {"fill", "link"} => held[q] \in Node /\ held[q] # n
    BY <1>3 DEF SlotInv, AppendOK, LocalOK, AppendPc
  <2>2. \A q \in Proc : pc'[q] \in {"fill", "link"} => q # p /\ pc'[q] = pc[q]
    BY <1>1, <1>2
  <2>3. \A q \in Proc : pc'[q] \in {"fill", "link"} => life'[held'[q]] = "slot"
    BY <1>1, <2>1, <2>2 DEF SlotInv, AppendOK
  <2>4. \A q, r \in Proc :
          pc'[q] \in {"fill", "link"} /\ pc'[r] \in {"fill", "link"} /\ held'[q] = held'[r] => q = r
    BY <2>2 DEF SlotInv, AppendOK
  <2>5. \A q \in Proc : pc'[q] = "fill" => smagic'[idx'[q]] # 0 /\ snode'[idx'[q]] = Null
    BY <1>1, <1>5, <2>2 DEF SlotInv, AppendOK, Gives
  <2> QED  BY <2>3, <2>4, <2>5 DEF SlotInv, AppendOK
<1>8. Resolves'
  <2> SUFFICES ASSUME NEW m \in Node, life'[m] \in Owned, Filled(m)'
               PROVE  snode'[index[m]] = m /\ smagic'[index[m]] = ref[m] /\ ref[m] # 0
    BY DEF Resolves
  <2>1. snode[index[m]] = m /\ smagic[index[m]] = ref[m] /\ ref[m] # 0 /\ index[m] \in Slot /\ m # n
    BY <1>4 DEF SlotInv, Resolves, TypeOK
  <2> QED  BY <1>1, <2>1
<1>9. Named'
  <2> SUFFICES ASSUME NEW s \in Slot, NEW m, m = snode'[s], m # Null
               PROVE  index[m] = s /\ Filled(m)'
    BY DEF Named, Filled
  <2>1. m = snode[s] /\ m \in Node
    BY <1>1 DEF TypeOK
  <2> QED  BY <1>4, <2>1 DEF SlotInv, Named
<1>10. DeleteOK'
  <2> SUFFICES ASSUME NEW q \in Proc
       PROVE /\ pc'[q] \in RefHeldPc => index[held[q]] = idx[q] /\ Filled(held[q])'
             /\ pc'[q] \in {"ref_submit", "ref_clear", "ref_push", "node_push", "node_submit"} =>
                  life'[held[q]] \in Removed
             /\ pc'[q] \in {"ref_submit", "ref_clear"} => snode'[idx[q]] = held[q]
             /\ pc'[q] \in {"ref_push", "node_push"} => snode'[idx[q]] = Null
             /\ pc'[q] \in {"ref_submit", "ref_clear", "ref_push", "node_push"} => smagic'[idx[q]] = 0
    BY DEF DeleteOK, Filled
  <2>1. CASE q = p
    <3>1. Filled(n)' /\ life'[n] \in Removed
      BY <1>1, <1>3, <1>4 DEF Removed
    <3>2. Filled(held[p])'
      BY <3>1 DEF Filled
    <3> QED  BY <2>1, <1>1, <1>2, <1>3, <3>1, <3>2
  <2>2. CASE q # p
    <3>1. pc'[q] = pc[q] /\ (pc[q] \in RefHeldPc \cup NodePc => held[q] \in Node)
      BY <2>2, <1>1 DEF LocalOK
    <3>2. pc[q] \in RefHeldPc => index[held[q]] = idx[q] /\ Filled(held[q])
      BY DEF SlotInv, DeleteOK
    <3>3. pc[q] \in RefHeldPc => Filled(held[q])'
      <4>1. ASSUME NEW m \in Node, m = held[q], Filled(m)
            PROVE  life'[m] # "new" /\ \A r \in Proc : pc'[r] = "fill" => held'[r] # m
        BY <4>1, <1>4 DEF Filled
      <4> QED  BY <3>1, <3>2, <4>1 DEF Filled
    <3>4. pc[q] \in {"ref_submit", "ref_clear", "ref_push", "node_push", "node_submit"} =>
            life'[held[q]] \in Removed
      BY <1>4, <3>1 DEF SlotInv, DeleteOK, RefHeldPc, NodePc
    <3>5. Gives(q) => snode'[idx[q]] = snode[idx[q]] /\ smagic'[idx[q]] = smagic[idx[q]]
      BY <2>2, <1>1, <1>5
    <3> QED  BY <3>1, <3>2, <3>3, <3>4, <3>5 DEF SlotInv, DeleteOK, Gives
  <2> QED  BY <2>1, <2>2
<1>11. Partition'
  <2>1. \A s : FreeSlot(s)' <=> FreeSlot(s)
    BY DEF FreeSlot
  <2>2. \A s \in Slot : FreeSlot(s) => smagic'[s] = 0 /\ snode'[s] = Null
    BY <1>1, <1>2 DEF SlotInv, Partition
  <2>3. ~FreeSlot(t)
    BY <1>2 DEF SlotInv, Partition
  <2>4. ASSUME NEW s \in Slot
        PROVE  \/ FreeSlot(s)
               \/ \E q \in Proc : Gives(q)' /\ idx[q] = s
               \/ snode'[s] # Null /\ life'[snode'[s]] \in Owned
    <3>1. CASE s = t
      BY <3>1, <1>6
    <3>2. ASSUME s # t, snode[s] # Null, life[snode[s]] \in Owned
          PROVE  snode'[s] # Null /\ life'[snode'[s]] \in Owned
      <4>1. snode[s] \in Node /\ index[snode[s]] = s /\ snode'[s] = snode[s]
        BY <3>2, <1>1 DEF TypeOK, SlotInv, Named
      <4> QED  BY <3>2, <4>1, <1>3, <1>4
    <3> QED  BY <3>1, <3>2, <1>6 DEF SlotInv, Partition
  <2>5. /\ \A q \in Proc : Gives(q)' => ~FreeSlot(idx[q])
        /\ \A q, r \in Proc : Gives(q)' /\ Gives(r)' /\ idx[q] = idx[r] => q = r
    BY <1>5, <1>6, <2>3 DEF SlotInv, Partition
  <2> QED  BY <2>1, <2>2, <2>4, <2>5 DEF SlotInv, Partition
<1> QED  BY <1>7, <1>8, <1>9, <1>10, <1>11 DEF SlotInv

\* A delete by reference clears node_p while it still gives the slot.
LEMMA RefClearInv ==
  ASSUME Inv, NEW p \in Proc, RefClear(p)
  PROVE  Inv'
<1>0. TypeOK /\ LocalOK /\ SlotInv /\ fault = "none"
  BY DEF Inv, RefClear, Up
<1> PICK t : t = idx[p]
  OBVIOUS
<1>1. /\ pc[p] = "ref_clear" /\ pc' = [pc EXCEPT ![p] = "ref_push"]
      /\ snode' = [snode EXCEPT ![t] = Null]
      /\ UNCHANGED <<smagic, free_q, magic_no, active, table, next, prev, index, key, ref,
                     life, home, how, held, idx, bkt, at, anchor, seen, must, wait, fault>>
  BY DEF RefClear, Step, tableVars, listVars, linkVars, nodeVars
<1>2. /\ t \in Slot
      /\ \A q \in Proc : pc'[q] = IF q = p THEN "ref_push" ELSE pc[q]
      /\ \A s \in Slot : snode'[s] = IF s = t THEN Null ELSE snode[s]
  BY <1>0, <1>1 DEF TypeOK
<1>3. TypeOK'
  <2>1. pc' \in [Proc -> Pc] /\ snode' \in [Slot -> Node \cup {Null}]
    BY <1>0, <1>1, <1>2 DEF TypeOK, Pc, RefPc
  <2> QED  BY <1>0, <1>1, <2>1 DEF TypeOK
<1>4. LocalOK'
  BY <1>0, <1>1, <1>2 DEF LocalOK, AppendPc, RefHeldPc, NodePc
<1>5. /\ snode[t] = held[p] /\ smagic[t] = 0 /\ life[held[p]] \in Removed
      /\ \A q \in Proc : q # p /\ Gives(q) => idx[q] # t
      /\ \A q \in Proc : Gives(q)' <=> Gives(q)
  <2>1. snode[t] = held[p] /\ smagic[t] = 0 /\ life[held[p]] \in Removed
    BY <1>0, <1>1 DEF SlotInv, DeleteOK
  <2>2. \A q \in Proc : q # p /\ Gives(q) => idx[q] # t
    BY <1>0, <1>1 DEF SlotInv, Partition, Gives
  <2>3. \A q \in Proc : Gives(q)' <=> Gives(q)
    BY <1>1, <1>2 DEF Gives
  <2> QED  BY <2>1, <2>2, <2>3
<1>6. \A m : Filled(m)' <=> Filled(m)
  BY <1>1, <1>2 DEF Filled
<1>7. AppendOK'
  <2>1. \A q \in Proc : /\ pc'[q] = "fill" <=> pc[q] = "fill"
                        /\ pc'[q] = "link" <=> pc[q] = "link"
    BY <1>1, <1>2
  <2>2. \A q \in Proc : pc[q] = "fill" => snode'[idx[q]] = Null
    BY <1>0, <1>2 DEF SlotInv, AppendOK, TypeOK
  <2> QED  BY <1>0, <1>1, <2>1, <2>2 DEF SlotInv, AppendOK
<1>8. Resolves'
  <2> SUFFICES ASSUME NEW m \in Node, life[m] \in Owned, Filled(m)
               PROVE  snode'[index[m]] = m /\ smagic[index[m]] = ref[m] /\ ref[m] # 0
    BY <1>1, <1>6 DEF Resolves
  <2>1. snode[index[m]] = m /\ smagic[index[m]] = ref[m] /\ ref[m] # 0 /\ index[m] \in Slot
    BY <1>0 DEF SlotInv, Resolves, TypeOK
  <2>2. index[m] # t
    BY <1>5, <2>1
  <2> QED  BY <1>2, <2>1, <2>2
<1>9. Named'
  <2> SUFFICES ASSUME NEW s \in Slot, NEW m, m = snode'[s], m # Null
               PROVE  index[m] = s /\ Filled(m)
    BY <1>1, <1>6 DEF Named, Filled
  <2> QED  BY <1>0, <1>2 DEF SlotInv, Named
<1>10. DeleteOK'
  <2> SUFFICES ASSUME NEW q \in Proc
       PROVE /\ pc'[q] \in RefHeldPc => index[held[q]] = idx[q] /\ Filled(held[q])'
             /\ pc'[q] \in {"ref_submit", "ref_clear", "ref_push", "node_push", "node_submit"} =>
                  life[held[q]] \in Removed
             /\ pc'[q] \in {"ref_submit", "ref_clear"} => snode'[idx[q]] = held[q]
             /\ pc'[q] \in {"ref_push", "node_push"} => snode'[idx[q]] = Null
             /\ pc'[q] \in {"ref_submit", "ref_clear", "ref_push", "node_push"} => smagic[idx[q]] = 0
    BY <1>1 DEF DeleteOK, Filled
  <2>1. Filled(held[q])' <=> Filled(held[q])
    BY <1>1, <1>2 DEF Filled
  <2>2. q # p /\ Gives(q) => snode'[idx[q]] = snode[idx[q]]
    BY <1>0, <1>2, <1>5 DEF TypeOK
  <2>3. CASE q = p
    BY <2>1, <2>3, <1>0, <1>1, <1>2, <1>5 DEF SlotInv, DeleteOK, RefHeldPc
  <2>4. CASE q # p
    BY <2>1, <2>2, <2>4, <1>0, <1>2 DEF SlotInv, DeleteOK, Gives
  <2> QED  BY <2>3, <2>4
<1>11. Partition'
  <2>1. \A s : FreeSlot(s)' <=> FreeSlot(s)
    BY <1>1 DEF FreeSlot
  <2>2. \A s \in Slot : FreeSlot(s) => snode'[s] = Null
    BY <1>0, <1>2 DEF SlotInv, Partition
  <2>3. Gives(p) /\ idx[p] = t
    BY <1>1 DEF Gives
  <2>4. ASSUME NEW s \in Slot
        PROVE  \/ FreeSlot(s)
               \/ \E q \in Proc : Gives(q) /\ idx[q] = s
               \/ snode'[s] # Null /\ life[snode'[s]] \in Owned
    BY <2>3, <1>0, <1>2 DEF SlotInv, Partition
  <2> QED  BY <1>0, <1>1, <1>5, <2>1, <2>2, <2>4 DEF SlotInv, Partition
<1> QED  BY <1>0, <1>1, <1>3, <1>4, <1>7, <1>8, <1>9, <1>10, <1>11 DEF Inv, SlotInv

\* A slot that is given back was not in the queue: there is room for it, and a node
\* is counted for it.
LEMMA RoomForSlot ==
  ASSUME TypeOK, Partition, NEW t \in Slot, ~FreeSlot(t)
  PROVE  Len(free_q) < MaxNodes /\ active > 0
<1> DEFINE L == Len(free_q)
<1>1. L \in Nat /\ MaxNodes \in Nat \ {0} /\ free_q \in Seq(Slot)
  BY McHashAssumption DEF TypeOK
<1>2. \A i \in 1 .. L : free_q[i] \in Slot /\ free_q[i] # t
  BY <1>1, ElementOfSeq DEF FreeSlot
<1>3. IsFiniteSet(Slot) /\ Cardinality(Slot) = MaxNodes
  <2>1. 0 \in Int /\ MaxNodes - 1 \in Int /\ ~(0 > MaxNodes - 1) /\ (MaxNodes - 1) - 0 + 1 = MaxNodes
    BY <1>1
  <2> QED  BY <2>1, FS_Interval DEF Slot
<1>4. IsFiniteSet(Slot \ {t}) /\ Cardinality(Slot \ {t}) = MaxNodes - 1
  BY <1>3, FS_RemoveElement
<1> DEFINE f == [i \in 1 .. L |-> free_q[i]]
<1>5. f \in Injection(1 .. L, Slot \ {t})
  <2>1. f \in [1 .. L -> Slot \ {t}]
    BY <1>2
  <2>2. \A i, j \in 1 .. L : f[i] = f[j] => i = j
    BY DEF Partition
  <2> QED  BY <2>1, <2>2 DEF Injection, IsInjective
<1>6. Cardinality(1 .. L) <= MaxNodes - 1
  <2> HIDE DEF f
  <2> QED  BY <1>4, <1>5, FS_Injection
<1>7. Cardinality(1 .. L) = L
  <2>1. Cardinality(1 .. L) = IF 1 > L THEN 0 ELSE L - 1 + 1
    BY <1>1, FS_Interval
  <2> QED  BY <1>1, <2>1
<1> QED  BY <1>1, <1>6, <1>7 DEF Partition, TypeOK

\* Under the table lock the slot is free again, and counted out.
LEMMA PushSlotInv ==
  ASSUME TypeOK, LocalOK, SlotInv, NEW p \in Proc, NEW t \in Slot, t = idx[p],
         pc[p] \in {"ref_push", "node_push"},
         PushSlot(p),
         pc'[p] \in {"idle", "scan"} \/ (pc'[p] = "node_submit" /\ held'[p] = held[p]),
         \A q \in Proc : q # p => pc'[q] = pc[q] /\ held'[q] = held[q] /\ idx'[q] = idx[q],
         UNCHANGED <<smagic, snode, magic_no, index, ref, life>>
  PROVE  SlotInv' /\ free_q' \in Seq(Slot) /\ active' \in Nat
<1>1. free_q' = Append(free_q, t) /\ active' = active - 1
  BY DEF PushSlot
<1>2. /\ free_q \in Seq(Slot) /\ Len(free_q) \in Nat
      /\ free_q' \in Seq(Slot) /\ Len(free_q') = Len(free_q) + 1
      /\ \A i \in 1 .. Len(free_q) : free_q'[i] = free_q[i]
      /\ free_q'[Len(free_q) + 1] = t
  BY <1>1, AppendProperties DEF TypeOK
<1>3. /\ Gives(p) /\ ~Gives(p)' /\ smagic[t] = 0 /\ snode[t] = Null /\ ~FreeSlot(t)
      /\ life[held[p]] \in Removed
  BY DEF SlotInv, DeleteOK, Partition, Gives
<1>4. active' \in Nat /\ active' + Len(free_q') = MaxNodes
  <2>1. active > 0 /\ active \in Nat
    BY <1>3, RoomForSlot DEF SlotInv, TypeOK
  <2>2. active + Len(free_q) = MaxNodes
    BY DEF SlotInv, Partition
  <2> QED  BY <1>1, <1>2, <2>1, <2>2
<1>5. \A s \in Slot : FreeSlot(s)' <=> FreeSlot(s) \/ s = t
  <2> SUFFICES ASSUME NEW s \in Slot
               PROVE  (\E i \in 1 .. Len(free_q') : free_q'[i] = s) <=> FreeSlot(s) \/ s = t
    BY DEF FreeSlot
  <2>1. ASSUME NEW i \in 1 .. Len(free_q'), free_q'[i] = s  PROVE FreeSlot(s) \/ s = t
    <3>1. CASE i = Len(free_q) + 1
      BY <1>2, <2>1, <3>1
    <3>2. CASE i # Len(free_q) + 1
      <4>1. i \in 1 .. Len(free_q)
        BY <1>2, <3>2
      <4> QED  BY <4>1, <1>2, <2>1 DEF FreeSlot
    <3> QED  BY <3>1, <3>2
  <2>2. ASSUME FreeSlot(s)  PROVE \E i \in 1 .. Len(free_q') : free_q'[i] = s
    <3>1. PICK i \in 1 .. Len(free_q) : free_q[i] = s
      BY <2>2 DEF FreeSlot
    <3>2. i \in 1 .. Len(free_q')
      BY <1>2
    <3> QED  BY <1>2, <3>1, <3>2
  <2>3. ASSUME s = t  PROVE \E i \in 1 .. Len(free_q') : free_q'[i] = s
    <3>1. Len(free_q) + 1 \in 1 .. Len(free_q')
      BY <1>2
    <3> QED  BY <1>2, <2>3, <3>1
  <2> QED  BY <2>1, <2>2, <2>3
<1>6. \A q \in Proc : q # p => (Gives(q)' <=> Gives(q)) /\ idx'[q] = idx[q] /\ (Gives(q) => idx[q] # t)
  BY <1>3 DEF Gives, SlotInv, Partition
<1>7. \A m : Filled(m)' <=> Filled(m)
  <2>1. \A q \in Proc : /\ pc'[q] = "fill" <=> pc[q] = "fill"
                        /\ pc[q] = "fill" => held'[q] = held[q]
    OBVIOUS
  <2> QED  BY <2>1 DEF Filled
<1>8. AppendOK'
  <2>1. \A q \in Proc : pc'[q] \in {"fill", "link"} =>
          q # p /\ pc'[q] = pc[q] /\ held'[q] = held[q] /\ idx'[q] = idx[q]
    OBVIOUS
  <2> QED  BY <2>1 DEF SlotInv, AppendOK
<1>9. Resolves' /\ Named'
  BY <1>7 DEF SlotInv, Resolves, Named, Filled
<1>10. DeleteOK'
  <2> SUFFICES ASSUME NEW q \in Proc
       PROVE /\ pc'[q] \in RefHeldPc => index[held'[q]] = idx'[q] /\ Filled(held'[q])
             /\ pc'[q] \in {"ref_submit", "ref_clear", "ref_push", "node_push", "node_submit"} =>
                  life[held'[q]] \in Removed
             /\ pc'[q] \in {"ref_submit", "ref_clear"} => snode[idx'[q]] = held'[q]
             /\ pc'[q] \in {"ref_push", "node_push"} => snode[idx'[q]] = Null
             /\ pc'[q] \in {"ref_submit", "ref_clear", "ref_push", "node_push"} => smagic[idx'[q]] = 0
    <3>1. \A q \in Proc : /\ pc'[q] = "fill" <=> pc[q] = "fill"
                          /\ pc[q] = "fill" => held'[q] = held[q]
      OBVIOUS
    <3>2. \A q \in Proc : Filled(held'[q]) => life'[held'[q]] # "new" /\ \A r \in Proc : pc'[r] = "fill" => held'[r] # held'[q]
      BY <3>1 DEF Filled
    <3> QED  BY <3>2 DEF DeleteOK, Filled
  <2>1. CASE q = p
    BY <2>1, <1>3 DEF RefHeldPc
  <2>2. CASE q # p
    BY <2>2 DEF SlotInv, DeleteOK
  <2> QED  BY <2>1, <2>2
<1>11. Partition'
  <2>1. \A i, j \in 1 .. Len(free_q') : free_q'[i] = free_q'[j] => i = j
    <3> SUFFICES ASSUME NEW i \in 1 .. Len(free_q'), NEW j \in 1 .. Len(free_q'),
                        free_q'[i] = free_q'[j]
                 PROVE  i = j
      OBVIOUS
    <3>1. \A k \in 1 .. Len(free_q) : free_q[k] # t
      BY <1>3 DEF FreeSlot
    <3>2. /\ i \in 1 .. Len(free_q) \/ i = Len(free_q) + 1
          /\ j \in 1 .. Len(free_q) \/ j = Len(free_q) + 1
      BY <1>2
    <3>3. CASE i \in 1 .. Len(free_q) /\ j \in 1 .. Len(free_q)
      BY <3>3, <1>2 DEF SlotInv, Partition
    <3>4. CASE i = Len(free_q) + 1 \/ j = Len(free_q) + 1
      BY <3>1, <3>2, <3>4, <1>2
    <3> QED  BY <3>2, <3>3, <3>4
  <2>2. \A s \in Slot : FreeSlot(s)' => smagic'[s] = 0 /\ snode'[s] = Null
    BY <1>3, <1>5 DEF SlotInv, Partition
  <2>3. ASSUME NEW q \in Proc, Gives(q)', NEW s, s = idx'[q]  PROVE ~FreeSlot(s)'
    <3>1. q # p /\ Gives(q) /\ s = idx[q] /\ s # t /\ s \in Slot
      BY <2>3, <1>3, <1>6 DEF TypeOK
    <3> QED  BY <3>1, <1>5 DEF SlotInv, Partition
  <2>4. \A q, r \in Proc : Gives(q)' /\ Gives(r)' /\ idx'[q] = idx'[r] => q = r
    BY <1>3, <1>6 DEF SlotInv, Partition
  <2>5. ASSUME NEW s \in Slot
        PROVE  \/ FreeSlot(s)'
               \/ \E q \in Proc : Gives(q)' /\ idx'[q] = s
               \/ snode[s] # Null /\ life[snode[s]] \in Owned
    <3>1. CASE s = t
      BY <3>1, <1>5
    <3>2. CASE s # t
      BY <3>2, <1>5, <1>6 DEF SlotInv, Partition
    <3> QED  BY <3>1, <3>2
  <2>6. \A q \in Proc : Gives(q)' => ~FreeSlot(idx[q])'
    <3> SUFFICES ASSUME NEW q \in Proc, Gives(q)'
                 PROVE  \A i \in 1 .. Len(free_q') : free_q'[i] # idx'[q]
      BY DEF FreeSlot
    <3> QED  BY <2>3 DEF FreeSlot
  <2> QED  BY <1>4, <2>1, <2>2, <2>4, <2>5, <2>6 DEF Partition
<1> QED  BY <1>2, <1>4, <1>8, <1>9, <1>10, <1>11 DEF SlotInv

-----------------------------------------------------------------------------
(* The steps of the threads keep the invariant.                             *)

\* A thread whose operation returns goes back to its scan or to nothing, and leaves
\* the other threads alone.
LEMMA ReturnFacts ==
  ASSUME TypeOK, NEW p \in Proc, Return(p)
  PROVE  /\ pc' \in [Proc -> Pc] /\ how' \in [Proc -> {"append", "before", "after"}]
         /\ held' \in [Proc -> Node \cup {Null}] /\ idx' \in [Proc -> Slot]
         /\ bkt' \in [Proc -> Bucket] /\ anchor' \in [Proc -> Node \cup {Null}]
         /\ at' = at /\ seen' = seen
         /\ pc'[p] = IF at[p] = Null THEN "idle" ELSE "scan"
         /\ \A q \in Proc : q # p => /\ pc'[q] = pc[q] /\ how'[q] = how[q] /\ held'[q] = held[q]
                                     /\ idx'[q] = idx[q] /\ bkt'[q] = bkt[q]
                                     /\ anchor'[q] = anchor[q]
<1>1. 0 \in Slot /\ Bucket0 \in Bucket
  BY McHashAssumption DEF Slot
<1>2. /\ pc' = [pc EXCEPT ![p] = IF at[p] = Null THEN "idle" ELSE "scan"]
      /\ held' = [held EXCEPT ![p] = Null] /\ idx' = [idx EXCEPT ![p] = 0]
      /\ bkt' = [bkt EXCEPT ![p] = Bucket0] /\ anchor' = [anchor EXCEPT ![p] = Null]
      /\ how' = [how EXCEPT ![p] = "append"] /\ at' = at /\ seen' = seen
  BY DEF Return
<1>3. (IF at[p] = Null THEN "idle" ELSE "scan") \in Pc
  BY DEF Pc
<1> QED  BY <1>1, <1>2, <1>3 DEF TypeOK

\* The end of a read section takes the thread off the lists of what callbacks wait for.
LEMMA EndReadType ==
  ASSUME TypeOK, NEW p \in Proc, EndRead(p)
  PROVE  wait' \in [Node -> SUBSET Proc]
BY DEF EndRead, TypeOK

\* call_rcu moves the node on, and lists threads.
LEMMA CallRcuFacts ==
  ASSUME TypeOK, NEW n \in Node, CallRcu(n)
  PROVE  /\ life' \in [Node -> Life] /\ wait' \in [Node -> SUBSET Proc]
         /\ \A m \in Node : life'[m] = IF m = n THEN "rcu" ELSE life[m]
BY DEF CallRcu, TypeOK, Life, Readers

\* What a return changes is nothing to the slots.
LEMMA ReturnQuiet ==
  ASSUME TypeOK, LocalOK, NEW p \in Proc, Return(p),
         ~Gives(p), pc[p] # "fill",
         UNCHANGED <<smagic, snode, free_q, magic_no, active, index, ref>>,
         \A n \in Node : life'[n] # life[n] =>
           \/ life[n] = "linking" /\ life'[n] = "in"
           \/ life[n] \in Removed /\ life'[n] \in Removed
  PROVE  Quiet(p) /\ LocalOK'
<1>1. /\ at' = at
      /\ pc'[p] = IF at[p] = Null THEN "idle" ELSE "scan"
      /\ \A q \in Proc : q # p => /\ pc'[q] = pc[q] /\ how'[q] = how[q] /\ held'[q] = held[q]
                                  /\ idx'[q] = idx[q] /\ anchor'[q] = anchor[q]
  BY ReturnFacts
<1>2. LocalOK'
  BY <1>1 DEF LocalOK, AppendPc, RefHeldPc, NodePc
<1>3. ~Gives(p)'
  BY <1>1 DEF Gives
<1> QED  BY <1>1, <1>2, <1>3 DEF Quiet, RefHeldPc

\* Steps of an append that no longer touch the slot.
LEMMA AppendStepsInv ==
  ASSUME Inv, NEW p \in Proc, LinkNode(p) \/ KeyNode(p)
  PROVE  Inv'
<1>0. TypeOK /\ LocalOK /\ SlotInv /\ fault = "none"
  BY DEF Inv, LinkNode, KeyNode, Up
<1> PICK n : n = held[p]
  OBVIOUS
<1>1. n \in Node
  BY <1>0 DEF LocalOK, AppendPc, LinkNode, KeyNode, Step
<1>2. CASE LinkNode(p)
  <2>1. /\ pc[p] = "link" /\ pc' = [pc EXCEPT ![p] = "key"]
        /\ life' = [life EXCEPT ![n] = "linking"]
        /\ UNCHANGED <<smagic, snode, free_q, magic_no, active, table, index, key, ref, home,
                       how, held, idx, bkt, at, anchor, seen, must, wait>>
        /\ fault' \in Fault
    BY <1>0, <1>2 DEF LinkNode, Step, slotVars, tableVars, linkVars, Fault
  <2>2. life[n] = "slot"
    BY <1>0, <2>1 DEF SlotInv, AppendOK
  <2>3. next' \in [Addr -> Node \cup {Null}] /\ prev' \in [Addr -> Addr \cup {Null}]
    <3>1. /\ next \in [Addr -> Node \cup {Null}] /\ prev \in [Addr -> Addr \cup {Null}]
          /\ bkt[p] \in Bucket /\ bkt[p] \in Addr /\ how[p] \in {"append", "before", "after"}
          /\ how[p] # "append" => anchor[p] \in Node
      BY <1>0, <2>1 DEF TypeOK, LocalOK, AppendPc, Addr
    <3>2. \A a \in Addr : next[a] \in Node \cup {Null} /\ prev[a] \in Addr \cup {Null}
      BY <3>1
    <3>3. ASSUME NEW pv \in Addr \cup {Null}, NEW nx \in Node \cup {Null},
                 InsertInMiddle(bkt[p], pv, n, nx)
          PROVE  next' \in [Addr -> Node \cup {Null}] /\ prev' \in [Addr -> Addr \cup {Null}]
      <4>1. OrHead(pv, bkt[p]) \in Addr /\ OrHead(nx, bkt[p]) \in Addr /\ n \in Addr
        BY <1>1, <3>1 DEF OrHead, Addr
      <4>2. next' = [next EXCEPT ![n] = nx, ![OrHead(pv, bkt[p])] = n]
        BY <3>3 DEF InsertInMiddle
      <4>3. prev' = [prev EXCEPT ![n] = pv, ![OrHead(nx, bkt[p])] = n]
        BY <3>3 DEF InsertInMiddle
      <4>4. next' \in [Addr -> Node \cup {Null}]
        BY <4>2, <3>1, <1>1
      <4>5. prev' \in [Addr -> Addr \cup {Null}]
        BY <4>1, <4>3, <3>1
      <4> QED  BY <4>4, <4>5
    <3>4. \/ InsertInMiddle(bkt[p], prev[bkt[p]], n, Null)
          \/ how[p] = "before" /\ InsertInMiddle(bkt[p], prev[anchor[p]], n, anchor[p])
          \/ how[p] = "after"  /\ InsertInMiddle(bkt[p], anchor[p], n, next[anchor[p]])
      BY <1>2 DEF LinkNode
    <3>5. how[p] # "append" => /\ prev[anchor[p]] \in Addr \cup {Null}
                               /\ next[anchor[p]] \in Node \cup {Null}
                               /\ anchor[p] \in Addr
      BY <3>1, <3>2 DEF Addr
    <3> QED  BY <3>1, <3>2, <3>3, <3>4, <3>5
  <2>4. TypeOK'
    <3>1. pc' \in [Proc -> Pc] /\ life' \in [Node -> Life]
      BY <1>0, <2>1 DEF TypeOK, Pc, AppendPc, Life
    <3> QED  BY <1>0, <2>1, <2>3, <3>1 DEF TypeOK
  <2>5. /\ \A q \in Proc : pc'[q] = IF q = p THEN "key" ELSE pc[q]
        /\ \A m \in Node : life'[m] = IF m = n THEN "linking" ELSE life[m]
    BY <1>0, <1>1, <2>1 DEF TypeOK
  <2>6. LocalOK'
    BY <1>0, <2>1, <2>5 DEF LocalOK, AppendPc, RefHeldPc, NodePc
  <2>7. Quiet(p)
    BY <2>1, <2>2, <2>5 DEF Quiet, Gives, RefHeldPc
  <2> QED  BY <1>0, <2>4, <2>6, <2>7, QuietInv DEF Inv
<1>3. CASE KeyNode(p)
  <2>1. /\ pc[p] = "key" /\ Return(p) /\ EndRead(p)
        /\ key' = [key EXCEPT ![n] = bkt[p]]
        /\ life' = IF life[n] = "linking" THEN [life EXCEPT ![n] = "in"] ELSE life
        /\ UNCHANGED <<smagic, snode, free_q, magic_no, active, table, next, prev, index, ref,
                       home, must, fault>>
    BY <1>3 DEF KeyNode, slotVars, tableVars, listVars
  <2>2. TypeOK'
    <3>1. key' \in [Node -> Bucket] /\ life' \in [Node -> Life]
      BY <1>0, <2>1 DEF TypeOK, Life
    <3>2. wait' \in [Node -> SUBSET Proc]
      BY <1>0, <2>1, EndReadType
    <3> QED  BY <1>0, <2>1, <3>1, <3>2, ReturnFacts DEF TypeOK
  <2>3. \A m \in Node : life'[m] # life[m] => life[m] = "linking" /\ life'[m] = "in"
    BY <1>0, <2>1 DEF TypeOK
  <2>4. Quiet(p) /\ LocalOK'
    BY <1>0, <2>1, <2>3, ReturnQuiet DEF Gives
  <2> QED  BY <1>0, <2>2, <2>4, QuietInv DEF Inv
<1> QED  BY <1>2, <1>3

\* A step of p that leaves the slots alone and after which p neither appends nor gives
\* a slot: the list of what it must not change, and what it may hold.
LEMMA IdleQuiet ==
  ASSUME NEW p \in Proc,
         UNCHANGED <<smagic, snode, free_q, magic_no, active, index, ref, life>>,
         \A q \in Proc : q # p => pc'[q] = pc[q] /\ held'[q] = held[q] /\ idx'[q] = idx[q],
         ~Gives(p), pc'[p] \in {"idle", "scan", "deref", "hold", "ref_deref", "node_lock"}
  PROVE  Quiet(p)
<1>1. ~Gives(p)' /\ pc[p] # "fill"
  BY DEF Gives
<1> QED  BY <1>1 DEF Quiet, RefHeldPc

\* Scans and accesses by reference read the slots and the links only.
LEMMA ReaderInv ==
  ASSUME Inv, NEW p \in Proc,
         \/ \E b \in Bucket : ScanBegin(p, b)
         \/ ScanNext(p) \/ ScanEnd(p)
         \/ \E n \in Node : AccessNode(p, n)
         \/ AccessDeref(p) \/ AccessEnd(p)
  PROVE  Inv'
<1>0. TypeOK /\ LocalOK /\ SlotInv /\ fault = "none"
  BY DEF Inv, ScanBegin, ScanNext, ScanEnd, AccessNode, AccessDeref, AccessEnd, Up
<1>1. ASSUME NEW b \in Bucket, ScanBegin(p, b)  PROVE Inv'
  <2>1. /\ pc[p] = "idle" /\ pc' = [pc EXCEPT ![p] = "scan"]
        /\ at' = [at EXCEPT ![p] = b] /\ must' = [must EXCEPT ![p] = BucketNodes(b)]
        /\ UNCHANGED <<smagic, snode, free_q, magic_no, active, table, next, prev, index, key,
                       ref, life, home, how, held, idx, bkt, anchor, seen, wait, fault>>
    BY <1>1 DEF ScanBegin, Step, shared, slotVars, tableVars, listVars, linkVars, nodeVars
  <2>2. BucketNodes(b) \subseteq Node /\ b # Null /\ b \in Addr
    BY McHashAssumption DEF BucketNodes, Addr
  <2>3. TypeOK'
    <3>1. /\ pc' \in [Proc -> Pc] /\ at' \in [Proc -> Addr \cup {Null}]
          /\ must' \in [Proc -> SUBSET Node]
      BY <1>0, <2>1, <2>2 DEF TypeOK, Pc
    <3> QED  BY <1>0, <2>1, <3>1 DEF TypeOK
  <2>4. LocalOK'
    BY <1>0, <2>1, <2>2 DEF LocalOK, TypeOK, AppendPc, RefHeldPc, NodePc
  <2>5. Quiet(p)
    <3>1. pc'[p] = "scan" /\ ~Gives(p) /\ \A q \in Proc : q # p => pc'[q] = pc[q]
      BY <1>0, <2>1 DEF TypeOK, Gives
    <3> QED  BY <2>1, <3>1, IdleQuiet
  <2> QED  BY <1>0, <2>3, <2>4, <2>5, QuietInv DEF Inv
<1>2. CASE ScanNext(p)
  <2>1. /\ pc[p] = "scan" /\ next[at[p]] # Null /\ at' = [at EXCEPT ![p] = next[at[p]]]
        /\ seen' = [seen EXCEPT ![p] = @ \cup {next[at[p]]}]
        /\ UNCHANGED <<smagic, snode, free_q, magic_no, active, table, next, prev, index, key,
                       ref, life, home, pc, how, held, idx, bkt, anchor, must, wait, fault>>
    BY <1>2 DEF ScanNext, Step, shared, slotVars, tableVars, listVars, linkVars, nodeVars
  <2>2. next[at[p]] \in Node
    <3>1. at[p] \in Addr
      BY <1>0, <2>1 DEF LocalOK, TypeOK
    <3> QED  BY <1>0, <2>1, <3>1 DEF TypeOK
  <2>3. TypeOK'
    <3>1. at' \in [Proc -> Addr \cup {Null}] /\ seen' \in [Proc -> SUBSET Node]
      BY <1>0, <2>1, <2>2 DEF TypeOK, Addr
    <3> QED  BY <1>0, <2>1, <3>1 DEF TypeOK
  <2>4. LocalOK'
    BY <1>0, <2>1, <2>2 DEF LocalOK, TypeOK
  <2>5. Quiet(p)
    <3>1. pc'[p] = "scan" /\ ~Gives(p)
      BY <2>1 DEF Gives
    <3> QED  BY <2>1, <3>1, IdleQuiet
  <2> QED  BY <1>0, <2>3, <2>4, <2>5, QuietInv DEF Inv
<1>3. CASE ScanEnd(p)
  <2>1. /\ pc[p] = "scan" /\ pc' = [pc EXCEPT ![p] = "idle"]
        /\ at' = [at EXCEPT ![p] = Null] /\ seen' = [seen EXCEPT ![p] = {}]
        /\ must' = [must EXCEPT ![p] = {}] /\ wait' = [n \in Node |-> wait[n] \ {p}]
        /\ UNCHANGED <<smagic, snode, free_q, magic_no, active, table, next, prev, index, key,
                       ref, life, home, how, held, idx, bkt, anchor, fault>>
    BY <1>3 DEF ScanEnd, Step, shared, slotVars, tableVars, listVars, linkVars, nodeVars
  <2>2. TypeOK'
    <3>1. /\ pc' \in [Proc -> Pc] /\ at' \in [Proc -> Addr \cup {Null}]
          /\ seen' \in [Proc -> SUBSET Node] /\ must' \in [Proc -> SUBSET Node]
          /\ wait' \in [Node -> SUBSET Proc]
      BY <1>0, <2>1 DEF TypeOK, Pc
    <3> QED  BY <1>0, <2>1, <3>1 DEF TypeOK
  <2>3. LocalOK'
    BY <1>0, <2>1 DEF LocalOK, TypeOK, AppendPc, RefHeldPc, NodePc
  <2>4. Quiet(p)
    <3>1. pc'[p] = "idle" /\ ~Gives(p) /\ \A q \in Proc : q # p => pc'[q] = pc[q]
      BY <1>0, <2>1 DEF TypeOK, Gives
    <3> QED  BY <2>1, <3>1, IdleQuiet
  <2> QED  BY <1>0, <2>2, <2>3, <2>4, QuietInv DEF Inv
<1>4. ASSUME NEW n \in Node, AccessNode(p, n)  PROVE Inv'
  <2>1. /\ pc[p] = "idle" /\ pc' = [pc EXCEPT ![p] = "deref"]
        /\ idx' = [idx EXCEPT ![p] = index[n]]
        /\ UNCHANGED <<smagic, snode, free_q, magic_no, active, table, next, prev, index, key,
                       ref, life, home, how, held, bkt, at, anchor, seen, must, wait, fault>>
    BY <1>4 DEF AccessNode, Step, shared, slotVars, tableVars, listVars, linkVars, nodeVars
  <2>2. TypeOK'
    <3>1. pc' \in [Proc -> Pc] /\ idx' \in [Proc -> Slot]
      BY <1>0, <2>1 DEF TypeOK, Pc
    <3> QED  BY <1>0, <2>1, <3>1 DEF TypeOK
  <2>3. LocalOK'
    BY <1>0, <2>1 DEF LocalOK, TypeOK, AppendPc, RefHeldPc, NodePc
  <2>4. Quiet(p)
    <3>1. /\ pc'[p] = "deref" /\ ~Gives(p)
          /\ \A q \in Proc : q # p => pc'[q] = pc[q] /\ idx'[q] = idx[q]
      BY <1>0, <2>1 DEF TypeOK, Gives
    <3> QED  BY <2>1, <3>1, IdleQuiet
  <2> QED  BY <1>0, <2>2, <2>3, <2>4, QuietInv DEF Inv
<1>5. CASE AccessDeref(p)
  <2>1. /\ pc[p] = "deref" /\ pc' = [pc EXCEPT ![p] = "hold"]
        /\ held' = [held EXCEPT ![p] = snode[idx[p]]]
        /\ UNCHANGED <<smagic, snode, free_q, magic_no, active, table, next, prev, index, key,
                       ref, life, home, how, idx, bkt, at, anchor, seen, must, wait, fault>>
    BY <1>5 DEF AccessDeref, Step, shared, slotVars, tableVars, listVars, linkVars, nodeVars
  <2>2. TypeOK'
    <3>1. pc' \in [Proc -> Pc] /\ held' \in [Proc -> Node \cup {Null}]
      BY <1>0, <2>1 DEF TypeOK, Pc
    <3> QED  BY <1>0, <2>1, <3>1 DEF TypeOK
  <2>3. LocalOK'
    BY <1>0, <2>1 DEF LocalOK, TypeOK, AppendPc, RefHeldPc, NodePc
  <2>4. Quiet(p)
    <3>1. /\ pc'[p] = "hold" /\ ~Gives(p)
          /\ \A q \in Proc : q # p => pc'[q] = pc[q] /\ held'[q] = held[q]
      BY <1>0, <2>1 DEF TypeOK, Gives
    <3> QED  BY <2>1, <3>1, IdleQuiet
  <2> QED  BY <1>0, <2>2, <2>3, <2>4, QuietInv DEF Inv
<1>6. CASE AccessEnd(p)
  <2>1. /\ pc[p] = "hold" /\ Return(p) /\ EndRead(p)
        /\ UNCHANGED <<smagic, snode, free_q, magic_no, active, table, next, prev, index, key,
                       ref, life, home, must, fault>>
    BY <1>6 DEF AccessEnd, shared, slotVars, tableVars, listVars, linkVars, nodeVars
  <2>2. TypeOK'
    <3>1. wait' \in [Node -> SUBSET Proc]
      BY <1>0, <2>1, EndReadType
    <3> QED  BY <1>0, <2>1, <3>1, ReturnFacts DEF TypeOK
  <2>3. Quiet(p) /\ LocalOK'
    BY <1>0, <2>1, ReturnQuiet DEF Gives
  <2> QED  BY <1>0, <2>2, <2>3, QuietInv DEF Inv
<1> QED  BY <1>1, <1>2, <1>3, <1>4, <1>5, <1>6

\* Taking a node out, whether it is in its list or not, leaves typed links and states.
LEMMA TakeOutFacts ==
  ASSUME TypeOK, NEW n \in Node, NEW b \in Bucket, NEW by \in {"ref_unlink", "node_unlink"},
         TakeOut(n, b, by)
  PROVE  /\ next' \in [Addr -> Node \cup {Null}] /\ prev' \in [Addr -> Addr \cup {Null}]
         /\ life' \in [Node -> Life] /\ life' = [life EXCEPT ![n] = "out"]
         /\ must' \in [Proc -> SUBSET Node]
         /\ fault' = (IF ~Linked(n) THEN by ELSE IF b # home[n] THEN "wrong_bucket" ELSE fault)
         /\ fault' \in Fault
<1>1. /\ life' = [life EXCEPT ![n] = "out"] /\ must' = [q \in Proc |-> must[q] \ {n}]
      /\ fault' = (IF ~Linked(n) THEN by ELSE IF b # home[n] THEN "wrong_bucket" ELSE fault)
  BY DEF TakeOut
<1>2. /\ next \in [Addr -> Node \cup {Null}] /\ prev \in [Addr -> Addr \cup {Null}]
      /\ n \in Addr /\ b \in Addr /\ Node \subseteq Addr
  BY DEF TypeOK, Addr
<1>3. next[n] \in Node \cup {Null} /\ OrHead(prev[n], b) \in Addr /\ OrHead(next[n], b) \in Addr
  BY <1>2 DEF OrHead
<1>4. /\ next' = [next EXCEPT ![OrHead(prev[n], b)] = next[n]]
      /\ prev' = [prev EXCEPT ![OrHead(next[n], b)] = OrHead(prev[n], b)]
  BY DEF TakeOut, Unlink
<1>5. next' \in [Addr -> Node \cup {Null}] /\ prev' \in [Addr -> Addr \cup {Null}]
  BY <1>2, <1>3, <1>4
<1>6. life' \in [Node -> Life] /\ must' \in [Proc -> SUBSET Node]
  BY <1>1 DEF TypeOK, Life
<1>7. fault' \in Fault
  BY <1>1 DEF TypeOK, Fault
<1> QED  BY <1>1, <1>5, <1>6, <1>7

\* A delete by reference: the slot it names is checked before the node it points to is
\* looked at, and only a node that is still in its list is taken out by a live process.
LEMMA RefDeleteInv ==
  ASSUME Inv, NEW p \in Proc,
         \/ \E n \in Node : DeleteByRef(p, n)
         \/ RefDeref(p) \/ RefUnlink(p) \/ RefSubmit(p) \/ RefPush(p)
  PROVE  Inv'
<1>0. TypeOK /\ LocalOK /\ SlotInv /\ fault = "none"
  BY DEF Inv, DeleteByRef, RefDeref, RefUnlink, RefSubmit, RefPush, Up
<1>1. ASSUME NEW n \in Node, DeleteByRef(p, n)  PROVE Inv'
  <2>1. /\ pc[p] \in {"idle", "scan"} /\ pc' = [pc EXCEPT ![p] = "ref_deref"]
        /\ idx' = [idx EXCEPT ![p] = index[n]]
        /\ UNCHANGED <<smagic, snode, free_q, magic_no, active, table, next, prev, index, key,
                       ref, life, home, how, held, bkt, at, anchor, seen, must, wait, fault>>
    BY <1>1 DEF DeleteByRef, shared, slotVars, tableVars, listVars, linkVars, nodeVars
  <2>2. TypeOK'
    <3>1. pc' \in [Proc -> Pc] /\ idx' \in [Proc -> Slot]
      BY <1>0, <2>1 DEF TypeOK, Pc, RefPc
    <3> QED  BY <1>0, <2>1, <3>1 DEF TypeOK
  <2>3. LocalOK'
    BY <1>0, <2>1 DEF LocalOK, TypeOK, AppendPc, RefHeldPc, NodePc
  <2>4. Quiet(p)
    <3>1. /\ pc'[p] = "ref_deref" /\ ~Gives(p)
          /\ \A q \in Proc : q # p => pc'[q] = pc[q] /\ idx'[q] = idx[q]
      BY <1>0, <2>1 DEF TypeOK, Gives
    <3> QED  BY <2>1, <3>1, IdleQuiet
  <2> QED  BY <1>0, <2>2, <2>3, <2>4, QuietInv DEF Inv
<1>2. CASE RefDeref(p)
  <2>1. UNCHANGED <<smagic, snode, free_q, magic_no, active, table, next, prev, index, key, ref,
                    life, home, how, idx, at, anchor, seen, must, wait>>
    BY <1>2 DEF RefDeref, shared, slotVars, tableVars, listVars, linkVars, nodeVars, procVars
  <2>2. CASE snode[idx[p]] = Null
    <3>1. fault' = "null_link" /\ UNCHANGED <<pc, held, bkt>>
      BY <1>2, <2>2 DEF RefDeref, procVars
    <3>2. TypeOK'
      BY <1>0, <2>1, <3>1 DEF TypeOK, Fault
    <3>3. LocalOK'
      BY <1>0, <2>1, <3>1 DEF LocalOK
    <3> QED  BY <3>1, <3>2, <3>3 DEF Inv
  <2>3. ASSUME NEW n \in Node, n = snode[idx[p]], n # Null  PROVE Inv'
    <3>1. /\ pc[p] = "ref_deref" /\ pc' = [pc EXCEPT ![p] = "ref_lock"]
          /\ held' = [held EXCEPT ![p] = n] /\ bkt' = [bkt EXCEPT ![p] = key[n]]
          /\ fault' = fault
      BY <1>2, <2>3 DEF RefDeref, Step
    <3>2. TypeOK'
      <4>1. /\ pc' \in [Proc -> Pc] /\ held' \in [Proc -> Node \cup {Null}]
            /\ bkt' \in [Proc -> Bucket]
        BY <1>0, <3>1 DEF TypeOK, Pc, RefPc
      <4> QED  BY <1>0, <2>1, <3>1, <4>1 DEF TypeOK
    <3>3. /\ \A q \in Proc : pc'[q] = IF q = p THEN "ref_lock" ELSE pc[q]
          /\ \A q \in Proc : held'[q] = IF q = p THEN n ELSE held[q]
      BY <1>0, <3>1 DEF TypeOK
    <3>4. LocalOK'
      BY <1>0, <2>1, <3>3 DEF LocalOK, TypeOK, AppendPc, RefHeldPc, NodePc
    <3>5. index[n] = idx[p] /\ Filled(n)
      BY <1>0, <2>3 DEF SlotInv, Named, TypeOK
    <3>6. Quiet(p)
      <4>1. Filled(held'[p])
        BY <3>3, <3>5 DEF Filled
      <4> QED  BY <2>1, <3>1, <3>3, <3>5, <4>1 DEF Quiet, Gives
    <3> QED  BY <1>0, <3>2, <3>4, <3>6, QuietInv DEF Inv
  <2>4. snode[idx[p]] \in Node \cup {Null} /\ Null \notin Node
    BY <1>0, McHashAssumption DEF TypeOK
  <2> QED  BY <2>2, <2>3, <2>4
<1>3. CASE RefUnlink(p)
  <2>1. pc[p] = "ref_lock"
    BY <1>3 DEF RefUnlink
  <2>2. CASE smagic[idx[p]] = 0
    <3>1. /\ Return(p) /\ EndRead(p)
          /\ UNCHANGED <<smagic, snode, free_q, magic_no, active, table, next, prev, index, key,
                         ref, life, home, must, fault>>
      BY <1>3, <2>2 DEF RefUnlink, shared, slotVars, tableVars, listVars, linkVars, nodeVars
    <3>2. TypeOK'
      <4>1. wait' \in [Node -> SUBSET Proc]
        BY <1>0, <3>1, EndReadType
      <4> QED  BY <1>0, <3>1, <4>1, ReturnFacts DEF TypeOK
    <3>3. Quiet(p) /\ LocalOK'
      BY <1>0, <2>1, <3>1, ReturnQuiet DEF Gives
    <3> QED  BY <1>0, <3>2, <3>3, QuietInv DEF Inv
  <2>3. ASSUME NEW n \in Node, NEW t \in Slot, n = held[p], t = idx[p], smagic[t] # 0
        PROVE  Inv'
    <3>1. /\ pc' = [pc EXCEPT ![p] = "ref_submit"] /\ smagic' = [smagic EXCEPT ![t] = 0]
          /\ TakeOut(n, bkt[p], "ref_unlink")
          /\ UNCHANGED <<snode, free_q, magic_no, active, table, index, key, ref, home, how,
                         held, idx, bkt, at, anchor, seen, wait>>
      BY <1>3, <2>3 DEF RefUnlink, Step, ResetMagic, tableVars, linkVars
    <3>2. /\ next' \in [Addr -> Node \cup {Null}] /\ prev' \in [Addr -> Addr \cup {Null}]
          /\ life' \in [Node -> Life] /\ life' = [life EXCEPT ![n] = "out"]
          /\ must' \in [Proc -> SUBSET Node]
          /\ fault' = (IF ~Linked(n) THEN "ref_unlink"
                       ELSE IF bkt[p] # home[n] THEN "wrong_bucket" ELSE fault)
          /\ fault' \in Fault
      <4>1. bkt[p] \in Bucket
        BY <1>0 DEF TypeOK
      <4> QED  BY <1>0, <3>1, <4>1, TakeOutFacts
    <3>3. TypeOK'
      <4>1. pc' \in [Proc -> Pc] /\ smagic' \in [Slot -> Nat]
        BY <1>0, <3>1 DEF TypeOK, Pc, RefPc
      <4> QED  BY <1>0, <3>1, <3>2, <4>1 DEF TypeOK
    <3>4. LocalOK'
      BY <1>0, <2>1, <3>1 DEF LocalOK, TypeOK, AppendPc, RefHeldPc, NodePc
    <3>5. ASSUME Linked(n)  PROVE SlotInv'
      <4>1. index[n] = t /\ Filled(n)
        BY <1>0, <2>1, <2>3 DEF SlotInv, DeleteOK, RefHeldPc
      <4>2. snode[t] = n
        BY <1>0, <3>5, <4>1 DEF SlotInv, Resolves, Linked, Owned
      <4> QED  BY <1>0, <2>1, <2>3, <3>1, <3>2, <3>5, <4>2, TakeOutInv
    <3> QED  BY <3>2, <3>3, <3>4, <3>5 DEF Inv
  <2>4. held[p] \in Node /\ idx[p] \in Slot
    BY <1>0, <2>1 DEF LocalOK, TypeOK, RefHeldPc
  <2> QED  BY <2>2, <2>3, <2>4
<1>4. CASE RefSubmit(p)
  <2> PICK n : n = held[p]
    OBVIOUS
  <2>1. /\ pc[p] = "ref_submit" /\ pc' = [pc EXCEPT ![p] = "ref_clear"]
        /\ CallRcu(n)
        /\ UNCHANGED <<smagic, snode, free_q, magic_no, active, table, next, prev, index, key,
                       ref, home, how, held, idx, bkt, at, anchor, seen, must, fault>>
    BY <1>4 DEF RefSubmit, Step, slotVars, tableVars, listVars, linkVars
  <2>2. n \in Node /\ life[n] \in Removed
    BY <1>0, <2>1 DEF LocalOK, RefHeldPc, SlotInv, DeleteOK
  <2>3. /\ life' \in [Node -> Life] /\ wait' \in [Node -> SUBSET Proc]
        /\ \A m \in Node : life'[m] = IF m = n THEN "rcu" ELSE life[m]
    BY <1>0, <2>1, <2>2, CallRcuFacts
  <2>4. TypeOK'
    <3>1. pc' \in [Proc -> Pc]
      BY <1>0, <2>1 DEF TypeOK, Pc, RefPc
    <3> QED  BY <1>0, <2>1, <2>3, <3>1 DEF TypeOK
  <2>5. LocalOK'
    BY <1>0, <2>1 DEF LocalOK, TypeOK, AppendPc, RefHeldPc, NodePc
  <2>6. Quiet(p)
    <3>1. \A q \in Proc : pc'[q] = IF q = p THEN "ref_clear" ELSE pc[q]
      BY <1>0, <2>1 DEF TypeOK
    <3>2. /\ index[held[p]] = idx[p] /\ Filled(held[p]) /\ snode[idx[p]] = held[p]
          /\ smagic[idx[p]] = 0
      BY <1>0, <2>1 DEF SlotInv, DeleteOK, RefHeldPc
    <3>3. Filled(held'[p])
      BY <2>1, <3>2 DEF Filled
    <3>4. \A m \in Node : life'[m] # life[m] => life[m] \in Removed /\ life'[m] \in Removed
      BY <2>2, <2>3 DEF Removed
    <3> QED  BY <2>1, <2>2, <3>1, <3>2, <3>3, <3>4 DEF Quiet, Gives
  <2> QED  BY <1>0, <2>1, <2>4, <2>5, <2>6, QuietInv DEF Inv
<1>5. CASE RefPush(p)
  <2>1. /\ pc[p] = "ref_push" /\ PushSlot(p) /\ Return(p) /\ EndRead(p)
        /\ UNCHANGED <<smagic, snode, magic_no, table, next, prev, index, key, ref, life, home,
                       must, fault>>
    BY <1>5 DEF RefPush, slotVars, listVars, linkVars, nodeVars
  <2>2. /\ pc'[p] \in {"idle", "scan"} /\ at' = at
        /\ (pc'[p] = "scan" => at[p] # Null)
        /\ \A q \in Proc : q # p => /\ pc'[q] = pc[q] /\ how'[q] = how[q] /\ held'[q] = held[q]
                                    /\ idx'[q] = idx[q] /\ anchor'[q] = anchor[q]
    BY <1>0, <2>1, ReturnFacts
  <2>3. SlotInv' /\ free_q' \in Seq(Slot) /\ active' \in Nat
    <3>1. idx[p] \in Slot
      BY <1>0 DEF TypeOK
    <3> QED  BY <1>0, <2>1, <2>2, <3>1, PushSlotInv
  <2>4. TypeOK'
    <3>1. wait' \in [Node -> SUBSET Proc]
      BY <1>0, <2>1, EndReadType
    <3> QED  BY <1>0, <2>1, <2>3, <3>1, ReturnFacts DEF TypeOK
  <2>5. LocalOK'
    BY <1>0, <2>2 DEF LocalOK, AppendPc, RefHeldPc, NodePc
  <2> QED  BY <2>3, <2>4, <2>5 DEF Inv
<1> QED  BY <1>1, <1>2, <1>3, <1>4, <1>5

\* A delete by node: the slot is compared with the node under the bucket lock.
LEMMA NodeDeleteInv ==
  ASSUME Inv, NEW p \in Proc,
         DeleteNode(p) \/ NodeUnlink(p) \/ NodePush(p) \/ NodeSubmit(p)
  PROVE  Inv'
<1>0. TypeOK /\ LocalOK /\ SlotInv /\ fault = "none"
  BY DEF Inv, DeleteNode, NodeUnlink, NodePush, NodeSubmit, Up
<1>1. CASE DeleteNode(p)
  <2>1. /\ pc[p] = "scan" /\ pc' = [pc EXCEPT ![p] = "node_lock"] /\ at[p] \in Node
        /\ held' = [held EXCEPT ![p] = at[p]] /\ idx' = [idx EXCEPT ![p] = index[at[p]]]
        /\ bkt' = [bkt EXCEPT ![p] = key[at[p]]]
        /\ UNCHANGED <<smagic, snode, free_q, magic_no, active, table, next, prev, index, key,
                       ref, life, home, how, at, anchor, seen, must, wait, fault>>
    BY <1>1 DEF DeleteNode, Step, shared, slotVars, tableVars, listVars, linkVars, nodeVars
  <2>2. TypeOK'
    <3>1. /\ pc' \in [Proc -> Pc] /\ held' \in [Proc -> Node \cup {Null}]
          /\ idx' \in [Proc -> Slot] /\ bkt' \in [Proc -> Bucket]
      BY <1>0, <2>1 DEF TypeOK, Pc, NodePc
    <3> QED  BY <1>0, <2>1, <3>1 DEF TypeOK
  <2>3. LocalOK'
    BY <1>0, <2>1 DEF LocalOK, TypeOK, AppendPc, RefHeldPc, NodePc
  <2>4. Quiet(p)
    <3>1. /\ pc'[p] = "node_lock" /\ ~Gives(p)
          /\ \A q \in Proc : q # p => pc'[q] = pc[q] /\ idx'[q] = idx[q] /\ held'[q] = held[q]
      BY <1>0, <2>1 DEF TypeOK, Gives
    <3> QED  BY <2>1, <3>1, IdleQuiet
  <2> QED  BY <1>0, <2>2, <2>3, <2>4, QuietInv DEF Inv
<1>2. CASE NodeUnlink(p)
  <2>1. pc[p] = "node_lock"
    BY <1>2 DEF NodeUnlink
  <2>2. CASE ~HoldsNode(p)
    <3>1. /\ Return(p) /\ EndRead(p)
          /\ UNCHANGED <<smagic, snode, free_q, magic_no, active, table, next, prev, index, key,
                         ref, life, home, must, fault>>
      BY <1>2, <2>2 DEF NodeUnlink, shared, slotVars, tableVars, listVars, linkVars, nodeVars
    <3>2. TypeOK'
      <4>1. wait' \in [Node -> SUBSET Proc]
        BY <1>0, <3>1, EndReadType
      <4> QED  BY <1>0, <3>1, <4>1, ReturnFacts DEF TypeOK
    <3>3. Quiet(p) /\ LocalOK'
      BY <1>0, <2>1, <3>1, ReturnQuiet DEF Gives
    <3> QED  BY <1>0, <3>2, <3>3, QuietInv DEF Inv
  <2>3. ASSUME NEW n \in Node, NEW t \in Slot, n = held[p], t = idx[p], snode[t] = n
        PROVE  Inv'
    <3>1. /\ pc' = [pc EXCEPT ![p] = "node_push"] /\ smagic' = [smagic EXCEPT ![t] = 0]
          /\ snode' = [snode EXCEPT ![t] = Null]
          /\ TakeOut(n, bkt[p], "node_unlink")
          /\ UNCHANGED <<free_q, magic_no, active, table, index, key, ref, home, how,
                         held, idx, bkt, at, anchor, seen, wait>>
      BY <1>2, <2>3 DEF NodeUnlink, HoldsNode, Step, ResetMagic, tableVars, linkVars
    <3>2. /\ next' \in [Addr -> Node \cup {Null}] /\ prev' \in [Addr -> Addr \cup {Null}]
          /\ life' \in [Node -> Life] /\ life' = [life EXCEPT ![n] = "out"]
          /\ must' \in [Proc -> SUBSET Node]
          /\ fault' = (IF ~Linked(n) THEN "node_unlink"
                       ELSE IF bkt[p] # home[n] THEN "wrong_bucket" ELSE fault)
          /\ fault' \in Fault
      <4>1. bkt[p] \in Bucket
        BY <1>0 DEF TypeOK
      <4> QED  BY <1>0, <3>1, <4>1, TakeOutFacts
    <3>3. TypeOK'
      <4>1. pc' \in [Proc -> Pc] /\ smagic' \in [Slot -> Nat] /\ snode' \in [Slot -> Node \cup {Null}]
        BY <1>0, <3>1 DEF TypeOK, Pc, NodePc
      <4> QED  BY <1>0, <3>1, <3>2, <4>1 DEF TypeOK
    <3>4. LocalOK'
      BY <1>0, <2>1, <3>1 DEF LocalOK, TypeOK, AppendPc, RefHeldPc, NodePc
    <3>5. ASSUME Linked(n)  PROVE SlotInv'
      BY <1>0, <2>1, <2>3, <3>1, <3>2, <3>5, TakeOutInv
    <3> QED  BY <3>2, <3>3, <3>4, <3>5 DEF Inv
  <2>4. held[p] \in Node /\ idx[p] \in Slot
    BY <1>0, <2>1 DEF LocalOK, TypeOK, NodePc
  <2> QED  BY <2>2, <2>3, <2>4 DEF HoldsNode
<1>3. CASE NodePush(p)
  <2>1. /\ pc[p] = "node_push" /\ pc' = [pc EXCEPT ![p] = "node_submit"] /\ PushSlot(p)
        /\ UNCHANGED <<smagic, snode, magic_no, table, next, prev, index, key, ref, life, home,
                       how, held, idx, bkt, at, anchor, seen, must, wait, fault>>
    BY <1>3 DEF NodePush, Step, slotVars, listVars, linkVars, nodeVars
  <2>2. \A q \in Proc : pc'[q] = IF q = p THEN "node_submit" ELSE pc[q]
    BY <1>0, <2>1 DEF TypeOK
  <2>3. SlotInv' /\ free_q' \in Seq(Slot) /\ active' \in Nat
    <3>1. idx[p] \in Slot
      BY <1>0 DEF TypeOK
    <3> QED  BY <1>0, <2>1, <2>2, <3>1, PushSlotInv
  <2>4. TypeOK'
    <3>1. pc' \in [Proc -> Pc]
      BY <1>0, <2>1 DEF TypeOK, Pc, NodePc
    <3> QED  BY <1>0, <2>1, <2>3, <3>1 DEF TypeOK
  <2>5. LocalOK'
    BY <1>0, <2>1, <2>2 DEF LocalOK, AppendPc, RefHeldPc, NodePc
  <2> QED  BY <2>3, <2>4, <2>5 DEF Inv
<1>4. CASE NodeSubmit(p)
  <2> PICK n : n = held[p]
    OBVIOUS
  <2>1. /\ pc[p] = "node_submit" /\ CallRcu(n) /\ Return(p)
        /\ UNCHANGED <<smagic, snode, free_q, magic_no, active, table, next, prev, index, key,
                       ref, home, must, fault>>
    BY <1>4 DEF NodeSubmit, Step, slotVars, tableVars, listVars, linkVars
  <2>2. n \in Node /\ life[n] \in Removed
    BY <1>0, <2>1 DEF LocalOK, NodePc, SlotInv, DeleteOK
  <2>3. /\ life' \in [Node -> Life] /\ wait' \in [Node -> SUBSET Proc]
        /\ \A m \in Node : life'[m] = IF m = n THEN "rcu" ELSE life[m]
    BY <1>0, <2>1, <2>2, CallRcuFacts
  <2>4. TypeOK'
    BY <1>0, <2>1, <2>3, ReturnFacts DEF TypeOK
  <2>5. Quiet(p) /\ LocalOK'
    <3>1. \A m \in Node : life'[m] # life[m] => life[m] \in Removed /\ life'[m] \in Removed
      BY <2>2, <2>3 DEF Removed
    <3> QED  BY <1>0, <2>1, <3>1, ReturnQuiet DEF Gives
  <2> QED  BY <1>0, <2>4, <2>5, QuietInv DEF Inv
<1> QED  BY <1>1, <1>2, <1>3, <1>4

\* What only moves a node that has no slot: an append that is refused, and a grace
\* period that ends.
LEMMA OutsideInv ==
  ASSUME Inv, fault = "none", NEW n \in Node,
         \/ life[n] = "new" /\ life' = [life EXCEPT ![n] = "freed"]
         \/ life[n] = "rcu" /\ life' = [life EXCEPT ![n] = "freed"],
         UNCHANGED <<slotVars, tableVars, listVars, linkVars, home, procVars, wait, fault>>
  PROVE  Inv'
<1>0. TypeOK /\ LocalOK /\ SlotInv
  BY DEF Inv
<1>1. /\ UNCHANGED <<smagic, snode, free_q, magic_no, active, table, next, prev, index, key, ref,
                     home, pc, how, held, idx, bkt, at, anchor, seen, must, wait, fault>>
      /\ life' \in [Node -> Life]
      /\ \A m \in Node : life'[m] = IF m = n THEN "freed" ELSE life[m]
  BY <1>0 DEF TypeOK, Life, slotVars, tableVars, listVars, linkVars, procVars
<1>2. TypeOK' /\ LocalOK'
  BY <1>0, <1>1 DEF TypeOK, LocalOK
<1>3. \A m : Filled(m) /\ m \in Node => Filled(m)'
  BY <1>1 DEF Filled
<1>4. \A m \in Node : /\ life'[m] \in Owned => life[m] \in Owned /\ Filled(m)' = Filled(m)
                      /\ life[m] \in Owned => life'[m] \in Owned
                      /\ life[m] \in Removed => life'[m] \in Removed
  <2>1. \A m \in Node : m # n => Filled(m)' = Filled(m)
    BY <1>1 DEF Filled
  <2> QED  BY <1>1, <2>1 DEF Owned, Removed
<1>5. AppendOK'
  BY <1>0, <1>1 DEF SlotInv, AppendOK, LocalOK, AppendPc
<1>6. Resolves'
  BY <1>0, <1>1, <1>4 DEF SlotInv, Resolves
<1>7. Named'
  BY <1>0, <1>1, <1>3 DEF SlotInv, Named, TypeOK
<1>8. DeleteOK'
  <2> SUFFICES ASSUME NEW q \in Proc
       PROVE /\ pc[q] \in RefHeldPc => index[held[q]] = idx[q] /\ Filled(held[q])'
             /\ pc[q] \in {"ref_submit", "ref_clear", "ref_push", "node_push", "node_submit"} =>
                  life'[held[q]] \in Removed
             /\ pc[q] \in {"ref_submit", "ref_clear"} => snode[idx[q]] = held[q]
             /\ pc[q] \in {"ref_push", "node_push"} => snode[idx[q]] = Null
             /\ pc[q] \in {"ref_submit", "ref_clear", "ref_push", "node_push"} => smagic[idx[q]] = 0
    BY <1>1 DEF DeleteOK, Filled
  <2>1. pc[q] \in RefHeldPc \cup NodePc => held[q] \in Node
    BY <1>0 DEF LocalOK
  <2>2. pc[q] \in RefHeldPc => Filled(held[q])'
    <3>1. ASSUME NEW m \in Node, m = held[q], Filled(m)
          PROVE  life'[m] # "new" /\ \A r \in Proc : pc'[r] = "fill" => held'[r] # m
      BY <3>1, <1>3 DEF Filled
    <3> QED  BY <1>0, <1>1, <2>1, <3>1 DEF SlotInv, DeleteOK, Filled
  <2>3. pc[q] \in {"ref_submit", "ref_clear", "ref_push", "node_push", "node_submit"} =>
          life'[held[q]] \in Removed
    BY <1>0, <1>4, <2>1 DEF SlotInv, DeleteOK, RefHeldPc, NodePc
  <2> QED  BY <1>0, <2>2, <2>3 DEF SlotInv, DeleteOK
<1>9. Partition'
  <2>1. \A s : FreeSlot(s)' <=> FreeSlot(s)
    BY <1>1 DEF FreeSlot
  <2>2. \A q : Gives(q)' <=> Gives(q)
    BY <1>1 DEF Gives
  <2>3. \A s \in Slot : snode[s] # Null => snode[s] \in Node
    BY <1>0 DEF TypeOK
  <2> QED  BY <1>0, <1>1, <1>4, <2>1, <2>2, <2>3 DEF SlotInv, Partition
<1> QED  BY <1>2, <1>5, <1>6, <1>7, <1>8, <1>9 DEF Inv, SlotInv

\* Every step keeps the invariant.
LEMMA NextInv == Inv /\ [Next]_vars => Inv'
<1> SUFFICES ASSUME Inv, [Next]_vars  PROVE Inv'
  OBVIOUS
<1>1. ASSUME NEW p \in Proc, NEW n \in Node, NEW b \in Bucket, AppendNode(p, n, b)  PROVE Inv'
  <2>1. fault = "none" /\ pc[p] = "idle" /\ TakeSlot(p, n, b, "append") /\ anchor' = anchor
    BY <1>1 DEF AppendNode, Up
  <2>2. anchor \in [Proc -> Node \cup {Null}]
    BY DEF Inv, TypeOK
  <2> QED  BY <2>1, <2>2, TakeSlotInv
<1>2. ASSUME NEW p \in Proc, NEW n \in Node, NEW k \in {"before", "after"}, InsertNode(p, n, k)
      PROVE  Inv'
  <2>1. /\ fault = "none" /\ pc[p] = "scan" /\ at[p] \in Node
        /\ TakeSlot(p, n, home[at[p]], k) /\ anchor' = [anchor EXCEPT ![p] = at[p]]
    BY <1>2 DEF InsertNode, Up
  <2>2. anchor \in [Proc -> Node \cup {Null}] /\ home[at[p]] \in Bucket
    BY <2>1 DEF Inv, TypeOK
  <2>3. /\ anchor' \in [Proc -> Node \cup {Null}] /\ anchor'[p] \in Node
        /\ \A q \in Proc : q # p => anchor'[q] = anchor[q]
    BY <2>1, <2>2
  <2> QED  BY <2>1, <2>2, <2>3, TakeSlotInv
<1>3. ASSUME NEW p \in Proc, FillSlot(p) \/ LinkNode(p) \/ KeyNode(p)  PROVE Inv'
  BY <1>3, FillSlotInv, AppendStepsInv
<1>4. ASSUME NEW p \in Proc,
             \/ \E b \in Bucket : ScanBegin(p, b)
             \/ ScanNext(p) \/ ScanEnd(p)
             \/ \E n \in Node : AccessNode(p, n)
             \/ AccessDeref(p) \/ AccessEnd(p)
      PROVE  Inv'
  BY <1>4, ReaderInv
<1>5. ASSUME NEW p \in Proc,
             \/ \E n \in Node : DeleteByRef(p, n)
             \/ RefDeref(p) \/ RefUnlink(p) \/ RefSubmit(p) \/ RefClear(p) \/ RefPush(p)
      PROVE  Inv'
  BY <1>5, RefDeleteInv, RefClearInv
<1>6. ASSUME NEW p \in Proc, DeleteNode(p) \/ NodeUnlink(p) \/ NodePush(p) \/ NodeSubmit(p)
      PROVE  Inv'
  BY <1>6, NodeDeleteInv
<1>7. ASSUME NEW p \in Proc, NEW n \in Node, AppendRefused(p, n)  PROVE Inv'
  BY <1>7, OutsideInv DEF AppendRefused, Up
<1>8. ASSUME NEW n \in Node, RcuFree(n)  PROVE Inv'
  BY <1>8, OutsideInv DEF RcuFree
<1>9. ASSUME TableDelete \/ UNCHANGED vars  PROVE Inv'
  <2>1. /\ UNCHANGED <<smagic, snode, free_q, magic_no, active, next, prev, index, key, ref,
                       life, home, pc, how, held, idx, bkt, at, anchor, seen, must, wait, fault>>
        /\ table' \in {table, "deleted"}
    BY <1>9 DEF TableDelete, vars, shared, slotVars, tableVars, listVars, linkVars, nodeVars, procVars
  <2>2. TypeOK' /\ LocalOK'
    BY <2>1 DEF Inv, TypeOK, LocalOK
  <2>3. AppendOK' <=> AppendOK
    BY <2>1 DEF AppendOK
  <2>4. (\A m : Filled(m)' <=> Filled(m)) /\ (\A q : Gives(q)' <=> Gives(q)) /\ (\A s : FreeSlot(s)' <=> FreeSlot(s))
    BY <2>1 DEF Filled, Gives, FreeSlot
  <2>5. (Resolves' <=> Resolves) /\ (Named' <=> Named) /\ (DeleteOK' <=> DeleteOK)
    BY <2>1 DEF Resolves, Named, DeleteOK, Filled
  <2>6. Partition' <=> Partition
    BY <2>1, <2>4 DEF Partition
  <2> QED  BY <2>1, <2>2, <2>3, <2>5, <2>6 DEF Inv, SlotInv
<1> QED
  BY <1>1, <1>2, <1>3, <1>4, <1>5, <1>6, <1>7, <1>8, <1>9 DEF Next, Begin, Proceed

-----------------------------------------------------------------------------
(* The theorems.                                                            *)

\* The invariant holds of every table, whoever uses it, until a fault.
THEOREM McHashInvariant == Spec => []Inv
BY InitInv, NextInv, PTL DEF Spec

\* Every variable has its type, whatever happens.
THEOREM TypeCorrect == Spec => []TypeOK
<1>1. Inv => TypeOK
  BY DEF Inv
<1> QED  BY <1>1, McHashInvariant, PTL

\* Until something has gone wrong a slot has one owner, and active_nodes counts the slots
\* that are not in the free queue: for any number of buckets and of deleters of both kinds.
THEOREM SlotsConservedAlive == Spec => []SlotsConserved
BY McHashInvariant, InvConserved, PTL

\* Until then the reference of a node in the table leads to that node, however the deletes
\* race and however often the slots are reused.
THEOREM RefResolvesAlive == Spec => []RefResolves
BY McHashInvariant, InvResolves, PTL
=============================================================================
