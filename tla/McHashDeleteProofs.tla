------------------------- MODULE McHashDeleteProofs -------------------------
(***************************************************************************)
(* The deletes of a hash table and the RCU readers that race with them: when *)
(* a stale reference is dead, why a delete by node is never the first to      *)
(* unlink a node twice, why no thread keeps a pointer to a node that has been *)
(* freed, what the lists hold, and why a scan misses nothing.                 *)
(***************************************************************************)
EXTENDS McHashProofs, WellFoundedInduction

\* Fewer appends than magic numbers: magic_no does not wrap.
NoWrap == IsFiniteSet(Node) /\ Cardinality(Node) < MagicMod

-----------------------------------------------------------------------------
(* Magic numbers that do not wrap.                                          *)

Appended == {n \in Node : life[n] # "new"}

\* While there are nodes to append, every magic number in use is below the next one.
MagicInv ==
  /\ \A n \in Node : life[n] = "new" => ref[n] = 0
  /\ StaleRefDead
  /\ \A n \in Node : life[n] = "new" =>
       /\ magic_no <= Cardinality(Appended) + 1
       /\ \A s \in Slot : smagic[s] < magic_no
       /\ \A m \in Node : ref[m] < magic_no

\* The step of p that takes its node out of the list of its bucket.
Takes(p) ==
  \/ RefUnlink(p) /\ smagic[idx[p]] # 0
  \/ NodeUnlink(p) /\ HoldsNode(p)

\* What a step does to the slots, the links and the states of the nodes.
LEMMA StepKinds ==
  ASSUME Inv, [Next]_vars
  PROVE  \/ \E p \in Proc, n \in Node, b \in Bucket : AppendNode(p, n, b)
         \/ \E p \in Proc, n \in Node, k \in {"before", "after"} : InsertNode(p, n, k)
         \/ \E p \in Proc : FillSlot(p) \/ LinkNode(p) \/ KeyNode(p)
         \/ \E p \in Proc : Takes(p)
         \/ \E p \in Proc : RefSubmit(p) \/ NodeSubmit(p)
         \/ \E n \in Node : RcuFree(n)
         \/ \E p \in Proc, n \in Node : AppendRefused(p, n)
         \/ UNCHANGED <<smagic, magic_no, index, ref, life, next, prev, key, home>>
<1>1. ASSUME NEW p \in Proc, RefUnlink(p) \/ NodeUnlink(p)
      PROVE  Takes(p) \/ UNCHANGED <<smagic, magic_no, index, ref, life, next, prev, key, home>>
  BY <1>1 DEF RefUnlink, NodeUnlink, Takes, shared, slotVars, tableVars, listVars, linkVars, nodeVars
<1>2. ASSUME NEW p \in Proc,
             \/ \E b \in Bucket : ScanBegin(p, b)
             \/ ScanNext(p) \/ ScanEnd(p)
             \/ \E n \in Node : AccessNode(p, n) \/ DeleteByRef(p, n)
             \/ AccessDeref(p) \/ AccessEnd(p) \/ RefDeref(p) \/ DeleteNode(p)
      PROVE  UNCHANGED <<smagic, magic_no, index, ref, life, next, prev, key, home>>
  BY <1>2 DEF ScanBegin, ScanNext, ScanEnd, AccessNode, DeleteByRef, AccessDeref, AccessEnd,
     RefDeref, DeleteNode, shared, slotVars, tableVars, listVars, linkVars, nodeVars
<1>3. ASSUME NEW p \in Proc, RefClear(p) \/ RefPush(p) \/ NodePush(p)
      PROVE  UNCHANGED <<smagic, magic_no, index, ref, life, next, prev, key, home>>
  BY <1>3 DEF RefClear, RefPush, NodePush, slotVars, tableVars, listVars, linkVars, nodeVars
<1>4. ASSUME TableDelete \/ UNCHANGED vars
      PROVE  UNCHANGED <<smagic, magic_no, index, ref, life, next, prev, key, home>>
  BY <1>4 DEF TableDelete, vars, shared, slotVars, tableVars, listVars, linkVars, nodeVars
<1> QED  BY <1>1, <1>2, <1>3, <1>4 DEF Next, Begin, Proceed

\* Appended nodes are counted, and none is forgotten.
LEMMA AppendedGrows ==
  ASSUME NoWrap, TypeOK, TypeOK', \A n \in Node : life'[n] = "new" => life[n] = "new"
  PROVE  /\ Cardinality(Appended) \in Nat /\ Cardinality(Appended') \in Nat
         /\ Cardinality(Appended) <= Cardinality(Appended')
         /\ \A n \in Node : life[n] = "new" => Cardinality(Appended) < Cardinality(Node)
         /\ \A n \in Node : life[n] = "new" /\ life'[n] # "new" =>
              Cardinality(Appended) + 1 <= Cardinality(Appended')
<1>1. Appended \subseteq Node /\ Appended' \subseteq Node /\ Appended \subseteq Appended'
  BY DEF Appended
<1>2. IsFiniteSet(Node) /\ IsFiniteSet(Appended) /\ IsFiniteSet(Appended')
  BY <1>1, FS_Subset DEF NoWrap
<1>3. /\ Cardinality(Node) \in Nat /\ Cardinality(Appended) \in Nat
      /\ Cardinality(Appended') \in Nat
  BY <1>2, FS_CardinalityType
<1>4. Cardinality(Appended) <= Cardinality(Appended')
  BY <1>1, <1>2, FS_Subset
<1>5. ASSUME NEW n \in Node, life[n] = "new"  PROVE Cardinality(Appended) < Cardinality(Node)
  <2>1. n \notin Appended
    BY <1>5 DEF Appended
  <2>2. Appended # Node
    BY <2>1
  <2>3. Cardinality(Appended) <= Cardinality(Node) /\ Cardinality(Appended) # Cardinality(Node)
    BY <1>1, <1>2, <2>2, FS_Subset
  <2> QED  BY <1>3, <2>3
<1>6. ASSUME NEW n \in Node, life[n] = "new", life'[n] # "new"
      PROVE  Cardinality(Appended) + 1 <= Cardinality(Appended')
  <2>1. n \notin Appended /\ n \in Appended'
    BY <1>6 DEF Appended
  <2>2. Cardinality(Appended \cup {n}) = Cardinality(Appended) + 1
    BY <1>2, <2>1, FS_AddElement
  <2>3. Appended \cup {n} \subseteq Appended'
    BY <1>1, <2>1
  <2> QED  BY <1>2, <2>2, <2>3, FS_Subset
<1> QED  BY <1>3, <1>4, <1>5, <1>6

\* A step that leaves the magic numbers and the references alone.
LEMMA MagicFrame ==
  ASSUME NoWrap, TypeOK, TypeOK', MagicInv,
         UNCHANGED <<smagic, magic_no, index, ref>>,
         \A n \in Node : /\ life'[n] = "new" => life[n] = "new"
                         /\ life'[n] \in Removed => life[n] \in Removed \cup {"new"}
  PROVE  MagicInv'
<1>1. StaleRefDead'
  BY DEF MagicInv, StaleRefDead, Removed
<1>2. /\ magic_no \in Nat /\ Cardinality(Appended) \in Nat /\ Cardinality(Appended') \in Nat
      /\ Cardinality(Appended) <= Cardinality(Appended')
  BY AppendedGrows DEF TypeOK
<1>3. ASSUME NEW n \in Node, life'[n] = "new"  PROVE magic_no <= Cardinality(Appended') + 1
  <2>1. magic_no <= Cardinality(Appended) + 1
    BY <1>3 DEF MagicInv
  <2> QED  BY <1>2, <2>1
<1> QED  BY <1>1, <1>3 DEF MagicInv

\* The table section of an append hands out a number above all the others.
LEMMA MagicTakeSlot ==
  ASSUME NoWrap, Inv, fault = "none", TypeOK', MagicInv, NEW p \in Proc, NEW n \in Node,
         NEW b \in Bucket, NEW k, TakeSlot(p, n, b, k)
  PROVE  MagicInv'
<1> PICK t : t = Head(free_q)
  OBVIOUS
<1>1. /\ life[n] = "new" /\ life' = [life EXCEPT ![n] = "slot"]
      /\ smagic' = [smagic EXCEPT ![t] = magic_no] /\ magic_no' = NextMagic(magic_no)
      /\ UNCHANGED <<index, ref>>
  BY DEF TakeSlot, linkVars
<1>2. /\ TypeOK /\ magic_no \in Nat /\ MagicMod \in Nat /\ Cardinality(Node) < MagicMod
      /\ IsFiniteSet(Node) /\ Cardinality(Node) \in Nat
      /\ magic_no <= Cardinality(Appended) + 1
      /\ \A s \in Slot : smagic[s] < magic_no /\ smagic[s] \in Nat /\ smagic'[s] \in {smagic[s], magic_no}
      /\ \A m \in Node : ref[m] < magic_no /\ ref[m] \in Nat /\ index[m] \in Slot
  BY <1>1, McHashAssumption, FS_CardinalityType DEF Inv, TypeOK, MagicInv, NoWrap
<1>3. \A m \in Node : /\ life'[m] = IF m = n THEN "slot" ELSE life[m]
  BY <1>1, <1>2 DEF TypeOK
<1>4. StaleRefDead'
  <2> SUFFICES ASSUME NEW m \in Node, life'[m] \in {"out", "rcu", "freed"}, ref[m] # 0
               PROVE  smagic'[index[m]] # ref[m]
    BY <1>1 DEF StaleRefDead
  <2>1. smagic[index[m]] # ref[m]
    BY <1>3 DEF MagicInv, StaleRefDead
  <2> QED  BY <1>2, <2>1
<1>5. ASSUME NEW m \in Node, life'[m] = "new"
      PROVE  /\ magic_no' <= Cardinality(Appended') + 1
             /\ \A s \in Slot : smagic'[s] < magic_no'
             /\ \A r \in Node : ref[r] < magic_no'
  <2>1. /\ Cardinality(Appended) \in Nat /\ Cardinality(Appended') \in Nat
        /\ Cardinality(Appended) + 1 <= Cardinality(Appended')
    BY <1>1, <1>2, <1>3, AppendedGrows
  <2>2. Cardinality(Appended') < Cardinality(Node)
    <3>1. m \in Node /\ m \notin Appended' /\ Appended' \subseteq Node
      BY <1>5 DEF Appended
    <3>2. Cardinality(Appended') <= Cardinality(Node) /\ Cardinality(Appended') # Cardinality(Node)
      BY <1>2, <3>1, FS_Subset
    <3> QED  BY <1>2, <2>1, <3>2
  <2>3. magic_no + 1 < MagicMod
    BY <1>2, <2>1, <2>2
  <2>4. magic_no' = magic_no + 1
    <3>1. (magic_no + 1) % MagicMod = magic_no + 1
      BY <1>2, <2>3
    <3> QED  BY <1>1, <1>2, <3>1 DEF NextMagic
  <2>5. \A s \in Slot : smagic'[s] < magic_no'
    BY <1>2, <2>4
  <2>6. \A r \in Node : ref[r] < magic_no'
    BY <1>2, <2>4
  <2>7. magic_no' <= Cardinality(Appended') + 1
    BY <1>2, <2>1, <2>4
  <2> QED  BY <2>5, <2>6, <2>7
<1>6. \A m \in Node : life'[m] = "new" => ref[m] = 0
  BY <1>3 DEF MagicInv
<1> QED  BY <1>1, <1>4, <1>5, <1>6 DEF MagicInv

\* The slot of the node it holds is what a delete resets: before and after the lock.
LEMMA TakesFacts ==
  ASSUME Inv, NEW p \in Proc, Takes(p)
  PROVE  /\ fault = "none" /\ held[p] \in Node /\ idx[p] \in Slot
         /\ index[held[p]] = idx[p] /\ Filled(held[p])
         /\ pc[p] \in {"ref_lock", "node_lock"} /\ ~Locked(bkt[p])
         /\ smagic' = [smagic EXCEPT ![idx[p]] = 0]
         /\ life' = [life EXCEPT ![held[p]] = "out"]
         /\ Unlink(held[p], bkt[p])
         /\ pc' = [pc EXCEPT ![p] = IF pc[p] = "ref_lock" THEN "ref_submit" ELSE "node_push"]
         /\ pc[p] = "node_lock" => snode[idx[p]] = held[p]
         /\ fault' = IF ~Linked(held[p])
                     THEN IF pc[p] = "ref_lock" THEN "ref_unlink" ELSE "node_unlink"
                     ELSE IF bkt[p] # home[held[p]] THEN "wrong_bucket" ELSE "none"
         /\ fault' = "none" => Linked(held[p]) /\ bkt[p] = home[held[p]]
         /\ must' = [q \in Proc |-> must[q] \ {held[p]}]
         /\ UNCHANGED <<magic_no, index, ref, key, home, held, idx, bkt, at, anchor, how,
                        seen, wait, free_q, active>>
<1>1. TypeOK /\ LocalOK /\ fault = "none" /\ SlotInv
  BY DEF Takes, RefUnlink, NodeUnlink, Up, Inv
<1>2. CASE RefUnlink(p) /\ smagic[idx[p]] # 0
  <2>1. /\ pc[p] = "ref_lock" /\ ~Locked(bkt[p]) /\ Step(p, "ref_lock", "ref_submit")
        /\ ResetMagic(idx[p]) /\ TakeOut(held[p], bkt[p], "ref_unlink")
        /\ UNCHANGED <<snode, tableVars, linkVars, home, how, held, idx, bkt,
                       at, anchor, seen, wait>>
    BY <1>2 DEF RefUnlink
  <2>2. held[p] \in Node /\ idx[p] \in Slot /\ index[held[p]] = idx[p] /\ Filled(held[p])
    BY <1>1, <2>1 DEF LocalOK, TypeOK, SlotInv, DeleteOK, RefHeldPc
  <2> QED  BY <1>1, <2>1, <2>2 DEF Step, ResetMagic, TakeOut, tableVars, linkVars
<1>3. CASE NodeUnlink(p) /\ HoldsNode(p)
  <2>1. /\ pc[p] = "node_lock" /\ ~Locked(bkt[p]) /\ Step(p, "node_lock", "node_push")
        /\ ResetMagic(idx[p]) /\ TakeOut(held[p], bkt[p], "node_unlink")
        /\ UNCHANGED <<tableVars, linkVars, home, how, held, idx, bkt,
                       at, anchor, seen, wait>>
        /\ snode[idx[p]] = held[p]
    BY <1>3 DEF NodeUnlink, HoldsNode
  <2>2. held[p] \in Node /\ idx[p] \in Slot
    BY <1>1, <2>1 DEF LocalOK, TypeOK, NodePc
  <2>3. index[held[p]] = idx[p] /\ Filled(held[p])
    BY <1>1, <2>1, <2>2, McHashAssumption DEF SlotInv, Named
  <2> QED  BY <1>1, <2>1, <2>2, <2>3 DEF Step, ResetMagic, TakeOut, tableVars, linkVars
<1> QED  BY <1>2, <1>3 DEF Takes

\* Every step keeps the numbers apart.
LEMMA MagicNext ==
  ASSUME NoWrap, Inv, MagicInv, [Next]_vars
  PROVE  MagicInv'
<1>0. TypeOK /\ TypeOK'
  BY NextInv DEF Inv
<1>1. ASSUME NEW p \in Proc, NEW n \in Node, NEW b \in Bucket, AppendNode(p, n, b)
      PROVE  MagicInv'
  BY <1>0, <1>1, MagicTakeSlot DEF AppendNode, Up
<1>2. ASSUME NEW p \in Proc, NEW n \in Node, NEW k \in {"before", "after"}, InsertNode(p, n, k)
      PROVE  MagicInv'
  <2>1. home[at[p]] \in Bucket
    BY <1>0, <1>2 DEF InsertNode, TypeOK
  <2> QED  BY <1>0, <1>2, <2>1, MagicTakeSlot DEF InsertNode, Up
<1>3. ASSUME NEW p \in Proc, FillSlot(p)  PROVE MagicInv'
  <2> PICK n : n = held[p]
    OBVIOUS
  <2> PICK t : t = idx[p]
    OBVIOUS
  <2>1. /\ pc[p] = "fill" /\ fault = "none"
        /\ index' = [index EXCEPT ![n] = t] /\ ref' = [ref EXCEPT ![n] = smagic[t]]
        /\ UNCHANGED <<smagic, magic_no, life>>
    BY <1>3 DEF FillSlot, Step, Up, HandedMagic, tableVars, nodeVars
  <2>2. n \in Node /\ t \in Slot /\ life[n] = "slot"
    BY <1>0, <2>1 DEF Inv, LocalOK, TypeOK, AppendPc, SlotInv, AppendOK
  <2>3. \A m \in Node : m # n => ref'[m] = ref[m] /\ index'[m] = index[m]
    BY <1>0, <2>1, <2>2 DEF TypeOK
  <2>4. ref'[n] = smagic[t]
    BY <1>0, <2>1, <2>2 DEF TypeOK
  <2>5. \A m \in Node : life[m] # "slot" => m # n
    BY <2>2
  <2>6. StaleRefDead'
    BY <2>1, <2>3, <2>5 DEF MagicInv, StaleRefDead
  <2>7. Appended' = Appended
    BY <2>1 DEF Appended
  <2>8. \A m \in Node : life[m] = "new" => \A r \in Node : ref'[r] < magic_no
    BY <2>2, <2>3, <2>4 DEF MagicInv
  <2> QED  BY <2>1, <2>3, <2>5, <2>6, <2>7, <2>8 DEF MagicInv
<1>4. ASSUME NEW p \in Proc, LinkNode(p)  PROVE MagicInv'
  <2>1. /\ pc[p] = "link" /\ fault = "none" /\ life' = [life EXCEPT ![held[p]] = "linking"]
        /\ UNCHANGED <<smagic, magic_no, index, ref>>
    BY <1>4 DEF LinkNode, Step, Up, slotVars, tableVars, linkVars
  <2>2. \A m \in Node : life'[m] # life[m] => life'[m] = "linking"
    BY <1>0, <2>1 DEF TypeOK
  <2>3. \A m \in Node : /\ life'[m] = "new" => life[m] = "new"
                        /\ life'[m] \in Removed => life[m] \in Removed \cup {"new"}
    BY <2>2 DEF Removed
  <2> QED  BY <1>0, <2>1, <2>3, MagicFrame
<1>5. ASSUME NEW p \in Proc, KeyNode(p)  PROVE MagicInv'
  <2>1. /\ life' = IF life[held[p]] = "linking" THEN [life EXCEPT ![held[p]] = "in"] ELSE life
        /\ UNCHANGED <<smagic, magic_no, index, ref>>
    BY <1>5 DEF KeyNode, slotVars, tableVars
  <2>2. \A m \in Node : life'[m] # life[m] => life'[m] = "in"
    BY <1>0, <2>1 DEF TypeOK
  <2>3. \A m \in Node : /\ life'[m] = "new" => life[m] = "new"
                        /\ life'[m] \in Removed => life[m] \in Removed \cup {"new"}
    BY <2>2 DEF Removed
  <2> QED  BY <1>0, <2>1, <2>3, MagicFrame
<1>6. ASSUME NEW p \in Proc, Takes(p)  PROVE MagicInv'
  <2> PICK n : n = held[p]
    OBVIOUS
  <2>1. /\ n \in Node /\ idx[p] \in Slot /\ index[n] = idx[p] /\ life[n] # "new"
        /\ smagic' = [smagic EXCEPT ![idx[p]] = 0] /\ life' = [life EXCEPT ![n] = "out"]
        /\ UNCHANGED <<magic_no, index, ref>>
    BY <1>6, TakesFacts DEF Filled
  <2>2. /\ \A m \in Node : life'[m] = IF m = n THEN "out" ELSE life[m]
        /\ \A s \in Slot : smagic'[s] = IF s = idx[p] THEN 0 ELSE smagic[s]
        /\ \A m \in Node : index[m] \in Slot
        /\ \A s \in Slot : smagic[s] \in Nat
        /\ magic_no \in Nat
    BY <1>0, <2>1 DEF TypeOK
  <2>3. StaleRefDead'
    BY <2>1, <2>2 DEF MagicInv, StaleRefDead
  <2>4. Appended' = Appended
    BY <2>1, <2>2 DEF Appended
  <2>5. \A m \in Node : life'[m] = "new" => life[m] = "new"
    BY <2>2
  <2>6. \A m \in Node : life'[m] = "new" => \A s \in Slot : smagic'[s] < magic_no
    BY <2>2, <2>5 DEF MagicInv
  <2> QED  BY <2>1, <2>3, <2>4, <2>5, <2>6 DEF MagicInv
<1>7. ASSUME NEW p \in Proc, RefSubmit(p) \/ NodeSubmit(p)  PROVE MagicInv'
  <2>1. /\ fault = "none" /\ pc[p] \in {"ref_submit", "node_submit"}
        /\ life' = [life EXCEPT ![held[p]] = "rcu"] /\ UNCHANGED <<smagic, magic_no, index, ref>>
    BY <1>7 DEF RefSubmit, NodeSubmit, Step, Up, CallRcu, slotVars, tableVars, linkVars
  <2>2. life[held[p]] \in Removed
    BY <2>1 DEF Inv, SlotInv, DeleteOK
  <2>3. \A m \in Node : /\ life'[m] = "new" => life[m] = "new"
                        /\ life'[m] \in Removed => life[m] \in Removed \cup {"new"}
    BY <1>0, <2>1, <2>2 DEF TypeOK
  <2> QED  BY <1>0, <2>1, <2>3, MagicFrame
<1>8. ASSUME NEW n \in Node, RcuFree(n) \/ \E p \in Proc : AppendRefused(p, n)  PROVE MagicInv'
  <2>1. /\ life[n] \in {"rcu", "new"} /\ life' = [life EXCEPT ![n] = "freed"]
        /\ UNCHANGED <<smagic, magic_no, index, ref>>
    BY <1>8 DEF RcuFree, AppendRefused, slotVars, tableVars, linkVars
  <2>2. \A m \in Node : /\ life'[m] = "new" => life[m] = "new"
                        /\ life'[m] \in Removed => life[m] \in Removed \cup {"new"}
    BY <1>0, <2>1 DEF TypeOK, Removed
  <2> QED  BY <1>0, <2>1, <2>2, MagicFrame
<1>9. ASSUME UNCHANGED <<smagic, magic_no, index, ref, life>>  PROVE MagicInv'
  BY <1>9 DEF MagicInv, StaleRefDead, Appended
<1> QED  BY <1>1, <1>2, <1>3, <1>4, <1>5, <1>6, <1>7, <1>8, <1>9, StepKinds

\* The table as it is created: no node has been appended.
LEMMA MagicInit == Init => MagicInv
<1> SUFFICES ASSUME Init  PROVE MagicInv
  OBVIOUS
<1>1. Appended = {}
  BY DEF Init, Appended
<1>2. Cardinality(Appended) = 0
  BY <1>1, FS_EmptySet
<1> QED  BY <1>2 DEF Init, MagicInv, StaleRefDead

\* A reference to a node that has been taken out is dead however often its slot is
\* reused and whoever deletes, while magic_no has not wrapped.
THEOREM StaleReferencesDead ==
  ASSUME NoWrap
  PROVE  Spec => []StaleRefDead
<1>1. Init => MagicInv
  BY MagicInit
<1>2. Inv /\ MagicInv /\ [Next]_vars => MagicInv'
  BY MagicNext
<1>3. MagicInv => StaleRefDead
  BY DEF MagicInv
<1> QED  BY <1>1, <1>2, <1>3, McHashInvariant, PTL DEF Spec

-----------------------------------------------------------------------------
(* What a thread can come across.                                           *)

\* A node that has been in a list.
Shown(n) == life[n] \notin {"new", "slot"}

\* The links, the scans and the deletes by node lead to such nodes only.
SeenOK ==
  /\ \A a \in Addr : /\ next[a] \in Node => Shown(next[a])
                     /\ prev[a] \in Node => Shown(prev[a])
  /\ \A p \in Proc : /\ at[p] \in Node => Shown(at[p])
                     /\ anchor[p] \in Node => Shown(anchor[p])
                     /\ pc[p] = "node_lock" => Shown(held[p])

\* Where the local pointers of a thread come from.
LEMMA LocalMoves ==
  ASSUME Inv, [Next]_vars, NEW q \in Proc
  PROVE  /\ at'[q] \in Node => at'[q] = at[q] \/ (at[q] \in Addr /\ at'[q] = next[at[q]])
         /\ anchor'[q] \in Node => anchor'[q] \in {anchor[q], at[q]}
         /\ pc'[q] = "node_lock" =>
              \/ pc[q] = "node_lock" /\ held'[q] = held[q]
              \/ at[q] \in Node /\ held'[q] = at[q]
<1>0. TypeOK /\ LocalOK /\ Node \cap Bucket = {} /\ Null \notin Node
  BY McHashAssumption DEF Inv
<1> DEFINE Good == /\ at'[q] \in Node => at'[q] = at[q] \/ (at[q] \in Addr /\ at'[q] = next[at[q]])
                   /\ anchor'[q] \in Node => anchor'[q] \in {anchor[q], at[q]}
                   /\ pc'[q] = "node_lock" =>
                        \/ pc[q] = "node_lock" /\ held'[q] = held[q]
                        \/ at[q] \in Node /\ held'[q] = at[q]
<1>1. ASSUME NEW p \in Proc, Return(p)  PROVE Good
  <2>1. /\ at' = at /\ pc'[p] # "node_lock" /\ anchor'[p] = Null
        /\ \A r \in Proc : r # p => /\ pc'[r] = pc[r] /\ held'[r] = held[r]
                                    /\ anchor'[r] = anchor[r]
    <3>1. anchor'[p] = Null
      BY <1>0, <1>1 DEF Return, TypeOK
    <3> QED  BY <1>0, <1>1, <3>1, ReturnFacts
  <2> QED  BY <1>0, <2>1
<1>2. ASSUME NEW p \in Proc, NEW to, to # "node_lock",
             pc' = [pc EXCEPT ![p] = to], UNCHANGED <<at, anchor>>,
             \A r \in Proc : r # p => held'[r] = held[r]
      PROVE  Good
  <2>1. \A r \in Proc : pc'[r] = IF r = p THEN to ELSE pc[r]
    BY <1>0, <1>2 DEF TypeOK
  <2> QED  BY <1>2, <2>1
<1>3. ASSUME UNCHANGED <<pc, at, anchor, held>>  PROVE Good
  BY <1>3
<1>4. ASSUME NEW p \in Proc, NEW n \in Node, NEW b \in Bucket, AppendNode(p, n, b)  PROVE Good
  <2>1. /\ pc' = [pc EXCEPT ![p] = "fill"] /\ held' = [held EXCEPT ![p] = n]
        /\ UNCHANGED <<at, anchor>>
    BY <1>4 DEF AppendNode, TakeSlot
  <2> QED  BY <1>2, <2>1 DEF Inv, TypeOK
<1>5. ASSUME NEW p \in Proc, NEW n \in Node, NEW k \in {"before", "after"}, InsertNode(p, n, k)
      PROVE  Good
  <2>1. /\ pc' = [pc EXCEPT ![p] = "fill"] /\ held' = [held EXCEPT ![p] = n]
        /\ at' = at /\ anchor' = [anchor EXCEPT ![p] = at[p]]
    BY <1>5 DEF InsertNode, TakeSlot
  <2> QED  BY <1>0, <2>1 DEF TypeOK
<1>6. ASSUME NEW p \in Proc, FillSlot(p) \/ LinkNode(p)  PROVE Good
  BY <1>2, <1>6 DEF FillSlot, LinkNode, Step
<1>7. ASSUME NEW p \in Proc, KeyNode(p) \/ AccessEnd(p) \/ RefPush(p) \/ NodeSubmit(p)  PROVE Good
  BY <1>1, <1>7 DEF KeyNode, AccessEnd, RefPush, NodeSubmit
<1>8. ASSUME NEW p \in Proc, RefSubmit(p) \/ RefClear(p) \/ NodePush(p)  PROVE Good
  BY <1>2, <1>8 DEF RefSubmit, RefClear, NodePush, Step
<1>9. ASSUME NEW p \in Proc, RefUnlink(p) \/ NodeUnlink(p)  PROVE Good
  <2>1. CASE Return(p)
    BY <1>1, <2>1
  <2>2. CASE Takes(p)
    <3>1. /\ UNCHANGED <<at, anchor, held>>
          /\ pc' = [pc EXCEPT ![p] = IF pc[p] = "ref_lock" THEN "ref_submit" ELSE "node_push"]
      BY <2>2, TakesFacts
    <3> QED  BY <1>2, <3>1
  <2> QED  BY <1>9, <2>1, <2>2 DEF RefUnlink, NodeUnlink, Takes
<1>10. ASSUME NEW p \in Proc, \E b \in Bucket : ScanBegin(p, b)  PROVE Good
  <2>1. PICK b \in Bucket : pc' = [pc EXCEPT ![p] = "scan"] /\ at' = [at EXCEPT ![p] = b]
                            /\ UNCHANGED <<held, anchor>>
    BY <1>10 DEF ScanBegin, Step
  <2> QED  BY <1>0, <2>1 DEF TypeOK
<1>11. ASSUME NEW p \in Proc, ScanNext(p)  PROVE Good
  <2>1. /\ UNCHANGED <<pc, held, anchor>> /\ at' = [at EXCEPT ![p] = next[at[p]]]
        /\ at[p] \in Addr
    BY <1>0, <1>11 DEF ScanNext, LocalOK, TypeOK
  <2> QED  BY <1>0, <2>1 DEF TypeOK
<1>12. ASSUME NEW p \in Proc, ScanEnd(p)  PROVE Good
  <2>1. /\ pc' = [pc EXCEPT ![p] = "idle"] /\ at' = [at EXCEPT ![p] = Null]
        /\ UNCHANGED <<held, anchor>>
    BY <1>12 DEF ScanEnd, Step
  <2> QED  BY <1>0, <2>1 DEF TypeOK
<1>13. ASSUME NEW p \in Proc, NEW n \in Node, AccessNode(p, n) \/ DeleteByRef(p, n)  PROVE Good
  BY <1>2, <1>13 DEF AccessNode, DeleteByRef, Step
<1>14. ASSUME NEW p \in Proc, AccessDeref(p)  PROVE Good
  <2>1. /\ pc' = [pc EXCEPT ![p] = "hold"] /\ UNCHANGED <<at, anchor>>
        /\ \A r \in Proc : r # p => held'[r] = held[r]
    BY <1>0, <1>14 DEF AccessDeref, Step, TypeOK
  <2> QED  BY <1>2, <2>1
<1>15. ASSUME NEW p \in Proc, RefDeref(p)  PROVE Good
  <2>1. CASE UNCHANGED procVars
    BY <1>3, <2>1 DEF procVars
  <2>2. CASE ~UNCHANGED procVars
    <3>1. /\ pc' = [pc EXCEPT ![p] = "ref_lock"] /\ UNCHANGED <<at, anchor>>
          /\ held' = [held EXCEPT ![p] = snode[idx[p]]]
      BY <1>15, <2>2 DEF RefDeref, Step
    <3>2. \A r \in Proc : r # p => held'[r] = held[r]
      BY <1>0, <3>1 DEF TypeOK
    <3> QED  BY <1>2, <3>1, <3>2
  <2> QED  BY <2>1, <2>2
<1>16. ASSUME NEW p \in Proc, DeleteNode(p)  PROVE Good
  <2>1. /\ pc' = [pc EXCEPT ![p] = "node_lock"] /\ held' = [held EXCEPT ![p] = at[p]]
        /\ at[p] \in Node /\ UNCHANGED <<at, anchor>>
    BY <1>16 DEF DeleteNode, Step
  <2> QED  BY <1>0, <2>1 DEF TypeOK
<1>17. ASSUME \/ \E n \in Node : RcuFree(n) \/ \E p \in Proc : AppendRefused(p, n)
              \/ TableDelete \/ UNCHANGED vars
       PROVE  Good
  BY <1>3, <1>17 DEF RcuFree, AppendRefused, TableDelete, vars, procVars
<1> HIDE DEF Good
<1>18. Good
  BY <1>4, <1>5, <1>6, <1>7, <1>8, <1>9, <1>10, <1>11, <1>12, <1>13, <1>14, <1>15, <1>16, <1>17
     DEF Next, Begin, Proceed
<1> QED  BY <1>18 DEF Good

\* How a node lives: what each step makes of it, and why.
LEMMA LifeMoves ==
  ASSUME Inv, [Next]_vars, NEW n \in Node, life'[n] # life[n]
  PROVE  /\ fault = "none"
         /\ \/ life[n] = "new" /\ life'[n] \in {"slot", "freed"}
            \/ life[n] = "slot" /\ life'[n] = "linking"
            \/ life[n] = "linking" /\ life'[n] = "in"
            \/ life'[n] = "out" /\ \E p \in Proc : Takes(p) /\ held[p] = n
            \/ life[n] \in Removed /\ life'[n] = "rcu" /\ wait'[n] = Readers
            \/ life[n] = "rcu" /\ life'[n] = "freed" /\ wait[n] = {}
<1> DEFINE Moves == \/ life[n] = "new" /\ life'[n] \in {"slot", "freed"}
                    \/ life[n] = "slot" /\ life'[n] = "linking"
                    \/ life[n] = "linking" /\ life'[n] = "in"
                    \/ life'[n] = "out" /\ \E p \in Proc : Takes(p) /\ held[p] = n
                    \/ life[n] \in Removed /\ life'[n] = "rcu" /\ wait'[n] = Readers
                    \/ life[n] = "rcu" /\ life'[n] = "freed" /\ wait[n] = {}
<1>0. TypeOK
  BY DEF Inv
<1>1. ASSUME NEW p \in Proc, NEW m \in Node, NEW b, NEW k, TakeSlot(p, m, b, k), Up
      PROVE  fault = "none" /\ Moves
  BY <1>0, <1>1 DEF TakeSlot, TypeOK, Up
<1>2. ASSUME NEW p \in Proc, LinkNode(p)  PROVE fault = "none" /\ Moves
  <2>1. /\ pc[p] = "link" /\ fault = "none" /\ life' = [life EXCEPT ![held[p]] = "linking"]
    BY <1>2 DEF LinkNode, Step, Up
  <2>2. life[held[p]] = "slot"
    BY <2>1 DEF Inv, SlotInv, AppendOK
  <2> QED  BY <1>0, <2>1, <2>2 DEF TypeOK
<1>3. ASSUME NEW p \in Proc, KeyNode(p)  PROVE fault = "none" /\ Moves
  BY <1>0, <1>3 DEF KeyNode, TypeOK, Up
<1>4. ASSUME NEW p \in Proc, Takes(p)  PROVE fault = "none" /\ Moves
  <2>1. fault = "none" /\ held[p] \in Node /\ life' = [life EXCEPT ![held[p]] = "out"]
    BY <1>4, TakesFacts
  <2>2. n = held[p] /\ life'[n] = "out"
    BY <1>0, <2>1 DEF TypeOK
  <2> QED  BY <1>4, <2>1, <2>2
<1>5. ASSUME NEW p \in Proc, RefSubmit(p) \/ NodeSubmit(p)  PROVE fault = "none" /\ Moves
  <2>1. fault = "none" /\ pc[p] \in {"ref_submit", "node_submit"} /\ CallRcu(held[p])
    BY <1>5 DEF RefSubmit, NodeSubmit, Step, Up
  <2>2. life[held[p]] \in Removed /\ held[p] \in Node
    BY <2>1 DEF Inv, SlotInv, DeleteOK, LocalOK, RefHeldPc, NodePc
  <2> QED  BY <1>0, <2>1, <2>2 DEF CallRcu, TypeOK
<1>6. ASSUME NEW m \in Node, RcuFree(m) \/ \E p \in Proc : AppendRefused(p, m)
      PROVE  fault = "none" /\ Moves
  BY <1>0, <1>6 DEF RcuFree, AppendRefused, Up, TypeOK
<1>7. ASSUME NEW p \in Proc, FillSlot(p)  PROVE fault = "none" /\ Moves
  BY <1>7 DEF FillSlot, nodeVars
<1> HIDE DEF Moves
<1>8. fault = "none" /\ Moves
  <2>1. ASSUME NEW p \in Proc, NEW m \in Node,
               \/ \E b \in Bucket : AppendNode(p, m, b)
               \/ \E k \in {"before", "after"} : InsertNode(p, m, k)
        PROVE  fault = "none" /\ Moves
    BY <1>1, <2>1 DEF AppendNode, InsertNode
  <2>2. ~UNCHANGED <<smagic, magic_no, index, ref, life, next, prev, key, home>>
    OBVIOUS
  <2>3. ASSUME NEW p \in Proc, FillSlot(p) \/ LinkNode(p) \/ KeyNode(p)
        PROVE  fault = "none" /\ Moves
    BY <1>2, <1>3, <1>7, <2>3
  <2>4. ASSUME NEW p \in Proc, NEW m \in Node, AppendRefused(p, m)
        PROVE  fault = "none" /\ Moves
    BY <1>6, <2>4
  <2>5. \/ \E p \in Proc, m \in Node, b \in Bucket : AppendNode(p, m, b)
        \/ \E p \in Proc, m \in Node, k \in {"before", "after"} : InsertNode(p, m, k)
        \/ \E p \in Proc : FillSlot(p) \/ LinkNode(p) \/ KeyNode(p)
        \/ \E p \in Proc : Takes(p)
        \/ \E p \in Proc : RefSubmit(p) \/ NodeSubmit(p)
        \/ \E m \in Node : RcuFree(m)
        \/ \E p \in Proc, m \in Node : AppendRefused(p, m)
    BY <2>2, StepKinds
  <2> QED  BY <1>4, <1>5, <1>6, <2>1, <2>3, <2>4, <2>5
<1> QED  BY <1>8 DEF Moves

\* A node that has been in a list is never again one that has not.
LEMMA ShownStays ==
  ASSUME Inv, [Next]_vars, NEW n \in Node, Shown(n)
  PROVE  life'[n] \notin {"new", "slot"}
BY LifeMoves DEF Shown

\* Every step keeps what threads can come across.
LEMMA SeenNext == Inv /\ SeenOK /\ [Next]_vars => SeenOK'
<1> SUFFICES ASSUME Inv, SeenOK, [Next]_vars  PROVE SeenOK'
  OBVIOUS
<1>0. TypeOK /\ TypeOK'
  BY NextInv DEF Inv
<1>1. \A m \in Node : Shown(m) => Shown(m)'
  BY ShownStays DEF Shown
<1>2. ASSUME NEW a \in Addr
      PROVE  /\ next'[a] \in Node => Shown(next'[a]) \/ life'[next'[a]] = "linking"
             /\ prev'[a] \in Node => Shown(prev'[a]) \/ life'[prev'[a]] = "linking"
  <2>1. ASSUME NEW p \in Proc, LinkNode(p)
        PROVE  /\ next'[a] \in Node => Shown(next'[a]) \/ life'[next'[a]] = "linking"
               /\ prev'[a] \in Node => Shown(prev'[a]) \/ life'[prev'[a]] = "linking"
    <3> PICK n : n = held[p]
      OBVIOUS
    <3>1. /\ pc[p] = "link" /\ life' = [life EXCEPT ![n] = "linking"]
          /\ \/ InsertInMiddle(bkt[p], prev[bkt[p]], n, Null)
             \/ how[p] = "before" /\ InsertInMiddle(bkt[p], prev[anchor[p]], n, anchor[p])
             \/ how[p] = "after"  /\ InsertInMiddle(bkt[p], anchor[p], n, next[anchor[p]])
      BY <2>1 DEF LinkNode, Step
    <3>2. /\ n \in Node /\ life'[n] = "linking" /\ bkt[p] \in Addr
          /\ how[p] # "append" => anchor[p] \in Node /\ anchor[p] \in Addr
      BY <1>0, <3>1 DEF Inv, LocalOK, TypeOK, AppendPc, Addr
    <3>3. ASSUME NEW pv, NEW nx, InsertInMiddle(bkt[p], pv, n, nx)
          PROVE  next'[a] \in {next[a], nx, n} /\ prev'[a] \in {prev[a], pv, n}
      BY <1>0, <3>3 DEF InsertInMiddle, TypeOK
    <3>4. /\ next'[a] \in {next[a], n, Null} \/ (how[p] # "append" /\ next'[a] \in {anchor[p], next[anchor[p]]})
          /\ prev'[a] \in {prev[a], n, prev[bkt[p]]} \/ (how[p] # "append" /\ prev'[a] \in {anchor[p], prev[anchor[p]]})
      BY <3>1, <3>3
    <3> QED  BY <3>2, <3>4, McHashAssumption DEF SeenOK
  <2>2. ASSUME NEW p \in Proc, Takes(p)
        PROVE  /\ next'[a] \in Node => Shown(next'[a])
               /\ prev'[a] \in Node => Shown(prev'[a])
    <3>1. held[p] \in Addr /\ Unlink(held[p], bkt[p]) /\ bkt[p] \in Bucket
      BY <1>0, <2>2, TakesFacts DEF Addr, TypeOK
    <3>2. /\ next'[a] \in {next[a], next[held[p]]}
          /\ prev'[a] \in {prev[a], prev[held[p]], bkt[p]}
      BY <1>0, <3>1 DEF Unlink, OrHead, TypeOK
    <3> QED  BY <3>1, <3>2, McHashAssumption DEF SeenOK
  <2>3. CASE UNCHANGED <<next, prev>>
    BY <2>3 DEF SeenOK
  <2>4. \/ UNCHANGED <<next, prev>> \/ \E p \in Proc : LinkNode(p) \/ Takes(p)
    BY StepKinds DEF AppendNode, InsertNode, TakeSlot, FillSlot, KeyNode, RefSubmit, NodeSubmit,
       RcuFree, AppendRefused, listVars
  <2> QED  BY <2>1, <2>2, <2>3, <2>4
<1>3. \A a \in Addr : /\ next'[a] \in Node => life'[next'[a]] \notin {"new", "slot"}
                      /\ prev'[a] \in Node => life'[prev'[a]] \notin {"new", "slot"}
  <2>1. \A m \in Node : Shown(m) \/ life'[m] = "linking" => life'[m] \notin {"new", "slot"}
    BY <1>1 DEF Shown
  <2> QED  BY <1>2, <2>1
<1>4. ASSUME NEW q \in Proc
      PROVE  /\ at'[q] \in Node => life'[at'[q]] \notin {"new", "slot"}
             /\ anchor'[q] \in Node => life'[anchor'[q]] \notin {"new", "slot"}
             /\ pc'[q] = "node_lock" => life'[held'[q]] \notin {"new", "slot"}
  <2>1. /\ at'[q] \in Node => at'[q] = at[q] \/ (at[q] \in Addr /\ at'[q] = next[at[q]])
        /\ anchor'[q] \in Node => anchor'[q] \in {anchor[q], at[q]}
        /\ pc'[q] = "node_lock" =>
             \/ pc[q] = "node_lock" /\ held'[q] = held[q]
             \/ at[q] \in Node /\ held'[q] = at[q]
    BY LocalMoves
  <2>2. \A m \in Node : Shown(m) => life'[m] \notin {"new", "slot"}
    BY <1>1 DEF Shown
  <2>3. pc[q] = "node_lock" => held[q] \in Node
    BY DEF Inv, LocalOK, NodePc
  <2>4. at'[q] \in Node => Shown(at'[q])
    BY <2>1 DEF SeenOK
  <2>5. anchor'[q] \in Node => Shown(anchor'[q])
    BY <2>1 DEF SeenOK
  <2>6. pc'[q] = "node_lock" => held'[q] \in Node /\ Shown(held'[q])
    BY <2>1, <2>3 DEF SeenOK
  <2> QED  BY <2>2, <2>4, <2>5, <2>6
<1> QED  BY <1>3, <1>4 DEF SeenOK, Shown

\* What can end the process.
LEMMA FaultMoves ==
  ASSUME [Next]_vars
  PROVE  fault' = fault \/ \E p \in Proc : Takes(p) \/ RefDeref(p) \/ LinkNode(p)
<1>1. ASSUME NEW p \in Proc, NEW n \in Node, \E b \in Bucket : AppendNode(p, n, b)  PROVE fault' = fault
  BY <1>1 DEF AppendNode, TakeSlot
<1>2. ASSUME NEW p \in Proc, NEW n \in Node, \E k \in {"before", "after"} : InsertNode(p, n, k)
      PROVE  fault' = fault
  BY <1>2 DEF InsertNode, TakeSlot
<1>3. ASSUME NEW p \in Proc, FillSlot(p) \/ KeyNode(p)  PROVE fault' = fault
  BY <1>3 DEF FillSlot, KeyNode
<1>4. ASSUME NEW p \in Proc,
             \/ \E b \in Bucket : ScanBegin(p, b)
             \/ ScanNext(p) \/ ScanEnd(p)
             \/ \E n \in Node : AccessNode(p, n) \/ DeleteByRef(p, n) \/ AppendRefused(p, n)
             \/ AccessDeref(p) \/ AccessEnd(p) \/ DeleteNode(p)
      PROVE  fault' = fault
  BY <1>4 DEF ScanBegin, ScanNext, ScanEnd, AccessNode, DeleteByRef, AppendRefused, AccessDeref,
     AccessEnd, DeleteNode
<1>5. ASSUME NEW p \in Proc, RefSubmit(p) \/ RefClear(p) \/ RefPush(p) \/ NodePush(p) \/ NodeSubmit(p)
      PROVE  fault' = fault
  BY <1>5 DEF RefSubmit, RefClear, RefPush, NodePush, NodeSubmit
<1>6. ASSUME NEW p \in Proc, RefUnlink(p) \/ NodeUnlink(p)  PROVE fault' = fault \/ Takes(p)
  BY <1>6 DEF RefUnlink, NodeUnlink, Takes
<1>7. ASSUME TableDelete \/ UNCHANGED vars \/ \E n \in Node : RcuFree(n)  PROVE fault' = fault
  BY <1>7 DEF TableDelete, vars, RcuFree
<1> QED  BY <1>1, <1>2, <1>3, <1>4, <1>5, <1>6, <1>7 DEF Next, Begin, Proceed

\* The table as it is created.
LEMMA SeenInit == Init => SeenOK
<1> SUFFICES ASSUME Init  PROVE SeenOK
  OBVIOUS
<1>1. Null \notin Node
  BY McHashAssumption
<1> QED  BY <1>1 DEF Init, SeenOK

-----------------------------------------------------------------------------
(* What a step does to one thread.                                          *)

\* The thread is not concerned.
Stays(q) ==
  UNCHANGED <<pc[q], held[q], idx[q], bkt[q], how[q], anchor[q]>>

\* Its operation returns, or a scan begins or ends.
Rests(q) ==
  /\ pc'[q] \in {"idle", "scan"}
  /\ \/ held'[q] = Null /\ anchor'[q] = Null /\ how'[q] = "append"
     \/ pc[q] \in {"idle", "scan"} /\ UNCHANGED <<held[q], anchor[q], how[q]>>

\* It takes a slot for a new node, which it puts anywhere or next to the node it is at.
Appends(q) ==
  /\ pc[q] \in {"idle", "scan"} /\ pc'[q] = "fill"
  /\ held'[q] \in Node /\ life[held'[q]] = "new" /\ life'[held'[q]] = "slot"
  /\ bkt'[q] \in Bucket /\ home'[held'[q]] = bkt'[q]
  /\ \/ how'[q] = "append" /\ anchor'[q] = anchor[q]
     \/ /\ q \in Inserter /\ at[q] \in Node /\ Linked(at[q])
        /\ anchor'[q] = at[q] /\ bkt'[q] = home[at[q]]

\* It goes on with the node, the slot and the bucket it has.
GoesOn(q) ==
  /\ \/ pc[q] = "fill" /\ pc'[q] = "link"
     \/ pc[q] = "link" /\ pc'[q] = "key"
     \/ pc[q] = "ref_lock" /\ pc'[q] = "ref_submit"
     \/ pc[q] = "ref_submit" /\ pc'[q] = "ref_clear"
     \/ pc[q] = "ref_clear" /\ pc'[q] = "ref_push"
     \/ pc[q] = "node_lock" /\ pc'[q] = "node_push"
     \/ pc[q] = "node_push" /\ pc'[q] = "node_submit"
  /\ UNCHANGED <<held[q], idx[q], bkt[q], how[q], anchor[q]>>

\* It has found the magic number of a reference in the slot.
Matches(q) ==
  /\ \/ pc[q] = "idle" /\ pc'[q] = "deref"
     \/ pc[q] \in {"idle", "scan"} /\ pc'[q] = "ref_deref" /\ q \in RefDeleter
  /\ \E n \in Node : HasRef(n) /\ MagicMatches(n) /\ idx'[q] = index[n]
  /\ UNCHANGED <<held[q], how[q], anchor[q]>>

\* It reads the pointer in the slot.
Derefs(q) ==
  /\ \/ pc[q] = "deref" /\ pc'[q] = "hold"
     \/ /\ pc[q] = "ref_deref" /\ pc'[q] = "ref_lock"
        /\ held'[q] \in Node /\ bkt'[q] = key[held'[q]]
  /\ held'[q] = snode[idx[q]]
  /\ UNCHANGED <<idx[q], how[q], anchor[q]>>

\* It deletes the node its scan stands on.
Picks(q) ==
  /\ pc[q] = "scan" /\ pc'[q] = "node_lock" /\ q \in NodeDeleter
  /\ at[q] \in Node /\ life[at[q]] # "linking"
  /\ held'[q] = at[q] /\ idx'[q] = index[at[q]] /\ bkt'[q] = key[at[q]]
  /\ UNCHANGED <<how[q], anchor[q]>>

ThreadStep(q) ==
  Stays(q) \/ Rests(q) \/ Appends(q) \/ GoesOn(q) \/ Matches(q) \/ Derefs(q) \/ Picks(q)

\* Every step of the program is one of these for every thread.
LEMMA ThreadMoves ==
  ASSUME Inv, [Next]_vars, NEW q \in Proc
  PROVE  ThreadStep(q)
<1>0. TypeOK /\ LocalOK
  BY DEF Inv
<1>1. ASSUME NEW p \in Proc, Return(p)  PROVE ThreadStep(q)
  <2>1. CASE q = p
    BY <1>0, <1>1, <2>1 DEF Return, TypeOK, ThreadStep, Rests
  <2>2. CASE q # p
    BY <1>0, <1>1, <2>2, ReturnFacts DEF ThreadStep, Stays
  <2> QED  BY <2>1, <2>2
<1>2. ASSUME UNCHANGED <<pc, held, idx, bkt, how, anchor>>  PROVE ThreadStep(q)
  BY <1>2 DEF ThreadStep, Stays
<1>3. ASSUME NEW p \in Proc, NEW to,
             \/ pc[p] = "fill" /\ to = "link"
             \/ pc[p] = "link" /\ to = "key"
             \/ pc[p] = "ref_lock" /\ to = "ref_submit"
             \/ pc[p] = "ref_submit" /\ to = "ref_clear"
             \/ pc[p] = "ref_clear" /\ to = "ref_push"
             \/ pc[p] = "node_lock" /\ to = "node_push"
             \/ pc[p] = "node_push" /\ to = "node_submit",
             pc' = [pc EXCEPT ![p] = to], UNCHANGED <<held, idx, bkt, how, anchor>>
      PROVE  ThreadStep(q)
  <2>1. pc'[q] = IF q = p THEN to ELSE pc[q]
    BY <1>0, <1>3 DEF TypeOK
  <2> QED  BY <1>3, <2>1 DEF ThreadStep, Stays, GoesOn
<1>4. ASSUME NEW p \in Proc, NEW n \in Node, NEW b \in Bucket, NEW k, TakeSlot(p, n, b, k)
      PROVE  /\ life[n] = "new" /\ life'[n] = "slot" /\ home'[n] = b
             /\ pc'[q] = (IF q = p THEN "fill" ELSE pc[q])
             /\ how'[q] = (IF q = p THEN k ELSE how[q])
             /\ held'[q] = (IF q = p THEN n ELSE held[q])
             /\ bkt'[q] = (IF q = p THEN b ELSE bkt[q])
             /\ q # p => idx'[q] = idx[q]
  BY <1>0, <1>4 DEF TakeSlot, TypeOK
<1>5. ASSUME NEW p \in Proc, NEW n \in Node, NEW b \in Bucket, AppendNode(p, n, b)
      PROVE  ThreadStep(q)
  <2>1. pc[p] = "idle" /\ anchor' = anchor /\ TakeSlot(p, n, b, "append")
    BY <1>5 DEF AppendNode
  <2> QED  BY <1>4, <2>1 DEF ThreadStep, Stays, Appends
<1>6. ASSUME NEW p \in Proc, NEW n \in Node, NEW k \in {"before", "after"}, InsertNode(p, n, k)
      PROVE  ThreadStep(q)
  <2>1. /\ p \in Inserter /\ pc[p] = "scan" /\ at[p] \in Node /\ Linked(at[p])
        /\ anchor' = [anchor EXCEPT ![p] = at[p]] /\ TakeSlot(p, n, home[at[p]], k)
    BY <1>6 DEF InsertNode
  <2>2. home[at[p]] \in Bucket /\ anchor'[q] = IF q = p THEN at[p] ELSE anchor[q]
    BY <1>0, <2>1 DEF TypeOK
  <2> QED  BY <1>4, <2>1, <2>2 DEF ThreadStep, Stays, Appends
<1>7. ASSUME NEW p \in Proc, FillSlot(p) \/ LinkNode(p) \/ RefSubmit(p) \/ RefClear(p) \/ NodePush(p)
      PROVE  ThreadStep(q)
  <2>1. \/ pc[p] = "fill" /\ pc' = [pc EXCEPT ![p] = "link"]
        \/ pc[p] = "link" /\ pc' = [pc EXCEPT ![p] = "key"]
        \/ pc[p] = "ref_submit" /\ pc' = [pc EXCEPT ![p] = "ref_clear"]
        \/ pc[p] = "ref_clear" /\ pc' = [pc EXCEPT ![p] = "ref_push"]
        \/ pc[p] = "node_push" /\ pc' = [pc EXCEPT ![p] = "node_submit"]
    BY <1>7 DEF FillSlot, LinkNode, RefSubmit, RefClear, NodePush, Step
  <2>2. UNCHANGED <<held, idx, bkt, how, anchor>>
    BY <1>7 DEF FillSlot, LinkNode, RefSubmit, RefClear, NodePush
  <2> QED  BY <1>3, <2>1, <2>2
<1>8. ASSUME NEW p \in Proc, KeyNode(p) \/ AccessEnd(p) \/ RefPush(p) \/ NodeSubmit(p)
      PROVE  ThreadStep(q)
  BY <1>1, <1>8 DEF KeyNode, AccessEnd, RefPush, NodeSubmit
<1>9. ASSUME NEW p \in Proc, RefUnlink(p) \/ NodeUnlink(p)  PROVE ThreadStep(q)
  <2>1. CASE Return(p)
    BY <1>1, <2>1
  <2>2. CASE Takes(p)
    <3>1. /\ \/ pc[p] = "ref_lock" /\ pc' = [pc EXCEPT ![p] = "ref_submit"]
             \/ pc[p] = "node_lock" /\ pc' = [pc EXCEPT ![p] = "node_push"]
          /\ UNCHANGED <<held, idx, bkt, how, anchor>>
      BY <2>2, TakesFacts
    <3> QED  BY <1>3, <3>1
  <2> QED  BY <1>9, <2>1, <2>2 DEF RefUnlink, NodeUnlink, Takes
<1>10. ASSUME NEW p \in Proc, ScanEnd(p) \/ \E b \in Bucket : ScanBegin(p, b)  PROVE ThreadStep(q)
  <2>1. /\ pc[p] \in {"idle", "scan"}
        /\ pc' = [pc EXCEPT ![p] = "idle"] \/ pc' = [pc EXCEPT ![p] = "scan"]
        /\ UNCHANGED <<held, idx, bkt, how, anchor>>
    BY <1>10 DEF ScanEnd, ScanBegin, Step
  <2>2. IF q = p THEN pc'[q] \in {"idle", "scan"} ELSE pc'[q] = pc[q]
    BY <1>0, <2>1 DEF TypeOK
  <2> QED  BY <2>1, <2>2 DEF ThreadStep, Stays, Rests
<1>11. ASSUME NEW p \in Proc, ScanNext(p)  PROVE ThreadStep(q)
  BY <1>2, <1>11 DEF ScanNext
<1>12. ASSUME NEW p \in Proc, NEW n \in Node, AccessNode(p, n)  PROVE ThreadStep(q)
  <2>1. /\ pc[p] = "idle" /\ HasRef(n) /\ MagicMatches(n)
        /\ UNCHANGED <<held, bkt, how, anchor>>
        /\ pc'[q] = IF q = p THEN "deref" ELSE pc[q]
        /\ idx'[q] = IF q = p THEN index[n] ELSE idx[q]
    BY <1>0, <1>12 DEF AccessNode, Step, TypeOK
  <2> QED  BY <2>1 DEF ThreadStep, Stays, Matches
<1>13. ASSUME NEW p \in Proc, NEW n \in Node, DeleteByRef(p, n)  PROVE ThreadStep(q)
  <2>1. /\ pc[p] \in {"idle", "scan"} /\ p \in RefDeleter /\ HasRef(n) /\ MagicMatches(n)
        /\ UNCHANGED <<held, bkt, how, anchor>>
        /\ pc'[q] = IF q = p THEN "ref_deref" ELSE pc[q]
        /\ idx'[q] = IF q = p THEN index[n] ELSE idx[q]
    BY <1>0, <1>13 DEF DeleteByRef, TypeOK
  <2> QED  BY <2>1 DEF ThreadStep, Stays, Matches
<1>14. ASSUME NEW p \in Proc, AccessDeref(p)  PROVE ThreadStep(q)
  <2>1. /\ pc[p] = "deref" /\ UNCHANGED <<idx, bkt, how, anchor>>
        /\ pc'[q] = IF q = p THEN "hold" ELSE pc[q]
        /\ held'[q] = IF q = p THEN snode[idx[q]] ELSE held[q]
    BY <1>0, <1>14 DEF AccessDeref, Step, TypeOK
  <2> QED  BY <2>1 DEF ThreadStep, Stays, Derefs
<1>15. ASSUME NEW p \in Proc, RefDeref(p)  PROVE ThreadStep(q)
  <2>1. CASE snode[idx[p]] = Null
    BY <1>2, <1>15, <2>1 DEF RefDeref, procVars
  <2>2. CASE snode[idx[p]] # Null
    <3>1. /\ pc[p] = "ref_deref" /\ UNCHANGED <<idx, how, anchor>>
          /\ pc'[q] = IF q = p THEN "ref_lock" ELSE pc[q]
          /\ held'[q] = IF q = p THEN snode[idx[q]] ELSE held[q]
          /\ bkt'[q] = IF q = p THEN key[snode[idx[q]]] ELSE bkt[q]
      BY <1>0, <1>15, <2>2 DEF RefDeref, Step, TypeOK
    <3>2. snode[idx[p]] \in Node
      BY <1>0, <2>2 DEF TypeOK
    <3> QED  BY <3>1, <3>2 DEF ThreadStep, Stays, Derefs
  <2> QED  BY <2>1, <2>2
<1>16. ASSUME NEW p \in Proc, DeleteNode(p)  PROVE ThreadStep(q)
  <2>1. /\ pc[p] = "scan" /\ p \in NodeDeleter /\ at[p] \in Node /\ life[at[p]] # "linking"
        /\ UNCHANGED <<how, anchor>>
        /\ pc'[q] = IF q = p THEN "node_lock" ELSE pc[q]
        /\ held'[q] = IF q = p THEN at[q] ELSE held[q]
        /\ idx'[q] = IF q = p THEN index[at[q]] ELSE idx[q]
        /\ bkt'[q] = IF q = p THEN key[at[q]] ELSE bkt[q]
    BY <1>0, <1>16 DEF DeleteNode, Step, TypeOK
  <2> QED  BY <2>1 DEF ThreadStep, Stays, Picks
<1>17. ASSUME \/ \E n \in Node : RcuFree(n) \/ \E p \in Proc : AppendRefused(p, n)
              \/ TableDelete \/ UNCHANGED vars
       PROVE  ThreadStep(q)
  BY <1>2, <1>17 DEF RcuFree, AppendRefused, TableDelete, vars, procVars
<1> QED
  BY <1>5, <1>6, <1>7, <1>8, <1>9, <1>10, <1>11, <1>12, <1>13, <1>14, <1>15, <1>16, <1>17
     DEF Next, Begin, Proceed

\* A slot is filled by the thread that took it, and emptied by a delete that has it.
LEMMA SlotMoves ==
  ASSUME Inv, [Next]_vars, NEW s \in Slot, snode'[s] # snode[s]
  PROVE  \E p \in Proc : /\ pc[p] \in {"fill", "ref_clear", "node_lock"} /\ idx[p] = s
                         /\ pc[p] = "fill" => FillSlot(p)
                         /\ pc[p] = "node_lock" => Takes(p)
                         /\ pc[p] # "fill" => snode'[s] = Null
<1>0. TypeOK
  BY DEF Inv
<1>1. ASSUME NEW p \in Proc, FillSlot(p)  PROVE pc[p] = "fill" /\ idx[p] = s
  BY <1>0, <1>1 DEF FillSlot, Step, TypeOK
<1>2. ASSUME NEW p \in Proc, RefClear(p)  PROVE pc[p] = "ref_clear" /\ idx[p] = s /\ snode'[s] = Null
  BY <1>0, <1>2 DEF RefClear, Step, TypeOK
<1>3. ASSUME NEW p \in Proc, NodeUnlink(p)
      PROVE  pc[p] = "node_lock" /\ idx[p] = s /\ Takes(p) /\ snode'[s] = Null
  BY <1>0, <1>3 DEF NodeUnlink, Takes, TypeOK, shared, slotVars
<1>4. ASSUME NEW p \in Proc, NEW n \in Node,
             \/ \E b \in Bucket : AppendNode(p, n, b)
             \/ \E k \in {"before", "after"} : InsertNode(p, n, k)
             \/ AppendRefused(p, n) \/ AccessNode(p, n) \/ DeleteByRef(p, n)
      PROVE  FALSE
  BY <1>4 DEF AppendNode, InsertNode, TakeSlot, AppendRefused, AccessNode, DeleteByRef, shared, slotVars
<1>5. ASSUME NEW p \in Proc,
             \/ LinkNode(p) \/ KeyNode(p) \/ ScanNext(p) \/ ScanEnd(p) \/ AccessDeref(p)
             \/ AccessEnd(p) \/ RefDeref(p) \/ DeleteNode(p) \/ \E b \in Bucket : ScanBegin(p, b)
      PROVE  FALSE
  BY <1>5 DEF LinkNode, KeyNode, ScanNext, ScanEnd, AccessDeref, AccessEnd, RefDeref, DeleteNode,
     ScanBegin, shared, slotVars
<1>6. ASSUME NEW p \in Proc, RefUnlink(p)  PROVE FALSE
  BY <1>6 DEF RefUnlink, shared, slotVars
<1>7. ASSUME NEW p \in Proc, RefSubmit(p) \/ RefPush(p) \/ NodePush(p) \/ NodeSubmit(p)  PROVE FALSE
  BY <1>7 DEF RefSubmit, RefPush, NodePush, NodeSubmit, slotVars
<1>8. ASSUME TableDelete \/ UNCHANGED vars \/ \E n \in Node : RcuFree(n)  PROVE FALSE
  BY <1>8 DEF TableDelete, RcuFree, vars, shared, slotVars
<1> QED  BY <1>1, <1>2, <1>3, <1>4, <1>5, <1>6, <1>7, <1>8 DEF Next, Begin, Proceed

-----------------------------------------------------------------------------
(* The bucket a thread works on.                                            *)

\* A thread has no pointer left from an earlier operation, and inserts next to the node
\* its scan stands on.
RolesOK ==
  \A p \in Proc :
    /\ pc[p] \in {"idle", "scan", "deref", "ref_deref"} => held[p] = Null
    /\ anchor[p] # Null => pc[p] \in AppendPc /\ anchor[p] = at[p]

\* The table as it is created.
LEMMA RolesInit == Init => RolesOK
BY DEF Init, RolesOK

\* A scan moves only while its thread is in no operation.
LEMMA AtMoves ==
  ASSUME Inv, [Next]_vars, NEW q \in Proc, at'[q] # at[q]
  PROVE  \/ pc[q] = "idle" /\ pc'[q] = "scan" /\ \E b \in Bucket : ScanBegin(q, b)
         \/ pc[q] = "scan" /\ pc'[q] = "scan" /\ at'[q] = next[at[q]] /\ at'[q] \in Node
         \/ pc[q] = "scan" /\ pc'[q] = "idle" /\ at'[q] = Null
<1>0. TypeOK /\ LocalOK
  BY DEF Inv
<1>1. ASSUME NEW p \in Proc, NEW b \in Bucket, ScanBegin(p, b)
      PROVE  q = p /\ pc[q] = "idle" /\ pc'[q] = "scan"
  BY <1>0, <1>1 DEF ScanBegin, Step, TypeOK
<1>2. ASSUME NEW p \in Proc, ScanNext(p)
      PROVE  pc[q] = "scan" /\ pc'[q] = "scan" /\ at'[q] = next[at[q]] /\ at'[q] \in Node
  <2>1. /\ pc[p] = "scan" /\ pc' = pc /\ next[at[p]] # Null /\ at' = [at EXCEPT ![p] = next[at[p]]]
    BY <1>2 DEF ScanNext
  <2>2. q = p
    BY <1>0, <2>1 DEF TypeOK
  <2>3. at[p] \in Addr
    BY <1>0, <2>1 DEF LocalOK, TypeOK
  <2> QED  BY <1>0, <2>1, <2>2, <2>3 DEF TypeOK
<1>3. ASSUME NEW p \in Proc, ScanEnd(p)
      PROVE  pc[q] = "scan" /\ pc'[q] = "idle" /\ at'[q] = Null
  BY <1>0, <1>3 DEF ScanEnd, Step, TypeOK
<1>4. ASSUME NEW p \in Proc, NEW n \in Node,
             \/ \E b \in Bucket : AppendNode(p, n, b)
             \/ \E k \in {"before", "after"} : InsertNode(p, n, k)
             \/ AppendRefused(p, n) \/ AccessNode(p, n) \/ DeleteByRef(p, n)
      PROVE  FALSE
  BY <1>4 DEF AppendNode, InsertNode, TakeSlot, AppendRefused, AccessNode, DeleteByRef, procVars
<1>5. ASSUME NEW p \in Proc,
             \/ FillSlot(p) \/ LinkNode(p) \/ AccessDeref(p) \/ RefDeref(p) \/ DeleteNode(p)
             \/ RefSubmit(p) \/ RefClear(p) \/ NodePush(p)
      PROVE  FALSE
  BY <1>5 DEF FillSlot, LinkNode, AccessDeref, RefDeref, DeleteNode, RefSubmit, RefClear, NodePush, procVars
<1>6. ASSUME NEW p \in Proc,
             KeyNode(p) \/ AccessEnd(p) \/ RefPush(p) \/ NodeSubmit(p) \/ RefUnlink(p) \/ NodeUnlink(p)
      PROVE  FALSE
  BY <1>6 DEF KeyNode, AccessEnd, RefPush, NodeSubmit, RefUnlink, NodeUnlink, Return
<1>7. ASSUME TableDelete \/ UNCHANGED vars \/ \E n \in Node : RcuFree(n)  PROVE FALSE
  BY <1>7 DEF TableDelete, RcuFree, vars, procVars
<1> QED  BY <1>1, <1>2, <1>3, <1>4, <1>5, <1>6, <1>7 DEF Next, Begin, Proceed

\* Every step keeps the roles.
LEMMA RolesNext == Inv /\ RolesOK /\ [Next]_vars => RolesOK'
<1> SUFFICES ASSUME Inv, RolesOK, [Next]_vars, NEW q \in Proc
    PROVE  /\ pc'[q] \in {"idle", "scan", "deref", "ref_deref"} => held'[q] = Null
           /\ anchor'[q] # Null => pc'[q] \in AppendPc /\ anchor'[q] = at'[q]
  BY DEF RolesOK
<1>0. pc[q] \in Pc
  BY DEF Inv, TypeOK
<1>1. pc[q] \notin {"idle", "scan"} => at'[q] = at[q]
  BY AtMoves
<1>2. pc'[q] = "fill" => at'[q] = at[q]
  BY AtMoves
<1>3. /\ pc[q] \in {"idle", "scan", "deref", "ref_deref"} => held[q] = Null
      /\ anchor[q] # Null => pc[q] \in AppendPc /\ anchor[q] = at[q]
  BY DEF RolesOK
<1>4. CASE Stays(q)
  BY <1>1, <1>3, <1>4 DEF Stays, AppendPc
<1>5. CASE Rests(q)
  BY <1>3, <1>5 DEF Rests, AppendPc
<1>6. CASE Appends(q)
  BY <1>2, <1>3, <1>6 DEF Appends, AppendPc
<1>7. CASE GoesOn(q)
  BY <1>1, <1>3, <1>7 DEF GoesOn, AppendPc
<1>8. CASE Matches(q) \/ Derefs(q) \/ Picks(q)
  BY <1>3, <1>8 DEF Matches, Derefs, Picks, AppendPc
<1> QED  BY <1>4, <1>5, <1>6, <1>7, <1>8, ThreadMoves DEF ThreadStep

\* An append works on the bucket its node goes to.
AppendsHome ==
  \A p \in Proc : pc[p] \in AppendPc => bkt[p] = home[held[p]] /\ life[held[p]] # "new"

\* Nothing happens in a process that has died.
LEMMA DeadStays == fault # "none" /\ [Next]_vars => UNCHANGED vars
<1> SUFFICES ASSUME fault # "none", Next  PROVE FALSE
  OBVIOUS
<1>1. ASSUME NEW p \in Proc, Begin(p)  PROVE FALSE
  BY <1>1 DEF Begin, AppendNode, InsertNode, AppendRefused, AccessNode, DeleteByRef, ScanBegin, DeleteNode, Up
<1>2. ASSUME NEW p \in Proc,
             \/ FillSlot(p) \/ LinkNode(p) \/ KeyNode(p)
             \/ ScanNext(p) \/ ScanEnd(p)
             \/ AccessDeref(p) \/ AccessEnd(p)
      PROVE  FALSE
  BY <1>2 DEF FillSlot, LinkNode, KeyNode, ScanNext, ScanEnd, AccessDeref, AccessEnd, Up
<1>3. ASSUME NEW p \in Proc,
             \/ RefDeref(p) \/ RefUnlink(p) \/ RefSubmit(p) \/ RefClear(p) \/ RefPush(p)
             \/ NodeUnlink(p) \/ NodePush(p) \/ NodeSubmit(p)
      PROVE  FALSE
  BY <1>3 DEF RefDeref, RefUnlink, RefSubmit, RefClear, RefPush, NodeUnlink, NodePush, NodeSubmit, Up
<1>4. ASSUME TableDelete \/ \E n \in Node : RcuFree(n)  PROVE FALSE
  BY <1>4 DEF TableDelete, RcuFree, Up
<1> QED  BY <1>1, <1>2, <1>3, <1>4 DEF Next, Proceed

\* The bucket of a node is chosen when it is appended, its key written at the end.
LEMMA PlaceMoves ==
  ASSUME Inv, [Next]_vars, NEW n \in Node
  PROVE  /\ home'[n] # home[n] => life[n] = "new" /\ life'[n] = "slot"
         /\ key'[n] # key[n] \/ (life[n] = "linking" /\ life'[n] = "in") =>
              \E p \in Proc : pc[p] = "key" /\ held[p] = n /\ key'[n] = bkt[p]
<1>0. TypeOK
  BY DEF Inv
<1> DEFINE Good == /\ home'[n] # home[n] => life[n] = "new" /\ life'[n] = "slot"
                   /\ key'[n] # key[n] \/ (life[n] = "linking" /\ life'[n] = "in") =>
                        \E p \in Proc : pc[p] = "key" /\ held[p] = n /\ key'[n] = bkt[p]
<1>1. ASSUME NEW p \in Proc, NEW m \in Node, NEW b, NEW k, TakeSlot(p, m, b, k)
      PROVE  Good
  BY <1>0, <1>1 DEF TakeSlot, TypeOK, linkVars
<1>2. ASSUME NEW p \in Proc, KeyNode(p)  PROVE Good
  <2>1. /\ pc[p] = "key" /\ home' = home /\ key' = [key EXCEPT ![held[p]] = bkt[p]]
        /\ life' = IF life[held[p]] = "linking" THEN [life EXCEPT ![held[p]] = "in"] ELSE life
    BY <1>2 DEF KeyNode
  <2>2. key'[n] # key[n] \/ (life[n] = "linking" /\ life'[n] = "in") => held[p] = n
    BY <1>0, <2>1 DEF TypeOK
  <2>3. held[p] = n => key'[n] = bkt[p]
    BY <1>0, <2>1 DEF TypeOK
  <2> QED  BY <2>1, <2>2, <2>3
<1>3. ASSUME UNCHANGED <<key, home>>, ~(life[n] = "linking" /\ life'[n] = "in")  PROVE Good
  BY <1>3
<1>4. ASSUME NEW p \in Proc, FillSlot(p) \/ LinkNode(p)  PROVE Good
  <2>1. UNCHANGED <<key, home>>
    BY <1>4 DEF FillSlot, LinkNode, linkVars, nodeVars
  <2>2. life'[n] \in {life[n], "linking"}
    BY <1>0, <1>4 DEF FillSlot, LinkNode, nodeVars, TypeOK
  <2> QED  BY <1>3, <2>1, <2>2
<1>5. ASSUME NEW p \in Proc, Takes(p)  PROVE Good
  <2>1. UNCHANGED <<key, home>> /\ life' = [life EXCEPT ![held[p]] = "out"]
    BY <1>5, TakesFacts
  <2> QED  BY <1>0, <1>3, <2>1 DEF TypeOK
<1>6. ASSUME NEW p \in Proc, RefSubmit(p) \/ NodeSubmit(p)  PROVE Good
  <2>1. UNCHANGED <<key, home>> /\ life' = [life EXCEPT ![held[p]] = "rcu"]
    BY <1>6 DEF RefSubmit, NodeSubmit, CallRcu, linkVars
  <2> QED  BY <1>0, <1>3, <2>1 DEF TypeOK
<1>7. ASSUME NEW m \in Node, RcuFree(m) \/ \E p \in Proc : AppendRefused(p, m)  PROVE Good
  <2>1. UNCHANGED <<key, home>> /\ life' = [life EXCEPT ![m] = "freed"]
    BY <1>7 DEF RcuFree, AppendRefused, linkVars
  <2> QED  BY <1>0, <1>3, <2>1 DEF TypeOK
<1> HIDE DEF Good
<1>8. ASSUME NEW p \in Proc, NEW m \in Node,
             \/ \E b \in Bucket : AppendNode(p, m, b)
             \/ \E k \in {"before", "after"} : InsertNode(p, m, k)
      PROVE  Good
  BY <1>1, <1>8 DEF AppendNode, InsertNode
<1>9. ASSUME NEW p \in Proc, FillSlot(p) \/ LinkNode(p) \/ KeyNode(p)  PROVE Good
  BY <1>2, <1>4, <1>9
<1>10. ASSUME UNCHANGED <<smagic, magic_no, index, ref, life, next, prev, key, home>>  PROVE Good
  BY <1>10 DEF Good
<1>11. ASSUME NEW p \in Proc, NEW m \in Node, AppendRefused(p, m)  PROVE Good
  BY <1>7, <1>11
<1>12. Good
  BY <1>5, <1>6, <1>7, <1>8, <1>9, <1>10, <1>11, StepKinds
<1> QED  BY <1>12 DEF Good

\* Every step of an append is on the bucket of its node.
LEMMA AppendsHomeNext == Inv /\ AppendsHome /\ [Next]_vars => AppendsHome'
<1> SUFFICES ASSUME Inv, AppendsHome, [Next]_vars, NEW q \in Proc, pc'[q] \in AppendPc
             PROVE  bkt'[q] = home'[held'[q]] /\ life'[held'[q]] # "new"
  BY DEF AppendsHome
<1>1. ASSUME pc[q] \in AppendPc, UNCHANGED <<held[q], bkt[q]>>
      PROVE  bkt'[q] = home'[held'[q]] /\ life'[held'[q]] # "new"
  <2>1. held[q] \in Node /\ bkt[q] = home[held[q]] /\ life[held[q]] # "new"
    BY <1>1 DEF AppendsHome, Inv, LocalOK
  <2>2. life'[held[q]] # "new"
    BY <2>1, LifeMoves DEF Removed
  <2> QED  BY <1>1, <2>1, <2>2, PlaceMoves
<1>2. CASE Stays(q)
  BY <1>1, <1>2 DEF Stays
<1>3. CASE Appends(q)
  BY <1>3 DEF Appends
<1>4. CASE GoesOn(q)
  BY <1>1, <1>4 DEF GoesOn, AppendPc
<1>5. ~Rests(q) /\ ~Matches(q) /\ ~Derefs(q) /\ ~Picks(q)
  BY DEF Rests, Matches, Derefs, Picks, AppendPc
<1> QED  BY <1>2, <1>3, <1>4, <1>5, ThreadMoves DEF ThreadStep

\* While the process lives the key of a node names the bucket it was appended to, from the
\* return of its append; until then the thread that links it has the lock of that bucket.
\* A delete by node works on that bucket, and so does a delete by reference that has found
\* its node in its list.
PlaceInv ==
  /\ \A n \in Node : life[n] \notin {"slot", "linking"} => key[n] = home[n]
  /\ \A n \in Node : life[n] = "linking" => \E p \in Proc : pc[p] = "key" /\ held[p] = n
  /\ \A p \in Proc : pc[p] = "node_lock" => bkt[p] = home[held[p]] /\ life[held[p]] # "linking"
  /\ \A p \in Proc : pc[p] \in {"ref_submit", "ref_clear"} => bkt[p] = home[held[p]]

\* What a delete takes out of its list is not what an append has just put there: that
\* thread has the lock.
LEMMA TakesLinked ==
  ASSUME Inv, AppendsHome, PlaceInv, NEW p \in Proc, Takes(p), fault' = "none"
  PROVE  /\ life[held[p]] = "in" /\ bkt[p] = home[held[p]] /\ held[p] \in Node
         /\ \A q \in Proc : pc[q] = "key" => held[q] # held[p]
<1>1. Linked(held[p]) /\ bkt[p] = home[held[p]] /\ held[p] \in Node /\ ~Locked(bkt[p])
  BY TakesFacts
<1>2. \A q \in Proc : pc[q] = "key" => held[q] # held[p]
  BY <1>1 DEF Locked, AppendsHome, AppendPc
<1> QED  BY <1>1, <1>2 DEF PlaceInv, Linked

\* Who links a node goes on to write its key.
LEMMA LinkedBy ==
  ASSUME Inv, [Next]_vars, NEW n \in Node, life'[n] = "linking", life[n] # "linking"
  PROVE  \E p \in Proc : pc'[p] = "key" /\ held'[p] = n
<1>0. TypeOK
  BY DEF Inv
<1>1. ASSUME NEW p \in Proc, LinkNode(p)  PROVE \E q \in Proc : pc'[q] = "key" /\ held'[q] = n
  <2>1. /\ pc' = [pc EXCEPT ![p] = "key"] /\ held' = held
        /\ life' = [life EXCEPT ![held[p]] = "linking"]
    BY <1>1 DEF LinkNode, Step
  <2> QED  BY <1>0, <2>1 DEF TypeOK
<1>2. ASSUME NEW p \in Proc, NEW m \in Node,
             \/ \E b \in Bucket : AppendNode(p, m, b)
             \/ \E k \in {"before", "after"} : InsertNode(p, m, k)
             \/ AppendRefused(p, m)
      PROVE  FALSE
  BY <1>0, <1>2 DEF AppendNode, InsertNode, TakeSlot, AppendRefused, TypeOK
<1>3. ASSUME NEW p \in Proc, FillSlot(p) \/ KeyNode(p) \/ RefSubmit(p) \/ NodeSubmit(p)
      PROVE  FALSE
  BY <1>0, <1>3 DEF FillSlot, KeyNode, RefSubmit, NodeSubmit, CallRcu, nodeVars, TypeOK
<1>4. ASSUME NEW p \in Proc, Takes(p)  PROVE FALSE
  <2>1. life' = [life EXCEPT ![held[p]] = "out"]
    BY <1>4, TakesFacts
  <2> QED  BY <1>0, <2>1 DEF TypeOK
<1>5. ASSUME NEW m \in Node, RcuFree(m)  PROVE FALSE
  BY <1>0, <1>5 DEF RcuFree, TypeOK
<1> QED  BY <1>1, <1>2, <1>3, <1>4, <1>5, StepKinds

\* A thread moves by steps of its own.
LEMMA OwnSteps ==
  ASSUME Inv, [Next]_vars, NEW q \in Proc
  PROVE  Begin(q) \/ Proceed(q) \/ (pc'[q] = pc[q] /\ held'[q] = held[q])
<1>0. TypeOK
  BY DEF Inv
<1>1. ASSUME NEW p \in Proc, p # q, Begin(p)  PROVE pc'[q] = pc[q] /\ held'[q] = held[q]
  BY <1>0, <1>1 DEF Begin, AppendNode, InsertNode, TakeSlot, AppendRefused, AccessNode,
     DeleteByRef, ScanBegin, DeleteNode, Step, TypeOK, procVars
<1>2. ASSUME NEW p \in Proc, p # q, Proceed(p)  PROVE pc'[q] = pc[q] /\ held'[q] = held[q]
  <2>1. ASSUME Return(p)  PROVE pc'[q] = pc[q] /\ held'[q] = held[q]
    BY <1>0, <1>2, <2>1 DEF Return, TypeOK
  <2>2. ASSUME \/ FillSlot(p) \/ LinkNode(p) \/ ScanNext(p) \/ ScanEnd(p) \/ AccessDeref(p)
               \/ RefDeref(p) \/ RefSubmit(p) \/ RefClear(p) \/ NodePush(p)
        PROVE  pc'[q] = pc[q] /\ held'[q] = held[q]
    BY <1>0, <1>2, <2>2 DEF FillSlot, LinkNode, ScanNext, ScanEnd, AccessDeref, RefDeref,
       RefSubmit, RefClear, NodePush, Step, TypeOK, procVars
  <2>3. ASSUME KeyNode(p) \/ AccessEnd(p) \/ RefPush(p) \/ NodeSubmit(p)
        PROVE  pc'[q] = pc[q] /\ held'[q] = held[q]
    BY <2>1, <2>3 DEF KeyNode, AccessEnd, RefPush, NodeSubmit
  <2>4. ASSUME RefUnlink(p) \/ NodeUnlink(p)  PROVE pc'[q] = pc[q] /\ held'[q] = held[q]
    BY <1>0, <1>2, <2>1, <2>4 DEF RefUnlink, NodeUnlink, Step, TypeOK
  <2> QED  BY <1>2, <2>2, <2>3, <2>4 DEF Proceed
<1>3. ASSUME TableDelete \/ UNCHANGED vars \/ \E m \in Node : RcuFree(m)
      PROVE  pc'[q] = pc[q] /\ held'[q] = held[q]
  BY <1>3 DEF TableDelete, RcuFree, vars, procVars
<1> QED  BY <1>1, <1>2, <1>3 DEF Next

\* A thread that has linked its node goes on to write the key.
LEMMA KeyStep ==
  ASSUME Inv, [Next]_vars, NEW q \in Proc, pc[q] = "key"
  PROVE  KeyNode(q) \/ (pc'[q] = "key" /\ held'[q] = held[q])
<1>1. ~Begin(q)
  BY DEF Begin, AppendNode, InsertNode, AppendRefused, AccessNode, DeleteByRef, ScanBegin,
     DeleteNode, Step
<1>2. Proceed(q) => KeyNode(q)
  BY DEF Proceed, FillSlot, LinkNode, ScanNext, ScanEnd, AccessDeref, AccessEnd, RefDeref,
     RefUnlink, RefSubmit, RefClear, RefPush, NodeUnlink, NodePush, NodeSubmit, Step
<1> QED  BY <1>1, <1>2, OwnSteps

\* While a node is being linked, so is the thread that links it.
LEMMA KeyedBy ==
  ASSUME Inv, [Next]_vars, NEW q \in Proc, pc[q] = "key", NEW n \in Node, held[q] = n,
         life[n] = "linking", life'[n] = "linking"
  PROVE  pc'[q] = "key" /\ held'[q] = n
<1>1. KeyNode(q) => life'[n] # "linking"
  BY DEF KeyNode, Inv, TypeOK
<1> QED  BY <1>1, KeyStep

\* A delete by reference goes on from its lock with the node it has taken out.
LEMMA SubmitsBy ==
  ASSUME Inv, [Next]_vars, NEW q \in Proc, pc[q] = "ref_lock", pc'[q] = "ref_submit"
  PROVE  Takes(q)
<1>1. ~Begin(q)
  BY DEF Begin, AppendNode, InsertNode, AppendRefused, AccessNode, DeleteByRef, ScanBegin,
     DeleteNode, Step
<1>2. Proceed(q) => RefUnlink(q)
  BY DEF Proceed, FillSlot, LinkNode, KeyNode, ScanNext, ScanEnd, AccessDeref, AccessEnd, RefDeref,
     RefSubmit, RefClear, RefPush, NodeUnlink, NodePush, NodeSubmit, Step
<1>3. RefUnlink(q) => smagic[idx[q]] # 0
  BY DEF RefUnlink, Return, Inv, TypeOK
<1> QED  BY <1>1, <1>2, <1>3, OwnSteps DEF Takes

\* Every step that does not end the process keeps the places.
LEMMA PlaceNext ==
  ASSUME Inv, SeenOK, AppendsHome, PlaceInv, fault' = "none", [Next]_vars
  PROVE  PlaceInv'
<1>0. TypeOK /\ fault = "none" /\ SlotInv
  <2>1. fault = "none"
    BY DeadStays DEF vars
  <2> QED  BY <2>1 DEF Inv
<1>1. ASSUME NEW p \in Proc, Takes(p)  PROVE life[held[p]] = "in"
  BY <1>1, TakesLinked
<1>2. ASSUME NEW n \in Node, life'[n] \notin {"slot", "linking"}  PROVE key'[n] = home'[n]
  <2>1. home'[n] = home[n]
    BY <1>2, PlaceMoves
  <2>2. CASE \E p \in Proc : pc[p] = "key" /\ held[p] = n /\ key'[n] = bkt[p]
    BY <2>1, <2>2 DEF AppendsHome, AppendPc
  <2>3. CASE ~\E p \in Proc : pc[p] = "key" /\ held[p] = n /\ key'[n] = bkt[p]
    <3>1. key'[n] = key[n] /\ ~(life[n] = "linking" /\ life'[n] = "in")
      BY <2>3, PlaceMoves
    <3>2. life[n] \notin {"slot", "linking"}
      BY <1>1, <1>2, <3>1, LifeMoves DEF Removed
    <3> QED  BY <2>1, <3>1, <3>2 DEF PlaceInv
  <2> QED  BY <2>2, <2>3
<1>3. ASSUME NEW n \in Node, life'[n] = "linking"
      PROVE  \E p \in Proc : pc'[p] = "key" /\ held'[p] = n
  <2>1. CASE life[n] = "linking"
    <3>1. PICK p \in Proc : pc[p] = "key" /\ held[p] = n
      BY <2>1 DEF PlaceInv
    <3> QED  BY <1>3, <2>1, <3>1, KeyedBy
  <2>2. CASE life[n] # "linking"
    BY <1>3, <2>2, LinkedBy
  <2> QED  BY <2>1, <2>2
<1>4. ASSUME NEW n \in Node, life[n] # "new"  PROVE home'[n] = home[n]
  BY <1>4, PlaceMoves
<1>5. ASSUME NEW n \in Node, life[n] \notin {"new", "slot", "linking"}
      PROVE  life'[n] # "linking" /\ home'[n] = home[n] /\ key[n] = home[n]
  BY <1>4, <1>5, LifeMoves DEF PlaceInv, Removed
<1>6. ASSUME NEW q \in Proc, pc'[q] = "node_lock"
      PROVE  bkt'[q] = home'[held'[q]] /\ life'[held'[q]] # "linking"
  <2>1. CASE Stays(q)
    <3>1. /\ held[q] \in Node /\ life[held[q]] \notin {"new", "slot", "linking"}
          /\ bkt[q] = home[held[q]] /\ held'[q] = held[q] /\ bkt'[q] = bkt[q]
      BY <1>6, <2>1 DEF Stays, PlaceInv, SeenOK, Shown, Inv, LocalOK, NodePc
    <3> QED  BY <1>5, <3>1
  <2>2. CASE Picks(q)
    <3>1. at[q] \in Node /\ life[at[q]] # "linking" /\ held'[q] = at[q] /\ bkt'[q] = key[at[q]]
      BY <2>2 DEF Picks
    <3>2. life[at[q]] \notin {"new", "slot"}
      BY <3>1 DEF SeenOK, Shown
    <3> QED  BY <1>5, <3>1, <3>2
  <2>3. ~Rests(q) /\ ~Appends(q) /\ ~GoesOn(q) /\ ~Matches(q) /\ ~Derefs(q)
    BY <1>6 DEF Rests, Appends, GoesOn, Matches, Derefs
  <2> QED  BY <2>1, <2>2, <2>3, ThreadMoves DEF ThreadStep
<1>7. ASSUME NEW q \in Proc, pc'[q] \in {"ref_submit", "ref_clear"}
      PROVE  bkt'[q] = home'[held'[q]]
  <2>1. CASE pc[q] \in {"ref_submit", "ref_clear"}
    <3>1. held'[q] = held[q] /\ bkt'[q] = bkt[q]
      BY <1>7, <2>1, ThreadMoves DEF ThreadStep, Stays, Rests, Appends, GoesOn, Matches, Derefs, Picks
    <3>2. held[q] \in Node /\ life[held[q]] \in Removed /\ bkt[q] = home[held[q]]
      BY <1>0, <2>1 DEF PlaceInv, SlotInv, DeleteOK, Inv, LocalOK, RefHeldPc
    <3> QED  BY <1>4, <3>1, <3>2 DEF Removed
  <2>2. CASE pc[q] \notin {"ref_submit", "ref_clear"}
    <3>1. /\ pc[q] = "ref_lock" /\ pc'[q] = "ref_submit"
          /\ held'[q] = held[q] /\ bkt'[q] = bkt[q]
      BY <1>7, <2>2, ThreadMoves DEF ThreadStep, Stays, Rests, Appends, GoesOn, Matches, Derefs, Picks
    <3>2. Takes(q)
      BY <3>1, SubmitsBy
    <3> QED  BY <1>4, <3>1, <3>2, TakesLinked
  <2> QED  BY <2>1, <2>2
<1> QED  BY <1>2, <1>3, <1>6, <1>7 DEF PlaceInv

\* A delete by node that finds its node in the slot finds it in its list: who took it out
\* before, by reference or by node, had the lock of the node's bucket, the one it has now, and
\* had cleared node_p before it gave that lock back.
LEMMA NodeUnlinkSafe ==
  ASSUME Inv, SeenOK, PlaceInv, NEW p \in Proc, Takes(p), pc[p] = "node_lock"
  PROVE  Linked(held[p])
<1> PICK n : n = held[p]
  OBVIOUS
<1> PICK t : t = idx[p]
  OBVIOUS
<1>1. /\ fault = "none" /\ TypeOK /\ SlotInv /\ n \in Node /\ t \in Slot /\ snode[t] = n
      /\ ~Locked(bkt[p]) /\ n # Null /\ Shown(n) /\ bkt[p] = home[n]
  BY TakesFacts, McHashAssumption DEF Inv, SeenOK, PlaceInv
<1>2. ASSUME NEW q \in Proc, Gives(q), idx[q] = t  PROVE FALSE
  <2>1. pc[q] = "fill" => snode[t] = Null
    BY <1>1, <1>2 DEF SlotInv, AppendOK
  <2>2. pc[q] \in {"ref_push", "node_push"} => snode[t] = Null
    BY <1>1, <1>2 DEF SlotInv, DeleteOK
  <2>3. pc[q] \in {"ref_submit", "ref_clear"} => held[q] = n /\ bkt[q] = home[n]
    BY <1>1, <1>2 DEF SlotInv, DeleteOK, PlaceInv
  <2> QED  BY <1>1, <1>2, <2>1, <2>2, <2>3 DEF Gives, Locked
<1>3. life[n] \in Owned
  BY <1>1, <1>2 DEF SlotInv, Partition
<1> QED  BY <1>1, <1>3 DEF Owned, Shown, Linked

\* The places, while the process lives.
Placed == SeenOK /\ RolesOK /\ AppendsHome /\ (fault = "none" => PlaceInv)

\* They are invariant in every table, whoever deletes and inserts.
LEMMA PlacedAlways == Spec => [](Inv /\ Placed)
<1>1. Init => AppendsHome /\ PlaceInv
  BY DEF Init, AppendsHome, PlaceInv, AppendPc
<1>2. Inv /\ Placed /\ [Next]_vars => Placed'
  <2> SUFFICES ASSUME Inv, Placed, [Next]_vars  PROVE Placed'
    OBVIOUS
  <2>1. SeenOK' /\ RolesOK' /\ AppendsHome'
    BY SeenNext, RolesNext, AppendsHomeNext DEF Placed
  <2>2. ASSUME fault' = "none"  PROVE PlaceInv'
    <3>1. fault = "none"
      BY <2>2, DeadStays DEF vars
    <3> QED  BY <2>2, <3>1, PlaceNext DEF Placed
  <2> QED  BY <2>1, <2>2 DEF Placed
<1>3. Init => Placed
  BY <1>1, SeenInit, RolesInit DEF Placed
<1> QED  BY <1>2, <1>3, McHashInvariant, PTL DEF Spec

\* A delete by node is never the first to unlink and submit a node a second time, whatever the
\* other threads append, insert and delete, by reference or by node, in any of the buckets.
THEOREM NodeDeletesAlwaysSafe == Spec => []NodeDeletesSafe
<1>1. Inv /\ Placed /\ NodeDeletesSafe /\ [Next]_vars => NodeDeletesSafe'
  <2> SUFFICES ASSUME Inv, Placed, NodeDeletesSafe, [Next]_vars  PROVE NodeDeletesSafe'
    OBVIOUS
  <2>1. ASSUME NEW p \in Proc, Takes(p)  PROVE NodeDeletesSafe'
    <3>1. /\ pc[p] \in {"ref_lock", "node_lock"} /\ fault = "none"
          /\ fault' = IF ~Linked(held[p])
                      THEN IF pc[p] = "ref_lock" THEN "ref_unlink" ELSE "node_unlink"
                      ELSE IF bkt[p] # home[held[p]] THEN "wrong_bucket" ELSE "none"
      BY <2>1, TakesFacts
    <3>2. pc[p] = "node_lock" => Linked(held[p])
      BY <2>1, <3>1, NodeUnlinkSafe DEF Placed
    <3> QED  BY <3>1, <3>2 DEF NodeDeletesSafe
  <2>2. ASSUME NEW p \in Proc, RefDeref(p) \/ LinkNode(p)  PROVE NodeDeletesSafe'
    BY <2>2 DEF RefDeref, LinkNode, NodeDeletesSafe
  <2>3. \/ fault' = fault \/ \E p \in Proc : Takes(p) \/ RefDeref(p) \/ LinkNode(p)
    BY FaultMoves
  <2> QED  BY <2>1, <2>2, <2>3 DEF NodeDeletesSafe
<1>2. Init => NodeDeletesSafe
  BY DEF Init, NodeDeletesSafe
<1> QED  BY <1>1, <1>2, PlacedAlways, PTL DEF Spec

-----------------------------------------------------------------------------
(* The lists.                                                               *)

\* Until an append has written the key and given the bucket lock back its node stays in the
\* list; the node it is put next to may be taken out under it, but is of the same bucket.
KeyInv ==
  /\ \A p \in Proc : pc[p] = "key" => life[held[p]] = "linking"
  /\ \A p, q \in Proc : pc[p] = "key" /\ pc[q] = "key" /\ held[p] = held[q] => p = q
  /\ \A p \in Proc : pc[p] \in {"fill", "link"} /\ how[p] # "append" => home[anchor[p]] = bkt[p]

\* A bucket head and its nodes, and their neighbours round the bucket.
InList(a) == a \in Bucket \/ (a \in Node /\ Linked(a))
Of(a) == IF a \in Bucket THEN a ELSE home[a]
Nx(a) == OrHead(next[a], Of(a))
Pv(a) == OrHead(prev[a], Of(a))

\* Every list is a ring through its bucket head, the same in both directions.
Ring ==
  \A a \in Addr : InList(a) =>
    /\ InList(Nx(a)) /\ Of(Nx(a)) = Of(a) /\ Pv(Nx(a)) = a
    /\ InList(Pv(a)) /\ Of(Pv(a)) = Of(a) /\ Nx(Pv(a)) = a

\* A node is put into a list by the thread that links it, and taken out by a delete.
LEMMA LinksMove ==
  ASSUME Inv, [Next]_vars
  PROVE  \/ \E p \in Proc : LinkNode(p)
         \/ \E p \in Proc : Takes(p)
         \/ /\ UNCHANGED <<next, prev>>
            /\ \A n \in Node : /\ life'[n] \in {"linking", "in"} <=> life[n] \in {"linking", "in"}
                               /\ life[n] \in {"linking", "in"} => home'[n] = home[n]
<1>0. TypeOK
  BY DEF Inv
<1> SUFFICES ASSUME \A p \in Proc : ~LinkNode(p), \A p \in Proc : ~Takes(p)
             PROVE  /\ UNCHANGED <<next, prev>>
                    /\ \A n \in Node : life'[n] \in {"linking", "in"} <=> life[n] \in {"linking", "in"}
  BY PlaceMoves
<1>1. ASSUME NEW p \in Proc, NEW m \in Node, NEW b, NEW k, TakeSlot(p, m, b, k)
      PROVE  /\ UNCHANGED <<next, prev>>
             /\ \A n \in Node : life'[n] \in {"linking", "in"} <=> life[n] \in {"linking", "in"}
  BY <1>0, <1>1 DEF TakeSlot, TypeOK, listVars
<1>2. UNCHANGED <<next, prev>>
  <2>1. ASSUME NEW p \in Proc, NEW m \in Node,
               \/ \E b \in Bucket : AppendNode(p, m, b)
               \/ \E k \in {"before", "after"} : InsertNode(p, m, k)
        PROVE  UNCHANGED <<next, prev>>
    BY <1>1, <2>1 DEF AppendNode, InsertNode
  <2>2. ASSUME NEW p \in Proc, NEW m \in Node, AppendRefused(p, m)
        PROVE  UNCHANGED <<next, prev>>
    BY <2>2 DEF AppendRefused, listVars
  <2>3. ASSUME NEW p \in Proc, FillSlot(p) \/ KeyNode(p) \/ RefSubmit(p) \/ NodeSubmit(p)
        PROVE  UNCHANGED <<next, prev>>
    BY <2>3 DEF FillSlot, KeyNode, RefSubmit, NodeSubmit, listVars
  <2>4. ASSUME NEW m \in Node, RcuFree(m)  PROVE UNCHANGED <<next, prev>>
    BY <2>4 DEF RcuFree, listVars
  <2> QED  BY <2>1, <2>2, <2>3, <2>4, StepKinds
<1>3. ASSUME NEW n \in Node, life'[n] # life[n]
      PROVE  life'[n] \in {"linking", "in"} <=> life[n] \in {"linking", "in"}
  <2>1. life[n] = "slot" /\ life'[n] = "linking" => FALSE
    <3> SUFFICES ASSUME life[n] = "slot", life'[n] = "linking"  PROVE FALSE
      OBVIOUS
    <3>1. ASSUME NEW p \in Proc, NEW m \in Node,
                 \/ \E b \in Bucket : AppendNode(p, m, b)
                 \/ \E k \in {"before", "after"} : InsertNode(p, m, k)
          PROVE  FALSE
      BY <1>1, <3>1 DEF AppendNode, InsertNode
    <3>2. ASSUME NEW p \in Proc, FillSlot(p) \/ KeyNode(p)  PROVE FALSE
      BY <1>0, <3>2 DEF FillSlot, KeyNode, nodeVars, TypeOK
    <3>3. ASSUME NEW p \in Proc, RefSubmit(p) \/ NodeSubmit(p)  PROVE FALSE
      BY <1>0, <3>3 DEF RefSubmit, NodeSubmit, CallRcu, TypeOK
    <3>4. ASSUME NEW m \in Node, RcuFree(m) \/ \E p \in Proc : AppendRefused(p, m)  PROVE FALSE
      BY <1>0, <3>4 DEF RcuFree, AppendRefused, TypeOK
    <3>5. ASSUME NEW p \in Proc, NEW m \in Node, AppendRefused(p, m)  PROVE FALSE
      BY <3>4, <3>5
    <3> QED  BY <3>1, <3>2, <3>3, <3>4, <3>5, StepKinds
  <2> QED  BY <1>3, <2>1, LifeMoves DEF Removed
<1> QED  BY <1>2, <1>3

\* Every step keeps what is being linked, and what it is linked to.
LEMMA KeyNext ==
  ASSUME Inv, SeenOK, AppendsHome, PlaceInv, KeyInv, fault = "none", fault' = "none", [Next]_vars
  PROVE  KeyInv'
<1>0. TypeOK /\ SlotInv /\ LocalOK
  BY DEF Inv
<1>1. ASSUME NEW q \in Proc, pc'[q] = "key"
      PROVE  /\ held'[q] = held[q] /\ held[q] \in Node
             /\ \/ pc[q] = "key"
                \/ pc[q] = "link" /\ life[held[q]] = "slot" /\ life'[held[q]] = "linking"
  <2>1. \/ pc[q] = "key" /\ held'[q] = held[q]
        \/ pc[q] = "link" /\ held'[q] = held[q]
    BY <1>1, ThreadMoves DEF ThreadStep, Stays, Rests, Appends, GoesOn, Matches, Derefs, Picks
  <2>2. held[q] \in Node
    BY <1>0, <2>1 DEF LocalOK, AppendPc
  <2>3. CASE pc[q] = "link"
    <3>1. life[held[q]] = "slot"
      BY <1>0, <2>3 DEF SlotInv, AppendOK
    <3>2. life'[held[q]] = "linking"
      <4>1. ASSUME NEW p \in Proc, LinkNode(p)  PROVE life'[held[q]] = "linking"
        <5>1. pc' = [pc EXCEPT ![p] = "key"] /\ life' = [life EXCEPT ![held[p]] = "linking"]
          BY <4>1 DEF LinkNode, Step
        <5>2. q = p
          BY <1>0, <1>1, <2>3, <5>1 DEF TypeOK
        <5> QED  BY <1>0, <2>2, <5>1, <5>2 DEF TypeOK
      <4>2. ASSUME \A p \in Proc : ~LinkNode(p)  PROVE FALSE
        <5>1. ASSUME NEW p \in Proc, Return(p)  PROVE FALSE
          BY <1>0, <1>1, <2>3, <5>1 DEF Return, TypeOK
        <5>2. ASSUME NEW p \in Proc, NEW n \in Node,
                     \/ \E b \in Bucket : AppendNode(p, n, b)
                     \/ \E k \in {"before", "after"} : InsertNode(p, n, k)
                     \/ AppendRefused(p, n) \/ AccessNode(p, n) \/ DeleteByRef(p, n)
              PROVE  FALSE
          BY <1>0, <1>1, <2>3, <5>2 DEF AppendNode, InsertNode, TakeSlot, AppendRefused, AccessNode,
             DeleteByRef, Step, TypeOK, procVars
        <5>3. ASSUME NEW p \in Proc,
                     \/ FillSlot(p) \/ ScanNext(p) \/ ScanEnd(p) \/ AccessDeref(p) \/ RefDeref(p)
                     \/ DeleteNode(p) \/ RefSubmit(p) \/ RefClear(p) \/ NodePush(p)
                     \/ \E b \in Bucket : ScanBegin(p, b)
              PROVE  FALSE
          BY <1>0, <1>1, <2>3, <5>3 DEF FillSlot, ScanNext, ScanEnd, AccessDeref, RefDeref, DeleteNode,
             RefSubmit, RefClear, NodePush, ScanBegin, Step, TypeOK, procVars
        <5>4. ASSUME NEW p \in Proc, KeyNode(p) \/ AccessEnd(p) \/ RefPush(p) \/ NodeSubmit(p)
              PROVE  FALSE
          BY <5>1, <5>4 DEF KeyNode, AccessEnd, RefPush, NodeSubmit
        <5>5. ASSUME NEW p \in Proc, RefUnlink(p) \/ NodeUnlink(p)  PROVE FALSE
          BY <1>0, <1>1, <2>3, <5>1, <5>5 DEF RefUnlink, NodeUnlink, Step, TypeOK
        <5>6. ASSUME TableDelete \/ UNCHANGED vars \/ \E n \in Node : RcuFree(n)  PROVE FALSE
          BY <1>1, <2>3, <5>6 DEF TableDelete, RcuFree, vars, procVars
        <5> QED  BY <4>2, <5>2, <5>3, <5>4, <5>5, <5>6 DEF Next, Begin, Proceed
      <4> QED  BY <4>1, <4>2
    <3> QED  BY <2>1, <2>2, <2>3, <3>1, <3>2
  <2> QED  BY <2>1, <2>2, <2>3
<1>2. ASSUME NEW q \in Proc, pc'[q] = "key"  PROVE life'[held'[q]] = "linking"
  <2> SUFFICES ASSUME pc[q] = "key"  PROVE life'[held[q]] = "linking"
    BY <1>1, <1>2
  <2>1. life[held[q]] = "linking" /\ held[q] \in Node
    BY <1>0 DEF KeyInv, LocalOK, AppendPc
  <2>2. life'[held[q]] # "out"
    BY <2>1, LifeMoves, TakesLinked DEF Removed
  <2>3. life'[held[q]] # "in"
    <3> SUFFICES ASSUME life'[held[q]] = "in"  PROVE FALSE
      OBVIOUS
    <3>1. PICK p \in Proc : pc[p] = "key" /\ held[p] = held[q]
      BY <2>1, PlaceMoves
    <3>2. p = q
      BY <3>1 DEF KeyInv
    <3>3. ASSUME NEW r \in Proc, KeyNode(r)  PROVE FALSE
      <4>1. r = q
        <5>1. pc[r] = "key" /\ life' = IF life[held[r]] = "linking" THEN [life EXCEPT ![held[r]] = "in"] ELSE life
          BY <3>3 DEF KeyNode
        <5>2. held[r] = held[q]
          BY <1>0, <2>1, <5>1 DEF TypeOK
        <5> QED  BY <5>1, <5>2 DEF KeyInv
      <4>2. pc'[r] # "key"
        BY <1>0, <3>3 DEF KeyNode, Return, TypeOK
      <4> QED  BY <1>2, <4>1, <4>2
    <3>4. ASSUME NEW r \in Proc, NEW m \in Node,
                 \/ \E b \in Bucket : AppendNode(r, m, b)
                 \/ \E k \in {"before", "after"} : InsertNode(r, m, k)
                 \/ AppendRefused(r, m)
          PROVE  FALSE
      BY <1>0, <2>1, <3>4, ZenonT(30) DEF AppendNode, InsertNode, TakeSlot, AppendRefused, TypeOK
    <3>5. ASSUME NEW r \in Proc, FillSlot(r) \/ LinkNode(r) \/ RefSubmit(r) \/ NodeSubmit(r)
          PROVE  FALSE
      BY <1>0, <2>1, <3>5 DEF FillSlot, LinkNode, RefSubmit, NodeSubmit, CallRcu, nodeVars, TypeOK
    <3>6. ASSUME NEW r \in Proc, Takes(r)  PROVE FALSE
      <4>1. life' = [life EXCEPT ![held[r]] = "out"]
        BY <3>6, TakesFacts
      <4> QED  BY <1>0, <2>1, <4>1 DEF TypeOK
    <3>7. ASSUME NEW m \in Node, RcuFree(m)  PROVE FALSE
      BY <1>0, <2>1, <3>7 DEF RcuFree, TypeOK
    <3>8. life' # life
      BY <2>1
    <3> QED  BY <3>3, <3>4, <3>5, <3>6, <3>7, <3>8, StepKinds
  <2> QED  BY <2>1, <2>2, <2>3, LifeMoves DEF Removed
<1>3. ASSUME NEW p \in Proc, NEW q \in Proc, pc'[p] = "key", pc'[q] = "key", held'[p] = held'[q]
      PROVE  p = q
  <2>0. ASSUME NEW r \in Proc, pc'[r] = "key"
        PROVE  held'[r] = held[r] /\ (pc[r] = "key" \/ (pc[r] = "link" /\ life[held[r]] = "slot"))
    BY <1>1, <2>0
  <2>1. /\ held[p] = held[q]
        /\ pc[p] = "key" \/ (pc[p] = "link" /\ life[held[p]] = "slot")
        /\ pc[q] = "key" \/ (pc[q] = "link" /\ life[held[q]] = "slot")
    BY <1>3, <2>0
  <2>2. \A r \in Proc : pc[r] = "key" => life[held[r]] = "linking"
    BY DEF KeyInv
  <2>3. \/ pc[p] = "key" /\ pc[q] = "key"
        \/ pc[p] = "link" /\ pc[q] = "link"
    BY <2>1, <2>2
  <2> QED  BY <1>0, <2>1, <2>3 DEF KeyInv, SlotInv, AppendOK
<1>4. ASSUME NEW q \in Proc, pc'[q] \in {"fill", "link"}, how'[q] # "append"
      PROVE  home'[anchor'[q]] = bkt'[q]
  <2>1. ASSUME NEW n \in Node, Shown(n)  PROVE home'[n] = home[n]
    BY <2>1, PlaceMoves DEF Shown
  <2>2. ASSUME pc[q] \in {"fill", "link"}, UNCHANGED <<how[q], anchor[q], bkt[q]>>
        PROVE  home'[anchor'[q]] = bkt'[q]
    <3>1. home[anchor[q]] = bkt[q] /\ anchor[q] \in Node /\ Shown(anchor[q])
      BY <1>0, <1>4, <2>2 DEF KeyInv, LocalOK, AppendPc, SeenOK
    <3> QED  BY <2>1, <2>2, <3>1
  <2>3. CASE Stays(q)
    BY <1>4, <2>2, <2>3 DEF Stays
  <2>4. CASE GoesOn(q)
    BY <1>4, <2>2, <2>4 DEF GoesOn
  <2>5. CASE Appends(q)
    <3>1. at[q] \in Node /\ Linked(at[q]) /\ anchor'[q] = at[q] /\ bkt'[q] = home[at[q]]
      BY <1>4, <2>5 DEF Appends
    <3> QED  BY <2>1, <3>1 DEF Linked, Shown
  <2>6. ~Rests(q) /\ ~Matches(q) /\ ~Derefs(q) /\ ~Picks(q)
    BY <1>4 DEF Rests, Matches, Derefs, Picks
  <2> QED  BY <2>3, <2>4, <2>5, <2>6, ThreadMoves DEF ThreadStep
<1> QED  BY <1>2, <1>3, <1>4 DEF KeyInv

\* Where an insertion puts the node: between two neighbours of the bucket.
LEMMA LinkPlace ==
  ASSUME Inv, AppendsHome, KeyInv, Ring, NEW p \in Proc, LinkNode(p), fault' = "none",
         NEW b, b = bkt[p], NEW n, n = held[p]
  PROVE  \E pA \in Addr, nA \in Addr, nx \in Node \cup {Null}, pv \in Addr \cup {Null} :
           /\ InList(pA) /\ InList(nA) /\ Of(pA) = b /\ Of(nA) = b
           /\ Nx(pA) = nA /\ Pv(nA) = pA
           /\ OrHead(nx, b) = nA /\ OrHead(pv, b) = pA
           /\ next' = [next EXCEPT ![n] = nx, ![pA] = n]
           /\ prev' = [prev EXCEPT ![n] = pv, ![nA] = n]
<1> PICK a : a = anchor[p]
  OBVIOUS
<1>0. /\ TypeOK /\ Null \notin Node /\ Null \notin Bucket /\ Node \cap Bucket = {}
  BY McHashAssumption DEF Inv
<1>1. /\ pc[p] = "link" /\ b \in Bucket /\ b \in Addr
      /\ how[p] # "append" => a \in Node /\ a \in Addr /\ Linked(a) /\ home[a] = b
  <2>1. pc[p] = "link" /\ b \in Bucket /\ b \in Addr
    BY <1>0 DEF LinkNode, Step, TypeOK, Addr
  <2>2. ASSUME how[p] # "append"  PROVE a \in Node /\ a \in Addr /\ Linked(a) /\ home[a] = b
    <3>1. a \in Node /\ home[a] = b
      BY <2>1, <2>2 DEF KeyInv, Inv, LocalOK, AppendPc
    <3>2. fault' = IF how[p] = "append" \/ Linked(a) THEN fault ELSE "stale_anchor"
      BY DEF LinkNode
    <3> QED  BY <2>2, <3>1, <3>2 DEF Addr
  <2> QED  BY <2>1, <2>2
<1>2. InList(b) /\ Of(b) = b
  BY <1>1 DEF InList, Of
<1>3. ASSUME NEW c \in Addr, InList(c), Of(c) = b
      PROVE  /\ Pv(c) \in Addr /\ InList(Pv(c)) /\ Of(Pv(c)) = b /\ Nx(Pv(c)) = c
             /\ Nx(c) \in Addr /\ InList(Nx(c)) /\ Of(Nx(c)) = b /\ Pv(Nx(c)) = c
             /\ Pv(c) = OrHead(prev[c], b) /\ Nx(c) = OrHead(next[c], b)
             /\ prev[c] \in Addr \cup {Null} /\ next[c] \in Node \cup {Null}
  <2>1. Pv(c) = OrHead(prev[c], b) /\ Nx(c) = OrHead(next[c], b)
    BY <1>3 DEF Pv, Nx
  <2>2. prev[c] \in Addr \cup {Null} /\ next[c] \in Node \cup {Null}
    BY <1>0, <1>3 DEF TypeOK
  <2>3. Pv(c) \in Addr /\ Nx(c) \in Addr
    BY <1>1, <2>1, <2>2 DEF OrHead, Addr
  <2> QED  BY <1>3, <2>1, <2>2, <2>3 DEF Ring
<1>4. CASE how[p] = "append" /\ InsertInMiddle(b, prev[b], n, Null)
  <2>1. /\ next' = [next EXCEPT ![n] = Null, ![OrHead(prev[b], b)] = n]
        /\ prev' = [prev EXCEPT ![n] = prev[b], ![OrHead(Null, b)] = n]
    BY <1>4 DEF InsertInMiddle
  <2>2. OrHead(Null, b) = b
    BY DEF OrHead
  <2>3. /\ Pv(b) \in Addr /\ InList(Pv(b)) /\ Of(Pv(b)) = b /\ Nx(Pv(b)) = b
        /\ Pv(b) = OrHead(prev[b], b) /\ prev[b] \in Addr \cup {Null}
    BY <1>1, <1>2, <1>3
  <2>4. PICK pA \in Addr : pA = Pv(b)
    BY <2>3
  <2>5. /\ InList(pA) /\ InList(b) /\ Of(pA) = b /\ Of(b) = b
        /\ Nx(pA) = b /\ Pv(b) = pA
        /\ OrHead(Null, b) = b /\ OrHead(prev[b], b) = pA
        /\ next' = [next EXCEPT ![n] = Null, ![pA] = n]
        /\ prev' = [prev EXCEPT ![n] = prev[b], ![b] = n]
    BY <1>2, <2>1, <2>2, <2>3, <2>4
  <2> QED  BY <1>1, <2>3, <2>4, <2>5
<1>5. CASE how[p] = "before" /\ InsertInMiddle(b, prev[a], n, a)
  <2>1. /\ next' = [next EXCEPT ![n] = a, ![OrHead(prev[a], b)] = n]
        /\ prev' = [prev EXCEPT ![n] = prev[a], ![OrHead(a, b)] = n]
    BY <1>5 DEF InsertInMiddle
  <2>2. a \in Node /\ a \in Addr /\ InList(a) /\ Of(a) = b /\ OrHead(a, b) = a
    BY <1>0, <1>1, <1>5 DEF InList, Of, OrHead
  <2>3. /\ Pv(a) \in Addr /\ InList(Pv(a)) /\ Of(Pv(a)) = b /\ Nx(Pv(a)) = a
        /\ Pv(a) = OrHead(prev[a], b) /\ prev[a] \in Addr \cup {Null}
    BY <1>3, <2>2
  <2>4. PICK pA \in Addr : pA = Pv(a)
    BY <2>3
  <2>5. /\ InList(pA) /\ InList(a) /\ Of(pA) = b /\ Of(a) = b
        /\ Nx(pA) = a /\ Pv(a) = pA
        /\ OrHead(a, b) = a /\ OrHead(prev[a], b) = pA
        /\ next' = [next EXCEPT ![n] = a, ![pA] = n]
        /\ prev' = [prev EXCEPT ![n] = prev[a], ![a] = n]
    BY <2>1, <2>2, <2>3, <2>4
  <2> QED  BY <2>2, <2>3, <2>4, <2>5
<1>6. CASE how[p] = "after" /\ InsertInMiddle(b, a, n, next[a])
  <2>1. /\ next' = [next EXCEPT ![n] = next[a], ![OrHead(a, b)] = n]
        /\ prev' = [prev EXCEPT ![n] = a, ![OrHead(next[a], b)] = n]
    BY <1>6 DEF InsertInMiddle
  <2>2. a \in Node /\ a \in Addr /\ InList(a) /\ Of(a) = b /\ OrHead(a, b) = a
    BY <1>0, <1>1, <1>6 DEF InList, Of, OrHead
  <2>3. /\ Nx(a) \in Addr /\ InList(Nx(a)) /\ Of(Nx(a)) = b /\ Pv(Nx(a)) = a
        /\ Nx(a) = OrHead(next[a], b) /\ next[a] \in Node \cup {Null}
    BY <1>3, <2>2
  <2>4. PICK nA \in Addr : nA = Nx(a)
    BY <2>3
  <2>5. /\ InList(a) /\ InList(nA) /\ Of(a) = b /\ Of(nA) = b
        /\ Nx(a) = nA /\ Pv(nA) = a
        /\ OrHead(next[a], b) = nA /\ OrHead(a, b) = a
        /\ next' = [next EXCEPT ![n] = next[a], ![a] = n]
        /\ prev' = [prev EXCEPT ![n] = a, ![nA] = n]
    BY <2>1, <2>2, <2>3, <2>4
  <2> QED  BY <2>2, <2>3, <2>4, <2>5
<1>7. \/ how[p] = "append" /\ InsertInMiddle(b, prev[b], n, Null)
      \/ how[p] = "before" /\ InsertInMiddle(b, prev[a], n, a)
      \/ how[p] = "after"  /\ InsertInMiddle(b, a, n, next[a])
  BY DEF LinkNode
<1> QED  BY <1>4, <1>5, <1>6, <1>7

\* An insertion between two neighbours keeps the ring.
LEMMA RingInsert ==
  ASSUME Inv, fault = "none", fault' = "none", AppendsHome, KeyInv, Ring,
         NEW p \in Proc, LinkNode(p)
  PROVE  Ring'
<1> PICK b : b = bkt[p]
  OBVIOUS
<1> PICK n : n = held[p]
  OBVIOUS
<1>0. /\ TypeOK /\ Null \notin Node /\ Null \notin Bucket /\ Node \cap Bucket = {}
  BY McHashAssumption DEF Inv
<1>1. /\ n \in Node /\ n \in Addr /\ n \notin Bucket /\ n # Null /\ b \in Bucket
      /\ life[n] = "slot" /\ home[n] = b
      /\ life' = [life EXCEPT ![n] = "linking"] /\ home' = home
  <2>1. pc[p] = "link" /\ life' = [life EXCEPT ![n] = "linking"] /\ home' = home
    BY DEF LinkNode, Step
  <2>2. n \in Node /\ life[n] = "slot"
    BY <2>1 DEF Inv, LocalOK, SlotInv, AppendOK, AppendPc
  <2>3. home[n] = b
    BY <2>1 DEF AppendsHome, AppendPc
  <2> QED  BY <1>0, <2>1, <2>2, <2>3 DEF Addr, TypeOK
<1>2. PICK pA \in Addr, nA \in Addr, nx \in Node \cup {Null}, pv \in Addr \cup {Null} :
           /\ InList(pA) /\ InList(nA) /\ Of(pA) = b /\ Of(nA) = b
           /\ Nx(pA) = nA /\ Pv(nA) = pA
           /\ OrHead(nx, b) = nA /\ OrHead(pv, b) = pA
           /\ next' = [next EXCEPT ![n] = nx, ![pA] = n]
           /\ prev' = [prev EXCEPT ![n] = pv, ![nA] = n]
  BY LinkPlace
<1>3. ~InList(n)
  BY <1>1 DEF InList, Linked
<1>4. pA # n /\ nA # n
  BY <1>2, <1>3
<1>5. \A a \in Addr : /\ next'[a] = IF a = n THEN nx ELSE IF a = pA THEN n ELSE next[a]
                      /\ prev'[a] = IF a = n THEN pv ELSE IF a = nA THEN n ELSE prev[a]
  BY <1>0, <1>1, <1>2, <1>4 DEF TypeOK
<1>6. \A a \in Addr : Of(a)' = Of(a)
  BY <1>1 DEF Of
<1>7. \A a \in Addr : InList(a)' <=> InList(a) \/ a = n
  BY <1>0, <1>1 DEF InList, Linked, TypeOK
<1>8. Of(n) = b
  BY <1>1 DEF Of
<1>9. \A a \in Addr : /\ Nx(a)' = IF a = n THEN nA ELSE IF a = pA THEN n ELSE Nx(a)
                      /\ Pv(a)' = IF a = n THEN pA ELSE IF a = nA THEN n ELSE Pv(a)
  <2> SUFFICES ASSUME NEW a \in Addr
               PROVE  /\ OrHead(next'[a], Of(a)) = IF a = n THEN nA ELSE IF a = pA THEN n ELSE Nx(a)
                      /\ OrHead(prev'[a], Of(a)) = IF a = n THEN pA ELSE IF a = nA THEN n ELSE Pv(a)
    BY <1>6 DEF Nx, Pv
  <2>1. OrHead(n, Of(a)) = n
    BY <1>1 DEF OrHead
  <2>2. OrHead(nx, b) = nA /\ OrHead(pv, b) = pA
    BY <1>2
  <2>3. CASE a = n
    BY <1>5, <1>8, <2>2, <2>3
  <2>4. CASE a # n
    BY <1>5, <2>1, <2>4 DEF Nx, Pv
  <2> QED  BY <2>3, <2>4
<1>10. ASSUME NEW a \in Addr, InList(a) \/ a = n
       PROVE  /\ Nx(a)' \in Addr /\ (InList(Nx(a)') \/ Nx(a)' = n) /\ Of(Nx(a)') = Of(a)
              /\ Pv(a)' \in Addr /\ (InList(Pv(a)') \/ Pv(a)' = n) /\ Of(Pv(a)') = Of(a)
  <2>1. CASE a = n
    BY <1>2, <1>8, <1>9, <2>1
  <2>2. CASE a # n
    <3>1. InList(Nx(a)) /\ Of(Nx(a)) = Of(a) /\ InList(Pv(a)) /\ Of(Pv(a)) = Of(a)
      BY <1>10, <2>2 DEF Ring
    <3>2. Nx(a) \in Addr /\ Pv(a) \in Addr
      BY <3>1 DEF InList, Addr
    <3>3. Of(pA) = b /\ Of(nA) = b
      BY <1>2
    <3> QED  BY <1>1, <1>8, <1>9, <2>2, <3>1, <3>2, <3>3
  <2> QED  BY <2>1, <2>2
<1>11. ASSUME NEW a \in Addr, InList(a), a # n
       PROVE  /\ InList(Nx(a)) /\ Nx(a) \in Addr /\ Nx(a) # n /\ Pv(Nx(a)) = a
              /\ InList(Pv(a)) /\ Pv(a) \in Addr /\ Pv(a) # n /\ Nx(Pv(a)) = a
  BY <1>3, <1>11 DEF Ring, InList, Addr
<1>12. ASSUME NEW a \in Addr, InList(a) \/ a = n, NEW c \in Addr, c = Nx(a)'
       PROVE  Pv(c)' = a
  <2>1. CASE a = n
    BY <1>2, <1>4, <1>9, <1>12, <2>1
  <2>2. CASE a = pA
    BY <1>4, <1>9, <1>12, <2>2
  <2>3. CASE a # n /\ a # pA
    <3>1. c = Nx(a) /\ InList(a)
      BY <1>9, <1>12, <2>3
    <3>2. c # nA
      BY <1>2, <1>11, <2>3, <3>1
    <3> QED  BY <1>9, <1>11, <2>3, <3>1, <3>2
  <2> QED  BY <2>1, <2>2, <2>3
<1>13. ASSUME NEW a \in Addr, InList(a) \/ a = n, NEW c \in Addr, c = Pv(a)'
       PROVE  Nx(c)' = a
  <2>1. CASE a = n
    BY <1>2, <1>4, <1>9, <1>13, <2>1
  <2>2. CASE a = nA
    BY <1>4, <1>9, <1>13, <2>2
  <2>3. CASE a # n /\ a # nA
    <3>1. c = Pv(a) /\ InList(a)
      BY <1>9, <1>13, <2>3
    <3>2. c # pA
      BY <1>2, <1>11, <2>3, <3>1
    <3> QED  BY <1>9, <1>11, <2>3, <3>1, <3>2
  <2> QED  BY <2>1, <2>2, <2>3
<1>14. ASSUME NEW a \in Addr, InList(a)'
       PROVE  /\ InList(Nx(a))' /\ (Of(Nx(a)) = Of(a))' /\ (Pv(Nx(a)) = a)'
              /\ InList(Pv(a))' /\ (Of(Pv(a)) = Of(a))' /\ (Nx(Pv(a)) = a)'
  <2>1. InList(a) \/ a = n
    BY <1>7, <1>14
  <2>2. PICK c \in Addr : c = Nx(a)'
    BY <1>10, <2>1
  <2>3. PICK d \in Addr : d = Pv(a)'
    BY <1>10, <2>1
  <2>4. InList(c)' /\ Of(c)' = Of(a)' /\ Pv(c)' = a
    BY <1>6, <1>7, <1>10, <1>12, <2>1, <2>2
  <2>5. InList(d)' /\ Of(d)' = Of(a)' /\ Nx(d)' = a
    BY <1>6, <1>7, <1>10, <1>13, <2>1, <2>3
  <2> QED  BY <2>2, <2>3, <2>4, <2>5
<1> QED  BY <1>14 DEF Ring

\* Taking a node out of its bucket keeps the ring.
LEMMA RingUnlink ==
  ASSUME Inv, Ring, NEW p \in Proc, Takes(p), fault' = "none"
  PROVE  Ring'
<1> PICK b : b = bkt[p]
  OBVIOUS
<1> PICK n : n = held[p]
  OBVIOUS
<1>0. /\ TypeOK /\ Null \notin Node /\ Null \notin Bucket /\ Node \cap Bucket = {}
  BY McHashAssumption DEF Inv
<1>1. /\ n \in Node /\ n \in Addr /\ n \notin Bucket /\ home[n] = b /\ Linked(n)
      /\ life' = [life EXCEPT ![n] = "out"] /\ home' = home /\ Unlink(n, b)
  <2>1. /\ n \in Node /\ home' = home /\ home[n] = b /\ Linked(n)
        /\ life' = [life EXCEPT ![n] = "out"] /\ Unlink(n, b)
    BY TakesFacts
  <2> QED  BY <1>0, <2>1 DEF Addr
<1>2. InList(n) /\ Of(n) = b
  BY <1>1 DEF InList, Of
<1>3. /\ InList(Nx(n)) /\ Of(Nx(n)) = b /\ Pv(Nx(n)) = n /\ Nx(n) \in Addr
      /\ InList(Pv(n)) /\ Of(Pv(n)) = b /\ Nx(Pv(n)) = n /\ Pv(n) \in Addr
  BY <1>1, <1>2 DEF Ring, InList, Addr
<1>4. PICK pA \in Addr : pA = Pv(n)
  BY <1>3
<1>5. PICK nA \in Addr : nA = Nx(n)
  BY <1>3
<1>6. \A a \in Addr : /\ next'[a] = IF a = pA THEN next[n] ELSE next[a]
                      /\ prev'[a] = IF a = nA THEN pA ELSE prev[a]
  BY <1>0, <1>1, <1>2, <1>4, <1>5 DEF Unlink, Pv, Nx, TypeOK
<1>7. \A a \in Addr : Of(a)' = Of(a)
  BY <1>1 DEF Of
<1>8. \A a \in Addr : InList(a)' <=> InList(a) /\ a # n
  BY <1>0, <1>1 DEF InList, Linked, TypeOK
<1>9. \A a \in Addr : /\ Nx(a)' = IF a = pA THEN nA ELSE Nx(a)
                      /\ Pv(a)' = IF a = nA THEN pA ELSE Pv(a)
  <2> SUFFICES ASSUME NEW a \in Addr
               PROVE  /\ OrHead(next'[a], Of(a)) = IF a = pA THEN nA ELSE Nx(a)
                      /\ OrHead(prev'[a], Of(a)) = IF a = nA THEN pA ELSE Pv(a)
    BY <1>7 DEF Nx, Pv
  <2>1. OrHead(next[n], b) = nA /\ Of(pA) = b
    BY <1>2, <1>3, <1>4, <1>5 DEF Nx
  <2>2. OrHead(pA, Of(a)) = pA
    BY <1>0 DEF OrHead, Addr
  <2>3. OrHead(next'[a], Of(a)) = IF a = pA THEN nA ELSE Nx(a)
    BY <1>6, <2>1 DEF Nx
  <2>4. OrHead(prev'[a], Of(a)) = IF a = nA THEN pA ELSE Pv(a)
    BY <1>6, <2>2 DEF Pv
  <2> QED  BY <2>3, <2>4
<1>10. ASSUME NEW a \in Addr, InList(a)
       PROVE  /\ InList(Nx(a)) /\ Nx(a) \in Addr /\ Of(Nx(a)) = Of(a) /\ Pv(Nx(a)) = a
              /\ InList(Pv(a)) /\ Pv(a) \in Addr /\ Of(Pv(a)) = Of(a) /\ Nx(Pv(a)) = a
  BY <1>10 DEF Ring, InList, Addr
<1>11. Nx(pA) = n /\ Pv(nA) = n /\ Of(pA) = b /\ Of(nA) = b /\ InList(pA) /\ InList(nA)
  BY <1>3, <1>4, <1>5
<1>12. ASSUME NEW a \in Addr, InList(a), a # n, NEW c \in Addr, c = Nx(a)'
       PROVE  InList(c) /\ c # n /\ Of(c) = Of(a) /\ Pv(c)' = a
  <2>1. CASE a = pA
    <3>1. c = nA
      BY <1>9, <1>12, <2>1
    <3>2. nA # n
      BY <1>4, <1>11, <1>12, <2>1
    <3> QED  BY <1>9, <1>11, <2>1, <3>1, <3>2
  <2>2. CASE a # pA
    <3>1. c = Nx(a)
      BY <1>9, <1>12, <2>2
    <3>2. c # n
      BY <1>4, <1>10, <1>12, <2>2, <3>1
    <3>3. c # nA
      BY <1>10, <1>11, <1>12, <3>1
    <3> QED  BY <1>9, <1>10, <1>12, <3>1, <3>2, <3>3
  <2> QED  BY <2>1, <2>2
<1>13. ASSUME NEW a \in Addr, InList(a), a # n, NEW c \in Addr, c = Pv(a)'
       PROVE  InList(c) /\ c # n /\ Of(c) = Of(a) /\ Nx(c)' = a
  <2>1. CASE a = nA
    <3>1. c = pA
      BY <1>9, <1>13, <2>1
    <3>2. pA # n
      BY <1>5, <1>11, <1>13, <2>1
    <3> QED  BY <1>9, <1>11, <2>1, <3>1, <3>2
  <2>2. CASE a # nA
    <3>1. c = Pv(a)
      BY <1>9, <1>13, <2>2
    <3>2. c # n
      BY <1>5, <1>10, <1>13, <2>2, <3>1
    <3>3. c # pA
      BY <1>10, <1>11, <1>13, <3>1
    <3> QED  BY <1>9, <1>10, <1>13, <3>1, <3>2, <3>3
  <2> QED  BY <2>1, <2>2
<1>14. ASSUME NEW a \in Addr, InList(a)'
       PROVE  /\ InList(Nx(a))' /\ (Of(Nx(a)) = Of(a))' /\ (Pv(Nx(a)) = a)'
              /\ InList(Pv(a))' /\ (Of(Pv(a)) = Of(a))' /\ (Nx(Pv(a)) = a)'
  <2>1. InList(a) /\ a # n
    BY <1>8, <1>14
  <2>2. PICK c \in Addr : c = Nx(a)'
    BY <1>5, <1>9, <1>10, <2>1
  <2>3. PICK d \in Addr : d = Pv(a)'
    BY <1>4, <1>9, <1>10, <2>1
  <2>4. InList(c)' /\ Of(c)' = Of(a)' /\ Pv(c)' = a
    BY <1>7, <1>8, <1>12, <2>1, <2>2
  <2>5. InList(d)' /\ Of(d)' = Of(a)' /\ Nx(d)' = a
    BY <1>7, <1>8, <1>13, <2>1, <2>3
  <2> QED  BY <2>2, <2>3, <2>4, <2>5
<1> QED  BY <1>14 DEF Ring

\* Every step that does not end the process keeps the rings.
LEMMA RingNext ==
  ASSUME Inv, fault = "none", fault' = "none", AppendsHome, KeyInv, Ring,
         [Next]_vars
  PROVE  Ring'
<1>1. CASE /\ UNCHANGED <<next, prev>>
           /\ \A n \in Node : /\ life'[n] \in {"linking", "in"} <=> life[n] \in {"linking", "in"}
                              /\ life[n] \in {"linking", "in"} => home'[n] = home[n]
  <2>1. \A a \in Addr : /\ InList(a)' <=> InList(a)
                        /\ InList(a) => Of(a)' = Of(a)
    BY <1>1 DEF InList, Linked, Of, Addr
  <2>2. \A a \in Addr : InList(a) => Nx(a)' = Nx(a) /\ Pv(a)' = Pv(a)
    BY <1>1, <2>1 DEF Nx, Pv
  <2>3. ASSUME NEW a \in Addr, InList(a)'
        PROVE  /\ InList(Nx(a))' /\ (Of(Nx(a)) = Of(a))' /\ (Pv(Nx(a)) = a)'
               /\ InList(Pv(a))' /\ (Of(Pv(a)) = Of(a))' /\ (Nx(Pv(a)) = a)'
    <3>1. /\ InList(a) /\ InList(Nx(a)) /\ Of(Nx(a)) = Of(a) /\ Pv(Nx(a)) = a
          /\ InList(Pv(a)) /\ Of(Pv(a)) = Of(a) /\ Nx(Pv(a)) = a
      BY <2>1, <2>3 DEF Ring
    <3>2. PICK c \in Addr : c = Nx(a)
      BY <3>1 DEF InList, Addr
    <3>3. PICK d \in Addr : d = Pv(a)
      BY <3>1 DEF InList, Addr
    <3>4. Nx(a)' = c /\ InList(c)' /\ Of(c)' = Of(a)' /\ Pv(c)' = a
      BY <2>1, <2>2, <3>1, <3>2
    <3>5. Pv(a)' = d /\ InList(d)' /\ Of(d)' = Of(a)' /\ Nx(d)' = a
      BY <2>1, <2>2, <3>1, <3>3
    <3> QED  BY <3>4, <3>5
  <2> QED  BY <2>3 DEF Ring
<1> QED  BY <1>1, LinksMove, RingInsert, RingUnlink

-----------------------------------------------------------------------------
(* The readers.                                                             *)

\* The grace period of a node cannot end before the read section of p.
Shield(p, n) == life[n] \in {"linking", "in", "out"} \/ (life[n] = "rcu" /\ p \in wait[n])
Kept(p, n) == life[n] = "slot" \/ Shield(p, n)

\* A scan stays in a set of nodes that no link leads out of.
Walk(p, R) ==
  /\ at[p] \in R
  /\ \A a \in R : next[a] # Null => next[a] \in R
  /\ \A n \in R \cap Node : Shield(p, n)

\* What a thread holds, or is about to read from a slot, is not freed under it.
ReadInv ==
  \A p \in Proc :
    /\ at[p] # Null => \E R \in SUBSET Addr : Walk(p, R)
    /\ pc[p] \in {"deref", "ref_deref"} /\ snode[idx[p]] # Null => Kept(p, snode[idx[p]])
    /\ pc[p] \notin AppendPc /\ held[p] # Null => Kept(p, held[p])

\* A callback waits for the end of every read section that was open when it was submitted.
LEMMA WaitMoves ==
  ASSUME Inv, [Next]_vars, NEW q \in Proc, NEW n \in Node, q \in wait[n], Reading(q), Reading(q)'
  PROVE  q \in wait'[n]
<1>0. TypeOK
  BY DEF Inv
<1>1. ASSUME NEW p \in Proc, Return(p), EndRead(p)  PROVE q \in wait'[n]
  <2>1. CASE at[p] = Null
    <3>1. pc'[p] = "idle" /\ at'[p] = Null
      BY <1>0, <1>1, <2>1, ReturnFacts
    <3>2. p # q
      BY <3>1 DEF Reading, RefPc, NodePc
    <3> QED  BY <1>0, <1>1, <2>1, <3>2 DEF EndRead, TypeOK
  <2>2. CASE at[p] # Null
    BY <1>1, <2>2 DEF EndRead
  <2> QED  BY <2>1, <2>2
<1>2. ASSUME NEW m \in Node, CallRcu(m)  PROVE q \in wait'[n]
  <2>1. wait' = [wait EXCEPT ![m] = Readers] /\ q \in Readers
    BY <1>2 DEF CallRcu, Readers
  <2> QED  BY <1>0, <2>1 DEF TypeOK
<1>3. CASE wait' = wait
  BY <1>3
<1>4. ASSUME NEW p \in Proc, NEW m \in Node,
             \/ \E b \in Bucket : AppendNode(p, m, b)
             \/ \E k \in {"before", "after"} : InsertNode(p, m, k)
             \/ AppendRefused(p, m) \/ AccessNode(p, m) \/ DeleteByRef(p, m)
      PROVE  q \in wait'[n]
  BY <1>3, <1>4 DEF AppendNode, InsertNode, TakeSlot, AppendRefused, AccessNode, DeleteByRef
<1>5. ASSUME NEW p \in Proc,
             \/ FillSlot(p) \/ LinkNode(p) \/ ScanNext(p) \/ AccessDeref(p) \/ RefDeref(p)
             \/ DeleteNode(p) \/ RefClear(p) \/ NodePush(p)
             \/ \E b \in Bucket : ScanBegin(p, b)
      PROVE  q \in wait'[n]
  BY <1>3, <1>5 DEF FillSlot, LinkNode, ScanNext, AccessDeref, RefDeref, DeleteNode, RefClear, NodePush,
     ScanBegin
<1>6. ASSUME NEW p \in Proc, KeyNode(p) \/ AccessEnd(p) \/ RefPush(p)  PROVE q \in wait'[n]
  BY <1>1, <1>6 DEF KeyNode, AccessEnd, RefPush
<1>7. ASSUME NEW p \in Proc, RefUnlink(p) \/ NodeUnlink(p)  PROVE q \in wait'[n]
  BY <1>1, <1>3, <1>7 DEF RefUnlink, NodeUnlink
<1>8. ASSUME NEW p \in Proc, RefSubmit(p) \/ NodeSubmit(p)  PROVE q \in wait'[n]
  <2>1. CallRcu(held[p]) /\ held[p] \in Node
    BY <1>8 DEF RefSubmit, NodeSubmit, Step, Inv, LocalOK, RefHeldPc, NodePc
  <2> QED  BY <1>2, <2>1
<1>9. ASSUME NEW p \in Proc, ScanEnd(p)  PROVE q \in wait'[n]
  <2>1. pc'[p] = "idle" /\ at'[p] = Null /\ wait' = [m \in Node |-> wait[m] \ {p}]
    BY <1>0, <1>9 DEF ScanEnd, Step, TypeOK
  <2>2. p # q
    BY <2>1 DEF Reading, RefPc, NodePc
  <2> QED  BY <2>1, <2>2
<1>10. ASSUME TableDelete \/ UNCHANGED vars \/ \E m \in Node : RcuFree(m)  PROVE q \in wait'[n]
  BY <1>3, <1>10 DEF TableDelete, RcuFree, vars
<1> QED  BY <1>4, <1>5, <1>6, <1>7, <1>8, <1>9, <1>10 DEF Next, Begin, Proceed

\* A thread that goes on reading keeps what it can come across.
LEMMA KeptStays ==
  ASSUME Inv, [Next]_vars, NEW q \in Proc, NEW n \in Node, Reading(q), Reading(q)'
  PROVE  Kept(q, n) => Kept(q, n)' /\ (life[n] # "slot" => Shield(q, n)')
<1> SUFFICES ASSUME Kept(q, n)
             PROVE  \/ life'[n] \in {"linking", "in", "out"}
                    \/ life'[n] = "rcu" /\ q \in wait'[n]
                    \/ life'[n] = "slot" /\ life[n] = "slot"
  BY DEF Kept, Shield
<1>1. \/ life[n] \in {"slot", "linking", "in", "out"}
      \/ life[n] = "rcu" /\ q \in wait[n] /\ wait[n] # {}
  BY DEF Kept, Shield
<1>2. q \in Readers
  BY DEF Readers
<1>3. CASE life'[n] = life[n]
  BY <1>1, <1>3, WaitMoves
<1>4. CASE life'[n] # life[n]
  BY <1>1, <1>2, <1>4, LifeMoves
<1> QED  BY <1>3, <1>4

\* A node that is in a slot is kept for whoever reads the slot next.
LEMMA OwnedKept ==
  ASSUME Inv, [Next]_vars, NEW q \in Proc, NEW n \in Node, life[n] \in Owned
  PROVE  Kept(q, n)'
<1>1. life'[n] \in {"slot", "linking", "in", "out"}
  BY LifeMoves DEF Owned, Removed
<1> QED  BY <1>1 DEF Kept, Shield

\* What can be read from a slot after a step was there before, or has just been put there.
LEMMA SlotKept ==
  ASSUME Inv, [Next]_vars, NEW q \in Proc, NEW s \in Slot, snode'[s] # Null,
         snode'[s] # snode[s]
  PROVE  \E n \in Node : n = snode'[s] /\ Kept(q, n)'
<1>0. TypeOK /\ LocalOK
  BY DEF Inv
<1>1. PICK p \in Proc : pc[p] = "fill" /\ idx[p] = s /\ FillSlot(p)
  BY SlotMoves
<1>2. PICK n : n = held[p]
  OBVIOUS
<1>3. snode' = [snode EXCEPT ![s] = n] /\ life' = life /\ fault = "none" /\ n \in Node
  BY <1>0, <1>1, <1>2 DEF FillSlot, nodeVars, Up, LocalOK, AppendPc
<1>4. snode'[s] = n /\ life'[n] = "slot"
  BY <1>0, <1>1, <1>2, <1>3 DEF TypeOK, Inv, SlotInv, AppendOK
<1>5. Kept(q, n)'
  BY <1>4 DEF Kept
<1> QED  BY <1>3, <1>4, <1>5

\* A scan stays in what it can come across, with the nodes that are linked there.
LEMMA WalkIn ==
  ASSUME Inv, [Next]_vars, NEW q \in Proc, NEW R \in SUBSET Addr, Walk(q, R),
         at[q] # Null, at'[q] # Null, \A b \in Bucket : ~ScanBegin(q, b),
         NEW S \in SUBSET Addr, R \subseteq S,
         \A a \in S : next'[a] # Null => next'[a] \in S,
         \A n \in S \ R : n \in Node => life'[n] = "linking"
  PROVE  Walk(q, S)'
<1>1. /\ at[q] \in R
      /\ \A a \in R : next[a] # Null => next[a] \in R
      /\ \A n \in R \cap Node : Shield(q, n)
  BY DEF Walk
<1>2. at'[q] \in R
  <2>1. at'[q] = at[q] \/ at'[q] = next[at[q]]
    BY AtMoves
  <2> QED  BY <1>1, <2>1
<1>3. ASSUME NEW n \in Node, Shield(q, n)  PROVE Shield(q, n)'
  <2>1. Reading(q) /\ Reading(q)'
    BY DEF Reading
  <2>2. Kept(q, n) /\ life[n] # "slot"
    BY <1>3 DEF Shield, Kept
  <2> QED  BY <2>1, <2>2, KeptStays
<1>4. \A n \in S \cap Node : Shield(q, n)'
  BY <1>1, <1>3 DEF Shield
<1> QED  BY <1>2, <1>4 DEF Walk

\* The step of another thread leads a scan nowhere else.
LEMMA WalkStays ==
  ASSUME Inv, fault = "none", fault' = "none", AppendsHome, KeyInv, Ring,
         [Next]_vars, NEW q \in Proc, NEW R \in SUBSET Addr, Walk(q, R),
         at[q] # Null, at'[q] # Null, \A b \in Bucket : ~ScanBegin(q, b)
  PROVE  \E S \in SUBSET Addr : Walk(q, S)'
<1>0. /\ TypeOK /\ Null \notin Node /\ Null \notin Bucket /\ Node \cap Bucket = {}
  BY McHashAssumption DEF Inv
<1>1. /\ \A a \in R : next[a] # Null => next[a] \in R
      /\ \A n \in R \cap Node : Shield(q, n)
  BY DEF Walk
<1>2. ASSUME \A a \in R : next'[a] # Null => next'[a] \in R
      PROVE  \E S \in SUBSET Addr : Walk(q, S)'
  BY <1>2, WalkIn
<1>3. ASSUME NEW p \in Proc, LinkNode(p)
      PROVE  \E S \in SUBSET Addr : Walk(q, S)'
  <2> PICK b : b = bkt[p]
    OBVIOUS
  <2> PICK n : n = held[p]
    OBVIOUS
  <2>1. n \in Node /\ n \in Addr /\ n # Null /\ life[n] = "slot" /\ life' = [life EXCEPT ![n] = "linking"]
        /\ b \in Bucket
    <3>1. pc[p] = "link" /\ life' = [life EXCEPT ![n] = "linking"]
      BY <1>3 DEF LinkNode, Step
    <3> QED  BY <1>0, <3>1 DEF Inv, LocalOK, SlotInv, AppendOK, AppendPc, Addr, TypeOK
  <2>2. PICK pA \in Addr, nA \in Addr, nx \in Node \cup {Null}, pv \in Addr \cup {Null} :
             /\ InList(pA) /\ InList(nA) /\ Of(pA) = b /\ Of(nA) = b
             /\ Nx(pA) = nA /\ Pv(nA) = pA
             /\ OrHead(nx, b) = nA /\ OrHead(pv, b) = pA
             /\ next' = [next EXCEPT ![n] = nx, ![pA] = n]
             /\ prev' = [prev EXCEPT ![n] = pv, ![nA] = n]
    BY <1>3, LinkPlace
  <2>3. n \notin R /\ pA # n
    <3>1. ~Shield(q, n)
      BY <2>1 DEF Shield
    <3>2. ~InList(n)
      BY <1>0, <2>1 DEF InList, Linked
    <3> QED  BY <1>1, <2>1, <2>2, <3>1, <3>2
  <2>4. \A a \in Addr : next'[a] = IF a = n THEN nx ELSE IF a = pA THEN n ELSE next[a]
    BY <1>0, <2>1, <2>2, <2>3 DEF TypeOK
  <2>5. CASE pA \notin R
    <3>1. \A a \in R : next'[a] = next[a]
      BY <2>3, <2>4, <2>5
    <3> QED  BY <1>1, <1>2, <3>1
  <2>6. CASE pA \in R
    <3>1. nx # Null => nx \in R
      <4> SUFFICES ASSUME nx # Null  PROVE nx \in R
        OBVIOUS
      <4>1. nA = nx /\ nx \in Node
        BY <2>2 DEF OrHead
      <4>2. next[pA] = nx
        BY <1>0, <2>1, <2>2, <4>1 DEF Nx, OrHead
      <4> QED  BY <1>1, <2>6, <4>2
    <3>2. \A a \in R \cup {n} : next'[a] # Null => next'[a] \in R \cup {n}
      BY <1>1, <2>3, <2>4, <2>1, <3>1
    <3>3. life'[n] = "linking"
      BY <1>0, <2>1 DEF TypeOK
    <3>4. Walk(q, R \cup {n})'
      BY <2>1, <3>2, <3>3, WalkIn
    <3> QED  BY <2>1, <3>4
  <2> QED  BY <2>5, <2>6
<1>4. ASSUME NEW p \in Proc, Takes(p)
      PROVE  \E S \in SUBSET Addr : Walk(q, S)'
  <2> PICK b : b = bkt[p]
    OBVIOUS
  <2> PICK n : n = held[p]
    OBVIOUS
  <2>1. /\ n \in Node /\ n \in Addr /\ n # Null /\ home[n] = b /\ Linked(n) /\ Unlink(n, b)
        /\ Of(n) = b /\ b \in Bucket
    <3>1. n \in Node /\ Unlink(n, b) /\ Linked(n) /\ home[n] = b
      BY <1>4, TakesFacts
    <3> QED  BY <1>0, <3>1 DEF Addr, Of, TypeOK
  <2>2. InList(n) /\ InList(Pv(n)) /\ Nx(Pv(n)) = n /\ Of(Pv(n)) = b
    BY <2>1 DEF Ring, InList
  <2>3. PICK pA : pA = Pv(n)
    OBVIOUS
  <2>4. pA \in Addr /\ next[pA] = n
    <3>1. pA \in Addr
      BY <2>2, <2>3 DEF InList, Addr
    <3>2. OrHead(next[pA], b) = n /\ n # b
      BY <1>0, <2>1, <2>2, <2>3 DEF Nx
    <3> QED  BY <3>1, <3>2 DEF OrHead
  <2>5. \A a \in Addr : next'[a] = IF a = pA THEN next[n] ELSE next[a]
    BY <1>0, <2>1, <2>3, <2>4 DEF Unlink, Pv, TypeOK
  <2>6. \A a \in R : next'[a] # Null => next'[a] \in R
    BY <1>1, <2>1, <2>4, <2>5
  <2> QED  BY <1>2, <2>6
<1>5. CASE next' = next
  BY <1>1, <1>2, <1>5
<1> QED  BY <1>3, <1>4, <1>5, LinksMove

\* What a scan starts from: the head and the nodes of every bucket.
LEMMA WalkBegins ==
  ASSUME Inv, Ring, NEW q \in Proc, NEW b \in Bucket, ScanBegin(q, b)
  PROVE  \E S \in SUBSET Addr : Walk(q, S)'
<1>0. TypeOK /\ Null \notin Node /\ Null \notin Bucket /\ Node \cap Bucket = {}
  BY McHashAssumption DEF Inv
<1> PICK R : R = {a \in Addr : InList(a)}
  OBVIOUS
<1>1. at'[q] = b /\ next' = next /\ life' = life
  BY <1>0 DEF ScanBegin, TypeOK, shared, listVars, nodeVars
<1>2. b \in R
  BY DEF InList, Addr
<1>3. \A a \in R : next[a] # Null => next[a] \in R
  <2> SUFFICES ASSUME NEW a \in R, next[a] # Null  PROVE next[a] \in R
    OBVIOUS
  <2>1. a \in Addr /\ InList(a)
    OBVIOUS
  <2>2. InList(Nx(a))
    BY <2>1 DEF Ring
  <2>3. Nx(a) = next[a] /\ next[a] \in Node
    BY <1>0, <2>1 DEF Nx, OrHead, TypeOK
  <2> QED  BY <2>2, <2>3 DEF Addr
<1>4. \A n \in R \cap Node : life[n] \in {"linking", "in", "out"}
  BY <1>0 DEF InList, Linked, Addr
<1>5. \A n \in R \cap Node : Shield(q, n)'
  BY <1>1, <1>4 DEF Shield
<1>6. Walk(q, R)'
  BY <1>1, <1>2, <1>3, <1>5 DEF Walk
<1> QED  BY <1>6

\* A slot whose magic number a reader has compared points to nothing, or to its owner.
LEMMA MatchKept ==
  ASSUME Inv, fault = "none", NEW n \in Node, HasRef(n), MagicMatches(n),
         snode[index[n]] # Null
  PROVE  snode[index[n]] \in Node /\ life[snode[index[n]]] \in Owned
<1> PICK s : s = index[n]
  OBVIOUS
<1>0. TypeOK /\ SlotInv
  BY DEF Inv
<1>1. s \in Slot /\ smagic[s] # 0 /\ snode[s] # Null /\ snode[s] \in Node
  BY <1>0 DEF HasRef, MagicMatches, TypeOK
<1>2. ~FreeSlot(s)
  BY <1>0, <1>1 DEF SlotInv, Partition
<1>3. ASSUME NEW p \in Proc, Gives(p), idx[p] = s  PROVE FALSE
  BY <1>0, <1>1, <1>3 DEF Gives, SlotInv, AppendOK, DeleteOK
<1>4. life[snode[s]] \in Owned
  BY <1>0, <1>1, <1>2, <1>3 DEF SlotInv, Partition
<1> QED  BY <1>1, <1>4

\* Every step that does not end the process keeps what readers rely on.
LEMMA ReadNext ==
  ASSUME Inv, fault = "none", fault' = "none", SeenOK, RolesOK, AppendsHome,
         KeyInv, Ring, ReadInv, [Next]_vars
  PROVE  ReadInv'
<1>0. TypeOK /\ TypeOK' /\ LocalOK /\ Null \notin Node
  BY NextInv, McHashAssumption DEF Inv
<1>1. ASSUME NEW q \in Proc, at'[q] # Null  PROVE \E S \in SUBSET Addr : Walk(q, S)'
  <2>1. CASE \E b \in Bucket : ScanBegin(q, b)
    BY <2>1, WalkBegins
  <2>2. CASE \A b \in Bucket : ~ScanBegin(q, b)
    <3>1. at[q] # Null
      BY <1>0, <1>1, <2>2, AtMoves DEF LocalOK
    <3>2. PICK R \in SUBSET Addr : Walk(q, R)
      BY <3>1 DEF ReadInv
    <3> QED  BY <1>1, <2>2, <3>1, <3>2, WalkStays
  <2> QED  BY <2>1, <2>2
<1>2. ASSUME NEW q \in Proc, NEW s \in Slot, snode'[s] # Null,
             snode'[s] = snode[s] => \E n \in Node : n = snode[s] /\ Kept(q, n)'
      PROVE  \E n \in Node : n = snode'[s] /\ Kept(q, n)'
  BY <1>2, SlotKept
<1>3. ASSUME NEW q \in Proc, pc[q] \in {"deref", "ref_deref"}, snode[idx[q]] # Null,
             pc'[q] \in {"deref", "ref_deref", "hold", "ref_lock"}
      PROVE  \E n \in Node : n = snode[idx[q]] /\ Kept(q, n)'
  <2>1. PICK n \in Node : n = snode[idx[q]]
    BY <1>0, <1>3 DEF TypeOK
  <2>2. Kept(q, n)
    BY <1>3, <2>1 DEF ReadInv
  <2>3. Reading(q) /\ Reading(q)'
    BY <1>3 DEF Reading, RefPc
  <2> QED  BY <2>1, <2>2, <2>3, KeptStays
<1>4. ASSUME NEW q \in Proc, pc'[q] \in {"deref", "ref_deref"}, snode'[idx'[q]] # Null
      PROVE  \E n \in Node : n = snode'[idx'[q]] /\ Kept(q, n)'
  <2>1. PICK s \in Slot : s = idx'[q]
    BY <1>0 DEF TypeOK
  <2>2. ASSUME snode'[s] = snode[s]  PROVE \E n \in Node : n = snode[s] /\ Kept(q, n)'
    <3>1. CASE Stays(q)
      BY <1>3, <1>4, <2>1, <2>2, <3>1 DEF Stays
    <3>2. CASE Matches(q)
      <4>1. PICK m \in Node : HasRef(m) /\ MagicMatches(m) /\ s = index[m]
        BY <2>1, <3>2 DEF Matches
      <4>2. PICK n \in Node : n = snode[s] /\ life[n] \in Owned
        BY <1>4, <2>1, <2>2, <4>1, MatchKept
      <4> QED  BY <4>2, OwnedKept
    <3>3. ~Rests(q) /\ ~Appends(q) /\ ~GoesOn(q) /\ ~Derefs(q) /\ ~Picks(q)
      BY <1>4 DEF Rests, Appends, GoesOn, Derefs, Picks
    <3> QED  BY <3>1, <3>2, <3>3, ThreadMoves DEF ThreadStep
  <2> QED  BY <1>2, <1>4, <2>1, <2>2
<1>5. ASSUME NEW q \in Proc, pc'[q] \notin AppendPc, held'[q] # Null
      PROVE  \E n \in Node : n = held'[q] /\ Kept(q, n)'
  <2>0. pc[q] \in Pc /\ pc'[q] \in Pc
    BY <1>0 DEF TypeOK
  <2>1. ASSUME held'[q] = held[q], pc[q] \notin AppendPc
        PROVE  \E n \in Node : n = held'[q] /\ Kept(q, n)'
    <3>1. PICK n \in Node : n = held[q]
      BY <1>0, <1>5, <2>1 DEF TypeOK
    <3>2. Kept(q, n)
      BY <1>0, <2>1, <3>1 DEF ReadInv
    <3>3. pc[q] \notin {"idle", "scan", "deref", "ref_deref"}
      BY <1>0, <3>1 DEF RolesOK
    <3>4. pc'[q] \notin {"idle", "scan", "deref", "ref_deref"}
      BY <1>5, RolesNext DEF RolesOK
    <3>5. Reading(q) /\ Reading(q)'
      BY <1>5, <2>0, <2>1, <3>3, <3>4 DEF Reading, Pc, RefPc
    <3> QED  BY <2>1, <3>1, <3>2, <3>5, KeptStays
  <2>2. CASE Stays(q)
    BY <1>5, <2>1, <2>2 DEF Stays
  <2>3. CASE Rests(q)
    BY <1>5, <2>1, <2>3 DEF Rests, AppendPc
  <2>4. CASE Appends(q)
    BY <1>5, <2>4 DEF Appends, AppendPc
  <2>5. CASE GoesOn(q)
    BY <1>5, <2>1, <2>5 DEF GoesOn, AppendPc
  <2>6. CASE Matches(q)
    BY <2>1, <2>6 DEF Matches, AppendPc
  <2>7. CASE Derefs(q)
    BY <1>3, <1>5, <2>7 DEF Derefs
  <2>8. CASE Picks(q)
    <3>1. PICK n \in Node : n = at[q] /\ held'[q] = n /\ pc[q] = "scan" /\ pc'[q] = "node_lock"
      BY <2>8 DEF Picks
    <3>2. PICK R \in SUBSET Addr : Walk(q, R)
      BY <1>0, <3>1 DEF ReadInv
    <3>3. Kept(q, n)
      BY <3>1, <3>2 DEF Walk, Kept
    <3>4. Reading(q) /\ Reading(q)'
      BY <1>0, <3>1 DEF Reading, NodePc
    <3> QED  BY <3>1, <3>3, <3>4, KeptStays
  <2> QED  BY <2>2, <2>3, <2>4, <2>5, <2>6, <2>7, <2>8, ThreadMoves DEF ThreadStep
<1>6. \A q \in Proc : pc'[q] \in {"deref", "ref_deref"} /\ snode'[idx'[q]] # Null =>
        (Kept(q, snode[idx[q]]))'
  BY <1>4
<1>7. \A q \in Proc : pc'[q] \notin AppendPc /\ held'[q] # Null => (Kept(q, held[q]))'
  BY <1>5
<1> QED  BY <1>1, <1>6, <1>7 DEF ReadInv

\* What readers rely on keeps every pointer of a thread off the nodes that are freed.
LEMMA ReadHeld == Inv /\ DeletesSafe /\ RolesOK /\ KeyInv /\ ReadInv => HeldNotFreed
<1> SUFFICES ASSUME Inv, fault = "none", RolesOK, KeyInv, ReadInv,
                    NEW p \in Proc, NEW n \in Node, n \in {held[p], at[p], anchor[p]}
             PROVE  life[n] # "freed"
  BY DEF HeldNotFreed, Pointers, DeletesSafe
<1>0. n # Null /\ pc[p] \in Pc
  BY McHashAssumption DEF Inv, TypeOK
<1>1. CASE n = at[p]
  <2>1. PICK R \in SUBSET Addr : Walk(p, R)
    BY <1>0, <1>1 DEF ReadInv
  <2> QED  BY <1>1, <2>1 DEF Walk, Shield
<1>2. CASE n = held[p]
  <2>1. CASE pc[p] \in AppendPc
    BY <1>2, <2>1 DEF AppendPc, KeyInv, Inv, SlotInv, AppendOK
  <2>2. CASE pc[p] \notin AppendPc
    BY <1>0, <1>2, <2>2 DEF ReadInv, Kept, Shield
  <2> QED  BY <2>1, <2>2
<1>3. CASE n = anchor[p]
  BY <1>0, <1>1, <1>3 DEF RolesOK
<1> QED  BY <1>1, <1>2, <1>3

\* The step the process dies of frees nothing and moves no pointer.
LEMMA DyingKeeps ==
  ASSUME Inv, HeldNotFreed, [Next]_vars, fault' # fault
  PROVE  HeldNotFreed'
<1>1. ASSUME NEW p \in Proc, Takes(p)
      PROVE  UNCHANGED <<held, at, anchor>> /\ \A n \in Node : life'[n] \in {life[n], "out"}
  <2>1. UNCHANGED <<held, at, anchor>> /\ life' = [life EXCEPT ![held[p]] = "out"]
    BY <1>1, TakesFacts
  <2> QED  BY <2>1 DEF Inv, TypeOK
<1>2. ASSUME NEW p \in Proc, RefDeref(p)  PROVE UNCHANGED <<held, at, anchor, life>>
  BY <1>2 DEF RefDeref, shared, procVars, nodeVars
<1>3. ASSUME NEW p \in Proc, LinkNode(p)
      PROVE  UNCHANGED <<held, at, anchor>> /\ \A n \in Node : life'[n] \in {life[n], "linking"}
  <2>1. UNCHANGED <<held, at, anchor>> /\ life' = [life EXCEPT ![held[p]] = "linking"]
    BY <1>3 DEF LinkNode
  <2> QED  BY <2>1 DEF Inv, TypeOK
<1>4. UNCHANGED <<held, at, anchor>> /\ \A n \in Node : life'[n] \in {life[n], "out", "linking"}
  BY <1>1, <1>2, <1>3, FaultMoves
<1> QED  BY <1>4 DEF HeldNotFreed, Pointers

\* While the process lives, the lists, what is being linked and what is being read.
ListInv == DeletesSafe => KeyInv /\ Ring /\ ReadInv

\* The table as it is created: every list is empty.
LEMMA ListInit == Init => ListInv /\ HeldNotFreed
<1> SUFFICES ASSUME Init  PROVE KeyInv /\ Ring /\ ReadInv /\ HeldNotFreed
  BY DEF ListInv
<1>0. Null \notin Node /\ Null \notin Bucket
  BY McHashAssumption
<1>1. KeyInv /\ ReadInv /\ HeldNotFreed
  BY <1>0 DEF Init, KeyInv, ReadInv, HeldNotFreed, Pointers
<1>2. \A a \in Addr : InList(a) => a \in Bucket /\ Nx(a) = a /\ Pv(a) = a
  BY DEF Init, InList, Linked, Nx, Pv, Of, OrHead
<1> QED  BY <1>1, <1>2 DEF Ring

\* Every step keeps the lists and the pointers.
LEMMA ListNext ==
  ASSUME Inv, Placed, ListInv, HeldNotFreed, [Next]_vars
  PROVE  ListInv' /\ HeldNotFreed'
<1>0. Inv' /\ RolesOK' /\ SeenOK /\ RolesOK /\ AppendsHome /\ (fault = "none" => PlaceInv)
  BY NextInv, RolesNext DEF Placed
<1>1. CASE fault # "none"
  <2>1. UNCHANGED vars
    BY <1>1, DeadStays
  <2>2. UNCHANGED <<fault, held, at, anchor, life>>
    BY <2>1 DEF vars, procVars, shared, nodeVars
  <2> QED  BY <1>1, <2>2 DEF ListInv, DeletesSafe, HeldNotFreed, Pointers
<1>2. CASE fault = "none" /\ fault' # "none"
  BY <1>2, DyingKeeps DEF ListInv, DeletesSafe
<1>3. CASE fault = "none" /\ fault' = "none"
  <2>1. KeyInv /\ Ring /\ ReadInv
    BY <1>3 DEF ListInv, DeletesSafe
  <2>2. KeyInv' /\ Ring' /\ ReadInv'
    BY <1>0, <1>3, <2>1, KeyNext, RingNext, ReadNext
  <2>3. HeldNotFreed'
    <3>1. DeletesSafe'
      BY <1>3 DEF DeletesSafe
    <3> QED  BY <1>0, <2>2, <3>1, ReadHeld, PTL
  <2> QED  BY <2>2, <2>3 DEF ListInv
<1> QED  BY <1>1, <1>2, <1>3

\* The invariant of the lists and the readers, whoever deletes and inserts.
LEMMA ListInvariant == Spec => [](Inv /\ Placed /\ ListInv /\ HeldNotFreed)
<1>1. Init => ListInv /\ HeldNotFreed
  BY ListInit
<1>2. Inv /\ Placed /\ ListInv /\ HeldNotFreed /\ [Next]_vars => ListInv' /\ HeldNotFreed'
  BY ListNext
<1> QED  BY <1>1, <1>2, PlacedAlways, PTL DEF Spec

\* No thread keeps a pointer to a node that the RCU callback has freed, in a table with any
\* number of buckets, whoever deletes: not in a scan that stands on a node taken out under it,
\* not after a reference that was compared before.
THEOREM HeldNeverFreed == Spec => []HeldNotFreed
BY ListInvariant, PTL

\* And every list stays a ring through its bucket head, the same in both directions, until a
\* delete by reference, or an insertion next to a deleted node, has gone wrong.
THEOREM ListsAreRings == Spec => [](fault = "none" => Ring)
<1>1. ListInv => (fault = "none" => Ring)
  BY DEF ListInv, DeletesSafe
<1> QED  BY <1>1, ListInvariant, PTL

-----------------------------------------------------------------------------
(* What a list holds.                                                       *)

\* A set of naturals that is not empty has a least element.
LEMMA LeastOf ==
  ASSUME NEW T \in SUBSET Nat, T # {}
  PROVE  \E x \in T : \A y \in T : x <= y
<1> DEFINE R == {ss \in Nat \X Nat : ss[1] < ss[2]}
<1>1. IsWellFoundedOn(R, Nat)
  BY NatLessThanWellFounded DEF OpToRel
<1>2. \A x, y \in Nat : y < x => <<y, x>> \in R
  OBVIOUS
<1> HIDE DEF R
<1>3. PICK x \in T : \A y \in T : ~ (<<y, x>> \in R)
  BY <1>1, WFMin
<1>4. \A y \in T : x <= y
  <2> TAKE y \in T
  <2>1. x \in Nat /\ y \in Nat /\ ~(y < x)
    BY <1>2, <1>3
  <2> QED  BY <2>1
<1> QED  BY <1>4

\* Induction: a set with 0 and every successor holds all naturals.
LEMMA AllNaturals ==
  ASSUME NEW S \in SUBSET Nat, 0 \in S, \A k \in S : k + 1 \in S
  PROVE  S = Nat
<1> SUFFICES ASSUME S # Nat  PROVE FALSE
  OBVIOUS
<1> DEFINE T == Nat \ S
<1>1. PICK x \in T : \A y \in T : x <= y
  <2>1. T \in SUBSET Nat /\ T # {}
    OBVIOUS
  <2> HIDE DEF T
  <2> QED  BY <2>1, LeastOf
<1>2. x \in Nat /\ x # 0 /\ x \notin S
  BY <1>1
<1>3. x - 1 \in Nat /\ ~(x <= x - 1) /\ (x - 1) + 1 = x
  BY <1>2
<1>4. x - 1 \in S
  BY <1>1, <1>3
<1> QED  BY <1>2, <1>3, <1>4

\* A walk of k links from the head b, where the list ends for good.
Links(w, b, k) ==
  w = [i \in 0 .. k |-> IF i = 0 THEN b ELSE IF w[i - 1] = Null THEN Null ELSE next[w[i - 1]]]

\* There are walks of every length.
LEMMA WalkExists ==
  ASSUME NEW b, NEW N \in Nat
  PROVE  \E w : Links(w, b, N)
<1> DEFINE S == {k \in Nat : \E w : Links(w, b, k)}
<1>1. 0 \in S
  <2> DEFINE w == [i \in 0 .. 0 |-> b]
  <2>1. w = [i \in 0 .. 0 |-> IF i = 0 THEN b ELSE IF w[i - 1] = Null THEN Null ELSE next[w[i - 1]]]
    OBVIOUS
  <2>2. Links(w, b, 0)
    BY <2>1 DEF Links
  <2> QED  BY <2>2
<1>2. ASSUME NEW k \in S  PROVE k + 1 \in S
  <2>1. PICK w : Links(w, b, k)
    BY <1>2
  <2>2. k \in Nat /\ k + 1 \in Nat
    BY <1>2
  <2> DEFINE v == [i \in 0 .. (k + 1) |->
                     IF i <= k THEN w[i] ELSE IF w[k] = Null THEN Null ELSE next[w[k]]]
  <2>3. ASSUME NEW i \in 0 .. (k + 1)
        PROVE  v[i] = IF i = 0 THEN b ELSE IF v[i - 1] = Null THEN Null ELSE next[v[i - 1]]
    <3>1. CASE i = 0
      <4>1. 0 \in 0 .. k /\ 0 <= k
        BY <2>2
      <4>2. w[0] = b
        BY <2>1, <4>1 DEF Links
      <4> QED  BY <2>2, <3>1, <4>1, <4>2
    <3>2. CASE i # 0 /\ i <= k
      <4>1. i \in 0 .. k /\ i - 1 \in 0 .. (k + 1) /\ i - 1 <= k
        BY <2>2, <3>2
      <4>2. v[i] = w[i] /\ v[i - 1] = w[i - 1]
        BY <3>2, <4>1
      <4>3. w[i] = IF i = 0 THEN b ELSE IF w[i - 1] = Null THEN Null ELSE next[w[i - 1]]
        BY <2>1, <4>1 DEF Links
      <4> QED  BY <4>2, <4>3
    <3>3. CASE ~(i <= k)
      <4>1. i = k + 1 /\ i # 0 /\ i - 1 = k /\ k \in 0 .. (k + 1) /\ k <= k
        BY <2>2, <3>3
      <4>2. v[k] = w[k] /\ v[i] = IF w[k] = Null THEN Null ELSE next[w[k]]
        BY <3>3, <4>1
      <4> QED  BY <4>1, <4>2
    <3> QED  BY <3>1, <3>2, <3>3
  <2>4. v = [i \in 0 .. (k + 1) |->
               IF i = 0 THEN b ELSE IF v[i - 1] = Null THEN Null ELSE next[v[i - 1]]]
    BY <2>3
  <2> HIDE DEF v
  <2>5. Links(v, b, k + 1)
    BY <2>4 DEF Links
  <2> QED  BY <2>2, <2>5
<1>3. S = Nat
  <2> HIDE DEF S
  <2>1. S \in SUBSET Nat
    BY DEF S
  <2> QED  BY <1>1, <1>2, <2>1, AllNaturals
<1> QED  BY <1>3

\* BucketNodes is the nodes of such a walk.
LEMMA BucketWalk ==
  ASSUME NEW b, Cardinality(Node) \in Nat
  PROVE  \E w : /\ Links(w, b, Cardinality(Node))
                /\ BucketNodes(b) = Node \cap {w[i] : i \in 1 .. Cardinality(Node)}
<1> DEFINE N == Cardinality(Node)
           W == CHOOSE w : Links(w, b, N)
<1>1. Links(W, b, N)
  BY WalkExists
<1>2. BucketNodes(b) = Node \cap {W[i] : i \in 1 .. N}
  BY DEF BucketNodes, Links
<1> QED  BY <1>1, <1>2

\* The nodes that belong into the list of b.
Members(b) == {m \in Node : Linked(m) /\ home[m] = b}

\* From a one comes in one step to the first node of b that is ranked above a.
Sees(r, a, b) ==
  \A m \in Members(b) : r[m] > r[a] => next[a] # Null /\ r[next[a]] <= r[m]

\* The nodes of every list can be ranked in the order of the list.
Ordered(r) ==
  /\ r \in [Addr -> Nat]
  /\ \A b \in Bucket : r[b] = 0
  /\ \A m, n \in Node : r[m] = r[n] /\ r[m] > 0 => m = n
  /\ \A n \in Node : Linked(n) => r[Pv(n)] < r[n]
  /\ \A a \in Addr : InList(a) => Sees(r, a, Of(a))

\* What a walk along the ring of a bucket comes to.
LEMMA WalkStaysInList ==
  ASSUME TypeOK, Ring, NEW b \in Bucket, NEW N \in Nat, NEW w, Links(w, b, N)
  PROVE  \A i \in 0 .. N : \/ w[i] = Null
                           \/ w[i] \in Addr /\ InList(w[i]) /\ Of(w[i]) = b
<1> DEFINE Good(i) == w[i] = Null \/ (w[i] \in Addr /\ InList(w[i]) /\ Of(w[i]) = b)
           S == {k \in Nat : k <= N => Good(k)}
<1>0. Null \notin Node /\ Null \notin Bucket /\ Node \cap Bucket = {}
  BY McHashAssumption
<1>1. 0 \in S
  <2>1. w[0] = b
    BY DEF Links
  <2> QED  BY <2>1 DEF Addr, InList, Of
<1>2. ASSUME NEW k \in S  PROVE k + 1 \in S
  <2> SUFFICES ASSUME k + 1 <= N  PROVE Good(k + 1)
    OBVIOUS
  <2>1. k \in Nat /\ k + 1 \in 0 .. N /\ k + 1 # 0 /\ (k + 1) - 1 = k /\ k <= N
    OBVIOUS
  <2>2. w[k + 1] = IF w[k] = Null THEN Null ELSE next[w[k]]
    BY <2>1 DEF Links
  <2>3. ASSUME w[k] # Null, next[w[k]] # Null
        PROVE  next[w[k]] \in Addr /\ InList(next[w[k]]) /\ Of(next[w[k]]) = b
    <3>1. w[k] \in Addr /\ InList(w[k]) /\ Of(w[k]) = b
      BY <1>2, <2>1, <2>3
    <3>2. InList(Nx(w[k])) /\ Of(Nx(w[k])) = b
      BY <3>1 DEF Ring
    <3>3. Nx(w[k]) = next[w[k]] /\ next[w[k]] \in Node
      BY <2>3, <3>1 DEF Nx, OrHead, TypeOK
    <3> QED  BY <3>2, <3>3 DEF Addr
  <2> QED  BY <2>2, <2>3
<1>3. S = Nat
  <2> HIDE DEF S
  <2>1. S \in SUBSET Nat
    BY DEF S
  <2> QED  BY <1>1, <1>2, <2>1, AllNaturals
<1> QED  BY <1>3

\* So a bucket's list holds nothing else than its nodes.
LEMMA ListHoldsMembers ==
  ASSUME TypeOK, Ring, IsFiniteSet(Node), NEW b \in Bucket
  PROVE  BucketNodes(b) \subseteq Members(b)
<1> DEFINE N == Cardinality(Node)
<1>0. N \in Nat /\ Null \notin Node /\ Node \cap Bucket = {}
  BY FS_CardinalityType, McHashAssumption
<1>1. PICK w : Links(w, b, N) /\ BucketNodes(b) = Node \cap {w[i] : i \in 1 .. N}
  BY <1>0, BucketWalk
<1>2. ASSUME NEW n \in BucketNodes(b)  PROVE n \in Members(b)
  <2>1. PICK i \in 1 .. N : n = w[i]
    BY <1>1, <1>2
  <2>2. n \in Node /\ i \in 0 .. N
    BY <1>0, <1>1, <1>2
  <2>3. InList(n) /\ Of(n) = b
    BY <1>0, <1>1, <2>1, <2>2, WalkStaysInList
  <2> QED  BY <1>0, <2>2, <2>3 DEF InList, Of, Members
<1> QED  BY <1>2

\* And every one of them.
LEMMA ListHoldsAll ==
  ASSUME TypeOK, Ring, IsFiniteSet(Node), NEW r, Ordered(r), NEW b \in Bucket
  PROVE  Members(b) \subseteq BucketNodes(b)
<1> DEFINE N == Cardinality(Node)
           Upto(k) == {m \in Members(b) : r[m] <= k}
<1>0. /\ N \in Nat /\ Null \notin Node /\ Null \notin Bucket /\ Node \cap Bucket = {}
      /\ r \in [Addr -> Nat] /\ Members(b) \subseteq Node /\ Node \subseteq Addr /\ b \in Addr
  BY FS_CardinalityType, McHashAssumption DEF Ordered, Members, Addr
<1>1. PICK w : Links(w, b, N) /\ BucketNodes(b) = Node \cap {w[i] : i \in 1 .. N}
  BY <1>0, BucketWalk
<1>2. ASSUME NEW k \in Nat
      PROVE  IsFiniteSet(Upto(k)) /\ Cardinality(Upto(k)) \in Nat /\ Cardinality(Upto(k)) <= N
  <2>1. Upto(k) \in SUBSET Node
    BY <1>0
  <2> QED  BY <2>1, FS_Subset, FS_CardinalityType
<1> DEFINE Lost == {n \in Members(b) : ~\E i \in 1 .. Cardinality(Upto(r[n])) : w[i] = n}
           T == {r[n] : n \in Lost}
<1>3. Lost = {}
  <2> SUFFICES ASSUME Lost # {}  PROVE FALSE
    OBVIOUS
  <2>1. PICK x \in T : \A y \in T : x <= y
    <3>1. T \in SUBSET Nat /\ T # {}
      BY <1>0
    <3> HIDE DEF T
    <3> QED  BY <3>1, LeastOf
  <2>2. PICK n \in Lost : r[n] = x
    BY <2>1
  <2>3. /\ n \in Node /\ n \in Members(b) /\ n \in Addr /\ Linked(n) /\ home[n] = b /\ InList(n)
        /\ Of(n) = b /\ n # b /\ r[n] \in Nat
    BY <1>0, <2>2 DEF Members, InList, Of
  <2>4. PICK a \in Addr : a = Pv(n) /\ InList(a) /\ Of(a) = b /\ Nx(a) = n
    BY <2>3 DEF Ring, InList, Addr
  <2>5. next[a] = n /\ r[a] < r[n] /\ r[a] \in Nat /\ a # Null
    BY <1>0, <2>3, <2>4 DEF Nx, OrHead, Ordered, Addr
  <2> DEFINE c == Cardinality(Upto(r[n]))
  <2>6. c \in Nat /\ c <= N
    BY <1>2, <2>3
  <2>7. ASSUME NEW i \in Nat, i + 1 <= c, w[i] = a  PROVE FALSE
    <3>1. /\ i + 1 \in 0 .. N /\ i + 1 # 0 /\ (i + 1) - 1 = i /\ i + 1 \in 1 .. c
      BY <1>0, <2>6, <2>7
    <3>2. w[i + 1] = n
      BY <1>1, <2>5, <2>7, <3>1 DEF Links
    <3> QED  BY <2>2, <3>1, <3>2
  <2>8. CASE a \in Bucket
    <3>1. a = b /\ w[0] = b
      BY <1>0, <1>1, <2>4, <2>8 DEF Of, Links
    <3>2. n \in Upto(r[n])
      BY <2>3
    <3>3. c # 0
      BY <1>2, <2>3, <3>2, FS_EmptySet
    <3>4. 0 \in Nat /\ 0 + 1 <= c
      BY <2>6, <3>3
    <3> QED  BY <2>7, <3>1, <3>4
  <2>9. CASE a \in Node
    <3>1. a \in Members(b)
      BY <1>0, <2>4, <2>9 DEF InList, Of, Members
    <3>2. a \notin Lost
      <4>1. \A y \in T : r[n] <= y
        BY <2>1, <2>2
      <4>2. a \in Lost => r[a] \in T
        OBVIOUS
      <4> QED  BY <2>3, <2>5, <4>1, <4>2
    <3> DEFINE A == Upto(r[a])
    <3>3. IsFiniteSet(A) /\ Cardinality(A) \in Nat
      BY <1>2, <2>5
    <3>4. PICK i \in 1 .. Cardinality(A) : w[i] = a
      BY <3>1, <3>2
    <3>5. n \notin A /\ A \cup {n} \in SUBSET Upto(r[n])
      <4>1. n \notin A
        BY <2>3, <2>5
      <4>2. ASSUME NEW m \in A  PROVE m \in Upto(r[n])
        <5>1. m \in Members(b) /\ r[m] <= r[a] /\ r[m] \in Nat
          BY <1>0, <4>2
        <5>2. r[m] <= r[n]
          BY <2>3, <2>5, <5>1
        <5> QED  BY <5>1, <5>2
      <4>3. n \in Upto(r[n])
        BY <2>3
      <4> QED  BY <4>1, <4>2, <4>3
    <3>6. Cardinality(A \cup {n}) = Cardinality(A) + 1
      <4> HIDE DEF A
      <4> QED  BY <3>3, <3>5, FS_AddElement
    <3>7. Cardinality(A \cup {n}) <= c
      <4>1. IsFiniteSet(Upto(r[n]))
        BY <1>2, <2>3
      <4> DEFINE U == Upto(r[n])
                 B == A \cup {n}
      <4>2. IsFiniteSet(U) /\ B \in SUBSET U
        BY <3>5, <4>1
      <4> HIDE DEF U, B
      <4>3. Cardinality(B) <= Cardinality(U)
        BY <4>2, FS_Subset
      <4> QED  BY <4>3 DEF U, B
    <3>8. i \in Nat /\ i + 1 <= c
      <4> HIDE DEF A, c
      <4>1. PICK k \in Nat : k = Cardinality(A)
        BY <3>3
      <4>2. i \in 1 .. k /\ k + 1 <= c
        BY <3>4, <3>6, <3>7, <4>1
      <4> QED  BY <2>6, <4>1, <4>2
    <3> QED  BY <2>7, <3>4, <3>8
  <2> QED  BY <2>8, <2>9 DEF Addr
<1>4. ASSUME NEW n \in Members(b)  PROVE n \in BucketNodes(b)
  <2>1. PICK i \in 1 .. Cardinality(Upto(r[n])) : w[i] = n
    BY <1>3, <1>4
  <2>2. r[n] \in Nat /\ n \in Node
    BY <1>0, <1>4
  <2>3. Cardinality(Upto(r[n])) \in Nat /\ Cardinality(Upto(r[n])) <= N
    BY <1>2, <2>2
  <2>4. i \in 1 .. N
    BY <1>0, <2>1, <2>3
  <2> QED  BY <1>1, <2>1, <2>2, <2>4
<1> QED  BY <1>4

\* A table with rings that can be ranked has exact lists.
LEMMA OrderedExact ==
  ASSUME TypeOK, Ring, IsFiniteSet(Node), NEW r, Ordered(r)
  PROVE  ListsExact
<1>0. Null \notin Node /\ Null \notin Bucket /\ Node \cap Bucket = {}
  BY McHashAssumption
<1>1. \A b \in Bucket : BucketNodes(b) = {n \in Node : Linked(n) /\ home[n] = b}
  BY ListHoldsMembers, ListHoldsAll DEF Members
<1>2. ASSUME NEW n \in Node, Linked(n)
      PROVE  /\ next[OrHead(prev[n], home[n])] = n
             /\ OrHead(prev[OrHead(next[n], home[n])], home[n]) = n
  <2>1. /\ n \in Addr /\ InList(n) /\ Of(n) = home[n] /\ n # home[n] /\ home[n] \in Bucket
    BY <1>0, <1>2 DEF InList, Of, Addr, TypeOK
  <2>2. /\ Of(Pv(n)) = home[n] /\ Nx(Pv(n)) = n
        /\ Of(Nx(n)) = home[n] /\ Pv(Nx(n)) = n
    BY <2>1 DEF Ring
  <2>3. OrHead(next[Pv(n)], home[n]) = n /\ OrHead(prev[Nx(n)], home[n]) = n
    BY <2>2 DEF Nx, Pv
  <2>4. next[Pv(n)] = n
    BY <2>1, <2>3 DEF OrHead
  <2> QED  BY <2>1, <2>3, <2>4 DEF Nx, Pv
<1> QED  BY <1>1, <1>2 DEF ListsExact

\* The ranks that make room for n behind the rank x.
Shift(r, n, x) ==
  [a \in Addr |-> IF a = n THEN x + 1 ELSE IF r[a] > x THEN r[a] + 1 ELSE r[a]]

\* The ranks s are in the order of r, and n comes right behind the rank x.
MadeRoom(r, s, n, x) ==
  /\ s \in [Addr -> Nat] /\ s[n] = x + 1
  /\ \A a \in Addr \ {n} : /\ s[a] > 0 <=> r[a] > 0
                           /\ s[a] = 0 <=> r[a] = 0
                           /\ s[a] # s[n]
                           /\ s[a] > s[n] <=> r[a] > x
                           /\ s[n] <= s[a] <=> r[a] > x
                           /\ s[n] > s[a] <=> r[a] <= x
                           /\ s[a] <= s[n] <=> r[a] <= x
  /\ \A a, m \in Addr \ {n} : /\ s[m] > s[a] <=> r[m] > r[a]
                              /\ s[m] <= s[a] <=> r[m] <= r[a]
                              /\ s[m] = s[a] <=> r[m] = r[a]

\* There is room behind every rank.
LEMMA ShiftOrder ==
  ASSUME NEW r \in [Addr -> Nat], NEW n \in Addr, NEW x \in Nat
  PROVE  \E s : MadeRoom(r, s, n, x)
<1> PICK s : s = Shift(r, n, x)
  OBVIOUS
<1>1. /\ s \in [Addr -> Nat] /\ s[n] = x + 1
      /\ \A a \in Addr \ {n} : s[a] = IF r[a] > x THEN r[a] + 1 ELSE r[a]
  BY DEF Shift
<1>2. \A a \in Addr : r[a] \in Nat
  OBVIOUS
<1> HIDE DEF Shift
<1>3. ASSUME NEW a \in Addr \ {n}
      PROVE  /\ s[a] > 0 <=> r[a] > 0
             /\ s[a] = 0 <=> r[a] = 0
             /\ s[a] # s[n]
             /\ s[a] > s[n] <=> r[a] > x
             /\ s[n] <= s[a] <=> r[a] > x
             /\ s[n] > s[a] <=> r[a] <= x
             /\ s[a] <= s[n] <=> r[a] <= x
  <2> PICK i \in Nat : i = r[a]
    BY <1>2
  <2>1. s[n] = x + 1 /\ s[a] = IF i > x THEN i + 1 ELSE i
    BY <1>1
  <2> QED  BY <2>1
<1>4. ASSUME NEW a \in Addr \ {n}, NEW m \in Addr \ {n}
      PROVE  /\ s[m] > s[a] <=> r[m] > r[a]
             /\ s[m] <= s[a] <=> r[m] <= r[a]
             /\ s[m] = s[a] <=> r[m] = r[a]
  <2> PICK i \in Nat : i = r[a]
    BY <1>2
  <2> PICK j \in Nat : j = r[m]
    BY <1>2
  <2>1. /\ s[a] = IF i > x THEN i + 1 ELSE i
        /\ s[m] = IF j > x THEN j + 1 ELSE j
    BY <1>1
  <2> QED  BY <2>1
<1> QED  BY <1>1, <1>3, <1>4 DEF MadeRoom

\* A node put between two neighbours is ranked between them.
LEMMA LinkRanks ==
  ASSUME TypeOK, Ring, NEW r, Ordered(r),
         NEW b \in Bucket, NEW n \in Node, life[n] = "slot", home[n] = b,
         life' = [life EXCEPT ![n] = "linking"], home' = home,
         NEW pA \in Addr, NEW nA \in Addr, NEW nx \in Node \cup {Null}, NEW pv \in Addr \cup {Null},
         InList(pA), InList(nA), Of(pA) = b, Of(nA) = b, Nx(pA) = nA, Pv(nA) = pA,
         OrHead(nx, b) = nA, OrHead(pv, b) = pA,
         next' = [next EXCEPT ![n] = nx, ![pA] = n],
         prev' = [prev EXCEPT ![n] = pv, ![nA] = n],
         NEW s, MadeRoom(r, s, n, r[pA])
  PROVE  /\ Ordered(s)'
         /\ Sees(s, n, b)'
         /\ \A a \in Addr, c \in Bucket :
              a # n /\ next[a] # n /\ Of(a) = c /\ (a \in Node => r[a] > 0) /\ Sees(r, a, c) =>
                Sees(s, a, c)'
<1> PICK x : x = r[pA]
  OBVIOUS
<1>0. /\ Null \notin Node /\ Null \notin Bucket /\ Node \cap Bucket = {}
      /\ r \in [Addr -> Nat] /\ n \in Addr /\ x \in Nat /\ Node \subseteq Addr
  BY McHashAssumption DEF Ordered, Addr
<1>1. ~InList(n)
  BY <1>0 DEF InList, Linked
<1>2. pA # n /\ nA # n
  BY <1>1
<1>3. \A a \in Addr : /\ next'[a] = IF a = n THEN nx ELSE IF a = pA THEN n ELSE next[a]
                      /\ prev'[a] = IF a = n THEN pv ELSE IF a = nA THEN n ELSE prev[a]
  BY <1>0, <1>2 DEF TypeOK
<1>4. \A c \in Bucket : Members(c)' = IF c = b THEN Members(c) \cup {n} ELSE Members(c)
  <2>1. \A m \in Node : Linked(m)' <=> Linked(m) \/ m = n
    BY DEF Linked, TypeOK
  <2> QED  BY <2>1 DEF Members
<1>5. /\ s \in [Addr -> Nat]
      /\ \A a \in Addr \ {n} : /\ s[a] > 0 <=> r[a] > 0
                               /\ s[a] = 0 <=> r[a] = 0
                               /\ s[a] # s[n]
                               /\ s[a] > s[n] <=> r[a] > x
                               /\ s[n] <= s[a] <=> r[a] > x
                               /\ s[n] > s[a] <=> r[a] <= x
                               /\ s[a] <= s[n] <=> r[a] <= x
      /\ \A a, m \in Addr \ {n} : /\ s[m] > s[a] <=> r[m] > r[a]
                                  /\ s[m] <= s[a] <=> r[m] <= r[a]
                                  /\ s[m] = s[a] <=> r[m] = r[a]
      /\ s[n] > 0 /\ s[n] <= s[n]
  <2>1. s[n] = x + 1 /\ s[n] > 0 /\ s[n] <= s[n]
    BY <1>0 DEF MadeRoom
  <2> QED  BY <1>0, <2>1 DEF MadeRoom
<1>6. /\ \A c \in Bucket : r[c] = 0
      /\ \A m, k \in Node : r[m] = r[k] /\ r[m] > 0 => m = k
      /\ \A m \in Node : Linked(m) => r[Pv(m)] < r[m]
      /\ \A a \in Addr : InList(a) => Sees(r, a, Of(a))
  BY DEF Ordered
<1>7. \A c \in Bucket : Members(c) \subseteq Addr \ {n}
  BY <1>0, <1>1 DEF Members, InList
<1>8. pA \in Node => pA \in Members(b) /\ r[pA] > 0
  <2> SUFFICES ASSUME pA \in Node  PROVE pA \in Members(b) /\ r[pA] > 0
    OBVIOUS
  <2>1. Linked(pA) /\ home[pA] = b
    BY <1>0 DEF InList, Of
  <2>2. r[Pv(pA)] < r[pA]
    BY <1>6, <2>1
  <2>3. Pv(pA) \in Addr
    BY DEF Ring, InList, Addr
  <2>4. r[Pv(pA)] \in Nat /\ r[pA] \in Nat
    BY <1>0, <2>3
  <2> QED  BY <2>1, <2>2, <2>4 DEF Members
<1>9. nx = next[pA]
  <2>1. next[pA] \in Node \cup {Null} /\ OrHead(next[pA], b) = OrHead(nx, b)
    BY DEF Nx, TypeOK
  <2> QED  BY <1>0, <2>1 DEF OrHead
<1>10. nx # Null => nx \in Addr \ {n}
  BY <1>0, <1>2 DEF OrHead
<1>11. Sees(s, n, b)'
  <2> SUFFICES ASSUME NEW m \in Members(b)', s[m] > s[n]
               PROVE  nx # Null /\ s[nx] <= s[m]
    BY <1>0, <1>3 DEF Sees
  <2>1. m \in Members(b) /\ m \in Addr \ {n}
    <3>1. m # n
      BY <1>0, <1>5
    <3> QED  BY <1>4, <1>7, <3>1
  <2>2. r[m] > r[pA]
    BY <1>5, <2>1
  <2>3. next[pA] # Null /\ r[next[pA]] <= r[m]
    BY <1>6, <2>1, <2>2 DEF Sees
  <2> QED  BY <1>5, <1>9, <1>10, <2>1, <2>3
<1>12. ASSUME NEW a \in Addr, NEW c \in Bucket, a # n, next[a] # n, Of(a) = c,
              a \in Node => r[a] > 0, Sees(r, a, c), NEW m \in Members(c)', s[m] > s[a]
       PROVE  next'[a] # Null /\ s[next'[a]] <= s[m]
  <2>1. next[a] # Null => next[a] \in Addr \ {n}
    BY <1>0, <1>12 DEF TypeOK
  <2>2. CASE m # n
    <3>1. m \in Members(c) /\ m \in Addr \ {n}
      BY <1>4, <1>7, <2>2
    <3>2. r[m] > r[a]
      BY <1>5, <1>12, <3>1
    <3>3. next[a] # Null /\ r[next[a]] <= r[m]
      BY <1>12, <3>1, <3>2 DEF Sees
    <3>4. CASE a = pA
      <4>1. next'[a] = n /\ n # Null
        BY <1>0, <1>2, <1>3, <3>4
      <4>2. s[n] <= s[m]
        BY <1>5, <3>1, <3>2, <3>4
      <4> QED  BY <4>1, <4>2
    <3>5. CASE a # pA
      <4>1. next'[a] = next[a]
        BY <1>3, <1>12, <3>5
      <4> QED  BY <1>5, <2>1, <3>1, <3>3, <4>1
    <3> QED  BY <3>4, <3>5
  <2>3. CASE m = n
    <3>1. c = b
      BY <1>4, <1>7, <2>3
    <3>2. CASE a = pA
      <4>1. next'[a] = n /\ n # Null
        BY <1>0, <1>2, <1>3, <3>2
      <4> QED  BY <1>5, <2>3, <4>1
    <3>3. CASE a # pA
      <4>1. r[a] <= x
        BY <1>5, <1>12, <2>3
      <4>2. r[a] # x
        <5> SUFFICES ASSUME r[a] = r[pA]  PROVE FALSE
          OBVIOUS
        <5>1. a \in Node => a = pA
          <6> SUFFICES ASSUME a \in Node  PROVE a = pA
            OBVIOUS
          <6>1. r[a] > 0 /\ r[pA] # 0
            BY <1>0, <1>12
          <6>2. pA \in Node
            BY <1>6, <6>1 DEF Addr
          <6> QED  BY <1>6, <6>1, <6>2
        <5>2. a \in Bucket => a = pA
          <6> SUFFICES ASSUME a \in Bucket  PROVE a = pA
            OBVIOUS
          <6>1. r[pA] = 0 /\ a = b
            BY <1>6, <1>12, <3>1 DEF Of
          <6>2. pA \notin Node
            BY <1>0, <1>8, <6>1
          <6> QED  BY <6>1, <6>2 DEF Addr, Of
        <5> QED  BY <3>3, <5>1, <5>2 DEF Addr
      <4>3. r[pA] > r[a] /\ r[pA] > 0
        BY <1>0, <4>1, <4>2
      <4>4. pA \in Members(b)
        BY <1>6, <1>8, <4>3 DEF Addr
      <4>5. next[a] # Null /\ r[next[a]] <= r[pA]
        BY <1>12, <3>1, <4>3, <4>4 DEF Sees
      <4>6. next'[a] = next[a]
        BY <1>3, <1>12, <3>3
      <4>7. s[next[a]] <= s[n]
        BY <1>5, <2>1, <4>5
      <4> QED  BY <2>3, <4>5, <4>6, <4>7
    <3> QED  BY <3>2, <3>3
  <2> QED  BY <2>2, <2>3
<1>13. \A a \in Addr, c \in Bucket :
         a # n /\ next[a] # n /\ Of(a) = c /\ (a \in Node => r[a] > 0) /\ Sees(r, a, c) =>
           Sees(s, a, c)'
  BY <1>12 DEF Sees
<1>14. /\ \A c \in Bucket : s[c] = 0
       /\ \A m, k \in Node : s[m] = s[k] /\ s[m] > 0 => m = k
  <2>1. \A c \in Bucket : c \in Addr \ {n}
    BY <1>0 DEF Addr
  <2> QED  BY <1>0, <1>5, <1>6, <2>1
<1>15. ASSUME NEW k \in Node, Linked(k)'  PROVE s[Pv(k)'] < s[k]
  <2>1. Of(k)' = Of(k)
    BY DEF Of
  <2>2. Pv(k)' = OrHead(prev'[k], Of(k))
    BY <2>1 DEF Pv
  <2>3. k \in Addr
    BY <1>0
  <2>4. CASE k = n
    <3>1. Pv(k)' = pA
      BY <1>0, <1>3, <2>2, <2>4 DEF Of
    <3>2. r[pA] <= x
      BY <1>0
    <3> QED  BY <1>2, <1>5, <2>4, <3>1, <3>2
  <2>5. CASE k # n
    <3>1. Linked(k) /\ InList(k)
      BY <1>15, <2>5 DEF Linked, InList, TypeOK
    <3>2. r[Pv(k)] < r[k] /\ Pv(k) \in Addr \ {n}
      BY <1>1, <1>6, <2>3, <3>1 DEF Ring, InList, Addr
    <3>3. CASE k = nA
      <4>1. Pv(k)' = n
        <5>1. prev'[k] = n
          BY <1>3, <2>3, <2>5, <3>3
        <5>2. n # Null
          BY <1>0
        <5> QED  BY <2>2, <5>1, <5>2 DEF OrHead
      <4>2. r[k] > x
        BY <1>0, <3>2, <3>3
      <4>3. s[k] > s[n]
        BY <1>5, <2>3, <2>5, <4>2
      <4> QED  BY <1>0, <1>5, <4>1, <4>3
    <3>4. CASE k # nA
      <4>1. Pv(k)' = Pv(k)
        BY <1>3, <2>2, <2>3, <2>5, <3>4 DEF Pv
      <4>2. r[k] > r[Pv(k)]
        BY <1>0, <2>3, <3>2
      <4>3. s[k] > s[Pv(k)]
        BY <1>5, <2>3, <2>5, <3>2, <4>2
      <4> QED  BY <1>5, <2>3, <3>2, <4>1, <4>3
    <3> QED  BY <3>3, <3>4
  <2> QED  BY <2>4, <2>5
<1>16. ASSUME NEW a \in Addr, InList(a)'  PROVE Sees(s, a, Of(a))'
  <2>1. Of(a)' = Of(a)
    BY DEF Of
  <2>2. CASE a = n
    <3>1. Of(a) = b
      BY <1>0, <2>2 DEF Of
    <3> QED  BY <1>11, <2>1, <2>2, <3>1
  <2>3. CASE a # n
    <3>1. InList(a)
      BY <1>16, <2>3 DEF InList, Linked, TypeOK
    <3>2. InList(Nx(a))
      BY <3>1 DEF Ring
    <3>3. next[a] # n
      <4>1. next[a] = n => Nx(a) = n
        BY <1>0 DEF Nx, OrHead
      <4> QED  BY <1>1, <3>2, <4>1
    <3>4. a \in Node => r[a] > 0
      <4> SUFFICES ASSUME a \in Node  PROVE r[a] > 0
        OBVIOUS
      <4>1. Linked(a)
        BY <1>0, <3>1 DEF InList
      <4>2. Pv(a) \in Addr
        BY <3>1 DEF Ring, InList, Addr
      <4>3. r[Pv(a)] < r[a] /\ r[Pv(a)] \in Nat /\ r[a] \in Nat
        BY <1>0, <1>6, <4>1, <4>2
      <4> QED  BY <4>3
    <3>5. Sees(r, a, Of(a))
      BY <1>6, <3>1
    <3>6. Of(a) \in Bucket
      BY DEF Of, Addr, TypeOK
    <3>7. PICK c \in Bucket : c = Of(a)
      BY <3>6
    <3>8. Sees(s, a, c)'
      BY <1>13, <2>3, <3>3, <3>4, <3>5, <3>7
    <3> QED  BY <2>1, <3>7, <3>8
  <2> QED  BY <2>2, <2>3
<1>17. Ordered(s)'
  BY <1>5, <1>14, <1>15, <1>16 DEF Ordered
<1> QED  BY <1>11, <1>13, <1>17

\* Taking a node out leaves the others ranked as they are, and a scan that stands on a node
\* in front of it sees what is behind it.
LEMMA TakeRanks ==
  ASSUME TypeOK, Ring, NEW r, Ordered(r),
         NEW b \in Bucket, NEW n \in Node, Linked(n), home[n] = b,
         life' = [life EXCEPT ![n] = "out"], home' = home, Unlink(n, b)
  PROVE  /\ Ordered(r)'
         /\ \A a \in Addr, c \in Bucket : Of(a) = c /\ Sees(r, a, c) => Sees(r, a, c)'
<1>0. /\ Null \notin Node /\ Null \notin Bucket /\ Node \cap Bucket = {}
      /\ r \in [Addr -> Nat] /\ n \in Addr /\ Node \subseteq Addr
  BY McHashAssumption DEF Ordered, Addr
<1>1. InList(n) /\ Of(n) = b /\ n # b
  BY <1>0 DEF InList, Of
<1>2. /\ InList(Nx(n)) /\ Of(Nx(n)) = b /\ Pv(Nx(n)) = n /\ Nx(n) \in Addr
      /\ InList(Pv(n)) /\ Of(Pv(n)) = b /\ Nx(Pv(n)) = n /\ Pv(n) \in Addr
  BY <1>0, <1>1 DEF Ring, InList, Addr
<1>3. PICK pA \in Addr : pA = Pv(n)
  BY <1>2
<1>4. PICK nA \in Addr : nA = Nx(n)
  BY <1>2
<1>5. \A a \in Addr : /\ next'[a] = IF a = pA THEN next[n] ELSE next[a]
                      /\ prev'[a] = IF a = nA THEN pA ELSE prev[a]
  BY <1>0, <1>1, <1>3, <1>4 DEF Unlink, Pv, Nx, TypeOK
<1>6. \A c \in Bucket : Members(c)' = Members(c) \ {n}
  <2>1. \A m \in Node : Linked(m)' <=> Linked(m) /\ m # n
    BY DEF Linked, TypeOK
  <2> QED  BY <2>1 DEF Members
<1>7. /\ \A c \in Bucket : r[c] = 0
      /\ \A m, k \in Node : r[m] = r[k] /\ r[m] > 0 => m = k
      /\ \A m \in Node : Linked(m) => r[Pv(m)] < r[m]
      /\ \A a \in Addr : InList(a) => Sees(r, a, Of(a))
  BY DEF Ordered
<1>8. next[pA] = n /\ Of(pA) = b
  <2>1. OrHead(next[pA], b) = n
    BY <1>2, <1>3 DEF Nx
  <2> QED  BY <1>1, <1>2, <1>3, <2>1 DEF OrHead
<1>9. Sees(r, n, b)
  BY <1>0, <1>1, <1>7
<1>10. ASSUME NEW a \in Addr, NEW c \in Bucket, Of(a) = c, Sees(r, a, c),
              NEW m \in Members(c)', r[m] > r[a]
       PROVE  next'[a] # Null /\ r[next'[a]] <= r[m]
  <2>1. m \in Members(c) /\ m # n /\ m \in Node /\ m \in Addr
    BY <1>0, <1>6 DEF Members
  <2>2. next[a] # Null /\ r[next[a]] <= r[m]
    BY <1>10, <2>1 DEF Sees
  <2>3. CASE a = pA
    <3>1. c = b /\ r[n] <= r[m]
      BY <1>8, <1>10, <2>2, <2>3
    <3>2. r[m] \in Nat /\ r[n] \in Nat /\ r[a] \in Nat
      BY <1>0, <2>1
    <3>3. r[m] > 0 /\ r[m] # r[n]
      BY <1>7, <1>10, <2>1, <3>2
    <3>4. r[m] > r[n]
      BY <3>1, <3>2, <3>3
    <3>5. next[n] # Null /\ r[next[n]] <= r[m]
      BY <1>9, <2>1, <3>1, <3>4 DEF Sees
    <3> QED  BY <1>5, <2>3, <3>5
  <2>4. CASE a # pA
    BY <1>5, <2>2, <2>4
  <2> QED  BY <2>3, <2>4
<1>11. \A a \in Addr, c \in Bucket : Of(a) = c /\ Sees(r, a, c) => Sees(r, a, c)'
  BY <1>10 DEF Sees
<1>12. ASSUME NEW k \in Node, Linked(k)'  PROVE r[Pv(k)'] < r[k]
  <2>1. Linked(k) /\ k # n /\ k \in Addr
    BY <1>0, <1>12 DEF Linked, TypeOK
  <2>2. r[Pv(k)] < r[k]
    BY <1>7, <2>1
  <2>3. Pv(k)' = OrHead(prev'[k], Of(k))
    BY DEF Pv, Of
  <2>4. CASE k = nA
    <3>1. Pv(k)' = pA
      <4>1. prev'[k] = pA
        BY <1>5, <2>1, <2>4
      <4>2. pA # Null
        BY <1>0 DEF Addr
      <4> QED  BY <2>3, <4>1, <4>2 DEF OrHead
    <3>2. r[pA] < r[n] /\ r[n] < r[k]
      BY <1>2, <1>3, <1>4, <1>7, <2>2, <2>4
    <3>3. r[pA] \in Nat /\ r[n] \in Nat /\ r[k] \in Nat
      BY <1>0, <2>1
    <3>4. r[pA] < r[k]
      BY <3>2, <3>3
    <3> QED  BY <3>1, <3>4
  <2>5. CASE k # nA
    <3>1. Pv(k)' = Pv(k)
      BY <1>5, <2>1, <2>3, <2>5 DEF Pv
    <3> QED  BY <2>2, <3>1
  <2> QED  BY <2>4, <2>5
<1>13. ASSUME NEW a \in Addr, InList(a)'  PROVE Sees(r, a, Of(a))'
  <2>1. Of(a)' = Of(a)
    BY DEF Of
  <2>2. InList(a)
    BY <1>13 DEF InList, Linked, TypeOK
  <2>3. PICK c \in Bucket : c = Of(a)
    BY DEF Of, Addr, TypeOK
  <2>4. Sees(r, a, c)
    BY <1>7, <2>2, <2>3
  <2>5. Sees(r, a, c)'
    BY <1>11, <2>3, <2>4
  <2> QED  BY <2>1, <2>3, <2>5
<1>14. Ordered(r)'
  BY <1>0, <1>7, <1>12, <1>13 DEF Ordered
<1> QED  BY <1>11, <1>14

-----------------------------------------------------------------------------
(* What a scan has before it.                                               *)

\* A scan stays among what the ranks lead it through: it has before it what it has to return.
ScanOK(r, q) ==
  \E R \in SUBSET Addr, c \in Bucket :
    /\ Walk(q, R)
    /\ \A a \in R : Of(a) = c /\ Sees(r, a, c) /\ (a \in Node => r[a] > 0)
    /\ must[q] \subseteq Members(c)
    /\ \A m \in must[q] \ seen[q] : r[m] > r[at[q]]

\* A scan returns the node it goes to, and has nothing more to return for what others do.
LEMMA ScanMoves ==
  ASSUME Inv, [Next]_vars, NEW q \in Proc, at[q] # Null, at'[q] # Null,
         \A b \in Bucket : ~ScanBegin(q, b)
  PROVE  /\ must'[q] \subseteq must[q]
         /\ \/ at'[q] = at[q] /\ seen'[q] = seen[q]
            \/ /\ next[at[q]] # Null /\ at'[q] = next[at[q]]
               /\ seen'[q] = seen[q] \cup {next[at[q]]}
<1> DEFINE Good == /\ must'[q] \subseteq must[q]
                   /\ \/ at'[q] = at[q] /\ seen'[q] = seen[q]
                      \/ /\ next[at[q]] # Null /\ at'[q] = next[at[q]]
                         /\ seen'[q] = seen[q] \cup {next[at[q]]}
<1>0. TypeOK /\ LocalOK
  BY DEF Inv
<1>1. ASSUME NEW p \in Proc, NEW b \in Bucket, ScanBegin(p, b)  PROVE Good
  BY <1>0, <1>1 DEF ScanBegin, TypeOK
<1>2. ASSUME NEW p \in Proc, ScanNext(p)  PROVE Good
  BY <1>0, <1>2 DEF ScanNext, TypeOK
<1>3. ASSUME NEW p \in Proc, ScanEnd(p)  PROVE Good
  BY <1>0, <1>3 DEF ScanEnd, TypeOK
<1>4. ASSUME UNCHANGED <<at, seen, must>>  PROVE Good
  BY <1>4
<1>5. ASSUME NEW p \in Proc, Takes(p)  PROVE Good
  <2>1. UNCHANGED <<at, seen>> /\ must' = [x \in Proc |-> must[x] \ {held[p]}]
    BY <1>5, TakesFacts
  <2> QED  BY <1>0, <2>1 DEF TypeOK
<1> HIDE DEF Good
<1>6. ASSUME NEW p \in Proc, NEW n \in Node,
             \/ \E b \in Bucket : AppendNode(p, n, b)
             \/ \E k \in {"before", "after"} : InsertNode(p, n, k)
             \/ AppendRefused(p, n) \/ AccessNode(p, n) \/ DeleteByRef(p, n)
      PROVE  Good
  BY <1>4, <1>6 DEF AppendNode, InsertNode, TakeSlot, AppendRefused, AccessNode, DeleteByRef, procVars
<1>7. ASSUME NEW p \in Proc,
             \/ FillSlot(p) \/ LinkNode(p) \/ AccessDeref(p) \/ RefDeref(p) \/ DeleteNode(p)
             \/ RefSubmit(p) \/ RefClear(p) \/ NodePush(p)
      PROVE  Good
  BY <1>4, <1>7 DEF FillSlot, LinkNode, AccessDeref, RefDeref, DeleteNode, RefSubmit, RefClear,
     NodePush, procVars
<1>8. ASSUME NEW p \in Proc, KeyNode(p) \/ AccessEnd(p) \/ RefPush(p) \/ NodeSubmit(p)
      PROVE  Good
  BY <1>4, <1>8 DEF KeyNode, AccessEnd, RefPush, NodeSubmit, Return
<1>9. ASSUME NEW p \in Proc, RefUnlink(p) \/ NodeUnlink(p)  PROVE Good
  <2>1. CASE Return(p) /\ must' = must
    BY <1>4, <2>1 DEF Return
  <2>2. CASE Takes(p)
    BY <1>5, <2>2
  <2> QED  BY <1>9, <2>1, <2>2 DEF RefUnlink, NodeUnlink, Takes
<1>10. ASSUME TableDelete \/ UNCHANGED vars \/ \E n \in Node : RcuFree(n)  PROVE Good
  BY <1>4, <1>10 DEF TableDelete, RcuFree, vars, procVars
<1>11. Good
  BY <1>1, <1>2, <1>3, <1>6, <1>7, <1>8, <1>9, <1>10 DEF Next, Begin, Proceed
<1> QED  BY <1>11 DEF Good

\* A node that is linked while scans are under way.
LEMMA LinkScan ==
  ASSUME Inv, fault = "none", fault' = "none", AppendsHome, KeyInv, Ring, [Next]_vars,
         NEW p \in Proc, LinkNode(p), NEW r, Ordered(r)
  PROVE  \E s : Ordered(s)' /\ \A q \in Proc : at[q] # Null /\ ScanOK(r, q) => ScanOK(s, q)'
<1> PICK b : b = bkt[p]
  OBVIOUS
<1> PICK n : n = held[p]
  OBVIOUS
<1>0. /\ TypeOK /\ Null \notin Node /\ Null \notin Bucket /\ Node \cap Bucket = {}
      /\ r \in [Addr -> Nat]
  BY McHashAssumption DEF Inv, Ordered
<1>1. /\ n \in Node /\ n \in Addr /\ b \in Bucket /\ life[n] = "slot" /\ home[n] = b
      /\ life' = [life EXCEPT ![n] = "linking"]
      /\ UNCHANGED <<home, at, seen, must>>
  <2>1. /\ pc[p] = "link" /\ life' = [life EXCEPT ![n] = "linking"]
        /\ UNCHANGED <<home, at, seen, must>>
    BY DEF LinkNode, Step
  <2>2. n \in Node /\ life[n] = "slot"
    BY <2>1 DEF Inv, LocalOK, SlotInv, AppendOK, AppendPc
  <2>3. home[n] = b
    BY <2>1 DEF AppendsHome, AppendPc
  <2> QED  BY <1>0, <2>1, <2>2, <2>3 DEF Addr, TypeOK
<1>2. PICK pA \in Addr, nA \in Addr, nx \in Node \cup {Null}, pv \in Addr \cup {Null} :
           /\ InList(pA) /\ InList(nA) /\ Of(pA) = b /\ Of(nA) = b
           /\ Nx(pA) = nA /\ Pv(nA) = pA
           /\ OrHead(nx, b) = nA /\ OrHead(pv, b) = pA
           /\ next' = [next EXCEPT ![n] = nx, ![pA] = n]
           /\ prev' = [prev EXCEPT ![n] = pv, ![nA] = n]
  BY LinkPlace
<1>3. PICK s : MadeRoom(r, s, n, r[pA])
  <2>1. r[pA] \in Nat
    BY <1>0
  <2> QED  BY <1>0, <1>1, <2>1, ShiftOrder
<1>4. /\ Ordered(s)' /\ Sees(s, n, b)'
      /\ \A a \in Addr, c \in Bucket :
           a # n /\ next[a] # n /\ Of(a) = c /\ (a \in Node => r[a] > 0) /\ Sees(r, a, c) =>
             Sees(s, a, c)'
  BY <1>0, <1>1, <1>2, <1>3, LinkRanks, ZenonT(30)
<1>5. /\ ~InList(n) /\ pA # n
  BY <1>0, <1>1, <1>2 DEF InList, Linked
<1>6. \A a \in Addr : next'[a] = IF a = n THEN nx ELSE IF a = pA THEN n ELSE next[a]
  BY <1>0, <1>1, <1>2, <1>5 DEF TypeOK
<1>7. nx = next[pA]
  <2>1. next[pA] \in Node \cup {Null} /\ OrHead(next[pA], b) = OrHead(nx, b)
    BY <1>0, <1>2 DEF Nx, TypeOK
  <2> QED  BY <1>0, <1>1, <1>2, <2>1 DEF OrHead
<1>8. /\ s \in [Addr -> Nat] /\ s[n] > 0
      /\ \A a \in Addr \ {n} : s[a] > 0 <=> r[a] > 0
      /\ \A a, m \in Addr \ {n} : s[m] > s[a] <=> r[m] > r[a]
  <2>1. s[n] = r[pA] + 1 /\ r[pA] \in Nat
    BY <1>0, <1>3 DEF MadeRoom
  <2> QED  BY <1>3, <2>1 DEF MadeRoom
<1>9. \A a \in Addr : Of(a)' = Of(a)
  BY <1>1 DEF Of
<1>10. \A c \in Bucket : Members(c) \subseteq Members(c)' /\ n \notin Members(c)
  <2>1. \A m \in Node : Linked(m) => Linked(m)' /\ m # n
    BY <1>0, <1>1 DEF Linked, TypeOK
  <2> QED  BY <1>1, <2>1 DEF Members
<1>11. ASSUME NEW q \in Proc, at[q] # Null, ScanOK(r, q)  PROVE ScanOK(s, q)'
  <2>1. PICK R \in SUBSET Addr, c \in Bucket :
          /\ Walk(q, R)
          /\ \A a \in R : Of(a) = c /\ Sees(r, a, c) /\ (a \in Node => r[a] > 0)
          /\ must[q] \subseteq Members(c)
          /\ \A m \in must[q] \ seen[q] : r[m] > r[at[q]]
    BY <1>11 DEF ScanOK
  <2>2. n \notin R
    <3>1. ~Shield(q, n)
      BY <1>1 DEF Shield
    <3> QED  BY <1>1, <2>1, <3>1 DEF Walk
  <2>3. /\ at[q] \in R /\ at[q] \in Addr
        /\ \A a \in R : next[a] # Null => next[a] \in R
    BY <2>1 DEF Walk
  <2>4. PICK S \in SUBSET Addr : S = IF pA \in R THEN R \cup {n} ELSE R
    BY <1>1
  <2>5. Walk(q, S)'
    <3>1. \A a \in S : next'[a] # Null => next'[a] \in S
      BY <1>6, <1>7, <2>2, <2>3, <2>4
    <3>2. \A m \in S \ R : m \in Node => life'[m] = "linking"
      BY <1>0, <1>1, <2>4 DEF TypeOK
    <3>3. \A d \in Bucket : ~ScanBegin(q, d)
      <4>1. ASSUME NEW d \in Bucket, ScanBegin(q, d)  PROVE FALSE
        BY <1>0, <1>1, <4>1 DEF ScanBegin, TypeOK, Step, Inv, LocalOK, shared, nodeVars
      <4> QED  BY <4>1
    <3>4. R \subseteq S /\ at'[q] # Null
      BY <1>1, <1>11, <2>4
    <3> QED  BY <1>11, <2>1, <3>1, <3>2, <3>3, <3>4, WalkIn
  <2>6. ASSUME NEW a \in S  PROVE Of(a)' = c /\ Sees(s, a, c)' /\ (a \in Node => s[a] > 0)
    <3>1. CASE a = n
      <4>1. pA \in R
        BY <2>2, <2>4, <3>1
      <4>2. c = b
        BY <1>2, <2>1, <4>1
      <4>3. Of(n) = b
        BY <1>0, <1>1 DEF Of
      <4> QED  BY <1>4, <1>8, <1>9, <3>1, <4>2, <4>3
    <3>2. CASE a # n
      <4>1. a \in R /\ a \in Addr /\ next[a] # n
        BY <1>0, <1>1, <2>2, <2>3, <2>4, <3>2
      <4>2. Of(a) = c /\ Sees(r, a, c) /\ (a \in Node => r[a] > 0)
        BY <2>1, <4>1
      <4>3. Sees(s, a, c)'
        BY <1>4, <3>2, <4>1, <4>2
      <4> QED  BY <1>8, <1>9, <3>2, <4>1, <4>2, <4>3
    <3> QED  BY <3>1, <3>2
  <2>7. must'[q] \subseteq Members(c)'
    BY <1>1, <1>10, <2>1
  <2>8. ASSUME NEW m \in must'[q] \ seen'[q]  PROVE s[m] > s[at'[q]]
    <3>1. m \in must[q] \ seen[q] /\ at'[q] = at[q]
      BY <1>1
    <3>2. r[m] > r[at[q]] /\ m \in Members(c)
      BY <2>1, <3>1
    <3>3. m \in Addr \ {n} /\ at[q] \in Addr \ {n}
      BY <1>10, <2>2, <2>3, <3>2 DEF Members, Addr
    <3> QED  BY <1>8, <3>1, <3>2, <3>3
  <2> QED  BY <2>5, <2>6, <2>7, <2>8 DEF ScanOK
<1> QED  BY <1>4, <1>11

\* A node that is taken out while scans are under way.
LEMMA TakeScan ==
  ASSUME Inv, fault' = "none", Ring, [Next]_vars, NEW p \in Proc, Takes(p),
         NEW r, Ordered(r)
  PROVE  Ordered(r)' /\ \A q \in Proc : at[q] # Null /\ ScanOK(r, q) => ScanOK(r, q)'
<1> PICK b : b = bkt[p]
  OBVIOUS
<1> PICK n : n = held[p]
  OBVIOUS
<1>0. TypeOK /\ Null \notin Node /\ Null \notin Bucket /\ Node \cap Bucket = {}
  BY McHashAssumption DEF Inv
<1>1. /\ n \in Node /\ n \in Addr /\ b \in Bucket /\ home[n] = b /\ Linked(n) /\ Unlink(n, b)
      /\ life' = [life EXCEPT ![n] = "out"]
      /\ must' = [x \in Proc |-> must[x] \ {n}]
      /\ UNCHANGED <<home, at, seen>>
  <2>1. /\ n \in Node /\ home[n] = b /\ Linked(n) /\ Unlink(n, b)
        /\ life' = [life EXCEPT ![n] = "out"]
        /\ must' = [x \in Proc |-> must[x] \ {n}]
        /\ UNCHANGED <<home, at, seen>>
    BY TakesFacts
  <2> QED  BY <1>0, <2>1 DEF Addr, TypeOK
<1>2. /\ Ordered(r)'
      /\ \A a \in Addr, c \in Bucket : Of(a) = c /\ Sees(r, a, c) => Sees(r, a, c)'
  BY <1>0, <1>1, TakeRanks
<1>3. InList(n) /\ InList(Pv(n)) /\ Nx(Pv(n)) = n /\ Of(Pv(n)) = b
  <2>1. InList(n) /\ Of(n) = b
    BY <1>0, <1>1 DEF InList, Of
  <2> QED  BY <1>1, <2>1 DEF Ring
<1>4. PICK pA : pA = Pv(n)
  OBVIOUS
<1>5. pA \in Addr /\ next[pA] = n
  <2>1. pA \in Addr
    BY <1>3, <1>4 DEF InList, Addr
  <2>2. OrHead(next[pA], b) = n /\ n # b
    BY <1>0, <1>1, <1>3, <1>4 DEF Nx
  <2> QED  BY <2>1, <2>2 DEF OrHead
<1>6. \A a \in Addr : next'[a] = IF a = pA THEN next[n] ELSE next[a]
  BY <1>0, <1>1, <1>4, <1>5 DEF Unlink, Pv, Of, TypeOK
<1>7. \A c \in Bucket : Members(c)' = Members(c) \ {n}
  <2>1. \A m \in Node : Linked(m)' <=> Linked(m) /\ m # n
    BY <1>0, <1>1 DEF Linked, TypeOK
  <2> QED  BY <1>1, <2>1 DEF Members
<1>8. \A a \in Addr : Of(a)' = Of(a)
  BY <1>1 DEF Of
<1>9. ASSUME NEW q \in Proc, at[q] # Null, ScanOK(r, q)  PROVE ScanOK(r, q)'
  <2>1. PICK R \in SUBSET Addr, c \in Bucket :
          /\ Walk(q, R)
          /\ \A a \in R : Of(a) = c /\ Sees(r, a, c) /\ (a \in Node => r[a] > 0)
          /\ must[q] \subseteq Members(c)
          /\ \A m \in must[q] \ seen[q] : r[m] > r[at[q]]
    BY <1>9 DEF ScanOK
  <2>2. Walk(q, R)'
    <3>1. \A a \in R : next[a] # Null => next[a] \in R
      BY <2>1 DEF Walk
    <3>2. \A a \in R : next'[a] # Null => next'[a] \in R
      BY <1>1, <1>5, <1>6, <3>1, <1>0
    <3>3. \A d \in Bucket : ~ScanBegin(q, d)
      <4>1. ASSUME NEW d \in Bucket, ScanBegin(q, d)  PROVE FALSE
        BY <1>0, <1>1, <4>1 DEF ScanBegin, Linked, TypeOK, shared, nodeVars
      <4> QED  BY <4>1
    <3>4. at'[q] # Null
      BY <1>1, <1>9
    <3> QED  BY <1>9, <2>1, <3>2, <3>3, <3>4, WalkIn
  <2>3. \A a \in R : Of(a)' = c /\ Sees(r, a, c)' /\ (a \in Node => r[a] > 0)
    BY <1>2, <1>8, <2>1
  <2>4. must'[q] \subseteq Members(c)'
    BY <1>1, <1>7, <2>1
  <2>5. \A m \in must'[q] \ seen'[q] : r[m] > r[at'[q]]
    BY <1>1, <2>1
  <2> QED  BY <2>2, <2>3, <2>4, <2>5 DEF ScanOK
<1> QED  BY <1>2, <1>9

\* A step that leaves the lists alone keeps their order.
LEMMA StayRanks ==
  ASSUME TypeOK, Ring, NEW r, Ordered(r), UNCHANGED <<next, prev>>,
         \A n \in Node : /\ life'[n] \in {"linking", "in"} <=> life[n] \in {"linking", "in"}
                         /\ life[n] \in {"linking", "in"} => home'[n] = home[n]
  PROVE  /\ Ordered(r)'
         /\ \A a \in Addr, c \in Bucket : Sees(r, a, c) => Sees(r, a, c)'
         /\ \A c \in Bucket : Members(c)' = Members(c)
<1>1. \A m \in Node : /\ Linked(m)' <=> Linked(m)
                      /\ Linked(m) => home'[m] = home[m]
  BY DEF Linked
<1>2. \A c \in Bucket : Members(c)' = Members(c)
  BY <1>1 DEF Members
<1>3. \A a \in Addr, c \in Bucket : Sees(r, a, c) => Sees(r, a, c)'
  BY <1>2 DEF Sees
<1>4. \A a \in Addr : InList(a)' => InList(a) /\ Of(a)' = Of(a) /\ Pv(a)' = Pv(a)
  BY <1>1 DEF InList, Of, Pv
<1>5. \A n \in Node : Linked(n)' => r[Pv(n)'] < r[n]
  <2> SUFFICES ASSUME NEW n \in Node, Linked(n)'  PROVE r[Pv(n)'] < r[n]
    OBVIOUS
  <2>1. n \in Addr /\ InList(n)' /\ Linked(n)
    BY <1>1 DEF InList, Addr
  <2> QED  BY <1>4, <2>1 DEF Ordered
<1>6. \A a \in Addr : InList(a)' => Sees(r, a, Of(a))'
  <2> SUFFICES ASSUME NEW a \in Addr, InList(a)'  PROVE Sees(r, a, Of(a))'
    OBVIOUS
  <2>1. InList(a) /\ Of(a)' = Of(a)
    BY <1>4
  <2>2. PICK c \in Bucket : c = Of(a)
    BY DEF Of, Addr, TypeOK
  <2>3. Sees(r, a, c)'
    BY <1>3, <2>1, <2>2 DEF Ordered
  <2> QED  BY <2>1, <2>2, <2>3
<1>7. Ordered(r)'
  BY <1>5, <1>6 DEF Ordered
<1> QED  BY <1>2, <1>3, <1>7

\* A scan that begins has all the nodes of its bucket before it.
LEMMA BeginScan ==
  ASSUME Inv, Ring, IsFiniteSet(Node), NEW r, Ordered(r), NEW q \in Proc, NEW b \in Bucket,
         ScanBegin(q, b)
  PROVE  ScanOK(r, q)'
<1>0. /\ TypeOK /\ Null \notin Node /\ Null \notin Bucket /\ Node \cap Bucket = {}
      /\ r \in [Addr -> Nat]
  BY McHashAssumption DEF Inv, Ordered
<1> PICK R \in SUBSET Addr : R = {a \in Addr : InList(a) /\ Of(a) = b}
  OBVIOUS
<1>1. /\ at'[q] = b /\ must'[q] = BucketNodes(b) /\ UNCHANGED <<next, life, home>>
  BY <1>0 DEF ScanBegin, TypeOK, shared, listVars, nodeVars
<1>2. b \in R /\ b \in Addr
  BY DEF InList, Of, Addr
<1>3. \A a \in R : next[a] # Null => next[a] \in R
  <2> SUFFICES ASSUME NEW a \in R, next[a] # Null  PROVE next[a] \in R
    OBVIOUS
  <2>1. a \in Addr /\ InList(a) /\ Of(a) = b
    OBVIOUS
  <2>2. InList(Nx(a)) /\ Of(Nx(a)) = b
    BY <2>1 DEF Ring
  <2>3. Nx(a) = next[a] /\ next[a] \in Node
    BY <1>0, <2>1 DEF Nx, OrHead, TypeOK
  <2> QED  BY <2>2, <2>3 DEF Addr
<1>4. \A n \in R \cap Node : Shield(q, n)'
  BY <1>0, <1>1 DEF InList, Linked, Shield
<1>5. Walk(q, R)'
  BY <1>1, <1>2, <1>3, <1>4 DEF Walk
<1>6. ASSUME NEW k \in Node, Linked(k)  PROVE r[k] > 0
  <2>1. InList(k) /\ k \in Addr
    BY <1>6 DEF InList, Addr
  <2>2. Pv(k) \in Addr
    BY <2>1 DEF Ring, InList, Addr
  <2>3. r[Pv(k)] < r[k] /\ r[Pv(k)] \in Nat /\ r[k] \in Nat
    BY <1>0, <1>6, <2>1, <2>2 DEF Ordered
  <2> QED  BY <2>3
<1>7. \A c \in Bucket : Members(c)' = Members(c)
  BY <1>1 DEF Members, Linked
<1>8. ASSUME NEW a \in R  PROVE Of(a)' = b /\ Sees(r, a, b)' /\ (a \in Node => r[a] > 0)
  <2>1. a \in Addr /\ InList(a) /\ Of(a) = b
    OBVIOUS
  <2>2. Of(a)' = b
    BY <1>1, <2>1 DEF Of
  <2>3. Sees(r, a, b)
    BY <2>1 DEF Ordered
  <2>4. Sees(r, a, b)'
    BY <1>1, <1>7, <2>3 DEF Sees
  <2>5. a \in Node => Linked(a)
    BY <1>0, <2>1 DEF InList
  <2> QED  BY <1>6, <2>2, <2>4, <2>5
<1>9. must'[q] \subseteq Members(b)'
  <2>1. BucketNodes(b) \subseteq Members(b)
    BY <1>0, ListHoldsMembers
  <2> QED  BY <1>1, <1>7, <2>1
<1>10. \A m \in must'[q] \ seen'[q] : r[m] > r[at'[q]]
  <2> SUFFICES ASSUME NEW m \in must'[q]  PROVE r[m] > r[at'[q]]
    OBVIOUS
  <2>1. m \in Node /\ Linked(m)
    BY <1>7, <1>9 DEF Members
  <2>2. r[b] = 0
    BY DEF Ordered
  <2> QED  BY <1>1, <1>6, <2>1, <2>2
<1> QED  BY <1>5, <1>8, <1>9, <1>10 DEF ScanOK

\* A scan goes on, or stays where it is, while the lists stay as they are.
LEMMA StayScan ==
  ASSUME Inv, Ring, IsFiniteSet(Node), [Next]_vars, NEW r, Ordered(r), UNCHANGED <<next, prev>>,
         \A n \in Node : /\ life'[n] \in {"linking", "in"} <=> life[n] \in {"linking", "in"}
                         /\ life[n] \in {"linking", "in"} => home'[n] = home[n],
         NEW q \in Proc, at'[q] # Null, at[q] # Null => ScanOK(r, q)
  PROVE  ScanOK(r, q)'
<1>0. /\ TypeOK /\ LocalOK /\ Null \notin Node /\ Null \notin Bucket /\ Node \cap Bucket = {}
      /\ r \in [Addr -> Nat]
  BY McHashAssumption DEF Inv, Ordered
<1>1. /\ \A a \in Addr, c \in Bucket : Sees(r, a, c) => Sees(r, a, c)'
      /\ \A c \in Bucket : Members(c)' = Members(c)
  BY <1>0, StayRanks
<1>2. ASSUME NEW b \in Bucket, ScanBegin(q, b)  PROVE ScanOK(r, q)'
  BY <1>2, BeginScan
<1>3. ASSUME \A b \in Bucket : ~ScanBegin(q, b)  PROVE ScanOK(r, q)'
  <2>1. at[q] # Null
    BY <1>0, <1>3, AtMoves DEF LocalOK
  <2>2. PICK R \in SUBSET Addr, c \in Bucket :
          /\ Walk(q, R)
          /\ \A a \in R : Of(a) = c /\ Sees(r, a, c) /\ (a \in Node => r[a] > 0)
          /\ must[q] \subseteq Members(c)
          /\ \A m \in must[q] \ seen[q] : r[m] > r[at[q]]
    BY <2>1 DEF ScanOK
  <2>3. /\ at[q] \in R /\ at[q] \in Addr
        /\ \A a \in R : next[a] # Null => next[a] \in R
        /\ \A n \in R \cap Node : Shield(q, n)
    BY <2>2 DEF Walk
  <2>4. Walk(q, R)'
    <3>1. \A a \in R : next'[a] # Null => next'[a] \in R
      BY <2>3
    <3> QED  BY <1>3, <2>1, <2>2, <3>1, WalkIn
  <2>5. ASSUME NEW a \in R  PROVE Of(a)' = c /\ Sees(r, a, c)' /\ (a \in Node => r[a] > 0)
    <3>1. a \in Addr /\ Of(a) = c /\ Sees(r, a, c) /\ (a \in Node => r[a] > 0)
      BY <2>2
    <3>2. Of(a)' = Of(a)
      <4>1. a \in Node => life[a] # "new"
        BY <2>3 DEF Shield
      <4>2. a \in Node => home'[a] = home[a]
        BY <4>1, PlaceMoves
      <4> QED  BY <3>1, <4>2 DEF Of, Addr
    <3> QED  BY <1>1, <3>1, <3>2
  <2>6. must'[q] \subseteq must[q] /\ must'[q] \subseteq Members(c)'
    BY <1>1, <1>3, <2>1, <2>2, ScanMoves
  <2>7. CASE at'[q] = at[q] /\ seen'[q] = seen[q]
    <3>1. \A m \in must'[q] \ seen'[q] : r[m] > r[at'[q]]
      BY <2>2, <2>6, <2>7
    <3> QED  BY <2>4, <2>5, <2>6, <3>1 DEF ScanOK
  <2>8. CASE /\ next[at[q]] # Null /\ at'[q] = next[at[q]]
             /\ seen'[q] = seen[q] \cup {next[at[q]]}
    <3>1. PICK y : y = next[at[q]]
      OBVIOUS
    <3>2. y \in Node /\ y \in R /\ r[y] > 0 /\ y \in Addr
      BY <1>0, <2>2, <2>3, <2>8, <3>1 DEF TypeOK
    <3>3. ASSUME NEW m \in must'[q] \ seen'[q]  PROVE r[m] > r[y]
      <4>1. m \in must[q] \ seen[q] /\ m # y /\ m \in Members(c) /\ m \in Node /\ m \in Addr
        BY <2>2, <2>6, <2>8, <3>1 DEF Members, Addr
      <4>2. r[m] > r[at[q]] /\ Sees(r, at[q], c)
        BY <2>2, <2>3, <4>1
      <4>3. r[y] <= r[m]
        BY <3>1, <4>1, <4>2 DEF Sees
      <4>4. r[y] \in Nat /\ r[m] \in Nat
        BY <1>0, <3>2, <4>1
      <4>5. r[m] # r[y]
        BY <3>2, <4>1 DEF Ordered
      <4> QED  BY <4>3, <4>4, <4>5
    <3>4. \A m \in must'[q] \ seen'[q] : r[m] > r[at'[q]]
      BY <2>8, <3>1, <3>3
    <3> QED  BY <2>4, <2>5, <2>6, <3>4 DEF ScanOK
  <2> QED  BY <1>3, <2>1, <2>7, <2>8, ScanMoves
<1> QED  BY <1>2, <1>3

\* The nodes of every list can be ranked, and every scan has what it has to return before it.
OrderInv ==
  DeletesSafe => \E r : Ordered(r) /\ \A q \in Proc : at[q] # Null => ScanOK(r, q)

\* In a table as it is created every list is empty.
LEMMA OrderInit == Init => OrderInv
<1> SUFFICES ASSUME Init  PROVE \E r : Ordered(r) /\ \A q \in Proc : at[q] # Null => ScanOK(r, q)
  BY DEF OrderInv
<1>1. \A q \in Proc : at[q] = Null
  BY DEF Init
<1> PICK r : r = [a \in Addr |-> 0]
  OBVIOUS
<1>2. r \in [Addr -> Nat] /\ \A a \in Addr : r[a] = 0
  OBVIOUS
<1>3. \A n \in Node : ~Linked(n)
  BY DEF Init, Linked
<1>4. \A a, b : Sees(r, a, b)
  BY <1>3 DEF Sees, Members
<1>5. Ordered(r)
  BY <1>2, <1>3, <1>4 DEF Ordered, Addr
<1> QED  BY <1>1, <1>5

\* Every step keeps the order.
LEMMA OrderNext ==
  ASSUME IsFiniteSet(Node), Inv, AppendsHome, ListInv, OrderInv, [Next]_vars
  PROVE  OrderInv'
<1> SUFFICES ASSUME fault' = "none"
             PROVE  \E s : Ordered(s)' /\ \A q \in Proc : at'[q] # Null => ScanOK(s, q)'
  BY DEF OrderInv, DeletesSafe
<1>0. TypeOK /\ LocalOK /\ fault = "none"
  <2>1. fault # "none" => fault' = fault
    BY DeadStays DEF vars
  <2> QED  BY <2>1 DEF Inv
<1>1. KeyInv /\ Ring
  BY <1>0 DEF ListInv, DeletesSafe
<1>2. PICK r : Ordered(r) /\ \A q \in Proc : at[q] # Null => ScanOK(r, q)
  BY <1>0 DEF OrderInv, DeletesSafe
<1>3. ASSUME NEW p \in Proc, LinkNode(p)
      PROVE  \E s : Ordered(s)' /\ \A q \in Proc : at'[q] # Null => ScanOK(s, q)'
  <2>1. at' = at
    BY <1>3 DEF LinkNode
  <2>2. PICK s : Ordered(s)' /\ \A q \in Proc : at[q] # Null /\ ScanOK(r, q) => ScanOK(s, q)'
    BY <1>0, <1>1, <1>2, <1>3, LinkScan
  <2> QED  BY <1>2, <2>1, <2>2
<1>4. ASSUME NEW p \in Proc, Takes(p)
      PROVE  \E s : Ordered(s)' /\ \A q \in Proc : at'[q] # Null => ScanOK(s, q)'
  <2>1. at' = at
    BY <1>4, TakesFacts
  <2>2. Ordered(r)' /\ \A q \in Proc : at[q] # Null /\ ScanOK(r, q) => ScanOK(r, q)'
    BY <1>1, <1>2, <1>4, TakeScan
  <2> QED  BY <1>2, <2>1, <2>2
<1>5. CASE /\ UNCHANGED <<next, prev>>
           /\ \A n \in Node : /\ life'[n] \in {"linking", "in"} <=> life[n] \in {"linking", "in"}
                              /\ life[n] \in {"linking", "in"} => home'[n] = home[n]
  <2>1. Ordered(r)'
    BY <1>0, <1>1, <1>2, <1>5, StayRanks
  <2>2. ASSUME NEW q \in Proc, at'[q] # Null  PROVE ScanOK(r, q)'
    BY <1>1, <1>2, <1>5, <2>2, StayScan
  <2> QED  BY <2>1, <2>2
<1> QED  BY <1>3, <1>4, <1>5, LinksMove

\* Ranked lists are exact, and lead a scan to all it has to return.
LEMMA OrderShows ==
  ASSUME IsFiniteSet(Node), Inv, ListInv, OrderInv, DeletesSafe
  PROVE  ListsExact /\ ScanComplete
<1>0. TypeOK /\ LocalOK /\ Ring /\ Null \notin Node /\ Null \notin Bucket
  BY McHashAssumption DEF Inv, ListInv
<1>1. PICK r : Ordered(r) /\ \A q \in Proc : at[q] # Null => ScanOK(r, q)
  BY DEF OrderInv
<1>2. ListsExact
  BY <1>0, <1>1, OrderedExact
<1>3. ASSUME NEW p \in Proc, pc[p] = "scan", next[at[p]] = Null
      PROVE  must[p] \subseteq seen[p]
  <2>1. at[p] # Null
    BY <1>0, <1>3 DEF LocalOK
  <2>2. PICK R \in SUBSET Addr, c \in Bucket :
          /\ Walk(p, R)
          /\ \A a \in R : Of(a) = c /\ Sees(r, a, c) /\ (a \in Node => r[a] > 0)
          /\ must[p] \subseteq Members(c)
          /\ \A m \in must[p] \ seen[p] : r[m] > r[at[p]]
    BY <1>1, <2>1 DEF ScanOK
  <2>3. ASSUME NEW m \in must[p] \ seen[p]  PROVE FALSE
    BY <1>3, <2>2, <2>3 DEF Walk, Sees
  <2> QED  BY <2>3
<1> QED  BY <1>2, <1>3 DEF ScanComplete

\* The invariant of the lists with their order.
LEMMA OrderInvariant ==
  ASSUME IsFiniteSet(Node)
  PROVE  Spec => [](ListsExact /\ ScanComplete)
<1>1. Inv /\ Placed /\ ListInv /\ OrderInv /\ [Next]_vars => OrderInv'
  BY OrderNext DEF Placed
<1>2. Inv /\ ListInv /\ OrderInv => ListsExact /\ ScanComplete
  <2>1. ~DeletesSafe => ListsExact /\ ScanComplete
    BY DEF DeletesSafe, ListsExact, ScanComplete
  <2> QED  BY <2>1, OrderShows
<1> QED  BY <1>1, <1>2, OrderInit, ListInvariant, PTL DEF Spec

\* A scan that comes to the end of its list has returned every node that was in the bucket
\* from its beginning, whatever was taken out and linked under it.
THEOREM ScansComplete ==
  ASSUME IsFiniteSet(Node)
  PROVE  Spec => []ScanComplete
BY OrderInvariant, PTL

\* The list of a bucket holds the nodes that were appended to it and have not been taken out,
\* whoever deletes them and in whatever order, until a step has gone wrong.
THEOREM LivingListsExact ==
  ASSUME IsFiniteSet(Node)
  PROVE  Spec => []ListsExact
BY OrderInvariant, PTL

=============================================================================
