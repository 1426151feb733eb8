-------------------------------- MODULE McHash --------------------------------
(***************************************************************************)
(* The hash table every part of the controller keeps its objects in:        *)
(* include/mchash.h and utils/mchash.c.  A table has buckets of doubly      *)
(* linked nodes and an array of indirection slots; a node is named by a     *)
(* safe reference, the index of its slot and the magic number the slot had  *)
(* when the node was appended.  Readers take no lock: they run in an RCU    *)
(* read section, and a deleted node is freed by call_rcu when every read    *)
(* section that was open at that time has ended.                            *)
(*                                                                         *)
(* An operation is split where another thread can act between two of its    *)
(* accesses: at every lock it takes, and at every unlocked access to a slot *)
(* or a link.  A section under one lock is one step unless a reader can     *)
(* tell its parts apart.  Bucket counts and prefetched pointers, which       *)
(* nothing in the program reads, are left out.                              *)
(***************************************************************************)
EXTENDS Naturals, Sequences, FiniteSets

CONSTANTS Node,         \* application nodes, each appended at most once
          Bucket,       \* bucket_list
          Bucket0,      \* the bucket a zeroed link key names
          MaxNodes,     \* max_nodes, the slots of the indirection array
          MagicMod,     \* 2^32 in the code: magic_no is an uint32_t
          Proc,         \* threads
          RefDeleter,   \* threads that delete by safe reference
          NodeDeleter,  \* threads that delete a node they found by a scan
          Inserter,     \* threads that insert before or after a scanned node
          Null

Slot == 0 .. (MaxNodes - 1)

ASSUME McHashAssumption ==
  /\ MaxNodes \in Nat \ {0}
  /\ MagicMod \in Nat /\ MagicMod > 1
  /\ Bucket0 \in Bucket
  /\ Bucket \cap Node = {}
  /\ Null \notin Node \cup Bucket
  /\ RefDeleter \cup NodeDeleter \cup Inserter \subseteq Proc

VARIABLES
  smagic, snode,        \* array_indirect_entry: magic and node_p of every slot
  free_q,               \* the free slots, first in first out
  magic_no, active,     \* magic_no and active_nodes of the table
  next, prev,           \* links of nodes and of bucket heads
  index, key,           \* mchash_table_link.index and .key of every node
  ref,                  \* magic of the safe reference an append returned
  life,                 \* what has become of every node
  home,                 \* the bucket every node was appended to (history)
  pc, how,              \* where a thread is, and the kind of its insertion
  held, idx, bkt,       \* its local node, slot and bucket pointers
  at, anchor,           \* its scan position, the node it inserts next to
  seen, must,           \* nodes its scan returned; nodes that have been in
                        \* the bucket since the scan began (history)
  wait,                 \* read sections the RCU callback of a node waits for
  table,                \* "live", or "deleted" by mchash_table_delete
  fault                 \* the first thing that went wrong for good, or "none"

slotVars == <<smagic, snode>>
tableVars == <<free_q, magic_no, active, table>>
listVars == <<next, prev>>
linkVars == <<index, key, ref>>
nodeVars == <<life, home>>
shared == <<slotVars, tableVars, listVars, linkVars, nodeVars>>
procVars == <<pc, how, held, idx, bkt, at, anchor, seen, must>>
vars == <<shared, procVars, wait, fault>>

Addr == Node \cup Bucket

AppendPc == {"fill", "link", "key"}
RefPc    == {"ref_deref", "ref_lock", "ref_submit", "ref_clear", "ref_push"}
NodePc   == {"node_lock", "node_push", "node_submit"}
Pc       == {"idle", "deref", "hold", "scan"} \cup AppendPc \cup RefPc \cup NodePc

Life == {"new", "slot", "linking", "in", "out", "rcu", "freed"}
Linked(n) == life[n] \in {"linking", "in"}

Fault == {"none", "null_link", "ref_unlink", "node_unlink", "wrong_bucket", "stale_anchor"}

\* The table as mchash_table_create leaves it.
Init ==
  /\ smagic = [s \in Slot |-> 0] /\ snode = [s \in Slot |-> Null]
  /\ free_q = [i \in 1 .. MaxNodes |-> i - 1]
  /\ magic_no = 1 /\ active = 0 /\ table = "live"
  /\ next = [a \in Addr |-> Null] /\ prev = [a \in Addr |-> Null]
  /\ index = [n \in Node |-> 0] /\ key = [n \in Node |-> Bucket0]
  /\ ref = [n \in Node |-> 0]
  /\ life = [n \in Node |-> "new"] /\ home = [n \in Node |-> Bucket0]
  /\ pc = [p \in Proc |-> "idle"] /\ how = [p \in Proc |-> "append"]
  /\ held = [p \in Proc |-> Null] /\ idx = [p \in Proc |-> 0]
  /\ bkt = [p \in Proc |-> Bucket0]
  /\ at = [p \in Proc |-> Null] /\ anchor = [p \in Proc |-> Null]
  /\ seen = [p \in Proc |-> {}] /\ must = [p \in Proc |-> {}]
  /\ wait = [n \in Node |-> {}]
  /\ fault = "none"

Up == fault = "none" /\ table = "live"

-----------------------------------------------------------------------------
(***************************************************************************)
(* Threads, locks and read sections.                                        *)
(***************************************************************************)

\* A scan, an access and a delete run between CNTLR_RCU_READ_LOCK_TAKE and
\* CNTLR_RCU_READ_LOCK_RELEASE; an append on its own needs no read section.
Reading(p) == at[p] # Null \/ pc[p] \in {"deref", "hold"} \cup RefPc \cup NodePc

Readers == {p \in Proc : Reading(p)}

\* The bucket lock is held between two steps of these three sections only.
Locked(b) == \E p \in Proc : pc[p] \in {"key", "ref_submit", "ref_clear"} /\ bkt[p] = b

Step(p, from, to) == pc[p] = from /\ pc' = [pc EXCEPT ![p] = to]

\* The operation returns: to the scan it was called from, or to a thread that
\* then ends its read section.
Return(p) ==
  /\ pc' = [pc EXCEPT ![p] = IF at[p] = Null THEN "idle" ELSE "scan"]
  /\ held' = [held EXCEPT ![p] = Null]
  /\ idx' = [idx EXCEPT ![p] = 0]
  /\ bkt' = [bkt EXCEPT ![p] = Bucket0]
  /\ anchor' = [anchor EXCEPT ![p] = Null]
  /\ how' = [how EXCEPT ![p] = "append"]
  /\ UNCHANGED <<at, seen>>

EndRead(p) == wait' = IF at[p] = Null THEN [n \in Node |-> wait[n] \ {p}] ELSE wait

\* Mutant: the node is never handed over.
ForgetRcu(n) == UNCHANGED <<life, wait>>

\* call_rcu (liburcu): the callback of n runs when the read sections that are
\* open now have ended.  Submitting the same rcu_head twice corrupts the queue.
CallRcu(n) ==
  /\ life' = [life EXCEPT ![n] = "rcu"]
  /\ wait' = [wait EXCEPT ![n] = Readers]

-----------------------------------------------------------------------------
(***************************************************************************)
(* Links.  A null neighbour stands for the head of the bucket at hand.      *)
(***************************************************************************)

OrHead(a, b) == IF a = Null THEN b ELSE a

\* Mutant: the list forgets its tail.
InsertNoTail(b, pv, n, nx) ==
  /\ next' = [next EXCEPT ![n] = nx, ![OrHead(pv, b)] = n]
  /\ prev' = IF nx = Null THEN [prev EXCEPT ![n] = pv] ELSE [prev EXCEPT ![n] = pv, ![nx] = n]

\* mchash_insert_node_in_middle.
InsertInMiddle(b, pv, n, nx) ==
  /\ next' = [next EXCEPT ![n] = nx, ![OrHead(pv, b)] = n]
  /\ prev' = [prev EXCEPT ![n] = pv, ![OrHead(nx, b)] = n]

\* Mutant: the deleted node also loses its own links.
UnlinkClears(n, b) ==
  /\ next' = [next EXCEPT ![OrHead(prev[n], b)] = next[n], ![n] = Null]
  /\ prev' = [prev EXCEPT ![OrHead(next[n], b)] = OrHead(prev[n], b)]

\* Out of the list of its neighbours; the node keeps its own links, so that a
\* reader that stands on it can go on.
Unlink(n, b) ==
  /\ next' = [next EXCEPT ![OrHead(prev[n], b)] = next[n]]
  /\ prev' = [prev EXCEPT ![OrHead(next[n], b)] = OrHead(prev[n], b)]

\* Mutant: a deleted node leaves its magic number in the slot.
KeepMagic(s) == UNCHANGED smagic

ResetMagic(s) == smagic' = [smagic EXCEPT ![s] = 0]

\* A node that is in no list has stale neighbours, and is submitted to call_rcu a
\* second time; a node of another bucket is unlinked without the lock of its list.
\* What the program does from there on is undefined.
TakeOut(n, b, by) ==
  /\ Unlink(n, b)
  /\ life' = [life EXCEPT ![n] = "out"]
  /\ must' = [q \in Proc |-> must[q] \ {n}]
  /\ fault' = IF ~Linked(n) THEN by ELSE IF b # home[n] THEN "wrong_bucket" ELSE fault

\* The nodes a reader finds from the head of bucket b.
BucketNodes(b) ==
  LET walk[i \in 0 .. Cardinality(Node)] ==
        IF i = 0 THEN b ELSE IF walk[i - 1] = Null THEN Null ELSE next[walk[i - 1]]
  IN  Node \cap {walk[i] : i \in 1 .. Cardinality(Node)}

-----------------------------------------------------------------------------
(***************************************************************************)
(* MCHASH_APPEND_NODE, MCHASH_INSERT_NODE_BEFORE, MCHASH_INSERT_NODE_AFTER. *)
(***************************************************************************)

\* Mutant: the counter is not advanced.
NextMagicSame(m) == m

\* magic_no++, skipping 0, which marks a slot without a node.
NextMagic(m) == LET k == (m + 1) % MagicMod IN IF k = 0 THEN 1 ELSE k

\* The table section of an insertion of the kind k.
TakeSlot(p, n, b, k) ==
  /\ life[n] = "new" /\ free_q # << >>
  /\ LET s == Head(free_q) IN
       /\ smagic' = [smagic EXCEPT ![s] = magic_no]
       /\ idx' = [idx EXCEPT ![p] = s]
  /\ free_q' = Tail(free_q)
  /\ magic_no' = NextMagic(magic_no)
  /\ active' = active + 1
  /\ life' = [life EXCEPT ![n] = "slot"]
  /\ home' = [home EXCEPT ![n] = b]
  /\ pc' = [pc EXCEPT ![p] = "fill"]
  /\ how' = [how EXCEPT ![p] = k]
  /\ held' = [held EXCEPT ![p] = n]
  /\ bkt' = [bkt EXCEPT ![p] = b]
  /\ UNCHANGED <<snode, table, listVars, linkVars, at, seen, must, wait, fault>>

AppendNode(p, n, b) ==
  /\ Up /\ pc[p] = "idle"
  /\ TakeSlot(p, n, b, "append")
  /\ UNCHANGED anchor

\* Callers insert next to a node they have found in the list.
InsertNode(p, n, k) ==
  /\ Up /\ p \in Inserter /\ pc[p] = "scan" /\ at[p] \in Node /\ Linked(at[p])
  /\ TakeSlot(p, n, home[at[p]], k)
  /\ anchor' = [anchor EXCEPT ![p] = at[p]]

\* No free slot: status FALSE, and the caller gives the node back.
AppendRefused(p, n) ==
  /\ Up /\ pc[p] = "idle" /\ life[n] = "new" /\ free_q = << >>
  /\ life' = [life EXCEPT ![n] = "freed"]
  /\ UNCHANGED <<slotVars, tableVars, listVars, linkVars, home, procVars, wait, fault>>

\* Mutant: the reference is made from the table's counter, outside its lock.
HandedCounter(p) == magic_no

HandedMagic(p) == smagic[idx[p]]

\* Between the two locks: node_p, the reference handed out, the link's index.
FillSlot(p) ==
  /\ Up /\ Step(p, "fill", "link")
  /\ snode' = [snode EXCEPT ![idx[p]] = held[p]]
  /\ index' = [index EXCEPT ![held[p]] = idx[p]]
  /\ ref' = [ref EXCEPT ![held[p]] = HandedMagic(p)]
  /\ UNCHANGED <<smagic, tableVars, listVars, key, nodeVars, how, held, idx, bkt,
                 at, anchor, seen, must, wait, fault>>

\* Under the bucket lock: into the list.  A reader may find the node from here on.
\* A neighbour that was deleted meanwhile has links that lead out of the list.
LinkNode(p) ==
  /\ Up /\ ~Locked(bkt[p]) /\ Step(p, "link", "key")
  /\ LET b == bkt[p]  n == held[p]  a == anchor[p] IN
       /\ \/ how[p] = "append" /\ InsertInMiddle(b, prev[b], n, Null)
          \/ how[p] = "before" /\ InsertInMiddle(b, prev[a], n, a)
          \/ how[p] = "after"  /\ InsertInMiddle(b, a, n, next[a])
       /\ life' = [life EXCEPT ![n] = "linking"]
       /\ fault' = IF how[p] = "append" \/ Linked(a) THEN fault ELSE "stale_anchor"
  /\ UNCHANGED <<slotVars, tableVars, linkVars, home, how, held, idx, bkt, at, anchor,
                 seen, must, wait>>

\* Still under the lock: the key.
KeyNode(p) ==
  /\ Up /\ pc[p] = "key"
  /\ key' = [key EXCEPT ![held[p]] = bkt[p]]
  /\ life' = IF life[held[p]] = "linking" THEN [life EXCEPT ![held[p]] = "in"] ELSE life
  /\ Return(p) /\ EndRead(p)
  /\ UNCHANGED <<slotVars, tableVars, listVars, index, ref, home, must, fault>>

-----------------------------------------------------------------------------
(***************************************************************************)
(* Readers: MCHASH_BUCKET_SCAN and MCHASH_ACCESS_NODE.                      *)
(***************************************************************************)

\* The thread takes the RCU read lock and stands on the head of bucket b.
ScanBegin(p, b) ==
  /\ Up /\ Step(p, "idle", "scan")
  /\ at' = [at EXCEPT ![p] = b]
  /\ must' = [must EXCEPT ![p] = BucketNodes(b)]
  /\ UNCHANGED <<shared, how, held, idx, bkt, anchor, seen, wait, fault>>

ScanNext(p) ==
  /\ Up /\ pc[p] = "scan" /\ next[at[p]] # Null
  /\ at' = [at EXCEPT ![p] = next[at[p]]]
  /\ seen' = [seen EXCEPT ![p] = @ \cup {next[at[p]]}]
  /\ UNCHANGED <<shared, pc, how, held, idx, bkt, anchor, must, wait, fault>>

\* The caller breaks out of the loop, or the list ends; the read lock is released.
ScanEnd(p) ==
  /\ Up /\ Step(p, "scan", "idle")
  /\ at' = [at EXCEPT ![p] = Null]
  /\ seen' = [seen EXCEPT ![p] = {}]
  /\ must' = [must EXCEPT ![p] = {}]
  /\ wait' = [n \in Node |-> wait[n] \ {p}]
  /\ UNCHANGED <<shared, how, held, idx, bkt, anchor, fault>>

\* A reference is used by any thread once the append that made it has returned.
HasRef(n) == life[n] \in {"in", "out", "rcu", "freed"} /\ ref[n] # 0

MagicMatches(n) == smagic[index[n]] = ref[n]

\* The unlocked comparison of the magic number.  When it fails nothing changes.
AccessNode(p, n) ==
  /\ Up /\ HasRef(n) /\ MagicMatches(n)
  /\ Step(p, "idle", "deref")
  /\ idx' = [idx EXCEPT ![p] = index[n]]
  /\ UNCHANGED <<shared, how, held, bkt, at, anchor, seen, must, wait, fault>>

\* The unlocked read of node_p: status TRUE, whatever it is.
AccessDeref(p) ==
  /\ Up /\ Step(p, "deref", "hold")
  /\ held' = [held EXCEPT ![p] = snode[idx[p]]]
  /\ UNCHANGED <<shared, how, idx, bkt, at, anchor, seen, must, wait, fault>>

AccessEnd(p) ==
  /\ Up /\ pc[p] = "hold"
  /\ Return(p) /\ EndRead(p)
  /\ UNCHANGED <<shared, must, fault>>

-----------------------------------------------------------------------------
(***************************************************************************)
(* MCHASH_DELETE_NODE_BY_REF.                                               *)
(***************************************************************************)

\* The unlocked comparison, from a timer callback or inside a scan.  When it
\* fails the status is FALSE and nothing changes.
DeleteByRef(p, n) ==
  /\ Up /\ p \in RefDeleter /\ HasRef(n) /\ MagicMatches(n)
  /\ pc[p] \in {"idle", "scan"} /\ pc' = [pc EXCEPT ![p] = "ref_deref"]
  /\ idx' = [idx EXCEPT ![p] = index[n]]
  /\ UNCHANGED <<shared, how, held, bkt, at, anchor, seen, must, wait, fault>>

\* The unlocked read of node_p and of the key in it: a null pointer kills the process.
RefDeref(p) ==
  /\ Up /\ pc[p] = "ref_deref"
  /\ LET n == snode[idx[p]] IN
       \/ /\ n = Null /\ fault' = "null_link"
          /\ UNCHANGED <<shared, procVars, wait>>
       \/ /\ n # Null /\ Step(p, "ref_deref", "ref_lock")
          /\ held' = [held EXCEPT ![p] = n]
          /\ bkt' = [bkt EXCEPT ![p] = key[n]]
          /\ UNCHANGED <<shared, how, idx, at, anchor, seen, must, wait, fault>>

\* Under the bucket lock the magic number is only compared with 0.
RefUnlink(p) ==
  /\ Up /\ pc[p] = "ref_lock" /\ ~Locked(bkt[p])
  /\ \/ /\ smagic[idx[p]] = 0
        /\ Return(p) /\ EndRead(p)
        /\ UNCHANGED <<shared, must, fault>>
     \/ /\ smagic[idx[p]] # 0 /\ Step(p, "ref_lock", "ref_submit")
        /\ ResetMagic(idx[p])
        /\ TakeOut(held[p], bkt[p], "ref_unlink")
        /\ UNCHANGED <<snode, tableVars, linkVars, home, how, held, idx, bkt,
                       at, anchor, seen, wait>>

\* call_rcu comes before node_p is cleared, both under the bucket lock.
RefSubmit(p) ==
  /\ Up /\ Step(p, "ref_submit", "ref_clear")
  /\ CallRcu(held[p])
  /\ UNCHANGED <<slotVars, tableVars, listVars, linkVars, home, how, held, idx, bkt,
                 at, anchor, seen, must, fault>>

RefClear(p) ==
  /\ Up /\ Step(p, "ref_clear", "ref_push")
  /\ snode' = [snode EXCEPT ![idx[p]] = Null]
  /\ UNCHANGED <<smagic, tableVars, listVars, linkVars, nodeVars, how, held, idx, bkt,
                 at, anchor, seen, must, wait, fault>>

\* Mutants: the slot is queued twice; the node is counted out twice.
PushSlotTwice(p) ==
  /\ active' = active - 1
  /\ free_q' = Append(Append(free_q, idx[p]), idx[p])
PushSlotMiscounts(p) ==
  /\ active' = active - 2
  /\ free_q' = Append(free_q, idx[p])

\* Under the table lock: the slot is free again.
PushSlot(p) ==
  /\ active' = active - 1
  /\ free_q' = Append(free_q, idx[p])

RefPush(p) ==
  /\ Up /\ pc[p] = "ref_push"
  /\ PushSlot(p)
  /\ Return(p) /\ EndRead(p)
  /\ UNCHANGED <<slotVars, magic_no, table, listVars, linkVars, nodeVars, must, fault>>

-----------------------------------------------------------------------------
(***************************************************************************)
(* MCHASH_DELETE_NODE.                                                      *)
(***************************************************************************)

\* The bucket and the slot are read from the node the scan stands on.  Callers
\* delete what they or their peer has appended: the append has returned.
DeleteNode(p) ==
  /\ Up /\ p \in NodeDeleter /\ at[p] \in Node
  /\ life[at[p]] # "linking"
  /\ Step(p, "scan", "node_lock")
  /\ held' = [held EXCEPT ![p] = at[p]]
  /\ idx' = [idx EXCEPT ![p] = index[at[p]]]
  /\ bkt' = [bkt EXCEPT ![p] = key[at[p]]]
  /\ UNCHANGED <<shared, how, at, anchor, seen, must, wait, fault>>

\* Mutant: the slot is not compared with the node.
SlotUnread(p) == TRUE

HoldsNode(p) == snode[idx[p]] = held[p]

\* Under the bucket lock the slot is compared with the node itself.
NodeUnlink(p) ==
  /\ Up /\ pc[p] = "node_lock" /\ ~Locked(bkt[p])
  /\ \/ /\ ~HoldsNode(p)
        /\ Return(p) /\ EndRead(p)
        /\ UNCHANGED <<shared, must, fault>>
     \/ /\ HoldsNode(p) /\ Step(p, "node_lock", "node_push")
        /\ ResetMagic(idx[p])
        /\ snode' = [snode EXCEPT ![idx[p]] = Null]
        /\ TakeOut(held[p], bkt[p], "node_unlink")
        /\ UNCHANGED <<tableVars, linkVars, home, how, held, idx, bkt,
                       at, anchor, seen, wait>>

NodePush(p) ==
  /\ Up /\ Step(p, "node_push", "node_submit")
  /\ PushSlot(p)
  /\ UNCHANGED <<slotVars, magic_no, table, listVars, linkVars, nodeVars, how, held, idx, bkt,
                 at, anchor, seen, must, wait, fault>>

NodeSubmit(p) ==
  /\ Up /\ pc[p] = "node_submit"
  /\ CallRcu(held[p])
  /\ Return(p)
  /\ UNCHANGED <<slotVars, tableVars, listVars, linkVars, home, must, fault>>

-----------------------------------------------------------------------------
(***************************************************************************)
(* Reclamation, and the end of the table.                                   *)
(***************************************************************************)

\* The RCU thread runs free_func_cbk when the grace period is over (liburcu).
RcuFree(n) ==
  /\ fault = "none" /\ life[n] = "rcu" /\ wait[n] = {}
  /\ life' = [life EXCEPT ![n] = "freed"]
  /\ UNCHANGED <<slotVars, tableVars, listVars, linkVars, home, procVars, wait, fault>>

\* mchash_table_delete frees the arrays when active_nodes is 0; its callers have
\* stopped using the table.
TableDelete ==
  /\ Up /\ active = 0 /\ \A p \in Proc : pc[p] = "idle"
  /\ table' = "deleted"
  /\ UNCHANGED <<slotVars, free_q, magic_no, active, listVars, linkVars, nodeVars, procVars,
                 wait, fault>>

-----------------------------------------------------------------------------
\* What a thread does once it has begun: it is scheduled, and a lock it waits
\* for is given back.
Proceed(p) ==
  \/ FillSlot(p) \/ LinkNode(p) \/ KeyNode(p)
  \/ ScanNext(p) \/ ScanEnd(p)
  \/ AccessDeref(p) \/ AccessEnd(p)
  \/ RefDeref(p) \/ RefUnlink(p) \/ RefSubmit(p) \/ RefClear(p) \/ RefPush(p)
  \/ NodeUnlink(p) \/ NodePush(p) \/ NodeSubmit(p)

\* What a thread may begin.
Begin(p) ==
  \/ \E n \in Node, b \in Bucket : AppendNode(p, n, b)
  \/ \E n \in Node, k \in {"before", "after"} : InsertNode(p, n, k)
  \/ \E n \in Node : AppendRefused(p, n) \/ AccessNode(p, n) \/ DeleteByRef(p, n)
  \/ \E b \in Bucket : ScanBegin(p, b)
  \/ DeleteNode(p)

Next ==
  \/ \E p \in Proc : Begin(p) \/ Proceed(p)
  \/ \E n \in Node : RcuFree(n)
  \/ TableDelete

Spec == Init /\ [][Next]_vars

\* Threads run, a scan loop deletes finitely often at one node, and grace periods
\* end; nobody need begin anything.
Fairness ==
  /\ \A p \in Proc : WF_vars(Proceed(p)) /\ SF_vars(ScanNext(p) \/ ScanEnd(p))
  /\ WF_vars(\E n \in Node : RcuFree(n))

FairSpec == Spec /\ Fairness

-----------------------------------------------------------------------------
(* Properties.                                                              *)

\* Every variable has its type.
TypeOK ==
  /\ smagic \in [Slot -> Nat] /\ snode \in [Slot -> Node \cup {Null}]
  /\ free_q \in Seq(Slot) /\ magic_no \in Nat /\ active \in Nat
  /\ next \in [Addr -> Node \cup {Null}] /\ prev \in [Addr -> Addr \cup {Null}]
  /\ index \in [Node -> Slot] /\ key \in [Node -> Bucket] /\ ref \in [Node -> Nat]
  /\ life \in [Node -> Life] /\ home \in [Node -> Bucket]
  /\ pc \in [Proc -> Pc] /\ how \in [Proc -> {"append", "before", "after"}]
  /\ held \in [Proc -> Node \cup {Null}] /\ idx \in [Proc -> Slot] /\ bkt \in [Proc -> Bucket]
  /\ at \in [Proc -> Addr \cup {Null}] /\ anchor \in [Proc -> Node \cup {Null}]
  /\ seen \in [Proc -> SUBSET Node] /\ must \in [Proc -> SUBSET Node]
  /\ wait \in [Node -> SUBSET Proc]
  /\ table \in {"live", "deleted"}
  /\ fault \in Fault

\* "This is set to TRUE in case of successful deletion, FALSE in case of failure"
\* (mchash.h:362): a delete that loses a race returns FALSE.  It never follows a
\* null node_p, never unlinks and submits a node that is out of its list already,
\* and works under the lock of the list it changes (mchash.h:373-396, 429-465).
\* With several deleters, which most tables of the program have, this is not so.
DeletesSafe == fault = "none"

\* The delete by node is never what goes wrong first, whoever else appends, inserts
\* and deletes, in any bucket: it compares node_p with its node under the bucket lock,
\* and a delete by reference holds that lock until node_p is cleared
\* (mchash.h:376-396, 429-433).
NodeDeletesSafe == fault # "node_unlink"

(* What follows holds in a table with any number of buckets and deleters until a   *)
(* delete by reference, or an insertion next to a deleted node, has gone wrong.    *)

\* A slot belongs to one owner at a time: the free queue, a thread that is
\* filling or giving it back, or the node it points to; active_nodes counts
\* the slots that are not free (mchash.h:304-314, 397-410).
Giving(s) ==
  {p \in Proc : pc[p] \in {"fill", "ref_submit", "ref_clear", "ref_push", "node_push"}
                 /\ idx[p] = s}
Owning(s) == {n \in Node : life[n] \in {"slot", "linking", "in"} /\ snode[s] = n}
SlotsConserved ==
  fault = "none" =>
    /\ active + Len(free_q) = MaxNodes
    /\ \A i, j \in 1 .. Len(free_q) : free_q[i] = free_q[j] => i = j
    /\ \A s \in Slot :
         IF \E i \in 1 .. Len(free_q) : free_q[i] = s
         THEN Giving(s) \cup Owning(s) = {} /\ smagic[s] = 0 /\ snode[s] = Null
         ELSE Cardinality(Giving(s)) + Cardinality(Owning(s)) = 1

\* The reference an append returned leads to its node for as long as the node
\* is in the table, and to nothing once it has been taken out, however often
\* the slot is reused (mchash.h:310-312, 345, 373).  The second half needs the
\* number of appends to stay below the wrap of magic_no.
RefResolves ==
  fault = "none" =>
    \A n \in Node : life[n] = "in" => smagic[index[n]] = ref[n] /\ snode[index[n]] = n
StaleRefDead ==
  \A n \in Node :
    life[n] \in {"out", "rcu", "freed"} /\ ref[n] # 0
      => smagic[index[n]] # ref[n]

\* No thread keeps a pointer to a node that the RCU callback has freed: the
\* magic number is reset and the node unlinked before call_rcu, although
\* node_p is cleared after it (mchash.h:380-392).
Pointers(p) == {held[p], at[p], anchor[p]} \cap Node
HeldNotFreed == \A p \in Proc : \A n \in Pointers(p) : life[n] # "freed"

\* The list of a bucket holds the nodes appended to it and not yet deleted,
\* and prev and next agree (mchash.c:112-131, mchash.h:381-390).
ListsExact ==
  fault = "none" =>
    /\ \A b \in Bucket : BucketNodes(b) = {n \in Node : Linked(n) /\ home[n] = b}
    /\ \A n \in Node : Linked(n) => /\ next[OrHead(prev[n], home[n])] = n
                                     /\ OrHead(prev[OrHead(next[n], home[n])], home[n]) = n

\* A scan that reaches the end of the list has returned every node that was in
\* the bucket from its beginning, although nodes were unlinked under it
\* (mchash.h:497-501).
ScanComplete ==
  fault = "none" =>
    \A p \in Proc : pc[p] = "scan" /\ next[at[p]] = Null => must[p] \subseteq seen[p]

\* Nodes taken out of the table are freed in the end, while the process lives
\* (mchash.h:391, 465); a node is taken out at most once, so "in the end" is for good.
Reclaimed == <>[](fault # "none" \/ \A n \in Node : life[n] \notin {"out", "rcu"})

=============================================================================
