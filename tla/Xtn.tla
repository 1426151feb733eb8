--------------------------------- MODULE Xtn ---------------------------------
(***************************************************************************)
(* Transactions: coreapp/cntlr_xtn.c and its callers.  A request that waits  *)
(* for an answer is recorded in a block of a memory pool, stamped with a new *)
(* transaction number, given a one-shot timer of five seconds and put in a   *)
(* hash table.  Three parties end it: the sender when the send fails, the    *)
(* thread of the channel when the (last) answer comes, and the timer.  Each  *)
(* only takes the record out of the table; the RCU thread stops the timer    *)
(* and gives the block back to the pool when the read sections of that time  *)
(* have ended.                                                               *)
(*                                                                         *)
(* A timer holds the address of the block, not a safe reference, and lives   *)
(* on the thread that started it.  A stop from another thread is only        *)
(* queued, until that thread begins its next pass over its timers.           *)
(*                                                                         *)
(* The table has many buckets and several deleters (cntlr_xtn.c:104).  A      *)
(* delete by node compares under the lock, so the first one wins.  A delete  *)
(* by reference compares the magic number before it takes a lock             *)
(* (mchash.h:373), so it is two steps: in between the record may be taken    *)
(* out and its slot given to another, which is then deleted by mistake, or   *)
(* the record is unlinked twice or a null node read (McHash).  The last two  *)
(* are the state "crash", of which nothing more is said.                     *)
(*                                                                         *)
(* A slot is found for every block of the pool, which has as many            *)
(* (cntlr_xtn.c:81, 103); a slot is named after the first transaction that   *)
(* had it.  Timers are untimed: a running timer may expire in any pass.  A   *)
(* block that is released stays readable and is cleared (mheapapi.c:407);    *)
(* the blocks the pool gives back to the C heap are outside the model.       *)
(***************************************************************************)
EXTENDS Naturals, FiniteSets

CONSTANTS MaxXtn,       \* bound: transactions recorded in all
          Block,        \* the blocks of cntlr_xtn_nodes_mempool_g
          Thread,       \* threads that send requests and run timers
          Zero,         \* the thread with index 0, the RCU thread's own index
          Handler,      \* the thread the channel is bound to
          MaxMore,      \* bound: answers of a transaction that announce more
          NoBlock

Xid == 1 .. MaxXtn

ASSUME XtnAssumption ==
  /\ MaxXtn \in Nat /\ MaxMore \in Nat
  /\ Zero \in Thread /\ Handler \in Thread /\ Zero # Handler
  /\ NoBlock \notin Block

VARIABLES
  seq,          \* cntlr_xtn_seq_no_g
  pool,         \* blocks in the pool
  owner,        \* the transaction whose details a block holds, 0 when it is clear
  st,           \* of a transaction: "new", "in" the table, "out" of it, "freed"
  blk,          \* its block
  slot,         \* the slot of the table its safe reference names
  sent,         \* whether the request has left
  more,         \* answers so far that announced more
  wait,         \* read sections its RCU callback waits for
  timer,        \* its timers, the restarted ones too: "none", "on", "stop" (a stop
                \* is queued), "left" (a stop was refused: it runs), "off"
  named,        \* the one of them the record names, timer_saferef
  runs,         \* the thread each of these timers is on
  pc, job       \* where a thread is, and with which transaction or block

vars == <<seq, pool, owner, st, blk, slot, sent, more, wait, timer, named, runs,
          pc, job>>

TimerNo == 0 .. MaxMore
Pc == {"idle", "sending", "failing", "found", "pass", "fired", "ending", "crash"}

Init ==
  /\ seq = 0 /\ pool = Block /\ owner = [b \in Block |-> 0]
  /\ st = [x \in Xid |-> "new"] /\ blk = [x \in Xid |-> NoBlock]
  /\ slot = [x \in Xid |-> 0] /\ sent = [x \in Xid |-> FALSE] /\ more = [x \in Xid |-> 0]
  /\ wait = [x \in Xid |-> {}]
  /\ timer = [x \in Xid |-> [k \in TimerNo |-> "none"]]
  /\ named = [x \in Xid |-> 0]
  /\ runs = [x \in Xid |-> [k \in TimerNo |-> Zero]]
  /\ pc = [t \in Thread |-> "idle"] /\ job = [t \in Thread |-> 0]

\* Every section but the waiting of a thread is an RCU read section, a pass over
\* the timers as well (timer.c:993).
Readers == {t \in Thread : pc[t] # "idle"}

\* No thread has read through a null pointer or unlinked a record twice.
Alive == \A t \in Thread : pc[t] # "crash"

Step(t, from, to) == Alive /\ pc[t] = from /\ pc' = [pc EXCEPT ![t] = to]

\* The same, and the thread is done with its transaction.
Finish(t, from, to) == Step(t, from, to) /\ job' = [job EXCEPT ![t] = 0]

\* Mutant: a way out of the function leaves the read section open.
AfterOpen(t, to, w) == w

\* What the callbacks of w wait for when t goes on to "to", out of its read section
\* if that is "idle".
After(t, to, w) == IF to = "idle" THEN [x \in Xid |-> w[x] \ {t}] ELSE w

\* Mutant: the record is freed without a grace period.
UnlinkedAtOnce(x) == [wait EXCEPT ![x] = {}]

\* What the RCU callback of x has to wait for when it is submitted now.
Unlinked(x) == [wait EXCEPT ![x] = Readers]

\* A thread takes the record of x out of the table, or finds nothing to take out.
TakeOut(t, from, to, x) ==
  /\ Finish(t, from, to)
  /\ st' = [st EXCEPT ![x] = "out"]
  /\ wait' = After(t, to, Unlinked(x))

TakeNothing(t, from, to) ==
  Finish(t, from, to) /\ wait' = After(t, to, wait) /\ UNCHANGED st

\* MCHASH_DELETE_NODE: whether the slot has the node still is seen under the lock.
DeleteNode(t, from, to) ==
  /\ pc[t] = from
  /\ IF st[job[t]] = "in" THEN TakeOut(t, from, to, job[t]) ELSE TakeNothing(t, from, to)

\* MCHASH_DELETE_NODE_BY_REF with the reference of x: the magic number matches while
\* x is in the table.
CompareRef(t, x, from, matched, to) ==
  \/ /\ st[x] = "in"
     /\ Step(t, from, matched) /\ job' = [job EXCEPT ![t] = x]
     /\ UNCHANGED <<st, wait>>
  \/ st[x] # "in" /\ TakeNothing(t, from, to)

\* The rest of it: whatever the slot has now is taken out.  When x has been taken out
\* since, the node may be null or x be unlinked once more.
InSlot(s) == {y \in Xid : st[y] = "in" /\ slot[y] = s}
DeleteByRef(t, from, to) ==
  /\ pc[t] = from
  /\ \/ \E y \in InSlot(slot[job[t]]) : TakeOut(t, from, to, y)
     \/ InSlot(slot[job[t]]) = {} /\ TakeNothing(t, from, to)
     \/ st[job[t]] # "in" /\ Finish(t, from, "crash") /\ UNCHANGED <<st, wait>>

\* timer_stop_tmr from the thread self: at once on the timer's own thread, else
\* queued, or refused when there is no block for the request (timer.c:785-790).  A
\* timer that has been called is not on any more.
Stop(x, k, self, refused) ==
  IF timer[x][k] # "on" THEN timer[x][k]
  ELSE IF runs[x][k] = self THEN "off"
  ELSE IF refused THEN "left" ELSE "stop"

-----------------------------------------------------------------------------
(***************************************************************************)
(* The sender: cntlr_send_msg_to_dp.                                        *)
(***************************************************************************)

\* cntlr_record_xtn_details.  An empty pool refuses and changes nothing.  Block,
\* timer and table entry are one step: they take far less than the timeout.
Record(t, b, s) ==
  /\ seq < MaxXtn /\ b \in pool
  /\ s <= seq + 1 /\ InSlot(s) = {}
  /\ Step(t, "idle", "sending")
  /\ LET x == seq + 1 IN
       /\ seq' = x
       /\ pool' = pool \ {b}
       /\ owner' = [owner EXCEPT ![b] = x]
       /\ st' = [st EXCEPT ![x] = "in"]
       /\ blk' = [blk EXCEPT ![x] = b]
       /\ slot' = [slot EXCEPT ![x] = s]
       /\ timer' = [timer EXCEPT ![x][0] = "on"]
       /\ runs' = [runs EXCEPT ![x][0] = t]
       /\ job' = [job EXCEPT ![t] = x]
  /\ UNCHANGED <<sent, more, wait, named>>

\* The timer cannot be created: OF_FAILURE, and nobody gives the block back.
RecordNoTimer(t, b) ==
  /\ seq < MaxXtn /\ b \in pool /\ pc[t] = "idle" /\ Alive
  /\ seq' = seq + 1
  /\ pool' = pool \ {b}
  /\ UNCHANGED <<owner, st, blk, slot, sent, more, wait, timer, named, runs, pc, job>>

SendDone(t) ==
  /\ TakeNothing(t, "sending", "idle")
  /\ sent' = [sent EXCEPT ![job[t]] = TRUE]
  /\ UNCHANGED <<seq, pool, owner, blk, slot, more, timer, named, runs>>

\* The send fails: cntlr_del_xtn_with_safe_ref with the sender's own copy.
SendFailed(t) ==
  /\ pc[t] = "sending"
  /\ CompareRef(t, job[t], "sending", "failing", "idle")
  /\ UNCHANGED <<seq, pool, owner, blk, slot, sent, more, timer, named, runs>>

\* Mutant: the sender also gives the block back, as it would one it never recorded.
FailedReleases(t) ==
  /\ DeleteByRef(t, "failing", "idle")
  /\ pool' = pool \cup {blk[job[t]]}
  /\ UNCHANGED <<seq, owner, blk, slot, sent, more, timer, named, runs>>

SendFailedDelete(t) ==
  /\ DeleteByRef(t, "failing", "idle")
  /\ UNCHANGED <<seq, pool, owner, blk, slot, sent, more, timer, named, runs>>

-----------------------------------------------------------------------------
(***************************************************************************)
(* The channel's thread: of_process_multipart_replymsg and the handlers of   *)
(* the other answers.                                                        *)
(***************************************************************************)

\* cntlr_get_xtn_details finds the record; the application's callback gets it.  An
\* answer whose record is gone, as after a timeout, is dropped.
Answer(x) ==
  /\ sent[x] /\ st[x] = "in"
  /\ Step(Handler, "idle", "found")
  /\ job' = [job EXCEPT ![Handler] = x]
  /\ UNCHANGED <<seq, pool, owner, st, blk, slot, sent, more, wait, timer, named, runs>>

\* The last answer, or an OFPT_ERROR: cntlr_del_xtn_with_rec.
AnswerLast ==
  /\ DeleteNode(Handler, "found", "idle")
  /\ UNCHANGED <<seq, pool, owner, blk, slot, sent, more, timer, named, runs>>

\* Mutant: the timer is started before the stop, which then stops the new one.
RestartedFirst(x, refused, failed) == [timer[x] EXCEPT ![more[x] + 1] = "off"]

\* timer_restart_tmr: stop, then start on this thread, and each of them may fail.  The
\* result is not looked at (of_cntlr_msg.c:3594): when nothing was started the record
\* names its old timer still, which has been stopped or, where that was refused too,
\* runs on.
Restarted(x, refused, failed) ==
  LET old == Stop(x, named[x], Handler, refused) IN
  [timer[x] EXCEPT ![named[x]] = IF failed /\ old = "left" THEN @ ELSE old,
                   ![more[x] + 1] = IF failed THEN "off" ELSE "on"]

\* OFPMPF_REPLY_MORE: the record is kept and its timer restarted, whether or not it
\* is in the table still.
AnswerMore(refused, failed) ==
  /\ TakeNothing(Handler, "found", "idle")
  /\ LET x == job[Handler] IN
       /\ more[x] < MaxMore
       /\ more' = [more EXCEPT ![x] = @ + 1]
       /\ timer' = [timer EXCEPT ![x] = Restarted(x, refused, failed)]
       /\ named' = [named EXCEPT ![x] = IF failed THEN @ ELSE more[x] + 1]
       /\ runs' = [runs EXCEPT ![x][more[x] + 1] = Handler]
  /\ UNCHANGED <<seq, pool, owner, blk, slot, sent>>

-----------------------------------------------------------------------------
(***************************************************************************)
(* Timers: timer_process_timers and cntlr_xtn_recrod_cleanup_func.          *)
(***************************************************************************)

\* tmr_deque_stop: every stop queued for this thread takes effect.
Dequeued(t) ==
  [x \in Xid |-> [k \in TimerNo |->
     IF timer[x][k] = "stop" /\ runs[x][k] = t THEN "off" ELSE timer[x][k]]]

PassBegin(t) ==
  /\ Step(t, "idle", "pass")
  /\ timer' = Dequeued(t)
  /\ UNCHANGED <<seq, pool, owner, st, blk, slot, sent, more, wait, named, runs, job>>

\* A timer expires; a queued stop does not hold it back.  The application is told of
\* the failure when the details in the block are those of a multipart request.
Fire(t, x, k) ==
  /\ Step(t, "pass", "fired")
  /\ timer[x][k] \in {"on", "stop", "left"} /\ runs[x][k] = t
  /\ timer' = [timer EXCEPT ![x][k] = "off"]
  /\ job' = [job EXCEPT ![t] = x]
  /\ UNCHANGED <<seq, pool, owner, st, blk, slot, sent, more, wait, named, runs>>

\* cntlr_del_xtn_with_safe_ref with the reference that is in the block now.
FireDelete(t) ==
  /\ pc[t] = "fired" /\ owner[blk[job[t]]] # 0
  /\ CompareRef(t, owner[blk[job[t]]], "fired", "ending", "pass")
  /\ UNCHANGED <<seq, pool, owner, blk, slot, sent, more, timer, named, runs>>

FireTakeOut(t) ==
  /\ DeleteByRef(t, "ending", "pass")
  /\ UNCHANGED <<seq, pool, owner, blk, slot, sent, more, timer, named, runs>>

\* The block has been released and cleared: index 0 and magic 0 do not match slot 0
\* of the table while that is in use, and name a null node while it is free.
FireZeroed(t, to) ==
  /\ Finish(t, "fired", to)
  /\ owner[blk[job[t]]] = 0
  /\ to = "pass" => \E x \in Xid : st[x] = "in"
  /\ UNCHANGED <<seq, pool, owner, st, blk, slot, sent, more, wait, timer, named, runs>>

PassEnd(t) ==
  /\ TakeNothing(t, "pass", "idle")
  /\ UNCHANGED <<seq, pool, owner, blk, slot, sent, more, timer, named, runs>>

-----------------------------------------------------------------------------
\* cntlr_free_xtn_node_rcu on the RCU thread, whose thread index is 0: the timer
\* the record names is stopped and the block, cleared, released.
FreeXtnNode(x, refused) ==
  /\ st[x] = "out" /\ wait[x] = {} /\ Alive
  /\ timer' = [timer EXCEPT ![x][named[x]] = Stop(x, named[x], Zero, refused)]
  /\ pool' = pool \cup {blk[x]}
  /\ owner' = [owner EXCEPT ![blk[x]] = 0]
  /\ st' = [st EXCEPT ![x] = "freed"]
  /\ UNCHANGED <<seq, blk, slot, sent, more, wait, named, runs, pc, job>>

\* What a thread does of its own accord.
Run(t) ==
  \/ SendDone(t) \/ SendFailed(t) \/ SendFailedDelete(t)
  \/ PassBegin(t) \/ FireDelete(t) \/ FireTakeOut(t) \/ PassEnd(t)
  \/ \E to \in {"pass", "crash"} : FireZeroed(t, to)
  \/ t = Handler /\ AnswerLast
  \/ t = Handler /\ \E refused, failed \in BOOLEAN : AnswerMore(refused, failed)

Expire(x) == \E t \in Thread, k \in TimerNo : Fire(t, x, k)
Free(x) == \E refused \in BOOLEAN : FreeXtnNode(x, refused)

Next ==
  \/ \E t \in Thread, b \in Block, s \in Xid : Record(t, b, s)
  \/ \E t \in Thread, b \in Block : RecordNoTimer(t, b)
  \/ \E t \in Thread : Run(t)
  \/ \E x \in Xid : Expire(x) \/ Answer(x) \/ Free(x)

Spec == Init /\ [][Next]_vars

\* Threads run and make their passes, grace periods end, and of the timers of a
\* transaction that keep running one expires in some pass (Timer); no request is
\* made and no answer comes by itself.
Fairness ==
  /\ \A t \in Thread : WF_vars(Run(t))
  /\ \A x \in Xid : SF_vars(Expire(x)) /\ WF_vars(Free(x))

LiveSpec == Spec /\ Fairness

-----------------------------------------------------------------------------
\* Every variable has its type.
TypeOK ==
  /\ seq \in 0 .. MaxXtn /\ pool \in SUBSET Block /\ owner \in [Block -> 0 .. MaxXtn]
  /\ st \in [Xid -> {"new", "in", "out", "freed"}] /\ blk \in [Xid -> Block \cup {NoBlock}]
  /\ slot \in [Xid -> 0 .. MaxXtn]
  /\ sent \in [Xid -> BOOLEAN]
  /\ more \in [Xid -> TimerNo] /\ wait \in [Xid -> SUBSET Thread]
  /\ timer \in [Xid -> [TimerNo -> {"none", "on", "stop", "left", "off"}]]
  /\ named \in [Xid -> TimerNo] /\ runs \in [Xid -> [TimerNo -> Thread]]
  /\ pc \in [Thread -> Pc] /\ job \in [Thread -> 0 .. MaxXtn]

\* A block has one user: while a transaction is in the table, or out of it and not
\* yet freed, the block holds its details, and is neither in the pool nor another
\* transaction's.  Three parties delete records, by node and by reference, a delete
\* by reference may take out another record than it compared, and any timer may fire
\* on a block that was reused (cntlr_xtn.c:178, 283-294, 332-365).  It is said of a
\* process that has not come to harm: the delete by reference that unlinks a record
\* a second time, and would release its block twice, is the state "crash"
\* (mchash.h:373-391), and is possible.
Using(x) == st[x] \in {"in", "out"}
BlockHasOneUser ==
  Alive =>
    \A x \in Xid : Using(x) => /\ blk[x] \in Block \ pool
                                /\ owner[blk[x]] = x
                                /\ \A y \in Xid : Using(y) /\ blk[y] = blk[x] => y = x

\* The record an answer was matched with stays that transaction's until the handler
\* is done with it: a timeout or a failed send that ends it meanwhile, or ends it by
\* mistake for another, does not let its block be released or reused under the
\* handler (cntlr_xtn.c:254-281, of_cntlr_msg.c:3436-3604).
AnswersOwnRecord ==
  Alive /\ pc[Handler] = "found" =>
    Using(job[Handler]) /\ owner[blk[job[Handler]]] = job[Handler]

\* A timer that runs, and whose stop was neither queued nor refused, belongs to a
\* record that is in use and is the one the record names: releasing a block asks for
\* the stop of the last timer that was started for it, through restarts that may
\* fail in either half.  The timers of a queued stop, until the thread begins its next
\* pass, and of a refused one, for as long as they run, can fire on a block that
\* another transaction has got (cntlr_xtn.c:290, of_cntlr_msg.c:3594,
\* timer.c:781-808, 850-851).
StaleTimersStopped ==
  \A x \in Xid, k \in TimerNo :
    timer[x][k] = "on" => Using(x) /\ k = named[x]

\* Every transaction that is recorded ends and gives its block back, whether or not
\* an answer comes, and however often the timer is restarted, unless a restart could
\* not start the timer (of_cntlr_msg.c:3594) or the process comes to harm.  The
\* timers of other transactions, stale ones too, and deletes that meet another record
\* than they compared do not keep it from ending.
XtnEnds ==
  \A x \in Xid : st[x] = "in" ~> (st[x] = "freed" \/ named[x] # more[x] \/ ~Alive)
=============================================================================
