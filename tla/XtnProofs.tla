------------------------------ MODULE XtnProofs ------------------------------
(***************************************************************************)
(* Xtn for any number of transactions, blocks, threads and restarts.        *)
(***************************************************************************)
EXTENDS Xtn, TLAPS

\* Transactions that have not been recorded have no timer and nothing behind them.
NewIsBlank ==
  /\ \A x \in Xid : x > seq => st[x] = "new"
  /\ \A x \in Xid : st[x] = "new" => \A k \in TimerNo : timer[x][k] = "none"
  /\ \A x \in Xid : st[x] = "new" => more[x] = 0

\* The restarts of a record are numbered without a gap, and it names one of its timers.
TimersNumbered ==
  \A x \in Xid : /\ named[x] <= more[x]
                 /\ \A k \in TimerNo : k > more[x] => timer[x][k] = "none"

\* A record keeps its block.
BlocksFilled == \A x \in Xid : st[x] # "new" => blk[x] \in Block

\* What a thread works on has been recorded.
Busy == {"sending", "failing", "found", "fired", "ending"}
JobsRecorded ==
  \A t \in Thread : pc[t] \in Busy => job[t] \in Xid /\ st[job[t]] # "new"

\* What AnswersOwnRecord rests on: the handler's record is in the table, or the
\* handler is among those its release waits for.
HandlerAwaited ==
  pc[Handler] = "found" =>
    \/ st[job[Handler]] = "in"
    \/ st[job[Handler]] = "out" /\ Handler \in wait[job[Handler]]

\* BlockHasOneUser without its condition: the step to "crash" moves no block, and no
\* step follows it.
OneUser ==
  \A x \in Xid : Using(x) => /\ blk[x] \in Block \ pool
                              /\ owner[blk[x]] = x
                              /\ \A y \in Xid : Using(y) /\ blk[y] = blk[x] => y = x

Inv ==
  /\ TypeOK /\ OneUser /\ StaleTimersStopped
  /\ NewIsBlank /\ TimersNumbered /\ BlocksFilled /\ JobsRecorded /\ HandlerAwaited

(***************************************************************************)
(* Most steps leave the blocks alone, only take records out of the table and *)
(* only end timers.                                                          *)
(***************************************************************************)
SoftRecords ==
  /\ seq' = seq /\ pool' = pool /\ owner' = owner /\ blk' = blk /\ more' = more
  /\ named' = named
  /\ \A x \in Xid : st'[x] = st[x] \/ (st[x] = "in" /\ st'[x] = "out")
  /\ \A x \in Xid, k \in TimerNo :
       timer'[x][k] = timer[x][k] \/ (timer[x][k] # "none" /\ timer'[x][k] = "off")

SoftJobs ==
  \A t \in Thread :
    pc'[t] \in Busy => \/ pc[t] \in Busy /\ job'[t] = job[t]
                       \/ job'[t] \in Xid /\ st[job'[t]] # "new"

SoftHandler ==
  pc'[Handler] = "found" =>
    \/ st'[job'[Handler]] = "in"
    \/ /\ pc[Handler] = "found" /\ job'[Handler] = job[Handler]
       /\ \A x \in Xid : /\ Handler \in wait[x] => Handler \in wait'[x]
                         /\ st'[x] # st[x] => Handler \in wait'[x]

SoftStep == SoftRecords /\ SoftJobs /\ SoftHandler

\* A soft step keeps the invariant.
LEMMA SoftInv ==
  ASSUME Inv, TypeOK', SoftStep
  PROVE  Inv'
<1> USE XtnAssumption DEF Inv
<1>1. \A x \in Xid : st'[x] \in {"in", "out"} => st[x] \in {"in", "out"}
  BY DEF SoftStep, SoftRecords
<1>2. \A x \in Xid : st[x] # "new" <=> st'[x] # "new"
  BY DEF SoftStep, SoftRecords
<1>3. OneUser'
  BY <1>1 DEF OneUser, Using, SoftStep, SoftRecords
<1>4. StaleTimersStopped'
  <2> SUFFICES ASSUME NEW x \in Xid, NEW k \in TimerNo, timer'[x][k] = "on"
               PROVE  st'[x] \in {"in", "out"} /\ k = named[x]
    BY DEF StaleTimersStopped, Using, SoftStep, SoftRecords
  <2>1. timer[x][k] = "on"
    BY DEF SoftStep, SoftRecords
  <2> QED
    BY <2>1 DEF StaleTimersStopped, Using, SoftStep, SoftRecords
<1>5. NewIsBlank'
  BY <1>2 DEF NewIsBlank, SoftStep, SoftRecords
<1>6. TimersNumbered'
  BY DEF TimersNumbered, SoftStep, SoftRecords
<1>7. BlocksFilled'
  BY <1>2 DEF BlocksFilled, SoftStep, SoftRecords
<1>8. JobsRecorded'
  BY <1>2 DEF JobsRecorded, SoftStep, SoftJobs
<1>9. HandlerAwaited'
  <2> SUFFICES ASSUME pc'[Handler] = "found", st'[job'[Handler]] # "in"
               PROVE  st'[job'[Handler]] = "out" /\ Handler \in wait'[job'[Handler]]
    BY DEF HandlerAwaited
  <2>1. /\ pc[Handler] = "found" /\ job'[Handler] = job[Handler]
        /\ \A x \in Xid : /\ Handler \in wait[x] => Handler \in wait'[x]
                          /\ st'[x] # st[x] => Handler \in wait'[x]
    BY DEF SoftStep, SoftHandler
  <2>2. job[Handler] \in Xid
    BY <2>1 DEF JobsRecorded, Busy
  <2>3. st'[job[Handler]] = st[job[Handler]] \/ st'[job[Handler]] = "out"
    BY <2>2 DEF SoftStep, SoftRecords
  <2> QED
    BY <2>1, <2>2, <2>3 DEF HandlerAwaited
<1> QED
  BY <1>3, <1>4, <1>5, <1>6, <1>7, <1>8, <1>9

\* Initially nothing is recorded.
LEMMA InitInv == Init => Inv
<1> SUFFICES ASSUME Init PROVE Inv
  OBVIOUS
<1> USE XtnAssumption DEF Init, Xid, TimerNo
<1>1. TypeOK
  BY DEF TypeOK, Pc
<1>2. OneUser
  BY DEF OneUser, Using
<1>3. StaleTimersStopped
  BY DEF StaleTimersStopped, Using
<1>4. NewIsBlank
  BY DEF NewIsBlank
<1>5. TimersNumbered
  BY DEF TimersNumbered
<1>6. BlocksFilled
  BY DEF BlocksFilled
<1>7. JobsRecorded
  BY DEF JobsRecorded, Busy
<1>8. HandlerAwaited
  BY DEF HandlerAwaited
<1> QED
  BY <1>1, <1>2, <1>3, <1>4, <1>5, <1>6, <1>7, <1>8 DEF Inv

\* What a handler holds is its own record.
LEMMA InvAnswers == Inv => AnswersOwnRecord
BY XtnAssumption
   DEF Inv, HandlerAwaited, JobsRecorded, Busy, OneUser, AnswersOwnRecord, Using

(***************************************************************************)
(* The deletes.                                                             *)
(***************************************************************************)
Quiet == UNCHANGED <<seq, pool, owner, blk, slot, more, timer, named, runs>>

\* Taking out nothing keeps the invariant.
LEMMA TakeNothingStep ==
  ASSUME Inv, NEW t \in Thread, NEW from, NEW to \in {"idle", "pass"},
         TakeNothing(t, from, to), Quiet, sent' \in [Xid -> BOOLEAN]
  PROVE  Inv'
<1> USE XtnAssumption DEF TakeNothing, Finish, Step, After, Quiet
<1>1. TypeOK'
  <2>1. wait' \in [Xid -> SUBSET Thread]
    BY DEF Inv, TypeOK
  <2>2. pc' \in [Thread -> Pc] /\ job' \in [Thread -> 0 .. MaxXtn]
    BY DEF Inv, TypeOK, Pc
  <2> QED
    BY <2>1, <2>2 DEF Inv, TypeOK
<1>2. SoftRecords
  BY DEF SoftRecords
<1>3. SoftJobs
  BY DEF SoftJobs, Busy, Inv, TypeOK
<1>4. SoftHandler
  BY DEF SoftHandler, Inv, TypeOK
<1> QED
  BY <1>1, <1>2, <1>3, <1>4, SoftInv DEF SoftStep

\* Taking out a record, whichever it is, keeps the invariant.
LEMMA TakeOutStep ==
  ASSUME Inv, NEW t \in Thread, NEW from, NEW to \in {"idle", "pass"}, NEW x \in Xid,
         st[x] = "in", TakeOut(t, from, to, x), Quiet, UNCHANGED sent
  PROVE  Inv'
<1> USE XtnAssumption DEF TakeOut, Finish, Step, Quiet
<1>1. Unlinked(x) = [wait EXCEPT ![x] = Readers] /\ Readers \in SUBSET Thread
  BY DEF Unlinked, Readers
<1>2. /\ wait' \in [Xid -> SUBSET Thread]
      /\ \A u \in Thread, y \in Xid :
           u # t => /\ u \in wait[y] /\ y # x => u \in wait'[y]
                    /\ y = x /\ u \in Readers => u \in wait'[y]
  <2>1. Unlinked(x) \in [Xid -> SUBSET Thread]
    BY <1>1 DEF Inv, TypeOK
  <2>2. \A y \in Xid : Unlinked(x)[y] = IF y = x THEN Readers ELSE wait[y]
    BY <1>1 DEF Inv, TypeOK
  <2>3. CASE to = "idle"
    BY <2>1, <2>2, <2>3 DEF After
  <2>4. CASE to = "pass"
    BY <2>1, <2>2, <2>4 DEF After
  <2> QED
    BY <2>3, <2>4
<1>3. TypeOK'
  <2>1. pc' \in [Thread -> Pc] /\ job' \in [Thread -> 0 .. MaxXtn]
    BY DEF Inv, TypeOK, Pc
  <2>2. st' \in [Xid -> {"new", "in", "out", "freed"}]
    BY DEF Inv, TypeOK
  <2> QED
    BY <1>2, <2>1, <2>2 DEF Inv, TypeOK
<1>4. SoftRecords
  BY DEF SoftRecords, Inv, TypeOK
<1>5. SoftJobs
  BY DEF SoftJobs, Busy, Inv, TypeOK
<1>6. SoftHandler
  <2> SUFFICES ASSUME pc'[Handler] = "found"
               PROVE  /\ pc[Handler] = "found" /\ job'[Handler] = job[Handler]
                      /\ \A y \in Xid : /\ Handler \in wait[y] => Handler \in wait'[y]
                                        /\ st'[y] # st[y] => Handler \in wait'[y]
    BY DEF SoftHandler
  <2>1. Handler # t /\ pc[Handler] = "found" /\ job'[Handler] = job[Handler]
    BY DEF Inv, TypeOK
  <2>2. Handler \in Readers
    BY <2>1 DEF Readers
  <2>3. \A y \in Xid : st'[y] # st[y] => y = x
    BY DEF Inv, TypeOK
  <2> QED
    BY <1>2, <2>1, <2>2, <2>3
<1> QED
  BY <1>3, <1>4, <1>5, <1>6, SoftInv DEF SoftStep

\* The comparison of a delete by reference keeps the invariant.
LEMMA CompareRefStep ==
  ASSUME Inv, NEW t \in Thread, NEW x \in Xid, NEW from, NEW matched \in {"failing", "ending"},
         NEW to \in {"idle", "pass"}, CompareRef(t, x, from, matched, to), Quiet,
         UNCHANGED sent
  PROVE  Inv'
<1> USE XtnAssumption DEF Quiet
<1>1. CASE st[x] # "in"
  BY <1>1, TakeNothingStep DEF CompareRef, Inv, TypeOK
<1>2. CASE st[x] = "in"
  <2> USE <1>2 DEF CompareRef, Step
  <2>1. TypeOK'
    <3>1. pc' \in [Thread -> Pc]
      BY DEF Inv, TypeOK, Pc
    <3>2. job' = [job EXCEPT ![t] = x] /\ UNCHANGED <<st, wait>>
      BY DEF TakeNothing
    <3>3. job' \in [Thread -> 0 .. MaxXtn]
      BY <3>2 DEF Inv, TypeOK, Xid
    <3> QED
      BY <3>1, <3>2, <3>3 DEF Inv, TypeOK
  <2>2. SoftRecords
    BY DEF SoftRecords
  <2>3. SoftJobs
    BY DEF SoftJobs, Busy, Inv, TypeOK
  <2>4. SoftHandler
    BY DEF SoftHandler, Inv, TypeOK
  <2> QED
    BY <2>1, <2>2, <2>3, <2>4, SoftInv DEF SoftStep
<1> QED
  BY <1>1, <1>2

\* The rest of it keeps the invariant, whatever it takes out.
LEMMA DeleteByRefStep ==
  ASSUME Inv, NEW t \in Thread, NEW from, NEW to \in {"idle", "pass"},
         DeleteByRef(t, from, to), Quiet, UNCHANGED sent
  PROVE  Inv'
<1>1. ASSUME NEW y \in InSlot(slot[job[t]]), TakeOut(t, from, to, y)
      PROVE  Inv'
  BY <1>1, TakeOutStep DEF InSlot
<1>2. CASE TakeNothing(t, from, to)
  BY <1>2, TakeNothingStep DEF Inv, TypeOK
<1>3. CASE Finish(t, from, "crash") /\ UNCHANGED <<st, wait>>
  <2> USE <1>3, XtnAssumption DEF Finish, Step, Quiet
  <2>1. TypeOK'
    BY DEF Inv, TypeOK, Pc
  <2>2. SoftRecords
    BY DEF SoftRecords
  <2>3. SoftJobs
    BY DEF SoftJobs, Busy, Inv, TypeOK
  <2>4. SoftHandler
    BY DEF SoftHandler, Inv, TypeOK
  <2> QED
    BY <2>1, <2>2, <2>3, <2>4, SoftInv DEF SoftStep
<1> QED
  BY <1>1, <1>2, <1>3 DEF DeleteByRef

\* The end of a send, or of a pass, keeps the invariant.
LEMMA SendDoneStep ==
  ASSUME Inv, NEW t \in Thread, SendDone(t) \/ PassEnd(t)
  PROVE  Inv'
<1>1. Quiet /\ sent' \in [Xid -> BOOLEAN]
  BY DEF SendDone, PassEnd, Quiet, Inv, TypeOK
<1> QED
  BY <1>1, TakeNothingStep DEF SendDone, PassEnd

\* A failed send keeps the invariant.
LEMMA SendFailedStep ==
  ASSUME Inv, NEW t \in Thread, SendFailed(t) \/ SendFailedDelete(t)
  PROVE  Inv'
<1>1. Quiet /\ UNCHANGED sent
  BY DEF SendFailed, SendFailedDelete, Quiet
<1>2. pc[t] = "sending" => job[t] \in Xid
  BY DEF Inv, JobsRecorded, Busy
<1> QED
  BY <1>1, <1>2, CompareRefStep, DeleteByRefStep DEF SendFailed, SendFailedDelete

\* The last answer keeps the invariant.
LEMMA AnswerLastStep ==
  ASSUME Inv, AnswerLast
  PROVE  Inv'
<1>1. Quiet /\ UNCHANGED sent /\ sent \in [Xid -> BOOLEAN] /\ Handler \in Thread
  BY XtnAssumption DEF AnswerLast, Quiet, Inv, TypeOK
<1>2. job[Handler] \in Xid
  BY <1>1 DEF AnswerLast, DeleteNode, Inv, JobsRecorded, Busy
<1>3. CASE st[job[Handler]] = "in"
  BY <1>1, <1>2, <1>3, TakeOutStep DEF AnswerLast, DeleteNode
<1>4. CASE st[job[Handler]] # "in"
  BY <1>1, <1>4, TakeNothingStep DEF AnswerLast, DeleteNode
<1> QED
  BY <1>3, <1>4

\* The delete of an expiry keeps the invariant.
LEMMA FireDeleteStep ==
  ASSUME Inv, NEW t \in Thread, FireDelete(t) \/ FireTakeOut(t)
  PROVE  Inv'
<1>1. Quiet /\ UNCHANGED sent
  BY DEF FireDelete, FireTakeOut, Quiet
<1>2. CASE FireTakeOut(t)
  BY <1>1, <1>2, DeleteByRefStep DEF FireTakeOut
<1>3. CASE FireDelete(t)
  <2>1. job[t] \in Xid /\ st[job[t]] # "new"
    BY <1>3 DEF FireDelete, Inv, JobsRecorded, Busy
  <2>2. owner[blk[job[t]]] \in 0 .. MaxXtn
    BY <2>1 DEF Inv, BlocksFilled, TypeOK
  <2>3. owner[blk[job[t]]] \in Xid
    BY <2>2, <1>3, XtnAssumption DEF FireDelete, Xid
  <2> QED
    BY <1>1, <1>3, <2>3, CompareRefStep DEF FireDelete
<1> QED
  BY <1>2, <1>3

\* Finding the record of an answer keeps the invariant.
LEMMA AnswerStep ==
  ASSUME Inv, NEW x \in Xid, Answer(x)
  PROVE  Inv'
<1> USE XtnAssumption DEF Answer, Step
<1>1. TypeOK'
  <2>1. pc' \in [Thread -> Pc]
    BY DEF Inv, TypeOK, Pc, Xid, TimerNo, JobsRecorded, BlocksFilled
  <2>2. job' \in [Thread -> 0 .. MaxXtn]
    BY DEF Inv, TypeOK, Pc, Xid, TimerNo, JobsRecorded, BlocksFilled
  <2> QED
    BY <2>1, <2>2 DEF Inv, TypeOK
<1>2. SoftRecords
  BY DEF SoftRecords, Inv, TypeOK
<1>3. SoftJobs
  BY DEF SoftJobs, Busy, Inv, TypeOK
<1>4. SoftHandler
  BY DEF SoftHandler, Inv, TypeOK
<1> QED
  BY <1>1, <1>2, <1>3, <1>4, SoftInv DEF SoftStep

\* The beginning of a pass keeps the invariant.
LEMMA PassBeginStep ==
  ASSUME Inv, NEW t \in Thread, PassBegin(t)
  PROVE  Inv'
<1> USE XtnAssumption DEF PassBegin, Step, Dequeued
<1>1. TypeOK'
  <2>1. timer' \in [Xid -> [TimerNo -> {"none", "on", "stop", "left", "off"}]]
    BY DEF Inv, TypeOK, Pc, Xid, TimerNo, JobsRecorded, BlocksFilled
  <2>2. pc' \in [Thread -> Pc]
    BY DEF Inv, TypeOK, Pc, Xid, TimerNo, JobsRecorded, BlocksFilled
  <2> QED
    BY <2>1, <2>2 DEF Inv, TypeOK
<1>2. SoftRecords
  BY DEF SoftRecords, Inv, TypeOK
<1>3. SoftJobs
  BY DEF SoftJobs, Busy, Inv, TypeOK
<1>4. SoftHandler
  BY DEF SoftHandler, Inv, TypeOK
<1> QED
  BY <1>1, <1>2, <1>3, <1>4, SoftInv DEF SoftStep

\* An expiry keeps the invariant.
LEMMA FireStep ==
  ASSUME Inv, NEW t \in Thread, NEW x \in Xid, NEW k \in TimerNo, Fire(t, x, k)
  PROVE  Inv'
<1> USE XtnAssumption DEF Fire, Step
<1>1. TypeOK'
  <2>1. timer' \in [Xid -> [TimerNo -> {"none", "on", "stop", "left", "off"}]]
    BY DEF Inv, TypeOK, Pc, Xid, TimerNo, JobsRecorded, BlocksFilled
  <2>2. pc' \in [Thread -> Pc]
    BY DEF Inv, TypeOK, Pc, Xid, TimerNo, JobsRecorded, BlocksFilled
  <2>3. job' \in [Thread -> 0 .. MaxXtn]
    BY DEF Inv, TypeOK, Pc, Xid, TimerNo, JobsRecorded, BlocksFilled
  <2> QED
    BY <2>1, <2>2, <2>3 DEF Inv, TypeOK
<1>2. SoftRecords
  BY DEF SoftRecords, Inv, TypeOK
<1>3. SoftJobs
  <2>1. st[x] # "new"
    BY DEF Inv, NewIsBlank
  <2> QED
    BY <2>1 DEF SoftJobs, Busy, Inv, TypeOK
<1>4. SoftHandler
  BY DEF SoftHandler, Inv, TypeOK
<1> QED
  BY <1>1, <1>2, <1>3, <1>4, SoftInv DEF SoftStep

\* A timer that finds its block cleared keeps the invariant.
LEMMA FireZeroedStep ==
  ASSUME Inv, NEW t \in Thread, NEW to \in {"pass", "crash"}, FireZeroed(t, to)
  PROVE  Inv'
<1> USE XtnAssumption DEF FireZeroed, Finish, Step
<1>1. TypeOK'
  BY DEF Inv, TypeOK, Pc
<1>2. SoftRecords
  BY DEF SoftRecords, Inv, TypeOK
<1>3. SoftJobs
  BY DEF SoftJobs, Busy, Inv, TypeOK, Pc
<1>4. SoftHandler
  BY DEF SoftHandler, Inv, TypeOK, Pc
<1> QED
  BY <1>1, <1>2, <1>3, <1>4, SoftInv DEF SoftStep

\* A step that changes nothing keeps the invariant.
LEMMA StutterStep ==
  ASSUME Inv, UNCHANGED vars
  PROVE  Inv'
<1> USE XtnAssumption DEF vars
<1>1. TypeOK'
  <2> QED
    BY DEF Inv, TypeOK
<1>2. SoftRecords
  BY DEF SoftRecords, Inv, TypeOK
<1>3. SoftJobs
  BY DEF SoftJobs, Busy, Inv, TypeOK
<1>4. SoftHandler
  BY DEF SoftHandler, Inv, TypeOK
<1> QED
  BY <1>1, <1>2, <1>3, <1>4, SoftInv DEF SoftStep

\* Recording keeps the invariant.
LEMMA RecordStep ==
  ASSUME Inv, NEW t \in Thread, NEW b \in Block, NEW s \in Xid, Record(t, b, s)
  PROVE  Inv'
<1> USE XtnAssumption DEF Inv, Xid, TimerNo, Record, Step
<1>1. TypeOK'
  <2>1. seq' \in 0 .. MaxXtn
    BY DEF Inv, TypeOK, Pc, Xid, TimerNo, JobsRecorded, BlocksFilled
  <2>2. pool' \in SUBSET Block
    BY DEF Inv, TypeOK, Pc, Xid, TimerNo, JobsRecorded, BlocksFilled
  <2>3. owner' \in [Block -> 0 .. MaxXtn]
    BY DEF Inv, TypeOK, Pc, Xid, TimerNo, JobsRecorded, BlocksFilled
  <2>4. st' \in [Xid -> {"new", "in", "out", "freed"}]
    BY DEF Inv, TypeOK, Pc, Xid, TimerNo, JobsRecorded, BlocksFilled
  <2>5. blk' \in [Xid -> Block \cup {NoBlock}]
    BY DEF Inv, TypeOK, Pc, Xid, TimerNo, JobsRecorded, BlocksFilled
  <2>6. slot' \in [Xid -> 0 .. MaxXtn]
    <3>1. slot \in [Xid -> 0 .. MaxXtn] /\ s \in 0 .. MaxXtn
      <4>1. slot \in [Xid -> 0 .. MaxXtn]
        BY DEF TypeOK
      <4>2. s \in 0 .. MaxXtn
        BY SMT
      <4> QED
        BY <4>1, <4>2
    <3>2. slot' = [slot EXCEPT ![seq + 1] = s]
      OBVIOUS
    <3> QED
      BY <3>1, <3>2
  <2>7. timer' \in [Xid -> [TimerNo -> {"none", "on", "stop", "left", "off"}]]
    BY DEF Inv, TypeOK, Pc, Xid, TimerNo, JobsRecorded, BlocksFilled
  <2>8. runs' \in [Xid -> [TimerNo -> Thread]]
    BY DEF Inv, TypeOK, Pc, Xid, TimerNo, JobsRecorded, BlocksFilled
  <2>9. pc' \in [Thread -> Pc]
    BY DEF Inv, TypeOK, Pc, Xid, TimerNo, JobsRecorded, BlocksFilled
  <2>10. job' \in [Thread -> 0 .. MaxXtn]
    BY DEF Inv, TypeOK, Pc, Xid, TimerNo, JobsRecorded, BlocksFilled
  <2> QED
    BY <2>1, <2>2, <2>3, <2>4, <2>5, <2>6, <2>7, <2>8, <2>9, <2>10 DEF Inv, TypeOK
<1> DEFINE z == seq + 1
<1>a. z \in Xid /\ st[z] = "new"
  BY DEF TypeOK, NewIsBlank
<1>b. /\ \A y \in Xid : y # z => st'[y] = st[y] /\ blk'[y] = blk[y]
      /\ st'[z] = "in" /\ blk'[z] = b
  <2>1. st' = [st EXCEPT ![z] = "in"] /\ blk' = [blk EXCEPT ![z] = b]
    OBVIOUS
  <2> HIDE DEF z
  <2> QED
    BY <1>a, <2>1 DEF TypeOK
<1>c. \A y \in Xid, k \in TimerNo :
        timer'[y][k] = IF y = z /\ k = 0 THEN "on" ELSE timer[y][k]
  BY <1>a DEF TypeOK
<1>d. \A c \in Block : owner'[c] = IF c = b THEN z ELSE owner[c]
  BY DEF TypeOK
<1>e. seq' = z /\ pool' = pool \ {b} /\ more' = more /\ named' = named /\ b \in pool
  OBVIOUS
<1>2. OneUser'
  <2> SUFFICES ASSUME NEW x \in Xid, st'[x] \in {"in", "out"}
               PROVE  /\ blk'[x] \in Block \ pool' /\ owner'[blk'[x]] = x
                      /\ \A y \in Xid : st'[y] \in {"in", "out"} /\ blk'[y] = blk'[x] => y = x
    BY DEF OneUser, Using
  <2>1. \A y \in Xid : y # z /\ st'[y] \in {"in", "out"} =>
                         /\ blk'[y] = blk[y] /\ blk[y] \in Block \ pool
                         /\ owner[blk[y]] = y /\ blk[y] # b
    BY <1>b, <1>e DEF OneUser, Using
  <2>2. blk'[z] = b
    BY <1>a, <1>b
  <2>3. CASE x = z
    BY <2>1, <2>2, <2>3, <1>d, <1>e
  <2>4. CASE x # z
    <3>1. blk'[x] \in Block \ pool' /\ owner'[blk'[x]] = x
      BY <2>1, <2>4, <1>d, <1>e
    <3>2. \A y \in Xid : st'[y] \in {"in", "out"} /\ blk'[y] = blk'[x] => y = x
      BY <2>1, <2>2, <2>4
    <3> QED
      BY <3>1, <3>2
  <2> QED
    BY <2>3, <2>4
<1>3. StaleTimersStopped'
  <2> SUFFICES ASSUME NEW x \in Xid, NEW k \in TimerNo, timer'[x][k] = "on"
               PROVE  st'[x] \in {"in", "out"} /\ k = named[x]
    BY <1>e DEF StaleTimersStopped, Using
  <2>1. CASE x = z
    <3>1. named[z] = 0
      BY <1>a DEF NewIsBlank, TimersNumbered, TypeOK
    <3> QED
      BY <2>1, <3>1, <1>a, <1>b, <1>c DEF NewIsBlank
  <2>2. CASE x # z
    BY <2>2, <1>b, <1>c DEF StaleTimersStopped, Using
  <2> QED
    BY <2>1, <2>2
<1>4. NewIsBlank'
  <2>1. \A x \in Xid : x > seq' => st'[x] = "new"
    BY <1>b, <1>e DEF NewIsBlank, TypeOK
  <2>2. \A x \in Xid : st'[x] = "new" => x # z /\ st[x] = "new"
    BY <1>b
  <2>3. \A x \in Xid : st'[x] = "new" => \A k \in TimerNo : timer'[x][k] = "none"
    BY <2>2, <1>c DEF NewIsBlank
  <2>4. \A x \in Xid : st'[x] = "new" => more'[x] = 0
    BY <2>2, <1>e DEF NewIsBlank
  <2> QED
    BY <2>1, <2>3, <2>4 DEF NewIsBlank
<1>5. TimersNumbered'
  <2> SUFFICES ASSUME NEW x \in Xid, NEW k \in TimerNo, k > more[x]
               PROVE  timer'[x][k] = "none"
    BY <1>e DEF TimersNumbered
  <2>1. more[x] \in Nat
    BY DEF TypeOK
  <2>2. k # 0
    BY <2>1
  <2> QED
    BY <2>2, <1>c DEF TimersNumbered
<1>6. BlocksFilled'
  BY DEF BlocksFilled, TypeOK, NewIsBlank, JobsRecorded, OneUser, Using
<1>7. JobsRecorded'
  <2> SUFFICES ASSUME NEW u \in Thread, pc'[u] \in Busy
               PROVE  job'[u] \in Xid /\ st'[job'[u]] # "new"
    BY DEF JobsRecorded
  <2>1. CASE u = t
    <3>1. job'[u] = z
      BY <2>1 DEF TypeOK
    <3> QED
      BY <3>1, <1>a, <1>b
  <2>2. CASE u # t
    <3>1. pc'[u] = pc[u] /\ job'[u] = job[u]
      BY <2>2 DEF TypeOK
    <3>2. job[u] \in Xid /\ st[job[u]] # "new"
      BY <3>1 DEF JobsRecorded
    <3> QED
      BY <3>1, <3>2, <1>a, <1>b
  <2> QED
    BY <2>1, <2>2
<1>8. HandlerAwaited'
  BY SMTT(30) DEF HandlerAwaited, TypeOK, NewIsBlank, BlocksFilled, JobsRecorded, Busy, OneUser, Using
<1> QED
  BY <1>1, <1>2, <1>3, <1>4, <1>5, <1>6, <1>7, <1>8

\* A failed recording keeps the invariant.
LEMMA RecordNoTimerStep ==
  ASSUME Inv, NEW t \in Thread, NEW b \in Block, RecordNoTimer(t, b)
  PROVE  Inv'
<1> USE XtnAssumption DEF Inv, Xid, TimerNo, RecordNoTimer
<1>1. TypeOK'
  <2>1. seq' \in 0 .. MaxXtn
    BY DEF Inv, TypeOK, Pc, Xid, TimerNo, JobsRecorded, BlocksFilled
  <2>2. pool' \in SUBSET Block
    BY DEF Inv, TypeOK, Pc, Xid, TimerNo, JobsRecorded, BlocksFilled
  <2> QED
    BY <2>1, <2>2 DEF Inv, TypeOK
<1>2. OneUser'
  BY DEF OneUser, TypeOK, Using
<1>3. StaleTimersStopped'
  <2>1. UNCHANGED <<st, timer, named>>
    OBVIOUS
  <2> QED
    BY <2>1 DEF StaleTimersStopped, Using
<1>4. NewIsBlank'
  BY DEF NewIsBlank, TypeOK
<1>5. TimersNumbered'
  BY DEF TimersNumbered
<1>6. BlocksFilled'
  BY DEF BlocksFilled
<1>7. JobsRecorded'
  BY DEF JobsRecorded, Busy
<1>8. HandlerAwaited'
  BY DEF HandlerAwaited
<1> QED
  BY <1>1, <1>2, <1>3, <1>4, <1>5, <1>6, <1>7, <1>8

\* An answer with more to come keeps the invariant.
LEMMA AnswerMoreStep ==
  ASSUME Inv, NEW refused \in BOOLEAN, NEW failed \in BOOLEAN, AnswerMore(refused, failed)
  PROVE  Inv'
<1> USE XtnAssumption DEF Inv, AnswerMore, TakeNothing, Finish, Step
<1> DEFINE x == job[Handler]
           n == more[x]
           o == named[x]
           left == Restarted(x, refused, failed)
           St == {"none", "on", "stop", "left", "off"}
<1>a. /\ x \in Xid /\ st[x] \in {"in", "out"} /\ n \in TimerNo /\ n + 1 \in TimerNo
      /\ o \in TimerNo /\ o <= n /\ o # n + 1
  BY DEF JobsRecorded, Busy, HandlerAwaited, TimersNumbered, TypeOK, TimerNo
<1>b. /\ more' = [more EXCEPT ![x] = n + 1]
      /\ timer' = [timer EXCEPT ![x] = left]
      /\ named' = [named EXCEPT ![x] = IF failed THEN o ELSE n + 1]
      /\ runs' = [runs EXCEPT ![x][n + 1] = Handler]
      /\ wait' = [y \in Xid |-> wait[y] \ {Handler}]
      /\ pc' = [pc EXCEPT ![Handler] = "idle"] /\ job' = [job EXCEPT ![Handler] = 0]
      /\ seq' = seq /\ pool' = pool /\ owner' = owner /\ st' = st /\ blk' = blk
      /\ slot' = slot /\ sent' = sent
  BY DEF After
<1>c. /\ Stop(x, o, Handler, refused) \in {"none", "stop", "left", "off"}
      /\ timer[x] \in [TimerNo -> St]
  BY <1>a DEF Stop, TypeOK
<1>d. pc[Handler] = "found"
  OBVIOUS
<1> HIDE DEF x, n, o, AnswerMore, TakeNothing, Finish, Step
<1>e. /\ left \in [TimerNo -> St]
      /\ \A k \in TimerNo : k # o /\ k # n + 1 => left[k] = timer[x][k]
      /\ left[o] = "on" => failed
      /\ left[n + 1] = "on" => ~failed
  <2> DEFINE old == Stop(x, o, Handler, refused)
             kept == IF failed /\ old = "left" THEN timer[x][o] ELSE old
             new == IF failed THEN "off" ELSE "on"
  <2>1. left = [timer[x] EXCEPT ![o] = kept, ![n + 1] = new]
    BY DEF Restarted, n, o
  <2>2. kept \in St /\ new \in St /\ (kept = "on" => failed) /\ (new = "on" => ~failed)
    BY <1>a, <1>c
  <2> HIDE DEF kept, new, left
  <2> QED
    BY <1>a, <1>c, <2>1, <2>2
<1> HIDE DEF left
<1>f. /\ \A y \in Xid : y # x => timer'[y] = timer[y] /\ more'[y] = more[y] /\ named'[y] = named[y]
      /\ timer'[x] = left /\ more'[x] = n + 1 /\ named'[x] = IF failed THEN o ELSE n + 1
  BY <1>a, <1>b DEF TypeOK
<1>1. TypeOK'
  <2>1. more' \in [Xid -> TimerNo] /\ named' \in [Xid -> TimerNo]
    BY <1>a, <1>b DEF TypeOK
  <2>2. timer' \in [Xid -> [TimerNo -> {"none", "on", "stop", "left", "off"}]]
    BY <1>b, <1>e DEF TypeOK
  <2>3. runs' \in [Xid -> [TimerNo -> Thread]]
    BY <1>b DEF TypeOK
  <2>4. wait' \in [Xid -> SUBSET Thread]
    BY <1>b DEF TypeOK
  <2>5. pc' \in [Thread -> Pc] /\ job' \in [Thread -> 0 .. MaxXtn]
    BY <1>b DEF TypeOK, Pc
  <2> QED
    BY <1>b, <2>1, <2>2, <2>3, <2>4, <2>5 DEF TypeOK
<1>2. OneUser'
  BY <1>b DEF OneUser, Using
<1>3. StaleTimersStopped'
  <2> SUFFICES ASSUME NEW y \in Xid, NEW k \in TimerNo, timer'[y][k] = "on"
               PROVE  st[y] \in {"in", "out"} /\ k = named'[y]
    BY <1>b DEF StaleTimersStopped, Using
  <2>1. CASE y # x
    BY <2>1, <1>f DEF StaleTimersStopped, Using
  <2>2. CASE y = x
    <3>1. timer[x][k] = "on" => k = o
      BY <1>a DEF StaleTimersStopped, o
    <3> QED
      BY <2>2, <3>1, <1>a, <1>e, <1>f
  <2> QED
    BY <2>1, <2>2
<1>4. NewIsBlank'
  <2>1. \A y \in Xid : st'[y] = "new" => y # x /\ st[y] = "new"
    BY <1>a, <1>b
  <2>2. \A y \in Xid : st'[y] = "new" => \A k \in TimerNo : timer'[y][k] = "none"
    BY <2>1, <1>f DEF NewIsBlank
  <2>3. \A y \in Xid : st'[y] = "new" => more'[y] = 0
    BY <2>1, <1>f DEF NewIsBlank
  <2> QED
    BY <1>b, <2>2, <2>3 DEF NewIsBlank
<1>5. TimersNumbered'
  <2> SUFFICES ASSUME NEW y \in Xid
               PROVE  /\ named'[y] <= more'[y]
                      /\ \A k \in TimerNo : k > more'[y] => timer'[y][k] = "none"
    BY DEF TimersNumbered
  <2>1. CASE y # x
    BY <2>1, <1>f DEF TimersNumbered
  <2>2. CASE y = x
    <3>1. n \in Nat /\ o \in Nat
      BY <1>a DEF TimerNo
    <3>2. named'[x] <= more'[x]
      BY <3>1, <1>a, <1>f
    <3>3. ASSUME NEW k \in TimerNo, k > n + 1
          PROVE  left[k] = "none"
      <4>1. k \in Nat /\ k > n /\ k # o
        BY <3>1, <3>3, <1>a DEF TimerNo
      <4> QED
        BY <4>1, <3>3, <1>a, <1>e DEF TimersNumbered, n
    <3> QED
      BY <2>2, <3>2, <3>3, <1>f
  <2> QED
    BY <2>1, <2>2
<1>6. BlocksFilled'
  BY <1>b DEF BlocksFilled
<1>7. JobsRecorded'
  BY <1>b DEF JobsRecorded, Busy, TypeOK
<1>8. HandlerAwaited'
  BY <1>b DEF HandlerAwaited, TypeOK
<1> QED
  BY <1>1, <1>2, <1>3, <1>4, <1>5, <1>6, <1>7, <1>8

\* The release of a record keeps the invariant.
LEMMA FreeXtnNodeStep ==
  ASSUME Inv, NEW x \in Xid, NEW refused \in BOOLEAN, FreeXtnNode(x, refused)
  PROVE  Inv'
<1> USE XtnAssumption DEF Inv
<1> DEFINE n == named[x]
<1>a. n \in TimerNo
  BY DEF TypeOK
<1>b. /\ Stop(x, n, Zero, refused) \in {"none", "stop", "left", "off"}
      /\ timer[x][n] = "none" => Stop(x, n, Zero, refused) = "none"
  BY <1>a DEF Stop, TypeOK
<1>c. /\ st[x] = "out" /\ wait[x] = {} /\ st' = [st EXCEPT ![x] = "freed"]
      /\ pool' = pool \cup {blk[x]}
      /\ timer' = [timer EXCEPT ![x][n] = Stop(x, n, Zero, refused)]
      /\ seq' = seq /\ owner' = [owner EXCEPT ![blk[x]] = 0] /\ blk' = blk /\ slot' = slot
      /\ sent' = sent /\ more' = more /\ named' = named /\ wait' = wait /\ runs' = runs
      /\ pc' = pc /\ job' = job
  BY DEF FreeXtnNode
<1> HIDE DEF n
<1>d. blk[x] \in Block
  BY <1>c DEF BlocksFilled
<1>e. \A y \in Xid : st'[y] = IF y = x THEN "freed" ELSE st[y]
  BY <1>c DEF TypeOK
<1>f. \A y \in Xid, k \in TimerNo :
        timer'[y][k] = IF y = x /\ k = n THEN Stop(x, n, Zero, refused) ELSE timer[y][k]
  BY <1>a, <1>c DEF TypeOK
<1>1. TypeOK'
  <2>1. st' \in [Xid -> {"new", "in", "out", "freed"}] /\ pool' \in SUBSET Block
    BY <1>c, <1>d DEF TypeOK
  <2>2. timer' \in [Xid -> [TimerNo -> {"none", "on", "stop", "left", "off"}]]
    BY <1>a, <1>b, <1>c DEF TypeOK
  <2>3. owner' \in [Block -> 0 .. MaxXtn]
    BY <1>c, <1>d DEF TypeOK
  <2> QED
    BY <1>c, <2>1, <2>2, <2>3 DEF TypeOK
<1>2. OneUser'
  <2> SUFFICES ASSUME NEW y \in Xid, st'[y] \in {"in", "out"}
               PROVE  /\ blk[y] \in Block \ pool' /\ owner'[blk[y]] = y
                      /\ \A w \in Xid : st'[w] \in {"in", "out"} /\ blk[w] = blk[y] => w = y
    BY <1>c DEF OneUser, Using
  <2>1. y # x /\ st[y] \in {"in", "out"}
    BY <1>e
  <2>2. blk[y] # blk[x]
    BY <1>c, <2>1 DEF OneUser, Using
  <2>3. \A w \in Xid : st'[w] \in {"in", "out"} => st[w] \in {"in", "out"}
    BY <1>e
  <2>4. blk[y] \in Block \ pool /\ owner[blk[y]] = y
    BY <2>1 DEF OneUser, Using
  <2>5. owner'[blk[y]] = y
    BY <1>c, <2>2, <2>4 DEF TypeOK
  <2> QED
    BY <1>c, <2>1, <2>2, <2>3, <2>4, <2>5 DEF OneUser, Using
<1>3. StaleTimersStopped'
  <2> SUFFICES ASSUME NEW y \in Xid, NEW k \in TimerNo, timer'[y][k] = "on"
               PROVE  st'[y] \in {"in", "out"} /\ k = named[y]
    BY <1>c DEF StaleTimersStopped, Using
  <2>1. timer[y][k] = "on" /\ ~(y = x /\ k = n)
    BY <1>b, <1>f
  <2>2. st[y] \in {"in", "out"} /\ k = named[y]
    BY <2>1 DEF StaleTimersStopped, Using
  <2> QED
    BY <1>e, <2>1, <2>2 DEF n
<1>4. NewIsBlank'
  <2>1. \A y \in Xid : st'[y] = "new" => y # x /\ st[y] = "new"
    BY <1>e
  <2>2. \A y \in Xid : st'[y] = "new" => \A k \in TimerNo : timer'[y][k] = "none"
    BY <2>1, <1>f DEF NewIsBlank
  <2>3. \A y \in Xid : y > seq => y # x /\ st'[y] = "new"
    BY <1>c, <1>e DEF NewIsBlank
  <2> QED
    BY <1>c, <2>1, <2>2, <2>3 DEF NewIsBlank
<1>5. TimersNumbered'
  <2> SUFFICES ASSUME NEW y \in Xid, NEW k \in TimerNo, k > more[y]
               PROVE  timer'[y][k] = "none"
    BY <1>c DEF TimersNumbered
  <2>1. timer[y][k] = "none"
    BY DEF TimersNumbered
  <2> QED
    BY <2>1, <1>b, <1>f
<1>6. BlocksFilled'
  BY <1>c, <1>e DEF BlocksFilled
<1>7. JobsRecorded'
  BY <1>c, <1>e DEF JobsRecorded, Busy
<1>8. HandlerAwaited'
  <2> SUFFICES ASSUME pc[Handler] = "found"
               PROVE  \/ st'[job[Handler]] = "in"
                      \/ st'[job[Handler]] = "out" /\ Handler \in wait[job[Handler]]
    BY <1>c DEF HandlerAwaited
  <2>1. job[Handler] \in Xid /\ job[Handler] # x
    BY <1>c DEF JobsRecorded, Busy, HandlerAwaited
  <2> QED
    BY <1>e, <2>1 DEF HandlerAwaited
<1> QED
  BY <1>1, <1>2, <1>3, <1>4, <1>5, <1>6, <1>7, <1>8

\* Every step keeps the invariant.
LEMMA NextInv ==
  ASSUME Inv, [Next]_vars
  PROVE  Inv'
<1>1. CASE UNCHANGED vars
  BY <1>1, StutterStep
<1>2. ASSUME NEW t \in Thread, NEW b \in Block,
             (\E s \in Xid : Record(t, b, s)) \/ RecordNoTimer(t, b)
      PROVE  Inv'
  BY <1>2, RecordStep, RecordNoTimerStep
<1>3. ASSUME NEW t \in Thread, Run(t)
      PROVE  Inv'
  BY <1>3, SendDoneStep, SendFailedStep, PassBeginStep, FireDeleteStep, FireZeroedStep,
     AnswerLastStep, AnswerMoreStep DEF Run
<1>4. ASSUME NEW x \in Xid, Expire(x) \/ Answer(x) \/ Free(x)
      PROVE  Inv'
  BY <1>4, FireStep, AnswerStep, FreeXtnNodeStep DEF Expire, Free
<1> QED
  BY <1>1, <1>2, <1>3, <1>4 DEF Next

\* The inductive invariant holds in every reachable state.
THEOREM XtnInvariant == Spec => []Inv
BY InitInv, NextInv, PTL DEF Spec

\* Every variable keeps its type: in particular at most MaxMore restarts are
\* numbered, and a thread works on a recorded transaction.
THEOREM XtnTypeCorrect == Spec => []TypeOK
<1>1. Inv => TypeOK
  BY DEF Inv
<1> QED
  BY <1>1, XtnInvariant, PTL

\* Two transactions never share a block, nor one with the pool, for any number of
\* threads that race to delete records, by node and by references they compared
\* earlier, as long as none of them unlinks a record twice or reads a null node
\* (cntlr_free_xtn_node_rcu and its callers).
THEOREM XtnBlockHasOneUser == Spec => []BlockHasOneUser
<1>1. Inv => BlockHasOneUser
  BY DEF Inv, OneUser, BlockHasOneUser
<1> QED
  BY <1>1, XtnInvariant, PTL

\* The record an answer was matched with is not reused under its handler.
THEOREM XtnAnswersOwnRecord == Spec => []AnswersOwnRecord
BY InvAnswers, XtnInvariant, PTL

\* A timer that runs on a released block, or beside the one its record names, has been
\* asked to stop: the stop is queued or was refused, however often it was restarted and
\* whichever half of a restart failed.
THEOREM XtnStaleTimersStopped == Spec => []StaleTimersStopped
<1>1. Inv => StaleTimersStopped
  BY DEF Inv
<1> QED
  BY <1>1, XtnInvariant, PTL
=============================================================================
