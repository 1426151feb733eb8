# ON Director platform: TLA+ models of the OpenFlow controller core

This directory holds TLA+ models of the controller half of the repository
(`src/ofcdriver`), the TLC configurations that check them on small instances,
and TLAPS proofs of the safety properties for every value of the constants.
Paths below are relative to `src/ofcdriver/ofproto/src` unless they start with
`src/`.

## 1. The system

The platform is an OpenFlow 1.3 controller in C. A set of transport threads
accept connections of switches, assemble messages and run their handlers;
applications register callbacks and send messages from any thread; a
configuration thread maintains switches, datapaths, tenants and service chains.
Shared records live in hash tables that hand out *safe references* (index and
magic number) and are released after an RCU grace period.

| Component | State it keeps | Operations | Interacts with |
|---|---|---|---|
| Channels (`transport/base/channel_fsm.c`, `trnsprt_msg.c`, `trnsprt_channel.c`, `trnsprt_epoll.c`) | one `cntlr_channel_info` per connection: fsm state, handshake state, attached datapath, auxiliary id, keep-alive state and count, two timers, membership of the connection table | learn, read, write, close, attach, detach, keep-alive, response check, release | datapath entry (both ways), timers, epoll, connection table |
| Message reassembly (`channel_fsm.c` 194-404, `trnsprt_epoll.c` 224-302, `messages/of_cntlr_msg.c` 77-104, 712-975) | `msg_state`, header and body bytes read so far | new message, header, body, drain | channel, message buffers |
| Send path (`trnsprt_core.c`, `trnsprt_thread.c`) | `send_msg_list`, bytes sent, write interest in epoll, wake-up event | send now, queue the rest, resume, wake a thread | channel, epoll |
| Message queue (`src/ofcdriver/utils/queue.c`) | ring of slots, overflow list, reader and writer index | create, enqueue, dequeue | nobody: the only enqueue is reached from code inside `#if 0` (`trnsprt_core.c` 319-331) |
| Safe-reference hash table (`src/ofcdriver/utils/mchash.c`, `include/mchash.h`) | buckets of linked nodes, indirection array with magic numbers, queue of free slots | append, insert, access, scan, delete by reference or by node, release | every table |
| Timers (`src/ofcdriver/utils/timer.c`) | wheels of buckets per thread, stop list per thread | start, stop, process, cascade | callbacks on the owner thread |
| Transactions (`coreapp/cntlr_xtn.c`) | record per request, keyed by xid, with a timeout | record, look up, delete, time out | send path, message handlers |
| Memory pools (`src/ofcdriver/utils/memory/`) | shared list with its lock, a list per worker thread, counters, thresholds | create, get, release, refill | messages, channels, transactions |
| Transport instances (`trnsprt_fsm.c`, `trnsprt_api.c`, `trnsprt_init.c`) | fsm of a listening endpoint | start, open, read, stop, close | channels |
| Transports (`transport/{tcp,tls,udp,unixdomain,virtio}`) | sockets, TLS sessions | read, write, close | channels |
| DPRM (`dprm/`) | switches, domains, datapaths, notification lists | register, unregister, look up | channels, applications |
| CRM, NSRM (`crm/`, `nsrm/`) | tenants, networks, ports; services, chains, rules | add, delete, look up | DPRM, notifications |
| TTP, views, network events (`ttprm/`, `ttp/`, `view/`, `nem/`, `crmiface/`, `genid/`) | pattern tables, registries | register, look up | CRM, DPRM |
| Message codecs (`messages/`) | none | encode, decode | channels |
| Management plane (`src/cminfra`) | CLI, HTTP, job engine, data model | commands | `ofcli/ucmcbk` glue |

What is hard: a channel is changed by its own thread (epoll and timer
callbacks), by any application thread (a write that finds the peer gone closes
the channel there) and by the configuration thread (deletion of its datapath);
the channel and its datapath point to each other, and every detach must put
both sides right; timers of a channel can only be stopped at once on its own
thread, and a stop from another one may be refused; a failed system call in the
middle of a handler leaves the first half done. `PROJECT.json` lists these hazards with their lines.

What makes the parts correct:

* channels: a bound channel is attached, reachable and watched; references
  between channel and datapath agree; a closed channel stays closed and is
  released; a silent peer loses its channel;
* reassembly: the bytes handed to a handler are exactly one message of the
  stream, whatever the sizes of the reads; a wait ends;
* send path: the messages of a thread leave in order and complete, nothing is
  released twice, and what waits is sent;
* hash table: a reference to a deleted node is never valid again, a list holds
  what it should, nobody stands on freed memory;
* timers: never early, never after a stop, and on time where the wheels allow;
* transactions: a record has one user, whoever of three parties ends it, and
  every transaction ends;
* memory pools: the counters that steer the lists are exact, and the limits
  hold.

## 2. Modules

| Module | Models | Kind |
|---|---|---|
| `Channel` | channels and the channel part of the datapath entries | specification, properties, inductive invariant |
| `ChannelProofs` | theorems about `Channel` | TLAPS proofs |
| `McHash` | the hash table with safe references | specification, properties |
| `McHashProofs` | theorems about the slots and references of `McHash` | TLAPS proofs |
| `McHashDeleteProofs` | theorems about its deletes, lists and readers | TLAPS proofs |
| `Stream` | what the send path promises: order per thread | abstract specification |
| `SendPath` | the send path of one channel, implements `Stream` | specification, properties |
| `SendPathProofs` | theorems about `SendPath`, with the refinement of `Stream` | TLAPS proofs |
| `MsgReader` | reassembly of the messages on one channel | specification, properties |
| `MsgReaderProofs` | theorems about `MsgReader` | TLAPS proofs |
| `Countdown` | what a timer promises, in ticks | abstract specification |
| `Timer` | the wheels of one thread, implements `Countdown` | specification, properties |
| `TimerProofs` | theorems about `Timer`, with the refinement of `Countdown` | TLAPS proofs |
| `Xtn` | transactions with their timers, records and blocks | specification, properties |
| `XtnProofs` | theorems about `Xtn` | TLAPS proofs |
| `MemPool` | a memory pool of type heap | specification, properties |
| `MemPoolProofs` | theorems about `MemPool` | TLAPS proofs |
| `MCChannel`, `MCMcHash`, `MCSendPath`, `MCMsgReader`, `MCTimer`, `MCXtn`, `MCMemPool` | the instances TLC checks | symmetry sets, wheel sizes, requests |

How they fit together. `Channel` uses what `McHash` promises (a reference is
valid exactly while its node is in the table, memory is freed after the read
sections of that time) and what `Timer` promises (a stop by the owner is
immediate, a stop by another thread is queued or refused, a running timer
expires). `Xtn` does not rely on the table where it is not safe: a delete by
reference is two steps there, as in `McHash`, may meet another record than it
compared, and ends in the state `crash` where `McHash` finds a fault. `Xtn` keeps
the safe use of a pool's block to itself and leaves the pool's lists to
`MemPool`. `SendPath` and `MsgReader` are the two directions of one bound channel
of `Channel`, between its attach and its close.

### Channel

State: `ch[c]` is the control block of channel `c`, `dpt[d]` the channel part of
datapath entry `d`, `fault` names the null pointer or released block that ended
the process or the loop a thread never leaves. A `Channel` value is used for one
connection and a `Datapath` value for one entry, so a safe reference is the value
itself, valid while `ch[c].hash`.

One action is one handler run to its end, except for two handlers which hold no
lock while other threads may detach or close their channel:

* the features reply: `FeatureReplyAttach` links the channel to its datapath and
  binds it, then `FeatureReplyTimer` starts the keep-alive or `FeatureReplyFail`
  closes (`trnsprt_msg.c` 243-279). In between `busy` is set and the channel's
  thread does nothing else. A detach or close that comes between finds
  `keep_alive_state` NOT_READY and stops nothing; the periodic timer is started
  all the same and is `left` on a channel without datapath;
* the deletion of a datapath: `DelDatapathFind` looks the main channel up
  (`trnsprt_channel.c` 662), `DelDatapathDetach` runs the DETACH handler on this
  `victim`, `DelDatapathEnd` sets the state after it (`channel_fsm.c` 918). A
  channel that another thread closes in between gets the state
  WAIT_FOR_HANDSHAKE again, which `ClosedForever` names as the one way back; the
  read section keeps its block from being released.

| Code | Actions |
|---|---|
| LEARN event, accept (`channel_fsm.c` 128-191, `trnsprt_channel.c` 61-190) | `Learn` |
| handshake read (`trnsprt_epoll.c` 305-365, `trnsprt_msg.c` 312-511) | `HandshakeClose`, `FeatureReplyRefused` |
| features reply (`trnsprt_msg.c` 202-310, `trnsprt_channel.c` 366-513) | `FeatureReplyAttach`, `FeatureReplyTimer`, `FeatureReplyFail` |
| read of a bound channel (`trnsprt_epoll.c` 169-222, `of_cntlr_msg.c` 2215-2293, 3762-3884) | `BoundMessage`, `EchoReply`, `PortDescReply`, `MalformedClose`, `PeerClosed`, `PeerClosedInHeader` |
| write by an application (`channel_fsm.c` 796-855) | `SendToGonePeer` |
| keep-alive and response timers (`trnsprt_msg.c` 514-591, `of_symmetric_msgapi.c` 85-193) | `KeepAliveExpiry`, `ResponseCheck` |
| stop list of the owner thread (`src/ofcdriver/utils/timer.c` 1304-1345) | `StopListDone` |
| release (`trnsprt_channel.c` 516-591) | `RcuFree` |
| DPRM (`dprmapi.c` 1790-1935, 2647-2818, `trnsprt_channel.c` 626-736) | `AddDatapath`, `DelDatapathFind`, `DelDatapathDetach`, `DelDatapathEnd` |
| the switch at the other end (environment) | `PeerMute`, `PeerGone` |

Detach and close are operators over the state `(C, D)` a handler has reached
(`DetachRec`, `PlainClose`, `CascadeClose`, `CloseEvent`, `DetachThenClose`):
a handler may have attached the channel, or marked its timer, before it closes
it. What can fail in a handler is its outcome `o` in `Outcome`. `o.epoll` is the
registration of a descriptor: that of the datapath handler after an attach, whose
failure nobody looks at (`channel_fsm.c` 546-555; the channel is then bound and
never read again; only its keep-alive may close it), and that of the handshake
handler in the middle of the detach of a main channel, whose failure skips the
rest of the detach. `o.queued` is the request that carries a stop to another
thread: without memory for it the timer runs on (`left`, `timer.c` 785-790). A
features reply that starts the periodic timer while an earlier one still runs
overwrites its name; that one is the `stray`.

Abstractions: bytes of messages (a message is its kind and whether it is well
formed); addresses; names; log texts; `channel->state`, which only decides whether
a HELLO is answered with one. Log *arguments* are kept where they read a pointer
that can be null, because `main.c` 1140 sets a trace level at which they are
evaluated. Apart from the two handlers above a handler is one step: handlers of
two threads are interleaved as wholes, so the data races on single fields inside
them (`fsm_state`, `keep_alive_state` are written without a lock) are not
explored, nor two closes of one channel whose deletes from the connection table
overlap (`channel_fsm.c` 956): that race is the one `mchash_race` shows. In `DelDatapathFind` with a list, every way through the loop but one ends
the process or never ends, and that one (every descriptor's registration fails)
is left out. The C heap is never exhausted, but for the block of a queued stop:
the error `timer_create_and_start` has for that (-62) would pass its callers'
test for OF_FAILURE (-1). `uiKeepAliveCount` is saturated one above `MaxRetries`:
it is only compared with that limit. `stuck_delete` ends the behaviour although
the other threads go on in the program. Only the reliable transports are
modelled (TCP, TLS); UDP and virtio share one descriptor between channels.

### McHash

`Channel` treats a safe reference as the object itself. `McHash` models the table
that has to keep that promise, at the grain where its threads interfere: an
operation is split at every lock it takes and at every unlocked access.

State: `smagic`, `snode` (the indirection slots), `free_q`, `magic_no`, `active`
(the table), `next`, `prev` (nodes and bucket heads), `index`, `key`,
`ref` (what a node and its owner know about its slot), and per thread a `pc`
with its local pointers. `wait[n]` is the set of read sections the RCU callback
of `n` waits for. `life`, `home`, `seen` and `must` are history.

| Code | Actions |
|---|---|
| `MCHASH_APPEND_NODE`, `MCHASH_INSERT_NODE_BEFORE`, `_AFTER` | `AppendNode`/`InsertNode` (table lock), `AppendRefused`, `FillSlot` (no lock), `LinkNode`, `KeyNode` (bucket lock) |
| `MCHASH_BUCKET_SCAN` | `ScanBegin`, `ScanNext`, `ScanEnd` |
| `MCHASH_ACCESS_NODE` | `AccessNode` (magic), `AccessDeref` (node), `AccessEnd` |
| `MCHASH_DELETE_NODE_BY_REF` | `DeleteByRef` (magic), `RefDeref` (node, key), `RefUnlink`, `RefSubmit`, `RefClear` (bucket lock), `RefPush` (table lock) |
| `MCHASH_DELETE_NODE` | `DeleteNode`, `NodeUnlink` (bucket lock), `NodePush` (table lock), `NodeSubmit` |
| `call_rcu`, `mchash_table_delete` | `RcuFree`, `TableDelete` |

What callers do is a parameter: which threads delete by reference
(`RefDeleter`), by a node found in a scan (`NodeDeleter`), insert next to a
scanned node (`Inserter`). Deleters act on nodes whose append has returned; a
delete that found a node before `KeyNode` has written its key would take another
bucket's lock, which no caller does.

The connection table and the table of transactions have many buckets, and
several threads delete from them by reference and by node (`channel_fsm.c` 956,
`cntlr_xtn.c` 338, 353). A delete by reference compares the magic number, reads
`node_p` and reads its key before it takes a lock, and under the lock only
compares the magic number with 0 (`mchash.h` 373-378). So the one that comes
second follows a null `node_p` (`null_link`), unlinks a node that is out of its
list (`ref_unlink`), or, when it read the key of a node just put into the slot and
not keyed yet, unlinks under the lock of bucket 0 (`wrong_bucket`). The run
`mchash_race` shows it with two threads: `DeletesSafe` is violated. The first such
step is kept in `fault`, as is an insertion next to a node that has been deleted
meanwhile (`stale_anchor`), and nothing is said of what follows. Until then the
slots, references, lists and scans are exact, for any number of buckets and of
deleters of each kind; a delete by node is never the first that goes wrong
(`NodeDeletesSafe`); and that nobody holds freed memory and that a stale reference
is dead do not depend on `fault` at all. Not modelled: the
node count of a bucket (which an append raises twice, `mchash.c` 129 and
`mchash.h` 323) and its prefetch cache, since nothing reads either; operations
that run while the table is deleted.

### Stream and SendPath

`Stream` is what a sender may rely on: the messages one thread hands over leave
in that order, each chunk once and in its place, nothing after the connection is
down; nothing is promised between threads. `SendPath` is `trnsprt_core.c` and the
part of `trnsprt_thread.c` that handles a wake-up, for one channel, split at
every access to the list, the socket and the two flags.

| Code | Actions |
|---|---|
| `cntlr_tnsprt_send_msg_to_dp_channel`, `cntlr_tnsprt_try_2_send_msg_on_line` | `SendMsg`, `TrySend` |
| `of_add_2_epoll_4_wr_event` | `AppendMsg`, `AppendFails`, `Arm` (`ArmOwner`) |
| `cntlr_send_epoll_write_event_2_xprt_conn` | `Signal`, `SignalFails`, `Unflag` |
| `cntlr_trnsprt_handle_ctrl_thread_msgs` | `HandleEvent`, `EventDone` |
| `of_handle_dp_msg` on POLLOUT, `of_send_all_msgs_waiting_on_chn_to_dp` | `DrainBegin`, `DrainWrite` (`DrainWhole`, `DrainPart`, `DrainError`), `DrainPop`, `DrainEmpty`, `DrainCheck`, `Disarm` |
| close, `cntlr_trnsprt_conn_close` | `CloseChannel`, `FreeChannel` |

A message is `Chunks` equal pieces. The refinement mapping is the identity on the
history (`accepted`, `wire`), with `open` for `up` and `lost` for `dropped`.
A thread that leaves the wake-up by its early return keeps the RCU read lock
(`stuck`), so the channel is not released any more.

### MsgReader

One bound channel that reads. A byte is a pair of the message it belongs to and
its place in it, so a handler's buffer can be compared with what was sent.

| Code | Actions |
|---|---|
| `fsm_xprt_proto_channel_read` (`channel_fsm.c` 194-404), `trnsprt_epoll.c` 224-302 | `ReadHeader`, `ReadOtherVersion`, `ReadInvalid`, `WaitInvalid`, `ReadRest` |
| `of_process_dp_message` and the handlers (`of_cntlr_msg.c` 712-975, 3436-3460) | `ProcessNone`, `ProcessAlloc`, `ProcessDiscard`, `ReadBody`, `ReadBodyEmpty`, `HandOver` |
| read error handler and drain (`channel_fsm.c` 700-735, `of_cntlr_msg.c` 3912-3982) | `ReadBodyEmpty`, `Drain`, `DrainEmpty` |
| the switch and the other channels (environment) | `Send`, `Arrive`, `OtherInvalid` |

Four things about the code that the model makes visible, and that the properties
take as they are:

* the first read of a body follows its header at once. When the body has not
  arrived, EAGAIN is treated as an error, the body is drained from an empty
  socket, and the channel waits for a new message; the body is later read as a
  header (`channel_fsm.c` 242, 708-727, `of_cntlr_msg.c` 3936-3968). `InStep`
  says that only this, a type or version the code throws away, or a length in the
  wrong byte order loses the place in the stream (`missed`, `misled`). A reader
  that has lost it (`pc = "lost"`) is not followed further;
* `of_alloc_and_read_message_from_dp` does not set `msg_len_read` when it gets a
  part of a body (`of_cntlr_msg.c` 928-933, against 828 in the asynchronous
  variant): such a reply is never resumed, and `WaitEnds` holds only because the
  counter of invalid states closes the channel;
* that count is a `uint8_t`. A body above 256 bytes that comes in pieces can
  wrap it: the next piece is put over an earlier one, or, when the count is 0, is
  never read. `HandedIntact` therefore promises the bytes of a message
  only when its body can be counted; a longer one is still handed over in its
  turn and spoils no other message, and its wait ends;
* the length in the header is used without `ntohs` at `channel_fsm.c` 318, 359
  and 726. The builds the repository documents are for x86 (`src/README.md`
  39-40), so the run is for a little-endian build (`BigEndian = FALSE`). `misled`
  is set when one of these lines uses a length that the conversion would change;
  from then on the reader asks for bytes that the message does not have, and
  `HandedIntact` and `WaitEnds` promise nothing.

### Countdown and Timer

`Countdown` counts ticks: a timer fires at its tick (a periodic one at most
`Slack` later), never before, and not once it is stopped; from `Long` ticks on
only "not before" is promised. `Timer` is `src/ofcdriver/utils/timer.c` for the
container of one worker thread: three wheels, and the nodes in their buckets.

| Code | Actions |
|---|---|
| `timer_create_and_start` | `Start` |
| `timer_stop_tmr` by the owner, by another thread | `Stop` (`StopOwn`), `StopRemote` |
| `timer_process_timers` | `ProcessBegin` (stop list), `ExpireNext`, `CallbackEnd` (`Rearm` for periodic timers), `EndTick` (advance and cascade, `redistribute_nodes`) |

The mapping sends a node's timeout to whole ticks, `Long` to the span of wheel 1
and `Slack` to a turn of wheel 2. `LongOnTime` bounds what `Countdown` leaves
open, except for the timers that a cascade has left in the last bucket of wheel
0 (the history variable `held` remembers them), which `timer_late` is about.
`TmrTime` is the number of values of `tmr_time_t`: it is there because a
difference underflows. Periodic timers of less than one tick are excluded by
`TimerAssumption`: the code would put them back into the bucket it is working
off.

### Xtn

`coreapp/cntlr_xtn.c` and its callers: a record per request, in a block of a
pool, with a one-shot timer. A record is ended by the failed send, by the last
answer and by the timer, on up to three threads; the RCU callback stops the
timer and gives the block back. The table has `(max/5) + 1` buckets
(`cntlr_xtn.c` 104): the last answer deletes by node and is safe, the sender and
the timer delete by reference, in two steps (`CompareRef`, then `DeleteByRef` of
whatever the slot has by then, or `crash`).

| Code | Actions |
|---|---|
| recording a transaction, failure of its timer | `Record`, `RecordNoTimer` |
| the sender | `SendDone`, `SendFailed` (magic), `SendFailedDelete` |
| handler of an answer (`of_cntlr_msg.c` 3436-3604) | `Answer` (with the callback), `AnswerLast`, `AnswerMore` (restarts the timer) |
| pass over the timers of a thread | `PassBegin` (stop list), `Fire` (with the callback), `FireDelete` (magic), `FireTakeOut`, `FireZeroed`, `PassEnd` |
| RCU callback | `FreeXtnNode` |

Every restart is a timer of its own, so a stale one can be told from the one the
record names (`named`). A stop by another thread is queued (`stop`) or refused
(`left`, `timer.c` 785-790), and a restart may fail to stop the old timer, to
start the new one, or both, which nobody looks at (`timer.c` 850-851,
`of_cntlr_msg.c` 3594, `cntlr_xtn.c` 290). So a refused timer outlives its record
and may fire on a block that another transaction has got, as `StaleTimersStopped`
says openly; and a transaction whose restart failed may have no timer and never
end, which `XtnEnds` excepts. Timers are untimed here: a running one may expire
in any pass.

### MemPool

A pool of type heap (`src/ofcdriver/utils/memory/mheap/mheapapi.c`,
`base/memapi.c`). The lists are walked by counters, so list (`place`) and counter
(`free`, `thFree`, `statics`) are separate variables and `CountsExact` relates
them.

| Code | Actions |
|---|---|
| `mempool_create_mheap_pool` | `Init` |
| `mempool_mheap_get_mem_block` from the thread's list, after a move from the shared list, from the shared list | `GetOwn`, `GetMove`, `GetShared` (each with the refill of the shared list) |
| the same from the C heap | `GetHeap` (counted under the lock), `GetHeapEnd` (calloc) |
| release | `Release`, `ReleaseHeap` (free), `ReleaseHeapEnd` (counted) |

`MemPoolAssumption` is what `mempool_set_threshold_values` demands plus
`ThresholdMax <= StaticBlocks`, which the code does not demand: above it the
unsigned size of a refill wraps (`memapi.c` 659).

The comment at `mheapapi.c` 366-369 says that the counters are reverted when the
calloc fails; the two lines that would do it are commented out (381-382). The
model follows the code: each failed calloc takes one block from the heap limit
for good (`heapLost`), which `HeapAccounted` states as a disagreement with the
comment. `HeapAccounted` is proved and not checked by a run.

## 3. Runs

| Run | Instance | Shows |
|---|---|---|
| `channel` | 2 channels on 2 threads, 1 datapath, ids {0, 1}, `MaxRetries` 0, a registration or a queued stop may fail | `BoundIsWatched`, `TimerHasDatapath`, `EchoFindsChannel`, `MainRefAttached`, `AuxRefSafe`, `ActiveHasMain`, `ClosedForever` |
| `channel_live` | 1 channel, 2 threads, `MaxRetries` 3, the same failures, fairness | `SilentChannelClosed`, `ClosedIsFreed` |
| `channel_silent` | 2 channels on 1 thread, nothing fails, fairness | violation of `SilentChannelClosed` |
| `mchash` | 3 nodes, 2 slots, 2 buckets, 2 threads that append, scan and delete by node, one of them also deletes by reference and inserts, fairness | `TypeOK`, `NodeDeletesSafe`, `SlotsConserved`, `RefResolves`, `StaleRefDead`, `ListsExact`, `ScanComplete`, `HeldNotFreed`, `Reclaimed` |
| `mchash_race` | 3 nodes, 2 slots, 2 buckets, 2 threads that delete by reference | violation of `DeletesSafe` |
| `send` | 3 messages of 2 chunks, the owner and another thread send, calloc and sendto may fail, fairness | `TypeOK`, `Accounted`, `ReleasedOnce`, `StreamOK` (refinement), `OwnerServed` |
| `send_lost` | 2 messages, one sender, no failing call, fairness | violation of `WaitingSent` |
| `timer` | wheels of 3, 3 and 2 buckets, granularity 2, 128 values of `tmr_time_t`, 2 timers, 20 ticks, fairness | `TypeOK`, `LongOnTime`, `TimersOK` (refinement), `RemoteStopEffective` |
| `timer_late` | the same, 26 ticks | violation of `ExpiredCalled` |
| `xtn` | 2 transactions, 2 blocks, 2 threads, 1 restart, stops and starts of timers may be refused, fairness | `BlockHasOneUser`, `AnswersOwnRecord`, `StaleTimersStopped`, `XtnEnds` |
| `mempool` | 6 blocks, 2 workers and a thread without list, 5 static and 2 heap blocks, thresholds 1 and 3, refills and moves of 2 | `CountsExact`, `WithinLimits`, `HeapOnlyWhenFull` |
| `reader` | 2 messages of 2, 5, 6 or 10 bytes, 2-byte headers, bytes of 4 values (`Byte8`), little-endian, limits 2, fairness | `TypeOK`, `HandedIntact`, `InStep`, `WaitEnds` |

The type invariants of `Channel`, `Xtn` and `MemPool`, `AuxListed` and
`HeapAccounted` are proved for every instance (section 4) and not checked again.

Bounds. Channels: two give a main and an auxiliary one, or two that both claim
id 0; one datapath suffices because a channel never refers to two. Longer lists
are left to the proofs. `MaxRetries` 0 closes a silent channel at its first
response check; the constraint `Reduced` leaves out peers that fall silent (a
silent peer is one that could speak and does not) and two channels on one thread
(which handles them one after the other); threads and channels are
interchangeable, and all properties of that run are safety properties. At most one
call fails in one handler. Hash table: three nodes on two slots make every slot
free, used, given back and used again while a stale reference to it is still
around; two of them go to one bucket, where they are neighbours, and the third
reuses a slot for the other bucket, so that a delete by reference may meet a node
of another list. `MagicMod` is one more than the number of appends,
so the magic number wraps only after the last of them. A node value is appended
once: a block of memory that is allocated again is another value, reached only
after `RcuFree`. Send path: two chunks are one direct and one resumed part;
three messages let one wait behind a partly sent one while a third comes. Timers:
every wheel has several buckets, and timers are started at every position, so
that each cascade meets timers in every bucket; 20 ticks are more than one turn
of the whole container (18); `TmrTime` is above twice the container's span, as in
the code, so that an underflow cannot pass for a time. Transactions: two, so that
a block is reused while the stop of its first timer is still queued or was
refused. Pool: more blocks than static ones, so that a
refill stops at `static_blocks` and at the heap limit. Reader: a body of `Byte8`
bytes, the longest that `msg_len_read` can count, and one of 8, whose count wraps
to 0 and beyond; lengths that read the same in both byte orders (5 and 10 are 1, 1
and 2, 2) and others (6 is 1, 2 and reads 9); several drains per body (`DrainLen`
2), and a message behind one that was resumed, discarded or misled.

Deadlock is checked in `mempool` only, where threads go on for ever. Elsewhere
the system may stop: all channels closed and released, all nodes, messages,
timers or transactions used up, or the process dead.

Fairness. `Channel`: weak fairness of the handlers that a transport thread runs
by itself (a hang-up reported by level-triggered epoll, an expired timer, a
queued stop), of the second halves of the two split handlers
(`FeatureReplyTimer`, `DelDatapathDetach`, `DelDatapathEnd`), and of the end of a
grace period. `McHash`: a thread that has begun
an operation goes on, a scan loop does not stay at one node for ever (strong
fairness of its next step: the body of a loop deletes a bounded number of
times), and grace periods end. `SendPath`: threads inside a call and the owner's
event loop run on; strong fairness of a drain that writes, since a peer that
keeps reading makes room again and again. `Timer`: the thread calls
`timer_process_timers` again, callbacks and ticks end. `Xtn`: threads run and
make their passes, grace periods end, and a timer that keeps running expires
(strong fairness, which `Timer` shows in ticks). `MsgReader`: the thread serves
level-triggered events, and a switch completes the message it has begun. Peers
and applications owe nothing else. The liveness properties hold "or the channel
is closed" or "or the process has died" where the code can do that.

The violations are disagreements between the code and its own comments:

* `channel_silent`: detaching an auxiliary channel clears the main flag and the
  main reference (`channel_fsm.c` 669-671); echoes go through the main
  reference, so a silent main channel is then never closed;
* `mchash_race`: the status of a delete by reference is "returns TRUE in case of
  successful deletion" (`mchash.h` 362), but of two deletes by one reference both
  pass the comparison at 373, and the second unlinks a node once more or follows a
  null pointer;
* `send_lost`: `bSendEvent` and `epoll_wr_enabled` are set and tested without a
  lock, and a message appended between the owner's last look at the list and its
  `Disarm`, or while a wake-up is being handled, waits for ever;
* `timer_late`: every timer in the last bucket of wheel 0 is taken for one beyond
  the container's range, and the unsigned difference underflows.

Every property of a passing run has a mutant (a definition next to the one it
replaces) under which TLC finds it violated.

## 4. Proofs

All proofs hold for every value of the constants that satisfies the module's
assumption, and use nothing else.

`ChannelProofs` (from `ChannelAssumption`): `TypeCorrect`,
`BoundChannelsWatched`, `TimersHaveDatapath`, `MainReferencesAttached`,
`AuxChannelsListed`, `AuxReferencesSafe`, `ActiveDatapathsHaveMain`,
`EchoAlwaysFindsChannel` (each `Spec => []P`) and `ClosedChannelsStayClosed` (an
action property).

None of the invariants is inductive alone. `IndInv` adds to the types:

* `RecOK`, what the fields of one channel say about each other. It is needed
  because a failed detach leaves a *closed* channel attached, always a main one
  whose periodic timer is stopped or `left`;
* `MainRefs`, `AuxRefs`, `AuxOnList`, `ActiveRefs`, the references of a datapath
  against the channels they name. `AuxRefs` also says that a listed channel has
  been learnt, since otherwise a fresh connection could inherit a list entry;
* `Victims`: the channel a deletion has looked up is not released under it, and
  is still the main channel of its datapath, on no list, unless another thread has
  closed it;
* `Watched`: every bound channel's timer runs, or one of the two split handlers is
  about to start it or has just stopped it.

The first four are stated of a pair `(C, D)` (`StateOK`) because a handler that
attaches and then fails closes the channel from a state that no step reaches;
`Watched` is stated apart, since such a state does not satisfy it. Almost every
step only *loosens* what the references see of a channel: it detaches it, closes
it or leaves these fields alone (`Looser`). `LooserRefs` shows once that the
references survive any such change if the datapath's fields go with it. On it
rest, from below, update lemmas about one record (`DetachFacts`, `CloseFacts`),
the lemmas that a close of a set of channels settles every reference
(`ClosedRefs`, from which `PlainCloseSettles`, `CascadeCloseSettles`,
`DetachThenCloseSettles`), and one lemma per action or kind of action: `Quiet`
steps that no reference sees, attaching steps (`AttachRefs`), closing steps, and
the three steps of a deletion. `StepDone` and `NextInv` combine them. Every lemma
also gives `Forward`, what a step may do to a closed channel, from which
`ClosedChannelsStayClosed` follows. `EchoFindsChannel` needs that a non-empty set
of list positions has a least one (`LeastIndex`), since the code takes the first
entry that matches.

`MemPoolProofs` (from `MemPoolAssumption`): `PoolTypeCorrect`,
`PoolCountsExact`, `PoolWithinLimits`, `PoolHeapAccounted` and
`PoolHeapOnlyWhenFull`. The four invariants are inductive together and not one
by one: that a counter does not go below 0 (`TypeOK`) needs that it is exact,
and that it stays exact needs the limits a refill respects. The lemmas are
about cardinalities (`CardAdd`, `CardUnion`, `MoveOne`: a block that moves
changes two lists by one) and about a refill (`ChunkBound`, `RefillCounts`).
`EmptyMeansFull` gives the action property: a thread that finds nothing after a
refill without a failing calloc has seen all static blocks allocated.

`XtnProofs` (from `XtnAssumption`): `XtnTypeCorrect`, `XtnBlockHasOneUser`,
`XtnAnswersOwnRecord` and `XtnStaleTimersStopped`. `Inv` adds `NewIsBlank` (a
transaction that is not recorded has no timer and no restart),
`TimersNumbered` (no timer beyond the last restart), `BlocksFilled`,
`JobsRecorded` (threads work on recorded transactions) and `HandlerAwaited`: while
the handler uses a record that is out of the table, the RCU callback of that
record waits for the handler. A delete by reference may take out the record of
another transaction than the one it compared, so `TakeOutStep` is about any
record, and both invariants are proved of a process that has not come to `crash`.
`StaleTimersStopped` needs no such condition: it says of a timer whose stop was
neither queued nor refused that its record is in use and names it, whichever half
of a restart failed. The last one is why the timer may end a
transaction under the handler and still not free its block. Most actions
neither record, free nor restart: `SoftInv` shows once that such a step
(`SoftStep`) preserves `Inv`, and the lemma of each of these actions shows that
it is one.

`SendPathProofs` (from `SendPathAssumption`): `TypeCorrect`, `NoDoubleRelease`,
`EveryMessageAccounted` and `ImplementsStream`, the refinement `Spec => StreamOK`.
`Inv` says where a message can be: `HandedOnce` (one thread, one position),
`HandOK` (what a thread has in hand is the last message it accepted, written up
to `off`, and on no list), `ListOK` (what waits is listed once and written up to
its `length_sent`, but for a head that is about to be taken off), `Somewhere`
(while the connection is open, what is not settled is in hand or waits) and
`InOrder` (what a thread handed over earlier is settled or further ahead). That
only the owner takes off the head and only senders append makes them inductive
together. Steps are grouped by what they do to a message (`HandStep`,
`HeadStep`, `Quiet`), and the refinement has one lemma per step of `Stream`.

`McHashProofs` (from `McHashAssumption`): `TypeCorrect`, and `SlotsConservedAlive`
and `RefResolvesAlive`, which hold until a fault whoever deletes. `SlotInv` says
who owns a slot: an append (`AppendOK`), a node (`Resolves`, `Named`), a delete
(`DeleteOK`), and that these and the free queue are all (`Partition`).

`McHashDeleteProofs` speaks of tables with any number of buckets, with any number
of threads that delete by reference, by node and insert. Two hypotheses are
left, each named where a theorem uses it:

* `NoWrap`, fewer nodes than magic numbers. Across the wrap of the `uint32_t`
  `magic_no` a stale reference may match (`mchash.h` 312). Only
  `StaleReferencesDead` needs it;
* a finite set of nodes, for `ScansComplete` and `LivingListsExact`, which count.

Without hypothesis are `NodeDeletesAlwaysSafe`, `HeldNeverFreed` and
`ListsAreRings`. The properties of slots, lists and scans end at the first
`fault`, as `mchash_race` shows that they must; a table is not repaired after it.
The argument goes from one to the next:

* magic numbers in use stay below the next one while there are nodes to append
  (`MagicInv`), so a slot's new owner has another number than a stale reference;
* while the process lives the key of a node is written before its append
  returns, the thread that links a node has the lock of its bucket until then,
  and a delete works under the lock of its node's bucket (`PlaceInv`). So a delete
  by node that finds its node in the slot finds it in the list, and a delete by
  reference that has unlinked one keeps every other out until `node_p` is cleared:
  that is `NodeDeletesSafe`. `SeenOK` and `RolesOK` say where the threads' pointers
  come from, and hold after a fault too (`Placed`);
* hence nobody takes out a node that is being linked, and a neighbour it is put
  next to is of the same bucket (`KeyInv`), so a list stays a ring through its
  head (`Ring`);
* a scan stays in a set of nodes that no link leads out of, all of them still
  kept by its grace period (`Walk`, `Shield`), and a slot shows nothing else
  (`ReadInv`): that is `HeldNotFreed`; a fault frees nothing in its own step and no
  step follows it;
* the nodes of the lists can be *ranked* (`Ordered`): ranks rise along every list
  and `Sees` says of every address a scan can stand on, also of a node that was
  taken out, that its link leads no further than the first node ranked above
  it. An insertion makes room in the ranks (`Shift`), a deletion leaves them. A
  scan has what it still must return ranked above its place (`ScanOK`; together
  `OrderInv`), which is `ScanComplete`; that a walk as long as the number of nodes
  finds them all (`ListHoldsAll`, by counting the nodes ranked up to each) is
  `ListsExact`.

`MsgReaderProofs` (from `MsgReaderAssumption`, for both byte orders and bodies of
any length): `TypeCorrect`, `StaysInStep` and `HandsIntact`. The invariant gives
every message the offset `off[m]` at which it begins and counts the bytes `r` the
reader has taken: the socket holds the stream from `r` on (`StreamInv`), and each
state of the reader is one place in it (`AtNew`, `AtHeader`, `AtStart`, `AtBody`,
`AtWait`, `AtComplete`, `AtDrain`), until it has missed. A length in the wrong
byte order only undoes what the places say of `r`, not the header that was read;
`AtStuck` is the place where it has left nothing to drain. What the buffer holds
(`BufInv`) is said of bodies that can be counted, that messages are handed over in
order (`HandInv`) of all. Messages may be of any number and length and be cut
anywhere.

`TimerProofs` (from `TimerAssumption`, no other hypothesis): `TypeCorrect`,
`NeverTooLate` and `ImplementsCountdown`, the refinement `Spec => TimersOK`, for
wheels of any sizes. `Fire(i)` is the tick in which an armed timer will be called
back, computed from its wheel, bucket, `time_left` and the wheels' positions.
Ending a tick, with its cascades, leaves `Fire` as it is, except that a node that
stays in the last bucket of wheel 0 goes into `held`. So it is enough to bound
`Fire` where a timer is put: never before `due`, and at most `LateOf` after it (0
for one-shot timers within wheel 1, `Size[2]` for periodic ones and for one-shot
timers of wheel 0, one turn of wheels 1 and 2 more for periodic timers of wheel
0). Most of the module is the arithmetic of positions (`Dist`, `AddsOn`,
`Shifted`): a digit of a number in a mixed base, and what adding to it does.

Where a proof needs induction on a natural number (the length of a walk along a
list), it is made through the least element of a set of naturals (`LeastOf`,
`AllNaturals`), from the library's fact that `<` is well founded on them.

Only model-checked: the liveness properties (`ClosedIsFreed`,
`SilentChannelClosed`, `Reclaimed`, `OwnerServed`, `RemoteStopEffective`,
`XtnEnds`, `WaitEnds`), since fairness and ENABLED are out of the prover's reach;
and the four refuted statements. Every safety invariant, action property and
refinement of the passing runs is proved, under the hypotheses named above.
Proved and not checked by a run: `AuxListed`, `HeapAccounted`, and the type
invariants of `Channel`, `Xtn` and `MemPool`.

## 5. Plan

Done: `Channel`, `McHash`, `SendPath` with `Stream`, `MsgReader`, `Timer` with
`Countdown`, `Xtn`, `MemPool`, and the proofs of the safety properties of each.
Left, in this order:

1. an abstract specification of the table (references and the nodes they name)
   that `McHash` implements until a fault, and that `Channel` could be stated over;
2. `TransportFsm`: registration, start, modification, stop and close of a
   listening endpoint (`trnsprt_fsm.c`, `trnsprt_api.c`, `trnsprt_init.c`);
3. DPRM: registration of switches and datapaths with its notifications.

## 6. Not modelled

* Message codecs (`messages/`), configuration tables (CRM, NSRM, TTP, views,
  name maps): sequential handling of records, without protocol state.
* The message queue (`queue.c`): no live caller.
* The management plane (`src/cminfra`) and its glue in `ofcli/`: another product
  in the same repository, and by far the largest part of its lines together with
  the vendored XML library in `src/ofcdriver/xml`. The modelled lines are a
  small share of the repository for this reason; they are the parts of the
  controller in which several threads share state.
* Socket and OpenSSL calls of the transports, epoll, start-up, logging, packet
  buffers: the models take the outcomes of these calls. UDP and virtio channels
  share a descriptor and have a handshake of their own.
* In the modelled parts: creation and deletion of timer containers and pools,
  statistics, the mmap pools, messages of the FSLX version, the transaction
  number (a counter without a lock, taken atomically in `Xtn`).
