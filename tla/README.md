# Kedis: specification and proofs

Kedis is a key-value server in Python: one asyncio event loop for the
connections, worker threads that run commands under one engine lock, an
append-only file and a snapshot on disk, and followers that are kept up to date
over a command stream. This directory holds TLA+ models of the parts in which
the order of steps decides whether the program is right, the TLC runs that check
them on small instances, and proofs of what holds for all instances.

Every definition is translated from the code; `PROJECT.json` ("map") names the
lines each one stands for.

## 1. The system

### Components, their state and their operations

| Component | Code | State | Operations |
|---|---|---|---|
| Connections | `server.py` `AsyncKedisSession.run`, `handle_connection` | intake buffer, one command at a time, `_active_clients` | read, parse, dispatch, reply within deadlines and budgets |
| Transactions | `server.py` `handle_watch` ... `handle_exec`; `commands.py` `execute_batch` | `in_transaction`, `tx_queue`, `tx_overflowed`, `tx_readonly`, `watched_keys` per session; `_versions` in the store | WATCH, UNWATCH, MULTI, queue, DISCARD, EXEC |
| Command layer | `commands.py` `CommandHandler` | the engine lock, the command table, channels | one command, a batch, a snapshot, housekeeping: each a turn under the lock |
| Store | `store.py` `KedisStore` | `_data`, `_expires`, `_lru_tracker`, `_versions` | strings, lists, sets, hashes, sorted sets, bitmaps, HyperLogLogs, streams; expiry, eviction, housekeeping |
| Persistence | `store.py`, `aof.py` | the append-only file, its buffer, `kedis.snapshot` | log a record, fsync (always, everysec in a background thread), COMPACT, SAVE, recover, repair |
| Leader side of replication | `server.py` `SyncBarrier`, `apply_in_order`, `enqueue_broadcast`, `drain_broadcast`, SYNC | `inflight`, `syncing`, `_waiters`, the write-order lock, `connected_replicas`, the followers' buffers | a write is applied, handed to the loop, buffered, answered, drained; a follower joins |
| Follower side | `server.py` `LeaderStream`, `init_replication_stream`, `read_transaction` | `server_role`, `replication_task`, the stream's buffer | connect, restore a baseline, apply commands and transactions |
| Streams and groups | `stream.py`, `store.py`, `commands.py` | entries, last identifier, groups, consumers, pending entries | XADD, XDEL, XTRIM, XRANGE, XGROUP, XREADGROUP, XACK, group records |
| Blocking reads | `server.py` `wait_for_stream_data` | `stream_waiters` | park, be woken, read again, time out |
| Publish and subscribe | `commands.py` | sockets per channel; pushes queued for the loop; the transports' buffers | SUBSCRIBE, PUBLISH, cut off a subscriber that does not read |
| Codecs | `parser.py`, `textcodec.py` | none | bytes to tokens, replies to bytes |
| Sorted sets, HyperLogLog | `skiplist.py`, `hyperloglog.py` | levels and spans; registers | insert, remove, range; add, count, merge |
| Client and tools | `main.py`, `ui.py`, `help_data.py`, `kesp_cli.py`, `network.py`, benchmarks, simulator, `settings.py` | none that the server sees | input and output |

### How they interact

A session reads a command on the loop. Transaction commands are handled there;
everything else goes to a worker thread, which takes the engine lock and calls
the store. A write passes the barrier first, and its thread holds the write-order
lock around "apply" and "schedule the buffering"; the loop then buffers it for
every follower, the session resumes, leaves the barrier, answers its client and
waits for the followers to read. SYNC closes the barrier, waits for the writes in
flight, takes the snapshot in a worker thread and registers the follower. The
store appends a record for every change it makes to the append-only file, under
the engine lock. REPLICAOF starts a task that changes the role of the node once
it is connected, replaces the keyspace on the loop, and gives the leader's
commands to worker threads. A blocked XREAD sleeps on a future in
`stream_waiters`, which whoever changed a stream resolves on the loop: a session
after its reply, EXEC after its block, the leader's stream after each thing it
applied. PUBLISH, in a worker thread, hands its pushes to the loop, which writes
them into the subscribers' transports, the same ones their replies go through.

### What is hard

* Loop, worker threads and peers interleave; the loop reads state (versions, the
  role) that threads change, and acts on it after an `await`.
* Cancelling a session does not stop its thread.
* Connections break, followers stop reading, drains time out.
* Crashes lose the end of the log; a snapshot and a log overlap.
* Expiry, eviction and reads change the store without a record in the log.
* Bytes arrive, or are found after a crash, up to any point of a frame.
* A write lands between a read that found nothing and the sleep that follows it.

"hazards" in `PROJECT.json` lists these at their lines, with the property that
would catch each going wrong, or why there is none yet.

### What makes each component correct

* Leader: a follower has exactly the changes up to some point, in order; an
  answered write is on its way to all followers; nobody waits for ever.
* Transactions: a block runs as a unit, whole or not at all, and not on stale
  reads.
* Store: the tracker follows the data; no deadline outlives its key.
* Persistence: a restart gives clients what they had.
* Durability: what `appendfsync always` answered survives a kill; a shutdown keeps
  all that was answered.
* Streams: an identifier never goes back; an entry is handed out once as new and
  is on one consumer's list until it is acknowledged; leader, follower and log
  agree on all of it.
* Follower: commands are applied in order, transactions whole, nothing behind bytes
  that are no frame, and no whole command is left waiting in the buffer.
* Blocking reads: no reader sleeps on something it could read; the set of futures
  holds no leftovers.
* Log file: what is read back is what was logged, wherever the file was cut.
* Sorted sets: a rank is a position, whatever heights the coins gave.
* Publish and subscribe: a listed subscriber hears every message, once and in
  order; what waits for it is bounded; no session waits for ever for its peer.

## 2. Modules

| Module | What it is |
|---|---|
| `Replication.tla` | The leader's side of replication, and REPLICAOF as it bears on the leader. |
| `ReplicatedHistory.tla` | What replication promises, with no mechanism. `Replication` implements it. |
| `ReplicationProofs.tla` | Proofs about `Replication`. |
| `Transactions.tla` | Sessions with WATCH, MULTI and EXEC against single commands. |
| `TransactionsProofs.tla` | Proofs about `Transactions`. |
| `Keyspace.tla` | The store's commands as operators on a state, the records they log, and recovery as a fold over a log. |
| `Persistence.tla` | A store over time: commands, clock, COMPACT, SAVE, crash, recovery. |
| `PersistenceProofs.tla` | Proofs about `Keyspace` and `Persistence`, and about `AofFraming`. |
| `AofSync.tla` | Where the records of the append-only file are: buffer, operating system, disk. |
| `Selection.tla` | The elements of a sequence that are in a set, as a fold. |
| `Streams.tla` | The commands on streams and consumer groups as operators: what they do, log and forward, and what recovery makes of a record. |
| `StreamGroups.tla` | A master's streams over time, next to what the log rebuilds and what a follower has. |
| `FoldTheorems.tla` | Induction over the steps of a fold or of a recursive function, for any operator; sums over finite sets. |
| `StreamsProofs.tla` | Proofs about the commands of `Streams`, and about `StreamGroups`: a follower agrees; COMPACT and restarts, cursors and pending entries. |
| `Framing.tla` | Where frames begin and end in bytes that are there in part; `parse_buffer`. |
| `FollowerStream.tla` | A follower: the leader's bytes, commands and transactions, every way the stream ends. |
| `BlockingReads.tla` | XREAD BLOCK and XREADGROUP BLOCK, and those who wake them. |
| `FollowerNode.tla` | `FollowerStream` and `BlockingReads` on one event loop. |
| `FollowerNodeProofs.tla` | Proofs about `BlockingReads` and `FollowerStream`, and that a following node implements both. |
| `AofFraming.tla` | The bytes of the append-only file, and its repair. |
| `SkipList.tla` | A sorted set: lanes, pointers and spans. |
| `SkipListProofs.tla` | Proofs about `SkipList`. |
| `PubSub.tla` | SUBSCRIBE and PUBLISH, and the connections they are about. |
| `ServerProofs.tla` | Proofs about `AofSync` and `PubSub`. |
| `MC*.tla`, `MC*.cfg` | Instances for TLC. `MCPersistence` and `MCServer` run parts that share no state side by side: a behaviour is about one of them, so that their states add up. |

### Replication

Changes are numbered in the order in which the engine lock applies them, so that
a follower holds a baseline (all changes up to a number) and a stream of numbers.
One action is what the code does between two points at which something else can
run: from `await` to `await` on the loop (`Request`, `Resume`, `Register`, ...),
between lock operations in a thread (`TakeOrder`, `Apply`, `HandOff`), or one
scheduled callback (`Broadcast`, in FIFO order). `pc[s]` says where a session is:
`submitted`, `ordered`, `applied` and `handed` are inside `apply_in_order`.
`parked` is `SyncBarrier._waiters`; `_wake` resolves all of them and each tests
its condition again (`Reenter`, `SyncRecheck`).

Left out: bytes and framing; replies that are refused; XREADGROUP's passes are
writes like others; EXPIRE, which the code does not treat as a write. A SYNC is
sent once per connection, which is what followers of this code do.

### Transactions

A command of a client is one turn of the engine lock, but a write changes `_data`
and `_versions` in two steps (`Begin`, `End`) which WATCH and EXEC, on the loop,
may fall between. SET changes the data first, DEL the version first. `log` holds
the turn in which each record was written. `relied`, `unanswered`, `answered`,
`wiped` and `lost` record what clients know; the program has no such state.

### Keyspace and Persistence

A command is an operator from a state of the store to a state and the records it
logged; `Persistence` makes one action of each command, because commands run one
at a time under the engine lock. Strings and lists stand for the value types: a
SET replaces, a push adds, and the two refuse each other. A push has one item.
`Redo` is one record of `recover_from_aof`, which differs from the command: it
looks at no deadline, at no type for a push, and leaves the deadline of a list it
pops empty. A crash leaves a prefix of the log: what was not written is lost, and
a torn last record is cut off. `loose` and `spoiled` record for which keys the log
is known not to say what memory says.

### AofSync

`Persistence` takes the log as a sequence that a crash cuts off; `AofSync` says
where it is cut. The file object `self.aof_file` has all changes, its buffer
included (`changes`); for it and for every file that COMPACT has written, the model
keeps how many the operating system has (`flushed`) and how many are on the disk
(`synced`). Three threads use the file
object: the holder of the engine lock (`busy` is where it is: a write flushes and
fsyncs in steps of its own, COMPACT replaces the name, closes, opens), the
background thread (`ThreadTest` to `ThreadFsync`, each reads `self.aof_file` anew),
and the event loop in a shutdown (`Signal` to `StopClose`), which takes no lock.
The buffer may write out early when it is full. A shutdown whose flush meets a
file that COMPACT has just closed ends with ValueError in the signal handler, and
the server goes on. `WriteBack` is the operating system. Errors of the disk and
the Windows branch of COMPACT are left out. `answered` and `promised` record what
clients were told; the program has no such state.

### Streams and StreamGroups

A command is an operator from the streams of a store to the streams after it, the
records it logs and the commands a master forwards for it. Groups change in one
place, `ApplyRecord`, which live commands, recovery and followers share: a command
first works out its records (`Attempt`, `Moved`, `NewConsumer`, ...) and then
commits them. Group commands are never forwarded; their records are, as XGAPPLY.
XADD is forwarded with the identifier it gave out and with its options; it is
logged without them, with an XTRIM after it if the stream was trimmed. `Redo` is
the part of `recover_from_aof` about streams, where an XADD whose identifier is not
above the top is skipped.

`StreamGroups` runs these commands one at a time, with the clock of the master,
which may go back, and one of the follower. `recovered` is the fold of `Redo` over
all that was logged so far (over the rewritten log after a COMPACT), `follower`
the fold of `Execute` over all that was forwarded; both are kept as streams, not as
sequences, because that is all the properties ask of them. That the log and the
command stream keep the order is what `AofSync` and `Replication` are about. An
entry is its identifier: fields are carried along and looked at by nobody. `Top`
stands for 2^64 - 1. `start`, `given` and `owed` record what clients did and were
given; the program has no such state.

Left out: commands that only read; the wording of refusals; expiry and eviction of
a stream, which `Keyspace` has for keys in general. An XREADGROUP of several streams
is one `ReadNew` or `ReadHistory` for each, all in one turn of the engine lock.

### Framing, FollowerStream and FollowerNode

The bytes of a leader are a script of frames, and a byte is its position. A frame
is the places where its parts end: a header line, whose end nobody knows before it
is there; a string, whose end was announced; or the byte at which what was sent is
seen to be no frame. `ParseBuffer` is `CommandParser.parse_buffer` on that: whole
command, nothing but blanks, incomplete with the hint for how many bytes are
missing, or malformed. `Framed`, `Line` and `Garbled` lay out the frames of a script;
`Script` says what any script is: frames one behind the other, each with its parts in
order, and a baseline only where one is waited for.

`FollowerStream` has `LeaderStream` (`got`, `pos`, `need`: buffer and hint),
`read_transaction` (`batch`, `left`) and `init_replication_stream` (`stage`). A
chunk has any length (`Receive`); the leader closes, resets or stalls at any byte;
REPLICAOF stops the stream in any stage, and a command that is in a worker thread
then is applied all the same (`thread`). `Drop` is an end of the stream after which
the node stays a replica, `Crash` one after which it makes itself a master.
Left out: how long a deadline is, and that a frame may be dropped for coming too
slowly although bytes come (`TimedOut` may happen at any time anyhow); and the
`except` branches around a command (`server.py:675`, `689`), which would log it and
notify nobody: `_run_locked` turns every exception of a command into its reply
(`commands.py:208-211`), so that a command that fails counts as applied here too.

`FollowerNode` puts a node's readers and writers next to it: what the leader's
commands add to the stream is what the readers wait for (`adds`).

### BlockingReads

`phase[r]` follows one read through `wait_for_stream_data`: "registered" before a pass
in a worker thread, "found" or "empty" when its result is on the way back to the
loop, "parked" asleep, "replying"; each await is a point between two actions.
`wake[r]` is the state of its future and `waiters` is `stream_waiters`. A
future is made and registered before each pass, which is what a write between the
pass and the sleep needs. `Notify` resolves every future. A client that leaves is seen
at a poll (`gone`), unless it had sent bytes behind the read, which nobody has read
(`goneUnread`): then it is never seen. `silent` records that a change was made by
one who can notify nobody any more. Left out: a stream that becomes another type,
several streams in one read.

### AofFraming and SkipList

`AofFraming` is the one module about single bytes, because what a torn value looks
like is the point: `Scan` is `scan` with its legacy lines and limits, lengths are
written digit by digit (`Numeral`) and read as `_count` reads them, and the file
is cut anywhere by a kill, damaged in one byte, repaired and appended to. Values
may hold what looks like headers and newlines. Left out: the spaces in a legacy
line, UTF-8, the copy that is made of a corrupt file.

`SkipList` has the nodes, pointers and spans that the code has, for every height a
coin can give; `Splice`, `RemoveMember` and `GetRange` walk the lanes as `insert`,
`remove` and `get_range` do. The three loops are one operator, `Descend`: down the
lanes, and along each as long as the next node is `ahead`, which is what comes before
a member for `insert` and `remove` (`Below`), and what is at a lower rank for
`get_range`. No command removes a member; ZADD with a new score
does, and inserts it again.

### PubSub

A worker thread decides who is reached (`Reached`), cut off (`Cutoffs`) or pruned
while it looks at transports that belong to the loop, and hands the loop what is
to be done (`calls`, in the order of `call_soon_threadsafe`), its own result last.
The loop takes one call at a time (`RunCall`). `unsent` is what was written to a
transport and not yet sent, messages and replies together, and `HighWater` the
amount from which on `drain` waits. A transport that is closed sends what it has
("closing") before it is lost; one that is aborted or reset loses it. A session
whose connection is being closed still runs the commands it had received.
`received`, `since`, `counted` and `latest` are history.

Left out: channels beyond one, which share nothing but the buffers; PUBLISHes inside
one transaction, which run in one turn of a thread, so that as many more messages
may pass the test of the buffer; plain sockets, which only tests pass in; the count
of clients and the refusal at MAX_CLIENTS.

## 3. Runs

| Run | Question | Bounds | Result |
|---|---|---|---|
| `master` | Types and order through changes of role; exact streams, buffered answers, no silent drop while master | 2 sessions, 2 followers, 2 changes, 1 demotion | holds |
| `master_live` | Do SYNCs and writes end; is `ReplicatedHistory` implemented | 1 session, 2 followers, 2 changes | holds |
| `role_change` | Is an answered write buffered also when the role changes | 2 sessions, 1 follower, 3 changes, 1 demotion | violated |
| `transactions` | Blocks are contiguous and whole; told changes abort them | 2 clients, 1 key, queue of 2, 3 turns of the lock | holds |
| `transactions_stale` | Does no block start on stale reads | as above, no time to live | violated |
| `persistence` | Tracker, log, orphaned deadlines | 2 keys, LRU limit 1, 3 records, lists of 2, clock to 2, 1 crash | holds |
| | Does the log read back as what was logged | 3 records with bytes like headers, 3 old files, 22 bytes, 2 kills, 1 damaged byte | holds |
| | Are ranges and lanes exact | 3 members, 2 scores, 3 lanes, any number of ZADDs | holds |
| `persistence_restart` | Does a restart give clients what they had | 2 keys, 2 records, 1 crash | violated |
| `server` | Does `always` survive a kill, a shutdown keep all, everysec reach the disk while its thread lives | 2 changes, 1 COMPACT, 2 signals | holds |
| | Do subscribers hear everything in order; is an answered PUBLISH written; are buffers bounded; do replies end | 2 connections, 4 messages, limit 1, high water 0 | holds |
| `aof_everysec` | Does everysec bring every change to the disk | 2 changes, 1 COMPACT, no signal | violated |
| `streams` | Do log and follower agree with the master; identifiers, cursors, pending entries | 1 stream, 1 group, 2 consumers, identifiers 0-0 to 1-1, 2 entries, 2 deliveries of each | holds |
| `follower_node` | Are commands applied in order and transactions whole, nothing kept waiting; are sleepers woken, futures exact, reads ended | 7 scripts of up to 6 frames cut anywhere; 1 reader, 1 writer and 1 entry beside the shortest of them | holds |
| `write_wakes` | Does every write wake the readers | 1 reader, 1 writer, 2 entries | violated |

Why the bounds are enough to be interesting. Two sessions can overtake each other
and hold the barrier together; two followers make one late while another is not,
and one join while the other waits; two changes are one in the baseline or the
stream and one in flight, and a demotion falls between any two steps of them. A
queue of two can overflow and can be interleaved; three turns are a read under
WATCH, a write of the other client and the block. With two keys and a limit of one
every second write evicts; three records hold a value, its deadline and its
removal; a clock of two passes both tests of a deadline (`>=` on access, `>` in
the sweep). One crash is followed by commands on the recovered store. The file of
22 bytes holds two of the records, behind an old line or not, and is cut twice;
the repair of a repaired file is among its states. Three members on three lanes
put a node before, between and behind others on every lane, and re-scoring moves
each. Two changes and one COMPACT put a record before, in and after the swap of
the file; the second signal is the one after a shutdown that failed. Four messages
from two publishers fill a buffer of one to its bound and one beyond it; each
connection is publisher and subscriber, so that pushes and replies meet in one
transport. Two entries let a COUNT of one leave one behind, and a trim remove one;
with `Top` = 1 the sequence part, the clock and the whole identifier all reach
their end within those two; two deliveries are a first one and one to somebody
else, or again. The scripts of `follower_node` are a good stream with blanks and a
transaction, one each that is nested, announced wrongly, too large, broken and
without a baseline, and a short one during which clients of the node are at work
(`Watched`): readers do not care for the bytes of a script. Symmetry is used over
sessions, followers, keys, values and consumers, in runs without liveness properties only.

Deadlock is checked in `streams` and `write_wakes` only: elsewhere sessions may all
have ended, counters reach their bounds, a stream is over, and a server whose
recovery fails does not start.

Each property of a passing run has a mutant in `PROJECT.json`: a plausible slip in
the code it is about, with which TLC finds it violated.

### Fairness

`FairMasterSpec` assumes that the loop runs callbacks and tasks that are ready,
that threads are scheduled (weak fairness), that a drain ends, which
`drain_within_deadline` enforces with a timeout, and strong fairness of
`TakeOrder`: the write-order lock is held for one write at a time and released
after it, and a thread that asks for it again and again gets it. Nothing is
assumed of clients, of peers or of cancellation. The liveness run keeps the role
of the node fixed; the barrier does not depend on it.

`AofSync!Spec` assumes weak fairness of a command that holds the engine lock, of
the background thread (it sleeps a second and goes on), of a shutdown under way and
of the operating system's write-back, which Linux does after some seconds. Nobody
has to send a command, and nobody has to change the policy. With it `aof_everysec`
shows that a change can be where no operating system helps, in the buffer of the
program. `MCServer` has the same steps without fairness of the write-back, so that
`SyncedWhileAlive` holds by the fsyncs of the program alone; its mutant is a
background thread that flushes and does not fsync. It excepts a server that has
stopped and, under `always`, the file of a COMPACT, which nobody fsyncs before the
next record.

`FairNodeSpec` (and `FairClientsSpec` for a node without a leader) assumes that the
loop runs what is ready, that worker threads end, that a sleeping read polls every
`_BLOCK_POLL`, that a reply is sent or given up on by its deadline, and that a
leader that sends nothing more runs into the stream's deadline where there is one.
A client need not come, go or write, and a leader need not send.

`PubSubSpec`, in `MCServer`, assumes that the loop takes its calls and that a drain
ends by its deadline. A peer need not read, and a session need not end: once its
run is over it waits for its transport to be lost, for which there is no deadline.

### Findings

* `role_change`: `apply_in_order` reads `server_role` after the write was applied.
  If the handshake with a new leader falls in between, the client gets its
  success and the node's followers, still connected, never get the write.
* `transactions_stale`: the check of EXEC and the block are two steps, with the
  barrier and the engine lock between them.
* `aof_everysec`: COMPACT closes the file between the background thread's test and
  its flush, or between that and `fileno`; ValueError ends the thread, and what is
  written later stays in the buffer until more writes push it out. The trace ends
  with an answered change that no disk ever gets.
* `write_wakes`: a session notifies the readers after it has sent its reply; if the
  reply cannot be sent the session ends there, and a blocked read sleeps on.
* `persistence_restart`: recovery replays the whole log over the snapshot, so
  after SAVE every push is applied twice.

### Differences met while modelling that no run shows yet

* Replay of a push on a key whose string had expired by a read fails with
  AttributeError, and the server does not start (`store.py:690-702`).
* COMPACT writes a key that is due and not yet evicted without its deadline
  (`store.py:939-941`), so it comes back for good.
* Reads move keys in the tracker and are not logged, so a replay at the limit
  evicts other keys than the server did.
* FLUSHALL clears the versions; expiry and eviction do not change them
  (`docs/ttl.md:38` says expiry aborts an EXEC).
* A follower whose connection is refused or reset, or whose leader closes before
  the baseline, makes itself a master (`server.py:708-710`; `docs/limits.md:90`,
  about leaders that misbehave, says it never does). `FollowerStream` has it (`Crash`).
* EXPIRE is not forwarded and is accepted by read-only replicas; nor are the DEL
  records of eviction and housekeeping forwarded.
* The compacted file is not fsynced before the swap (`store.py:952`): a power
  failure, unlike a kill, can lose records that `always` had brought to the disk
  (`docs/persistence.md:23` says it "guarantees zero data loss in a crash").
* After SAVE, entries of a stream can be lost as pushes are doubled: XADD, XTRIM
  MAXLEN 0, XADD, SAVE and a restart replay the XTRIM over the snapshot and then
  refuse the XADD, because the top identifier is not below it (`store.py:813-852`).
* EXPIRE of a stream, like any EXPIRE, is not forwarded: when the stream expires on
  the master and is created anew, the follower still has the old one and refuses
  identifiers that are not above its top.
* A shutdown that fails because COMPACT had just closed the file leaves
  `_shutdown_flag` set: the server goes on without its background thread.
* A command of a leader that is in a worker thread when REPLICAOF stops the stream
  is applied all the same (`server.py:688`): after the baseline of the next leader
  was restored, whose copy this node then is not, or after the promotion, and then
  followers of this node that have joined do not get it. No property speaks of it:
  nothing is said about such a command, and `ExactStream` ends with the first
  demotion.
* A baseline (`server.py:652`) and a command of a leader's stream that was stopped
  while it was in its thread (`server.py:688`) change streams and notify no reader;
  `Served` and `NoLostWakeup` except them by name (`silent`), with the lost reply of
  `write_wakes`.
* A client that sent bytes behind a blocked read and then left is not noticed
  before the read ends, as `at_eof` is false with bytes unread (`server.py:391`;
  `docs/streams.md:47` says it is cleaned up).
* A blocked XREADGROUP that began on a master goes on changing the group after the
  node became a replica.
* A legacy line whose tail was cut off is read as a whole command, and the next
  record is appended to it without a newline (`aof.py:83-93`); `LogReadsBack` and
  `TornTailsAreCut` except it by name (`glued`).
* COMPACT writes scores with six digits (`skiplist.py:218`, `store.py:901-903`):
  after a restart a score may be another number.
* ZRANGE with a stop below the first member's position returns the first member
  (`skiplist.py:184-185`); `Normal` has it.
* A crash in the middle of a block leaves its first records in the log
  (`commands.py:170`), which has no frame for a block.
* A subscriber that is cut off is closed, not aborted (`commands.py:1148`): as long
  as it reads nothing, its transport keeps what it holds and its session does not
  end (`docs/limits.md:102` says it is disconnected). The same holds of a session
  that ends with output unread (`server.py:1137`).
* A message that is published right after a SUBSCRIBE was run can arrive before the
  subscriber's confirmation.

## 4. Proofs

`ReplicationProofs.tla`, checked by TLAPS for all sets of sessions and
connections and all bounds, under `ReplicationAssumption` (finite sessions,
disjoint from connections, `NoOne` not among them):

* `TypeCorrect`: `Spec => []TypeOK`. That `inflight` stays a natural number is the
  point: it needs `BarrierInv`, that `inflight` is the number of sessions whose
  `pc` is between "submitted" and "handed", which a cancelled session keeps until
  its thread has ended.
* `FollowersHearInOrderOnce`: `Spec => []InOrderOnce`, across all role changes.
  The inductive invariant `IInv` says who holds the write-order lock (`OrderInv`);
  that the changes held by sessions and scheduled on the loop are numbered, are
  distinct, are sorted in the queue and are not above `applied` (`ChangeInv`); and
  that every change still in the queue or in the thread that holds the lock is
  above all a follower was sent, while a follower that is not registered yet was
  sent nothing and is only snapshotted when nothing is in flight (`FeedInv`). The
  invariant is preserved because a snapshot is taken only with `inflight = 0`, and
  then there is nothing in the queue that it contains.
* `FollowersMissNothing`: `Spec => []ExactStream`. `ExactInv` holds until the first
  demotion: the node follows nobody, the changes in the queue are consecutive, at
  most the last one is still in its thread, a snapshot that was taken stays the whole
  keyspace until its follower is registered, and each connected follower has exactly
  the changes that left the queue (`Given`).
* `AnsweredIsBuffered`: `Spec => []ReplyWhileMaster`. A change of a session that has
  left the barrier is neither in the queue nor in a thread, so it is among `Given`.
* `NobodyIsDroppedSilently`: `Spec => []NoSilentDrop`.
* `LeaderImplementsHistory`: `MasterSpec => History!Spec`, the safety part of
  `ReplicatedHistory`. Each step of the leader is a step of it or a stutter: the
  change counts when it left the thread, and a follower joins when it is registered.

`TransactionsProofs.tla`, for all sets of clients and keys and all limits, under
`TransactionsAssumption`:

* `TransactionsTypeCorrect`: `Spec => []TypeOK`.
* `BlocksAreWhole`: `Spec => []WholeBlocks`. The invariant `WholeInv` says that a
  client that lost a command is in `overflowed` or in `refused` until the queue is
  reset, and that EXEC lets neither through, whatever the role is by then.
* `BlocksStandTogether`: `Spec => []BlocksContiguous`. `EngineInv` and `LogInv`:
  turns in the log never decrease and none is above the current one, and only the
  holder of the engine lock appends, with its own turn.
* `ToldChangesAbort`: `Spec => AnsweredChangeAborts`. `LockInv`: if a client has
  been told of a change to a key, then the version is above the one the watch
  remembers. The two halves of a change can be seen apart, so the invariant says
  for each half-done write which half is there: DEL raises the version before
  anyone can rely on the key being gone, and SET answers only after it has raised
  it. Versions only grow until a FLUSHALL, which is why that is the exception.

`ServerProofs.tla`, about `AofSync`, for all numbers of changes, COMPACTs and signals:

* `AofSyncTypeCorrect`: `Spec => []TypeOK`.
* `AlwaysIsKept` and `ShutdownIsClean`: `Spec => []AlwaysSurvivesKill` and
  `Spec => []ShutdownKeepsAll`. The invariant `FileInv` is about which file has the
  name: while COMPACT is between the swap and the opening of the new file, another
  one than `self.aof_file`, and complete; at all other times `self.aof_file`
  itself, which holds every change when an always write has been flushed, when it
  is about to be answered, and when the file is closed. So whoever flushes or closes
  the file in between can only add to it, and a flush leaves the file with the name
  complete in every case.

`FoldTheorems.tla` is what the next ones rest on. A log is applied by a fold over a
sequence of any length; `FoldSteps` turns the fold into the sequence of its
intermediate results, and `SetInduction`, which comes from the least element of a
set of natural numbers, replaces the library's induction theorems (their parameter
is an operator, which no prover here can instantiate). The operator that is folded
is a constant of the module, so that an INSTANCE gives the theorems for
`ApplyRecord`, `Redo` and `Execute`. The community modules sum over a set in an order
nobody knows; `SumOfMore` says that whichever element comes last, the sum is that of
the others and of it.

`StreamsProofs.tla`, for every `Top` above zero and all keys, groups, consumers and
clocks, under `StreamsAssumption` and `StreamGroupsAssumption`. About one command:

* `NewIdsAreLater`: what `NextId` gives out is in range and above the top
  identifier.
* `ForwardedAddAgrees`: a follower with the same stream comes to the same stream,
  whatever its clock shows. It rests on `NewIdsAreLater`: an identifier that is
  above the top is accepted as it is.
* `LoggedAddAgrees`: recovery comes to the same stream from what an XADD logs. The
  point is `TrimIsToLength`: to trim to the length that is left removes what a trim
  to an identifier removed.
* `RecordsKeepEntries`: no group record touches entries, top identifier or counter
  of any stream that exists.

About all of them, from the invariant `StreamsInv` (the streams are of their type;
entries are sorted, none is 0-0 and none is above the top; a pending entry has a
consumer that exists and was heard of no earlier than it was given the entry; the
follower is where the master is):

* `FollowersAgree`: `Spec => []FollowerAgrees`. The records of an XREADGROUP, a fold
  on the master, are commands for the follower, another fold: both are the same
  sequence of results.
* `EntriesStaySorted`: `Spec => []IdsSorted`, and `IdsOnlyGrow`: `Spec => IdsGrow`.

And about COMPACT, restarts and what clients know, with the same constants:

* `CompactedLogRebuilds`: the records that COMPACT writes rebuild the streams they
  were written from, for any number of streams, entries, groups, consumers and
  pending entries. The proof says what the streams are after each record: the
  entries come back up to the n-th, then the top identifier and the counter, which
  entries that were removed had moved; then group after group, its consumers, and
  its pending entries by age. A pending record may only raise the times of its
  consumer, and would raise them above what was written if the entry was newer:
  that is why `StreamsInv` speaks of times.
* `LogAlwaysRebuilds`: `Spec => []LogRebuilds`. Between two COMPACTs a command's
  records bring recovery from the streams before the command to those after it.
* `CursorsAreExact`: `Spec => []CursorExact`, and `PendingStays`:
  `Spec => []PendingUntilAcked`, from `ClientsInv`. For each key and group, the
  owners in the list of pending entries are those that clients know of, and
  `CursorFits`: besides `CursorExact`, an entry that is added later will be behind
  the cursor if it is behind the place where clients set it, and nothing above the top
  was handed out. The latter two are what an XADD needs, and what a cursor that was
  set beyond the top identifier would break otherwise.

`ServerProofs.tla`, about `PubSub`, for all sets of connections, limits and numbers of messages,
under `PubSubAssumption` (finitely many connections; a transport that a drain waits
for is within the limit, as 64 KiB are below 32 MiB). The loop's queue of calls has
a structure, `QueueInv`: behind every call stands the result of the command that
made it (`Followed`), each command at work has one result in the queue
(`OneResult`), and between two writes to the same subscriber there is a result
(`Apart`). So a subscriber has no more writes waiting than there are commands at
work (`FewWrites`).

* `SubscribersAreBounded`: `PubSubSpec => []BufferBounded`. `BoundInv` counts what
  is in the transport together with the writes in the queue; a publisher hands a
  message over only if the transport was within the limit, and then the count is
  bounded by `FewWrites`, whatever the earlier publishers saw.
* `CountedAreWritten`: `PubSubSpec => []AnsweredIsWritten`. `AnswerInv`: for each
  subscriber that was counted the message is written, or the transport is lost, or
  the write is in the queue ahead of the result (`Ahead`).
* `SubscribersMissNothing`: `PubSubSpec => []PushesGapless`. `GapInv` is about all
  that was sent to a connection: what it read, what its transport holds and what is
  in the queue. It always rises; it is the whole run of messages since the
  subscription as long as the subscriber is listed and no close of it is in the
  queue; and who is no longer listed is closed or about to be, so that nobody is
  pruned from the channel and goes on listening.

`PersistenceProofs.tla`, for every finite set of keys, all values, every LRU limit above
zero, every clock and every length of the log, under `KeyspaceAssumption` and
`PersistenceAssumption`, from one inductive invariant, `PersistenceInv`:

* `StoreOK`: the tracker is a sequence of keys without repetition, exactly those that
  have data, within the limit; a list is never empty. It is what `TouchWrite` needs to
  know to evict the right keys (`TouchKeeps`), and a replay keeps it whatever the
  records are (`RolledKeeps`), so a restart from any prefix of a log has it again.
* `LogMirrors`: as long as there is no snapshot, what a replay of the log comes to
  mirrors the store. `LogRebuilds` alone is not inductive: it speaks of what clients see,
  and the next command may bring back what they do not. `Mirrors` speaks of every key:
  one that is not loose has the same value in both, and the same deadline unless the
  store's deadline is stuck without its key; a loose one is gone from the store, and the
  replay has it, if at all, with a deadline that is past, so that it stays invisible
  until a record settles it, or a push spoils it.

Each command is shown to be `Faithful`: from any store, and any replay that mirrors it,
its records bring the replay to one that mirrors the store after it. The lemmas say
what one record does to a replay that neither failed nor evicted (`RedoSet`, `RedoPush`,
`RedoPop`, `RedoTime`, `RolledDeletes`); a command that evicts logs its own record and
then the deletions: a replay that evicted nothing still has those keys, and the
deletions take them. `CompactedMirrors` is the same for COMPACT, which
rewrites the log: after the n-th value the replay holds the first n keys (`Halfway`),
after the deadlines it holds them all, but for the deadlines of keys that are due.

* `TrackerMatchesData`: `Spec => []Tracked`.
* `NoOrphansFromCommands`: `Spec => NoNewOrphans`.
* `LogRebuildsStore`: `Spec => []LogRebuilds`.

And about `AofFraming`, for every set of bytes, of old files and of records, whatever
their lengths, under `AofFramingAssumption`: old files may be torn but are not
malformed, a record has at least one token, and the line of a length is not longer
than MAX_HEADER_LINE (`Fits`; with the code's 32 that is a number of 31 digits). The
bounds on the file and on crashes are arbitrary.

* Reading is local. `Begins` says that a file is there of another up to some byte, and
  `UnitAgrees` that a unit (a record or a legacy line) then comes out of both alike, or
  ends behind the shorter file and is torn there, or is a legacy line whose newline is
  cut off. It goes up through headers, strings and the strings of a record
  (`HeaderAgrees`, `StringAgrees`, `StringsAgree`), each by the cases of the code's early
  returns.
* What was written is read: `CountOfNumeral` (what is written as a number is read as
  that number), `HeaderReads`, `StringReads` and `UnitReads`: an encoded record, whatever
  follows it, is read as that record and not as a legacy line.
* `Scan` is a recursive function on positions; `ScanExists` has it turn by turn,
  because each turn goes forward. So a file that reads to its end goes on with what is
  appended to it (`ScanGoesOn`, `AppendReads`), one that is cut back to its last good
  record reads as it did (`CutBack`, `RepairReads`), and a log that lost any number of its
  last bytes reads as the records that are all there and is torn at most (`LostReads`).

The inductive invariant, `FileInv`, says what the file is while the server runs: one
that read to its end, and behind it the bytes of the records logged since
(`LoggedOn`). `LogReadsBack` says only how it reads, from which nothing follows about the
file that a crash leaves.

* `FileInvariant`, `TornTailIsCut` and `LogIsReadBack`: `FileSpec => []FileInv`,
  `[]TornTailsAreCut` and `[]LogReadsBack`.

`FollowerNodeProofs.tla`, about `BlockingReads`, for all sets of readers and writers
and all bounds:

* `ReadsTyped`: `ReadsSpec => []ReadsTypeOK`.
* `WaitersAreExact`: `ReadsSpec => []WaitersExact`. It is inductive with the types:
  who resolves a future removes it, all at once in `Notify` (`NotifyAll`), and a
  read that ends by itself discards its own.
* `NoWakeupIsLost`: `ReadsSpec => []NoLostWakeup`. With something to read and an
  unresolved future, a read has a notification coming: whoever adds to the stream
  owes one from that step on (`OwedNoLost`), a notification leaves no unresolved
  future (`NotifiedNoLost`), and a pass finds nothing only if there is nothing
  (`OneReaderNoLost`), so that a read comes to sleep with its future already there.

About `FollowerStream`, for every set of scripts (`FollowerStreamAssumption`: frames
that follow each other) and every limit of a transaction:

* `CommandsAreAppliedInOrder`, `TransactionsAreWhole` and `HintsAreExact`:
  `FollowerSpec => []AppliedInOrder`, `[]TransactionsWhole` and
  `[]NeverSitsOnACommand`, all from one inductive invariant, `FollowerInv`. It says
  where in the script the follower is: `pos` is the end of the j-th frame (`ReadTo`),
  the first j frames have no byte that is no frame, and what has been applied together
  with what a thread was given is what they hold (`Holds`): their commands, in order,
  and their transactions, all of them well-formed and with all members. While a
  transaction is collected, what is applied ends before its header, and the batch is
  the frames behind it, as many, and as large, as `left` and `BatchSize` say
  (`Collecting`). A thread that outlives its stream is why `Holds` is said twice, with
  and without it.
* `HintInv`, the rest of it: for each number of bytes that is short of the hint,
  a parse would find neither a command nor anything malformed. It comes from
  `ParseFinds`, which says what `ParseBuffer` returns from the end of any frame with
  any number of bytes, and from `HintIs`: short of the hint, the part of the frame
  that was cut is still cut.

And about `FollowerNode`, for whatever a leader sends:

* `NodeImplementsFollower`: `NodeSpec => FollowerSpec`; so `NodeTyped`, the types of
  both, and `NodeAppliesTheStream`: the three properties above, whatever the node's
  clients do.
* `NodeImplementsReads`: `NodeSpec => ReadsSpec`. Each step of a node that follows a
  leader is a step of `BlockingReads` or a stutter of it (`NodeStep`).
* `NodeKeepsReaders`: so a node that follows a leader has exact futures and loses
  no wake-up, however the stream arrives and ends.

`SkipListProofs.tla`, for every set of members and of scores and any number of lanes,
under `SkipListAssumption`:

* `LanesAreExact`: `ZsetSpec => []LanesExact`, and `RangesAreExact`:
  `ZsetSpec => []RangesExact`. Neither property is inductive: `LanesExact` does not
  speak of lanes above the level, which an insertion takes up again, nor say that the
  nodes are those of the members and the head. The invariant, `ListInv`, is
  `IsList(zset)`: there are an order of the members by score and name (`Ordered`)
  and a height for each place in it (`Tall`) such that each node points on each of
  its lanes to the next place that is as high, or to the end, and spans the distance
  to it where the lane is in use (`Linked`); and the top lane in use is not empty
  (`TopUsed`).
* `DescendIs`: if what is ahead are the places up to the p-th, the walk down the lanes
  leaves each of them at its last node up to place p, with the number of that place as
  its rank. The walk ends since every step leads to a later place (`WalkExists`,
  `AlongExists`).
* `SpliceIs` and `RemoveIs`: an insertion behind place p gives the order and heights
  with one place more, and a removal those with one less (`Widened`, `Grown`). A lane
  that has its last node up to p at q and its next at m had the span m - q; the new
  node divides it, or makes it one longer if the lane passes above it (`LinkedSpliced`),
  and a removal puts the two together (`LinkedRemoved`).
* `SortedIs`: there is only one order by score and name, so that of the nodes is
  `Sorted`. `RangeIs`: the walk by spans ends at the node before the first one asked
  for, and the k-th step along the lowest lane has collected the k members behind it
  (`WalkIs`).

Only model-checked: all liveness (`SyncCompletes`, `WriteCompletes`,
`SyncedWhileAlive`, `RepliesEnd`, `Served`, `EndsInTime`, `EverythingApplied`, and of
`ImplementsHistory` the fairness of `ReplicatedHistory`): the prover has no rules for
fairness and ENABLED. No module declares a RECURSIVE operator: recovery is a fold, and
walks are recursive functions.

## 5. Plan

Done: the leader (`Replication`, `ReplicatedHistory`), transactions, the key space
and its persistence, the log file (`AofSync`, `AofFraming`), streams and groups,
blocking reads, the follower and a node that follows (`FollowerNode`), sorted sets,
publish and subscribe.

Every safety property that a passing run checks is proved. What is left is in the
next section.

### Not modelled

* The client and its tools, settings, help text: input and output, with no state
  that the server sees.
* Telemetry (slow log, STATS, loop latency): counters that nothing else reads.
* HyperLogLog: hashing and floating-point estimation; its merge is a pointwise
  maximum.
* The text in frames and the encoder of replies: pure functions on bytes, which the
  fuzz tests cover. Where frames end is modelled (`Framing`).
* Of connections: size limits and deadlines as numbers, the count of clients. The
  intake of a client has the framing of a leader's stream.
* Of the key space: sets, hashes, bitmaps. Their commands have the shape of the ones
  that are modelled: one operator on one key and one record in the log.
