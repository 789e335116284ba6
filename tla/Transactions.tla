----------------------------- MODULE Transactions -----------------------------
(***************************************************************************)
(* WATCH, MULTI, EXEC and DISCARD (AsyncKedisSession in server.py) against *)
(* commands of other clients, which worker threads run under the engine    *)
(* lock (CommandHandler in commands.py, KedisStore in store.py).           *)
(*                                                                         *)
(* A session handles one command at a time, on the event loop; WATCH and   *)
(* the check of EXEC read KedisStore._versions there, without the engine   *)
(* lock.  A write changes the data and the version of a key in two steps,  *)
(* in the order the store's method takes them.                             *)
(***************************************************************************)
EXTENDS Naturals, Sequences, FiniteSets

CONSTANTS
  Clients,      \* connected clients, one session each
  Transactors,  \* bound: the clients that use WATCH and MULTI
  Keys,
  Volatile,     \* the keys that have a time to live
  NoOne,        \* nobody: the engine lock is free
  MaxQueue,     \* MAX_MULTI_COMMANDS: what a MULTI block holds
  MaxTurns      \* bound: how often the engine lock is taken

ASSUME TransactionsAssumption ==
  /\ Transactors \subseteq Clients
  /\ Volatile \subseteq Keys
  /\ NoOne \notin Clients
  /\ MaxQueue \in Nat
  /\ MaxTurns \in Nat

\* A command and the keys it works on.
Commands ==
  [op : {"read", "set", "del"}, on : {{k} : k \in Keys}]
    \union {[op |-> "flushall", on |-> Keys]}

IsWrite(cmd) == cmd.op # "read"

VARIABLES
  role,        \* server_role
  pc,          \* where each session is: on the loop, or in a worker thread
  block,       \* sessions whose thread runs the block of an EXEC
  inTx,        \* sessions with in_transaction set
  queue,       \* tx_queue
  overflowed,  \* sessions with tx_overflowed set
  refused,     \* sessions with tx_readonly set
  watched,     \* watched_keys: the version of each key under WATCH
  rest,        \* the commands a session's thread has still to run
  engine,      \* who holds the engine lock
  present,     \* the keys in KedisStore._data
  versions,    \* KedisStore._versions, 0 for a key that is not in it
  turns,       \* how often the engine lock was taken
  turn,        \* the turn of the session that holds it, else 0
  log,         \* the append-only file: the turn each record was written in
  (*************************************************************************)
  (* What the clients know; the program has no such state.                 *)
  (*************************************************************************)
  lost,        \* sessions whose block lost a command the client sent
  relied,      \* keys read under WATCH, which the block may depend on
  unanswered,  \* changes of relied keys by clients that have no answer yet
  answered,    \* relied keys another client changed and has the answer for
  wiped        \* sessions with a WATCH that a FLUSHALL has come after

queueVars  == <<inTx, queue, overflowed, refused, lost>>
watchVars  == <<watched, relied, unanswered, answered, wiped>>
threadVars == <<pc, block, rest, engine, turns, turn>>
storeVars  == <<present, versions, log>>
vars == <<role, queueVars, watchVars, threadVars, storeVars>>

NoKeys == [k \in {} |-> 0]

Init ==
  /\ role = "master"
  /\ pc = [c \in Clients |-> "ready"]
  /\ block = {}
  /\ inTx = {}
  /\ queue = [c \in Clients |-> <<>>]
  /\ overflowed = {}
  /\ refused = {}
  /\ watched = [c \in Clients |-> NoKeys]
  /\ rest = [c \in Clients |-> <<>>]
  /\ engine = NoOne
  /\ present = {}
  /\ versions = [k \in Keys |-> 0]
  /\ turns = 0
  /\ turn = [c \in Clients |-> 0]
  /\ log = <<>>
  /\ lost = {}
  /\ relied = [c \in Clients |-> {}]
  /\ unanswered = [c \in Clients |-> {}]
  /\ answered = [c \in Clients |-> {}]
  /\ wiped = {}

-----------------------------------------------------------------------------
(***************************************************************************)
(* The session, on the event loop.                                         *)
(***************************************************************************)

\* _reset_queue
ResetQueue(c) ==
  /\ queue' = [queue EXCEPT ![c] = <<>>]
  /\ overflowed' = overflowed \ {c}
  /\ refused' = refused \ {c}
  /\ lost' = lost \ {c}

\* What the client relies on no longer matters.
Forget(c) ==
  /\ relied' = [relied EXCEPT ![c] = {}]
  /\ unanswered' = [unanswered EXCEPT ![c] = {}]
  /\ answered' = [answered EXCEPT ![c] = {}]
  /\ wiped' = wiped \ {c}

\* watched_keys.clear()
Unlock(c) == watched' = [watched EXCEPT ![c] = NoKeys]

\* handle_watch: note the version of the key; a read under an earlier WATCH
\* of the same key does not count any more.
Watch(c, k) ==
  /\ pc[c] = "ready"
  /\ c \notin inTx
  /\ watched' = [watched EXCEPT
       ![c] = [j \in DOMAIN @ \union {k} |-> IF j = k THEN versions[k] ELSE @[j]]]
  /\ relied' = [relied EXCEPT ![c] = @ \ {k}]
  /\ unanswered' = [unanswered EXCEPT ![c] = {p \in @ : p[1] # k}]
  /\ answered' = [answered EXCEPT ![c] = @ \ {k}]
  /\ UNCHANGED <<role, queueVars, wiped, threadVars, storeVars>>

\* handle_unwatch: runs at once, also inside a MULTI block.
Unwatch(c) ==
  /\ pc[c] = "ready"
  /\ Unlock(c)
  /\ Forget(c)
  /\ UNCHANGED <<role, queueVars, threadVars, storeVars>>

\* handle_multi
Multi(c) ==
  /\ pc[c] = "ready"
  /\ c \notin inTx
  /\ inTx' = inTx \union {c}
  /\ ResetQueue(c)
  /\ UNCHANGED <<role, watchVars, threadVars, storeVars>>

\* Mutant of Keep: past the limit the queue is dropped, and then fills again.
KeepAfterOverflow(c, cmd, big) ==
  IF Len(queue[c]) >= MaxQueue \/ big
  THEN /\ queue' = [queue EXCEPT ![c] = <<>>]
       /\ UNCHANGED overflowed
  ELSE /\ queue' = [queue EXCEPT ![c] = Append(@, cmd)]
       /\ UNCHANGED overflowed

\* The queue limits: a command too many, or one with too big arguments, drops
\* the queue and poisons the block.
Keep(c, cmd, big) ==
  IF c \in overflowed
  THEN UNCHANGED <<queue, overflowed>>
  ELSE IF Len(queue[c]) >= MaxQueue \/ big
  THEN /\ queue' = [queue EXCEPT ![c] = <<>>]
       /\ overflowed' = overflowed \union {c}
  ELSE /\ queue' = [queue EXCEPT ![c] = Append(@, cmd)]
       /\ UNCHANGED overflowed

\* queue_command.  A follower takes no write, in a block or out of it.
QueueCommand(c, cmd) ==
  /\ pc[c] = "ready"
  /\ c \in inTx
  /\ IF role = "replica" /\ IsWrite(cmd)
     THEN /\ refused' = refused \union {c}
          /\ UNCHANGED <<queue, overflowed>>
     ELSE /\ \E big \in BOOLEAN : Keep(c, cmd, big)
          /\ UNCHANGED refused
  /\ lost' = IF queue'[c] = Append(queue[c], cmd) THEN lost ELSE lost \union {c}
  /\ UNCHANGED <<role, inTx, watchVars, threadVars, storeVars>>

\* handle_discard
Discard(c) ==
  /\ pc[c] = "ready"
  /\ c \in inTx
  /\ inTx' = inTx \ {c}
  /\ ResetQueue(c)
  /\ Unlock(c)
  /\ Forget(c)
  /\ UNCHANGED <<role, threadVars, storeVars>>

\* handle_exec, the check of the watched keys.
Tripped(c) == \E k \in DOMAIN watched[c] : versions[k] # watched[c][k]

\* handle_exec, the reasons not to run the block.
Refusal(c) ==
  \/ c \in overflowed
  \/ c \in refused
  \/ role = "replica" /\ \E i \in DOMAIN queue[c] : IsWrite(queue[c][i])
  \/ Tripped(c)
  \/ queue[c] = <<>>

\* handle_exec when the block does not run.
ExecAborts(c) ==
  /\ pc[c] = "ready"
  /\ c \in inTx
  /\ Refusal(c)
  /\ inTx' = inTx \ {c}
  /\ ResetQueue(c)
  /\ Unlock(c)
  /\ Forget(c)
  /\ UNCHANGED <<role, threadVars, storeVars>>

\* handle_exec when it does: the watches are dropped, then the session waits
\* for the barrier and for a worker thread.
ExecRuns(c) ==
  /\ pc[c] = "ready"
  /\ c \in inTx
  /\ ~Refusal(c)
  /\ inTx' = inTx \ {c}
  /\ Unlock(c)
  /\ block' = block \union {c}
  /\ rest' = [rest EXCEPT ![c] = queue[c]]
  /\ pc' = [pc EXCEPT ![c] = "submitted"]
  /\ UNCHANGED <<role, queue, overflowed, refused, lost, relied, unanswered,
                 answered, wiped, engine, turns, turn, storeVars>>

\* run, a command outside MULTI: past the read-only firewall it is given to a
\* worker thread.
Submit(c, cmd) ==
  /\ pc[c] = "ready"
  /\ c \notin inTx
  /\ role = "master" \/ ~IsWrite(cmd)
  /\ rest' = [rest EXCEPT ![c] = <<cmd>>]
  /\ pc' = [pc EXCEPT ![c] = "submitted"]
  /\ UNCHANGED <<role, queueVars, watchVars, block, engine, turns, turn, storeVars>>

\* The answer is sent.  EXEC resets its queue; the ghosts of the clients that
\* rely on what this one changed take notice.
Answer(c) ==
  /\ pc[c] = "answering"
  /\ pc' = [pc EXCEPT ![c] = "ready"]
  /\ block' = block \ {c}
  /\ IF c \in block
     THEN ResetQueue(c)
     ELSE UNCHANGED <<queue, overflowed, refused, lost>>
  /\ LET gone == IF c \in block THEN {c} ELSE {}
         news(d) == {p[1] : p \in {q \in unanswered[d] : q[2] = c}}
     IN  /\ relied' = [d \in Clients |-> IF d \in gone THEN {} ELSE relied[d]]
         /\ unanswered' = [d \in Clients |->
              IF d \in gone THEN {} ELSE {p \in unanswered[d] : p[2] # c}]
         /\ answered' = [d \in Clients |->
              IF d \in gone THEN {} ELSE answered[d] \union news(d)]
         /\ wiped' = wiped \ gone
  /\ UNCHANGED <<role, inTx, watched, rest, engine, turns, turn, storeVars>>

\* The client leaves between two commands: its session is dropped.
Disconnect(c) ==
  /\ pc[c] = "ready"
  /\ inTx' = inTx \ {c}
  /\ ResetQueue(c)
  /\ Unlock(c)
  /\ Forget(c)
  /\ UNCHANGED <<role, threadVars, storeVars>>

-----------------------------------------------------------------------------
(***************************************************************************)
(* The worker thread of a session: execute_records, execute_batch.         *)
(***************************************************************************)

\* Mutant of TakeEngine: the block is run without the engine lock.
TakeEngineUnlocked(c) ==
  /\ pc[c] = "submitted"
  /\ turns < MaxTurns
  /\ engine' = c
  /\ turns' = turns + 1
  /\ turn' = [turn EXCEPT ![c] = turns + 1]
  /\ pc' = [pc EXCEPT ![c] = "running"]
  /\ UNCHANGED <<role, queueVars, watchVars, block, rest, storeVars>>

TakeEngine(c) ==
  /\ pc[c] = "submitted"
  /\ engine = NoOne
  /\ turns < MaxTurns
  /\ engine' = c
  /\ turns' = turns + 1
  /\ turn' = [turn EXCEPT ![c] = turns + 1]
  /\ pc' = [pc EXCEPT ![c] = "running"]
  /\ UNCHANGED <<role, queueVars, watchVars, block, rest, storeVars>>

\* The command does something to the data: a read, or a DEL of a key that is
\* not there, does not.
Effective(cmd) ==
  \/ cmd.op \in {"set", "flushall"}
  \/ cmd.op = "del" /\ cmd.on \subseteq present

\* A command without effect.  A read under WATCH is relied on from here.
Look(c) ==
  /\ pc[c] = "running"
  /\ rest[c] # <<>>
  /\ ~Effective(Head(rest[c]))
  /\ rest' = [rest EXCEPT ![c] = Tail(@)]
  /\ relied' = IF Head(rest[c]).op = "read" /\ c \notin block
               THEN [relied EXCEPT
                      ![c] = @ \union (Head(rest[c]).on \intersect DOMAIN watched[c])]
               ELSE relied
  /\ UNCHANGED <<role, queueVars, watched, unanswered, answered, wiped, pc,
                 block, engine, turns, turn, storeVars>>

\* The first half of a command with an effect: SET writes the data, DEL the
\* version, FLUSHALL empties the data.
Begin(c) ==
  /\ pc[c] = "running"
  /\ rest[c] # <<>>
  /\ LET cmd == Head(rest[c])
     IN  /\ Effective(cmd)
         /\ present' = CASE cmd.op = "set"      -> present \union cmd.on
                         [] cmd.op = "del"      -> present
                         [] cmd.op = "flushall" -> {}
         /\ versions' = [k \in Keys |->
              IF cmd.op = "del" /\ k \in cmd.on THEN versions[k] + 1 ELSE versions[k]]
  /\ log' = Append(log, turn[c])
  /\ pc' = [pc EXCEPT ![c] = "half"]
  /\ UNCHANGED <<role, queueVars, watchVars, block, rest, engine, turns, turn>>

\* Mutant of NewVersions: SET leaves the version alone.
NewVersionsNotSet(cmd) ==
  [k \in Keys |-> CASE cmd.op = "set"      -> versions[k]
                    [] cmd.op = "del"      -> versions[k]
                    [] cmd.op = "flushall" -> 0]

\* What the second half leaves in _versions: _touch_write bumps the version,
\* FLUSHALL clears all of them.
NewVersions(cmd) ==
  [k \in Keys |-> CASE cmd.op = "set"      -> IF k \in cmd.on THEN versions[k] + 1
                                              ELSE versions[k]
                    [] cmd.op = "del"      -> versions[k]
                    [] cmd.op = "flushall" -> 0]

\* The second half, after which other clients find the data changed.
End(c) ==
  /\ pc[c] = "half"
  /\ LET cmd == Head(rest[c])
     IN  /\ present' = IF cmd.op = "del" THEN present \ cmd.on ELSE present
         /\ versions' = NewVersions(cmd)
         /\ unanswered' = [d \in Clients |->
              IF d = c THEN unanswered[d]
              ELSE unanswered[d] \union ((cmd.on \intersect relied[d]) \X {c})]
         /\ wiped' = IF cmd.op = "flushall"
                     THEN wiped \union {d \in Clients : DOMAIN watched[d] # {}}
                     ELSE wiped
  /\ rest' = [rest EXCEPT ![c] = Tail(@)]
  /\ pc' = [pc EXCEPT ![c] = "running"]
  /\ UNCHANGED <<role, queueVars, watched, relied, answered, block, engine,
                 turns, turn, log>>

\* Nothing is left to run: the engine lock is released.
Release(c) ==
  /\ pc[c] = "running"
  /\ rest[c] = <<>>
  /\ engine' = NoOne
  /\ turn' = [turn EXCEPT ![c] = 0]
  /\ pc' = [pc EXCEPT ![c] = "answering"]
  /\ UNCHANGED <<role, queueVars, watchVars, block, rest, turns, storeVars>>

\* A key outlives its time and is evicted, by a command that comes across it
\* or by the housekeeping: the version stays as it is.
Expire(k) ==
  /\ k \in Volatile \intersect present
  /\ \A c \in Clients : pc[c] # "half"
  /\ present' = present \ {k}
  /\ UNCHANGED <<role, queueVars, watchVars, threadVars, versions, log>>

\* REPLICAOF makes this node a replica, or a master again.
ChangeRole ==
  /\ role' \in {"master", "replica"} \ {role}
  /\ UNCHANGED <<queueVars, watchVars, threadVars, storeVars>>

-----------------------------------------------------------------------------
TransactorStep(c) ==
  \/ \E k \in Keys : Watch(c, k)
  \/ \E cmd \in Commands : QueueCommand(c, cmd)
  \/ Unwatch(c) \/ Multi(c) \/ Discard(c) \/ ExecAborts(c) \/ ExecRuns(c)

SessionStep(c) ==
  \/ \E cmd \in Commands : Submit(c, cmd)
  \/ Answer(c) \/ Disconnect(c)

ThreadStep(c) == TakeEngine(c) \/ Look(c) \/ Begin(c) \/ End(c) \/ Release(c)

Next ==
  \/ \E c \in Transactors : TransactorStep(c)
  \/ \E c \in Clients : SessionStep(c) \/ ThreadStep(c)
  \/ \E k \in Keys : Expire(k)
  \/ ChangeRole

Spec == Init /\ [][Next]_vars

-----------------------------------------------------------------------------
\* What WATCH notes: versions of some keys.
WatchTables == UNION {[S -> Nat] : S \in SUBSET Keys}

QueueType ==
  /\ inTx \subseteq Clients
  /\ queue \in [Clients -> Seq(Commands)]
  /\ overflowed \subseteq Clients
  /\ refused \subseteq Clients
  /\ lost \subseteq Clients

WatchType ==
  /\ watched \in [Clients -> WatchTables]
  /\ relied \in [Clients -> SUBSET Keys]
  /\ unanswered \in [Clients -> SUBSET (Keys \X Clients)]
  /\ answered \in [Clients -> SUBSET Keys]
  /\ wiped \subseteq Clients

ThreadType ==
  /\ pc \in [Clients -> {"ready", "submitted", "running", "half", "answering"}]
  /\ block \subseteq Clients
  /\ rest \in [Clients -> Seq(Commands)]
  /\ engine \in Clients \union {NoOne}
  /\ turns \in 0..MaxTurns
  /\ turn \in [Clients -> 0..MaxTurns]

StoreType ==
  /\ role \in {"master", "replica"}
  /\ present \subseteq Keys
  /\ versions \in [Keys -> Nat]
  /\ log \in Seq(Nat)

TypeOK == QueueType /\ WatchType /\ ThreadType /\ StoreType

\* "The engine lock is held across the whole block, so nothing else runs in
\* between ... and the AOF records them back to back" (handle_exec,
\* execute_batch): in the append-only file, and so in what followers are sent,
\* no record of another client stands between two of a block.
BlocksContiguous ==
  \A i, j, k \in DOMAIN log :
    i < j /\ j < k /\ log[i] = log[k] => log[j] = log[i]

\* A block runs with every command the client sent since MULTI or not at all:
\* neither a queue limit nor a write refused by a replica, whatever the role
\* is when EXEC comes, leaves a part of it to run (queue_command, handle_exec:
\* "running the rest would not be the transaction the client asked for").
WholeBlocks ==
  block \intersect lost = {}

\* The optimistic lock, for what clients can know of each other: a block that
\* passes the check of EXEC depends on no key another client changed, and was
\* told so, after it was read under WATCH.  A FLUSHALL restarts the versions,
\* and then a watched key may come back to the version it had.
AnsweredChangeAborts ==
  [][\A c \in Clients :
       c \in block' \ block => answered[c] = {} \/ c \in wiped]_vars

\* "If a watched key is modified by another client before EXEC, the transaction
\* is aborted instead of committing against stale state" (README): when a
\* block starts to run, what it read under WATCH is what is still there.
NothingStale ==
  \A c \in block :
    pc[c] = "submitted" \/ (pc[c] = "running" /\ rest[c] = queue[c]) =>
      unanswered[c] = {} /\ answered[c] = {}
=============================================================================
