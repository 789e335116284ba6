------------------------------ MODULE Persistence ------------------------------
(***************************************************************************)
(* A server's store over time: commands and housekeeping under the engine  *)
(* lock, one at a time, SAVE and COMPACT, crashes that lose the end of the *)
(* append-only file, and recovery (KedisStore.__init__).                   *)
(***************************************************************************)
EXTENDS Keyspace

CONSTANTS
  Seconds,     \* what clients give to EXPIRE
  MaxTime,     \* bound: how far the clock goes
  MaxRecords,  \* bound: the length of the log when a command is taken
  MaxItems,    \* bound: the length of a list that is pushed to
  MaxCrashes   \* bound: how often the server crashes

ASSUME PersistenceAssumption ==
  /\ Seconds \subseteq Nat
  /\ MaxTime \in Nat
  /\ MaxRecords \in Nat
  /\ MaxItems \in Nat
  /\ MaxCrashes \in Nat

VARIABLES
  up,        \* the server runs
  st,        \* the store, as in Keyspace
  log,       \* the records of the append-only file
  snapshot,  \* the states in kedis.snapshot: none, or the last one saved
  now,       \* time.time()
  crashes,   \* how often the server crashed
  (*************************************************************************)
  (* Not in the program: why a replay of the log may differ from st.       *)
  (*************************************************************************)
  loose,     \* keys that lost their deadline with no record that says so
  spoiled    \* keys a replay gets wrong because of that, or of a COMPACT

vars == <<up, st, log, snapshot, now, crashes, loose, spoiled>>

Init ==
  /\ up = TRUE
  /\ st = Empty
  /\ log = <<>>
  /\ snapshot = {}
  /\ now = 0
  /\ crashes = 0
  /\ loose = {}
  /\ spoiled = {}

-----------------------------------------------------------------------------
(***************************************************************************)
(* Commands.  Each is one turn under the engine lock.                      *)
(***************************************************************************)

\* The keys that a replay of these records leaves as they are in memory,
\* whatever came before.
Settled(out) ==
  UNION {CASE r.cmd \in {"SET", "DEL"} -> {r.key}
           [] r.cmd = "FLUSHALL"       -> Keys
           [] OTHER                    -> {} : r \in ToSet(out)}

Pushed(out) == {r.key : r \in {q \in ToSet(out) : q.cmd = "PUSH"}}

\* The command's state and records become the store's.
Run(command) ==
  /\ up
  /\ Len(log) + Len(command.out) <= MaxRecords
  /\ st' = command.st
  /\ log' = log \o command.out
  /\ LET undated == DOMAIN st.expires \ DOMAIN command.st.expires
         open    == loose \union undated
     IN  /\ loose' = open \ Settled(command.out)
         /\ spoiled' = (spoiled \union (open \intersect Pushed(command.out)))
                         \ Settled(command.out)
  /\ UNCHANGED <<up, snapshot, now, crashes>>

SetKey      == \E k \in Keys, v \in Values : Run(Set(st, k, v))
GetKey      == \E k \in Keys : Run(Get(st, k, now))
DeleteKey   == \E k \in Keys : Run(Delete(st, k, now))
ExpireKey   == \E k \in Keys, n \in Seconds : Run(Expire(st, k, n, now))
PushItem    == \E k \in Keys, v \in Values, side \in Sides :
                 /\ Holds(st, k) => Len(st.data[k].items) < MaxItems
                 /\ Run(Push(st, k, v, side, now))
PopItem     == \E k \in Keys, side \in Sides : Run(Pop(st, k, side, now))
ListKeys     == \E order \in SetToSeqs(Overdue(st, now)) : Run(Sweep(st, order))
Housekeeping == \E order \in SetToSeqs(Overdue(st, now)) : Run(Housekeep(st, order))
Flush        == Run(FlushAll)

\* save: the atomic swap of the snapshot file.  (Bound: only while there is a
\* crash to come, after which it will be read.)
Save ==
  /\ up
  /\ crashes < MaxCrashes
  /\ snapshot' = {st}
  /\ UNCHANGED <<up, st, log, now, crashes, loose, spoiled>>

\* Mutant of Compact: deadlines are not written.
CompactForgetsDeadlines ==
  /\ up
  /\ \E order \in SetToSeqs(DOMAIN st.data) : log' = Compacted(st, order, <<>>)
  /\ loose' = {}
  /\ spoiled' = {k \in DOMAIN st.data : Due(st, k, now)}
  /\ UNCHANGED <<up, st, snapshot, now, crashes>>

\* compact_aof: the atomic swap of the log, in whatever order _data has.  A
\* key that is due and was not evicted yet is written without its deadline.
Compact ==
  /\ up
  /\ \E order \in SetToSeqs(DOMAIN st.data), timed \in SetToSeqs(Timed(st, now)) :
       log' = Compacted(st, order, timed)
  /\ loose' = {}
  /\ spoiled' = {k \in DOMAIN st.data : Due(st, k, now)}
  /\ UNCHANGED <<up, st, snapshot, now, crashes>>

Tick ==
  /\ now < MaxTime
  /\ now' = now + 1
  /\ UNCHANGED <<up, st, log, snapshot, crashes, loose, spoiled>>

-----------------------------------------------------------------------------
(***************************************************************************)
(* Crash and recovery.                                                     *)
(***************************************************************************)

\* The process is killed, and its memory with it.  What was not yet written is
\* lost: a number of last records, the torn one among them (_repair_aof cuts
\* it off).
Crash ==
  /\ up
  /\ crashes < MaxCrashes
  /\ up' = FALSE
  /\ crashes' = crashes + 1
  /\ \E n \in 0..Len(log) : log' = SubSeq(log, 1, n)
  /\ st' = Empty
  /\ loose' = {}
  /\ spoiled' = {}
  /\ UNCHANGED <<snapshot, now>>

\* The states a recovery starts from: the snapshot's, or the empty one.
Bases ==
  IF snapshot = {} THEN {Empty}
  ELSE {Restored(s, order) : s \in snapshot, order \in
          UNION {SetToSeqs(DOMAIN t.data) : t \in snapshot}}

\* __init__: the snapshot first, then the whole log over it.
Recover ==
  /\ ~up
  /\ \E base \in Bases :
       LET r == Replay(base, log)
       IN  /\ ~r.failed
           /\ st' = r.st
  /\ up' = TRUE
  /\ UNCHANGED <<log, snapshot, now, crashes, loose, spoiled>>

-----------------------------------------------------------------------------
Next ==
  \/ SetKey \/ GetKey \/ DeleteKey \/ ExpireKey \/ PushItem \/ PopItem
  \/ ListKeys \/ Housekeeping \/ Flush \/ Save \/ Compact \/ Tick
  \/ Crash \/ Recover

Spec == Init /\ [][Next]_vars

-----------------------------------------------------------------------------
\* The LRU tracker and the data never drift apart, so that "the store keeps at
\* most 1,024 keys" (docs/limits.md) and no ghost entry evicts live data too
\* early (housekeeping): through every command, eviction, expiry, compaction
\* and recovery the tracker lists each key with data exactly once.
Tracked ==
  /\ ToSet(st.lru) = DOMAIN st.data
  /\ Len(st.lru) = Cardinality(DOMAIN st.data)
  /\ Len(st.lru) <= LruMax

\* "Expiry entries whose key is gone" (housekeeping), which make commands on
\* the key fail, come from recovery only: no command of a running server
\* leaves one behind.
Orphans(s) == DOMAIN s.expires \ DOMAIN s.data

NoNewOrphans == [][up /\ up' => Orphans(st') \subseteq Orphans(st)]_vars

\* A client cannot tell two states of the store apart by key k.
Alike(s, t, k) ==
  /\ Visible(s, k, now) <=> Visible(t, k, now)
  /\ Visible(s, k, now) =>
       /\ s.data[k] = t.data[k]
       /\ k \in DOMAIN s.expires <=> k \in DOMAIN t.expires
       /\ k \in DOMAIN s.expires => s.expires[k] = t.expires[k]

\* The log is at every moment enough to rebuild what clients can see, value
\* and deadline, as long as there is no snapshot, the LRU limit costs the
\* replay no key and the replay ends; except for the keys that were pushed to
\* after an expiry nobody logged, or were due when COMPACT wrote them.
LogRebuilds ==
  up /\ snapshot = {} =>
    LET r == Replay(Empty, log)
    IN  ~r.failed /\ ~r.evicted =>
          \A k \in Keys \ spoiled : Alike(st, r.st, k)

\* "When the engine reboots, it reads this log from top to bottom ... to
\* perfectly rebuild the database state" (docs/persistence.md), with whatever
\* snapshot there is.
RestartRebuilds ==
  up => \A base \in Bases :
    LET r == Replay(base, log)
    IN  ~r.failed /\ \A k \in Keys : Alike(st, r.st, k)
=============================================================================
