------------------------------- MODULE Keyspace -------------------------------
(***************************************************************************)
(* KedisStore (store.py): what its commands do to the data, the deadlines  *)
(* and the LRU tracker, which records they append to the log, and what     *)
(* recover_from_aof makes of a log.  Strings and lists stand for all       *)
(* types: a SET replaces what is there, a push adds to it.                 *)
(*                                                                         *)
(* A state of the store is a record st with                                *)
(*   st.data     the keys and their values             (_data)             *)
(*   st.expires  the keys with a deadline              (_expires)          *)
(*   st.lru      the tracked keys, the coldest first   (_lru_tracker)      *)
(* A command is a record [st, out]: the new state and the records logged.  *)
(* Commands run under the engine lock, at the time "now".                  *)
(***************************************************************************)
EXTENDS Naturals, Selection

CONSTANTS
  Keys,
  Values,   \* what a SET or a push is given
  Sides,    \* where pushes and pops work: LPUSH, LPOP or RPUSH, RPOP
  LruMax    \* _lru_maxsize

ASSUME KeyspaceAssumption ==
  /\ IsFiniteSet(Keys)
  /\ Sides \subseteq {"left", "right"}
  /\ LruMax \in Nat \ {0}

Empty == [data |-> [k \in {} |-> 0], expires |-> [k \in {} |-> 0], lru |-> <<>>]

String(v) == [kind |-> "string", items |-> <<v>>]
List(s) == [kind |-> "list", items |-> s]

With(f, k, v) == [j \in DOMAIN f \union {k} |-> IF j = k THEN v ELSE f[j]]
Without(f, S) == Restrict(f, DOMAIN f \ S)

Holds(st, k) == k \in DOMAIN st.data
IsString(st, k) == Holds(st, k) /\ st.data[k].kind = "string"
IsList(st, k) == Holds(st, k) /\ st.data[k].kind = "list"

-----------------------------------------------------------------------------
(***************************************************************************)
(* The LRU tracker.                                                        *)
(***************************************************************************)

\* Mutant of Untrack: a key that goes stays in the tracker.
UntrackNothing(st, S) == st

\* _lru_invalidate
Untrack(st, S) == [st EXCEPT !.lru = Chosen(@, Keys \ S)]

\* Everything there is about the keys S goes.
Drop(st, S) ==
  [data |-> Without(st.data, S), expires |-> Without(st.expires, S),
   lru |-> Untrack(st, S).lru]

\* move_to_end: k becomes the warmest key.
Warmed(lru, k) == Append(Chosen(lru, Keys \ {k}), k)

\* _touch_read
TouchRead(st, k) ==
  IF k \in ToSet(st.lru)
  THEN [st EXCEPT !.lru = Warmed(@, k)]
  ELSE st

Deleted(k) == [cmd |-> "DEL", key |-> k]

\* _touch_write: k becomes the warmest key; what exceeds the limit is evicted,
\* the coldest first, and each key that had data is logged as deleted.
TouchWrite(st, k) ==
  LET order  == Warmed(st.lru, k)
      excess == IF Len(order) > LruMax THEN Len(order) - LruMax ELSE 0
      cold   == SubSeq(order, 1, excess)
      killed == Chosen(cold, DOMAIN st.data)
  IN  [st  |-> [data    |-> Without(st.data, ToSet(killed)),
                expires |-> Without(st.expires, ToSet(killed)),
                lru     |-> SubSeq(order, excess + 1, Len(order))],
       out |-> [i \in DOMAIN killed |-> Deleted(killed[i])]]

-----------------------------------------------------------------------------
(***************************************************************************)
(* Time to live.                                                           *)
(***************************************************************************)
Due(st, k, now) == k \in DOMAIN st.expires /\ now >= st.expires[k]

\* A due entry of _expires whose key is gone makes _evict_if_expired raise
\* KeyError, and the command with it.
Stuck(st, k, now) == Due(st, k, now) /\ ~Holds(st, k)

\* _evict_if_expired: nothing is logged.
Evict(st, k, now) == IF Due(st, k, now) /\ Holds(st, k) THEN Drop(st, {k}) ELSE st

\* What a client can still read.
Visible(st, k, now) == Holds(st, k) /\ ~Due(st, k, now)

Nothing(st) == [st |-> st, out |-> <<>>]

\* _evict_all_expired, also what KEYS does first: the due keys, each logged,
\* in the order _expires has them.
Overdue(st, now) == {k \in DOMAIN st.expires : now > st.expires[k]}

Sweep(st, order) ==
  [st  |-> Drop(st, ToSet(order)),
   out |-> [i \in DOMAIN order |-> Deleted(order[i])]]

\* housekeeping: sweep, drop deadlines and tracker entries without a key,
\* adopt untracked keys at the cold end.
Housekeep(st, order) ==
  LET swept  == Sweep(st, order)
      keys   == DOMAIN swept.st.data
      known  == Chosen(swept.st.lru, keys)
      strays == SetToSeq(keys \ ToSet(known))
  IN  [st  |-> [data    |-> swept.st.data,
                expires |-> Restrict(swept.st.expires, DOMAIN swept.st.expires \intersect keys),
                lru     |-> strays \o known],
       out |-> swept.out]

-----------------------------------------------------------------------------
(***************************************************************************)
(* The commands.                                                           *)
(***************************************************************************)

\* A write that is logged first and then touches its key.
Logged(record, touched) == [touched EXCEPT !.out = <<record>> \o @]

Set(st, k, v) ==
  Logged([cmd |-> "SET", key |-> k, items |-> <<v>>],
         TouchWrite([st EXCEPT !.data = With(@, k, String(v)),
                               !.expires = Without(@, {k})], k))

\* get, exists, lrange: a read of one key.
Get(st, k, now) ==
  IF Stuck(st, k, now) THEN Nothing(st) ELSE Nothing(TouchRead(Evict(st, k, now), k))

Delete(st, k, now) ==
  LET before == Evict(st, k, now)
  IN  IF Stuck(st, k, now) THEN Nothing(st)
      ELSE IF ~Holds(before, k) THEN Nothing(before)
      ELSE [st |-> Drop(before, {k}), out |-> <<Deleted(k)>>]

\* set_expire
Expire(st, k, seconds, now) ==
  LET before == Evict(st, k, now)
  IN  IF Stuck(st, k, now) THEN Nothing(st)
      ELSE IF ~Holds(before, k) THEN Nothing(before)
      ELSE [st  |-> [before EXCEPT !.expires = With(@, k, now + seconds)],
            out |-> <<[cmd |-> "EXPIREAT", key |-> k, at |-> now + seconds]>>]

FlushAll == [st |-> Empty, out |-> <<[cmd |-> "FLUSHALL"]>>]

Put(s, v, side) == IF side = "left" THEN <<v>> \o s ELSE Append(s, v)
Took(s, side) == IF side = "left" THEN Tail(s) ELSE Front(s)

\* lpush, rpush: WRONGTYPE comes after the eviction.
Push(st, k, v, side, now) ==
  LET before == Evict(st, k, now)
      old    == IF Holds(before, k) THEN before.data[k].items ELSE <<>>
  IN  IF Stuck(st, k, now) THEN Nothing(st)
      ELSE IF IsString(before, k) THEN Nothing(before)
      ELSE Logged([cmd |-> "PUSH", side |-> side, key |-> k, items |-> <<v>>],
                  TouchWrite([before EXCEPT
                    !.data = With(@, k, List(Put(old, v, side)))], k))

\* Mutant of Emptied: a list that was popped empty keeps its deadline.
EmptiedKeepsDeadline(st, k) ==
  IF st.data[k].items = <<>>
  THEN [st EXCEPT !.data = Without(@, {k}), !.lru = Untrack(st, {k}).lru]
  ELSE st

\* A list that was popped empty goes, with its deadline.
Emptied(st, k) == IF st.data[k].items = <<>> THEN Drop(st, {k}) ELSE st

\* lpop, rpop
Pop(st, k, side, now) ==
  LET before  == Evict(st, k, now)
      touched == TouchWrite([before EXCEPT !.data[k].items = Took(@, side)], k)
  IN  IF Stuck(st, k, now) THEN Nothing(st)
      ELSE IF ~IsList(before, k) THEN Nothing(before)
      ELSE Logged([cmd |-> "POP", side |-> side, key |-> k],
                  [touched EXCEPT !.st = Emptied(@, k)])

-----------------------------------------------------------------------------
(***************************************************************************)
(* Recovery.  A replay is a record [st, failed, evicted]: the state so     *)
(* far, whether an exception has ended it (the server does not start       *)
(* then), and whether the LRU limit has cost it a key.                     *)
(***************************************************************************)
Replayed(r, touched) ==
  [r EXCEPT !.st = touched.st, !.evicted = @ \/ touched.out # <<>>]

\* recover_from_aof, one record: it looks neither at deadlines nor, for a
\* push, at the type of the value.
Redo(r, record) ==
  LET st == r.st
      k  == record.key
  IN  IF r.failed THEN r
      ELSE CASE record.cmd = "SET" ->
                  Replayed(r, TouchWrite([st EXCEPT
                    !.data = With(@, k, String(record.items[1])),
                    !.expires = Without(@, {k})], k))
             [] record.cmd = "DEL" -> [r EXCEPT !.st = Drop(st, {k})]
             [] record.cmd = "EXPIREAT" ->
                  [r EXCEPT !.st.expires = With(@, k, record.at)]
             [] record.cmd = "FLUSHALL" -> [r EXCEPT !.st = Empty]
             [] record.cmd = "PUSH" ->
                  IF IsString(st, k)
                  THEN [r EXCEPT !.failed = TRUE]
                  ELSE LET old == IF Holds(st, k) THEN st.data[k].items ELSE <<>>
                           new == IF record.side = "left"
                                  THEN Reverse(record.items) \o old
                                  ELSE old \o record.items
                       IN  Replayed(r, TouchWrite([st EXCEPT
                             !.data = With(@, k, List(new))], k))
             [] record.cmd = "POP" ->
                  IF ~IsList(st, k)
                  THEN r
                  ELSE LET touched == TouchWrite([st EXCEPT
                             !.data[k].items = Took(@, record.side)], k)
                           left    == touched.st
                       IN  Replayed(r, [touched EXCEPT !.st =
                             IF left.data[k].items = <<>>
                             THEN [left EXCEPT !.data = Without(@, {k}),
                                               !.lru = Untrack(left, {k}).lru]
                             ELSE left])

Replay(st, log) ==
  FoldLeft(Redo, [st |-> st, failed |-> FALSE, evicted |-> FALSE], log)

\* restore_snapshot_state: the snapshot's keys, tracked in the order in which
\* the snapshot lists them.
Restored(snapshot, order) ==
  [data |-> snapshot.data, expires |-> snapshot.expires, lru |-> order]

\* The keys whose deadline compact_aof writes.
Timed(st, now) == {k \in DOMAIN st.expires : st.expires[k] > now}

\* compact_aof: one record for the value of each key, then the deadlines.
Compacted(st, order, timed) ==
  LET Value(k) ==
        IF IsString(st, k)
        THEN [cmd |-> "SET", key |-> k, items |-> st.data[k].items]
        ELSE [cmd |-> "PUSH", side |-> "right", key |-> k, items |-> st.data[k].items]
  IN  [i \in DOMAIN order |-> Value(order[i])]
        \o [i \in DOMAIN timed |->
              [cmd |-> "EXPIREAT", key |-> timed[i], at |-> st.expires[timed[i]]]]
=============================================================================
