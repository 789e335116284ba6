-------------------------------- MODULE Streams --------------------------------
(***************************************************************************)
(* Streams and consumer groups (stream.py and their part of store.py and   *)
(* commands.py): what a command does to the streams, which records it logs *)
(* and what a master forwards for it; what recovery makes of a record.     *)
(*                                                                         *)
(* An identifier is a pair <<ms, seq>>.  An entry is its identifier.  The  *)
(* streams of a store are a function data from its keys to records         *)
(*   ids, last, added   the entries, the top identifier, the counter       *)
(*   groups             the groups: last (the cursor), consumers, pel      *)
(***************************************************************************)
EXTENDS Integers, FiniteSets, Selection

CONSTANT Top  \* U64_MAX

ASSUME StreamsAssumption == Top \in Nat \ {0}

Ids == (0..Top) \X (0..Top)
MinId == <<0, 0>>
MaxId == <<Top, Top>>

Before(a, b) == a[1] < b[1] \/ (a[1] = b[1] /\ a[2] < b[2])
Successor(id) == IF id[2] < Top THEN <<id[1], id[2] + 1>> ELSE <<id[1] + 1, 0>>
LaterOf(i, j) == IF i > j THEN i ELSE j

\* The elements of a set by their age.
InOrder(S) ==
  CHOOSE s \in [1..Cardinality(S) -> S] :
    \A i, j \in DOMAIN s : i < j => Before(s[i], s[j])

With(f, k, v) == [j \in DOMAIN f \union {k} |-> IF j = k THEN v ELSE f[j]]
Without(f, S) == Restrict(f, DOMAIN f \ S)

NewStream == [ids |-> <<>>, last |-> MinId, added |-> 0, groups |-> [g \in {} |-> 0]]
NewGroup(id) == [last |-> id, consumers |-> [c \in {} |-> 0], pel |-> [i \in {} |-> 0]]

StreamOf(data, k) == IF k \in DOMAIN data THEN data[k] ELSE NewStream
HasGroup(data, k, g) == k \in DOMAIN data /\ g \in DOMAIN data[k].groups

-----------------------------------------------------------------------------
(***************************************************************************)
(* Identifiers.                                                            *)
(***************************************************************************)
AnyId == [form |-> "*"]
AnySeq(ms) == [form |-> "ms-*", ms |-> ms]
Exactly(id) == [form |-> "ms-seq", id |-> id]

\* 0-0 is the identifier of no entry: there is none to be had.
NoId == MinId

\* Mutant of NextId: a clock that goes back is believed.
NextIdByClock(last, spec, now) ==
  CASE spec.form = "*" ->
         IF now = last[1] /\ last # MaxId THEN Successor(last) ELSE <<now, 0>>
    [] spec.form = "ms-*" -> NoId
    [] spec.form = "ms-seq" -> IF Before(last, spec.id) THEN spec.id ELSE NoId

\* Stream._next_id
NextId(last, spec, now) ==
  CASE spec.form = "*" ->
         IF now > last[1] THEN <<now, 0>>
         ELSE IF last = MaxId THEN NoId ELSE Successor(last)
    [] spec.form = "ms-*" ->
         IF spec.ms > last[1] THEN <<spec.ms, 0>>
         ELSE IF spec.ms = last[1] /\ last[2] < Top THEN <<spec.ms, last[2] + 1>>
              ELSE NoId
    [] spec.form = "ms-seq" -> IF Before(last, spec.id) THEN spec.id ELSE NoId

-----------------------------------------------------------------------------
(***************************************************************************)
(* Entries.                                                                *)
(***************************************************************************)
NoTrim == [by |-> "none"]
ToLength(n) == [by |-> "maxlen", n |-> n]
FromId(id) == [by |-> "minid", id |-> id]

\* Stream.trim: how many of the oldest entries go.
CutOf(ids, t) ==
  CASE t.by = "none" -> 0
    [] t.by = "maxlen" -> IF Len(ids) > t.n THEN Len(ids) - t.n ELSE 0
    [] t.by = "minid" -> Cardinality({i \in DOMAIN ids : Before(ids[i], t.id)})

Trimmed(ids, t) == SubSeq(ids, CutOf(ids, t) + 1, Len(ids))

\* Stream.add
Grown(s, id) == [s EXCEPT !.ids = Append(@, id), !.last = id, !.added = @ + 1]

\* Stream.delete
Removed(ids, S) == Chosen(ids, ToSet(ids) \ S)

\* Stream.read_after: entries above id, at most n of them if n is not 0.
ReadAfter(s, id, n) ==
  LET later == IF id = MaxId THEN <<>>
               ELSE Chosen(s.ids, {i \in ToSet(s.ids) : ~Before(i, Successor(id))})
  IN  IF n = 0 \/ Len(later) <= n THEN later ELSE SubSeq(later, 1, n)

\* Group.pending_after: what the consumer was given and has not acknowledged.
PendingAfter(g, consumer, id, n) ==
  LET own == {i \in DOMAIN g.pel : Before(id, i) /\ g.pel[i].consumer = consumer}
      sorted == InOrder(own)
  IN  IF n = 0 \/ Len(sorted) <= n THEN sorted ELSE SubSeq(sorted, 1, n)

-----------------------------------------------------------------------------
(***************************************************************************)
(* Group records: the one place where groups change.                       *)
(***************************************************************************)

\* A consumer that was heard of at the time "seen" and given something at the
\* time "active" (-1: never).
Heard(g, consumer, seen, active) ==
  LET old == IF consumer \in DOMAIN g.consumers THEN g.consumers[consumer]
             ELSE [seen |-> seen, active |-> active]
  IN  [g EXCEPT !.consumers = With(@, consumer,
         [seen |-> LaterOf(old.seen, seen), active |-> LaterOf(old.active, active)])]

\* Mutant of GroupAfter: the pending entries of a deleted consumer stay.
GroupAfterKeeping(g, r) ==
  CASE r.cmd \in {"XGROUP", "XGLAST"} -> [g EXCEPT !.last = r.id]
    [] r.cmd = "XACK" -> [g EXCEPT !.pel = Without(@, r.ids)]
    [] r.cmd = "XGCONS" -> Heard(g, r.consumer, r.seen, r.active)
    [] r.cmd = "XGCDEL" -> [g EXCEPT !.consumers = Without(@, {r.consumer})]
    [] r.cmd = "XGPEL" ->
         [Heard(g, r.consumer, r.at, r.at) EXCEPT
            !.pel = With(@, r.id, [consumer |-> r.consumer, at |-> r.at, count |-> r.count])]

\* Stream.apply_group_record, for a record of a group that exists.
GroupAfter(g, r) ==
  CASE r.cmd \in {"XGROUP", "XGLAST"} -> [g EXCEPT !.last = r.id]
    [] r.cmd = "XACK" -> [g EXCEPT !.pel = Without(@, r.ids)]
    [] r.cmd = "XGCONS" -> Heard(g, r.consumer, r.seen, r.active)
    [] r.cmd = "XGCDEL" ->
         [g EXCEPT !.consumers = Without(@, {r.consumer}),
                   !.pel = RestrictValues(@, LAMBDA p : p.consumer # r.consumer)]
    [] r.cmd = "XGPEL" ->
         [Heard(g, r.consumer, r.at, r.at) EXCEPT
            !.pel = With(@, r.id, [consumer |-> r.consumer, at |-> r.at, count |-> r.count])]

\* KedisStore.apply_group_record.  Only XGROUP makes a stream or a group; any
\* other record of a stream or a group that is not there is refused.
ApplyRecord(data, r) ==
  LET groups == StreamOf(data, r.key).groups
      Put(gs) == With(data, r.key, [StreamOf(data, r.key) EXCEPT !.groups = gs])
  IN  IF HasGroup(data, r.key, r.group)
      THEN IF r.cmd = "XGDEL"
           THEN Put(Without(groups, {r.group}))
           ELSE Put(With(groups, r.group, GroupAfter(groups[r.group], r)))
      ELSE IF r.cmd = "XGROUP"
           THEN Put(With(groups, r.group, NewGroup(r.id)))
           ELSE data

Applied(data, records) == FoldLeft(ApplyRecord, data, records)

-----------------------------------------------------------------------------
(***************************************************************************)
(* Commands.  A command is a record c; what it does is a record of the     *)
(* streams after it, the records logged and the commands forwarded.        *)
(***************************************************************************)
Nothing(data, sent) == [data |-> data, log |-> <<>>, sent |-> sent]

\* _commit_group_records: records are logged as they are and forwarded in
\* XGAPPLY (replication_payloads), never the command that led to them.
Commit(data, records) ==
  [data |-> Applied(data, records), log |-> records,
   sent |-> [i \in DOMAIN records |-> [cmd |-> "XGAPPLY", record |-> records[i]]]]

Cut(k, n) == [cmd |-> "XTRIM", key |-> k, trim |-> ToLength(n)]
Entry(k, id) ==
  [cmd |-> "XADD", key |-> k, spec |-> Exactly(id), trim |-> NoTrim, nomk |-> FALSE]

\* Mutant of XAdd: the command is forwarded as the client sent it.
XAddAsSent(data, c, now) ==
  LET s  == StreamOf(data, c.key)
      id == NextId(s.last, c.spec, now)
      new == [Grown(s, id) EXCEPT !.ids = Trimmed(@, c.trim)]
  IN  IF id = NoId \/ (c.nomk /\ c.key \notin DOMAIN data)
      THEN Nothing(data, <<c>>)
      ELSE [data |-> With(data, c.key, new),
            log  |-> <<Entry(c.key, id), Cut(c.key, Len(new.ids))>>,
            sent |-> <<c>>]

\* _handle_xadd, xadd, replication_tokens: the forwarded command has the
\* identifier that was given, and keeps its options.
XAdd(data, c, now) ==
  LET s  == StreamOf(data, c.key)
      id == NextId(s.last, c.spec, now)
      grown == Grown(s, id)
      new   == [grown EXCEPT !.ids = Trimmed(@, c.trim)]
  IN  IF id = NoId \/ (c.nomk /\ c.key \notin DOMAIN data)
      THEN Nothing(data, <<c>>)
      ELSE [data |-> With(data, c.key, new),
            log  |-> IF new = grown THEN <<Entry(c.key, id)>>
                     ELSE <<Entry(c.key, id), Cut(c.key, Len(new.ids))>>,
            sent |-> <<[c EXCEPT !.spec = Exactly(id)]>>]

XDel(data, c) ==
  LET kept == Removed(StreamOf(data, c.key).ids, c.ids)
  IN  IF kept = StreamOf(data, c.key).ids THEN Nothing(data, <<c>>)
      ELSE [data |-> [data EXCEPT ![c.key].ids = kept], log |-> <<c>>, sent |-> <<c>>]

XTrim(data, c) ==
  LET kept == Trimmed(StreamOf(data, c.key).ids, c.trim)
  IN  IF kept = StreamOf(data, c.key).ids THEN Nothing(data, <<c>>)
      ELSE [data |-> [data EXCEPT ![c.key].ids = kept],
            log  |-> <<Cut(c.key, Len(kept))>>, sent |-> <<c>>]

Del(data, c) ==
  IF c.key \in DOMAIN data
  THEN [data |-> Without(data, {c.key}), log |-> <<c>>, sent |-> <<c>>]
  ELSE Nothing(data, <<c>>)

Cursor(data, c) ==
  [cmd |-> "XGROUP", key |-> c.key, group |-> c.group,
   id |-> IF c.at = "$" THEN StreamOf(data, c.key).last ELSE c.id]

XGroupCreate(data, c) ==
  IF HasGroup(data, c.key, c.group) \/ (c.key \notin DOMAIN data /\ ~c.mkstream)
  THEN Nothing(data, <<>>)
  ELSE Commit(data, <<Cursor(data, c)>>)

XGroupSetId(data, c) ==
  IF HasGroup(data, c.key, c.group) THEN Commit(data, <<Cursor(data, c)>>)
  ELSE Nothing(data, <<>>)

XGroupDestroy(data, c) ==
  IF HasGroup(data, c.key, c.group)
  THEN Commit(data, <<[cmd |-> "XGDEL", key |-> c.key, group |-> c.group]>>)
  ELSE Nothing(data, <<>>)

Knows(data, c) ==
  /\ HasGroup(data, c.key, c.group)
  /\ c.consumer \in DOMAIN data[c.key].groups[c.group].consumers

NewConsumer(c, now) ==
  [cmd |-> "XGCONS", key |-> c.key, group |-> c.group, consumer |-> c.consumer,
   seen |-> now, active |-> -1]

XGroupCreateConsumer(data, c, now) ==
  IF ~HasGroup(data, c.key, c.group) \/ Knows(data, c) THEN Nothing(data, <<>>)
  ELSE Commit(data, <<NewConsumer(c, now)>>)

XGroupDelConsumer(data, c) ==
  IF ~Knows(data, c) THEN Nothing(data, <<>>)
  ELSE Commit(data, <<[cmd |-> "XGCDEL", key |-> c.key, group |-> c.group,
                       consumer |-> c.consumer]>>)

XAck(data, c) ==
  LET owned == IF HasGroup(data, c.key, c.group)
               THEN c.ids \intersect DOMAIN data[c.key].groups[c.group].pel ELSE {}
  IN  IF owned = {} THEN Nothing(data, <<>>)
      ELSE Commit(data, <<[cmd |-> "XACK", key |-> c.key, group |-> c.group,
                           ids |-> owned]>>)

\* One more attempt to deliver id.
Attempt(g, c, id, now) ==
  [cmd |-> "XGPEL", key |-> c.key, group |-> c.group, consumer |-> c.consumer, id |-> id,
   at |-> now, count |-> IF id \in DOMAIN g.pel THEN g.pel[id].count + 1 ELSE 1]

\* What an XREADGROUP answers: new entries, or entries of the consumer's past,
\* which may be gone from the stream.
NewEntries(data, c) ==
  ReadAfter(data[c.key], data[c.key].groups[c.group].last, c.count)
OldEntries(data, c) ==
  PendingAfter(data[c.key].groups[c.group], c.consumer, c.id, c.count)

\* Mutant of Moved: the cursor goes to the top of the stream.
MovedToTop(data, c) ==
  [cmd |-> "XGLAST", key |-> c.key, group |-> c.group, id |-> data[c.key].last]

\* The cursor goes to the last entry that was read.
Moved(data, c) ==
  [cmd |-> "XGLAST", key |-> c.key, group |-> c.group, id |-> Last(NewEntries(data, c))]

\* xreadgroup for one stream; several streams are several commands in one turn
\* of the engine lock.
XReadGroup(data, c, now) ==
  LET g     == data[c.key].groups[c.group]
      known == IF Knows(data, c) THEN <<>> ELSE <<NewConsumer(c, now)>>
      new   == NewEntries(data, c)
      old   == Chosen(OldEntries(data, c), ToSet(data[c.key].ids))
      Attempts(s) == [i \in DOMAIN s |-> Attempt(g, c, s[i], now)]
  IN  IF ~HasGroup(data, c.key, c.group) THEN Nothing(data, <<>>)
      ELSE IF c.at = "history" THEN Commit(data, known \o Attempts(old))
      ELSE IF new = <<>> THEN Commit(data, known)
      ELSE Commit(data, known \o (IF c.noack THEN <<>> ELSE Attempts(new))
                              \o <<Moved(data, c)>>)

Execute(data, c, now) ==
  CASE c.cmd = "XADD" -> XAdd(data, c, now)
    [] c.cmd = "XDEL" -> XDel(data, c)
    [] c.cmd = "XTRIM" -> XTrim(data, c)
    [] c.cmd = "DEL" -> Del(data, c)
    [] c.cmd = "CREATE" -> XGroupCreate(data, c)
    [] c.cmd = "SETID" -> XGroupSetId(data, c)
    [] c.cmd = "DESTROY" -> XGroupDestroy(data, c)
    [] c.cmd = "CREATECONSUMER" -> XGroupCreateConsumer(data, c, now)
    [] c.cmd = "DELCONSUMER" -> XGroupDelConsumer(data, c)
    [] c.cmd = "XREADGROUP" -> XReadGroup(data, c, now)
    [] c.cmd = "XACK" -> XAck(data, c)
    [] c.cmd = "XGAPPLY" -> Nothing(ApplyRecord(data, c.record), <<>>)

\* A follower at the time "now" that gets the forwarded commands.
Replayed(data, sent, now) == FoldLeft(LAMBDA d, c : Execute(d, c, now).data, data, sent)

-----------------------------------------------------------------------------
(***************************************************************************)
(* Recovery and COMPACT.                                                   *)
(***************************************************************************)

\* recover_from_aof: one record.
Redo(data, r) ==
  CASE r.cmd = "XADD" ->
         IF Before(StreamOf(data, r.key).last, r.spec.id)
         THEN With(data, r.key, Grown(StreamOf(data, r.key), r.spec.id)) ELSE data
    [] r.cmd = "XDEL" ->
         IF r.key \in DOMAIN data
         THEN [data EXCEPT ![r.key].ids = Removed(@, r.ids)] ELSE data
    [] r.cmd = "XTRIM" ->
         IF r.key \in DOMAIN data
         THEN [data EXCEPT ![r.key].ids = Trimmed(@, r.trim)] ELSE data
    [] r.cmd = "DEL" -> Without(data, {r.key})
    [] r.cmd = "XSTATE" ->
         With(data, r.key,
              [StreamOf(data, r.key) EXCEPT !.last = r.id, !.added = r.added])
    [] OTHER -> ApplyRecord(data, r)

Restored(data, log) == FoldLeft(Redo, data, log)

ConsumerRecord(k, g, name, consumer) ==
  [cmd |-> "XGCONS", key |-> k, group |-> g, consumer |-> name,
   seen |-> consumer.seen, active |-> consumer.active]
PendingRecord(k, g, id, p) ==
  [cmd |-> "XGPEL", key |-> k, group |-> g, consumer |-> p.consumer, id |-> id,
   at |-> p.at, count |-> p.count]

\* compact_aof: the records of one group.
GroupRecords(k, g, group) ==
  LET names == SetToSeq(DOMAIN group.consumers)
      ids   == InOrder(DOMAIN group.pel)
  IN  <<[cmd |-> "XGROUP", key |-> k, group |-> g, id |-> group.last]>>
      \o [i \in DOMAIN names |->
            ConsumerRecord(k, g, names[i], group.consumers[names[i]])]
      \o [i \in DOMAIN ids |-> PendingRecord(k, g, ids[i], group.pel[ids[i]])]

\* Mutant of StreamRecords: the top identifier is not written.
StreamRecordsNoTop(k, s) ==
  LET names == SetToSeq(DOMAIN s.groups)
  IN  [i \in DOMAIN s.ids |-> Entry(k, s.ids[i])]
      \o FlattenSeq([i \in DOMAIN names |->
                       GroupRecords(k, names[i], s.groups[names[i]])])

\* compact_aof: the records of one stream.
StreamRecords(k, s) ==
  LET names == SetToSeq(DOMAIN s.groups)
  IN  [i \in DOMAIN s.ids |-> Entry(k, s.ids[i])]
      \o <<[cmd |-> "XSTATE", key |-> k, id |-> s.last, added |-> s.added]>>
      \o FlattenSeq([i \in DOMAIN names |->
                       GroupRecords(k, names[i], s.groups[names[i]])])

Compacted(data) ==
  LET keys == SetToSeq(DOMAIN data)
  IN  FlattenSeq([i \in DOMAIN keys |-> StreamRecords(keys[i], data[keys[i]])])
=============================================================================
