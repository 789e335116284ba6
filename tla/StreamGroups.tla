----------------------------- MODULE StreamGroups -----------------------------
(***************************************************************************)
(* A master's streams over time, with the streams that a restart would     *)
(* rebuild from its log and those of a follower that has applied what was  *)
(* forwarded.  Commands run under the engine lock, each with the clock of  *)
(* its machine, which may go back.  That log and channel keep the order    *)
(* is the subject of AofSync and Replication: here every record is applied *)
(* at once, so that only what it does is in question.                      *)
(***************************************************************************)
EXTENDS Streams

CONSTANTS
  Keys, Groups, Consumers,
  Clock,     \* the times a clock may show
  Counts,    \* COUNT of a read; 0 is none
  MaxTries,  \* bound: deliveries of an entry
  MaxAdded   \* bound: entries added to a stream

ASSUME StreamGroupsAssumption ==
  /\ Clock \subseteq 0..Top
  /\ Counts \subseteq Nat
  /\ MaxTries \in Nat
  /\ MaxAdded \in Nat

VARIABLES
  data,       \* the streams of the master
  recovered,  \* the streams that the log rebuilds
  follower,   \* the streams of the follower
  (*************************************************************************)
  (* What clients know, for each key and group.                            *)
  (*************************************************************************)
  start,      \* where they have set the cursor
  given,      \* entries handed out as new since then
  owed        \* entries with the consumer that has to acknowledge them

clientVars == <<start, given, owed>>
vars == <<data, recovered, follower, clientVars>>

Places == Keys \X Groups

Init ==
  /\ data = [k \in {} |-> NewStream]
  /\ recovered = data
  /\ follower = data
  /\ start = [p \in Places |-> MinId]
  /\ given = [p \in Places |-> {}]
  /\ owed = [p \in Places |-> {}]

\* A command of a client, at the time its machine shows; the follower has a
\* clock of its own.  Commands that do not look at the clock run at 0.
Run(c, now) ==
  \E out \in {Execute(data, c, now)}, there \in Clock :
    /\ data' = out.data
    /\ recovered' = Restored(recovered, out.log)
    /\ follower' = Replayed(follower, out.sent, there)

Trims == {NoTrim, ToLength(0), ToLength(1), FromId(<<1, 0>>)}
Specs == {AnyId} \union {AnySeq(ms) : ms \in 0..Top} \union {Exactly(id) : id \in Ids}

Add(k, now) ==
  /\ StreamOf(data, k).added < MaxAdded
  /\ \E spec \in Specs, trim \in Trims, nomk \in BOOLEAN :
       Run([cmd |-> "XADD", key |-> k, spec |-> spec, trim |-> trim, nomk |-> nomk], now)
  /\ UNCHANGED clientVars

DeleteEntry(k) ==
  /\ \E id \in Ids : Run([cmd |-> "XDEL", key |-> k, ids |-> {id}], 0)
  /\ UNCHANGED clientVars

Trim(k) ==
  /\ \E trim \in Trims \ {NoTrim} : Run([cmd |-> "XTRIM", key |-> k, trim |-> trim], 0)
  /\ UNCHANGED clientVars

Delete(k) ==
  /\ k \in DOMAIN data
  /\ Run([cmd |-> "DEL", key |-> k], 0)
  /\ start' = [p \in Places |-> IF p[1] = k THEN MinId ELSE start[p]]
  /\ given' = [p \in Places |-> IF p[1] = k THEN {} ELSE given[p]]
  /\ owed' = [p \in Places |-> IF p[1] = k THEN {} ELSE owed[p]]

-----------------------------------------------------------------------------
SetCursor(k, g) ==
  /\ \E cmd \in {"CREATE", "SETID"}, mk \in BOOLEAN :
       \/ Run([cmd |-> cmd, key |-> k, group |-> g, at |-> "$", mkstream |-> mk], 0)
       \/ \E id \in Ids :
            Run([cmd |-> cmd, key |-> k, group |-> g, at |-> "id", id |-> id,
                 mkstream |-> mk], 0)
  /\ IF data' = data
     THEN UNCHANGED <<start, given>>
     ELSE /\ start' = [start EXCEPT ![<<k, g>>] = data'[k].groups[g].last]
          /\ given' = [given EXCEPT ![<<k, g>>] = {}]
  /\ UNCHANGED owed

Destroy(k, g) ==
  /\ HasGroup(data, k, g)
  /\ Run([cmd |-> "DESTROY", key |-> k, group |-> g], 0)
  /\ start' = [start EXCEPT ![<<k, g>>] = MinId]
  /\ given' = [given EXCEPT ![<<k, g>>] = {}]
  /\ owed' = [owed EXCEPT ![<<k, g>>] = {}]

CreateConsumer(k, g, consumer, now) ==
  /\ Run([cmd |-> "CREATECONSUMER", key |-> k, group |-> g, consumer |-> consumer], now)
  /\ UNCHANGED clientVars

DeleteConsumer(k, g, consumer) ==
  /\ Run([cmd |-> "DELCONSUMER", key |-> k, group |-> g, consumer |-> consumer], 0)
  /\ owed' = [owed EXCEPT ![<<k, g>>] = {o \in @ : o[2] # consumer}]
  /\ UNCHANGED <<start, given>>

Tries(k, g, S) ==
  \A i \in S \intersect DOMAIN data[k].groups[g].pel :
    data[k].groups[g].pel[i].count < MaxTries

\* XREADGROUP with ">"
ReadNew(k, g, consumer, now) ==
  \E n \in Counts, noack \in BOOLEAN :
    LET c   == [cmd |-> "XREADGROUP", key |-> k, group |-> g, consumer |-> consumer,
                at |-> ">", count |-> n, noack |-> noack]
        new == ToSet(NewEntries(data, c))
    IN  /\ HasGroup(data, k, g)
        /\ Tries(k, g, new)
        /\ Run(c, now)
        /\ given' = [given EXCEPT ![<<k, g>>] = @ \union new]
        /\ owed' = IF noack THEN owed
                   ELSE [owed EXCEPT ![<<k, g>>] =
                           {o \in @ : o[1] \notin new} \union (new \X {consumer})]
        /\ UNCHANGED start

\* XREADGROUP with an identifier
ReadHistory(k, g, consumer, now) ==
  \E n \in Counts, id \in Ids :
    LET c == [cmd |-> "XREADGROUP", key |-> k, group |-> g, consumer |-> consumer,
              at |-> "history", id |-> id, count |-> n, noack |-> FALSE]
    IN  /\ HasGroup(data, k, g)
        /\ Tries(k, g, ToSet(OldEntries(data, c)))
        /\ Run(c, now)
        /\ UNCHANGED clientVars

Acknowledge(k, g) ==
  \E ids \in SUBSET Ids :
    /\ Cardinality(ids) \in {1, 2}
    /\ Run([cmd |-> "XACK", key |-> k, group |-> g, ids |-> ids], 0)
    /\ owed' = [owed EXCEPT ![<<k, g>>] = {o \in @ : o[1] \notin ids}]
    /\ UNCHANGED <<start, given>>

\* COMPACT: the log is written anew.
Compact ==
  /\ recovered' = Restored([k \in {} |-> NewStream], Compacted(data))
  /\ UNCHANGED <<data, follower, clientVars>>

GroupStep(k, g) ==
  \/ SetCursor(k, g) \/ Destroy(k, g) \/ Acknowledge(k, g)
  \/ \E c \in Consumers : DeleteConsumer(k, g, c)
  \/ \E c \in Consumers, now \in Clock :
       CreateConsumer(k, g, c, now) \/ ReadNew(k, g, c, now) \/ ReadHistory(k, g, c, now)

Next ==
  \/ \E k \in Keys :
       \/ DeleteEntry(k) \/ Trim(k) \/ Delete(k)
       \/ \E now \in Clock : Add(k, now)
       \/ \E g \in Groups : GroupStep(k, g)
  \/ Compact

Spec == Init /\ [][Next]_vars

-----------------------------------------------------------------------------
\* "Replaying the AOF ... rebuilds exactly the same state, including every * ID
\* and every pending entry" (docs/streams.md), also after COMPACT.
LogRebuilds == recovered = data

\* "... or feeding a replica": a follower that has applied what was forwarded
\* has the same entries, cursors, consumers, pending entries and times.
FollowerAgrees == follower = data

\* "IDs are strictly increasing for the life of the stream", and "emptying a
\* stream does not let an old ID be reused": the entries are sorted and not
\* above the top identifier, which no step but DEL ever lowers or repeats.
IdsSorted ==
  \A k \in DOMAIN data :
    LET ids == data[k].ids
    IN  /\ \A i, j \in DOMAIN ids : i < j => Before(ids[i], ids[j])
        /\ \A i \in DOMAIN ids : ids[i] \in Ids /\ ~Before(data[k].last, ids[i])

IdsGrow ==
  [][\A k \in DOMAIN data \intersect DOMAIN data' :
       IF data'[k].added = data[k].added
       THEN data'[k].last = data[k].last /\ ToSet(data'[k].ids) \subseteq ToSet(data[k].ids)
       ELSE /\ Before(data[k].last, data'[k].last)
            /\ ToSet(data'[k].ids) \subseteq ToSet(data[k].ids) \union {data'[k].last}]_vars

\* "Each is delivered to exactly one consumer ... and the cursor moves past it":
\* of the entries behind the place where clients have set the cursor, those up
\* to the cursor are the ones that were handed out as new; none is skipped, and
\* none will be handed out again.
CursorExact ==
  \A k \in DOMAIN data : \A g \in DOMAIN data[k].groups : \A i \in DOMAIN data[k].ids :
    LET id == data[k].ids[i]
    IN  Before(start[<<k, g>>], id) =>
          (id \in given[<<k, g>>] <=> ~Before(data[k].groups[g].last, id))

\* "An entry stays on a pending list until its worker acknowledges it": neither
\* trimming nor deleting entries, nor a read of another consumer, nor a move of
\* the cursor takes it away, and it is on the list of one consumer that exists.
PendingUntilAcked ==
  \A k \in DOMAIN data : \A g \in DOMAIN data[k].groups :
    LET group == data[k].groups[g]
    IN  /\ {<<i, group.pel[i].consumer>> : i \in DOMAIN group.pel} = owed[<<k, g>>]
        /\ \A o \in owed[<<k, g>>] : o[2] \in DOMAIN group.consumers
=============================================================================
