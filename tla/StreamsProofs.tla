----------------------------- MODULE StreamsProofs -----------------------------
(***************************************************************************)
(* Facts about the operators of Streams, for every width of the            *)
(* identifiers: new identifiers are later than all before them, and what a *)
(* command logs and what a master forwards for it give the same streams    *)
(* everywhere, whatever the clock says there.  From that, the invariant of *)
(* StreamGroups: a follower agrees, and identifiers only grow.  Last, what *)
(* COMPACT and restarts rebuild, and what clients know of their groups.    *)
(***************************************************************************)
EXTENDS StreamGroups, FiniteSetTheorems, TLAPS

-----------------------------------------------------------------------------
(***************************************************************************)
(* The folds of the model as sequences of intermediate results, so that    *)
(* what a sequence of records or commands does can be shown by induction.  *)
(***************************************************************************)
ApplyStep(d, r, e) == ApplyRecord(d, r)
RedoStep(d, r, e) == Redo(d, r)
ReplayStep(d, c, now) == Execute(d, c, now).data
ChooseStep(t, i, S) == IF i \in S THEN Append(t, i) ELSE t

Records == INSTANCE FoldTheorems WITH Op <- ApplyStep
Log == INSTANCE FoldTheorems WITH Op <- RedoStep
Commands == INSTANCE FoldTheorems WITH Op <- ReplayStep
Choice == INSTANCE FoldTheorems WITH Op <- ChooseStep

LEMMA AppliedSteps ==
  ASSUME NEW d, NEW records, NEW len \in Nat, DOMAIN records = 1..len
  PROVE  \E f : /\ f[0] = d
                /\ \A n \in 1..len : f[n] = ApplyRecord(f[n - 1], records[n])
                /\ Applied(d, records) = f[len]
<1>. DEFINE it == CHOOSE it : Records!IsFold(it, d, records, 0, len)
<1>1. Records!IsFold(it, d, records, 0, len)
  BY Records!FoldExists
<1>2. Applied(d, records) = it[1..len]
  BY DEF Applied, FoldLeft, MapThenFoldSet, Max, Records!IsFold, Records!Step, Records!Max,
         ApplyStep
<1>. HIDE DEF it
<1>3. PICK f : Records!AreResults(f, d, records, 0, len) /\ f[len] = it[1..len]
  BY <1>1, Records!FoldSteps
<1>. QED
  BY <1>2, <1>3 DEF Records!AreResults, ApplyStep

\* f tells the streams after every record of a log.
Follows(f, d, log, len) ==
  /\ f[0] = d
  /\ \A n \in 1..len : f[n] = Redo(f[n - 1], log[n])
  /\ Restored(d, log) = f[len]

LEMMA LogSteps ==
  ASSUME NEW d, NEW log, NEW len \in Nat, DOMAIN log = 1..len
  PROVE  \E f : Follows(f, d, log, len)
<1>. DEFINE it == CHOOSE it : Log!IsFold(it, d, log, 0, len)
<1>1. Log!IsFold(it, d, log, 0, len)
  BY Log!FoldExists
<1>2. Restored(d, log) = it[1..len]
  BY DEF Restored, FoldLeft, MapThenFoldSet, Max, Log!IsFold, Log!Step, Log!Max,
         RedoStep
<1>. HIDE DEF it
<1>3. PICK f : Log!AreResults(f, d, log, 0, len) /\ f[len] = it[1..len]
  BY <1>1, Log!FoldSteps
<1>4. Follows(f, d, log, len)
  BY <1>2, <1>3 DEF Log!AreResults, RedoStep, Follows
<1>. QED
  BY <1>4

LEMMA RestoredSteps ==
  ASSUME NEW d, NEW log, NEW len \in Nat, DOMAIN log = 1..len
  PROVE  \E f : /\ f[0] = d
                /\ \A n \in 1..len : f[n] = Redo(f[n - 1], log[n])
                /\ Restored(d, log) = f[len]
<1>1. PICK f : Follows(f, d, log, len)
  BY LogSteps
<1>. QED
  BY <1>1 DEF Follows

LEMMA ReplayedSteps ==
  ASSUME NEW d, NEW sent, NEW now, NEW len \in Nat, DOMAIN sent = 1..len
  PROVE  \E f : /\ f[0] = d
                /\ \A n \in 1..len : f[n] = Execute(f[n - 1], sent[n], now).data
                /\ Replayed(d, sent, now) = f[len]
<1>. DEFINE it == CHOOSE it : Commands!IsFold(it, d, sent, now, len)
<1>1. Commands!IsFold(it, d, sent, now, len)
  BY Commands!FoldExists
<1>2. Replayed(d, sent, now) = it[1..len]
  BY DEF Replayed, FoldLeft, MapThenFoldSet, Max, Commands!IsFold, Commands!Step, Commands!Max,
         ReplayStep
<1>. HIDE DEF it
<1>3. PICK f : Commands!AreResults(f, d, sent, now, len) /\ f[len] = it[1..len]
  BY <1>1, Commands!FoldSteps
<1>. QED
  BY <1>2, <1>3 DEF Commands!AreResults, ReplayStep

LEMMA ChosenSteps ==
  ASSUME NEW s, NEW S, NEW len \in Nat, DOMAIN s = 1..len
  PROVE  \E f : /\ f[0] = <<>>
                /\ \A n \in 1..len : f[n] = IF s[n] \in S THEN Append(f[n - 1], s[n]) ELSE f[n - 1]
                /\ Chosen(s, S) = f[len]
<1>. DEFINE it == CHOOSE it : Choice!IsFold(it, <<>>, s, S, len)
<1>1. Choice!IsFold(it, <<>>, s, S, len)
  BY Choice!FoldExists
<1>2. Chosen(s, S) = it[1..len]
  BY DEF Chosen, FoldLeft, MapThenFoldSet, Max, Choice!IsFold, Choice!Step, Choice!Max,
         ChooseStep
<1>. HIDE DEF it
<1>3. PICK f : Choice!AreResults(f, <<>>, s, S, len) /\ f[len] = it[1..len]
  BY <1>1, Choice!FoldSteps
<1>. QED
  BY <1>2, <1>3 DEF Choice!AreResults, ChooseStep

IdSpecs == {AnyId} \union {AnySeq(ms) : ms \in 0..Top} \union {Exactly(id) : id \in Ids}

LEMMA SpecForms ==
  ASSUME NEW spec \in IdSpecs
  PROVE  \/ spec.form = "*"
         \/ spec.form = "ms-*" /\ spec.ms \in 0..Top
         \/ spec.form = "ms-seq" /\ spec.id \in Ids
<1>1. CASE spec = AnyId
  BY <1>1 DEF AnyId
<1>2. ASSUME NEW ms \in 0..Top, spec = AnySeq(ms)
      PROVE  spec.form = "ms-*" /\ spec.ms \in 0..Top
  BY <1>2 DEF AnySeq
<1>3. ASSUME NEW id \in Ids, spec = Exactly(id)
      PROVE  spec.form = "ms-seq" /\ spec.id \in Ids
  BY <1>3 DEF Exactly
<1>. QED
  BY <1>1, <1>2, <1>3 DEF IdSpecs

LEMMA SuccessorLater ==
  ASSUME NEW id \in Ids, id # MaxId
  PROVE  Successor(id) \in Ids /\ Before(id, Successor(id))
<1>1. /\ Top \in Nat /\ Top > 0
      /\ id = <<id[1], id[2]>> /\ id[1] \in 0..Top /\ id[2] \in 0..Top
  BY StreamsAssumption DEF Ids
<1>2. CASE id[2] < Top
  BY <1>1, <1>2 DEF Successor, Before, Ids
<1>3. CASE ~(id[2] < Top)
  <2>1. id[2] = Top /\ id[1] < Top
    BY <1>1, <1>3 DEF MaxId
  <2>. QED
    BY <1>1, <2>1 DEF Successor, Before, Ids
<1>. QED
  BY <1>2, <1>3

(***************************************************************************)
(* Stream._next_id: an identifier that is given out is one, and is later   *)
(* than the top of the stream, for every form of XADD and every clock,     *)
(* also one that went back and at the limit of 64 bits.                    *)
(***************************************************************************)
THEOREM NewIdsAreLater ==
  ASSUME NEW last \in Ids, NEW spec \in IdSpecs, NEW now \in 0..Top,
         NextId(last, spec, now) # NoId
  PROVE  NextId(last, spec, now) \in Ids /\ Before(last, NextId(last, spec, now))
<1>1. /\ Top \in Nat /\ Top > 0
      /\ last = <<last[1], last[2]>> /\ last[1] \in 0..Top /\ last[2] \in 0..Top
  BY StreamsAssumption DEF Ids
<1>2. CASE spec.form = "*"
  <2>1. CASE now > last[1]
    BY <1>1, <1>2, <2>1 DEF NextId, Before, Ids
  <2>2. CASE ~(now > last[1])
    <3>1. last # MaxId /\ NextId(last, spec, now) = Successor(last)
      BY <1>2, <2>2 DEF NextId
    <3>. QED
      BY <3>1, SuccessorLater
  <2>. QED
    BY <2>1, <2>2
<1>3. CASE spec.form = "ms-*" /\ spec.ms \in 0..Top
  BY <1>1, <1>3 DEF NextId, Before, Ids
<1>4. CASE spec.form = "ms-seq" /\ spec.id \in Ids
  BY <1>4 DEF NextId
<1>. QED
  BY <1>2, <1>3, <1>4, SpecForms

\* An identifier once given out is given again to whoever asks for exactly it.
LEMMA ResolvedId ==
  ASSUME NEW last \in Ids, NEW id \in Ids, Before(last, id), NEW there
  PROVE  NextId(last, Exactly(id), there) = id
BY DEF NextId, Exactly

(***************************************************************************)
(* replication_tokens: a follower with the same streams and any clock gets *)
(* the streams of the master from the command that is forwarded.           *)
(***************************************************************************)
THEOREM ForwardedAddAgrees ==
  ASSUME NEW d, NEW c, NEW now \in 0..Top, NEW there,
         StreamOf(d, c.key).last \in Ids, c.spec \in IdSpecs,
         c = [cmd |-> "XADD", key |-> c.key, spec |-> c.spec, trim |-> c.trim,
              nomk |-> c.nomk],
         XAdd(d, c, now).data # d
  PROVE  XAdd(d, XAdd(d, c, now).sent[1], there).data = XAdd(d, c, now).data
<1>. DEFINE s  == StreamOf(d, c.key)
            id == NextId(s.last, c.spec, now)
            x  == [c EXCEPT !.spec = Exactly(id)]
<1>1. ~(id = NoId \/ (c.nomk /\ c.key \notin DOMAIN d))
  BY DEF XAdd, Nothing
<1>2. id \in Ids /\ Before(s.last, id)
  BY <1>1, NewIdsAreLater
<1>3. XAdd(d, c, now).sent = <<x>>
  BY <1>1 DEF XAdd
<1>4. x.key = c.key /\ x.trim = c.trim /\ x.nomk = c.nomk /\ x.spec = Exactly(id)
  OBVIOUS
<1>5. NextId(StreamOf(d, x.key).last, x.spec, there) = id
  BY <1>2, <1>4, ResolvedId
<1>6. XAdd(d, x, there).data = XAdd(d, c, now).data
  BY <1>1, <1>4, <1>5 DEF XAdd
<1>. QED
  BY <1>3, <1>6

-----------------------------------------------------------------------------
(***************************************************************************)
(* The log.                                                                *)
(***************************************************************************)
TrimForms ==
  {NoTrim} \union {ToLength(n) : n \in Nat} \union {FromId(id) : id \in Ids}

LEMMA LengthCut ==
  ASSUME NEW ids, NEW m
  PROVE  CutOf(ids, ToLength(m)) = IF Len(ids) > m THEN Len(ids) - m ELSE 0
<1>1. ToLength(m).by = "maxlen" /\ ToLength(m).n = m
  BY DEF ToLength
<1>2. "maxlen" # "none" /\ "maxlen" # "minid"
  OBVIOUS
<1>. QED
  BY <1>1, <1>2 DEF CutOf

LEMMA CutInside ==
  ASSUME NEW ids \in Seq(Ids), NEW t \in TrimForms
  PROVE  CutOf(ids, t) \in 0..Len(ids)
<1>1. CASE t = NoTrim
  BY <1>1 DEF CutOf, NoTrim
<1>2. ASSUME NEW n \in Nat, t = ToLength(n) PROVE CutOf(ids, t) \in 0..Len(ids)
  BY <1>2 DEF CutOf, ToLength
<1>3. ASSUME NEW id \in Ids, t = FromId(id) PROVE CutOf(ids, t) \in 0..Len(ids)
  <2>. DEFINE early == {i \in DOMAIN ids : Before(ids[i], id)}
  <2>1. IsFiniteSet(1..Len(ids)) /\ Cardinality(1..Len(ids)) = Len(ids)
    <3>. DEFINE n == Len(ids)
    <3>1. n \in Nat /\ 1 \in Int
      OBVIOUS
    <3>. HIDE DEF n
    <3>2. n - 1 + 1 = n /\ n \in Int /\ (1 > n => n = 0)
      BY <3>1
    <3>3. IsFiniteSet(1..n) /\ Cardinality(1..n) = IF 1 > n THEN 0 ELSE n - 1 + 1
      BY <3>1, <3>2, FS_Interval
    <3>4. IsFiniteSet(1..n) /\ Cardinality(1..n) = n
      BY <3>2, <3>3
    <3>. QED
      BY <3>4 DEF n
  <2>2. IsFiniteSet(early) /\ Cardinality(early) <= Len(ids)
    BY <2>1, FS_Subset
  <2>3. Cardinality(early) \in Nat
    BY <2>2, FS_CardinalityType
  <2>4. CutOf(ids, t) = Cardinality(early)
    BY <1>3 DEF CutOf, FromId
  <2>. QED
    BY <2>2, <2>3, <2>4
<1>. QED
  BY <1>1, <1>2, <1>3 DEF TrimForms

\* Any trim is the trim to the length that it leaves, which is what is logged.
LEMMA TrimIsToLength ==
  ASSUME NEW ids \in Seq(Ids), NEW t \in TrimForms
  PROVE  Trimmed(ids, ToLength(Len(Trimmed(ids, t)))) = Trimmed(ids, t)
<1>. DEFINE n == CutOf(ids, t)
<1>1. n \in 0..Len(ids)
  BY CutInside
<1>2. Trimmed(ids, t) \in Seq(Ids) /\ Len(Trimmed(ids, t)) = Len(ids) - n
  BY <1>1 DEF Trimmed
<1>3. CutOf(ids, ToLength(Len(ids) - n)) = n
  <2>. DEFINE m == Len(ids) - n
  <2>1. CutOf(ids, ToLength(m)) = IF Len(ids) > m THEN Len(ids) - m ELSE 0
    BY LengthCut
  <2>. QED
    BY <1>1, <2>1
<1>. QED
  BY <1>2, <1>3 DEF Trimmed

(***************************************************************************)
(* xadd and recover_from_aof: the records that an XADD logs, applied to    *)
(* the same streams, give what the command gave, however it trimmed.       *)
(***************************************************************************)
THEOREM LoggedAddAgrees ==
  ASSUME NEW d, NEW c, NEW now \in 0..Top,
         StreamOf(d, c.key).last \in Ids, StreamOf(d, c.key).ids \in Seq(Ids),
         StreamOf(d, c.key) =
           [ids    |-> StreamOf(d, c.key).ids, last |-> StreamOf(d, c.key).last,
            added  |-> StreamOf(d, c.key).added,
            groups |-> StreamOf(d, c.key).groups],
         c.spec \in IdSpecs, c.trim \in TrimForms,
         XAdd(d, c, now).log # <<>>
  PROVE  LET log   == XAdd(d, c, now).log
             after == Redo(d, log[1])
         IN  XAdd(d, c, now).data =
               IF Len(log) = 1 THEN after ELSE Redo(after, log[2])
<1>. DEFINE s     == StreamOf(d, c.key)
            id    == NextId(s.last, c.spec, now)
            grown == Grown(s, id)
            kept  == Trimmed(grown.ids, c.trim)
            new   == [grown EXCEPT !.ids = Trimmed(@, c.trim)]
            log   == XAdd(d, c, now).log
<1>1. ~(id = NoId \/ (c.nomk /\ c.key \notin DOMAIN d))
  BY DEF XAdd, Nothing
<1>2. id \in Ids /\ Before(s.last, id)
  BY <1>1, NewIdsAreLater
<1>3. /\ XAdd(d, c, now).data = With(d, c.key, new)
      /\ log = IF new = grown THEN <<Entry(c.key, id)>>
               ELSE <<Entry(c.key, id), Cut(c.key, Len(new.ids))>>
  BY <1>1 DEF XAdd
<1>4. Redo(d, Entry(c.key, id)) = With(d, c.key, grown)
  BY <1>2 DEF Redo, Entry, Exactly
<1>5. grown.ids \in Seq(Ids) /\ new.ids = kept
  BY <1>2 DEF Grown
<1>6. CASE new = grown
  BY <1>3, <1>4, <1>6
<1>7. CASE new # grown
  <2>. DEFINE after == With(d, c.key, grown)
  <2>1. Redo(after, Cut(c.key, Len(kept)))
          = [after EXCEPT ![c.key].ids = Trimmed(grown.ids, ToLength(Len(kept)))]
    BY DEF Redo, Cut, With
  <2>2. Redo(after, Cut(c.key, Len(kept))) = [after EXCEPT ![c.key].ids = kept]
    BY <2>1, <1>5, TrimIsToLength
  <2>3. [after EXCEPT ![c.key].ids = kept] = With(d, c.key, new)
    BY DEF With
  <2>4. log[1] = Entry(c.key, id) /\ log[2] = Cut(c.key, Len(kept)) /\ Len(log) = 2
    BY <1>3, <1>5, <1>7
  <2>. QED
    BY <1>3, <1>4, <2>2, <2>3, <2>4
<1>. QED
  BY <1>6, <1>7

(***************************************************************************)
(* apply_group_record: records change groups and nothing else.             *)
(***************************************************************************)
THEOREM RecordsKeepEntries ==
  ASSUME NEW d, NEW r, NEW k \in DOMAIN d,
         d[k] = [ids   |-> d[k].ids, last |-> d[k].last,
                    added |-> d[k].added, groups |-> d[k].groups]
  PROVE  /\ k \in DOMAIN ApplyRecord(d, r)
         /\ ApplyRecord(d, r)[k].ids = d[k].ids
         /\ ApplyRecord(d, r)[k].last = d[k].last
         /\ ApplyRecord(d, r)[k].added = d[k].added
<1>. DEFINE Put(gs) == With(d, r.key, [StreamOf(d, r.key) EXCEPT !.groups = gs])
<1>1. ASSUME NEW gs
      PROVE  /\ k \in DOMAIN Put(gs)
             /\ Put(gs)[k].ids = d[k].ids
             /\ Put(gs)[k].last = d[k].last
             /\ Put(gs)[k].added = d[k].added
  <2>1. CASE k = r.key
    BY <2>1 DEF With, StreamOf
  <2>2. CASE k # r.key
    BY <2>2 DEF With
  <2>. QED
    BY <2>1, <2>2
<1>2. ApplyRecord(d, r) = d \/ \E gs : ApplyRecord(d, r) = Put(gs)
  BY DEF ApplyRecord
<1>. QED
  BY <1>1, <1>2
-----------------------------------------------------------------------------
(***************************************************************************)
(* Sequences of identifiers.                                               *)
(***************************************************************************)
Ascending(ids) == \A i, j \in DOMAIN ids : i < j => Before(ids[i], ids[j])

LEMMA BeforeOrders ==
  /\ \A a \in Ids : ~Before(a, a)
  /\ \A a, b \in Ids : a = b \/ Before(a, b) \/ Before(b, a)
  /\ \A a, b, c \in Ids : Before(a, b) /\ Before(b, c) => Before(a, c)
<1>1. \A a \in Ids : a = <<a[1], a[2]>> /\ a[1] \in Int /\ a[2] \in Int
  BY StreamsAssumption DEF Ids
<1>2. \A a \in Ids : ~Before(a, a)
  BY <1>1 DEF Before
<1>3. \A a, b \in Ids : a = b \/ Before(a, b) \/ Before(b, a)
  BY <1>1 DEF Before
<1>4. \A a, b, c \in Ids : Before(a, b) /\ Before(b, c) => Before(a, c)
  BY <1>1 DEF Before
<1>. QED
  BY <1>2, <1>3, <1>4

\* What is chosen from a sequence has the elements it should have, once each
\* and in their order if the sequence had them so.
LEMMA ChosenFrom ==
  ASSUME NEW ids \in Seq(Ids), NEW S
  PROVE  /\ Chosen(ids, S) \in Seq(Ids)
         /\ ToSet(Chosen(ids, S)) = ToSet(ids) \intersect S
         /\ Ascending(ids) => Ascending(Chosen(ids, S))
<1>. DEFINE len == Len(ids)
<1>1. len \in Nat /\ DOMAIN ids = 1..len
  OBVIOUS
<1>. HIDE DEF len
<1>2. PICK f : /\ f[0] = <<>>
               /\ \A n \in 1..len : f[n] = IF ids[n] \in S THEN Append(f[n - 1], ids[n])
                                           ELSE f[n - 1]
               /\ Chosen(ids, S) = f[len]
  BY <1>1, ChosenSteps
<1>. DEFINE Good(t, n) == /\ t \in Seq(Ids)
                          /\ \A i \in DOMAIN t : \E j \in 1..n : t[i] = ids[j] /\ ids[j] \in S
                          /\ \A j \in 1..n : ids[j] \in S => \E i \in DOMAIN t : t[i] = ids[j]
                          /\ Ascending(ids) => Ascending(t)
            T == {n \in 0..len : Good(f[n], n)}
<1>3. 0 \in T
  <2>1. DOMAIN <<>> = {} /\ <<>> \in Seq(Ids) /\ 1..0 = {} /\ 0 \in 0..len
    BY <1>1
  <2>2. Good(<<>>, 0)
    BY <2>1 DEF Ascending
  <2>. QED
    BY <1>2, <2>1, <2>2
<1>4. ASSUME NEW n \in 1..len, n - 1 \in T PROVE n \in T
  <2>. DEFINE t == f[n - 1]
              u == Append(t, ids[n])
  <2>1. n \in 1..len /\ n - 1 \in 0..len /\ n \in 0..len /\ n \in Nat /\ ids[n] \in Ids
    BY <1>1
  <2>2. Good(t, n - 1)
    BY <1>4
  <2>3. CASE ids[n] \notin S
    <3>1. f[n] = t
      BY <1>2, <2>3
    <3>2. \A j \in 1..n : j = n \/ j \in 1..(n - 1)
      BY <2>1
    <3>3. \A j \in 1..(n - 1) : j \in 1..n
      BY <2>1
    <3>4. Good(t, n)
      BY <2>2, <2>3, <3>2, <3>3
    <3>. QED
      BY <2>1, <3>1, <3>4
  <2>4. CASE ids[n] \in S
    <3>1. f[n] = u
      BY <1>2, <2>4
    <3>2. /\ u \in Seq(Ids) /\ Len(t) \in Nat /\ DOMAIN t = 1..Len(t)
          /\ DOMAIN u = 1..(Len(t) + 1) /\ u[Len(t) + 1] = ids[n]
          /\ \A i \in 1..Len(t) : u[i] = t[i]
      BY <2>1, <2>2
    <3>3. \A i \in DOMAIN u : \E j \in 1..n : u[i] = ids[j] /\ ids[j] \in S
      <4>1. ASSUME NEW i \in DOMAIN u PROVE \E j \in 1..n : u[i] = ids[j] /\ ids[j] \in S
        <5>1. CASE i = Len(t) + 1
          BY <2>1, <2>4, <3>2, <5>1
        <5>2. CASE i \in 1..Len(t)
          <6>1. PICK j \in 1..(n - 1) : t[i] = ids[j] /\ ids[j] \in S
            BY <2>2, <3>2, <5>2
          <6>2. j \in 1..n /\ u[i] = t[i]
            BY <2>1, <3>2, <5>2
          <6>. QED
            BY <6>1, <6>2
        <5>. QED
          BY <3>2, <5>1, <5>2
      <4>. QED
        BY <4>1
    <3>4. \A j \in 1..n : ids[j] \in S => \E i \in DOMAIN u : u[i] = ids[j]
      <4>1. ASSUME NEW j \in 1..n, ids[j] \in S PROVE \E i \in DOMAIN u : u[i] = ids[j]
        <5>1. CASE j = n
          <6>1. Len(t) + 1 \in DOMAIN u
            BY <3>2
          <6>. QED
            BY <3>2, <5>1, <6>1
        <5>2. CASE j # n
          <6>1. j \in 1..(n - 1)
            BY <2>1, <5>2
          <6>2. PICK i \in DOMAIN t : t[i] = ids[j]
            BY <2>2, <4>1, <6>1
          <6>3. i \in DOMAIN u /\ u[i] = t[i]
            BY <3>2
          <6>. QED
            BY <6>2, <6>3
        <5>. QED
          BY <5>1, <5>2
      <4>. QED
        BY <4>1
    <3>5. Ascending(ids) => Ascending(u)
      <4>1. ASSUME Ascending(ids), NEW i \in DOMAIN u, NEW j \in DOMAIN u, i < j
            PROVE  Before(u[i], u[j])
        <5>1. i \in 1..Len(t)
          BY <3>2, <4>1
        <5>2. CASE j \in 1..Len(t)
          <6>1. Ascending(t) /\ i \in DOMAIN t /\ j \in DOMAIN t
            BY <2>2, <3>2, <4>1, <5>1, <5>2
          <6>2. Before(t[i], t[j])
            BY <4>1, <6>1 DEF Ascending
          <6>. QED
            BY <3>2, <5>1, <5>2, <6>2
        <5>3. CASE j = Len(t) + 1
          <6>1. PICK m \in 1..(n - 1) : t[i] = ids[m]
            BY <2>2, <3>2, <5>1
          <6>2. m \in DOMAIN ids /\ n \in DOMAIN ids /\ m < n
            BY <1>1, <2>1
          <6>3. Before(ids[m], ids[n])
            BY <4>1, <6>2 DEF Ascending
          <6>4. u[i] = t[i] /\ u[j] = ids[n]
            BY <3>2, <5>1, <5>3
          <6>. QED
            BY <6>1, <6>3, <6>4
        <5>4. j \in 1..Len(t) \/ j = Len(t) + 1
          BY <3>2
        <5>. QED
          BY <5>2, <5>3, <5>4
      <4>. QED
        BY <4>1 DEF Ascending
    <3>6. Good(u, n)
      BY <3>2, <3>3, <3>4, <3>5
    <3>. QED
      BY <2>1, <3>1, <3>6
  <2>. QED
    BY <2>3, <2>4
<1>. HIDE DEF T
<1>5. \A n \in 0..len : n \in T
  BY <1>1, <1>3, <1>4, Records!UpTo
<1>6. len \in T
  BY <1>1, <1>5
<1>7. Good(Chosen(ids, S), len)
  BY <1>2, <1>6 DEF T
<1>8. ToSet(Chosen(ids, S)) = ToSet(ids) \intersect S
  <2>. DEFINE t == Chosen(ids, S)
  <2>. HIDE DEF t
  <2>1. Good(t, len)
    BY <1>7 DEF t
  <2>2. ToSet(t) \subseteq ToSet(ids) \intersect S
    BY <1>1, <2>1 DEF ToSet
  <2>3. ToSet(ids) \intersect S \subseteq ToSet(t)
    BY <1>1, <2>1 DEF ToSet
  <2>. QED
    BY <2>2, <2>3 DEF t
<1>. QED
  BY <1>7, <1>8

LEMMA LatestOf ==
  ASSUME NEW S \in SUBSET Ids, S # {}
  PROVE  \E m \in S : \A id \in S \ {m} : Before(id, m)
<1>1. Top \in Nat /\ \A a \in Ids : a = <<a[1], a[2]>> /\ a[1] \in 0..Top /\ a[2] \in 0..Top
  BY StreamsAssumption DEF Ids
<1>. DEFINE ms == {Top - a[1] : a \in S}
<1>2. ms \in SUBSET Nat /\ ms # {}
  BY <1>1
<1>3. PICK x \in ms : \A y \in ms : x <= y
  <2>. HIDE DEF ms
  <2>. QED
    BY <1>2, Records!LeastNumber
<1>4. PICK p \in S : x = Top - p[1]
  OBVIOUS
<1>5. \A id \in S : id[1] <= p[1]
  BY <1>1, <1>3, <1>4
<1>. DEFINE seqs == {Top - a[2] : a \in {b \in S : b[1] = p[1]}}
<1>6. seqs \in SUBSET Nat /\ seqs # {}
  BY <1>1
<1>7. PICK u \in seqs : \A v \in seqs : u <= v
  <2>. HIDE DEF seqs
  <2>. QED
    BY <1>6, Records!LeastNumber
<1>8. PICK m \in S : m[1] = p[1] /\ u = Top - m[2]
  OBVIOUS
<1>9. ASSUME NEW id \in S \ {m} PROVE Before(id, m)
  <2>1. /\ id \in Ids /\ m \in Ids /\ id # m /\ id[1] <= m[1]
        /\ id[1] \in Int /\ id[2] \in Int /\ m[1] \in Int /\ m[2] \in Int
    BY <1>1, <1>5, <1>8
  <2>2. CASE id[1] < m[1]
    BY <2>2 DEF Before
  <2>3. CASE id[1] = m[1]
    <3>1. Top - id[2] \in seqs
      BY <1>8, <2>3
    <3>2. id[2] <= m[2]
      <4>1. u <= Top - id[2]
        BY <1>7, <3>1
      <4>. QED
        BY <1>1, <1>8, <2>1, <4>1
    <3>3. id[2] # m[2]
      BY <1>1, <2>1, <2>3
    <3>. QED
      BY <2>1, <2>3, <3>2, <3>3 DEF Before
  <2>. QED
    BY <2>1, <2>2, <2>3
<1>. QED
  BY <1>9

\* A finite set of identifiers has them in one order, each once.
LEMMA InOrderOf ==
  ASSUME NEW S \in SUBSET Ids, IsFiniteSet(S)
  PROVE  /\ InOrder(S) \in [1..Cardinality(S) -> S]
         /\ Cardinality(S) \in Nat
         /\ Ascending(InOrder(S))
         /\ ToSet(InOrder(S)) = S
<1>. DEFINE Sorted(A, s) == s \in [1..Cardinality(A) -> A] /\ Ascending(s)
            T == {n \in Nat : \A A \in SUBSET Ids :
                    IsFiniteSet(A) /\ Cardinality(A) = n => \E s : Sorted(A, s)}
<1>1. 0 \in T
  <2>1. ASSUME NEW A \in SUBSET Ids, IsFiniteSet(A), Cardinality(A) = 0
        PROVE  \E s : Sorted(A, s)
    <3>1. A = {} /\ 1..Cardinality(A) = {}
      BY <2>1, FS_EmptySet
    <3>2. Sorted(A, <<>>)
      BY <3>1 DEF Ascending
    <3>. QED
      BY <3>2
  <2>. QED
    BY <2>1
<1>2. ASSUME NEW n \in Nat, n \in T PROVE n + 1 \in T
  <2>1. ASSUME NEW A \in SUBSET Ids, IsFiniteSet(A), Cardinality(A) = n + 1
        PROVE  \E s : Sorted(A, s)
    <3>1. A # {}
      BY <2>1, FS_EmptySet
    <3>2. PICK m \in A : \A id \in A \ {m} : Before(id, m)
      BY <3>1, LatestOf
    <3>. DEFINE B == A \ {m}
    <3>3. B \in SUBSET Ids /\ IsFiniteSet(B) /\ Cardinality(B) = n
      <4>1. IsFiniteSet(B) /\ Cardinality(B) = Cardinality(A) - 1
        BY <2>1, <3>2, FS_RemoveElement
      <4>. QED
        BY <2>1, <4>1
    <3>4. PICK s : Sorted(B, s)
      BY <1>2, <3>3
    <3>. DEFINE t == [i \in 1..(n + 1) |-> IF i = n + 1 THEN m ELSE s[i]]
    <3>5. s \in [1..n -> B]
      BY <3>3, <3>4
    <3>6. t \in [1..Cardinality(A) -> A]
      <4>1. ASSUME NEW i \in 1..(n + 1), i # n + 1 PROVE s[i] \in A
        <5>1. i \in 1..n
          BY <4>1
        <5>. QED
          BY <3>5, <5>1
      <4>. QED
        BY <2>1, <4>1
    <3>7. ASSUME NEW i \in DOMAIN t, NEW j \in DOMAIN t, i < j PROVE Before(t[i], t[j])
      <4>1. i \in 1..n /\ t[i] = s[i] /\ s[i] \in B
        BY <3>5, <3>7
      <4>2. CASE j = n + 1
        <5>1. t[j] = m
          BY <4>2
        <5>2. Before(s[i], m)
          BY <3>2, <4>1
        <5>. QED
          BY <4>1, <5>1, <5>2
      <4>3. CASE j # n + 1
        <5>1. j \in 1..n /\ t[j] = s[j]
          BY <4>3
        <5>2. i \in DOMAIN s /\ j \in DOMAIN s
          BY <3>5, <4>1, <5>1
        <5>3. Before(s[i], s[j])
          BY <3>4, <3>7, <5>2 DEF Ascending
        <5>. QED
          BY <4>1, <5>1, <5>3
      <4>. QED
        BY <4>2, <4>3
    <3>8. Ascending(t)
      BY <3>7 DEF Ascending
    <3>. QED
      BY <3>6, <3>8
  <2>. QED
    BY <2>1
<1>3. Cardinality(S) \in Nat
  BY FS_CardinalityType
<1>4. \E s : Sorted(S, s)
  <2>. HIDE DEF T
  <2>1. Cardinality(S) \in T
    BY <1>1, <1>2, <1>3, Records!SetInduction
  <2>. QED
    BY <2>1 DEF T
<1>. DEFINE o == InOrder(S)
<1>5. o \in [1..Cardinality(S) -> S] /\ Ascending(o)
  BY <1>4 DEF InOrder, Ascending
<1>. HIDE DEF o
<1>6. \A i, j \in 1..Cardinality(S) : o[i] = o[j] => i = j
  <2>1. ASSUME NEW i \in 1..Cardinality(S), NEW j \in 1..Cardinality(S), o[i] = o[j]
        PROVE  i = j
    <3>1. i \in DOMAIN o /\ j \in DOMAIN o /\ i \in Int /\ j \in Int /\ o[i] \in Ids
      BY <1>3, <1>5
    <3>2. ~Before(o[i], o[j]) /\ ~Before(o[j], o[i])
      BY <2>1, <3>1, BeforeOrders
    <3>3. ~(i < j) /\ ~(j < i)
      BY <1>5, <3>1, <3>2 DEF Ascending
    <3>. QED
      BY <3>1, <3>3
  <2>. QED
    BY <2>1
<1>7. o \in Injection(1..Cardinality(S), S)
  BY <1>5, <1>6 DEF Injection, IsInjective
<1>8. IsFiniteSet(1..Cardinality(S)) /\ Cardinality(1..Cardinality(S)) = Cardinality(S)
  BY <1>3, FS_Interval
<1>9. o \in Surjection(1..Cardinality(S), S)
  BY <1>7, <1>8, FS_Injection
<1>10. ToSet(o) = S
  BY <1>5, <1>9 DEF ToSet, Surjection
<1>. QED
  BY <1>3, <1>5, <1>10 DEF o

-----------------------------------------------------------------------------
(***************************************************************************)
(* What streams and groups are.                                            *)
(***************************************************************************)
Partial(S, T) == UNION {[D -> T] : D \in {E \in SUBSET S : IsFiniteSet(E)}}

ConsumerStates == [seen : Int, active : Int]
PendingStates == [consumer : Consumers, at : Int, count : Nat]
GroupStates ==
  [last : Ids, consumers : Partial(Consumers, ConsumerStates), pel : Partial(Ids, PendingStates)]
StreamStates ==
  [ids : Seq(Ids), last : Ids, added : Nat, groups : Partial(Groups, GroupStates)]
DataStates == Partial(Keys, StreamStates)

LEMMA PartialIs ==
  ASSUME NEW S, NEW T, NEW f
  PROVE  f \in Partial(S, T) <=>
           /\ DOMAIN f \in SUBSET S /\ IsFiniteSet(DOMAIN f)
           /\ f \in [DOMAIN f -> T]
<1>1. ASSUME f \in Partial(S, T)
      PROVE  DOMAIN f \in SUBSET S /\ IsFiniteSet(DOMAIN f) /\ f \in [DOMAIN f -> T]
  <2>1. PICK D \in SUBSET S : IsFiniteSet(D) /\ f \in [D -> T]
    BY <1>1 DEF Partial
  <2>2. DOMAIN f = D
    BY <2>1
  <2>. QED
    BY <2>1, <2>2
<1>2. ASSUME DOMAIN f \in SUBSET S, IsFiniteSet(DOMAIN f), f \in [DOMAIN f -> T]
      PROVE  f \in Partial(S, T)
  BY <1>2 DEF Partial
<1>. QED
  BY <1>1, <1>2

LEMMA PartialWith ==
  ASSUME NEW S, NEW T, NEW f \in Partial(S, T), NEW k \in S, NEW v \in T
  PROVE  With(f, k, v) \in Partial(S, T)
<1>1. DOMAIN f \in SUBSET S /\ IsFiniteSet(DOMAIN f) /\ f \in [DOMAIN f -> T]
  BY PartialIs
<1>. DEFINE D == DOMAIN f \union {k}
<1>2. IsFiniteSet(D) /\ D \in SUBSET S
  BY <1>1, FS_AddElement
<1>3. With(f, k, v) \in [D -> T]
  BY <1>1 DEF With
<1>4. DOMAIN With(f, k, v) = D
  BY DEF With
<1>. QED
  BY <1>2, <1>3, <1>4, PartialIs

LEMMA WithIs ==
  ASSUME NEW f, NEW k, NEW v
  PROVE  /\ DOMAIN With(f, k, v) = DOMAIN f \union {k}
         /\ With(f, k, v)[k] = v
         /\ \A j \in DOMAIN f \ {k} : With(f, k, v)[j] = f[j]
BY DEF With

LEMMA PartialWithin ==
  ASSUME NEW S, NEW T, NEW f \in Partial(S, T), NEW D \in SUBSET DOMAIN f
  PROVE  [x \in D |-> f[x]] \in Partial(S, T)
<1>1. DOMAIN f \in SUBSET S /\ IsFiniteSet(DOMAIN f) /\ f \in [DOMAIN f -> T]
  BY PartialIs
<1>. DEFINE g == [x \in D |-> f[x]]
<1>2. IsFiniteSet(D) /\ D \in SUBSET S
  BY <1>1, FS_Subset
<1>3. g \in [D -> T] /\ DOMAIN g = D
  BY <1>1
<1>. HIDE DEF g
<1>4. g \in Partial(S, T)
  BY <1>2, <1>3, PartialIs
<1>. QED
  BY <1>4 DEF g

LEMMA PartialWithout ==
  ASSUME NEW S, NEW T, NEW f \in Partial(S, T), NEW D
  PROVE  /\ Without(f, D) \in Partial(S, T)
         /\ DOMAIN Without(f, D) = DOMAIN f \ D
         /\ \A x \in DOMAIN f \ D : Without(f, D)[x] = f[x]
<1>. DEFINE E == DOMAIN f \ D
<1>1. Without(f, D) = [x \in E |-> f[x]]
  BY DEF Without, Restrict
<1>2. [x \in E |-> f[x]] \in Partial(S, T)
  BY PartialWithin
<1>. QED
  BY <1>1, <1>2

LEMMA PartialEmpty ==
  ASSUME NEW S, NEW T, NEW v
  PROVE  [x \in {} |-> v] \in Partial(S, T)
<1>. DEFINE g == [x \in {} |-> v]
<1>1. DOMAIN g = {} /\ g \in [{} -> T]
  OBVIOUS
<1>2. DOMAIN g \in SUBSET S /\ IsFiniteSet(DOMAIN g) /\ g \in [DOMAIN g -> T]
  BY <1>1, FS_EmptySet
<1>. HIDE DEF g
<1>3. g \in Partial(S, T)
  BY <1>2, PartialIs
<1>. QED
  BY <1>3 DEF g

LEMMA NewStates ==
  /\ MinId \in Ids
  /\ NewStream \in StreamStates
  /\ \A id \in Ids : NewGroup(id) \in GroupStates
<1>1. MinId \in Ids
  BY StreamsAssumption DEF MinId, Ids
<1>2. NewStream \in StreamStates
  BY <1>1, PartialEmpty DEF NewStream, StreamStates
<1>3. \A id \in Ids : NewGroup(id) \in GroupStates
  BY PartialEmpty DEF NewGroup, GroupStates
<1>. QED
  BY <1>1, <1>2, <1>3

LEMMA StreamOfType ==
  ASSUME NEW d \in DataStates, NEW k
  PROVE  /\ StreamOf(d, k) \in StreamStates
         /\ k \in DOMAIN d => StreamOf(d, k) = d[k]
<1>1. d \in [DOMAIN d -> StreamStates]
  BY PartialIs DEF DataStates
<1>. QED
  BY <1>1, NewStates DEF StreamOf

LEMMA GroupType ==
  ASSUME NEW d \in DataStates, NEW k, NEW g, HasGroup(d, k, g)
  PROVE  /\ k \in DOMAIN d /\ k \in Keys /\ g \in Groups
         /\ d[k] \in StreamStates
         /\ g \in DOMAIN d[k].groups
         /\ d[k].groups[g] \in GroupStates
<1>1. k \in DOMAIN d /\ g \in DOMAIN d[k].groups
  BY DEF HasGroup
<1>2. d[k] \in StreamStates /\ k \in Keys
  BY <1>1, PartialIs DEF DataStates
<1>3. d[k].groups \in Partial(Groups, GroupStates)
  BY <1>2 DEF StreamStates
<1>4. d[k].groups[g] \in GroupStates /\ g \in Groups
  BY <1>1, <1>3, PartialIs
<1>. QED
  BY <1>1, <1>2, <1>4

-----------------------------------------------------------------------------
(***************************************************************************)
(* What group records do.                                                  *)
(***************************************************************************)
IsRecord(r) ==
  /\ r.key \in Keys /\ r.group \in Groups
  /\ \/ r.cmd \in {"XGROUP", "XGLAST"} /\ r.id \in Ids
     \/ r.cmd \in {"XGDEL", "XACK", "XGCDEL"}
     \/ r.cmd = "XGCONS" /\ r.consumer \in Consumers /\ r.seen \in Int /\ r.active \in Int
     \/ /\ r.cmd = "XGPEL"
        /\ r.consumer \in Consumers /\ r.id \in Ids /\ r.at \in Int /\ r.count \in Nat

LEMMA HeardType ==
  ASSUME NEW g \in GroupStates, NEW c \in Consumers, NEW seen \in Int, NEW active \in Int
  PROVE  /\ Heard(g, c, seen, active) \in GroupStates
         /\ Heard(g, c, seen, active).last = g.last
         /\ Heard(g, c, seen, active).pel = g.pel
         /\ DOMAIN Heard(g, c, seen, active).consumers = DOMAIN g.consumers \union {c}
<1>. DEFINE old == IF c \in DOMAIN g.consumers THEN g.consumers[c]
                   ELSE [seen |-> seen, active |-> active]
            new == [seen |-> LaterOf(old.seen, seen), active |-> LaterOf(old.active, active)]
<1>1. g.consumers \in Partial(Consumers, ConsumerStates)
  BY DEF GroupStates
<1>2. g.consumers \in [DOMAIN g.consumers -> ConsumerStates]
  BY <1>1, PartialIs
<1>3. old \in ConsumerStates
  BY <1>2 DEF ConsumerStates
<1>4. new \in ConsumerStates
  BY <1>3 DEF ConsumerStates, LaterOf
<1>5. Heard(g, c, seen, active) = [g EXCEPT !.consumers = With(@, c, new)]
  BY DEF Heard
<1>. HIDE DEF new
<1>6. With(g.consumers, c, new) \in Partial(Consumers, ConsumerStates)
  BY <1>1, <1>4, PartialWith
<1>7. DOMAIN With(g.consumers, c, new) = DOMAIN g.consumers \union {c}
  BY WithIs
<1>. QED
  BY <1>5, <1>6, <1>7 DEF GroupStates

LEMMA GroupAfterType ==
  ASSUME NEW g \in GroupStates, NEW r, IsRecord(r), r.cmd # "XGDEL"
  PROVE  GroupAfter(g, r) \in GroupStates
<1>1. CASE r.cmd \in {"XGROUP", "XGLAST"}
  BY <1>1 DEF GroupAfter, IsRecord, GroupStates
<1>2. CASE r.cmd = "XACK"
  <2>1. Without(g.pel, r.ids) \in Partial(Ids, PendingStates)
    BY PartialWithout DEF GroupStates
  <2>. QED
    BY <1>2, <2>1 DEF GroupAfter, GroupStates
<1>3. CASE r.cmd = "XGCONS"
  BY <1>3, HeardType DEF GroupAfter, IsRecord
<1>4. CASE r.cmd = "XGCDEL"
  <2>1. Without(g.consumers, {r.consumer}) \in Partial(Consumers, ConsumerStates)
    BY PartialWithout DEF GroupStates
  <2>. DEFINE D == {x \in DOMAIN g.pel : g.pel[x].consumer # r.consumer}
              pel == [x \in D |-> g.pel[x]]
  <2>2. pel \in Partial(Ids, PendingStates)
    BY PartialWithin DEF GroupStates
  <2>3. GroupAfter(g, r) = [g EXCEPT !.consumers = Without(@, {r.consumer}), !.pel = pel]
    BY <1>4 DEF GroupAfter, RestrictValues, Restrict
  <2>. HIDE DEF pel
  <2>. QED
    BY <2>1, <2>2, <2>3 DEF GroupStates
<1>5. CASE r.cmd = "XGPEL"
  <2>. DEFINE p == [consumer |-> r.consumer, at |-> r.at, count |-> r.count]
              h == Heard(g, r.consumer, r.at, r.at)
  <2>1. p \in PendingStates /\ r.id \in Ids
    BY <1>5 DEF IsRecord, PendingStates
  <2>2. h \in GroupStates
    BY <1>5, HeardType DEF IsRecord
  <2>. HIDE DEF h
  <2>3. With(h.pel, r.id, p) \in Partial(Ids, PendingStates)
    BY <2>1, <2>2, PartialWith DEF GroupStates
  <2>4. GroupAfter(g, r) = [h EXCEPT !.pel = With(@, r.id, p)]
    BY <1>5 DEF GroupAfter, h
  <2>. HIDE DEF p
  <2>. QED
    BY <2>2, <2>3, <2>4 DEF GroupStates
<1>. QED
  BY <1>1, <1>2, <1>3, <1>4, <1>5 DEF IsRecord

\* The streams with one stream's groups replaced.
PutGroups(d, k, gs) == With(d, k, [StreamOf(d, k) EXCEPT !.groups = gs])

LEMMA PutGroupsType ==
  ASSUME NEW d \in DataStates, NEW k \in Keys, NEW gs \in Partial(Groups, GroupStates)
  PROVE  PutGroups(d, k, gs) \in DataStates
<1>1. [StreamOf(d, k) EXCEPT !.groups = gs] \in StreamStates
  BY StreamOfType DEF StreamStates
<1>. QED
  BY <1>1, PartialWith DEF PutGroups, DataStates

LEMMA RecordCases ==
  ASSUME NEW d \in DataStates, NEW r, IsRecord(r)
  PROVE  \/ ApplyRecord(d, r) = d
         \/ \E gs \in Partial(Groups, GroupStates) : ApplyRecord(d, r) = PutGroups(d, r.key, gs)
<1>. DEFINE s == StreamOf(d, r.key)
<1>1. s \in StreamStates /\ s.groups \in Partial(Groups, GroupStates)
  BY StreamOfType DEF StreamStates
<1>2. CASE HasGroup(d, r.key, r.group)
  <2>1. s = d[r.key] /\ s.groups[r.group] \in GroupStates
    BY <1>2, GroupType, StreamOfType
  <2>2. CASE r.cmd = "XGDEL"
    <3>1. Without(s.groups, {r.group}) \in Partial(Groups, GroupStates)
      BY <1>1, PartialWithout
    <3>. QED
      BY <1>2, <2>2, <3>1 DEF ApplyRecord, PutGroups
  <2>3. CASE r.cmd # "XGDEL"
    <3>1. GroupAfter(s.groups[r.group], r) \in GroupStates
      BY <2>1, <2>3, GroupAfterType
    <3>2. With(s.groups, r.group, GroupAfter(s.groups[r.group], r))
            \in Partial(Groups, GroupStates)
      BY <1>1, <3>1, PartialWith DEF IsRecord
    <3>. QED
      BY <1>2, <2>3, <3>2 DEF ApplyRecord, PutGroups
  <2>. QED
    BY <2>2, <2>3
<1>3. CASE ~HasGroup(d, r.key, r.group) /\ r.cmd = "XGROUP"
  <2>1. NewGroup(r.id) \in GroupStates /\ r.group \in Groups
    BY <1>3, NewStates DEF IsRecord
  <2>2. With(s.groups, r.group, NewGroup(r.id)) \in Partial(Groups, GroupStates)
    BY <1>1, <2>1, PartialWith
  <2>. QED
    BY <1>3, <2>2 DEF ApplyRecord, PutGroups
<1>4. CASE ~HasGroup(d, r.key, r.group) /\ r.cmd # "XGROUP"
  BY <1>4 DEF ApplyRecord
<1>. QED
  BY <1>2, <1>3, <1>4

\* The entries, top identifiers and counters of e are those of d; a stream that
\* is only in e is new.
SameEntries(d, e) ==
  /\ DOMAIN d \subseteq DOMAIN e
  /\ \A k \in DOMAIN d :
       e[k].ids = d[k].ids /\ e[k].last = d[k].last /\ e[k].added = d[k].added
  /\ \A k \in DOMAIN e \ DOMAIN d : e[k].ids = <<>> /\ e[k].last = MinId

LEMMA RecordKeeps ==
  ASSUME NEW d \in DataStates, NEW r, IsRecord(r)
  PROVE  ApplyRecord(d, r) \in DataStates /\ SameEntries(d, ApplyRecord(d, r))
<1>1. ASSUME NEW gs \in Partial(Groups, GroupStates)
      PROVE  PutGroups(d, r.key, gs) \in DataStates /\ SameEntries(d, PutGroups(d, r.key, gs))
  <2>. DEFINE s == [StreamOf(d, r.key) EXCEPT !.groups = gs]
              e == PutGroups(d, r.key, gs)
  <2>1. e \in DataStates
    BY <1>1, PutGroupsType DEF IsRecord
  <2>2. /\ s.ids = StreamOf(d, r.key).ids /\ s.last = StreamOf(d, r.key).last
        /\ s.added = StreamOf(d, r.key).added
    BY StreamOfType DEF StreamStates
  <2>3. DOMAIN e = DOMAIN d \union {r.key} /\ e[r.key] = s
        /\ \A k \in DOMAIN d \ {r.key} : e[k] = d[k]
    <3>1. e = With(d, r.key, s)
      BY DEF PutGroups
    <3>. HIDE DEF e, s
    <3>. QED
      BY <3>1 DEF With
  <2>4. r.key \notin DOMAIN d => s.ids = <<>> /\ s.last = MinId
    BY <2>2 DEF StreamOf, NewStream
  <2>5. r.key \in DOMAIN d => StreamOf(d, r.key) = d[r.key]
    BY DEF StreamOf
  <2>. HIDE DEF s, e
  <2>6. SameEntries(d, e)
    BY <2>2, <2>3, <2>4, <2>5 DEF SameEntries
  <2>. QED
    BY <2>1, <2>6 DEF e
<1>2. SameEntries(d, d)
  BY DEF SameEntries
<1>. QED
  BY <1>1, <1>2, RecordCases

LEMMA SameEntriesOrder ==
  ASSUME NEW d, NEW e, NEW f, SameEntries(d, e), SameEntries(e, f)
  PROVE  SameEntries(d, f)
BY DEF SameEntries

AreRecords(records, len) ==
  len \in Nat /\ DOMAIN records = 1..len /\ \A n \in 1..len : IsRecord(records[n])

LEMMA RecordSteps ==
  ASSUME NEW d, NEW records, NEW len, AreRecords(records, len)
  PROVE  \E f : /\ f[0] = d
                /\ \A n \in 1..len : f[n] = ApplyRecord(f[n - 1], records[n])
                /\ Applied(d, records) = f[len]
<1>1. len \in Nat
  BY DEF AreRecords
<1>2. DOMAIN records = 1..len
  BY DEF AreRecords
<1>3. ASSUME NEW n \in Nat, DOMAIN records = 1..n
      PROVE  \E f : /\ f[0] = d
                    /\ \A m \in 1..n : f[m] = ApplyRecord(f[m - 1], records[m])
                    /\ Applied(d, records) = f[n]
  BY <1>3, AppliedSteps
<1>. QED
  BY <1>1, <1>2, <1>3

LEMMA AppliedKeeps ==
  ASSUME NEW d \in DataStates, NEW records, NEW len, AreRecords(records, len)
  PROVE  Applied(d, records) \in DataStates /\ SameEntries(d, Applied(d, records))
<1>1. PICK f : /\ f[0] = d
               /\ \A n \in 1..len : f[n] = ApplyRecord(f[n - 1], records[n])
               /\ Applied(d, records) = f[len]
  BY RecordSteps
<1>. DEFINE T == {n \in 0..len : f[n] \in DataStates /\ SameEntries(d, f[n])}
<1>2. 0 \in T
  BY <1>1 DEF AreRecords, SameEntries
<1>3. ASSUME NEW n \in 1..len, n - 1 \in T PROVE n \in T
  <2>1. n \in 0..len /\ IsRecord(records[n]) /\ f[n] = ApplyRecord(f[n - 1], records[n])
    BY <1>1 DEF AreRecords
  <2>2. f[n] \in DataStates /\ SameEntries(f[n - 1], f[n])
    BY <1>3, <2>1, RecordKeeps
  <2>3. SameEntries(d, f[n])
    BY <1>3, <2>2, SameEntriesOrder
  <2>. QED
    BY <2>1, <2>2, <2>3
<1>. HIDE DEF T
<1>4. len \in T
  <2>1. len \in Nat /\ len \in 0..len
    BY DEF AreRecords
  <2>2. \A n \in 0..len : n \in T
    BY <1>2, <1>3, <2>1, Records!UpTo
  <2>. QED
    BY <2>1, <2>2
<1>. QED
  BY <1>1, <1>4 DEF T

\* Two folds that do the same in every step come to the same.
LEMMA SameResults ==
  ASSUME NEW len \in Nat, NEW f, NEW g, f[0] = g[0],
         \A n \in 1..len : f[n - 1] = g[n - 1] => f[n] = g[n]
  PROVE  f[len] = g[len]
<1>. DEFINE T == {n \in 0..len : f[n] = g[n]}
<1>1. 0 \in T
  OBVIOUS
<1>2. \A n \in 1..len : n - 1 \in T => n \in T
  OBVIOUS
<1>. HIDE DEF T
<1>3. \A n \in 0..len : n \in T
  BY <1>1, <1>2, Records!UpTo
<1>4. len \in T
  BY <1>3
<1>. QED
  BY <1>4 DEF T

LEMMA RedoRecord ==
  ASSUME NEW d, NEW r, IsRecord(r)
  PROVE  Redo(d, r) = ApplyRecord(d, r)
BY DEF Redo, IsRecord

LEMMA RecordForwarded ==
  ASSUME NEW d, NEW c, NEW there, c.cmd = "XGAPPLY"
  PROVE  Execute(d, c, there).data = ApplyRecord(d, c.record)
BY DEF Execute, Nothing

\* _commit_group_records: whoever applies the records that were logged or
\* forwarded, at any time, comes to the same streams.
LEMMA CommitAgrees ==
  ASSUME NEW d, NEW records, NEW len, AreRecords(records, len), NEW there
  PROVE  /\ Replayed(d, Commit(d, records).sent, there) = Commit(d, records).data
         /\ Restored(d, Commit(d, records).log) = Commit(d, records).data
<1>. DEFINE sent == [i \in DOMAIN records |-> [cmd |-> "XGAPPLY", record |-> records[i]]]
<1>1. /\ Commit(d, records).data = Applied(d, records)
      /\ Commit(d, records).log = records /\ Commit(d, records).sent = sent
  BY DEF Commit
<1>2. len \in Nat /\ DOMAIN records = 1..len /\ DOMAIN sent = 1..len
  BY DEF AreRecords
<1>3. PICK f : /\ f[0] = d
               /\ \A n \in 1..len : f[n] = ApplyRecord(f[n - 1], records[n])
               /\ Applied(d, records) = f[len]
  BY <1>2, AppliedSteps
<1>4. Replayed(d, sent, there) = f[len]
  <2>1. \A n \in 1..len : sent[n] = [cmd |-> "XGAPPLY", record |-> records[n]]
    BY <1>2
  <2>. HIDE DEF sent
  <2>2. PICK g : /\ g[0] = d
                 /\ \A n \in 1..len : g[n] = Execute(g[n - 1], sent[n], there).data
                 /\ Replayed(d, sent, there) = g[len]
    BY <1>2, ReplayedSteps
  <2>3. ASSUME NEW n \in 1..len, g[n - 1] = f[n - 1] PROVE g[n] = f[n]
    <3>1. sent[n] = [cmd |-> "XGAPPLY", record |-> records[n]]
      BY <2>1
    <3>2. sent[n].cmd = "XGAPPLY" /\ sent[n].record = records[n]
      BY <3>1
    <3>3. Execute(g[n - 1], sent[n], there).data = ApplyRecord(g[n - 1], records[n])
      BY <3>2, RecordForwarded
    <3>. QED
      BY <1>3, <2>2, <2>3, <3>3
  <2>4. g[len] = f[len]
    BY <1>2, <1>3, <2>2, <2>3, SameResults
  <2>. QED
    BY <2>2, <2>4
<1>5. Restored(d, records) = f[len]
  <2>1. PICK g : /\ g[0] = d
                 /\ \A n \in 1..len : g[n] = Redo(g[n - 1], records[n])
                 /\ Restored(d, records) = g[len]
    BY <1>2, RestoredSteps
  <2>2. ASSUME NEW n \in 1..len, g[n - 1] = f[n - 1] PROVE g[n] = f[n]
    <3>1. IsRecord(records[n])
      BY DEF AreRecords
    <3>. QED
      BY <1>3, <2>1, <2>2, <3>1, RedoRecord
  <2>3. g[len] = f[len]
    BY <1>2, <1>3, <2>1, <2>2, SameResults
  <2>. QED
    BY <2>1, <2>3
<1>. QED
  BY <1>1, <1>3, <1>4, <1>5

RecordStates ==
  [cmd : {"XGROUP", "XGLAST"}, key : Keys, group : Groups, id : Ids]
  \union [cmd : {"XGDEL"}, key : Keys, group : Groups]
  \union [cmd : {"XACK"}, key : Keys, group : Groups, ids : SUBSET Ids]
  \union [cmd : {"XGCONS"}, key : Keys, group : Groups, consumer : Consumers,
          seen : Int, active : Int]
  \union [cmd : {"XGCDEL"}, key : Keys, group : Groups, consumer : Consumers]
  \union [cmd : {"XGPEL"}, key : Keys, group : Groups, consumer : Consumers, id : Ids,
          at : Int, count : Nat]

LEMMA RecordSequence ==
  ASSUME NEW records \in Seq(RecordStates)
  PROVE  AreRecords(records, Len(records))
<1>1. \A r \in RecordStates : IsRecord(r)
  BY DEF RecordStates, IsRecord
<1>2. /\ Len(records) \in Nat /\ DOMAIN records = 1..Len(records)
      /\ \A n \in 1..Len(records) : records[n] \in RecordStates
  OBVIOUS
<1>. QED
  BY <1>1, <1>2 DEF AreRecords

-----------------------------------------------------------------------------
(***************************************************************************)
(* What reads find.                                                        *)
(***************************************************************************)
LEMMA ReadAfterFinds ==
  ASSUME NEW s \in StreamStates, NEW id \in Ids, NEW n \in Nat
  PROVE  /\ ReadAfter(s, id, n) \in Seq(Ids)
         /\ ToSet(ReadAfter(s, id, n)) \subseteq ToSet(s.ids)
<1>. DEFINE S == {i \in ToSet(s.ids) : ~Before(i, Successor(id))}
            later == IF id = MaxId THEN <<>> ELSE Chosen(s.ids, S)
<1>1. s.ids \in Seq(Ids)
  BY DEF StreamStates
<1>2. Chosen(s.ids, S) \in Seq(Ids) /\ ToSet(Chosen(s.ids, S)) \subseteq ToSet(s.ids)
  <2>. HIDE DEF S
  <2>. QED
    BY <1>1, ChosenFrom
<1>3. later \in Seq(Ids) /\ ToSet(later) \subseteq ToSet(s.ids)
  <2>1. <<>> \in Seq(Ids) /\ ToSet(<<>>) = {}
    BY DEF ToSet
  <2>. HIDE DEF S
  <2>. QED
    BY <1>2, <2>1
<1>4. ReadAfter(s, id, n) = IF n = 0 \/ Len(later) <= n THEN later ELSE SubSeq(later, 1, n)
  BY DEF ReadAfter
<1>. HIDE DEF later
<1>5. CASE n = 0 \/ Len(later) <= n
  BY <1>3, <1>4, <1>5
<1>6. CASE ~(n = 0 \/ Len(later) <= n)
  <2>. DEFINE t == SubSeq(later, 1, n)
  <2>1. t \in Seq(Ids) /\ DOMAIN t = 1..n /\ \A i \in 1..n : i \in DOMAIN later /\ t[i] = later[i]
    BY <1>3, <1>6
  <2>2. ToSet(t) \subseteq ToSet(later)
    BY <2>1 DEF ToSet
  <2>. QED
    BY <1>3, <1>4, <1>6, <2>1, <2>2
<1>. QED
  BY <1>5, <1>6

LEMMA PendingAfterFinds ==
  ASSUME NEW g \in GroupStates, NEW c, NEW id, NEW n \in Nat
  PROVE  /\ PendingAfter(g, c, id, n) \in Seq(Ids)
         /\ \A i \in ToSet(PendingAfter(g, c, id, n)) :
              i \in DOMAIN g.pel /\ g.pel[i].consumer = c
<1>. DEFINE own == {i \in DOMAIN g.pel : Before(id, i) /\ g.pel[i].consumer = c}
            sorted == InOrder(own)
<1>1. own \in SUBSET Ids /\ IsFiniteSet(own)
  <2>1. DOMAIN g.pel \in SUBSET Ids /\ IsFiniteSet(DOMAIN g.pel)
    <3>1. g.pel \in Partial(Ids, PendingStates)
      BY DEF GroupStates
    <3>. QED
      BY <3>1, PartialIs
  <2>2. own \in SUBSET DOMAIN g.pel
    OBVIOUS
  <2>. QED
    BY <2>1, <2>2, FS_Subset
<1>2. sorted \in [1..Cardinality(own) -> own] /\ Cardinality(own) \in Nat /\ ToSet(sorted) = own
  <2>. HIDE DEF own
  <2>. QED
    BY <1>1, InOrderOf
<1>3. sorted \in Seq(Ids)
  <2>. HIDE DEF own, sorted
  <2>. QED
    BY <1>1, <1>2
<1>4. PendingAfter(g, c, id, n) = IF n = 0 \/ Len(sorted) <= n THEN sorted ELSE SubSeq(sorted, 1, n)
  BY DEF PendingAfter
<1>5. \A i \in ToSet(sorted) : i \in DOMAIN g.pel /\ g.pel[i].consumer = c
  BY <1>2
<1>. HIDE DEF sorted
<1>6. CASE n = 0 \/ Len(sorted) <= n
  BY <1>3, <1>4, <1>5, <1>6
<1>7. CASE ~(n = 0 \/ Len(sorted) <= n)
  <2>. DEFINE t == SubSeq(sorted, 1, n)
  <2>1. t \in Seq(Ids) /\ DOMAIN t = 1..n /\ \A i \in 1..n : i \in DOMAIN sorted /\ t[i] = sorted[i]
    BY <1>3, <1>7
  <2>2. ToSet(t) \subseteq ToSet(sorted)
    BY <2>1 DEF ToSet
  <2>. QED
    BY <1>4, <1>5, <1>7, <2>1, <2>2
<1>. QED
  BY <1>6, <1>7

-----------------------------------------------------------------------------
(***************************************************************************)
(* Commands on groups: what they do is what their records do.              *)
(***************************************************************************)
IsGroupCommand(c) ==
  /\ c.key \in Keys /\ c.group \in Groups
  /\ \/ c.cmd \in {"CREATE", "SETID"} /\ (c.at = "$" \/ c.id \in Ids)
     \/ c.cmd = "DESTROY"
     \/ c.cmd \in {"CREATECONSUMER", "DELCONSUMER"} /\ c.consumer \in Consumers
     \/ c.cmd = "XREADGROUP" /\ c.consumer \in Consumers /\ c.count \in Nat
     \/ c.cmd = "XACK" /\ c.ids \in SUBSET Ids

\* Nothing is done, or records are committed.
IsCommit(d, out) ==
  \/ out = Nothing(d, <<>>)
  \/ \E records \in Seq(RecordStates) : out = Commit(d, records)

LEMMA OneRecord ==
  ASSUME NEW d, NEW r \in RecordStates
  PROVE  IsCommit(d, Commit(d, <<r>>))
<1>1. <<r>> \in Seq(RecordStates)
  OBVIOUS
<1>. QED
  BY <1>1 DEF IsCommit

LEMMA CursorRecord ==
  ASSUME NEW d \in DataStates, NEW c, IsGroupCommand(c), c.cmd \in {"CREATE", "SETID"}
  PROVE  Cursor(d, c) \in RecordStates
<1>1. StreamOf(d, c.key).last \in Ids
  BY StreamOfType DEF StreamStates
<1>2. (IF c.at = "$" THEN StreamOf(d, c.key).last ELSE c.id) \in Ids
  BY <1>1 DEF IsGroupCommand
<1>. QED
  BY <1>2 DEF Cursor, RecordStates, IsGroupCommand

LEMMA ConsumerRecordType ==
  ASSUME NEW c, IsGroupCommand(c), c.consumer \in Consumers, NEW now \in 0..Top
  PROVE  NewConsumer(c, now) \in RecordStates
BY StreamsAssumption DEF NewConsumer, RecordStates, IsGroupCommand

LEMMA AttemptRecord ==
  ASSUME NEW g \in GroupStates, NEW c, IsGroupCommand(c), c.consumer \in Consumers,
         NEW id \in Ids, NEW now \in 0..Top
  PROVE  Attempt(g, c, id, now) \in RecordStates
<1>1. (IF id \in DOMAIN g.pel THEN g.pel[id].count + 1 ELSE 1) \in Nat
  <2>1. g.pel \in Partial(Ids, PendingStates)
    BY DEF GroupStates
  <2>2. g.pel \in [DOMAIN g.pel -> PendingStates]
    BY <2>1, PartialIs
  <2>. QED
    BY <2>2 DEF PendingStates
<1>. QED
  BY <1>1, StreamsAssumption DEF Attempt, RecordStates, IsGroupCommand

\* The records of an XREADGROUP.
Announced(d, c, now) == IF Knows(d, c) THEN <<>> ELSE <<NewConsumer(c, now)>>
Attempts(d, c, now, ids) ==
  [i \in DOMAIN ids |-> Attempt(d[c.key].groups[c.group], c, ids[i], now)]
Remaining(d, c) == Chosen(OldEntries(d, c), ToSet(d[c.key].ids))

LEMMA ReadGroupCases ==
  ASSUME NEW d, NEW c, NEW now, HasGroup(d, c.key, c.group)
  PROVE  XReadGroup(d, c, now) =
           IF c.at = "history"
           THEN Commit(d, Announced(d, c, now) \o Attempts(d, c, now, Remaining(d, c)))
           ELSE IF NewEntries(d, c) = <<>> THEN Commit(d, Announced(d, c, now))
           ELSE Commit(d, Announced(d, c, now)
                            \o (IF c.noack THEN <<>> ELSE Attempts(d, c, now, NewEntries(d, c)))
                            \o <<Moved(d, c)>>)
BY DEF XReadGroup, Announced, Attempts, Remaining

LEMMA ReadGroupRecords ==
  ASSUME NEW d \in DataStates, NEW c, IsGroupCommand(c), c.consumer \in Consumers,
         c.count \in Nat, NEW now \in 0..Top, HasGroup(d, c.key, c.group)
  PROVE  /\ Announced(d, c, now) \in Seq(RecordStates)
         /\ \A ids \in Seq(Ids) : Attempts(d, c, now, ids) \in Seq(RecordStates)
         /\ Remaining(d, c) \in Seq(Ids)
         /\ NewEntries(d, c) \in Seq(Ids)
         /\ NewEntries(d, c) # <<>> => Moved(d, c) \in RecordStates
<1>. DEFINE g == d[c.key].groups[c.group]
<1>1. d[c.key] \in StreamStates /\ g \in GroupStates /\ g.last \in Ids
  BY GroupType DEF GroupStates
<1>2. Announced(d, c, now) \in Seq(RecordStates)
  BY ConsumerRecordType DEF Announced
<1>3. ASSUME NEW ids \in Seq(Ids) PROVE Attempts(d, c, now, ids) \in Seq(RecordStates)
  <2>. DEFINE s == [i \in 1..Len(ids) |-> Attempt(g, c, ids[i], now)]
  <2>1. \A i \in 1..Len(ids) : ids[i] \in Ids
    OBVIOUS
  <2>2. \A i \in 1..Len(ids) : Attempt(g, c, ids[i], now) \in RecordStates
    BY <1>1, <2>1, AttemptRecord
  <2>3. s \in Seq(RecordStates)
    BY <2>2
  <2>4. Attempts(d, c, now, ids) = s
    BY DEF Attempts
  <2>. QED
    BY <2>3, <2>4
<1>4. OldEntries(d, c) \in Seq(Ids)
  BY <1>1, PendingAfterFinds DEF OldEntries
<1>5. Remaining(d, c) \in Seq(Ids)
  BY <1>4, ChosenFrom DEF Remaining
<1>6. NewEntries(d, c) \in Seq(Ids)
  BY <1>1, ReadAfterFinds DEF NewEntries
<1>7. NewEntries(d, c) # <<>> => Moved(d, c) \in RecordStates
  <2>1. NewEntries(d, c) # <<>> => Last(NewEntries(d, c)) \in Ids
    BY <1>6 DEF Last
  <2>. QED
    BY <2>1 DEF Moved, RecordStates, IsGroupCommand
<1>. QED
  BY <1>2, <1>3, <1>5, <1>6, <1>7

LEMMA ReadGroupCommits ==
  ASSUME NEW d \in DataStates, NEW c, IsGroupCommand(c), c.cmd = "XREADGROUP",
         NEW now \in 0..Top
  PROVE  IsCommit(d, XReadGroup(d, c, now))
<1>1. CASE ~HasGroup(d, c.key, c.group)
  BY <1>1 DEF XReadGroup, IsCommit
<1>2. CASE HasGroup(d, c.key, c.group)
  <2>. DEFINE known == Announced(d, c, now)
              old == Attempts(d, c, now, Remaining(d, c))
              new == IF c.noack THEN <<>> ELSE Attempts(d, c, now, NewEntries(d, c))
  <2>1. c.consumer \in Consumers /\ c.count \in Nat
    BY DEF IsGroupCommand
  <2>2. /\ known \in Seq(RecordStates) /\ old \in Seq(RecordStates)
        /\ new \in Seq(RecordStates)
        /\ NewEntries(d, c) # <<>> => <<Moved(d, c)>> \in Seq(RecordStates)
    BY <1>2, <2>1, ReadGroupRecords
  <2>3. XReadGroup(d, c, now) =
          IF c.at = "history" THEN Commit(d, known \o old)
          ELSE IF NewEntries(d, c) = <<>> THEN Commit(d, known)
          ELSE Commit(d, known \o new \o <<Moved(d, c)>>)
    BY <1>2, ReadGroupCases
  <2>. HIDE DEF known, old, new
  <2>4. /\ known \o old \in Seq(RecordStates)
        /\ NewEntries(d, c) # <<>> => known \o new \o <<Moved(d, c)>> \in Seq(RecordStates)
    BY <2>2
  <2>. QED
    BY <2>2, <2>3, <2>4 DEF IsCommit
<1>. QED
  BY <1>1, <1>2

LEMMA GroupCommandCommits ==
  ASSUME NEW d \in DataStates, NEW c, IsGroupCommand(c), NEW now \in 0..Top
  PROVE  IsCommit(d, Execute(d, c, now))
<1>0. IsCommit(d, Nothing(d, <<>>))
  BY DEF IsCommit
<1>1. CASE c.cmd = "CREATE"
  <2>1. Execute(d, c, now) = XGroupCreate(d, c)
    BY <1>1 DEF Execute
  <2>2. IsCommit(d, Commit(d, <<Cursor(d, c)>>))
    BY <1>1, CursorRecord, OneRecord
  <2>. QED
    BY <1>0, <2>1, <2>2 DEF XGroupCreate
<1>2. CASE c.cmd = "SETID"
  <2>1. Execute(d, c, now) = XGroupSetId(d, c)
    BY <1>2 DEF Execute
  <2>2. IsCommit(d, Commit(d, <<Cursor(d, c)>>))
    BY <1>2, CursorRecord, OneRecord
  <2>. QED
    BY <1>0, <2>1, <2>2 DEF XGroupSetId
<1>3. CASE c.cmd = "DESTROY"
  <2>. DEFINE r == [cmd |-> "XGDEL", key |-> c.key, group |-> c.group]
  <2>1. Execute(d, c, now) = XGroupDestroy(d, c)
    BY <1>3 DEF Execute
  <2>2. r \in RecordStates
    BY DEF RecordStates, IsGroupCommand
  <2>3. IsCommit(d, Commit(d, <<r>>))
    BY <2>2, OneRecord
  <2>. QED
    BY <1>0, <2>1, <2>3 DEF XGroupDestroy
<1>4. CASE c.cmd = "CREATECONSUMER"
  <2>1. Execute(d, c, now) = XGroupCreateConsumer(d, c, now)
    BY <1>4 DEF Execute
  <2>2. NewConsumer(c, now) \in RecordStates
    BY <1>4, ConsumerRecordType DEF IsGroupCommand
  <2>3. IsCommit(d, Commit(d, <<NewConsumer(c, now)>>))
    BY <2>2, OneRecord
  <2>. QED
    BY <1>0, <2>1, <2>3 DEF XGroupCreateConsumer
<1>5. CASE c.cmd = "DELCONSUMER"
  <2>. DEFINE r == [cmd |-> "XGCDEL", key |-> c.key, group |-> c.group, consumer |-> c.consumer]
  <2>1. Execute(d, c, now) = XGroupDelConsumer(d, c)
    BY <1>5 DEF Execute
  <2>2. r \in RecordStates
    BY <1>5 DEF RecordStates, IsGroupCommand
  <2>3. IsCommit(d, Commit(d, <<r>>))
    BY <2>2, OneRecord
  <2>. QED
    BY <1>0, <2>1, <2>3 DEF XGroupDelConsumer
<1>6. CASE c.cmd = "XREADGROUP"
  <2>1. Execute(d, c, now) = XReadGroup(d, c, now)
    BY <1>6 DEF Execute
  <2>. QED
    BY <1>6, <2>1, ReadGroupCommits
<1>7. CASE c.cmd = "XACK"
  <2>. DEFINE owned == IF HasGroup(d, c.key, c.group)
                       THEN c.ids \intersect DOMAIN d[c.key].groups[c.group].pel ELSE {}
              r == [cmd |-> "XACK", key |-> c.key, group |-> c.group, ids |-> owned]
  <2>1. Execute(d, c, now) = XAck(d, c)
    BY <1>7 DEF Execute
  <2>2. owned \in SUBSET Ids
    BY <1>7 DEF IsGroupCommand
  <2>3. r \in RecordStates
    <3>. HIDE DEF owned
    <3>. QED
      BY <2>2 DEF RecordStates, IsGroupCommand
  <2>4. IsCommit(d, Commit(d, <<r>>))
    <3>. HIDE DEF r
    <3>. QED
      BY <2>3, OneRecord
  <2>. QED
    BY <1>0, <2>1, <2>4 DEF XAck
<1>. QED
  BY <1>1, <1>2, <1>3, <1>4, <1>5, <1>6, <1>7 DEF IsGroupCommand

\* What every step of the engine lock promises of the streams d, whatever
\* the time is where its commands are forwarded to.
Faithful(d, out) ==
  /\ out.data \in DataStates
  /\ Restored(d, out.log) = out.data
  /\ \A there \in 0..Top : Replayed(d, out.sent, there) = out.data

LEMMA EmptyFolds ==
  ASSUME NEW d, NEW there
  PROVE  Restored(d, <<>>) = d /\ Replayed(d, <<>>, there) = d
<1>1. 0 \in Nat /\ DOMAIN <<>> = 1..0
  OBVIOUS
<1>. QED
  BY <1>1, RestoredSteps, ReplayedSteps

LEMMA OneForwarded ==
  ASSUME NEW d, NEW c, NEW there
  PROVE  Replayed(d, <<c>>, there) = Execute(d, c, there).data
<1>. DEFINE sent == <<c>>
            len  == 1
<1>1. len \in Nat /\ DOMAIN sent = 1..len /\ sent[1] = c
  OBVIOUS
<1>. HIDE DEF sent, len
<1>2. PICK f : /\ f[0] = d
               /\ \A n \in 1..len : f[n] = Execute(f[n - 1], sent[n], there).data
               /\ Replayed(d, sent, there) = f[len]
  BY <1>1, ReplayedSteps
<1>3. f[1] = Execute(f[0], sent[1], there).data
  <2>1. len = 1 /\ 1 \in 1..len /\ 1 - 1 = 0
    BY DEF len
  <2>2. f[1] = Execute(f[1 - 1], sent[1], there).data
    BY <1>2, <2>1
  <2>. QED
    BY <2>1, <2>2
<1>. QED
  BY <1>1, <1>2, <1>3 DEF sent, len

LEMMA OneLogged ==
  ASSUME NEW d, NEW r
  PROVE  Restored(d, <<r>>) = Redo(d, r)
<1>. DEFINE log == <<r>>
            len == 1
<1>1. len \in Nat /\ DOMAIN log = 1..len /\ log[1] = r
  OBVIOUS
<1>. HIDE DEF log, len
<1>2. PICK f : /\ f[0] = d
               /\ \A n \in 1..len : f[n] = Redo(f[n - 1], log[n])
               /\ Restored(d, log) = f[len]
  BY <1>1, RestoredSteps
<1>3. f[1] = Redo(f[0], log[1])
  <2>1. len = 1 /\ 1 \in 1..len /\ 1 - 1 = 0
    BY DEF len
  <2>2. f[1] = Redo(f[1 - 1], log[1])
    BY <1>2, <2>1
  <2>. QED
    BY <2>1, <2>2
<1>. QED
  BY <1>1, <1>2, <1>3 DEF log, len

LEMMA TwoLogged ==
  ASSUME NEW d, NEW r, NEW q
  PROVE  Restored(d, <<r, q>>) = Redo(Redo(d, r), q)
<1>. DEFINE log == <<r, q>>
            len == 2
<1>1. len \in Nat /\ DOMAIN log = 1..len /\ log[1] = r /\ log[2] = q
  OBVIOUS
<1>. HIDE DEF log, len
<1>2. PICK f : /\ f[0] = d
               /\ \A n \in 1..len : f[n] = Redo(f[n - 1], log[n])
               /\ Restored(d, log) = f[len]
  BY <1>1, RestoredSteps
<1>3. f[1] = Redo(f[0], log[1]) /\ f[2] = Redo(f[1], log[2])
  <2>1. len = 2 /\ 1 \in 1..len /\ 2 \in 1..len /\ 1 - 1 = 0 /\ 2 - 1 = 1
    BY DEF len
  <2>2. f[1] = Redo(f[1 - 1], log[1]) /\ f[2] = Redo(f[2 - 1], log[2])
    BY <1>2, <2>1
  <2>. QED
    BY <2>1, <2>2
<1>. QED
  BY <1>1, <1>2, <1>3 DEF log, len

LEMMA CommitFaithful ==
  ASSUME NEW d \in DataStates, NEW out, IsCommit(d, out)
  PROVE  Faithful(d, out) /\ SameEntries(d, out.data)
<1>1. CASE out = Nothing(d, <<>>)
  <2>1. out.data = d /\ out.log = <<>> /\ out.sent = <<>>
    BY <1>1 DEF Nothing
  <2>. QED
    BY <2>1, EmptyFolds DEF Faithful, SameEntries
<1>2. ASSUME NEW records \in Seq(RecordStates), out = Commit(d, records)
      PROVE  Faithful(d, out) /\ SameEntries(d, out.data)
  <2>1. AreRecords(records, Len(records))
    BY RecordSequence
  <2>2. out.data = Applied(d, records)
    BY <1>2 DEF Commit
  <2>3. out.data \in DataStates /\ SameEntries(d, out.data)
    BY <2>1, <2>2, AppliedKeeps
  <2>. QED
    BY <1>2, <2>1, <2>3, CommitAgrees DEF Faithful
<1>. QED
  BY <1>1, <1>2 DEF IsCommit

-----------------------------------------------------------------------------
(***************************************************************************)
(* Commands on entries.                                                    *)
(***************************************************************************)
IsEntryCommand(c) ==
  /\ c.key \in Keys
  /\ \/ /\ c = [cmd |-> "XADD", key |-> c.key, spec |-> c.spec, trim |-> c.trim,
                nomk |-> c.nomk]
        /\ c.spec \in IdSpecs /\ c.trim \in TrimForms
     \/ c.cmd = "XDEL"
     \/ c.cmd = "XTRIM" /\ c.trim \in TrimForms
     \/ c.cmd = "DEL"

\* Whether there is an identifier to be had does not depend on the clock.
LEMMA NoIdAnywhere ==
  ASSUME NEW last \in Ids, NEW spec \in IdSpecs, NEW now \in 0..Top, NEW there \in 0..Top,
         NextId(last, spec, now) = NoId
  PROVE  NextId(last, spec, there) = NoId
<1>1. /\ Top \in Nat /\ Top > 0
      /\ last = <<last[1], last[2]>> /\ last[1] \in 0..Top /\ last[2] \in 0..Top
  BY StreamsAssumption DEF Ids
<1>2. CASE spec.form = "*"
  <2>1. ~(now > last[1])
    <3>1. now > last[1] => <<now, 0>> # NoId
      BY <1>1 DEF NoId, MinId
    <3>. QED
      BY <1>2, <3>1 DEF NextId
  <2>2. last = MaxId
    <3>1. last # MaxId => Successor(last) \in Ids /\ Before(last, Successor(last))
      BY SuccessorLater
    <3>2. \A id \in Ids : ~Before(id, NoId)
      BY StreamsAssumption DEF Ids, Before, NoId, MinId
    <3>. QED
      BY <1>2, <2>1, <3>1, <3>2 DEF NextId
  <2>3. ~(there > last[1])
    BY <1>1, <2>2 DEF MaxId
  <2>. QED
    BY <1>2, <2>2, <2>3 DEF NextId
<1>3. CASE spec.form = "ms-*" \/ spec.form = "ms-seq"
  BY <1>3 DEF NextId
<1>. QED
  BY <1>2, <1>3, SpecForms

LEMMA TrimmedIs ==
  ASSUME NEW ids \in Seq(Ids), NEW t \in TrimForms
  PROVE  /\ Trimmed(ids, t) \in Seq(Ids)
         /\ ToSet(Trimmed(ids, t)) \subseteq ToSet(ids)
         /\ Ascending(ids) => Ascending(Trimmed(ids, t))
<1>. DEFINE n == CutOf(ids, t)
            u == Trimmed(ids, t)
<1>1. n \in 0..Len(ids)
  BY CutInside
<1>2. u = SubSeq(ids, n + 1, Len(ids))
  BY DEF Trimmed
<1>. HIDE DEF n, u
<1>3. /\ u \in Seq(Ids) /\ DOMAIN u = 1..(Len(ids) - n)
      /\ \A i \in DOMAIN u : i + n \in DOMAIN ids /\ u[i] = ids[i + n]
  BY <1>1, <1>2
<1>4. ToSet(u) \subseteq ToSet(ids)
  BY <1>3 DEF ToSet
<1>5. ASSUME Ascending(ids), NEW i \in DOMAIN u, NEW j \in DOMAIN u, i < j
      PROVE  Before(u[i], u[j])
  <2>1. i + n \in DOMAIN ids /\ j + n \in DOMAIN ids /\ i + n < j + n
    BY <1>1, <1>3, <1>5
  <2>2. Before(ids[i + n], ids[j + n])
    BY <1>5, <2>1 DEF Ascending
  <2>. QED
    BY <1>3, <2>2
<1>6. Ascending(ids) => Ascending(u)
  BY <1>5 DEF Ascending
<1>. QED
  BY <1>3, <1>4, <1>6 DEF u

LEMMA StreamPut ==
  ASSUME NEW d \in DataStates, NEW k \in Keys, NEW s \in StreamStates
  PROVE  With(d, k, s) \in DataStates
BY PartialWith DEF DataStates

LEMMA GrownIs ==
  ASSUME NEW s \in StreamStates, NEW id
  PROVE  Grown(s, id) \in [ids : {Append(s.ids, id)}, last : {id}, added : {s.added + 1},
                           groups : {s.groups}]
BY DEF Grown, StreamStates

LEMMA AddGives ==
  ASSUME NEW d \in DataStates, NEW c, c.key \in Keys, c.spec \in IdSpecs,
         c.trim \in TrimForms, NEW now \in 0..Top
  PROVE  LET s   == StreamOf(d, c.key)
             id  == NextId(s.last, c.spec, now)
             new == [Grown(s, id) EXCEPT !.ids = Trimmed(@, c.trim)]
         IN  /\ s \in StreamStates
             /\ ~(id = NoId \/ (c.nomk /\ c.key \notin DOMAIN d)) =>
                  /\ id \in Ids /\ Before(s.last, id)
                  /\ XAdd(d, c, now).data = With(d, c.key, new)
                  /\ new \in StreamStates
                  /\ new.ids = Trimmed(Append(s.ids, id), c.trim)
                  /\ new.last = id /\ new.added = s.added + 1 /\ new.groups = s.groups
<1>. DEFINE s   == StreamOf(d, c.key)
            id  == NextId(s.last, c.spec, now)
            ids == Trimmed(Append(s.ids, id), c.trim)
            new == [Grown(s, id) EXCEPT !.ids = Trimmed(@, c.trim)]
<1>1. /\ s \in StreamStates /\ s.ids \in Seq(Ids) /\ s.last \in Ids /\ s.added \in Nat
      /\ s.groups \in Partial(Groups, GroupStates)
      /\ s = [ids |-> s.ids, last |-> s.last, added |-> s.added, groups |-> s.groups]
  BY StreamOfType DEF StreamStates
<1>2. ASSUME ~(id = NoId \/ (c.nomk /\ c.key \notin DOMAIN d))
      PROVE  /\ id \in Ids /\ Before(s.last, id)
             /\ XAdd(d, c, now).data = With(d, c.key, new)
             /\ new \in StreamStates
             /\ new.ids = ids
             /\ new.last = id /\ new.added = s.added + 1 /\ new.groups = s.groups
  <2>1. id \in Ids /\ Before(s.last, id)
    BY <1>1, <1>2, NewIdsAreLater
  <2>2. XAdd(d, c, now).data = With(d, c.key, new)
    BY <1>2 DEF XAdd
  <2>3. Append(s.ids, id) \in Seq(Ids)
    BY <1>1, <2>1
  <2>4. ids \in Seq(Ids)
    BY <2>3, TrimmedIs
  <2>. HIDE DEF s, id
  <2>5. new \in [ids : {ids}, last : {id}, added : {s.added + 1}, groups : {s.groups}]
    <3>. DEFINE grown == Grown(s, id)
    <3>1. grown \in [ids : {Append(s.ids, id)}, last : {id}, added : {s.added + 1},
                     groups : {s.groups}]
      BY <1>1, GrownIs
    <3>2. new = [grown EXCEPT !.ids = ids]
      BY <3>1
    <3>. HIDE DEF grown, new, ids
    <3>. QED
      BY <3>1, <3>2
  <2>6. s.added + 1 \in Nat
    BY <1>1
  <2>. HIDE DEF ids, new
  <2>7. new \in StreamStates
    BY <1>1, <2>1, <2>4, <2>5, <2>6 DEF StreamStates
  <2>. QED
    BY <2>1, <2>2, <2>5, <2>7 DEF s, id
<1>. QED
  BY <1>1, <1>2

LEMMA AddFaithful ==
  ASSUME NEW d \in DataStates, NEW c, IsEntryCommand(c), c.cmd = "XADD", NEW now \in 0..Top
  PROVE  Faithful(d, XAdd(d, c, now))
<1>. DEFINE s   == StreamOf(d, c.key)
            id  == NextId(s.last, c.spec, now)
            out == XAdd(d, c, now)
<1>1. /\ c = [cmd |-> "XADD", key |-> c.key, spec |-> c.spec, trim |-> c.trim,
              nomk |-> c.nomk]
      /\ c.key \in Keys /\ c.spec \in IdSpecs /\ c.trim \in TrimForms
  BY DEF IsEntryCommand
<1>2. /\ s \in StreamStates /\ s.ids \in Seq(Ids) /\ s.last \in Ids
      /\ s = [ids |-> s.ids, last |-> s.last, added |-> s.added, groups |-> s.groups]
  BY StreamOfType DEF StreamStates
<1>3. \A x, there : x.cmd = "XADD" => Execute(d, x, there) = XAdd(d, x, there)
  BY DEF Execute
<1>4. CASE id = NoId \/ (c.nomk /\ c.key \notin DOMAIN d)
  <2>1. out.data = d /\ out.log = <<>> /\ out.sent = <<c>>
    BY <1>4 DEF XAdd, Nothing
  <2>2. ASSUME NEW there \in 0..Top PROVE XAdd(d, c, there).data = d
    <3>1. \/ NextId(s.last, c.spec, there) = NoId
          \/ c.nomk /\ c.key \notin DOMAIN d
      BY <1>1, <1>2, <1>4, NoIdAnywhere
    <3>. QED
      BY <3>1 DEF XAdd, Nothing
  <2>3. ASSUME NEW there \in 0..Top PROVE Replayed(d, out.sent, there) = out.data
    BY <1>1, <1>3, <2>1, <2>2, OneForwarded
  <2>4. Restored(d, out.log) = out.data
    BY <2>1, EmptyFolds
  <2>. QED
    BY <2>1, <2>3, <2>4 DEF Faithful
<1>5. CASE ~(id = NoId \/ (c.nomk /\ c.key \notin DOMAIN d))
  <2>. DEFINE new == [Grown(s, id) EXCEPT !.ids = Trimmed(@, c.trim)]
              x == [c EXCEPT !.spec = Exactly(id)]
  <2>1. /\ id \in Ids /\ Before(s.last, id) /\ out.data = With(d, c.key, new)
        /\ new \in StreamStates /\ new.last = id
    BY <1>1, <1>5, AddGives
  <2>2. out.data \in DataStates
    BY <1>1, <2>1, StreamPut
  <2>3. out.data # d
    <3>. HIDE DEF new, id, out
    <3>1. CASE c.key \notin DOMAIN d
      BY <2>1, <3>1 DEF With
    <3>2. CASE c.key \in DOMAIN d
      <4>1. out.data[c.key].last = id /\ d[c.key].last = s.last
        BY <2>1, <3>2 DEF With, StreamOf
      <4>2. ~Before(id, id)
        BY <2>1, BeforeOrders
      <4>. QED
        BY <2>1, <4>1, <4>2
    <3>. QED
      BY <3>1, <3>2
  <2>4. out.sent = <<x>> /\ x.cmd = "XADD"
    BY <1>1, <1>5 DEF XAdd
  <2>5. ASSUME NEW there \in 0..Top PROVE Replayed(d, out.sent, there) = out.data
    <3>1. XAdd(d, out.sent[1], there).data = out.data
      BY <1>1, <1>2, <2>3, ForwardedAddAgrees
    <3>2. out.sent[1] = x
      BY <2>4
    <3>. HIDE DEF x, out
    <3>. QED
      BY <1>3, <2>4, <3>1, <3>2, OneForwarded
  <2>6. Restored(d, out.log) = out.data
    <3>1. \/ out.log = <<Entry(c.key, id)>>
          \/ out.log = <<Entry(c.key, id), Cut(c.key, Len(new.ids))>>
      BY <1>5 DEF XAdd
    <3>. HIDE DEF id, new
    <3>2. out.log # <<>>
      <4>. HIDE DEF out
      <4>1. Len(out.log) # 0
        BY <3>1
      <4>. QED
        BY <4>1
    <3>3. LET after == Redo(d, out.log[1])
          IN  out.data = IF Len(out.log) = 1 THEN after ELSE Redo(after, out.log[2])
      BY <1>1, <1>2, <3>2, LoggedAddAgrees
    <3>. HIDE DEF out
    <3>4. CASE out.log = <<Entry(c.key, id)>>
      BY <3>3, <3>4, OneLogged
    <3>5. CASE out.log = <<Entry(c.key, id), Cut(c.key, Len(new.ids))>>
      BY <3>3, <3>5, TwoLogged
    <3>. QED
      BY <3>1, <3>4, <3>5
  <2>. QED
    BY <2>2, <2>5, <2>6 DEF Faithful
<1>. QED
  BY <1>4, <1>5

LEMMA EntriesPut ==
  ASSUME NEW d \in DataStates, NEW k \in DOMAIN d, NEW ids \in Seq(Ids)
  PROVE  /\ [d EXCEPT ![k].ids = ids] \in DataStates
         /\ d[k] \in StreamStates
         /\ StreamOf(d, k) = d[k]
<1>1. DOMAIN d \in SUBSET Keys /\ IsFiniteSet(DOMAIN d) /\ d \in [DOMAIN d -> StreamStates]
  BY PartialIs DEF DataStates
<1>2. d[k] \in StreamStates /\ StreamOf(d, k) = d[k]
  BY <1>1 DEF StreamOf
<1>. DEFINE e == [d EXCEPT ![k].ids = ids]
<1>3. [d[k] EXCEPT !.ids = ids] \in StreamStates
  BY <1>2 DEF StreamStates
<1>4. DOMAIN e = DOMAIN d /\ e \in [DOMAIN d -> StreamStates]
  BY <1>1, <1>3
<1>. HIDE DEF e
<1>5. e \in DataStates
  BY <1>1, <1>4, PartialIs DEF DataStates
<1>. QED
  BY <1>2, <1>5 DEF e

LEMMA RemovedIs ==
  ASSUME NEW ids \in Seq(Ids), NEW S
  PROVE  /\ Removed(ids, S) \in Seq(Ids)
         /\ ToSet(Removed(ids, S)) \subseteq ToSet(ids)
         /\ Ascending(ids) => Ascending(Removed(ids, S))
BY ChosenFrom DEF Removed

LEMMA DelEntryFaithful ==
  ASSUME NEW d \in DataStates, NEW c, c.cmd = "XDEL"
  PROVE  Faithful(d, XDel(d, c))
<1>. DEFINE ids  == StreamOf(d, c.key).ids
            kept == Removed(ids, c.ids)
            out  == XDel(d, c)
<1>1. ids \in Seq(Ids)
  BY StreamOfType DEF StreamStates
<1>2. kept \in Seq(Ids)
  BY <1>1, RemovedIs
<1>3. \A x, there : x.cmd = "XDEL" => Execute(d, x, there) = XDel(d, x)
  BY DEF Execute
<1>4. \A there : Replayed(d, <<c>>, there) = out.data
  BY <1>3, OneForwarded
<1>5. CASE kept = ids
  <2>1. out.data = d /\ out.log = <<>> /\ out.sent = <<c>>
    BY <1>5 DEF XDel, Nothing
  <2>. QED
    BY <1>4, <2>1, EmptyFolds DEF Faithful
<1>6. CASE kept # ids
  <2>1. out.data = [d EXCEPT ![c.key].ids = kept] /\ out.log = <<c>> /\ out.sent = <<c>>
    BY <1>6 DEF XDel
  <2>2. c.key \in DOMAIN d
    <3>1. ASSUME c.key \notin DOMAIN d PROVE kept = ids
      <4>1. ids = <<>> /\ DOMAIN ids = {}
        BY <3>1 DEF StreamOf, NewStream
      <4>. HIDE DEF ids
      <4>2. ToSet(kept) = {}
        BY <1>1, <4>1, RemovedIs DEF ToSet
      <4>. HIDE DEF kept
      <4>3. DOMAIN kept = {}
        BY <4>2 DEF ToSet
      <4>. QED
        BY <1>2, <4>1, <4>3
    <3>. QED
      BY <1>6, <3>1
  <2>3. out.data \in DataStates /\ d[c.key].ids = ids
    BY <1>2, <2>1, <2>2, EntriesPut
  <2>4. Redo(d, c) = [d EXCEPT ![c.key].ids = kept]
    BY <2>2, <2>3 DEF Redo
  <2>. HIDE DEF out
  <2>5. Restored(d, out.log) = out.data
    <3>1. Restored(d, <<c>>) = Redo(d, c)
      BY OneLogged
    <3>. QED
      BY <2>1, <2>4, <3>1
  <2>6. Faithful(d, out)
    BY <1>4, <2>1, <2>3, <2>5 DEF Faithful
  <2>. QED
    BY <2>6 DEF out
<1>. QED
  BY <1>5, <1>6

LEMMA TrimFaithful ==
  ASSUME NEW d \in DataStates, NEW c, c.cmd = "XTRIM", c.trim \in TrimForms
  PROVE  Faithful(d, XTrim(d, c))
<1>. DEFINE ids  == StreamOf(d, c.key).ids
            kept == Trimmed(ids, c.trim)
            out  == XTrim(d, c)
<1>1. ids \in Seq(Ids)
  BY StreamOfType DEF StreamStates
<1>2. kept \in Seq(Ids)
  BY <1>1, TrimmedIs
<1>3. \A x, there : x.cmd = "XTRIM" => Execute(d, x, there) = XTrim(d, x)
  BY DEF Execute
<1>4. \A there : Replayed(d, <<c>>, there) = out.data
  BY <1>3, OneForwarded
<1>5. CASE kept = ids
  <2>1. out.data = d /\ out.log = <<>> /\ out.sent = <<c>>
    BY <1>5 DEF XTrim, Nothing
  <2>. QED
    BY <1>4, <2>1, EmptyFolds DEF Faithful
<1>6. CASE kept # ids
  <2>. DEFINE r == Cut(c.key, Len(kept))
  <2>1. out.data = [d EXCEPT ![c.key].ids = kept] /\ out.log = <<r>> /\ out.sent = <<c>>
    BY <1>6 DEF XTrim
  <2>2. c.key \in DOMAIN d
    <3>1. ASSUME c.key \notin DOMAIN d PROVE kept = ids
      <4>1. ids = <<>> /\ DOMAIN ids = {}
        BY <3>1 DEF StreamOf, NewStream
      <4>. HIDE DEF ids
      <4>2. ToSet(kept) = {}
        BY <1>1, <4>1, TrimmedIs DEF ToSet
      <4>. HIDE DEF kept
      <4>3. DOMAIN kept = {}
        BY <4>2 DEF ToSet
      <4>. QED
        BY <1>2, <4>1, <4>3
    <3>. QED
      BY <1>6, <3>1
  <2>3. out.data \in DataStates /\ d[c.key].ids = ids
    BY <1>2, <2>1, <2>2, EntriesPut
  <2>4. Redo(d, r) = [d EXCEPT ![c.key].ids = kept]
    <3>1. r.cmd = "XTRIM" /\ r.key = c.key /\ r.trim = ToLength(Len(kept))
      BY DEF Cut
    <3>. HIDE DEF r
    <3>2. Redo(d, r) = [d EXCEPT ![c.key].ids = Trimmed(ids, r.trim)]
      BY <2>2, <2>3, <3>1 DEF Redo
    <3>3. Trimmed(ids, r.trim) = kept
      BY <1>1, <3>1, TrimIsToLength
    <3>. QED
      BY <3>2, <3>3
  <2>. HIDE DEF out, r
  <2>5. Restored(d, out.log) = out.data
    <3>1. Restored(d, <<r>>) = Redo(d, r)
      BY OneLogged
    <3>. QED
      BY <2>1, <2>4, <3>1
  <2>6. Faithful(d, out)
    BY <1>4, <2>1, <2>3, <2>5 DEF Faithful
  <2>. QED
    BY <2>6 DEF out
<1>. QED
  BY <1>5, <1>6

LEMMA DelFaithful ==
  ASSUME NEW d \in DataStates, NEW c, c.cmd = "DEL"
  PROVE  Faithful(d, Del(d, c))
<1>. DEFINE out == Del(d, c)
<1>1. \A x, there : x.cmd = "DEL" => Execute(d, x, there) = Del(d, x)
  BY DEF Execute
<1>2. \A there : Replayed(d, <<c>>, there) = out.data
  BY <1>1, OneForwarded
<1>3. CASE c.key \in DOMAIN d
  <2>1. out.data = Without(d, {c.key}) /\ out.log = <<c>> /\ out.sent = <<c>>
    BY <1>3 DEF Del
  <2>2. out.data \in DataStates
    <3>1. Without(d, {c.key}) \in Partial(Keys, StreamStates)
      BY PartialWithout DEF DataStates
    <3>. QED
      BY <2>1, <3>1 DEF DataStates
  <2>3. Redo(d, c) = Without(d, {c.key})
    BY DEF Redo
  <2>. QED
    BY <1>2, <2>1, <2>2, <2>3, OneLogged DEF Faithful
<1>4. CASE c.key \notin DOMAIN d
  <2>1. out.data = d /\ out.log = <<>> /\ out.sent = <<c>>
    BY <1>4 DEF Del, Nothing
  <2>. QED
    BY <1>2, <2>1, EmptyFolds DEF Faithful
<1>. QED
  BY <1>3, <1>4

\* Any command leaves the log and the followers with what it left the master.
LEMMA CommandFaithful ==
  ASSUME NEW d \in DataStates, NEW c, IsEntryCommand(c) \/ IsGroupCommand(c),
         NEW now \in 0..Top
  PROVE  Faithful(d, Execute(d, c, now))
<1>1. CASE IsGroupCommand(c)
  BY <1>1, GroupCommandCommits, CommitFaithful
<1>2. CASE IsEntryCommand(c) /\ c.cmd = "XADD"
  <2>1. Execute(d, c, now) = XAdd(d, c, now)
    BY <1>2 DEF Execute
  <2>. QED
    BY <1>2, <2>1, AddFaithful
<1>3. CASE c.cmd = "XDEL"
  <2>1. Execute(d, c, now) = XDel(d, c)
    BY <1>3 DEF Execute
  <2>. QED
    BY <1>3, <2>1, DelEntryFaithful
<1>4. CASE c.cmd = "XTRIM" /\ c.trim \in TrimForms
  <2>1. Execute(d, c, now) = XTrim(d, c)
    BY <1>4 DEF Execute
  <2>. QED
    BY <1>4, <2>1, TrimFaithful
<1>5. CASE c.cmd = "DEL"
  <2>1. Execute(d, c, now) = Del(d, c)
    BY <1>5 DEF Execute
  <2>. QED
    BY <1>5, <2>1, DelFaithful
<1>6. IsEntryCommand(c) => \/ c.cmd = "XADD"
                           \/ c.cmd = "XDEL"
                           \/ c.cmd = "XTRIM" /\ c.trim \in TrimForms
                           \/ c.cmd = "DEL"
  BY DEF IsEntryCommand
<1>. QED
  BY <1>1, <1>2, <1>3, <1>4, <1>5, <1>6

-----------------------------------------------------------------------------
(***************************************************************************)
(* The order of the entries.                                               *)
(***************************************************************************)
Orderly(d) ==
  \A k \in DOMAIN d : /\ Ascending(d[k].ids)
                      /\ \A id \in ToSet(d[k].ids) : id # MinId /\ ~Before(d[k].last, id)

Grows(d, e) ==
  \A k \in DOMAIN d \intersect DOMAIN e :
    IF e[k].added = d[k].added
    THEN e[k].last = d[k].last /\ ToSet(e[k].ids) \subseteq ToSet(d[k].ids)
    ELSE /\ Before(d[k].last, e[k].last)
         /\ ToSet(e[k].ids) \subseteq ToSet(d[k].ids) \union {e[k].last}

LEMMA NothingBeforeMin ==
  /\ MinId \in Ids
  /\ \A id \in Ids : ~Before(id, MinId)
BY StreamsAssumption DEF MinId, Ids, Before

LEMMA SameIsOrderly ==
  ASSUME NEW d, NEW e, Orderly(d), SameEntries(d, e)
  PROVE  Orderly(e) /\ Grows(d, e)
<1>1. ASSUME NEW k \in DOMAIN e, k \in DOMAIN d
      PROVE  /\ Ascending(e[k].ids)
             /\ \A id \in ToSet(e[k].ids) : id # MinId /\ ~Before(e[k].last, id)
  BY <1>1 DEF Orderly, SameEntries
<1>2. ASSUME NEW k \in DOMAIN e, k \notin DOMAIN d
      PROVE  /\ Ascending(e[k].ids)
             /\ \A id \in ToSet(e[k].ids) : id # MinId /\ ~Before(e[k].last, id)
  <2>1. e[k].ids = <<>> /\ DOMAIN <<>> = {}
    BY <1>2 DEF SameEntries
  <2>. QED
    BY <2>1 DEF Ascending, ToSet
<1>3. Grows(d, e)
  BY DEF Grows, SameEntries
<1>. QED
  BY <1>1, <1>2, <1>3 DEF Orderly

\* Entries were taken away from one stream.
LEMMA FewerIsOrderly ==
  ASSUME NEW d \in DataStates, Orderly(d), NEW k \in DOMAIN d, NEW ids \in Seq(Ids),
         ToSet(ids) \subseteq ToSet(d[k].ids),
         Ascending(d[k].ids) => Ascending(ids)
  PROVE  Orderly([d EXCEPT ![k].ids = ids]) /\ Grows(d, [d EXCEPT ![k].ids = ids])
<1>. DEFINE e == [d EXCEPT ![k].ids = ids]
<1>1. d[k] \in StreamStates
  BY EntriesPut
<1>2. /\ DOMAIN e = DOMAIN d
      /\ e[k].ids = ids /\ e[k].last = d[k].last /\ e[k].added = d[k].added
      /\ \A j \in DOMAIN d \ {k} : e[j] = d[j]
  BY <1>1 DEF StreamStates
<1>. HIDE DEF e
<1>3. Orderly(e)
  BY <1>2 DEF Orderly
<1>4. Grows(d, e)
  BY <1>2 DEF Grows
<1>. QED
  BY <1>3, <1>4 DEF e

LEMMA AddOrderly ==
  ASSUME NEW d \in DataStates, Orderly(d), NEW c, IsEntryCommand(c), c.cmd = "XADD",
         NEW now \in 0..Top
  PROVE  Orderly(XAdd(d, c, now).data) /\ Grows(d, XAdd(d, c, now).data)
<1>. DEFINE k   == c.key
            s   == StreamOf(d, k)
            id  == NextId(s.last, c.spec, now)
            new == [Grown(s, id) EXCEPT !.ids = Trimmed(@, c.trim)]
            e   == XAdd(d, c, now).data
<1>1. c.key \in Keys /\ c.spec \in IdSpecs /\ c.trim \in TrimForms
  BY DEF IsEntryCommand
<1>2. CASE id = NoId \/ (c.nomk /\ c.key \notin DOMAIN d)
  <2>1. e = d
    BY <1>2 DEF XAdd, Nothing
  <2>2. SameEntries(d, d)
    BY DEF SameEntries
  <2>. QED
    BY <2>1, <2>2, SameIsOrderly
<1>3. CASE ~(id = NoId \/ (c.nomk /\ c.key \notin DOMAIN d))
  <2>. DEFINE longer == Append(s.ids, id)
  <2>1. /\ s \in StreamStates /\ id \in Ids /\ Before(s.last, id) /\ e = With(d, k, new)
        /\ new.ids = Trimmed(longer, c.trim) /\ new.last = id /\ new.added = s.added + 1
    BY <1>1, <1>3, AddGives
  <2>2. s.ids \in Seq(Ids) /\ s.last \in Ids /\ s.added \in Nat
    BY <2>1 DEF StreamStates
  <2>3. Ascending(s.ids) /\ \A i \in ToSet(s.ids) : i # MinId /\ ~Before(s.last, i)
    <3>1. CASE k \in DOMAIN d
      BY <3>1 DEF Orderly, StreamOf
    <3>2. CASE k \notin DOMAIN d
      <4>1. s.ids = <<>> /\ DOMAIN <<>> = {}
        BY <3>2 DEF StreamOf, NewStream
      <4>. QED
        BY <4>1 DEF Ascending, ToSet
    <3>. QED
      BY <3>1, <3>2
  <2>4. k \in DOMAIN d => d[k] = s
    BY DEF StreamOf
  <2>. HIDE DEF s, id, new, e
  <2>5. /\ longer \in Seq(Ids) /\ Len(s.ids) \in Nat
        /\ DOMAIN s.ids = 1..Len(s.ids) /\ DOMAIN longer = 1..(Len(s.ids) + 1)
        /\ longer[Len(s.ids) + 1] = id
        /\ \A i \in DOMAIN s.ids : longer[i] = s.ids[i] /\ s.ids[i] \in Ids
    BY <2>1, <2>2
  <2>. HIDE DEF longer
  <2>6. ToSet(longer) \subseteq ToSet(s.ids) \union {id}
    BY <2>5 DEF ToSet
  <2>7. \A i \in DOMAIN s.ids : Before(s.ids[i], id)
    <3>1. ASSUME NEW i \in DOMAIN s.ids PROVE Before(s.ids[i], id)
      <4>1. s.ids[i] \in Ids /\ ~Before(s.last, s.ids[i])
        BY <2>3, <2>5 DEF ToSet
      <4>2. s.ids[i] = s.last \/ Before(s.ids[i], s.last)
        BY <2>2, <4>1, BeforeOrders
      <4>. QED
        BY <2>1, <2>2, <4>1, <4>2, BeforeOrders
    <3>. QED
      BY <3>1
  <2>8. Ascending(longer)
    <3>1. ASSUME NEW i \in DOMAIN longer, NEW j \in DOMAIN longer, i < j
          PROVE  Before(longer[i], longer[j])
      <4>1. i \in DOMAIN s.ids
        BY <2>5, <3>1
      <4>2. CASE j = Len(s.ids) + 1
        BY <2>5, <2>7, <4>1, <4>2
      <4>3. CASE j \in DOMAIN s.ids
        <5>1. Before(s.ids[i], s.ids[j])
          BY <2>3, <3>1, <4>1, <4>3 DEF Ascending
        <5>. QED
          BY <2>5, <4>1, <4>3, <5>1
      <4>. QED
        BY <2>5, <4>2, <4>3
    <3>. QED
      BY <3>1 DEF Ascending
  <2>9. Ascending(new.ids) /\ ToSet(new.ids) \subseteq ToSet(s.ids) \union {id}
    BY <1>1, <2>1, <2>5, <2>6, <2>8, TrimmedIs
  <2>10. \A i \in ToSet(s.ids) \union {id} : i # MinId /\ ~Before(id, i)
    <3>1. ASSUME NEW i \in ToSet(s.ids) PROVE i # MinId /\ ~Before(id, i)
      <4>1. PICK j \in DOMAIN s.ids : i = s.ids[j]
        BY <3>1 DEF ToSet
      <4>2. i \in Ids /\ Before(i, id)
        BY <2>5, <2>7, <4>1
      <4>. QED
        BY <2>1, <2>3, <3>1, <4>2, BeforeOrders
    <3>2. id # MinId
      BY <2>1, <2>2, NothingBeforeMin
    <3>. QED
      BY <2>1, <3>1, <3>2, BeforeOrders
  <2>11. /\ DOMAIN e = DOMAIN d \union {k} /\ e[k] = new
         /\ \A j \in DOMAIN d \ {k} : e[j] = d[j]
    BY <2>1 DEF With
  <2>. HIDE DEF k
  <2>12. Orderly(e)
    <3>1. ASSUME NEW j \in DOMAIN e
          PROVE  /\ Ascending(e[j].ids)
                 /\ \A i \in ToSet(e[j].ids) : i # MinId /\ ~Before(e[j].last, i)
      <4>1. CASE j = k
        BY <2>1, <2>9, <2>10, <2>11, <4>1
      <4>2. CASE j # k
        BY <2>11, <4>2 DEF Orderly
      <4>. QED
        BY <4>1, <4>2
    <3>. QED
      BY <3>1 DEF Orderly
  <2>13. Grows(d, e)
    <3>1. s.added + 1 # s.added
      BY <2>2
    <3>2. ASSUME NEW j \in DOMAIN d \intersect DOMAIN e
          PROVE  IF e[j].added = d[j].added
                 THEN e[j].last = d[j].last /\ ToSet(e[j].ids) \subseteq ToSet(d[j].ids)
                 ELSE /\ Before(d[j].last, e[j].last)
                      /\ ToSet(e[j].ids) \subseteq ToSet(d[j].ids) \union {e[j].last}
      <4>1. CASE j = k
        BY <2>1, <2>4, <2>9, <2>11, <3>1, <4>1
      <4>2. CASE j # k
        BY <2>11, <4>2
      <4>. QED
        BY <4>1, <4>2
    <3>. QED
      BY <3>2 DEF Grows
  <2>. QED
    BY <2>12, <2>13 DEF e
<1>. QED
  BY <1>2, <1>3

LEMMA CommandOrderly ==
  ASSUME NEW d \in DataStates, Orderly(d), NEW c, IsEntryCommand(c) \/ IsGroupCommand(c),
         NEW now \in 0..Top
  PROVE  Orderly(Execute(d, c, now).data) /\ Grows(d, Execute(d, c, now).data)
<1>. DEFINE out == Execute(d, c, now)
            ids == StreamOf(d, c.key).ids
<1>0. ids \in Seq(Ids) /\ (c.key \in DOMAIN d => d[c.key].ids = ids)
  BY StreamOfType DEF StreamStates
<1>1. CASE IsGroupCommand(c)
  BY <1>1, GroupCommandCommits, CommitFaithful, SameIsOrderly
<1>2. CASE IsEntryCommand(c) /\ c.cmd = "XADD"
  <2>1. out = XAdd(d, c, now)
    BY <1>2 DEF Execute
  <2>. QED
    BY <1>2, <2>1, AddOrderly
<1>3. CASE out.data = d
  <2>1. SameEntries(d, d)
    BY DEF SameEntries
  <2>. QED
    BY <1>3, <2>1, SameIsOrderly
<1>4. CASE c.cmd = "XDEL"
  <2>. DEFINE kept == Removed(ids, c.ids)
  <2>1. out = XDel(d, c)
    BY <1>4 DEF Execute
  <2>2. kept \in Seq(Ids) /\ ToSet(kept) \subseteq ToSet(ids)
        /\ (Ascending(ids) => Ascending(kept))
    BY <1>0, RemovedIs
  <2>3. out.data = d \/ out.data = [d EXCEPT ![c.key].ids = kept]
    BY <2>1 DEF XDel, Nothing
  <2>4. CASE c.key \notin DOMAIN d
    <3>1. [d EXCEPT ![c.key].ids = kept] = d
      BY <2>4, PartialIs DEF DataStates
    <3>. QED
      BY <1>3, <2>3, <3>1
  <2>5. CASE c.key \in DOMAIN d
    <3>. HIDE DEF out, kept, ids
    <3>1. Orderly([d EXCEPT ![c.key].ids = kept]) /\ Grows(d, [d EXCEPT ![c.key].ids = kept])
      BY <1>0, <2>2, <2>5, FewerIsOrderly
    <3>. QED
      BY <1>3, <2>3, <3>1 DEF out
  <2>. QED
    BY <2>4, <2>5
<1>5. CASE c.cmd = "XTRIM" /\ c.trim \in TrimForms
  <2>. DEFINE kept == Trimmed(ids, c.trim)
  <2>1. out = XTrim(d, c)
    BY <1>5 DEF Execute
  <2>2. kept \in Seq(Ids) /\ ToSet(kept) \subseteq ToSet(ids)
        /\ (Ascending(ids) => Ascending(kept))
    BY <1>0, <1>5, TrimmedIs
  <2>3. out.data = d \/ out.data = [d EXCEPT ![c.key].ids = kept]
    BY <2>1 DEF XTrim, Nothing
  <2>4. CASE c.key \notin DOMAIN d
    <3>1. [d EXCEPT ![c.key].ids = kept] = d
      BY <2>4, PartialIs DEF DataStates
    <3>. QED
      BY <1>3, <2>3, <3>1
  <2>5. CASE c.key \in DOMAIN d
    <3>. HIDE DEF out, kept, ids
    <3>1. Orderly([d EXCEPT ![c.key].ids = kept]) /\ Grows(d, [d EXCEPT ![c.key].ids = kept])
      BY <1>0, <2>2, <2>5, FewerIsOrderly
    <3>. QED
      BY <1>3, <2>3, <3>1 DEF out
  <2>. QED
    BY <2>4, <2>5
<1>6. CASE c.cmd = "DEL"
  <2>1. out = Del(d, c)
    BY <1>6 DEF Execute
  <2>2. out.data = d \/ out.data = Without(d, {c.key})
    BY <2>1 DEF Del, Nothing
  <2>. DEFINE e == Without(d, {c.key})
  <2>3. DOMAIN e \subseteq DOMAIN d /\ \A j \in DOMAIN e : e[j] = d[j]
    BY DEF Without, Restrict
  <2>. HIDE DEF e
  <2>4. Orderly(e) /\ Grows(d, e)
    BY <2>3 DEF Orderly, Grows
  <2>. QED
    BY <1>3, <2>2, <2>4 DEF e
<1>7. IsEntryCommand(c) => \/ c.cmd = "XADD"
                           \/ c.cmd = "XDEL"
                           \/ c.cmd = "XTRIM" /\ c.trim \in TrimForms
                           \/ c.cmd = "DEL"
  BY DEF IsEntryCommand
<1>. QED
  BY <1>1, <1>2, <1>4, <1>5, <1>6, <1>7

-----------------------------------------------------------------------------
(***************************************************************************)
(* The owners of pending entries: they exist, and were heard of no earlier *)
(* than they were given what they have.                                    *)
(***************************************************************************)
OwnedInTime(g) ==
  \A i \in DOMAIN g.pel :
    /\ g.pel[i].consumer \in DOMAIN g.consumers
    /\ g.pel[i].at <= g.consumers[g.pel[i].consumer].seen
    /\ g.pel[i].at <= g.consumers[g.pel[i].consumer].active

InTime(d) == \A k \in DOMAIN d : \A g \in DOMAIN d[k].groups : OwnedInTime(d[k].groups[g])

LEMMA GroupIs ==
  ASSUME NEW g \in GroupStates
  PROVE  /\ g.last \in Ids
         /\ DOMAIN g.consumers \in SUBSET Consumers /\ IsFiniteSet(DOMAIN g.consumers)
         /\ g.consumers \in [DOMAIN g.consumers -> ConsumerStates]
         /\ DOMAIN g.pel \in SUBSET Ids /\ IsFiniteSet(DOMAIN g.pel)
         /\ g.pel \in [DOMAIN g.pel -> PendingStates]
<1>1. /\ g.last \in Ids /\ g.consumers \in Partial(Consumers, ConsumerStates)
      /\ g.pel \in Partial(Ids, PendingStates)
  BY DEF GroupStates
<1>. QED
  BY <1>1, PartialIs

LEMMA HeardLater ==
  ASSUME NEW g \in GroupStates, NEW c \in Consumers, NEW seen \in Int, NEW active \in Int
  PROVE  LET h == Heard(g, c, seen, active).consumers
         IN  /\ \A x \in DOMAIN g.consumers :
                  x \in DOMAIN h /\ h[x].seen >= g.consumers[x].seen
                                 /\ h[x].active >= g.consumers[x].active
             /\ c \in DOMAIN h /\ h[c].seen >= seen /\ h[c].active >= active
<1>. DEFINE old == IF c \in DOMAIN g.consumers THEN g.consumers[c]
                   ELSE [seen |-> seen, active |-> active]
            new == [seen |-> LaterOf(old.seen, seen), active |-> LaterOf(old.active, active)]
            h   == Heard(g, c, seen, active).consumers
<1>1. g.consumers \in [DOMAIN g.consumers -> ConsumerStates]
  BY GroupIs
<1>2. old.seen \in Int /\ old.active \in Int
  BY <1>1 DEF ConsumerStates
<1>3. h = With(g.consumers, c, new)
  BY DEF Heard, GroupStates
<1>4. DOMAIN h = DOMAIN g.consumers \union {c} /\ h[c] = new
      /\ \A x \in DOMAIN g.consumers \ {c} : h[x] = g.consumers[x]
  <2>. HIDE DEF new, h
  <2>. QED
    BY <1>3 DEF With
<1>. HIDE DEF h
<1>5. /\ new.seen >= seen /\ new.seen >= old.seen
      /\ new.active >= active /\ new.active >= old.active
  BY <1>2 DEF LaterOf
<1>6. c \in DOMAIN g.consumers => old = g.consumers[c]
  OBVIOUS
<1>. HIDE DEF new, old
<1>7. ASSUME NEW x \in DOMAIN g.consumers
      PROVE  x \in DOMAIN h /\ h[x].seen >= g.consumers[x].seen
                            /\ h[x].active >= g.consumers[x].active
  <2>1. g.consumers[x].seen \in Int /\ g.consumers[x].active \in Int
    BY <1>1 DEF ConsumerStates
  <2>2. CASE x = c
    BY <1>4, <1>5, <1>6, <2>2
  <2>3. CASE x # c
    BY <1>4, <2>1, <2>3
  <2>. QED
    BY <2>2, <2>3
<1>8. c \in DOMAIN h /\ h[c].seen >= seen /\ h[c].active >= active
  BY <1>4, <1>5
<1>. QED
  BY <1>7, <1>8 DEF h

LEMMA GroupAfterInTime ==
  ASSUME NEW g \in GroupStates, OwnedInTime(g), NEW r, IsRecord(r), r.cmd # "XGDEL"
  PROVE  OwnedInTime(GroupAfter(g, r))
<1>0. /\ g.consumers \in [DOMAIN g.consumers -> ConsumerStates]
      /\ g.pel \in [DOMAIN g.pel -> PendingStates]
  BY GroupIs
<1>a. ASSUME NEW i \in DOMAIN g.pel
      PROVE  /\ g.pel[i].consumer \in DOMAIN g.consumers /\ g.pel[i].at \in Int
             /\ g.consumers[g.pel[i].consumer].seen \in Int
             /\ g.consumers[g.pel[i].consumer].active \in Int
             /\ g.pel[i].at <= g.consumers[g.pel[i].consumer].seen
             /\ g.pel[i].at <= g.consumers[g.pel[i].consumer].active
  BY <1>0 DEF OwnedInTime, PendingStates, ConsumerStates
<1>b. ASSUME NEW c \in Consumers, NEW seen \in Int, NEW active \in Int
      PROVE  OwnedInTime(Heard(g, c, seen, active))
  <2>. DEFINE h == Heard(g, c, seen, active)
  <2>1. h \in GroupStates /\ h.pel = g.pel
    BY <1>b, HeardType
  <2>2. \A x \in DOMAIN g.consumers :
          /\ x \in DOMAIN h.consumers
          /\ h.consumers[x].seen >= g.consumers[x].seen
          /\ h.consumers[x].active >= g.consumers[x].active
    BY <1>b, HeardLater
  <2>3. h.consumers \in [DOMAIN h.consumers -> ConsumerStates]
    BY <2>1, GroupIs
  <2>. HIDE DEF h
  <2>4. ASSUME NEW i \in DOMAIN h.pel
        PROVE  /\ h.pel[i].consumer \in DOMAIN h.consumers
               /\ h.pel[i].at <= h.consumers[h.pel[i].consumer].seen
               /\ h.pel[i].at <= h.consumers[h.pel[i].consumer].active
    <3>. DEFINE x == g.pel[i].consumer
    <3>1. i \in DOMAIN g.pel /\ x \in DOMAIN g.consumers /\ h.pel[i] = g.pel[i]
      BY <1>a, <2>1
    <3>2. x \in DOMAIN h.consumers /\ h.consumers[x].seen \in Int /\ h.consumers[x].active \in Int
      BY <2>2, <2>3, <3>1 DEF ConsumerStates
    <3>3. /\ h.consumers[x].seen >= g.consumers[x].seen
          /\ h.consumers[x].active >= g.consumers[x].active
      BY <2>2, <3>1
    <3>4. /\ g.pel[i].at \in Int
          /\ g.consumers[x].seen \in Int /\ g.pel[i].at <= g.consumers[x].seen
          /\ g.consumers[x].active \in Int /\ g.pel[i].at <= g.consumers[x].active
      BY <1>a, <3>1
    <3>5. h.pel[i].consumer = x /\ h.pel[i].at = g.pel[i].at
      BY <3>1
    <3>. HIDE DEF x
    <3>. QED
      BY <3>2, <3>3, <3>4, <3>5
  <2>5. OwnedInTime(h)
    BY <2>4 DEF OwnedInTime
  <2>. QED
    BY <2>5 DEF h
<1>1. CASE r.cmd \in {"XGROUP", "XGLAST"}
  <2>1. GroupAfter(g, r) = [g EXCEPT !.last = r.id]
    BY <1>1 DEF GroupAfter
  <2>. QED
    BY <2>1 DEF OwnedInTime, GroupStates
<1>2. CASE r.cmd = "XACK"
  <2>. DEFINE p == Without(g.pel, r.ids)
  <2>1. GroupAfter(g, r) = [g EXCEPT !.pel = p]
    BY <1>2 DEF GroupAfter
  <2>2. DOMAIN p \subseteq DOMAIN g.pel /\ \A i \in DOMAIN p : p[i] = g.pel[i]
    BY DEF Without, Restrict
  <2>. HIDE DEF p
  <2>3. GroupAfter(g, r).pel = p /\ GroupAfter(g, r).consumers = g.consumers
    BY <2>1 DEF GroupStates
  <2>. QED
    BY <2>2, <2>3 DEF OwnedInTime
<1>3. CASE r.cmd = "XGCONS"
  <2>1. r.consumer \in Consumers /\ r.seen \in Int /\ r.active \in Int
    BY <1>3 DEF IsRecord
  <2>2. GroupAfter(g, r) = Heard(g, r.consumer, r.seen, r.active)
    BY <1>3 DEF GroupAfter
  <2>. QED
    BY <1>b, <2>1, <2>2
<1>4. CASE r.cmd = "XGCDEL"
  <2>. DEFINE c == Without(g.consumers, {r.consumer})
              D == {x \in DOMAIN g.pel : g.pel[x].consumer # r.consumer}
              p == [x \in D |-> g.pel[x]]
  <2>1. GroupAfter(g, r) = [g EXCEPT !.consumers = c, !.pel = p]
    BY <1>4 DEF GroupAfter, RestrictValues, Restrict
  <2>2. DOMAIN c = DOMAIN g.consumers \ {r.consumer} /\ \A x \in DOMAIN c : c[x] = g.consumers[x]
    BY DEF Without, Restrict
  <2>3. \A x \in DOMAIN p : x \in DOMAIN g.pel /\ g.pel[x].consumer # r.consumer
                            /\ p[x] = g.pel[x]
    OBVIOUS
  <2>. HIDE DEF c, p
  <2>4. GroupAfter(g, r).pel = p /\ GroupAfter(g, r).consumers = c
    BY <2>1 DEF GroupStates
  <2>. QED
    BY <2>2, <2>3, <2>4 DEF OwnedInTime
<1>5. CASE r.cmd = "XGPEL"
  <2>. DEFINE h == Heard(g, r.consumer, r.at, r.at)
              v == [consumer |-> r.consumer, at |-> r.at, count |-> r.count]
              p == With(h.pel, r.id, v)
  <2>1. r.consumer \in Consumers /\ r.at \in Int
    BY <1>5 DEF IsRecord
  <2>2. h \in GroupStates /\ OwnedInTime(h)
    BY <1>b, <2>1, HeardType
  <2>3. /\ r.consumer \in DOMAIN h.consumers
        /\ r.at <= h.consumers[r.consumer].seen /\ r.at <= h.consumers[r.consumer].active
    <3>1. /\ r.consumer \in DOMAIN h.consumers
          /\ h.consumers[r.consumer].seen >= r.at /\ h.consumers[r.consumer].active >= r.at
      BY <2>1, HeardLater
    <3>2. h.consumers \in [DOMAIN h.consumers -> ConsumerStates]
      BY <2>2, GroupIs
    <3>3. h.consumers[r.consumer].seen \in Int /\ h.consumers[r.consumer].active \in Int
      BY <3>1, <3>2 DEF ConsumerStates
    <3>. QED
      BY <2>1, <3>1, <3>3
  <2>4. GroupAfter(g, r) = [h EXCEPT !.pel = p]
    BY <1>5 DEF GroupAfter
  <2>5. DOMAIN p = DOMAIN h.pel \union {r.id} /\ p[r.id] = v
        /\ \A x \in DOMAIN h.pel \ {r.id} : p[x] = h.pel[x]
    <3>. HIDE DEF h, v
    <3>. QED
      BY DEF With
  <2>6. v.consumer = r.consumer /\ v.at = r.at
    OBVIOUS
  <2>. HIDE DEF h, v, p
  <2>7. GroupAfter(g, r).pel = p /\ GroupAfter(g, r).consumers = h.consumers
    BY <2>2, <2>4 DEF GroupStates
  <2>. QED
    BY <2>2, <2>3, <2>5, <2>6, <2>7 DEF OwnedInTime
<1>. QED
  BY <1>1, <1>2, <1>3, <1>4, <1>5 DEF IsRecord

LEMMA PutGroupsInTime ==
  ASSUME NEW d \in DataStates, InTime(d), NEW k, NEW gs, \A g \in DOMAIN gs : OwnedInTime(gs[g])
  PROVE  InTime(PutGroups(d, k, gs))
<1>. DEFINE s == [StreamOf(d, k) EXCEPT !.groups = gs]
            e == PutGroups(d, k, gs)
<1>1. s.groups = gs
  BY StreamOfType DEF StreamStates
<1>2. e = With(d, k, s)
  BY DEF PutGroups
<1>. HIDE DEF s, e
<1>3. DOMAIN e = DOMAIN d \union {k} /\ e[k] = s /\ \A j \in DOMAIN d \ {k} : e[j] = d[j]
  BY <1>2 DEF With
<1>4. InTime(e)
  BY <1>1, <1>3 DEF InTime
<1>. QED
  BY <1>4 DEF e

LEMMA RecordInTime ==
  ASSUME NEW d \in DataStates, InTime(d), NEW r, IsRecord(r)
  PROVE  InTime(ApplyRecord(d, r))
<1>. DEFINE s == StreamOf(d, r.key)
<1>1. /\ s \in StreamStates /\ s.groups \in [DOMAIN s.groups -> GroupStates]
      /\ \A g \in DOMAIN s.groups : OwnedInTime(s.groups[g])
  <2>1. s \in StreamStates /\ (r.key \in DOMAIN d => s = d[r.key])
    BY StreamOfType
  <2>2. s.groups \in [DOMAIN s.groups -> GroupStates]
    <3>1. s.groups \in Partial(Groups, GroupStates)
      BY <2>1 DEF StreamStates
    <3>. QED
      BY <3>1, PartialIs
  <2>3. r.key \notin DOMAIN d => DOMAIN s.groups = {}
    BY DEF StreamOf, NewStream
  <2>. QED
    BY <2>1, <2>2, <2>3 DEF InTime
<1>2. CASE HasGroup(d, r.key, r.group)
  <2>1. r.group \in DOMAIN s.groups
    BY <1>2 DEF HasGroup, StreamOf
  <2>2. CASE r.cmd = "XGDEL"
    <3>. DEFINE gs == Without(s.groups, {r.group})
    <3>1. \A g \in DOMAIN gs : g \in DOMAIN s.groups /\ gs[g] = s.groups[g]
      BY DEF Without, Restrict
    <3>2. ApplyRecord(d, r) = PutGroups(d, r.key, gs)
      BY <1>2, <2>2 DEF ApplyRecord, PutGroups
    <3>. HIDE DEF gs, s
    <3>. QED
      BY <1>1, <3>1, <3>2, PutGroupsInTime
  <2>3. CASE r.cmd # "XGDEL"
    <3>. DEFINE v  == GroupAfter(s.groups[r.group], r)
                gs == With(s.groups, r.group, v)
    <3>1. ApplyRecord(d, r) = PutGroups(d, r.key, gs)
      BY <1>2, <2>3 DEF ApplyRecord, PutGroups
    <3>. HIDE DEF s
    <3>2. OwnedInTime(v)
      BY <1>1, <2>1, <2>3, GroupAfterInTime
    <3>. HIDE DEF v
    <3>3. \A g \in DOMAIN gs : OwnedInTime(gs[g])
      BY <1>1, <3>2 DEF With
    <3>. HIDE DEF gs
    <3>. QED
      BY <3>1, <3>3, PutGroupsInTime
  <2>. QED
    BY <2>2, <2>3
<1>3. CASE ~HasGroup(d, r.key, r.group) /\ r.cmd = "XGROUP"
  <2>. DEFINE v  == NewGroup(r.id)
              gs == With(s.groups, r.group, v)
  <2>1. ApplyRecord(d, r) = PutGroups(d, r.key, gs)
    BY <1>3 DEF ApplyRecord, PutGroups
  <2>2. OwnedInTime(v)
    BY DEF OwnedInTime, NewGroup
  <2>. HIDE DEF s, v
  <2>3. \A g \in DOMAIN gs : OwnedInTime(gs[g])
    BY <1>1, <2>2 DEF With
  <2>. HIDE DEF gs
  <2>. QED
    BY <2>1, <2>3, PutGroupsInTime
<1>4. CASE ~HasGroup(d, r.key, r.group) /\ r.cmd # "XGROUP"
  BY <1>4 DEF ApplyRecord
<1>. QED
  BY <1>2, <1>3, <1>4

LEMMA AppliedInTime ==
  ASSUME NEW d \in DataStates, InTime(d), NEW records, NEW len, AreRecords(records, len)
  PROVE  InTime(Applied(d, records))
<1>0. len \in Nat /\ DOMAIN records = 1..len /\ \A n \in 1..len : IsRecord(records[n])
  BY DEF AreRecords
<1>1. PICK f : /\ f[0] = d
               /\ \A n \in 1..len : f[n] = ApplyRecord(f[n - 1], records[n])
               /\ Applied(d, records) = f[len]
  BY RecordSteps
<1>. DEFINE T == {n \in 0..len : f[n] \in DataStates /\ InTime(f[n])}
<1>2. 0 \in T
  BY <1>0, <1>1
<1>3. ASSUME NEW n \in 1..len, n - 1 \in T PROVE n \in T
  BY <1>0, <1>1, <1>3, RecordKeeps, RecordInTime
<1>. HIDE DEF T
<1>4. \A n \in 0..len : n \in T
  BY <1>0, <1>2, <1>3, Records!UpTo
<1>5. len \in T
  BY <1>0, <1>4
<1>. QED
  BY <1>1, <1>5 DEF T

LEMMA SameGroupsInTime ==
  ASSUME NEW d \in DataStates, InTime(d), NEW e, NEW k,
         DOMAIN e \subseteq DOMAIN d \union {k},
         \A j \in DOMAIN e \ {k} : e[j] = d[j],
         k \in DOMAIN e => e[k].groups = StreamOf(d, k).groups
  PROVE  InTime(e)
<1>1. ASSUME NEW j \in DOMAIN e, NEW g \in DOMAIN e[j].groups
      PROVE  OwnedInTime(e[j].groups[g])
  <2>1. CASE j # k
    BY <1>1, <2>1 DEF InTime
  <2>2. CASE j = k /\ k \in DOMAIN d
    BY <1>1, <2>2 DEF InTime, StreamOf
  <2>3. CASE j = k /\ k \notin DOMAIN d
    BY <1>1, <2>3 DEF StreamOf, NewStream
  <2>. QED
    BY <2>1, <2>2, <2>3
<1>. QED
  BY <1>1 DEF InTime

LEMMA CommandInTime ==
  ASSUME NEW d \in DataStates, InTime(d), NEW c, IsEntryCommand(c) \/ IsGroupCommand(c),
         NEW now \in 0..Top
  PROVE  InTime(Execute(d, c, now).data)
<1>. DEFINE out == Execute(d, c, now)
            k   == c.key
<1>1. CASE IsGroupCommand(c)
  <2>1. out = Nothing(d, <<>>) \/ \E records \in Seq(RecordStates) : out = Commit(d, records)
    BY <1>1, GroupCommandCommits DEF IsCommit
  <2>2. ASSUME NEW records \in Seq(RecordStates), out = Commit(d, records)
        PROVE  InTime(out.data)
    <3>1. AreRecords(records, Len(records))
      BY RecordSequence
    <3>2. out.data = Applied(d, records)
      BY <2>2 DEF Commit
    <3>. QED
      BY <3>1, <3>2, AppliedInTime
  <2>. QED
    BY <2>1, <2>2 DEF Nothing
<1>2. CASE IsEntryCommand(c) /\ c.cmd = "XADD"
  <2>. DEFINE s   == StreamOf(d, k)
              id  == NextId(s.last, c.spec, now)
              new == [Grown(s, id) EXCEPT !.ids = Trimmed(@, c.trim)]
  <2>1. out = XAdd(d, c, now)
    BY <1>2 DEF Execute
  <2>2. CASE id = NoId \/ (c.nomk /\ k \notin DOMAIN d)
    BY <2>1, <2>2 DEF XAdd, Nothing
  <2>3. CASE ~(id = NoId \/ (c.nomk /\ k \notin DOMAIN d))
    <3>1. c.key \in Keys /\ c.spec \in IdSpecs /\ c.trim \in TrimForms
      BY <1>2 DEF IsEntryCommand
    <3>2. out.data = With(d, k, new) /\ new.groups = s.groups
      BY <2>1, <2>3, <3>1, AddGives
    <3>. HIDE DEF new, out
    <3>3. /\ DOMAIN out.data \subseteq DOMAIN d \union {k}
          /\ \A j \in DOMAIN out.data \ {k} : out.data[j] = d[j]
          /\ out.data[k].groups = StreamOf(d, k).groups
      BY <3>2 DEF With
    <3>4. InTime(out.data)
      BY <3>3, SameGroupsInTime
    <3>. QED
      BY <3>4 DEF out
  <2>. QED
    BY <2>2, <2>3
<1>3. ASSUME NEW ids, out.data = [d EXCEPT ![k].ids = ids], k \in DOMAIN d
      PROVE  InTime(out.data)
  <2>1. d[k] \in StreamStates /\ StreamOf(d, k) = d[k]
    BY <1>3, StreamOfType
  <2>. HIDE DEF out
  <2>2. /\ DOMAIN out.data = DOMAIN d /\ \A j \in DOMAIN d \ {k} : out.data[j] = d[j]
        /\ out.data[k].groups = d[k].groups
    BY <1>3, <2>1 DEF StreamStates
  <2>3. InTime(out.data)
    BY <2>1, <2>2, SameGroupsInTime
  <2>. QED
    BY <2>3 DEF out
<1>4. ASSUME NEW ids, out.data = [d EXCEPT ![k].ids = ids], k \notin DOMAIN d
      PROVE  InTime(out.data)
  <2>1. [d EXCEPT ![k].ids = ids] = d
    BY <1>4, PartialIs DEF DataStates
  <2>. QED
    BY <1>4, <2>1
<1>5. CASE c.cmd = "XDEL"
  <2>1. out = XDel(d, c)
    BY <1>5 DEF Execute
  <2>. DEFINE kept == Removed(StreamOf(d, k).ids, c.ids)
  <2>2. out.data = d \/ out.data = [d EXCEPT ![k].ids = kept]
    BY <2>1 DEF XDel, Nothing
  <2>. HIDE DEF kept, out
  <2>3. out.data = [d EXCEPT ![k].ids = kept] => InTime(out.data)
    BY <1>3, <1>4
  <2>4. InTime(out.data)
    BY <2>2, <2>3
  <2>. QED
    BY <2>4 DEF out
<1>6. CASE c.cmd = "XTRIM"
  <2>1. out = XTrim(d, c)
    BY <1>6 DEF Execute
  <2>. DEFINE kept == Trimmed(StreamOf(d, k).ids, c.trim)
  <2>2. out.data = d \/ out.data = [d EXCEPT ![k].ids = kept]
    BY <2>1 DEF XTrim, Nothing
  <2>. HIDE DEF kept, out
  <2>3. out.data = [d EXCEPT ![k].ids = kept] => InTime(out.data)
    BY <1>3, <1>4
  <2>4. InTime(out.data)
    BY <2>2, <2>3
  <2>. QED
    BY <2>4 DEF out
<1>7. CASE c.cmd = "DEL"
  <2>1. out = Del(d, c)
    BY <1>7 DEF Execute
  <2>2. out.data = d \/ out.data = Without(d, {k})
    BY <2>1 DEF Del, Nothing
  <2>3. InTime(Without(d, {k}))
    BY DEF Without, Restrict, InTime
  <2>. QED
    BY <2>2, <2>3
<1>8. IsEntryCommand(c) => \/ c.cmd = "XADD" \/ c.cmd = "XDEL"
                           \/ c.cmd = "XTRIM" \/ c.cmd = "DEL"
  BY DEF IsEntryCommand
<1>. QED
  BY <1>1, <1>2, <1>5, <1>6, <1>7, <1>8

-----------------------------------------------------------------------------
(***************************************************************************)
(* The system.  Every step but COMPACT is a command.                       *)
(***************************************************************************)
LEMMA TimesAndTrims ==
  /\ Clock \subseteq 0..Top /\ 0 \in 0..Top
  /\ Trims \subseteq TrimForms
  /\ Specs = IdSpecs
<1>1. Clock \subseteq 0..Top /\ 0 \in 0..Top
  BY StreamsAssumption, StreamGroupsAssumption
<1>2. <<1, 0>> \in Ids
  BY StreamsAssumption DEF Ids
<1>3. Trims \subseteq TrimForms
  BY <1>2 DEF Trims, TrimForms
<1>4. Specs = IdSpecs
  BY DEF Specs, IdSpecs
<1>. QED
  BY <1>1, <1>3, <1>4

IsRun(c, now) == (IsEntryCommand(c) \/ IsGroupCommand(c)) /\ now \in 0..Top /\ Run(c, now)

LEMMA EntrySteps ==
  ASSUME NEW k \in Keys,
         DeleteEntry(k) \/ Trim(k) \/ Delete(k) \/ \E now \in Clock : Add(k, now)
  PROVE  \E c, now : IsRun(c, now)
<1>1. CASE DeleteEntry(k)
  <2>1. PICK id \in Ids : Run([cmd |-> "XDEL", key |-> k, ids |-> {id}], 0)
    BY <1>1 DEF DeleteEntry
  <2>2. IsEntryCommand([cmd |-> "XDEL", key |-> k, ids |-> {id}])
    BY DEF IsEntryCommand
  <2>. QED
    BY <2>1, <2>2, TimesAndTrims DEF IsRun
<1>2. CASE Trim(k)
  <2>1. PICK t \in Trims \ {NoTrim} : Run([cmd |-> "XTRIM", key |-> k, trim |-> t], 0)
    BY <1>2 DEF Trim
  <2>2. IsEntryCommand([cmd |-> "XTRIM", key |-> k, trim |-> t])
    BY <2>1, TimesAndTrims DEF IsEntryCommand
  <2>. QED
    BY <2>1, <2>2, TimesAndTrims DEF IsRun
<1>3. CASE Delete(k)
  <2>1. Run([cmd |-> "DEL", key |-> k], 0)
    BY <1>3 DEF Delete
  <2>2. IsEntryCommand([cmd |-> "DEL", key |-> k])
    BY DEF IsEntryCommand
  <2>. QED
    BY <2>1, <2>2, TimesAndTrims DEF IsRun
<1>4. ASSUME NEW now \in Clock, Add(k, now) PROVE \E c : IsRun(c, now)
  <2>1. PICK spec \in Specs, trim \in Trims, nomk \in BOOLEAN :
          Run([cmd |-> "XADD", key |-> k, spec |-> spec, trim |-> trim, nomk |-> nomk], now)
    BY <1>4 DEF Add
  <2>. DEFINE c == [cmd |-> "XADD", key |-> k, spec |-> spec, trim |-> trim, nomk |-> nomk]
  <2>2. IsEntryCommand(c)
    BY <2>1, TimesAndTrims DEF IsEntryCommand
  <2>3. Run(c, now) /\ now \in 0..Top
    BY <2>1, TimesAndTrims
  <2>. HIDE DEF c
  <2>. QED
    BY <2>2, <2>3 DEF IsRun
<1>. QED
  BY <1>1, <1>2, <1>3, <1>4

LEMMA GroupSteps ==
  ASSUME NEW k \in Keys, NEW g \in Groups, GroupStep(k, g)
  PROVE  \E c, now : IsRun(c, now)
<1>1. CASE SetCursor(k, g)
  <2>1. PICK cmd \in {"CREATE", "SETID"}, mk \in BOOLEAN :
          \/ Run([cmd |-> cmd, key |-> k, group |-> g, at |-> "$", mkstream |-> mk], 0)
          \/ \E id \in Ids :
               Run([cmd |-> cmd, key |-> k, group |-> g, at |-> "id", id |-> id,
                    mkstream |-> mk], 0)
    BY <1>1 DEF SetCursor
  <2>2. CASE Run([cmd |-> cmd, key |-> k, group |-> g, at |-> "$", mkstream |-> mk], 0)
    <3>. DEFINE c == [cmd |-> cmd, key |-> k, group |-> g, at |-> "$", mkstream |-> mk]
    <3>1. IsGroupCommand(c)
      BY <2>1 DEF IsGroupCommand
    <3>2. Run(c, 0)
      BY <2>2
    <3>. HIDE DEF c
    <3>. QED
      BY <3>1, <3>2, TimesAndTrims DEF IsRun
  <2>3. ASSUME NEW id \in Ids,
               Run([cmd |-> cmd, key |-> k, group |-> g, at |-> "id", id |-> id,
                    mkstream |-> mk], 0)
        PROVE  \E c, now : IsRun(c, now)
    <3>. DEFINE c == [cmd |-> cmd, key |-> k, group |-> g, at |-> "id", id |-> id,
                      mkstream |-> mk]
    <3>1. IsGroupCommand(c)
      BY <2>1, <2>3 DEF IsGroupCommand
    <3>2. Run(c, 0)
      BY <2>3
    <3>. HIDE DEF c
    <3>. QED
      BY <3>1, <3>2, TimesAndTrims DEF IsRun
  <2>. QED
    BY <2>1, <2>2, <2>3
<1>2. CASE Destroy(k, g)
  <2>. DEFINE c == [cmd |-> "DESTROY", key |-> k, group |-> g]
  <2>1. IsGroupCommand(c)
    BY DEF IsGroupCommand
  <2>2. Run(c, 0)
    BY <1>2 DEF Destroy
  <2>. HIDE DEF c
  <2>. QED
    BY <2>1, <2>2, TimesAndTrims DEF IsRun
<1>3. CASE Acknowledge(k, g)
  <2>1. PICK ids \in SUBSET Ids : Run([cmd |-> "XACK", key |-> k, group |-> g, ids |-> ids], 0)
    BY <1>3 DEF Acknowledge
  <2>. DEFINE c == [cmd |-> "XACK", key |-> k, group |-> g, ids |-> ids]
  <2>2. IsGroupCommand(c)
    BY <2>1 DEF IsGroupCommand
  <2>3. Run(c, 0)
    BY <2>1
  <2>. HIDE DEF c
  <2>. QED
    BY <2>2, <2>3, TimesAndTrims DEF IsRun
<1>4. ASSUME NEW consumer \in Consumers, DeleteConsumer(k, g, consumer)
      PROVE  \E c, now : IsRun(c, now)
  <2>. DEFINE c == [cmd |-> "DELCONSUMER", key |-> k, group |-> g, consumer |-> consumer]
  <2>1. IsGroupCommand(c)
    BY DEF IsGroupCommand
  <2>2. Run(c, 0)
    BY <1>4 DEF DeleteConsumer
  <2>. HIDE DEF c
  <2>. QED
    BY <2>1, <2>2, TimesAndTrims DEF IsRun
<1>5. ASSUME NEW consumer \in Consumers, NEW now \in Clock, CreateConsumer(k, g, consumer, now)
      PROVE  \E c : IsRun(c, now)
  <2>. DEFINE c == [cmd |-> "CREATECONSUMER", key |-> k, group |-> g, consumer |-> consumer]
  <2>1. IsGroupCommand(c)
    BY DEF IsGroupCommand
  <2>2. Run(c, now) /\ now \in 0..Top
    BY <1>5, TimesAndTrims DEF CreateConsumer
  <2>. HIDE DEF c
  <2>. QED
    BY <2>1, <2>2 DEF IsRun
<1>6. ASSUME NEW consumer \in Consumers, NEW now \in Clock, ReadNew(k, g, consumer, now)
      PROVE  \E c : IsRun(c, now)
  <2>1. PICK n \in Counts, noack \in BOOLEAN :
          Run([cmd |-> "XREADGROUP", key |-> k, group |-> g, consumer |-> consumer,
               at |-> ">", count |-> n, noack |-> noack], now)
    BY <1>6 DEF ReadNew
  <2>. DEFINE c == [cmd |-> "XREADGROUP", key |-> k, group |-> g, consumer |-> consumer,
                    at |-> ">", count |-> n, noack |-> noack]
  <2>2. n \in Nat
    BY <2>1, StreamGroupsAssumption
  <2>3. IsGroupCommand(c)
    BY <2>2 DEF IsGroupCommand
  <2>4. Run(c, now) /\ now \in 0..Top
    BY <2>1, TimesAndTrims
  <2>. HIDE DEF c
  <2>. QED
    BY <2>3, <2>4 DEF IsRun
<1>7. ASSUME NEW consumer \in Consumers, NEW now \in Clock, ReadHistory(k, g, consumer, now)
      PROVE  \E c : IsRun(c, now)
  <2>1. PICK n \in Counts, id \in Ids :
          Run([cmd |-> "XREADGROUP", key |-> k, group |-> g, consumer |-> consumer,
               at |-> "history", id |-> id, count |-> n, noack |-> FALSE], now)
    BY <1>7 DEF ReadHistory
  <2>. DEFINE c == [cmd |-> "XREADGROUP", key |-> k, group |-> g, consumer |-> consumer,
                    at |-> "history", id |-> id, count |-> n, noack |-> FALSE]
  <2>2. n \in Nat
    BY <2>1, StreamGroupsAssumption
  <2>3. IsGroupCommand(c)
    BY <2>2 DEF IsGroupCommand
  <2>4. Run(c, now) /\ now \in 0..Top
    BY <2>1, TimesAndTrims
  <2>. HIDE DEF c
  <2>. QED
    BY <2>3, <2>4 DEF IsRun
<1>. QED
  BY <1>1, <1>2, <1>3, <1>4, <1>5, <1>6, <1>7 DEF GroupStep

LEMMA StepIsRun ==
  ASSUME Next
  PROVE  Compact \/ \E c, now : IsRun(c, now)
BY EntrySteps, GroupSteps DEF Next

-----------------------------------------------------------------------------
(***************************************************************************)
(* The invariant: the streams are of their type, entries are sorted,       *)
(* pending entries have an owner, and the follower is where the master is. *)
(***************************************************************************)
StreamsInv ==
  /\ data \in DataStates
  /\ Orderly(data)
  /\ InTime(data)
  /\ follower = data

LEMMA StreamsInvHolds ==
  Init => StreamsInv
<1>. SUFFICES ASSUME Init PROVE StreamsInv
  OBVIOUS
<1>1. data = [k \in {} |-> NewStream] /\ DOMAIN data = {} /\ follower = data
  BY DEF Init
<1>2. data \in DataStates
  BY <1>1, PartialEmpty DEF DataStates
<1>. QED
  BY <1>1, <1>2 DEF StreamsInv, Orderly, InTime

\* A command keeps the invariant, and what it logs rebuilds what it did.
LEMMA RunKeeps ==
  ASSUME StreamsInv, NEW c, NEW now, IsRun(c, now)
  PROVE  /\ StreamsInv'
         /\ Grows(data, data')
         /\ recovered = data => recovered' = data'
<1>1. PICK there \in Clock :
        /\ data' = Execute(data, c, now).data
        /\ recovered' = Restored(recovered, Execute(data, c, now).log)
        /\ follower' = Replayed(follower, Execute(data, c, now).sent, there)
  BY DEF IsRun, Run
<1>2. /\ IsEntryCommand(c) \/ IsGroupCommand(c)
      /\ now \in 0..Top /\ there \in 0..Top
  BY TimesAndTrims DEF IsRun
<1>3. data \in DataStates /\ Orderly(data) /\ InTime(data) /\ follower = data
  BY DEF StreamsInv
<1>. DEFINE out == Execute(data, c, now)
<1>4. Faithful(data, out)
  BY <1>2, <1>3, CommandFaithful
<1>5. Orderly(out.data) /\ Grows(data, out.data)
  BY <1>2, <1>3, CommandOrderly
<1>6. InTime(out.data)
  BY <1>2, <1>3, CommandInTime
<1>7. data' = out.data /\ recovered' = Restored(recovered, out.log)
      /\ follower' = Replayed(follower, out.sent, there)
  BY <1>1
<1>. HIDE DEF out
<1>. QED
  BY <1>2, <1>3, <1>4, <1>5, <1>6, <1>7 DEF Faithful, StreamsInv

LEMMA NothingGrows ==
  ASSUME NEW d
  PROVE  Grows(d, d)
BY DEF Grows

LEMMA StepKeeps ==
  ASSUME StreamsInv, [Next]_vars
  PROVE  StreamsInv' /\ Grows(data, data')
<1>1. CASE UNCHANGED <<data, follower>>
  BY <1>1, NothingGrows DEF StreamsInv
<1>2. CASE \E c, now : IsRun(c, now)
  BY <1>2, RunKeeps
<1>3. Compact => UNCHANGED <<data, follower>>
  BY DEF Compact
<1>4. UNCHANGED vars => UNCHANGED <<data, follower>>
  BY DEF vars
<1>. QED
  BY <1>1, <1>2, <1>3, <1>4, StepIsRun

LEMMA InvAlways == Spec => []StreamsInv
<1>1. StreamsInv /\ [Next]_vars => StreamsInv'
  BY StepKeeps
<1>. QED
  BY <1>1, StreamsInvHolds, PTL DEF Spec

\* A follower that has applied what was forwarded has the master's streams:
\* entries, cursors, consumers, pending entries and their times, whatever its
\* own clock says (replication_tokens, replication_payloads).
THEOREM FollowersAgree == Spec => []FollowerAgrees
<1>1. StreamsInv => FollowerAgrees
  BY DEF StreamsInv, FollowerAgrees
<1>. QED
  BY <1>1, InvAlways, PTL

\* Entries stay sorted and not above the top identifier, after any sequence of
\* commands and whatever the clocks do (Stream.add, delete, trim).
THEOREM EntriesStaySorted == Spec => []IdsSorted
<1>1. ASSUME StreamsInv PROVE IdsSorted
  <2>1. ASSUME NEW k \in DOMAIN data
        PROVE  /\ \A i, j \in DOMAIN data[k].ids : i < j => Before(data[k].ids[i], data[k].ids[j])
               /\ \A i \in DOMAIN data[k].ids :
                    data[k].ids[i] \in Ids /\ ~Before(data[k].last, data[k].ids[i])
    <3>1. data[k].ids \in Seq(Ids)
      BY <1>1, StreamOfType DEF StreamsInv, StreamStates
    <3>2. \A i \in DOMAIN data[k].ids : data[k].ids[i] \in ToSet(data[k].ids)
      BY DEF ToSet
    <3>3. \A i \in DOMAIN data[k].ids : data[k].ids[i] \in Ids
      BY <3>1
    <3>. QED
      BY <1>1, <3>2, <3>3 DEF StreamsInv, Orderly, Ascending
  <2>. QED
    BY <2>1 DEF IdsSorted
<1>. QED
  BY <1>1, InvAlways, PTL

\* A stream that lives on either keeps its top identifier and gets no entry,
\* or its top goes up and is the one new entry: no identifier comes back.
THEOREM IdsOnlyGrow == Spec => IdsGrow
<1>1. StreamsInv /\ [Next]_vars =>
        [\A k \in DOMAIN data \intersect DOMAIN data' :
           IF data'[k].added = data[k].added
           THEN data'[k].last = data[k].last /\ ToSet(data'[k].ids) \subseteq ToSet(data[k].ids)
           ELSE /\ Before(data[k].last, data'[k].last)
                /\ ToSet(data'[k].ids) \subseteq ToSet(data[k].ids) \union {data'[k].last}]_vars
  BY StepKeeps DEF Grows
<1>. QED
  BY <1>1, InvAlways, PTL DEF Spec, IdsGrow

-----------------------------------------------------------------------------
(***************************************************************************)
(* What COMPACT writes rebuilds the streams it was written from, for every *)
(* number of streams, entries, groups, consumers and pending entries; and  *)
(* with it a restart, at any time, finds the master's streams.             *)
(*                                                                         *)
(* A log is applied record by record: the proofs say what the streams are  *)
(* after each record, and the lemmas on folds do the rest.                 *)
(*                                                                         *)
(* Then what clients know: cursors skip nothing and repeat nothing, and    *)
(* pending entries stay until they are acknowledged.                       *)
(***************************************************************************)

\* If f tells the streams after every record, it tells them after the last.
LEMMA RestoredBy ==
  ASSUME NEW len \in Nat, NEW log, DOMAIN log = 1..len, NEW f,
         \A n \in 1..len : f[n] = Redo(f[n - 1], log[n])
  PROVE  Restored(f[0], log) = f[len]
<1>. DEFINE d == f[0]
<1>0. \E g : /\ g[0] = d
             /\ \A n \in 1..len : g[n] = Redo(g[n - 1], log[n])
             /\ Restored(d, log) = g[len]
  <2>. HIDE DEF d
  <2>. QED
    BY RestoredSteps
<1>1. PICK g : /\ g[0] = f[0]
               /\ \A n \in 1..len : g[n] = Redo(g[n - 1], log[n])
               /\ Restored(f[0], log) = g[len]
  BY <1>0
<1>2. \A n \in 1..len : f[n - 1] = g[n - 1] => f[n] = g[n]
  BY <1>1
<1>3. f[len] = g[len]
  BY <1>1, <1>2, SameResults
<1>. QED
  BY <1>1, <1>3

LEMMA ConcatRestored ==
  ASSUME NEW d, NEW X, NEW s \in Seq(X), NEW t \in Seq(X)
  PROVE  Restored(d, s \o t) = Restored(Restored(d, s), t)
<1>. DEFINE m == Len(s)
            p == Len(t)
            u == s \o t
<1>1. m \in Nat /\ p \in Nat /\ m + p \in Nat
  OBVIOUS
<1>2. DOMAIN s = 1..m /\ DOMAIN t = 1..p /\ DOMAIN u = 1..(m + p)
  OBVIOUS
<1>3. /\ \A n \in 1..m : u[n] = s[n]
      /\ \A n \in 1..(m + p) : n > m => u[n] = t[n - m]
  OBVIOUS
<1>. HIDE DEF m, p, u
<1>a. PICK f : Follows(f, d, s, m)
  BY <1>1, <1>2, LogSteps
<1>b. PICK g : Follows(g, f[m], t, p)
  BY <1>1, <1>2, LogSteps
<1>4. /\ f[0] = d
      /\ \A n \in 1..m : f[n] = Redo(f[n - 1], s[n])
      /\ Restored(d, s) = f[m]
  BY <1>a DEF Follows
<1>5. /\ g[0] = f[m]
      /\ \A n \in 1..p : g[n] = Redo(g[n - 1], t[n])
      /\ Restored(f[m], t) = g[p]
  BY <1>b DEF Follows
<1>. DEFINE h == [n \in 0..(m + p) |-> IF n <= m THEN f[n] ELSE g[n - m]]
<1>6. h[0] = d /\ h[m + p] = g[p]
  <2>1. 0 \in 0..(m + p) /\ 0 <= m /\ m + p \in 0..(m + p)
    BY <1>1
  <2>2. CASE p = 0
    <3>1. m + p = m /\ m <= m
      BY <1>1, <2>2
    <3>. QED
      BY <1>4, <1>5, <2>1, <2>2, <3>1
  <2>3. CASE p # 0
    <3>1. ~(m + p <= m) /\ (m + p) - m = p
      BY <1>1, <2>3
    <3>. QED
      BY <1>4, <2>1, <3>1
  <2>. QED
    BY <2>2, <2>3
<1>7. ASSUME NEW n \in 1..(m + p) PROVE h[n] = Redo(h[n - 1], u[n])
  <2>1. n \in 0..(m + p) /\ n - 1 \in 0..(m + p)
    BY <1>1
  <2>2. CASE n <= m
    <3>1. n \in 1..m /\ n - 1 <= m
      BY <1>1, <2>2
    <3>. QED
      BY <1>3, <1>4, <2>1, <2>2, <3>1
  <2>3. CASE n = m + 1
    <3>1. n - 1 = m /\ n - 1 <= m /\ ~(n <= m) /\ n - m = 1 /\ 1 \in 1..p /\ n > m
      BY <1>1, <2>3
    <3>2. h[n - 1] = g[0] /\ h[n] = g[1] /\ u[n] = t[1]
      BY <1>3, <1>5, <2>1, <3>1
    <3>3. g[1] = Redo(g[1 - 1], t[1]) /\ 1 - 1 = 0
      BY <1>5, <3>1
    <3>. QED
      BY <3>2, <3>3
  <2>4. CASE n > m + 1
    <3>1. /\ ~(n <= m) /\ ~(n - 1 <= m) /\ n - m \in 1..p
          /\ (n - m) - 1 = (n - 1) - m /\ n > m
      BY <1>1, <2>4
    <3>2. h[n] = g[n - m] /\ h[n - 1] = g[(n - 1) - m] /\ u[n] = t[n - m]
      BY <1>3, <2>1, <3>1
    <3>3. g[n - m] = Redo(g[(n - m) - 1], t[n - m])
      BY <1>5, <3>1
    <3>. QED
      BY <3>1, <3>2, <3>3
  <2>. QED
    BY <1>1, <2>2, <2>3, <2>4
<1>. HIDE DEF h
<1>8. Restored(h[0], u) = h[m + p]
  BY <1>1, <1>2, <1>7, RestoredBy
<1>. QED
  BY <1>4, <1>5, <1>6, <1>8 DEF u

\* FlattenSeq, as the sequence of its intermediate results.
LEMMA FlattenSteps ==
  ASSUME NEW len \in Nat, NEW X, NEW seqs \in [1..len -> Seq(X)]
  PROVE  \E f : /\ f[0] = <<>>
                /\ \A n \in 1..len : f[n] = f[n - 1] \o seqs[n]
                /\ \A n \in 0..len : f[n] \in Seq(X)
                /\ FlattenSeq(seqs) = f[len]
<1>. DEFINE Flat(h, m) == h = [i \in 1..m |-> IF i = 1 THEN seqs[i] ELSE h[i - 1] \o seqs[i]]
            T == {m \in Nat : \E h : Flat(h, m)}
<1>1. 0 \in T
  <2>1. Flat([i \in 1..0 |-> 0], 0)
    OBVIOUS
  <2>. QED
    BY <2>1
<1>2. ASSUME NEW m \in Nat, m \in T PROVE m + 1 \in T
  <2>1. PICK was : Flat(was, m)
    BY <1>2
  <2>. DEFINE g == [i \in 1..(m + 1) |-> IF i = m + 1
                      THEN IF i = 1 THEN seqs[i] ELSE was[i - 1] \o seqs[i]
                      ELSE was[i]]
  <2>2. ASSUME NEW i \in 1..(m + 1)
        PROVE  g[i] = IF i = 1 THEN seqs[i] ELSE g[i - 1] \o seqs[i]
    <3>1. CASE i = 1
      <4>1. CASE m + 1 = 1
        BY <3>1, <4>1
      <4>2. CASE m + 1 # 1
        <5>1. 1 \in 1..m
          BY <4>2
        <5>. QED
          BY <2>1, <3>1, <4>2, <5>1
      <4>. QED
        BY <4>1, <4>2
    <3>2. CASE i # 1
      <4>1. i - 1 \in 1..(m + 1) /\ i - 1 # m + 1
        BY <3>2
      <4>2. g[i - 1] = was[i - 1]
        BY <4>1
      <4>3. CASE i = m + 1
        BY <3>2, <4>2, <4>3
      <4>4. CASE i # m + 1
        <5>1. i \in 1..m /\ g[i] = was[i]
          BY <4>4
        <5>2. was[i] = was[i - 1] \o seqs[i]
          BY <2>1, <3>2, <5>1
        <5>. QED
          BY <3>2, <4>2, <5>1, <5>2
      <4>. QED
        BY <4>3, <4>4
    <3>. QED
      BY <3>1, <3>2
  <2>3. Flat(g, m + 1)
    <3>1. g = [i \in 1..(m + 1) |-> g[i]]
      OBVIOUS
    <3>. HIDE DEF g
    <3>. QED
      BY <2>2, <3>1
  <2>. HIDE DEF g, Flat
  <2>4. \E h : Flat(h, m + 1)
    BY <2>3
  <2>. QED
    BY <2>4
<1>3. \E h : Flat(h, len)
  <2>. HIDE DEF T
  <2>1. len \in T
    BY <1>1, <1>2, Records!SetInduction
  <2>. QED
    BY <2>1 DEF T
<1>4. seqs \in Seq(Seq(X)) /\ Len(seqs) = len
  OBVIOUS
<1>. DEFINE it == CHOOSE h : Flat(h, len)
<1>5. Flat(it, len)
  BY <1>3
<1>6. FlattenSeq(seqs) = IF len = 0 THEN seqs ELSE it[len]
  BY <1>4 DEF FlattenSeq
<1>. HIDE DEF it
<1>. DEFINE f == [n \in 0..len |-> IF n = 0 THEN <<>> ELSE it[n]]
            S == {n \in 0..len : f[n] \in Seq(X)}
<1>7. f[0] = <<>> /\ f[0] \in Seq(X)
  OBVIOUS
<1>8. ASSUME NEW n \in 1..len
      PROVE  /\ f[n] = IF n = 1 THEN seqs[n] ELSE f[n - 1] \o seqs[n]
             /\ seqs[n] \in Seq(X)
  <2>1. n \in 0..len /\ n - 1 \in 0..len /\ n # 0
    OBVIOUS
  <2>2. it[n] = IF n = 1 THEN seqs[n] ELSE it[n - 1] \o seqs[n]
    BY <1>5
  <2>3. n # 1 => f[n - 1] = it[n - 1]
    BY <2>1
  <2>. QED
    BY <2>1, <2>2, <2>3
<1>9. \A n \in 0..len : n \in S
  <2>1. 0 \in S
    BY <1>7
  <2>2. ASSUME NEW n \in 1..len, n - 1 \in S PROVE n \in S
    <3>1. f[n - 1] \in Seq(X) /\ n \in 0..len
      BY <2>2
    <3>. HIDE DEF f
    <3>2. seqs[n] \in Seq(X) /\ (f[n] = seqs[n] \/ f[n] = f[n - 1] \o seqs[n])
      BY <1>8
    <3>3. f[n - 1] \o seqs[n] \in Seq(X)
      BY <3>1, <3>2
    <3>. QED
      BY <3>1, <3>2, <3>3
  <2>. HIDE DEF S
  <2>. QED
    BY <2>1, <2>2, Records!UpTo
<1>10. ASSUME NEW n \in 1..len PROVE f[n] = f[n - 1] \o seqs[n]
  <2>1. CASE n = 1
    <3>1. f[n - 1] = <<>>
      BY <1>7, <2>1
    <3>2. <<>> \o seqs[n] = seqs[n]
      BY <1>8
    <3>. HIDE DEF f
    <3>. QED
      BY <1>8, <2>1, <3>1, <3>2
  <2>2. CASE n # 1
    <3>. HIDE DEF f
    <3>. QED
      BY <1>8, <2>2
  <2>. QED
    BY <2>1, <2>2
<1>11. FlattenSeq(seqs) = f[len]
  <2>1. CASE len = 0
    <3>1. seqs = <<>>
      BY <1>4, <2>1
    <3>. QED
      BY <1>6, <1>7, <2>1, <3>1
  <2>2. CASE len # 0
    BY <1>6, <2>2
  <2>. QED
    BY <2>1, <2>2
<1>12. \A n \in 0..len : f[n] \in Seq(X)
  BY <1>9 DEF S
<1>. HIDE DEF f
<1>. QED
  BY <1>7, <1>10, <1>11, <1>12

\* The same for logs made of parts.
LEMMA FlattenRestored ==
  ASSUME NEW len \in Nat, NEW X, NEW seqs \in [1..len -> Seq(X)], NEW f,
         \A n \in 1..len : f[n] = Restored(f[n - 1], seqs[n])
  PROVE  /\ Restored(f[0], FlattenSeq(seqs)) = f[len]
         /\ FlattenSeq(seqs) \in Seq(X)
<1>1. PICK g : /\ g[0] = <<>>
               /\ \A n \in 1..len : g[n] = g[n - 1] \o seqs[n]
               /\ \A n \in 0..len : g[n] \in Seq(X)
               /\ FlattenSeq(seqs) = g[len]
  BY FlattenSteps
<1>. DEFINE h == [n \in 0..len |-> Restored(f[0], g[n])]
<1>2. h[0] = f[0]
  <2>1. 0 \in 0..len /\ g[0] = <<>>
    BY <1>1
  <2>2. Restored(f[0], <<>>) = f[0]
    BY EmptyFolds
  <2>. QED
    BY <2>1, <2>2
<1>3. ASSUME NEW n \in 1..len, f[n - 1] = h[n - 1] PROVE f[n] = h[n]
  <2>1. n - 1 \in 0..len /\ n \in 0..len
    OBVIOUS
  <2>2. g[n - 1] \in Seq(X) /\ seqs[n] \in Seq(X) /\ g[n] = g[n - 1] \o seqs[n]
    BY <1>1, <2>1
  <2>3. Restored(f[0], g[n]) = Restored(Restored(f[0], g[n - 1]), seqs[n])
    BY <2>2, ConcatRestored
  <2>4. h[n] = Restored(h[n - 1], seqs[n])
    BY <2>1, <2>3
  <2>. QED
    BY <1>3, <2>4
<1>4. h[len] = Restored(f[0], g[len])
  OBVIOUS
<1>. HIDE DEF h
<1>5. f[len] = h[len]
  BY <1>2, <1>3, SameResults
<1>6. FlattenSeq(seqs) \in Seq(X)
  <2>1. len \in 0..len
    OBVIOUS
  <2>. QED
    BY <1>1, <2>1
<1>. QED
  BY <1>1, <1>4, <1>5, <1>6

-----------------------------------------------------------------------------
(***************************************************************************)
(* A function written element by element: Some(f, names, n) is what there  *)
(* is of f after the first n of its arguments, in the order names.         *)
(***************************************************************************)
Some(f, names, n) == [x \in {names[j] : j \in 1..n} |-> f[x]]

\* names has each element of S once.
Lists(names, S) ==
  /\ names \in [1..Cardinality(S) -> S] /\ Cardinality(S) \in Nat
  /\ \A i, j \in 1..Cardinality(S) : names[i] = names[j] => i = j
  /\ \A x \in S : \E i \in 1..Cardinality(S) : names[i] = x

LEMMA SetToSeqLists ==
  ASSUME NEW S, IsFiniteSet(S)
  PROVE  Lists(SetToSeq(S), S)
<1>. DEFINE n == Cardinality(S)
            s == SetToSeq(S)
<1>1. n \in Nat /\ ExistsBijection(1..n, S)
  BY FS_CardinalityType
<1>2. \E f \in [1..n -> S] : IsInjective(f)
  BY <1>1 DEF ExistsBijection, Bijection, Injection, IsInjective
<1>3. s \in [1..n -> S] /\ IsInjective(s)
  BY <1>2 DEF SetToSeq
<1>4. s \in Injection(1..n, S)
  BY <1>3 DEF Injection
<1>5. IsFiniteSet(1..n) /\ Cardinality(1..n) = n
  BY <1>1, FS_Interval
<1>. HIDE DEF s, n
<1>6. s \in Surjection(1..n, S)
  <2>1. Cardinality(1..n) = Cardinality(S)
    BY <1>5 DEF n
  <2>. QED
    BY <1>4, <2>1, FS_Injection
<1>7. \A x \in S : \E i \in 1..n : s[i] = x
  BY <1>6 DEF Surjection
<1>8. \A i, j \in 1..n : s[i] = s[j] => i = j
  BY <1>3 DEF IsInjective
<1>. QED
  BY <1>1, <1>3, <1>7, <1>8 DEF s, n, Lists

LEMMA InOrderLists ==
  ASSUME NEW S \in SUBSET Ids, IsFiniteSet(S)
  PROVE  Lists(InOrder(S), S)
<1>. DEFINE n == Cardinality(S)
            o == InOrder(S)
<1>1. o \in [1..n -> S] /\ n \in Nat /\ Ascending(o) /\ ToSet(o) = S
  BY InOrderOf
<1>. HIDE DEF o, n
<1>2. ASSUME NEW i \in 1..n, NEW j \in 1..n, o[i] = o[j] PROVE i = j
  <2>1. i \in DOMAIN o /\ j \in DOMAIN o /\ i \in Int /\ j \in Int /\ o[i] \in Ids
    BY <1>1
  <2>2. ~Before(o[i], o[j]) /\ ~Before(o[j], o[i])
    BY <1>2, <2>1, BeforeOrders
  <2>3. ~(i < j) /\ ~(j < i)
    BY <1>1, <2>1, <2>2 DEF Ascending
  <2>. QED
    BY <2>1, <2>3
<1>3. \A x \in S : \E i \in 1..n : o[i] = x
  BY <1>1 DEF ToSet
<1>. QED
  BY <1>1, <1>2, <1>3 DEF o, n, Lists

None == [x \in {} |-> 0]

Writes(f, names, len) ==
  /\ len \in Nat /\ DOMAIN names = 1..len
  /\ Some(f, names, 0) = None
  /\ \A n \in 1..len :
       /\ names[n] \in DOMAIN f
       /\ names[n] \notin DOMAIN Some(f, names, n - 1)
       /\ With(Some(f, names, n - 1), names[n], f[names[n]]) = Some(f, names, n)
  /\ Some(f, names, len) = f

LEMMA SomeOf ==
  ASSUME NEW f, NEW names, Lists(names, DOMAIN f), NEW T, f \in [DOMAIN f -> T]
  PROVE  Writes(f, names, Cardinality(DOMAIN f))
<1>. DEFINE len == Cardinality(DOMAIN f)
<1>0. /\ names \in [1..len -> DOMAIN f] /\ len \in Nat
      /\ \A i, j \in 1..len : names[i] = names[j] => i = j
      /\ \A x \in DOMAIN f : \E i \in 1..len : names[i] = x
  BY DEF Lists
<1>. HIDE DEF len
<1>1. Some(f, names, 0) = None
  <2>1. {names[j] : j \in 1..0} = {}
    OBVIOUS
  <2>2. Some(f, names, 0) = [x \in {} |-> f[x]]
    BY <2>1 DEF Some
  <2>. QED
    BY <2>2 DEF None
<1>2. ASSUME NEW n \in 1..len
      PROVE  /\ names[n] \in DOMAIN f
             /\ names[n] \notin DOMAIN Some(f, names, n - 1)
             /\ With(Some(f, names, n - 1), names[n], f[names[n]]) = Some(f, names, n)
  <2>. DEFINE A == {names[j] : j \in 1..(n - 1)}
              B == {names[j] : j \in 1..n}
  <2>1. names[n] \in DOMAIN f
    BY <1>0
  <2>2. names[n] \notin A
    <3>1. \A j \in 1..(n - 1) : j \in 1..len /\ j # n
      BY <1>0
    <3>. QED
      BY <1>0, <3>1
  <2>3. A \union {names[n]} = B
    <3>1. \A j \in 1..n : j = n \/ j \in 1..(n - 1)
      BY <1>0
    <3>2. \A j \in 1..(n - 1) : j \in 1..n
      BY <1>0
    <3>3. n \in 1..n
      BY <1>0
    <3>. QED
      BY <3>1, <3>2, <3>3
  <2>4. Some(f, names, n - 1) = [x \in A |-> f[x]] /\ Some(f, names, n) = [x \in B |-> f[x]]
    BY DEF Some
  <2>. HIDE DEF A, B
  <2>5. With([x \in A |-> f[x]], names[n], f[names[n]]) = [x \in B |-> f[x]]
    BY <2>3 DEF With
  <2>. QED
    BY <2>1, <2>2, <2>4, <2>5
<1>3. Some(f, names, len) = f
  <2>1. {names[j] : j \in 1..len} = DOMAIN f
    <3>1. \A j \in 1..len : names[j] \in DOMAIN f
      BY <1>0
    <3>2. \A x \in DOMAIN f : x \in {names[j] : j \in 1..len}
      BY <1>0
    <3>. QED
      BY <3>1, <3>2
  <2>2. f = [x \in DOMAIN f |-> f[x]]
    OBVIOUS
  <2>. QED
    BY <2>1, <2>2 DEF Some
<1>4. DOMAIN names = 1..len
  BY <1>0
<1>. QED
  BY <1>0, <1>1, <1>2, <1>3, <1>4 DEF len, Writes

-----------------------------------------------------------------------------
(***************************************************************************)
(* The records of one group, after those of its stream.                    *)
(***************************************************************************)
EntryStates ==
  [cmd : {"XADD"}, key : Keys, spec : {Exactly(id) : id \in Ids}, trim : {NoTrim},
   nomk : {FALSE}]
TopStates == [cmd : {"XSTATE"}, key : Keys, id : Ids, added : Nat]
LogStates == RecordStates \union EntryStates \union TopStates

\* The streams of d and a stream k that is s, but for its groups.
Part(s, gs) == [ids |-> s.ids, last |-> s.last, added |-> s.added, groups |-> gs]
Hold(d, k, s, gs) == With(d, k, Part(s, gs))
GroupPart(last, consumers, pel) == [last |-> last, consumers |-> consumers, pel |-> pel]

LEMMA WithTwice ==
  ASSUME NEW f, NEW k, NEW v, NEW w
  PROVE  With(With(f, k, v), k, w) = With(f, k, w)
<1>. DEFINE g == With(f, k, v)
<1>1. DOMAIN g = DOMAIN f \union {k} /\ \A j \in DOMAIN f \ {k} : g[j] = f[j]
  BY DEF With
<1>. HIDE DEF g
<1>2. With(g, k, w) = With(f, k, w)
  BY <1>1 DEF With
<1>. QED
  BY <1>2 DEF g

LEMMA HoldIs ==
  ASSUME NEW d, NEW k, NEW s, NEW gs
  PROVE  /\ StreamOf(Hold(d, k, s, gs), k) = Part(s, gs)
         /\ \A g : HasGroup(Hold(d, k, s, gs), k, g) <=> g \in DOMAIN gs
         /\ \A hs : PutGroups(Hold(d, k, s, gs), k, hs) = Hold(d, k, s, hs)
<1>. DEFINE h == Hold(d, k, s, gs)
            p == Part(s, gs)
<1>1. k \in DOMAIN h /\ h[k] = p
  BY DEF Hold, With
<1>2. p.groups = gs
  BY DEF Part
<1>3. \A hs : [p EXCEPT !.groups = hs] = Part(s, hs)
  BY DEF Part
<1>4. ASSUME NEW hs PROVE PutGroups(h, k, hs) = Hold(d, k, s, hs)
  <2>. DEFINE q == Part(s, hs)
  <2>1. StreamOf(h, k) = p
    BY <1>1 DEF StreamOf
  <2>2. PutGroups(h, k, hs) = With(h, k, q)
    BY <1>3, <2>1 DEF PutGroups
  <2>. HIDE DEF p, q
  <2>3. With(h, k, q) = With(d, k, q)
    BY WithTwice DEF Hold
  <2>. QED
    BY <2>2, <2>3 DEF Hold, q
<1>. HIDE DEF p, h
<1>5. StreamOf(h, k) = p
  BY <1>1 DEF StreamOf
<1>6. \A g : HasGroup(h, k, g) <=> g \in DOMAIN gs
  BY <1>1, <1>2 DEF HasGroup
<1>. QED
  BY <1>4, <1>5, <1>6 DEF p, h

LEMMA FirstOfGroup ==
  ASSUME NEW d, NEW k, NEW s, NEW gs, NEW g, g \notin DOMAIN gs, NEW id
  PROVE  Redo(Hold(d, k, s, gs), [cmd |-> "XGROUP", key |-> k, group |-> g, id |-> id])
           = Hold(d, k, s, With(gs, g, NewGroup(id)))
<1>. DEFINE h == Hold(d, k, s, gs)
            r == [cmd |-> "XGROUP", key |-> k, group |-> g, id |-> id]
<1>1. Redo(h, r) = ApplyRecord(h, r)
  BY DEF Redo
<1>2. StreamOf(h, k).groups = gs /\ ~HasGroup(h, k, g)
  <2>1. StreamOf(h, k) = Part(s, gs) /\ ~HasGroup(h, k, g)
    BY HoldIs
  <2>. QED
    BY <2>1 DEF Part
<1>. HIDE DEF h
<1>3. ApplyRecord(h, r) = PutGroups(h, k, With(gs, g, NewGroup(id)))
  BY <1>2 DEF ApplyRecord, PutGroups
<1>. HIDE DEF r
<1>4. PutGroups(h, k, With(gs, g, NewGroup(id))) = Hold(d, k, s, With(gs, g, NewGroup(id)))
  BY HoldIs DEF h
<1>. QED
  BY <1>1, <1>3, <1>4 DEF h, r

LEMMA LaterOfGroup ==
  ASSUME NEW d, NEW k, NEW s, NEW gs, NEW g, NEW x, NEW r, r.key = k, r.group = g,
         r.cmd \in {"XGCONS", "XGPEL"}
  PROVE  Redo(Hold(d, k, s, With(gs, g, x)), r)
           = Hold(d, k, s, With(gs, g, GroupAfter(x, r)))
<1>. DEFINE hs == With(gs, g, x)
            y  == GroupAfter(x, r)
            h  == Hold(d, k, s, hs)
<1>1. g \in DOMAIN hs /\ hs[g] = x
  BY DEF With
<1>2. With(hs, g, y) = With(gs, g, y)
  BY WithTwice
<1>. HIDE DEF y
<1>. HIDE DEF hs
<1>3. StreamOf(h, k) = Part(s, hs) /\ HasGroup(h, k, g)
  BY <1>1, HoldIs
<1>4. Redo(h, r) = ApplyRecord(h, r)
  BY DEF Redo
<1>5. StreamOf(h, k).groups = hs
  BY <1>3 DEF Part
<1>. HIDE DEF h
<1>6. ApplyRecord(h, r) = PutGroups(h, k, With(hs, g, y))
  BY <1>1, <1>3, <1>5 DEF ApplyRecord, PutGroups, y
<1>7. PutGroups(h, k, With(hs, g, y)) = Hold(d, k, s, With(hs, g, y))
  BY HoldIs DEF h
<1>. QED
  BY <1>2, <1>4, <1>6, <1>7 DEF h, y, hs

LEMMA ConsumerWritten ==
  ASSUME NEW last, NEW f, NEW name, name \notin DOMAIN f, NEW c \in ConsumerStates,
         NEW pel, NEW k, NEW g
  PROVE  GroupAfter(GroupPart(last, f, pel), ConsumerRecord(k, g, name, c))
           = GroupPart(last, With(f, name, c), pel)
<1>. DEFINE r == ConsumerRecord(k, g, name, c)
            x == GroupPart(last, f, pel)
<1>1. c = [seen |-> c.seen, active |-> c.active] /\ c.seen \in Int /\ c.active \in Int
  BY DEF ConsumerStates
<1>2. r.cmd = "XGCONS" /\ r.consumer = name /\ r.seen = c.seen /\ r.active = c.active
  BY DEF ConsumerRecord
<1>3. x.consumers = f
  BY DEF GroupPart
<1>4. \A s, a \in Int : LaterOf(s, s) = s /\ LaterOf(a, a) = a
  BY DEF LaterOf
<1>5. Heard(x, name, c.seen, c.active) = [x EXCEPT !.consumers = With(f, name, c)]
  <2>. HIDE DEF x
  <2>1. Heard(x, name, c.seen, c.active)
          = [x EXCEPT !.consumers = With(f, name, [seen |-> c.seen, active |-> c.active])]
    BY <1>1, <1>3, <1>4 DEF Heard
  <2>. QED
    BY <1>1, <2>1
<1>6. GroupAfter(x, r) = Heard(x, name, c.seen, c.active)
  <2>. HIDE DEF x, r
  <2>. QED
    BY <1>2 DEF GroupAfter
<1>7. [x EXCEPT !.consumers = With(f, name, c)] = GroupPart(last, With(f, name, c), pel)
  BY DEF GroupPart
<1>. QED
  BY <1>5, <1>6, <1>7

LEMMA PendingWritten ==
  ASSUME NEW last, NEW f, f \in [DOMAIN f -> ConsumerStates], NEW pel, NEW id,
         NEW p \in PendingStates, p.consumer \in DOMAIN f,
         p.at <= f[p.consumer].seen, p.at <= f[p.consumer].active, NEW k, NEW g
  PROVE  GroupAfter(GroupPart(last, f, pel), PendingRecord(k, g, id, p))
           = GroupPart(last, f, With(pel, id, p))
<1>. DEFINE r == PendingRecord(k, g, id, p)
            x == GroupPart(last, f, pel)
            c == f[p.consumer]
<1>1. c = [seen |-> c.seen, active |-> c.active] /\ c.seen \in Int /\ c.active \in Int
  <2>1. c \in ConsumerStates
    OBVIOUS
  <2>. HIDE DEF c
  <2>. QED
    BY <2>1 DEF ConsumerStates
<1>2. /\ p = [consumer |-> p.consumer, at |-> p.at, count |-> p.count]
      /\ p.at \in Int
  BY DEF PendingStates
<1>3. r.cmd = "XGPEL" /\ r.consumer = p.consumer /\ r.id = id /\ r.at = p.at
      /\ r.count = p.count
  BY DEF PendingRecord
<1>4. LaterOf(c.seen, p.at) = c.seen /\ LaterOf(c.active, p.at) = c.active
  BY <1>1, <1>2 DEF LaterOf
<1>5. With(f, p.consumer, c) = f
  BY DEF With
<1>6. x.consumers = f
  BY DEF GroupPart
<1>7. Heard(x, p.consumer, p.at, p.at) = [x EXCEPT !.consumers = f]
  <2>1. [seen |-> LaterOf(c.seen, p.at), active |-> LaterOf(c.active, p.at)] = c
    BY <1>1, <1>4
  <2>2. Heard(x, p.consumer, p.at, p.at)
          = [x EXCEPT !.consumers = With(f, p.consumer, [seen |-> LaterOf(c.seen, p.at),
                                                         active |-> LaterOf(c.active, p.at)])]
    <3>. HIDE DEF x
    <3>. QED
      BY <1>6 DEF Heard
  <2>. HIDE DEF x, c
  <2>. QED
    BY <1>5, <2>1, <2>2
<1>8. [x EXCEPT !.consumers = f] = x
  BY DEF GroupPart
<1>9. GroupAfter(x, r) = [x EXCEPT !.pel = With(pel, id, p)]
  <2>1. x.pel = pel
    BY DEF GroupPart
  <2>. HIDE DEF x, r
  <2>. QED
    BY <1>2, <1>3, <1>7, <1>8, <2>1 DEF GroupAfter
<1>10. [x EXCEPT !.pel = With(pel, id, p)] = GroupPart(last, f, With(pel, id, p))
  BY DEF GroupPart
<1>. QED
  BY <1>9, <1>10

\* The parts of GroupRecords.
ConsumerLog(k, g, group) ==
  LET names == SetToSeq(DOMAIN group.consumers)
  IN  [i \in DOMAIN names |-> ConsumerRecord(k, g, names[i], group.consumers[names[i]])]
PendingLog(k, g, group) ==
  LET ids == InOrder(DOMAIN group.pel)
  IN  [i \in DOMAIN ids |-> PendingRecord(k, g, ids[i], group.pel[ids[i]])]

ConsumersAreRestored(d, k, s, gs, g, group) ==
  /\ ConsumerLog(k, g, group) \in Seq(LogStates)
  /\ Restored(Hold(d, k, s, With(gs, g, GroupPart(group.last, None, None))),
              ConsumerLog(k, g, group))
       = Hold(d, k, s, With(gs, g, GroupPart(group.last, group.consumers, None)))
PendingIsRestored(d, k, s, gs, g, group) ==
  /\ PendingLog(k, g, group) \in Seq(LogStates)
  /\ Restored(Hold(d, k, s, With(gs, g, GroupPart(group.last, group.consumers, None))),
              PendingLog(k, g, group))
       = Hold(d, k, s, With(gs, g, GroupPart(group.last, group.consumers, group.pel)))

LEMMA ConsumersRestored ==
  ASSUME NEW d, NEW k \in Keys, NEW s, NEW gs, NEW g \in Groups, NEW group \in GroupStates
  PROVE  ConsumersAreRestored(d, k, s, gs, g, group)
<1>. DEFINE f     == group.consumers
            names == SetToSeq(DOMAIN f)
            log   == ConsumerLog(k, g, group)
            len   == Cardinality(DOMAIN f)
            Now(h) == Hold(d, k, s, With(gs, g, GroupPart(group.last, h, None)))
            st    == [n \in 0..len |-> Now(Some(f, names, n))]
<1>1. /\ DOMAIN f \in SUBSET Consumers /\ IsFiniteSet(DOMAIN f)
      /\ f \in [DOMAIN f -> ConsumerStates]
  BY GroupIs
<1>2. Lists(names, DOMAIN f)
  BY <1>1, SetToSeqLists
<1>3. len \in Nat /\ DOMAIN names = 1..len /\ \A n \in 1..len : names[n] \in DOMAIN f
  BY <1>2 DEF Lists
<1>4. Writes(f, names, len)
  <2>1. \A h, list, T : Lists(list, DOMAIN h) /\ h \in [DOMAIN h -> T] =>
                        Writes(h, list, Cardinality(DOMAIN h))
    BY SomeOf
  <2>. HIDE DEF f, names
  <2>. QED
    BY <1>1, <1>2, <2>1
<1>5. DOMAIN log = 1..len
  BY <1>3 DEF ConsumerLog
<1>6. \A n \in 1..len : log[n] = ConsumerRecord(k, g, names[n], f[names[n]])
  BY <1>3 DEF ConsumerLog
<1>. HIDE DEF f, log, len
<1>7. log \in Seq(LogStates)
  <2>1. ASSUME NEW n \in 1..len PROVE log[n] \in LogStates
    <3>1. names[n] \in Consumers /\ f[names[n]] \in ConsumerStates
      BY <1>1, <1>3
    <3>2. ConsumerRecord(k, g, names[n], f[names[n]]) \in RecordStates
      BY <3>1 DEF ConsumerRecord, RecordStates, ConsumerStates
    <3>. QED
      BY <1>6, <3>2 DEF LogStates
  <2>2. log = [n \in 1..len |-> log[n]]
    BY <1>5 DEF log, ConsumerLog
  <2>3. log \in [1..len -> LogStates]
    BY <2>1, <2>2
  <2>. QED
    BY <1>3, <2>3
<1>8. ASSUME NEW n \in 1..len PROVE st[n] = Redo(st[n - 1], log[n])
  <2>. DEFINE x == GroupPart(group.last, Some(f, names, n - 1), None)
              r == log[n]
  <2>1. n \in 0..len /\ n - 1 \in 0..len
    BY <1>3
  <2>2. names[n] \notin DOMAIN Some(f, names, n - 1) /\ f[names[n]] \in ConsumerStates
    BY <1>1, <1>3, <1>4 DEF Writes
  <2>3. GroupAfter(x, r) = GroupPart(group.last, Some(f, names, n), None)
    BY <1>4, <1>6, <2>2, ConsumerWritten DEF Writes
  <2>4. r.key = k /\ r.group = g /\ r.cmd = "XGCONS"
    <3>1. r = ConsumerRecord(k, g, names[n], f[names[n]])
      BY <1>6
    <3>. HIDE DEF r
    <3>. QED
      BY <3>1 DEF ConsumerRecord
  <2>5. st[n - 1] = Hold(d, k, s, With(gs, g, x)) /\ st[n] = Now(Some(f, names, n))
    BY <2>1
  <2>. HIDE DEF x, r
  <2>6. Redo(Hold(d, k, s, With(gs, g, x)), r) = Hold(d, k, s, With(gs, g, GroupAfter(x, r)))
    BY <2>4, LaterOfGroup
  <2>. QED
    BY <2>3, <2>5, <2>6 DEF r
<1>9. st[0] = Now(None) /\ st[len] = Now(f)
  <2>1. 0 \in 0..len /\ len \in 0..len
    BY <1>3
  <2>. QED
    BY <1>4, <2>1 DEF Writes
<1>. HIDE DEF st
<1>10. Restored(st[0], log) = st[len]
  BY <1>3, <1>5, <1>8, RestoredBy
<1>. QED
  BY <1>7, <1>9, <1>10 DEF f, log, ConsumersAreRestored

LEMMA PendingRestored ==
  ASSUME NEW d, NEW k \in Keys, NEW s, NEW gs, NEW g \in Groups, NEW group \in GroupStates,
         OwnedInTime(group)
  PROVE  PendingIsRestored(d, k, s, gs, g, group)
<1>. DEFINE f   == group.pel
            ids == InOrder(DOMAIN f)
            log == PendingLog(k, g, group)
            len == Cardinality(DOMAIN f)
            all == group.consumers
            Now(h) == Hold(d, k, s, With(gs, g, GroupPart(group.last, all, h)))
            st  == [n \in 0..len |-> Now(Some(f, ids, n))]
<1>1. /\ DOMAIN f \in SUBSET Ids /\ IsFiniteSet(DOMAIN f)
      /\ f \in [DOMAIN f -> PendingStates]
      /\ all \in [DOMAIN all -> ConsumerStates]
  BY GroupIs
<1>2. Lists(ids, DOMAIN f)
  BY <1>1, InOrderLists
<1>3. len \in Nat /\ DOMAIN ids = 1..len /\ \A n \in 1..len : ids[n] \in DOMAIN f
  BY <1>2 DEF Lists
<1>4. Writes(f, ids, len)
  <2>1. \A h, list, T : Lists(list, DOMAIN h) /\ h \in [DOMAIN h -> T] =>
                        Writes(h, list, Cardinality(DOMAIN h))
    BY SomeOf
  <2>. HIDE DEF f, ids
  <2>. QED
    BY <1>1, <1>2, <2>1
<1>5. DOMAIN log = 1..len
  BY <1>3 DEF PendingLog
<1>6. \A n \in 1..len : log[n] = PendingRecord(k, g, ids[n], f[ids[n]])
  BY <1>3 DEF PendingLog
<1>a. \A i \in DOMAIN f : /\ f[i].consumer \in DOMAIN all
                          /\ f[i].at <= all[f[i].consumer].seen
                          /\ f[i].at <= all[f[i].consumer].active
  BY DEF OwnedInTime
<1>. HIDE DEF f, log, len, all
<1>7. log \in Seq(LogStates)
  <2>1. ASSUME NEW n \in 1..len PROVE log[n] \in LogStates
    <3>1. ids[n] \in Ids /\ f[ids[n]] \in PendingStates
      BY <1>1, <1>3
    <3>2. PendingRecord(k, g, ids[n], f[ids[n]]) \in RecordStates
      BY <3>1 DEF PendingRecord, RecordStates, PendingStates
    <3>. QED
      BY <1>6, <3>2 DEF LogStates
  <2>2. log = [n \in 1..len |-> log[n]]
    BY <1>5 DEF log, PendingLog
  <2>3. log \in [1..len -> LogStates]
    BY <2>1, <2>2
  <2>. QED
    BY <1>3, <2>3
<1>8. ASSUME NEW n \in 1..len PROVE st[n] = Redo(st[n - 1], log[n])
  <2>. DEFINE x == GroupPart(group.last, all, Some(f, ids, n - 1))
              r == log[n]
              p == f[ids[n]]
  <2>1. n \in 0..len /\ n - 1 \in 0..len
    BY <1>3
  <2>2. /\ p \in PendingStates /\ p.consumer \in DOMAIN all
        /\ p.at <= all[p.consumer].seen /\ p.at <= all[p.consumer].active
    BY <1>1, <1>3, <1>a
  <2>3. GroupAfter(x, r) = GroupPart(group.last, all, Some(f, ids, n))
    <3>. DEFINE before == Some(f, ids, n - 1)
    <3>1. r = PendingRecord(k, g, ids[n], p) /\ With(before, ids[n], p) = Some(f, ids, n)
      BY <1>4, <1>6 DEF Writes
    <3>. HIDE DEF p, before, r
    <3>2. GroupAfter(GroupPart(group.last, all, before), PendingRecord(k, g, ids[n], p))
            = GroupPart(group.last, all, With(before, ids[n], p))
      BY <1>1, <2>2, PendingWritten
    <3>. QED
      BY <3>1, <3>2 DEF before
  <2>4. r.key = k /\ r.group = g /\ r.cmd = "XGPEL"
    <3>1. r = PendingRecord(k, g, ids[n], f[ids[n]])
      BY <1>6
    <3>. HIDE DEF r
    <3>. QED
      BY <3>1 DEF PendingRecord
  <2>5. st[n - 1] = Hold(d, k, s, With(gs, g, x)) /\ st[n] = Now(Some(f, ids, n))
    BY <2>1
  <2>. HIDE DEF x, r
  <2>6. Redo(Hold(d, k, s, With(gs, g, x)), r) = Hold(d, k, s, With(gs, g, GroupAfter(x, r)))
    BY <2>4, LaterOfGroup
  <2>. QED
    BY <2>3, <2>5, <2>6 DEF r
<1>9. st[0] = Now(None) /\ st[len] = Now(f)
  <2>1. 0 \in 0..len /\ len \in 0..len
    BY <1>3
  <2>. QED
    BY <1>4, <2>1 DEF Writes
<1>. HIDE DEF st
<1>10. Restored(st[0], log) = st[len]
  BY <1>3, <1>5, <1>8, RestoredBy
<1>. QED
  BY <1>7, <1>9, <1>10 DEF f, log, all, PendingIsRestored

LEMMA GroupRestored ==
  ASSUME NEW d, NEW k \in Keys, NEW s, NEW gs, NEW g \in Groups, g \notin DOMAIN gs,
         NEW group \in GroupStates, OwnedInTime(group)
  PROVE  /\ GroupRecords(k, g, group) \in Seq(LogStates)
         /\ Restored(Hold(d, k, s, gs), GroupRecords(k, g, group))
              = Hold(d, k, s, With(gs, g, group))
<1>. DEFINE r     == [cmd |-> "XGROUP", key |-> k, group |-> g, id |-> group.last]
            cons  == ConsumerLog(k, g, group)
            pend  == PendingLog(k, g, group)
            Now(x) == Hold(d, k, s, With(gs, g, x))
<1>1. GroupRecords(k, g, group) = (<<r>> \o cons) \o pend
  BY DEF GroupRecords, ConsumerLog, PendingLog
<1>2. group = GroupPart(group.last, group.consumers, group.pel) /\ group.last \in Ids
  BY DEF GroupPart, GroupStates
<1>3. /\ cons \in Seq(LogStates)
      /\ Restored(Now(GroupPart(group.last, None, None)), cons)
           = Now(GroupPart(group.last, group.consumers, None))
  <2>1. ConsumersAreRestored(d, k, s, gs, g, group)
    BY ConsumersRestored
  <2>. QED
    BY <2>1 DEF ConsumersAreRestored
<1>4. /\ pend \in Seq(LogStates)
      /\ Restored(Now(GroupPart(group.last, group.consumers, None)), pend)
           = Now(GroupPart(group.last, group.consumers, group.pel))
  <2>1. PendingIsRestored(d, k, s, gs, g, group)
    BY PendingRestored
  <2>. QED
    BY <2>1 DEF PendingIsRestored
<1>5. r \in LogStates
  BY <1>2 DEF LogStates, RecordStates
<1>6. Redo(Hold(d, k, s, gs), r) = Now(GroupPart(group.last, None, None))
  <2>1. NewGroup(group.last) = GroupPart(group.last, None, None)
    BY DEF NewGroup, GroupPart, None
  <2>2. Redo(Hold(d, k, s, gs), r) = Now(NewGroup(group.last))
    BY FirstOfGroup
  <2>. QED
    BY <2>1, <2>2
<1>. HIDE DEF r, cons, pend
<1>. DEFINE one == <<r>>
<1>7. one \in Seq(LogStates)
  BY <1>5
<1>8. Restored(Hold(d, k, s, gs), one) = Redo(Hold(d, k, s, gs), r)
  BY OneLogged
<1>. HIDE DEF one, Now
<1>. DEFINE two == one \o cons
<1>9. two \in Seq(LogStates)
  BY <1>3, <1>7
<1>10. Restored(Hold(d, k, s, gs), two) = Now(GroupPart(group.last, group.consumers, None))
  BY <1>3, <1>6, <1>7, <1>8, ConcatRestored
<1>. HIDE DEF two
<1>11. Restored(Hold(d, k, s, gs), two \o pend) = Now(group)
  BY <1>2, <1>4, <1>9, <1>10, ConcatRestored
<1>12. two \o pend \in Seq(LogStates)
  BY <1>4, <1>9
<1>. QED
  BY <1>1, <1>11, <1>12 DEF two, one, Now

-----------------------------------------------------------------------------
(***************************************************************************)
(* The records of one stream.                                              *)
(***************************************************************************)
EntriesLog(k, s) == [i \in DOMAIN s.ids |-> Entry(k, s.ids[i])]
TopRecord(k, s) == [cmd |-> "XSTATE", key |-> k, id |-> s.last, added |-> s.added]

LEMMA SubSeqGrows ==
  ASSUME NEW ids \in Seq(Ids)
  PROVE  /\ SubSeq(ids, 1, 0) = <<>>
         /\ \A n \in 1..Len(ids) : Append(SubSeq(ids, 1, n - 1), ids[n]) = SubSeq(ids, 1, n)
         /\ SubSeq(ids, 1, Len(ids)) = ids
OBVIOUS

\* What recovery makes of the first n entries.
Begun(ids, n) ==
  [ids |-> SubSeq(ids, 1, n), last |-> IF n = 0 THEN MinId ELSE ids[n], added |-> n,
   groups |-> None]

Sound(s) ==
  /\ Ascending(s.ids)
  /\ \A id \in ToSet(s.ids) : id # MinId
  /\ \A g \in DOMAIN s.groups : OwnedInTime(s.groups[g])

LEMMA BegunIs ==
  ASSUME NEW s \in StreamStates, Sound(s)
  PROVE  /\ s.ids \in Seq(Ids)
         /\ Begun(s.ids, 0) = NewStream
         /\ \A n \in 1..Len(s.ids) :
              /\ Before(Begun(s.ids, n - 1).last, s.ids[n])
              /\ Grown(Begun(s.ids, n - 1), s.ids[n]) = Begun(s.ids, n)
<1>. DEFINE ids == s.ids
<1>1. ids \in Seq(Ids) /\ Ascending(ids) /\ \A id \in ToSet(ids) : id # MinId
  BY DEF Sound, StreamStates
<1>. HIDE DEF ids
<1>2. Begun(ids, 0) = NewStream
  BY <1>1, SubSeqGrows DEF Begun, NewStream, None
<1>3. ASSUME NEW n \in 1..Len(ids)
      PROVE  /\ Before(Begun(ids, n - 1).last, ids[n])
             /\ Grown(Begun(ids, n - 1), ids[n]) = Begun(ids, n)
  <2>1. n \in Nat /\ n - 1 \in Nat /\ n # 0 /\ (n - 1) + 1 = n
    OBVIOUS
  <2>2. Before(Begun(ids, n - 1).last, ids[n])
    <3>1. ids[n] \in Ids /\ ids[n] # MinId
      BY <1>1 DEF ToSet
    <3>2. CASE n = 1
      <4>1. Begun(ids, n - 1).last = MinId
        BY <3>2 DEF Begun
      <4>2. Before(MinId, ids[n])
        BY <3>1, NothingBeforeMin, BeforeOrders
      <4>. QED
        BY <4>1, <4>2
    <3>3. CASE n # 1
      <4>1. n - 1 \in DOMAIN ids /\ n \in DOMAIN ids /\ n - 1 < n /\ n - 1 # 0
        BY <1>1, <2>1, <3>3
      <4>2. Begun(ids, n - 1).last = ids[n - 1]
        BY <4>1 DEF Begun
      <4>3. Before(ids[n - 1], ids[n])
        BY <1>1, <4>1 DEF Ascending
      <4>. QED
        BY <4>2, <4>3
    <3>. QED
      BY <3>2, <3>3
  <2>3. Append(SubSeq(ids, 1, n - 1), ids[n]) = SubSeq(ids, 1, n)
    BY <1>1, SubSeqGrows
  <2>. DEFINE b == Begun(ids, n - 1)
              x == ids[n]
              l == b.last
              t == SubSeq(ids, 1, n - 1)
  <2>4. b \in [ids : {t}, last : {l}, added : {n - 1}, groups : {None}]
    BY DEF Begun
  <2>5. Begun(ids, n) \in [ids : {SubSeq(ids, 1, n)}, last : {x}, added : {n}, groups : {None}]
    BY <2>1 DEF Begun
  <2>. HIDE DEF b, x, l, t
  <2>6. Grown(b, x) \in [ids : {Append(t, x)}, last : {x}, added : {(n - 1) + 1}, groups : {None}]
    BY <2>4 DEF Grown
  <2>7. Grown(b, x) = Begun(ids, n)
    <3>1. Append(t, x) = SubSeq(ids, 1, n)
      BY <2>3 DEF t, x
    <3>. QED
      BY <2>1, <2>5, <2>6, <3>1
  <2>. QED
    BY <2>2, <2>7 DEF b, x
<1>. QED
  BY <1>1, <1>2, <1>3 DEF ids

EntriesAreRestored(d, k, s) ==
  /\ EntriesLog(k, s) \in Seq(LogStates)
  /\ Redo(Restored(d, EntriesLog(k, s)), TopRecord(k, s)) = Hold(d, k, s, None)

LEMMA EntriesRestored ==
  ASSUME NEW d, NEW k \in Keys, k \notin DOMAIN d, NEW s \in StreamStates, Sound(s)
  PROVE  EntriesAreRestored(d, k, s)
<1>. DEFINE ids == s.ids
            len == Len(ids)
            log == EntriesLog(k, s)
            st  == [n \in 0..len |-> IF n = 0 THEN d ELSE With(d, k, Begun(ids, n))]
<1>1. ids \in Seq(Ids) /\ len \in Nat /\ DOMAIN ids = 1..len
  <2>1. ids \in Seq(Ids)
    BY BegunIs
  <2>. QED
    BY <2>1
<1>2. /\ Begun(ids, 0) = NewStream
      /\ \A n \in 1..len : /\ Before(Begun(ids, n - 1).last, ids[n])
                           /\ Grown(Begun(ids, n - 1), ids[n]) = Begun(ids, n)
  BY BegunIs
<1>3. DOMAIN log = 1..len /\ \A n \in 1..len : log[n] = Entry(k, ids[n])
  BY <1>1 DEF EntriesLog
<1>4. log \in Seq(LogStates)
  <2>1. log = [n \in 1..len |-> log[n]]
    BY <1>1 DEF EntriesLog
  <2>. HIDE DEF log, ids, len
  <2>2. ASSUME NEW n \in 1..len PROVE log[n] \in LogStates
    <3>1. ids[n] \in Ids
      BY <1>1
    <3>2. Entry(k, ids[n]) \in EntryStates
      BY <3>1 DEF Entry, EntryStates
    <3>. QED
      BY <1>3, <3>2 DEF LogStates
  <2>3. log \in [1..len -> LogStates]
    BY <2>1, <2>2
  <2>. QED
    BY <1>1, <2>3
<1>. HIDE DEF log, ids, len
<1>5. ASSUME NEW n \in 0..len
      PROVE  /\ StreamOf(st[n], k) = Begun(ids, n)
             /\ \A v : With(st[n], k, v) = With(d, k, v)
  <2>1. CASE n = 0
    <3>1. st[n] = d
      BY <2>1
    <3>. HIDE DEF st
    <3>. QED
      BY <1>2, <2>1, <3>1 DEF StreamOf
  <2>2. CASE n # 0
    <3>. DEFINE b == Begun(ids, n)
    <3>1. st[n] = With(d, k, b)
      BY <2>2
    <3>. HIDE DEF st, b
    <3>2. StreamOf(With(d, k, b), k) = b
      BY DEF StreamOf, With
    <3>3. \A v : With(With(d, k, b), k, v) = With(d, k, v)
      BY WithTwice
    <3>. QED
      BY <3>1, <3>2, <3>3 DEF b
  <2>. QED
    BY <2>1, <2>2
<1>6. ASSUME NEW n \in 1..len PROVE st[n] = Redo(st[n - 1], log[n])
  <2>. DEFINE r == log[n]
              b == Begun(ids, n - 1)
              e == st[n - 1]
  <2>1. n \in 0..len /\ n - 1 \in 0..len /\ n # 0
    BY <1>1
  <2>2. st[n] = With(d, k, Begun(ids, n))
    BY <2>1
  <2>3. StreamOf(e, k) = b /\ \A v : With(e, k, v) = With(d, k, v)
    BY <1>5, <2>1
  <2>4. r.cmd = "XADD" /\ r.key = k /\ r.spec.id = ids[n]
    <3>1. r = Entry(k, ids[n])
      BY <1>3
    <3>. HIDE DEF r
    <3>. QED
      BY <3>1 DEF Entry, Exactly
  <2>. HIDE DEF r, b, e, st
  <2>5. Before(b.last, ids[n]) /\ Grown(b, ids[n]) = Begun(ids, n)
    BY <1>2 DEF b
  <2>6. Redo(e, r) = With(e, k, Grown(b, ids[n]))
    BY <2>3, <2>4, <2>5 DEF Redo
  <2>7. Redo(e, r) = st[n]
    BY <2>2, <2>3, <2>5, <2>6
  <2>. QED
    BY <2>7 DEF e, r
<1>7. st[0] = d /\ 0 \in 0..len /\ len \in 0..len
  BY <1>1
<1>8. Restored(d, log) = st[len]
  <2>. HIDE DEF st
  <2>1. Restored(st[0], log) = st[len]
    BY <1>1, <1>3, <1>6, RestoredBy
  <2>. QED
    BY <1>7, <2>1
<1>9. Redo(st[len], TopRecord(k, s)) = Hold(d, k, s, None)
  <2>. DEFINE r == TopRecord(k, s)
              e == st[len]
              b == Begun(ids, len)
  <2>1. StreamOf(e, k) = b /\ \A v : With(e, k, v) = With(d, k, v)
    BY <1>5, <1>7
  <2>2. [b EXCEPT !.last = s.last, !.added = s.added] = Part(s, None)
    <3>1. SubSeq(ids, 1, len) = s.ids
      BY <1>1, SubSeqGrows DEF ids, len
    <3>2. b \in [ids : {s.ids}, last : {b.last}, added : {b.added}, groups : {None}]
      BY <3>1 DEF Begun
    <3>. HIDE DEF b
    <3>3. [b EXCEPT !.last = s.last, !.added = s.added]
            \in [ids : {s.ids}, last : {s.last}, added : {s.added}, groups : {None}]
      BY <3>2
    <3>4. Part(s, None) \in [ids : {s.ids}, last : {s.last}, added : {s.added}, groups : {None}]
      BY DEF Part
    <3>. QED
      BY <3>3, <3>4
  <2>3. r.cmd = "XSTATE" /\ r.key = k /\ r.id = s.last /\ r.added = s.added
    BY DEF TopRecord
  <2>. HIDE DEF r, e, b
  <2>4. Redo(e, r) = With(e, k, [b EXCEPT !.last = s.last, !.added = s.added])
    BY <2>1, <2>3 DEF Redo
  <2>5. Redo(e, r) = With(d, k, Part(s, None))
    BY <2>1, <2>2, <2>4
  <2>. QED
    BY <2>5 DEF e, r, Hold
<1>. QED
  BY <1>4, <1>8, <1>9 DEF log, EntriesAreRestored

GroupsLog(k, s) ==
  LET names == SetToSeq(DOMAIN s.groups)
  IN  [i \in DOMAIN names |-> GroupRecords(k, names[i], s.groups[names[i]])]

GroupIsRestored(d, k, s, gs, g, group) ==
  /\ GroupRecords(k, g, group) \in Seq(LogStates)
  /\ Restored(Hold(d, k, s, gs), GroupRecords(k, g, group)) = Hold(d, k, s, With(gs, g, group))

GroupsAreRestored(d, k, s) ==
  /\ FlattenSeq(GroupsLog(k, s)) \in Seq(LogStates)
  /\ Restored(Hold(d, k, s, None), FlattenSeq(GroupsLog(k, s))) = Hold(d, k, s, s.groups)

LEMMA GroupsRestored ==
  ASSUME NEW d, NEW k \in Keys, NEW s \in StreamStates, Sound(s)
  PROVE  GroupsAreRestored(d, k, s)
<1>. DEFINE f     == s.groups
            names == SetToSeq(DOMAIN f)
            seqs  == GroupsLog(k, s)
            len   == Cardinality(DOMAIN f)
            st    == [n \in 0..len |-> Hold(d, k, s, Some(f, names, n))]
<1>1. /\ DOMAIN f \in SUBSET Groups /\ IsFiniteSet(DOMAIN f)
      /\ f \in [DOMAIN f -> GroupStates]
  <2>1. f \in Partial(Groups, GroupStates)
    BY DEF StreamStates
  <2>. HIDE DEF f
  <2>. QED
    BY <2>1, PartialIs
<1>2. Lists(names, DOMAIN f)
  BY <1>1, SetToSeqLists
<1>3. len \in Nat /\ DOMAIN names = 1..len /\ \A n \in 1..len : names[n] \in DOMAIN f
  BY <1>2 DEF Lists
<1>4. Writes(f, names, len)
  <2>1. \A h, list, T : Lists(list, DOMAIN h) /\ h \in [DOMAIN h -> T] =>
                        Writes(h, list, Cardinality(DOMAIN h))
    BY SomeOf
  <2>. HIDE DEF f, names
  <2>. QED
    BY <1>1, <1>2, <2>1
<1>5. DOMAIN seqs = 1..len /\ seqs = [n \in 1..len |-> seqs[n]]
  BY <1>3 DEF GroupsLog
<1>6. \A n \in 1..len : seqs[n] = GroupRecords(k, names[n], f[names[n]])
  BY <1>3 DEF GroupsLog
<1>7. \A g \in DOMAIN f : OwnedInTime(f[g])
  BY DEF Sound
<1>. HIDE DEF f, names, seqs, len
<1>8. ASSUME NEW n \in 1..len
      PROVE  GroupIsRestored(d, k, s, Some(f, names, n - 1), names[n], f[names[n]])
  <2>. DEFINE g  == names[n]
              gs == Some(f, names, n - 1)
              x  == f[g]
  <2>1. g \in DOMAIN f /\ g \notin DOMAIN gs
    BY <1>3, <1>4 DEF Writes
  <2>2. g \in Groups /\ x \in GroupStates /\ OwnedInTime(x)
    BY <1>1, <1>7, <2>1
  <2>. HIDE DEF g, gs, x
  <2>3. GroupIsRestored(d, k, s, gs, g, x)
    BY <2>1, <2>2, GroupRestored DEF GroupIsRestored
  <2>. QED
    BY <2>3 DEF g, gs, x
<1>9. ASSUME NEW n \in 1..len
      PROVE  st[n] = Restored(st[n - 1], seqs[n]) /\ seqs[n] \in Seq(LogStates)
  <2>1. n \in 0..len /\ n - 1 \in 0..len
    BY <1>3
  <2>2. st[n - 1] = Hold(d, k, s, Some(f, names, n - 1)) /\ st[n] = Hold(d, k, s, Some(f, names, n))
    BY <2>1
  <2>3. With(Some(f, names, n - 1), names[n], f[names[n]]) = Some(f, names, n)
    BY <1>4 DEF Writes
  <2>. HIDE DEF st
  <2>. QED
    BY <1>6, <1>8, <2>2, <2>3 DEF GroupIsRestored
<1>10. st[0] = Hold(d, k, s, None) /\ st[len] = Hold(d, k, s, f)
  <2>1. 0 \in 0..len /\ len \in 0..len
    BY <1>3
  <2>. QED
    BY <1>4, <2>1 DEF Writes
<1>. HIDE DEF st
<1>11. seqs \in [1..len -> Seq(LogStates)]
  BY <1>5, <1>9
<1>a. \A n \in 1..len : st[n] = Restored(st[n - 1], seqs[n])
  BY <1>9
<1>12. Restored(st[0], FlattenSeq(seqs)) = st[len]
  BY <1>3, <1>a, <1>11, FlattenRestored
<1>b. FlattenSeq(seqs) \in Seq(LogStates)
  BY <1>3, <1>a, <1>11, FlattenRestored
<1>. QED
  BY <1>10, <1>12, <1>b DEF seqs, f, GroupsAreRestored

StreamIsRestored(d, k, s) ==
  /\ StreamRecords(k, s) \in Seq(LogStates)
  /\ Restored(d, StreamRecords(k, s)) = With(d, k, s)

LEMMA StreamRestored ==
  ASSUME NEW d, NEW k \in Keys, k \notin DOMAIN d, NEW s \in StreamStates, Sound(s)
  PROVE  StreamIsRestored(d, k, s)
<1>. DEFINE top    == TopRecord(k, s)
            begun  == EntriesLog(k, s)
            groups == FlattenSeq(GroupsLog(k, s))
<1>1. StreamRecords(k, s) = (begun \o <<top>>) \o groups
  BY DEF StreamRecords, TopRecord, EntriesLog, GroupsLog
<1>2. begun \in Seq(LogStates) /\ Redo(Restored(d, begun), top) = Hold(d, k, s, None)
  <2>1. EntriesAreRestored(d, k, s)
    BY EntriesRestored
  <2>. QED
    BY <2>1 DEF EntriesAreRestored
<1>3. groups \in Seq(LogStates) /\ Restored(Hold(d, k, s, None), groups) = Hold(d, k, s, s.groups)
  <2>1. GroupsAreRestored(d, k, s)
    BY GroupsRestored
  <2>. QED
    BY <2>1 DEF GroupsAreRestored
<1>4. Hold(d, k, s, s.groups) = With(d, k, s)
  <2>1. Part(s, s.groups) = s
    BY DEF Part, StreamStates
  <2>. QED
    BY <2>1 DEF Hold
<1>5. top \in LogStates
  <2>1. s.last \in Ids /\ s.added \in Nat
    BY DEF StreamStates
  <2>. QED
    BY <2>1 DEF TopRecord, LogStates, TopStates
<1>. HIDE DEF top, begun, groups
<1>. DEFINE one == <<top>>
<1>6. one \in Seq(LogStates)
  BY <1>5
<1>7. Restored(Restored(d, begun), one) = Redo(Restored(d, begun), top)
  BY OneLogged
<1>. HIDE DEF one
<1>. DEFINE two == begun \o one
<1>8. two \in Seq(LogStates)
  BY <1>2, <1>6
<1>9. Restored(d, two) = Hold(d, k, s, None)
  BY <1>2, <1>6, <1>7, ConcatRestored
<1>. HIDE DEF two
<1>10. two \o groups \in Seq(LogStates)
  BY <1>3, <1>8
<1>11. Restored(d, two \o groups) = With(d, k, s)
  BY <1>3, <1>4, <1>8, <1>9, ConcatRestored
<1>. QED
  BY <1>1, <1>10, <1>11 DEF two, one, StreamIsRestored

-----------------------------------------------------------------------------
(***************************************************************************)
(* The whole log.                                                          *)
(***************************************************************************)

\* What COMPACT writes of any streams that the master can have rebuilds them
\* (compact_aof, recover_from_aof).
THEOREM CompactedLogRebuilds ==
  ASSUME NEW d \in DataStates, Orderly(d), InTime(d)
  PROVE  Restored([k \in {} |-> NewStream], Compacted(d)) = d
<1>. DEFINE keys == SetToSeq(DOMAIN d)
            seqs == [i \in DOMAIN keys |-> StreamRecords(keys[i], d[keys[i]])]
            len  == Cardinality(DOMAIN d)
            st   == [n \in 0..len |-> Some(d, keys, n)]
<1>1. /\ DOMAIN d \in SUBSET Keys /\ IsFiniteSet(DOMAIN d)
      /\ d \in [DOMAIN d -> StreamStates]
  BY PartialIs DEF DataStates
<1>2. Lists(keys, DOMAIN d)
  BY <1>1, SetToSeqLists
<1>3. len \in Nat /\ DOMAIN keys = 1..len /\ \A n \in 1..len : keys[n] \in DOMAIN d
  BY <1>2 DEF Lists
<1>4. Writes(d, keys, len)
  <2>. HIDE DEF keys
  <2>. QED
    BY <1>1, <1>2, SomeOf
<1>5. DOMAIN seqs = 1..len /\ seqs = [n \in 1..len |-> seqs[n]]
  BY <1>3
<1>6. \A n \in 1..len : seqs[n] = StreamRecords(keys[n], d[keys[n]])
  BY <1>3
<1>7. Compacted(d) = FlattenSeq(seqs)
  BY DEF Compacted
<1>8. \A k \in DOMAIN d : Sound(d[k])
  BY DEF Orderly, InTime, Sound
<1>. HIDE DEF keys, seqs, len
<1>9. ASSUME NEW n \in 1..len
      PROVE  StreamIsRestored(Some(d, keys, n - 1), keys[n], d[keys[n]])
  <2>. DEFINE k == keys[n]
              e == Some(d, keys, n - 1)
              s == d[k]
  <2>1. k \in DOMAIN d /\ k \notin DOMAIN e
    BY <1>3, <1>4 DEF Writes
  <2>2. k \in Keys /\ s \in StreamStates /\ Sound(s)
    BY <1>1, <1>8, <2>1
  <2>. HIDE DEF k, e, s
  <2>3. StreamIsRestored(e, k, s)
    BY <2>1, <2>2, StreamRestored
  <2>. QED
    BY <2>3 DEF k, e, s
<1>10. ASSUME NEW n \in 1..len
       PROVE  st[n] = Restored(st[n - 1], seqs[n]) /\ seqs[n] \in Seq(LogStates)
  <2>1. n \in 0..len /\ n - 1 \in 0..len
    BY <1>3
  <2>2. st[n - 1] = Some(d, keys, n - 1) /\ st[n] = Some(d, keys, n)
    BY <2>1
  <2>3. With(Some(d, keys, n - 1), keys[n], d[keys[n]]) = Some(d, keys, n)
    BY <1>4 DEF Writes
  <2>. HIDE DEF st
  <2>. QED
    BY <1>6, <1>9, <2>2, <2>3 DEF StreamIsRestored
<1>11. st[0] = [k \in {} |-> NewStream] /\ st[len] = d
  <2>1. 0 \in 0..len /\ len \in 0..len
    BY <1>3
  <2>2. st[0] = None /\ st[len] = d
    BY <1>4, <2>1 DEF Writes
  <2>. QED
    BY <2>2 DEF None
<1>. HIDE DEF st
<1>12. seqs \in [1..len -> Seq(LogStates)]
  BY <1>5, <1>10
<1>13. Restored(st[0], FlattenSeq(seqs)) = st[len]
  BY <1>3, <1>10, <1>12, FlattenRestored
<1>. QED
  BY <1>7, <1>11, <1>13

\* A restart, after any sequence of commands and compactions, finds the
\* streams of the master: entries, top identifiers, counters, cursors,
\* consumers and pending entries with their times and attempts.
THEOREM LogAlwaysRebuilds == Spec => []LogRebuilds
<1>. DEFINE Inv == StreamsInv /\ recovered = data
<1>1. Init => Inv
  BY StreamsInvHolds DEF Init
<1>2. Inv /\ [Next]_vars => Inv'
  <2>. SUFFICES ASSUME Inv, [Next]_vars PROVE Inv'
    OBVIOUS
  <2>1. StreamsInv'
    BY StepKeeps
  <2>2. CASE UNCHANGED vars
    BY <2>1, <2>2 DEF vars
  <2>3. CASE Compact
    <3>1. Restored([k \in {} |-> NewStream], Compacted(data)) = data
      BY CompactedLogRebuilds DEF StreamsInv
    <3>2. recovered' = Restored([k \in {} |-> NewStream], Compacted(data)) /\ data' = data
      BY <2>3 DEF Compact
    <3>. QED
      BY <2>1, <3>1, <3>2
  <2>4. CASE \E c, now : IsRun(c, now)
    BY <2>1, <2>4, RunKeeps
  <2>. QED
    BY <2>2, <2>3, <2>4, StepIsRun
<1>3. Inv => LogRebuilds
  BY DEF LogRebuilds
<1>. QED
  BY <1>1, <1>2, <1>3, PTL DEF Spec

-----------------------------------------------------------------------------
(***************************************************************************)
(* What records do to one group, and that they do nothing to the others.   *)
(***************************************************************************)
SamePlace(d, e, k, g) ==
  /\ HasGroup(e, k, g) <=> HasGroup(d, k, g)
  /\ HasGroup(d, k, g) => e[k].groups[g] = d[k].groups[g]

\* The group g of k is x.
IsGroup(d, k, g, x) == HasGroup(d, k, g) /\ d[k].groups[g] = x

LEMMA PutIs ==
  ASSUME NEW d \in DataStates, NEW k, NEW gs
  PROVE  /\ \A g : HasGroup(PutGroups(d, k, gs), k, g) <=> g \in DOMAIN gs
         /\ PutGroups(d, k, gs)[k].groups = gs
         /\ \A j, g : j # k => SamePlace(d, PutGroups(d, k, gs), j, g)
<1>. DEFINE s == [StreamOf(d, k) EXCEPT !.groups = gs]
            e == With(d, k, s)
<1>1. s.groups = gs
  BY StreamOfType DEF StreamStates
<1>2. PutGroups(d, k, gs) = e
  BY DEF PutGroups
<1>. HIDE DEF s
<1>3. DOMAIN e = DOMAIN d \union {k} /\ e[k] = s /\ \A j \in DOMAIN d \ {k} : e[j] = d[j]
  BY DEF With
<1>. HIDE DEF e
<1>. QED
  BY <1>1, <1>2, <1>3 DEF HasGroup, SamePlace

LEMMA RecordElsewhere ==
  ASSUME NEW d \in DataStates, NEW r, NEW k, NEW g, k # r.key \/ g # r.group
  PROVE  SamePlace(d, ApplyRecord(d, r), k, g)
<1>. DEFINE gs == StreamOf(d, r.key).groups
<1>0. \A h : HasGroup(d, r.key, h) <=> r.key \in DOMAIN d /\ h \in DOMAIN gs
  BY DEF HasGroup, StreamOf
<1>a. r.key \in DOMAIN d => d[r.key].groups = gs
  BY DEF StreamOf
<1>b. r.key \notin DOMAIN d => DOMAIN gs = {}
  BY DEF StreamOf, NewStream
<1>. HIDE DEF gs
<1>1. ASSUME NEW hs, \A h : h # r.group => (h \in DOMAIN hs <=> h \in DOMAIN gs),
             \A h \in DOMAIN gs : h # r.group => hs[h] = gs[h]
      PROVE  SamePlace(d, PutGroups(d, r.key, hs), k, g)
  <2>1. CASE k # r.key
    BY <2>1, PutIs
  <2>2. CASE k = r.key /\ g # r.group
    <3>1. HasGroup(PutGroups(d, r.key, hs), k, g) <=> g \in DOMAIN hs
      BY <2>2, PutIs
    <3>2. PutGroups(d, r.key, hs)[k].groups = hs
      BY <2>2, PutIs
    <3>. QED
      BY <1>0, <1>1, <1>a, <1>b, <2>2, <3>1, <3>2 DEF SamePlace
  <2>. QED
    BY <2>1, <2>2
<1>2. SamePlace(d, d, k, g)
  BY DEF SamePlace
<1>3. ASSUME NEW v PROVE SamePlace(d, PutGroups(d, r.key, With(gs, r.group, v)), k, g)
  <2>. DEFINE hs == With(gs, r.group, v)
  <2>1. /\ \A h : h # r.group => (h \in DOMAIN hs <=> h \in DOMAIN gs)
        /\ \A h \in DOMAIN gs : h # r.group => hs[h] = gs[h]
    BY DEF With
  <2>. HIDE DEF hs
  <2>2. SamePlace(d, PutGroups(d, r.key, hs), k, g)
    BY <1>1, <2>1
  <2>. QED
    BY <2>2 DEF hs
<1>4. SamePlace(d, PutGroups(d, r.key, Without(gs, {r.group})), k, g)
  <2>. DEFINE hs == Without(gs, {r.group})
  <2>1. /\ \A h : h # r.group => (h \in DOMAIN hs <=> h \in DOMAIN gs)
        /\ \A h \in DOMAIN gs : h # r.group => hs[h] = gs[h]
    BY DEF Without, Restrict
  <2>. HIDE DEF hs
  <2>2. SamePlace(d, PutGroups(d, r.key, hs), k, g)
    BY <1>1, <2>1
  <2>. QED
    BY <2>2 DEF hs
<1>5. \/ ApplyRecord(d, r) = d
      \/ ApplyRecord(d, r) = PutGroups(d, r.key, Without(gs, {r.group}))
      \/ \E v : ApplyRecord(d, r) = PutGroups(d, r.key, With(gs, r.group, v))
  BY DEF ApplyRecord, PutGroups, gs
<1>. QED
  BY <1>2, <1>3, <1>4, <1>5

\* A record of a group that is there.
LEMMA RecordHere ==
  ASSUME NEW d \in DataStates, NEW r, NEW x, IsGroup(d, r.key, r.group, x)
  PROVE  /\ r.cmd # "XGDEL" =>
              IsGroup(ApplyRecord(d, r), r.key, r.group, GroupAfter(x, r))
         /\ r.cmd = "XGDEL" => ~HasGroup(ApplyRecord(d, r), r.key, r.group)
<1>. DEFINE gs == StreamOf(d, r.key).groups
            y  == GroupAfter(x, r)
<1>0. HasGroup(d, r.key, r.group) /\ gs[r.group] = x
  BY DEF IsGroup, HasGroup, StreamOf
<1>1. CASE r.cmd # "XGDEL"
  <2>1. ApplyRecord(d, r) = PutGroups(d, r.key, With(gs, r.group, y))
    BY <1>0, <1>1 DEF ApplyRecord, PutGroups
  <2>. DEFINE hs == With(gs, r.group, y)
  <2>. HIDE DEF y, gs
  <2>2. r.group \in DOMAIN hs /\ hs[r.group] = y
    BY DEF With
  <2>. HIDE DEF hs
  <2>3. IsGroup(PutGroups(d, r.key, hs), r.key, r.group, y)
    BY <2>2, PutIs DEF IsGroup
  <2>. QED
    BY <1>1, <2>1, <2>3 DEF hs, y
<1>2. CASE r.cmd = "XGDEL"
  <2>1. ApplyRecord(d, r) = PutGroups(d, r.key, Without(gs, {r.group}))
    BY <1>0, <1>2 DEF ApplyRecord, PutGroups
  <2>. DEFINE hs == Without(gs, {r.group})
  <2>. HIDE DEF gs
  <2>2. r.group \notin DOMAIN hs
    BY DEF Without, Restrict
  <2>. HIDE DEF hs
  <2>3. ~HasGroup(PutGroups(d, r.key, hs), r.key, r.group)
    BY <2>2, PutIs
  <2>. QED
    BY <1>2, <2>1, <2>3 DEF hs
<1>. QED
  BY <1>1, <1>2

\* A new group.
LEMMA RecordNew ==
  ASSUME NEW d \in DataStates, NEW r, ~HasGroup(d, r.key, r.group), r.cmd = "XGROUP"
  PROVE  IsGroup(ApplyRecord(d, r), r.key, r.group, NewGroup(r.id))
<1>. DEFINE hs == With(StreamOf(d, r.key).groups, r.group, NewGroup(r.id))
<1>1. ApplyRecord(d, r) = PutGroups(d, r.key, hs)
  BY DEF ApplyRecord, PutGroups
<1>2. r.group \in DOMAIN hs /\ hs[r.group] = NewGroup(r.id)
  BY DEF With
<1>. HIDE DEF hs
<1>3. IsGroup(PutGroups(d, r.key, hs), r.key, r.group, NewGroup(r.id))
  BY <1>2, PutIs DEF IsGroup
<1>. QED
  BY <1>1, <1>3

-----------------------------------------------------------------------------
(***************************************************************************)
(* Who has to acknowledge what.                                            *)
(***************************************************************************)
OwnersOf(x) == {<<i, x.pel[i].consumer>> : i \in DOMAIN x.pel}

\* The owners after the entries S were given to the consumer c.
Handed(owners, S, c) == {o \in owners : o[1] \notin S} \union (S \X {c})

LEMMA OwnersAfter ==
  ASSUME NEW x \in GroupStates, NEW r, IsRecord(r)
  PROVE  /\ r.cmd \in {"XGROUP", "XGLAST"} =>
              /\ OwnersOf(GroupAfter(x, r)) = OwnersOf(x)
              /\ GroupAfter(x, r).last = r.id
         /\ r.cmd = "XGCONS" =>
              /\ OwnersOf(GroupAfter(x, r)) = OwnersOf(x)
              /\ GroupAfter(x, r).last = x.last
         /\ r.cmd = "XACK" =>
              /\ OwnersOf(GroupAfter(x, r)) = {o \in OwnersOf(x) : o[1] \notin r.ids}
              /\ GroupAfter(x, r).last = x.last
         /\ r.cmd = "XGCDEL" =>
              /\ OwnersOf(GroupAfter(x, r)) = {o \in OwnersOf(x) : o[2] # r.consumer}
              /\ GroupAfter(x, r).last = x.last
         /\ r.cmd = "XGPEL" =>
              /\ OwnersOf(GroupAfter(x, r)) = Handed(OwnersOf(x), {r.id}, r.consumer)
              /\ GroupAfter(x, r).last = x.last
<1>. DEFINE y == GroupAfter(x, r)
            pel == x.pel
<1>1. CASE r.cmd \in {"XGROUP", "XGLAST"}
  <2>1. y.pel = x.pel /\ y.last = r.id
    BY <1>1 DEF GroupAfter, GroupStates
  <2>. HIDE DEF y
  <2>2. OwnersOf(y) = OwnersOf(x)
    BY <2>1 DEF OwnersOf
  <2>. QED
    BY <1>1, <2>1, <2>2 DEF y
<1>2. CASE r.cmd = "XGCONS"
  <2>1. y = Heard(x, r.consumer, r.seen, r.active)
    BY <1>2 DEF GroupAfter
  <2>2. y.pel = x.pel /\ y.last = x.last
    BY <1>2, <2>1, HeardType DEF IsRecord
  <2>. HIDE DEF y
  <2>3. OwnersOf(y) = OwnersOf(x)
    BY <2>2 DEF OwnersOf
  <2>. QED
    BY <1>2, <2>2, <2>3 DEF y
<1>3. CASE r.cmd = "XACK"
  <2>. DEFINE D == DOMAIN pel \ r.ids
  <2>1. y.pel = [i \in D |-> pel[i]] /\ y.last = x.last
    BY <1>3 DEF GroupAfter, GroupStates, Without, Restrict
  <2>. HIDE DEF y, pel
  <2>2. OwnersOf(x) = {<<i, pel[i].consumer>> : i \in DOMAIN pel}
    BY DEF OwnersOf, pel
  <2>3. OwnersOf(y) = {<<i, pel[i].consumer>> : i \in D}
    BY <2>1 DEF OwnersOf
  <2>4. OwnersOf(y) = {o \in OwnersOf(x) : o[1] \notin r.ids}
    BY <2>2, <2>3
  <2>. QED
    BY <1>3, <2>1, <2>4 DEF y
<1>4. CASE r.cmd = "XGCDEL"
  <2>. DEFINE D == {i \in DOMAIN pel : pel[i].consumer # r.consumer}
  <2>1. y.pel = [i \in D |-> pel[i]] /\ y.last = x.last
    BY <1>4 DEF GroupAfter, GroupStates, RestrictValues, Restrict
  <2>. HIDE DEF y, pel
  <2>2. OwnersOf(x) = {<<i, pel[i].consumer>> : i \in DOMAIN pel}
    BY DEF OwnersOf, pel
  <2>3. OwnersOf(y) = {<<i, pel[i].consumer>> : i \in D}
    BY <2>1 DEF OwnersOf
  <2>4. OwnersOf(y) = {o \in OwnersOf(x) : o[2] # r.consumer}
    BY <2>2, <2>3
  <2>. QED
    BY <1>4, <2>1, <2>4 DEF y
<1>5. CASE r.cmd = "XGPEL"
  <2>. DEFINE h == Heard(x, r.consumer, r.at, r.at)
              p == [consumer |-> r.consumer, at |-> r.at, count |-> r.count]
              q == With(pel, r.id, p)
  <2>1. h \in GroupStates /\ h.pel = pel /\ h.last = x.last
    BY <1>5, HeardType DEF IsRecord
  <2>2. y = [h EXCEPT !.pel = With(@, r.id, p)]
    BY <1>5 DEF GroupAfter
  <2>3. p.consumer = r.consumer
    OBVIOUS
  <2>. HIDE DEF h, y, p
  <2>4. y.pel = q /\ y.last = x.last
    BY <2>1, <2>2 DEF GroupStates
  <2>. HIDE DEF pel
  <2>5. DOMAIN q = DOMAIN pel \union {r.id} /\ q[r.id] = p
        /\ \A i \in DOMAIN pel \ {r.id} : q[i] = pel[i]
    BY DEF With
  <2>6. OwnersOf(x) = {<<i, pel[i].consumer>> : i \in DOMAIN pel}
    BY DEF OwnersOf, pel
  <2>. HIDE DEF q
  <2>7. OwnersOf(y) = {<<i, q[i].consumer>> : i \in DOMAIN q}
    BY <2>4 DEF OwnersOf
  <2>8. OwnersOf(y) = Handed(OwnersOf(x), {r.id}, r.consumer)
    <3>1. ASSUME NEW o \in OwnersOf(y) PROVE o \in Handed(OwnersOf(x), {r.id}, r.consumer)
      <4>1. PICK i \in DOMAIN q : o = <<i, q[i].consumer>>
        BY <2>7, <3>1
      <4>. QED
        BY <2>3, <2>5, <2>6, <4>1 DEF Handed
    <3>2. ASSUME NEW o \in Handed(OwnersOf(x), {r.id}, r.consumer) PROVE o \in OwnersOf(y)
      <4>1. CASE o \in OwnersOf(x) /\ o[1] # r.id
        <5>1. PICK i \in DOMAIN pel : o = <<i, pel[i].consumer>>
          BY <2>6, <4>1
        <5>. QED
          BY <2>5, <2>7, <4>1, <5>1
      <4>2. CASE o = <<r.id, r.consumer>>
        BY <2>3, <2>5, <2>7, <4>2
      <4>. QED
        BY <3>2, <4>1, <4>2 DEF Handed
    <3>. QED
      BY <3>1, <3>2
  <2>. QED
    BY <1>5, <2>4, <2>8 DEF y
<1>. QED
  BY <1>1, <1>2, <1>3, <1>4, <1>5

\* The entries that the first n records hand out.
HandedBy(records, n) == {records[i].id : i \in {j \in 1..n : records[j].cmd = "XGPEL"}}

\* Records of one read: all of the group g of k, for the consumer c.
IsRead(records, len, k, g, c) ==
  /\ AreRecords(records, len)
  /\ \A n \in 1..len :
       /\ records[n].key = k /\ records[n].group = g
       /\ records[n].cmd \in {"XGCONS", "XGPEL", "XGLAST"}
       /\ records[n].cmd = "XGPEL" => records[n].consumer = c

\* The group y is what x became by the first n of them.
HasRead(x, y, records, n, c) ==
  /\ OwnersOf(y) = Handed(OwnersOf(x), HandedBy(records, n), c)
  /\ (\A i \in 1..n : records[i].cmd # "XGLAST") => y.last = x.last
  /\ n > 0 /\ records[n].cmd = "XGLAST" => y.last = records[n].id

LEMMA ReadStep ==
  ASSUME NEW x, NEW y \in GroupStates, NEW records, NEW len, NEW k, NEW g, NEW c,
         IsRead(records, len, k, g, c), NEW n \in 1..len,
         HasRead(x, y, records, n - 1, c)
  PROVE  HasRead(x, GroupAfter(y, records[n]), records, n, c)
<1>. DEFINE r == records[n]
            z == GroupAfter(y, r)
            S == HandedBy(records, n - 1)
<1>1. /\ len \in Nat /\ n \in Nat /\ n > 0 /\ n \in 1..n
      /\ \A i \in 1..n : i = n \/ i \in 1..(n - 1)
      /\ \A i \in 1..(n - 1) : i \in 1..n
  BY DEF IsRead, AreRecords
<1>2. /\ IsRecord(r) /\ r.cmd \in {"XGCONS", "XGPEL", "XGLAST"}
      /\ r.cmd = "XGPEL" => r.consumer = c
  BY DEF IsRead, AreRecords
<1>3. HandedBy(records, n) = IF r.cmd = "XGPEL" THEN S \union {r.id} ELSE S
  <2>1. \A j \in 1..n : records[j].cmd = "XGPEL" =>
          j \in 1..(n - 1) \/ (j = n /\ r.cmd = "XGPEL")
    BY <1>1
  <2>2. \A id : id \in HandedBy(records, n) <=>
          \E j \in 1..n : records[j].cmd = "XGPEL" /\ id = records[j].id
    BY DEF HandedBy
  <2>3. \A id : id \in S <=>
          \E j \in 1..(n - 1) : records[j].cmd = "XGPEL" /\ id = records[j].id
    BY DEF HandedBy
  <2>. HIDE DEF S
  <2>4. CASE r.cmd = "XGPEL"
    <3>1. \A id : id \in HandedBy(records, n) <=> id \in S \/ id = r.id
      BY <1>1, <2>1, <2>2, <2>3, <2>4
    <3>. QED
      BY <2>4, <3>1
  <2>5. CASE r.cmd # "XGPEL"
    <3>1. \A id : id \in HandedBy(records, n) <=> id \in S
      BY <1>1, <2>1, <2>2, <2>3, <2>5
    <3>. QED
      BY <2>5, <3>1
  <2>. QED
    BY <2>4, <2>5
<1>4. OwnersOf(y) = Handed(OwnersOf(x), S, c)
  BY DEF HasRead
<1>5. r.cmd = "XGLAST" => OwnersOf(z) = OwnersOf(y) /\ z.last = r.id
  BY <1>2, OwnersAfter
<1>6. r.cmd = "XGCONS" => OwnersOf(z) = OwnersOf(y) /\ z.last = y.last
  BY <1>2, OwnersAfter
<1>7. r.cmd = "XGPEL" => OwnersOf(z) = Handed(OwnersOf(y), {r.id}, c) /\ z.last = y.last
  <2>1. r.cmd = "XGPEL" =>
          OwnersOf(z) = Handed(OwnersOf(y), {r.id}, r.consumer) /\ z.last = y.last
    BY <1>2, OwnersAfter
  <2>. HIDE DEF z, r
  <2>. QED
    BY <1>2, <2>1
<1>. HIDE DEF z, S, r
<1>8. \A O : Handed(Handed(O, S, c), {r.id}, c) = Handed(O, S \union {r.id}, c)
  BY DEF Handed
<1>9. OwnersOf(z) = Handed(OwnersOf(x), HandedBy(records, n), c)
  BY <1>2, <1>3, <1>4, <1>5, <1>6, <1>7, <1>8
<1>10. (\A i \in 1..n : records[i].cmd # "XGLAST") => z.last = x.last
  <2>1. SUFFICES ASSUME \A i \in 1..n : records[i].cmd # "XGLAST" PROVE z.last = x.last
    OBVIOUS
  <2>2. \A i \in 1..(n - 1) : records[i].cmd # "XGLAST"
    BY <1>1, <2>1
  <2>3. y.last = x.last
    BY <2>2 DEF HasRead
  <2>4. r.cmd # "XGLAST"
    BY <1>1, <2>1 DEF r
  <2>. QED
    BY <1>2, <1>6, <1>7, <2>3, <2>4
<1>11. records[n].cmd = "XGLAST" => z.last = records[n].id
  BY <1>5 DEF r
<1>. QED
  BY <1>9, <1>10, <1>11 DEF HasRead, z, r

ReadDone(d, e, k, g, x, records, len, c) ==
  /\ e \in DataStates
  /\ \E y \in GroupStates : IsGroup(e, k, g, y) /\ HasRead(x, y, records, len, c)
  /\ \A j, h : (j # k \/ h # g) => SamePlace(d, e, j, h)

LEMMA ReadKeeps ==
  ASSUME NEW d \in DataStates, NEW k, NEW g, NEW x, IsGroup(d, k, g, x),
         NEW records, NEW len, NEW c, IsRead(records, len, k, g, c)
  PROVE  ReadDone(d, Applied(d, records), k, g, x, records, len, c)
<1>1. AreRecords(records, len) /\ len \in Nat
  BY DEF IsRead, AreRecords
<1>2. PICK f : /\ f[0] = d
               /\ \A n \in 1..len : f[n] = ApplyRecord(f[n - 1], records[n])
               /\ Applied(d, records) = f[len]
  BY <1>1, RecordSteps
<1>. DEFINE T == {n \in 0..len : ReadDone(d, f[n], k, g, x, records, n, c)}
<1>3. 0 \in T
  <2>1. x \in GroupStates
    BY GroupType DEF IsGroup
  <2>2. HandedBy(records, 0) = {}
    <3>1. {j \in 1..0 : records[j].cmd = "XGPEL"} = {}
      OBVIOUS
    <3>. QED
      BY <3>1 DEF HandedBy
  <2>3. Handed(OwnersOf(x), {}, c) = OwnersOf(x)
    BY DEF Handed
  <2>4. HasRead(x, x, records, 0, c)
    BY <2>2, <2>3 DEF HasRead
  <2>5. \A j, h : SamePlace(d, d, j, h)
    BY DEF SamePlace
  <2>6. ReadDone(d, d, k, g, x, records, 0, c)
    BY <2>1, <2>4, <2>5 DEF ReadDone
  <2>. QED
    BY <1>1, <1>2, <2>6
<1>4. ASSUME NEW n \in 1..len, n - 1 \in T PROVE n \in T
  <2>. DEFINE a == f[n - 1]
              b == f[n]
              r == records[n]
  <2>1. n \in 0..len /\ b = ApplyRecord(a, r) /\ IsRecord(r)
    BY <1>1, <1>2 DEF AreRecords
  <2>2. r.key = k /\ r.group = g /\ r.cmd \in {"XGCONS", "XGPEL", "XGLAST"}
    BY DEF IsRead
  <2>3. ReadDone(d, a, k, g, x, records, n - 1, c)
    BY <1>4
  <2>4. PICK y \in GroupStates : IsGroup(a, k, g, y) /\ HasRead(x, y, records, n - 1, c)
    BY <2>3 DEF ReadDone
  <2>5. HasRead(x, GroupAfter(y, records[n]), records, n, c)
    BY <2>4, ReadStep
  <2>. HIDE DEF a, b, r
  <2>6. a \in DataStates
    BY <2>3 DEF ReadDone
  <2>7. b \in DataStates /\ GroupAfter(y, r) \in GroupStates
    BY <2>1, <2>2, <2>6, RecordKeeps, GroupAfterType
  <2>8. IsGroup(b, k, g, GroupAfter(y, r))
    BY <2>1, <2>2, <2>4, <2>6, RecordHere
  <2>9. \A j, h : (j # k \/ h # g) => SamePlace(a, b, j, h)
    BY <2>1, <2>2, <2>6, RecordElsewhere
  <2>10. \A j, h : (j # k \/ h # g) => SamePlace(d, a, j, h)
    BY <2>3 DEF ReadDone
  <2>11. \A j, h : (j # k \/ h # g) => SamePlace(d, b, j, h)
    BY <2>9, <2>10 DEF SamePlace
  <2>12. ReadDone(d, b, k, g, x, records, n, c)
    BY <2>5, <2>7, <2>8, <2>11 DEF ReadDone, r
  <2>. QED
    BY <2>1, <2>12 DEF b
<1>. HIDE DEF T
<1>5. len \in T
  <2>1. \A n \in 0..len : n \in T
    BY <1>1, <1>3, <1>4, Records!UpTo
  <2>. QED
    BY <1>1, <2>1
<1>. QED
  BY <1>2, <1>5 DEF T

-----------------------------------------------------------------------------
(***************************************************************************)
(* Where the cursor is.                                                    *)
(***************************************************************************)

\* A prefix of an ascending sequence has what is not after its last element.
LEMMA PrefixOf ==
  ASSUME NEW s \in Seq(Ids), Ascending(s), NEW n \in 1..Len(s)
  PROVE  /\ SubSeq(s, 1, n) \in Seq(Ids) /\ SubSeq(s, 1, n) # <<>>
         /\ Last(SubSeq(s, 1, n)) = s[n]
         /\ ToSet(SubSeq(s, 1, n)) = {id \in ToSet(s) : ~Before(s[n], id)}
<1>. DEFINE t == SubSeq(s, 1, n)
<1>1. t \in Seq(Ids) /\ Len(t) = n /\ DOMAIN t = 1..n /\ \A i \in 1..n : t[i] = s[i]
  OBVIOUS
<1>2. t # <<>> /\ Last(t) = s[n]
  BY <1>1 DEF Last
<1>3. DOMAIN s = 1..Len(s) /\ \A i \in DOMAIN s : s[i] \in Ids
  OBVIOUS
<1>4. ASSUME NEW i \in DOMAIN s PROVE i <= n <=> ~Before(s[n], s[i])
  <2>1. n \in DOMAIN s /\ i \in Int /\ n \in Int
    BY <1>3
  <2>2. CASE i < n
    <3>1. Before(s[i], s[n])
      BY <2>1, <2>2 DEF Ascending
    <3>2. ~Before(s[n], s[i])
      BY <1>3, <2>1, <3>1, BeforeOrders
    <3>. QED
      BY <2>1, <2>2, <3>2
  <2>3. CASE i = n
    BY <1>3, <2>1, <2>3, BeforeOrders
  <2>4. CASE i > n
    <3>1. Before(s[n], s[i])
      BY <2>1, <2>4 DEF Ascending
    <3>. QED
      BY <2>1, <2>4, <3>1
  <2>. QED
    BY <2>1, <2>2, <2>3, <2>4
<1>. HIDE DEF t
<1>5. ASSUME NEW id \in ToSet(t) PROVE id \in ToSet(s) /\ ~Before(s[n], id)
  <2>1. PICK i \in 1..n : id = s[i]
    BY <1>1, <1>5 DEF ToSet
  <2>2. i \in DOMAIN s /\ i <= n
    BY <1>3
  <2>. QED
    BY <1>4, <2>1, <2>2 DEF ToSet
<1>6. ASSUME NEW id \in ToSet(s), ~Before(s[n], id) PROVE id \in ToSet(t)
  <2>1. PICK i \in DOMAIN s : id = s[i]
    BY <1>6 DEF ToSet
  <2>2. i <= n /\ i \in 1..n
    BY <1>3, <1>4, <1>6, <2>1
  <2>. QED
    BY <1>1, <2>1, <2>2 DEF ToSet
<1>. QED
  BY <1>1, <1>2, <1>5, <1>6 DEF t

LEMMA SuccessorIsNext ==
  ASSUME NEW id \in Ids, id # MaxId, NEW i \in Ids
  PROVE  ~Before(i, Successor(id)) <=> Before(id, i)
<1>1. /\ Top \in Nat /\ Top > 0
      /\ id = <<id[1], id[2]>> /\ id[1] \in 0..Top /\ id[2] \in 0..Top
      /\ i = <<i[1], i[2]>> /\ i[1] \in 0..Top /\ i[2] \in 0..Top
  BY StreamsAssumption DEF Ids
<1>2. CASE id[2] < Top
  BY <1>1, <1>2 DEF Successor, Before
<1>3. CASE ~(id[2] < Top)
  <2>1. id[2] = Top /\ Successor(id) = <<id[1] + 1, 0>>
    BY <1>1, <1>3 DEF Successor
  <2>. QED
    BY <1>1, <2>1 DEF Before
<1>. QED
  BY <1>2, <1>3

\* read_after gives the entries after id, all of them or the first of them.
LEMMA ReadAfterExact ==
  ASSUME NEW s \in StreamStates, Ascending(s.ids), NEW id \in Ids, NEW n \in Nat
  PROVE  LET new == ReadAfter(s, id, n)
         IN  new # <<>> =>
               /\ Last(new) \in ToSet(s.ids) /\ Before(id, Last(new))
               /\ ToSet(new) = {i \in ToSet(s.ids) : Before(id, i) /\ ~Before(Last(new), i)}
<1>. DEFINE S == {i \in ToSet(s.ids) : ~Before(i, Successor(id))}
            later == IF id = MaxId THEN <<>> ELSE Chosen(s.ids, S)
            new == ReadAfter(s, id, n)
<1>1. s.ids \in Seq(Ids)
  BY DEF StreamStates
<1>2. new = IF n = 0 \/ Len(later) <= n THEN later ELSE SubSeq(later, 1, n)
  BY DEF ReadAfter
<1>3. SUFFICES ASSUME new # <<>>
               PROVE  /\ Last(new) \in ToSet(s.ids) /\ Before(id, Last(new))
                      /\ ToSet(new) = {i \in ToSet(s.ids) :
                                         Before(id, i) /\ ~Before(Last(new), i)}
  OBVIOUS
<1>4. CASE id = MaxId
  <2>1. later = <<>>
    BY <1>4
  <2>. HIDE DEF later, new
  <2>2. new = <<>>
    <3>1. Len(<<>>) = 0 /\ 0 <= n
      OBVIOUS
    <3>. QED
      BY <1>2, <2>1, <3>1
  <2>. QED
    BY <1>3, <2>2
<1>5. CASE id # MaxId
  <2>1. later \in Seq(Ids) /\ ToSet(later) = ToSet(s.ids) \intersect S /\ Ascending(later)
    <3>1. later = Chosen(s.ids, S)
      BY <1>5
    <3>. HIDE DEF later, S
    <3>. QED
      BY <1>1, <3>1, ChosenFrom
  <2>2. \A i \in ToSet(s.ids) : i \in Ids
    BY <1>1 DEF ToSet
  <2>3. ToSet(later) = {i \in ToSet(s.ids) : Before(id, i)}
    BY <1>5, <2>1, <2>2, SuccessorIsNext
  <2>. HIDE DEF later, S, new
  <2>4. \E m \in 1..Len(later) : new = SubSeq(later, 1, m)
    <3>1. CASE n = 0 \/ Len(later) <= n
      <4>1. new = later
        BY <1>2, <3>1
      <4>2. Len(later) \in 1..Len(later) /\ SubSeq(later, 1, Len(later)) = later
        <5>1. Len(later) \in Nat /\ Len(later) # 0
          BY <1>3, <2>1, <4>1
        <5>2. SubSeq(later, 1, Len(later)) = later
          BY <2>1
        <5>. QED
          BY <5>1, <5>2
      <4>. QED
        BY <4>1, <4>2
    <3>2. CASE ~(n = 0 \/ Len(later) <= n)
      <4>1. n \in 1..Len(later)
        BY <2>1, <3>2
      <4>. QED
        BY <1>2, <3>2, <4>1
    <3>. QED
      BY <3>1, <3>2
  <2>5. PICK m \in 1..Len(later) : new = SubSeq(later, 1, m)
    BY <2>4
  <2>6. Last(new) = later[m] /\ ToSet(new) = {i \in ToSet(later) : ~Before(later[m], i)}
    BY <2>1, <2>5, PrefixOf
  <2>7. later[m] \in ToSet(later)
    BY <2>1 DEF ToSet
  <2>. QED
    BY <2>3, <2>6, <2>7
<1>. QED
  BY <1>4, <1>5

\* Of the entries ids behind the place st, where clients have set the cursor,
\* those up to the cursor are the ones in gv that were handed out as new.
CursorFits(ids, top, cursor, st, gv) ==
  /\ \A id \in ToSet(ids) : Before(st, id) => (id \in gv <=> ~Before(cursor, id))
  /\ \A id \in Ids : Before(st, id) /\ Before(top, id) => Before(cursor, id)
  /\ \A id \in gv : ~Before(top, id)

LEMMA CursorStays ==
  ASSUME NEW ids \in Seq(Ids), NEW top \in Ids, NEW cursor \in Ids, NEW st,
         NEW gv \in SUBSET Ids, CursorFits(ids, top, cursor, st, gv),
         NEW more \in Seq(Ids), NEW now \in Ids,
         \/ now = top /\ ToSet(more) \subseteq ToSet(ids)
         \/ Before(top, now) /\ ToSet(more) \subseteq ToSet(ids) \union {now}
  PROVE  CursorFits(more, now, cursor, st, gv)
<1>0. /\ \A id \in ToSet(ids) : Before(st, id) => (id \in gv <=> ~Before(cursor, id))
      /\ \A id \in Ids : Before(st, id) /\ Before(top, id) => Before(cursor, id)
      /\ \A id \in gv : ~Before(top, id)
  BY DEF CursorFits
<1>1. CASE now = top /\ ToSet(more) \subseteq ToSet(ids)
  BY <1>0, <1>1 DEF CursorFits
<1>2. CASE Before(top, now) /\ ToSet(more) \subseteq ToSet(ids) \union {now}
  <2>1. ASSUME NEW id \in ToSet(more), Before(st, id)
        PROVE  id \in gv <=> ~Before(cursor, id)
    <3>1. CASE id \in ToSet(ids)
      BY <1>0, <2>1, <3>1
    <3>2. CASE id = now
      BY <1>0, <1>2, <2>1, <3>2
    <3>. QED
      BY <1>2, <2>1, <3>1, <3>2
  <2>2. ASSUME NEW id \in Ids, Before(st, id), Before(now, id) PROVE Before(cursor, id)
    <3>1. Before(top, id)
      BY <1>2, <2>2, BeforeOrders
    <3>. QED
      BY <1>0, <2>2, <3>1
  <2>3. ASSUME NEW id \in gv PROVE ~Before(now, id)
    BY <1>0, <1>2, <2>3, BeforeOrders
  <2>. QED
    BY <2>1, <2>2, <2>3 DEF CursorFits
<1>. QED
  BY <1>1, <1>2

LEMMA CursorMoves ==
  ASSUME NEW ids \in Seq(Ids), NEW top \in Ids, NEW cursor \in Ids, NEW st,
         NEW gv \in SUBSET Ids, CursorFits(ids, top, cursor, st, gv),
         \A id \in ToSet(ids) : ~Before(top, id),
         NEW new, NEW last \in ToSet(ids), Before(cursor, last),
         new = {i \in ToSet(ids) : Before(cursor, i) /\ ~Before(last, i)}
  PROVE  CursorFits(ids, top, last, st, gv \union new)
<1>0. /\ \A id \in ToSet(ids) : Before(st, id) => (id \in gv <=> ~Before(cursor, id))
      /\ \A id \in Ids : Before(st, id) /\ Before(top, id) => Before(cursor, id)
      /\ \A id \in gv : ~Before(top, id)
  BY DEF CursorFits
<1>1. \A id \in ToSet(ids) : id \in Ids
  BY DEF ToSet
<1>2. ASSUME NEW id \in ToSet(ids), Before(st, id)
      PROVE  id \in gv \union new <=> ~Before(last, id)
  <2>1. id \in gv => ~Before(last, id)
    BY <1>0, <1>1, <1>2, BeforeOrders
  <2>2. id \in new => ~Before(last, id)
    OBVIOUS
  <2>3. ~Before(last, id) => id \in gv \/ id \in new
    BY <1>0, <1>2
  <2>. QED
    BY <2>1, <2>2, <2>3
<1>3. ASSUME NEW id \in Ids, Before(st, id), Before(top, id) PROVE Before(last, id)
  <2>1. ~Before(top, last) /\ last \in Ids
    BY <1>1
  <2>. QED
    BY <1>3, <2>1, BeforeOrders
<1>4. \A id \in gv \union new : ~Before(top, id)
  BY <1>0
<1>. QED
  BY <1>2, <1>3, <1>4 DEF CursorFits

-----------------------------------------------------------------------------
(***************************************************************************)
(* What clients know of one group.                                         *)
(***************************************************************************)
PlaceInv(d, k, g, st, gv, ow) ==
  IF HasGroup(d, k, g)
  THEN /\ OwnersOf(d[k].groups[g]) = ow
       /\ CursorFits(d[k].ids, d[k].last, d[k].groups[g].last, st, gv)
  ELSE ow = {}

\* Nothing happened to the group, or to the entries.
LEMMA PlaceKept ==
  ASSUME NEW d, NEW e, SameEntries(d, e), NEW k, NEW g, SamePlace(d, e, k, g),
         NEW st, NEW gv, NEW ow, PlaceInv(d, k, g, st, gv, ow)
  PROVE  PlaceInv(e, k, g, st, gv, ow)
<1>1. CASE HasGroup(d, k, g)
  <2>1. HasGroup(e, k, g) /\ e[k].groups[g] = d[k].groups[g] /\ k \in DOMAIN d
    BY <1>1 DEF SamePlace, HasGroup
  <2>2. e[k].ids = d[k].ids /\ e[k].last = d[k].last
    BY <2>1 DEF SameEntries
  <2>. QED
    BY <1>1, <2>1, <2>2 DEF PlaceInv
<1>2. CASE ~HasGroup(d, k, g)
  BY <1>2 DEF PlaceInv, SamePlace
<1>. QED
  BY <1>1, <1>2

\* The group changed, but not its cursor.
LEMMA PlaceHere ==
  ASSUME NEW d, NEW e, SameEntries(d, e), NEW k, NEW g, NEW x, NEW y,
         IsGroup(d, k, g, x), IsGroup(e, k, g, y), y.last = x.last,
         NEW st, NEW gv, NEW ow, PlaceInv(d, k, g, st, gv, ow)
  PROVE  PlaceInv(e, k, g, st, gv, OwnersOf(y)) /\ OwnersOf(x) = ow
<1>1. HasGroup(d, k, g) /\ HasGroup(e, k, g) /\ k \in DOMAIN d
  BY DEF IsGroup, HasGroup
<1>2. d[k].groups[g] = x /\ e[k].groups[g] = y
  BY DEF IsGroup
<1>3. e[k].ids = d[k].ids /\ e[k].last = d[k].last
  BY <1>1 DEF SameEntries
<1>. QED
  BY <1>1, <1>2, <1>3 DEF PlaceInv

\* Entries came or went.
LEMMA PlaceThroughEntries ==
  ASSUME NEW d \in DataStates, NEW e \in DataStates, Grows(d, e), NEW k, NEW g,
         SamePlace(d, e, k, g),
         NEW st, NEW gv \in SUBSET Ids, NEW ow, PlaceInv(d, k, g, st, gv, ow)
  PROVE  PlaceInv(e, k, g, st, gv, ow)
<1>1. CASE HasGroup(d, k, g)
  <2>. DEFINE x == d[k].groups[g]
  <2>1. HasGroup(e, k, g) /\ e[k].groups[g] = x
    BY <1>1 DEF SamePlace
  <2>2. k \in DOMAIN d /\ d[k] \in StreamStates /\ x \in GroupStates
    BY <1>1, GroupType
  <2>3. k \in DOMAIN e /\ e[k] \in StreamStates
    BY <2>1, GroupType
  <2>4. /\ d[k].ids \in Seq(Ids) /\ d[k].last \in Ids /\ e[k].ids \in Seq(Ids)
        /\ e[k].last \in Ids /\ x.last \in Ids
    BY <2>2, <2>3 DEF StreamStates, GroupStates
  <2>5. \/ e[k].last = d[k].last /\ ToSet(e[k].ids) \subseteq ToSet(d[k].ids)
        \/ /\ Before(d[k].last, e[k].last)
           /\ ToSet(e[k].ids) \subseteq ToSet(d[k].ids) \union {e[k].last}
    BY <2>2, <2>3 DEF Grows
  <2>6. OwnersOf(x) = ow /\ CursorFits(d[k].ids, d[k].last, x.last, st, gv)
    BY <1>1 DEF PlaceInv
  <2>. HIDE DEF x
  <2>7. CursorFits(e[k].ids, e[k].last, x.last, st, gv)
    BY <2>4, <2>5, <2>6, CursorStays
  <2>. QED
    BY <2>1, <2>6, <2>7 DEF PlaceInv
<1>2. CASE ~HasGroup(d, k, g)
  BY <1>2 DEF PlaceInv, SamePlace
<1>. QED
  BY <1>1, <1>2

ClientsInv ==
  /\ start \in [Places -> Ids]
  /\ given \in [Places -> SUBSET Ids]
  /\ owed \in [Places -> SUBSET (Ids \X Consumers)]
  /\ \A k \in Keys, g \in Groups : PlaceInv(data, k, g, start[<<k, g>>], given[<<k, g>>], owed[<<k, g>>])

\* A step that is about one group.
LEMMA OnePlace ==
  ASSUME ClientsInv, SameEntries(data, data'), NEW k \in Keys, NEW g \in Groups,
         \A j, h : j # k \/ h # g => SamePlace(data, data', j, h),
         NEW st \in Ids, NEW gv \in SUBSET Ids, NEW ow \in SUBSET (Ids \X Consumers),
         start' = [start EXCEPT ![<<k, g>>] = st],
         given' = [given EXCEPT ![<<k, g>>] = gv],
         owed' = [owed EXCEPT ![<<k, g>>] = ow],
         PlaceInv(data', k, g, st, gv, ow)
  PROVE  ClientsInv'
<1>1. <<k, g>> \in Places
  BY DEF Places
<1>2. /\ start' \in [Places -> Ids] /\ given' \in [Places -> SUBSET Ids]
      /\ owed' \in [Places -> SUBSET (Ids \X Consumers)]
  BY <1>1 DEF ClientsInv
<1>3. ASSUME NEW j \in Keys, NEW h \in Groups
      PROVE  PlaceInv(data', j, h, start'[<<j, h>>], given'[<<j, h>>], owed'[<<j, h>>])
  <2>1. <<j, h>> \in Places
    BY DEF Places
  <2>2. CASE j = k /\ h = g
    <3>1. start'[<<k, g>>] = st /\ given'[<<k, g>>] = gv /\ owed'[<<k, g>>] = ow
      BY <1>1 DEF ClientsInv
    <3>. QED
      BY <2>2, <3>1
  <2>3. CASE j # k \/ h # g
    <3>1. <<j, h>> # <<k, g>>
      BY <2>3
    <3>2. start'[<<j, h>>] = start[<<j, h>>] /\ given'[<<j, h>>] = given[<<j, h>>] /\ owed'[<<j, h>>] = owed[<<j, h>>]
      BY <2>1, <3>1 DEF ClientsInv
    <3>3. SamePlace(data, data', j, h) /\ PlaceInv(data, j, h, start[<<j, h>>], given[<<j, h>>], owed[<<j, h>>])
      BY <2>3 DEF ClientsInv
    <3>. QED
      BY <3>2, <3>3, PlaceKept
  <2>. QED
    BY <2>2, <2>3
<1>. QED
  BY <1>2, <1>3 DEF ClientsInv

\* What clients know at one place, and that writing it back changes nothing.
LEMMA KnownHere ==
  ASSUME ClientsInv, NEW k \in Keys, NEW g \in Groups
  PROVE  /\ start[<<k, g>>] \in Ids /\ given[<<k, g>>] \in SUBSET Ids
         /\ owed[<<k, g>>] \in SUBSET (Ids \X Consumers)
         /\ PlaceInv(data, k, g, start[<<k, g>>], given[<<k, g>>], owed[<<k, g>>])
         /\ start = [start EXCEPT ![<<k, g>>] = start[<<k, g>>]]
         /\ given = [given EXCEPT ![<<k, g>>] = given[<<k, g>>]]
         /\ owed = [owed EXCEPT ![<<k, g>>] = owed[<<k, g>>]]
<1>1. <<k, g>> \in Places
  BY DEF Places
<1>. QED
  BY <1>1 DEF ClientsInv

\* Nothing happened at all.
LEMMA NoPlace ==
  ASSUME ClientsInv, data' = data, UNCHANGED clientVars
  PROVE  ClientsInv'
BY DEF ClientsInv, clientVars

LEMMA OneApplied ==
  ASSUME NEW d, NEW r
  PROVE  Applied(d, <<r>>) = ApplyRecord(d, r) /\ Commit(d, <<r>>).data = ApplyRecord(d, r)
<1>. DEFINE records == <<r>>
            len == 1
<1>1. len \in Nat /\ DOMAIN records = 1..len /\ records[1] = r
  OBVIOUS
<1>0. Commit(d, <<r>>).data = Applied(d, <<r>>)
  BY DEF Commit
<1>. HIDE DEF records, len
<1>2. PICK f : /\ f[0] = d
               /\ \A n \in 1..len : f[n] = ApplyRecord(f[n - 1], records[n])
               /\ Applied(d, records) = f[len]
  BY <1>1, AppliedSteps
<1>3. f[1] = ApplyRecord(f[0], records[1])
  <2>1. len = 1 /\ 1 \in 1..len /\ 1 - 1 = 0
    BY DEF len
  <2>2. f[1] = ApplyRecord(f[1 - 1], records[1])
    BY <1>2, <2>1
  <2>. QED
    BY <2>1, <2>2
<1>. QED
  BY <1>0, <1>1, <1>2, <1>3 DEF records, len

-----------------------------------------------------------------------------
(***************************************************************************)
(* Commands on entries leave the groups alone.                             *)
(***************************************************************************)
LEMMA SameGroupsPlaces ==
  ASSUME NEW d, NEW e, NEW k,
         DOMAIN d \subseteq DOMAIN e, DOMAIN e \subseteq DOMAIN d \union {k},
         \A j \in DOMAIN e \ {k} : e[j] = d[j],
         k \in DOMAIN e => e[k].groups = StreamOf(d, k).groups
  PROVE  \A j, g : SamePlace(d, e, j, g)
<1>1. ASSUME NEW j, NEW g PROVE SamePlace(d, e, j, g)
  <2>1. CASE j # k
    BY <2>1 DEF SamePlace, HasGroup
  <2>2. CASE j = k /\ k \in DOMAIN d
    BY <2>2 DEF SamePlace, HasGroup, StreamOf
  <2>3. CASE j = k /\ k \notin DOMAIN d
    BY <2>3 DEF SamePlace, HasGroup, StreamOf, NewStream
  <2>. QED
    BY <2>1, <2>2, <2>3
<1>. QED
  BY <1>1

LEMMA EntryPlaces ==
  ASSUME NEW d \in DataStates, NEW c, IsEntryCommand(c), c.cmd # "DEL", NEW now \in 0..Top
  PROVE  \A j, g : SamePlace(d, Execute(d, c, now).data, j, g)
<1>. DEFINE out == Execute(d, c, now)
            k   == c.key
<1>1. CASE out.data = d
  BY <1>1 DEF SamePlace
<1>2. CASE c.cmd = "XADD"
  <2>. DEFINE s   == StreamOf(d, k)
              id  == NextId(s.last, c.spec, now)
              new == [Grown(s, id) EXCEPT !.ids = Trimmed(@, c.trim)]
  <2>1. out = XAdd(d, c, now)
    BY <1>2 DEF Execute
  <2>2. CASE id = NoId \/ (c.nomk /\ k \notin DOMAIN d)
    <3>1. out.data = d
      BY <2>1, <2>2 DEF XAdd, Nothing
    <3>. QED
      BY <1>1, <3>1
  <2>3. CASE ~(id = NoId \/ (c.nomk /\ k \notin DOMAIN d))
    <3>1. c.key \in Keys /\ c.spec \in IdSpecs /\ c.trim \in TrimForms
      BY <1>2 DEF IsEntryCommand
    <3>2. out.data = With(d, k, new) /\ new.groups = s.groups
      BY <2>1, <2>3, <3>1, AddGives
    <3>. HIDE DEF new, out
    <3>3. /\ DOMAIN out.data = DOMAIN d \union {k}
          /\ \A j \in DOMAIN out.data \ {k} : out.data[j] = d[j]
          /\ out.data[k].groups = StreamOf(d, k).groups
      BY <3>2 DEF With
    <3>4. \A j, g : SamePlace(d, out.data, j, g)
      BY <3>3, SameGroupsPlaces
    <3>. QED
      BY <3>4 DEF out
  <2>. QED
    BY <2>2, <2>3
<1>3. ASSUME NEW ids, out.data = [d EXCEPT ![k].ids = ids]
      PROVE  \A j, g : SamePlace(d, out.data, j, g)
  <2>1. CASE k \in DOMAIN d
    <3>1. d[k] \in StreamStates /\ StreamOf(d, k) = d[k]
      BY <2>1, StreamOfType
    <3>. HIDE DEF out
    <3>2. /\ DOMAIN out.data = DOMAIN d /\ \A j \in DOMAIN d \ {k} : out.data[j] = d[j]
          /\ out.data[k].groups = d[k].groups
      BY <1>3, <2>1, <3>1 DEF StreamStates
    <3>. QED
      BY <3>1, <3>2, SameGroupsPlaces
  <2>2. CASE k \notin DOMAIN d
    <3>1. [d EXCEPT ![k].ids = ids] = d
      BY <2>2, PartialIs DEF DataStates
    <3>. QED
      BY <1>1, <1>3, <3>1
  <2>. QED
    BY <2>1, <2>2
<1>4. CASE c.cmd = "XDEL"
  <2>1. out = XDel(d, c)
    BY <1>4 DEF Execute
  <2>. DEFINE kept == Removed(StreamOf(d, k).ids, c.ids)
  <2>2. out.data = d \/ out.data = [d EXCEPT ![k].ids = kept]
    BY <2>1 DEF XDel, Nothing
  <2>. HIDE DEF kept, out
  <2>3. out.data = [d EXCEPT ![k].ids = kept] => \A j, g : SamePlace(d, out.data, j, g)
    BY <1>3
  <2>. QED
    BY <1>1, <2>2, <2>3 DEF out
<1>5. CASE c.cmd = "XTRIM"
  <2>1. out = XTrim(d, c)
    BY <1>5 DEF Execute
  <2>. DEFINE kept == Trimmed(StreamOf(d, k).ids, c.trim)
  <2>2. out.data = d \/ out.data = [d EXCEPT ![k].ids = kept]
    BY <2>1 DEF XTrim, Nothing
  <2>. HIDE DEF kept, out
  <2>3. out.data = [d EXCEPT ![k].ids = kept] => \A j, g : SamePlace(d, out.data, j, g)
    BY <1>3
  <2>. QED
    BY <1>1, <2>2, <2>3 DEF out
<1>6. c.cmd = "XADD" \/ c.cmd = "XDEL" \/ c.cmd = "XTRIM"
  BY DEF IsEntryCommand
<1>. QED
  BY <1>2, <1>4, <1>5, <1>6

\* A step of entries, about which clients of groups learn nothing.
LEMMA EntriesAlone ==
  ASSUME ClientsInv, data \in DataStates, data' \in DataStates, Grows(data, data'),
         \A j, g : SamePlace(data, data', j, g), UNCHANGED clientVars
  PROVE  ClientsInv'
<1>1. start' = start /\ given' = given /\ owed' = owed
  BY DEF clientVars
<1>2. ASSUME NEW k \in Keys, NEW g \in Groups
      PROVE  PlaceInv(data', k, g, start[<<k, g>>], given[<<k, g>>], owed[<<k, g>>])
  <2>1. /\ given[<<k, g>>] \in SUBSET Ids
        /\ PlaceInv(data, k, g, start[<<k, g>>], given[<<k, g>>], owed[<<k, g>>])
    BY KnownHere
  <2>2. SamePlace(data, data', k, g)
    OBVIOUS
  <2>. QED
    BY <2>1, <2>2, PlaceThroughEntries
<1>. QED
  BY <1>1, <1>2 DEF ClientsInv

LEMMA EntryStepsKnown ==
  ASSUME ClientsInv, StreamsInv, StreamsInv', Grows(data, data'), NEW k \in Keys,
         DeleteEntry(k) \/ Trim(k) \/ \E now \in Clock : Add(k, now)
  PROVE  ClientsInv'
<1>1. data \in DataStates /\ data' \in DataStates
  BY DEF StreamsInv
<1>2. ASSUME NEW c, IsEntryCommand(c), c.cmd # "DEL", NEW now \in 0..Top, Run(c, now),
             UNCHANGED clientVars
      PROVE  ClientsInv'
  <2>1. data' = Execute(data, c, now).data
    BY <1>2 DEF Run
  <2>2. \A j, g : SamePlace(data, data', j, g)
    BY <1>1, <1>2, <2>1, EntryPlaces
  <2>. QED
    BY <1>1, <1>2, <2>2, EntriesAlone
<1>3. CASE DeleteEntry(k)
  <2>1. PICK id \in Ids : Run([cmd |-> "XDEL", key |-> k, ids |-> {id}], 0)
    BY <1>3 DEF DeleteEntry
  <2>. DEFINE c == [cmd |-> "XDEL", key |-> k, ids |-> {id}]
  <2>2. IsEntryCommand(c) /\ c.cmd # "DEL" /\ Run(c, 0) /\ UNCHANGED clientVars
    BY <1>3, <2>1 DEF IsEntryCommand, DeleteEntry
  <2>. HIDE DEF c
  <2>. QED
    BY <1>2, <2>2, TimesAndTrims
<1>4. CASE Trim(k)
  <2>1. PICK t \in Trims \ {NoTrim} : Run([cmd |-> "XTRIM", key |-> k, trim |-> t], 0)
    BY <1>4 DEF Trim
  <2>. DEFINE c == [cmd |-> "XTRIM", key |-> k, trim |-> t]
  <2>2. IsEntryCommand(c) /\ c.cmd # "DEL" /\ Run(c, 0) /\ UNCHANGED clientVars
    BY <1>4, <2>1, TimesAndTrims DEF IsEntryCommand, Trim
  <2>. HIDE DEF c
  <2>. QED
    BY <1>2, <2>2, TimesAndTrims
<1>5. ASSUME NEW now \in Clock, Add(k, now) PROVE ClientsInv'
  <2>1. PICK spec \in Specs, trim \in Trims, nomk \in BOOLEAN :
          Run([cmd |-> "XADD", key |-> k, spec |-> spec, trim |-> trim, nomk |-> nomk], now)
    BY <1>5 DEF Add
  <2>. DEFINE c == [cmd |-> "XADD", key |-> k, spec |-> spec, trim |-> trim, nomk |-> nomk]
  <2>2. IsEntryCommand(c) /\ c.cmd # "DEL"
    BY <2>1, TimesAndTrims DEF IsEntryCommand
  <2>3. Run(c, now) /\ now \in 0..Top /\ UNCHANGED clientVars
    BY <1>5, <2>1, TimesAndTrims DEF Add
  <2>. HIDE DEF c
  <2>. QED
    BY <1>2, <2>2, <2>3
<1>. QED
  BY <1>3, <1>4, <1>5

\* DEL takes the groups of its stream with it, and what was known of them.
LEMMA DeleteKnown ==
  ASSUME ClientsInv, StreamsInv, NEW k \in Keys, Delete(k)
  PROVE  ClientsInv'
<1>. DEFINE c == [cmd |-> "DEL", key |-> k]
<1>1. data' = Without(data, {k})
  <2>1. k \in DOMAIN data /\ data' = Execute(data, c, 0).data
    BY DEF Delete, Run
  <2>2. Execute(data, c, 0) = Del(data, c) /\ c.key = k
    BY DEF Execute
  <2>. QED
    BY <2>1, <2>2 DEF Del
<1>2. DOMAIN data' = DOMAIN data \ {k} /\ \A j \in DOMAIN data' : data'[j] = data[j]
  BY <1>1 DEF Without, Restrict
<1>3. /\ start' = [p \in Places |-> IF p[1] = k THEN MinId ELSE start[p]]
      /\ given' = [p \in Places |-> IF p[1] = k THEN {} ELSE given[p]]
      /\ owed' = [p \in Places |-> IF p[1] = k THEN {} ELSE owed[p]]
  BY DEF Delete
<1>4. /\ start \in [Places -> Ids] /\ given \in [Places -> SUBSET Ids]
      /\ owed \in [Places -> SUBSET (Ids \X Consumers)]
  BY DEF ClientsInv
<1>5. /\ start' \in [Places -> Ids] /\ given' \in [Places -> SUBSET Ids]
      /\ owed' \in [Places -> SUBSET (Ids \X Consumers)]
  BY <1>3, <1>4, NothingBeforeMin
<1>6. ASSUME NEW j \in Keys, NEW g \in Groups
      PROVE  PlaceInv(data', j, g, start'[<<j, g>>], given'[<<j, g>>], owed'[<<j, g>>])
  <2>1. <<j, g>> \in Places /\ <<j, g>>[1] = j
    BY DEF Places
  <2>2. CASE j = k
    <3>1. ~HasGroup(data', j, g) /\ owed'[<<j, g>>] = {}
      BY <1>2, <1>3, <2>1, <2>2 DEF HasGroup
    <3>. QED
      BY <3>1 DEF PlaceInv
  <2>3. CASE j # k
    <3>1. /\ start'[<<j, g>>] = start[<<j, g>>] /\ given'[<<j, g>>] = given[<<j, g>>]
          /\ owed'[<<j, g>>] = owed[<<j, g>>]
      BY <1>3, <2>1, <2>3
    <3>2. HasGroup(data', j, g) <=> HasGroup(data, j, g)
      BY <1>2, <2>3 DEF HasGroup
    <3>3. HasGroup(data, j, g) => data'[j] = data[j]
      BY <1>2, <2>3 DEF HasGroup
    <3>4. PlaceInv(data, j, g, start[<<j, g>>], given[<<j, g>>], owed[<<j, g>>])
      BY DEF ClientsInv
    <3>. QED
      BY <3>1, <3>2, <3>3, <3>4 DEF PlaceInv
  <2>. QED
    BY <2>2, <2>3
<1>. QED
  BY <1>5, <1>6 DEF ClientsInv

-----------------------------------------------------------------------------
(***************************************************************************)
(* Commands on groups.                                                     *)
(***************************************************************************)
LEMMA OwnersType ==
  ASSUME NEW x \in GroupStates
  PROVE  OwnersOf(x) \in SUBSET (Ids \X Consumers)
<1>1. ASSUME NEW i \in DOMAIN x.pel PROVE <<i, x.pel[i].consumer>> \in Ids \X Consumers
  <2>1. i \in Ids /\ x.pel[i] \in PendingStates
    BY GroupIs
  <2>. QED
    BY <2>1 DEF PendingStates
<1>. QED
  BY <1>1 DEF OwnersOf

\* What is known of a group that is there.
LEMMA KnownGroup ==
  ASSUME ClientsInv, data \in DataStates, NEW k \in Keys, NEW g \in Groups,
         HasGroup(data, k, g)
  PROVE  /\ data[k].groups[g] \in GroupStates
         /\ IsGroup(data, k, g, data[k].groups[g])
         /\ owed[<<k, g>>] = OwnersOf(data[k].groups[g])
<1>1. PlaceInv(data, k, g, start[<<k, g>>], given[<<k, g>>], owed[<<k, g>>])
  BY KnownHere
<1>. QED
  BY <1>1, GroupType DEF PlaceInv, IsGroup

\* A record of one group that does not move its cursor.
LEMMA RecordKnown ==
  ASSUME ClientsInv, data \in DataStates, NEW k \in Keys, NEW g \in Groups,
         HasGroup(data, k, g), NEW r \in RecordStates, r.key = k, r.group = g,
         r.cmd \in {"XACK", "XGCONS", "XGCDEL"},
         data' = ApplyRecord(data, r), UNCHANGED <<start, given>>,
         owed' = [owed EXCEPT ![<<k, g>>] = OwnersOf(GroupAfter(data[k].groups[g], r))]
  PROVE  ClientsInv'
<1>. DEFINE x == data[k].groups[g]
            y == GroupAfter(x, r)
<1>1. x \in GroupStates /\ IsGroup(data, k, g, x)
  BY KnownGroup
<1>2. IsRecord(r)
  BY DEF RecordStates, IsRecord
<1>3. y \in GroupStates /\ IsGroup(data', k, g, y)
  BY <1>1, <1>2, GroupAfterType, RecordHere
<1>4. y.last = x.last
  BY <1>1, <1>2, OwnersAfter
<1>5. SameEntries(data, data')
  BY <1>2, RecordKeeps
<1>6. \A j, h : j # k \/ h # g => SamePlace(data, data', j, h)
  BY RecordElsewhere
<1>7. owed' = [owed EXCEPT ![<<k, g>>] = OwnersOf(y)]
  OBVIOUS
<1>. HIDE DEF x, y
<1>8. /\ start[<<k, g>>] \in Ids /\ given[<<k, g>>] \in SUBSET Ids
      /\ PlaceInv(data, k, g, start[<<k, g>>], given[<<k, g>>], owed[<<k, g>>])
      /\ start' = [start EXCEPT ![<<k, g>>] = start[<<k, g>>]]
      /\ given' = [given EXCEPT ![<<k, g>>] = given[<<k, g>>]]
  BY KnownHere
<1>9. PlaceInv(data', k, g, start[<<k, g>>], given[<<k, g>>], OwnersOf(y))
  BY <1>1, <1>3, <1>4, <1>5, <1>8, PlaceHere
<1>10. OwnersOf(y) \in SUBSET (Ids \X Consumers)
  BY <1>3, OwnersType
<1>. QED
  BY <1>5, <1>6, <1>7, <1>8, <1>9, <1>10, OnePlace

LEMMA CreateConsumerKnown ==
  ASSUME ClientsInv, StreamsInv, NEW k \in Keys, NEW g \in Groups,
         NEW consumer \in Consumers, NEW now \in Clock, CreateConsumer(k, g, consumer, now)
  PROVE  ClientsInv'
<1>. DEFINE c == [cmd |-> "CREATECONSUMER", key |-> k, group |-> g, consumer |-> consumer]
            r == NewConsumer(c, now)
<1>1. data' = Execute(data, c, now).data /\ UNCHANGED clientVars
  BY DEF CreateConsumer, Run
<1>2. Execute(data, c, now) = XGroupCreateConsumer(data, c, now)
  BY DEF Execute
<1>3. data \in DataStates
  BY DEF StreamsInv
<1>4. CASE ~HasGroup(data, k, g) \/ Knows(data, c)
  <2>1. data' = data
    BY <1>1, <1>2, <1>4 DEF XGroupCreateConsumer, Nothing
  <2>. QED
    BY <1>1, <2>1, NoPlace
<1>5. CASE HasGroup(data, k, g) /\ ~Knows(data, c)
  <2>1. Execute(data, c, now) = Commit(data, <<r>>)
    BY <1>2, <1>5 DEF XGroupCreateConsumer
  <2>2. IsGroupCommand(c) /\ c.consumer \in Consumers /\ now \in 0..Top
    BY TimesAndTrims DEF IsGroupCommand
  <2>3. r \in RecordStates /\ r.key = k /\ r.group = g /\ r.cmd = "XGCONS"
    <3>1. NewConsumer(c, now) \in RecordStates
      BY <2>2, ConsumerRecordType
    <3>. QED
      BY <3>1 DEF NewConsumer
  <2>. HIDE DEF c, r
  <2>4. data' = ApplyRecord(data, r)
    BY <1>1, <2>1, OneApplied
  <2>5. data[k].groups[g] \in GroupStates /\ owed[<<k, g>>] = OwnersOf(data[k].groups[g])
    BY <1>3, <1>5, KnownGroup
  <2>6. IsRecord(r)
    BY <2>3 DEF RecordStates, IsRecord
  <2>7. OwnersOf(GroupAfter(data[k].groups[g], r)) = owed[<<k, g>>]
    BY <2>3, <2>5, <2>6, OwnersAfter
  <2>8. owed' = [owed EXCEPT ![<<k, g>>] = OwnersOf(GroupAfter(data[k].groups[g], r))]
    BY <1>1, <2>7, KnownHere DEF clientVars
  <2>9. UNCHANGED <<start, given>>
    BY <1>1 DEF clientVars
  <2>. QED
    BY <1>3, <1>5, <2>3, <2>4, <2>8, <2>9, RecordKnown
<1>. QED
  BY <1>4, <1>5

LEMMA DeleteConsumerKnown ==
  ASSUME ClientsInv, StreamsInv, NEW k \in Keys, NEW g \in Groups,
         NEW consumer \in Consumers, DeleteConsumer(k, g, consumer)
  PROVE  ClientsInv'
<1>. DEFINE c == [cmd |-> "DELCONSUMER", key |-> k, group |-> g, consumer |-> consumer]
            r == [cmd |-> "XGCDEL", key |-> k, group |-> g, consumer |-> consumer]
            ow == owed[<<k, g>>]
<1>1. /\ data' = Execute(data, c, 0).data /\ UNCHANGED <<start, given>>
      /\ owed' = [owed EXCEPT ![<<k, g>>] = {o \in ow : o[2] # consumer}]
  BY DEF DeleteConsumer, Run
<1>2. Execute(data, c, 0) = XGroupDelConsumer(data, c)
  BY DEF Execute
<1>3. data \in DataStates /\ InTime(data)
  BY DEF StreamsInv
<1>4. CASE ~Knows(data, c)
  <2>1. data' = data
    BY <1>1, <1>2, <1>4 DEF XGroupDelConsumer, Nothing
  <2>2. \A o \in ow : o[2] # consumer
    <3>1. CASE HasGroup(data, k, g)
      <4>1. ow = OwnersOf(data[k].groups[g])
        BY <1>3, <3>1, KnownGroup
      <4>2. consumer \notin DOMAIN data[k].groups[g].consumers
        BY <1>4, <3>1 DEF Knows
      <4>3. OwnedInTime(data[k].groups[g])
        BY <1>3, <3>1 DEF InTime, HasGroup
      <4>4. ASSUME NEW o \in OwnersOf(data[k].groups[g])
            PROVE  o[2] \in DOMAIN data[k].groups[g].consumers
        <5>1. PICK i \in DOMAIN data[k].groups[g].pel :
                o = <<i, data[k].groups[g].pel[i].consumer>>
          BY <4>4 DEF OwnersOf
        <5>. QED
          BY <4>3, <5>1 DEF OwnedInTime
      <4>. QED
        BY <4>1, <4>2, <4>4
    <3>2. CASE ~HasGroup(data, k, g)
      <4>1. ow = {}
        BY <3>2, KnownHere DEF PlaceInv
      <4>. QED
        BY <4>1
    <3>. QED
      BY <3>1, <3>2
  <2>3. {o \in ow : o[2] # consumer} = ow
    BY <2>2
  <2>4. owed' = owed
    BY <1>1, <2>3, KnownHere
  <2>. QED
    BY <1>1, <2>1, <2>4, NoPlace DEF clientVars
<1>5. CASE Knows(data, c)
  <2>1. HasGroup(data, k, g)
    BY <1>5 DEF Knows
  <2>2. Execute(data, c, 0) = Commit(data, <<r>>)
    BY <1>2, <1>5 DEF XGroupDelConsumer
  <2>3. r \in RecordStates /\ r.key = k /\ r.group = g /\ r.cmd = "XGCDEL" /\ r.consumer = consumer
    BY DEF RecordStates
  <2>. HIDE DEF c, r
  <2>4. data' = ApplyRecord(data, r)
    BY <1>1, <2>2, OneApplied
  <2>5. data[k].groups[g] \in GroupStates /\ ow = OwnersOf(data[k].groups[g])
    BY <1>3, <2>1, KnownGroup
  <2>6. IsRecord(r)
    BY <2>3 DEF RecordStates, IsRecord
  <2>7. OwnersOf(GroupAfter(data[k].groups[g], r)) = {o \in ow : o[2] # consumer}
    <3>1. OwnersOf(GroupAfter(data[k].groups[g], r)) =
            {o \in OwnersOf(data[k].groups[g]) : o[2] # r.consumer}
      BY <2>3, <2>5, <2>6, OwnersAfter
    <3>. HIDE DEF ow
    <3>. QED
      BY <2>3, <2>5, <3>1
  <2>8. owed' = [owed EXCEPT ![<<k, g>>] = OwnersOf(GroupAfter(data[k].groups[g], r))]
    BY <1>1, <2>7
  <2>. QED
    BY <1>1, <1>3, <2>1, <2>3, <2>4, <2>8, RecordKnown
<1>. QED
  BY <1>4, <1>5

LEMMA AcknowledgeKnown ==
  ASSUME ClientsInv, StreamsInv, NEW k \in Keys, NEW g \in Groups, Acknowledge(k, g)
  PROVE  ClientsInv'
<1>1. PICK ids \in SUBSET Ids :
        /\ Run([cmd |-> "XACK", key |-> k, group |-> g, ids |-> ids], 0)
        /\ owed' = [owed EXCEPT ![<<k, g>>] = {o \in owed[<<k, g>>] : o[1] \notin ids}]
        /\ UNCHANGED <<start, given>>
  BY DEF Acknowledge
<1>. DEFINE c == [cmd |-> "XACK", key |-> k, group |-> g, ids |-> ids]
            x == data[k].groups[g]
            owned == IF HasGroup(data, k, g) THEN ids \intersect DOMAIN x.pel ELSE {}
            r == [cmd |-> "XACK", key |-> k, group |-> g, ids |-> owned]
            ow == owed[<<k, g>>]
<1>2. data' = Execute(data, c, 0).data
  BY <1>1 DEF Run
<1>3. Execute(data, c, 0) = XAck(data, c)
  BY DEF Execute
<1>4. data \in DataStates
  BY DEF StreamsInv
<1>5. {o \in ow : o[1] \notin ids} = {o \in ow : o[1] \notin owned}
  <2>1. CASE HasGroup(data, k, g)
    <3>1. ow = OwnersOf(x)
      BY <1>4, <2>1, KnownGroup
    <3>2. \A o \in ow : o[1] \in DOMAIN x.pel
      BY <3>1 DEF OwnersOf
    <3>3. owned = ids \intersect DOMAIN x.pel
      BY <2>1
    <3>. HIDE DEF owned, ow, x
    <3>. QED
      BY <3>2, <3>3
  <2>2. CASE ~HasGroup(data, k, g)
    <3>1. ow = {}
      BY <2>2, KnownHere DEF PlaceInv
    <3>. QED
      BY <3>1
  <2>. QED
    BY <2>1, <2>2
<1>6. CASE owned = {}
  <2>1. data' = data
    BY <1>2, <1>3, <1>6 DEF XAck, Nothing
  <2>2. {o \in ow : o[1] \notin ids} = ow
    BY <1>5, <1>6
  <2>3. owed' = owed
    BY <1>1, <2>2, KnownHere
  <2>. QED
    BY <1>1, <2>1, <2>3, NoPlace DEF clientVars
<1>7. CASE owned # {}
  <2>1. HasGroup(data, k, g)
    BY <1>7
  <2>2. Execute(data, c, 0) = Commit(data, <<r>>)
    BY <1>3, <1>7 DEF XAck
  <2>3. r \in RecordStates /\ r.key = k /\ r.group = g /\ r.cmd = "XACK" /\ r.ids = owned
    <3>1. owned \in SUBSET Ids
      BY <1>1
    <3>. HIDE DEF owned
    <3>. QED
      BY <3>1 DEF RecordStates
  <2>. HIDE DEF c, r, owned, x
  <2>4. data' = ApplyRecord(data, r)
    BY <1>2, <2>2, OneApplied
  <2>5. x \in GroupStates /\ ow = OwnersOf(x)
    BY <1>4, <2>1, KnownGroup DEF x
  <2>6. IsRecord(r)
    BY <2>3 DEF RecordStates, IsRecord
  <2>7. OwnersOf(GroupAfter(x, r)) = {o \in ow : o[1] \notin owned}
    <3>1. OwnersOf(GroupAfter(x, r)) = {o \in OwnersOf(x) : o[1] \notin r.ids}
      BY <2>3, <2>5, <2>6, OwnersAfter
    <3>. HIDE DEF ow
    <3>. QED
      BY <2>3, <2>5, <3>1
  <2>8. owed' = [owed EXCEPT ![<<k, g>>] = OwnersOf(GroupAfter(data[k].groups[g], r))]
    BY <1>1, <1>5, <2>7 DEF x
  <2>. QED
    BY <1>1, <1>4, <2>1, <2>3, <2>4, <2>8, RecordKnown
<1>. QED
  BY <1>6, <1>7

LEMMA DestroyKnown ==
  ASSUME ClientsInv, StreamsInv, NEW k \in Keys, NEW g \in Groups, Destroy(k, g)
  PROVE  ClientsInv'
<1>. DEFINE c == [cmd |-> "DESTROY", key |-> k, group |-> g]
            r == [cmd |-> "XGDEL", key |-> k, group |-> g]
<1>1. /\ HasGroup(data, k, g) /\ data' = Execute(data, c, 0).data
      /\ start' = [start EXCEPT ![<<k, g>>] = MinId]
      /\ given' = [given EXCEPT ![<<k, g>>] = {}]
      /\ owed' = [owed EXCEPT ![<<k, g>>] = {}]
  BY DEF Destroy, Run
<1>2. Execute(data, c, 0) = Commit(data, <<r>>)
  <2>1. Execute(data, c, 0) = XGroupDestroy(data, c)
    BY DEF Execute
  <2>. QED
    BY <1>1, <2>1 DEF XGroupDestroy
<1>3. r \in RecordStates /\ r.key = k /\ r.group = g /\ r.cmd = "XGDEL" /\ IsRecord(r)
  BY DEF RecordStates, IsRecord
<1>. HIDE DEF c, r
<1>4. data' = ApplyRecord(data, r)
  BY <1>1, <1>2, OneApplied
<1>5. data \in DataStates
  BY DEF StreamsInv
<1>6. ~HasGroup(data', k, g)
  <2>1. IsGroup(data, k, g, data[k].groups[g])
    BY <1>1 DEF IsGroup
  <2>. QED
    BY <1>3, <1>4, <1>5, <2>1, RecordHere
<1>7. SameEntries(data, data')
  BY <1>3, <1>4, <1>5, RecordKeeps
<1>8. \A j, h : j # k \/ h # g => SamePlace(data, data', j, h)
  BY <1>3, <1>4, <1>5, RecordElsewhere
<1>9. PlaceInv(data', k, g, MinId, {}, {})
  BY <1>6 DEF PlaceInv
<1>. QED
  BY <1>1, <1>7, <1>8, <1>9, NothingBeforeMin, OnePlace

LEMMA SetCursorKnown ==
  ASSUME ClientsInv, StreamsInv, NEW k \in Keys, NEW g \in Groups, SetCursor(k, g)
  PROVE  ClientsInv'
<1>1. data \in DataStates
  BY DEF StreamsInv
<1>2. CASE data' = data
  BY <1>2, NoPlace DEF SetCursor, clientVars
<1>3. ASSUME NEW c, IsGroupCommand(c), c.cmd \in {"CREATE", "SETID"}, c.key = k, c.group = g,
             Run(c, 0), data' # data
      PROVE  ClientsInv'
  <2>. DEFINE r == Cursor(data, c)
              x == data[k].groups[g]
              y == data'[k].groups[g]
  <2>1. data' = Execute(data, c, 0).data
    BY <1>3 DEF Run
  <2>2. Execute(data, c, 0) = Nothing(data, <<>>) \/ Execute(data, c, 0) = Commit(data, <<r>>)
    <3>1. CASE c.cmd = "CREATE"
      BY <3>1 DEF Execute, XGroupCreate
    <3>2. CASE c.cmd = "SETID"
      BY <3>2 DEF Execute, XGroupSetId
    <3>. QED
      BY <1>3, <3>1, <3>2
  <2>3. Execute(data, c, 0) = Commit(data, <<r>>)
    BY <1>3, <2>1, <2>2 DEF Nothing
  <2>4. r \in RecordStates /\ r.key = k /\ r.group = g /\ r.cmd = "XGROUP"
    <3>1. Cursor(data, c) \in RecordStates
      BY <1>1, <1>3, CursorRecord
    <3>. QED
      BY <1>3, <3>1 DEF Cursor
  <2>. HIDE DEF r, x
  <2>5. IsRecord(r) /\ r.id \in Ids
    BY <2>4 DEF RecordStates, IsRecord
  <2>6. data' = ApplyRecord(data, r)
    BY <2>1, <2>3, OneApplied
  <2>7. HasGroup(data', k, g) /\ y.last = r.id /\ OwnersOf(y) = owed[<<k, g>>]
    <3>1. CASE HasGroup(data, k, g)
      <4>1. x \in GroupStates /\ IsGroup(data, k, g, x) /\ owed[<<k, g>>] = OwnersOf(x)
        BY <1>1, <3>1, KnownGroup DEF x
      <4>2. IsGroup(data', k, g, GroupAfter(x, r))
        BY <1>1, <2>4, <2>6, <4>1, RecordHere
      <4>3. OwnersOf(GroupAfter(x, r)) = OwnersOf(x) /\ GroupAfter(x, r).last = r.id
        BY <2>4, <2>5, <4>1, OwnersAfter
      <4>. QED
        BY <4>1, <4>2, <4>3 DEF IsGroup
    <3>2. CASE ~HasGroup(data, k, g)
      <4>1. owed[<<k, g>>] = {}
        BY <3>2, KnownHere DEF PlaceInv
      <4>2. IsGroup(data', k, g, NewGroup(r.id))
        BY <1>1, <2>4, <2>6, <3>2, RecordNew
      <4>3. NewGroup(r.id).last = r.id /\ OwnersOf(NewGroup(r.id)) = {}
        BY DEF NewGroup, OwnersOf
      <4>. QED
        BY <4>1, <4>2, <4>3 DEF IsGroup
    <3>. QED
      BY <3>1, <3>2
  <2>8. /\ start' = [start EXCEPT ![<<k, g>>] = r.id]
        /\ given' = [given EXCEPT ![<<k, g>>] = {}]
        /\ owed' = [owed EXCEPT ![<<k, g>>] = owed[<<k, g>>]]
        /\ owed[<<k, g>>] \in SUBSET (Ids \X Consumers)
    <3>1. /\ start' = [start EXCEPT ![<<k, g>>] = y.last]
          /\ given' = [given EXCEPT ![<<k, g>>] = {}] /\ owed' = owed
      BY <1>3 DEF SetCursor
    <3>. QED
      BY <2>7, <3>1, KnownHere
  <2>9. CursorFits(data'[k].ids, data'[k].last, y.last, r.id, {})
    BY <2>7 DEF CursorFits
  <2>10. PlaceInv(data', k, g, r.id, {}, owed[<<k, g>>])
    BY <2>7, <2>9 DEF PlaceInv
  <2>11. SameEntries(data, data')
    BY <1>1, <2>5, <2>6, RecordKeeps
  <2>12. \A j, h : j # k \/ h # g => SamePlace(data, data', j, h)
    BY <1>1, <2>4, <2>6, RecordElsewhere
  <2>. QED
    BY <2>5, <2>8, <2>10, <2>11, <2>12, OnePlace
<1>4. CASE data' # data
  <2>1. PICK cmd \in {"CREATE", "SETID"}, mk \in BOOLEAN :
          \/ Run([cmd |-> cmd, key |-> k, group |-> g, at |-> "$", mkstream |-> mk], 0)
          \/ \E id \in Ids :
               Run([cmd |-> cmd, key |-> k, group |-> g, at |-> "id", id |-> id,
                    mkstream |-> mk], 0)
    BY DEF SetCursor
  <2>2. CASE Run([cmd |-> cmd, key |-> k, group |-> g, at |-> "$", mkstream |-> mk], 0)
    <3>. DEFINE c == [cmd |-> cmd, key |-> k, group |-> g, at |-> "$", mkstream |-> mk]
    <3>1. /\ IsGroupCommand(c) /\ c.cmd \in {"CREATE", "SETID"} /\ c.key = k /\ c.group = g
          /\ Run(c, 0)
      BY <2>1, <2>2 DEF IsGroupCommand
    <3>. HIDE DEF c
    <3>. QED
      BY <1>3, <1>4, <3>1
  <2>3. ASSUME NEW id \in Ids,
               Run([cmd |-> cmd, key |-> k, group |-> g, at |-> "id", id |-> id,
                    mkstream |-> mk], 0)
        PROVE  ClientsInv'
    <3>. DEFINE c == [cmd |-> cmd, key |-> k, group |-> g, at |-> "id", id |-> id,
                      mkstream |-> mk]
    <3>1. /\ IsGroupCommand(c) /\ c.cmd \in {"CREATE", "SETID"} /\ c.key = k /\ c.group = g
          /\ Run(c, 0)
      BY <2>1, <2>3 DEF IsGroupCommand
    <3>. HIDE DEF c
    <3>. QED
      BY <1>3, <1>4, <3>1
  <2>. QED
    BY <2>1, <2>2, <2>3
<1>. QED
  BY <1>2, <1>4

-----------------------------------------------------------------------------
(***************************************************************************)
(* Reads of a group: an announcement, attempts, and a move of the cursor.  *)
(***************************************************************************)
ReadRecords(k, g, c) ==
  {r \in RecordStates : /\ r.key = k /\ r.group = g
                        /\ r.cmd \in {"XGCONS", "XGPEL", "XGLAST"}
                        /\ r.cmd = "XGPEL" => r.consumer = c}

LEMMA ReadRecordsRead ==
  ASSUME NEW k, NEW g, NEW c, NEW s \in Seq(ReadRecords(k, g, c))
  PROVE  IsRead(s, Len(s), k, g, c)
<1>1. /\ Len(s) \in Nat /\ DOMAIN s = 1..Len(s)
      /\ \A n \in 1..Len(s) : s[n] \in ReadRecords(k, g, c)
  OBVIOUS
<1>2. \A r \in ReadRecords(k, g, c) :
        /\ r \in RecordStates /\ r.key = k /\ r.group = g
        /\ r.cmd \in {"XGCONS", "XGPEL", "XGLAST"}
        /\ r.cmd = "XGPEL" => r.consumer = c
  BY DEF ReadRecords
<1>3. \A r \in RecordStates : IsRecord(r)
  BY DEF RecordStates, IsRecord
<1>4. AreRecords(s, Len(s))
  BY <1>1, <1>2, <1>3 DEF AreRecords
<1>. QED
  BY <1>1, <1>2, <1>4 DEF IsRead

\* Which of the records of two sequences hand out an entry.
LEMMA HandedConcat ==
  ASSUME NEW T, NEW s \in Seq(T), NEW t \in Seq(T)
  PROVE  HandedBy(s \o t, Len(s \o t)) = HandedBy(s, Len(s)) \union HandedBy(t, Len(t))
<1>. DEFINE u == s \o t
            m == Len(s)
            n == Len(t)
<1>1. /\ m \in Nat /\ n \in Nat /\ Len(u) = m + n
      /\ \A i \in 1..m : u[i] = s[i]
      /\ \A i \in 1..n : u[i + m] = t[i]
  OBVIOUS
<1>. HIDE DEF u, m, n
<1>2. \A id : id \in HandedBy(u, m + n) <=>
        \E j \in 1..(m + n) : u[j].cmd = "XGPEL" /\ id = u[j].id
  BY DEF HandedBy
<1>3. \A id : id \in HandedBy(s, m) <=> \E j \in 1..m : s[j].cmd = "XGPEL" /\ id = s[j].id
  BY DEF HandedBy
<1>4. \A id : id \in HandedBy(t, n) <=> \E j \in 1..n : t[j].cmd = "XGPEL" /\ id = t[j].id
  BY DEF HandedBy
<1>5. ASSUME NEW id \in HandedBy(u, m + n) PROVE id \in HandedBy(s, m) \union HandedBy(t, n)
  <2>1. PICK j \in 1..(m + n) : u[j].cmd = "XGPEL" /\ id = u[j].id
    BY <1>2, <1>5
  <2>2. CASE j \in 1..m
    BY <1>1, <1>3, <2>1, <2>2
  <2>3. CASE j \notin 1..m
    <3>1. j - m \in 1..n /\ (j - m) + m = j
      BY <1>1, <2>3
    <3>2. u[j] = t[j - m]
      BY <1>1, <3>1
    <3>. QED
      BY <1>4, <2>1, <3>1, <3>2
  <2>. QED
    BY <2>2, <2>3
<1>6. ASSUME NEW id \in HandedBy(s, m) PROVE id \in HandedBy(u, m + n)
  <2>1. PICK j \in 1..m : s[j].cmd = "XGPEL" /\ id = s[j].id
    BY <1>3, <1>6
  <2>2. j \in 1..(m + n) /\ u[j] = s[j]
    BY <1>1
  <2>. QED
    BY <1>2, <2>1, <2>2
<1>7. ASSUME NEW id \in HandedBy(t, n) PROVE id \in HandedBy(u, m + n)
  <2>1. PICK j \in 1..n : t[j].cmd = "XGPEL" /\ id = t[j].id
    BY <1>4, <1>7
  <2>2. j + m \in 1..(m + n) /\ u[j + m] = t[j]
    BY <1>1
  <2>. QED
    BY <1>2, <2>1, <2>2
<1>8. HandedBy(u, m + n) = HandedBy(s, m) \union HandedBy(t, n)
  BY <1>5, <1>6, <1>7
<1>. QED
  BY <1>1, <1>8 DEF u, m, n

LEMMA ConcatIs ==
  ASSUME NEW T, NEW s \in Seq(T), NEW t \in Seq(T)
  PROVE  /\ s \o t \in Seq(T) /\ Len(s) \in Nat /\ Len(s \o t) = Len(s) + Len(t)
         /\ \A i \in 1..Len(t) : (s \o t)[i + Len(s)] = t[i]
OBVIOUS

LEMMA OneMore ==
  ASSUME NEW T, NEW s \in Seq(T), NEW t \in Seq(T), Len(t) = 1
  PROVE  /\ s \o t \in Seq(T) /\ Len(s \o t) > 0
         /\ (s \o t)[Len(s \o t)] = t[1]
<1>. DEFINE u == s \o t
            m == Len(s)
            n == Len(t)
<1>1. /\ u \in Seq(T) /\ m \in Nat /\ Len(u) = m + n /\ n = 1
      /\ \A i \in 1..n : u[i + m] = t[i]
  BY ConcatIs
<1>. HIDE DEF u, m, n
<1>2. 1 \in 1..n /\ 1 + m = Len(u) /\ Len(u) > 0
  BY <1>1
<1>. QED
  BY <1>1, <1>2 DEF u

\* The pieces of a read: of what records they are, and what they hand out.
LEMMA AnnouncedIs ==
  ASSUME NEW d, NEW c, IsGroupCommand(c), c.consumer \in Consumers, NEW now \in 0..Top
  PROVE  /\ Announced(d, c, now) \in Seq(ReadRecords(c.key, c.group, c.consumer))
         /\ HandedBy(Announced(d, c, now), Len(Announced(d, c, now))) = {}
         /\ \A i \in 1..Len(Announced(d, c, now)) : Announced(d, c, now)[i].cmd = "XGCONS"
<1>. DEFINE r == NewConsumer(c, now)
            T == ReadRecords(c.key, c.group, c.consumer)
            s == Announced(d, c, now)
<1>1. r \in T /\ r.cmd = "XGCONS"
  <2>1. NewConsumer(c, now) \in RecordStates
    BY ConsumerRecordType
  <2>. QED
    BY <2>1 DEF ReadRecords, NewConsumer
<1>2. s = <<>> \/ s = <<r>>
  BY DEF Announced
<1>. HIDE DEF r, T, s
<1>3. s \in Seq(T) /\ \A i \in 1..Len(s) : s[i].cmd = "XGCONS"
  <2>1. CASE s = <<>>
    BY <2>1
  <2>2. CASE s = <<r>>
    <3>1. <<r>> \in Seq(T) /\ Len(<<r>>) = 1 /\ <<r>>[1] = r
      BY <1>1
    <3>2. \A i \in 1..1 : <<r>>[i].cmd = "XGCONS"
      BY <1>1, <3>1
    <3>. QED
      BY <2>2, <3>1, <3>2
  <2>. QED
    BY <1>2, <2>1, <2>2
<1>4. HandedBy(s, Len(s)) = {}
  BY <1>3 DEF HandedBy
<1>. QED
  BY <1>3, <1>4 DEF s, T

LEMMA AttemptsAre ==
  ASSUME NEW d \in DataStates, NEW c, IsGroupCommand(c), c.consumer \in Consumers,
         NEW now \in 0..Top, HasGroup(d, c.key, c.group), NEW ids \in Seq(Ids)
  PROVE  /\ Attempts(d, c, now, ids) \in Seq(ReadRecords(c.key, c.group, c.consumer))
         /\ HandedBy(Attempts(d, c, now, ids), Len(Attempts(d, c, now, ids))) = ToSet(ids)
         /\ \A i \in 1..Len(Attempts(d, c, now, ids)) : Attempts(d, c, now, ids)[i].cmd = "XGPEL"
<1>. DEFINE x == d[c.key].groups[c.group]
            T == ReadRecords(c.key, c.group, c.consumer)
            s == Attempts(d, c, now, ids)
<1>1. x \in GroupStates
  BY GroupType
<1>2. ASSUME NEW i \in 1..Len(ids)
      PROVE  /\ Attempt(x, c, ids[i], now) \in T
             /\ Attempt(x, c, ids[i], now).cmd = "XGPEL"
             /\ Attempt(x, c, ids[i], now).id = ids[i]
  <2>1. ids[i] \in Ids
    OBVIOUS
  <2>. HIDE DEF x
  <2>2. Attempt(x, c, ids[i], now) \in RecordStates
    BY <1>1, <2>1, AttemptRecord
  <2>. QED
    BY <2>2 DEF ReadRecords, Attempt
<1>3. s = [i \in 1..Len(ids) |-> Attempt(x, c, ids[i], now)]
  BY DEF Attempts
<1>4. Len(ids) \in Nat /\ ToSet(ids) = {ids[i] : i \in 1..Len(ids)}
  BY DEF ToSet
<1>. HIDE DEF x, T, s
<1>5. s \in Seq(T) /\ Len(s) = Len(ids)
  BY <1>2, <1>3, <1>4
<1>6. \A i \in 1..Len(ids) : s[i].cmd = "XGPEL" /\ s[i].id = ids[i]
  BY <1>2, <1>3
<1>7. HandedBy(s, Len(s)) = ToSet(ids)
  <2>1. \A id : id \in HandedBy(s, Len(s)) <=>
          \E j \in 1..Len(ids) : s[j].cmd = "XGPEL" /\ id = s[j].id
    BY <1>5 DEF HandedBy
  <2>2. \A id : id \in ToSet(ids) <=> \E j \in 1..Len(ids) : id = ids[j]
    BY <1>4
  <2>3. \A id : id \in HandedBy(s, Len(s)) <=> id \in ToSet(ids)
    BY <1>6, <2>1, <2>2
  <2>. QED
    BY <2>3
<1>. QED
  BY <1>5, <1>6, <1>7 DEF s, T

LEMMA MovedIs ==
  ASSUME NEW d \in DataStates, NEW c, IsGroupCommand(c), c.consumer \in Consumers,
         c.count \in Nat, HasGroup(d, c.key, c.group), NewEntries(d, c) # <<>>
  PROVE  /\ <<Moved(d, c)>> \in Seq(ReadRecords(c.key, c.group, c.consumer))
         /\ HandedBy(<<Moved(d, c)>>, Len(<<Moved(d, c)>>)) = {}
<1>. DEFINE r == Moved(d, c)
            T == ReadRecords(c.key, c.group, c.consumer)
<1>1. Moved(d, c) \in RecordStates
  <2>1. 0 \in 0..Top
    BY TimesAndTrims
  <2>. QED
    BY <2>1, ReadGroupRecords
<1>2. r \in T /\ r.cmd = "XGLAST"
  BY <1>1 DEF ReadRecords, Moved
<1>. HIDE DEF r, T
<1>3. <<r>> \in Seq(T) /\ Len(<<r>>) = 1 /\ <<r>>[1].cmd = "XGLAST"
  BY <1>2
<1>4. {j \in 1..1 : <<r>>[j].cmd = "XGPEL"} = {}
  BY <1>3
<1>5. HandedBy(<<r>>, Len(<<r>>)) = {}
  BY <1>3, <1>4 DEF HandedBy
<1>. QED
  BY <1>3, <1>5 DEF r, T

LEMMA ReadApplied ==
  ASSUME ClientsInv, data \in DataStates, NEW k \in Keys, NEW g \in Groups, NEW c,
         HasGroup(data, k, g), NEW s \in Seq(ReadRecords(k, g, c)), data' = Applied(data, s)
  PROVE  /\ SameEntries(data, data')
         /\ \A j, h : j # k \/ h # g => SamePlace(data, data', j, h)
         /\ \E y \in GroupStates : /\ IsGroup(data', k, g, y)
                                   /\ HasRead(data[k].groups[g], y, s, Len(s), c)
<1>1. IsRead(s, Len(s), k, g, c)
  BY ReadRecordsRead
<1>2. AreRecords(s, Len(s))
  BY <1>1 DEF IsRead
<1>3. SameEntries(data, data')
  BY <1>2, AppliedKeeps
<1>4. IsGroup(data, k, g, data[k].groups[g])
  BY KnownGroup
<1>5. ReadDone(data, data', k, g, data[k].groups[g], s, Len(s), c)
  BY <1>1, <1>4, ReadKeeps
<1>. QED
  BY <1>3, <1>5 DEF ReadDone

\* A read that hands out only what the consumer has already.
LEMMA ReadUnmoved ==
  ASSUME ClientsInv, data \in DataStates, NEW k \in Keys, NEW g \in Groups, NEW c \in Consumers,
         HasGroup(data, k, g), NEW s \in Seq(ReadRecords(k, g, c)), data' = Applied(data, s),
         \A i \in 1..Len(s) : s[i].cmd # "XGLAST",
         \A id \in HandedBy(s, Len(s)) : <<id, c>> \in OwnersOf(data[k].groups[g]),
         UNCHANGED clientVars
  PROVE  ClientsInv'
<1>. DEFINE x == data[k].groups[g]
            S == HandedBy(s, Len(s))
<1>1. PICK y \in GroupStates : IsGroup(data', k, g, y) /\ HasRead(x, y, s, Len(s), c)
  BY ReadApplied
<1>2. SameEntries(data, data') /\ \A j, h : j # k \/ h # g => SamePlace(data, data', j, h)
  BY ReadApplied
<1>3. OwnersOf(y) = Handed(OwnersOf(x), S, c) /\ y.last = x.last
  BY <1>1 DEF HasRead
<1>4. IsGroup(data, k, g, x) /\ owed[<<k, g>>] = OwnersOf(x)
  BY KnownGroup
<1>5. Handed(OwnersOf(x), S, c) = OwnersOf(x)
  <2>1. \A id \in S : <<id, c>> \in OwnersOf(x)
    OBVIOUS
  <2>2. \A o \in OwnersOf(x) : o = <<o[1], x.pel[o[1]].consumer>>
    BY DEF OwnersOf
  <2>. HIDE DEF S, x
  <2>3. ASSUME NEW o \in OwnersOf(x), o[1] \in S PROVE o \in S \X {c}
    <3>1. <<o[1], c>> \in OwnersOf(x)
      BY <2>1, <2>3
    <3>2. <<o[1], c>> = <<<<o[1], c>>[1], x.pel[<<o[1], c>>[1]].consumer>>
      BY <2>2, <3>1
    <3>3. c = x.pel[o[1]].consumer
      BY <3>2
    <3>. QED
      BY <2>2, <2>3, <3>3
  <2>4. ASSUME NEW o \in S \X {c} PROVE o \in OwnersOf(x)
    BY <2>1, <2>4
  <2>. QED
    BY <2>3, <2>4 DEF Handed
<1>. HIDE DEF x, S
<1>6. PlaceInv(data, k, g, start[<<k, g>>], given[<<k, g>>], owed[<<k, g>>])
  BY KnownHere
<1>7. PlaceInv(data', k, g, start[<<k, g>>], given[<<k, g>>], OwnersOf(y))
  BY <1>1, <1>2, <1>3, <1>4, <1>6, PlaceHere
<1>8. PlaceInv(data', k, g, start[<<k, g>>], given[<<k, g>>], owed[<<k, g>>])
  BY <1>3, <1>4, <1>5, <1>7
<1>9. /\ start[<<k, g>>] \in Ids /\ given[<<k, g>>] \in SUBSET Ids
      /\ owed[<<k, g>>] \in SUBSET (Ids \X Consumers)
      /\ start' = [start EXCEPT ![<<k, g>>] = start[<<k, g>>]]
      /\ given' = [given EXCEPT ![<<k, g>>] = given[<<k, g>>]]
      /\ owed' = [owed EXCEPT ![<<k, g>>] = owed[<<k, g>>]]
  BY KnownHere DEF clientVars
<1>. QED
  BY <1>2, <1>8, <1>9, OnePlace

\* A read that moves the cursor past the new entries.
LEMMA ReadMoved ==
  ASSUME ClientsInv, data \in DataStates, Orderly(data), NEW k \in Keys, NEW g \in Groups,
         NEW c \in Consumers, HasGroup(data, k, g), NEW s \in Seq(ReadRecords(k, g, c)),
         data' = Applied(data, s), NEW n \in Nat,
         NEW new, new = ReadAfter(data[k], data[k].groups[g].last, n), new # <<>>,
         Len(s) > 0, s[Len(s)].cmd = "XGLAST", s[Len(s)].id = Last(new),
         UNCHANGED start, given' = [given EXCEPT ![<<k, g>>] = given[<<k, g>>] \union ToSet(new)],
         owed' = [owed EXCEPT ![<<k, g>>] = Handed(owed[<<k, g>>], HandedBy(s, Len(s)), c)]
  PROVE  ClientsInv'
<1>. DEFINE x == data[k].groups[g]
            S == HandedBy(s, Len(s))
            st == start[<<k, g>>]
            gv == given[<<k, g>>]
<1>1. PICK y \in GroupStates : IsGroup(data', k, g, y) /\ HasRead(x, y, s, Len(s), c)
  BY ReadApplied
<1>2. SameEntries(data, data') /\ \A j, h : j # k \/ h # g => SamePlace(data, data', j, h)
  BY ReadApplied
<1>3. OwnersOf(y) = Handed(owed[<<k, g>>], S, c) /\ y.last = Last(new)
  <2>1. owed[<<k, g>>] = OwnersOf(x)
    BY KnownGroup
  <2>. QED
    BY <1>1, <2>1 DEF HasRead
<1>4. k \in DOMAIN data /\ data[k] \in StreamStates /\ x \in GroupStates
  BY GroupType
<1>5. Ascending(data[k].ids) /\ \A id \in ToSet(data[k].ids) : ~Before(data[k].last, id)
  BY <1>4 DEF Orderly
<1>6. data[k].ids \in Seq(Ids) /\ data[k].last \in Ids /\ x.last \in Ids
  BY <1>4 DEF StreamStates, GroupStates
<1>7. /\ Last(new) \in ToSet(data[k].ids) /\ Before(x.last, Last(new))
      /\ ToSet(new) = {i \in ToSet(data[k].ids) : Before(x.last, i) /\ ~Before(Last(new), i)}
  BY <1>4, <1>5, <1>6, ReadAfterExact
<1>8. /\ st \in Ids /\ gv \in SUBSET Ids
      /\ CursorFits(data[k].ids, data[k].last, x.last, st, gv)
  <2>1. PlaceInv(data, k, g, start[<<k, g>>], given[<<k, g>>], owed[<<k, g>>])
    BY KnownHere
  <2>. QED
    BY <2>1, KnownHere DEF PlaceInv
<1>9. CursorFits(data[k].ids, data[k].last, Last(new), st, gv \union ToSet(new))
  <2>. HIDE DEF st, gv, x
  <2>. QED
    BY <1>5, <1>6, <1>7, <1>8, CursorMoves
<1>10. data'[k].ids = data[k].ids /\ data'[k].last = data[k].last
  BY <1>2, <1>4 DEF SameEntries
<1>11. PlaceInv(data', k, g, st, gv \union ToSet(new), OwnersOf(y))
  BY <1>1, <1>3, <1>9, <1>10 DEF PlaceInv, IsGroup
<1>12. gv \union ToSet(new) \in SUBSET Ids
  <2>1. \A id \in ToSet(data[k].ids) : id \in Ids
    BY <1>6 DEF ToSet
  <2>. QED
    BY <1>7, <1>8, <2>1
<1>13. OwnersOf(y) \in SUBSET (Ids \X Consumers)
  BY OwnersType
<1>14. /\ start' = [start EXCEPT ![<<k, g>>] = st]
       /\ given' = [given EXCEPT ![<<k, g>>] = gv \union ToSet(new)]
       /\ owed' = [owed EXCEPT ![<<k, g>>] = OwnersOf(y)]
  BY <1>3, KnownHere
<1>. HIDE DEF st, gv, x, S
<1>. QED
  BY <1>2, <1>8, <1>11, <1>12, <1>13, <1>14, OnePlace

LEMMA ReadHistoryKnown ==
  ASSUME ClientsInv, StreamsInv, NEW k \in Keys, NEW g \in Groups, NEW consumer \in Consumers,
         NEW now \in Clock, ReadHistory(k, g, consumer, now)
  PROVE  ClientsInv'
<1>1. PICK n \in Counts, id \in Ids :
        Run([cmd |-> "XREADGROUP", key |-> k, group |-> g, consumer |-> consumer,
             at |-> "history", id |-> id, count |-> n, noack |-> FALSE], now)
  BY DEF ReadHistory
<1>. DEFINE c == [cmd |-> "XREADGROUP", key |-> k, group |-> g, consumer |-> consumer,
                  at |-> "history", id |-> id, count |-> n, noack |-> FALSE]
            x == data[k].groups[g]
            old == Remaining(data, c)
            a == Announced(data, c, now)
            b == Attempts(data, c, now, old)
            T == ReadRecords(k, g, consumer)
<1>2. HasGroup(data, k, g) /\ UNCHANGED clientVars /\ data \in DataStates /\ now \in 0..Top
  BY TimesAndTrims DEF ReadHistory, StreamsInv
<1>3. IsGroupCommand(c) /\ c.consumer \in Consumers /\ c.count \in Nat /\ n \in Nat
  BY <1>1, StreamGroupsAssumption DEF IsGroupCommand
<1>4. /\ c.key = k /\ c.group = g /\ c.consumer = consumer /\ c.at = "history"
      /\ c.cmd = "XREADGROUP"
  OBVIOUS
<1>5. data' = Execute(data, c, now).data
  BY <1>1 DEF Run
<1>6. \A i \in ToSet(OldEntries(data, c)) : i \in DOMAIN x.pel /\ x.pel[i].consumer = consumer
  <2>1. x \in GroupStates
    BY <1>2, GroupType
  <2>2. OldEntries(data, c) = PendingAfter(x, consumer, id, n)
    BY DEF OldEntries
  <2>. QED
    BY <1>3, <2>1, <2>2, PendingAfterFinds
<1>6a. OldEntries(data, c) \in Seq(Ids)
  <2>1. x \in GroupStates
    BY <1>2, GroupType
  <2>2. OldEntries(data, c) = PendingAfter(x, consumer, id, n)
    BY DEF OldEntries
  <2>. QED
    BY <1>3, <2>1, <2>2, PendingAfterFinds
<1>. HIDE DEF c, x
<1>7. Execute(data, c, now) = Commit(data, a \o b)
  <2>1. Execute(data, c, now) = XReadGroup(data, c, now)
    BY <1>4 DEF Execute
  <2>2. HasGroup(data, c.key, c.group)
    BY <1>2, <1>4
  <2>. QED
    BY <1>4, <2>1, <2>2, ReadGroupCases
<1>8. old \in Seq(Ids) /\ ToSet(old) \subseteq ToSet(OldEntries(data, c))
  BY <1>6a, ChosenFrom DEF Remaining
<1>. HIDE DEF old
<1>9. /\ a \in Seq(T) /\ HandedBy(a, Len(a)) = {}
      /\ \A i \in 1..Len(a) : a[i].cmd = "XGCONS"
  BY <1>2, <1>3, <1>4, AnnouncedIs
<1>10. /\ b \in Seq(T) /\ HandedBy(b, Len(b)) = ToSet(old)
       /\ \A i \in 1..Len(b) : b[i].cmd = "XGPEL"
  BY <1>2, <1>3, <1>4, <1>8, AttemptsAre
<1>11. data' = Applied(data, a \o b)
  BY <1>5, <1>7 DEF Commit
<1>. HIDE DEF a, b, T
<1>12. a \o b \in Seq(T) /\ HandedBy(a \o b, Len(a \o b)) = ToSet(old)
  <2>1. a \o b \in Seq(T)
    BY <1>9, <1>10
  <2>2. HandedBy(a \o b, Len(a \o b)) = HandedBy(a, Len(a)) \union HandedBy(b, Len(b))
    <3>1. a \in Seq(T) /\ b \in Seq(T)
      BY <1>9, <1>10
    <3>. QED
      BY <3>1, HandedConcat
  <2>. QED
    BY <1>9, <1>10, <2>1, <2>2
<1>13. \A i \in 1..Len(a \o b) : (a \o b)[i].cmd # "XGLAST"
  <2>1. ASSUME NEW i \in 1..Len(a \o b) PROVE (a \o b)[i].cmd # "XGLAST"
    <3>1. CASE i <= Len(a)
      <4>1. i \in 1..Len(a) /\ (a \o b)[i] = a[i]
        BY <1>9, <1>10, <3>1
      <4>. QED
        BY <1>9, <4>1
    <3>2. CASE i > Len(a)
      <4>1. i - Len(a) \in 1..Len(b) /\ (a \o b)[i] = b[i - Len(a)]
        BY <1>9, <1>10, <3>2
      <4>. QED
        BY <1>10, <4>1
    <3>. QED
      BY <1>9, <3>1, <3>2
  <2>. QED
    BY <2>1
<1>14. \A i \in HandedBy(a \o b, Len(a \o b)) : <<i, consumer>> \in OwnersOf(x)
  BY <1>6, <1>8, <1>12 DEF OwnersOf
<1>. QED
  BY <1>2, <1>11, <1>12, <1>13, <1>14, ReadUnmoved DEF T, x

LEMMA ReadNewKnown ==
  ASSUME ClientsInv, StreamsInv, NEW k \in Keys, NEW g \in Groups, NEW consumer \in Consumers,
         NEW now \in Clock, ReadNew(k, g, consumer, now)
  PROVE  ClientsInv'
<1>1. PICK n \in Counts, noack \in BOOLEAN :
        LET c   == [cmd |-> "XREADGROUP", key |-> k, group |-> g, consumer |-> consumer,
                    at |-> ">", count |-> n, noack |-> noack]
            new == ToSet(NewEntries(data, c))
        IN  /\ HasGroup(data, k, g)
            /\ Run(c, now)
            /\ given' = [given EXCEPT ![<<k, g>>] = given[<<k, g>>] \union new]
            /\ owed' = IF noack THEN owed
                       ELSE [owed EXCEPT ![<<k, g>>] =
                               {o \in owed[<<k, g>>] : o[1] \notin new} \union (new \X {consumer})]
            /\ UNCHANGED start
  BY DEF ReadNew
<1>. DEFINE c == [cmd |-> "XREADGROUP", key |-> k, group |-> g, consumer |-> consumer,
                  at |-> ">", count |-> n, noack |-> noack]
            new == NewEntries(data, c)
            a == Announced(data, c, now)
            b == IF noack THEN <<>> ELSE Attempts(data, c, now, new)
            m == <<Moved(data, c)>>
            T == ReadRecords(k, g, consumer)
<1>2. /\ HasGroup(data, k, g) /\ data \in DataStates /\ Orderly(data) /\ now \in 0..Top
      /\ given' = [given EXCEPT ![<<k, g>>] = given[<<k, g>>] \union ToSet(new)]
      /\ owed' = IF noack THEN owed
                 ELSE [owed EXCEPT ![<<k, g>>] = Handed(owed[<<k, g>>], ToSet(new), consumer)]
      /\ UNCHANGED start
  BY <1>1, TimesAndTrims DEF StreamsInv, Handed
<1>3. IsGroupCommand(c) /\ c.consumer \in Consumers /\ c.count \in Nat /\ n \in Nat
  BY <1>1, StreamGroupsAssumption DEF IsGroupCommand
<1>4. /\ c.key = k /\ c.group = g /\ c.consumer = consumer /\ c.at = ">" /\ c.noack = noack
      /\ c.cmd = "XREADGROUP" /\ c.at # "history" /\ c.count = n
  OBVIOUS
<1>5. data' = Execute(data, c, now).data
  BY <1>1 DEF Run
<1>. HIDE DEF c
<1>6. Execute(data, c, now) = IF new = <<>> THEN Commit(data, a) ELSE Commit(data, a \o b \o m)
  <2>1. Execute(data, c, now) = XReadGroup(data, c, now)
    BY <1>4 DEF Execute
  <2>2. HasGroup(data, c.key, c.group)
    BY <1>2, <1>4
  <2>. QED
    BY <1>4, <2>1, <2>2, ReadGroupCases
<1>7. new \in Seq(Ids)
  BY <1>2, <1>3, <1>4, ReadGroupRecords
<1>8. new = ReadAfter(data[k], data[k].groups[g].last, n)
  BY <1>4 DEF NewEntries
<1>9. /\ a \in Seq(T) /\ HandedBy(a, Len(a)) = {}
      /\ \A i \in 1..Len(a) : a[i].cmd = "XGCONS"
  BY <1>2, <1>3, <1>4, AnnouncedIs
<1>. HIDE DEF new
<1>10. b \in Seq(T) /\ HandedBy(b, Len(b)) = IF noack THEN {} ELSE ToSet(new)
  <2>1. CASE noack
    <3>1. <<>> \in Seq(T) /\ HandedBy(<<>>, Len(<<>>)) = {}
      <4>1. {j \in 1..0 : <<>>[j].cmd = "XGPEL"} = {} /\ Len(<<>>) = 0
        OBVIOUS
      <4>. QED
        BY <4>1 DEF HandedBy
    <3>. QED
      BY <2>1, <3>1
  <2>2. CASE ~noack
    BY <1>2, <1>3, <1>4, <1>7, <2>2, AttemptsAre
  <2>. QED
    BY <2>1, <2>2
<1>11. new # <<>> => m \in Seq(T) /\ HandedBy(m, Len(m)) = {}
  BY <1>2, <1>3, <1>4, MovedIs DEF new
<1>12. Len(m) = 1 /\ m[1].cmd = "XGLAST" /\ m[1].id = Last(new)
  BY DEF Moved, new
<1>. HIDE DEF a, b, m, T
<1>13. CASE new = <<>>
  <2>1. data' = Applied(data, a)
    BY <1>5, <1>6, <1>13 DEF Commit
  <2>2. ToSet(new) = {}
    BY <1>13 DEF ToSet
  <2>3. \A O : Handed(O, {}, consumer) = O
    BY DEF Handed
  <2>4. UNCHANGED clientVars
    <3>1. given[<<k, g>>] \union ToSet(new) = given[<<k, g>>]
      BY <2>2
    <3>2. Handed(owed[<<k, g>>], ToSet(new), consumer) = owed[<<k, g>>]
      BY <2>2, <2>3
    <3>. QED
      BY <1>2, <3>1, <3>2, KnownHere DEF clientVars
  <2>5. /\ \A i \in 1..Len(a) : a[i].cmd # "XGLAST"
        /\ \A id \in HandedBy(a, Len(a)) : <<id, consumer>> \in OwnersOf(data[k].groups[g])
    BY <1>9
  <2>. QED
    BY <1>2, <1>9, <2>1, <2>4, <2>5, ReadUnmoved DEF T
<1>14. CASE new # <<>>
  <2>. DEFINE s == a \o b \o m
  <2>1. data' = Applied(data, s)
    BY <1>5, <1>6, <1>14 DEF Commit
  <2>2. s \in Seq(T) /\ Len(s) > 0 /\ s[Len(s)] = m[1]
    <3>1. a \o b \in Seq(T) /\ m \in Seq(T) /\ Len(m) = 1
      BY <1>9, <1>10, <1>11, <1>12, <1>14
    <3>. QED
      BY <3>1, OneMore
  <2>3. HandedBy(s, Len(s)) = IF noack THEN {} ELSE ToSet(new)
    <3>0. a \in Seq(T) /\ b \in Seq(T) /\ m \in Seq(T)
      BY <1>9, <1>10, <1>11, <1>14
    <3>. DEFINE ab == a \o b
    <3>1. ab \in Seq(T)
      BY <3>0
    <3>2. HandedBy(a \o b, Len(a \o b)) = HandedBy(a, Len(a)) \union HandedBy(b, Len(b))
      BY <3>0, HandedConcat
    <3>. HIDE DEF ab
    <3>3. HandedBy(ab \o m, Len(ab \o m)) = HandedBy(ab, Len(ab)) \union HandedBy(m, Len(m))
      BY <3>0, <3>1, HandedConcat
    <3>. QED
      BY <1>9, <1>10, <1>11, <1>14, <3>2, <3>3 DEF ab
  <2>. HIDE DEF s
  <2>4. owed' = [owed EXCEPT ![<<k, g>>] = Handed(owed[<<k, g>>], HandedBy(s, Len(s)), consumer)]
    <3>1. Handed(owed[<<k, g>>], {}, consumer) = owed[<<k, g>>]
      BY DEF Handed
    <3>2. CASE noack
      BY <1>2, <2>3, <3>1, <3>2, KnownHere
    <3>3. CASE ~noack
      BY <1>2, <2>3, <3>3
    <3>. QED
      BY <3>2, <3>3
  <2>5. s[Len(s)].cmd = "XGLAST" /\ s[Len(s)].id = Last(new)
    BY <1>12, <2>2
  <2>6. s \in Seq(ReadRecords(k, g, consumer)) /\ Len(s) > 0
    BY <2>2 DEF T
  <2>7. /\ UNCHANGED start
        /\ given' = [given EXCEPT ![<<k, g>>] = given[<<k, g>>] \union ToSet(new)]
        /\ HasGroup(data, k, g) /\ data \in DataStates /\ Orderly(data) /\ n \in Nat
    BY <1>2, <1>3
  <2>. QED
    BY <1>8, <1>14, <2>1, <2>4, <2>5, <2>6, <2>7, ReadMoved
<1>. QED
  BY <1>13, <1>14

-----------------------------------------------------------------------------
LEMMA ClientsInvHolds ==
  Init => ClientsInv
<1>. SUFFICES ASSUME Init PROVE ClientsInv
  OBVIOUS
<1>1. /\ data = [k \in {} |-> NewStream]
      /\ start = [p \in Places |-> MinId] /\ given = [p \in Places |-> {}]
      /\ owed = [p \in Places |-> {}]
  BY DEF Init
<1>2. ASSUME NEW k \in Keys, NEW g \in Groups
      PROVE  PlaceInv(data, k, g, start[<<k, g>>], given[<<k, g>>], owed[<<k, g>>])
  <2>1. <<k, g>> \in Places /\ ~HasGroup(data, k, g)
    BY <1>1 DEF Places, HasGroup
  <2>. QED
    BY <1>1, <2>1 DEF PlaceInv
<1>. QED
  BY <1>1, <1>2, NothingBeforeMin DEF ClientsInv

LEMMA ClientsKeep ==
  ASSUME StreamsInv, ClientsInv, [Next]_vars
  PROVE  ClientsInv'
<1>0. StreamsInv' /\ Grows(data, data')
  BY StepKeeps
<1>1. CASE UNCHANGED vars
  BY <1>1, NoPlace DEF vars
<1>2. CASE Compact
  BY <1>2, NoPlace DEF Compact
<1>3. ASSUME NEW k \in Keys,
             \/ DeleteEntry(k) \/ Trim(k) \/ Delete(k)
             \/ \E now \in Clock : Add(k, now)
             \/ \E g \in Groups : GroupStep(k, g)
      PROVE  ClientsInv'
  <2>1. CASE DeleteEntry(k) \/ Trim(k) \/ \E now \in Clock : Add(k, now)
    BY <1>0, <2>1, EntryStepsKnown
  <2>2. CASE Delete(k)
    BY <2>2, DeleteKnown
  <2>3. ASSUME NEW g \in Groups, GroupStep(k, g) PROVE ClientsInv'
    <3>1. CASE SetCursor(k, g)
      BY <3>1, SetCursorKnown
    <3>2. CASE Destroy(k, g)
      BY <3>2, DestroyKnown
    <3>3. CASE Acknowledge(k, g)
      BY <3>3, AcknowledgeKnown
    <3>4. ASSUME NEW c \in Consumers, DeleteConsumer(k, g, c) PROVE ClientsInv'
      BY <3>4, DeleteConsumerKnown
    <3>5. ASSUME NEW c \in Consumers, NEW now \in Clock, CreateConsumer(k, g, c, now)
          PROVE  ClientsInv'
      BY <3>5, CreateConsumerKnown
    <3>6. ASSUME NEW c \in Consumers, NEW now \in Clock, ReadNew(k, g, c, now)
          PROVE  ClientsInv'
      BY <3>6, ReadNewKnown
    <3>7. ASSUME NEW c \in Consumers, NEW now \in Clock, ReadHistory(k, g, c, now)
          PROVE  ClientsInv'
      BY <3>7, ReadHistoryKnown
    <3>. QED
      BY <2>3, <3>1, <3>2, <3>3, <3>4, <3>5, <3>6, <3>7 DEF GroupStep
  <2>. QED
    BY <1>3, <2>1, <2>2, <2>3
<1>. QED
  BY <1>1, <1>2, <1>3 DEF Next

LEMMA ClientsAlways == Spec => [](StreamsInv /\ ClientsInv)
<1>1. Init => StreamsInv /\ ClientsInv
  BY StreamsInvHolds, ClientsInvHolds
<1>2. StreamsInv /\ ClientsInv /\ [Next]_vars => (StreamsInv /\ ClientsInv)'
  BY StepKeeps, ClientsKeep
<1>. QED
  BY <1>1, <1>2, PTL DEF Spec

\* Every entry behind the place where clients set a group's cursor was handed
\* out as new exactly if the cursor has passed it, whatever was added, trimmed,
\* deleted or read in between (XREADGROUP, Stream.read_after, XGROUP SETID).
THEOREM CursorsAreExact == Spec => []CursorExact
<1>1. ASSUME StreamsInv, ClientsInv PROVE CursorExact
  <2>1. ASSUME NEW k \in DOMAIN data, NEW g \in DOMAIN data[k].groups,
               NEW i \in DOMAIN data[k].ids, Before(start[<<k, g>>], data[k].ids[i])
        PROVE  data[k].ids[i] \in given[<<k, g>>]
                 <=> ~Before(data[k].groups[g].last, data[k].ids[i])
    <3>1. HasGroup(data, k, g) /\ k \in Keys /\ g \in Groups
      BY <1>1, GroupType DEF HasGroup, StreamsInv
    <3>2. PlaceInv(data, k, g, start[<<k, g>>], given[<<k, g>>], owed[<<k, g>>])
      BY <1>1, <3>1, KnownHere
    <3>3. data[k].ids[i] \in ToSet(data[k].ids)
      BY DEF ToSet
    <3>. QED
      BY <2>1, <3>1, <3>2, <3>3 DEF PlaceInv, CursorFits
  <2>. QED
    BY <2>1 DEF CursorExact
<1>. QED
  BY <1>1, ClientsAlways, PTL

\* What is pending in a group is what its consumers were given and have not
\* acknowledged, and each of those consumers exists (Group.pending, XACK,
\* XGROUP DELCONSUMER): no other command takes an entry off a list.
THEOREM PendingStays == Spec => []PendingUntilAcked
<1>1. ASSUME StreamsInv, ClientsInv PROVE PendingUntilAcked
  <2>1. ASSUME NEW k \in DOMAIN data, NEW g \in DOMAIN data[k].groups
        PROVE  /\ {<<i, data[k].groups[g].pel[i].consumer>> : i \in DOMAIN data[k].groups[g].pel}
                    = owed[<<k, g>>]
               /\ \A o \in owed[<<k, g>>] : o[2] \in DOMAIN data[k].groups[g].consumers
    <3>. DEFINE x == data[k].groups[g]
    <3>1. HasGroup(data, k, g) /\ k \in Keys /\ g \in Groups
      BY <1>1, GroupType DEF HasGroup, StreamsInv
    <3>2. owed[<<k, g>>] = OwnersOf(x)
      BY <1>1, <3>1, KnownGroup DEF StreamsInv
    <3>3. OwnedInTime(x)
      BY <1>1 DEF StreamsInv, InTime
    <3>. HIDE DEF x
    <3>4. ASSUME NEW o \in OwnersOf(x) PROVE o[2] \in DOMAIN x.consumers
      <4>1. PICK i \in DOMAIN x.pel : o = <<i, x.pel[i].consumer>>
        BY <3>4 DEF OwnersOf
      <4>. QED
        BY <3>3, <4>1 DEF OwnedInTime
    <3>. QED
      BY <3>2, <3>4 DEF OwnersOf, x
  <2>. QED
    BY <2>1 DEF PendingUntilAcked
<1>. QED
  BY <1>1, ClientsAlways, PTL

=============================================================================
