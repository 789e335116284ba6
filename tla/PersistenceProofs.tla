--------------------------- MODULE PersistenceProofs ---------------------------
(***************************************************************************)
(* The store and its log, for every number of keys and values, every LRU   *)
(* limit and every length of the log: the tracker lists each key with data *)
(* exactly once, a running server leaves no deadline behind without its    *)
(* key, and the log rebuilds what clients can see.  And the bytes of the   *)
(* log, for every set of files and records: what was logged reads back, of *)
(* a file that a crash cut short all that is there reads back, and the     *)
(* file is cut back to that before anything is appended.                   *)
(***************************************************************************)
EXTENDS Persistence, AofFraming, FiniteSetTheorems, SequenceTheorems, TLAPS

-----------------------------------------------------------------------------
(***************************************************************************)
(* The folds of the model as sequences of intermediate results.            *)
(***************************************************************************)
\* One more element chosen, one more record redone.
ChooseStep(t, e, S) == IF e \in S THEN Append(t, e) ELSE t
RedoStep(r, record, e) == Redo(r, record)

Choice == INSTANCE FoldTheorems WITH Op <- ChooseStep
Redone == INSTANCE FoldTheorems WITH Op <- RedoStep

\* f tells what is chosen from every prefix.
Chooses(f, s, S, len) ==
  /\ f[0] = <<>>
  /\ \A n \in 1..len : f[n] = IF s[n] \in S THEN Append(f[n - 1], s[n]) ELSE f[n - 1]
  /\ Chosen(s, S) = f[len]

\* There is such an f for every sequence.
LEMMA ChosenSteps ==
  ASSUME NEW s, NEW S, NEW len \in Nat, DOMAIN s = 1..len
  PROVE  \E f : Chooses(f, s, S, len)
<1>. DEFINE it == CHOOSE it : Choice!IsFold(it, <<>>, s, S, len)
<1>1. Choice!IsFold(it, <<>>, s, S, len)
  BY Choice!FoldExists
<1>2. Chosen(s, S) = it[1..len]
  BY DEF Chosen, FoldLeft, MapThenFoldSet, Max, Choice!IsFold, Choice!Step, Choice!Max,
         ChooseStep
<1>. HIDE DEF it
<1>3. PICK f : Choice!AreResults(f, <<>>, s, S, len) /\ f[len] = it[1..len]
  BY <1>1, Choice!FoldSteps
<1>. QED
  BY <1>2, <1>3 DEF Choice!AreResults, ChooseStep, Chooses

\* What recover_from_aof makes of more records, from any point of a replay.
Rolled(r, records) == FoldLeft(Redo, r, records)

\* f tells the replay after every record.
Follows(f, r, records, len) ==
  /\ f[0] = r
  /\ \A n \in 1..len : f[n] = Redo(f[n - 1], records[n])
  /\ Rolled(r, records) = f[len]

\* There is such an f for every sequence of records.
LEMMA RolledSteps ==
  ASSUME NEW r, NEW records, NEW len \in Nat, DOMAIN records = 1..len
  PROVE  \E f : Follows(f, r, records, len)
<1>. DEFINE it == CHOOSE it : Redone!IsFold(it, r, records, 0, len)
<1>1. Redone!IsFold(it, r, records, 0, len)
  BY Redone!FoldExists
<1>2. Rolled(r, records) = it[1..len]
  BY DEF Rolled, FoldLeft, MapThenFoldSet, Max, Redone!IsFold, Redone!Step, Redone!Max,
         RedoStep
<1>. HIDE DEF it
<1>3. PICK f : Redone!AreResults(f, r, records, 0, len) /\ f[len] = it[1..len]
  BY <1>1, Redone!FoldSteps
<1>. QED
  BY <1>2, <1>3 DEF Redone!AreResults, RedoStep, Follows

\* Two sequences of results that start alike and go on alike are alike.
LEMMA SameResults ==
  ASSUME NEW f, NEW g, NEW len \in Nat, f[0] = g[0],
         \A n \in 1..len : f[n - 1] = g[n - 1] => f[n] = g[n]
  PROVE  f[len] = g[len]
<1>. DEFINE S == {n \in 0..len : f[n] = g[n]}
<1>1. 0 \in S
  OBVIOUS
<1>2. \A n \in 1..len : n - 1 \in S => n \in S
  OBVIOUS
<1>. HIDE DEF S
<1>3. \A n \in 0..len : n \in S
  BY <1>1, <1>2, Redone!UpTo
<1>. QED
  BY <1>3 DEF S

\* If f tells the replay after every record, it tells it after the last.
LEMMA RolledBy ==
  ASSUME NEW len \in Nat, NEW records, DOMAIN records = 1..len, NEW f,
         \A n \in 1..len : f[n] = Redo(f[n - 1], records[n])
  PROVE  Rolled(f[0], records) = f[len]
<1>. DEFINE r == f[0]
<1>0. \E g : /\ g[0] = r
             /\ \A n \in 1..len : g[n] = Redo(g[n - 1], records[n])
             /\ Rolled(r, records) = g[len]
  <2>. HIDE DEF r
  <2>. QED
    BY RolledSteps DEF Follows
<1>1. PICK g : /\ g[0] = f[0]
               /\ \A n \in 1..len : g[n] = Redo(g[n - 1], records[n])
               /\ Rolled(f[0], records) = g[len]
  BY <1>0
<1>2. \A n \in 1..len : f[n - 1] = g[n - 1] => f[n] = g[n]
  BY <1>1
<1>3. f[len] = g[len]
  BY <1>1, <1>2, SameResults
<1>. QED
  BY <1>1, <1>3

\* Records are replayed one after the other: first these, then those.
LEMMA RolledConcat ==
  ASSUME NEW r, NEW X, NEW s \in Seq(X), NEW t \in Seq(X)
  PROVE  Rolled(r, s \o t) = Rolled(Rolled(r, s), t)
<1>. DEFINE m == Len(s)
            p == Len(t)
            u == s \o t
<1>1. m \in Nat /\ p \in Nat /\ m + p \in Nat
  OBVIOUS
<1>2. DOMAIN s = 1..m /\ DOMAIN t = 1..p /\ DOMAIN u = 1..(m + p)
  OBVIOUS
<1>3. /\ \A n \in 1..m : u[n] = s[n]
      /\ \A n \in 1..(m + p) : n > m => u[n] = t[n - m]
  OBVIOUS
<1>. HIDE DEF m, p, u
<1>a. PICK f : Follows(f, r, s, m)
  BY <1>1, <1>2, RolledSteps
<1>b. PICK g : Follows(g, f[m], t, p)
  BY <1>1, <1>2, RolledSteps
<1>4. /\ f[0] = r
      /\ \A n \in 1..m : f[n] = Redo(f[n - 1], s[n])
      /\ Rolled(r, s) = f[m]
  BY <1>a DEF Follows
<1>5. /\ g[0] = f[m]
      /\ \A n \in 1..p : g[n] = Redo(g[n - 1], t[n])
      /\ Rolled(f[m], t) = g[p]
  BY <1>b DEF Follows
<1>. DEFINE h == [n \in 0..(m + p) |-> IF n <= m THEN f[n] ELSE g[n - m]]
<1>6. h[0] = r /\ h[m + p] = g[p]
  <2>1. 0 \in 0..(m + p) /\ 0 <= m /\ m + p \in 0..(m + p)
    BY <1>1
  <2>2. CASE p = 0
    <3>1. m + p = m /\ m <= m
      BY <1>1, <2>2
    <3>. QED
      BY <1>4, <1>5, <2>1, <2>2, <3>1
  <2>3. CASE p # 0
    <3>1. ~(m + p <= m) /\ (m + p) - m = p
      BY <1>1, <2>3
    <3>. QED
      BY <1>4, <2>1, <3>1
  <2>. QED
    BY <2>2, <2>3
<1>7. ASSUME NEW n \in 1..(m + p) PROVE h[n] = Redo(h[n - 1], u[n])
  <2>1. n \in 0..(m + p) /\ n - 1 \in 0..(m + p)
    BY <1>1
  <2>2. CASE n <= m
    <3>1. n \in 1..m /\ n - 1 <= m
      BY <1>1, <2>2
    <3>. QED
      BY <1>3, <1>4, <2>1, <2>2, <3>1
  <2>3. CASE n = m + 1
    <3>1. n - 1 = m /\ n - 1 <= m /\ ~(n <= m) /\ n - m = 1 /\ 1 \in 1..p /\ n > m
      BY <1>1, <2>3
    <3>2. h[n - 1] = g[0] /\ h[n] = g[1] /\ u[n] = t[1]
      BY <1>3, <1>5, <2>1, <3>1
    <3>3. g[1] = Redo(g[1 - 1], t[1]) /\ 1 - 1 = 0
      BY <1>5, <3>1
    <3>. QED
      BY <3>2, <3>3
  <2>4. CASE n > m + 1
    <3>1. /\ ~(n <= m) /\ ~(n - 1 <= m) /\ n - m \in 1..p
          /\ (n - m) - 1 = (n - 1) - m /\ n > m
      BY <1>1, <2>4
    <3>2. h[n] = g[n - m] /\ h[n - 1] = g[(n - 1) - m] /\ u[n] = t[n - m]
      BY <1>3, <2>1, <3>1
    <3>3. g[n - m] = Redo(g[(n - m) - 1], t[n - m])
      BY <1>5, <3>1
    <3>. QED
      BY <3>1, <3>2, <3>3
  <2>. QED
    BY <1>1, <2>2, <2>3, <2>4
<1>. HIDE DEF h
<1>8. Rolled(h[0], u) = h[m + p]
  BY <1>1, <1>2, <1>7, RolledBy
<1>. QED
  BY <1>4, <1>5, <1>6, <1>8 DEF u

\* One record rolled forward is that record redone.
LEMMA RolledOne ==
  ASSUME NEW r, NEW record
  PROVE  Rolled(r, <<record>>) = Redo(r, record)
<1>1. DOMAIN <<record>> = 1..1 /\ 1 \in Nat /\ <<record>>[1] = record
  OBVIOUS
<1>2. PICK f : Follows(f, r, <<record>>, 1)
  BY <1>1, RolledSteps
<1>3. f[1] = Redo(f[1 - 1], <<record>>[1]) /\ 1 - 1 = 0
  BY <1>2 DEF Follows
<1>. QED
  BY <1>1, <1>2, <1>3 DEF Follows

-----------------------------------------------------------------------------
(***************************************************************************)
(* Sequences without repetition: the tracker, and orders of keys.          *)
(***************************************************************************)
NoRepeats(s) == \A i, j \in DOMAIN s : s[i] = s[j] => i = j

\* What is chosen from a sequence.
LEMMA ChosenFrom ==
  ASSUME NEW X, NEW s \in Seq(X), NEW S
  PROVE  /\ Chosen(s, S) \in Seq(X)
         /\ ToSet(Chosen(s, S)) = ToSet(s) \intersect S
         /\ NoRepeats(s) => NoRepeats(Chosen(s, S))
<1>. DEFINE len == Len(s)
<1>1. len \in Nat /\ DOMAIN s = 1..len
  OBVIOUS
<1>. HIDE DEF len
<1>a. PICK f : Chooses(f, s, S, len)
  BY <1>1, ChosenSteps
<1>2. /\ f[0] = <<>>
      /\ \A n \in 1..len : f[n] = IF s[n] \in S THEN Append(f[n - 1], s[n]) ELSE f[n - 1]
      /\ Chosen(s, S) = f[len]
  BY <1>a DEF Chooses
<1>. DEFINE Good(t, n) == /\ t \in Seq(X)
                          /\ \A i \in DOMAIN t : \E j \in 1..n : t[i] = s[j] /\ s[j] \in S
                          /\ \A j \in 1..n : s[j] \in S => \E i \in DOMAIN t : t[i] = s[j]
                          /\ NoRepeats(s) => NoRepeats(t)
            T == {n \in 0..len : Good(f[n], n)}
<1>3. 0 \in T
  <2>1. DOMAIN <<>> = {} /\ <<>> \in Seq(X) /\ 1..0 = {} /\ 0 \in 0..len
    BY <1>1
  <2>2. Good(<<>>, 0)
    BY <2>1 DEF NoRepeats
  <2>. QED
    BY <1>2, <2>1, <2>2
<1>4. ASSUME NEW n \in 1..len, n - 1 \in T PROVE n \in T
  <2>. DEFINE t == f[n - 1]
              u == Append(t, s[n])
  <2>1. n \in 1..len /\ n - 1 \in 0..len /\ n \in 0..len /\ n \in Nat /\ s[n] \in X
    BY <1>1
  <2>2. Good(t, n - 1)
    BY <1>4
  <2>3. CASE s[n] \notin S
    <3>1. f[n] = t
      BY <1>2, <2>3
    <3>2. \A j \in 1..n : j = n \/ j \in 1..(n - 1)
      BY <2>1
    <3>3. \A j \in 1..(n - 1) : j \in 1..n
      BY <2>1
    <3>4. Good(t, n)
      BY <2>2, <2>3, <3>2, <3>3
    <3>. QED
      BY <2>1, <3>1, <3>4
  <2>4. CASE s[n] \in S
    <3>1. f[n] = u
      BY <1>2, <2>4
    <3>2. /\ u \in Seq(X) /\ Len(t) \in Nat /\ DOMAIN t = 1..Len(t)
          /\ DOMAIN u = 1..(Len(t) + 1) /\ u[Len(t) + 1] = s[n]
          /\ \A i \in 1..Len(t) : u[i] = t[i]
      BY <2>1, <2>2
    <3>3. ASSUME NEW i \in DOMAIN u PROVE \E j \in 1..n : u[i] = s[j] /\ s[j] \in S
      <4>1. CASE i = Len(t) + 1
        BY <2>1, <2>4, <3>2, <4>1
      <4>2. CASE i \in 1..Len(t)
        <5>1. PICK j \in 1..(n - 1) : t[i] = s[j] /\ s[j] \in S
          BY <2>2, <3>2, <4>2
        <5>2. j \in 1..n /\ u[i] = t[i]
          BY <2>1, <3>2, <4>2
        <5>. QED
          BY <5>1, <5>2
      <4>3. i = Len(t) + 1 \/ i \in 1..Len(t)
        BY <3>2
      <4>. QED
        BY <4>1, <4>2, <4>3
    <3>4. ASSUME NEW j \in 1..n, s[j] \in S PROVE \E i \in DOMAIN u : u[i] = s[j]
      <4>1. CASE j = n
        <5>1. Len(t) + 1 \in DOMAIN u
          BY <3>2
        <5>. QED
          BY <3>2, <4>1, <5>1
      <4>2. CASE j # n
        <5>1. j \in 1..(n - 1)
          BY <2>1, <4>2
        <5>2. PICK i \in DOMAIN t : t[i] = s[j]
          BY <2>2, <3>4, <5>1
        <5>3. i \in DOMAIN u /\ u[i] = t[i]
          BY <3>2
        <5>. QED
          BY <5>2, <5>3
      <4>. QED
        BY <4>1, <4>2
    <3>5. ASSUME NoRepeats(s) PROVE NoRepeats(u)
      <4>1. ASSUME NEW i \in 1..Len(t) PROVE u[i] # u[Len(t) + 1]
        <5>1. PICK j \in 1..(n - 1) : t[i] = s[j]
          BY <2>2, <3>2
        <5>2. j \in DOMAIN s /\ n \in DOMAIN s /\ j # n
          BY <1>1, <2>1
        <5>. QED
          BY <3>2, <3>5, <5>1, <5>2 DEF NoRepeats
      <4>2. ASSUME NEW i \in 1..Len(t), NEW j \in 1..Len(t), u[i] = u[j] PROVE i = j
        BY <2>2, <3>2, <3>5, <4>2 DEF NoRepeats
      <4>3. ASSUME NEW i \in DOMAIN u, NEW j \in DOMAIN u, u[i] = u[j] PROVE i = j
        <5>1. i \in 1..Len(t) \/ i = Len(t) + 1
          BY <3>2
        <5>2. j \in 1..Len(t) \/ j = Len(t) + 1
          BY <3>2
        <5>. QED
          BY <4>1, <4>2, <4>3, <5>1, <5>2
      <4>. QED
        BY <4>3 DEF NoRepeats
    <3>6. Good(u, n)
      BY <3>2, <3>3, <3>4, <3>5
    <3>. QED
      BY <2>1, <3>1, <3>6
  <2>. QED
    BY <2>3, <2>4
<1>. HIDE DEF T
<1>5. \A n \in 0..len : n \in T
  BY <1>1, <1>3, <1>4, Redone!UpTo
<1>6. len \in 0..len
  BY <1>1
<1>7. len \in T
  BY <1>5, <1>6
<1>. DEFINE c == Chosen(s, S)
<1>8. Good(c, len)
  BY <1>2, <1>7 DEF T
<1>. HIDE DEF c
<1>9. ToSet(c) = ToSet(s) \intersect S
  <2>1. \A x \in ToSet(c) : x \in ToSet(s) /\ x \in S
    BY <1>1, <1>8 DEF ToSet
  <2>2. \A x \in ToSet(s) : x \in S => x \in ToSet(c)
    BY <1>1, <1>8 DEF ToSet
  <2>. QED
    BY <2>1, <2>2
<1>. QED
  BY <1>8, <1>9 DEF c

\* A sequence without repetition is as long as the set of its elements.
LEMMA LengthIs ==
  ASSUME NEW X, NEW s \in Seq(X), NoRepeats(s)
  PROVE  /\ IsFiniteSet(ToSet(s))
         /\ Len(s) = Cardinality(ToSet(s))
<1>1. /\ Len(s) \in Nat /\ DOMAIN s = 1..Len(s) /\ s \in [1..Len(s) -> X]
  OBVIOUS
<1>2. s \in Bijection(1..Len(s), ToSet(s))
  BY <1>1 DEF NoRepeats, ToSet, Bijection, Injection, Surjection, IsInjective
<1>3. ExistsBijection(1..Len(s), ToSet(s))
  BY <1>2 DEF ExistsBijection
<1>4. IsFiniteSet(1..Len(s)) /\ Cardinality(1..Len(s)) = Len(s)
  BY <1>1, FS_Interval
<1>. QED
  BY <1>3, <1>4, FS_Bijection

\* SetToSeqs: the orders in which a set can be listed.
LEMMA OrderOf ==
  ASSUME NEW S, IsFiniteSet(S), NEW order \in SetToSeqs(S)
  PROVE  /\ order \in Seq(S)
         /\ NoRepeats(order)
         /\ ToSet(order) = S
         /\ DOMAIN order = 1..Cardinality(S) /\ Cardinality(S) \in Nat
<1>. DEFINE n == Cardinality(S)
<1>1. n \in Nat
  BY FS_CardinalityType
<1>2. /\ order \in [1..n -> S]
      /\ \A i, j \in 1..n : i # j => order[i] # order[j]
  BY DEF SetToSeqs
<1>3. order \in Injection(1..n, S)
  BY <1>2 DEF Injection, IsInjective
<1>4. IsFiniteSet(1..n) /\ Cardinality(1..n) = n
  BY <1>1, FS_Interval
<1>5. order \in Surjection(1..n, S)
  <2>1. Cardinality(1..n) = Cardinality(S)
    BY <1>4
  <2>. HIDE DEF n
  <2>. QED
    BY <1>3, <2>1, FS_Injection
<1>6. \A x \in S : \E i \in 1..n : order[i] = x
  BY <1>5 DEF Surjection
<1>. HIDE DEF n
<1>7. DOMAIN order = 1..n /\ order \in Seq(S)
  BY <1>1, <1>2
<1>8. NoRepeats(order) /\ ToSet(order) = S
  BY <1>2, <1>6, <1>7 DEF NoRepeats, ToSet
<1>. QED
  BY <1>1, <1>7, <1>8 DEF n

\* Warmed: the key is the last one, once.
LEMMA WarmedIs ==
  ASSUME NEW lru \in Seq(Keys), NoRepeats(lru), NEW k \in Keys
  PROVE  /\ Warmed(lru, k) \in Seq(Keys)
         /\ NoRepeats(Warmed(lru, k))
         /\ ToSet(Warmed(lru, k)) = ToSet(lru) \union {k}
         /\ Len(Warmed(lru, k)) \in Nat \ {0}
         /\ Warmed(lru, k)[Len(Warmed(lru, k))] = k
<1>. DEFINE c == Chosen(lru, Keys \ {k})
            w == Append(c, k)
<1>1. /\ c \in Seq(Keys)
      /\ ToSet(c) = ToSet(lru) \intersect (Keys \ {k})
      /\ NoRepeats(c)
  BY ChosenFrom
<1>2. w = Warmed(lru, k)
  BY DEF Warmed
<1>3. ToSet(lru) \subseteq Keys
  BY DEF ToSet
<1>. HIDE DEF c
<1>4. /\ w \in Seq(Keys) /\ Len(c) \in Nat /\ Len(w) = Len(c) + 1
      /\ DOMAIN c = 1..Len(c) /\ DOMAIN w = 1..(Len(c) + 1)
      /\ w[Len(c) + 1] = k /\ \A i \in 1..Len(c) : w[i] = c[i]
  BY <1>1
<1>5. \A i \in 1..Len(c) : c[i] # k
  BY <1>1, <1>4 DEF ToSet
<1>. HIDE DEF w
<1>6. \A i \in DOMAIN w : i \in 1..Len(c) \/ i = Len(c) + 1
  BY <1>4
<1>7. NoRepeats(w)
  BY <1>1, <1>4, <1>5, <1>6 DEF NoRepeats
<1>8. ToSet(w) = ToSet(c) \union {k}
  <2>1. \A i \in 1..Len(c) : i \in DOMAIN w
    BY <1>4
  <2>2. Len(c) + 1 \in DOMAIN w
    BY <1>4
  <2>. QED
    BY <1>4, <1>6, <2>1, <2>2 DEF ToSet
<1>9. ToSet(w) = ToSet(lru) \union {k}
  BY <1>1, <1>3, <1>8
<1>. QED
  BY <1>2, <1>4, <1>7, <1>9

-----------------------------------------------------------------------------
(***************************************************************************)
(* What a store is, and what _touch_write does to it.                      *)
(***************************************************************************)
IsContents(c) ==
  \/ \E v \in Values : c = String(v)
  \/ \E s \in Seq(Values) : s # <<>> /\ c = List(s)

\* The keys S may hold anything.
StoreType(s, S) ==
  /\ s = [data |-> s.data, expires |-> s.expires, lru |-> s.lru]
  /\ DOMAIN s.data \subseteq Keys
  /\ \A k \in DOMAIN s.data \ S : IsContents(s.data[k])
  /\ DOMAIN s.expires \subseteq Keys
  /\ \A k \in DOMAIN s.expires : s.expires[k] \in Nat

LruType(s) ==
  /\ s.lru \in Seq(Keys)
  /\ NoRepeats(s.lru)

StoreOKBut(s, S) ==
  /\ StoreType(s, S)
  /\ LruType(s)
  /\ ToSet(s.lru) = DOMAIN s.data
  /\ Len(s.lru) <= LruMax

StoreOK(s) == StoreOKBut(s, {})

\* Two functions say the same of k.
Same(f, g, k) == (k \in DOMAIN f <=> k \in DOMAIN g) /\ (k \in DOMAIN f => f[k] = g[k])

\* From s to t, k keeps its value and its deadline, or loses both.
Kept(s, t, k) == Same(s.data, t.data, k) /\ Same(s.expires, t.expires, k)
Gone(t, k) == k \notin DOMAIN t.data /\ k \notin DOMAIN t.expires

Loses(s, t, E) == \A k \in Keys : IF k \in E THEN Gone(t, k) ELSE Kept(s, t, k)

Deletes(names) == [i \in DOMAIN names |-> Deleted(names[i])]

\* g is f without S.
Lacks(g, f, S) ==
  /\ DOMAIN g = DOMAIN f \ S
  /\ \A k \in DOMAIN g : g[k] = f[k]

\* Without takes S away, and nothing else.
LEMMA WithoutIs ==
  ASSUME NEW f, NEW S
  PROVE  Lacks(Without(f, S), f, S)
BY DEF Without, Restrict, Lacks

\* g is f with v for k.
Gains(g, f, k, v) ==
  /\ DOMAIN g = DOMAIN f \union {k}
  /\ g[k] = v
  /\ \A j \in DOMAIN f : j # k => g[j] = f[j]

\* With puts v there, and changes nothing else.
LEMMA WithIs ==
  ASSUME NEW f, NEW k, NEW v
  PROVE  Gains(With(f, k, v), f, k, v)
BY DEF With, Gains

\* Drop takes the data and the deadlines of S away, and keeps the rest.
LEMMA DropIs ==
  ASSUME NEW s, NEW S
  PROVE  /\ Drop(s, S).data = Without(s.data, S)
         /\ Drop(s, S).expires = Without(s.expires, S)
         /\ Loses(s, Drop(s, S), S)
<1>1. /\ Drop(s, S).data = Without(s.data, S)
      /\ Drop(s, S).expires = Without(s.expires, S)
  BY DEF Drop
<1>2. Lacks(Drop(s, S).data, s.data, S) /\ Lacks(Drop(s, S).expires, s.expires, S)
  BY <1>1, WithoutIs
<1>3. Loses(s, Drop(s, S), S)
  BY <1>2 DEF Lacks, Loses, Gone, Kept, Same
<1>. QED
  BY <1>1, <1>3

\* Untrack takes S from the tracker, and repeats no key.
LEMMA UntrackIs ==
  ASSUME NEW s, NEW T, StoreType(s, T), LruType(s), NEW S
  PROVE  /\ Untrack(s, S).lru \in Seq(Keys)
         /\ NoRepeats(Untrack(s, S).lru)
         /\ ToSet(Untrack(s, S).lru) = ToSet(s.lru) \ S
<1>1. Untrack(s, S).lru = Chosen(s.lru, Keys \ S)
  BY DEF Untrack, StoreType
<1>2. ToSet(s.lru) \subseteq Keys
  BY DEF LruType, ToSet
<1>3. ToSet(s.lru) \intersect (Keys \ S) = ToSet(s.lru) \ S
  BY <1>2
<1>. QED
  BY <1>1, <1>3, ChosenFrom DEF LruType

\* With fewer keys, the tracker is not longer.
LEMMA NotLonger ==
  ASSUME NEW s \in Seq(Keys), NoRepeats(s), NEW t \in Seq(Keys), NoRepeats(t),
         ToSet(t) \subseteq ToSet(s)
  PROVE  Len(t) <= Len(s)
<1>1. /\ IsFiniteSet(ToSet(s)) /\ Len(s) = Cardinality(ToSet(s))
      /\ Len(t) = Cardinality(ToSet(t))
  BY LengthIs
<1>2. Cardinality(ToSet(t)) <= Cardinality(ToSet(s))
  BY <1>1, FS_Subset
<1>. QED
  BY <1>1, <1>2

\* From s to t the values of the keys T go, and the tracker forgets them.
Forgets(s, t, T) ==
  /\ t = [data |-> t.data, expires |-> t.expires, lru |-> t.lru]
  /\ Lacks(t.data, s.data, T)
  /\ \A k \in DOMAIN t.expires : k \in DOMAIN s.expires /\ t.expires[k] = s.expires[k]
  /\ t.lru = Untrack(s, T).lru

\* A store that forgets T is in order for all keys but S, without T.
LEMMA ForgetKeeps ==
  ASSUME NEW s, NEW S, StoreOKBut(s, S), NEW T, NEW t, Forgets(s, t, T)
  PROVE  StoreOKBut(t, S \ T)
<1>1. /\ StoreType(s, S) /\ LruType(s) /\ ToSet(s.lru) = DOMAIN s.data
      /\ Len(s.lru) <= LruMax /\ Len(s.lru) \in Nat
  BY DEF StoreOKBut, LruType
<1>3. /\ DOMAIN t.data = DOMAIN s.data \ T
      /\ \A k \in DOMAIN t.data : t.data[k] = s.data[k]
  BY DEF Forgets, Lacks
<1>4. StoreType(t, S \ T)
  BY <1>1, <1>3 DEF StoreType, Forgets
<1>5. /\ t.lru \in Seq(Keys) /\ NoRepeats(t.lru) /\ ToSet(t.lru) = ToSet(s.lru) \ T
  BY <1>1, UntrackIs DEF Forgets
<1>6. Len(t.lru) <= Len(s.lru) /\ Len(t.lru) \in Nat
  BY <1>1, <1>5, NotLonger DEF LruType
<1>7. Len(t.lru) <= LruMax
  BY <1>1, <1>6, KeyspaceAssumption
<1>. QED
  BY <1>1, <1>3, <1>4, <1>5, <1>7 DEF StoreOKBut, LruType

\* Drop forgets.
LEMMA DropKeeps ==
  ASSUME NEW s, NEW S, StoreOKBut(s, S), NEW T
  PROVE  StoreOKBut(Drop(s, T), S \ T)
<1>1. /\ Drop(s, T) = [data |-> Drop(s, T).data, expires |-> Drop(s, T).expires,
                       lru |-> Drop(s, T).lru]
      /\ Drop(s, T).lru = Untrack(s, T).lru
  BY DEF Drop
<1>2. Lacks(Drop(s, T).data, s.data, T) /\ Lacks(Drop(s, T).expires, s.expires, T)
  BY DropIs, WithoutIs
<1>3. Forgets(s, Drop(s, T), T)
  BY <1>1, <1>2 DEF Forgets, Lacks
<1>. QED
  BY <1>3, ForgetKeeps

\* A store without data is in order.
LEMMA EmptyOK == StoreOK(Empty)
<1>. DEFINE none == [k \in {} |-> 0]
<1>1. DOMAIN none = {} /\ <<>> \in Seq(Keys) /\ DOMAIN <<>> = {} /\ Len(<<>>) = 0
  OBVIOUS
<1>2. Empty = [data |-> none, expires |-> none, lru |-> <<>>]
  BY DEF Empty
<1>. HIDE DEF none
<1>3. Empty.data = none /\ Empty.expires = none /\ Empty.lru = <<>>
  BY <1>2
<1>4. StoreType(Empty, {})
  BY <1>1, <1>2, <1>3 DEF StoreType
<1>5. LruType(Empty) /\ ToSet(Empty.lru) = DOMAIN Empty.data /\ Len(Empty.lru) <= LruMax
  BY <1>1, <1>3, KeyspaceAssumption DEF LruType, NoRepeats, ToSet
<1>. QED
  BY <1>4, <1>5 DEF StoreOK, StoreOKBut

\* A key is touched right after it has been given a value: the result is a
\* store again, and what was evicted, never that key, is logged as deleted.
Touches(s, t, k, names, S) ==
  /\ names \in Seq(Keys) /\ k \notin ToSet(names)
  /\ t = [st |-> t.st, out |-> Deletes(names)]
  /\ StoreOKBut(t.st, S)
  /\ Loses(s, t.st, ToSet(names))

\* A write to k evicts other keys, the coldest, and logs their deletions.
LEMMA TouchKeeps ==
  ASSUME NEW s, NEW S, StoreType(s, S), LruType(s), NEW k \in Keys,
         DOMAIN s.data = ToSet(s.lru) \union {k}
  PROVE  \E names : Touches(s, TouchWrite(s, k), k, names, S)
<1>. DEFINE order  == Warmed(s.lru, k)
            n      == Len(order)
            excess == IF n > LruMax THEN n - LruMax ELSE 0
            cold   == SubSeq(order, 1, excess)
            warm   == SubSeq(order, excess + 1, n)
            names  == Chosen(cold, DOMAIN s.data)
            t      == TouchWrite(s, k)
<1>1. /\ order \in Seq(Keys) /\ NoRepeats(order) /\ n \in Nat /\ n > 0
      /\ ToSet(order) = DOMAIN s.data /\ order[n] = k /\ DOMAIN order = 1..n
  <2>1. s.lru \in Seq(Keys) /\ NoRepeats(s.lru)
    BY DEF LruType
  <2>2. /\ order \in Seq(Keys) /\ NoRepeats(order)
        /\ ToSet(order) = ToSet(s.lru) \union {k}
        /\ n \in Nat \ {0} /\ order[n] = k
    BY <2>1, WarmedIs
  <2>. HIDE DEF order
  <2>3. DOMAIN order = 1..n
    BY <2>2
  <2>. HIDE DEF n
  <2>. QED
    BY <2>2, <2>3
<1>2. /\ t.st.data = Without(s.data, ToSet(names))
      /\ t.st.expires = Without(s.expires, ToSet(names))
      /\ t.st = [data |-> t.st.data, expires |-> t.st.expires, lru |-> warm]
      /\ t = [st |-> t.st, out |-> Deletes(names)]
  BY DEF TouchWrite, Deletes
<1>. HIDE DEF order, n, names, t
<1>3. excess \in Nat /\ excess < n /\ n - excess <= LruMax /\ n - excess \in Nat
  BY <1>1, KeyspaceAssumption
<1>. HIDE DEF excess
<1>4. /\ cold \in Seq(Keys) /\ DOMAIN cold = 1..excess
      /\ \A i \in 1..excess : cold[i] = order[i] /\ i \in 1..n
  BY <1>1, <1>3
<1>5. /\ warm \in Seq(Keys) /\ DOMAIN warm = 1..(n - excess) /\ Len(warm) = n - excess
      /\ \A i \in 1..(n - excess) : warm[i] = order[excess + i] /\ excess + i \in 1..n
  <2>1. /\ excess + 1 \in Nat /\ n - (excess + 1) + 1 = n - excess
        /\ \A i \in (excess + 1)..n : i \in 1..n
    BY <1>1, <1>3
  <2>2. \A i \in (excess + 1)..n : order[i] \in Keys
    BY <1>1, <2>1
  <2>3. /\ warm \in Seq(Keys)
        /\ Len(warm) = IF excess + 1 <= n THEN n - (excess + 1) + 1 ELSE 0
        /\ \A i \in 1..(n - (excess + 1) + 1) : warm[i] = order[(excess + 1) + i - 1]
    BY <1>1, <1>3, <2>1, <2>2, SubSeqProperties
  <2>4. \A i \in 1..(n - excess) : (excess + 1) + i - 1 = excess + i /\ excess + i \in 1..n
    BY <1>1, <1>3
  <2>. QED
    BY <1>3, <2>1, <2>3, <2>4
<1>. HIDE DEF cold, warm
<1>6. NoRepeats(warm)
  <2>1. ASSUME NEW i \in 1..(n - excess), NEW j \in 1..(n - excess), warm[i] = warm[j]
        PROVE  i = j
    <3>1. /\ order[excess + i] = order[excess + j]
          /\ excess + i \in DOMAIN order /\ excess + j \in DOMAIN order
      BY <1>1, <1>5, <2>1
    <3>2. excess + i = excess + j
      BY <1>1, <3>1 DEF NoRepeats
    <3>. QED
      BY <1>3, <3>2
  <2>. QED
    BY <1>5, <2>1 DEF NoRepeats
<1>7. ToSet(warm) = ToSet(order) \ ToSet(cold)
  <2>1. ASSUME NEW x \in ToSet(warm) PROVE x \in ToSet(order) /\ x \notin ToSet(cold)
    <3>1. PICK i \in 1..(n - excess) : x = warm[i]
      BY <1>5 DEF ToSet
    <3>2. x = order[excess + i] /\ excess + i \in 1..n
      BY <1>5, <3>1
    <3>3. ASSUME NEW j \in 1..excess PROVE cold[j] # x
      <4>1. j # excess + i
        BY <1>3, <3>1
      <4>. QED
        BY <1>1, <1>4, <3>2, <4>1 DEF NoRepeats
    <3>. QED
      BY <1>1, <1>4, <3>2, <3>3 DEF ToSet
  <2>2. ASSUME NEW x \in ToSet(order), x \notin ToSet(cold) PROVE x \in ToSet(warm)
    <3>1. PICK i \in 1..n : x = order[i]
      BY <1>1 DEF ToSet
    <3>2. i \notin 1..excess
      BY <1>4, <2>2, <3>1 DEF ToSet
    <3>3. i - excess \in 1..(n - excess) /\ excess + (i - excess) = i
      BY <1>1, <1>3, <3>2
    <3>4. warm[i - excess] = x
      BY <1>5, <3>1, <3>3
    <3>. QED
      BY <1>5, <3>3, <3>4 DEF ToSet
  <2>. QED
    BY <2>1, <2>2
<1>8. k \in ToSet(warm)
  <2>1. n - excess \in 1..(n - excess) /\ excess + (n - excess) = n
    BY <1>1, <1>3
  <2>2. warm[n - excess] = k
    BY <1>1, <1>5, <2>1
  <2>. QED
    BY <1>5, <2>1, <2>2 DEF ToSet
<1>9. ToSet(cold) \subseteq ToSet(order)
  BY <1>1, <1>4 DEF ToSet
<1>10. names \in Seq(Keys) /\ ToSet(names) = ToSet(cold)
  <2>1. names \in Seq(Keys) /\ ToSet(names) = ToSet(cold) \intersect DOMAIN s.data
    BY <1>4, ChosenFrom DEF names
  <2>. QED
    BY <1>1, <1>9, <2>1
<1>a. /\ Lacks(t.st.data, s.data, ToSet(names))
      /\ Lacks(t.st.expires, s.expires, ToSet(names))
  BY <1>2, WithoutIs
<1>11. /\ DOMAIN t.st.data = DOMAIN s.data \ ToSet(names)
       /\ \A j \in DOMAIN t.st.data : t.st.data[j] = s.data[j]
       /\ DOMAIN t.st.expires = DOMAIN s.expires \ ToSet(names)
       /\ \A j \in DOMAIN t.st.expires : t.st.expires[j] = s.expires[j]
  BY <1>a DEF Lacks
<1>12. t.st.lru = warm
  BY <1>2
<1>13. StoreType(t.st, S)
  BY <1>2, <1>11, <1>12 DEF StoreType
<1>14. StoreOKBut(t.st, S)
  BY <1>1, <1>3, <1>5, <1>6, <1>7, <1>10, <1>11, <1>12, <1>13 DEF StoreOKBut, LruType
<1>15. Loses(s, t.st, ToSet(names))
  BY <1>11 DEF Loses, Gone, Kept, Same
<1>16. k \notin ToSet(names)
  BY <1>7, <1>8, <1>10
<1>17. Touches(s, t, k, names, S)
  BY <1>2, <1>10, <1>14, <1>15, <1>16 DEF Touches
<1>. QED
  BY <1>17 DEF t

-----------------------------------------------------------------------------
(***************************************************************************)
(* What commands and the replay do to one key.                             *)
(***************************************************************************)
Gave(s, k, c) == [s EXCEPT !.data = With(@, k, c)]
GaveAnew(s, k, c) == [s EXCEPT !.data = With(@, k, c), !.expires = Without(@, {k})]
Popped(s, k, side) == [s EXCEPT !.data[k].items = Took(@, side)]

\* k has a new value, and is not tracked yet.
Ready(s, k, S) ==
  /\ StoreType(s, S) /\ LruType(s)
  /\ DOMAIN s.data = ToSet(s.lru) \union {k}

\* Every key but k is in t as it was in s.
Elsewhere(s, t, k) == \A j \in Keys \ {k} : Kept(s, t, j)

\* k has the contents c.
Holding(s, k, c) == k \in DOMAIN s.data /\ s.data[k] = c

\* Contents are a string of one value or a list with some.
LEMMA ContentsForms ==
  ASSUME NEW c, IsContents(c)
  PROVE  /\ c = [kind |-> c.kind, items |-> c.items]
         /\ c.items \in Seq(Values) /\ c.items # <<>>
         /\ \/ c.kind = "list"
            \/ c.kind = "string" /\ \E v \in Values : c.items = <<v>>
<1>1. CASE \E v \in Values : c = String(v)
  <2>1. PICK v \in Values : c = String(v)
    BY <1>1
  <2>2. c.kind = "string" /\ c.items = <<v>> /\ c = [kind |-> c.kind, items |-> c.items]
    BY <2>1 DEF String
  <2>3. <<v>> \in Seq(Values) /\ <<v>> # <<>>
    OBVIOUS
  <2>. QED
    BY <2>2, <2>3
<1>2. CASE \E s \in Seq(Values) : s # <<>> /\ c = List(s)
  BY <1>2 DEF List
<1>. QED
  BY <1>1, <1>2 DEF IsContents

\* A key gets contents and keeps its deadline.
LEMMA GaveIs ==
  ASSUME NEW s, StoreOK(s), NEW k \in Keys, NEW c, IsContents(c)
  PROVE  /\ Ready(Gave(s, k, c), k, {})
         /\ Holding(Gave(s, k, c), k, c)
         /\ Elsewhere(s, Gave(s, k, c), k)
         /\ Same(s.expires, Gave(s, k, c).expires, k)
<1>. DEFINE t == Gave(s, k, c)
<1>1. StoreType(s, {}) /\ LruType(s) /\ ToSet(s.lru) = DOMAIN s.data
  BY DEF StoreOK, StoreOKBut
<1>2. t = [data |-> With(s.data, k, c), expires |-> s.expires, lru |-> s.lru]
  BY <1>1 DEF Gave, StoreType
<1>. HIDE DEF t
<1>3. /\ t = [data |-> t.data, expires |-> t.expires, lru |-> t.lru]
      /\ t.data = With(s.data, k, c) /\ t.expires = s.expires /\ t.lru = s.lru
  BY <1>2
<1>a. Gains(t.data, s.data, k, c)
  BY <1>3, WithIs
<1>4. /\ DOMAIN t.data = DOMAIN s.data \union {k} /\ t.data[k] = c
      /\ \A j \in DOMAIN s.data : j # k => t.data[j] = s.data[j]
  BY <1>a DEF Gains
<1>5. StoreType(t, {})
  BY <1>1, <1>3, <1>4 DEF StoreType
<1>6. Ready(t, k, {})
  BY <1>1, <1>3, <1>4, <1>5 DEF Ready, LruType
<1>7. Holding(t, k, c) /\ Elsewhere(s, t, k) /\ Same(s.expires, t.expires, k)
  BY <1>3, <1>4 DEF Holding, Elsewhere, Kept, Same
<1>. QED
  BY <1>6, <1>7 DEF t

\* A key gets contents and loses its deadline.
LEMMA GaveAnewIs ==
  ASSUME NEW s, StoreOK(s), NEW k \in Keys, NEW c, IsContents(c)
  PROVE  /\ Ready(GaveAnew(s, k, c), k, {})
         /\ Holding(GaveAnew(s, k, c), k, c)
         /\ Elsewhere(s, GaveAnew(s, k, c), k)
         /\ k \notin DOMAIN GaveAnew(s, k, c).expires
<1>. DEFINE t == GaveAnew(s, k, c)
<1>1. StoreType(s, {}) /\ LruType(s) /\ ToSet(s.lru) = DOMAIN s.data
  BY DEF StoreOK, StoreOKBut
<1>2. t = [data |-> With(s.data, k, c), expires |-> Without(s.expires, {k}), lru |-> s.lru]
  <2>1. s = [data |-> s.data, expires |-> s.expires, lru |-> s.lru]
    BY <1>1 DEF StoreType
  <2>2. /\ DOMAIN t = DOMAIN s /\ t.data = With(s.data, k, c)
        /\ t.expires = Without(s.expires, {k}) /\ t.lru = s.lru
    BY <2>1 DEF GaveAnew
  <2>3. DOMAIN s = {"data", "expires", "lru"}
    BY <2>1
  <2>4. t = [x \in {"data", "expires", "lru"} |-> t[x]]
    BY <2>1, <2>3 DEF GaveAnew
  <2>. HIDE DEF t
  <2>. QED
    BY <2>2, <2>4
<1>. HIDE DEF t
<1>3. /\ t = [data |-> t.data, expires |-> t.expires, lru |-> t.lru]
      /\ t.data = With(s.data, k, c) /\ t.expires = Without(s.expires, {k}) /\ t.lru = s.lru
  BY <1>2
<1>a. Gains(t.data, s.data, k, c)
  BY <1>3, WithIs
<1>4. /\ DOMAIN t.data = DOMAIN s.data \union {k} /\ t.data[k] = c
      /\ \A j \in DOMAIN s.data : j # k => t.data[j] = s.data[j]
  BY <1>a DEF Gains
<1>5. Lacks(t.expires, s.expires, {k})
  BY <1>3, WithoutIs
<1>6. StoreType(t, {})
  BY <1>1, <1>3, <1>4, <1>5 DEF StoreType, Lacks
<1>7. Ready(t, k, {})
  BY <1>1, <1>3, <1>4, <1>6 DEF Ready, LruType
<1>8. Holding(t, k, c) /\ Elsewhere(s, t, k) /\ k \notin DOMAIN t.expires
  BY <1>3, <1>4, <1>5 DEF Holding, Elsewhere, Kept, Same, Lacks
<1>. QED
  BY <1>7, <1>8 DEF t

\* What is left of a list after a pop is a list.
LEMMA TookIs ==
  ASSUME NEW s \in Seq(Values), s # <<>>, NEW side \in {"left", "right"}
  PROVE  Took(s, side) \in Seq(Values)
BY DEF Took, Front

\* A pop takes one item from its key and changes no other.
LEMMA PoppedIs ==
  ASSUME NEW s, StoreOK(s), NEW k \in Keys, IsList(s, k), NEW side \in {"left", "right"}
  PROVE  /\ Ready(Popped(s, k, side), k, {k})
         /\ Holding(Popped(s, k, side), k, List(Took(s.data[k].items, side)))
         /\ Elsewhere(s, Popped(s, k, side), k)
         /\ Same(s.expires, Popped(s, k, side).expires, k)
         /\ Took(s.data[k].items, side) \in Seq(Values)
<1>. DEFINE t == Popped(s, k, side)
            c == List(Took(s.data[k].items, side))
<1>1. StoreType(s, {}) /\ LruType(s) /\ ToSet(s.lru) = DOMAIN s.data
  BY DEF StoreOK, StoreOKBut
<1>2. k \in DOMAIN s.data /\ s.data[k].kind = "list"
  BY DEF IsList, Holds
<1>3. IsContents(s.data[k])
  BY <1>1, <1>2 DEF StoreType
<1>4. /\ s.data[k] = [kind |-> "list", items |-> s.data[k].items]
      /\ s.data[k].items \in Seq(Values) /\ s.data[k].items # <<>>
  BY <1>2, <1>3, ContentsForms
<1>5. Took(s.data[k].items, side) \in Seq(Values)
  BY <1>4, TookIs
<1>6. [s.data[k] EXCEPT !.items = Took(@, side)] = c
  BY <1>4 DEF List
<1>7. t.data = [s.data EXCEPT ![k] = [s.data[k] EXCEPT !.items = Took(@, side)]]
  BY <1>1, <1>2 DEF Popped, StoreType
<1>8. t = [data |-> t.data, expires |-> s.expires, lru |-> s.lru]
  BY <1>1 DEF Popped, StoreType
<1>. HIDE DEF t, c
<1>9. /\ DOMAIN t.data = DOMAIN s.data /\ t.data[k] = c
      /\ \A j \in DOMAIN s.data : j # k => t.data[j] = s.data[j]
  BY <1>2, <1>6, <1>7
<1>10. t.expires = s.expires /\ t.lru = s.lru
  BY <1>8
<1>11. StoreType(t, {k})
  BY <1>1, <1>8, <1>9, <1>10 DEF StoreType
<1>12. Ready(t, k, {k})
  BY <1>1, <1>2, <1>9, <1>10, <1>11 DEF Ready, LruType
<1>13. Holding(t, k, c) /\ Elsewhere(s, t, k) /\ Same(s.expires, t.expires, k)
  BY <1>2, <1>9, <1>10 DEF Holding, Elsewhere, Kept, Same
<1>. QED
  BY <1>5, <1>12, <1>13 DEF t, c

\* The touch after that, and what it leaves of k and of the others.
LEMMA TouchReady ==
  ASSUME NEW s, NEW k \in Keys, NEW S, Ready(s, k, S)
  PROVE  \E names : Touches(s, TouchWrite(s, k), k, names, S)
BY TouchKeeps DEF Ready

\* The key that was touched is never the one evicted.
LEMMA TouchedKey ==
  ASSUME NEW s, NEW k \in Keys, NEW S, NEW t, NEW names, Touches(s, t, k, names, S)
  PROVE  /\ Kept(s, t.st, k)
         /\ t.out = <<>> => Elsewhere(s, t.st, k)
<1>1. Loses(s, t.st, ToSet(names)) /\ k \notin ToSet(names) /\ t.out = Deletes(names)
  BY DEF Touches
<1>2. Kept(s, t.st, k)
  BY <1>1 DEF Loses
<1>3. ASSUME t.out = <<>> PROVE ToSet(names) = {}
  <2>1. DOMAIN t.out = DOMAIN names
    BY <1>1 DEF Deletes
  <2>2. DOMAIN <<>> = {}
    OBVIOUS
  <2>3. DOMAIN names = {}
    BY <1>3, <2>1, <2>2
  <2>. QED
    BY <2>3 DEF ToSet
<1>. QED
  BY <1>1, <1>2, <1>3 DEF Loses, Elsewhere

\* A store in order but for a key that has contents is in order.
LEMMA TypeBut ==
  ASSUME NEW s, NEW k, StoreOKBut(s, {k}), NEW c, Holding(s, k, c), IsContents(c)
  PROVE  StoreOK(s)
BY DEF StoreOK, StoreOKBut, StoreType, Holding

\* What is left of a list after a pop: in memory, and in a replay, where the
\* deadline stays.
LEMMA EmptiedIs ==
  ASSUME NEW s, NEW k \in Keys, StoreOKBut(s, {k}), NEW x \in Seq(Values), Holding(s, k, List(x))
  PROVE  /\ StoreOK(Emptied(s, k))
         /\ Elsewhere(s, Emptied(s, k), k)
         /\ x = <<>> => Gone(Emptied(s, k), k)
         /\ x # <<>> => Emptied(s, k) = s
<1>1. s.data[k].items = x
  BY DEF Holding, List
<1>2. CASE x = <<>>
  <2>1. Emptied(s, k) = Drop(s, {k})
    BY <1>1, <1>2 DEF Emptied
  <2>2. StoreOKBut(Drop(s, {k}), {k} \ {k}) /\ {k} \ {k} = {}
    BY DropKeeps
  <2>3. Loses(s, Drop(s, {k}), {k})
    BY DropIs
  <2>. QED
    BY <1>2, <2>1, <2>2, <2>3 DEF Loses, Elsewhere, StoreOK
<1>3. CASE x # <<>>
  <2>1. Emptied(s, k) = s
    BY <1>1, <1>3 DEF Emptied
  <2>2. IsContents(List(x))
    BY <1>3 DEF IsContents
  <2>3. StoreOK(s)
    BY <2>2, TypeBut
  <2>4. Elsewhere(s, s, k)
    BY DEF Elsewhere, Kept, Same
  <2>. QED
    BY <1>3, <2>1, <2>3, <2>4
<1>. QED
  BY <1>2, <1>3

Unlisted(s, k) ==
  IF s.data[k].items = <<>>
  THEN [s EXCEPT !.data = Without(@, {k}), !.lru = Untrack(s, {k}).lru]
  ELSE s

\* A list with no items left is taken out of the store.
LEMMA UnlistedIs ==
  ASSUME NEW s, NEW k \in Keys, StoreOKBut(s, {k}), NEW x \in Seq(Values), Holding(s, k, List(x))
  PROVE  /\ StoreOK(Unlisted(s, k))
         /\ Elsewhere(s, Unlisted(s, k), k)
         /\ Same(s.expires, Unlisted(s, k).expires, k)
         /\ x = <<>> => k \notin DOMAIN Unlisted(s, k).data
         /\ x # <<>> => Unlisted(s, k) = s
<1>1. s.data[k].items = x
  BY DEF Holding, List
<1>2. CASE x = <<>>
  <2>. DEFINE t == Unlisted(s, k)
              keys == Without(s.data, {k})
              cold == Untrack(s, {k}).lru
  <2>1. s = [data |-> s.data, expires |-> s.expires, lru |-> s.lru]
    BY DEF StoreOKBut, StoreType
  <2>2. t = [s EXCEPT !.data = Without(s.data, {k}), !.lru = Untrack(s, {k}).lru]
    BY <1>1, <1>2 DEF Unlisted
  <2>. HIDE DEF t
  <2>3. t = [data |-> keys, expires |-> s.expires, lru |-> cold]
    <3>1. t = [s EXCEPT !.data = keys, !.lru = cold]
      BY <2>2
    <3>. HIDE DEF keys, cold
    <3>. QED
      BY <2>1, <3>1
  <2>4. /\ t = [data |-> t.data, expires |-> t.expires, lru |-> t.lru]
        /\ t.data = keys /\ t.expires = s.expires /\ t.lru = cold
    BY <2>3
  <2>5. Lacks(t.data, s.data, {k})
    BY <2>4, WithoutIs
  <2>6. Forgets(s, t, {k})
    BY <2>4, <2>5 DEF Forgets
  <2>7. StoreOKBut(t, {k} \ {k}) /\ {k} \ {k} = {}
    BY <2>6, ForgetKeeps
  <2>8. Elsewhere(s, t, k) /\ Same(s.expires, t.expires, k) /\ k \notin DOMAIN t.data
    BY <2>4, <2>5 DEF Elsewhere, Kept, Same, Lacks
  <2>. QED
    BY <1>2, <2>7, <2>8 DEF StoreOK, t
<1>3. CASE x # <<>>
  <2>1. Unlisted(s, k) = s
    BY <1>1, <1>3 DEF Unlisted
  <2>2. IsContents(List(x))
    BY <1>3 DEF IsContents
  <2>3. StoreOK(s)
    BY <2>2, TypeBut
  <2>4. Elsewhere(s, s, k) /\ Same(s.expires, s.expires, k)
    BY DEF Elsewhere, Kept, Same
  <2>. QED
    BY <1>3, <2>1, <2>3, <2>4
<1>. QED
  BY <1>2, <1>3

-----------------------------------------------------------------------------
(***************************************************************************)
(* The records of the log, and what the replay makes of each.              *)
(***************************************************************************)
SetRecord(k, v) == [cmd |-> "SET", key |-> k, items |-> <<v>>]
TimeRecord(k, at) == [cmd |-> "EXPIREAT", key |-> k, at |-> at]
FlushRecord == [cmd |-> "FLUSHALL"]
PushRecord(k, s, side) == [cmd |-> "PUSH", side |-> side, key |-> k, items |-> s]
PopRecord(k, side) == [cmd |-> "POP", side |-> side, key |-> k]

Ends == {"left", "right"}
Pushes == Seq(Values) \ {<<>>}

Records ==
  {SetRecord(k, v) : k \in Keys, v \in Values}
    \union {Deleted(k) : k \in Keys}
    \union {TimeRecord(k, at) : k \in Keys, at \in Nat}
    \union {FlushRecord}
    \union {PushRecord(k, s, side) : k \in Keys, s \in Pushes, side \in Ends}
    \union {PopRecord(k, side) : k \in Keys, side \in Ends}

\* The kinds of records, one by one.
LEMMA RecordCases ==
  ASSUME NEW q \in Records
  PROVE  \/ \E k \in Keys, v \in Values : q = SetRecord(k, v)
         \/ \E k \in Keys : q = Deleted(k)
         \/ \E k \in Keys, at \in Nat : q = TimeRecord(k, at)
         \/ q = FlushRecord
         \/ \E k \in Keys, s \in Pushes, side \in Ends : q = PushRecord(k, s, side)
         \/ \E k \in Keys, side \in Ends : q = PopRecord(k, side)
BY DEF Records

ReplayOK(r) ==
  /\ r = [st |-> r.st, failed |-> r.failed, evicted |-> r.evicted]
  /\ r.failed \in BOOLEAN /\ r.evicted \in BOOLEAN
  /\ StoreOK(r.st)

\* A replay that met no failure and had to evict nothing.
Clean(r) == ~r.failed /\ ~r.evicted

\* After a failure nothing is redone.
LEMMA RedoFailed ==
  ASSUME NEW r, NEW q, r.failed
  PROVE  Redo(r, q) = r
BY DEF Redo

\* DEL redone.
LEMMA RedoDeleted ==
  ASSUME NEW r, ReplayOK(r), NEW k \in Keys
  PROVE  /\ ReplayOK(Redo(r, Deleted(k)))
         /\ Redo(r, Deleted(k)).failed = r.failed
         /\ Redo(r, Deleted(k)).evicted = r.evicted
         /\ ~r.failed => Loses(r.st, Redo(r, Deleted(k)).st, {k})
<1>. DEFINE q == Redo(r, Deleted(k))
<1>1. CASE r.failed
  BY <1>1, RedoFailed
<1>2. CASE ~r.failed
  <2>1. q = [r EXCEPT !.st = Drop(r.st, {k})]
    BY <1>2 DEF Redo, Deleted
  <2>. DEFINE d == Drop(r.st, {k})
  <2>2. StoreOKBut(d, {} \ {k}) /\ {} \ {k} = {}
    BY DropKeeps DEF ReplayOK, StoreOK
  <2>3. Loses(r.st, d, {k})
    BY DropIs
  <2>. HIDE DEF q, d
  <2>4. q = [st |-> d, failed |-> r.failed, evicted |-> r.evicted]
    BY <2>1 DEF ReplayOK, d
  <2>5. q.st = d /\ q.failed = r.failed /\ q.evicted = r.evicted
    BY <2>4
  <2>6. ReplayOK(q)
    BY <2>2, <2>4, <2>5 DEF ReplayOK, StoreOK
  <2>. QED
    BY <1>2, <2>3, <2>5, <2>6 DEF q
<1>. QED
  BY <1>1, <1>2

\* FLUSHALL redone.
LEMMA RedoFlush ==
  ASSUME NEW r, ReplayOK(r)
  PROVE  /\ ReplayOK(Redo(r, FlushRecord))
         /\ Redo(r, FlushRecord).failed = r.failed
         /\ Redo(r, FlushRecord).evicted = r.evicted
         /\ ~r.failed => Redo(r, FlushRecord).st = Empty
<1>. DEFINE q == Redo(r, FlushRecord)
<1>1. CASE r.failed
  BY <1>1, RedoFailed
<1>2. CASE ~r.failed
  <2>1. q = [r EXCEPT !.st = Empty]
    BY <1>2 DEF Redo, FlushRecord
  <2>. HIDE DEF q
  <2>2. q = [st |-> Empty, failed |-> r.failed, evicted |-> r.evicted]
    BY <2>1 DEF ReplayOK
  <2>3. q.st = Empty /\ q.failed = r.failed /\ q.evicted = r.evicted
    BY <2>2
  <2>4. ReplayOK(q)
    BY <2>2, <2>3, EmptyOK DEF ReplayOK
  <2>. QED
    BY <2>3, <2>4 DEF q
<1>. QED
  BY <1>1, <1>2

\* k is given a deadline, whether it has data or not.
Dated(s, k, at) == [s EXCEPT !.expires = With(@, k, at)]

\* It changes that deadline and nothing else.
LEMMA DatedIs ==
  ASSUME NEW s, StoreOK(s), NEW k \in Keys, NEW at \in Nat
  PROVE  /\ StoreOK(Dated(s, k, at))
         /\ Elsewhere(s, Dated(s, k, at), k)
         /\ Dated(s, k, at).data = s.data
         /\ k \in DOMAIN Dated(s, k, at).expires /\ Dated(s, k, at).expires[k] = at
<1>. DEFINE t == Dated(s, k, at)
<1>1. /\ StoreType(s, {}) /\ LruType(s) /\ ToSet(s.lru) = DOMAIN s.data
      /\ Len(s.lru) <= LruMax
  BY DEF StoreOK, StoreOKBut
<1>2. t = [data |-> s.data, expires |-> With(s.expires, k, at), lru |-> s.lru]
  BY <1>1 DEF Dated, StoreType
<1>. HIDE DEF t
<1>3. /\ t = [data |-> t.data, expires |-> t.expires, lru |-> t.lru]
      /\ t.data = s.data /\ t.expires = With(s.expires, k, at) /\ t.lru = s.lru
  BY <1>2
<1>4. Gains(t.expires, s.expires, k, at)
  BY <1>3, WithIs
<1>5. StoreType(t, {})
  BY <1>1, <1>3, <1>4 DEF StoreType, Gains
<1>6. StoreOK(t)
  BY <1>1, <1>3, <1>5 DEF StoreOK, StoreOKBut, LruType
<1>7. /\ Elsewhere(s, t, k) /\ t.data = s.data
      /\ k \in DOMAIN t.expires /\ t.expires[k] = at
  BY <1>3, <1>4 DEF Gains, Elsewhere, Kept, Same
<1>. QED
  BY <1>6, <1>7 DEF t

\* EXPIREAT redone.
LEMMA RedoTime ==
  ASSUME NEW r, ReplayOK(r), NEW k \in Keys, NEW at \in Nat,
         NEW q, q = Redo(r, TimeRecord(k, at))
  PROVE  /\ ReplayOK(q)
         /\ Clean(q) => /\ Clean(r)
                        /\ Elsewhere(r.st, q.st, k)
                        /\ q.st.data = r.st.data
                        /\ k \in DOMAIN q.st.expires /\ q.st.expires[k] = at
<1>1. CASE r.failed
  BY <1>1, RedoFailed DEF Clean
<1>2. CASE ~r.failed
  <2>. DEFINE t == Dated(r.st, k, at)
  <2>1. q = [r EXCEPT !.st.expires = With(@, k, at)]
    BY <1>2 DEF Redo, TimeRecord
  <2>2. q = [r EXCEPT !.st = t]
    BY <2>1 DEF Dated, ReplayOK
  <2>3. /\ StoreOK(t) /\ Elsewhere(r.st, t, k) /\ t.data = r.st.data
        /\ k \in DOMAIN t.expires /\ t.expires[k] = at
    BY DatedIs DEF ReplayOK
  <2>. HIDE DEF t
  <2>4. q = [st |-> t, failed |-> r.failed, evicted |-> r.evicted]
    BY <2>2 DEF ReplayOK
  <2>5. q.st = t /\ q.failed = r.failed /\ q.evicted = r.evicted
    BY <2>4
  <2>. QED
    BY <2>3, <2>4, <2>5 DEF ReplayOK, Clean
<1>. QED
  BY <1>1, <1>2

\* A touch in a replay.
LEMMA ReplayedIs ==
  ASSUME NEW r, ReplayOK(r), NEW t,
         NEW q, q = Replayed(r, t)
  PROVE  /\ q = [st |-> q.st, failed |-> q.failed, evicted |-> q.evicted]
         /\ q.st = t.st
         /\ q.failed = r.failed
         /\ q.evicted \in BOOLEAN
         /\ ~q.evicted => ~r.evicted /\ t.out = <<>>
<1>1. /\ r = [st |-> r.st, failed |-> r.failed, evicted |-> r.evicted]
      /\ r.evicted \in BOOLEAN
  BY DEF ReplayOK
<1>. DEFINE e == r.evicted \/ t.out # <<>>
<1>2. q = [r EXCEPT !.st = t.st, !.evicted = e]
  BY DEF Replayed
<1>3. e \in BOOLEAN /\ (~e => ~r.evicted /\ t.out = <<>>)
  OBVIOUS
<1>. HIDE DEF e
<1>4. q = [st |-> t.st, failed |-> r.failed, evicted |-> e]
  BY <1>1, <1>2
<1>. QED
  BY <1>3, <1>4

\* SET redone.
LEMMA RedoSet ==
  ASSUME NEW r, ReplayOK(r), NEW k \in Keys, NEW v \in Values,
         NEW q, q = Redo(r, SetRecord(k, v))
  PROVE  /\ ReplayOK(q)
         /\ Clean(q) => /\ Clean(r)
                        /\ Elsewhere(r.st, q.st, k)
                        /\ Holding(q.st, k, String(v))
                        /\ k \notin DOMAIN q.st.expires
<1>1. CASE r.failed
  BY <1>1, RedoFailed DEF Clean
<1>2. CASE ~r.failed
  <2>. DEFINE g == GaveAnew(r.st, k, String(v))
              t == TouchWrite(g, k)
  <2>1. q = Replayed(r, t)
    BY <1>2 DEF Redo, SetRecord, GaveAnew
  <2>2. IsContents(String(v)) /\ StoreOK(r.st)
    BY DEF IsContents, ReplayOK
  <2>3. /\ Ready(g, k, {}) /\ Holding(g, k, String(v))
        /\ Elsewhere(r.st, g, k) /\ k \notin DOMAIN g.expires
    BY <2>2, GaveAnewIs
  <2>. HIDE DEF g
  <2>4. PICK names : Touches(g, t, k, names, {})
    BY <2>3, TouchReady
  <2>. HIDE DEF t
  <2>5. StoreOK(t.st) /\ Kept(g, t.st, k) /\ (t.out = <<>> => Elsewhere(g, t.st, k))
    BY <2>4, TouchedKey DEF Touches, StoreOK
  <2>6. /\ q = [st |-> q.st, failed |-> q.failed, evicted |-> q.evicted]
        /\ q.st = t.st /\ q.failed = r.failed /\ q.evicted \in BOOLEAN
        /\ ~q.evicted => ~r.evicted /\ t.out = <<>>
    BY <2>1, ReplayedIs
  <2>7. ReplayOK(q)
    BY <1>2, <2>5, <2>6 DEF ReplayOK
  <2>8. ASSUME Clean(q)
        PROVE  /\ Clean(r) /\ Elsewhere(r.st, q.st, k)
               /\ Holding(q.st, k, String(v)) /\ k \notin DOMAIN q.st.expires
    <3>1. Clean(r) /\ Elsewhere(g, q.st, k)
      BY <2>5, <2>6, <2>8 DEF Clean
    <3>2. Elsewhere(r.st, q.st, k)
      BY <2>3, <3>1 DEF Elsewhere, Kept, Same
    <3>3. Holding(q.st, k, String(v)) /\ k \notin DOMAIN q.st.expires
      BY <2>3, <2>5, <2>6 DEF Holding, Kept, Same
    <3>. QED
      BY <3>1, <3>2, <3>3
  <2>. QED
    BY <2>7, <2>8
<1>. QED
  BY <1>1, <1>2

\* The list of a key, if it is there; and a list with more items at one end.
Old(s, k) == IF Holds(s, k) THEN s.data[k].items ELSE <<>>
Grown(old, items, side) == IF side = "left" THEN Reverse(items) \o old ELSE old \o items

\* It is a sequence of values, maybe empty.
LEMMA OldIs ==
  ASSUME NEW s, StoreOK(s), NEW k
  PROVE  Old(s, k) \in Seq(Values)
<1>1. CASE Holds(s, k)
  <2>1. k \in DOMAIN s.data /\ IsContents(s.data[k])
    BY <1>1 DEF Holds, StoreOK, StoreOKBut, StoreType
  <2>. QED
    BY <1>1, <2>1, ContentsForms DEF Old
<1>2. CASE ~Holds(s, k)
  BY <1>2 DEF Old
<1>. QED
  BY <1>1, <1>2

\* More items make a list that is not empty.
LEMMA GrownIs ==
  ASSUME NEW old \in Seq(Values), NEW items \in Pushes, NEW side
  PROVE  Grown(old, items, side) \in Pushes
<1>1. items \in Seq(Values) /\ Len(items) \in Nat /\ Len(items) # 0
  BY EmptySeq DEF Pushes
<1>2. CASE side = "left"
  <2>. DEFINE b == Reverse(items)
  <2>1. b = [i \in 1..Len(items) |-> items[(Len(items) - i) + 1]]
    BY DEF Reverse
  <2>2. \A i \in 1..Len(items) : (Len(items) - i) + 1 \in 1..Len(items)
    BY <1>1
  <2>3. \A i \in 1..Len(items) : items[(Len(items) - i) + 1] \in Values
    BY <1>1, <2>2
  <2>. HIDE DEF b
  <2>4. b \in Seq(Values) /\ Len(b) = Len(items)
    BY <1>1, <2>1, <2>3
  <2>5. b \o old \in Seq(Values) /\ Len(b \o old) = Len(b) + Len(old) /\ Len(old) \in Nat
    BY <2>4
  <2>6. Len(b \o old) # 0
    BY <1>1, <2>4, <2>5
  <2>7. b \o old # <<>>
    BY <2>6
  <2>. QED
    BY <1>2, <2>5, <2>7 DEF Grown, Pushes, b
<1>3. CASE side # "left"
  <2>5. old \o items \in Seq(Values) /\ Len(old \o items) = Len(old) + Len(items) /\ Len(old) \in Nat
    BY <1>1
  <2>6. Len(old \o items) # 0
    BY <1>1, <2>5
  <2>7. old \o items # <<>>
    BY <2>6
  <2>. QED
    BY <1>3, <2>5, <2>7 DEF Grown, Pushes
<1>. QED
  BY <1>2, <1>3

\* A push redone.
LEMMA RedoPush ==
  ASSUME NEW r, ReplayOK(r), NEW k \in Keys, NEW s \in Pushes, NEW side \in Ends,
         NEW q, q = Redo(r, PushRecord(k, s, side))
  PROVE  /\ ReplayOK(q)
         /\ Clean(q) => /\ Clean(r)
                        /\ Elsewhere(r.st, q.st, k)
                        /\ Holding(q.st, k, List(Grown(Old(r.st, k), s, side)))
                        /\ Same(r.st.expires, q.st.expires, k)
<1>1. CASE r.failed
  BY <1>1, RedoFailed DEF Clean
<1>2. CASE ~r.failed /\ IsString(r.st, k)
  <2>1. q = [r EXCEPT !.failed = TRUE]
    BY <1>2 DEF Redo, PushRecord
  <2>2. q = [st |-> r.st, failed |-> TRUE, evicted |-> r.evicted]
    BY <2>1 DEF ReplayOK
  <2>3. q.st = r.st /\ q.failed = TRUE /\ q.evicted = r.evicted
    BY <2>2
  <2>. QED
    BY <2>2, <2>3 DEF ReplayOK, Clean
<1>3. CASE ~r.failed /\ ~IsString(r.st, k)
  <2>. DEFINE c == List(Grown(Old(r.st, k), s, side))
              g == Gave(r.st, k, c)
              t == TouchWrite(g, k)
  <2>1. q = Replayed(r, t)
    BY <1>3 DEF Redo, PushRecord, Gave, Old, Grown
  <2>2. IsContents(c) /\ StoreOK(r.st)
    <3>1. StoreOK(r.st)
      BY DEF ReplayOK
    <3>2. Grown(Old(r.st, k), s, side) \in Pushes
      BY <3>1, OldIs, GrownIs
    <3>. QED
      BY <3>1, <3>2 DEF IsContents, Pushes
  <2>. HIDE DEF c
  <2>3. /\ Ready(g, k, {}) /\ Holding(g, k, c)
        /\ Elsewhere(r.st, g, k) /\ Same(r.st.expires, g.expires, k)
    BY <2>2, GaveIs
  <2>. HIDE DEF g
  <2>4. PICK names : Touches(g, t, k, names, {})
    BY <2>3, TouchReady
  <2>. HIDE DEF t
  <2>5. StoreOK(t.st) /\ Kept(g, t.st, k) /\ (t.out = <<>> => Elsewhere(g, t.st, k))
    BY <2>4, TouchedKey DEF Touches, StoreOK
  <2>6. /\ q = [st |-> q.st, failed |-> q.failed, evicted |-> q.evicted]
        /\ q.st = t.st /\ q.failed = r.failed /\ q.evicted \in BOOLEAN
        /\ ~q.evicted => ~r.evicted /\ t.out = <<>>
    BY <2>1, ReplayedIs
  <2>7. ReplayOK(q)
    BY <1>3, <2>5, <2>6 DEF ReplayOK
  <2>8. ASSUME Clean(q)
        PROVE  /\ Clean(r) /\ Elsewhere(r.st, q.st, k)
               /\ Holding(q.st, k, c) /\ Same(r.st.expires, q.st.expires, k)
    <3>1. Clean(r) /\ Elsewhere(g, q.st, k)
      BY <2>5, <2>6, <2>8 DEF Clean
    <3>2. Elsewhere(r.st, q.st, k)
      BY <2>3, <3>1 DEF Elsewhere, Kept, Same
    <3>3. Holding(q.st, k, c) /\ Same(r.st.expires, q.st.expires, k)
      BY <2>3, <2>5, <2>6 DEF Holding, Kept, Same
    <3>. QED
      BY <3>1, <3>2, <3>3
  <2>. QED
    BY <2>7, <2>8 DEF c
<1>. QED
  BY <1>1, <1>2, <1>3

\* A pop redone: the deadline of an emptied list stays.
LEMMA RedoPop ==
  ASSUME NEW r, ReplayOK(r), NEW k \in Keys, NEW side \in Ends,
         NEW q, q = Redo(r, PopRecord(k, side)),
         NEW x, x = Took(r.st.data[k].items, side)
  PROVE  /\ ReplayOK(q)
         /\ Clean(q) => /\ Clean(r)
                        /\ Elsewhere(r.st, q.st, k)
                        /\ Same(r.st.expires, q.st.expires, k)
                        /\ ~IsList(r.st, k) => Same(r.st.data, q.st.data, k)
                        /\ IsList(r.st, k) /\ x = <<>> => k \notin DOMAIN q.st.data
                        /\ IsList(r.st, k) /\ x # <<>> => Holding(q.st, k, List(x))
<1>0. Elsewhere(r.st, r.st, k) /\ Same(r.st.expires, r.st.expires, k) /\ Same(r.st.data, r.st.data, k)
  BY DEF Elsewhere, Kept, Same
<1>1. CASE r.failed
  BY <1>1, RedoFailed DEF Clean
<1>2. CASE ~r.failed /\ ~IsList(r.st, k)
  <2>1. q = r
    BY <1>2 DEF Redo, PopRecord
  <2>. QED
    BY <1>0, <1>2, <2>1
<1>3. CASE ~r.failed /\ IsList(r.st, k)
  <2>. DEFINE g == Popped(r.st, k, side)
              t == TouchWrite(g, k)
              u == Unlisted(t.st, k)
              w == [t EXCEPT !.st = u]
  <2>1. q = Replayed(r, w)
    BY <1>3 DEF Redo, PopRecord, Popped, Unlisted
  <2>2. StoreOK(r.st)
    BY DEF ReplayOK
  <2>3. /\ Ready(g, k, {k}) /\ Holding(g, k, List(x)) /\ x \in Seq(Values)
        /\ Elsewhere(r.st, g, k) /\ Same(r.st.expires, g.expires, k)
    BY <1>3, <2>2, PoppedIs DEF Ends
  <2>. HIDE DEF g
  <2>4. PICK names : Touches(g, t, k, names, {k})
    BY <2>3, TouchReady
  <2>. HIDE DEF t
  <2>5. StoreOKBut(t.st, {k}) /\ Kept(g, t.st, k) /\ (t.out = <<>> => Elsewhere(g, t.st, k))
    BY <2>4, TouchedKey DEF Touches
  <2>6. Holding(t.st, k, List(x))
    BY <2>3, <2>5 DEF Holding, Kept, Same
  <2>7. /\ StoreOK(u) /\ Elsewhere(t.st, u, k) /\ Same(t.st.expires, u.expires, k)
        /\ x = <<>> => k \notin DOMAIN u.data
        /\ x # <<>> => u = t.st
    BY <2>3, <2>5, <2>6, UnlistedIs
  <2>. HIDE DEF u
  <2>8. w.st = u /\ w.out = t.out
    BY <2>4 DEF Touches
  <2>. HIDE DEF w
  <2>9. /\ q = [st |-> q.st, failed |-> q.failed, evicted |-> q.evicted]
        /\ q.st = w.st /\ q.failed = r.failed /\ q.evicted \in BOOLEAN
        /\ ~q.evicted => ~r.evicted /\ w.out = <<>>
    BY <2>1, ReplayedIs
  <2>10. ReplayOK(q)
    BY <1>3, <2>7, <2>8, <2>9 DEF ReplayOK
  <2>11. ASSUME Clean(q)
         PROVE  /\ Clean(r) /\ Elsewhere(r.st, q.st, k) /\ Same(r.st.expires, q.st.expires, k)
                /\ x = <<>> => k \notin DOMAIN q.st.data
                /\ x # <<>> => Holding(q.st, k, List(x))
    <3>1. Clean(r) /\ Elsewhere(g, t.st, k) /\ q.st = u
      BY <2>5, <2>8, <2>9, <2>11 DEF Clean
    <3>2. Elsewhere(r.st, q.st, k)
      BY <2>3, <2>7, <3>1 DEF Elsewhere, Kept, Same
    <3>3. Same(r.st.expires, q.st.expires, k)
      BY <2>3, <2>5, <2>7, <3>1 DEF Kept, Same
    <3>. QED
      BY <2>6, <2>7, <3>1, <3>2, <3>3
  <2>. QED
    BY <1>3, <2>10, <2>11
<1>. QED
  BY <1>1, <1>2, <1>3

\* A replay stays in order through any record.
LEMMA RedoKeeps ==
  ASSUME NEW r, ReplayOK(r), NEW q \in Records
  PROVE  ReplayOK(Redo(r, q))
<1>1. ASSUME NEW k \in Keys, NEW v \in Values, q = SetRecord(k, v) PROVE ReplayOK(Redo(r, q))
  BY <1>1, RedoSet
<1>2. ASSUME NEW k \in Keys, q = Deleted(k) PROVE ReplayOK(Redo(r, q))
  BY <1>2, RedoDeleted
<1>3. ASSUME NEW k \in Keys, NEW at \in Nat, q = TimeRecord(k, at) PROVE ReplayOK(Redo(r, q))
  BY <1>3, RedoTime
<1>4. ASSUME q = FlushRecord PROVE ReplayOK(Redo(r, q))
  BY <1>4, RedoFlush
<1>5. ASSUME NEW k \in Keys, NEW s \in Pushes, NEW side \in Ends, q = PushRecord(k, s, side)
      PROVE  ReplayOK(Redo(r, q))
  BY <1>5, RedoPush
<1>6. ASSUME NEW k \in Keys, NEW side \in Ends, q = PopRecord(k, side) PROVE ReplayOK(Redo(r, q))
  BY <1>6, RedoPop
<1>. QED
  BY <1>1, <1>2, <1>3, <1>4, <1>5, <1>6, RecordCases

\* Recovery ends in a store, whatever the log.
LEMMA RolledKeeps ==
  ASSUME NEW r, ReplayOK(r), NEW records \in Seq(Records)
  PROVE  ReplayOK(Rolled(r, records))
<1>. DEFINE len == Len(records)
<1>1. len \in Nat /\ DOMAIN records = 1..len /\ \A n \in 1..len : records[n] \in Records
  OBVIOUS
<1>. HIDE DEF len
<1>2. PICK f : Follows(f, r, records, len)
  BY <1>1, RolledSteps
<1>. DEFINE S == {n \in 0..len : ReplayOK(f[n])}
<1>3. 0 \in S
  BY <1>1, <1>2 DEF Follows
<1>4. ASSUME NEW n \in 1..len, n - 1 \in S PROVE n \in S
  <2>1. ReplayOK(f[n - 1]) /\ f[n] = Redo(f[n - 1], records[n]) /\ n \in 0..len
    BY <1>1, <1>2, <1>4 DEF Follows
  <2>. QED
    BY <1>1, <2>1, RedoKeeps
<1>. HIDE DEF S
<1>5. \A n \in 0..len : n \in S
  BY <1>1, <1>3, <1>4, Redone!UpTo
<1>6. len \in S
  BY <1>1, <1>5
<1>. QED
  BY <1>2, <1>6 DEF S, Follows

\* Deletions redone take exactly their keys.
LEMMA RolledDeletes ==
  ASSUME NEW r, ReplayOK(r), NEW names \in Seq(Keys), NEW q, q = Rolled(r, Deletes(names))
  PROVE  /\ ReplayOK(q)
         /\ q.failed = r.failed /\ q.evicted = r.evicted
         /\ ~r.failed => Loses(r.st, q.st, ToSet(names))
<1>. DEFINE len == Len(names)
            records == Deletes(names)
            Before(n) == {names[i] : i \in 1..n}
<1>1. len \in Nat /\ DOMAIN names = 1..len /\ \A n \in 1..len : names[n] \in Keys
  OBVIOUS
<1>2. DOMAIN records = 1..len /\ \A n \in 1..len : records[n] = Deleted(names[n])
  BY <1>1 DEF Deletes
<1>. HIDE DEF len, records
<1>3. PICK f : Follows(f, r, records, len)
  BY <1>1, <1>2, RolledSteps
<1>. DEFINE Good(p, n) == /\ ReplayOK(p)
                          /\ p.failed = r.failed /\ p.evicted = r.evicted
                          /\ ~r.failed => Loses(r.st, p.st, Before(n))
            S == {n \in 0..len : Good(f[n], n)}
<1>4. 0 \in S
  <2>1. Before(0) = {} /\ 0 \in 0..len /\ f[0] = r
    BY <1>1, <1>3 DEF Follows
  <2>2. Good(r, 0)
    BY <2>1 DEF Loses, Kept, Same
  <2>. QED
    BY <2>1, <2>2
<1>5. ASSUME NEW n \in 1..len, n - 1 \in S PROVE n \in S
  <2>1. /\ f[n] = Redo(f[n - 1], Deleted(names[n])) /\ names[n] \in Keys
        /\ n \in 0..len /\ n \in Nat
    BY <1>1, <1>2, <1>3 DEF Follows
  <2>. DEFINE p == f[n - 1]
  <2>2. Good(p, n - 1)
    BY <1>5
  <2>3. Before(n) = Before(n - 1) \union {names[n]}
    <3>1. \A i : i \in 1..n <=> i \in 1..(n - 1) \/ i = n
      BY <2>1
    <3>. QED
      BY <3>1
  <2>. HIDE DEF p
  <2>4. /\ ReplayOK(Redo(p, Deleted(names[n])))
        /\ Redo(p, Deleted(names[n])).failed = p.failed
        /\ Redo(p, Deleted(names[n])).evicted = p.evicted
        /\ ~p.failed => Loses(p.st, Redo(p, Deleted(names[n])).st, {names[n]})
    BY <2>1, <2>2, RedoDeleted
  <2>5. f[n] = Redo(p, Deleted(names[n]))
    BY <2>1 DEF p
  <2>. HIDE DEF Before
  <2>6. ASSUME ~r.failed PROVE Loses(r.st, f[n].st, Before(n))
    <3>1. Loses(r.st, p.st, Before(n - 1)) /\ Loses(p.st, f[n].st, {names[n]})
      BY <2>2, <2>4, <2>5, <2>6
    <3>. QED
      BY <2>3, <3>1 DEF Loses, Gone, Kept, Same
  <2>7. Good(f[n], n)
    BY <2>2, <2>4, <2>5, <2>6
  <2>. QED
    BY <2>1, <2>7
<1>. HIDE DEF S
<1>6. \A n \in 0..len : n \in S
  BY <1>1, <1>4, <1>5, Redone!UpTo
<1>7. len \in S
  BY <1>1, <1>6
<1>8. Good(f[len], len)
  BY <1>7 DEF S
<1>9. f[len] = q
  BY <1>3 DEF Follows, records
<1>10. Before(len) = ToSet(names)
  BY <1>1 DEF ToSet
<1>. HIDE DEF Before
<1>. QED
  BY <1>8, <1>9, <1>10

-----------------------------------------------------------------------------
(***************************************************************************)
(* A replay mirrors a store: what the log rebuilds, for the keys it has to *)
(* get right.  A loose key is one that the store has given up and the      *)
(* replay holds, if at all, with a deadline that is past.                  *)
(***************************************************************************)
LooseKey(s, t, k, at) ==
  /\ Gone(s, k)
  /\ k \notin DOMAIN t.data \/ Due(t, k, at)

EqualKey(s, t, k, at) ==
  /\ Same(s.data, t.data, k)
  /\ Same(s.expires, t.expires, k) \/ Stuck(s, k, at)

Mirrors(s, r, L, S, at) ==
  Clean(r) => \A k \in Keys \ S :
    IF k \in L THEN LooseKey(s, r.st, k, at) ELSE EqualKey(s, r.st, k, at)

\* What Run makes of loose and spoiled.
Undated(s, t) == DOMAIN s.expires \ DOMAIN t.expires
LooseAfter(s, c, L) == (L \union Undated(s, c.st)) \ Settled(c.out)
SpoiledAfter(s, c, L, S) ==
  (S \union ((L \union Undated(s, c.st)) \intersect Pushed(c.out))) \ Settled(c.out)

\* A command does to the store what its records do to a replay.
Faithful(s, c, at) ==
  /\ StoreOK(c.st)
  /\ c.out \in Seq(Records)
  /\ Orphans(c.st) \subseteq Orphans(s)
  /\ \A r, L, S :
       ReplayOK(r) /\ Mirrors(s, r, L, S, at) =>
         Mirrors(c.st, Rolled(r, c.out), LooseAfter(s, c, L), SpoiledAfter(s, c, L, S), at)

\* The records of deletions.
LEMMA DeletesAre ==
  ASSUME NEW names \in Seq(Keys)
  PROVE  /\ Deletes(names) \in Seq(Records)
         /\ ToSet(Deletes(names)) = {Deleted(k) : k \in ToSet(names)}
<1>. DEFINE len == Len(names)
            out == Deletes(names)
<1>1. len \in Nat /\ DOMAIN names = 1..len /\ \A n \in 1..len : names[n] \in Keys
  OBVIOUS
<1>2. out = [n \in 1..len |-> Deleted(names[n])]
  BY <1>1 DEF Deletes
<1>3. \A n \in 1..len : Deleted(names[n]) \in Records
  BY <1>1 DEF Records
<1>. HIDE DEF len, out
<1>4. out \in Seq(Records)
  BY <1>1, <1>2, <1>3
<1>5. ToSet(out) = {Deleted(k) : k \in ToSet(names)}
  BY <1>1, <1>2 DEF ToSet
<1>. QED
  BY <1>4, <1>5 DEF out

\* Deletions settle their keys and push nothing.
LEMMA SettledDeletes ==
  ASSUME NEW names \in Seq(Keys)
  PROVE  Settled(Deletes(names)) = ToSet(names) /\ Pushed(Deletes(names)) = {}
<1>1. ToSet(Deletes(names)) = {Deleted(k) : k \in ToSet(names)}
  BY DeletesAre
<1>2. \A k : Deleted(k).cmd = "DEL" /\ Deleted(k).key = k
  BY DEF Deleted
<1>. DEFINE Of(r) == CASE r.cmd \in {"SET", "DEL"} -> {r.key}
                       [] r.cmd = "FLUSHALL"       -> Keys
                       [] OTHER                    -> {}
<1>3. \A k : Of(Deleted(k)) = {k}
  BY <1>2
<1>4. Settled(Deletes(names)) = UNION {Of(r) : r \in ToSet(Deletes(names))}
  BY DEF Settled
<1>5. Pushed(Deletes(names)) = {}
  BY <1>1, <1>2 DEF Pushed
<1>. HIDE DEF Of
<1>6. UNION {Of(r) : r \in ToSet(Deletes(names))} = ToSet(names)
  <2>. DEFINE U == UNION {Of(r) : r \in ToSet(Deletes(names))}
  <2>1. \A k \in U : k \in ToSet(names)
    <3>1. \A k \in U : \E r \in ToSet(Deletes(names)) : k \in Of(r)
      OBVIOUS
    <3>2. \A r \in ToSet(Deletes(names)) : \E j \in ToSet(names) : r = Deleted(j)
      BY <1>1
    <3>. HIDE DEF U
    <3>. QED
      BY <1>3, <3>1, <3>2
  <2>2. \A k \in ToSet(names) : k \in U
    <3>1. \A k \in ToSet(names) : Deleted(k) \in ToSet(Deletes(names)) /\ k \in Of(Deleted(k))
      BY <1>1, <1>3
    <3>. QED
      BY <3>1
  <2>. QED
    BY <2>1, <2>2
<1>. QED
  BY <1>4, <1>5, <1>6

\* A key that goes silently: no record says so, but its deadline is past, or
\* there was nothing but a deadline.
Quiet(s, t, k, at) ==
  /\ Gone(t, k)
  /\ k \in DOMAIN s.expires
  /\ k \notin DOMAIN s.data \/ Due(s, k, at)

\* Commands that log nothing but deletions.
LEMMA ErasedFaithful ==
  ASSUME NEW s, NEW c, NEW at, NEW names \in Seq(Keys), StoreOK(c.st), c.out = Deletes(names),
         StoreOK(s),
         \A k \in Keys : IF k \in ToSet(names) THEN Gone(c.st, k)
                         ELSE Kept(s, c.st, k) \/ Quiet(s, c.st, k, at)
  PROVE  Faithful(s, c, at)
<1>1. c.out \in Seq(Records)
  BY DeletesAre
<1>2. Settled(c.out) = ToSet(names) /\ Pushed(c.out) = {}
  BY SettledDeletes
<1>3. Orphans(c.st) \subseteq Orphans(s)
  <2>1. DOMAIN c.st.expires \subseteq Keys
    BY DEF StoreOK, StoreOKBut, StoreType
  <2>. QED
    BY <2>1 DEF Orphans, Gone, Kept, Same, Quiet
<1>4. ASSUME NEW r, NEW L, NEW S, ReplayOK(r), Mirrors(s, r, L, S, at)
      PROVE  Mirrors(c.st, Rolled(r, c.out), LooseAfter(s, c, L), SpoiledAfter(s, c, L, S), at)
  <2>. DEFINE q == Rolled(r, c.out)
  <2>1. /\ q.failed = r.failed /\ q.evicted = r.evicted
        /\ ~r.failed => Loses(r.st, q.st, ToSet(names))
    BY <1>4, RolledDeletes
  <2>. HIDE DEF q
  <2>2. SUFFICES ASSUME Clean(q), NEW k \in Keys, k \notin SpoiledAfter(s, c, L, S)
                 PROVE  IF k \in LooseAfter(s, c, L) THEN LooseKey(c.st, q.st, k, at)
                        ELSE EqualKey(c.st, q.st, k, at)
    BY DEF Mirrors, q
  <2>3. Clean(r) /\ Loses(r.st, q.st, ToSet(names))
    BY <2>1, <2>2 DEF Clean
  <2>4. CASE k \in ToSet(names)
    <3>1. Gone(c.st, k) /\ Gone(q.st, k) /\ k \notin LooseAfter(s, c, L)
      BY <1>2, <2>3, <2>4 DEF Loses, LooseAfter
    <3>. QED
      BY <3>1 DEF EqualKey, Gone, Same
  <2>5. CASE k \notin ToSet(names)
    <3>1. Kept(r.st, q.st, k) /\ k \notin S
      BY <1>2, <2>2, <2>3, <2>5 DEF Loses, SpoiledAfter
    <3>2. IF k \in L THEN LooseKey(s, r.st, k, at) ELSE EqualKey(s, r.st, k, at)
      BY <1>4, <2>3, <3>1 DEF Mirrors
    <3>3. k \in LooseAfter(s, c, L) <=> k \in L \/ k \in Undated(s, c.st)
      BY <1>2, <2>5 DEF LooseAfter
    <3>4. CASE Kept(s, c.st, k)
      <4>1. k \in LooseAfter(s, c, L) <=> k \in L
        BY <3>3, <3>4 DEF Undated, Kept, Same
      <4>2. ASSUME LooseKey(s, r.st, k, at) PROVE LooseKey(c.st, q.st, k, at)
        BY <3>1, <3>4, <4>2 DEF LooseKey, Gone, Kept, Same, Due
      <4>3. ASSUME EqualKey(s, r.st, k, at) PROVE EqualKey(c.st, q.st, k, at)
        BY <3>1, <3>4, <4>3 DEF EqualKey, Kept, Same, Due, Stuck, Holds
      <4>. QED
        BY <3>2, <4>1, <4>2, <4>3
    <3>5. CASE Quiet(s, c.st, k, at)
      <4>1. k \in LooseAfter(s, c, L)
        BY <3>3, <3>5 DEF Quiet, Gone, Undated
      <4>2. k \notin L /\ EqualKey(s, r.st, k, at)
        BY <3>2, <3>5 DEF LooseKey, Gone, Quiet
      <4>3. k \notin DOMAIN r.st.data \/ Due(r.st, k, at)
        BY <3>5, <4>2 DEF Quiet, EqualKey, Same, Due, Stuck, Holds
      <4>4. k \notin DOMAIN q.st.data \/ Due(q.st, k, at)
        BY <3>1, <4>3 DEF Kept, Same, Due
      <4>. QED
        BY <3>5, <4>1, <4>4 DEF LooseKey, Quiet
    <3>. QED
      BY <2>5, <3>4, <3>5
  <2>. QED
    BY <2>4, <2>5
<1>. QED
  BY <1>1, <1>3, <1>4 DEF Faithful

\* One record, and the deletions of what was evicted for it.
LEMMA SettledLogged ==
  ASSUME NEW q \in Records, NEW names \in Seq(Keys),
         q.cmd \in {"SET", "PUSH", "POP", "EXPIREAT"},
         NEW out, out = <<q>> \o Deletes(names)
  PROVE  /\ out \in Seq(Records)
         /\ Settled(out) = (IF q.cmd = "SET" THEN {q.key} ELSE {}) \union ToSet(names)
         /\ Pushed(out) = IF q.cmd = "PUSH" THEN {q.key} ELSE {}
<1>. DEFINE dels == Deletes(names)
            Of(r) == CASE r.cmd \in {"SET", "DEL"} -> {r.key}
                       [] r.cmd = "FLUSHALL"       -> Keys
                       [] OTHER                    -> {}
<1>1. dels \in Seq(Records) /\ <<q>> \in Seq(Records)
  BY DeletesAre
<1>2. out \in Seq(Records)
  BY <1>1
<1>3. ToSet(out) = {q} \union ToSet(dels)
  <2>. DEFINE len == Len(dels)
  <2>1. len \in Nat /\ DOMAIN dels = 1..len
    BY <1>1
  <2>2. /\ DOMAIN out = 1..(len + 1) /\ out[1] = q
        /\ \A i \in 1..len : out[i + 1] = dels[i]
    <3>1. out = <<q>> \o dels
      OBVIOUS
    <3>. HIDE DEF dels
    <3>. QED
      BY <1>1, <3>1
  <2>. HIDE DEF dels, len
  <2>3. ASSUME NEW x \in ToSet(out) PROVE x = q \/ x \in ToSet(dels)
    <3>1. PICK i \in 1..(len + 1) : x = out[i]
      BY <2>2 DEF ToSet
    <3>2. CASE i = 1
      BY <2>2, <3>1, <3>2
    <3>3. CASE i # 1
      <4>1. i - 1 \in 1..len /\ (i - 1) + 1 = i
        BY <2>1, <3>1, <3>3
      <4>2. x = dels[i - 1]
        BY <2>2, <3>1, <4>1
      <4>. QED
        BY <2>1, <4>1, <4>2 DEF ToSet
    <3>. QED
      BY <3>2, <3>3
  <2>4. q \in ToSet(out)
    <3>1. 1 \in 1..(len + 1)
      BY <2>1
    <3>. QED
      BY <2>2, <3>1 DEF ToSet
  <2>5. ASSUME NEW x \in ToSet(dels) PROVE x \in ToSet(out)
    <3>1. PICK i \in 1..len : x = dels[i]
      BY <2>1 DEF ToSet
    <3>2. i + 1 \in 1..(len + 1) /\ out[i + 1] = x
      BY <2>1, <2>2, <3>1
    <3>. QED
      BY <2>2, <3>2 DEF ToSet
  <2>. QED
    BY <2>3, <2>4, <2>5
<1>4. Settled(dels) = ToSet(names) /\ Pushed(dels) = {}
  BY SettledDeletes
<1>5. Of(q) = IF q.cmd = "SET" THEN {q.key} ELSE {}
  OBVIOUS
<1>6. Settled(out) = UNION {Of(r) : r \in ToSet(out)} /\ Settled(dels) = UNION {Of(r) : r \in ToSet(dels)}
  BY DEF Settled
<1>7. Pushed(out) = IF q.cmd = "PUSH" THEN {q.key} ELSE {}
  <2>1. \A r \in ToSet(dels) : r.cmd # "PUSH"
    BY <1>4 DEF Pushed
  <2>. QED
    BY <1>3, <2>1 DEF Pushed
<1>. HIDE DEF Of, dels
<1>8. Settled(out) = Of(q) \union Settled(dels)
  BY <1>3, <1>6
<1>. QED
  BY <1>2, <1>4, <1>5, <1>7, <1>8

\* What the record has to do to its own key.
Here(s, t, q, k, at) ==
  \A r : ReplayOK(r) /\ Clean(Redo(r, q)) =>
    /\ Clean(r)
    /\ Elsewhere(r.st, Redo(r, q).st, k)
    /\ q.cmd = "SET" => EqualKey(t, Redo(r, q).st, k, at)
    /\ q.cmd \notin {"SET", "PUSH"} /\ LooseKey(s, r.st, k, at) =>
         LooseKey(t, Redo(r, q).st, k, at)
    /\ q.cmd # "SET" /\ EqualKey(s, r.st, k, at) =>
         IF k \in Undated(s, t) THEN q.cmd # "PUSH" => LooseKey(t, Redo(r, q).st, k, at)
         ELSE EqualKey(t, Redo(r, q).st, k, at)

\* A command that logs one record for k, and then deletions, is faithful if it
\* is so at k.
LEMMA LoggedFaithful ==
  ASSUME NEW s, NEW c, NEW at, NEW k \in Keys, NEW q \in Records, q.key = k,
         q.cmd \in {"SET", "PUSH", "POP", "EXPIREAT"},
         NEW names \in Seq(Keys), k \notin ToSet(names), c.out = <<q>> \o Deletes(names),
         StoreOK(c.st),
         \A j \in Keys \ {k} : IF j \in ToSet(names) THEN Gone(c.st, j) ELSE Kept(s, c.st, j),
         k \in Orphans(c.st) => k \in Orphans(s),
         Here(s, c.st, q, k, at)
  PROVE  Faithful(s, c, at)
<1>1. /\ c.out \in Seq(Records)
      /\ Settled(c.out) = (IF q.cmd = "SET" THEN {k} ELSE {}) \union ToSet(names)
      /\ Pushed(c.out) = IF q.cmd = "PUSH" THEN {k} ELSE {}
  BY SettledLogged
<1>2. Orphans(c.st) \subseteq Orphans(s)
  <2>1. DOMAIN c.st.expires \subseteq Keys
    BY DEF StoreOK, StoreOKBut, StoreType
  <2>. QED
    BY <2>1 DEF Orphans, Gone, Kept, Same
<1>3. ASSUME NEW r, NEW L, NEW S, ReplayOK(r), Mirrors(s, r, L, S, at)
      PROVE  Mirrors(c.st, Rolled(r, c.out), LooseAfter(s, c, L), SpoiledAfter(s, c, L, S), at)
  <2>. DEFINE p == Redo(r, q)
              z == Rolled(r, c.out)
  <2>1. z = Rolled(p, Deletes(names)) /\ ReplayOK(p)
    <3>1. <<q>> \in Seq(Records) /\ Deletes(names) \in Seq(Records)
      BY DeletesAre
    <3>2. Rolled(r, <<q>> \o Deletes(names)) = Rolled(Rolled(r, <<q>>), Deletes(names))
      <4>. DEFINE a == <<q>>
                  b == Deletes(names)
      <4>1. a \in Seq(Records) /\ b \in Seq(Records)
        BY <3>1
      <4>. HIDE DEF a, b
      <4>2. Rolled(r, a \o b) = Rolled(Rolled(r, a), b)
        BY <4>1, RolledConcat
      <4>. QED
        BY <4>2 DEF a, b
    <3>. QED
      BY <1>3, <3>2, RolledOne, RedoKeeps
  <2>2. /\ z.failed = p.failed /\ z.evicted = p.evicted
        /\ ~p.failed => Loses(p.st, z.st, ToSet(names))
    <3>. HIDE DEF p, z
    <3>. QED
      BY <2>1, RolledDeletes
  <2>. HIDE DEF z
  <2>3. SUFFICES ASSUME Clean(z), NEW j \in Keys, j \notin SpoiledAfter(s, c, L, S)
                 PROVE  IF j \in LooseAfter(s, c, L) THEN LooseKey(c.st, z.st, j, at)
                        ELSE EqualKey(c.st, z.st, j, at)
    BY DEF Mirrors, z
  <2>4. Clean(p) /\ Loses(p.st, z.st, ToSet(names))
    BY <2>2, <2>3 DEF Clean
  <2>5. /\ Clean(r) /\ Elsewhere(r.st, p.st, k)
        /\ q.cmd = "SET" => EqualKey(c.st, p.st, k, at)
        /\ q.cmd \notin {"SET", "PUSH"} /\ LooseKey(s, r.st, k, at) =>
             LooseKey(c.st, p.st, k, at)
        /\ q.cmd # "SET" /\ EqualKey(s, r.st, k, at) =>
             IF k \in Undated(s, c.st) THEN q.cmd # "PUSH" => LooseKey(c.st, p.st, k, at)
             ELSE EqualKey(c.st, p.st, k, at)
    BY <1>3, <2>4 DEF Here
  <2>. HIDE DEF p
  <2>6. CASE j \in ToSet(names)
    <3>1. Gone(c.st, j) /\ Gone(z.st, j) /\ j \notin LooseAfter(s, c, L)
      BY <1>1, <2>4, <2>6 DEF Loses, LooseAfter
    <3>. QED
      BY <3>1 DEF EqualKey, Gone, Same
  <2>7. CASE j \notin ToSet(names) /\ j # k
    <3>1. Kept(s, c.st, j) /\ Kept(r.st, p.st, j) /\ Kept(p.st, z.st, j) /\ j \notin S
      BY <1>1, <2>3, <2>4, <2>5, <2>7 DEF Loses, Elsewhere, SpoiledAfter
    <3>2. IF j \in L THEN LooseKey(s, r.st, j, at) ELSE EqualKey(s, r.st, j, at)
      BY <1>3, <2>5, <3>1 DEF Mirrors
    <3>3. j \in LooseAfter(s, c, L) <=> j \in L
      BY <1>1, <2>7, <3>1 DEF LooseAfter, Undated, Kept, Same
    <3>4. Kept(r.st, z.st, j)
      BY <3>1 DEF Kept, Same
    <3>5. ASSUME LooseKey(s, r.st, j, at) PROVE LooseKey(c.st, z.st, j, at)
      BY <3>1, <3>4, <3>5 DEF LooseKey, Gone, Kept, Same, Due
    <3>6. ASSUME EqualKey(s, r.st, j, at) PROVE EqualKey(c.st, z.st, j, at)
      BY <3>1, <3>4, <3>6 DEF EqualKey, Kept, Same, Due, Stuck, Holds
    <3>. QED
      BY <3>2, <3>3, <3>5, <3>6
  <2>8. CASE j = k
    <3>1. Kept(p.st, z.st, k)
      BY <2>4 DEF Loses
    <3>2. ASSUME LooseKey(c.st, p.st, k, at) PROVE LooseKey(c.st, z.st, k, at)
      BY <3>1, <3>2 DEF LooseKey, Kept, Same, Due
    <3>3. ASSUME EqualKey(c.st, p.st, k, at) PROVE EqualKey(c.st, z.st, k, at)
      BY <3>1, <3>3 DEF EqualKey, Kept, Same
    <3>4. CASE q.cmd = "SET"
      <4>1. k \notin LooseAfter(s, c, L)
        BY <1>1, <3>4 DEF LooseAfter
      <4>. QED
        BY <2>5, <2>8, <3>3, <3>4, <4>1
    <3>5. CASE q.cmd # "SET"
      <4>1. k \in LooseAfter(s, c, L) <=> k \in L \/ k \in Undated(s, c.st)
        BY <1>1, <3>5 DEF LooseAfter
      <4>2. /\ k \notin S
            /\ q.cmd = "PUSH" => k \notin L /\ k \notin Undated(s, c.st)
        BY <1>1, <2>3, <2>8, <3>5 DEF SpoiledAfter
      <4>3. IF k \in L THEN LooseKey(s, r.st, k, at) ELSE EqualKey(s, r.st, k, at)
        BY <1>3, <2>5, <4>2 DEF Mirrors
      <4>4. CASE k \in L
        BY <2>5, <2>8, <3>2, <3>5, <4>1, <4>2, <4>3, <4>4
      <4>5. CASE k \notin L
        BY <2>5, <2>8, <3>2, <3>3, <3>5, <4>1, <4>2, <4>3, <4>5
      <4>. QED
        BY <4>4, <4>5
    <3>. QED
      BY <3>4, <3>5
  <2>. QED
    BY <2>6, <2>7, <2>8
<1>. QED
  BY <1>1, <1>2, <1>3 DEF Faithful

-----------------------------------------------------------------------------
(***************************************************************************)
(* Each command is faithful.                                               *)
(***************************************************************************)
LEMMA NoDeletes == <<>> \in Seq(Keys) /\ ToSet(<<>>) = {} /\ Deletes(<<>>) = <<>>
<1>1. DOMAIN <<>> = {} /\ <<>> \in Seq(Keys)
  OBVIOUS
<1>2. Deletes(<<>>) = [i \in {} |-> Deleted(<<>>[i])]
  BY <1>1 DEF Deletes
<1>3. [i \in {} |-> Deleted(<<>>[i])] = <<>>
  OBVIOUS
<1>. QED
  BY <1>1, <1>2, <1>3 DEF ToSet

\* A command that logs nothing is faithful if all it does is expire keys.
LEMMA NothingFaithful ==
  ASSUME NEW s, StoreOK(s), NEW b, StoreOK(b), NEW at,
         \A k \in Keys : Kept(s, b, k) \/ Quiet(s, b, k, at)
  PROVE  Faithful(s, Nothing(b), at)
<1>1. Nothing(b).st = b /\ Nothing(b).out = Deletes(<<>>)
  BY NoDeletes DEF Nothing
<1>2. <<>> \in Seq(Keys) /\ \A k \in Keys : k \notin ToSet(<<>>)
  BY NoDeletes
<1>. QED
  BY <1>1, <1>2, ErasedFaithful

\* _evict_if_expired
LEMMA EvictIs ==
  ASSUME NEW s, StoreOK(s), NEW k \in Keys, NEW at, NEW b, b = Evict(s, k, at)
  PROVE  /\ StoreOK(b)
         /\ Elsewhere(s, b, k)
         /\ b = s \/ Quiet(s, b, k, at)
         /\ b # s => ~Holds(b, k)
<1>1. CASE Due(s, k, at) /\ Holds(s, k)
  <2>1. b = Drop(s, {k})
    BY <1>1 DEF Evict
  <2>2. StoreOKBut(b, {} \ {k}) /\ {} \ {k} = {}
    BY <2>1, DropKeeps DEF StoreOK
  <2>3. Loses(s, b, {k})
    BY <2>1, DropIs
  <2>4. Gone(b, k) /\ Elsewhere(s, b, k)
    BY <2>3 DEF Loses, Elsewhere
  <2>5. Quiet(s, b, k, at)
    BY <1>1, <2>4 DEF Quiet, Due
  <2>. QED
    BY <2>2, <2>4, <2>5 DEF StoreOK, Holds, Gone
<1>2. CASE ~(Due(s, k, at) /\ Holds(s, k))
  <2>1. b = s
    BY <1>2 DEF Evict
  <2>. QED
    BY <2>1 DEF Elsewhere, Kept, Same
<1>. QED
  BY <1>1, <1>2

\* Lazy expiry is faithful.
LEMMA EvictFaithful ==
  ASSUME NEW s, StoreOK(s), NEW k \in Keys, NEW at
  PROVE  Faithful(s, Nothing(s), at) /\ Faithful(s, Nothing(Evict(s, k, at)), at)
<1>1. \A j \in Keys : Kept(s, s, j)
  BY DEF Kept, Same
<1>2. PICK b : b = Evict(s, k, at)
  OBVIOUS
<1>3. StoreOK(b) /\ Elsewhere(s, b, k) /\ (b = s \/ Quiet(s, b, k, at))
  BY <1>2, EvictIs
<1>4. \A j \in Keys : Kept(s, b, j) \/ Quiet(s, b, j, at)
  BY <1>1, <1>3 DEF Elsewhere
<1>. QED
  BY <1>1, <1>2, <1>3, <1>4, NothingFaithful

\* A read reorders the tracker and nothing else.
LEMMA TouchReadIs ==
  ASSUME NEW s, StoreOK(s), NEW k \in Keys
  PROVE  /\ StoreOK(TouchRead(s, k))
         /\ TouchRead(s, k).data = s.data /\ TouchRead(s, k).expires = s.expires
<1>. DEFINE t == TouchRead(s, k)
            warm == Warmed(s.lru, k)
<1>1. /\ StoreType(s, {}) /\ LruType(s) /\ ToSet(s.lru) = DOMAIN s.data
      /\ Len(s.lru) <= LruMax
  BY DEF StoreOK, StoreOKBut
<1>2. CASE k \in ToSet(s.lru)
  <2>1. /\ warm \in Seq(Keys) /\ NoRepeats(warm)
        /\ ToSet(warm) = ToSet(s.lru) \union {k}
    BY <1>1, WarmedIs DEF LruType
  <2>2. t = [s EXCEPT !.lru = warm]
    BY <1>2 DEF TouchRead
  <2>. HIDE DEF warm, t
  <2>3. t = [data |-> s.data, expires |-> s.expires, lru |-> warm]
    BY <1>1, <2>2 DEF StoreType
  <2>4. /\ t = [data |-> t.data, expires |-> t.expires, lru |-> t.lru]
        /\ t.data = s.data /\ t.expires = s.expires /\ t.lru = warm
    BY <2>3
  <2>5. ToSet(warm) = ToSet(s.lru)
    BY <1>2, <2>1
  <2>6. Len(warm) <= Len(s.lru) /\ Len(warm) \in Nat /\ Len(s.lru) \in Nat
    <3>1. s.lru \in Seq(Keys) /\ NoRepeats(s.lru)
      BY <1>1 DEF LruType
    <3>. QED
      BY <2>1, <2>5, <3>1, NotLonger
  <2>7. Len(t.lru) <= LruMax
    BY <1>1, <2>4, <2>6, KeyspaceAssumption
  <2>8. StoreType(t, {})
    BY <1>1, <2>4 DEF StoreType
  <2>9. StoreOK(t)
    BY <1>1, <2>1, <2>4, <2>5, <2>7, <2>8 DEF StoreOK, StoreOKBut, LruType
  <2>. QED
    BY <2>4, <2>9 DEF t
<1>3. CASE k \notin ToSet(s.lru)
  BY <1>3 DEF TouchRead
<1>. QED
  BY <1>2, <1>3

\* GET is faithful.
LEMMA GetFaithful ==
  ASSUME NEW s, StoreOK(s), NEW k \in Keys, NEW at
  PROVE  Faithful(s, Get(s, k, at), at)
<1>1. CASE Stuck(s, k, at)
  BY <1>1, EvictFaithful DEF Get
<1>2. CASE ~Stuck(s, k, at)
  <2>1. PICK b : b = Evict(s, k, at)
    OBVIOUS
  <2>2. StoreOK(b) /\ Elsewhere(s, b, k) /\ (b = s \/ Quiet(s, b, k, at))
    BY <2>1, EvictIs
  <2>3. PICK t : t = TouchRead(b, k)
    OBVIOUS
  <2>4. StoreOK(t) /\ t.data = b.data /\ t.expires = b.expires
    BY <2>2, <2>3, TouchReadIs
  <2>5. \A j \in Keys : Kept(s, b, j) \/ Quiet(s, b, j, at)
    BY <2>2 DEF Elsewhere, Kept, Same
  <2>6. \A j \in Keys : Kept(s, t, j) \/ Quiet(s, t, j, at)
    BY <2>4, <2>5 DEF Kept, Quiet, Gone
  <2>7. Get(s, k, at) = Nothing(t)
    BY <1>2, <2>1, <2>3 DEF Get
  <2>. QED
    BY <2>4, <2>6, <2>7, NothingFaithful
<1>. QED
  BY <1>1, <1>2

\* DEL is faithful.
LEMMA DeleteFaithful ==
  ASSUME NEW s, StoreOK(s), NEW k \in Keys, NEW at
  PROVE  Faithful(s, Delete(s, k, at), at)
<1>1. CASE Stuck(s, k, at)
  BY <1>1, EvictFaithful DEF Delete
<1>2. CASE ~Stuck(s, k, at) /\ ~Holds(Evict(s, k, at), k)
  <2>1. Delete(s, k, at) = Nothing(Evict(s, k, at))
    BY <1>2 DEF Delete
  <2>. QED
    BY <2>1, EvictFaithful
<1>3. CASE ~Stuck(s, k, at) /\ Holds(Evict(s, k, at), k)
  <2>. DEFINE c == Delete(s, k, at)
              names == <<k>>
  <2>1. Evict(s, k, at) = s
    BY <1>3, EvictIs
  <2>2. c = [st |-> Drop(s, {k}), out |-> <<Deleted(k)>>]
    BY <1>3, <2>1 DEF Delete
  <2>3. names \in Seq(Keys) /\ ToSet(names) = {k} /\ Deletes(names) = <<Deleted(k)>>
    <3>1. DOMAIN names = {1} /\ names[1] = k /\ names \in Seq(Keys)
      OBVIOUS
    <3>2. Deletes(names) = [i \in {1} |-> Deleted(k)]
      BY <3>1 DEF Deletes
    <3>3. [i \in {1} |-> Deleted(k)] = <<Deleted(k)>>
      OBVIOUS
    <3>. QED
      BY <3>1, <3>2, <3>3 DEF ToSet
  <2>. HIDE DEF c, names
  <2>4. c.st = Drop(s, {k}) /\ c.out = Deletes(names)
    BY <2>2, <2>3
  <2>5. StoreOKBut(c.st, {} \ {k}) /\ {} \ {k} = {}
    BY <2>4, DropKeeps DEF StoreOK
  <2>6. \A j \in Keys : IF j \in ToSet(names) THEN Gone(c.st, j) ELSE Kept(s, c.st, j)
    BY <2>3, <2>4, DropIs DEF Loses
  <2>7. Faithful(s, c, at)
    BY <2>3, <2>4, <2>5, <2>6, ErasedFaithful DEF StoreOK
  <2>. QED
    BY <2>7 DEF c
<1>. QED
  BY <1>1, <1>2, <1>3

\* Overdue and ListKeys: what is swept is in order, and nothing else changes.
LEMMA SweepIs ==
  ASSUME NEW s, StoreOK(s), NEW order \in Seq(Keys)
  PROVE  /\ Sweep(s, order).st = Drop(s, ToSet(order))
         /\ Sweep(s, order).out = Deletes(order)
         /\ StoreOK(Drop(s, ToSet(order)))
         /\ Loses(s, Drop(s, ToSet(order)), ToSet(order))
<1>1. StoreOKBut(Drop(s, ToSet(order)), {} \ ToSet(order)) /\ {} \ ToSet(order) = {}
  BY DropKeeps DEF StoreOK
<1>. QED
  BY <1>1, DropIs DEF Sweep, Deletes, StoreOK

\* The sweep is faithful.
LEMMA SweepFaithful ==
  ASSUME NEW s, StoreOK(s), NEW order \in Seq(Keys), NEW at
  PROVE  Faithful(s, Sweep(s, order), at)
<1>1. PICK c : c = Sweep(s, order)
  OBVIOUS
<1>2. StoreOK(c.st) /\ c.out = Deletes(order) /\ Loses(s, c.st, ToSet(order))
  BY <1>1, SweepIs
<1>. QED
  BY <1>1, <1>2, ErasedFaithful DEF Loses

\* So is the housekeeping between commands.
LEMMA HousekeepFaithful ==
  ASSUME NEW s, StoreOK(s), NEW order \in Seq(Keys), NEW at
  PROVE  Faithful(s, Housekeep(s, order), at)
<1>1. PICK w : w = Drop(s, ToSet(order))
  OBVIOUS
<1>2. /\ Sweep(s, order).st = w /\ Sweep(s, order).out = Deletes(order)
      /\ StoreOK(w) /\ Loses(s, w, ToSet(order))
  BY <1>1, SweepIs
<1>3. /\ StoreType(w, {}) /\ LruType(w) /\ ToSet(w.lru) = DOMAIN w.data
      /\ Len(w.lru) <= LruMax
  BY <1>2 DEF StoreOK, StoreOKBut
<1>. DEFINE c == Housekeep(s, order)
            keys == DOMAIN w.data
            known == Chosen(w.lru, keys)
            strays == SetToSeq(keys \ ToSet(known))
            left == Restrict(w.expires, DOMAIN w.expires \intersect keys)
<1>4. c = [st |-> [data |-> w.data, expires |-> left, lru |-> strays \o known],
           out |-> Deletes(order)]
  BY <1>2 DEF Housekeep
<1>5. /\ known \in Seq(Keys) /\ NoRepeats(known)
      /\ ToSet(known) = ToSet(w.lru) \intersect keys
  BY <1>3, ChosenFrom DEF LruType
<1>6. ToSet(known) = keys
  BY <1>3, <1>5
<1>7. strays = <<>>
  <2>1. keys \ ToSet(known) = {}
    BY <1>6
  <2>2. SetToSeq({}) = <<>>
    <3>1. Cardinality({}) = 0
      BY FS_EmptySet
    <3>2. 1..0 = {}
      OBVIOUS
    <3>3. \E f \in [1..0 -> {}] : IsInjective(f)
      <4>1. <<>> \in [1..0 -> {}] /\ DOMAIN <<>> = {}
        OBVIOUS
      <4>. QED
        BY <4>1 DEF IsInjective
    <3>4. SetToSeq({}) \in [1..0 -> {}]
      BY <3>1, <3>3 DEF SetToSeq
    <3>5. SetToSeq({}) = [i \in {} |-> 0]
      BY <3>2, <3>4
    <3>6. [i \in {} |-> 0] = <<>>
      OBVIOUS
    <3>. QED
      BY <3>5, <3>6
  <2>. HIDE DEF keys, known
  <2>. QED
    BY <2>1, <2>2
<1>8. strays \o known = known
  <2>. HIDE DEF strays, known
  <2>. QED
    BY <1>5, <1>7
<1>9. Len(known) <= LruMax
  <2>1. w.lru \in Seq(Keys) /\ NoRepeats(w.lru) /\ ToSet(known) \subseteq ToSet(w.lru)
    BY <1>3, <1>6 DEF LruType
  <2>. HIDE DEF known
  <2>2. Len(known) <= Len(w.lru)
    BY <1>5, <2>1, NotLonger
  <2>3. Len(known) \in Nat /\ Len(w.lru) \in Nat
    BY <1>5, <2>1
  <2>. QED
    BY <1>3, <2>2, <2>3, KeyspaceAssumption
<1>10. /\ DOMAIN left = DOMAIN w.expires \intersect keys
       /\ \A k \in DOMAIN left : left[k] = w.expires[k]
  BY DEF Restrict
<1>. HIDE DEF strays, known, left, c
<1>11. /\ c.st = [data |-> c.st.data, expires |-> c.st.expires, lru |-> c.st.lru]
       /\ c.st.data = w.data /\ c.st.expires = left /\ c.st.lru = known
       /\ c.out = Deletes(order)
  BY <1>4, <1>8
<1>12. StoreType(c.st, {})
  BY <1>3, <1>10, <1>11 DEF StoreType
<1>13. StoreOK(c.st)
  BY <1>5, <1>6, <1>9, <1>11, <1>12 DEF StoreOK, StoreOKBut, LruType
<1>14. ASSUME NEW k \in Keys
       PROVE  IF k \in ToSet(order) THEN Gone(c.st, k)
              ELSE Kept(s, c.st, k) \/ Quiet(s, c.st, k, at)
  <2>1. CASE k \in ToSet(order)
    BY <1>2, <1>10, <1>11, <2>1 DEF Loses, Gone
  <2>2. CASE k \notin ToSet(order) /\ k \in keys
    BY <1>2, <1>10, <1>11, <2>2 DEF Loses, Kept, Same
  <2>3. CASE k \notin ToSet(order) /\ k \notin keys
    <3>1. Gone(c.st, k) /\ Kept(s, w, k)
      BY <1>2, <1>10, <1>11, <2>3 DEF Loses, Gone
    <3>. QED
      BY <2>3, <3>1 DEF Gone, Kept, Same, Quiet
  <2>. QED
    BY <2>1, <2>2, <2>3
<1>15. Faithful(s, c, at)
  BY <1>11, <1>13, <1>14, ErasedFaithful
<1>. QED
  BY <1>15 DEF c

\* A write that is logged first and then touches its key.
LEMMA LoggedIs ==
  ASSUME NEW record, NEW t, NEW names, t = [st |-> t.st, out |-> Deletes(names)]
  PROVE  /\ Logged(record, t).st = t.st
         /\ Logged(record, t).out = <<record>> \o Deletes(names)
BY DEF Logged

\* SET is faithful.
LEMMA SetFaithful ==
  ASSUME NEW s, StoreOK(s), NEW k \in Keys, NEW v \in Values, NEW at
  PROVE  Faithful(s, Set(s, k, v), at)
<1>. DEFINE q == SetRecord(k, v)
            g == GaveAnew(s, k, String(v))
            t == TouchWrite(g, k)
            c == Set(s, k, v)
<1>1. c = Logged(q, t)
  BY DEF Set, SetRecord, GaveAnew
<1>2. IsContents(String(v))
  BY DEF IsContents
<1>3. /\ Ready(g, k, {}) /\ Holding(g, k, String(v))
      /\ Elsewhere(s, g, k) /\ k \notin DOMAIN g.expires
  BY <1>2, GaveAnewIs
<1>4. q \in Records /\ q.key = k /\ q.cmd = "SET"
  BY DEF SetRecord, Records
<1>. HIDE DEF g
<1>5. PICK names : Touches(g, t, k, names, {})
  BY <1>3, TouchReady
<1>. HIDE DEF t, c
<1>6. /\ names \in Seq(Keys) /\ k \notin ToSet(names) /\ StoreOK(t.st)
      /\ t = [st |-> t.st, out |-> Deletes(names)] /\ Loses(g, t.st, ToSet(names))
  BY <1>5 DEF Touches, StoreOK
<1>7. c.st = t.st /\ c.out = <<q>> \o Deletes(names)
  BY <1>1, <1>6, LoggedIs
<1>8. \A j \in Keys \ {k} : IF j \in ToSet(names) THEN Gone(c.st, j) ELSE Kept(s, c.st, j)
  BY <1>3, <1>6, <1>7 DEF Loses, Elsewhere, Gone, Kept, Same
<1>9. Holding(c.st, k, String(v)) /\ k \notin DOMAIN c.st.expires
  BY <1>3, <1>6, <1>7 DEF Loses, Kept, Same, Holding
<1>10. k \in Orphans(c.st) => k \in Orphans(s)
  BY <1>9 DEF Orphans
<1>11. Here(s, c.st, q, k, at)
  <2>1. ASSUME NEW r, ReplayOK(r), NEW p, p = Redo(r, q), Clean(p)
        PROVE  /\ Clean(r) /\ Elsewhere(r.st, p.st, k) /\ EqualKey(c.st, p.st, k, at)
    <3>1. /\ Clean(r) /\ Elsewhere(r.st, p.st, k)
          /\ Holding(p.st, k, String(v)) /\ k \notin DOMAIN p.st.expires
      BY <2>1, RedoSet
    <3>. QED
      BY <1>9, <3>1 DEF EqualKey, Holding, Same
  <2>. QED
    BY <1>4, <2>1 DEF Here
<1>12. Faithful(s, c, at)
  BY <1>4, <1>6, <1>7, <1>8, <1>10, <1>11, LoggedFaithful
<1>. QED
  BY <1>12 DEF c

\* One value pushed is a list grown by it.
LEMMA PutIs ==
  ASSUME NEW old \in Seq(Values), NEW v \in Values, NEW side \in Ends
  PROVE  Put(old, v, side) = Grown(old, <<v>>, side)
<1>1. Reverse(<<v>>) = <<v>>
  BY DEF Reverse
<1>2. Append(old, v) = old \o <<v>>
  BY AppendIsConcat
<1>. QED
  BY <1>1, <1>2 DEF Put, Grown, Ends

\* The same value and the same deadline at k, in what came of two stores.
LEMMA EqualHolding ==
  ASSUME NEW s, NEW t, NEW k, NEW c, NEW at, Holding(s, k, c), Holding(t, k, c),
         Same(s.expires, t.expires, k)
  PROVE  EqualKey(s, t, k, at)
BY DEF EqualKey, Holding, Same

\* A push is faithful.
LEMMA PushFaithful ==
  ASSUME NEW s, StoreOK(s), NEW k \in Keys, NEW v \in Values, NEW side \in Ends, NEW at
  PROVE  Faithful(s, Push(s, k, v, side, at), at)
<1>. DEFINE b == Evict(s, k, at)
<1>1. /\ StoreOK(b) /\ Elsewhere(s, b, k)
      /\ b = s \/ Quiet(s, b, k, at)
  BY EvictIs
<1>2. CASE Stuck(s, k, at)
  BY <1>2, EvictFaithful DEF Push
<1>3. CASE ~Stuck(s, k, at) /\ IsString(b, k)
  <2>1. Push(s, k, v, side, at) = Nothing(b)
    BY <1>3 DEF Push
  <2>. QED
    BY <2>1, EvictFaithful
<1>4. CASE ~Stuck(s, k, at) /\ ~IsString(b, k)
  <2>. DEFINE q == PushRecord(k, <<v>>, side)
              old == Old(b, k)
              list == List(Put(old, v, side))
              g == Gave(b, k, list)
              t == TouchWrite(g, k)
              c == Push(s, k, v, side, at)
  <2>1. c = Logged(q, t)
    BY <1>4 DEF Push, PushRecord, Gave, Old
  <2>. HIDE DEF b
  <2>2. <<v>> \in Pushes
    BY DEF Pushes
  <2>3. old \in Seq(Values) /\ Put(old, v, side) = Grown(old, <<v>>, side)
    BY <1>1, OldIs, PutIs
  <2>4. list = List(Grown(old, <<v>>, side)) /\ Grown(old, <<v>>, side) \in Pushes
    BY <2>2, <2>3, GrownIs
  <2>5. IsContents(list)
    BY <2>4 DEF IsContents, Pushes
  <2>. HIDE DEF list, old
  <2>6. /\ Ready(g, k, {}) /\ Holding(g, k, list)
        /\ Elsewhere(b, g, k) /\ Same(b.expires, g.expires, k)
    BY <1>1, <2>5, GaveIs
  <2>7. q \in Records /\ q.key = k /\ q.cmd = "PUSH"
    BY <2>2 DEF PushRecord, Records
  <2>. HIDE DEF g
  <2>8. PICK names : Touches(g, t, k, names, {})
    BY <2>6, TouchReady
  <2>. HIDE DEF t, c
  <2>9. /\ names \in Seq(Keys) /\ k \notin ToSet(names) /\ StoreOK(t.st)
        /\ t = [st |-> t.st, out |-> Deletes(names)] /\ Loses(g, t.st, ToSet(names))
    BY <2>8 DEF Touches, StoreOK
  <2>10. c.st = t.st /\ c.out = <<q>> \o Deletes(names)
    BY <2>1, <2>9, LoggedIs
  <2>11. \A j \in Keys \ {k} : IF j \in ToSet(names) THEN Gone(c.st, j) ELSE Kept(s, c.st, j)
    BY <1>1, <2>6, <2>9, <2>10 DEF Loses, Elsewhere, Gone, Kept, Same
  <2>12. Holding(c.st, k, list) /\ Same(b.expires, c.st.expires, k)
    BY <2>6, <2>9, <2>10 DEF Loses, Kept, Same, Holding
  <2>13. k \in Orphans(c.st) => k \in Orphans(s)
    BY <2>12 DEF Orphans, Holding
  <2>14. Here(s, c.st, q, k, at)
    <3>1. ASSUME NEW r, ReplayOK(r), NEW p, p = Redo(r, q), Clean(p)
          PROVE  /\ Clean(r) /\ Elsewhere(r.st, p.st, k)
                 /\ EqualKey(s, r.st, k, at) /\ k \notin Undated(s, c.st) =>
                      EqualKey(c.st, p.st, k, at)
      <4>1. /\ Clean(r) /\ Elsewhere(r.st, p.st, k)
            /\ Holding(p.st, k, List(Grown(Old(r.st, k), <<v>>, side)))
            /\ Same(r.st.expires, p.st.expires, k)
        BY <2>2, <3>1, RedoPush
      <4>2. ASSUME EqualKey(s, r.st, k, at), k \notin Undated(s, c.st)
            PROVE  EqualKey(c.st, p.st, k, at)
        <5>1. b = s
          <6>1. ~Quiet(s, b, k, at)
            BY <2>12, <4>2 DEF Undated, Quiet, Gone, Same
          <6>. QED
            BY <1>1, <6>1
        <5>2. Same(s.data, r.st.data, k) /\ Same(s.expires, r.st.expires, k)
          BY <1>4, <4>2 DEF EqualKey
        <5>3. Old(r.st, k) = old
          BY <5>1, <5>2 DEF Old, Holds, Same, old
        <5>4. Holding(p.st, k, list)
          BY <2>4, <4>1, <5>3
        <5>5. Same(c.st.expires, p.st.expires, k)
          BY <2>12, <4>1, <5>1, <5>2 DEF Same
        <5>. QED
          BY <2>12, <5>4, <5>5, EqualHolding
      <4>. QED
        BY <4>1, <4>2
    <3>. QED
      BY <2>7, <3>1 DEF Here
  <2>15. Faithful(s, c, at)
    BY <2>7, <2>9, <2>10, <2>11, <2>13, <2>14, LoggedFaithful
  <2>. QED
    BY <2>15 DEF c
<1>. QED
  BY <1>2, <1>3, <1>4

\* A pop is faithful.
LEMMA PopFaithful ==
  ASSUME NEW s, StoreOK(s), NEW k \in Keys, NEW side \in Ends, NEW at
  PROVE  Faithful(s, Pop(s, k, side, at), at)
<1>. DEFINE b == Evict(s, k, at)
<1>1. b # s => ~Holds(b, k)
  BY EvictIs
<1>2. CASE Stuck(s, k, at)
  BY <1>2, EvictFaithful DEF Pop
<1>3. CASE ~Stuck(s, k, at) /\ ~IsList(b, k)
  <2>1. Pop(s, k, side, at) = Nothing(b)
    BY <1>3 DEF Pop
  <2>. QED
    BY <2>1, EvictFaithful
<1>4. CASE ~Stuck(s, k, at) /\ IsList(b, k)
  <2>. DEFINE q == PopRecord(k, side)
              g == Popped(s, k, side)
              t == TouchWrite(g, k)
              w == [t EXCEPT !.st = Emptied(@, k)]
              x == Took(s.data[k].items, side)
              c == Pop(s, k, side, at)
  <2>1. b = s /\ IsList(s, k) /\ k \in DOMAIN s.data
    BY <1>1, <1>4 DEF IsList, Holds
  <2>2. c = Logged(q, w)
    BY <1>4, <2>1 DEF Pop, PopRecord, Popped
  <2>. HIDE DEF b
  <2>3. /\ Ready(g, k, {k}) /\ Holding(g, k, List(x)) /\ x \in Seq(Values)
        /\ Elsewhere(s, g, k) /\ Same(s.expires, g.expires, k)
    BY <2>1, PoppedIs DEF Ends
  <2>4. q \in Records /\ q.key = k /\ q.cmd = "POP"
    BY DEF PopRecord, Records
  <2>. HIDE DEF g, x
  <2>5. PICK names : Touches(g, t, k, names, {k})
    BY <2>3, TouchReady
  <2>. HIDE DEF t, c
  <2>6. /\ names \in Seq(Keys) /\ k \notin ToSet(names) /\ StoreOKBut(t.st, {k})
        /\ t = [st |-> t.st, out |-> Deletes(names)] /\ Loses(g, t.st, ToSet(names))
    BY <2>5 DEF Touches
  <2>7. Holding(t.st, k, List(x)) /\ Same(s.expires, t.st.expires, k)
    BY <2>3, <2>6 DEF Loses, Kept, Same, Holding
  <2>. DEFINE e == Emptied(t.st, k)
  <2>8. /\ StoreOK(e) /\ Elsewhere(t.st, e, k)
        /\ x = <<>> => Gone(e, k)
        /\ x # <<>> => e = t.st
    BY <2>3, <2>6, <2>7, EmptiedIs
  <2>9. w = [st |-> e, out |-> Deletes(names)]
    BY <2>6
  <2>. HIDE DEF e, w
  <2>10. w.st = e /\ w = [st |-> w.st, out |-> Deletes(names)]
    BY <2>9
  <2>11. c.st = e /\ c.out = <<q>> \o Deletes(names)
    BY <2>2, <2>10, LoggedIs
  <2>12. \A j \in Keys \ {k} : IF j \in ToSet(names) THEN Gone(c.st, j) ELSE Kept(s, c.st, j)
    BY <2>3, <2>6, <2>8, <2>11 DEF Loses, Elsewhere, Gone, Kept, Same
  <2>13. k \in Orphans(c.st) => k \in Orphans(s)
    BY <2>7, <2>8, <2>11 DEF Orphans, Holding, Gone
  <2>14. Here(s, c.st, q, k, at)
    <3>1. ASSUME NEW r, ReplayOK(r), NEW p, p = Redo(r, q), Clean(p)
          PROVE  /\ Clean(r) /\ Elsewhere(r.st, p.st, k)
                 /\ EqualKey(s, r.st, k, at) =>
                      IF k \in Undated(s, c.st) THEN LooseKey(c.st, p.st, k, at)
                      ELSE EqualKey(c.st, p.st, k, at)
      <4>. DEFINE y == Took(r.st.data[k].items, side)
      <4>1. /\ Clean(r) /\ Elsewhere(r.st, p.st, k)
            /\ Same(r.st.expires, p.st.expires, k)
            /\ IsList(r.st, k) /\ y = <<>> => k \notin DOMAIN p.st.data
            /\ IsList(r.st, k) /\ y # <<>> => Holding(p.st, k, List(y))
        BY <3>1, RedoPop
      <4>2. ASSUME EqualKey(s, r.st, k, at)
            PROVE  IF k \in Undated(s, c.st) THEN LooseKey(c.st, p.st, k, at)
                   ELSE EqualKey(c.st, p.st, k, at)
        <5>1. /\ k \in DOMAIN r.st.data /\ r.st.data[k] = s.data[k]
              /\ Same(s.expires, r.st.expires, k)
          BY <2>1, <4>2 DEF EqualKey, Same, Stuck, Holds
        <5>2. IsList(r.st, k) /\ y = x
          BY <2>1, <5>1 DEF IsList, Holds, x
        <5>. HIDE DEF y
        <5>3. Same(s.expires, p.st.expires, k)
          BY <4>1, <5>1 DEF Same
        <5>4. CASE x = <<>>
          <6>1. Gone(c.st, k) /\ k \notin DOMAIN p.st.data
            BY <2>8, <2>11, <4>1, <5>2, <5>4
          <6>2. CASE k \in Undated(s, c.st)
            BY <6>1, <6>2 DEF LooseKey
          <6>3. CASE k \notin Undated(s, c.st)
            <7>1. k \notin DOMAIN s.expires /\ k \notin DOMAIN p.st.expires
              BY <5>3, <6>1, <6>3 DEF Undated, Gone, Same
            <7>. QED
              BY <6>1, <6>3, <7>1 DEF EqualKey, Gone, Same
          <6>. QED
            BY <6>2, <6>3
        <5>5. CASE x # <<>>
          <6>1. Holding(c.st, k, List(x)) /\ Holding(p.st, k, List(x))
            BY <2>7, <2>8, <2>11, <4>1, <5>2, <5>5
          <6>2. Same(s.expires, c.st.expires, k)
            BY <2>7, <2>8, <2>11, <5>5
          <6>3. Same(c.st.expires, p.st.expires, k) /\ k \notin Undated(s, c.st)
            BY <5>3, <6>2 DEF Same, Undated
          <6>. QED
            BY <6>1, <6>3, EqualHolding
        <5>. QED
          BY <5>4, <5>5
      <4>. QED
        BY <4>1, <4>2
    <3>2. \A r : ~LooseKey(s, r.st, k, at)
      BY <2>1 DEF LooseKey, Gone
    <3>. QED
      BY <2>4, <3>1, <3>2 DEF Here
  <2>15. Faithful(s, c, at)
    BY <2>4, <2>6, <2>8, <2>11, <2>12, <2>13, <2>14, LoggedFaithful
  <2>. QED
    BY <2>15 DEF c
<1>. QED
  BY <1>2, <1>3, <1>4

\* EXPIRE is faithful.
LEMMA ExpireFaithful ==
  ASSUME NEW s, StoreOK(s), NEW k \in Keys, NEW n \in Nat, NEW at \in Nat
  PROVE  Faithful(s, Expire(s, k, n, at), at)
<1>. DEFINE b == Evict(s, k, at)
<1>1. b # s => ~Holds(b, k)
  BY EvictIs
<1>2. CASE Stuck(s, k, at)
  BY <1>2, EvictFaithful DEF Expire
<1>3. CASE ~Stuck(s, k, at) /\ ~Holds(b, k)
  <2>1. Expire(s, k, n, at) = Nothing(b)
    BY <1>3 DEF Expire
  <2>. QED
    BY <2>1, EvictFaithful
<1>4. CASE ~Stuck(s, k, at) /\ Holds(b, k)
  <2>. DEFINE q == TimeRecord(k, at + n)
              d == Dated(s, k, at + n)
              c == Expire(s, k, n, at)
  <2>1. b = s /\ k \in DOMAIN s.data
    BY <1>1, <1>4 DEF Holds
  <2>2. c = [st |-> d, out |-> <<q>>]
    BY <1>4, <2>1 DEF Expire, TimeRecord, Dated
  <2>3. at + n \in Nat
    OBVIOUS
  <2>4. /\ StoreOK(d) /\ Elsewhere(s, d, k) /\ d.data = s.data
        /\ k \in DOMAIN d.expires /\ d.expires[k] = at + n
    BY <2>3, DatedIs
  <2>5. q \in Records /\ q.key = k /\ q.cmd = "EXPIREAT"
    BY <2>3 DEF TimeRecord, Records
  <2>. HIDE DEF d, c, b
  <2>6. c.st = d /\ c.out = <<q>>
    BY <2>2
  <2>7. c.out = <<q>> \o Deletes(<<>>)
    <3>1. <<q>> \in Seq(Records) /\ Deletes(<<>>) = <<>>
      BY <2>5, NoDeletes
    <3>2. <<q>> \o <<>> = <<q>>
      BY <3>1, ConcatEmptySeq
    <3>. QED
      BY <2>6, <3>1, <3>2
  <2>8. \A j \in Keys \ {k} : IF j \in ToSet(<<>>) THEN Gone(c.st, j) ELSE Kept(s, c.st, j)
    BY <2>4, <2>6, NoDeletes DEF Elsewhere
  <2>9. k \in Orphans(c.st) => k \in Orphans(s)
    BY <2>1, <2>4, <2>6 DEF Orphans
  <2>10. Here(s, c.st, q, k, at)
    <3>1. ASSUME NEW r, ReplayOK(r), NEW p, p = Redo(r, q), Clean(p)
          PROVE  /\ Clean(r) /\ Elsewhere(r.st, p.st, k)
                 /\ EqualKey(s, r.st, k, at) => EqualKey(c.st, p.st, k, at)
      <4>1. /\ Clean(r) /\ Elsewhere(r.st, p.st, k) /\ p.st.data = r.st.data
            /\ k \in DOMAIN p.st.expires /\ p.st.expires[k] = at + n
        BY <2>3, <3>1, RedoTime
      <4>. QED
        BY <2>4, <2>6, <4>1 DEF EqualKey, Same
    <3>2. k \notin Undated(s, c.st)
      BY <2>4, <2>6 DEF Undated
    <3>3. \A r : ~LooseKey(s, r.st, k, at)
      BY <2>1 DEF LooseKey, Gone
    <3>. QED
      BY <2>5, <3>1, <3>2, <3>3 DEF Here
  <2>11. <<>> \in Seq(Keys) /\ k \notin ToSet(<<>>)
    BY NoDeletes
  <2>12. Faithful(s, c, at)
    BY <2>4, <2>5, <2>6, <2>7, <2>8, <2>9, <2>10, <2>11, LoggedFaithful
  <2>. QED
    BY <2>12 DEF c
<1>. QED
  BY <1>2, <1>3, <1>4

\* FLUSHALL is faithful.
LEMMA FlushFaithful ==
  ASSUME NEW s, StoreOK(s), NEW at
  PROVE  Faithful(s, FlushAll, at)
<1>. DEFINE c == FlushAll
<1>1. c.st = Empty /\ c.out = <<FlushRecord>>
  BY DEF FlushAll, FlushRecord
<1>2. StoreOK(Empty)
  BY EmptyOK
<1>3. FlushRecord \in Records /\ FlushRecord.cmd = "FLUSHALL"
  BY DEF Records, FlushRecord
<1>4. c.out \in Seq(Records)
  BY <1>1, <1>3
<1>5. \A k : Gone(Empty, k)
  BY DEF Empty, Gone
<1>6. Orphans(c.st) \subseteq Orphans(s)
  BY <1>1, <1>5 DEF Orphans, Gone
<1>7. Settled(c.out) = Keys
  <2>1. ToSet(<<FlushRecord>>) = {FlushRecord}
    BY DEF ToSet
  <2>. QED
    BY <1>1, <1>3, <2>1 DEF Settled
<1>8. ASSUME NEW r, NEW L, NEW S, ReplayOK(r), NEW p, p = Rolled(r, c.out)
      PROVE  Mirrors(c.st, p, LooseAfter(s, c, L), SpoiledAfter(s, c, L, S), at)
  <2>1. p = Redo(r, FlushRecord)
    BY <1>1, <1>8, RolledOne
  <2>2. p.failed = r.failed /\ p.evicted = r.evicted /\ (~r.failed => p.st = Empty)
    BY <1>8, <2>1, RedoFlush
  <2>3. ASSUME Clean(p), NEW k \in Keys
        PROVE  k \notin LooseAfter(s, c, L) /\ EqualKey(c.st, p.st, k, at)
    <3>1. p.st = Empty
      BY <2>2, <2>3 DEF Clean
    <3>. QED
      BY <1>1, <1>7, <3>1 DEF LooseAfter, EqualKey, Same
  <2>. HIDE DEF c
  <2>. QED
    BY <2>3 DEF Mirrors
<1>. QED
  BY <1>1, <1>2, <1>4, <1>6, <1>8 DEF Faithful


-----------------------------------------------------------------------------
(***************************************************************************)
(* The replay of a compacted log: first the values, then the deadlines.    *)
(***************************************************************************)
Start(base) == [st |-> base, failed |-> FALSE, evicted |-> FALSE]

\* A replay rolls the records forward, and goes on from where it was.
LEMMA ReplayIs ==
  ASSUME NEW base, StoreOK(base), NEW records \in Seq(Records)
  PROVE  /\ Replay(base, records) = Rolled(Start(base), records)
         /\ ReplayOK(Start(base)) /\ Clean(Start(base)) /\ Start(base).st = base
         /\ ReplayOK(Replay(base, records))
         /\ \A out \in Seq(Records) :
              Replay(base, records \o out) = Rolled(Replay(base, records), out)
<1>1. \A any : Replay(base, any) = Rolled(Start(base), any)
  BY DEF Replay, Rolled, Start
<1>2. ReplayOK(Start(base)) /\ Clean(Start(base)) /\ Start(base).st = base
  BY DEF ReplayOK, Start, Clean
<1>3. ReplayOK(Rolled(Start(base), records))
  BY <1>2, RolledKeeps
<1>4. \A out \in Seq(Records) :
        Rolled(Start(base), records \o out) = Rolled(Rolled(Start(base), records), out)
  BY RolledConcat
<1>. QED
  BY <1>1, <1>2, <1>3, <1>4

ValueRecord(s, k) ==
  IF IsString(s, k)
  THEN [cmd |-> "SET", key |-> k, items |-> s.data[k].items]
  ELSE [cmd |-> "PUSH", side |-> "right", key |-> k, items |-> s.data[k].items]

\* What compaction writes for a key.
LEMMA ValueRecordIs ==
  ASSUME NEW s, StoreOK(s), NEW k \in DOMAIN s.data
  PROVE  /\ k \in Keys
         /\ ValueRecord(s, k) \in Records
         /\ \/ \E v \in Values : ValueRecord(s, k) = SetRecord(k, v) /\ s.data[k] = String(v)
            \/ \E x \in Pushes : ValueRecord(s, k) = PushRecord(k, x, "right") /\ s.data[k] = List(x)
<1>. DEFINE c == s.data[k]
            q == ValueRecord(s, k)
<1>1. k \in Keys /\ IsContents(c)
  BY DEF StoreOK, StoreOKBut, StoreType
<1>2. IsString(s, k) <=> c.kind = "string"
  BY DEF IsString, Holds
<1>3. /\ c = [kind |-> c.kind, items |-> c.items]
      /\ c.items \in Seq(Values) /\ c.items # <<>>
      /\ \/ c.kind = "list"
         \/ c.kind = "string" /\ \E v \in Values : c.items = <<v>>
  <2>. HIDE DEF c
  <2>. QED
    BY <1>1, ContentsForms
<1>4. CASE c.kind = "string"
  <2>1. PICK v \in Values : c.items = <<v>>
    BY <1>3, <1>4
  <2>2. c = String(v)
    BY <1>3, <1>4, <2>1 DEF String
  <2>3. q = SetRecord(k, v)
    BY <1>2, <1>4, <2>1 DEF ValueRecord, SetRecord
  <2>4. q \in Records
    BY <1>1, <2>3 DEF Records
  <2>. QED
    BY <1>1, <2>2, <2>3, <2>4
<1>5. CASE c.kind = "list"
  <2>1. PICK x \in Pushes : x = c.items
    BY <1>3 DEF Pushes
  <2>2. c = List(x)
    BY <1>3, <1>5, <2>1 DEF List
  <2>3. q = PushRecord(k, x, "right")
    BY <1>2, <1>5, <2>1 DEF ValueRecord, PushRecord
  <2>4. q \in Records
    BY <1>1, <2>3 DEF Records, Ends
  <2>. QED
    BY <1>1, <2>2, <2>3, <2>4
<1>. QED
  BY <1>3, <1>4, <1>5

\* t has the values that s has for these keys, and no deadlines.
Halfway(s, t, done) ==
  \A k \in Keys : /\ IF k \in done THEN Holding(t, k, s.data[k]) ELSE k \notin DOMAIN t.data
                  /\ k \notin DOMAIN t.expires

\* It gives the key its value in a replay.
LEMMA ValueReplayed ==
  ASSUME NEW s, StoreOK(s), NEW k \in DOMAIN s.data, NEW done, k \notin done,
         NEW r, ReplayOK(r), Clean(r) => Halfway(s, r.st, done),
         NEW q, q = Redo(r, ValueRecord(s, k))
  PROVE  ReplayOK(q) /\ (Clean(q) => Clean(r) /\ Halfway(s, q.st, done \union {k}))
<1>1. k \in Keys
  BY ValueRecordIs
<1>2. CASE \E v \in Values : ValueRecord(s, k) = SetRecord(k, v) /\ s.data[k] = String(v)
  <2>1. PICK v \in Values : ValueRecord(s, k) = SetRecord(k, v) /\ s.data[k] = String(v)
    BY <1>2
  <2>2. /\ ReplayOK(q)
        /\ Clean(q) => /\ Clean(r) /\ Elsewhere(r.st, q.st, k)
                       /\ Holding(q.st, k, String(v)) /\ k \notin DOMAIN q.st.expires
    BY <1>1, <2>1, RedoSet
  <2>. QED
    BY <2>1, <2>2 DEF Halfway, Elsewhere, Kept, Same, Holding
<1>3. CASE \E x \in Pushes : ValueRecord(s, k) = PushRecord(k, x, "right") /\ s.data[k] = List(x)
  <2>1. PICK x \in Pushes : ValueRecord(s, k) = PushRecord(k, x, "right") /\ s.data[k] = List(x)
    BY <1>3
  <2>2. /\ ReplayOK(q)
        /\ Clean(q) => /\ Clean(r) /\ Elsewhere(r.st, q.st, k)
                       /\ Holding(q.st, k, List(Grown(Old(r.st, k), x, "right")))
                       /\ Same(r.st.expires, q.st.expires, k)
    <3>1. "right" \in Ends
      BY DEF Ends
    <3>. QED
      BY <1>1, <2>1, <3>1, RedoPush
  <2>3. ASSUME Clean(q) PROVE Grown(Old(r.st, k), x, "right") = x
    <3>1. k \notin DOMAIN r.st.data
      BY <1>1, <2>2, <2>3 DEF Halfway
    <3>2. Old(r.st, k) = <<>>
      BY <3>1 DEF Old, Holds
    <3>3. <<>> \o x = x
      BY DEF Pushes
    <3>. QED
      BY <3>2, <3>3 DEF Grown
  <2>. QED
    BY <2>1, <2>2, <2>3 DEF Halfway, Elsewhere, Kept, Same, Holding
<1>. QED
  BY <1>2, <1>3, ValueRecordIs

\* All of them give the keys their values.
LEMMA ValuesReplayed ==
  ASSUME NEW s, StoreOK(s), NEW names \in Seq(DOMAIN s.data), NoRepeats(names),
         NEW values, values = [i \in DOMAIN names |-> ValueRecord(s, names[i])],
         NEW q, q = Rolled(Start(Empty), values)
  PROVE  ReplayOK(q) /\ (Clean(q) => Halfway(s, q.st, ToSet(names)))
<1>. DEFINE len == Len(names)
            Before(n) == {names[i] : i \in 1..n}
<1>1. len \in Nat /\ DOMAIN names = 1..len /\ \A n \in 1..len : names[n] \in DOMAIN s.data
  OBVIOUS
<1>2. DOMAIN values = 1..len /\ \A n \in 1..len : values[n] = ValueRecord(s, names[n])
  BY <1>1
<1>. HIDE DEF len
<1>3. PICK f : Follows(f, Start(Empty), values, len)
  BY <1>1, <1>2, RolledSteps
<1>. DEFINE Good(p, done) == ReplayOK(p) /\ (Clean(p) => Halfway(s, p.st, done))
            S == {n \in 0..len : Good(f[n], Before(n))}
<1>4. 0 \in S
  <2>1. Before(0) = {} /\ 0 \in 0..len /\ f[0] = Start(Empty)
    BY <1>1, <1>3 DEF Follows
  <2>2. StoreOK(Empty) /\ Start(Empty).st = Empty
    BY EmptyOK DEF Start
  <2>3. ReplayOK(Start(Empty))
    BY <2>2 DEF ReplayOK, Start
  <2>4. Halfway(s, Empty, {})
    BY DEF Halfway, Empty
  <2>. QED
    BY <2>1, <2>2, <2>3, <2>4
<1>5. ASSUME NEW n \in 1..len, n - 1 \in S PROVE n \in S
  <2>. DEFINE k == names[n]
              done == Before(n - 1)
              r == f[n - 1]
              p == f[n]
  <2>1. p = Redo(r, ValueRecord(s, k)) /\ k \in DOMAIN s.data /\ n \in 0..len /\ n \in Nat
    BY <1>1, <1>2, <1>3 DEF Follows
  <2>2. Good(r, done)
    BY <1>5
  <2>3. Before(n) = done \union {k}
    <3>1. \A i : i \in 1..n <=> i \in 1..(n - 1) \/ i = n
      BY <2>1
    <3>. QED
      BY <3>1
  <2>4. k \notin done
    <3>1. \A i \in 1..(n - 1) : i \in DOMAIN names /\ n \in DOMAIN names /\ i # n
      BY <1>1, <2>1
    <3>. QED
      BY <3>1 DEF NoRepeats
  <2>. HIDE DEF k, done, r, p
  <2>5. ReplayOK(p) /\ (Clean(p) => Clean(r) /\ Halfway(s, p.st, done \union {k}))
    BY <2>1, <2>2, <2>4, ValueReplayed
  <2>6. Good(p, Before(n))
    BY <2>3, <2>5
  <2>. QED
    BY <2>1, <2>6 DEF p
<1>. HIDE DEF S
<1>6. \A n \in 0..len : n \in S
  BY <1>1, <1>4, <1>5, Redone!UpTo
<1>7. len \in S
  BY <1>1, <1>6
<1>8. Good(f[len], Before(len))
  BY <1>7 DEF S
<1>9. f[len] = q
  BY <1>3 DEF Follows
<1>10. Before(len) = ToSet(names)
  BY <1>1 DEF ToSet
<1>. HIDE DEF Before
<1>. QED
  BY <1>8, <1>9, <1>10

\* From s to t the values stay, and the keys in done get the deadlines of due.
DatedAll(s, t, due, done) ==
  /\ t.data = s.data
  /\ \A k \in Keys :
       IF k \in done THEN k \in DOMAIN t.expires /\ t.expires[k] = due[k]
       ELSE Same(s.expires, t.expires, k)

\* The deadlines that compaction writes, replayed.
LEMMA TimesReplayed ==
  ASSUME NEW due, DOMAIN due \subseteq Keys, \A k \in DOMAIN due : due[k] \in Nat,
         NEW timed \in Seq(DOMAIN due),
         NEW times, times = [i \in DOMAIN timed |-> TimeRecord(timed[i], due[timed[i]])],
         NEW r, ReplayOK(r), NEW q, q = Rolled(r, times)
  PROVE  ReplayOK(q) /\ (Clean(q) => Clean(r) /\ DatedAll(r.st, q.st, due, ToSet(timed)))
<1>. DEFINE len == Len(timed)
            Before(n) == {timed[i] : i \in 1..n}
<1>1. len \in Nat /\ DOMAIN timed = 1..len /\ \A n \in 1..len : timed[n] \in DOMAIN due
  OBVIOUS
<1>2. DOMAIN times = 1..len /\ \A n \in 1..len : times[n] = TimeRecord(timed[n], due[timed[n]])
  BY <1>1
<1>. HIDE DEF len
<1>3. PICK f : Follows(f, r, times, len)
  BY <1>1, <1>2, RolledSteps
<1>. DEFINE Good(p, done) == ReplayOK(p) /\ (Clean(p) => Clean(r) /\ DatedAll(r.st, p.st, due, done))
            S == {n \in 0..len : Good(f[n], Before(n))}
<1>4. 0 \in S
  <2>1. Before(0) = {} /\ 0 \in 0..len /\ f[0] = r
    BY <1>1, <1>3 DEF Follows
  <2>2. DatedAll(r.st, r.st, due, {})
    BY DEF DatedAll, Same
  <2>. QED
    BY <2>1, <2>2
<1>5. ASSUME NEW n \in 1..len, n - 1 \in S PROVE n \in S
  <2>. DEFINE k == timed[n]
              done == Before(n - 1)
              b == f[n - 1]
              p == f[n]
  <2>1. /\ p = Redo(b, TimeRecord(k, due[k])) /\ k \in Keys /\ due[k] \in Nat
        /\ n \in 0..len /\ n \in Nat
    BY <1>1, <1>2, <1>3 DEF Follows
  <2>2. Good(b, done)
    BY <1>5
  <2>3. Before(n) = done \union {k}
    <3>1. \A i : i \in 1..n <=> i \in 1..(n - 1) \/ i = n
      BY <2>1
    <3>. QED
      BY <3>1
  <2>. HIDE DEF k, done, b, p
  <2>4. /\ ReplayOK(p)
        /\ Clean(p) => /\ Clean(b) /\ Elsewhere(b.st, p.st, k) /\ p.st.data = b.st.data
                       /\ k \in DOMAIN p.st.expires /\ p.st.expires[k] = due[k]
    BY <2>1, <2>2, RedoTime
  <2>5. ASSUME Clean(p) PROVE Clean(r) /\ DatedAll(r.st, p.st, due, done \union {k})
    <3>1. Clean(r) /\ DatedAll(r.st, b.st, due, done)
      BY <2>2, <2>4, <2>5
    <3>. QED
      BY <2>4, <2>5, <3>1 DEF DatedAll, Elsewhere, Kept, Same
  <2>6. Good(p, Before(n))
    BY <2>3, <2>4, <2>5
  <2>. QED
    BY <2>1, <2>6 DEF p
<1>. HIDE DEF S
<1>6. \A n \in 0..len : n \in S
  BY <1>1, <1>4, <1>5, Redone!UpTo
<1>7. len \in S
  BY <1>1, <1>6
<1>8. Good(f[len], Before(len))
  BY <1>7 DEF S
<1>9. f[len] = q
  BY <1>3 DEF Follows
<1>10. Before(len) = ToSet(timed)
  BY <1>1 DEF ToSet
<1>. HIDE DEF Before
<1>. QED
  BY <1>8, <1>9, <1>10

\* What compact_aof writes rebuilds the store, but for the keys that were due.
LEMMA CompactedMirrors ==
  ASSUME NEW s, StoreOK(s), NEW at \in Nat,
         NEW order \in SetToSeqs(DOMAIN s.data), NEW timed \in SetToSeqs(Timed(s, at)),
         NEW records, records = Compacted(s, order, timed)
  PROVE  /\ records \in Seq(Records)
         /\ Mirrors(s, Replay(Empty, records), {}, {k \in DOMAIN s.data : Due(s, k, at)}, at)
<1>. DEFINE values == [i \in DOMAIN order |-> ValueRecord(s, order[i])]
            times == [i \in DOMAIN timed |-> TimeRecord(timed[i], s.expires[timed[i]])]
<1>1. records = values \o times
  BY DEF Compacted, ValueRecord, TimeRecord
<1>2. /\ DOMAIN s.data \subseteq Keys /\ DOMAIN s.expires \subseteq Keys
      /\ \A k \in DOMAIN s.expires : s.expires[k] \in Nat
      /\ Timed(s, at) \subseteq DOMAIN s.expires
  BY DEF StoreOK, StoreOKBut, StoreType, Timed
<1>3. IsFiniteSet(DOMAIN s.data) /\ IsFiniteSet(Timed(s, at))
  <2>1. Timed(s, at) \subseteq Keys /\ IsFiniteSet(Keys)
    BY <1>2, KeyspaceAssumption
  <2>. QED
    BY <1>2, <2>1, FS_Subset
<1>4. /\ order \in Seq(DOMAIN s.data) /\ NoRepeats(order) /\ ToSet(order) = DOMAIN s.data
  BY <1>3, OrderOf
<1>5. /\ timed \in Seq(Timed(s, at)) /\ ToSet(timed) = Timed(s, at)
  BY <1>3, OrderOf
<1>6. timed \in Seq(DOMAIN s.expires)
  BY <1>2, <1>5
<1>7. values \in Seq(Records)
  <2>1. DOMAIN order = 1..Len(order) /\ Len(order) \in Nat
    BY <1>4
  <2>2. \A i \in 1..Len(order) : order[i] \in DOMAIN s.data
    BY <1>4, <2>1
  <2>3. \A i \in 1..Len(order) : ValueRecord(s, order[i]) \in Records
    BY <2>2, ValueRecordIs
  <2>4. values = [i \in 1..Len(order) |-> ValueRecord(s, order[i])]
    BY <2>1
  <2>. QED
    BY <2>1, <2>3, <2>4
<1>8. times \in Seq(Records)
  <2>1. DOMAIN timed = 1..Len(timed) /\ Len(timed) \in Nat
    BY <1>6
  <2>2. \A i \in 1..Len(timed) : timed[i] \in DOMAIN s.expires
    BY <1>6, <2>1
  <2>3. \A k \in DOMAIN s.expires : TimeRecord(k, s.expires[k]) \in Records
    BY <1>2 DEF Records
  <2>4. times = [i \in 1..Len(timed) |-> TimeRecord(timed[i], s.expires[timed[i]])]
    BY <2>1
  <2>5. \A i \in 1..Len(timed) : TimeRecord(timed[i], s.expires[timed[i]]) \in Records
    BY <2>2, <2>3
  <2>. HIDE DEF times
  <2>. QED
    BY <2>1, <2>4, <2>5
<1>. DEFINE r == Rolled(Start(Empty), values)
            q == Rolled(r, times)
<1>9. ReplayOK(r) /\ (Clean(r) => Halfway(s, r.st, DOMAIN s.data))
  BY <1>4, ValuesReplayed
<1>10. ReplayOK(q) /\ (Clean(q) => Clean(r) /\ DatedAll(r.st, q.st, s.expires, Timed(s, at)))
  <2>. DEFINE due == s.expires
  <2>1. DOMAIN due \subseteq Keys /\ (\A k \in DOMAIN due : due[k] \in Nat) /\ timed \in Seq(DOMAIN due)
    BY <1>2, <1>6
  <2>2. times = [i \in DOMAIN timed |-> TimeRecord(timed[i], due[timed[i]])]
    OBVIOUS
  <2>. HIDE DEF due, times, r
  <2>3. ReplayOK(q) /\ (Clean(q) => Clean(r) /\ DatedAll(r.st, q.st, due, ToSet(timed)))
    BY <1>9, <2>1, <2>2, TimesReplayed
  <2>. QED
    BY <1>5, <2>3 DEF due
<1>. HIDE DEF values, times
<1>11. records \in Seq(Records)
  BY <1>1, <1>7, <1>8
<1>12. Replay(Empty, records) = q
  <2>1. Replay(Empty, records) = Rolled(Start(Empty), values \o times)
    BY <1>1, <1>11, EmptyOK, ReplayIs
  <2>. QED
    BY <1>7, <1>8, <2>1, RolledConcat
<1>. HIDE DEF r, q
<1>13. ASSUME Clean(q), NEW k \in Keys, ~(k \in DOMAIN s.data /\ Due(s, k, at))
       PROVE  EqualKey(s, q.st, k, at)
  <2>1. Halfway(s, r.st, DOMAIN s.data) /\ DatedAll(r.st, q.st, s.expires, Timed(s, at))
    BY <1>9, <1>10, <1>13
  <2>2. Same(s.data, q.st.data, k)
    BY <2>1 DEF Halfway, DatedAll, Holding, Same
  <2>3. CASE k \in Timed(s, at)
    BY <1>2, <2>1, <2>2, <2>3 DEF DatedAll, EqualKey, Same
  <2>4. CASE k \notin Timed(s, at)
    <3>1. k \notin DOMAIN q.st.expires
      BY <2>1, <2>4 DEF Halfway, DatedAll, Same
    <3>2. k \in DOMAIN s.expires => Due(s, k, at)
      BY <1>2, <2>4 DEF Timed, Due
    <3>3. k \in DOMAIN s.expires => Stuck(s, k, at)
      BY <1>13, <3>2 DEF Stuck, Holds
    <3>. QED
      BY <2>2, <3>1, <3>3 DEF EqualKey, Same
  <2>. QED
    BY <2>3, <2>4
<1>. QED
  BY <1>11, <1>12, <1>13 DEF Mirrors

-----------------------------------------------------------------------------
(***************************************************************************)
(* The inductive invariant.                                                *)
(***************************************************************************)
LogType == log \in Seq(Records)

SnapshotType == snapshot # {} => \E s : snapshot = {s} /\ StoreOK(s)

\* As long as there is no snapshot, a replay of the log mirrors the store.
LogMirrors ==
  up /\ snapshot = {} => Mirrors(st, Replay(Empty, log), loose, spoiled, now)

\* Nothing is known of keys while the server is down.
Down == ~up => loose = {} /\ spoiled = {}

PersistenceInv ==
  /\ StoreOK(st)
  /\ LogType
  /\ SnapshotType
  /\ now \in Nat
  /\ LogMirrors
  /\ Down

\* A store mirrors itself.
LEMMA MirrorsItself ==
  ASSUME NEW r, NEW at
  PROVE  Mirrors(r.st, r, {}, {}, at)
BY DEF Mirrors, EqualKey, Same

\* The invariant holds of a server without data.
LEMMA InitInv == Init => PersistenceInv
<1>. SUFFICES ASSUME Init PROVE PersistenceInv
  OBVIOUS
<1>1. /\ up = TRUE /\ st = Empty /\ log = <<>> /\ snapshot = {} /\ now = 0
      /\ loose = {} /\ spoiled = {}
  BY DEF Init
<1>2. log \in Seq(Records) /\ StoreOK(st)
  BY <1>1, EmptyOK
<1>3. Mirrors(st, Replay(Empty, log), loose, spoiled, now)
  <2>1. Replay(Empty, log) = Start(Empty)
    <3>1. PICK f : Follows(f, Start(Empty), <<>>, 0)
      <4>1. DOMAIN <<>> = 1..0
        OBVIOUS
      <4>. QED
        BY <4>1, RolledSteps
    <3>2. Rolled(Start(Empty), <<>>) = Start(Empty)
      BY <3>1 DEF Follows
    <3>. QED
      BY <1>1, <1>2, <3>2, EmptyOK, ReplayIs
  <2>2. Mirrors(Start(Empty).st, Start(Empty), {}, {}, now)
    BY MirrorsItself
  <2>3. Start(Empty).st = Empty
    BY DEF Start
  <2>. QED
    BY <1>1, <2>1, <2>2, <2>3
<1>. QED
  BY <1>1, <1>2, <1>3 DEF PersistenceInv, LogType, SnapshotType, LogMirrors, Down

\* What the commands have in common.
LEMMA RunKeeps ==
  ASSUME PersistenceInv, NEW c, Faithful(st, c, now), Run(c)
  PROVE  PersistenceInv' /\ Orphans(st') \subseteq Orphans(st)
<1>1. /\ up /\ st' = c.st /\ log' = log \o c.out
      /\ loose' = LooseAfter(st, c, loose)
      /\ spoiled' = SpoiledAfter(st, c, loose, spoiled)
      /\ UNCHANGED <<up, snapshot, now>>
  BY DEF Run, LooseAfter, SpoiledAfter, Undated
<1>2. StoreOK(c.st) /\ c.out \in Seq(Records) /\ Orphans(c.st) \subseteq Orphans(st)
  BY DEF Faithful
<1>3. StoreOK(st') /\ Orphans(st') \subseteq Orphans(st)
  BY <1>1, <1>2
<1>4. LogType'
  BY <1>1, <1>2 DEF PersistenceInv, LogType
<1>5. ASSUME snapshot = {}
      PROVE  Mirrors(c.st, Replay(Empty, log \o c.out), LooseAfter(st, c, loose),
                     SpoiledAfter(st, c, loose, spoiled), now)
  <2>. DEFINE r == Replay(Empty, log)
  <2>1. Mirrors(st, r, loose, spoiled, now)
    BY <1>1, <1>5 DEF PersistenceInv, LogMirrors
  <2>2. ReplayOK(r) /\ Replay(Empty, log \o c.out) = Rolled(r, c.out)
    <3>1. log \in Seq(Records)
      BY DEF PersistenceInv, LogType
    <3>. QED
      BY <1>2, <3>1, EmptyOK, ReplayIs
  <2>. HIDE DEF r
  <2>3. Mirrors(c.st, Rolled(r, c.out), LooseAfter(st, c, loose),
                SpoiledAfter(st, c, loose, spoiled), now)
    BY <2>1, <2>2 DEF Faithful
  <2>. QED
    BY <2>2, <2>3
<1>6. LogMirrors'
  BY <1>1, <1>5 DEF LogMirrors
<1>. QED
  BY <1>1, <1>3, <1>4, <1>6 DEF PersistenceInv, SnapshotType, Down

\* The order in which keys expire is one of keys.
LEMMA OrdersOf ==
  ASSUME NEW s, StoreOK(s), NEW at, NEW order \in SetToSeqs(Overdue(s, at))
  PROVE  order \in Seq(Keys)
<1>1. DOMAIN s.expires \subseteq Keys
  BY DEF StoreOK, StoreOKBut, StoreType
<1>2. Overdue(s, at) \subseteq Keys
  BY <1>1 DEF Overdue
<1>3. IsFiniteSet(Overdue(s, at))
  BY <1>2, FS_Subset, KeyspaceAssumption
<1>4. order \in Seq(Overdue(s, at))
  BY <1>3, OrderOf
<1>. QED
  BY <1>2, <1>4

Command ==
  \/ SetKey \/ GetKey \/ DeleteKey \/ ExpireKey \/ PushItem \/ PopItem
  \/ ListKeys \/ Housekeeping \/ Flush

\* Every command runs faithfully.
LEMMA CommandRuns ==
  ASSUME PersistenceInv, Command
  PROVE  \E c : Faithful(st, c, now) /\ Run(c)
<1>1. StoreOK(st) /\ now \in Nat
  BY DEF PersistenceInv
<1>2. Sides \subseteq Ends /\ Seconds \subseteq Nat
  BY KeyspaceAssumption, PersistenceAssumption DEF Ends
<1>3. CASE SetKey
  <2>1. PICK k \in Keys, v \in Values : Run(Set(st, k, v))
    BY <1>3 DEF SetKey
  <2>2. Faithful(st, Set(st, k, v), now)
    BY <1>1, SetFaithful
  <2>. QED
    BY <2>1, <2>2
<1>4. CASE GetKey
  <2>1. PICK k \in Keys : Run(Get(st, k, now))
    BY <1>4 DEF GetKey
  <2>2. Faithful(st, Get(st, k, now), now)
    BY <1>1, GetFaithful
  <2>. QED
    BY <2>1, <2>2
<1>5. CASE DeleteKey
  <2>1. PICK k \in Keys : Run(Delete(st, k, now))
    BY <1>5 DEF DeleteKey
  <2>2. Faithful(st, Delete(st, k, now), now)
    BY <1>1, DeleteFaithful
  <2>. QED
    BY <2>1, <2>2
<1>6. CASE ExpireKey
  <2>1. PICK k \in Keys, n \in Seconds : Run(Expire(st, k, n, now))
    BY <1>6 DEF ExpireKey
  <2>2. Faithful(st, Expire(st, k, n, now), now)
    BY <1>1, <1>2, ExpireFaithful
  <2>. QED
    BY <2>1, <2>2
<1>7. CASE PushItem
  <2>1. PICK k \in Keys, v \in Values, side \in Sides : Run(Push(st, k, v, side, now))
    BY <1>7 DEF PushItem
  <2>2. Faithful(st, Push(st, k, v, side, now), now)
    BY <1>1, <1>2, PushFaithful
  <2>. QED
    BY <2>1, <2>2
<1>8. CASE PopItem
  <2>1. PICK k \in Keys, side \in Sides : Run(Pop(st, k, side, now))
    BY <1>8 DEF PopItem
  <2>2. Faithful(st, Pop(st, k, side, now), now)
    BY <1>1, <1>2, PopFaithful
  <2>. QED
    BY <2>1, <2>2
<1>9. CASE ListKeys
  <2>1. PICK order \in SetToSeqs(Overdue(st, now)) : Run(Sweep(st, order))
    BY <1>9 DEF ListKeys
  <2>2. order \in Seq(Keys)
    BY <1>1, OrdersOf
  <2>3. Faithful(st, Sweep(st, order), now)
    BY <1>1, <2>2, SweepFaithful
  <2>. QED
    BY <2>1, <2>3
<1>10. CASE Housekeeping
  <2>1. PICK order \in SetToSeqs(Overdue(st, now)) : Run(Housekeep(st, order))
    BY <1>10 DEF Housekeeping
  <2>2. order \in Seq(Keys)
    BY <1>1, OrdersOf
  <2>3. Faithful(st, Housekeep(st, order), now)
    BY <1>1, <2>2, HousekeepFaithful
  <2>. QED
    BY <2>1, <2>3
<1>11. CASE Flush
  BY <1>1, <1>11, FlushFaithful DEF Flush
<1>. QED
  BY <1>3, <1>4, <1>5, <1>6, <1>7, <1>8, <1>9, <1>10, <1>11 DEF Command

\* What is past stays past.
LEMMA MirrorsLater ==
  ASSUME NEW s, StoreOK(s), NEW r, ReplayOK(r), NEW at \in Nat, NEW L, NEW S,
         Mirrors(s, r, L, S, at)
  PROVE  Mirrors(s, r, L, S, at + 1)
<1>1. \A t, k : StoreOK(t) /\ Due(t, k, at) => Due(t, k, at + 1)
  BY DEF Due, StoreOK, StoreOKBut, StoreType
<1>2. StoreOK(r.st)
  BY DEF ReplayOK
<1>3. \A k : LooseKey(s, r.st, k, at) => LooseKey(s, r.st, k, at + 1)
  BY <1>1, <1>2 DEF LooseKey
<1>4. \A k : EqualKey(s, r.st, k, at) => EqualKey(s, r.st, k, at + 1)
  BY <1>1 DEF EqualKey, Stuck
<1>. QED
  BY <1>3, <1>4 DEF Mirrors

\* restore_snapshot_state
LEMMA RestoredIs ==
  ASSUME NEW s, StoreOK(s), NEW order \in SetToSeqs(DOMAIN s.data)
  PROVE  StoreOK(Restored(s, order))
<1>. DEFINE t == Restored(s, order)
<1>1. /\ StoreType(s, {}) /\ s.lru \in Seq(Keys) /\ NoRepeats(s.lru)
      /\ ToSet(s.lru) = DOMAIN s.data /\ Len(s.lru) <= LruMax
  BY DEF StoreOK, StoreOKBut, LruType
<1>2. DOMAIN s.data \subseteq Keys
  BY <1>1 DEF StoreType
<1>3. IsFiniteSet(DOMAIN s.data)
  BY <1>2, FS_Subset, KeyspaceAssumption
<1>4. /\ order \in Seq(DOMAIN s.data) /\ NoRepeats(order) /\ ToSet(order) = DOMAIN s.data
  BY <1>3, OrderOf
<1>5. order \in Seq(Keys)
  BY <1>2, <1>4
<1>6. Len(order) <= Len(s.lru)
  BY <1>1, <1>4, <1>5, NotLonger
<1>7. Len(order) <= LruMax
  <2>1. Len(order) \in Nat /\ Len(s.lru) \in Nat /\ LruMax \in Nat
    BY <1>1, <1>5, KeyspaceAssumption
  <2>. QED
    BY <1>1, <1>6, <2>1
<1>8. t = [data |-> s.data, expires |-> s.expires, lru |-> order]
  BY DEF Restored
<1>. HIDE DEF t
<1>9. /\ t = [data |-> t.data, expires |-> t.expires, lru |-> t.lru]
      /\ t.data = s.data /\ t.expires = s.expires /\ t.lru = order
  BY <1>8
<1>10. StoreType(t, {})
  BY <1>1, <1>9 DEF StoreType
<1>11. StoreOK(t)
  BY <1>4, <1>5, <1>7, <1>9, <1>10 DEF StoreOK, StoreOKBut, LruType
<1>. QED
  BY <1>11 DEF t

\* What recovery starts from is a store.
LEMMA BasesAre ==
  ASSUME SnapshotType
  PROVE  \A base \in Bases : StoreOK(base)
<1>1. CASE snapshot = {}
  BY <1>1, EmptyOK DEF Bases
<1>2. CASE snapshot # {}
  <2>1. PICK s : snapshot = {s} /\ StoreOK(s)
    BY <1>2 DEF SnapshotType
  <2>2. ASSUME NEW base \in Bases
        PROVE  \E order \in SetToSeqs(DOMAIN s.data) : base = Restored(s, order)
    <3>1. Bases = {Restored(t, order) : t \in snapshot, order \in
                     UNION {SetToSeqs(DOMAIN u.data) : u \in snapshot}}
      BY <1>2 DEF Bases
    <3>2. UNION {SetToSeqs(DOMAIN u.data) : u \in snapshot} = SetToSeqs(DOMAIN s.data)
      BY <2>1
    <3>. QED
      BY <2>1, <3>1, <3>2
  <2>. QED
    BY <2>1, <2>2, RestoredIs
<1>. QED
  BY <1>1, <1>2

\* Every step keeps the invariant.
LEMMA NextInv ==
  ASSUME PersistenceInv, [Next]_vars
  PROVE  PersistenceInv'
<1>0. /\ StoreOK(st) /\ log \in Seq(Records) /\ SnapshotType /\ now \in Nat
      /\ LogMirrors /\ Down
  BY DEF PersistenceInv, LogType
<1>1. CASE Command
  BY <1>1, CommandRuns, RunKeeps
<1>2. CASE Save
  <2>1. up /\ snapshot' = {st} /\ UNCHANGED <<up, st, log, now, loose, spoiled>>
    BY <1>2 DEF Save
  <2>2. snapshot' # {}
    BY <2>1
  <2>3. SnapshotType' /\ LogMirrors' /\ Down'
    BY <1>0, <2>1, <2>2 DEF SnapshotType, LogMirrors, Down
  <2>. QED
    BY <1>0, <2>1, <2>3 DEF PersistenceInv, LogType
<1>3. CASE Compact
  <2>1. PICK order \in SetToSeqs(DOMAIN st.data), timed \in SetToSeqs(Timed(st, now)) :
          log' = Compacted(st, order, timed)
    BY <1>3 DEF Compact
  <2>2. /\ up /\ loose' = {} /\ spoiled' = {k \in DOMAIN st.data : Due(st, k, now)}
        /\ UNCHANGED <<up, st, snapshot, now>>
    BY <1>3 DEF Compact
  <2>3. PICK records : records = Compacted(st, order, timed)
    OBVIOUS
  <2>4. /\ records \in Seq(Records)
        /\ Mirrors(st, Replay(Empty, records), {}, {k \in DOMAIN st.data : Due(st, k, now)}, now)
    BY <1>0, <2>3, CompactedMirrors
  <2>5. LogType' /\ LogMirrors'
    BY <2>1, <2>2, <2>3, <2>4 DEF LogType, LogMirrors
  <2>. QED
    BY <1>0, <2>2, <2>5 DEF PersistenceInv, SnapshotType, Down
<1>4. CASE Tick
  <2>1. now' = now + 1 /\ UNCHANGED <<up, st, log, snapshot, loose, spoiled>>
    BY <1>4 DEF Tick
  <2>2. now' \in Nat
    BY <1>0, <2>1
  <2>3. ReplayOK(Replay(Empty, log))
    BY <1>0, EmptyOK, ReplayIs
  <2>4. ASSUME up, snapshot = {}
        PROVE  Mirrors(st, Replay(Empty, log), loose, spoiled, now + 1)
    BY <1>0, <2>3, <2>4, MirrorsLater DEF LogMirrors
  <2>5. LogMirrors'
    BY <2>1, <2>4 DEF LogMirrors
  <2>. QED
    BY <1>0, <2>1, <2>2, <2>5 DEF PersistenceInv, LogType, SnapshotType, Down
<1>5. CASE Crash
  <2>1. PICK n \in 0..Len(log) : log' = SubSeq(log, 1, n)
    BY <1>5 DEF Crash
  <2>2. /\ ~up' /\ st' = Empty /\ loose' = {} /\ spoiled' = {}
        /\ UNCHANGED <<snapshot, now>>
    BY <1>5 DEF Crash
  <2>3. log' \in Seq(Records)
    BY <1>0, <2>1
  <2>. QED
    BY <1>0, <2>2, <2>3, EmptyOK DEF PersistenceInv, LogType, SnapshotType, LogMirrors, Down
<1>6. CASE Recover
  <2>1. PICK base \in Bases : ~Replay(base, log).failed /\ st' = Replay(base, log).st
    BY <1>6 DEF Recover
  <2>2. ~up /\ up' /\ UNCHANGED <<log, snapshot, now, loose, spoiled>>
    BY <1>6 DEF Recover
  <2>3. StoreOK(base)
    BY <1>0, BasesAre
  <2>. DEFINE r == Replay(base, log)
  <2>4. ReplayOK(r)
    BY <1>0, <2>3, ReplayIs
  <2>5. StoreOK(st')
    BY <2>1, <2>4 DEF ReplayOK
  <2>6. LogMirrors'
    <3>1. SUFFICES ASSUME snapshot = {}
                   PROVE  Mirrors(st', Replay(Empty, log'), loose', spoiled', now')
      BY <2>2 DEF LogMirrors
    <3>2. base = Empty
      BY <3>1 DEF Bases
    <3>3. Mirrors(r.st, r, {}, {}, now)
      BY MirrorsItself
    <3>. QED
      BY <1>0, <2>1, <2>2, <3>2, <3>3 DEF Down
  <2>. QED
    BY <1>0, <2>2, <2>5, <2>6 DEF PersistenceInv, LogType, SnapshotType, Down
<1>7. CASE UNCHANGED vars
  BY <1>0, <1>7 DEF PersistenceInv, LogType, SnapshotType, LogMirrors, Down, vars
<1>. QED
  BY <1>1, <1>2, <1>3, <1>4, <1>5, <1>6, <1>7 DEF Next, Command

\* The store is in order, and a replay of the log mirrors it but for the keys
\* that are loose or spoiled: in every reachable state, running or not.
THEOREM PersistenceInvariant == Spec => []PersistenceInv
BY InitInv, NextInv, PTL DEF Spec

-----------------------------------------------------------------------------
\* The tracker and the data never drift apart: through every command, expiry,
\* eviction, compaction, crash and recovery the LRU tracker lists each key with
\* data exactly once, and there are never more than _lru_maxsize of them.
THEOREM TrackerMatchesData == Spec => []Tracked
<1>1. ASSUME PersistenceInv PROVE Tracked
  <2>1. /\ st.lru \in Seq(Keys) /\ NoRepeats(st.lru)
        /\ ToSet(st.lru) = DOMAIN st.data /\ Len(st.lru) <= LruMax
    BY <1>1 DEF PersistenceInv, StoreOK, StoreOKBut, LruType
  <2>2. Len(st.lru) = Cardinality(DOMAIN st.data)
    BY <2>1, LengthIs
  <2>. QED
    BY <2>1, <2>2 DEF Tracked
<1>. QED
  BY <1>1, PersistenceInvariant, PTL

\* A running server leaves no deadline behind without its key: whatever a
\* command, the housekeeping or a compaction removes, its entry of _expires goes
\* with it.
THEOREM NoOrphansFromCommands == Spec => NoNewOrphans
<1>1. ASSUME PersistenceInv, [Next]_vars
      PROVE  [up /\ up' => Orphans(st') \subseteq Orphans(st)]_vars
  <2>1. CASE Command
    BY <1>1, <2>1, CommandRuns, RunKeeps
  <2>2. CASE Save \/ Compact \/ Tick
    <3>1. st' = st
      BY <2>2 DEF Save, Compact, Tick
    <3>. QED
      BY <3>1
  <2>3. CASE Crash \/ Recover
    BY <2>3 DEF Crash, Recover
  <2>4. CASE UNCHANGED vars
    BY <2>4
  <2>. QED
    BY <1>1, <2>1, <2>2, <2>3, <2>4 DEF Next, Command
<1>. QED
  BY <1>1, PersistenceInvariant, PTL DEF Spec, NoNewOrphans

\* The log rebuilds what clients can see: as long as there is no snapshot, a
\* replay that ends and evicts nothing gives every key its value and deadline,
\* except the keys pushed to after a silent expiry and those that were due when
\* COMPACT wrote them.
THEOREM LogRebuildsStore == Spec => []LogRebuilds
<1>1. ASSUME PersistenceInv PROVE LogRebuilds
  <2>. DEFINE r == Replay(Empty, log)
  <2>1. SUFFICES ASSUME up, snapshot = {}, ~r.failed, ~r.evicted,
                        NEW k \in Keys \ spoiled
                 PROVE  Alike(st, r.st, k)
    BY DEF LogRebuilds
  <2>2. Mirrors(st, r, loose, spoiled, now)
    BY <1>1, <2>1 DEF PersistenceInv, LogMirrors
  <2>. HIDE DEF r
  <2>3. IF k \in loose THEN LooseKey(st, r.st, k, now) ELSE EqualKey(st, r.st, k, now)
    BY <2>1, <2>2 DEF Mirrors, Clean
  <2>4. CASE LooseKey(st, r.st, k, now)
    BY <2>4 DEF LooseKey, Gone, Alike, Visible, Holds
  <2>5. CASE EqualKey(st, r.st, k, now)
    BY <2>5 DEF EqualKey, Alike, Visible, Holds, Same, Stuck, Due
  <2>. QED
    BY <2>3, <2>4, <2>5
<1>. QED
  BY <1>1, PersistenceInvariant, PTL

-----------------------------------------------------------------------------
(***************************************************************************)
(* The bytes of the file.  A prefix of a file is read like the whole, as far*)
(* as it goes.                                                             *)
(***************************************************************************)

\* The step of the fold in Count: one more digit.
CountStep(n, d, e) == 10 * n + (CHOOSE i \in DOMAIN Digits : Digits[i] = d) - 1

Number == INSTANCE FoldTheorems WITH Op <- CountStep

\* small is what there is of big up to some byte.
Begins(small, big) ==
  /\ small \in Seq(Bytes) /\ big \in Seq(Bytes) /\ Len(small) <= Len(big)
  /\ \A i \in 1..Len(small) : small[i] = big[i]

\* What buf \in Seq(Bytes) says.
LEMMA BytesOf ==
  ASSUME NEW buf \in Seq(Bytes)
  PROVE  DOMAIN buf = 1..Len(buf) /\ Len(buf) \in Nat /\ \A i \in 1..Len(buf) : buf[i] \in Bytes
OBVIOUS

\* The same bytes are in both up to the end of the shorter.
LEMMA SameBytes ==
  ASSUME NEW small, NEW big, Begins(small, big), NEW first \in Nat \ {0}, NEW last \in 0..Len(small)
  PROVE  SubSeq(small, first, last) = SubSeq(big, first, last)
<1>1. small \in Seq(Bytes) /\ big \in Seq(Bytes) /\ Len(small) \in Nat /\ Len(big) \in Nat
      /\ Len(small) <= Len(big) /\ \A i \in 1..Len(small) : small[i] = big[i]
  BY DEF Begins
<1>2. CASE first > last
  BY <1>1, <1>2, EmptySeq
<1>3. CASE first <= last
  <2>1. last \in Nat /\ first \in 1..Len(small) /\ last \in 1..Len(small)
    BY <1>1, <1>3
  <2>2. /\ first \in 1..(Len(small) + 1) /\ last \in (first - 1)..Len(small)
        /\ first \in 1..(Len(big) + 1) /\ last \in (first - 1)..Len(big)
    BY <1>1, <1>3, <2>1
  <2>3. Len(SubSeq(small, first, last)) = last - first + 1
        /\ Len(SubSeq(big, first, last)) = last - first + 1
        /\ SubSeq(small, first, last) \in Seq(Bytes)
        /\ SubSeq(big, first, last) \in Seq(Bytes)
    BY <1>1, <1>3, <2>1
  <2>4. \A i \in 1..(last - first + 1) :
           SubSeq(small, first, last)[i] = SubSeq(big, first, last)[i]
    BY <1>1, <2>1
  <2>. QED
    BY <2>3, <2>4, SeqEqual
<1>. QED
  BY <1>1, <1>2, <1>3

\* The first bytes of a file.
LEMMA FrontIs ==
  ASSUME NEW buf \in Seq(Bytes), NEW len \in 0..Len(buf)
  PROVE  Begins(SubSeq(buf, 1, len), buf) /\ Len(SubSeq(buf, 1, len)) = len
<1>. DEFINE small == SubSeq(buf, 1, len)
<1>1. Len(buf) \in Nat /\ len \in Nat /\ len <= Len(buf) /\ \A i \in 1..Len(buf) : buf[i] \in Bytes
  OBVIOUS
<1>2. Len(small) = len
  BY <1>1
<1>3. small \in Seq(Bytes)
  BY <1>1
<1>4. \A i \in 1..len : small[i] = buf[i]
  BY <1>1
<1>. HIDE DEF small
<1>. QED
  BY <1>1, <1>2, <1>3, <1>4 DEF Begins, small

\* Concatenation is associative.
Regroups(a, b, c) == (a \o b) \o c = a \o (b \o c)

\* Concatenation is associative.
LEMMA Regrouped ==
  ASSUME NEW R, NEW a, NEW b, NEW c, a \in Seq(R), b \in Seq(R), c \in Seq(R)
  PROVE  Regroups(a, b, c)
<1>1. (a \o b) \o c = a \o (b \o c)
  BY ConcatAssociative
<1>. QED
  BY <1>1, Zenon DEF Regroups

\* buf.find finds the first newline, if there is one.
IsNewline(buf, pos, nl) ==
  \/ nl = 0 /\ \A i \in (pos + 1)..Len(buf) : buf[i] # NL
  \/ /\ nl \in (pos + 1)..Len(buf) /\ buf[nl] = NL
     /\ \A i \in (pos + 1)..(nl - 1) : buf[i] # NL

\* Newline finds the first one, or there is none.
LEMMA NewlineIs ==
  ASSUME NEW buf \in Seq(Bytes), NEW pos \in Nat
  PROVE  Newline(buf, pos) \in Nat /\ IsNewline(buf, pos, Newline(buf, pos))
<1>. DEFINE hits == {i \in (pos + 1)..Len(buf) : buf[i] = NL}
<1>1. Len(buf) \in Nat
  OBVIOUS
<1>2. CASE hits = {}
  <2>1. Newline(buf, pos) = 0
    BY <1>2 DEF Newline
  <2>2. \A i \in (pos + 1)..Len(buf) : buf[i] # NL
    BY <1>2
  <2>. QED
    BY <2>1, <2>2 DEF IsNewline
<1>3. CASE hits # {}
  <2>1. hits \in SUBSET Nat
    BY <1>1
  <2>2. \E m \in hits : \A n \in hits : m <= n
    <3>. HIDE DEF hits
    <3>. QED
      BY <1>3, <2>1, Number!LeastNumber
  <2>3. Newline(buf, pos) = Min(hits)
    BY <1>3 DEF Newline
  <2>. DEFINE nl == Min(hits)
  <2>4. nl \in hits /\ \A n \in hits : nl <= n
    <3>. HIDE DEF hits
    <3>. QED
      BY <2>2 DEF Min
  <2>. HIDE DEF nl
  <2>5. nl \in Nat /\ nl \in (pos + 1)..Len(buf) /\ buf[nl] = NL
    BY <2>4, <1>1
  <2>6. ASSUME NEW i \in (pos + 1)..(nl - 1) PROVE buf[i] # NL
    <3>1. i \in (pos + 1)..Len(buf) /\ ~(nl <= i)
      BY <1>1, <2>5
    <3>. QED
      BY <2>4, <3>1
  <2>. QED
    BY <2>3, <2>5, <2>6 DEF IsNewline, nl
<1>. QED
  BY <1>2, <1>3

\* A newline that both have is the first one of both.
LEMMA SameNewline ==
  ASSUME NEW small, NEW big, Begins(small, big), NEW pos \in Nat
  PROVE  \/ Newline(small, pos) = Newline(big, pos)
         \/ /\ Newline(small, pos) = 0
            /\ Newline(big, pos) > Len(small) /\ Len(small) < Len(big)
<1>. DEFINE a == Newline(small, pos)
            b == Newline(big, pos)
<1>1. small \in Seq(Bytes) /\ big \in Seq(Bytes) /\ Len(small) \in Nat /\ Len(big) \in Nat
      /\ Len(small) <= Len(big) /\ \A i \in 1..Len(small) : small[i] = big[i]
  BY DEF Begins
<1>2. a \in Nat /\ IsNewline(small, pos, a) /\ b \in Nat /\ IsNewline(big, pos, b)
  BY <1>1, NewlineIs
<1>. HIDE DEF a, b
<1>3. CASE a # 0
  <2>1. a \in (pos + 1)..Len(small) /\ big[a] = NL /\ \A i \in (pos + 1)..(a - 1) : big[i] # NL
    BY <1>1, <1>2, <1>3 DEF IsNewline
  <2>2. b # 0
    BY <1>1, <1>2, <2>1 DEF IsNewline
  <2>3. b \in (pos + 1)..Len(big) /\ big[b] = NL /\ \A i \in (pos + 1)..(b - 1) : big[i] # NL
    BY <1>2, <2>2 DEF IsNewline
  <2>4. ~(a < b) /\ ~(b < a)
    BY <1>1, <1>2, <2>1, <2>3
  <2>5. a = b
    BY <1>2, <2>4
  <2>. QED
    BY <2>5 DEF a, b
<1>4. CASE a = 0 /\ b # 0
  <2>1. b \in (pos + 1)..Len(big) /\ big[b] = NL
    BY <1>2, <1>4 DEF IsNewline
  <2>2. \A i \in (pos + 1)..Len(small) : small[i] # NL
    BY <1>1, <1>2, <1>4 DEF IsNewline
  <2>3. ~(b <= Len(small))
    BY <1>1, <2>1, <2>2
  <2>4. b > Len(small) /\ Len(small) < Len(big)
    BY <1>1, <2>1, <2>3
  <2>. QED
    BY <1>4, <2>4 DEF a, b
<1>5. CASE a = 0 /\ b = 0
  BY <1>5 DEF a, b
<1>. QED
  BY <1>3, <1>4, <1>5

\* The digits, in their order.
LEMMA DigitsAre ==
  /\ Len(Digits) = 10 /\ DOMAIN Digits = 1..10
  /\ Digits[1] = "0" /\ Digits[2] = "1" /\ Digits[3] = "2" /\ Digits[4] = "3"
  /\ Digits[5] = "4" /\ Digits[6] = "5" /\ Digits[7] = "6" /\ Digits[8] = "7"
  /\ Digits[9] = "8" /\ Digits[10] = "9"
BY DEF Digits

\* The number that a digit stands for.
LEMMA DigitIs ==
  ASSUME NEW k \in 0..9
  PROVE  /\ Digits[k + 1] \in Range(Digits) /\ Digits[k + 1] \in Bytes
         /\ Digits[k + 1] # NL /\ Digits[k + 1] \notin Letters
         /\ (CHOOSE i \in DOMAIN Digits : Digits[i] = Digits[k + 1]) = k + 1
         /\ k # 0 => Digits[k + 1] # "0"
<1>1. \/ k = 0 \/ k = 1 \/ k = 2 \/ k = 3 \/ k = 4
      \/ k = 5 \/ k = 6 \/ k = 7 \/ k = 8 \/ k = 9
  OBVIOUS
<1>2. k + 1 \in DOMAIN Digits /\ k + 1 \in 1..10
  BY DigitsAre
<1>3. Digits[k + 1] \in Range(Digits)
  BY <1>2 DEF Range
<1>4. Digits[k + 1] \in Bytes
  BY <1>3, AofFramingAssumption
<1>5. Digits[k + 1] # NL /\ Digits[k + 1] \notin Letters
  BY <1>1, DigitsAre DEF NL, Letters
<1>6. \A i \in 1..10 : \A j \in 1..10 : Digits[i] = Digits[j] => i = j
  <2>1. \A i \in 1..10 : \/ i = 1 \/ i = 2 \/ i = 3 \/ i = 4 \/ i = 5
                        \/ i = 6 \/ i = 7 \/ i = 8 \/ i = 9 \/ i = 10
    OBVIOUS
  <2>. QED
    BY <2>1, DigitsAre
<1>7. \A i \in DOMAIN Digits : Digits[i] = Digits[k + 1] => i = k + 1
  BY <1>2, <1>6, DigitsAre
<1>8. (CHOOSE i \in DOMAIN Digits : Digits[i] = Digits[k + 1]) = k + 1
  BY <1>2, <1>7
<1>9. k # 0 => Digits[k + 1] # "0"
  BY <1>1, DigitsAre
<1>. QED
  BY <1>3, <1>4, <1>5, <1>8, <1>9

\* One more digit makes a larger number.
LEMMA DigitStep ==
  ASSUME NEW n \in Nat, NEW d \in Range(Digits)
  PROVE  CountStep(n, d, 0) \in Nat
<1>1. \E i \in DOMAIN Digits : Digits[i] = d
  BY DEF Range
<1>. DEFINE c == CHOOSE i \in DOMAIN Digits : Digits[i] = d
<1>2. c \in 1..10
  BY <1>1, DigitsAre
<1>3. CountStep(n, d, 0) = 10 * n + c - 1
  BY DEF CountStep
<1>. HIDE DEF c
<1>. QED
  BY <1>2, <1>3

\* The fold of Count by itself.
CountFold(field) ==
  FoldLeft(LAMBDA n, d : 10 * n + (CHOOSE i \in DOMAIN Digits : Digits[i] = d) - 1, 0, field)

\* The number of a field, digit by digit.
LEMMA CountSteps ==
  ASSUME NEW field, NEW len \in Nat, DOMAIN field = 1..len
  PROVE  \E f : /\ f[0] = 0
                /\ \A n \in 1..len : f[n] = CountStep(f[n - 1], field[n], 0)
                /\ CountFold(field) = f[len]
<1>. DEFINE it == CHOOSE it : Number!IsFold(it, 0, field, 0, len)
<1>1. Number!IsFold(it, 0, field, 0, len)
  BY Number!FoldExists
<1>2. CountFold(field) = it[1..len]
  BY DEF CountFold, FoldLeft, MapThenFoldSet, Max, Number!IsFold, Number!Step, Number!Max,
         CountStep
<1>. HIDE DEF it
<1>3. PICK f : Number!AreResults(f, 0, field, 0, len) /\ f[len] = it[1..len]
  BY <1>1, Number!FoldSteps
<1>. QED
  BY <1>2, <1>3 DEF Number!AreResults

\* Count is the fold, or NoCount.
LEMMA CountIs ==
  ASSUME NEW field
  PROVE  Count(field) =
           IF field = <<>> \/ ~Range(field) \subseteq Range(Digits)
              \/ (Len(field) > 1 /\ field[1] = "0")
           THEN NoCount
           ELSE CountFold(field)
BY Zenon DEF Count, CountFold

\* A count is a natural number.
LEMMA CountType ==
  ASSUME NEW field \in Seq(Bytes)
  PROVE  Count(field) \in Nat \/ Count(field) = NoCount
<1>1. CASE field = <<>> \/ ~Range(field) \subseteq Range(Digits)
           \/ (Len(field) > 1 /\ field[1] = "0")
  BY <1>1, CountIs
<1>2. CASE ~(field = <<>> \/ ~Range(field) \subseteq Range(Digits)
             \/ (Len(field) > 1 /\ field[1] = "0"))
  <2>. DEFINE len == Len(field)
  <2>1. Count(field) = CountFold(field)
    BY <1>2, CountIs
  <2>2. len \in Nat /\ DOMAIN field = 1..len
    OBVIOUS
  <2>. HIDE DEF len
  <2>3. PICK f : /\ f[0] = 0
                 /\ \A n \in 1..len : f[n] = CountStep(f[n - 1], field[n], 0)
                 /\ CountFold(field) = f[len]
    BY <2>2, CountSteps
  <2>. DEFINE S == {n \in 0..len : f[n] \in Nat}
  <2>4. 0 \in S
    BY <2>2, <2>3
  <2>5. ASSUME NEW n \in 1..len, n - 1 \in S PROVE n \in S
    <3>1. field[n] \in Range(Digits)
      BY <1>2, <2>2 DEF Range
    <3>2. f[n] \in Nat
      BY <2>3, <2>5, <3>1, DigitStep
    <3>. QED
      BY <2>2, <3>2
  <2>. HIDE DEF S
  <2>6. \A n \in 0..len : n \in S
    BY <2>2, <2>4, <2>5, Number!UpTo
  <2>7. f[len] \in Nat
    BY <2>2, <2>6 DEF S
  <2>. QED
    BY <2>1, <2>3, <2>7
<1>. QED
  BY <1>1, <1>2

\* What is left of a number when its last digits are taken away.
TenthOf(n, k, e) == n \div 10

Left == INSTANCE FoldTheorems WITH Op <- TenthOf

\* size is how many digits n has.
Shrinks(q, n, size) ==
  /\ \A k \in Nat : q[k] \in Nat
  /\ q[0] = n /\ \A k \in Nat \ {0} : q[k] = q[k - 1] \div 10
  /\ size \in Nat \ {0} /\ q[size] = 0 /\ \A k \in 1..(size - 1) : q[k] # 0
  /\ Numeral(n) = [i \in 1..size |-> Digits[(q[size - i] % 10) + 1]]

\* There are such q and size for every number.
LEMMA NumeralSteps ==
  ASSUME NEW n \in Nat
  PROVE  \E q, size : Shrinks(q, n, size)
<1>. DEFINE q == CHOOSE q : Left!IsRecursive(q, n, 0)
            ends == {k \in 1..(n + 1) : q[k] = 0}
            size == Min(ends)
<1>1. Left!IsRecursive(q, n, 0)
  BY Left!RecursionExists
<1>2. Numeral(n) = [i \in 1..size |-> Digits[(q[size - i] % 10) + 1]]
  BY DEF Numeral, Left!IsRecursive, TenthOf
<1>. HIDE DEF q
<1>3. q[0] = n /\ \A k \in Nat \ {0} : q[k] = q[k - 1] \div 10
  BY <1>1 DEF Left!IsRecursive, TenthOf
<1>. DEFINE S == {k \in Nat : q[k] \in Nat /\ (q[k] = 0 \/ q[k] + k <= n)}
<1>4. 0 \in S
  BY <1>3
<1>5. ASSUME NEW k \in Nat, k \in S PROVE k + 1 \in S
  <2>1. q[k + 1] = q[k] \div 10
    BY <1>3
  <2>. DEFINE a == q[k]
              b == q[k + 1]
  <2>2. a \in Nat /\ (a = 0 \/ a + k <= n) /\ b = a \div 10
    BY <1>5, <2>1
  <2>. HIDE DEF a, b
  <2>3. b \in Nat /\ (b = 0 \/ b + 1 <= a)
    BY <2>2
  <2>4. b = 0 \/ b + (k + 1) <= n
    BY <2>2, <2>3
  <2>. QED
    BY <2>3, <2>4 DEF b
<1>. HIDE DEF S
<1>6. \A k \in Nat : k \in S
  BY <1>4, <1>5, Number!SetInduction
<1>7. \A k \in Nat : q[k] \in Nat
  BY <1>6 DEF S
<1>8. n + 1 \in ends
  <2>1. n + 1 \in S /\ n + 1 \in 1..(n + 1)
    BY <1>6
  <2>2. q[n + 1] = 0
    BY <2>1 DEF S
  <2>. QED
    BY <2>1, <2>2
<1>9. size \in ends /\ \A k \in ends : size <= k
  <2>1. ends \in SUBSET Nat
    OBVIOUS
  <2>. HIDE DEF ends
  <2>2. \E m \in ends : \A k \in ends : m <= k
    BY <1>8, <2>1, Number!LeastNumber
  <2>. QED
    BY <2>2 DEF Min
<1>. HIDE DEF size
<1>10. size \in Nat \ {0} /\ size <= n + 1 /\ q[size] = 0
  BY <1>9
<1>11. ASSUME NEW k \in 1..(size - 1) PROVE q[k] # 0
  <2>1. k \in 1..(n + 1) /\ ~(size <= k)
    BY <1>10
  <2>. QED
    BY <1>9, <2>1
<1>12. Shrinks(q, n, size)
  BY <1>2, <1>3, <1>7, <1>10, <1>11 DEF Shrinks
<1>. QED
  BY <1>12

\* A numeral is made of digits.
LEMMA NumeralType ==
  ASSUME NEW n \in Nat
  PROVE  /\ Numeral(n) \in Seq(Bytes) /\ Len(Numeral(n)) \in Nat \ {0}
         /\ \A i \in 1..Len(Numeral(n)) :
              /\ Numeral(n)[i] \in Range(Digits) /\ Numeral(n)[i] # NL
              /\ Numeral(n)[i] \notin Letters
<1>1. PICK q, size : Shrinks(q, n, size)
  BY NumeralSteps
<1>. DEFINE field == Numeral(n)
<1>2. /\ size \in Nat \ {0} /\ field = [i \in 1..size |-> Digits[(q[size - i] % 10) + 1]]
      /\ \A k \in Nat : q[k] \in Nat
  BY <1>1 DEF Shrinks
<1>. HIDE DEF field
<1>3. ASSUME NEW i \in 1..size
      PROVE  /\ field[i] \in Range(Digits) /\ field[i] \in Bytes /\ field[i] # NL
             /\ field[i] \notin Letters
  <2>. DEFINE d == q[size - i] % 10
  <2>1. d \in 0..9
    <3>1. size - i \in Nat
      BY <1>2
    <3>2. q[size - i] \in Nat
      BY <1>2, <3>1
    <3>. QED
      BY <3>2
  <2>2. field[i] = Digits[d + 1]
    BY <1>2
  <2>. HIDE DEF d
  <2>. QED
    BY <2>1, <2>2, DigitIs
<1>4. field \in Seq(Bytes) /\ Len(field) = size
  BY <1>2, <1>3
<1>. QED
  BY <1>2, <1>3, <1>4 DEF field

\* What was written as a number is read as that number.
LEMMA CountOfNumeral ==
  ASSUME NEW n \in Nat
  PROVE  Count(Numeral(n)) = n
<1>1. PICK q, size : Shrinks(q, n, size)
  BY NumeralSteps
<1>. DEFINE field == Numeral(n)
<1>2. /\ size \in Nat \ {0} /\ field = [i \in 1..size |-> Digits[(q[size - i] % 10) + 1]]
      /\ \A k \in Nat : q[k] \in Nat
      /\ q[0] = n /\ \A k \in Nat \ {0} : q[k] = q[k - 1] \div 10
      /\ q[size] = 0 /\ \A k \in 1..(size - 1) : q[k] # 0
  BY <1>1 DEF Shrinks
<1>3. /\ field \in Seq(Bytes) /\ Len(field) \in Nat \ {0}
      /\ \A i \in 1..Len(field) : field[i] \in Range(Digits)
  BY NumeralType
<1>. HIDE DEF field
<1>4. Len(field) = size /\ DOMAIN field = 1..size
  BY <1>2, <1>3
<1>5. field # <<>> /\ Range(field) \subseteq Range(Digits)
  <2>1. field # <<>>
    BY <1>3
  <2>2. Range(field) \subseteq Range(Digits)
    BY <1>3, <1>4 DEF Range
  <2>. QED
    BY <2>1, <2>2
<1>6. size > 1 => field[1] # "0"
  <2>. SUFFICES ASSUME size > 1 PROVE field[1] # "0"
    OBVIOUS
  <2>. DEFINE a == q[size - 1]
  <2>1. size - 1 \in 1..(size - 1) /\ size - 1 \in Nat /\ 1 \in 1..size
    BY <1>2
  <2>2. a \in Nat /\ a # 0 /\ a \div 10 = 0
    BY <1>2, <2>1
  <2>3. field[1] = Digits[(a % 10) + 1]
    BY <1>2, <2>1
  <2>. HIDE DEF a
  <2>4. a % 10 = a /\ a \in 0..9
    BY <2>2
  <2>. QED
    BY <2>2, <2>3, <2>4, DigitIs
<1>7. Count(field) = CountFold(field)
  <2>1. ~(field = <<>> \/ ~Range(field) \subseteq Range(Digits)
          \/ (Len(field) > 1 /\ field[1] = "0"))
    BY <1>4, <1>5, <1>6
  <2>. QED
    BY <2>1, CountIs, ZenonT(40)
<1>8. PICK f : /\ f[0] = 0
               /\ \A i \in 1..size : f[i] = CountStep(f[i - 1], field[i], 0)
               /\ CountFold(field) = f[size]
  <2>1. size \in Nat /\ DOMAIN field = 1..size
    BY <1>2, <1>4
  <2>. QED
    BY <2>1, CountSteps
<1>. DEFINE S == {i \in 0..size : f[i] = q[size - i]}
<1>9. 0 \in S
  <2>1. 0 \in 0..size /\ size - 0 = size
    BY <1>2
  <2>. QED
    BY <1>2, <1>8, <2>1
<1>10. ASSUME NEW i \in 1..size, i - 1 \in S PROVE i \in S
  <2>. DEFINE a == q[size - i]
              b == q[size - (i - 1)]
              d == a % 10
  <2>1. /\ size - i \in Nat /\ size - (i - 1) \in Nat \ {0}
        /\ (size - (i - 1)) - 1 = size - i /\ i \in 0..size
    BY <1>2
  <2>2. a \in Nat /\ b = a \div 10
    BY <1>2, <2>1
  <2>3. field[i] = Digits[d + 1]
    BY <1>2
  <2>4. f[i] = CountStep(b, Digits[d + 1], 0)
    <3>1. f[i - 1] = b
      BY <1>10
    <3>2. f[i] = CountStep(f[i - 1], field[i], 0)
      BY <1>8
    <3>. QED
      BY <2>3, <3>1, <3>2
  <2>. HIDE DEF a, b
  <2>5. d \in 0..9 /\ 10 * b + (d + 1) - 1 = a
    BY <2>2
  <2>. HIDE DEF d
  <2>. DEFINE c == CHOOSE j \in DOMAIN Digits : Digits[j] = Digits[d + 1]
  <2>6. c = d + 1
    BY <2>5, DigitIs
  <2>7. CountStep(b, Digits[d + 1], 0) = 10 * b + c - 1
    BY DEF CountStep
  <2>. HIDE DEF c
  <2>8. f[i] = a
    BY <2>4, <2>5, <2>6, <2>7
  <2>. QED
    BY <2>1, <2>8 DEF a
<1>. HIDE DEF S
<1>11. \A i \in 0..size : i \in S
  BY <1>2, <1>9, <1>10, Number!UpTo
<1>12. f[size] = n
  <2>1. size \in S /\ size - size = 0
    BY <1>2, <1>11
  <2>. QED
    BY <1>2, <2>1 DEF S
<1>. QED
  BY <1>7, <1>8, <1>12 DEF field

-----------------------------------------------------------------------------
(***************************************************************************)
(* What a header, a string, a record or a line of the file comes out as.   *)
(***************************************************************************)
\* What a header, a string, a record or a line can come out as.
Verdicts ==
  [verdict : {"ok", "torn", "corrupt"}, n : Nat, next : Nat, tokens : Seq(Seq(Bytes))]

\* It is good, and it ends behind pos bytes of those that there are.
EndsIn(u, pos, buf) == u.verdict = "ok" => u.next > pos /\ u.next <= Len(buf)

\* The same in small as in big; or cut short in small, and longer than that in big.
Agree(u, v, small) ==
  \/ u = v
  \/ u.verdict = "torn" /\ (v.verdict = "ok" => v.next > Len(small))

\* A failure has a verdict and nothing else.
LEMMA FailedType ==
  /\ \A why \in {"torn", "corrupt"} :
        /\ Failed(why) \in Verdicts /\ Failed(why).verdict = why /\ Failed(why).n = 0
        /\ \A pos, buf : EndsIn(Failed(why), pos, buf)
<1>1. <<>> \in Seq(Seq(Bytes))
  OBVIOUS
<1>. QED
  BY <1>1 DEF Failed, Verdicts, EndsIn

\* A header that is good.
HeaderOk(n, nl) == [verdict |-> "ok", n |-> n, next |-> nl, tokens |-> <<>>]

\* The outcomes of HeaderTo, one by one.
LEMMA HeaderToIs ==
  ASSUME NEW buf, NEW pos, NEW nl, NEW size, size = IF nl = 0 THEN Len(buf) - pos ELSE nl - 1 - pos
  PROVE  HeaderTo(buf, pos, nl) =
           IF size > MaxHeaderLine THEN Failed("corrupt")
           ELSE IF nl = 0 THEN Failed("torn")
           ELSE IF Count(SubSeq(buf, pos + 2, nl - 1)) = NoCount THEN Failed("corrupt")
           ELSE HeaderOk(Count(SubSeq(buf, pos + 2, nl - 1)), nl)
<1>. DEFINE n == Count(SubSeq(buf, pos + 2, nl - 1))
<1>1. HeaderTo(buf, pos, nl) =
        IF size > MaxHeaderLine THEN Failed("corrupt")
        ELSE IF nl = 0 THEN Failed("torn")
        ELSE IF n = NoCount THEN Failed("corrupt")
        ELSE [Failed("ok") EXCEPT !.n = n, !.next = nl]
  BY Zenon DEF HeaderTo
<1>. HIDE DEF n
<1>2. [Failed("ok") EXCEPT !.n = n, !.next = nl] = HeaderOk(n, nl)
  <2>1. Failed("ok") = [verdict |-> "ok", n |-> 0, next |-> 0, tokens |-> <<>>]
    BY DEF Failed
  <2>2. [[verdict |-> "ok", n |-> 0, next |-> 0, tokens |-> <<>>] EXCEPT !.n = n]
          = [verdict |-> "ok", n |-> n, next |-> 0, tokens |-> <<>>]
    OBVIOUS
  <2>3. [[verdict |-> "ok", n |-> n, next |-> 0, tokens |-> <<>>] EXCEPT !.next = nl]
          = [verdict |-> "ok", n |-> n, next |-> nl, tokens |-> <<>>]
    OBVIOUS
  <2>. QED
    BY <2>1, <2>2, <2>3 DEF HeaderOk
<1>3. HeaderTo(buf, pos, nl) =
        IF size > MaxHeaderLine THEN Failed("corrupt")
        ELSE IF nl = 0 THEN Failed("torn")
        ELSE IF n = NoCount THEN Failed("corrupt")
        ELSE HeaderOk(n, nl)
  BY <1>1, <1>2
<1>. QED
  BY <1>3 DEF n

\* A header ends with its newline.
LEMMA HeaderType ==
  ASSUME NEW buf \in Seq(Bytes), NEW pos \in 0..Len(buf)
  PROVE  /\ Header(buf, pos) \in Verdicts
         /\ EndsIn(Header(buf, pos), pos, buf)
         /\ Header(buf, pos).verdict = "ok" =>
              Header(buf, pos).next = Newline(buf, pos) /\ buf[Header(buf, pos).next] = NL
<1>. DEFINE nl == Newline(buf, pos)
            size == IF nl = 0 THEN Len(buf) - pos ELSE nl - 1 - pos
            n == Count(SubSeq(buf, pos + 2, nl - 1))
<1>1. nl \in Nat /\ IsNewline(buf, pos, nl) /\ Len(buf) \in Nat /\ pos \in Nat
  BY NewlineIs
<1>. HIDE DEF nl
<1>2. Header(buf, pos) = IF size > MaxHeaderLine THEN Failed("corrupt")
                         ELSE IF nl = 0 THEN Failed("torn")
                         ELSE IF n = NoCount THEN Failed("corrupt")
                         ELSE HeaderOk(n, nl)
  BY HeaderToIs DEF Header, nl
<1>3. nl # 0 => n \in Nat \/ n = NoCount
  <2>1. ASSUME nl # 0 PROVE SubSeq(buf, pos + 2, nl - 1) \in Seq(Bytes)
    <3>1. nl \in (pos + 1)..Len(buf)
      BY <1>1, <2>1 DEF IsNewline
    <3>. QED
      BY <1>1, <3>1
  <2>. QED
    BY <2>1, CountType
<1>4. nl # 0 /\ n # NoCount => HeaderOk(n, nl) \in Verdicts
  <2>1. <<>> \in Seq(Seq(Bytes))
    OBVIOUS
  <2>. HIDE DEF n
  <2>. QED
    BY <1>1, <1>3, <2>1 DEF HeaderOk, Verdicts
<1>5. nl # 0 => EndsIn(HeaderOk(n, nl), pos, buf) /\ buf[nl] = NL
  BY <1>1 DEF IsNewline, HeaderOk, EndsIn
<1>. HIDE DEF n, size
<1>6. Header(buf, pos) = Failed("corrupt") \/ Header(buf, pos) = Failed("torn")
      \/ (nl # 0 /\ n # NoCount /\ Header(buf, pos) = HeaderOk(n, nl))
  BY <1>2
<1>7. CASE nl # 0 /\ n # NoCount /\ Header(buf, pos) = HeaderOk(n, nl)
  BY <1>4, <1>5, <1>7 DEF HeaderOk, nl
<1>8. CASE Header(buf, pos) = Failed("corrupt") \/ Header(buf, pos) = Failed("torn")
  BY <1>8, FailedType
<1>. QED
  BY <1>6, <1>7, <1>8

\* A header comes out the same of both, or it is torn in the shorter.
LEMMA HeaderAgrees ==
  ASSUME NEW small, NEW big, Begins(small, big), NEW pos \in 0..Len(small)
  PROVE  Agree(Header(small, pos), Header(big, pos), small)
<1>. DEFINE a == Newline(small, pos)
            b == Newline(big, pos)
            sizeA == IF a = 0 THEN Len(small) - pos ELSE a - 1 - pos
            sizeB == IF b = 0 THEN Len(big) - pos ELSE b - 1 - pos
            nA == Count(SubSeq(small, pos + 2, a - 1))
            nB == Count(SubSeq(big, pos + 2, b - 1))
<1>1. small \in Seq(Bytes) /\ big \in Seq(Bytes) /\ Len(small) \in Nat /\ Len(big) \in Nat
      /\ Len(small) <= Len(big) /\ pos \in Nat /\ MaxHeaderLine \in Nat
  BY AofFramingAssumption DEF Begins
<1>2. a \in Nat /\ IsNewline(small, pos, a) /\ b \in Nat /\ IsNewline(big, pos, b)
  BY <1>1, NewlineIs
<1>3. Header(small, pos) = IF sizeA > MaxHeaderLine THEN Failed("corrupt")
                           ELSE IF a = 0 THEN Failed("torn")
                           ELSE IF nA = NoCount THEN Failed("corrupt")
                           ELSE HeaderOk(nA, a)
  BY HeaderToIs DEF Header
<1>4. Header(big, pos) = IF sizeB > MaxHeaderLine THEN Failed("corrupt")
                           ELSE IF b = 0 THEN Failed("torn")
                           ELSE IF nB = NoCount THEN Failed("corrupt")
                           ELSE HeaderOk(nB, b)
  BY HeaderToIs DEF Header
<1>5. a = b \/ (a = 0 /\ b > Len(small) /\ Len(small) < Len(big))
  BY <1>1, SameNewline
<1>. HIDE DEF a, b
<1>6. CASE a = b /\ a # 0
  <2>1. a \in (pos + 1)..Len(small)
    BY <1>2, <1>6 DEF IsNewline
  <2>2. nA = nB
    <3>1. pos + 2 \in Nat \ {0} /\ a - 1 \in 0..Len(small)
      BY <1>1, <2>1
    <3>2. SubSeq(small, pos + 2, a - 1) = SubSeq(big, pos + 2, a - 1)
      BY <3>1, SameBytes
    <3>. QED
      BY <1>6, <3>2
  <2>3. sizeA = sizeB
    BY <1>6
  <2>. HIDE DEF nA, nB, sizeA, sizeB
  <2>. QED
    BY <1>3, <1>4, <1>6, <2>2, <2>3 DEF Agree
<1>7. CASE a = 0
  <2>1. b = 0 \/ b > Len(small)
    BY <1>5, <1>7
  <2>2. sizeA \in Nat /\ sizeB \in Nat /\ sizeA <= sizeB
    <3>1. sizeA = Len(small) - pos
      BY <1>7
    <3>2. CASE b = 0
      BY <1>1, <3>1, <3>2
    <3>3. CASE b # 0
      BY <1>1, <1>2, <2>1, <3>1, <3>3
    <3>. QED
      BY <3>2, <3>3
  <2>. HIDE DEF sizeA, sizeB, nA, nB
  <2>3. CASE sizeA > MaxHeaderLine
    BY <1>1, <1>3, <1>4, <2>2, <2>3 DEF Agree
  <2>4. CASE ~(sizeA > MaxHeaderLine)
    <3>1. Header(small, pos) = Failed("torn")
      BY <1>3, <1>7, <2>4
    <3>2. Header(small, pos).verdict = "torn"
      BY <3>1, FailedType
    <3>3. Header(big, pos).verdict = "ok" => Header(big, pos).next > Len(small)
      <4>1. Header(big, pos).verdict = "ok" => b # 0 /\ Header(big, pos) = HeaderOk(nB, b)
        BY <1>4, FailedType
      <4>2. HeaderOk(nB, b).next = b
        BY DEF HeaderOk
      <4>. QED
        BY <2>1, <4>1, <4>2
    <3>. QED
      BY <3>2, <3>3 DEF Agree
  <2>. QED
    BY <2>3, <2>4
<1>. QED
  BY <1>5, <1>6, <1>7

-----------------------------------------------------------------------------
(***************************************************************************)
(* A string: its header, its bytes and its newline.                        *)
(***************************************************************************)
\* A string that is good.
StringOk(n, end, token) ==
  [verdict |-> "ok", n |-> n, next |-> end + 1, tokens |-> <<token>>]

\* What follows a good header: its bytes and their newline, or why not.
Body(buf, h) ==
  LET end == h.next + h.n
  IN IF end >= Len(buf) THEN Failed("torn")
     ELSE IF buf[end + 1] # NL THEN Failed("corrupt")
     ELSE StringOk(h.n, end, SubSeq(buf, h.next + 1, end))

\* The outcomes of Announced, one by one.
LEMMA AnnouncedIs ==
  ASSUME NEW buf \in Seq(Bytes), NEW h \in Verdicts
  PROVE  Announced(buf, h, TRUE) = IF h.verdict # "ok" THEN h ELSE Body(buf, h)
<1>. DEFINE end == h.next + h.n
<1>1. end \in Nat /\ Len(buf) \in Nat
  BY DEF Verdicts
<1>2. Announced(buf, h, TRUE) =
        IF h.verdict # "ok" THEN h
        ELSE IF end > Len(buf) THEN Failed("torn")
        ELSE IF TRUE /\ end = Len(buf) THEN Failed("torn")
        ELSE IF TRUE /\ buf[end + 1] # NL THEN Failed("corrupt")
        ELSE StringOk(h.n, end, SubSeq(buf, h.next + 1, end))
  BY Zenon DEF Announced, StringOk
<1>3. Body(buf, h) =
        IF end >= Len(buf) THEN Failed("torn")
        ELSE IF buf[end + 1] # NL THEN Failed("corrupt")
        ELSE StringOk(h.n, end, SubSeq(buf, h.next + 1, end))
  BY DEF Body
<1>. DEFINE whole == StringOk(h.n, end, SubSeq(buf, h.next + 1, end))
            len == Len(buf)
<1>4. (end >= len <=> end > len \/ end = len)
  BY <1>1
<1>. HIDE DEF end, whole, len
<1>5. CASE h.verdict # "ok"
  BY <1>2, <1>5
<1>6. CASE h.verdict = "ok" /\ end >= len
  <2>1. Announced(buf, h, TRUE) = Failed("torn")
    BY <1>2, <1>4, <1>6 DEF len
  <2>. QED
    BY <1>3, <1>6, <2>1 DEF len
<1>7. CASE h.verdict = "ok" /\ ~(end >= len)
  BY <1>2, <1>3, <1>4, <1>7, Zenon DEF len
<1>. QED
  BY <1>5, <1>6, <1>7

\* What a string comes out as.
LEMMA BodyType ==
  ASSUME NEW buf \in Seq(Bytes), NEW h \in Verdicts
  PROVE  /\ Body(buf, h) \in Verdicts
         /\ EndsIn(Body(buf, h), h.next, buf)
<1>. DEFINE end == h.next + h.n
            token == SubSeq(buf, h.next + 1, end)
<1>1. h.next \in Nat /\ h.n \in Nat /\ end \in Nat /\ Len(buf) \in Nat
  BY DEF Verdicts
<1>2. Body(buf, h) =
        IF end >= Len(buf) THEN Failed("torn")
        ELSE IF buf[end + 1] # NL THEN Failed("corrupt")
        ELSE StringOk(h.n, end, token)
  BY DEF Body
<1>3. CASE Body(buf, h) = Failed("torn") \/ Body(buf, h) = Failed("corrupt")
  BY <1>3, FailedType
<1>4. CASE end < Len(buf) /\ Body(buf, h) = StringOk(h.n, end, token)
  <2>1. token \in Seq(Bytes)
    <3>1. \A i \in (h.next + 1)..end : i \in 1..Len(buf) /\ buf[i] \in Bytes
      BY <1>1, <1>4
    <3>. QED
      BY <1>1, <1>4, <3>1
  <2>. HIDE DEF token
  <2>2. <<token>> \in Seq(Seq(Bytes))
    BY <2>1
  <2>3. end + 1 \in Nat /\ end + 1 > h.next /\ end + 1 <= Len(buf)
    BY <1>1, <1>4
  <2>. HIDE DEF end
  <2>4. StringOk(h.n, end, token) \in Verdicts
    BY <1>1, <2>2, <2>3 DEF StringOk, Verdicts
  <2>5. StringOk(h.n, end, token).next = end + 1
    BY DEF StringOk
  <2>. QED
    BY <1>4, <2>3, <2>4, <2>5 DEF EndsIn
<1>. HIDE DEF end, token
<1>5. end >= Len(buf) \/ end < Len(buf)
  BY <1>1
<1>. QED
  BY <1>2, <1>3, <1>4, <1>5

\* A string comes out the same of both, or it is torn in the shorter.
LEMMA BodyAgrees ==
  ASSUME NEW small, NEW big, Begins(small, big), NEW h \in Verdicts
  PROVE  Agree(Body(small, h), Body(big, h), small)
<1>. DEFINE end == h.next + h.n
<1>1. h.next \in Nat /\ h.n \in Nat /\ end \in Nat
  BY DEF Verdicts
<1>2. /\ small \in Seq(Bytes) /\ big \in Seq(Bytes)
      /\ Len(small) \in Nat /\ Len(big) \in Nat /\ Len(small) <= Len(big)
      /\ \A i \in 1..Len(small) : small[i] = big[i]
  BY DEF Begins
<1>3. Body(small, h) =
        IF end >= Len(small) THEN Failed("torn")
        ELSE IF small[end + 1] # NL THEN Failed("corrupt")
        ELSE StringOk(h.n, end, SubSeq(small, h.next + 1, end))
  BY DEF Body
<1>4. Body(big, h) =
        IF end >= Len(big) THEN Failed("torn")
        ELSE IF big[end + 1] # NL THEN Failed("corrupt")
        ELSE StringOk(h.n, end, SubSeq(big, h.next + 1, end))
  BY DEF Body
<1>5. CASE end >= Len(small)
  <2>1. Body(small, h).verdict = "torn"
    BY <1>3, <1>5, FailedType
  <2>2. ASSUME Body(big, h).verdict = "ok" PROVE Body(big, h).next > Len(small)
    <3>1. Body(big, h) = StringOk(h.n, end, SubSeq(big, h.next + 1, end))
      BY <1>4, <2>2, FailedType
    <3>2. Body(big, h).next = end + 1
      BY <3>1 DEF StringOk
    <3>. QED
      BY <1>1, <1>2, <1>5, <3>2
  <2>. QED
    BY <2>1, <2>2 DEF Agree
<1>6. CASE end < Len(small)
  <2>1. end + 1 \in 1..Len(small) /\ ~(end >= Len(small)) /\ ~(end >= Len(big))
    BY <1>1, <1>2, <1>6
  <2>2. small[end + 1] = big[end + 1]
    BY <1>2, <2>1
  <2>3. SubSeq(small, h.next + 1, end) = SubSeq(big, h.next + 1, end)
    <3>1. h.next + 1 \in Nat \ {0} /\ end \in 0..Len(small)
      BY <1>1, <1>2, <1>6
    <3>. QED
      BY <3>1, SameBytes
  <2>4. Body(small, h) = Body(big, h)
    <3>1. Body(small, h) = IF small[end + 1] # NL THEN Failed("corrupt")
                           ELSE StringOk(h.n, end, SubSeq(small, h.next + 1, end))
      BY <1>3, <2>1, Zenon
    <3>2. Body(big, h) = IF big[end + 1] # NL THEN Failed("corrupt")
                         ELSE StringOk(h.n, end, SubSeq(big, h.next + 1, end))
      BY <1>4, <2>1, Zenon
    <3>. DEFINE one == StringOk(h.n, end, SubSeq(small, h.next + 1, end))
                two == StringOk(h.n, end, SubSeq(big, h.next + 1, end))
                next == end + 1
    <3>3. one = two /\ small[next] = big[next]
      BY <2>2, <2>3
    <3>. HIDE DEF one, two, next
    <3>. QED
      BY <3>1, <3>2, <3>3 DEF one, two, next
  <2>. QED
    BY <2>4 DEF Agree
<1>7. end >= Len(small) \/ end < Len(small)
  BY <1>1, <1>2
<1>. QED
  BY <1>5, <1>6, <1>7

\* StringAt needs a byte, and that it is the sigil of strings.
LEMMA StringIs ==
  ASSUME NEW buf \in Seq(Bytes), NEW cursor \in 0..Len(buf)
  PROVE  StringAt(buf, cursor) =
           IF cursor >= Len(buf) THEN Failed("torn")
           ELSE IF buf[cursor + 1] # "S" THEN Failed("corrupt")
           ELSE IF Header(buf, cursor).verdict # "ok" THEN Header(buf, cursor)
           ELSE Body(buf, Header(buf, cursor))
<1>1. Header(buf, cursor) \in Verdicts
  BY HeaderType
<1>2. Announced(buf, Header(buf, cursor), TRUE) =
        IF Header(buf, cursor).verdict # "ok" THEN Header(buf, cursor)
        ELSE Body(buf, Header(buf, cursor))
  BY <1>1, AnnouncedIs
<1>. QED
  BY <1>2 DEF StringAt

\* The type of StringAt.
LEMMA StringType ==
  ASSUME NEW buf \in Seq(Bytes), NEW cursor \in 0..Len(buf)
  PROVE  StringAt(buf, cursor) \in Verdicts /\ EndsIn(StringAt(buf, cursor), cursor, buf)
<1>. DEFINE h == Header(buf, cursor)
            string == StringAt(buf, cursor)
<1>1. h \in Verdicts /\ EndsIn(h, cursor, buf) /\ cursor \in Nat /\ Len(buf) \in Nat
  BY HeaderType
<1>2. Body(buf, h) \in Verdicts /\ EndsIn(Body(buf, h), h.next, buf)
  BY <1>1, BodyType
<1>3. \/ string \in {Failed("torn"), Failed("corrupt")}
      \/ string = h
      \/ h.verdict = "ok" /\ string = Body(buf, h)
  BY StringIs
<1>. HIDE DEF h, string
<1>4. CASE string \in {Failed("torn"), Failed("corrupt")}
  BY <1>4, FailedType DEF string
<1>5. CASE string = h
  BY <1>1, <1>5 DEF string
<1>6. CASE h.verdict = "ok" /\ string = Body(buf, h)
  <2>1. h.next \in Nat /\ Body(buf, h).next \in Nat
    BY <1>1, <1>2 DEF Verdicts
  <2>2. EndsIn(Body(buf, h), cursor, buf)
    BY <1>1, <1>2, <1>6, <2>1 DEF EndsIn
  <2>. QED
    BY <1>2, <1>6, <2>2 DEF string
<1>. QED
  BY <1>3, <1>4, <1>5, <1>6

\* The same with the sigil in front.
LEMMA StringAgrees ==
  ASSUME NEW small, NEW big, Begins(small, big), NEW cursor \in 0..Len(small)
  PROVE  Agree(StringAt(small, cursor), StringAt(big, cursor), small)
<1>. DEFINE hs == Header(small, cursor)
            hb == Header(big, cursor)
            s == StringAt(small, cursor)
            b == StringAt(big, cursor)
<1>1. /\ small \in Seq(Bytes) /\ big \in Seq(Bytes)
      /\ Len(small) \in Nat /\ Len(big) \in Nat /\ Len(small) <= Len(big)
      /\ \A i \in 1..Len(small) : small[i] = big[i]
      /\ cursor \in Nat /\ cursor \in 0..Len(big)
  BY DEF Begins
<1>2. hs \in Verdicts /\ hb \in Verdicts /\ Agree(hs, hb, small)
  BY <1>1, HeaderType, HeaderAgrees
<1>3. s \in Verdicts /\ EndsIn(s, cursor, small) /\ b \in Verdicts /\ EndsIn(b, cursor, big)
  BY <1>1, StringType
<1>4. s = IF cursor >= Len(small) THEN Failed("torn")
          ELSE IF small[cursor + 1] # "S" THEN Failed("corrupt")
          ELSE IF hs.verdict # "ok" THEN hs ELSE Body(small, hs)
  BY <1>1, StringIs
<1>5. b = IF cursor >= Len(big) THEN Failed("torn")
          ELSE IF big[cursor + 1] # "S" THEN Failed("corrupt")
          ELSE IF hb.verdict # "ok" THEN hb ELSE Body(big, hb)
  BY <1>1, StringIs
<1>. HIDE DEF hs, hb, s, b
<1>6. CASE cursor >= Len(small)
  <2>1. s.verdict = "torn"
    BY <1>4, <1>6, FailedType
  <2>2. b.verdict = "ok" => b.next > Len(small)
    <3>1. b.next \in Nat /\ (b.verdict = "ok" => b.next > cursor)
      BY <1>3 DEF EndsIn, Verdicts
    <3>. QED
      BY <1>1, <1>6, <3>1
  <2>3. Agree(s, b, small)
    BY <2>1, <2>2 DEF Agree
  <2>. QED
    BY <2>3 DEF s, b
<1>7. CASE cursor < Len(small)
  <2>1. cursor + 1 \in 1..Len(small) /\ ~(cursor >= Len(small)) /\ ~(cursor >= Len(big))
    BY <1>1, <1>7
  <2>2. small[cursor + 1] = big[cursor + 1]
    BY <1>1, <2>1
  <2>3. CASE small[cursor + 1] # "S"
    <3>1. s = b
      BY <1>4, <1>5, <2>1, <2>2, <2>3
    <3>. QED
      BY <3>1 DEF Agree, s, b
  <2>4. CASE small[cursor + 1] = "S"
    <3>1. /\ s = IF hs.verdict # "ok" THEN hs ELSE Body(small, hs)
          /\ b = IF hb.verdict # "ok" THEN hb ELSE Body(big, hb)
      BY <1>4, <1>5, <2>1, <2>2, <2>4
    <3>2. CASE hs = hb
      <4>1. Agree(Body(small, hs), Body(big, hs), small)
        BY <1>2, BodyAgrees
      <4>2. Agree(s, b, small)
        BY <3>1, <3>2, <4>1 DEF Agree
      <4>. QED
        BY <4>2 DEF s, b
    <3>3. CASE hs # hb
      <4>1. hs.verdict = "torn" /\ (hb.verdict = "ok" => hb.next > Len(small))
        BY <1>2, <3>3 DEF Agree
      <4>2. s = hs
        BY <3>1, <4>1
      <4>3. ASSUME b.verdict = "ok" PROVE b.next > Len(small)
        <5>1. hb.verdict = "ok" /\ b = Body(big, hb)
          BY <3>1, <4>3
        <5>2. EndsIn(Body(big, hb), hb.next, big)
          BY <1>1, <1>2, BodyType
        <5>3. b.next \in Nat /\ hb.next \in Nat /\ b.next > hb.next /\ hb.next > Len(small)
          BY <1>2, <1>3, <4>1, <4>3, <5>1, <5>2 DEF EndsIn, Verdicts
        <5>. QED
          BY <1>1, <5>3
      <4>4. Agree(s, b, small)
        BY <4>1, <4>2, <4>3 DEF Agree
      <4>. QED
        BY <4>4 DEF s, b
    <3>. QED
      BY <3>2, <3>3
  <2>. QED
    BY <2>3, <2>4
<1>8. cursor >= Len(small) \/ cursor < Len(small)
  BY <1>1
<1>. QED
  BY <1>6, <1>7, <1>8

-----------------------------------------------------------------------------
(***************************************************************************)
(* One string after the other.                                             *)
(***************************************************************************)
\* So far, within buf.
Within(u, buf) == u.verdict = "ok" => u.next <= Len(buf)

\* One good string more.
Joins(out, u, s) == out = [s EXCEPT !.tokens = u.tokens \o s.tokens]

\* A good string joins those before it.
LEMMA NextGood ==
  ASSUME NEW buf, NEW u, NEW s, u.verdict = "ok", s = StringAt(buf, u.next), s.verdict = "ok"
  PROVE  Joins(NextString(buf, u), u, s)
BY DEF NextString, Joined, Joins

\* NextString goes on only if all was good so far.
LEMMA NextIs ==
  ASSUME NEW buf, NEW u
  PROVE  /\ u.verdict # "ok" => NextString(buf, u) = u
         /\ u.verdict = "ok" /\ StringAt(buf, u.next).verdict # "ok" =>
              NextString(buf, u) = StringAt(buf, u.next)
         /\ u.verdict = "ok" /\ StringAt(buf, u.next).verdict = "ok" =>
              NextString(buf, u) = [StringAt(buf, u.next) EXCEPT !.tokens = u.tokens \o @]
BY DEF NextString, Joined

\* The type of NextString.
LEMMA NextType ==
  ASSUME NEW buf \in Seq(Bytes), NEW u \in Verdicts, Within(u, buf)
  PROVE  /\ NextString(buf, u) \in Verdicts /\ Within(NextString(buf, u), buf)
         /\ NextString(buf, u).verdict = "ok" =>
              u.verdict = "ok" /\ NextString(buf, u).next > u.next
<1>. DEFINE string == StringAt(buf, u.next)
            more == NextString(buf, u)
<1>1. u.next \in Nat /\ u.tokens \in Seq(Seq(Bytes)) /\ Len(buf) \in Nat
  BY DEF Verdicts
<1>2. CASE u.verdict # "ok"
  BY <1>2, NextIs
<1>3. CASE u.verdict = "ok"
  <2>1. u.next \in 0..Len(buf)
    BY <1>1, <1>3 DEF Within
  <2>2. string \in Verdicts /\ EndsIn(string, u.next, buf)
    BY <2>1, StringType
  <2>3. string.tokens \in Seq(Seq(Bytes))
    BY <2>2 DEF Verdicts
  <2>4. u.tokens \o string.tokens \in Seq(Seq(Bytes))
    BY <1>1, <2>3
  <2>5. CASE string.verdict # "ok"
    <3>1. more = string
      BY <1>3, <2>5, NextIs
    <3>. QED
      BY <2>2, <2>5, <3>1 DEF Within
  <2>6. CASE string.verdict = "ok"
    <3>1. more = [string EXCEPT !.tokens = u.tokens \o string.tokens]
      BY <1>3, <2>6, NextIs
    <3>. HIDE DEF string, more
    <3>2. more \in Verdicts /\ more.verdict = "ok" /\ more.next = string.next
      BY <2>2, <2>4, <2>6, <3>1 DEF Verdicts
    <3>3. more.next > u.next /\ more.next <= Len(buf)
      BY <2>2, <2>6, <3>2 DEF EndsIn
    <3>. QED
      BY <1>3, <3>2, <3>3 DEF Within, more
  <2>. QED
    BY <2>5, <2>6
<1>. QED
  BY <1>2, <1>3

\* One more string comes out the same of both, or is torn in the shorter.
LEMMA NextAgrees ==
  ASSUME NEW small, NEW big, Begins(small, big), NEW u \in Verdicts, NEW v \in Verdicts,
         Within(u, small), Within(v, big), Agree(u, v, small)
  PROVE  Agree(NextString(small, u), NextString(big, v), small)
<1>. DEFINE s == NextString(small, u)
            b == NextString(big, v)
<1>1. small \in Seq(Bytes) /\ big \in Seq(Bytes) /\ Len(small) \in Nat /\ Len(big) \in Nat
  BY DEF Begins
<1>2. /\ b \in Verdicts
      /\ b.verdict = "ok" => v.verdict = "ok" /\ b.next > v.next
  BY <1>1, NextType
<1>3. CASE u.verdict = "torn" /\ (v.verdict = "ok" => v.next > Len(small))
  <2>1. s = u
    BY <1>3, NextIs
  <2>2. ASSUME b.verdict = "ok" PROVE b.next > Len(small)
    <3>1. b.next \in Nat /\ v.next \in Nat
      BY <1>2 DEF Verdicts
    <3>. HIDE DEF b
    <3>. QED
      BY <1>1, <1>2, <1>3, <2>2, <3>1
  <2>. QED
    BY <1>3, <2>1, <2>2 DEF Agree
<1>4. CASE u = v /\ u.verdict # "ok"
  <2>1. s = u /\ b = v
    BY <1>4, NextIs
  <2>. QED
    BY <1>4, <2>1 DEF Agree
<1>5. CASE u = v /\ u.verdict = "ok"
  <2>. DEFINE one == StringAt(small, u.next)
              two == StringAt(big, u.next)
  <2>1. u.next \in 0..Len(small)
    BY <1>1, <1>5 DEF Within, Verdicts
  <2>2. Agree(one, two, small)
    BY <2>1, StringAgrees
  <2>3. CASE one = two
    <3>1. s = b
      BY <1>5, <2>3 DEF NextString
    <3>. QED
      BY <3>1 DEF Agree
  <2>4. CASE one.verdict = "torn" /\ (two.verdict = "ok" => two.next > Len(small))
    <3>1. s = one
      BY <1>5, <2>4, NextIs
    <3>2. two.verdict # "ok" => b = two
      BY <1>5, NextIs
    <3>3. two.verdict = "ok" => b = [two EXCEPT !.tokens = u.tokens \o two.tokens]
      BY <1>5, NextIs
    <3>4. two \in Verdicts
      <4>1. u.next \in 0..Len(big)
        BY <1>1, <2>1 DEF Begins
      <4>. QED
        BY <1>1, <4>1, StringType
    <3>. HIDE DEF one, two, s, b
    <3>5. b.verdict = two.verdict /\ b.next = two.next
      BY <3>2, <3>3, <3>4 DEF Verdicts
    <3>6. Agree(s, b, small)
      BY <2>4, <3>1, <3>5 DEF Agree
    <3>. QED
      BY <3>6 DEF s, b
  <2>. QED
    BY <2>2, <2>3, <2>4 DEF Agree
<1>. QED
  BY <1>3, <1>4, <1>5 DEF Agree

-----------------------------------------------------------------------------
(***************************************************************************)
(* The strings of a record.                                                *)
(***************************************************************************)
\* The step of the recursion in StringsOf.
OneMore(sofar, k, buf) == NextString(buf, sofar)

Strings == INSTANCE FoldTheorems WITH Op <- OneMore

\* f tells what there is after every string.
Collects(f, buf, header) ==
  /\ f[0] = header
  /\ \A k \in Nat : f[k + 1] = NextString(buf, f[k])
  /\ StringsOf(buf, header) = f[header.n]

\* There is such an f for every header.
LEMMA StringsSteps ==
  ASSUME NEW buf, NEW header
  PROVE  \E f : Collects(f, buf, header)
<1>. DEFINE f == CHOOSE f : Strings!IsRecursive(f, header, buf)
<1>1. Strings!IsRecursive(f, header, buf)
  BY Strings!RecursionExists
<1>2. StringsOf(buf, header) = f[header.n]
  BY DEF StringsOf, Strings!IsRecursive, OneMore
<1>. HIDE DEF f
<1>3. \A k \in Nat : f[k] = IF k = 0 THEN header ELSE NextString(buf, f[k - 1])
  BY <1>1 DEF Strings!IsRecursive, OneMore
<1>4. ASSUME NEW k \in Nat PROVE f[k + 1] = NextString(buf, f[k])
  <2>1. k + 1 \in Nat /\ k + 1 # 0 /\ (k + 1) - 1 = k
    OBVIOUS
  <2>. QED
    BY <1>3, <2>1
<1>. QED
  BY <1>2, <1>3, <1>4 DEF Collects

\* The type of what is collected, after any number of strings.
LEMMA CollectsType ==
  ASSUME NEW buf \in Seq(Bytes), NEW header \in Verdicts, Within(header, buf),
         NEW f, Collects(f, buf, header)
  PROVE  \A k \in Nat : /\ f[k] \in Verdicts /\ Within(f[k], buf)
                        /\ f[k].verdict = "ok" => header.verdict = "ok" /\ f[k].next >= header.next
<1>. DEFINE P(k) == /\ f[k] \in Verdicts /\ Within(f[k], buf)
                    /\ f[k].verdict = "ok" => header.verdict = "ok" /\ f[k].next >= header.next
            S == {k \in Nat : P(k)}
<1>1. 0 \in S
  <2>1. f[0] = header /\ header.next \in Nat
    BY DEF Collects, Verdicts
  <2>. QED
    BY <2>1
<1>2. ASSUME NEW k \in Nat, k \in S PROVE k + 1 \in S
  <2>. DEFINE u == f[k]
              v == f[k + 1]
  <2>1. v = NextString(buf, u) /\ P(k)
    BY <1>2 DEF Collects
  <2>2. /\ v \in Verdicts /\ Within(v, buf)
        /\ v.verdict = "ok" => u.verdict = "ok" /\ v.next > u.next
    <3>1. u \in Verdicts /\ Within(u, buf)
      BY <2>1
    <3>. HIDE DEF u
    <3>. QED
      BY <2>1, <3>1, NextType
  <2>3. v.verdict = "ok" => header.verdict = "ok" /\ v.next >= header.next
    <3>1. v.next \in Nat /\ u.next \in Nat /\ header.next \in Nat
      BY <2>1, <2>2 DEF Verdicts
    <3>2. u.verdict = "ok" => header.verdict = "ok" /\ u.next >= header.next
      BY <2>1
    <3>. HIDE DEF u, v
    <3>. QED
      BY <2>2, <3>1, <3>2
  <2>4. P(k + 1)
    BY <2>2, <2>3
  <2>. QED
    BY <2>4
<1>. HIDE DEF S
<1>3. \A k \in Nat : k \in S
  BY <1>1, <1>2, Strings!SetInduction
<1>. QED
  BY <1>3 DEF S

\* The type of StringsOf.
LEMMA StringsType ==
  ASSUME NEW buf \in Seq(Bytes), NEW header \in Verdicts, Within(header, buf)
  PROVE  /\ StringsOf(buf, header) \in Verdicts /\ Within(StringsOf(buf, header), buf)
         /\ StringsOf(buf, header).verdict = "ok" =>
              header.verdict = "ok" /\ StringsOf(buf, header).next >= header.next
<1>1. PICK f : Collects(f, buf, header)
  BY StringsSteps
<1>2. StringsOf(buf, header) = f[header.n] /\ header.n \in Nat
  BY <1>1 DEF Collects, Verdicts
<1>3. /\ f[header.n] \in Verdicts /\ Within(f[header.n], buf)
      /\ f[header.n].verdict = "ok" =>
           header.verdict = "ok" /\ f[header.n].next >= header.next
  BY <1>1, <1>2, CollectsType
<1>. QED
  BY <1>2, <1>3

\* The strings come out the same of both, or are torn in the shorter.
LEMMA StringsAgree ==
  ASSUME NEW small, NEW big, Begins(small, big), NEW u \in Verdicts, NEW v \in Verdicts,
         Within(u, small), Within(v, big), Agree(u, v, small)
  PROVE  Agree(StringsOf(small, u), StringsOf(big, v), small)
<1>1. small \in Seq(Bytes) /\ big \in Seq(Bytes) /\ Len(small) \in Nat /\ Len(big) \in Nat
  BY DEF Begins
<1>2. PICK f : Collects(f, small, u)
  BY StringsSteps
<1>3. PICK g : Collects(g, big, v)
  BY StringsSteps
<1>4. \A k \in Nat : f[k] \in Verdicts /\ Within(f[k], small)
  BY <1>1, <1>2, CollectsType
<1>5. \A k \in Nat : g[k] \in Verdicts /\ Within(g[k], big)
  BY <1>1, <1>3, CollectsType
<1>. DEFINE S == {k \in Nat : Agree(f[k], g[k], small)}
<1>6. 0 \in S
  BY <1>2, <1>3 DEF Collects
<1>7. ASSUME NEW k \in Nat, k \in S PROVE k + 1 \in S
  <2>1. f[k + 1] = NextString(small, f[k]) /\ g[k + 1] = NextString(big, g[k])
    BY <1>2, <1>3 DEF Collects
  <2>2. Agree(NextString(small, f[k]), NextString(big, g[k]), small)
    BY <1>4, <1>5, <1>7, NextAgrees
  <2>. QED
    BY <2>1, <2>2
<1>. HIDE DEF S
<1>8. \A k \in Nat : k \in S
  BY <1>6, <1>7, Strings!SetInduction
<1>9. CASE u = v
  <2>1. u.n \in Nat /\ StringsOf(small, u) = f[u.n] /\ StringsOf(big, v) = g[u.n]
    BY <1>2, <1>3, <1>9 DEF Collects, Verdicts
  <2>2. Agree(f[u.n], g[u.n], small)
    BY <1>8, <2>1 DEF S
  <2>. QED
    BY <2>1, <2>2
<1>10. CASE u.verdict = "torn" /\ (v.verdict = "ok" => v.next > Len(small))
  <2>. DEFINE T == {k \in Nat : f[k].verdict = "torn"}
  <2>1. 0 \in T
    BY <1>2, <1>10 DEF Collects
  <2>2. ASSUME NEW k \in Nat, k \in T PROVE k + 1 \in T
    <3>1. f[k + 1] = NextString(small, f[k]) /\ f[k].verdict = "torn"
      BY <1>2, <2>2 DEF Collects
    <3>2. NextString(small, f[k]) = f[k]
      BY <3>1, NextIs
    <3>. QED
      BY <3>1, <3>2
  <2>. HIDE DEF T
  <2>3. \A k \in Nat : k \in T
    BY <2>1, <2>2, Strings!SetInduction
  <2>4. StringsOf(small, u).verdict = "torn"
    <3>1. u.n \in Nat /\ StringsOf(small, u) = f[u.n]
      BY <1>2 DEF Collects, Verdicts
    <3>. QED
      BY <2>3, <3>1 DEF T
  <2>. DEFINE b == StringsOf(big, v)
  <2>5. b \in Verdicts /\ (b.verdict = "ok" => v.verdict = "ok" /\ b.next >= v.next)
    BY <1>1, StringsType
  <2>6. b.verdict = "ok" => b.next > Len(small)
    <3>1. b.next \in Nat /\ v.next \in Nat
      BY <2>5 DEF Verdicts
    <3>. HIDE DEF b
    <3>. QED
      BY <1>1, <1>10, <2>5, <3>1
  <2>. QED
    BY <2>4, <2>6 DEF Agree
<1>. QED
  BY <1>9, <1>10 DEF Agree

\* The type of a record.
LEMMA FramedType ==
  ASSUME NEW buf \in Seq(Bytes), NEW pos \in 0..Len(buf), buf[pos + 1] = "A"
  PROVE  /\ FramedAt(buf, pos) \in Verdicts
         /\ EndsIn(FramedAt(buf, pos), pos + 1, buf)
<1>. DEFINE h == Header(buf, pos)
            r == FramedAt(buf, pos)
<1>1. h \in Verdicts /\ EndsIn(h, pos, buf) /\ (h.verdict = "ok" => buf[h.next] = NL)
      /\ pos \in Nat /\ Len(buf) \in Nat
  BY HeaderType
<1>2. Within(h, buf) /\ r = StringsOf(buf, h)
  BY <1>1 DEF Within, EndsIn, FramedAt
<1>. HIDE DEF h, r
<1>3. /\ r \in Verdicts /\ Within(r, buf)
      /\ r.verdict = "ok" => h.verdict = "ok" /\ r.next >= h.next
  BY <1>1, <1>2, StringsType
<1>4. h.verdict = "ok" => h.next > pos + 1
  <2>1. ASSUME h.verdict = "ok" PROVE h.next > pos + 1
    <3>1. h.next \in Nat /\ h.next > pos
      BY <1>1, <2>1 DEF EndsIn, Verdicts
    <3>2. h.next # pos + 1
      BY <1>1, <2>1 DEF NL
    <3>. QED
      BY <1>1, <3>1, <3>2
  <2>. QED
    BY <2>1
<1>5. h.next \in Nat /\ r.next \in Nat
  BY <1>1, <1>3 DEF Verdicts
<1>6. EndsIn(r, pos + 1, buf)
  BY <1>1, <1>3, <1>4, <1>5 DEF EndsIn, Within
<1>. QED
  BY <1>3, <1>6 DEF r

\* A record comes out the same of both, or it is torn in the shorter.
LEMMA FramedAgrees ==
  ASSUME NEW small, NEW big, Begins(small, big), NEW pos \in 0..Len(small)
  PROVE  Agree(FramedAt(small, pos), FramedAt(big, pos), small)
<1>. DEFINE hs == Header(small, pos)
            hb == Header(big, pos)
<1>1. /\ small \in Seq(Bytes) /\ big \in Seq(Bytes)
      /\ Len(small) \in Nat /\ Len(big) \in Nat /\ pos \in 0..Len(big)
  BY DEF Begins
<1>2. /\ hs \in Verdicts /\ EndsIn(hs, pos, small)
      /\ hb \in Verdicts /\ EndsIn(hb, pos, big)
  BY <1>1, HeaderType
<1>3. Within(hs, small) /\ Within(hb, big)
  BY <1>2 DEF Within, EndsIn
<1>4. Agree(hs, hb, small)
  BY HeaderAgrees
<1>. HIDE DEF hs, hb
<1>5. Agree(StringsOf(small, hs), StringsOf(big, hb), small)
  BY <1>2, <1>3, <1>4, StringsAgree
<1>. QED
  BY <1>5 DEF hs, hb, FramedAt

-----------------------------------------------------------------------------
(***************************************************************************)
(* A unit: a record, or a legacy line.                                     *)
(***************************************************************************)
\* A legacy line starts behind pos bytes.
IsLine(buf, pos) ==
  buf[pos + 1] # "A" \/ (pos + 1 < Len(buf) /\ buf[pos + 2] \in Letters)

\* Where a legacy line ends.
LineEnd(buf, pos) == IF Newline(buf, pos) = 0 THEN Len(buf) ELSE Newline(buf, pos)

\* A unit is a legacy line, a lone sigil or a record.
LEMMA UnitIs ==
  ASSUME NEW buf \in Seq(Bytes), NEW pos \in Nat, pos < Len(buf)
  PROVE  UnitAt(buf, pos) = IF IsLine(buf, pos) THEN LineAt(buf, pos)
                            ELSE IF pos + 1 = Len(buf) THEN Failed("torn")
                            ELSE FramedAt(buf, pos)
<1>1. Len(buf) \in Nat /\ (pos + 1 < Len(buf) \/ pos + 1 = Len(buf))
      /\ ~(pos + 1 < Len(buf) /\ pos + 1 = Len(buf))
  OBVIOUS
<1>. QED
  BY <1>1, Zenon DEF UnitAt, IsLine

\* A legacy line is good, and ends within the file.
LEMMA LineType ==
  ASSUME NEW buf \in Seq(Bytes), NEW pos \in Nat, pos < Len(buf)
  PROVE  /\ LineAt(buf, pos) \in Verdicts /\ LineAt(buf, pos).verdict = "ok"
         /\ LineAt(buf, pos).next = LineEnd(buf, pos)
         /\ EndsIn(LineAt(buf, pos), pos, buf)
<1>. DEFINE nl == Newline(buf, pos)
            end == IF nl = 0 THEN Len(buf) ELSE nl - 1
            line == SubSeq(buf, pos + 1, end)
            tokens == IF line = <<>> THEN <<>> ELSE <<line>>
            next == LineEnd(buf, pos)
<1>1. LineAt(buf, pos) = [verdict |-> "ok", n |-> 0, next |-> next, tokens |-> tokens]
  BY DEF LineAt, LineEnd
<1>2. nl \in Nat /\ IsNewline(buf, pos, nl) /\ Len(buf) \in Nat
  BY NewlineIs
<1>3. next \in Nat /\ next > pos /\ next <= Len(buf) /\ end \in Nat /\ end <= Len(buf)
  <2>1. next = IF nl = 0 THEN Len(buf) ELSE nl
    BY DEF LineEnd
  <2>2. nl # 0 => nl \in (pos + 1)..Len(buf)
    BY <1>2 DEF IsNewline
  <2>. HIDE DEF nl, next
  <2>. QED
    BY <1>2, <2>1, <2>2
<1>. HIDE DEF nl, next, end
<1>4. line \in Seq(Bytes)
  <2>1. \A i \in (pos + 1)..end : i \in 1..Len(buf) /\ buf[i] \in Bytes
    BY <1>2, <1>3
  <2>. QED
    BY <1>2, <1>3, <2>1
<1>5. tokens \in Seq(Seq(Bytes))
  <2>. HIDE DEF line
  <2>1. <<>> \in Seq(Seq(Bytes)) /\ <<line>> \in Seq(Seq(Bytes))
    BY <1>4
  <2>. QED
    BY <2>1
<1>. HIDE DEF tokens
<1>. DEFINE r == [verdict |-> "ok", n |-> 0, next |-> next, tokens |-> tokens]
<1>6. r \in Verdicts /\ r.verdict = "ok" /\ r.next = next
  BY <1>3, <1>5 DEF Verdicts
<1>7. EndsIn(r, pos, buf)
  BY <1>3, <1>6 DEF EndsIn
<1>. QED
  BY <1>1, <1>6, <1>7 DEF next

\* A line with its newline comes out the same of both.
LEMMA LineAgrees ==
  ASSUME NEW small, NEW big, Begins(small, big), NEW pos \in Nat, pos < Len(small)
  PROVE  \/ LineAt(small, pos) = LineAt(big, pos)
         \/ LineAt(big, pos).next > Len(small) /\ small[Len(small)] # NL
<1>. DEFINE a == Newline(small, pos)
            b == Newline(big, pos)
<1>1. /\ small \in Seq(Bytes) /\ big \in Seq(Bytes) /\ Len(small) \in Nat /\ Len(big) \in Nat
      /\ Len(small) <= Len(big) /\ pos < Len(big)
  BY DEF Begins
<1>2. a \in Nat /\ IsNewline(small, pos, a) /\ b \in Nat /\ IsNewline(big, pos, b)
  BY <1>1, NewlineIs
<1>3. a = b \/ (a = 0 /\ b > Len(small) /\ Len(small) < Len(big))
  BY SameNewline
<1>4. LineAt(big, pos).next = IF b = 0 THEN Len(big) ELSE b
  BY <1>1, LineType DEF LineEnd
<1>. HIDE DEF a, b
<1>5. CASE a # 0
  <2>1. a = b /\ a \in (pos + 1)..Len(small)
    BY <1>2, <1>3, <1>5 DEF IsNewline
  <2>2. SubSeq(small, pos + 1, a - 1) = SubSeq(big, pos + 1, b - 1)
    <3>1. pos + 1 \in Nat \ {0} /\ a - 1 \in 0..Len(small)
      BY <1>1, <2>1
    <3>. QED
      BY <2>1, <3>1, SameBytes
  <2>3. /\ LineAt(small, pos) =
             [verdict |-> "ok", n |-> 0, next |-> a,
              tokens |-> IF SubSeq(small, pos + 1, a - 1) = <<>> THEN <<>>
                         ELSE <<SubSeq(small, pos + 1, a - 1)>>]
        /\ LineAt(big, pos) =
             [verdict |-> "ok", n |-> 0, next |-> b,
              tokens |-> IF SubSeq(big, pos + 1, b - 1) = <<>> THEN <<>>
                         ELSE <<SubSeq(big, pos + 1, b - 1)>>]
    BY <1>5, <2>1 DEF LineAt, a, b
  <2>. QED
    BY <2>1, <2>2, <2>3
<1>6. CASE a = 0 /\ Len(small) = Len(big)
  <2>1. small = big
    BY <1>1, <1>6, SeqEqual DEF Begins
  <2>. QED
    BY <2>1
<1>7. CASE a = 0 /\ Len(small) # Len(big)
  <2>1. Len(small) \in (pos + 1)..Len(small)
    BY <1>1
  <2>2. small[Len(small)] # NL
    BY <1>2, <1>7, <2>1 DEF IsNewline
  <2>3. LineAt(big, pos).next > Len(small)
    BY <1>1, <1>2, <1>3, <1>4, <1>7
  <2>. QED
    BY <2>2, <2>3
<1>. QED
  BY <1>5, <1>6, <1>7

\* The type of a unit; a good one is not empty.
LEMMA UnitType ==
  ASSUME NEW buf \in Seq(Bytes), NEW pos \in Nat, pos < Len(buf)
  PROVE  UnitAt(buf, pos) \in Verdicts /\ EndsIn(UnitAt(buf, pos), pos, buf)
<1>1. Len(buf) \in Nat /\ pos \in 0..Len(buf)
  OBVIOUS
<1>2. CASE IsLine(buf, pos)
  <2>1. UnitAt(buf, pos) = LineAt(buf, pos)
    BY <1>2, UnitIs
  <2>. QED
    BY <2>1, LineType
<1>3. CASE ~IsLine(buf, pos) /\ pos + 1 = Len(buf)
  <2>1. UnitAt(buf, pos) = Failed("torn")
    BY <1>3, UnitIs
  <2>. QED
    BY <2>1, FailedType
<1>4. CASE ~IsLine(buf, pos) /\ pos + 1 # Len(buf)
  <2>1. UnitAt(buf, pos) = FramedAt(buf, pos)
    BY <1>4, UnitIs
  <2>2. buf[pos + 1] = "A"
    BY <1>4 DEF IsLine
  <2>. DEFINE r == FramedAt(buf, pos)
  <2>3. r \in Verdicts /\ EndsIn(r, pos + 1, buf)
    BY <1>1, <2>2, FramedType
  <2>4. EndsIn(r, pos, buf)
    <3>1. r.next \in Nat
      BY <2>3 DEF Verdicts
    <3>. HIDE DEF r
    <3>. QED
      BY <2>3, <3>1 DEF EndsIn
  <2>. QED
    BY <2>1, <2>3, <2>4
<1>. QED
  BY <1>2, <1>3, <1>4

\* A unit is the same in small as in big, or it ends in big only behind small;
\* and then it is torn in small, or it is a line that has no newline there.
LEMMA UnitAgrees ==
  ASSUME NEW small, NEW big, Begins(small, big), NEW pos \in Nat, pos < Len(small)
  PROVE  \/ UnitAt(small, pos) = UnitAt(big, pos)
         \/ /\ UnitAt(big, pos).verdict = "ok" => UnitAt(big, pos).next > Len(small)
            /\ \/ UnitAt(small, pos).verdict = "torn"
               \/ IsLine(big, pos) /\ small[Len(small)] # NL
<1>1. /\ small \in Seq(Bytes) /\ big \in Seq(Bytes) /\ Len(small) \in Nat /\ Len(big) \in Nat
      /\ Len(small) <= Len(big) /\ pos < Len(big)
      /\ \A i \in 1..Len(small) : small[i] = big[i]
      /\ pos \in 0..Len(small) /\ pos \in 0..Len(big)
  BY DEF Begins
<1>2. pos + 1 \in 1..Len(small) /\ small[pos + 1] = big[pos + 1]
  BY <1>1
<1>3. pos + 1 < Len(small) => pos + 2 \in 1..Len(small) /\ small[pos + 2] = big[pos + 2]
                              /\ pos + 1 < Len(big)
  BY <1>1
<1>4. CASE IsLine(small, pos)
  <2>1. IsLine(big, pos)
    BY <1>2, <1>3, <1>4 DEF IsLine
  <2>2. UnitAt(small, pos) = LineAt(small, pos) /\ UnitAt(big, pos) = LineAt(big, pos)
    BY <1>1, <1>4, <2>1, UnitIs
  <2>. QED
    BY <2>1, <2>2, LineAgrees
<1>5. CASE ~IsLine(small, pos) /\ pos + 1 = Len(small)
  <2>1. UnitAt(small, pos).verdict = "torn"
    BY <1>1, <1>5, UnitIs, FailedType
  <2>2. big[pos + 1] = "A"
    BY <1>2, <1>5 DEF IsLine
  <2>. DEFINE u == UnitAt(big, pos)
  <2>3. u \in Verdicts /\ EndsIn(u, pos, big)
    BY <1>1, UnitType
  <2>4. ASSUME u.verdict = "ok" PROVE u.next > pos + 1
    <3>1. CASE IsLine(big, pos)
      <4>1. u.next = LineEnd(big, pos) /\ pos + 1 < Len(big)
        BY <1>1, <2>2, <3>1, UnitIs, LineType DEF IsLine
      <4>2. Newline(big, pos) # pos + 1
        <5>1. IsNewline(big, pos, Newline(big, pos)) /\ pos + 1 # 0
          BY <1>1, NewlineIs
        <5>. QED
          BY <2>2, <5>1 DEF IsNewline, NL
      <4>3. u.next # pos + 1
        BY <1>1, <4>1, <4>2 DEF LineEnd
      <4>4. u.next \in Nat /\ u.next > pos
        BY <2>3, <2>4 DEF EndsIn, Verdicts
      <4>. QED
        BY <4>3, <4>4
    <3>2. CASE ~IsLine(big, pos)
      <4>1. u = Failed("torn") \/ u = FramedAt(big, pos)
        BY <1>1, <3>2, UnitIs
      <4>2. u = FramedAt(big, pos)
        BY <2>4, <4>1, FailedType
      <4>3. EndsIn(FramedAt(big, pos), pos + 1, big)
        BY <1>1, <2>2, FramedType
      <4>. QED
        BY <2>4, <4>2, <4>3 DEF EndsIn
    <3>. QED
      BY <3>1, <3>2
  <2>. QED
    BY <1>5, <2>1, <2>4
<1>6. CASE ~IsLine(small, pos) /\ pos + 1 # Len(small)
  <2>1. pos + 1 < Len(small) /\ pos + 1 # Len(big)
    BY <1>1, <1>6
  <2>2. ~IsLine(big, pos)
    BY <1>2, <1>3, <1>6, <2>1 DEF IsLine
  <2>3. UnitAt(small, pos) = FramedAt(small, pos) /\ UnitAt(big, pos) = FramedAt(big, pos)
    BY <1>1, <1>6, <2>1, <2>2, UnitIs
  <2>4. Agree(FramedAt(small, pos), FramedAt(big, pos), small)
    BY <1>1, FramedAgrees
  <2>. QED
    BY <2>3, <2>4 DEF Agree
<1>. QED
  BY <1>4, <1>5, <1>6

-----------------------------------------------------------------------------
(***************************************************************************)
(* The bytes of a record.                                                  *)
(***************************************************************************)
\* FlattenSeq, as the sequence f of its intermediate results.
Flattens(f, seqs, X, len) ==
  /\ f[0] = <<>>
  /\ \A n \in 1..len : f[n] = f[n - 1] \o seqs[n]
  /\ \A n \in 0..len : f[n] \in Seq(X)
  /\ FlattenSeq(seqs) = f[len]

\* There is such an f for every sequence of sequences.
LEMMA FlattenSteps ==
  ASSUME NEW len \in Nat, NEW X, NEW seqs \in [1..len -> Seq(X)]
  PROVE  \E f : Flattens(f, seqs, X, len)
<1>. DEFINE Flat(h, m) == h = [i \in 1..m |-> IF i = 1 THEN seqs[i] ELSE h[i - 1] \o seqs[i]]
            T == {m \in Nat : \E h : Flat(h, m)}
<1>1. 0 \in T
  <2>1. Flat([i \in 1..0 |-> 0], 0)
    OBVIOUS
  <2>. QED
    BY <2>1
<1>2. ASSUME NEW m \in Nat, m \in T PROVE m + 1 \in T
  <2>1. PICK was : Flat(was, m)
    BY <1>2
  <2>. DEFINE g == [i \in 1..(m + 1) |-> IF i = m + 1
                      THEN IF i = 1 THEN seqs[i] ELSE was[i - 1] \o seqs[i]
                      ELSE was[i]]
  <2>2. ASSUME NEW i \in 1..(m + 1)
        PROVE  g[i] = IF i = 1 THEN seqs[i] ELSE g[i - 1] \o seqs[i]
    <3>1. CASE i = 1
      <4>1. CASE m + 1 = 1
        BY <3>1, <4>1
      <4>2. CASE m + 1 # 1
        <5>1. 1 \in 1..m
          BY <4>2
        <5>. QED
          BY <2>1, <3>1, <4>2, <5>1
      <4>. QED
        BY <4>1, <4>2
    <3>2. CASE i # 1
      <4>1. i - 1 \in 1..(m + 1) /\ i - 1 # m + 1
        BY <3>2
      <4>2. g[i - 1] = was[i - 1]
        BY <4>1
      <4>3. CASE i = m + 1
        BY <3>2, <4>2, <4>3
      <4>4. CASE i # m + 1
        <5>1. i \in 1..m /\ g[i] = was[i]
          BY <4>4
        <5>2. was[i] = was[i - 1] \o seqs[i]
          BY <2>1, <3>2, <5>1
        <5>. QED
          BY <3>2, <4>2, <5>1, <5>2
      <4>. QED
        BY <4>3, <4>4
    <3>. QED
      BY <3>1, <3>2
  <2>3. Flat(g, m + 1)
    <3>1. g = [i \in 1..(m + 1) |-> g[i]]
      OBVIOUS
    <3>. HIDE DEF g
    <3>. QED
      BY <2>2, <3>1
  <2>. HIDE DEF g, Flat
  <2>4. \E h : Flat(h, m + 1)
    BY <2>3
  <2>. QED
    BY <2>4
<1>3. \E h : Flat(h, len)
  <2>. HIDE DEF T
  <2>1. len \in T
    BY <1>1, <1>2, Strings!SetInduction
  <2>. QED
    BY <2>1 DEF T
<1>4. seqs \in Seq(Seq(X)) /\ Len(seqs) = len
  OBVIOUS
<1>. DEFINE it == CHOOSE h : Flat(h, len)
<1>5. Flat(it, len)
  BY <1>3
<1>6. FlattenSeq(seqs) = IF len = 0 THEN seqs ELSE it[len]
  BY <1>4 DEF FlattenSeq
<1>. HIDE DEF it
<1>. DEFINE f == [n \in 0..len |-> IF n = 0 THEN <<>> ELSE it[n]]
            S == {n \in 0..len : f[n] \in Seq(X)}
<1>7. f[0] = <<>> /\ f[0] \in Seq(X)
  OBVIOUS
<1>8. ASSUME NEW n \in 1..len
      PROVE  /\ f[n] = IF n = 1 THEN seqs[n] ELSE f[n - 1] \o seqs[n]
             /\ seqs[n] \in Seq(X)
  <2>1. n \in 0..len /\ n - 1 \in 0..len /\ n # 0
    OBVIOUS
  <2>2. it[n] = IF n = 1 THEN seqs[n] ELSE it[n - 1] \o seqs[n]
    BY <1>5
  <2>3. n # 1 => f[n - 1] = it[n - 1]
    BY <2>1
  <2>. QED
    BY <2>1, <2>2, <2>3
<1>9. \A n \in 0..len : n \in S
  <2>1. 0 \in S
    BY <1>7
  <2>2. ASSUME NEW n \in 1..len, n - 1 \in S PROVE n \in S
    <3>1. f[n - 1] \in Seq(X) /\ n \in 0..len
      BY <2>2
    <3>. HIDE DEF f
    <3>2. seqs[n] \in Seq(X) /\ (f[n] = seqs[n] \/ f[n] = f[n - 1] \o seqs[n])
      BY <1>8
    <3>3. f[n - 1] \o seqs[n] \in Seq(X)
      BY <3>1, <3>2
    <3>. QED
      BY <3>1, <3>2, <3>3
  <2>. HIDE DEF S
  <2>. QED
    BY <2>1, <2>2, Strings!UpTo
<1>10. ASSUME NEW n \in 1..len PROVE f[n] = f[n - 1] \o seqs[n]
  <2>1. CASE n = 1
    <3>1. f[n - 1] = <<>>
      BY <1>7, <2>1
    <3>2. <<>> \o seqs[n] = seqs[n]
      BY <1>8
    <3>. HIDE DEF f
    <3>. QED
      BY <1>8, <2>1, <3>1, <3>2
  <2>2. CASE n # 1
    <3>. HIDE DEF f
    <3>. QED
      BY <1>8, <2>2
  <2>. QED
    BY <2>1, <2>2
<1>11. FlattenSeq(seqs) = f[len]
  <2>1. CASE len = 0
    <3>1. seqs = <<>>
      BY <1>4, <2>1
    <3>. QED
      BY <1>6, <1>7, <2>1, <3>1
  <2>2. CASE len # 0
    BY <1>6, <2>2
  <2>. QED
    BY <2>1, <2>2
<1>12. \A n \in 0..len : f[n] \in Seq(X)
  BY <1>9 DEF S
<1>. HIDE DEF f
<1>. QED
  BY <1>7, <1>10, <1>11, <1>12 DEF Flattens

\* FlattenSeq of one more sequence.
LEMMA FlattenAppend ==
  ASSUME NEW X, NEW s \in Seq(Seq(X)), NEW x \in Seq(X)
  PROVE  FlattenSeq(s) \in Seq(X) /\ FlattenSeq(Append(s, x)) = FlattenSeq(s) \o x
<1>. DEFINE n == Len(s)
            t == Append(s, x)
<1>1. n \in Nat /\ s \in [1..n -> Seq(X)]
  OBVIOUS
<1>2. n + 1 \in Nat /\ t \in [1..(n + 1) -> Seq(X)] /\ \A i \in 1..n : t[i] = s[i]
      /\ t[n + 1] = x
  <2>1. t \in Seq(Seq(X)) /\ Len(t) = n + 1
    OBVIOUS
  <2>2. t \in [1..(n + 1) -> Seq(X)]
    <3>. HIDE DEF t, n
    <3>. QED
      BY <1>1, <2>1
  <2>. QED
    BY <1>1, <2>2
<1>t. t[n + 1] = x
  BY <1>2
<1>. HIDE DEF n, t
<1>3. PICK f : Flattens(f, s, X, n)
  BY <1>1, FlattenSteps
<1>. DEFINE m == n + 1
<1>. HIDE DEF m
<1>m. m \in Nat /\ t \in [1..m -> Seq(X)]
  BY <1>2 DEF m
<1>4. PICK g : Flattens(g, t, X, m)
  BY <1>m, FlattenSteps
<1>. DEFINE S == {i \in 0..n : f[i] = g[i]}
<1>5. 0 \in S
  BY <1>1, <1>3, <1>4 DEF Flattens
<1>6. ASSUME NEW i \in 1..n, i - 1 \in S PROVE i \in S
  <2>1. i \in 0..n /\ i \in 1..(n + 1) /\ f[i - 1] = g[i - 1] /\ t[i] = s[i]
    BY <1>1, <1>2, <1>6
  <2>2. f[i] = f[i - 1] \o s[i] /\ g[i] = g[i - 1] \o t[i]
    BY <1>3, <1>4, <2>1 DEF Flattens, m
  <2>. QED
    BY <2>1, <2>2
<1>. HIDE DEF S
<1>7. \A i \in 0..n : i \in S
  BY <1>1, <1>5, <1>6, Strings!UpTo
<1>8. f[n] = g[n] /\ f[n] \in Seq(X)
  BY <1>1, <1>3, <1>7 DEF S, Flattens
<1>9. g[m] = g[n] \o x
  <2>1. m \in 1..m /\ m - 1 = n /\ t[m] = x
    <3>1. t[m] = x
      BY <1>t DEF m
    <3>2. n \in Nat
      BY <1>1
    <3>3. m \in 1..m /\ m - 1 = n
      BY <3>2 DEF m
    <3>. QED
      BY <3>1, <3>3
  <2>2. g[m] = g[m - 1] \o t[m]
    BY <1>4, <2>1 DEF Flattens
  <2>. QED
    BY <2>1, <2>2
<1>10. FlattenSeq(s) = f[n] /\ FlattenSeq(t) = g[m]
  BY <1>3, <1>4 DEF Flattens
<1>. QED
  BY <1>8, <1>9, <1>10 DEF t

\* The tokens of a record, as bytes.
Encoded(record) == FlattenSeq([i \in DOMAIN record |-> EncodeToken(record[i])])

\* How many bytes a header line takes.
LEMMA LineIs ==
  ASSUME NEW sigil \in Letters, NEW n \in Nat
  PROVE  /\ HeaderLine(sigil, n) \in Seq(Bytes)
         /\ Len(HeaderLine(sigil, n)) = Len(Numeral(n)) + 2
         /\ Len(Numeral(n)) \in Nat \ {0}
         /\ HeaderLine(sigil, n)[1] = sigil
         /\ \A i \in 1..Len(Numeral(n)) : HeaderLine(sigil, n)[i + 1] = Numeral(n)[i]
         /\ HeaderLine(sigil, n)[Len(Numeral(n)) + 2] = NL
<1>. DEFINE field == Numeral(n)
            one == <<sigil>>
            tail == <<NL>>
            size == Len(field)
            front == one \o field
<1>1. field \in Seq(Bytes) /\ size \in Nat \ {0}
  BY NumeralType
<1>2. sigil \in Bytes /\ NL \in Bytes
  BY AofFramingAssumption
<1>3. one \in Seq(Bytes) /\ Len(one) = 1 /\ one[1] = sigil
  BY <1>2
<1>4. tail \in Seq(Bytes) /\ Len(tail) = 1 /\ tail[1] = NL
  BY <1>2
<1>5. HeaderLine(sigil, n) = front \o tail
  BY DEF HeaderLine
<1>. HIDE DEF field, one, tail
<1>6. /\ front \in Seq(Bytes) /\ Len(front) = size + 1 /\ front[1] = sigil
      /\ \A i \in 1..size : front[i + 1] = field[i]
  <2>1. /\ front \in Seq(Bytes) /\ Len(front) = Len(one) + Len(field)
        /\ \A i \in 1..(Len(one) + Len(field)) :
             front[i] = IF i <= Len(one) THEN one[i] ELSE field[i - Len(one)]
    BY <1>1, <1>3, ConcatProperties
  <2>. HIDE DEF front
  <2>2. Len(front) = size + 1
    BY <1>1, <1>3, <2>1
  <2>3. front[1] = sigil
    BY <1>1, <1>3, <2>1
  <2>4. ASSUME NEW i \in 1..size PROVE front[i + 1] = field[i]
    <3>1. i + 1 \in 1..(1 + size) /\ ~(i + 1 <= 1) /\ (i + 1) - 1 = i
      BY <1>1
    <3>. QED
      BY <1>1, <1>3, <2>1, <3>1
  <2>. QED
    BY <2>1, <2>2, <2>3, <2>4
<1>. HIDE DEF front
<1>. DEFINE line == front \o tail
<1>7. /\ line \in Seq(Bytes) /\ Len(line) = size + 2 /\ line[1] = sigil
      /\ \A i \in 1..size : line[i + 1] = field[i]
      /\ line[size + 2] = NL
  <2>1. /\ line \in Seq(Bytes) /\ Len(line) = Len(front) + Len(tail)
        /\ \A i \in 1..(Len(front) + Len(tail)) :
             line[i] = IF i <= Len(front) THEN front[i] ELSE tail[i - Len(front)]
    BY <1>4, <1>6, ConcatProperties
  <2>. HIDE DEF line
  <2>2. Len(line) = size + 2 /\ \A i \in 1..(size + 1) : line[i] = front[i]
    BY <1>1, <1>4, <1>6, <2>1
  <2>3. line[size + 2] = NL
    <3>1. size + 2 \in 1..(size + 2) /\ ~(size + 2 <= size + 1) /\ (size + 2) - (size + 1) = 1
      BY <1>1
    <3>. QED
      BY <1>1, <1>4, <1>6, <2>1, <3>1
  <2>4. ASSUME NEW i \in 1..size PROVE line[i + 1] = field[i]
    <3>1. i + 1 \in 1..(size + 1)
      BY <1>1
    <3>. QED
      BY <1>6, <2>2, <3>1
  <2>5. line[1] = sigil
    BY <1>1, <1>6, <2>2
  <2>. QED
    BY <2>1, <2>2, <2>3, <2>4, <2>5
<1>. QED
  BY <1>1, <1>5, <1>7 DEF field, line

\* How many bytes a token takes.
LEMMA TokenType ==
  ASSUME NEW token \in Seq(Bytes)
  PROVE  /\ EncodeToken(token) \in Seq(Bytes)
         /\ Len(EncodeToken(token)) = Len(HeaderLine("S", Len(token))) + Len(token) + 1
         /\ EncodeToken(token) = (HeaderLine("S", Len(token)) \o token) \o <<NL>>
         /\ HeaderLine("S", Len(token)) \in Seq(Bytes) /\ <<NL>> \in Seq(Bytes)
<1>. DEFINE head == HeaderLine("S", Len(token))
            tail == <<NL>>
<1>1. EncodeToken(token) = head \o token \o tail
  BY DEF EncodeToken
<1>2. head \in Seq(Bytes)
  <2>1. "S" \in Letters /\ Len(token) \in Nat
    BY DEF Letters
  <2>. QED
    BY <2>1, LineIs
<1>3. tail \in Seq(Bytes) /\ Len(tail) = 1
  <2>1. NL \in Bytes
    BY AofFramingAssumption
  <2>. QED
    BY <2>1
<1>. HIDE DEF head, tail
<1>4. head \o token \in Seq(Bytes) /\ Len(head \o token) = Len(head) + Len(token)
  BY <1>2
<1>. DEFINE front == head \o token
<1>. HIDE DEF front
<1>5. front \o tail \in Seq(Bytes) /\ Len(front \o tail) = Len(head) + Len(token) + 1
  <2>1. front \in Seq(Bytes) /\ Len(front) = Len(head) + Len(token)
    BY <1>4 DEF front
  <2>2. front \o tail \in Seq(Bytes) /\ Len(front \o tail) = Len(front) + Len(tail)
    BY <1>3, <2>1, ConcatProperties
  <2>. QED
    BY <1>3, <2>1, <2>2
<1>. QED
  BY <1>1, <1>2, <1>3, <1>5 DEF head, tail, front

\* Records whose tokens fit under a header line.
Tokens == {r \in Seq(Seq(Bytes)) :
             \A i \in DOMAIN r : Fits(Len(r[i]))}

\* The bytes of one more token.
LEMMA EncodedAppend ==
  ASSUME NEW r \in Seq(Seq(Bytes)), NEW token \in Seq(Bytes)
  PROVE  Encoded(r) \in Seq(Bytes) /\ Encoded(Append(r, token)) = Encoded(r) \o EncodeToken(token)
<1>. DEFINE s == [i \in DOMAIN r |-> EncodeToken(r[i])]
            t == Append(r, token)
            u == [i \in DOMAIN t |-> EncodeToken(t[i])]
            n == Len(r)
<1>1. n \in Nat /\ DOMAIN r = 1..n /\ \A i \in 1..n : r[i] \in Seq(Bytes)
  OBVIOUS
<1>2. DOMAIN t = 1..(n + 1) /\ \A i \in 1..n : t[i] = r[i]
  BY <1>1
<1>3. t[n + 1] = token
  BY <1>1
<1>4. \A i \in 1..n : EncodeToken(r[i]) \in Seq(Bytes)
  BY <1>1, TokenType
<1>5. EncodeToken(token) \in Seq(Bytes)
  BY TokenType
<1>. HIDE DEF n, t
<1>6. s \in Seq(Seq(Bytes)) /\ Len(s) = n
  BY <1>1, <1>4
<1>7. u = Append(s, EncodeToken(token))
  <2>. DEFINE e == EncodeToken(token)
              w == Append(s, e)
  <2>1. w \in Seq(Seq(Bytes)) /\ Len(w) = n + 1
    BY <1>5, <1>6
  <2>2. \A i \in 1..n : w[i] = EncodeToken(r[i])
    <3>1. \A i \in 1..n : s[i] = EncodeToken(r[i])
      BY <1>1
    <3>2. \A i \in 1..n : w[i] = s[i]
      <4>. HIDE DEF s, e
      <4>. QED
        BY <1>1, <1>5, <1>6 DEF e
    <3>. HIDE DEF w, s
    <3>. QED
      BY <3>1, <3>2
  <2>3. w[n + 1] = e
    <3>. HIDE DEF s, e
    <3>. QED
      BY <1>1, <1>5, <1>6 DEF e
  <2>. HIDE DEF w, s
  <2>4. w = [i \in 1..(n + 1) |-> w[i]]
    BY <1>1, <2>1
  <2>5. u = [i \in 1..(n + 1) |-> EncodeToken(t[i])]
    BY <1>2
  <2>6. \A i \in 1..(n + 1) : w[i] = EncodeToken(t[i])
    <3>1. \A i \in 1..(n + 1) : i \in 1..n \/ i = n + 1
      BY <1>1
    <3>. HIDE DEF e
    <3>. QED
      BY <1>2, <1>3, <2>2, <2>3, <3>1 DEF e
  <2>. HIDE DEF u
  <2>. QED
    BY <2>4, <2>5, <2>6 DEF w
<1>. HIDE DEF s, u
<1>8. FlattenSeq(s) \in Seq(Bytes) /\ FlattenSeq(u) = FlattenSeq(s) \o EncodeToken(token)
  BY <1>5, <1>6, <1>7, FlattenAppend
<1>. QED
  BY <1>8 DEF Encoded, s, u, t

\* No tokens take no bytes.
LEMMA EncodedNothing == Encoded(<<>>) = <<>>
<1>1. [i \in DOMAIN <<>> |-> EncodeToken(<<>>[i])] = <<>>
  OBVIOUS
<1>2. FlattenSeq(<<>>) = <<>>
  BY DEF FlattenSeq
<1>. QED
  BY <1>1, <1>2 DEF Encoded

-----------------------------------------------------------------------------
(***************************************************************************)
(* Reading back what was written.                                          *)
(***************************************************************************)
\* piece is in buf, behind pos bytes.
IsAt(buf, pos, piece) ==
  /\ pos + Len(piece) <= Len(buf)
  /\ \A i \in 1..Len(piece) : buf[pos + i] = piece[i]

\* What is held of a concatenation: first its front, then its back.
LEMMA ConcatHolds ==
  ASSUME NEW buf \in Seq(Bytes), NEW pos \in Nat, NEW a \in Seq(Bytes), NEW b \in Seq(Bytes),
         IsAt(buf, pos, a \o b)
  PROVE  IsAt(buf, pos, a) /\ IsAt(buf, pos + Len(a), b)
<1>1. /\ Len(a) \in Nat /\ Len(b) \in Nat /\ Len(buf) \in Nat
      /\ Len(a \o b) = Len(a) + Len(b)
      /\ \A i \in 1..Len(a) : (a \o b)[i] = a[i]
      /\ \A i \in 1..Len(b) : (a \o b)[Len(a) + i] = b[i]
  BY ConcatProperties
<1>2. ASSUME NEW i \in 1..Len(a) PROVE buf[pos + i] = a[i]
  <2>1. i \in 1..(Len(a) + Len(b))
    BY <1>1
  <2>. QED
    BY <1>1, <2>1 DEF IsAt
<1>3. ASSUME NEW i \in 1..Len(b) PROVE buf[pos + Len(a) + i] = b[i]
  <2>1. Len(a) + i \in 1..(Len(a) + Len(b)) /\ pos + (Len(a) + i) = pos + Len(a) + i
    BY <1>1
  <2>2. buf[pos + (Len(a) + i)] = (a \o b)[Len(a) + i]
    BY <1>1, <2>1 DEF IsAt
  <2>. QED
    BY <1>1, <2>1, <2>2
<1>4. pos + Len(a) <= Len(buf) /\ pos + Len(a) + Len(b) <= Len(buf)
  BY <1>1 DEF IsAt
<1>. QED
  BY <1>2, <1>3, <1>4 DEF IsAt

\* What was appended is held behind what was there.
LEMMA HoldsTail ==
  ASSUME NEW base \in Seq(Bytes), NEW piece \in Seq(Bytes)
  PROVE  /\ base \o piece \in Seq(Bytes)
         /\ Len(base \o piece) = Len(base) + Len(piece)
         /\ IsAt(base \o piece, Len(base), piece)
         /\ Begins(base, base \o piece)
<1>1. /\ Len(base) \in Nat /\ Len(piece) \in Nat /\ base \o piece \in Seq(Bytes)
      /\ Len(base \o piece) = Len(base) + Len(piece)
      /\ \A i \in 1..Len(base) : (base \o piece)[i] = base[i]
      /\ \A i \in 1..Len(piece) : (base \o piece)[Len(base) + i] = piece[i]
  BY ConcatProperties
<1>. DEFINE buf == base \o piece
<1>. HIDE DEF buf
<1>2. IsAt(buf, Len(base), piece) /\ Begins(base, buf)
  BY <1>1 DEF IsAt, Begins, buf
<1>. QED
  BY <1>1, <1>2 DEF buf

\* A header that was written is read.
LEMMA HeaderReads ==
  ASSUME NEW buf \in Seq(Bytes), NEW pos \in Nat, NEW n \in Nat, Fits(n), NEW sigil \in Letters,
         IsAt(buf, pos, HeaderLine(sigil, n)), NEW len, len = Len(HeaderLine(sigil, n))
  PROVE  Header(buf, pos) = HeaderOk(n, pos + len)
<1>. DEFINE field == Numeral(n)
            nl == Newline(buf, pos)
            size == Len(field)
            line == HeaderLine(sigil, n)
<1>1. /\ field \in Seq(Bytes) /\ size \in Nat \ {0}
      /\ \A i \in 1..size : field[i] # NL
  BY NumeralType
<1>2. /\ len = size + 2 /\ line[1] = sigil /\ line[len] = NL
      /\ \A i \in 1..size : line[i + 1] = field[i]
  <2>1. /\ Len(line) = size + 2 /\ line[1] = sigil /\ line[size + 2] = NL
        /\ \A i \in 1..size : line[i + 1] = field[i]
    BY LineIs
  <2>2. len = size + 2
    BY <2>1
  <2>. HIDE DEF size, line, field
  <2>. QED
    BY <2>1, <2>2
<1>3. sigil # NL /\ size < MaxHeaderLine /\ MaxHeaderLine \in Nat /\ Len(buf) \in Nat
  BY AofFramingAssumption DEF Letters, NL, Fits
<1>4. pos + len <= Len(buf) /\ \A i \in 1..len : buf[pos + i] = line[i]
  BY DEF IsAt
<1>5. nl \in Nat /\ IsNewline(buf, pos, nl)
  BY NewlineIs
<1>. HIDE DEF nl, field, line
<1>6. /\ buf[pos + len] = NL
      /\ \A i \in 1..(len - 1) : buf[pos + i] # NL
      /\ \A i \in 1..size : buf[pos + 1 + i] = field[i]
  <2>1. buf[pos + len] = NL
    BY <1>1, <1>2, <1>4
  <2>2. buf[pos + 1] # NL
    BY <1>1, <1>2, <1>3, <1>4
  <2>3. ASSUME NEW i \in 1..size PROVE buf[pos + 1 + i] = field[i]
    <3>1. i + 1 \in 1..len /\ pos + (i + 1) = pos + 1 + i
      BY <1>1, <1>2
    <3>. QED
      BY <1>2, <1>4, <3>1
  <2>4. ASSUME NEW i \in 1..(len - 1), i # 1 PROVE buf[pos + i] # NL
    <3>1. i - 1 \in 1..size /\ pos + 1 + (i - 1) = pos + i
      BY <1>1, <1>2, <2>4
    <3>. QED
      BY <1>1, <2>3, <3>1
  <2>. QED
    BY <2>1, <2>2, <2>3, <2>4
<1>7. nl = pos + len
  <2>1. len \in Nat /\ pos + len \in (pos + 1)..Len(buf)
    BY <1>1, <1>2, <1>3, <1>4
  <2>2. nl # 0
    <3>1. 0 \notin (pos + 1)..Len(buf)
      OBVIOUS
    <3>. QED
      BY <1>5, <1>6, <2>1, <3>1 DEF IsNewline
  <2>3. nl \in (pos + 1)..Len(buf) /\ buf[nl] = NL
        /\ \A i \in (pos + 1)..(nl - 1) : buf[i] # NL
    BY <1>5, <2>2 DEF IsNewline
  <2>4. ~(nl < pos + len)
    <3>1. ASSUME nl < pos + len PROVE FALSE
      <4>1. nl - pos \in 1..(len - 1) /\ pos + (nl - pos) = nl
        BY <1>3, <2>1, <2>3, <3>1
      <4>2. buf[pos + (nl - pos)] # NL
        BY <1>6, <4>1
      <4>. QED
        BY <2>3, <4>1, <4>2
    <3>. QED
      BY <3>1
  <2>5. ~(nl > pos + len)
    BY <1>3, <1>6, <2>1, <2>3
  <2>. QED
    BY <1>5, <2>1, <2>4, <2>5
<1>8. SubSeq(buf, pos + 2, nl - 1) = field
  <2>. DEFINE first == pos + 2
              last == nl - 1
              part == SubSeq(buf, first, last)
  <2>1. /\ first \in Nat \ {0} /\ last \in Nat /\ last <= Len(buf) /\ last - first + 1 = size
        /\ first <= last
    BY <1>1, <1>2, <1>3, <1>4, <1>7
  <2>2. \A i \in 1..Len(buf) : buf[i] \in Bytes
    OBVIOUS
  <2>. HIDE DEF first, last
  <2>3. part \in Seq(Bytes) /\ Len(part) = last - first + 1
    BY <1>3, <2>1, <2>2
  <2>4. \A i \in 1..(last - first + 1) : part[i] = buf[first + i - 1]
    BY <1>3, <2>1
  <2>. HIDE DEF part
  <2>5. ASSUME NEW i \in 1..size PROVE part[i] = field[i]
    <3>1. first + i - 1 = pos + 1 + i
      BY DEF first
    <3>. QED
      BY <1>6, <2>1, <2>4, <3>1
  <2>6. part = field
    <3>1. Len(part) = Len(field)
      BY <2>1, <2>3
    <3>. QED
      BY <1>1, <2>3, <2>5, <3>1, SeqEqual
  <2>. QED
    BY <2>6 DEF part, first, last
<1>9. Count(SubSeq(buf, pos + 2, nl - 1)) = n
  BY <1>8, CountOfNumeral DEF field
<1>. DEFINE full == nl - 1 - pos
<1>10. full = IF nl = 0 THEN Len(buf) - pos ELSE nl - 1 - pos
  BY <1>1, <1>2, <1>7
<1>11. ~(full > MaxHeaderLine) /\ nl # 0 /\ n # NoCount
  BY <1>1, <1>2, <1>3, <1>7 DEF NoCount
<1>. HIDE DEF full
<1>12. HeaderTo(buf, pos, nl) = HeaderOk(n, nl)
  BY <1>9, <1>10, <1>11, HeaderToIs
<1>. QED
  BY <1>7, <1>12 DEF Header, nl

\* A token that was written is read.
LEMMA StringReads ==
  ASSUME NEW buf \in Seq(Bytes), NEW pos \in Nat, NEW token \in Seq(Bytes), Fits(Len(token)),
         IsAt(buf, pos, EncodeToken(token))
  PROVE  /\ StringAt(buf, pos) =
              StringOk(Len(token), pos + Len(HeaderLine("S", Len(token))) + Len(token), token)
         /\ pos + Len(EncodeToken(token)) <= Len(buf)
<1>. DEFINE head == HeaderLine("S", Len(token))
            tail == <<NL>>
            n == Len(token)
            m == Len(head)
            end == pos + m + n
<1>1. EncodeToken(token) = (head \o token) \o tail /\ head \in Seq(Bytes) /\ tail \in Seq(Bytes)
      /\ Len(EncodeToken(token)) = m + n + 1
  BY TokenType
<1>2. Len(tail) = 1 /\ tail[1] = NL /\ Len(buf) \in Nat /\ n \in Nat /\ Fits(n)
  OBVIOUS
<1>3. m \in Nat /\ m > 0 /\ head[1] = "S"
  <2>1. "S" \in Letters
    BY DEF Letters
  <2>2. m = Len(Numeral(n)) + 2 /\ Len(Numeral(n)) \in Nat /\ head[1] = "S"
    BY <1>2, <2>1, LineIs
  <2>. HIDE DEF m
  <2>. QED
    BY <2>2
<1>. HIDE DEF head, tail, n
<1>4. head \o token \in Seq(Bytes) /\ Len(head \o token) = m + n
  <2>1. Len(token) = n /\ head \in Seq(Bytes) /\ Len(head) = m
    BY <1>1 DEF n
  <2>2. head \o token \in Seq(Bytes) /\ Len(head \o token) = Len(head) + Len(token)
    BY <2>1, ConcatProperties
  <2>. QED
    BY <2>1, <2>2
<1>5. IsAt(buf, pos, head \o token) /\ IsAt(buf, pos + (m + n), tail)
  <2>1. IsAt(buf, pos, (head \o token) \o tail)
    BY <1>1
  <2>. DEFINE front == head \o token
  <2>2. front \in Seq(Bytes) /\ Len(front) = m + n
    BY <1>4
  <2>. HIDE DEF front
  <2>3. IsAt(buf, pos, front) /\ IsAt(buf, pos + Len(front), tail)
    BY <1>1, <2>1, <2>2, ConcatHolds DEF front
  <2>. QED
    BY <2>2, <2>3 DEF front
<1>6. IsAt(buf, pos, head) /\ IsAt(buf, pos + m, token)
  BY <1>1, <1>5, ConcatHolds
<1>7. Header(buf, pos) = HeaderOk(n, pos + m)
  <2>1. "S" \in Letters
    BY DEF Letters
  <2>. DEFINE sigil == "S"
  <2>2. IsAt(buf, pos, HeaderLine(sigil, n)) /\ m = Len(HeaderLine(sigil, n))
    BY <1>6 DEF head, n
  <2>3. sigil \in Letters /\ n \in Nat /\ Fits(n)
    BY <1>2, <2>1
  <2>. HIDE DEF m, sigil
  <2>. QED
    BY <2>2, <2>3, HeaderReads
<1>. HIDE DEF m
<1>8. end \in Nat /\ end < Len(buf) /\ buf[end + 1] = NL
  <2>1. pos + (m + n) + 1 <= Len(buf) /\ buf[pos + (m + n) + 1] = NL
    BY <1>2, <1>5 DEF IsAt
  <2>. QED
    BY <1>2, <1>3, <2>1
<1>9. buf[pos + 1] = "S" /\ pos < Len(buf) /\ pos \in 0..Len(buf)
  <2>1. IsAt(buf, pos, head) /\ Len(head) = m /\ 1 \in 1..m
    BY <1>3, <1>6 DEF m
  <2>2. buf[pos + 1] = head[1]
    BY <2>1 DEF IsAt
  <2>. QED
    BY <1>2, <1>3, <1>8, <2>2
<1>10. SubSeq(buf, pos + m + 1, end) = token
  <2>1. \A i \in 1..n : buf[pos + m + i] = token[i]
    BY <1>6 DEF IsAt, n
  <2>. DEFINE first == pos + m + 1
              last == end
              part == SubSeq(buf, first, last)
  <2>5. /\ first \in Nat \ {0} /\ last \in Nat /\ last <= Len(buf) /\ last - first + 1 = n
        /\ first <= last + 1
    BY <1>2, <1>3, <1>8
  <2>6. \A i \in 1..Len(buf) : buf[i] \in Bytes
    OBVIOUS
  <2>7. \A i \in 1..n : first + i - 1 = pos + m + i
    BY <1>2, <1>3
  <2>. HIDE DEF first, last
  <2>2. part \in Seq(Bytes) /\ Len(part) = n
    BY <1>2, <2>5, <2>6
  <2>8. \A i \in 1..(last - first + 1) : part[i] = buf[first + i - 1]
    BY <1>2, <2>5
  <2>. HIDE DEF part
  <2>3. \A i \in 1..n : part[i] = buf[pos + m + i]
    BY <2>5, <2>7, <2>8
  <2>4. part = token
    <3>1. Len(part) = Len(token) /\ n = Len(token)
      BY <2>2 DEF n
    <3>. QED
      BY <2>1, <2>2, <2>3, <3>1, SeqEqual
  <2>. QED
    BY <2>4 DEF part, first, last
<1>. DEFINE h == HeaderOk(n, pos + m)
<1>11. h.verdict = "ok" /\ h.n = n /\ h.next = pos + m
  BY DEF HeaderOk
<1>. HIDE DEF h
<1>12. Body(buf, h) = StringOk(n, end, token)
  <2>1. h.next + h.n = end
    BY <1>11
  <2>2. Body(buf, h) = IF end >= Len(buf) THEN Failed("torn")
                       ELSE IF buf[end + 1] # NL THEN Failed("corrupt")
                       ELSE StringOk(h.n, end, SubSeq(buf, h.next + 1, end))
    BY <2>1 DEF Body
  <2>3. ~(end >= Len(buf))
    BY <1>2, <1>8
  <2>. HIDE DEF end
  <2>. QED
    BY <1>8, <1>10, <1>11, <2>2, <2>3 DEF end
<1>13. StringAt(buf, pos) = Body(buf, h)
  <2>1. ~(pos >= Len(buf))
    BY <1>2, <1>9
  <2>2. StringAt(buf, pos) =
           IF pos >= Len(buf) THEN Failed("torn")
           ELSE IF buf[pos + 1] # "S" THEN Failed("corrupt")
           ELSE IF Header(buf, pos).verdict # "ok" THEN Header(buf, pos)
           ELSE Body(buf, Header(buf, pos))
    BY <1>9, StringIs
  <2>3. Header(buf, pos) = h
    BY <1>7 DEF h
  <2>. QED
    BY <1>9, <1>11, <2>1, <2>2, <2>3
<1>14. pos + Len(EncodeToken(token)) <= Len(buf)
  BY DEF IsAt
<1>. QED
  BY <1>12, <1>13, <1>14 DEF n, m, head

\* The first tokens of a record that was written are there.
LEMMA TokensHeld ==
  ASSUME NEW buf \in Seq(Bytes), NEW pos \in Nat, NEW r \in Tokens, IsAt(buf, pos, Encoded(r))
  PROVE  \A k \in 0..Len(r) :
           /\ Encoded(SubSeq(r, 1, k)) \in Seq(Bytes)
           /\ IsAt(buf, pos, Encoded(SubSeq(r, 1, k)))
           /\ k < Len(r) =>
                /\ IsAt(buf, pos + Len(Encoded(SubSeq(r, 1, k))), EncodeToken(r[k + 1]))
                /\ Encoded(SubSeq(r, 1, k + 1)) = Encoded(SubSeq(r, 1, k)) \o EncodeToken(r[k + 1])
<1>. DEFINE n == Len(r)
            part(k) == SubSeq(r, 1, k)
<1>1. n \in Nat /\ DOMAIN r = 1..n /\ r \in Seq(Seq(Bytes))
      /\ \A i \in 1..n : r[i] \in Seq(Bytes)
  BY DEF Tokens
<1>2. ASSUME NEW k \in 0..n
      PROVE  part(k) \in Seq(Seq(Bytes)) /\ Len(part(k)) = k /\ DOMAIN part(k) = 1..k
             /\ \A i \in 1..k : part(k)[i] = r[i]
  BY <1>1
<1>. HIDE DEF n
<1>3. ASSUME NEW k \in 0..n, k < n
      PROVE  k + 1 \in 0..n /\ part(k + 1) = Append(part(k), r[k + 1])
  <2>1. k + 1 \in 0..n /\ k + 1 \in 1..n /\ k \in Nat
    BY <1>1, <1>3
  <2>. DEFINE a == part(k)
              b == part(k + 1)
              x == r[k + 1]
  <2>2. a \in Seq(Seq(Bytes)) /\ Len(a) = k /\ \A i \in 1..k : a[i] = r[i]
    BY <1>2
  <2>3. b \in Seq(Seq(Bytes)) /\ Len(b) = k + 1 /\ \A i \in 1..(k + 1) : b[i] = r[i]
    BY <1>2, <2>1
  <2>4. x \in Seq(Bytes)
    BY <1>1, <2>1
  <2>. HIDE DEF a, b, part
  <2>. HIDE DEF x
  <2>5. Append(a, x) \in Seq(Seq(Bytes)) /\ Len(Append(a, x)) = k + 1
        /\ (\A i \in 1..k : Append(a, x)[i] = a[i]) /\ Append(a, x)[k + 1] = x
    BY <2>2, <2>4
  <2>6. \A i \in 1..(k + 1) : b[i] = Append(a, x)[i]
    <3>1. \A i \in 1..(k + 1) : i \in 1..k \/ i = k + 1
      BY <2>1
    <3>. QED
      BY <2>2, <2>3, <2>5, <3>1 DEF x
  <2>7. b = Append(a, x)
    BY <2>3, <2>5, <2>6, SeqEqual
  <2>. QED
    BY <2>1, <2>7 DEF a, b, x
<1>. HIDE DEF part
<1>4. ASSUME NEW k \in 0..n, k < n
      PROVE  /\ Encoded(part(k)) \in Seq(Bytes)
             /\ EncodeToken(r[k + 1]) \in Seq(Bytes)
             /\ Encoded(part(k + 1)) = Encoded(part(k)) \o EncodeToken(r[k + 1])
  <2>1. part(k) \in Seq(Seq(Bytes))
    BY <1>2
  <2>2. r[k + 1] \in Seq(Bytes)
    <3>1. k + 1 \in 1..n
      BY <1>1, <1>4
    <3>. QED
      BY <1>1, <3>1
  <2>3. EncodeToken(r[k + 1]) \in Seq(Bytes)
    BY <2>2, TokenType
  <2>. QED
    BY <1>3, <1>4, <2>1, <2>2, <2>3, EncodedAppend
<1>5. part(n) = r
  <2>1. n \in 0..n
    BY <1>1
  <2>. QED
    BY <1>1, <1>2, <2>1, SeqEqual DEF n
<1>. DEFINE S == {j \in 0..n : IsAt(buf, pos, Encoded(part(n - j)))}
<1>6. 0 \in S
  <2>1. 0 \in 0..n /\ n - 0 = n
    BY <1>1
  <2>. QED
    BY <1>5, <2>1
<1>7. ASSUME NEW j \in 1..n, j - 1 \in S PROVE j \in S
  <2>. DEFINE k == n - j
  <2>1. k \in 0..n /\ k < n /\ n - (j - 1) = k + 1 /\ j \in 0..n
    BY <1>1
  <2>2. IsAt(buf, pos, Encoded(part(k + 1)))
    BY <1>7, <2>1
  <2>. HIDE DEF k
  <2>. DEFINE a == Encoded(part(k))
              b == EncodeToken(r[k + 1])
  <2>3. a \in Seq(Bytes) /\ b \in Seq(Bytes) /\ IsAt(buf, pos, a \o b)
    BY <1>4, <2>1, <2>2
  <2>4. IsAt(buf, pos, a)
    <3>. HIDE DEF a, b
    <3>. QED
      BY <2>3, ConcatHolds
  <2>. QED
    BY <2>1, <2>4 DEF k
<1>. HIDE DEF S
<1>8. \A j \in 0..n : j \in S
  BY <1>1, <1>6, <1>7, Strings!UpTo
<1>9. ASSUME NEW k \in 0..n PROVE IsAt(buf, pos, Encoded(part(k)))
  <2>1. n - k \in 0..n /\ n - (n - k) = k
    BY <1>1
  <2>. QED
    BY <1>8, <2>1 DEF S
<1>10. ASSUME NEW k \in 0..n, k < n
       PROVE  IsAt(buf, pos + Len(Encoded(part(k))), EncodeToken(r[k + 1]))
  <2>1. IsAt(buf, pos, Encoded(part(k)) \o EncodeToken(r[k + 1]))
    BY <1>3, <1>4, <1>9, <1>10
  <2>. QED
    BY <1>4, <1>10, <2>1, ConcatHolds
<1>11. ASSUME NEW k \in 0..n PROVE Encoded(part(k)) \in Seq(Bytes)
  <2>1. part(k) \in Seq(Seq(Bytes))
    BY <1>2
  <2>2. <<>> \in Seq(Bytes)
    OBVIOUS
  <2>. QED
    BY <2>1, <2>2, EncodedAppend
<1>. QED
  BY <1>4, <1>9, <1>10, <1>11 DEF n, part

\* What the assumption says of a record that is logged.
LEMMA RecordIs ==
  ASSUME NEW r \in LogRecords
  PROVE  /\ r \in Tokens /\ r \in Seq(Seq(Bytes)) /\ Len(r) \in Nat \ {0} /\ Fits(Len(r))
         /\ Encoded(r) \in Seq(Bytes)
         /\ HeaderLine("A", Len(r)) \in Seq(Bytes)
         /\ Encode(r) = HeaderLine("A", Len(r)) \o Encoded(r)
         /\ Encode(r) \in Seq(Bytes)
         /\ Len(Encode(r)) = Len(HeaderLine("A", Len(r))) + Len(Encoded(r))
<1>1. r \in Seq(Seq(Bytes)) /\ r # <<>> /\ Fits(Len(r)) /\ \A i \in DOMAIN r : Fits(Len(r[i]))
  BY AofFramingAssumption
<1>2. Len(r) \in Nat \ {0}
  BY <1>1
<1>3. r \in Tokens
  BY <1>1 DEF Tokens
<1>4. Encoded(r) \in Seq(Bytes)
  <2>1. <<>> \in Seq(Bytes)
    OBVIOUS
  <2>. QED
    BY <1>1, <2>1, EncodedAppend
<1>. DEFINE head == HeaderLine("A", Len(r))
<1>5. head \in Seq(Bytes)
  <2>1. "A" \in Letters /\ Len(r) \in Nat
    BY <1>2 DEF Letters
  <2>. QED
    BY <2>1, LineIs
<1>6. Encode(r) = head \o Encoded(r)
  BY DEF Encode, Encoded
<1>. HIDE DEF head
<1>7. head \o Encoded(r) \in Seq(Bytes) /\ Len(head \o Encoded(r)) = Len(head) + Len(Encoded(r))
  <2>. DEFINE rest == Encoded(r)
  <2>1. rest \in Seq(Bytes)
    BY <1>4
  <2>. HIDE DEF rest
  <2>2. head \o rest \in Seq(Bytes) /\ Len(head \o rest) = Len(head) + Len(rest)
    BY <1>5, <2>1, ConcatProperties
  <2>. QED
    BY <2>2 DEF rest
<1>. QED
  BY <1>1, <1>2, <1>3, <1>4, <1>5, <1>6, <1>7 DEF head

\* A record that was written is read, as a record.
LEMMA UnitReads ==
  ASSUME NEW buf \in Seq(Bytes), NEW pos \in Nat, NEW r \in LogRecords,
         IsAt(buf, pos, Encode(r))
  PROVE  /\ ~IsLine(buf, pos) /\ pos + Len(Encode(r)) <= Len(buf) /\ pos < Len(buf)
         /\ UnitAt(buf, pos).verdict = "ok" /\ UnitAt(buf, pos).tokens = r
         /\ UnitAt(buf, pos).next = pos + Len(Encode(r))
<1>. DEFINE n == Len(r)
            d == Numeral(n)[1]
            head == HeaderLine("A", n)
            size == Len(head)
            body == pos + size
            header == HeaderOk(n, body)
<1>1. /\ r \in Tokens /\ r \in Seq(Seq(Bytes)) /\ n \in Nat \ {0} /\ Fits(n)
      /\ Encoded(r) \in Seq(Bytes) /\ head \in Seq(Bytes) /\ Encode(r) = head \o Encoded(r)
      /\ Len(Encode(r)) = size + Len(Encoded(r))
  BY RecordIs
<1>a. "A" \in Letters
  BY DEF Letters
<1>2. size \in Nat /\ size > 2 /\ head[1] = "A" /\ head[2] = d
  <2>1. /\ size = Len(Numeral(n)) + 2 /\ Len(Numeral(n)) \in Nat \ {0} /\ head[1] = "A"
        /\ \A i \in 1..Len(Numeral(n)) : head[i + 1] = Numeral(n)[i]
    BY <1>1, <1>a, LineIs
  <2>2. 1 \in 1..Len(Numeral(n)) /\ 1 + 1 = 2
    BY <2>1
  <2>3. head[2] = d
    BY <2>1, <2>2
  <2>4. size \in Nat /\ size > 2
    <3>. HIDE DEF size
    <3>. QED
      BY <2>1
  <2>. QED
    BY <2>1, <2>3, <2>4
<1>3. d \notin Letters
  <2>1. 1 \in 1..Len(Numeral(n))
    BY <1>1, NumeralType
  <2>. QED
    BY <1>1, <2>1, NumeralType
<1>. HIDE DEF head, d
<1>4. IsAt(buf, pos, head) /\ IsAt(buf, body, Encoded(r))
  <2>1. IsAt(buf, pos, head \o Encoded(r))
    BY <1>1
  <2>2. IsAt(buf, pos, head) /\ IsAt(buf, pos + Len(head), Encoded(r))
    BY <1>1, <2>1, ConcatHolds
  <2>. QED
    BY <1>2, <2>2
<1>5. Header(buf, pos) = header
  <2>. DEFINE sigil == "A"
  <2>1. IsAt(buf, pos, HeaderLine(sigil, n)) /\ size = Len(HeaderLine(sigil, n))
    BY <1>4 DEF head
  <2>2. sigil \in Letters /\ n \in Nat /\ Fits(n)
    BY <1>1, <1>a
  <2>. HIDE DEF sigil, size, n
  <2>. QED
    BY <2>1, <2>2, HeaderReads
<1>. HIDE DEF size
<1>6. /\ Len(buf) \in Nat /\ body <= Len(buf)
      /\ buf[pos + 1] = "A" /\ buf[pos + 2] = d
  <2>1. Len(head) = size /\ 1 \in 1..size /\ 2 \in 1..size
    BY <1>2 DEF size
  <2>2. buf[pos + 1] = head[1] /\ buf[pos + 2] = head[2] /\ body <= Len(buf)
    BY <1>4, <2>1 DEF IsAt
  <2>. QED
    BY <1>2, <2>2
<1>b. body \in Nat /\ body > pos + 2
  BY <1>2
<1>. HIDE DEF body
<1>7. ~IsLine(buf, pos)
  BY <1>3, <1>6 DEF IsLine
<1>8. UnitAt(buf, pos) = FramedAt(buf, pos)
  <2>1. pos < Len(buf) /\ pos + 1 # Len(buf)
    BY <1>6, <1>b
  <2>. QED
    BY <1>7, <2>1, UnitIs
<1>9. PICK f : Collects(f, buf, header)
  BY StringsSteps
<1>10. FramedAt(buf, pos) = f[n]
  <2>1. header.n = n
    BY DEF HeaderOk
  <2>. QED
    BY <1>5, <1>9, <2>1 DEF Collects, FramedAt
<1>11. \A k \in 0..n :
           /\ Encoded(SubSeq(r, 1, k)) \in Seq(Bytes)
           /\ IsAt(buf, body, Encoded(SubSeq(r, 1, k)))
           /\ k < n =>
                /\ IsAt(buf, body + Len(Encoded(SubSeq(r, 1, k))), EncodeToken(r[k + 1]))
                /\ Encoded(SubSeq(r, 1, k + 1)) = Encoded(SubSeq(r, 1, k)) \o EncodeToken(r[k + 1])
  BY <1>1, <1>4, <1>b, TokensHeld
<1>. DEFINE at(k) == body + Len(Encoded(SubSeq(r, 1, k)))
            P(k) == /\ f[k].verdict = "ok" /\ f[k].next = at(k)
                    /\ f[k].tokens = SubSeq(r, 1, k)
            S == {k \in 0..n : P(k)}
<1>12. 0 \in S
  <2>1. f[0] = header
    BY <1>9 DEF Collects
  <2>2. SubSeq(r, 1, 0) = <<>>
    BY <1>1
  <2>3. at(0) = body
    <3>1. Encoded(SubSeq(r, 1, 0)) = <<>>
      BY <2>2, EncodedNothing
    <3>2. Len(Encoded(SubSeq(r, 1, 0))) = 0
      BY <3>1
    <3>. DEFINE len == Len(Encoded(SubSeq(r, 1, 0)))
    <3>. HIDE DEF len
    <3>3. at(0) = body + len
      BY DEF len
    <3>4. len = 0
      BY <3>2 DEF len
    <3>. HIDE DEF at
    <3>. QED
      BY <1>b, <3>3, <3>4
  <2>. HIDE DEF at
  <2>4. P(0)
    BY <2>1, <2>2, <2>3 DEF HeaderOk
  <2>. QED
    BY <1>1, <2>4
<1>13. ASSUME NEW k \in 1..n, k - 1 \in S PROVE k \in S
  <2>. DEFINE j == k - 1
              token == r[k]
              line == HeaderLine("S", Len(token))
              end == at(j) + Len(line) + Len(token)
              string == StringOk(Len(token), end, token)
              so == SubSeq(r, 1, j)
  <2>1. j \in 0..n /\ j < n /\ j + 1 = k /\ k \in 0..n /\ j \in Nat
    BY <1>1
  <2>2. P(j)
    BY <1>13
  <2>3. token \in Seq(Bytes) /\ Fits(Len(token))
    BY <1>1 DEF Tokens
  <2>4. /\ Encoded(so) \in Seq(Bytes) /\ IsAt(buf, at(j), EncodeToken(token))
        /\ Encoded(SubSeq(r, 1, k)) = Encoded(so) \o EncodeToken(token)
    BY <1>11, <2>1
  <2>5. at(j) \in Nat
    BY <1>b, <2>4
  <2>6. at(k) = end + 1
    <3>1. /\ EncodeToken(token) \in Seq(Bytes) /\ line \in Seq(Bytes)
          /\ Len(EncodeToken(token)) = Len(line) + Len(token) + 1
      BY <2>3, TokenType
    <3>2. Len(Encoded(SubSeq(r, 1, k))) = Len(Encoded(so)) + (Len(line) + Len(token) + 1)
      <4>. DEFINE a == Encoded(so)
                  b == EncodeToken(token)
      <4>1. a \in Seq(Bytes) /\ b \in Seq(Bytes) /\ Encoded(SubSeq(r, 1, k)) = a \o b
        BY <2>4, <3>1
      <4>2. Len(a \o b) = Len(a) + Len(b)
        <5>. HIDE DEF a, b
        <5>. QED
          BY <4>1, ConcatProperties
      <4>. QED
        BY <3>1, <4>1, <4>2
    <3>3. Len(Encoded(so)) \in Nat /\ Len(token) \in Nat /\ Len(line) \in Nat
      BY <2>3, <2>4, <3>1
    <3>. DEFINE a == Len(Encoded(so))
                b == Len(token)
                c == Len(Encoded(SubSeq(r, 1, k)))
                h == Len(line)
    <3>4. at(k) = body + c /\ end = body + a + h + b
      OBVIOUS
    <3>5. c = a + (h + b + 1) /\ a \in Nat /\ b \in Nat /\ h \in Nat
      BY <3>2, <3>3
    <3>. HIDE DEF a, b, c, h, at, end
    <3>. QED
      BY <1>b, <3>4, <3>5
  <2>7. SubSeq(r, 1, k) = so \o <<token>>
    <3>1. so \in Seq(Seq(Bytes)) /\ Len(so) = j /\ \A i \in 1..j : so[i] = r[i]
      BY <1>1, <2>1
    <3>2. <<token>> \in Seq(Seq(Bytes)) /\ Len(<<token>>) = 1 /\ <<token>>[1] = token
      BY <2>3
    <3>3. SubSeq(r, 1, k) \in Seq(Seq(Bytes)) /\ Len(SubSeq(r, 1, k)) = k
          /\ \A i \in 1..k : SubSeq(r, 1, k)[i] = r[i]
      BY <1>1
    <3>. DEFINE a == SubSeq(r, 1, k)
                c == <<token>>
                b == so \o c
    <3>. HIDE DEF a, c, so, token
    <3>4. b \in Seq(Seq(Bytes)) /\ Len(b) = j + 1
          /\ \A i \in 1..(j + 1) : b[i] = IF i <= j THEN so[i] ELSE c[i - j]
      <4>1. Len(so) = j /\ Len(c) = 1 /\ so \in Seq(Seq(Bytes)) /\ c \in Seq(Seq(Bytes))
        BY <3>1, <3>2 DEF c
      <4>2. b \in Seq(Seq(Bytes)) /\ Len(b) = Len(so) + Len(c)
            /\ \A i \in 1..(Len(so) + Len(c)) :
                 b[i] = IF i <= Len(so) THEN so[i] ELSE c[i - Len(so)]
        BY <4>1, ConcatProperties
      <4>. HIDE DEF b
      <4>. QED
        BY <4>1, <4>2
    <3>. HIDE DEF b
    <3>5. ASSUME NEW i \in 1..k PROVE a[i] = b[i]
      <4>1. CASE i <= j
        <5>1. b[i] = so[i] /\ i \in 1..j
          BY <2>1, <3>4, <4>1
        <5>. QED
          BY <3>1, <3>3, <5>1 DEF a
      <4>2. CASE ~(i <= j)
        <5>1. i = k /\ i - j = 1 /\ i \in 1..(j + 1)
          BY <2>1, <4>2
        <5>2. b[i] = c[1]
          BY <3>4, <4>2, <5>1
        <5>3. c[1] = r[k]
          BY <3>2 DEF c, token
        <5>. QED
          BY <3>3, <5>1, <5>2, <5>3 DEF a
      <4>. QED
        BY <4>1, <4>2
    <3>6. a = b
      <4>1. a \in Seq(Seq(Bytes)) /\ Len(a) = k /\ Len(b) = k
        BY <2>1, <3>3, <3>4 DEF a
      <4>. QED
        BY <3>4, <3>5, <4>1, SeqEqual
    <3>. QED
      BY <3>6 DEF a, b, c
  <2>8. StringAt(buf, at(j)) = string
    <3>. HIDE DEF at, token
    <3>. QED
      BY <2>3, <2>4, <2>5, StringReads
  <2>9. f[k] = NextString(buf, f[j])
    BY <1>9, <2>1 DEF Collects
  <2>. HIDE DEF at, so, token
  <2>10. string.verdict = "ok" /\ string.next = end + 1 /\ string.tokens = <<token>>
    BY DEF StringOk
  <2>11. f[k] = [string EXCEPT !.tokens = so \o <<token>>]
    <3>1. f[j].verdict = "ok" /\ f[j].next = at(j) /\ f[j].tokens = so
      BY <2>2 DEF so
    <3>. HIDE DEF string
    <3>a. StringAt(buf, f[j].next) = string
      BY <2>8, <3>1
    <3>2. NextString(buf, f[j]) = [string EXCEPT !.tokens = f[j].tokens \o string.tokens]
      <4>1. string = StringAt(buf, f[j].next) /\ string.verdict = "ok" /\ f[j].verdict = "ok"
        BY <2>10, <3>1, <3>a
      <4>. QED
        <5>1. Joins(NextString(buf, f[j]), f[j], string)
          BY <4>1, NextGood
        <5>. QED
          BY <5>1, Zenon DEF Joins
    <3>. QED
      BY <2>9, <2>10, <3>1, <3>2
  <2>12. f[k].verdict = "ok" /\ f[k].next = end + 1 /\ f[k].tokens = so \o <<token>>
    <3>1. f[k] = [verdict |-> "ok", n |-> Len(token), next |-> end + 1,
                  tokens |-> so \o <<token>>]
      BY <2>11 DEF StringOk
    <3>. HIDE DEF end
    <3>. QED
      BY <3>1
  <2>13. P(k)
    BY <2>6, <2>7, <2>12
  <2>. QED
    BY <2>1, <2>13
<1>. HIDE DEF S
<1>14. n \in S
  <2>1. n \in Nat /\ n \in 0..n
    BY <1>1
  <2>2. \A k \in 0..n : k \in S
    <3>. HIDE DEF n
    <3>. QED
      BY <1>12, <1>13, <2>1, Strings!UpTo
  <2>. QED
    BY <2>1, <2>2
<1>15. SubSeq(r, 1, n) = r
  BY <1>1
<1>16. f[n].verdict = "ok" /\ f[n].next = pos + Len(Encode(r)) /\ f[n].tokens = r
  <2>1. P(n)
    BY <1>14 DEF S
  <2>2. at(n) = pos + size + Len(Encoded(r))
    BY <1>15 DEF body
  <2>3. Len(Encoded(r)) \in Nat
    BY <1>1
  <2>. DEFINE len == Len(Encode(r))
              rest == Len(Encoded(r))
  <2>4. f[n].next = pos + size + rest /\ len = size + rest /\ rest \in Nat
    BY <1>1, <2>1, <2>2, <2>3 DEF size
  <2>. HIDE DEF len, rest
  <2>5. f[n].next = pos + len
    BY <1>2, <2>4
  <2>. QED
    BY <1>15, <2>1, <2>5 DEF len
<1>17. pos + Len(Encode(r)) <= Len(buf) /\ pos < Len(buf)
  <2>1. pos + Len(Encode(r)) <= Len(buf)
    BY DEF IsAt
  <2>2. pos < Len(buf)
    BY <1>6, <1>b
  <2>. QED
    BY <2>1, <2>2
<1>. QED
  BY <1>7, <1>8, <1>10, <1>16, <1>17

\* The unit behind pos bytes is this record, and ends there.
IsRecord(unit, r, next) == unit.verdict = "ok" /\ unit.tokens = r /\ unit.next = next

\* The same, as one fact.
LEMMA UnitIsRecord ==
  ASSUME NEW buf \in Seq(Bytes), NEW pos \in Nat, NEW r \in LogRecords, NEW next,
         IsAt(buf, pos, Encode(r)), next = pos + Len(Encode(r))
  PROVE  IsRecord(UnitAt(buf, pos), r, next) /\ pos < Len(buf)
<1>1. /\ UnitAt(buf, pos).verdict = "ok" /\ UnitAt(buf, pos).tokens = r
      /\ UnitAt(buf, pos).next = pos + Len(Encode(r)) /\ pos < Len(buf)
  BY UnitReads
<1>. QED
  BY <1>1 DEF IsRecord

-----------------------------------------------------------------------------
(***************************************************************************)
(* The scan, turn by turn.                                                 *)
(***************************************************************************)
\* Induction downwards from len.
LEMMA Downwards ==
  ASSUME NEW len \in Nat, NEW S, len \in S,
         \A n \in 0..(len - 1) : (\A m \in (n + 1)..len : m \in S) => n \in S
  PROVE  \A n \in 0..len : n \in S
<1>. DEFINE T == {j \in 0..len : \A m \in (len - j)..len : m \in S}
<1>1. 0 \in T
  OBVIOUS
<1>2. ASSUME NEW j \in 1..len, j - 1 \in T PROVE j \in T
  <2>1. len - j \in 0..(len - 1) /\ len - (j - 1) = (len - j) + 1
    OBVIOUS
  <2>2. \A m \in ((len - j) + 1)..len : m \in S
    BY <1>2, <2>1
  <2>3. len - j \in S
    BY <2>1, <2>2
  <2>4. \A m \in (len - j)..len : m = len - j \/ m \in ((len - j) + 1)..len
    OBVIOUS
  <2>. QED
    BY <2>2, <2>3, <2>4
<1>. HIDE DEF T
<1>3. \A j \in 0..len : j \in T
  BY <1>1, <1>2, Strings!UpTo
<1>4. ASSUME NEW n \in 0..len PROVE n \in S
  <2>1. len - n \in 0..len /\ len - (len - n) = n /\ n \in n..len
    OBVIOUS
  <2>2. len - n \in T
    BY <1>3, <2>1
  <2>. QED
    BY <2>1, <2>2 DEF T
<1>. QED
  BY <1>4

\* The scan stops behind pos bytes.
Stopped(pos, status) == [records |-> <<>>, goodEnd |-> pos, status |-> status]

\* What scan makes of the bytes behind pos, if from tells it for later places.
Turn(from, pos, buf) ==
  IF pos >= Len(buf) THEN Stopped(pos, "ok")
  ELSE IF UnitAt(buf, pos).verdict # "ok" THEN Stopped(pos, UnitAt(buf, pos).verdict)
  ELSE Unfolded(UnitAt(buf, pos), from[UnitAt(buf, pos).next])

\* from has the results of the scan from every byte on.
IsScan(from, buf) == from = [pos \in Nat |-> Turn(from, pos, buf)]

\* The turn at pos looks at later places only.
LEMMA TurnLooksAhead ==
  ASSUME NEW buf \in Seq(Bytes), NEW pos \in Nat, NEW f, NEW g,
         \A m \in Nat : m > pos => f[m] = g[m]
  PROVE  Turn(f, pos, buf) = Turn(g, pos, buf)
<1>. DEFINE u == UnitAt(buf, pos)
<1>1. Len(buf) \in Nat
  OBVIOUS
<1>2. CASE pos >= Len(buf)
  BY <1>2 DEF Turn
<1>3. CASE ~(pos >= Len(buf)) /\ u.verdict # "ok"
  BY <1>3 DEF Turn
<1>4. CASE ~(pos >= Len(buf)) /\ u.verdict = "ok"
  <2>1. pos < Len(buf)
    BY <1>1, <1>4
  <2>2. u \in Verdicts /\ EndsIn(u, pos, buf)
    BY <2>1, UnitType
  <2>3. u.next \in Nat /\ u.next > pos
    BY <1>4, <2>2 DEF EndsIn, Verdicts
  <2>4. f[u.next] = g[u.next]
    BY <2>3
  <2>. QED
    BY <1>4, <2>4 DEF Turn
<1>. QED
  BY <1>2, <1>3, <1>4

\* The recursion of Scan defines a function, because every turn goes forward.
LEMMA ScanExists ==
  ASSUME NEW buf \in Seq(Bytes)
  PROVE  \E f : IsScan(f, buf)
<1>. DEFINE len == Len(buf)
            Good(f, n) == /\ f = [pos \in Nat |-> f[pos]]
                          /\ \A pos \in Nat : pos >= len - n => f[pos] = Turn(f, pos, buf)
            S == {n \in 0..len : \E f : Good(f, n)}
<1>1. len \in Nat
  OBVIOUS
<1>2. 0 \in S
  <2>. DEFINE f == [pos \in Nat |-> Stopped(pos, "ok")]
  <2>1. \A pos \in Nat : pos >= len => f[pos] = Turn(f, pos, buf)
    BY DEF Turn
  <2>2. f = [pos \in Nat |-> f[pos]]
    OBVIOUS
  <2>3. len - 0 = len /\ 0 \in 0..len
    BY <1>1
  <2>. HIDE DEF f
  <2>4. Good(f, 0)
    BY <2>1, <2>2, <2>3
  <2>. QED
    BY <2>3, <2>4
<1>3. ASSUME NEW n \in 1..len, n - 1 \in S PROVE n \in S
  <2>1. PICK f : Good(f, n - 1)
    BY <1>3
  <2>. DEFINE p == len - n
              g == [pos \in Nat |-> IF pos = p THEN Turn(f, p, buf) ELSE f[pos]]
  <2>2. p \in Nat /\ len - (n - 1) = p + 1 /\ n \in 0..len
    BY <1>1
  <2>. HIDE DEF p
  <2>3. \A m \in Nat : m # p => g[m] = f[m]
    OBVIOUS
  <2>4. g[p] = Turn(f, p, buf)
    BY <2>2
  <2>5. g = [pos \in Nat |-> g[pos]]
    OBVIOUS
  <2>. HIDE DEF g
  <2>6. ASSUME NEW pos \in Nat, pos >= p PROVE g[pos] = Turn(g, pos, buf)
    <3>1. \A m \in Nat : m > pos => f[m] = g[m]
      BY <2>2, <2>3, <2>6
    <3>2. Turn(f, pos, buf) = Turn(g, pos, buf)
      BY <3>1, TurnLooksAhead
    <3>3. CASE pos = p
      BY <2>4, <3>2, <3>3
    <3>4. CASE pos # p
      <4>1. pos >= p + 1
        BY <2>2, <2>6, <3>4
      <4>2. f[pos] = Turn(f, pos, buf)
        BY <2>1, <2>2, <4>1
      <4>. QED
        BY <2>3, <3>2, <3>4, <4>2
    <3>. QED
      BY <3>3, <3>4
  <2>7. Good(g, n)
    BY <2>5, <2>6 DEF p
  <2>. HIDE DEF Good
  <2>. QED
    BY <2>2, <2>7
<1>. HIDE DEF S
<1>4. len \in S
  <2>1. len \in 0..len
    BY <1>1
  <2>2. \A n \in 0..len : n \in S
    <3>. HIDE DEF len
    <3>. QED
      BY <1>1, <1>2, <1>3, Strings!UpTo
  <2>. QED
    BY <2>1, <2>2
<1>5. PICK f : Good(f, len)
  BY <1>4 DEF S
<1>6. \A pos \in Nat : f[pos] = Turn(f, pos, buf)
  <2>1. len - len = 0
    BY <1>1
  <2>2. \A pos \in Nat : pos >= 0
    OBVIOUS
  <2>. HIDE DEF len
  <2>. QED
    BY <1>5, <2>1, <2>2
<1>7. IsScan(f, buf)
  BY <1>5, <1>6 DEF IsScan
<1>. QED
  BY <1>7

\* from tells what scan makes of the bytes behind every place.
Scans(from, buf) ==
  /\ \A pos \in Nat : from[pos] = Turn(from, pos, buf)
  /\ Scan(buf) = from[0]

\* So Scan has its results turn by turn.
LEMMA ScanSteps ==
  ASSUME NEW buf \in Seq(Bytes)
  PROVE  \E from : Scans(from, buf)
<1>. DEFINE from == CHOOSE from : IsScan(from, buf)
<1>1. IsScan(from, buf)
  BY ScanExists
<1>2. Scan(buf) = from[0]
  BY DEF Scan, IsScan, Turn, Stopped
<1>. HIDE DEF from
<1>3. \A pos \in Nat : from[pos] = Turn(from, pos, buf)
  BY <1>1 DEF IsScan
<1>. QED
  BY <1>2, <1>3 DEF Scans

\* What the scan comes out as.
Results ==
  [records : Seq(Seq(Seq(Bytes))), goodEnd : Nat, status : {"ok", "torn", "corrupt"}]

\* The two ways a turn comes out.
LEMMA TurnIs ==
  ASSUME NEW buf \in Seq(Bytes), NEW from, Scans(from, buf), NEW pos \in 0..Len(buf)
  PROVE  /\ pos = Len(buf) => from[pos] = Stopped(pos, "ok")
         /\ pos < Len(buf) /\ UnitAt(buf, pos).verdict # "ok" =>
              from[pos] = Stopped(pos, UnitAt(buf, pos).verdict)
         /\ pos < Len(buf) /\ UnitAt(buf, pos).verdict = "ok" =>
              from[pos] = Unfolded(UnitAt(buf, pos), from[UnitAt(buf, pos).next])
<1>1. Len(buf) \in Nat /\ pos \in Nat /\ from[pos] = Turn(from, pos, buf)
  BY DEF Scans
<1>2. pos = Len(buf) => pos >= Len(buf)
  BY <1>1
<1>3. pos < Len(buf) => ~(pos >= Len(buf))
  BY <1>1
<1>. QED
  BY <1>1, <1>2, <1>3 DEF Turn

\* A unit that is put before what comes behind it.
LEMMA UnfoldedIs ==
  ASSUME NEW unit \in Verdicts, NEW rest \in Results
  PROVE  /\ Unfolded(unit, rest) \in Results
         /\ Unfolded(unit, rest).goodEnd = rest.goodEnd
         /\ Unfolded(unit, rest).status = rest.status
         /\ unit.tokens = <<>> => Unfolded(unit, rest).records = rest.records
         /\ unit.tokens # <<>> => Unfolded(unit, rest).records = <<unit.tokens>> \o rest.records
<1>1. unit.tokens \in Seq(Seq(Bytes)) /\ rest.records \in Seq(Seq(Seq(Bytes)))
  BY DEF Verdicts, Results
<1>2. CASE unit.tokens = <<>>
  BY <1>2 DEF Unfolded
<1>3. CASE unit.tokens # <<>>
  <2>. DEFINE all == <<unit.tokens>> \o rest.records
  <2>1. all \in Seq(Seq(Seq(Bytes)))
    BY <1>1
  <2>2. Unfolded(unit, rest) = [rest EXCEPT !.records = all]
    BY <1>3 DEF Unfolded
  <2>. HIDE DEF all
  <2>3. /\ [rest EXCEPT !.records = all] \in Results
        /\ [rest EXCEPT !.records = all].goodEnd = rest.goodEnd
        /\ [rest EXCEPT !.records = all].status = rest.status
        /\ [rest EXCEPT !.records = all].records = all
    BY <2>1 DEF Results
  <2>. QED
    BY <1>3, <2>2, <2>3 DEF all
<1>. QED
  BY <1>2, <1>3

\* What is known of a record or line and what is behind it.
IsUnfolded(out, unit, rest) ==
  /\ out.goodEnd = rest.goodEnd /\ out.status = rest.status
  /\ unit.tokens = <<>> => out.records = rest.records
  /\ unit.tokens # <<>> => out.records = <<unit.tokens>> \o rest.records

\* What Unfolded does, told field by field.
LEMMA UnfoldedTells ==
  ASSUME NEW unit \in Verdicts, NEW rest \in Results, NEW out, out = Unfolded(unit, rest)
  PROVE  IsUnfolded(out, unit, rest)
<1>. DEFINE all == <<unit.tokens>> \o rest.records
<1>1. /\ out.goodEnd = rest.goodEnd /\ out.status = rest.status
      /\ unit.tokens = <<>> => out.records = rest.records
      /\ unit.tokens # <<>> => out.records = all
  BY UnfoldedIs
<1>. HIDE DEF all
<1>. QED
  BY <1>1 DEF IsUnfolded, all

\* A scan that stops has read nothing more.
LEMMA StoppedIs ==
  ASSUME NEW pos \in Nat, NEW status \in {"ok", "torn", "corrupt"}
  PROVE  /\ Stopped(pos, status) \in Results /\ Stopped(pos, status).records = <<>>
         /\ Stopped(pos, status).goodEnd = pos /\ Stopped(pos, status).status = status
<1>1. <<>> \in Seq(Seq(Seq(Bytes)))
  OBVIOUS
<1>. QED
  BY <1>1 DEF Stopped, Results

\* The last good record ends between here and the end of the file.
LEMMA ScanType ==
  ASSUME NEW buf \in Seq(Bytes), NEW from, Scans(from, buf)
  PROVE  \A pos \in 0..Len(buf) : /\ from[pos] \in Results
                                  /\ from[pos].goodEnd >= pos /\ from[pos].goodEnd <= Len(buf)
<1>. DEFINE len == Len(buf)
            P(pos) == /\ from[pos] \in Results
                      /\ from[pos].goodEnd >= pos /\ from[pos].goodEnd <= len
            S == {pos \in 0..len : P(pos)}
<1>1. len \in Nat
  OBVIOUS
<1>2. len \in S
  <2>1. len \in 0..len
    BY <1>1
  <2>2. from[len] = Stopped(len, "ok")
    BY <2>1, TurnIs
  <2>. HIDE DEF len
  <2>3. Stopped(len, "ok") \in Results /\ Stopped(len, "ok").goodEnd = len
    BY <1>1, StoppedIs
  <2>. QED
    BY <1>1, <2>1, <2>2, <2>3
<1>3. ASSUME NEW n \in 0..(len - 1), \A m \in (n + 1)..len : m \in S PROVE n \in S
  <2>. DEFINE u == UnitAt(buf, n)
  <2>1. n \in Nat /\ n \in 0..len /\ n < len
    BY <1>1
  <2>2. u \in Verdicts /\ EndsIn(u, n, buf)
    BY <2>1, UnitType
  <2>3. CASE u.verdict # "ok"
    <3>1. from[n] = Stopped(n, u.verdict)
      BY <2>1, <2>3, TurnIs
    <3>2. u.verdict \in {"ok", "torn", "corrupt"}
      BY <2>2 DEF Verdicts
    <3>3. Stopped(n, u.verdict) \in Results /\ Stopped(n, u.verdict).goodEnd = n
      BY <2>1, <3>2, StoppedIs
    <3>. QED
      BY <1>1, <2>1, <3>1, <3>3
  <2>4. CASE u.verdict = "ok"
    <3>. DEFINE next == u.next
                rest == from[next]
    <3>1. next \in Nat /\ next > n /\ next <= len
      BY <2>2, <2>4 DEF EndsIn, Verdicts
    <3>2. from[n] = Unfolded(u, rest)
      BY <2>1, <2>4, TurnIs
    <3>3. next \in (n + 1)..len
      BY <1>1, <2>1, <3>1
    <3>. HIDE DEF next, u
    <3>4. P(next)
      BY <1>3, <3>3
    <3>. HIDE DEF rest
    <3>5. rest \in Results /\ rest.goodEnd >= next /\ rest.goodEnd <= len
      BY <3>4 DEF rest
    <3>6. from[n] \in Results /\ from[n].goodEnd = rest.goodEnd
      BY <2>2, <3>2, <3>5, UnfoldedIs
    <3>7. rest.goodEnd \in Nat
      BY <3>5 DEF Results
    <3>8. rest.goodEnd >= n
      BY <2>1, <3>1, <3>5, <3>7
    <3>9. P(n)
      BY <3>5, <3>6, <3>8
    <3>. QED
      BY <2>1, <3>9
  <2>. QED
    BY <2>3, <2>4
<1>. HIDE DEF S
<1>4. \A pos \in 0..len : pos \in S
  <2>. HIDE DEF len
  <2>. QED
    BY <1>1, <1>2, <1>3, Downwards
<1>. QED
  BY <1>4 DEF S

-----------------------------------------------------------------------------
(***************************************************************************)
(* A scan goes on behind what it has read; what it reads of a record.      *)
(***************************************************************************)
\* The last byte of the file is a newline, if it has any.
Closed(buf) == buf = <<>> \/ buf[Len(buf)] = NL

\* Two parts that are read as one after the other.
Follow(whole, front, back) ==
  /\ whole.status = back.status
  /\ whole.records = front.records \o back.records

\* What is good in small, to its end, is read in big as well, and then what is
\* behind it.
LEMMA ScanGoesOn ==
  ASSUME NEW small, NEW big, Begins(small, big), Closed(small),
         NEW f, Scans(f, small), NEW g, Scans(g, big)
  PROVE  \A pos \in 0..Len(small) : f[pos].status = "ok" => Follow(g[pos], f[pos], g[Len(small)])
<1>. DEFINE len == Len(small)
            back == g[len]
            P(pos) == f[pos].status = "ok" => Follow(g[pos], f[pos], back)
            S == {pos \in 0..len : P(pos)}
<1>1. /\ small \in Seq(Bytes) /\ big \in Seq(Bytes) /\ len \in Nat /\ Len(big) \in Nat
      /\ len <= Len(big)
  BY DEF Begins
<1>2. \A pos \in 0..len : f[pos] \in Results
  BY <1>1, ScanType
<1>3. \A pos \in 0..Len(big) : g[pos] \in Results
  BY <1>1, ScanType
<1>4. len \in 0..len /\ len \in 0..Len(big)
  BY <1>1
<1>5. back \in Results
  BY <1>3, <1>4
<1>6. back.records \in Seq(Seq(Seq(Bytes)))
  BY <1>5 DEF Results
<1>7. len \in S
  <2>1. f[len] = Stopped(len, "ok")
    BY <1>1, <1>4, TurnIs
  <2>2. f[len].records = <<>>
    BY <2>1 DEF Stopped
  <2>3. <<>> \o back.records = back.records
    BY <1>6
  <2>4. Follow(back, f[len], back)
    BY <2>2, <2>3 DEF Follow
  <2>. QED
    BY <1>4, <2>4
<1>8. ASSUME NEW n \in 0..(len - 1), \A m \in (n + 1)..len : m \in S PROVE n \in S
  <2>. DEFINE u == UnitAt(small, n)
              v == UnitAt(big, n)
              next == u.next
  <2>1. n \in Nat /\ n \in 0..len /\ n < len /\ n < Len(big) /\ n \in 0..Len(big)
    BY <1>1
  <2>2. u \in Verdicts /\ EndsIn(u, n, small)
    BY <1>1, <2>1, UnitType
  <2>3. SUFFICES ASSUME f[n].status = "ok" PROVE Follow(g[n], f[n], back)
    BY <2>1
  <2>4. u.verdict = "ok"
    <3>1. ASSUME u.verdict # "ok" PROVE f[n].status = u.verdict
      <4>1. f[n] = Stopped(n, u.verdict)
        BY <1>1, <2>1, <3>1, TurnIs
      <4>. QED
        BY <4>1 DEF Stopped
    <3>. QED
      BY <2>3, <3>1
  <2>5. u = v
    <3>1. small # <<>> /\ small[Len(small)] = NL
      <4>1. small # <<>>
        BY <2>1
      <4>. QED
        BY <4>1 DEF Closed
    <3>2. u.verdict # "torn"
      BY <2>4
    <3>. QED
      BY <2>1, <3>1, <3>2, UnitAgrees
  <2>6. next \in Nat /\ next > n /\ next <= len
    BY <2>2, <2>4 DEF EndsIn, Verdicts
  <2>7. next \in (n + 1)..len /\ next \in 0..len /\ next \in 0..Len(big)
    BY <1>1, <2>1, <2>6
  <2>8. f[n] = Unfolded(u, f[next])
    BY <1>1, <2>1, <2>4, TurnIs
  <2>9. g[n] = Unfolded(u, g[next])
    BY <1>1, <2>1, <2>4, <2>5, TurnIs
  <2>10. P(next)
    BY <1>8, <2>7
  <2>. HIDE DEF u, v, next
  <2>11. f[next] \in Results /\ g[next] \in Results
    BY <1>2, <1>3, <2>7
  <2>12. /\ f[n].status = f[next].status /\ g[n].status = g[next].status
         /\ u.tokens = <<>> => f[n].records = f[next].records /\ g[n].records = g[next].records
         /\ u.tokens # <<>> => /\ f[n].records = <<u.tokens>> \o f[next].records
                               /\ g[n].records = <<u.tokens>> \o g[next].records
    <3>. DEFINE a == f[next]
                b == g[next]
    <3>1. a \in Results /\ b \in Results /\ f[n] = Unfolded(u, a) /\ g[n] = Unfolded(u, b)
      BY <2>8, <2>9, <2>11
    <3>. HIDE DEF a, b
    <3>2. /\ f[n].status = a.status
          /\ u.tokens = <<>> => f[n].records = a.records
          /\ u.tokens # <<>> => f[n].records = <<u.tokens>> \o a.records
      BY <2>2, <3>1, UnfoldedIs
    <3>3. /\ g[n].status = b.status
          /\ u.tokens = <<>> => g[n].records = b.records
          /\ u.tokens # <<>> => g[n].records = <<u.tokens>> \o b.records
      BY <2>2, <3>1, UnfoldedIs
    <3>. QED
      BY <3>2, <3>3 DEF a, b
  <2>13. Follow(g[next], f[next], back)
    BY <2>3, <2>10, <2>12
  <2>14. CASE u.tokens = <<>>
    BY <2>12, <2>13, <2>14 DEF Follow
  <2>15. CASE u.tokens # <<>>
    <3>. DEFINE one == <<u.tokens>>
                a == f[next].records
                b == back.records
    <3>1. one \in Seq(Seq(Seq(Bytes))) /\ a \in Seq(Seq(Seq(Bytes))) /\ b \in Seq(Seq(Seq(Bytes)))
      <4>1. u.tokens \in Seq(Seq(Bytes))
        BY <2>2 DEF Verdicts
      <4>2. one \in Seq(Seq(Seq(Bytes)))
        BY <4>1
      <4>3. a \in Seq(Seq(Seq(Bytes)))
        BY <2>11 DEF Results
      <4>. QED
        BY <1>6, <4>2, <4>3
    <3>2. one \o (a \o b) = (one \o a) \o b
      <4>. DEFINE R == Seq(Seq(Bytes))
      <4>1. one \in Seq(R) /\ a \in Seq(R) /\ b \in Seq(R)
        BY <3>1
      <4>. HIDE DEF one, a, b, R
      <4>2. (one \o a) \o b = one \o (a \o b)
        <5>1. Regroups(one, a, b)
          BY <4>1, Regrouped
        <5>. QED
          BY <5>1, Zenon DEF Regroups
      <4>. QED
        BY <4>2
    <3>3. g[n].records = one \o (a \o b) /\ f[n].records = one \o a
      BY <2>12, <2>13, <2>15 DEF Follow
    <3>. HIDE DEF one, a
    <3>4. g[n].records = f[n].records \o back.records
      BY <3>2, <3>3
    <3>. QED
      BY <2>12, <2>13, <3>4 DEF Follow
  <2>. QED
    BY <2>14, <2>15
<1>. HIDE DEF S
<1>9. \A pos \in 0..len : pos \in S
  <2>. HIDE DEF len
  <2>. QED
    BY <1>1, <1>7, <1>8, Downwards
<1>. QED
  BY <1>9 DEF S

\* A file that reads to its end.
Reads(buf, records) ==
  /\ buf \in Seq(Bytes) /\ Closed(buf)
  /\ Scan(buf).status = "ok" /\ Scan(buf).records = records

\* The type of Scan.
LEMMA ScanIsResult ==
  ASSUME NEW buf \in Seq(Bytes)
  PROVE  Scan(buf) \in Results /\ Scan(buf).goodEnd \in 0..Len(buf)
<1>1. PICK f : Scans(f, buf)
  BY ScanSteps
<1>2. 0 \in 0..Len(buf) /\ Len(buf) \in Nat
  OBVIOUS
<1>3. f[0] \in Results /\ f[0].goodEnd >= 0 /\ f[0].goodEnd <= Len(buf)
  BY <1>1, <1>2, ScanType
<1>4. f[0].goodEnd \in Nat
  BY <1>3 DEF Results
<1>. QED
  BY <1>1, <1>2, <1>3, <1>4 DEF Scans

\* The last byte of a record is a newline.
LEMMA RecordCloses ==
  ASSUME NEW r \in LogRecords
  PROVE  Encode(r)[Len(Encode(r))] = NL /\ Len(Encode(r)) > 0
<1>. DEFINE n == Len(r)
            head == HeaderLine("A", n)
            so == Encoded(SubSeq(r, 1, n - 1))
            token == r[n]
            front == HeaderLine("S", Len(token)) \o token
            e == Encoded(r)
<1>1. /\ r \in Tokens /\ r \in Seq(Seq(Bytes)) /\ n \in Nat \ {0} /\ e \in Seq(Bytes)
      /\ head \in Seq(Bytes) /\ Encode(r) = head \o e
      /\ Encode(r) \in Seq(Bytes) /\ Len(Encode(r)) = Len(head) + Len(e)
  BY RecordIs
<1>2. n - 1 \in 0..n /\ n - 1 < n /\ (n - 1) + 1 = n /\ n \in 1..n
  <2>1. n \in Nat \ {0}
    BY <1>1
  <2>. HIDE DEF n
  <2>. QED
    BY <2>1
<1>3. token \in Seq(Bytes)
  <2>1. \A i \in 1..n : r[i] \in Seq(Bytes)
    BY <1>1
  <2>. HIDE DEF n
  <2>. QED
    BY <1>2, <2>1
<1>4. so \in Seq(Bytes) /\ e = so \o EncodeToken(token)
  <2>1. IsAt(e, 0, e)
    BY <1>1 DEF IsAt
  <2>. DEFINE Q(k) ==
           /\ Encoded(SubSeq(r, 1, k)) \in Seq(Bytes)
           /\ IsAt(e, 0, Encoded(SubSeq(r, 1, k)))
           /\ k < n =>
                /\ IsAt(e, 0 + Len(Encoded(SubSeq(r, 1, k))), EncodeToken(r[k + 1]))
                /\ Encoded(SubSeq(r, 1, k + 1)) = Encoded(SubSeq(r, 1, k)) \o EncodeToken(r[k + 1])
  <2>2. \A k \in 0..n : Q(k)
    BY <1>1, <2>1, TokensHeld
  <2>3. Q(n - 1)
    <3>. HIDE DEF Q
    <3>. QED
      BY <1>2, <2>2
  <2>4. SubSeq(r, 1, n) = r
    BY <1>1
  <2>. QED
    BY <1>2, <2>3, <2>4
<1>5. EncodeToken(token) = front \o <<NL>> /\ front \in Seq(Bytes) /\ <<NL>> \in Seq(Bytes)
      /\ EncodeToken(token) \in Seq(Bytes)
  <2>1. /\ EncodeToken(token) = front \o <<NL>> /\ EncodeToken(token) \in Seq(Bytes)
        /\ HeaderLine("S", Len(token)) \in Seq(Bytes) /\ <<NL>> \in Seq(Bytes)
    BY <1>3, TokenType
  <2>. DEFINE a == HeaderLine("S", Len(token))
  <2>2. a \o token \in Seq(Bytes)
    <3>1. a \in Seq(Bytes)
      BY <2>1
    <3>. HIDE DEF a
    <3>. QED
      BY <1>3, <3>1, ConcatProperties
  <2>. QED
    BY <2>1, <2>2
<1>. HIDE DEF front, so, head, e, token
<1>6. Len(front \o <<NL>>) = Len(front) + 1 /\ (front \o <<NL>>)[Len(front) + 1] = NL
  <2>. DEFINE tail == <<NL>>
  <2>1. tail \in Seq(Bytes) /\ Len(tail) = 1 /\ tail[1] = NL
    BY <1>5
  <2>. HIDE DEF tail
  <2>2. /\ Len(front) \in Nat /\ Len(front \o tail) = Len(front) + 1
        /\ (front \o tail)[Len(front) + 1] = tail[1]
    <3>1. front \in Seq(Bytes)
      BY <1>5
    <3>2. /\ Len(front \o tail) = Len(front) + Len(tail)
          /\ \A i \in 1..(Len(front) + Len(tail)) : (front \o tail)[i] =
                IF i <= Len(front) THEN front[i] ELSE tail[i - Len(front)]
      BY <2>1, <3>1, ConcatProperties
    <3>3. Len(front) \in Nat
      BY <3>1
    <3>. DEFINE m == Len(front)
    <3>4. m + 1 \in 1..(m + 1) /\ ~(m + 1 <= m) /\ (m + 1) - m = 1
      BY <3>3
    <3>5. (front \o tail)[m + 1] = tail[(m + 1) - m]
      <4>. HIDE DEF m
      <4>. QED
        BY <2>1, <3>2, <3>4 DEF m
    <3>. QED
      BY <2>1, <3>2, <3>3, <3>4, <3>5
  <2>. QED
    BY <2>1, <2>2 DEF tail
<1>. DEFINE t == EncodeToken(token)
<1>7. Len(t) \in Nat /\ Len(t) > 0 /\ t[Len(t)] = NL
  <2>1. Len(front) \in Nat
    BY <1>5
  <2>. QED
    BY <1>5, <1>6, <2>1
<1>. HIDE DEF t
<1>8. Len(e) \in Nat /\ Len(e) > 0 /\ e[Len(e)] = NL
  <2>1. t \in Seq(Bytes) /\ e = so \o t
    BY <1>4, <1>5 DEF t
  <2>2. /\ Len(so) \in Nat /\ Len(so \o t) = Len(so) + Len(t)
        /\ (so \o t)[Len(so) + Len(t)] = t[Len(t)]
    BY <1>4, <1>7, <2>1
  <2>. QED
    BY <1>7, <2>1, <2>2
<1>9. Len(head) \in Nat
  BY <1>1
<1>10. (head \o e)[Len(head) + Len(e)] = e[Len(e)]
  BY <1>1, <1>8, <1>9
<1>. QED
  BY <1>1, <1>8, <1>9, <1>10

\* A record that is appended is read behind those that are there.
LEMMA AppendReads ==
  ASSUME NEW base, NEW records, Reads(base, records), NEW r \in LogRecords
  PROVE  Reads(base \o Encode(r), Append(records, r))
<1>. DEFINE buf == base \o Encode(r)
            len == Len(base)
            unit == UnitAt(buf, len)
<1>1. /\ base \in Seq(Bytes) /\ Closed(base) /\ Scan(base).status = "ok"
      /\ Scan(base).records = records
  BY DEF Reads
<1>2. Encode(r) \in Seq(Bytes) /\ r \in Seq(Seq(Bytes)) /\ r # <<>>
  <2>1. Encode(r) \in Seq(Bytes) /\ r \in Seq(Seq(Bytes)) /\ Len(r) # 0
    BY RecordIs
  <2>2. Len(<<>>) = 0
    OBVIOUS
  <2>. QED
    BY <2>1, <2>2
<1>3. /\ buf \in Seq(Bytes) /\ Len(buf) = len + Len(Encode(r))
      /\ IsAt(buf, len, Encode(r)) /\ Begins(base, buf)
  BY <1>1, <1>2, HoldsTail
<1>4. Encode(r)[Len(Encode(r))] = NL /\ Len(Encode(r)) > 0
  BY RecordCloses
<1>5. len \in Nat /\ Len(buf) \in Nat /\ Len(Encode(r)) \in Nat
  BY <1>1, <1>2, <1>3
<1>. HIDE DEF buf, len
<1>6. Closed(buf)
  <2>1. buf[len + Len(Encode(r))] = Encode(r)[Len(Encode(r))]
    BY <1>3, <1>4, <1>5 DEF IsAt
  <2>. QED
    BY <1>3, <1>4, <2>1 DEF Closed
<1>7. PICK f : Scans(f, base)
  BY <1>1, ScanSteps
<1>8. PICK g : Scans(g, buf)
  BY <1>3, ScanSteps
<1>9. Follow(g[0], f[0], g[len])
  <2>1. 0 \in 0..len /\ f[0].status = "ok"
    BY <1>1, <1>5, <1>7 DEF Scans
  <2>. QED
    BY <1>1, <1>3, <1>7, <1>8, <2>1, ScanGoesOn DEF len
<1>10. /\ len < Len(buf) /\ unit.verdict = "ok" /\ unit.tokens = r /\ unit.next = Len(buf)
  <2>1. Len(buf) = len + Len(Encode(r))
    BY <1>3, <1>5
  <2>2. IsRecord(UnitAt(buf, len), r, Len(buf)) /\ len < Len(buf)
    BY <1>3, <1>5, <2>1, UnitIsRecord
  <2>. QED
    BY <2>2 DEF IsRecord
<1>11. len \in 0..Len(buf) /\ Len(buf) \in 0..Len(buf)
  BY <1>5, <1>10
<1>12. g[len] = Unfolded(unit, g[Len(buf)])
  BY <1>3, <1>8, <1>10, <1>11, TurnIs
<1>13. g[Len(buf)] = Stopped(Len(buf), "ok")
  BY <1>3, <1>8, <1>11, TurnIs
<1>14. g[Len(buf)].records = <<>> /\ g[Len(buf)].status = "ok" /\ g[Len(buf)] \in Results
  BY <1>5, <1>13, StoppedIs
<1>15. unit \in Verdicts
  BY <1>3, <1>5, <1>10, UnitType
<1>. HIDE DEF unit
<1>16. g[len].status = "ok" /\ g[len].records = <<r>> \o g[Len(buf)].records
  <2>1. IsUnfolded(g[len], unit, g[Len(buf)])
    BY <1>12, <1>14, <1>15, UnfoldedTells
  <2>. QED
    BY <1>2, <1>10, <1>14, <2>1 DEF IsUnfolded
<1>17. g[len].records = <<r>>
  <2>1. <<r>> \in Seq(Seq(Seq(Bytes)))
    BY <1>2
  <2>2. <<r>> \o <<>> = <<r>>
    BY <2>1, ConcatEmptySeq
  <2>. QED
    BY <1>14, <1>16, <2>2
<1>18. f[0].records = records /\ records \in Seq(Seq(Seq(Bytes)))
  <2>1. Scan(base) \in Results
    BY <1>1, ScanIsResult
  <2>. QED
    BY <1>1, <1>7, <2>1 DEF Scans, Results
<1>19. records \o <<r>> = Append(records, r)
  BY <1>2, <1>18, AppendIsConcat
<1>20. Scan(buf).status = "ok" /\ Scan(buf).records = Append(records, r)
  BY <1>8, <1>9, <1>16, <1>17, <1>18, <1>19 DEF Scans, Follow
<1>. QED
  BY <1>3, <1>6, <1>20 DEF Reads, buf

\* A record that is cut short is torn, and the ones before it are read.
LEMMA CutReads ==
  ASSUME NEW base, NEW records, Reads(base, records), NEW r \in LogRecords,
         NEW small, Begins(base, small), Begins(small, base \o Encode(r)),
         Len(base) < Len(small), Len(small) < Len(base \o Encode(r))
  PROVE  Scan(small).status = "torn" /\ Scan(small).records = records
<1>. DEFINE buf == base \o Encode(r)
            len == Len(base)
<1>1. /\ base \in Seq(Bytes) /\ Closed(base) /\ Scan(base).status = "ok"
      /\ Scan(base).records = records
  BY DEF Reads
<1>2. Encode(r) \in Seq(Bytes)
  BY RecordIs
<1>3. /\ buf \in Seq(Bytes) /\ Len(buf) = len + Len(Encode(r)) /\ IsAt(buf, len, Encode(r))
  BY <1>1, <1>2, HoldsTail
<1>4. small \in Seq(Bytes) /\ len \in Nat /\ Len(small) \in Nat /\ Len(buf) \in Nat
      /\ len < Len(small) /\ Len(small) < Len(buf) /\ len \in 0..Len(small)
  BY <1>1, <1>3 DEF Begins
<1>5. Begins(small, buf)
  OBVIOUS
<1>. HIDE DEF buf, len
<1>6. /\ ~IsLine(buf, len) /\ UnitAt(buf, len).next = Len(buf)
  BY <1>3, <1>4, UnitReads
<1>7. UnitAt(small, len).verdict = "torn"
  <2>1. UnitAt(small, len) \in Verdicts /\ EndsIn(UnitAt(small, len), len, small)
    BY <1>4, UnitType
  <2>2. UnitAt(buf, len).verdict = "ok"
    BY <1>3, <1>4, UnitReads
  <2>3. UnitAt(small, len) # UnitAt(buf, len)
    BY <1>4, <1>6, <2>1, <2>2 DEF EndsIn
  <2>. QED
    BY <1>4, <1>5, <1>6, <2>3, UnitAgrees
<1>8. PICK f : Scans(f, base)
  BY <1>1, ScanSteps
<1>9. PICK g : Scans(g, small)
  BY <1>4, ScanSteps
<1>10. Follow(g[0], f[0], g[len])
  <2>1. 0 \in 0..len /\ f[0].status = "ok"
    BY <1>1, <1>4, <1>8 DEF Scans
  <2>. QED
    BY <1>1, <1>8, <1>9, <2>1, ScanGoesOn DEF len
<1>11. g[len] = Stopped(len, "torn")
  BY <1>4, <1>7, <1>9, TurnIs
<1>12. g[len].records = <<>> /\ g[len].status = "torn"
  BY <1>4, <1>11, StoppedIs
<1>13. f[0].records = records /\ records \in Seq(Seq(Seq(Bytes)))
  <2>1. Scan(base) \in Results
    BY <1>1, ScanIsResult
  <2>. QED
    BY <1>1, <1>8, <2>1 DEF Scans, Results
<1>14. records \o <<>> = records
  BY <1>13, ConcatEmptySeq
<1>. QED
  BY <1>9, <1>10, <1>12, <1>13, <1>14 DEF Scans, Follow

-----------------------------------------------------------------------------
(***************************************************************************)
(* A file that is cut back to its last good record.                        *)
(***************************************************************************)
\* What is read of a file up to where the last good record ends.
SameUpTo(f, g, cut) ==
  \A pos \in 0..cut : g[pos].goodEnd = cut =>
    f[pos].status = "ok" /\ f[pos].records = g[pos].records

\* Cut back to where the last good record ends, a file reads the same.
LEMMA CutBack ==
  ASSUME NEW buf \in Seq(Bytes), NEW cut \in 0..Len(buf), NEW small, small = SubSeq(buf, 1, cut),
         NEW f, Scans(f, small), NEW g, Scans(g, buf)
  PROVE  SameUpTo(f, g, cut)
<1>. DEFINE P(pos) == g[pos].goodEnd = cut =>
                        f[pos].status = "ok" /\ f[pos].records = g[pos].records
            S == {pos \in 0..cut : P(pos)}
<1>1. Len(buf) \in Nat /\ cut \in Nat /\ cut <= Len(buf)
  OBVIOUS
<1>2. small \in Seq(Bytes) /\ Len(small) = cut /\ \A i \in 1..cut : small[i] = buf[i]
  <2>1. Begins(small, buf) /\ Len(small) = cut
    BY FrontIs
  <2>. QED
    BY <2>1 DEF Begins
<1>3. Begins(small, buf)
  BY <1>1, <1>2 DEF Begins
<1>4. \A pos \in 0..cut : f[pos] \in Results
  BY <1>2, ScanType
<1>5. \A pos \in 0..Len(buf) : g[pos] \in Results /\ g[pos].goodEnd >= pos
  BY ScanType
<1>6. cut \in S
  <2>1. cut \in 0..cut /\ cut \in 0..Len(buf)
    BY <1>1
  <2>2. f[cut] = Stopped(cut, "ok")
    <3>1. cut = Len(small) /\ cut \in 0..Len(small)
      BY <1>2, <2>1
    <3>2. f[cut] = Stopped(cut, "ok")
      BY <1>2, <3>1, TurnIs, ZenonT(40)
    <3>. QED
      BY <3>2
  <2>3. f[cut].status = "ok" /\ f[cut].records = <<>>
    BY <1>1, <2>2, StoppedIs
  <2>. DEFINE u == UnitAt(buf, cut)
  <2>4. ASSUME g[cut].goodEnd = cut PROVE g[cut].records = <<>>
    <3>1. CASE cut = Len(buf)
      BY <1>1, <2>1, <3>1, TurnIs, StoppedIs
    <3>2. CASE cut < Len(buf) /\ u.verdict # "ok"
      <4>1. g[cut] = Stopped(cut, u.verdict)
        BY <2>1, <3>2, TurnIs
      <4>. QED
        BY <4>1 DEF Stopped
    <3>3. CASE cut < Len(buf) /\ u.verdict = "ok"
      <4>1. u \in Verdicts /\ EndsIn(u, cut, buf)
        BY <1>1, <3>3, UnitType
      <4>2. u.next \in Nat /\ u.next > cut /\ u.next <= Len(buf)
        BY <3>3, <4>1 DEF EndsIn, Verdicts
      <4>3. u.next \in 0..Len(buf)
        BY <1>1, <4>2
      <4>4. g[cut] = Unfolded(u, g[u.next])
        BY <2>1, <3>3, TurnIs
      <4>. DEFINE rest == g[u.next]
      <4>5. rest \in Results /\ rest.goodEnd >= u.next
        BY <1>5, <4>3
      <4>6. g[cut].goodEnd = rest.goodEnd
        <5>. HIDE DEF u, rest
        <5>. QED
          <6>1. g[cut] = Unfolded(u, rest)
            BY <4>4 DEF rest
          <6>2. u \in Verdicts /\ rest \in Results
            BY <4>1, <4>5
          <6>3. IsUnfolded(g[cut], u, rest)
            BY <6>1, <6>2, UnfoldedTells
          <6>. QED
            BY <6>3 DEF IsUnfolded
      <4>7. rest.goodEnd \in Nat
        BY <4>5 DEF Results
      <4>. HIDE DEF u, rest
      <4>. QED
        BY <1>1, <2>4, <4>2, <4>5, <4>6, <4>7
    <3>. QED
      BY <1>1, <3>1, <3>2, <3>3
  <2>. QED
    BY <2>1, <2>3, <2>4
<1>7. ASSUME NEW n \in 0..(cut - 1), \A m \in (n + 1)..cut : m \in S PROVE n \in S
  <2>. DEFINE u == UnitAt(buf, n)
              next == u.next
  <2>1. /\ n \in Nat /\ n \in 0..cut /\ n < cut /\ n < Len(buf) /\ n \in 0..Len(buf)
        /\ n < Len(small)
    BY <1>1, <1>2
  <2>2. SUFFICES ASSUME g[n].goodEnd = cut
                 PROVE  f[n].status = "ok" /\ f[n].records = g[n].records
    BY <2>1
  <2>3. u \in Verdicts /\ EndsIn(u, n, buf)
    BY <2>1, UnitType
  <2>4. u.verdict = "ok"
    <3>1. ASSUME u.verdict # "ok" PROVE g[n].goodEnd = n
      <4>1. g[n] = Stopped(n, u.verdict)
        BY <2>1, <3>1, TurnIs
      <4>. QED
        BY <4>1 DEF Stopped
    <3>. QED
      BY <2>1, <2>2, <3>1
  <2>5. next \in Nat /\ next > n /\ next <= Len(buf)
    BY <2>3, <2>4 DEF EndsIn, Verdicts
  <2>6. next \in 0..Len(buf)
    BY <1>1, <2>5
  <2>7. g[n] = Unfolded(u, g[next])
    BY <2>1, <2>4, TurnIs
  <2>8. g[next] \in Results /\ g[next].goodEnd >= next
    BY <1>5, <2>6
  <2>. DEFINE rest == g[next]
  <2>9. /\ g[n].goodEnd = rest.goodEnd
        /\ u.tokens = <<>> => g[n].records = rest.records
        /\ u.tokens # <<>> => g[n].records = <<u.tokens>> \o rest.records
    <3>. HIDE DEF u, next, rest
    <3>. QED
      <4>1. g[n] = Unfolded(u, rest)
        BY <2>7 DEF rest
      <4>2. u \in Verdicts /\ rest \in Results
        BY <2>3, <2>8 DEF rest
      <4>3. IsUnfolded(g[n], u, rest)
        BY <4>1, <4>2, UnfoldedTells
      <4>. QED
        BY <4>3, Zenon DEF IsUnfolded
  <2>10. next <= cut /\ rest.goodEnd = cut
    BY <2>2, <2>8, <2>9
  <2>11. UnitAt(small, n) = u
    <3>1. ~(next > Len(small))
      BY <1>1, <1>2, <2>5, <2>10
    <3>. QED
      BY <1>3, <2>1, <2>4, <3>1, UnitAgrees
  <2>12. f[n] = Unfolded(u, f[next])
    <3>. DEFINE v == UnitAt(small, n)
    <3>1. n \in 0..Len(small) /\ small \in Seq(Bytes)
      BY <1>2, <2>1
    <3>2. v.verdict = "ok"
      BY <2>4, <2>11
    <3>3. f[n] = Unfolded(v, f[v.next])
      BY <2>1, <3>1, <3>2, TurnIs
    <3>. QED
      BY <2>11, <3>3
  <2>13. next \in (n + 1)..cut /\ next \in 0..cut
    BY <1>1, <2>1, <2>5, <2>10
  <2>14. P(next)
    BY <1>7, <2>13
  <2>15. f[next].status = "ok" /\ f[next].records = rest.records
    BY <2>10, <2>14
  <2>16. f[next] \in Results
    BY <1>4, <2>13
  <2>. HIDE DEF u, next, rest
  <2>. DEFINE found == f[next]
  <2>. HIDE DEF found
  <2>17. /\ f[n].status = found.status
         /\ u.tokens = <<>> => f[n].records = found.records
         /\ u.tokens # <<>> => f[n].records = <<u.tokens>> \o found.records
    <3>1. found \in Results /\ f[n] = Unfolded(u, found)
      BY <2>12, <2>16 DEF found
    <3>. QED
      BY <2>3, <3>1, UnfoldedIs
  <2>18. found.status = "ok" /\ found.records = rest.records
    BY <2>15 DEF found
  <2>. QED
    BY <2>9, <2>17, <2>18
<1>. HIDE DEF S
<1>8. \A pos \in 0..cut : pos \in S
  BY <1>1, <1>6, <1>7, Downwards
<1>. QED
  BY <1>8 DEF S, SameUpTo

\* A file that was repaired reads to its end, and as it did before.
LEMMA RepairReads ==
  ASSUME NEW buf \in Seq(Bytes)
  PROVE  /\ Repair(buf) \in Seq(Bytes) /\ Scan(Repair(buf)).status = "ok"
         /\ Scan(Repair(buf)).records = Scan(buf).records
<1>1. CASE Scan(buf).status = "ok"
  BY <1>1 DEF Repair
<1>2. CASE Scan(buf).status # "ok"
  <2>. DEFINE cut == Scan(buf).goodEnd
              small == SubSeq(buf, 1, cut)
  <2>1. cut \in 0..Len(buf)
    BY ScanIsResult
  <2>2. Repair(buf) = small
    BY <1>2 DEF Repair
  <2>3. small \in Seq(Bytes)
    <3>. HIDE DEF cut
    <3>. QED
      BY <2>1, FrontIs DEF Begins
  <2>. HIDE DEF small, cut
  <2>4. PICK f : Scans(f, small)
    BY <2>3, ScanSteps
  <2>5. PICK g : Scans(g, buf)
    BY ScanSteps
  <2>6. g[0].goodEnd = cut
    BY <2>5 DEF Scans, cut
  <2>7. 0 \in 0..cut
    BY <2>1
  <2>8. f[0].status = "ok" /\ f[0].records = g[0].records
    <3>1. small = SubSeq(buf, 1, cut)
      BY DEF small
    <3>2. SameUpTo(f, g, cut)
      BY <2>1, <2>4, <2>5, <3>1, CutBack
    <3>. QED
      BY <2>6, <2>7, <3>2 DEF SameUpTo
  <2>. QED
    BY <2>2, <2>3, <2>4, <2>5, <2>8 DEF Scans
<1>. QED
  BY <1>1, <1>2

-----------------------------------------------------------------------------
(***************************************************************************)
(* A log, record by record.                                                *)
(***************************************************************************)
\* An empty log takes no bytes.
LEMMA LogNothing == EncodeLog(<<>>) = <<>>
<1>1. [i \in DOMAIN <<>> |-> Encode(<<>>[i])] = <<>>
  OBVIOUS
<1>2. FlattenSeq(<<>>) = <<>>
  BY DEF FlattenSeq
<1>. QED
  BY <1>1, <1>2 DEF EncodeLog

\* One more record makes the bytes of the log longer by its own.
LogGrows(entries, r) == EncodeLog(Append(entries, r)) = EncodeLog(entries) \o Encode(r)

\* The bytes of a log with one more record.
LEMMA LogAppend ==
  ASSUME NEW entries \in Seq(LogRecords), NEW r \in LogRecords
  PROVE  /\ EncodeLog(entries) \in Seq(Bytes) /\ Encode(r) \in Seq(Bytes)
         /\ LogGrows(entries, r)
<1>. DEFINE s == [i \in DOMAIN entries |-> Encode(entries[i])]
            t == Append(entries, r)
            u == [i \in DOMAIN t |-> Encode(t[i])]
            n == Len(entries)
            e == Encode(r)
            w == Append(s, e)
<1>1. n \in Nat /\ DOMAIN entries = 1..n /\ \A i \in 1..n : entries[i] \in LogRecords
  OBVIOUS
<1>2. DOMAIN t = 1..(n + 1) /\ \A i \in 1..n : t[i] = entries[i]
  BY <1>1
<1>3. t[n + 1] = r
  BY <1>1
<1>4. \A i \in 1..n : Encode(entries[i]) \in Seq(Bytes)
  BY <1>1, RecordIs
<1>5. e \in Seq(Bytes)
  BY RecordIs
<1>. HIDE DEF n, t
<1>6. s \in Seq(Seq(Bytes)) /\ Len(s) = n /\ \A i \in 1..n : s[i] = Encode(entries[i])
  BY <1>1, <1>4
<1>7. u = [i \in 1..(n + 1) |-> Encode(t[i])]
  BY <1>2
<1>. HIDE DEF s, u, e
<1>8. w \in Seq(Seq(Bytes)) /\ Len(w) = n + 1 /\ (\A i \in 1..n : w[i] = s[i]) /\ w[n + 1] = e
  BY <1>1, <1>5, <1>6
<1>. HIDE DEF w
<1>9. w = [i \in 1..(n + 1) |-> w[i]]
  BY <1>1, <1>8
<1>10. \A i \in 1..(n + 1) : w[i] = Encode(t[i])
  <2>1. \A i \in 1..(n + 1) : i \in 1..n \/ i = n + 1
    BY <1>1
  <2>2. \A i \in 1..n : w[i] = Encode(t[i])
    BY <1>2, <1>6, <1>8
  <2>3. w[n + 1] = Encode(t[n + 1])
    BY <1>3, <1>8 DEF e
  <2>. QED
    BY <2>1, <2>2, <2>3
<1>11. u = w
  BY <1>7, <1>9, <1>10
<1>12. FlattenSeq(s) \in Seq(Bytes) /\ FlattenSeq(w) = FlattenSeq(s) \o e
  BY <1>5, <1>6, FlattenAppend DEF w
<1>. QED
  BY <1>5, <1>11, <1>12 DEF LogGrows, EncodeLog, s, u, e, t

\* What is in the file after the first k records behind base.
Written(base, entries, k) == base \o EncodeLog(SubSeq(entries, 1, k))

\* The first k records, and the next one.
LEMMA WrittenNext ==
  ASSUME NEW base \in Seq(Bytes), NEW entries \in Seq(LogRecords), NEW k \in 0..Len(entries)
  PROVE  /\ SubSeq(entries, 1, k) \in Seq(LogRecords) /\ Len(SubSeq(entries, 1, k)) = k
         /\ EncodeLog(SubSeq(entries, 1, k)) \in Seq(Bytes)
         /\ Written(base, entries, k) \in Seq(Bytes)
         /\ Len(Written(base, entries, k)) = Len(base) + Len(EncodeLog(SubSeq(entries, 1, k)))
         /\ k < Len(entries) =>
              /\ entries[k + 1] \in LogRecords
              /\ SubSeq(entries, 1, k + 1) = Append(SubSeq(entries, 1, k), entries[k + 1])
              /\ Written(base, entries, k + 1) = Written(base, entries, k) \o Encode(entries[k + 1])
<1>. DEFINE part == SubSeq(entries, 1, k)
            r == entries[k + 1]
            more == SubSeq(entries, 1, k + 1)
<1>1. Len(entries) \in Nat /\ k \in Nat /\ k <= Len(entries) /\ \A i \in 1..Len(entries) : entries[i] \in LogRecords
  OBVIOUS
<1>2. part \in Seq(LogRecords) /\ Len(part) = k /\ \A i \in 1..k : part[i] = entries[i]
  BY <1>1
<1>3. LogRecords # {} => EncodeLog(part) \in Seq(Bytes)
  <2>. HIDE DEF part
  <2>. QED
    BY <1>2, LogAppend
<1>4. EncodeLog(part) \in Seq(Bytes)
  <2>1. CASE LogRecords = {}
    <3>1. Len(entries) = 0
      BY <1>1, <2>1
    <3>2. part = <<>>
      BY <1>1, <1>2, <3>1
    <3>3. <<>> \in Seq(Bytes)
      OBVIOUS
    <3>. HIDE DEF part
    <3>. QED
      BY <3>2, <3>3, LogNothing
  <2>. QED
    BY <1>3, <2>1
<1>5. Written(base, entries, k) \in Seq(Bytes)
      /\ Len(Written(base, entries, k)) = Len(base) + Len(EncodeLog(part))
  <2>. DEFINE e == EncodeLog(part)
  <2>1. e \in Seq(Bytes)
    BY <1>4
  <2>. HIDE DEF e
  <2>2. base \o e \in Seq(Bytes) /\ Len(base \o e) = Len(base) + Len(e)
    BY <2>1, ConcatProperties
  <2>. QED
    BY <2>2 DEF Written, e
<1>6. ASSUME k < Len(entries)
      PROVE  /\ r \in LogRecords /\ more = Append(part, r)
             /\ Written(base, entries, k + 1) = Written(base, entries, k) \o Encode(r)
  <2>1. k + 1 \in 1..Len(entries) /\ r \in LogRecords
    BY <1>1, <1>6
  <2>2. more \in Seq(LogRecords) /\ Len(more) = k + 1 /\ \A i \in 1..(k + 1) : more[i] = entries[i]
    BY <1>1, <2>1
  <2>3. more = Append(part, r)
    <3>. DEFINE w == Append(part, r)
    <3>. HIDE DEF part, more, r
    <3>1. w \in Seq(LogRecords) /\ Len(w) = k + 1 /\ (\A i \in 1..k : w[i] = part[i])
          /\ w[k + 1] = r
      BY <1>2, <2>1
    <3>. HIDE DEF w
    <3>2. \A i \in 1..(k + 1) : more[i] = w[i]
      <4>1. \A i \in 1..(k + 1) : i \in 1..k \/ i = k + 1
        BY <1>1
      <4>. QED
        BY <1>2, <2>2, <3>1, <4>1 DEF r
    <3>3. more = w
      BY <2>2, <3>1, <3>2, SeqEqual
    <3>. QED
      BY <3>3 DEF w
  <2>4. EncodeLog(Append(part, r)) = EncodeLog(part) \o Encode(r) /\ Encode(r) \in Seq(Bytes)
    <3>. HIDE DEF part, r
    <3>. QED
      <4>1. part \in Seq(LogRecords) /\ r \in LogRecords
        BY <1>2, <2>1
      <4>2. LogGrows(part, r) /\ Encode(r) \in Seq(Bytes)
        BY <4>1, LogAppend
      <4>. QED
        BY <4>2, Zenon DEF LogGrows
  <2>5. base \o (EncodeLog(part) \o Encode(r)) = (base \o EncodeLog(part)) \o Encode(r)
    <3>. DEFINE a == EncodeLog(part)
                b == Encode(r)
    <3>1. a \in Seq(Bytes) /\ b \in Seq(Bytes)
      BY <1>4, <2>4
    <3>. HIDE DEF a, b
    <3>2. base \o (a \o b) = (base \o a) \o b
      <4>1. Regroups(base, a, b)
        BY <3>1, Regrouped
      <4>2. (base \o a) \o b = base \o (a \o b)
        BY <4>1, Zenon DEF Regroups
      <4>. QED
        BY <4>2, Zenon
    <3>. QED
      BY <3>2 DEF a, b
  <2>6. Written(base, entries, k + 1) = base \o EncodeLog(Append(part, r))
    BY <2>3 DEF Written
  <2>. QED
    BY <2>1, <2>3, <2>4, <2>5, <2>6 DEF Written
<1>. QED
  BY <1>2, <1>4, <1>5, <1>6

\* Both are there of one file, so the shorter is there of the longer.
LEMMA BeginsBoth ==
  ASSUME NEW a, NEW b, NEW c, Begins(a, c), Begins(b, c), Len(a) <= Len(b)
  PROVE  Begins(a, b) /\ (Len(a) = Len(b) => a = b)
<1>1. /\ a \in Seq(Bytes) /\ b \in Seq(Bytes) /\ Len(a) \in Nat /\ Len(b) \in Nat
      /\ \A i \in 1..Len(a) : a[i] = c[i]
      /\ \A i \in 1..Len(b) : b[i] = c[i]
  BY DEF Begins
<1>2. \A i \in 1..Len(a) : a[i] = b[i]
  BY <1>1
<1>3. Len(a) = Len(b) => a = b
  BY <1>1, <1>2, SeqEqual
<1>. QED
  BY <1>1, <1>2, <1>3 DEF Begins

\* Begins is transitive.
LEMMA BeginsOn ==
  ASSUME NEW a, NEW b, NEW c, Begins(a, b), Begins(b, c)
  PROVE  Begins(a, c)
<1>1. /\ a \in Seq(Bytes) /\ b \in Seq(Bytes) /\ c \in Seq(Bytes)
      /\ Len(a) \in Nat /\ Len(b) \in Nat /\ Len(c) \in Nat
      /\ Len(a) <= Len(b) /\ Len(b) <= Len(c)
      /\ \A i \in 1..Len(a) : a[i] = b[i]
      /\ \A i \in 1..Len(b) : b[i] = c[i]
  BY DEF Begins
<1>2. Len(a) <= Len(c) /\ \A i \in 1..Len(a) : i \in 1..Len(b)
  BY <1>1
<1>. QED
  BY <1>1, <1>2 DEF Begins

\* And reflexive.
LEMMA BeginsItself ==
  ASSUME NEW a \in Seq(Bytes)
  PROVE  Begins(a, a)
<1>1. Len(a) <= Len(a)
  OBVIOUS
<1>. QED
  BY <1>1 DEF Begins

\* What is there after fewer records is there of what is there after more.
LEMMA WrittenBegins ==
  ASSUME NEW base \in Seq(Bytes), NEW entries \in Seq(LogRecords), NEW j \in 0..Len(entries),
         NEW k \in 0..j
  PROVE  Begins(Written(base, entries, k), Written(base, entries, j))
<1>. DEFINE n == Len(entries)
            S == {i \in 0..n : \A h \in 0..i : Begins(Written(base, entries, h), Written(base, entries, i))}
<1>1. n \in Nat
  OBVIOUS
<1>2. \A i \in 0..n : Begins(Written(base, entries, i), Written(base, entries, i))
  BY WrittenNext, BeginsItself
<1>3. 0 \in S
  <2>1. 0 \in 0..n /\ \A h \in 0..0 : h = 0
    BY <1>1
  <2>. QED
    BY <1>2, <2>1
<1>4. ASSUME NEW i \in 1..n, i - 1 \in S PROVE i \in S
  <2>. DEFINE l == i - 1
  <2>1. l \in 0..n /\ l < n /\ l + 1 = i /\ i \in 0..n
    BY <1>1
  <2>2. \A h \in 0..l : Begins(Written(base, entries, h), Written(base, entries, l))
    BY <1>4
  <2>. HIDE DEF l, n
  <2>3. /\ Written(base, entries, l) \in Seq(Bytes) /\ entries[l + 1] \in LogRecords
        /\ Written(base, entries, l + 1) = Written(base, entries, l) \o Encode(entries[l + 1])
    BY <2>1, WrittenNext DEF n
  <2>4. Encode(entries[l + 1]) \in Seq(Bytes)
    BY <2>3, RecordIs
  <2>5. Begins(Written(base, entries, l), Written(base, entries, i))
    <3>. DEFINE a == Written(base, entries, l)
                e == Encode(entries[l + 1])
    <3>1. a \in Seq(Bytes) /\ e \in Seq(Bytes) /\ Written(base, entries, i) = a \o e
      BY <2>1, <2>3, <2>4
    <3>. HIDE DEF a, e
    <3>2. Begins(a, a \o e)
      BY <3>1, HoldsTail
    <3>. QED
      BY <3>1, <3>2 DEF a
  <2>6. ASSUME NEW h \in 0..i PROVE Begins(Written(base, entries, h), Written(base, entries, i))
    <3>1. h = i \/ h \in 0..l
      BY <1>1, <2>1
    <3>2. CASE h = i
      BY <1>2, <2>1, <3>2
    <3>3. CASE h \in 0..l
      BY <2>2, <2>5, <3>3, BeginsOn
    <3>. QED
      BY <3>1, <3>2, <3>3
  <2>. QED
    BY <2>1, <2>6
<1>. HIDE DEF S
<1>5. \A i \in 0..n : i \in S
  <2>. HIDE DEF n
  <2>. QED
    BY <1>1, <1>3, <1>4, Strings!UpTo
<1>. QED
  BY <1>5 DEF S

\* Append goes to the end of a concatenation.
Behind(a, b, r) == Append(a \o b, r) = a \o Append(b, r)

\* It does, for sequences of any kind.
LEMMA AppendBehind ==
  ASSUME NEW R, NEW a \in Seq(R), NEW b \in Seq(R), NEW r \in R
  PROVE  Behind(a, b, r)
<1>. DEFINE one == <<r>>
<1>1. one \in Seq(R)
  OBVIOUS
<1>2. a \o b \in Seq(R)
  BY ConcatProperties
<1>3. Append(a \o b, r) = (a \o b) \o one /\ Append(b, r) = b \o one
  BY <1>2, AppendIsConcat
<1>. HIDE DEF one
<1>4. (a \o b) \o one = a \o (b \o one)
  BY <1>1, ConcatAssociative
<1>5. Append(a \o b, r) = a \o Append(b, r)
  BY <1>3, <1>4
<1>. QED
  BY <1>5, Zenon DEF Behind

\* Every record that was logged is read.
LEMMA WrittenReads ==
  ASSUME NEW base, NEW records, Reads(base, records), NEW entries \in Seq(LogRecords),
         NEW k \in 0..Len(entries)
  PROVE  Reads(Written(base, entries, k), records \o SubSeq(entries, 1, k))
<1>. DEFINE n == Len(entries)
            S == {i \in 0..n : Reads(Written(base, entries, i), records \o SubSeq(entries, 1, i))}
            R == Seq(Seq(Bytes))
<1>1. n \in Nat /\ base \in Seq(Bytes)
  BY DEF Reads
<1>2. records \in Seq(R)
  <2>1. Scan(base) \in Results /\ Scan(base).records = records
    BY <1>1, ScanIsResult DEF Reads
  <2>. QED
    BY <2>1 DEF Results
<1>3. 0 \in S
  <2>1. SubSeq(entries, 1, 0) = <<>>
    BY <1>1
  <2>2. Written(base, entries, 0) = base
    BY <1>1, <2>1, LogNothing, ConcatEmptySeq DEF Written
  <2>3. records \o <<>> = records
    <3>. HIDE DEF R
    <3>. QED
      BY <1>2, ConcatEmptySeq
  <2>4. Reads(Written(base, entries, 0), records \o SubSeq(entries, 1, 0))
    <3>1. records \o SubSeq(entries, 1, 0) = records
      BY <2>1, <2>3
    <3>. QED
      BY <2>2, <3>1
  <2>5. 0 \in 0..n
    BY <1>1
  <2>. QED
    BY <2>4, <2>5
<1>4. ASSUME NEW i \in 1..n, i - 1 \in S PROVE i \in S
  <2>. DEFINE l == i - 1
              part == SubSeq(entries, 1, l)
              r == entries[l + 1]
  <2>1. l \in 0..n /\ l < n /\ l + 1 = i /\ i \in 0..n
    BY <1>1
  <2>2. Reads(Written(base, entries, l), records \o part)
    BY <1>4
  <2>. HIDE DEF l, n
  <2>3. /\ part \in Seq(LogRecords) /\ r \in LogRecords
        /\ SubSeq(entries, 1, l + 1) = Append(part, r)
        /\ Written(base, entries, l + 1) = Written(base, entries, l) \o Encode(r)
    BY <1>1, <2>1, WrittenNext DEF n
  <2>. HIDE DEF part, r
  <2>4. Reads(Written(base, entries, i), Append(records \o part, r))
    <3>1. Reads(Written(base, entries, l) \o Encode(r), Append(records \o part, r))
      BY <2>2, <2>3, AppendReads
    <3>. QED
      BY <2>1, <2>3, <3>1
  <2>5. Append(records \o part, r) = records \o Append(part, r)
    <3>1. LogRecords \subseteq R
      BY AofFramingAssumption
    <3>. HIDE DEF R
    <3>2. part \in Seq(R)
      BY <2>3, <3>1
    <3>3. r \in R
      BY <2>3, <3>1
    <3>4. Behind(records, part, r)
      BY <1>2, <3>2, <3>3, AppendBehind
    <3>. QED
      BY <3>4, Zenon DEF Behind
  <2>6. Reads(Written(base, entries, i), records \o SubSeq(entries, 1, i))
    BY <2>1, <2>3, <2>4, <2>5
  <2>. QED
    BY <2>1, <2>6
<1>. HIDE DEF S
<1>5. \A i \in 0..n : i \in S
  <2>. HIDE DEF n
  <2>. QED
    BY <1>1, <1>3, <1>4, Strings!UpTo
<1>. QED
  BY <1>5 DEF S

\* All the records of a log.
LEMMA WholeLog ==
  ASSUME NEW base, NEW entries \in Seq(LogRecords)
  PROVE  /\ SubSeq(entries, 1, Len(entries)) = entries /\ Len(entries) \in 0..Len(entries)
         /\ Written(base, entries, Len(entries)) = base \o EncodeLog(entries)
<1>1. SubSeq(entries, 1, Len(entries)) = entries /\ Len(entries) \in 0..Len(entries)
  OBVIOUS
<1>. QED
  BY <1>1 DEF Written

\* How many records are all there if so many bytes of the log are lost.
Whole(entries, lost) ==
  {k \in 0..Len(entries) : Len(EncodeLog(SubSeq(entries, 1, k))) + lost <= Len(EncodeLog(entries))}

\* There is a largest such number.
LEMMA MostWhole ==
  ASSUME NEW entries \in Seq(LogRecords), NEW lost \in 0..Len(EncodeLog(entries))
  PROVE  /\ Max(Whole(entries, lost)) \in Whole(entries, lost)
         /\ \A k \in Whole(entries, lost) : k <= Max(Whole(entries, lost))
<1>. DEFINE n == Len(entries)
            all == Whole(entries, lost)
            out == {i \in Nat : \E k \in all : i = n - k}
<1>1. n \in Nat /\ all \subseteq 0..n
  BY DEF Whole
<1>2. 0 \in all
  <2>1. SubSeq(entries, 1, 0) = <<>>
    BY <1>1
  <2>2. Len(EncodeLog(SubSeq(entries, 1, 0))) = 0
    <3>1. EncodeLog(SubSeq(entries, 1, 0)) = <<>>
      BY <2>1, LogNothing
    <3>. QED
      BY <3>1
  <2>3. <<>> \in Seq(Bytes)
    OBVIOUS
  <2>4. Len(EncodeLog(entries)) \in Nat
    <3>1. /\ SubSeq(entries, 1, n) = entries /\ n \in 0..n
      BY <1>1
    <3>2. EncodeLog(SubSeq(entries, 1, n)) \in Seq(Bytes)
      BY <2>3, <3>1, WrittenNext
    <3>3. EncodeLog(entries) \in Seq(Bytes)
      BY <3>1, <3>2
    <3>. QED
      BY <3>3
  <2>5. 0 \in 0..n
    BY <1>1
  <2>. DEFINE a == Len(EncodeLog(SubSeq(entries, 1, 0)))
              b == Len(EncodeLog(entries))
  <2>6. a + lost <= b
    <3>1. a = 0 /\ b \in Nat /\ lost \in 0..b
      BY <2>2, <2>4
    <3>. HIDE DEF a, b
    <3>. QED
      BY <3>1
  <2>. QED
    BY <2>5, <2>6 DEF Whole
<1>. HIDE DEF all, n
<1>3. out \in SUBSET Nat /\ out # {}
  <2>1. n - 0 \in Nat
    BY <1>1
  <2>. QED
    BY <1>2, <2>1
<1>4. PICK i \in out : \A j \in out : i <= j
  <2>. HIDE DEF out
  <2>. QED
    BY <1>3, Strings!LeastNumber
<1>5. PICK m \in all : i = n - m
  BY <1>4
<1>6. ASSUME NEW k \in all PROVE k <= m
  <2>1. k \in 0..n /\ m \in 0..n /\ n - k \in Nat
    BY <1>1
  <2>2. n - k \in out
    BY <2>1
  <2>3. n - m <= n - k
    BY <1>4, <1>5, <2>2
  <2>. QED
    BY <1>1, <2>1, <2>3
<1>7. Max(all) \in all /\ \A k \in all : k <= Max(all)
  <2>1. \A k \in all : m >= k
    BY <1>1, <1>6
  <2>2. \E x \in all : \A y \in all : x >= y
    BY <2>1
  <2>3. Max(all) \in all /\ \A y \in all : Max(all) >= y
    BY <2>2 DEF Max
  <2>. QED
    BY <1>1, <2>3
<1>. QED
  BY <1>7 DEF all

\* small is cut behind base, in the record r.
CutIn(small, base, r) ==
  /\ Begins(base, small) /\ Begins(small, base \o Encode(r))
  /\ Len(base) < Len(small) /\ Len(small) < Len(base \o Encode(r))

\* The records are read, and what follows them is cut short.
Torn(small, records) == Scan(small).status = "torn" /\ Scan(small).records = records

\* A file that is cut in the middle of a record reads as what is in front of it.
LEMMA CutInReads ==
  ASSUME NEW base, NEW records, Reads(base, records), NEW r, r \in LogRecords,
         NEW small, CutIn(small, base, r)
  PROVE  Torn(small, records)
<1>1. /\ Begins(base, small) /\ Begins(small, base \o Encode(r))
      /\ Len(base) < Len(small) /\ Len(small) < Len(base \o Encode(r))
  BY DEF CutIn
<1>2. Scan(small).status = "torn" /\ Scan(small).records = records
  BY <1>1, CutReads
<1>. QED
  BY <1>2 DEF Torn

\* Every record that is all there is read, and what follows them is torn.
TornAtMost(buf, before, entries) ==
  Scan(buf).records = before \o entries /\ Scan(buf).status \in {"ok", "torn"}

\* A log that lost its last bytes reads as the records that are all there, and
\* it is torn at most.
LEMMA LostReads ==
  ASSUME NEW base, NEW records, Reads(base, records), NEW entries \in Seq(LogRecords),
         NEW lost \in 0..Len(EncodeLog(entries)), NEW m, m = Max(Whole(entries, lost)),
         NEW buf, buf = base \o EncodeLog(entries),
         NEW small, small = SubSeq(buf, 1, Len(buf) - lost)
  PROVE  TornAtMost(small, records, SubSeq(entries, 1, m))
<1>. DEFINE n == Len(entries)
            W(k) == Written(base, entries, k)
            size(k) == Len(EncodeLog(SubSeq(entries, 1, k)))
            total == Len(EncodeLog(entries))
<1>1. base \in Seq(Bytes) /\ n \in Nat /\ Len(base) \in Nat
  BY DEF Reads
<1>2. ASSUME NEW k \in 0..n
      PROVE  /\ W(k) \in Seq(Bytes) /\ Len(W(k)) = Len(base) + size(k) /\ size(k) \in Nat
             /\ Begins(W(k), buf)
  <2>1. /\ W(k) \in Seq(Bytes) /\ Len(W(k)) = Len(base) + size(k)
        /\ EncodeLog(SubSeq(entries, 1, k)) \in Seq(Bytes)
    BY <1>1, WrittenNext
  <2>2. n \in 0..n /\ buf = W(n)
    BY WholeLog
  <2>3. k \in 0..n
    OBVIOUS
  <2>4. Begins(W(k), W(n))
    BY <1>1, <2>2, <2>3, WrittenBegins
  <2>. QED
    BY <2>1, <2>2, <2>4
<1>3. n \in 0..n /\ buf = W(n) /\ size(n) = total
  BY WholeLog
<1>4. /\ m \in 0..n /\ size(m) + lost <= total
      /\ \A k \in 0..n : size(k) + lost <= total => k <= m
  BY MostWhole DEF Whole
<1>5. /\ buf \in Seq(Bytes) /\ Len(buf) = Len(base) + total /\ total \in Nat
      /\ lost \in Nat /\ lost <= total
  BY <1>2, <1>3
<1>. DEFINE len == Len(base) + total - lost
<1>6. len \in Nat /\ len <= Len(buf) /\ len = Len(buf) - lost
  BY <1>1, <1>5
<1>7. small \in Seq(Bytes) /\ Len(small) = len /\ Begins(small, buf)
  <2>1. small = SubSeq(buf, 1, len) /\ len \in 0..Len(buf)
    BY <1>5, <1>6
  <2>. HIDE DEF len
  <2>2. Begins(small, buf) /\ Len(small) = len
    BY <1>5, <2>1, FrontIs
  <2>. QED
    BY <2>2 DEF Begins
<1>. HIDE DEF W, size, total, n
<1>8. Reads(W(m), records \o SubSeq(entries, 1, m))
  BY <1>4, WrittenReads DEF W, n
<1>9. Len(W(m)) <= len /\ Len(W(m)) \in Nat
  <2>1. Len(W(m)) = Len(base) + size(m) /\ size(m) \in Nat
    BY <1>2, <1>4
  <2>. QED
    BY <1>1, <1>4, <1>5, <2>1
<1>10. Begins(W(m), small) /\ (Len(W(m)) = len => W(m) = small)
  <2>1. Begins(W(m), buf)
    BY <1>2, <1>4
  <2>. HIDE DEF len
  <2>2. Len(W(m)) <= Len(small)
    BY <1>7, <1>9
  <2>3. Begins(W(m), small) /\ (Len(W(m)) = Len(small) => W(m) = small)
    BY <1>7, <2>1, <2>2, BeginsBoth
  <2>. QED
    BY <1>7, <2>3
<1>11. CASE Len(W(m)) = len
  BY <1>8, <1>10, <1>11 DEF Reads, TornAtMost
<1>12. CASE Len(W(m)) # len
  <2>1. m # n
    <3>1. m = n => Len(W(m)) = Len(base) + total /\ lost = 0
      <4>1. ASSUME m = n PROVE Len(W(m)) = Len(base) + total /\ lost = 0
        <5>1. size(m) = total
          BY <1>3, <4>1
        <5>2. total + lost <= total
          BY <1>4, <5>1
        <5>. QED
          BY <1>2, <1>4, <1>5, <5>1, <5>2
      <4>. QED
        BY <4>1
    <3>2. lost = 0 => len = Len(base) + total
      BY <1>1, <1>5
    <3>. HIDE DEF len
    <3>. QED
      BY <1>12, <3>1, <3>2
  <2>. DEFINE r == entries[m + 1]
  <2>2. m < n /\ m + 1 \in 0..n
    BY <1>1, <1>4, <2>1
  <2>3. r \in LogRecords /\ W(m + 1) = W(m) \o Encode(r)
    BY <1>1, <1>4, <2>2, WrittenNext DEF W, n
  <2>4. Len(W(m + 1)) > len
    <3>1. ~(m + 1 <= m)
      BY <1>1, <1>4
    <3>2. ~(size(m + 1) + lost <= total)
      BY <1>4, <2>2, <3>1
    <3>3. Len(W(m + 1)) = Len(base) + size(m + 1) /\ size(m + 1) \in Nat
      BY <1>2, <2>2
    <3>. QED
      BY <1>1, <1>5, <3>2, <3>3
  <2>5. Begins(small, W(m + 1))
    <3>1. Begins(W(m + 1), buf) /\ W(m + 1) \in Seq(Bytes)
      BY <1>2, <2>2
    <3>2. Len(small) <= Len(W(m + 1))
      BY <1>6, <1>7, <2>4, <3>1
    <3>. QED
      BY <1>7, <3>1, <3>2, BeginsBoth
  <2>. HIDE DEF r, len
  <2>6. Scan(small).status = "torn" /\ Scan(small).records = records \o SubSeq(entries, 1, m)
    <3>. DEFINE a == W(m)
    <3>1. /\ Reads(a, records \o SubSeq(entries, 1, m)) /\ Begins(a, small)
          /\ Begins(small, a \o Encode(r))
      BY <1>8, <1>10, <2>3, <2>5
    <3>2. (Len(a) < Len(small)) /\ (Len(small) < Len(a \o Encode(r)))
      <4>1. Len(small) = len /\ len \in Nat
        BY <1>6, <1>7
      <4>2. Len(a) < len
        BY <1>9, <1>12, <4>1
      <4>3. Len(a \o Encode(r)) > len /\ Len(a \o Encode(r)) \in Nat
        <5>1. W(m + 1) \in Seq(Bytes)
          BY <1>2, <2>2
        <5>2. Len(W(m + 1)) \in Nat
          BY <5>1
        <5>3. W(m + 1) = a \o Encode(r)
          BY <2>3
        <5>. HIDE DEF a
        <5>. QED
          BY <2>4, <5>2, <5>3, Zenon
      <4>. HIDE DEF a
      <4>. QED
        BY <4>1, <4>2, <4>3
    <3>. DEFINE before == records \o SubSeq(entries, 1, m)
    <3>3. Reads(a, before)
      BY <3>1
    <3>4. r \in LogRecords
      BY <2>3
    <3>. HIDE DEF a, before
    <3>5. Begins(a, small) /\ Begins(small, a \o Encode(r))
      BY <3>1
    <3>6. CutIn(small, a, r)
      BY <3>2, <3>5 DEF CutIn
    <3>7. Torn(small, before)
      BY <3>3, <3>4, <3>6, CutInReads
    <3>. QED
      BY <3>7 DEF Torn, before
  <2>. QED
    BY <2>6 DEF TornAtMost
<1>. QED
  BY <1>11, <1>12

-----------------------------------------------------------------------------
(***************************************************************************)
(* The life of a file.                                                     *)
(***************************************************************************)
\* A file that read to its end, and the records logged behind it.
LoggedOn(buf, before, entries) ==
  \E base : Reads(base, before) /\ buf = base \o EncodeLog(entries)

\* The types of the variables that matter here.
FileType ==
  /\ file \in Seq(Bytes) /\ recent \in Seq(LogRecords)
  /\ open \in BOOLEAN /\ glued \in BOOLEAN

\* The strengthening: while the server runs, the file is what it was repaired
\* to and the records logged since.
FileInv ==
  /\ FileType
  /\ open /\ ~glued => LoggedOn(file, kept, recent)
  /\ TornTailsAreCut

\* Such a file reads to its end.
LEMMA LoggedOnReads ==
  ASSUME NEW buf, NEW before, NEW entries \in Seq(LogRecords), LoggedOn(buf, before, entries)
  PROVE  Scan(buf).status = "ok" /\ Scan(buf).records = before \o entries
<1>1. PICK base : Reads(base, before) /\ buf = base \o EncodeLog(entries)
  BY DEF LoggedOn
<1>. DEFINE n == Len(entries)
<1>2. SubSeq(entries, 1, n) = entries /\ n \in 0..n /\ Written(base, entries, n) = base \o EncodeLog(entries)
  BY WholeLog
<1>. HIDE DEF n
<1>3. Reads(Written(base, entries, n), before \o SubSeq(entries, 1, n))
  BY <1>1, <1>2, WrittenReads DEF n
<1>4. Reads(buf, before \o entries)
  BY <1>1, <1>2, <1>3
<1>. QED
  BY <1>4 DEF Reads

\* One more record behind it.
LEMMA LoggedOnAppend ==
  ASSUME NEW buf, NEW before, NEW entries \in Seq(LogRecords), LoggedOn(buf, before, entries),
         NEW r \in LogRecords
  PROVE  LoggedOn(buf \o Encode(r), before, Append(entries, r))
<1>1. PICK base : Reads(base, before) /\ buf = base \o EncodeLog(entries)
  BY DEF LoggedOn
<1>2. /\ EncodeLog(entries) \in Seq(Bytes) /\ Encode(r) \in Seq(Bytes)
      /\ EncodeLog(Append(entries, r)) = EncodeLog(entries) \o Encode(r)
  BY LogAppend DEF LogGrows
<1>3. base \in Seq(Bytes)
  BY <1>1 DEF Reads
<1>. DEFINE e == EncodeLog(entries)
            f == Encode(r)
<1>4. buf = base \o e /\ e \in Seq(Bytes) /\ f \in Seq(Bytes)
      /\ EncodeLog(Append(entries, r)) = e \o f
  BY <1>1, <1>2
<1>. HIDE DEF e, f
<1>5. (base \o e) \o f = base \o (e \o f)
  BY <1>3, <1>4, ConcatAssociative
<1>6. buf \o f = base \o EncodeLog(Append(entries, r))
  BY <1>4, <1>5
<1>7. buf \o Encode(r) = base \o EncodeLog(Append(entries, r))
  BY <1>6 DEF f
<1>. QED
  BY <1>1, <1>7 DEF LoggedOn

\* What a crash leaves of it.
LEMMA LoggedOnCut ==
  ASSUME NEW buf, NEW before, NEW entries \in Seq(LogRecords), LoggedOn(buf, before, entries),
         NEW lost \in 0..Len(EncodeLog(entries))
  PROVE  TornAtMost(SubSeq(buf, 1, Len(buf) - lost), before,
                    SubSeq(entries, 1, Max(Whole(entries, lost))))
<1>1. PICK base : Reads(base, before) /\ buf = base \o EncodeLog(entries)
  BY DEF LoggedOn
<1>. DEFINE small == SubSeq(buf, 1, Len(buf) - lost)
            m == Max(Whole(entries, lost))
<1>2. small = SubSeq(buf, 1, Len(buf) - lost) /\ m = Max(Whole(entries, lost))
  OBVIOUS
<1>. HIDE DEF small, m
<1>3. TornAtMost(small, before, SubSeq(entries, 1, m))
  BY <1>1, <1>2, LostReads
<1>. QED
  BY <1>3 DEF small, m

\* What a crash leaves is a file and a log.
LEMMA CutType ==
  ASSUME NEW buf \in Seq(Bytes), NEW entries \in Seq(LogRecords),
         NEW lost \in 0..Len(EncodeLog(entries))
  PROVE  /\ SubSeq(buf, 1, Len(buf) - lost) \in Seq(Bytes)
         /\ SubSeq(entries, 1, Max(Whole(entries, lost))) \in Seq(LogRecords)
<1>1. lost \in Nat /\ Len(buf) \in Nat
  <2>1. EncodeLog(entries) \in Seq(Bytes)
    <3>1. <<>> \in Seq(Bytes)
      OBVIOUS
    <3>2. SubSeq(entries, 1, Len(entries)) = entries /\ Len(entries) \in 0..Len(entries)
      BY WholeLog
    <3>3. EncodeLog(SubSeq(entries, 1, Len(entries))) \in Seq(Bytes)
      BY <3>1, <3>2, WrittenNext
    <3>. QED
      BY <3>2, <3>3
  <2>. QED
    BY <2>1
<1>. DEFINE len == Len(buf) - lost
            m == Max(Whole(entries, lost))
<1>2. len \in Int /\ \A i \in 1..len : i \in 1..Len(buf) /\ buf[i] \in Bytes
  BY <1>1
<1>3. m \in 0..Len(entries)
  <2>1. m \in Whole(entries, lost)
    BY MostWhole
  <2>. HIDE DEF m
  <2>. QED
    BY <2>1 DEF Whole
<1>. HIDE DEF len, m
<1>4. SubSeq(buf, 1, len) \in Seq(Bytes)
  BY <1>2, SubSeqProperties
<1>5. SubSeq(entries, 1, m) \in Seq(LogRecords)
  <2>1. <<>> \in Seq(Bytes)
    OBVIOUS
  <2>. QED
    BY <1>3, <2>1, WrittenNext
<1>. QED
  BY <1>4, <1>5 DEF len, m

\* A repaired file that ends with a newline is one to log behind.
LEMMA RepairedIsRead ==
  ASSUME NEW buf \in Seq(Bytes), Closed(Repair(buf))
  PROVE  LoggedOn(Repair(buf), Scan(buf).records, <<>>)
<1>1. Reads(Repair(buf), Scan(buf).records)
  BY RepairReads DEF Reads
<1>. DEFINE base == Repair(buf)
<1>2. base \in Seq(Bytes)
  BY RepairReads
<1>. HIDE DEF base
<1>3. base \o EncodeLog(<<>>) = base
  BY <1>2, LogNothing, ConcatEmptySeq
<1>. QED
  BY <1>1, <1>3 DEF LoggedOn, base

\* The repaired file is what was read from it and, behind it, what was logged;
\* a crash leaves of that the records that are all there.
THEOREM FileInvariant == FileSpec => []FileInv
<1>1. InitFile => FileInv
  <2>. SUFFICES ASSUME InitFile PROVE FileInv
    OBVIOUS
  <2>1. /\ file \in OldFiles /\ kept = Scan(file).records /\ recent = <<>>
        /\ open = FALSE /\ glued = FALSE
    BY DEF InitFile
  <2>2. file \in Seq(Bytes) /\ Scan(file).status # "corrupt"
    BY <2>1, AofFramingAssumption
  <2>3. FileType
    <3>1. <<>> \in Seq(LogRecords)
      OBVIOUS
    <3>. QED
      BY <2>1, <2>2, <3>1 DEF FileType
  <2>4. Scan(file) \in Results
    BY <2>2, ScanIsResult
  <2>5. Scan(file).status \in {"ok", "torn"} /\ kept \o <<>> = kept
    <3>1. Scan(file).status \in {"ok", "torn", "corrupt"} /\ kept \in Seq(Seq(Seq(Bytes)))
      BY <2>1, <2>4 DEF Results
    <3>. QED
      BY <2>2, <3>1, ConcatEmptySeq
  <2>6. TornTailsAreCut
    BY <2>1, <2>5 DEF TornTailsAreCut
  <2>. QED
    BY <2>1, <2>3, <2>6 DEF FileInv
<1>2. FileInv /\ [FileNext]_fileVars => FileInv'
  <2>. SUFFICES ASSUME FileInv, [FileNext]_fileVars PROVE FileInv'
    OBVIOUS
  <2>. USE DEF FileInv
  <2>1. CASE OpenFile
    <3>1. /\ ~open /\ open' = TRUE /\ file' = Repair(file)
          /\ glued' = (file' # <<>> /\ file'[Len(file')] # NL)
          /\ kept' = Scan(file).records /\ recent' = <<>>
      BY <2>1 DEF OpenFile
    <3>2. file \in Seq(Bytes)
      BY DEF FileType
    <3>3. FileType'
      <4>1. <<>> \in Seq(LogRecords)
        OBVIOUS
      <4>2. Repair(file) \in Seq(Bytes)
        BY <3>2, RepairReads
      <4>. QED
        BY <3>1, <4>1, <4>2 DEF FileType
    <3>4. ASSUME ~glued' PROVE LoggedOn(file', kept', recent')
      <4>1. Closed(Repair(file))
        BY <3>1, <3>4 DEF Closed
      <4>. QED
        BY <3>1, <3>2, <4>1, RepairedIsRead
    <3>. QED
      BY <3>1, <3>3, <3>4 DEF TornTailsAreCut
  <2>2. CASE CutFile
    <3>1. open /\ open' = FALSE /\ kept' = kept /\ glued' = glued
      BY <2>2 DEF CutFile
    <3>2. PICK lost \in 0..Len(EncodeLog(recent)) :
            /\ file' = SubSeq(file, 1, Len(file) - lost)
            /\ recent' = SubSeq(recent, 1, Max(Whole(recent, lost)))
      BY <2>2 DEF CutFile, Whole
    <3>3. file \in Seq(Bytes) /\ recent \in Seq(LogRecords)
      BY DEF FileType
    <3>4. FileType'
      BY <3>1, <3>2, <3>3, CutType DEF FileType
    <3>5. ASSUME ~glued PROVE TornAtMost(file', kept', recent')
      <4>1. LoggedOn(file, kept, recent)
        BY <3>1, <3>5
      <4>2. TornAtMost(SubSeq(file, 1, Len(file) - lost), kept,
                       SubSeq(recent, 1, Max(Whole(recent, lost))))
        BY <3>3, <4>1, LoggedOnCut
      <4>. QED
        BY <3>1, <3>2, <4>2
    <3>6. TornTailsAreCut'
      BY <3>1, <3>5 DEF TornTailsAreCut, TornAtMost
    <3>. QED
      BY <3>1, <3>4, <3>6
  <2>3. CASE DamageFile
    <3>1. ~open /\ damage' = "now" /\ UNCHANGED <<recent, open, glued>>
      BY <2>3 DEF DamageFile
    <3>2. file' \in Seq(Bytes)
      <4>1. PICK i \in DOMAIN file, b \in Bytes : file' = [file EXCEPT ![i] = b]
        BY <2>3 DEF DamageFile
      <4>2. file \in Seq(Bytes)
        BY DEF FileType
      <4>. QED
        BY <4>1, <4>2
    <3>3. FileType'
      BY <3>1, <3>2 DEF FileType
    <3>. QED
      BY <3>1, <3>3 DEF TornTailsAreCut
  <2>4. ASSUME NEW record \in LogRecords, LogRecord(record) PROVE FileInv'
    <3>1. /\ open /\ open' = open /\ kept' = kept /\ glued' = glued
          /\ file' = file \o Encode(record) /\ recent' = Append(recent, record)
      BY <2>4 DEF LogRecord
    <3>2. file \in Seq(Bytes) /\ recent \in Seq(LogRecords) /\ Encode(record) \in Seq(Bytes)
      BY RecordIs DEF FileType
    <3>3. FileType'
      <4>1. file \o Encode(record) \in Seq(Bytes)
        BY <3>2
      <4>2. Append(recent, record) \in Seq(LogRecords)
        BY <3>2
      <4>. QED
        BY <3>1, <4>1, <4>2 DEF FileType
    <3>4. ASSUME ~glued PROVE LoggedOn(file', kept', recent')
      <4>1. LoggedOn(file, kept, recent)
        BY <3>1, <3>4
      <4>. QED
        BY <3>1, <3>2, <4>1, LoggedOnAppend
    <3>. QED
      BY <3>1, <3>3, <3>4 DEF TornTailsAreCut
  <2>5. CASE UNCHANGED fileVars
    BY <2>5 DEF fileVars, FileType, TornTailsAreCut
  <2>. QED
    BY <2>1, <2>2, <2>3, <2>4, <2>5 DEF FileNext
<1>. QED
  BY <1>1, <1>2, PTL DEF FileSpec

\* A crash cuts the log anywhere: every record that is all there is read, and
\* nothing else is, and the file is torn at most.
THEOREM TornTailIsCut == FileSpec => []TornTailsAreCut
<1>1. FileInv => TornTailsAreCut
  BY DEF FileInv
<1>. QED
  BY <1>1, FileInvariant, PTL

\* While the server runs, the file reads, to its end, as what was read from it
\* and what was logged since.
THEOREM LogIsReadBack == FileSpec => []LogReadsBack
<1>1. FileInv => LogReadsBack
  <2>. SUFFICES ASSUME FileInv, open, ~glued
                PROVE  Scan(file).status = "ok" /\ Scan(file).records = kept \o recent
    BY DEF LogReadsBack
  <2>1. recent \in Seq(LogRecords) /\ LoggedOn(file, kept, recent)
    BY DEF FileInv, FileType
  <2>. QED
    BY <2>1, LoggedOnReads
<1>. QED
  BY <1>1, FileInvariant, PTL
=============================================================================
