----------------------------- MODULE FoldTheorems -----------------------------
(***************************************************************************)
(* Induction over the steps of a fold.  A fold of the community modules is *)
(* a function over sets of positions, the last position first; here it is  *)
(* the sequence of its intermediate results.  And sums over a finite set.  *)
(*                                                                         *)
(* The theorems are about one operator, so that an INSTANCE of this module *)
(* gives them for an operator of a specification: the provers cannot       *)
(* instantiate a theorem that has an operator among its parameters.        *)
(***************************************************************************)
EXTENDS Integers, FiniteSetsExt, Functions, FiniteSetTheorems, WellFoundedInduction, TLAPS

CONSTANT Op(_, _, _)  \* what is folded: the result so far, an element, a context

\* A set of natural numbers has a least one.
LEMMA LeastNumber ==
  ASSUME NEW S \in SUBSET Nat, S # {}
  PROVE  \E m \in S : \A n \in S : m <= n
<1>. DEFINE Less == {p \in Nat \X Nat : p[1] < p[2]}
<1>1. IsWellFoundedOn(Less, Nat)
  BY NatLessThanWellFounded DEF OpToRel
<1>2. \E m \in S : \A n \in S : ~(<<n, m>> \in Less)
  <2>. HIDE DEF Less
  <2>. QED
    BY <1>1, WFMin
<1>3. PICK m \in S : \A n \in S : ~(<<n, m>> \in Less)
  BY <1>2
<1>4. ASSUME NEW n \in S PROVE m <= n
  <2>1. m \in Nat /\ n \in Nat /\ ~(n < m)
    BY <1>3
  <2>. QED
    BY <2>1
<1>. QED
  BY <1>4

\* Induction over the natural numbers, for a set instead of a predicate.
LEMMA SetInduction ==
  ASSUME NEW S, 0 \in S, \A n \in Nat : n \in S => n + 1 \in S
  PROVE  \A n \in Nat : n \in S
<1>. DEFINE Out == {n \in Nat : n \notin S}
<1>1. SUFFICES ASSUME Out # {} PROVE FALSE
  OBVIOUS
<1>2. PICK m \in Out : \A n \in Out : m <= n
  BY <1>1, LeastNumber
<1>3. m \in Nat /\ m # 0
  OBVIOUS
<1>4. m - 1 \in Nat /\ m - 1 \in S
  <2>1. m - 1 \in Nat /\ ~(m <= m - 1)
    BY <1>3
  <2>. QED
    BY <1>2, <2>1
<1>. QED
  BY <1>3, <1>4

\* The same up to a bound.
LEMMA UpTo ==
  ASSUME NEW len \in Nat, NEW S, 0 \in S, \A n \in 1..len : n - 1 \in S => n \in S
  PROVE  \A n \in 0..len : n \in S
<1>. DEFINE T == {n \in Nat : n > len \/ n \in S}
<1>1. 0 \in T
  OBVIOUS
<1>2. ASSUME NEW n \in Nat, n \in T PROVE n + 1 \in T
  <2>1. CASE n + 1 > len
    BY <2>1
  <2>2. CASE n + 1 <= len
    <3>1. n + 1 \in 1..len /\ (n + 1) - 1 = n /\ n \in S
      BY <1>2, <2>2
    <3>. QED
      BY <3>1
  <2>. QED
    BY <2>1, <2>2
<1>. HIDE DEF T
<1>3. \A n \in Nat : n \in T
  BY <1>1, <1>2, SetInduction
<1>. QED
  BY <1>3 DEF T

\* The greatest of a set of positions up to n is n itself, if it is one.
LEMMA MaxOfPrefix ==
  ASSUME NEW n \in Nat, NEW s \in SUBSET (1..n), n \in s
  PROVE  Max(s) = n
<1>1. \A y \in s : n >= y
  OBVIOUS
<1>2. \A x \in s : (\A y \in s : x >= y) => x = n
  OBVIOUS
<1>. QED
  BY <1>1, <1>2 DEF Max

\* One step of the function by which the community modules define a fold.
Step(it, s, base, seq, e) ==
  IF s = {} THEN base ELSE Op(it[s \ {Max(s)}], seq[Max(s)], e)

IsFold(it, base, seq, e, len) ==
  it = [s \in SUBSET (1..len) |-> Step(it, s, base, seq, e)]

\* There is such a function for every number of elements.
THEOREM FoldExists ==
  ASSUME NEW base, NEW seq, NEW e, NEW len \in Nat
  PROVE  \E it : IsFold(it, base, seq, e, len)
<1>. DEFINE Fold(it, n) == it = [s \in SUBSET (1..n) |-> Step(it, s, base, seq, e)]
            S == {n \in Nat : \E it : Fold(it, n)}
<1>1. 0 \in S
  <2>. DEFINE it == [s \in SUBSET (1..0) |-> base]
  <2>1. SUBSET (1..0) = {{}}
    OBVIOUS
  <2>2. Fold(it, 0)
    BY <2>1 DEF Step
  <2>. QED
    BY <2>2
<1>2. ASSUME NEW n \in Nat, n \in S PROVE n + 1 \in S
  <2>1. PICK it : Fold(it, n)
    BY <1>2
  <2>. DEFINE longer == [s \in SUBSET (1..(n + 1)) |->
                 IF n + 1 \in s THEN Op(it[s \ {n + 1}], seq[n + 1], e) ELSE it[s]]
  <2>2. ASSUME NEW s \in SUBSET (1..(n + 1))
        PROVE  longer[s] = Step(longer, s, base, seq, e)
    <3>1. CASE n + 1 \in s
      <4>1. Max(s) = n + 1
        BY <3>1, MaxOfPrefix
      <4>2. s \ {n + 1} \in SUBSET (1..n) /\ s \ {n + 1} \in SUBSET (1..(n + 1))
        OBVIOUS
      <4>3. longer[s \ {n + 1}] = it[s \ {n + 1}]
        BY <4>2
      <4>. QED
        BY <3>1, <4>1, <4>3 DEF Step
    <3>2. CASE n + 1 \notin s /\ s # {}
      <4>1. s \in SUBSET (1..n)
        BY <3>2
      <4>2. it[s] = Op(it[s \ {Max(s)}], seq[Max(s)], e)
        BY <2>1, <3>2, <4>1 DEF Step
      <4>3. s \ {Max(s)} \in SUBSET (1..(n + 1)) /\ n + 1 \notin s \ {Max(s)}
        BY <3>2
      <4>4. longer[s \ {Max(s)}] = it[s \ {Max(s)}]
        BY <4>3
      <4>. QED
        BY <3>2, <4>2, <4>4 DEF Step
    <3>3. CASE s = {}
      <4>1. {} \in SUBSET (1..n) /\ it[{}] = base
        BY <2>1 DEF Step
      <4>. QED
        BY <3>3, <4>1 DEF Step
    <3>. QED
      BY <3>1, <3>2, <3>3
  <2>3. longer = [s \in SUBSET (1..(n + 1)) |-> Step(longer, s, base, seq, e)]
    BY <2>2
  <2>. HIDE DEF longer
  <2>. QED
    BY <2>3
<1>. HIDE DEF S
<1>3. \A n \in Nat : n \in S
  BY <1>1, <1>2, SetInduction
<1>. QED
  BY <1>3 DEF S, IsFold

\* The sequence of intermediate results.
AreResults(f, base, seq, e, len) ==
  /\ f[0] = base
  /\ \A n \in 1..len : f[n] = Op(f[n - 1], seq[n], e)

\* The values of a fold at the prefixes are its intermediate results.
THEOREM FoldSteps ==
  ASSUME NEW base, NEW seq, NEW e, NEW len \in Nat, NEW it, IsFold(it, base, seq, e, len)
  PROVE  \E f : AreResults(f, base, seq, e, len) /\ f[len] = it[1..len]
<1>0. \A s \in SUBSET (1..len) : it[s] = Step(it, s, base, seq, e)
  BY DEF IsFold
<1>. DEFINE f == [n \in 0..len |-> it[1..n]]
<1>1. f[0] = base
  <2>1. 1..0 = {} /\ {} \in SUBSET (1..len)
    OBVIOUS
  <2>2. it[1..0] = base
    BY <1>0, <2>1 DEF Step
  <2>. QED
    BY <2>2
<1>2. ASSUME NEW n \in 1..len PROVE f[n] = Op(f[n - 1], seq[n], e)
  <2>1. 1..n \in SUBSET (1..len) /\ 1..n # {} /\ n \in 1..n
    OBVIOUS
  <2>2. Max(1..n) = n
    BY <2>1, MaxOfPrefix
  <2>3. (1..n) \ {n} = 1..(n - 1)
    OBVIOUS
  <2>4. n \in 0..len /\ n - 1 \in 0..len
    OBVIOUS
  <2>5. f[n] = it[1..n] /\ f[n - 1] = it[1..(n - 1)]
    BY <2>4
  <2>6. it[1..n] = Step(it, 1..n, base, seq, e)
    BY <1>0, <2>1
  <2>7. Step(it, 1..n, base, seq, e) = Op(it[1..(n - 1)], seq[n], e)
    <3>. DEFINE S == 1..n
    <3>1. Step(it, S, base, seq, e) = Op(it[S \ {Max(S)}], seq[Max(S)], e)
      <4>. HIDE DEF S
      <4>1. S # {}
        BY <2>1 DEF S
      <4>. QED
        BY <4>1 DEF Step
    <3>2. Max(S) = n /\ S \ {n} = 1..(n - 1)
      BY <2>2, <2>3
    <3>. HIDE DEF S
    <3>3. Step(it, S, base, seq, e) = Op(it[1..(n - 1)], seq[n], e)
      BY <3>1, <3>2
    <3>. QED
      BY <3>3 DEF S
  <2>. QED
    BY <2>5, <2>6, <2>7
<1>3. f[len] = it[1..len]
  OBVIOUS
<1>. QED
  BY <1>1, <1>2, <1>3 DEF AreResults

-----------------------------------------------------------------------------
(***************************************************************************)
(* Functions that are defined by recursion on all numbers.                 *)
(***************************************************************************)
IsRecursive(f, base, e) == f = [k \in Nat |-> IF k = 0 THEN base ELSE Op(f[k - 1], k, e)]

\* What there is of such a function up to a number.
IsUpTo(h, base, e, m) == h = [k \in 0..m |-> IF k = 0 THEN base ELSE Op(h[k - 1], k, e)]

LEMMA UpToExists ==
  ASSUME NEW base, NEW e, NEW len \in Nat
  PROVE  \E h : IsUpTo(h, base, e, len)
<1>. DEFINE S == {m \in Nat : \E h : IsUpTo(h, base, e, m)}
<1>1. 0 \in S
  <2>. DEFINE h == [k \in 0..0 |-> base]
  <2>1. h = [k \in 0..0 |-> IF k = 0 THEN base ELSE Op(h[k - 1], k, e)]
    OBVIOUS
  <2>2. IsUpTo(h, base, e, 0)
    BY <2>1 DEF IsUpTo
  <2>. QED
    BY <2>2
<1>2. ASSUME NEW m \in Nat, m \in S PROVE m + 1 \in S
  <2>1. PICK h : IsUpTo(h, base, e, m)
    BY <1>2
  <2>. DEFINE g == [k \in 0..(m + 1) |-> IF k = m + 1 THEN Op(h[m], m + 1, e) ELSE h[k]]
  <2>2. ASSUME NEW k \in 0..(m + 1)
        PROVE  g[k] = IF k = 0 THEN base ELSE Op(g[k - 1], k, e)
    <3>1. CASE k = m + 1
      <4>1. k # 0 /\ k - 1 = m /\ m \in 0..(m + 1) /\ m # m + 1
        BY <3>1
      <4>2. g[k - 1] = h[m]
        BY <4>1
      <4>. QED
        BY <3>1, <4>1, <4>2
    <3>2. CASE k # m + 1
      <4>1. k \in 0..m /\ g[k] = h[k]
        BY <3>2
      <4>2. h[k] = IF k = 0 THEN base ELSE Op(h[k - 1], k, e)
        BY <2>1, <4>1 DEF IsUpTo
      <4>3. k # 0 => g[k - 1] = h[k - 1]
        BY <4>1
      <4>. QED
        BY <4>1, <4>2, <4>3
    <3>. QED
      BY <3>1, <3>2
  <2>3. g = [k \in 0..(m + 1) |-> g[k]]
    OBVIOUS
  <2>. HIDE DEF g
  <2>4. IsUpTo(g, base, e, m + 1)
    BY <2>2, <2>3 DEF IsUpTo
  <2>. QED
    BY <2>4
<1>. HIDE DEF S
<1>3. len \in S
  BY <1>1, <1>2, SetInduction
<1>. QED
  BY <1>3 DEF S

\* There is one.
THEOREM RecursionExists ==
  ASSUME NEW base, NEW e
  PROVE  \E f : IsRecursive(f, base, e)
<1>. DEFINE part(m) == CHOOSE h : IsUpTo(h, base, e, m)
            f == [m \in Nat |-> part(m)[m]]
<1>1. ASSUME NEW m \in Nat PROVE IsUpTo(part(m), base, e, m)
  BY UpToExists
<1>. HIDE DEF part
<1>2. ASSUME NEW m \in Nat, NEW k \in 0..m
      PROVE  part(m)[k] = IF k = 0 THEN base ELSE Op(part(m)[k - 1], k, e)
  BY <1>1 DEF IsUpTo
<1>3. ASSUME NEW m \in Nat, m # 0 PROVE part(m)[m - 1] = part(m - 1)[m - 1]
  <2>. DEFINE n == m - 1
              S == {k \in 0..n : part(m)[k] = part(n)[k]}
  <2>1. n \in Nat /\ 0 \in 0..n /\ 0 \in 0..m
    BY <1>3
  <2>2. 0 \in S
    BY <1>2, <2>1
  <2>3. ASSUME NEW k \in 1..n, k - 1 \in S PROVE k \in S
    <3>1. k \in 0..n /\ k \in 0..m /\ k # 0
      BY <1>3
    <3>. HIDE DEF n
    <3>2. part(m)[k] = Op(part(m)[k - 1], k, e) /\ part(n)[k] = Op(part(n)[k - 1], k, e)
      BY <1>2, <2>1, <3>1
    <3>. QED
      BY <2>3, <3>1, <3>2
  <2>. HIDE DEF S
  <2>4. \A k \in 0..n : k \in S
    <3>. HIDE DEF n
    <3>. QED
      BY <2>1, <2>2, <2>3, UpTo
  <2>5. n \in S
    BY <2>1, <2>4
  <2>. QED
    BY <2>5 DEF S
<1>4. ASSUME NEW k \in Nat PROVE f[k] = IF k = 0 THEN base ELSE Op(f[k - 1], k, e)
  <2>1. k \in 0..k /\ f[k] = part(k)[k]
    OBVIOUS
  <2>2. CASE k = 0
    BY <1>2, <2>1, <2>2
  <2>3. CASE k # 0
    <3>1. k - 1 \in Nat
      BY <2>3
    <3>2. f[k - 1] = part(k - 1)[k - 1]
      BY <3>1
    <3>3. f[k - 1] = part(k)[k - 1]
      BY <1>3, <2>3, <3>2
    <3>4. part(k)[k] = Op(part(k)[k - 1], k, e)
      BY <1>2, <2>1, <2>3
    <3>. QED
      BY <2>1, <2>3, <3>3, <3>4
  <2>. QED
    BY <2>2, <2>3
<1>5. f = [k \in Nat |-> f[k]]
  OBVIOUS
<1>. HIDE DEF f
<1>6. IsRecursive(f, base, e)
  BY <1>4, <1>5 DEF IsRecursive
<1>. QED
  BY <1>6

-----------------------------------------------------------------------------
(***************************************************************************)
(* Sums of a function over a finite set, which the community modules take  *)
(* in an order nobody knows: whichever element is added last, the sum is   *)
(* the same.                                                               *)
(***************************************************************************)
First(s) == CHOOSE x \in s : TRUE

SumStep(it, g, s) == IF s = {} THEN 0 ELSE g[First(s)] + it[s \ {First(s)}]

IsSum(it, g, S) == it = [s \in SUBSET S |-> SumStep(it, g, s)]

\* A set without its first element.
LEMMA WithoutFirst ==
  ASSUME NEW S, IsFiniteSet(S), NEW s \in SUBSET S, s # {}
  PROVE  /\ First(s) \in s /\ s \ {First(s)} \in SUBSET S
         /\ IsFiniteSet(s) /\ Cardinality(s) \in Nat /\ Cardinality(s) > 0
         /\ Cardinality(s \ {First(s)}) = Cardinality(s) - 1
<1>1. First(s) \in s
  BY DEF First
<1>2. IsFiniteSet(s) /\ Cardinality(s) \in Nat
  BY FS_Subset, FS_CardinalityType
<1>3. Cardinality(s) # 0
  BY <1>2, FS_EmptySet
<1>4. Cardinality(s \ {First(s)}) = Cardinality(s) - 1
  BY <1>1, <1>2, FS_RemoveElement
<1>. QED
  BY <1>1, <1>2, <1>3, <1>4

LEMMA NoElement ==
  ASSUME NEW S, IsFiniteSet(S), NEW s \in SUBSET S, Cardinality(s) <= 0
  PROVE  s = {}
<1>1. IsFiniteSet(s) /\ Cardinality(s) \in Nat
  BY FS_Subset, FS_CardinalityType
<1>2. Cardinality(s) = 0
  BY <1>1
<1>. QED
  BY <1>1, <1>2, FS_EmptySet

LEMMA SumExists ==
  ASSUME NEW g, NEW S, IsFiniteSet(S)
  PROVE  \E it : IsSum(it, g, S)
<1>. DEFINE Upto(it, n) == \A s \in SUBSET S : Cardinality(s) <= n => it[s] = SumStep(it, g, s)
            N == {n \in Nat : \E it : Upto(it, n)}
<1>1. 0 \in N
  <2>. DEFINE it == [s \in SUBSET S |-> 0]
  <2>1. ASSUME NEW s \in SUBSET S, Cardinality(s) <= 0 PROVE it[s] = SumStep(it, g, s)
    <3>1. s = {}
      BY <2>1, NoElement
    <3>. QED
      BY <3>1 DEF SumStep
  <2>. QED
    BY <2>1
<1>2. ASSUME NEW n \in Nat, n \in N PROVE n + 1 \in N
  <2>1. PICK it : Upto(it, n)
    BY <1>2
  <2>. DEFINE jt == [s \in SUBSET S |-> SumStep(it, g, s)]
  <2>2. ASSUME NEW s \in SUBSET S, Cardinality(s) <= n + 1 PROVE jt[s] = SumStep(jt, g, s)
    <3>1. CASE s = {}
      BY <3>1 DEF SumStep
    <3>2. CASE s # {}
      <4>. DEFINE r == s \ {First(s)}
      <4>1. r \in SUBSET S /\ Cardinality(r) <= n
        BY <2>2, <3>2, WithoutFirst
      <4>. HIDE DEF r
      <4>2. it[r] = jt[r]
        BY <2>1, <4>1
      <4>3. jt[s] = SumStep(it, g, s)
        OBVIOUS
      <4>. HIDE DEF jt
      <4>. QED
        BY <3>2, <4>2, <4>3 DEF SumStep, r
    <3>. QED
      BY <3>1, <3>2
  <2>. HIDE DEF jt
  <2>. QED
    BY <2>2
<1>. HIDE DEF N
<1>3. Cardinality(S) \in N
  BY <1>1, <1>2, SetInduction, FS_CardinalityType
<1>4. PICK it : Upto(it, Cardinality(S))
  BY <1>3 DEF N
<1>5. ASSUME NEW s \in SUBSET S PROVE it[s] = SumStep(it, g, s)
  <2>1. Cardinality(s) <= Cardinality(S)
    BY FS_Subset
  <2>. QED
    BY <1>4, <2>1
<1>. DEFINE jt == [s \in SUBSET S |-> it[s]]
<1>6. ASSUME NEW s \in SUBSET S PROVE jt[s] = SumStep(jt, g, s)
  <2>1. jt[s] = SumStep(it, g, s)
    BY <1>5
  <2>2. s # {} => s \ {First(s)} \in SUBSET S
    OBVIOUS
  <2>. QED
    BY <2>1, <2>2 DEF SumStep
<1>7. jt = [s \in SUBSET S |-> SumStep(jt, g, s)]
  BY <1>6
<1>. HIDE DEF jt
<1>. QED
  BY <1>7 DEF IsSum

\* It is a sum: a number, and any element may be the one that is added last.
LEMMA SumIsSum ==
  ASSUME NEW it, NEW g, NEW S, IsFiniteSet(S), IsSum(it, g, S), \A x \in S : g[x] \in Nat
  PROVE  \A s \in SUBSET S : it[s] \in Nat /\ \A y \in s : it[s] = g[y] + it[s \ {y}]
<1>. DEFINE Good(s) == it[s] \in Nat /\ \A y \in s : it[s] = g[y] + it[s \ {y}]
            N == {n \in Nat : \A s \in SUBSET S : Cardinality(s) <= n => Good(s)}
<1>0. \A s \in SUBSET S : it[s] = SumStep(it, g, s)
  BY DEF IsSum
<1>1. 0 \in N
  <2>1. ASSUME NEW s \in SUBSET S, Cardinality(s) <= 0 PROVE Good(s)
    <3>1. s = {}
      BY <2>1, NoElement
    <3>. QED
      BY <1>0, <3>1 DEF SumStep
  <2>. QED
    BY <2>1
<1>2. ASSUME NEW n \in Nat, n \in N PROVE n + 1 \in N
  <2>1. ASSUME NEW s \in SUBSET S, Cardinality(s) <= n + 1, s # {} PROVE Good(s)
    <3>. DEFINE x == First(s)
                r == s \ {x}
    <3>1. x \in s /\ r \in SUBSET S /\ Cardinality(r) <= n /\ IsFiniteSet(s) /\ Cardinality(s) \in Nat
      BY <2>1, WithoutFirst
    <3>2. it[s] = g[x] + it[r]
      BY <1>0, <2>1 DEF SumStep
    <3>. HIDE DEF x, r
    <3>3. it[r] \in Nat /\ \A y \in r : it[r] = g[y] + it[r \ {y}]
      BY <1>2, <3>1
    <3>4. ASSUME NEW y \in s PROVE it[s] = g[y] + it[s \ {y}]
      <4>1. CASE y = x
        BY <3>2, <4>1 DEF r
      <4>2. CASE y # x
        <5>. DEFINE q == s \ {y}
                    p == r \ {y}
        <5>1. y \in r /\ x \in q /\ q \in SUBSET S /\ p \in SUBSET S /\ q \ {x} = p
          BY <3>1, <4>2 DEF r
        <5>2. Cardinality(q) <= n /\ Cardinality(p) <= n
          <6>1. Cardinality(q) = Cardinality(s) - 1
            BY <3>1, FS_RemoveElement
          <6>2. IsFiniteSet(q) /\ p \subseteq q
            BY <3>1, FS_Subset DEF r
          <6>3. Cardinality(p) <= Cardinality(q) /\ Cardinality(p) \in Nat /\ Cardinality(q) \in Nat
            BY <6>2, FS_Subset, FS_CardinalityType
          <6>. QED
            BY <2>1, <3>1, <6>1, <6>3
        <5>3. it[q] = g[x] + it[p]
          <6>1. it[q] = g[x] + it[q \ {x}]
            BY <1>2, <5>1, <5>2
          <6>. HIDE DEF p, q
          <6>. QED
            BY <5>1, <6>1
        <5>4. it[r] = g[y] + it[p]
          BY <3>3, <5>1
        <5>5. it[p] \in Nat /\ g[x] \in Nat /\ g[y] \in Nat
          BY <1>2, <3>1, <5>1, <5>2
        <5>. HIDE DEF p, q
        <5>6. it[s] = g[y] + it[q]
          BY <3>2, <5>3, <5>4, <5>5
        <5>. QED
          BY <5>6 DEF q
      <4>. QED
        BY <4>1, <4>2
    <3>5. g[x] \in Nat
      BY <3>1
    <3>. QED
      BY <3>2, <3>3, <3>4, <3>5
  <2>2. ASSUME NEW s \in SUBSET S, s = {} PROVE Good(s)
    BY <1>0, <2>2 DEF SumStep
  <2>. QED
    BY <2>1, <2>2
<1>. HIDE DEF N
<1>3. Cardinality(S) \in N
  BY <1>1, <1>2, SetInduction, FS_CardinalityType
<1>4. \A s \in SUBSET S : Cardinality(s) <= Cardinality(S)
  BY FS_Subset
<1>. QED
  BY <1>3, <1>4 DEF N

\* Functions that agree have the same sums.
LEMMA SumsAgree ==
  ASSUME NEW it, NEW jt, NEW g, NEW h, NEW S, NEW T, IsFiniteSet(T), S \subseteq T,
         IsSum(it, g, S), IsSum(jt, h, T), \A x \in S : g[x] = h[x]
  PROVE  \A s \in SUBSET S : it[s] = jt[s]
<1>. DEFINE N == {n \in Nat : \A s \in SUBSET S : Cardinality(s) <= n => it[s] = jt[s]}
<1>0. /\ \A s \in SUBSET S : it[s] = SumStep(it, g, s) /\ jt[s] = SumStep(jt, h, s)
      /\ IsFiniteSet(S)
  BY FS_Subset DEF IsSum
<1>1. 0 \in N
  <2>1. ASSUME NEW s \in SUBSET S, Cardinality(s) <= 0 PROVE it[s] = jt[s]
    <3>1. s = {}
      BY <1>0, <2>1, NoElement
    <3>. QED
      BY <1>0, <3>1 DEF SumStep
  <2>. QED
    BY <2>1
<1>2. ASSUME NEW n \in Nat, n \in N PROVE n + 1 \in N
  <2>1. ASSUME NEW s \in SUBSET S, Cardinality(s) <= n + 1, s # {} PROVE it[s] = jt[s]
    <3>. DEFINE x == First(s)
                r == s \ {x}
    <3>1. x \in s /\ r \in SUBSET S /\ Cardinality(r) <= n
      BY <1>0, <2>1, WithoutFirst
    <3>2. it[s] = g[x] + it[r] /\ jt[s] = h[x] + jt[r]
      BY <1>0, <2>1 DEF SumStep
    <3>. HIDE DEF x, r
    <3>3. it[r] = jt[r] /\ g[x] = h[x]
      BY <1>2, <3>1
    <3>. QED
      BY <3>2, <3>3
  <2>2. ASSUME NEW s \in SUBSET S, s = {} PROVE it[s] = jt[s]
    BY <1>0, <2>2 DEF SumStep
  <2>. QED
    BY <2>1, <2>2
<1>. HIDE DEF N
<1>3. Cardinality(S) \in N
  BY <1>0, <1>1, <1>2, SetInduction, FS_CardinalityType
<1>4. \A s \in SUBSET S : Cardinality(s) <= Cardinality(S)
  BY <1>0, FS_Subset
<1>. QED
  BY <1>3, <1>4 DEF N

LEMMA SumIs ==
  ASSUME NEW g, NEW S, IsFiniteSet(S)
  PROVE  \E it : IsSum(it, g, S) /\ SumFunctionOnSet(g, S) = it[S]
<1>. DEFINE it == CHOOSE it : IsSum(it, g, S)
<1>1. IsSum(it, g, S)
  BY SumExists
<1>2. SumFunctionOnSet(g, S) = it[S]
  BY DEF SumFunctionOnSet, FoldFunctionOnSet, MapThenFoldSet, IsSum, SumStep, First
<1>. QED
  BY <1>1, <1>2

THEOREM SumOfNone ==
  ASSUME NEW g
  PROVE  SumFunctionOnSet(g, {}) = 0
<1>1. PICK it : IsSum(it, g, {}) /\ SumFunctionOnSet(g, {}) = it[{}]
  BY SumIs, FS_EmptySet
<1>. QED
  BY <1>1 DEF IsSum, SumStep

\* Functions that agree on a set.
Agree(g, h, S) == \A x \in S : h[x] \in Nat /\ g[x] = h[x]

\* One element more.
THEOREM SumOfMore ==
  ASSUME NEW g, NEW h, NEW S, IsFiniteSet(S), NEW y, y \notin S, NEW T, T = S \union {y},
         g[y] \in Nat, Agree(g, h, S)
  PROVE  /\ SumFunctionOnSet(h, S) \in Nat
         /\ SumFunctionOnSet(g, T) = SumFunctionOnSet(h, S) + g[y]
<1>1. IsFiniteSet(T) /\ S \subseteq T /\ T \ {y} = S /\ y \in T
  BY FS_AddElement
<1>2. \A x \in T : g[x] \in Nat
  BY DEF Agree
<1>3. PICK it : IsSum(it, g, T) /\ SumFunctionOnSet(g, T) = it[T]
  BY <1>1, SumIs
<1>4. PICK jt : IsSum(jt, h, S) /\ SumFunctionOnSet(h, S) = jt[S]
  BY SumIs
<1>5. \A s \in SUBSET T : it[s] \in Nat /\ \A z \in s : it[s] = g[z] + it[s \ {z}]
  <2>1. IsSum(it, g, T)
    BY <1>3
  <2>. QED
    BY ONLY <1>1, <1>2, <2>1, SumIsSum
<1>6. \A s \in SUBSET S : jt[s] = it[s]
  <2>1. \A x \in S : h[x] = g[x]
    BY DEF Agree
  <2>. QED
    BY <1>1, <1>3, <1>4, <2>1, SumsAgree
<1>7. it[T] = g[y] + it[S] /\ jt[S] = it[S] /\ it[S] \in Nat
  BY <1>1, <1>5, <1>6
<1>. QED
  BY <1>3, <1>4, <1>7
=============================================================================
