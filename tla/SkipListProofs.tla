---------------------------- MODULE SkipListProofs ----------------------------
(***************************************************************************)
(* Proofs about SkipList, for all members and scores, and lanes of any     *)
(* height: the pointers and spans that insert and remove leave behind are  *)
(* exact, and get_range returns what counting in the sorted members does.  *)
(*                                                                         *)
(* The invariant says that there are an order of the members and heights   *)
(* for the nodes from which every pointer and every span follows.  A walk  *)
(* down the lanes then leaves each of them at the last node up to a place, *)
(* and an insertion widens the lanes there by one place, a removal narrows *)
(* them by one.                                                            *)
(***************************************************************************)
EXTENDS SkipList, FiniteSetTheorems, SequenceTheorems, TLAPS

\* Nothing is folded here: FoldTheorems is taken for its facts about sets of
\* numbers, which do not depend on its operator.
Unfolded(t, n, e) == t

Counting == INSTANCE FoldTheorems WITH Op <- Unfolded

\* f tells for every c where a walk ends that goes on with next[c] from the
\* elements of go.
IsWalk(f, C, next, go) == f = [c \in C |-> IF c \in go THEN f[next[c]] ELSE c]

\* There is such an f if every step comes closer to the end.
LEMMA WalkExists ==
  ASSUME NEW n \in Nat, NEW C, NEW next, NEW go, NEW left \in [C -> 0..n],
         \A c \in C : c \in go => next[c] \in C /\ left[next[c]] < left[c]
  PROVE  \E f : IsWalk(f, C, next, go)
<1>. DEFINE Near(m) == {c \in C : left[c] < m}
            S == {m \in Nat : \E f : IsWalk(f, Near(m), next, go)}
<1>1. 0 \in S
  <2>1. Near(0) = {}
    OBVIOUS
  <2>. DEFINE f == [c \in {} |-> c]
  <2>2. f = [c \in {} |-> IF c \in go THEN f[next[c]] ELSE c]
    OBVIOUS
  <2>3. IsWalk(f, Near(0), next, go)
    BY <2>1, <2>2 DEF IsWalk
  <2>. QED
    BY <2>3
<1>2. ASSUME NEW m \in Nat, m \in S PROVE m + 1 \in S
  <2>1. PICK f : IsWalk(f, Near(m), next, go)
    BY <1>2
  <2>. DEFINE g == [c \in Near(m + 1) |-> IF c \in go THEN f[next[c]] ELSE c]
  <2>2. ASSUME NEW c \in Near(m + 1), c \in go PROVE next[c] \in Near(m) /\ g[next[c]] = f[next[c]]
    <3>1. next[c] \in C /\ left[next[c]] < left[c] /\ left[c] < m + 1
      BY <2>2
    <3>2. left[next[c]] \in Nat /\ left[c] \in Nat
      BY <3>1
    <3>3. next[c] \in Near(m) /\ next[c] \in Near(m + 1)
      BY <3>1, <3>2
    <3>. DEFINE d == next[c]
    <3>4. g[d] = IF d \in go THEN f[next[d]] ELSE d
      BY <3>3
    <3>5. f[d] = IF d \in go THEN f[next[d]] ELSE d
      BY <2>1, <3>3 DEF IsWalk
    <3>. QED
      BY <3>3, <3>4, <3>5
  <2>3. g = [c \in Near(m + 1) |-> IF c \in go THEN g[next[c]] ELSE c]
    <3>1. \A c \in Near(m + 1) :
             (IF c \in go THEN f[next[c]] ELSE c) = (IF c \in go THEN g[next[c]] ELSE c)
      BY <2>2
    <3>2. g = [c \in Near(m + 1) |-> g[c]]
      OBVIOUS
    <3>3. \A c \in Near(m + 1) : g[c] = IF c \in go THEN g[next[c]] ELSE c
      BY <3>1
    <3>. HIDE DEF g, Near
    <3>. QED
      BY <3>2, <3>3
  <2>. HIDE DEF g, Near
  <2>4. IsWalk(g, Near(m + 1), next, go)
    BY <2>3 DEF IsWalk
  <2>. QED
    BY <2>4
<1>. HIDE DEF S
<1>3. n + 1 \in S
  BY <1>1, <1>2, Counting!SetInduction
<1>4. Near(n + 1) = C
  OBVIOUS
<1>. QED
  BY <1>3, <1>4 DEF S

-----------------------------------------------------------------------------
(***************************************************************************)
(* What a list is that is exact: an order of the members, heights of the   *)
(* nodes, and the pointers and spans that follow from them.                *)
(***************************************************************************)

\* The members in their order: one sequence of them, without repetition.
Ordered(score, n, order) ==
  /\ n \in Nat /\ order \in [1..n -> Members]
  /\ DOMAIN score = {order[k] : k \in 1..n}
  /\ \A m \in DOMAIN score : score[m] \in Int
  /\ \A j, k \in 1..n : j < k => Less(score[order[j]], order[j], score[order[k]], order[k])

\* The node at a place, where the head is at 0 and the end behind the last one.
Node(order, k) == IF k = 0 THEN HeadNode ELSE order[k]
NodeOrEnd(order, n, k) == IF k = n + 1 THEN End ELSE order[k]

\* Nodes are as high as h says.
Tall(list, n, order, h) ==
  /\ h \in [0..n -> 1..MaxHeight] /\ h[0] = MaxHeight
  /\ DOMAIN list.forward = {Node(order, k) : k \in 0..n}
  /\ DOMAIN list.span = DOMAIN list.forward
  /\ \A k \in 0..n : /\ DOMAIN list.forward[Node(order, k)] = 1..h[k]
                     /\ DOMAIN list.span[Node(order, k)] = 1..h[k]
  /\ list.level \in 1..MaxHeight
  /\ \A k \in 1..n : h[k] <= list.level

\* From place k, place m is the next one on lane i.
IsNext(h, n, k, i, m) ==
  /\ m \in (k + 1)..(n + 1) /\ (m <= n => h[m] >= i)
  /\ \A j \in (k + 1)..(m - 1) : h[j] < i

\* Up to place p, place q is the last one on lane i.
IsLast(h, p, i, q) ==
  /\ q \in 0..p /\ h[q] >= i
  /\ \A j \in (q + 1)..p : h[j] < i

\* How many nodes there are from one place to the next, or to the end.
Far(n, k, m) == (IF m = n + 1 THEN n ELSE m) - k

\* Pointers and spans are exact.
Linked(list, n, order, h) ==
  \A k \in 0..n : \A i \in 1..h[k] : \A m \in (k + 1)..(n + 1) :
    IsNext(h, n, k, i, m) =>
      /\ list.forward[Node(order, k)][i] = NodeOrEnd(order, n, m)
      /\ i <= list.level => list.span[Node(order, k)][i] = Far(n, k, m)

\* A list that is made up of n members in this order, at these heights.
Built(list, n, order, h) ==
  Ordered(list.score, n, order) /\ Tall(list, n, order, h) /\ Linked(list, n, order, h)

\* What the constants are.
LEMMA MembersAre ==
  \A m \in Members : m \in Nat /\ m \in Int /\ m # HeadNode /\ m # End
BY SkipListAssumption DEF HeadNode, End

\* Every list has a lowest lane.
LEMMA MaxHeightIs == MaxHeight \in Nat /\ MaxHeight >= 1
BY SkipListAssumption

\* The bounds of all heights.
LEMMA HeightsAre ==
  ASSUME NEW list, NEW n, NEW order, NEW h, Built(list, n, order, h)
  PROVE  /\ n \in Nat /\ h \in [0..n -> Nat] /\ MaxHeight \in Nat /\ MaxHeight >= 1
         /\ \A k \in 0..n : h[k] \in 1..MaxHeight
         /\ h[0] = MaxHeight /\ list.level \in 1..MaxHeight /\ list.level \in Nat
         /\ \A k \in 1..n : h[k] <= list.level
         /\ Ordered(list.score, n, order)
<1>1. Ordered(list.score, n, order) /\ Tall(list, n, order, h)
  BY DEF Built
<1>2. /\ h \in [0..n -> 1..MaxHeight] /\ h[0] = MaxHeight
      /\ list.level \in 1..MaxHeight
      /\ \A k \in 1..n : h[k] <= list.level
  BY <1>1 DEF Tall
<1>3. n \in Nat
  BY <1>1 DEF Ordered
<1>4. \A x \in 1..MaxHeight : x \in Nat
  BY MaxHeightIs
<1>5. h \in [0..n -> Nat]
  BY <1>2, <1>4
<1>. QED
  BY <1>1, <1>2, <1>3, <1>4, <1>5, MaxHeightIs

\* No node is in two places.
LEMMA PlaceIs ==
  ASSUME NEW score, NEW n, NEW order, Ordered(score, n, order)
  PROVE  /\ \A j, k \in 1..n : order[j] = order[k] => j = k
         /\ \A j, k \in 0..n : Node(order, j) = Node(order, k) => j = k
         /\ \A k \in 0..n : Node(order, k) # End
         /\ \A k \in 1..n : Node(order, k) = order[k] /\ order[k] # HeadNode /\ order[k] # End
<1>1. /\ n \in Nat /\ order \in [1..n -> Members]
      /\ \A k \in 1..n : order[k] \in DOMAIN score /\ score[order[k]] \in Int
      /\ \A j, k \in 1..n : j < k => Less(score[order[j]], order[j], score[order[k]], order[k])
  BY DEF Ordered
<1>2. \A k \in 1..n : order[k] \in Nat /\ order[k] # HeadNode /\ order[k] # End
  <2>1. \A k \in 1..n : order[k] \in Members
    BY <1>1
  <2>. QED
    BY <2>1, MembersAre
<1>3. ASSUME NEW j \in 1..n, NEW k \in 1..n, order[j] = order[k] PROVE j = k
  <2>1. ASSUME NEW a \in 1..n, NEW b \in 1..n, order[a] = order[b] PROVE ~(a < b)
    <3>1. ASSUME a < b PROVE FALSE
      <4>1. Less(score[order[a]], order[a], score[order[a]], order[a])
        BY <1>1, <2>1, <3>1
      <4>. DEFINE m == order[a]
                  s == score[order[a]]
      <4>2. m \in Nat /\ s \in Int /\ Less(s, m, s, m)
        BY <1>1, <1>2, <4>1
      <4>. HIDE DEF m, s
      <4>. QED
        BY <4>2 DEF Less
    <3>. QED
      BY <3>1
  <2>2. ~(j < k) /\ ~(k < j)
    BY <1>3, <2>1
  <2>. QED
    BY <1>1, <2>2
<1>4. ASSUME NEW k \in 1..n
      PROVE Node(order, k) = order[k] /\ order[k] # HeadNode /\ order[k] # End
  BY <1>2 DEF Node, HeadNode
<1>5. Node(order, 0) = HeadNode /\ HeadNode # End
  BY DEF Node, HeadNode, End
<1>6. \A k \in 0..n : k = 0 \/ k \in 1..n
  BY <1>1
<1>7. ASSUME NEW j \in 0..n, NEW k \in 0..n, Node(order, j) = Node(order, k) PROVE j = k
  <2>1. (j = 0 \/ j \in 1..n) /\ (k = 0 \/ k \in 1..n)
    BY <1>6
  <2>. QED
    BY <1>3, <1>4, <1>5, <1>7, <2>1
<1>8. \A k \in 0..n : Node(order, k) # End
  BY <1>4, <1>5, <1>6
<1>. QED
  BY <1>3, <1>4, <1>7, <1>8

\* There is a next place, and only one.
LEMMA NextExists ==
  ASSUME NEW n \in Nat, NEW h \in [0..n -> Nat], NEW k \in 0..n, NEW i \in Nat
  PROVE  \E m \in (k + 1)..(n + 1) : IsNext(h, n, k, i, m)
<1>. DEFINE S == {m \in (k + 1)..(n + 1) : m <= n => h[m] >= i}
<1>1. n + 1 \in S
  OBVIOUS
<1>2. S \in SUBSET Nat /\ S # {}
  <2>1. \A m \in S : m \in Nat
    OBVIOUS
  <2>. HIDE DEF S
  <2>. QED
    BY <1>1, <2>1
<1>3. PICK m \in S : \A j \in S : m <= j
  <2>. HIDE DEF S
  <2>. QED
    BY <1>2, Counting!LeastNumber
<1>4. m \in (k + 1)..(n + 1) /\ (m <= n => h[m] >= i) /\ m \in Nat
  OBVIOUS
<1>5. ASSUME NEW j \in (k + 1)..(m - 1) PROVE h[j] < i
  <2>1. j \in (k + 1)..(n + 1) /\ j <= n /\ j < m /\ j \in 0..n
    BY <1>4
  <2>2. j \notin S
    BY <1>3, <2>1
  <2>3. ~(h[j] >= i) /\ h[j] \in Nat
    BY <2>1, <2>2
  <2>. QED
    BY <2>3
<1>. QED
  BY <1>4, <1>5 DEF IsNext

\* There is a last place, because the head is on every lane.
LEMMA LastExists ==
  ASSUME NEW p \in Nat, NEW n \in Nat, p <= n, NEW h \in [0..n -> Nat], NEW i \in Nat, h[0] >= i
  PROVE  \E q \in 0..p : IsLast(h, p, i, q)
<1>. DEFINE S == {d \in 0..p : h[p - d] >= i}
<1>1. p \in S
  <2>1. p - p = 0
    OBVIOUS
  <2>. QED
    BY <2>1
<1>2. S \in SUBSET Nat /\ S # {}
  <2>1. \A m \in S : m \in Nat
    OBVIOUS
  <2>. HIDE DEF S
  <2>. QED
    BY <1>1, <2>1
<1>3. PICK d \in S : \A e \in S : d <= e
  <2>. HIDE DEF S
  <2>. QED
    BY <1>2, Counting!LeastNumber
<1>. DEFINE q == p - d
<1>4. q \in 0..p /\ h[q] >= i
  OBVIOUS
<1>5. ASSUME NEW j \in (q + 1)..p PROVE h[j] < i
  <2>1. p - j \in 0..p /\ p - j < d /\ p - (p - j) = j /\ j \in 0..n
    BY <1>4
  <2>2. p - j \notin S
    BY <1>3, <2>1
  <2>3. ~(h[j] >= i) /\ h[j] \in Nat
    BY <2>1, <2>2
  <2>. QED
    BY <2>3
<1>. HIDE DEF q
<1>. QED
  BY <1>4, <1>5 DEF IsLast

-----------------------------------------------------------------------------
(***************************************************************************)
(* A walk along one lane.                                                  *)
(***************************************************************************)

\* What a step along a lane comes to.
Cursor(order, k) == [update |-> Node(order, k), rank |-> k]

\* Of the nodes, those up to place p are ahead of whoever walks.
Splits(list, n, order, ahead, p) ==
  /\ p \in 0..n /\ ahead \subseteq Cursors(list)
  /\ \A k \in 1..n : Cursor(order, k) \in ahead <=> k <= p

\* The step from a place that is on lane i.
LEMMA StepIs ==
  ASSUME NEW list, NEW n, NEW order, NEW h, Built(list, n, order, h),
         NEW k \in 0..n, NEW i \in 1..h[k], i <= list.level,
         NEW m \in (k + 1)..(n + 1), IsNext(h, n, k, i, m), NEW rank \in Nat,
         NEW at, at = [update |-> Node(order, k), rank |-> rank]
  PROVE  Step(list, i, at) = [update |-> NodeOrEnd(order, n, m), rank |-> rank + Far(n, k, m)]
<1>1. /\ list.forward[Node(order, k)][i] = NodeOrEnd(order, n, m)
      /\ list.span[Node(order, k)][i] = Far(n, k, m)
  BY DEF Built, Linked
<1>2. at.update = Node(order, k) /\ at.rank = rank
  OBVIOUS
<1>. QED
  BY <1>1, <1>2 DEF Step

\* A walk along a lane in use is defined, because it comes closer to the end.
IsAlong(f, list, i, ahead) ==
  f = [at \in [update : Lane(list, i), rank : Nat] |->
        IF Step(list, i, at) \in ahead THEN f[Step(list, i, at)] ELSE at]

\* A walk along a lane comes to an end: each step leads to a later place.
LEMMA AlongExists ==
  ASSUME NEW list, NEW n, NEW order, NEW h, Built(list, n, order, h),
         NEW i \in 1..list.level, NEW ahead, ahead \subseteq Cursors(list)
  PROVE  \E f : IsAlong(f, list, i, ahead)
<1>. DEFINE C == [update : Lane(list, i), rank : Nat]
            next == [at \in C |-> Step(list, i, at)]
            go == {at \in C : Step(list, i, at) \in ahead}
            place(x) == CHOOSE k \in 0..n : Node(order, k) = x
            left == [at \in C |-> n - place(at.update)]
<1>1. /\ n \in Nat /\ h \in [0..n -> 1..MaxHeight] /\ MaxHeight \in Nat
      /\ DOMAIN list.forward = {Node(order, k) : k \in 0..n}
      /\ \A k \in 0..n : DOMAIN list.forward[Node(order, k)] = 1..h[k]
      /\ Ordered(list.score, n, order) /\ i \in Nat
  <2>1. n \in Nat /\ MaxHeight \in Nat /\ Ordered(list.score, n, order) /\ list.level \in Nat
    BY HeightsAre
  <2>2. /\ DOMAIN list.forward = {Node(order, k) : k \in 0..n}
        /\ \A k \in 0..n : DOMAIN list.forward[Node(order, k)] = 1..h[k]
        /\ h \in [0..n -> 1..MaxHeight]
    BY DEF Built, Tall
  <2>3. i \in Nat
    BY <2>1
  <2>. QED
    BY <2>1, <2>2, <2>3
<1>2. ASSUME NEW k \in 0..n PROVE place(Node(order, k)) = k
  BY <1>1, PlaceIs
<1>. HIDE DEF place
<1>3. ASSUME NEW at \in C
      PROVE  \E k \in 0..n : /\ at.update = Node(order, k) /\ i \in 1..h[k] /\ at.rank \in Nat
                             /\ place(at.update) = k
                             /\ at = [update |-> Node(order, k), rank |-> at.rank]
  <2>1. /\ at.update \in DOMAIN list.forward /\ i \in DOMAIN list.forward[at.update]
        /\ at.rank \in Nat /\ at = [update |-> at.update, rank |-> at.rank]
    BY DEF Lane
  <2>2. PICK k \in 0..n : at.update = Node(order, k)
    BY <1>1, <2>1
  <2>3. i \in 1..h[k] /\ place(at.update) = k
    BY <1>1, <1>2, <2>1, <2>2
  <2>. QED
    BY <2>1, <2>2, <2>3
<1>4. left \in [C -> 0..n]
  <2>1. ASSUME NEW at \in C PROVE n - place(at.update) \in 0..n
    <3>1. PICK k \in 0..n : place(at.update) = k
      BY <1>3
    <3>. QED
      BY <1>1, <3>1
  <2>. HIDE DEF C
  <2>. QED
    BY <2>1
<1>5. ASSUME NEW at \in C, at \in go PROVE next[at] \in C /\ left[next[at]] < left[at]
  <2>1. PICK k \in 0..n : /\ at.update = Node(order, k) /\ i \in 1..h[k] /\ at.rank \in Nat
                          /\ place(at.update) = k
                          /\ at = [update |-> Node(order, k), rank |-> at.rank]
    BY <1>3
  <2>2. h \in [0..n -> Nat]
    BY <1>1
  <2>3. PICK m \in (k + 1)..(n + 1) : IsNext(h, n, k, i, m)
    BY <1>1, <2>2, NextExists
  <2>. DEFINE to == Step(list, i, at)
              rank == at.rank
  <2>4. to = [update |-> NodeOrEnd(order, n, m), rank |-> rank + Far(n, k, m)]
    <3>1. rank \in Nat /\ at = [update |-> Node(order, k), rank |-> rank]
      BY <2>1
    <3>2. i <= list.level
      OBVIOUS
    <3>. HIDE DEF rank
    <3>. QED
      BY <2>1, <2>3, <3>1, <3>2, StepIs
  <2>5. to \in Cursors(list) /\ next[at] = to
    BY <1>5
  <2>6. to.update \in DOMAIN list.forward /\ to.rank \in Nat
    BY <2>5 DEF Cursors
  <2>7. to.update = NodeOrEnd(order, n, m)
    BY <2>4
  <2>8. m # n + 1
    <3>1. ASSUME m = n + 1 PROVE FALSE
      <4>1. PICK j \in 0..n : End = Node(order, j)
        BY <1>1, <2>6, <2>7, <3>1 DEF NodeOrEnd
      <4>. QED
        BY <1>1, <4>1, PlaceIs
    <3>. QED
      BY <3>1
  <2>9. m \in 1..n /\ m > k /\ m \in 0..n /\ h[m] >= i
    <3>1. m \in (k + 1)..(n + 1) /\ (m <= n => h[m] >= i)
      BY <2>3 DEF IsNext
    <3>2. m \in 1..n /\ m > k /\ m \in 0..n /\ m <= n
      BY <1>1, <2>8, <3>1
    <3>. QED
      BY <3>1, <3>2
  <2>10. to.update = Node(order, m)
    BY <2>7, <2>8, <2>9 DEF NodeOrEnd, Node
  <2>11. i \in DOMAIN list.forward[to.update] /\ place(to.update) = m
    BY <1>1, <1>2, <2>9, <2>10
  <2>12. to \in C
    <3>1. to = [update |-> to.update, rank |-> to.rank]
      BY <2>4
    <3>2. to.update \in Lane(list, i)
      BY <2>6, <2>11 DEF Lane
    <3>. HIDE DEF to
    <3>. QED
      BY <2>6, <3>1, <3>2
  <2>13. left[to] = n - m /\ left[at] = n - k
    BY <2>1, <2>11, <2>12
  <2>. HIDE DEF to, left, C, next
  <2>. QED
    BY <1>1, <2>5, <2>9, <2>12, <2>13
<1>6. PICK f : IsWalk(f, C, next, go)
  <2>. HIDE DEF C, next, go, left
  <2>. QED
    BY <1>1, <1>4, <1>5, WalkExists
<1>7. f = [at \in C |-> IF Step(list, i, at) \in ahead THEN f[Step(list, i, at)] ELSE at]
  <2>1. f = [at \in C |-> IF at \in go THEN f[next[at]] ELSE at]
    BY <1>6, Zenon DEF IsWalk
  <2>2. \A at \in C : (at \in go <=> Step(list, i, at) \in ahead) /\ next[at] = Step(list, i, at)
    OBVIOUS
  <2>3. \A at \in C : f[at] = IF Step(list, i, at) \in ahead THEN f[Step(list, i, at)] ELSE at
    <3>. HIDE DEF C, next, go
    <3>1. \A at \in C : f[at] = IF at \in go THEN f[next[at]] ELSE at
      BY <2>1
    <3>. QED
      BY <2>2, <3>1
  <2>. HIDE DEF C, next, go
  <2>4. f = [at \in C |-> f[at]]
    BY <2>1
  <2>. QED
    BY <2>3, <2>4
<1>. QED
  BY <1>7 DEF IsAlong

\* Along is such a function, applied.
LEMMA AlongSteps ==
  ASSUME NEW list, NEW n, NEW order, NEW h, Built(list, n, order, h),
         NEW i \in 1..list.level, NEW ahead, ahead \subseteq Cursors(list)
  PROVE  \E f : IsAlong(f, list, i, ahead) /\ \A from : Along(list, i, from, ahead) = f[from]
<1>. DEFINE f == CHOOSE f : IsAlong(f, list, i, ahead)
<1>1. IsAlong(f, list, i, ahead)
  BY AlongExists
<1>2. \A from : Along(list, i, from, ahead) = f[from]
  BY DEF Along, IsAlong
<1>. HIDE DEF f
<1>. QED
  BY <1>1, <1>2

-----------------------------------------------------------------------------
(***************************************************************************)
(* A walk down the lanes: where it leaves each of them.                    *)
(***************************************************************************)

\* A walk along a lane, from a place that is not past p, ends at the last one
\* up to p.
LEMMA AlongIs ==
  ASSUME NEW list, NEW n, NEW order, NEW h, Built(list, n, order, h),
         NEW i \in 1..list.level, NEW ahead, NEW p, Splits(list, n, order, ahead, p),
         NEW q, IsLast(h, p, i, q), NEW r \in 0..p, h[r] >= i
  PROVE  Along(list, i, Cursor(order, r), ahead) = Cursor(order, q)
<1>1. /\ n \in Nat /\ h \in [0..n -> Nat] /\ list.level \in Nat
      /\ DOMAIN list.forward = {Node(order, k) : k \in 0..n}
      /\ \A k \in 0..n : DOMAIN list.forward[Node(order, k)] = 1..h[k]
      /\ Ordered(list.score, n, order) /\ i \in Nat
  <2>1. /\ n \in Nat /\ h \in [0..n -> Nat] /\ Ordered(list.score, n, order)
        /\ list.level \in Nat
    BY HeightsAre
  <2>2. /\ DOMAIN list.forward = {Node(order, k) : k \in 0..n}
        /\ \A k \in 0..n : DOMAIN list.forward[Node(order, k)] = 1..h[k]
    BY DEF Built, Tall
  <2>3. i \in Nat
    BY <2>1
  <2>. QED
    BY <2>1, <2>2, <2>3
<1>2. /\ p \in 0..n /\ ahead \subseteq Cursors(list) /\ p \in Nat
      /\ \A k \in 1..n : Cursor(order, k) \in ahead <=> k <= p
  BY <1>1 DEF Splits
<1>3. PICK f : IsAlong(f, list, i, ahead) /\ \A from : Along(list, i, from, ahead) = f[from]
  BY <1>2, AlongSteps
<1>4. q \in 0..p /\ h[q] >= i /\ \A j \in (q + 1)..p : h[j] < i
  BY DEF IsLast
<1>. DEFINE P(k) == k \in 0..p /\ h[k] >= i => f[Cursor(order, k)] = Cursor(order, q)
            S == {d \in 0..p : \A k \in (p - d)..p : P(k)}
<1>5. ASSUME NEW k \in 0..p, h[k] >= i, \A m \in (k + 1)..p : P(m) PROVE P(k)
  <2>. DEFINE at == Cursor(order, k)
  <2>1. k \in 0..n /\ i \in 1..h[k] /\ i <= list.level /\ k \in Nat
    BY <1>1, <1>2, <1>5
  <2>2. at \in [update : Lane(list, i), rank : Nat]
    <3>1. Node(order, k) \in Lane(list, i)
      BY <1>1, <2>1 DEF Lane
    <3>. QED
      BY <2>1, <3>1 DEF Cursor
  <2>3. f[at] = IF Step(list, i, at) \in ahead THEN f[Step(list, i, at)] ELSE at
    BY <1>3, <2>2 DEF IsAlong
  <2>4. PICK m \in (k + 1)..(n + 1) : IsNext(h, n, k, i, m)
    BY <1>1, <2>1, NextExists
  <2>5. m \in (k + 1)..(n + 1) /\ (m <= n => h[m] >= i) /\ \A j \in (k + 1)..(m - 1) : h[j] < i
    BY <2>4 DEF IsNext
  <2>6. Step(list, i, at) = [update |-> NodeOrEnd(order, n, m), rank |-> k + Far(n, k, m)]
    <3>1. at = [update |-> Node(order, k), rank |-> k]
      BY DEF Cursor
    <3>. HIDE DEF at
    <3>. QED
      BY <2>1, <2>4, <3>1, StepIs
  <2>. HIDE DEF P
  <2>7. CASE m = n + 1
    <3>1. Step(list, i, at).update = End
      BY <2>6, <2>7 DEF NodeOrEnd
    <3>2. Step(list, i, at) \notin ahead
      <4>1. ASSUME Step(list, i, at) \in ahead PROVE FALSE
        <5>1. End \in DOMAIN list.forward
          BY <1>2, <3>1, <4>1 DEF Cursors
        <5>2. PICK j \in 0..n : End = Node(order, j)
          BY <1>1, <5>1
        <5>. QED
          BY <1>1, <5>2, PlaceIs
      <4>. QED
        BY <4>1
    <3>3. k = q
      <4>1. ~(q > k)
        <5>1. ASSUME q > k PROVE FALSE
          <6>1. q \in (k + 1)..(m - 1)
            BY <1>1, <1>2, <1>4, <2>1, <2>7, <5>1
          <6>2. h[q] < i /\ h[q] \in Nat
            BY <1>1, <1>2, <1>4, <2>5, <6>1
          <6>. QED
            BY <1>1, <1>4, <6>2
        <5>. QED
          BY <5>1
      <4>2. ~(q < k)
        <5>1. ASSUME q < k PROVE FALSE
          <6>1. k \in (q + 1)..p
            BY <1>2, <1>4, <2>1, <5>1
          <6>2. h[k] < i /\ h[k] \in Nat
            BY <1>1, <1>4, <2>1, <6>1
          <6>. QED
            BY <1>1, <1>5, <6>2
        <5>. QED
          BY <5>1
      <4>. QED
        BY <1>2, <1>4, <2>1, <4>1, <4>2
    <3>. QED
      BY <2>3, <3>2, <3>3 DEF P
  <2>8. CASE m # n + 1
    <3>1. m \in 1..n /\ m > k /\ h[m] >= i /\ m \in Nat /\ m \in 0..n
      <4>1. m \in (k + 1)..(n + 1) /\ k \in Nat /\ n \in Nat
        BY <1>1, <2>1, <2>5
      <4>2. m \in 1..n /\ m > k /\ m \in Nat /\ m \in 0..n /\ m <= n
        BY <2>8, <4>1
      <4>. QED
        BY <2>5, <4>2
    <3>2. Step(list, i, at) = Cursor(order, m)
      <4>1. k + Far(n, k, m) = m
        BY <2>1, <2>8, <3>1 DEF Far
      <4>2. NodeOrEnd(order, n, m) = Node(order, m)
        BY <2>8, <3>1 DEF NodeOrEnd, Node
      <4>. QED
        BY <2>6, <4>1, <4>2 DEF Cursor
    <3>3. CASE m <= p
      <4>1. Step(list, i, at) \in ahead
        BY <1>2, <3>1, <3>2, <3>3
      <4>2. m \in (k + 1)..p /\ m \in 0..p
        BY <1>2, <2>1, <3>1, <3>3
      <4>3. f[Cursor(order, m)] = Cursor(order, q)
        BY <1>5, <3>1, <4>2 DEF P
      <4>. QED
        BY <2>3, <3>2, <4>1, <4>3 DEF P
    <3>4. CASE ~(m <= p)
      <4>1. Step(list, i, at) \notin ahead
        BY <1>2, <3>1, <3>2, <3>4
      <4>2. k = q
        <5>1. ~(q > k)
          <6>1. ASSUME q > k PROVE FALSE
            <7>1. q \in (k + 1)..(m - 1)
              BY <1>2, <1>4, <2>1, <3>1, <3>4, <6>1
            <7>2. h[q] < i /\ h[q] \in Nat
              BY <1>1, <1>2, <1>4, <2>5, <7>1
            <7>. QED
              BY <1>1, <1>4, <7>2
          <6>. QED
            BY <6>1
        <5>2. ~(q < k)
          <6>1. ASSUME q < k PROVE FALSE
            <7>1. k \in (q + 1)..p
              BY <1>2, <1>4, <2>1, <6>1
            <7>2. h[k] < i /\ h[k] \in Nat
              BY <1>1, <1>4, <2>1, <7>1
            <7>. QED
              BY <1>1, <1>5, <7>2
          <6>. QED
            BY <6>1
        <5>. QED
          BY <1>2, <1>4, <2>1, <5>1, <5>2
      <4>. QED
        BY <2>3, <4>1, <4>2 DEF P
    <3>. QED
      BY <3>3, <3>4
  <2>. QED
    BY <2>7, <2>8
<1>. HIDE DEF P
<1>6. ASSUME NEW k \in 0..p, \A m \in (k + 1)..p : P(m) PROVE P(k)
  BY <1>5, <1>6 DEF P
<1>7. 0 \in S
  <2>1. \A m \in (p + 1)..p : P(m)
    BY <1>2
  <2>2. P(p)
    BY <1>2, <1>6, <2>1
  <2>3. \A k \in (p - 0)..p : k = p
    BY <1>2
  <2>. QED
    BY <1>2, <2>2, <2>3
<1>8. ASSUME NEW d \in 1..p, d - 1 \in S PROVE d \in S
  <2>. DEFINE k == p - d
  <2>1. k \in 0..p /\ p - (d - 1) = k + 1 /\ d \in 0..p
    BY <1>2
  <2>2. \A m \in (k + 1)..p : P(m)
    BY <1>8, <2>1
  <2>3. P(k)
    <3>. HIDE DEF k
    <3>. QED
      BY <1>6, <2>1, <2>2
  <2>4. \A m \in k..p : m = k \/ m \in (k + 1)..p
    BY <1>2, <2>1
  <2>5. \A m \in (p - d)..p : P(m)
    BY <2>2, <2>3, <2>4
  <2>. QED
    BY <2>1, <2>5
<1>. HIDE DEF S
<1>9. p \in S
  BY <1>2, <1>7, <1>8, Counting!UpTo
<1>10. P(r)
  <2>1. r \in (p - p)..p
    BY <1>2
  <2>. QED
    BY <1>9, <2>1 DEF S
<1>11. f[Cursor(order, r)] = Cursor(order, q)
  BY <1>10 DEF P
<1>. QED
  BY <1>3, <1>11

\* Where a walk down the lanes leaves each of them: at the last node up to p.
IsPath(path, list, order, h, p) ==
  \A i \in 1..list.level : \A q : IsLast(h, p, i, q) => path[i] = Cursor(order, q)

\* The walk down the lanes leaves each of them at its last node up to place p, if
\* what is ahead are the places up to p.
LEMMA DescendIs ==
  ASSUME NEW list, NEW n, NEW order, NEW h, Built(list, n, order, h),
         NEW ahead, NEW p, Splits(list, n, order, ahead, p)
  PROVE  IsPath(Descend(list, ahead), list, order, h, p)
<1>. DEFINE level == list.level
            From(lane, i) == IF i = level THEN [update |-> HeadNode, rank |-> 0] ELSE lane[i + 1]
            IsDescent(lane) == lane = [i \in 1..level |-> Along(list, i, From(lane, i), ahead)]
            last(i) == CHOOSE q \in 0..p : IsLast(h, p, i, q)
            it == [i \in 1..level |-> Cursor(order, last(i))]
<1>1. /\ n \in Nat /\ h \in [0..n -> Nat] /\ level \in Nat /\ level <= MaxHeight
      /\ h[0] = MaxHeight /\ MaxHeight \in Nat
  BY HeightsAre
<1>2. p \in 0..n /\ p \in Nat /\ p <= n
  BY <1>1 DEF Splits
<1>3. ASSUME NEW i \in 1..level PROVE last(i) \in 0..p /\ IsLast(h, p, i, last(i))
  <2>1. h[0] >= i /\ i \in Nat
    BY <1>1
  <2>2. \E q \in 0..p : IsLast(h, p, i, q)
    BY <1>1, <1>2, <2>1, LastExists
  <2>. QED
    BY <2>2
<1>4. ASSUME NEW i \in 1..level, NEW q, IsLast(h, p, i, q) PROVE q = last(i)
  <2>. DEFINE r == last(i)
  <2>1. IsLast(h, p, i, r)
    BY <1>3
  <2>. HIDE DEF last, r
  <2>2. q \in 0..p /\ h[q] >= i /\ \A j \in (q + 1)..p : h[j] < i
    BY <1>4 DEF IsLast
  <2>3. r \in 0..p /\ h[r] >= i /\ \A j \in (r + 1)..p : h[j] < i
    BY <2>1 DEF IsLast
  <2>4. h[q] \in Nat /\ h[r] \in Nat /\ i \in Nat /\ q \in Nat /\ r \in Nat
    BY <1>1, <1>2, <2>2, <2>3
  <2>5. q \in (r + 1)..p => FALSE
    BY <2>2, <2>3, <2>4
  <2>6. r \in (q + 1)..p => FALSE
    BY <2>2, <2>3, <2>4
  <2>7. q = r
    BY <1>2, <2>2, <2>3, <2>4, <2>5, <2>6
  <2>. QED
    BY <2>7 DEF r
<1>. HIDE DEF last
<1>5. Cursor(order, 0) = [update |-> HeadNode, rank |-> 0]
  BY DEF Cursor, Node
<1>6. ASSUME NEW lane, NEW i \in 1..level, i < level => lane[i + 1] = Cursor(order, last(i + 1))
      PROVE  Along(list, i, From(lane, i), ahead) = Cursor(order, last(i))
  <2>1. PICK r \in 0..p : From(lane, i) = Cursor(order, r) /\ h[r] >= i
    <3>1. CASE i = level
      <4>1. From(lane, i) = Cursor(order, 0)
        BY <1>5, <3>1
      <4>2. h[0] >= i /\ 0 \in 0..p
        BY <1>1, <1>2, <3>1
      <4>. QED
        BY <4>1, <4>2
    <3>2. CASE i # level
      <4>1. i + 1 \in 1..level /\ i < level /\ i \in Nat
        BY <1>1, <3>2
      <4>2. last(i + 1) \in 0..p /\ IsLast(h, p, i + 1, last(i + 1))
        BY <1>3, <4>1
      <4>3. h[last(i + 1)] >= i + 1 /\ h[last(i + 1)] \in Nat
        BY <1>1, <1>2, <4>2 DEF IsLast
      <4>4. h[last(i + 1)] >= i
        BY <4>1, <4>3
      <4>. QED
        BY <1>6, <3>2, <4>1, <4>2, <4>4
    <3>. QED
      BY <3>1, <3>2
  <2>2. IsLast(h, p, i, last(i)) /\ i \in 1..list.level
    BY <1>3
  <2>. HIDE DEF From, level
  <2>3. Along(list, i, Cursor(order, r), ahead) = Cursor(order, last(i))
    BY <2>1, <2>2, AlongIs
  <2>. QED
    BY <2>1, <2>3
<1>7. IsDescent(it)
  <2>1. ASSUME NEW i \in 1..level PROVE it[i] = Along(list, i, From(it, i), ahead)
    <3>1. i < level => it[i + 1] = Cursor(order, last(i + 1))
      <4>1. i < level => i + 1 \in 1..level
        BY <1>1
      <4>. QED
        BY <4>1
    <3>2. it[i] = Cursor(order, last(i))
      OBVIOUS
    <3>. HIDE DEF it, From
    <3>. QED
      BY <1>6, <3>1, <3>2
  <2>2. it = [i \in 1..level |-> it[i]]
    OBVIOUS
  <2>. HIDE DEF it, From, level
  <2>. QED
    BY <2>1, <2>2
<1>. DEFINE path == CHOOSE lane : IsDescent(lane)
<1>8. IsDescent(path)
  <2>. HIDE DEF it, IsDescent
  <2>. QED
    BY <1>7
<1>9. Descend(list, ahead) = path
  BY DEF Descend
<1>. HIDE DEF path, it
<1>. DEFINE P(i) == path[i] = Cursor(order, last(i))
            S == {d \in 0..level : \A i \in (level + 1 - d)..level : P(i)}
<1>10. 0 \in S
  BY <1>1
<1>11. ASSUME NEW d \in 1..level, d - 1 \in S PROVE d \in S
  <2>. DEFINE i == level + 1 - d
  <2>1. i \in 1..level /\ d \in 0..level /\ level + 1 - (d - 1) = i + 1
    BY <1>1
  <2>2. \A j \in (i + 1)..level : P(j)
    BY <1>11, <2>1
  <2>3. P(i)
    <3>1. path[i] = Along(list, i, From(path, i), ahead)
      <4>. HIDE DEF From, i
      <4>. QED
        BY <1>8, <2>1
    <3>2. i < level => path[i + 1] = Cursor(order, last(i + 1))
      <4>1. i < level => i + 1 \in (i + 1)..level
        BY <1>1, <2>1
      <4>. QED
        BY <2>2, <4>1
    <3>. HIDE DEF i, From, level, IsDescent
    <3>. QED
      BY <1>6, <2>1, <3>1, <3>2
  <2>4. \A j \in i..level : j = i \/ j \in (i + 1)..level
    BY <1>1, <2>1
  <2>5. \A j \in (level + 1 - d)..level : P(j)
    <3>. HIDE DEF P, level
    <3>. QED
      BY <2>2, <2>3, <2>4
  <2>. QED
    BY <2>1, <2>5
<1>. HIDE DEF S
<1>12. level \in S
  <2>1. level \in Nat /\ 0 \in S /\ \A d \in 1..level : d - 1 \in S => d \in S
    BY <1>1, <1>10, <1>11
  <2>. HIDE DEF level
  <2>. QED
    BY <2>1, Counting!UpTo
<1>13. \A i \in 1..level : P(i)
  <2>1. level + 1 - level = 1
    BY <1>1
  <2>. QED
    BY <1>12, <2>1 DEF S
<1>. QED
  BY <1>4, <1>9, <1>13 DEF IsPath

-----------------------------------------------------------------------------
(***************************************************************************)
(* A list with one place more than another.                                *)
(***************************************************************************)

\* h1 is h0 with one more place, behind place p.
Grown(n, p, h0, h1) ==
  /\ \A k \in 0..p : h1[k] = h0[k]
  /\ \A k \in (p + 1)..n : h1[k + 1] = h0[k]

\* order1 is order0 with a member put behind place p.
Widened(n, p, order0, order1, member) ==
  /\ \A k \in 1..p : order1[k] = order0[k]
  /\ order1[p + 1] = member
  /\ \A k \in (p + 1)..n : order1[k + 1] = order0[k]

\* There is only one next place, and only one last place.
LEMMA NextUnique ==
  ASSUME NEW n \in Nat, NEW h \in [0..n -> Nat], NEW k \in 0..n, NEW i \in Nat,
         NEW m, IsNext(h, n, k, i, m), NEW m2, IsNext(h, n, k, i, m2)
  PROVE  m = m2
<1>1. /\ m \in (k + 1)..(n + 1) /\ (m <= n => h[m] >= i)
      /\ \A j \in (k + 1)..(m - 1) : h[j] < i
  BY DEF IsNext
<1>2. /\ m2 \in (k + 1)..(n + 1) /\ (m2 <= n => h[m2] >= i)
      /\ \A j \in (k + 1)..(m2 - 1) : h[j] < i
  BY DEF IsNext
<1>3. m \in Nat /\ m2 \in Nat /\ k \in Nat
  BY <1>1, <1>2
<1>4. ~(m < m2)
  <2>1. ASSUME m < m2 PROVE FALSE
    <3>1. m \in (k + 1)..(m2 - 1) /\ m <= n /\ m \in 0..n
      BY <1>1, <1>2, <1>3, <2>1
    <3>2. h[m] < i /\ h[m] >= i /\ h[m] \in Nat
      BY <1>1, <1>2, <3>1
    <3>. QED
      BY <3>2
  <2>. QED
    BY <2>1
<1>5. ~(m2 < m)
  <2>1. ASSUME m2 < m PROVE FALSE
    <3>1. m2 \in (k + 1)..(m - 1) /\ m2 <= n /\ m2 \in 0..n
      BY <1>1, <1>2, <1>3, <2>1
    <3>2. h[m2] < i /\ h[m2] >= i /\ h[m2] \in Nat
      BY <1>1, <1>2, <3>1
    <3>. QED
      BY <3>2
  <2>. QED
    BY <2>1
<1>. QED
  BY <1>3, <1>4, <1>5

\* A lane has one last place up to p.
LEMMA LastUnique ==
  ASSUME NEW n \in Nat, NEW p \in 0..n, NEW h \in [0..n -> Nat], NEW i \in Nat,
         NEW q, IsLast(h, p, i, q), NEW r, IsLast(h, p, i, r)
  PROVE  q = r
<1>1. q \in 0..p /\ h[q] >= i /\ \A j \in (q + 1)..p : h[j] < i
  BY DEF IsLast
<1>2. r \in 0..p /\ h[r] >= i /\ \A j \in (r + 1)..p : h[j] < i
  BY DEF IsLast
<1>3. h[q] \in Nat /\ h[r] \in Nat /\ q \in Nat /\ r \in Nat /\ p \in Nat
  BY <1>1, <1>2
<1>4. q \in (r + 1)..p => FALSE
  BY <1>1, <1>2, <1>3
<1>5. r \in (q + 1)..p => FALSE
  BY <1>1, <1>2, <1>3
<1>. QED
  BY <1>1, <1>2, <1>3, <1>4, <1>5

\* The last place is the one whose next is past p.
LEMMA LastIsNext ==
  ASSUME NEW n \in Nat, NEW p \in 0..n, NEW h \in [0..n -> Nat], NEW i \in Nat,
         NEW k \in 0..p, h[k] >= i, NEW m, IsNext(h, n, k, i, m)
  PROVE  IsLast(h, p, i, k) <=> m > p
<1>1. /\ m \in (k + 1)..(n + 1) /\ (m <= n => h[m] >= i)
      /\ \A j \in (k + 1)..(m - 1) : h[j] < i
  BY DEF IsNext
<1>2. m \in Nat /\ p \in Nat /\ k \in Nat
  BY <1>1
<1>3. ASSUME m > p PROVE IsLast(h, p, i, k)
  <2>1. \A j \in (k + 1)..p : j \in (k + 1)..(m - 1)
    BY <1>1, <1>2, <1>3
  <2>. QED
    BY <1>1, <2>1 DEF IsLast
<1>4. ASSUME IsLast(h, p, i, k), ~(m > p) PROVE FALSE
  <2>1. m \in (k + 1)..p /\ m <= n /\ m \in 0..n
    BY <1>1, <1>2, <1>4
  <2>2. h[m] < i /\ h[m] >= i /\ h[m] \in Nat
    BY <1>1, <1>4, <2>1 DEF IsLast
  <2>. QED
    BY <2>2
<1>. QED
  BY <1>3, <1>4

\* What is next once a place has been put in.
LEMMA NextGrown ==
  ASSUME NEW n \in Nat, NEW p \in 0..n, NEW h0 \in [0..n -> Nat], NEW h1 \in [0..(n + 1) -> Nat],
         Grown(n, p, h0, h1), NEW i \in Nat,
         NEW k \in 0..n, NEW m, IsNext(h0, n, k, i, m)
  PROVE  /\ k > p => IsNext(h1, n + 1, k + 1, i, m + 1)
         /\ k <= p /\ m <= p => IsNext(h1, n + 1, k, i, m)
         /\ k <= p /\ m > p /\ h1[p + 1] < i => IsNext(h1, n + 1, k, i, m + 1)
         /\ k <= p /\ m > p /\ h1[p + 1] >= i => IsNext(h1, n + 1, k, i, p + 1)
         /\ k <= p /\ m > p => IsNext(h1, n + 1, p + 1, i, m + 1)
<1>1. /\ m \in (k + 1)..(n + 1) /\ (m <= n => h0[m] >= i)
      /\ \A j \in (k + 1)..(m - 1) : h0[j] < i
  BY DEF IsNext
<1>2. m \in Nat /\ p \in Nat /\ k \in Nat /\ p <= n /\ m <= n + 1 /\ k < m
  BY <1>1
<1>3. /\ \A j \in 0..p : h1[j] = h0[j]
      /\ \A j \in (p + 1)..n : h1[j + 1] = h0[j]
  BY DEF Grown
<1>4. \A j \in (p + 2)..(n + 1) : h1[j] = h0[j - 1]
  <2>1. ASSUME NEW j \in (p + 2)..(n + 1) PROVE h1[j] = h0[j - 1]
    <3>1. j - 1 \in (p + 1)..n /\ (j - 1) + 1 = j
      BY <1>2
    <3>. QED
      BY <1>3, <3>1
  <2>. QED
    BY <2>1
<1>5. m > p /\ m <= n => h1[m + 1] >= i
  <2>1. m > p /\ m <= n => m \in (p + 1)..n
    BY <1>2
  <2>. QED
    BY <1>1, <1>3, <2>1
<1>6. ASSUME NEW j \in (p + 2)..m, j > k + 1 PROVE h1[j] < i
  <2>1. j \in (p + 2)..(n + 1) /\ j - 1 \in (k + 1)..(m - 1)
    BY <1>2, <1>6
  <2>. QED
    BY <1>1, <1>4, <2>1
<1>7. ASSUME NEW j \in 0..p, j > k, j < m PROVE h1[j] < i
  <2>1. j \in (k + 1)..(m - 1)
    BY <1>2, <1>7
  <2>. QED
    BY <1>1, <1>3, <2>1
<1>8. ASSUME k > p PROVE IsNext(h1, n + 1, k + 1, i, m + 1)
  <2>1. m + 1 \in (k + 1 + 1)..(n + 1 + 1) /\ (m + 1 <= n + 1 => h1[m + 1] >= i)
    BY <1>2, <1>5, <1>8
  <2>2. \A j \in (k + 1 + 1)..(m + 1 - 1) : j \in (p + 2)..m /\ j > k + 1
    BY <1>2, <1>8
  <2>3. \A j \in (k + 1 + 1)..(m + 1 - 1) : h1[j] < i
    BY <1>6, <2>2
  <2>. QED
    BY <2>1, <2>3 DEF IsNext
<1>9. ASSUME k <= p, m <= p PROVE IsNext(h1, n + 1, k, i, m)
  <2>1. m \in (k + 1)..(n + 1 + 1) /\ m \in 0..p /\ m <= n
    BY <1>2, <1>9
  <2>2. h1[m] >= i
    BY <1>1, <1>3, <2>1
  <2>3. \A j \in (k + 1)..(m - 1) : j \in 0..p /\ j > k /\ j < m
    BY <1>2, <1>9
  <2>. QED
    BY <1>7, <2>1, <2>2, <2>3 DEF IsNext
<1>10. ASSUME k <= p, m > p, h1[p + 1] < i PROVE IsNext(h1, n + 1, k, i, m + 1)
  <2>1. m + 1 \in (k + 1)..(n + 1 + 1) /\ (m + 1 <= n + 1 => h1[m + 1] >= i)
    BY <1>2, <1>5, <1>10
  <2>2. ASSUME NEW j \in (k + 1)..(m + 1 - 1) PROVE h1[j] < i
    <3>1. \/ j \in 0..p /\ j > k /\ j < m
          \/ j = p + 1
          \/ j \in (p + 2)..m /\ j > k + 1
      BY <1>2, <1>10
    <3>. QED
      BY <1>6, <1>7, <1>10, <3>1
  <2>. QED
    BY <2>1, <2>2 DEF IsNext
<1>11. ASSUME k <= p, m > p, h1[p + 1] >= i PROVE IsNext(h1, n + 1, k, i, p + 1)
  <2>1. p + 1 \in (k + 1)..(n + 1 + 1)
    BY <1>2, <1>11
  <2>2. \A j \in (k + 1)..(p + 1 - 1) : j \in 0..p /\ j > k /\ j < m
    BY <1>2, <1>11
  <2>. QED
    BY <1>7, <1>11, <2>1, <2>2 DEF IsNext
<1>12. ASSUME k <= p, m > p PROVE IsNext(h1, n + 1, p + 1, i, m + 1)
  <2>1. m + 1 \in (p + 1 + 1)..(n + 1 + 1) /\ (m + 1 <= n + 1 => h1[m + 1] >= i)
    BY <1>2, <1>5, <1>12
  <2>2. \A j \in (p + 1 + 1)..(m + 1 - 1) : j \in (p + 2)..m /\ j > k + 1
    BY <1>2, <1>12
  <2>3. \A j \in (p + 1 + 1)..(m + 1 - 1) : h1[j] < i
    BY <1>6, <2>2
  <2>. QED
    BY <2>1, <2>3 DEF IsNext
<1>. QED
  BY <1>8, <1>9, <1>10, <1>11, <1>12

\* The nodes keep their order.
LEMMA NodesWidened ==
  ASSUME NEW n \in Nat, NEW p \in 0..n, NEW order0, NEW order1, NEW member,
         Widened(n, p, order0, order1, member)
  PROVE  /\ \A k \in 0..p : Node(order1, k) = Node(order0, k)
         /\ Node(order1, p + 1) = member
         /\ \A k \in (p + 1)..n : Node(order1, k + 1) = Node(order0, k)
         /\ \A m \in 1..p : NodeOrEnd(order1, n + 1, m) = NodeOrEnd(order0, n, m)
         /\ NodeOrEnd(order1, n + 1, p + 1) = member
         /\ \A m \in (p + 1)..(n + 1) : NodeOrEnd(order1, n + 1, m + 1) = NodeOrEnd(order0, n, m)
<1>1. /\ \A k \in 1..p : order1[k] = order0[k]
      /\ order1[p + 1] = member
      /\ \A k \in (p + 1)..n : order1[k + 1] = order0[k]
  BY DEF Widened
<1>2. ASSUME NEW k \in 0..p PROVE Node(order1, k) = Node(order0, k)
  <2>1. k = 0 \/ k \in 1..p
    OBVIOUS
  <2>. QED
    BY <1>1, <2>1 DEF Node
<1>3. Node(order1, p + 1) = member
  BY <1>1 DEF Node
<1>4. ASSUME NEW k \in (p + 1)..n PROVE Node(order1, k + 1) = Node(order0, k)
  BY <1>1 DEF Node
<1>5. ASSUME NEW m \in 1..p PROVE NodeOrEnd(order1, n + 1, m) = NodeOrEnd(order0, n, m)
  <2>1. m # n + 1 /\ m # n + 1 + 1
    OBVIOUS
  <2>. QED
    BY <1>1, <2>1 DEF NodeOrEnd
<1>6. NodeOrEnd(order1, n + 1, p + 1) = member
  <2>1. p + 1 # n + 1 + 1
    OBVIOUS
  <2>. QED
    BY <1>1, <2>1 DEF NodeOrEnd
<1>7. ASSUME NEW m \in (p + 1)..(n + 1)
      PROVE  NodeOrEnd(order1, n + 1, m + 1) = NodeOrEnd(order0, n, m)
  <2>1. (m + 1 = n + 1 + 1 <=> m = n + 1) /\ (m # n + 1 => m \in (p + 1)..n)
    OBVIOUS
  <2>. QED
    BY <1>1, <2>1 DEF NodeOrEnd
<1>. QED
  BY <1>2, <1>3, <1>4, <1>5, <1>6, <1>7
-----------------------------------------------------------------------------
(***************************************************************************)
(* What comes before a member that is looked for, and what before a rank.  *)
(***************************************************************************)

\* Less is a strict order of pairs.
LEMMA LessIsOrder ==
  ASSUME NEW s1 \in Int, NEW m1 \in Int, NEW s2 \in Int, NEW m2 \in Int
  PROVE  /\ ~Less(s1, m1, s1, m1)
         /\ Less(s1, m1, s2, m2) => ~Less(s2, m2, s1, m1)
         /\ m1 # m2 => Less(s1, m1, s2, m2) \/ Less(s2, m2, s1, m1)
BY DEF Less

\* What the order of the members says of two of them.
LEMMA OrderIs ==
  ASSUME NEW score, NEW n, NEW order, Ordered(score, n, order)
  PROVE  /\ n \in Nat /\ order \in [1..n -> Members]
         /\ \A k \in 1..n : order[k] \in DOMAIN score /\ score[order[k]] \in Int /\ order[k] \in Int
         /\ \A m \in DOMAIN score : \E k \in 1..n : m = order[k]
         /\ \A j, k \in 1..n : j < k => Less(score[order[j]], order[j], score[order[k]], order[k])
         /\ \A j, k \in 1..n : order[j] = order[k] => j = k
<1>1. /\ n \in Nat /\ order \in [1..n -> Members] /\ DOMAIN score = {order[k] : k \in 1..n}
      /\ \A m \in DOMAIN score : score[m] \in Int
      /\ \A j, k \in 1..n : j < k => Less(score[order[j]], order[j], score[order[k]], order[k])
  BY DEF Ordered
<1>2. ASSUME NEW k \in 1..n
      PROVE  order[k] \in DOMAIN score /\ score[order[k]] \in Int /\ order[k] \in Int
  <2>1. order[k] \in DOMAIN score /\ order[k] \in Members
    BY <1>1
  <2>. QED
    BY <1>1, <2>1, MembersAre
<1>3. \A j, k \in 1..n : order[j] = order[k] => j = k
  BY PlaceIs
<1>4. \A m \in DOMAIN score : \E k \in 1..n : m = order[k]
  BY <1>1
<1>. QED
  BY <1>1, <1>2, <1>3, <1>4

\* Every score and member has its place among the nodes.
LEMMA PlaceOf ==
  ASSUME NEW score, NEW n, NEW order, Ordered(score, n, order), NEW s \in Int, NEW member \in Int
  PROVE  \E p \in 0..n : \A k \in 1..n : Less(score[order[k]], order[k], s, member) <=> k <= p
<1>. DEFINE Ahead(k) == Less(score[order[k]], order[k], s, member)
            g == [k \in 0..n |-> IF k = 0 \/ Ahead(k) THEN 1 ELSE 0]
<1>1. n \in Nat /\ g \in [0..n -> Nat] /\ g[0] >= 1 /\ n <= n
  <2>1. n \in Nat
    BY OrderIs
  <2>. HIDE DEF Ahead
  <2>. QED
    BY <2>1
<1>2. PICK p \in 0..n : IsLast(g, n, 1, p)
  <2>. HIDE DEF g
  <2>. QED
    BY <1>1, LastExists
<1>3. p \in 0..n /\ g[p] >= 1 /\ \A j \in (p + 1)..n : g[j] < 1
  BY <1>2 DEF IsLast
<1>4. ASSUME NEW k \in 1..n PROVE Ahead(k) <=> k <= p
  <2>0. p \in Nat /\ k \in Nat
    BY <1>1, <1>3
  <2>1. CASE k > p
    <3>1. k \in (p + 1)..n /\ k # 0 /\ k \in 0..n
      BY <1>1, <1>3, <2>0, <2>1
    <3>2. g[k] < 1
      BY <1>3, <3>1
    <3>3. ~Ahead(k)
      <4>. HIDE DEF Ahead
      <4>. QED
        BY <3>1, <3>2
    <3>. QED
      BY <2>0, <2>1, <3>3
  <2>2. CASE k <= p
    <3>1. p \in 1..n /\ p # 0
      BY <1>1, <1>3, <2>0, <2>2
    <3>2. Ahead(p)
      <4>. HIDE DEF Ahead
      <4>. QED
        BY <1>3, <3>1
    <3>3. CASE k = p
      BY <2>0, <3>2, <3>3
    <3>4. CASE k < p
      <4>1. Less(score[order[k]], order[k], score[order[p]], order[p])
        BY <3>1, <3>4, OrderIs
      <4>2. /\ score[order[k]] \in Int /\ order[k] \in Int
            /\ score[order[p]] \in Int /\ order[p] \in Int
        BY <3>1, OrderIs
      <4>. DEFINE a == score[order[k]]
                  b == order[k]
                  c == score[order[p]]
                  d == order[p]
      <4>3. Less(a, b, s, member)
        <5>1. a \in Int /\ b \in Int /\ c \in Int /\ d \in Int /\ Less(a, b, c, d)
              /\ Less(c, d, s, member)
          BY <3>2, <4>1, <4>2
        <5>. HIDE DEF a, b, c, d
        <5>. QED
          BY <5>1 DEF Less
      <4>. QED
        BY <2>2, <4>3
    <3>. QED
      BY <2>0, <2>2, <3>3, <3>4
  <2>. QED
    BY <2>0, <2>1, <2>2
<1>. QED
  BY <1>3, <1>4

\* Where a walk down to a score and member passes from lane to lane.
LEMMA SplitsBelow ==
  ASSUME NEW list, NEW n, NEW order, NEW h, Built(list, n, order, h),
         NEW s, NEW member, NEW p \in 0..n,
         \A k \in 1..n : Less(list.score[order[k]], order[k], s, member) <=> k <= p
  PROVE  Splits(list, n, order, Below(list, s, member), p)
<1>1. DOMAIN list.forward = {Node(order, k) : k \in 0..n} /\ n \in Nat
  BY DEF Built, Tall, Ordered
<1>2. ASSUME NEW k \in 1..n
      PROVE  /\ Cursor(order, k) \in Cursors(list) /\ Cursor(order, k).update = order[k]
             /\ order[k] # HeadNode
  <2>1. k \in 0..n /\ k \in Nat /\ Node(order, k) = order[k] /\ order[k] # HeadNode
    BY <1>1, PlaceIs DEF Built
  <2>. QED
    BY <1>1, <2>1 DEF Cursor, Cursors
<1>3. ASSUME NEW k \in 1..n PROVE Cursor(order, k) \in Below(list, s, member) <=> k <= p
  <2>. DEFINE at == Cursor(order, k)
  <2>1. at \in Cursors(list) /\ at.update = order[k] /\ order[k] # HeadNode
    BY <1>2
  <2>. HIDE DEF at
  <2>2. at \in Below(list, s, member)
          <=> Less(list.score[order[k]], order[k], s, member)
    BY <2>1 DEF Below
  <2>. QED
    BY <2>2 DEF at
<1>4. Below(list, s, member) \subseteq Cursors(list)
  BY DEF Below
<1>. QED
  BY <1>3, <1>4 DEF Splits

\* The order once a member has come in at its place.
LEMMA OrderWidened ==
  ASSUME NEW score0, NEW n, NEW order0, Ordered(score0, n, order0),
         NEW member \in Members, member \notin DOMAIN score0, NEW s \in Int, NEW p \in 0..n,
         \A k \in 1..n : Less(score0[order0[k]], order0[k], s, member) <=> k <= p,
         NEW score1, DOMAIN score1 = DOMAIN score0 \union {member}, score1[member] = s,
         \A m \in DOMAIN score0 : score1[m] = score0[m],
         NEW order1 \in [1..(n + 1) -> Members], Widened(n, p, order0, order1, member)
  PROVE  Ordered(score1, n + 1, order1)
<1>1. /\ n \in Nat /\ p \in Nat /\ p <= n /\ member \in Int
      /\ \A k \in 1..n : order0[k] \in DOMAIN score0 /\ score0[order0[k]] \in Int /\ order0[k] \in Int
  <2>1. n \in Nat /\ p \in Nat /\ p <= n /\ member \in Int
    BY MembersAre DEF Ordered
  <2>2. \A k \in 1..n : /\ order0[k] \in DOMAIN score0
                       /\ score0[order0[k]] \in Int /\ order0[k] \in Int
    BY OrderIs
  <2>. QED
    BY <2>1, <2>2
<1>2. \A j, k \in 1..n : j < k => Less(score0[order0[j]], order0[j], score0[order0[k]], order0[k])
  BY OrderIs
<1>3. /\ \A k \in 1..p : order1[k] = order0[k]
      /\ order1[p + 1] = member
      /\ \A k \in (p + 1)..n : order1[k + 1] = order0[k]
  BY DEF Widened
<1>. DEFINE Was(k) == IF k <= p THEN k ELSE k - 1
<1>4. ASSUME NEW k \in 1..(n + 1), k # p + 1
      PROVE  Was(k) \in 1..n /\ order1[k] = order0[Was(k)] /\ (k <= p => Was(k) = k)
             /\ (k > p => Was(k) = k - 1)
  <2>1. CASE k <= p
    BY <1>1, <1>3, <2>1
  <2>2. CASE k > p
    <3>1. k - 1 \in (p + 1)..n /\ (k - 1) + 1 = k /\ ~(k <= p)
      BY <1>1, <1>4, <2>2
    <3>2. order1[k] = order0[k - 1] /\ Was(k) = k - 1
      BY <1>3, <3>1
    <3>. QED
      BY <1>1, <3>1, <3>2
  <2>. QED
    BY <1>1, <2>1, <2>2
<1>. HIDE DEF Was
<1>5. ASSUME NEW k \in 1..(n + 1), k # p + 1
      PROVE  order1[k] \in DOMAIN score0 /\ score1[order1[k]] = score0[order0[Was(k)]]
  <2>1. Was(k) \in 1..n /\ order1[k] = order0[Was(k)]
    BY <1>4, <1>5
  <2>. QED
    BY <1>1, <2>1
<1>6. DOMAIN score1 = {order1[k] : k \in 1..(n + 1)}
  <2>1. ASSUME NEW m \in DOMAIN score1 PROVE \E k \in 1..(n + 1) : m = order1[k]
    <3>1. CASE m = member
      <4>1. p + 1 \in 1..(n + 1)
        BY <1>1
      <4>. QED
        BY <1>3, <3>1, <4>1
    <3>2. CASE m \in DOMAIN score0
      <4>1. PICK k \in 1..n : m = order0[k]
        BY <3>2, OrderIs
      <4>2. k \in 1..p \/ k \in (p + 1)..n
        BY <1>1
      <4>3. k \in 1..(n + 1) /\ k + 1 \in 1..(n + 1)
        BY <1>1
      <4>. QED
        BY <1>3, <4>1, <4>2, <4>3
    <3>. QED
      BY <3>1, <3>2
  <2>2. ASSUME NEW k \in 1..(n + 1) PROVE order1[k] \in DOMAIN score1
    BY <1>3, <1>5
  <2>. QED
    BY <2>1, <2>2
<1>7. ASSUME NEW m \in DOMAIN score1 PROVE score1[m] \in Int
  <2>1. m = member \/ \E k \in 1..n : m = order0[k]
    BY OrderIs
  <2>. QED
    BY <1>1, <2>1
<1>8. ASSUME NEW j \in 1..(n + 1), NEW k \in 1..(n + 1), j < k
      PROVE  Less(score1[order1[j]], order1[j], score1[order1[k]], order1[k])
  <2>1. CASE j = p + 1
    <3>1. k # p + 1 /\ Was(k) \in 1..n /\ Was(k) = k - 1 /\ ~(Was(k) <= p)
      <4>1. k # p + 1 /\ k > p /\ ~(k - 1 <= p)
        BY <1>1, <1>8, <2>1
      <4>. QED
        BY <1>4, <4>1
    <3>. DEFINE w == Was(k)
                a == score0[order0[w]]
                b == order0[w]
    <3>2. ~Less(a, b, s, member) /\ a \in Int /\ b \in Int /\ b \in DOMAIN score0
      BY <1>1, <3>1
    <3>3. Less(s, member, a, b)
      <4>. HIDE DEF a, b
      <4>. QED
        BY <1>1, <3>2, LessIsOrder
    <3>4. score1[order1[j]] = s /\ order1[j] = member
      BY <1>3, <2>1
    <3>5. score1[order1[k]] = a /\ order1[k] = b
      BY <1>4, <1>5, <3>1
    <3>. QED
      BY <3>3, <3>4, <3>5
  <2>2. CASE j # p + 1 /\ k = p + 1
    <3>1. j <= p
      BY <1>1, <1>8, <2>2
    <3>2. Was(j) \in 1..n /\ Was(j) = j /\ order1[j] = order0[Was(j)]
      BY <1>4, <2>2, <3>1
    <3>3. Less(score0[order0[j]], order0[j], s, member)
      BY <3>1, <3>2
    <3>4. score1[order1[k]] = s /\ order1[k] = member
      BY <1>3, <2>2
    <3>5. score1[order1[j]] = score0[order0[j]] /\ order1[j] = order0[j]
      BY <1>5, <2>2, <3>2
    <3>. QED
      BY <3>3, <3>4, <3>5
  <2>3. CASE j # p + 1 /\ k # p + 1
    <3>1. Was(j) \in 1..n /\ Was(k) \in 1..n
      BY <1>4, <2>3
    <3>2. Was(j) < Was(k)
      <4>1. /\ j <= p => Was(j) = j
            /\ j > p => Was(j) = j - 1
            /\ k <= p => Was(k) = k
            /\ k > p => Was(k) = k - 1
        BY <1>4, <2>3
      <4>. QED
        BY <1>1, <1>8, <2>3, <3>1, <4>1
    <3>3. Less(score0[order0[Was(j)]], order0[Was(j)], score0[order0[Was(k)]], order0[Was(k)])
      BY <1>2, <3>1, <3>2
    <3>4. /\ score1[order1[j]] = score0[order0[Was(j)]] /\ order1[j] = order0[Was(j)]
          /\ score1[order1[k]] = score0[order0[Was(k)]] /\ order1[k] = order0[Was(k)]
      BY <1>4, <1>5, <2>3
    <3>. QED
      BY <3>3, <3>4
  <2>. QED
    BY <2>1, <2>2, <2>3
<1>9. n + 1 \in Nat
  BY <1>1
<1>. QED
  BY <1>6, <1>7, <1>8, <1>9 DEF Ordered

\* And once the member has gone.
LEMMA OrderNarrowed ==
  ASSUME NEW score1, NEW n \in Nat, NEW order1, Ordered(score1, n + 1, order1), NEW p \in 0..n,
         NEW member, NEW score0, DOMAIN score0 = DOMAIN score1 \ {member},
         \A m \in DOMAIN score0 : score0[m] = score1[m],
         NEW order0 \in [1..n -> Members], Widened(n, p, order0, order1, member)
  PROVE  Ordered(score0, n, order0)
<1>0. /\ \A k \in 1..(n + 1) : order1[k] \in DOMAIN score1 /\ score1[order1[k]] \in Int
      /\ \A j, k \in 1..(n + 1) : order1[j] = order1[k] => j = k
  <2>. DEFINE m == n + 1
  <2>. HIDE DEF m
  <2>1. /\ \A k \in 1..m : order1[k] \in DOMAIN score1 /\ score1[order1[k]] \in Int
        /\ \A j, k \in 1..m : order1[j] = order1[k] => j = k
    <3>1. Ordered(score1, m, order1)
      BY DEF m
    <3>. QED
      BY <3>1, OrderIs
  <2>. QED
    BY <2>1 DEF m
<1>1. /\ p \in Nat /\ p <= n
      /\ \A k \in 1..(n + 1) : order1[k] \in DOMAIN score1 /\ score1[order1[k]] \in Int
      /\ \A j, k \in 1..(n + 1) : order1[j] = order1[k] => j = k
  BY <1>0
<1>2. \A j, k \in 1..(n + 1) :
        j < k => Less(score1[order1[j]], order1[j], score1[order1[k]], order1[k])
  BY OrderIs
<1>3. /\ \A k \in 1..p : order1[k] = order0[k]
      /\ order1[p + 1] = member
      /\ \A k \in (p + 1)..n : order1[k + 1] = order0[k]
  BY DEF Widened
<1>. DEFINE Now(k) == IF k <= p THEN k ELSE k + 1
<1>4. ASSUME NEW k \in 1..n
      PROVE  Now(k) \in 1..(n + 1) /\ Now(k) # p + 1 /\ order0[k] = order1[Now(k)]
             /\ (k <= p => Now(k) = k) /\ (k > p => Now(k) = k + 1)
  <2>1. CASE k <= p
    BY <1>1, <1>3, <2>1
  <2>2. CASE k > p
    <3>1. k \in (p + 1)..n /\ ~(k <= p)
      BY <1>1, <2>2
    <3>. QED
      BY <1>1, <1>3, <3>1
  <2>. QED
    BY <1>1, <2>1, <2>2
<1>. HIDE DEF Now
<1>5. p + 1 \in 1..(n + 1)
  BY <1>1
<1>6. ASSUME NEW k \in 1..n
      PROVE  order0[k] \in DOMAIN score0 /\ score0[order0[k]] = score1[order1[Now(k)]]
  <2>1. order1[Now(k)] # member
    BY <1>1, <1>3, <1>4, <1>5
  <2>. QED
    BY <1>1, <1>4, <2>1
<1>7. DOMAIN score0 = {order0[k] : k \in 1..n}
  <2>1. ASSUME NEW m \in DOMAIN score0 PROVE \E k \in 1..n : m = order0[k]
    <3>1. PICK k \in 1..(n + 1) : m = order1[k]
      <4>1. m \in DOMAIN score1
        OBVIOUS
      <4>. QED
        BY <4>1, OrderIs
    <3>2. k # p + 1
      BY <1>3, <3>1
    <3>3. k \in 1..p \/ (k - 1 \in (p + 1)..n /\ (k - 1) + 1 = k)
      BY <1>1, <3>2
    <3>4. k \in 1..p => k \in 1..n
      BY <1>1
    <3>5. k - 1 \in (p + 1)..n => k - 1 \in 1..n
      BY <1>1
    <3>. QED
      BY <1>3, <3>1, <3>3, <3>4, <3>5
  <2>. QED
    BY <1>6, <2>1
<1>8. ASSUME NEW m \in DOMAIN score0 PROVE score0[m] \in Int
  <2>1. PICK k \in 1..n : m = order0[k]
    BY <1>7
  <2>. QED
    BY <1>1, <1>4, <1>6, <2>1
<1>9. ASSUME NEW j \in 1..n, NEW k \in 1..n, j < k
      PROVE  Less(score0[order0[j]], order0[j], score0[order0[k]], order0[k])
  <2>1. Now(j) \in 1..(n + 1) /\ Now(k) \in 1..(n + 1) /\ Now(j) < Now(k)
    <3>1. /\ j <= p => Now(j) = j
          /\ j > p => Now(j) = j + 1
          /\ k <= p => Now(k) = k
          /\ k > p => Now(k) = k + 1
      BY <1>4
    <3>. QED
      BY <1>1, <1>4, <1>9, <3>1
  <2>2. Less(score1[order1[Now(j)]], order1[Now(j)], score1[order1[Now(k)]], order1[Now(k)])
    BY <1>2, <2>1
  <2>. QED
    BY <1>4, <1>6, <2>2
<1>. QED
  BY <1>7, <1>8, <1>9 DEF Ordered
-----------------------------------------------------------------------------
(***************************************************************************)
(* What a walk down the lanes has found, and what stands there.            *)
(***************************************************************************)

\* The list holds as many members as there are places.
LEMMA LengthIs ==
  ASSUME NEW list, NEW n, NEW order, Ordered(list.score, n, order)
  PROVE  Length(list) = n
<1>1. /\ n \in Nat /\ order \in [1..n -> Members]
      /\ \A k \in 1..n : order[k] \in DOMAIN list.score
      /\ \A m \in DOMAIN list.score : \E k \in 1..n : m = order[k]
  BY OrderIs
<1>2. \A j, k \in 1..n : order[j] = order[k] => j = k
  BY OrderIs
<1>. DEFINE D == DOMAIN list.score
<1>3. order \in [1..n -> D]
  BY <1>1
<1>4. order \in Bijection(1..n, D)
  <2>1. order \in Injection(1..n, D)
    BY <1>2, <1>3 DEF Injection, IsInjective
  <2>2. order \in Surjection(1..n, D)
    BY <1>1, <1>3 DEF Surjection
  <2>. QED
    BY <2>1, <2>2 DEF Bijection
<1>5. ExistsBijection(1..n, D)
  BY <1>4 DEF ExistsBijection
<1>. HIDE DEF D
<1>6. Cardinality(D) = n
  BY <1>1, <1>5, FS_CountingElements
<1>. QED
  BY <1>6 DEF Length, D

\* A path tells for every lane the last node up to p, and how many are before.
Leaves(path, n, order, h, p, top) ==
  \A i \in 1..top : \E q \in 0..p :
    IsLast(h, p, i, q) /\ path[i].update = Node(order, q) /\ path[i].rank = q

\* So a path that leaves a lane at a node does so where the node is the last one.
LEMMA ReachedIs ==
  ASSUME NEW score, NEW n, NEW order, Ordered(score, n, order), NEW h \in [0..n -> Nat],
         NEW p \in 0..n, NEW top \in Nat, NEW path, Leaves(path, n, order, h, p, top),
         NEW i \in 1..top, NEW k \in 0..n
  PROVE  /\ path[i].update = Node(order, k) <=> IsLast(h, p, i, k)
         /\ IsLast(h, p, i, k) => path[i].rank = k
<1>1. n \in Nat
  BY DEF Ordered
<1>2. PICK q \in 0..p : IsLast(h, p, i, q) /\ path[i].update = Node(order, q) /\ path[i].rank = q
  BY DEF Leaves
<1>3. q \in 0..n /\ i \in Nat
  BY <1>1
<1>4. path[i].update = Node(order, k) <=> q = k
  BY <1>2, <1>3, PlaceIs
<1>5. IsLast(h, p, i, k) => q = k
  BY <1>1, <1>2, <1>3, LastUnique
<1>. QED
  BY <1>2, <1>4, <1>5

\* A walk down the lanes in use is such a path, and so is one that leaves the
\* lanes that were not in use at the head.
LEMMA LeavesIs ==
  ASSUME NEW list, NEW n, NEW order, NEW h, Built(list, n, order, h), NEW p \in 0..n,
         NEW found, IsPath(found, list, order, h, p),
         NEW top \in list.level..MaxHeight, NEW path,
         \A i \in 1..top : path[i] = IF i <= list.level THEN found[i]
                                     ELSE [update |-> HeadNode, rank |-> 0]
  PROVE  Leaves(path, n, order, h, p, top)
<1>0. /\ n \in Nat /\ h \in [0..n -> Nat] /\ h[0] = MaxHeight /\ MaxHeight \in Nat
      /\ list.level \in Nat /\ \A k \in 1..n : h[k] <= list.level
  BY HeightsAre
<1>1. ASSUME NEW i \in 1..top
      PROVE  \E q \in 0..p : IsLast(h, p, i, q) /\ path[i].update = Node(order, q) /\ path[i].rank = q
  <2>0. i \in Nat /\ h[0] >= i /\ p \in Nat /\ p <= n
    BY <1>0
  <2>1. CASE i <= list.level
    <3>1. PICK q \in 0..p : IsLast(h, p, i, q)
      BY <1>0, <2>0, LastExists
    <3>2. path[i] = Cursor(order, q)
      <4>1. i \in 1..list.level /\ path[i] = found[i]
        BY <1>0, <2>0, <2>1
      <4>. QED
        BY <3>1, <4>1 DEF IsPath
    <3>. QED
      BY <3>1, <3>2 DEF Cursor
  <2>2. CASE ~(i <= list.level)
    <3>1. ASSUME NEW j \in (0 + 1)..p PROVE h[j] < i
      <4>1. j \in 1..n /\ h[j] \in Nat /\ h[j] <= list.level
        BY <1>0, <2>0
      <4>. QED
        BY <1>0, <2>0, <2>2, <4>1
    <3>2. IsLast(h, p, i, 0)
      <4>1. 0 \in 0..p
        BY <2>0
      <4>. QED
        BY <2>0, <3>1, <4>1 DEF IsLast
    <3>3. path[i].update = Node(order, 0) /\ path[i].rank = 0
      BY <2>2 DEF Node
    <3>4. 0 \in 0..p
      BY <2>0
    <3>. QED
      BY <3>2, <3>3, <3>4
  <2>. QED
    BY <2>1, <2>2
<1>. QED
  BY <1>1 DEF Leaves

\* On the lowest lane it is the node at p itself.
LEMMA LowestIs ==
  ASSUME NEW list, NEW n, NEW order, NEW h, Built(list, n, order, h), NEW p \in 0..n
  PROVE  IsLast(h, p, 1, p) /\ (p < n => IsNext(h, n, p, 1, p + 1))
<1>1. n \in Nat /\ \A k \in 0..n : h[k] \in Nat /\ h[k] >= 1
  BY HeightsAre
<1>2. p \in Nat /\ h[p] >= 1 /\ p \in 0..p /\ (p + 1)..p = {}
  BY <1>1
<1>3. IsLast(h, p, 1, p)
  BY <1>2 DEF IsLast
<1>4. ASSUME p < n PROVE IsNext(h, n, p, 1, p + 1)
  <2>1. p + 1 \in 0..n /\ p + 1 \in (p + 1)..(n + 1) /\ (p + 1)..(p + 1 - 1) = {}
    BY <1>1, <1>2, <1>4
  <2>. QED
    BY <1>1, <2>1 DEF IsNext
<1>. QED
  BY <1>3, <1>4

\* The span of a lane, or of one that was not in use.
SpanAt(list, n, x, i) == IF i > list.level THEN n ELSE list.span[x][i]

\* Pointer and span on any lane of a node; above the level there is the head alone.
LEMMA SpanIs ==
  ASSUME NEW list, NEW n, NEW order, NEW h, Built(list, n, order, h),
         NEW k \in 0..n, NEW i \in 1..h[k], NEW m, IsNext(h, n, k, i, m)
  PROVE  /\ list.forward[Node(order, k)][i] = NodeOrEnd(order, n, m)
         /\ SpanAt(list, n, Node(order, k), i) = Far(n, k, m)
         /\ i > list.level => m = n + 1 /\ k = 0
<1>1. /\ n \in Nat /\ h \in [0..n -> Nat] /\ list.level \in Nat
      /\ \A j \in 1..n : h[j] <= list.level
  BY HeightsAre
<1>2. m \in (k + 1)..(n + 1) /\ (m <= n => h[m] >= i)
  BY DEF IsNext
<1>3. /\ list.forward[Node(order, k)][i] = NodeOrEnd(order, n, m)
      /\ i <= list.level => list.span[Node(order, k)][i] = Far(n, k, m)
  BY <1>2 DEF Built, Linked
<1>4. i \in Nat /\ h[k] \in Nat /\ h[k] >= i
  BY <1>1
<1>5. ASSUME i > list.level PROVE k = 0 /\ m = n + 1
  <2>1. k = 0
    <3>1. k \in 1..n => h[k] <= list.level
      BY <1>1
    <3>. QED
      BY <1>1, <1>4, <1>5, <3>1
  <2>2. m = n + 1
    <3>1. m # n + 1 => m \in 1..n
      BY <1>1, <1>2
    <3>2. m \in 1..n => h[m] <= list.level /\ h[m] \in Nat /\ h[m] >= i
      BY <1>1, <1>2
    <3>. QED
      BY <1>1, <1>4, <1>5, <3>1, <3>2
  <2>. QED
    BY <2>1, <2>2
<1>6. SpanAt(list, n, Node(order, k), i) = Far(n, k, m)
  <2>1. CASE i > list.level
    BY <1>1, <1>5, <2>1 DEF SpanAt, Far
  <2>2. CASE ~(i > list.level)
    BY <1>1, <1>3, <1>4, <2>2 DEF SpanAt
  <2>. QED
    BY <2>1, <2>2
<1>. QED
  BY <1>3, <1>5, <1>6
-----------------------------------------------------------------------------
(***************************************************************************)
(* Insertion: what Splice does to every part of the list.                  *)
(***************************************************************************)

\* What insert makes of the pointers and spans, place by place.
SplicedAt(list, new, n, order, h, p, member, height, top) ==
  /\ \A k \in 0..n : \A i \in 1..h[k] :
       /\ new.forward[Node(order, k)][i] =
            IF i <= top /\ IsLast(h, p, i, k) /\ i <= height THEN member
            ELSE list.forward[Node(order, k)][i]
       /\ new.span[Node(order, k)][i] =
            IF ~(i <= top /\ IsLast(h, p, i, k)) THEN list.span[Node(order, k)][i]
            ELSE IF i <= height THEN p - k + 1 ELSE list.span[Node(order, k)][i] + 1
  /\ \A i \in 1..height : \A q \in 0..n : IsLast(h, p, i, q) =>
       /\ new.forward[member][i] = list.forward[Node(order, q)][i]
       /\ new.span[member][i] = SpanAt(list, n, Node(order, q), i) - (p - q)

\* And of the nodes and their heights.
SplicedShape(list, new, member, height, top) ==
  /\ new.level = top
  /\ DOMAIN new.forward = DOMAIN list.forward \union {member}
  /\ DOMAIN new.span = DOMAIN list.span \union {member}
  /\ DOMAIN new.forward[member] = 1..height /\ DOMAIN new.span[member] = 1..height
  /\ \A x \in DOMAIN list.forward \ {member} : DOMAIN new.forward[x] = DOMAIN list.forward[x]
  /\ \A x \in DOMAIN list.span \ {member} : DOMAIN new.span[x] = DOMAIN list.span[x]

\* And of the scores.
SplicedScore(score, new, member, s) ==
  /\ DOMAIN new = DOMAIN score \union {member} /\ new[member] = s
  /\ \A m \in DOMAIN score : m # member => new[m] = score[m]

\* What Splice does to each part of an exact list.
LEMMA SpliceFields ==
  ASSUME NEW list, NEW n, NEW order, NEW h, Built(list, n, order, h),
         NEW member \in Members, member \notin DOMAIN list.score, NEW s,
         NEW height \in 1..MaxHeight, NEW p \in 0..n,
         \A k \in 1..n : Less(list.score[order[k]], order[k], s, member) <=> k <= p,
         NEW top, top = IF height > list.level THEN height ELSE list.level
  PROVE  /\ SplicedAt(list, Splice(list, s, member, height), n, order, h, p, member, height, top)
         /\ SplicedShape(list, Splice(list, s, member, height), member, height, top)
         /\ SplicedScore(list.score, Splice(list, s, member, height).score, member, s)
<1>. DEFINE count == Length(list) + 1
            found == Descend(list, Below(list, s, member))
            level == IF height > list.level THEN height ELSE list.level
            path == [i \in 1..level |-> IF i <= list.level THEN found[i]
                                        ELSE [update |-> HeadNode, rank |-> 0]]
            spanAt(x, i) == IF i > list.level THEN count - 1 ELSE list.span[x][i]
            behind(i) == path[1].rank - path[i].rank
            reached(x, i) == i <= level /\ path[i].update = x
            score == [m \in DOMAIN list.score \union {member} |->
                        IF m = member THEN s ELSE list.score[m]]
            forward == [x \in DOMAIN list.forward \union {member} |->
                          IF x = member
                          THEN [i \in 1..height |-> list.forward[path[i].update][i]]
                          ELSE [i \in DOMAIN list.forward[x] |->
                                  IF reached(x, i) /\ i <= height
                                  THEN member ELSE list.forward[x][i]]]
            span == [x \in DOMAIN list.span \union {member} |->
                       IF x = member
                       THEN [i \in 1..height |-> spanAt(path[i].update, i) - behind(i)]
                       ELSE [i \in DOMAIN list.span[x] |->
                               IF ~reached(x, i) THEN list.span[x][i]
                               ELSE IF i <= height THEN behind(i) + 1
                               ELSE Bypassed(list.span[x][i])]]
            new == Splice(list, s, member, height)
<1>1. new = [score |-> score, level |-> level, forward |-> forward, span |-> span]
  BY Zenon DEF Splice
<1>2. new.score = score /\ new.level = level /\ new.forward = forward /\ new.span = span
  <2>. HIDE DEF new, score, level, forward, span
  <2>. QED
    BY <1>1
<1>3. /\ n \in Nat /\ h \in [0..n -> Nat] /\ MaxHeight \in Nat /\ list.level \in 1..MaxHeight
      /\ list.level \in Nat /\ Ordered(list.score, n, order)
  BY HeightsAre
<1>4. /\ DOMAIN list.forward = {Node(order, k) : k \in 0..n} /\ DOMAIN list.span = DOMAIN list.forward
      /\ \A k \in 0..n : /\ DOMAIN list.forward[Node(order, k)] = 1..h[k]
                         /\ DOMAIN list.span[Node(order, k)] = 1..h[k]
  BY DEF Built, Tall
<1>5. level \in list.level..MaxHeight /\ level \in Nat /\ level = top /\ height <= level
      /\ level >= 1 /\ height \in Nat
  BY <1>3
<1>6. count - 1 = n
  <2>1. Length(list) = n
    BY <1>3, LengthIs
  <2>. QED
    BY <1>3, <2>1
<1>7. Leaves(path, n, order, h, p, level)
  <2>1. Splits(list, n, order, Below(list, s, member), p)
    BY SplitsBelow
  <2>2. IsPath(found, list, order, h, p)
    BY <2>1, DescendIs
  <2>3. \A i \in 1..level : path[i] = IF i <= list.level THEN found[i]
                                      ELSE [update |-> HeadNode, rank |-> 0]
    <3>. HIDE DEF found, level
    <3>. QED
      OBVIOUS
  <2>. HIDE DEF found, level, path
  <2>. QED
    BY <1>5, <2>2, <2>3, LeavesIs
<1>. HIDE DEF path, found, level, count
<1>8. ASSUME NEW i \in 1..level, NEW k \in 0..n
      PROVE  /\ path[i].update = Node(order, k) <=> IsLast(h, p, i, k)
             /\ IsLast(h, p, i, k) => path[i].rank = k
  <2>. HIDE DEF score, forward, span, new
  <2>1. h \in [0..n -> Nat] /\ level \in Nat /\ Ordered(list.score, n, order)
    BY <1>3, <1>5
  <2>. QED
    BY <1>7, <2>1, ReachedIs
<1>9. path[1].rank = p
  <2>1. IsLast(h, p, 1, p)
    BY LowestIs
  <2>2. 1 \in 1..level
    BY <1>5
  <2>. QED
    BY <1>8, <2>1, <2>2
<1>10. ASSUME NEW k \in 0..n PROVE Node(order, k) # member /\ Node(order, k) \in DOMAIN list.forward
  <2>1. Node(order, k) # member
    <3>1. member # HeadNode
      BY MembersAre
    <3>2. CASE k = 0
      BY <3>1, <3>2 DEF Node
    <3>3. CASE k # 0
      <4>1. k \in 1..n
        BY <1>3, <3>3
      <4>2. order[k] \in DOMAIN list.score
        BY <1>3, <4>1, OrderIs
      <4>. QED
        BY <3>3, <4>2 DEF Node
    <3>. QED
      BY <3>2, <3>3
  <2>. QED
    BY <1>4, <2>1
<1>11. ASSUME NEW k \in 0..n, NEW i \in 1..h[k]
       PROVE  /\ forward[Node(order, k)][i] =
                   IF reached(Node(order, k), i) /\ i <= height THEN member
                   ELSE list.forward[Node(order, k)][i]
              /\ span[Node(order, k)][i] =
                   IF ~reached(Node(order, k), i) THEN list.span[Node(order, k)][i]
                   ELSE IF i <= height THEN behind(i) + 1 ELSE list.span[Node(order, k)][i] + 1
  <2>. DEFINE x == Node(order, k)
  <2>1. /\ x # member /\ x \in DOMAIN list.forward /\ x \in DOMAIN list.span
        /\ i \in DOMAIN list.forward[x] /\ i \in DOMAIN list.span[x]
    BY <1>4, <1>10, <1>11
  <2>. HIDE DEF x
  <2>. QED
    BY <2>1 DEF Bypassed, x
<1>12. ASSUME NEW k \in 0..n, NEW i \in 1..h[k]
       PROVE  /\ reached(Node(order, k), i) <=> i <= top /\ IsLast(h, p, i, k)
              /\ reached(Node(order, k), i) => behind(i) = p - k
  <2>1. i \in Nat /\ i >= 1
    BY <1>3
  <2>2. i <= level => i \in 1..level
    BY <1>5, <2>1
  <2>. QED
    BY <1>5, <1>8, <1>9, <2>2
<1>13. ASSUME NEW k \in 0..n, NEW i \in 1..h[k]
       PROVE  /\ new.forward[Node(order, k)][i] =
                   IF i <= top /\ IsLast(h, p, i, k) /\ i <= height THEN member
                   ELSE list.forward[Node(order, k)][i]
              /\ new.span[Node(order, k)][i] =
                   IF ~(i <= top /\ IsLast(h, p, i, k)) THEN list.span[Node(order, k)][i]
                   ELSE IF i <= height THEN p - k + 1 ELSE list.span[Node(order, k)][i] + 1
  <2>. HIDE DEF forward, span, reached, behind, new
  <2>. QED
    BY <1>2, <1>11, <1>12
<1>14. ASSUME NEW i \in 1..height, NEW q \in 0..n, IsLast(h, p, i, q)
       PROVE  /\ new.forward[member][i] = list.forward[Node(order, q)][i]
              /\ new.span[member][i] = SpanAt(list, n, Node(order, q), i) - (p - q)
  <2>1. i \in 1..level
    BY <1>5
  <2>2. path[i].update = Node(order, q) /\ path[i].rank = q
    BY <1>8, <1>14, <2>1
  <2>3. /\ forward[member][i] = list.forward[path[i].update][i]
        /\ span[member][i] = spanAt(path[i].update, i) - behind(i)
    OBVIOUS
  <2>4. spanAt(path[i].update, i) = SpanAt(list, n, Node(order, q), i) /\ behind(i) = p - q
    BY <1>6, <1>9, <2>2 DEF SpanAt
  <2>. HIDE DEF forward, span, spanAt, behind, new
  <2>. QED
    BY <1>2, <2>2, <2>3, <2>4
<1>15. SplicedAt(list, new, n, order, h, p, member, height, top)
  <2>. HIDE DEF new
  <2>. QED
    BY <1>13, <1>14 DEF SplicedAt
<1>16. SplicedShape(list, new, member, height, top)
  <2>1. /\ DOMAIN forward = DOMAIN list.forward \union {member}
        /\ DOMAIN span = DOMAIN list.span \union {member}
        /\ DOMAIN forward[member] = 1..height /\ DOMAIN span[member] = 1..height
        /\ \A x \in DOMAIN list.forward \ {member} : DOMAIN forward[x] = DOMAIN list.forward[x]
        /\ \A x \in DOMAIN list.span \ {member} : DOMAIN span[x] = DOMAIN list.span[x]
    OBVIOUS
  <2>. HIDE DEF forward, span, new
  <2>. QED
    BY <1>2, <1>5, <2>1 DEF SplicedShape
<1>17. SplicedScore(list.score, new.score, member, s)
  <2>1. SplicedScore(list.score, score, member, s)
    BY DEF SplicedScore
  <2>. HIDE DEF score, new
  <2>. QED
    BY <1>2, <2>1
<1>. QED
  BY <1>15, <1>16, <1>17
-----------------------------------------------------------------------------
(***************************************************************************)
(* Insertion: the lanes are exact again.                                   *)
(***************************************************************************)

\* Distances in the longer list.
LEMMA FarIs ==
  ASSUME NEW n \in Nat, NEW k \in Nat, NEW m \in Nat
  PROVE  /\ Far(n + 1, k + 1, m + 1) = Far(n, k, m)
         /\ Far(n + 1, k, m + 1) = Far(n, k, m) + 1
         /\ m <= n => Far(n, k, m) = m - k /\ Far(n + 1, k, m) = m - k
         /\ Far(n, k, m) \in Int
BY DEF Far

\* The lanes are exact again.
LEMMA LinkedSpliced ==
  ASSUME NEW list, NEW n, NEW order, NEW h, Built(list, n, order, h),
         NEW member, NEW height \in 1..MaxHeight, NEW p \in 0..n,
         NEW top, top = IF height > list.level THEN height ELSE list.level,
         NEW new, SplicedAt(list, new, n, order, h, p, member, height, top), new.level = top,
         NEW h1 \in [0..(n + 1) -> Nat], Grown(n, p, h, h1), h1[p + 1] = height,
         NEW order1, Widened(n, p, order, order1, member)
  PROVE  Linked(new, n + 1, order1, h1)
<1>1. /\ n \in Nat /\ h \in [0..n -> Nat] /\ MaxHeight \in Nat /\ list.level \in Nat
      /\ h[0] = MaxHeight /\ \A k \in 1..n : h[k] <= list.level
  BY HeightsAre
<1>2. /\ p \in Nat /\ p <= n /\ n \in Nat /\ n + 1 \in Nat
      /\ height \in Nat /\ height <= MaxHeight /\ top \in Nat /\ height <= top
  BY <1>1
<1>3. /\ \A k \in 0..p : h1[k] = h[k] /\ k \in 0..n
      /\ \A k \in (p + 1)..n : h1[k + 1] = h[k]
  BY <1>2 DEF Grown
<1>4. /\ \A k \in 0..p : Node(order1, k) = Node(order, k)
      /\ Node(order1, p + 1) = member
      /\ \A k \in (p + 1)..n : Node(order1, k + 1) = Node(order, k)
      /\ \A m \in 1..p : NodeOrEnd(order1, n + 1, m) = NodeOrEnd(order, n, m)
      /\ NodeOrEnd(order1, n + 1, p + 1) = member
      /\ \A m \in (p + 1)..(n + 1) : NodeOrEnd(order1, n + 1, m + 1) = NodeOrEnd(order, n, m)
  BY <1>1, NodesWidened
<1>. DEFINE Right(k, i, m) ==
              /\ new.forward[Node(order1, k)][i] = NodeOrEnd(order1, n + 1, m)
              /\ i <= new.level => new.span[Node(order1, k)][i] = Far(n + 1, k, m)
<1>5. ASSUME NEW i \in 1..h1[p + 1], NEW m1, IsNext(h1, n + 1, p + 1, i, m1)
      PROVE  Right(p + 1, i, m1)
  <2>1. i \in Nat /\ h[0] >= i /\ i \in 1..height
    BY <1>1, <1>2
  <2>2. PICK q \in 0..p : IsLast(h, p, i, q)
    BY <1>1, <1>2, <2>1, LastExists
  <2>3. q \in 0..n /\ q \in Nat /\ h[q] >= i /\ i \in 1..h[q] /\ q <= p
    BY <1>1, <1>2, <2>1, <2>2 DEF IsLast
  <2>4. PICK m \in (q + 1)..(n + 1) : IsNext(h, n, q, i, m)
    BY <1>1, <2>1, <2>3, NextExists
  <2>5. m > p /\ m \in Nat /\ m \in (p + 1)..(n + 1)
    <3>1. m > p
      BY <1>1, <2>1, <2>2, <2>3, <2>4, LastIsNext
    <3>. QED
      BY <1>2, <2>3, <3>1
  <2>6. IsNext(h1, n + 1, p + 1, i, m + 1)
    BY <1>1, <2>1, <2>3, <2>4, <2>5, NextGrown
  <2>7. m1 = m + 1
    <3>1. p + 1 \in 0..(n + 1)
      BY <1>2
    <3>. QED
      BY <1>2, <1>5, <2>1, <2>6, <3>1, NextUnique
  <2>8. /\ list.forward[Node(order, q)][i] = NodeOrEnd(order, n, m)
        /\ SpanAt(list, n, Node(order, q), i) = Far(n, q, m)
    BY <2>3, <2>4, SpanIs
  <2>9. /\ new.forward[member][i] = NodeOrEnd(order, n, m)
        /\ new.span[member][i] = Far(n, q, m) - (p - q)
    BY <2>1, <2>2, <2>3, <2>8 DEF SplicedAt
  <2>10. Far(n, q, m) - (p - q) = Far(n + 1, p + 1, m + 1)
    BY <1>1, <1>2, <2>3, <2>5 DEF Far
  <2>. QED
    BY <1>4, <2>5, <2>7, <2>9, <2>10
<1>6. ASSUME NEW k \in 0..p, NEW i \in 1..h1[k], NEW m1, IsNext(h1, n + 1, k, i, m1)
      PROVE  Right(k, i, m1)
  <2>1. i \in Nat /\ k \in 0..n /\ i \in 1..h[k] /\ k \in Nat /\ h[k] >= i /\ k \in 0..(n + 1)
    BY <1>1, <1>2, <1>3
  <2>2. PICK m \in (k + 1)..(n + 1) : IsNext(h, n, k, i, m)
    BY <1>1, <2>1, NextExists
  <2>3. m \in Nat /\ k <= p /\ m <= n + 1
    BY <1>1, <2>1, <2>2
  <2>4. IsLast(h, p, i, k) <=> m > p
    BY <1>1, <2>1, <2>2, LastIsNext
  <2>5. /\ list.forward[Node(order, k)][i] = NodeOrEnd(order, n, m)
        /\ SpanAt(list, n, Node(order, k), i) = Far(n, k, m)
        /\ i > list.level => m = n + 1 /\ k = 0
    BY <2>1, <2>2, SpanIs
  <2>6. /\ new.forward[Node(order, k)][i] =
             IF i <= top /\ IsLast(h, p, i, k) /\ i <= height THEN member
             ELSE list.forward[Node(order, k)][i]
        /\ new.span[Node(order, k)][i] =
             IF ~(i <= top /\ IsLast(h, p, i, k)) THEN list.span[Node(order, k)][i]
             ELSE IF i <= height THEN p - k + 1 ELSE list.span[Node(order, k)][i] + 1
    BY <2>1 DEF SplicedAt
  <2>7. /\ m <= p => IsNext(h1, n + 1, k, i, m)
        /\ m > p /\ h1[p + 1] < i => IsNext(h1, n + 1, k, i, m + 1)
        /\ m > p /\ h1[p + 1] >= i => IsNext(h1, n + 1, k, i, p + 1)
    BY <1>1, <2>1, <2>2, <2>3, NextGrown
  <2>8. ASSUME NEW m2, IsNext(h1, n + 1, k, i, m2) PROVE m1 = m2
    BY <1>2, <1>6, <2>1, <2>8, NextUnique
  <2>9. Node(order1, k) = Node(order, k)
    BY <1>4
  <2>10. CASE m <= p
    <3>1. m1 = m /\ m \in 1..p
      BY <1>2, <2>1, <2>2, <2>7, <2>8, <2>10
    <3>2. ~(i > list.level)
      BY <1>2, <2>3, <2>5, <2>10
    <3>3. ~IsLast(h, p, i, k)
      BY <1>2, <2>3, <2>4, <2>10
    <3>4. /\ new.forward[Node(order, k)][i] = NodeOrEnd(order, n, m)
          /\ new.span[Node(order, k)][i] = Far(n, k, m)
      BY <2>5, <2>6, <3>2, <3>3 DEF SpanAt
    <3>5. Far(n, k, m) = Far(n + 1, k, m)
      <4>1. m <= n
        BY <1>2, <2>3, <2>10
      <4>. QED
        BY <1>1, <2>1, <2>3, <4>1, FarIs
    <3>6. NodeOrEnd(order1, n + 1, m) = NodeOrEnd(order, n, m)
      BY <1>4, <3>1
    <3>. QED
      BY <2>9, <3>1, <3>4, <3>5, <3>6
  <2>11. CASE m > p /\ i <= height
    <3>1. m1 = p + 1
      BY <1>2, <2>1, <2>7, <2>8, <2>11
    <3>2. i <= top /\ IsLast(h, p, i, k)
      BY <1>2, <2>1, <2>4, <2>11
    <3>3. new.forward[Node(order, k)][i] = member /\ new.span[Node(order, k)][i] = p - k + 1
      BY <2>6, <2>11, <3>2
    <3>4. Far(n + 1, k, p + 1) = p - k + 1
      BY <1>1, <1>2, <2>1 DEF Far
    <3>. QED
      BY <1>4, <2>9, <3>1, <3>3, <3>4
  <2>12. CASE m > p /\ ~(i <= height)
    <3>1. m1 = m + 1
      BY <1>2, <2>1, <2>7, <2>8, <2>12
    <3>2. IsLast(h, p, i, k) /\ (i <= top => ~(i > list.level))
      <4>1. list.level \in Nat /\ (top = height \/ top = list.level)
        BY <1>1
      <4>. QED
        BY <1>2, <2>1, <2>4, <2>12, <4>1
    <3>3. /\ new.forward[Node(order, k)][i] = NodeOrEnd(order, n, m)
          /\ i <= top => new.span[Node(order, k)][i] = Far(n, k, m) + 1
      BY <2>5, <2>6, <2>12, <3>2 DEF SpanAt
    <3>4. Far(n + 1, k, m + 1) = Far(n, k, m) + 1
      BY <1>1, <2>1, <2>3, FarIs
    <3>5. NodeOrEnd(order1, n + 1, m + 1) = NodeOrEnd(order, n, m)
      <4>1. m \in (p + 1)..(n + 1)
        BY <1>2, <2>3, <2>12
      <4>. QED
        BY <1>4, <4>1
    <3>. QED
      BY <2>9, <3>1, <3>3, <3>4, <3>5
  <2>. QED
    BY <1>2, <2>3, <2>10, <2>11, <2>12
<1>7. ASSUME NEW k \in (p + 1)..n, NEW i \in 1..h1[k + 1], NEW m1,
             IsNext(h1, n + 1, k + 1, i, m1)
      PROVE  Right(k + 1, i, m1)
  <2>1. i \in Nat /\ k \in 0..n /\ i \in 1..h[k] /\ k \in Nat /\ k > p /\ k + 1 \in 0..(n + 1)
    BY <1>1, <1>2, <1>3
  <2>2. PICK m \in (k + 1)..(n + 1) : IsNext(h, n, k, i, m)
    BY <1>1, <2>1, NextExists
  <2>3. m \in Nat /\ m \in (p + 1)..(n + 1)
    BY <1>2, <2>1, <2>2
  <2>4. ~IsLast(h, p, i, k)
    BY <1>2, <2>1 DEF IsLast
  <2>5. /\ list.forward[Node(order, k)][i] = NodeOrEnd(order, n, m)
        /\ SpanAt(list, n, Node(order, k), i) = Far(n, k, m)
        /\ i > list.level => m = n + 1 /\ k = 0
    BY <2>1, <2>2, SpanIs
  <2>6. ~(i > list.level)
    BY <1>2, <2>1, <2>5
  <2>7. /\ new.forward[Node(order, k)][i] = NodeOrEnd(order, n, m)
        /\ new.span[Node(order, k)][i] = Far(n, k, m)
    BY <2>1, <2>4, <2>5, <2>6 DEF SplicedAt, SpanAt
  <2>8. m1 = m + 1
    <3>1. IsNext(h1, n + 1, k + 1, i, m + 1)
      BY <1>1, <2>1, <2>2, NextGrown
    <3>. QED
      BY <1>2, <1>7, <2>1, <3>1, NextUnique
  <2>9. Far(n + 1, k + 1, m + 1) = Far(n, k, m)
    BY <1>1, <2>1, <2>3, FarIs
  <2>. QED
    BY <1>4, <2>3, <2>7, <2>8, <2>9
<1>8. ASSUME NEW k \in 0..(n + 1), NEW i \in 1..h1[k], NEW m \in (k + 1)..(n + 1 + 1),
             IsNext(h1, n + 1, k, i, m)
      PROVE  Right(k, i, m)
  <2>. HIDE DEF Right
  <2>1. k = p + 1 \/ k \in 0..p \/ (k - 1 \in (p + 1)..n /\ (k - 1) + 1 = k)
    BY <1>2
  <2>2. CASE k - 1 \in (p + 1)..n /\ (k - 1) + 1 = k
    <3>. DEFINE j == k - 1
    <3>1. j \in (p + 1)..n /\ j + 1 = k
      BY <2>2
    <3>. HIDE DEF j
    <3>. QED
      BY <1>7, <1>8, <3>1
  <2>. QED
    BY <1>5, <1>6, <1>8, <2>1, <2>2
<1>. QED
  BY <1>8 DEF Linked
-----------------------------------------------------------------------------
(***************************************************************************)
(* Insertion: the result is an exact list.                                 *)
(***************************************************************************)

\* The top lane in use is not empty.
TopUsed(list) == list.level > 1 => list.forward[HeadNode][list.level] # End

\* The nodes are as high as the heights say.
LEMMA TallSpliced ==
  ASSUME NEW list, NEW n, NEW order, NEW h, Built(list, n, order, h),
         NEW member \in Members, member \notin DOMAIN list.score,
         NEW height \in 1..MaxHeight, NEW p \in 0..n,
         NEW top, top = IF height > list.level THEN height ELSE list.level,
         NEW new, SplicedShape(list, new, member, height, top),
         NEW h1 \in [0..(n + 1) -> 1..MaxHeight], Grown(n, p, h, h1), h1[p + 1] = height,
         NEW order1, Widened(n, p, order, order1, member)
  PROVE  Tall(new, n + 1, order1, h1)
<1>1. /\ n \in Nat /\ h \in [0..n -> Nat] /\ MaxHeight \in Nat /\ list.level \in 1..MaxHeight
      /\ h[0] = MaxHeight /\ \A k \in 1..n : h[k] <= list.level
  BY HeightsAre
<1>2. /\ p \in Nat /\ p <= n /\ n + 1 \in Nat /\ height \in Nat /\ list.level \in Nat
      /\ top \in 1..MaxHeight /\ height <= top /\ list.level <= top /\ top \in Nat
  <2>1. /\ n \in Nat /\ MaxHeight \in Nat /\ list.level \in 1..MaxHeight
    BY <1>1
  <2>2. p \in Nat /\ p <= n /\ n + 1 \in Nat /\ height \in Nat /\ list.level \in Nat
    BY <2>1
  <2>3. CASE height > list.level
    BY <2>1, <2>2, <2>3
  <2>4. CASE ~(height > list.level)
    BY <2>1, <2>2, <2>4
  <2>. QED
    BY <2>3, <2>4
<1>3. /\ \A k \in 0..p : h1[k] = h[k] /\ k \in 0..n
      /\ \A k \in (p + 1)..n : h1[k + 1] = h[k] /\ k \in 0..n
  BY <1>1, <1>2 DEF Grown
<1>4. /\ \A k \in 0..p : Node(order1, k) = Node(order, k)
      /\ Node(order1, p + 1) = member
      /\ \A k \in (p + 1)..n : Node(order1, k + 1) = Node(order, k)
  BY <1>1, NodesWidened
<1>5. /\ DOMAIN list.forward = {Node(order, k) : k \in 0..n} /\ DOMAIN list.span = DOMAIN list.forward
      /\ \A k \in 0..n : /\ DOMAIN list.forward[Node(order, k)] = 1..h[k]
                         /\ DOMAIN list.span[Node(order, k)] = 1..h[k]
  BY DEF Built, Tall
<1>6. ASSUME NEW k \in 0..n PROVE Node(order, k) # member
  <2>1. member # HeadNode
    BY MembersAre
  <2>2. CASE k = 0
    BY <2>1, <2>2 DEF Node
  <2>3. CASE k # 0
    <3>1. k \in 1..n
      BY <1>1, <2>3
    <3>2. order[k] \in DOMAIN list.score
      BY <3>1, OrderIs DEF Built
    <3>. QED
      BY <2>3, <3>2 DEF Node
  <2>. QED
    BY <2>2, <2>3
<1>7. ASSUME NEW k \in 0..n
      PROVE  /\ DOMAIN new.forward[Node(order, k)] = 1..h[k]
             /\ DOMAIN new.span[Node(order, k)] = 1..h[k]
  <2>1. Node(order, k) \in DOMAIN list.forward /\ Node(order, k) \in DOMAIN list.span
    BY <1>5
  <2>. QED
    BY <1>5, <1>6, <2>1 DEF SplicedShape
<1>8. \A k \in 0..(n + 1) : k = p + 1 \/ k \in 0..p \/ (k - 1 \in (p + 1)..n /\ (k - 1) + 1 = k)
  BY <1>1, <1>2
<1>9. ASSUME NEW k \in 0..(n + 1)
      PROVE  /\ DOMAIN new.forward[Node(order1, k)] = 1..h1[k]
             /\ DOMAIN new.span[Node(order1, k)] = 1..h1[k]
             /\ Node(order1, k) \in DOMAIN list.forward \union {member}
  <2>1. CASE k = p + 1
    BY <1>4, <2>1 DEF SplicedShape
  <2>2. CASE k \in 0..p
    BY <1>3, <1>4, <1>5, <1>7, <2>2
  <2>3. CASE k - 1 \in (p + 1)..n /\ (k - 1) + 1 = k
    <3>. DEFINE j == k - 1
    <3>1. j \in (p + 1)..n /\ j + 1 = k
      BY <2>3
    <3>. HIDE DEF j
    <3>2. h1[j + 1] = h[j] /\ j \in 0..n /\ Node(order1, j + 1) = Node(order, j)
      BY <1>3, <1>4, <3>1
    <3>. QED
      BY <1>5, <1>7, <3>1, <3>2
  <2>. QED
    BY <1>8, <2>1, <2>2, <2>3
<1>10. DOMAIN new.forward = {Node(order1, k) : k \in 0..(n + 1)}
  <2>1. ASSUME NEW x \in DOMAIN new.forward PROVE \E k \in 0..(n + 1) : x = Node(order1, k)
    <3>1. CASE x = member
      <4>1. p + 1 \in 0..(n + 1)
        BY <1>1, <1>2
      <4>. QED
        BY <1>4, <3>1, <4>1
    <3>2. CASE x # member
      <4>1. x \in DOMAIN list.forward
        BY <3>2 DEF SplicedShape
      <4>2. PICK k \in 0..n : x = Node(order, k)
        BY <1>5, <4>1
      <4>3. /\ k \in 0..p \/ k \in (p + 1)..n
            /\ k \in 0..(n + 1) /\ k + 1 \in 0..(n + 1)
        BY <1>1, <1>2
      <4>. QED
        BY <1>4, <4>2, <4>3
    <3>. QED
      BY <3>1, <3>2
  <2>2. ASSUME NEW k \in 0..(n + 1) PROVE Node(order1, k) \in DOMAIN new.forward
    BY <1>9 DEF SplicedShape
  <2>. QED
    BY <2>1, <2>2
<1>11. DOMAIN new.span = DOMAIN new.forward /\ new.level = top
  BY <1>5 DEF SplicedShape
<1>12. ASSUME NEW k \in 1..(n + 1) PROVE h1[k] <= new.level
  <2>0. k \in 0..(n + 1)
    BY <1>2
  <2>1. CASE k = p + 1
    BY <1>2, <1>11, <2>1
  <2>2. CASE k \in 0..p
    <3>1. k \in 1..n
      BY <1>1, <1>2, <2>2
    <3>2. h1[k] = h[k] /\ h[k] <= list.level /\ h[k] \in Nat
      BY <1>1, <1>3, <2>2, <3>1
    <3>. QED
      BY <1>2, <1>11, <3>2
  <2>3. CASE k - 1 \in (p + 1)..n /\ (k - 1) + 1 = k
    <3>. DEFINE j == k - 1
    <3>1. j \in (p + 1)..n /\ j + 1 = k
      BY <2>3
    <3>. HIDE DEF j
    <3>2. j \in 1..n /\ j \in 0..n /\ h1[k] = h[j]
      <4>1. j \in 1..n /\ j \in 0..n
        BY <1>1, <1>2, <3>1
      <4>. QED
        BY <1>3, <3>1, <4>1
    <3>3. h[j] <= list.level /\ h[j] \in Nat
      BY <1>1, <3>2
    <3>. QED
      BY <1>2, <1>11, <3>2, <3>3
  <2>. QED
    BY <1>8, <2>0, <2>1, <2>2, <2>3
<1>13. h1[0] = MaxHeight
  <2>1. 0 \in 0..p
    BY <1>2
  <2>. QED
    BY <1>1, <1>3, <2>1
<1>. QED
  BY <1>2, <1>9, <1>10, <1>11, <1>12, <1>13 DEF Tall

\* insert puts a node in the list: the list stays exact.
LEMMA SpliceIs ==
  ASSUME NEW list, NEW n, NEW order, NEW h, Built(list, n, order, h), TopUsed(list),
         NEW member \in Members, member \notin DOMAIN list.score, NEW s \in Int,
         NEW height \in 1..MaxHeight
  PROVE  \E order1, h1 : /\ Built(Splice(list, s, member, height), n + 1, order1, h1)
                         /\ TopUsed(Splice(list, s, member, height))
<1>. DEFINE new == Splice(list, s, member, height)
            top == IF height > list.level THEN height ELSE list.level
<1>1. /\ n \in Nat /\ h \in [0..n -> 1..MaxHeight] /\ MaxHeight \in Nat
      /\ list.level \in 1..MaxHeight /\ Ordered(list.score, n, order)
      /\ order \in [1..n -> Members] /\ h[0] = MaxHeight
  <2>1. /\ n \in Nat /\ MaxHeight \in Nat /\ list.level \in 1..MaxHeight
        /\ Ordered(list.score, n, order) /\ h[0] = MaxHeight
    BY HeightsAre
  <2>2. h \in [0..n -> 1..MaxHeight] /\ order \in [1..n -> Members]
    BY DEF Built, Tall, Ordered
  <2>. QED
    BY <2>1, <2>2
<1>2. PICK p \in 0..n : \A k \in 1..n : Less(list.score[order[k]], order[k], s, member) <=> k <= p
  <2>1. member \in Int
    BY MembersAre
  <2>. QED
    BY <1>1, <2>1, PlaceOf
<1>3. /\ SplicedAt(list, new, n, order, h, p, member, height, top)
      /\ SplicedShape(list, new, member, height, top)
      /\ SplicedScore(list.score, new.score, member, s)
  BY <1>2, SpliceFields
<1>. DEFINE order1 == [k \in 1..(n + 1) |-> IF k <= p THEN order[k] ELSE IF k = p + 1 THEN member
                                            ELSE order[k - 1]]
            h1 == [k \in 0..(n + 1) |-> IF k <= p THEN h[k] ELSE IF k = p + 1 THEN height
                                        ELSE h[k - 1]]
<1>4. p \in Nat /\ p <= n
  BY <1>1
<1>5. ASSUME NEW k \in 0..(n + 1)
      PROVE  \/ k <= p /\ k \in 0..n /\ k \in 0..p /\ ~(k > p)
             \/ k = p + 1 /\ ~(k <= p)
             \/ ~(k <= p) /\ k # p + 1 /\ k - 1 \in 0..n /\ k - 1 \in 1..n
  BY <1>1, <1>4
<1>6. h1 \in [0..(n + 1) -> 1..MaxHeight]
  <2>1. ASSUME NEW k \in 0..(n + 1)
        PROVE  (IF k <= p THEN h[k] ELSE IF k = p + 1 THEN height ELSE h[k - 1]) \in 1..MaxHeight
    BY <1>1, <1>5
  <2>. QED
    BY <2>1
<1>7. order1 \in [1..(n + 1) -> Members]
  <2>1. ASSUME NEW k \in 1..(n + 1)
        PROVE  (IF k <= p THEN order[k] ELSE IF k = p + 1 THEN member ELSE order[k - 1]) \in Members
    <3>1. k \in 0..(n + 1) /\ (k \in 0..n => k \in 1..n)
      BY <1>1
    <3>. QED
      BY <1>1, <1>5, <3>1
  <2>. QED
    BY <2>1
<1>8. Grown(n, p, h, h1) /\ h1[p + 1] = height
  <2>1. ASSUME NEW k \in 0..p PROVE h1[k] = h[k]
    BY <1>1, <1>4
  <2>2. ASSUME NEW k \in (p + 1)..n PROVE h1[k + 1] = h[k]
    <3>1. k + 1 \in 0..(n + 1) /\ ~(k + 1 <= p) /\ k + 1 # p + 1 /\ (k + 1) - 1 = k
      BY <1>1, <1>4
    <3>. QED
      BY <3>1
  <2>3. h1[p + 1] = height
    <3>1. p + 1 \in 0..(n + 1) /\ ~(p + 1 <= p)
      BY <1>1, <1>4
    <3>. QED
      BY <3>1
  <2>. HIDE DEF h1
  <2>. QED
    BY <2>1, <2>2, <2>3 DEF Grown
<1>9. Widened(n, p, order, order1, member)
  <2>1. ASSUME NEW k \in 1..p PROVE order1[k] = order[k]
    BY <1>1, <1>4
  <2>2. ASSUME NEW k \in (p + 1)..n PROVE order1[k + 1] = order[k]
    <3>1. k + 1 \in 1..(n + 1) /\ ~(k + 1 <= p) /\ k + 1 # p + 1 /\ (k + 1) - 1 = k
      BY <1>1, <1>4
    <3>. QED
      BY <3>1
  <2>3. order1[p + 1] = member
    <3>1. p + 1 \in 1..(n + 1) /\ ~(p + 1 <= p)
      BY <1>1, <1>4
    <3>. QED
      BY <3>1
  <2>. HIDE DEF order1
  <2>. QED
    BY <2>1, <2>2, <2>3 DEF Widened
<1>. HIDE DEF order1, h1, new
<1>10. new.level = top
  BY <1>3 DEF SplicedShape
<1>11. Tall(new, n + 1, order1, h1)
  BY <1>3, <1>6, <1>8, <1>9, TallSpliced
<1>12. Linked(new, n + 1, order1, h1)
  <2>1. h1 \in [0..(n + 1) -> Nat]
    BY <1>1, <1>6
  <2>. HIDE DEF top
  <2>2. top = IF height > list.level THEN height ELSE list.level
    BY DEF top
  <2>. QED
    BY <1>3, <1>8, <1>9, <1>10, <2>1, <2>2, LinkedSpliced
<1>13. Ordered(new.score, n + 1, order1)
  <2>1. /\ DOMAIN new.score = DOMAIN list.score \union {member} /\ new.score[member] = s
        /\ \A m \in DOMAIN list.score : new.score[m] = list.score[m]
    BY <1>3 DEF SplicedScore
  <2>. QED
    BY <1>1, <1>2, <1>7, <1>9, <2>1, OrderWidened
<1>14. TopUsed(new)
  <2>1. ASSUME new.level > 1 PROVE new.forward[HeadNode][new.level] # End
    <3>1. /\ 0 \in 0..n /\ top \in 1..h[0] /\ Node(order, 0) = HeadNode
          /\ top \in Nat /\ height \in Nat /\ list.level \in Nat
      BY <1>1 DEF Node
    <3>2. new.forward[HeadNode][top] =
             IF top <= top /\ IsLast(h, p, top, 0) /\ top <= height THEN member
             ELSE list.forward[HeadNode][top]
      BY <1>3, <3>1 DEF SplicedAt
    <3>3. member # End
      BY MembersAre
    <3>4. CASE height > list.level
      <4>1. IsLast(h, p, top, 0)
        <5>1. ASSUME NEW j \in (0 + 1)..p PROVE h[j] < top
          <6>1. j \in 1..n /\ h[j] \in Nat
            BY <1>1, <1>4
          <6>2. h[j] <= list.level
            BY <6>1, HeightsAre
          <6>. QED
            BY <3>1, <3>4, <6>1, <6>2
        <5>2. h[0] >= top /\ 0 \in 0..p
          BY <1>1, <1>4
        <5>. QED
          BY <5>1, <5>2 DEF IsLast
      <4>. QED
        BY <1>10, <3>1, <3>2, <3>3, <3>4, <4>1
    <3>5. CASE ~(height > list.level)
      <4>1. top = list.level /\ list.level > 1
        BY <1>10, <2>1, <3>5
      <4>2. list.forward[HeadNode][top] # End
        BY <4>1 DEF TopUsed
      <4>. QED
        BY <1>10, <3>2, <3>3, <4>2
    <3>. QED
      BY <3>4, <3>5
  <2>. QED
    BY <2>1 DEF TopUsed
<1>15. Built(new, n + 1, order1, h1)
  BY <1>11, <1>12, <1>13 DEF Built
<1>. QED
  BY <1>14, <1>15 DEF new
-----------------------------------------------------------------------------
(***************************************************************************)
(* Removal: what RemoveMember does to every part of the list.              *)
(***************************************************************************)

\* The level is lowered to the highest lane that is not empty.
LEMMA LoweredIs ==
  ASSUME NEW forward, NEW level \in Nat, level >= 1
  PROVE  /\ Lowered(forward, level) \in 1..level
         /\ Lowered(forward, level) > 1 => forward[HeadNode][Lowered(forward, level)] # End
         /\ \A i \in 2..level : forward[HeadNode][i] # End => i <= Lowered(forward, level)
<1>. DEFINE used == {i \in 2..level : forward[HeadNode][i] # End}
<1>1. CASE used = {}
  <2>1. Lowered(forward, level) = 1
    BY <1>1 DEF Lowered
  <2>. QED
    BY <1>1, <2>1
<1>2. CASE used # {}
  <2>. DEFINE S == {d \in 0..level : level - d \in used}
  <2>1. S \in SUBSET Nat /\ S # {}
    <3>1. \A d \in S : d \in Nat
      OBVIOUS
    <3>2. PICK i \in used : TRUE
      BY <1>2
    <3>3. i \in Nat /\ level - i \in 0..level /\ level - (level - i) = i
      OBVIOUS
    <3>4. level - i \in S
      BY <3>2, <3>3
    <3>. HIDE DEF S
    <3>. QED
      BY <3>1, <3>4
  <2>2. PICK d \in S : \A e \in S : d <= e
    <3>. HIDE DEF S
    <3>. QED
      BY <2>1, Counting!LeastNumber
  <2>. DEFINE top == level - d
  <2>3. top \in used /\ d \in 0..level
    BY <2>2
  <2>4. ASSUME NEW j \in used PROVE j <= top
    <3>1. j \in 2..level /\ level - j \in 0..level /\ level - (level - j) = j
      OBVIOUS
    <3>2. level - j \in S
      BY <3>1
    <3>3. d <= level - j
      BY <2>2, <3>2
    <3>. QED
      BY <2>3, <3>1, <3>3
  <2>. DEFINE low == Lowered(forward, level)
  <2>5. low = CHOOSE i \in used : \A j \in used : j <= i
    BY <1>2 DEF Lowered
  <2>6. low \in used /\ \A j \in used : j <= low
    <3>. HIDE DEF used, top, low
    <3>. QED
      BY <2>3, <2>4, <2>5
  <2>7. low \in 2..level /\ forward[HeadNode][low] # End
    BY <2>6
  <2>. HIDE DEF low
  <2>8. low \in 1..level
    BY <2>7
  <2>9. \A i \in 2..level : forward[HeadNode][i] # End => i <= low
    BY <2>6
  <2>. QED
    BY <2>7, <2>8, <2>9 DEF low
<1>. QED
  BY <1>1, <1>2

\* What remove makes of the pointers and spans, place by place.
RemovedAt(list, new, n, order, h, p, member) ==
  \A k \in 0..(n + 1) : k # p + 1 => \A i \in 1..h[k] :
    /\ new.forward[Node(order, k)][i] =
         IF /\ i <= list.level /\ IsLast(h, p, i, k)
            /\ list.forward[Node(order, k)][i] = member
         THEN list.forward[member][i] ELSE list.forward[Node(order, k)][i]
    /\ new.span[Node(order, k)][i] =
         IF ~(i <= list.level /\ IsLast(h, p, i, k)) THEN list.span[Node(order, k)][i]
         ELSE IF list.forward[Node(order, k)][i] = member
         THEN list.span[Node(order, k)][i] + list.span[member][i] - 1
         ELSE list.span[Node(order, k)][i] - 1

\* And of the nodes, their heights and the scores.
RemovedShape(list, new, member) ==
  /\ new.level = Lowered(new.forward, list.level)
  /\ DOMAIN new.forward = DOMAIN list.forward \ {member}
  /\ DOMAIN new.span = DOMAIN list.forward \ {member}
  /\ \A x \in DOMAIN list.forward \ {member} :
       /\ DOMAIN new.forward[x] = DOMAIN list.forward[x]
       /\ DOMAIN new.span[x] = DOMAIN list.span[x]

\* The scores without those of a member.
RemovedScore(score, new, member) ==
  /\ DOMAIN new = DOMAIN score \ {member}
  /\ \A m \in DOMAIN score \ {member} : new[m] = score[m]

\* What RemoveMember does to each part of an exact list.
LEMMA RemoveFields ==
  ASSUME NEW list, NEW n \in Nat, NEW order, NEW h, Built(list, n + 1, order, h),
         NEW p \in 0..n, NEW member, member = order[p + 1]
  PROVE  /\ RemovedAt(list, RemoveMember(list, member), n, order, h, p, member)
         /\ RemovedShape(list, RemoveMember(list, member), member)
         /\ RemovedScore(list.score, RemoveMember(list, member).score, member)
<1>. DEFINE path == Descend(list, Below(list, list.score[member], member))
            score == [m \in DOMAIN list.score \ {member} |-> list.score[m]]
            reached(x, i) == i <= list.level /\ path[i].update = x
            left == DOMAIN list.forward \ {member}
            forward == [x \in left |-> [i \in DOMAIN list.forward[x] |->
                          IF reached(x, i) /\ list.forward[x][i] = member
                          THEN list.forward[member][i] ELSE list.forward[x][i]]]
            span == [x \in left |-> [i \in DOMAIN list.span[x] |->
                       IF ~reached(x, i) THEN list.span[x][i]
                       ELSE IF list.forward[x][i] = member
                       THEN list.span[x][i] + list.span[member][i] - 1
                       ELSE list.span[x][i] - 1]]
            new == RemoveMember(list, member)
            last == n + 1
<1>0. last \in Nat /\ p \in Nat /\ p + 1 \in 1..last /\ p + 1 \in 0..last /\ p \in 0..last /\ p < last
  OBVIOUS
<1>1. Built(list, last, order, h)
  OBVIOUS
<1>. HIDE DEF last
<1>2. /\ h \in [0..last -> Nat] /\ list.level \in Nat /\ list.level >= 1
      /\ Ordered(list.score, last, order)
  BY <1>1, HeightsAre
<1>3. /\ DOMAIN list.forward = {Node(order, k) : k \in 0..last}
      /\ DOMAIN list.span = DOMAIN list.forward
      /\ \A k \in 0..last : /\ DOMAIN list.forward[Node(order, k)] = 1..h[k]
                            /\ DOMAIN list.span[Node(order, k)] = 1..h[k]
  BY <1>1 DEF Built, Tall
<1>4. Node(order, p + 1) = member /\ NodeOrEnd(order, last, p + 1) \in {member, End}
  BY <1>0 DEF Node, NodeOrEnd
<1>5. ASSUME NEW k \in 1..last
      PROVE  Less(list.score[order[k]], order[k], list.score[member], member) <=> k <= p
  <2>. DEFINE a == list.score[order[k]]
              b == order[k]
              c == list.score[member]
  <2>1. a \in Int /\ b \in Int /\ c \in Int /\ member \in Int
    BY <1>0, <1>2, OrderIs
  <2>2. k < p + 1 => Less(a, b, c, member)
    BY <1>0, <1>2, OrderIs
  <2>3. p + 1 < k => Less(c, member, a, b)
    BY <1>0, <1>2, OrderIs
  <2>4. k = p + 1 => a = c /\ b = member
    OBVIOUS
  <2>5. k \in Nat /\ (k < p + 1 <=> k <= p)
    BY <1>0
  <2>. HIDE DEF a, b, c
  <2>6. ~Less(c, member, c, member) /\ ~(Less(a, b, c, member) /\ Less(c, member, a, b))
    BY <2>1 DEF Less
  <2>7. Less(a, b, c, member) <=> k <= p
    BY <1>0, <2>2, <2>3, <2>4, <2>5, <2>6
  <2>. QED
    BY <2>7 DEF a, b, c
<1>6. Leaves(path, last, order, h, p, list.level)
  <2>. DEFINE s == list.score[member]
  <2>1. \A k \in 1..last : Less(list.score[order[k]], order[k], s, member) <=> k <= p
    BY <1>5
  <2>. HIDE DEF s
  <2>2. Splits(list, last, order, Below(list, s, member), p)
    BY <1>0, <1>1, <2>1, SplitsBelow
  <2>3. IsPath(path, list, order, h, p)
    BY <1>1, <2>2, DescendIs DEF s
  <2>. HIDE DEF path
  <2>4. \A i \in 1..list.level : path[i] = IF i <= list.level THEN path[i]
                                           ELSE [update |-> HeadNode, rank |-> 0]
    BY <1>2
  <2>5. list.level \in list.level..MaxHeight
    BY <1>1, HeightsAre
  <2>. QED
    BY <1>0, <1>1, <2>3, <2>4, <2>5, LeavesIs
<1>7. list.forward[path[1].update][1] = member
  <2>. HIDE DEF path
  <2>1. IsLast(h, p, 1, p) /\ IsNext(h, last, p, 1, p + 1)
    BY <1>0, <1>1, LowestIs
  <2>2. 1 \in 1..list.level
    BY <1>2
  <2>3. path[1].update = Node(order, p)
    <3>. HIDE DEF score, forward, span, new, reached, left
    <3>1. /\ h \in [0..last -> Nat] /\ list.level \in Nat /\ Ordered(list.score, last, order)
          /\ p \in 0..last
      BY <1>0, <1>2
    <3>2. path[1].update = Node(order, p) <=> IsLast(h, p, 1, p)
      BY <1>6, <2>2, <3>1, ReachedIs
    <3>. QED
      BY <2>1, <3>2
  <2>4. 1 \in 1..h[p]
    BY <1>0, <1>2, <2>1 DEF IsLast
  <2>5. list.forward[Node(order, p)][1] = NodeOrEnd(order, last, p + 1)
    BY <1>0, <1>1, <2>1, <2>4, SpanIs
  <2>6. NodeOrEnd(order, last, p + 1) = member
    BY <1>0 DEF NodeOrEnd
  <2>. QED
    BY <2>3, <2>5, <2>6
<1>8. new = [score |-> score, level |-> Lowered(forward, list.level), forward |-> forward,
             span |-> span]
  <2>1. new = IF list.forward[path[1].update][1] # member THEN [list EXCEPT !.score = score]
              ELSE [score |-> score, level |-> Lowered(forward, list.level),
                    forward |-> forward, span |-> span]
    BY Zenon DEF RemoveMember
  <2>. HIDE DEF new, path, score, forward, span
  <2>. QED
    BY <1>7, <2>1
<1>9. /\ new.score = score /\ new.level = Lowered(forward, list.level)
      /\ new.forward = forward /\ new.span = span
  <2>. HIDE DEF new, score, forward, span
  <2>. QED
    BY <1>8
<1>. HIDE DEF path, new
<1>10. ASSUME NEW k \in 0..last, k # p + 1, NEW i \in 1..h[k]
       PROVE  /\ new.forward[Node(order, k)][i] =
                   IF /\ i <= list.level /\ IsLast(h, p, i, k)
                      /\ list.forward[Node(order, k)][i] = member
                   THEN list.forward[member][i] ELSE list.forward[Node(order, k)][i]
              /\ new.span[Node(order, k)][i] =
                   IF ~(i <= list.level /\ IsLast(h, p, i, k)) THEN list.span[Node(order, k)][i]
                   ELSE IF list.forward[Node(order, k)][i] = member
                   THEN list.span[Node(order, k)][i] + list.span[member][i] - 1
                   ELSE list.span[Node(order, k)][i] - 1
  <2>. DEFINE x == Node(order, k)
  <2>1. x # member /\ x \in DOMAIN list.forward
    <3>1. x # Node(order, p + 1)
      BY <1>0, <1>2, <1>10, PlaceIs
    <3>. QED
      BY <1>3, <1>4, <3>1
  <2>2. i \in DOMAIN list.forward[x] /\ i \in DOMAIN list.span[x]
    BY <1>3
  <2>3. reached(x, i) <=> i <= list.level /\ IsLast(h, p, i, k)
    <3>1. i \in Nat /\ i >= 1
      BY <1>2
    <3>2. i <= list.level => i \in 1..list.level
      BY <1>2, <3>1
    <3>3. i \in 1..list.level => (path[i].update = x <=> IsLast(h, p, i, k))
      <4>. HIDE DEF score, forward, span, reached, left
      <4>1. /\ h \in [0..last -> Nat] /\ list.level \in Nat /\ Ordered(list.score, last, order)
            /\ p \in 0..last /\ k \in 0..last
        BY <1>0, <1>2
      <4>. QED
        BY <1>6, <4>1, ReachedIs
    <3>. QED
      BY <3>2, <3>3
  <2>. HIDE DEF x, reached
  <2>4. /\ forward[x][i] = IF reached(x, i) /\ list.forward[x][i] = member
                           THEN list.forward[member][i] ELSE list.forward[x][i]
        /\ span[x][i] = IF ~reached(x, i) THEN list.span[x][i]
                        ELSE IF list.forward[x][i] = member
                        THEN list.span[x][i] + list.span[member][i] - 1
                        ELSE list.span[x][i] - 1
    BY <2>1, <2>2
  <2>. HIDE DEF forward, span
  <2>. QED
    BY <1>9, <2>3, <2>4 DEF x
<1>11. RemovedAt(list, new, n, order, h, p, member)
  <2>1. \A k \in 0..(n + 1) : k \in 0..last
    BY DEF last
  <2>. QED
    BY <1>10, <2>1 DEF RemovedAt
<1>12. RemovedShape(list, new, member)
  <2>1. /\ DOMAIN forward = DOMAIN list.forward \ {member}
        /\ DOMAIN span = DOMAIN list.forward \ {member}
        /\ \A x \in DOMAIN list.forward \ {member} :
             /\ DOMAIN forward[x] = DOMAIN list.forward[x]
             /\ DOMAIN span[x] = DOMAIN list.span[x]
    OBVIOUS
  <2>. HIDE DEF forward, span
  <2>. QED
    BY <1>9, <2>1 DEF RemovedShape
<1>13. RemovedScore(list.score, new.score, member)
  <2>1. RemovedScore(list.score, score, member)
    BY DEF RemovedScore
  <2>. HIDE DEF score
  <2>. QED
    BY <1>9, <2>1
<1>. QED
  BY <1>11, <1>12, <1>13 DEF new
-----------------------------------------------------------------------------
(***************************************************************************)
(* Removal: the lanes are exact again.                                     *)
(***************************************************************************)

\* The lanes are exact again.
LEMMA LinkedRemoved ==
  ASSUME NEW list, NEW n \in Nat, NEW order1, NEW h1, Built(list, n + 1, order1, h1),
         NEW p \in 0..n, NEW member, member = order1[p + 1],
         NEW new, RemovedAt(list, new, n, order1, h1, p, member), new.level \in Nat,
         new.level <= list.level,
         NEW h0 \in [0..n -> Nat], Grown(n, p, h0, h1),
         NEW order0, Widened(n, p, order0, order1, member)
  PROVE  Linked(new, n, order0, h0)
<1>0. n + 1 \in Nat /\ p \in Nat /\ p <= n /\ p + 1 \in 0..(n + 1) /\ p + 1 \in 1..(n + 1)
      /\ p \in 0..(n + 1)
  OBVIOUS
<1>. DEFINE last == n + 1
<1>1. /\ h1 \in [0..last -> Nat] /\ list.level \in Nat
      /\ \A k \in 1..last : h1[k] <= list.level /\ h1[k] \in Nat
      /\ Ordered(list.score, last, order1)
  <2>1. Built(list, last, order1, h1)
    OBVIOUS
  <2>2. last \in Nat
    OBVIOUS
  <2>. HIDE DEF last
  <2>3. /\ h1 \in [0..last -> Nat] /\ list.level \in Nat
        /\ \A k \in 1..last : h1[k] <= list.level
        /\ Ordered(list.score, last, order1)
    BY <2>1, HeightsAre
  <2>4. \A k \in 1..last : k \in 0..last
    BY <2>2
  <2>. QED
    BY <2>3, <2>4
<1>2. /\ \A k \in 0..p : h1[k] = h0[k]
      /\ \A k \in (p + 1)..n : h1[k + 1] = h0[k]
  BY DEF Grown
<1>3. /\ \A k \in 0..p : Node(order1, k) = Node(order0, k)
      /\ Node(order1, p + 1) = member
      /\ \A k \in (p + 1)..n : Node(order1, k + 1) = Node(order0, k)
      /\ \A m \in 1..p : NodeOrEnd(order1, n + 1, m) = NodeOrEnd(order0, n, m)
      /\ NodeOrEnd(order1, n + 1, p + 1) = member
      /\ \A m \in (p + 1)..(n + 1) : NodeOrEnd(order1, n + 1, m + 1) = NodeOrEnd(order0, n, m)
  BY NodesWidened
<1>4. ASSUME NEW k \in 0..(n + 1), NEW i \in 1..h1[k], NEW m, IsNext(h1, n + 1, k, i, m)
      PROVE  /\ list.forward[Node(order1, k)][i] = NodeOrEnd(order1, n + 1, m)
             /\ i <= list.level => list.span[Node(order1, k)][i] = Far(n + 1, k, m)
             /\ k <= p => (IsLast(h1, p, i, k) <=> m > p)
  <2>. HIDE DEF last
  <2>1. /\ list.forward[Node(order1, k)][i] = NodeOrEnd(order1, last, m)
        /\ SpanAt(list, last, Node(order1, k), i) = Far(last, k, m)
    BY <1>4, SpanIs DEF last
  <2>2. i <= list.level => list.span[Node(order1, k)][i] = Far(last, k, m)
    BY <1>1, <2>1 DEF SpanAt
  <2>3. ASSUME k <= p PROVE IsLast(h1, p, i, k) <=> m > p
    <3>1. /\ last \in Nat /\ p \in 0..last /\ k \in 0..last /\ k \in 0..p /\ i \in Nat
          /\ IsNext(h1, last, k, i, m)
      BY <1>0, <1>1, <1>4, <2>3 DEF last
    <3>2. h1[k] \in Nat /\ h1[k] >= i
      BY <1>1, <3>1
    <3>. QED
      BY <1>1, <3>1, <3>2, LastIsNext
  <2>. QED
    BY <2>1, <2>2, <2>3 DEF last
<1>5. ASSUME NEW k \in 0..n, NEW i \in 1..h0[k], NEW m \in (k + 1)..(n + 1),
             IsNext(h0, n, k, i, m)
      PROVE  /\ new.forward[Node(order0, k)][i] = NodeOrEnd(order0, n, m)
             /\ i <= new.level => new.span[Node(order0, k)][i] = Far(n, k, m)
  <2>0. i \in Nat /\ k \in Nat /\ m \in Nat /\ m <= n + 1 /\ h0[k] >= i
    OBVIOUS
  <2>1. /\ k > p => IsNext(h1, n + 1, k + 1, i, m + 1)
        /\ k <= p /\ m <= p => IsNext(h1, n + 1, k, i, m)
        /\ k <= p /\ m > p /\ h1[p + 1] < i => IsNext(h1, n + 1, k, i, m + 1)
        /\ k <= p /\ m > p /\ h1[p + 1] >= i => IsNext(h1, n + 1, k, i, p + 1)
        /\ k <= p /\ m > p => IsNext(h1, n + 1, p + 1, i, m + 1)
    BY <1>0, <1>1, <1>5, <2>0, NextGrown
  <2>2. i <= new.level => i <= list.level
    <3>1. list.level \in Nat
      BY <1>1
    <3>. QED
      BY <2>0, <3>1
  <2>3. CASE k > p
    <3>1. /\ k + 1 \in 0..(n + 1) /\ k + 1 # p + 1 /\ k \in (p + 1)..n /\ m \in (p + 1)..(n + 1)
          /\ k + 1 > p
      BY <1>0, <2>0, <2>3
    <3>2. i \in 1..h1[k + 1]
      BY <1>2, <3>1
    <3>. DEFINE x == Node(order1, k + 1)
    <3>3. /\ list.forward[x][i] = NodeOrEnd(order1, n + 1, m + 1)
          /\ i <= list.level => list.span[x][i] = Far(n + 1, k + 1, m + 1)
      BY <1>4, <2>1, <2>3, <3>1, <3>2
    <3>4. ~IsLast(h1, p, i, k + 1)
      BY <1>0, <2>0, <3>1 DEF IsLast
    <3>5. new.forward[x][i] = list.forward[x][i] /\ new.span[x][i] = list.span[x][i]
      BY <3>1, <3>2, <3>4 DEF RemovedAt
    <3>6. /\ x = Node(order0, k)
          /\ NodeOrEnd(order1, n + 1, m + 1) = NodeOrEnd(order0, n, m)
          /\ Far(n + 1, k + 1, m + 1) = Far(n, k, m)
      BY <1>3, <2>0, <3>1, FarIs
    <3>. HIDE DEF x
    <3>. QED
      BY <2>2, <3>3, <3>5, <3>6
  <2>4. ASSUME k <= p
        PROVE  /\ k \in 0..(n + 1) /\ i \in 1..h1[k] /\ Node(order1, k) = Node(order0, k)
               /\ new.forward[Node(order0, k)][i] =
                    IF /\ i <= list.level /\ IsLast(h1, p, i, k)
                       /\ list.forward[Node(order0, k)][i] = member
                    THEN list.forward[member][i] ELSE list.forward[Node(order0, k)][i]
               /\ new.span[Node(order0, k)][i] =
                    IF ~(i <= list.level /\ IsLast(h1, p, i, k))
                    THEN list.span[Node(order0, k)][i]
                    ELSE IF list.forward[Node(order0, k)][i] = member
                    THEN list.span[Node(order0, k)][i] + list.span[member][i] - 1
                    ELSE list.span[Node(order0, k)][i] - 1
    <3>1. k \in 0..(n + 1) /\ k # p + 1 /\ k \in 0..p
      BY <1>0, <2>0, <2>4
    <3>2. i \in 1..h1[k] /\ Node(order1, k) = Node(order0, k)
      BY <1>2, <1>3, <3>1
    <3>. QED
      BY <3>1, <3>2 DEF RemovedAt
  <2>5. CASE k <= p /\ m <= p
    <3>. DEFINE x == Node(order0, k)
    <3>1. IsNext(h1, n + 1, k, i, m) /\ m \in 1..p /\ ~(m > p) /\ m <= n
      BY <1>0, <2>0, <2>1, <2>5
    <3>2. /\ list.forward[x][i] = NodeOrEnd(order1, n + 1, m)
          /\ i <= list.level => list.span[x][i] = Far(n + 1, k, m)
          /\ ~IsLast(h1, p, i, k)
      BY <1>4, <2>4, <2>5, <3>1
    <3>3. new.forward[x][i] = list.forward[x][i] /\ new.span[x][i] = list.span[x][i]
      BY <2>4, <2>5, <3>2
    <3>4. NodeOrEnd(order1, n + 1, m) = NodeOrEnd(order0, n, m)
      BY <1>3, <3>1
    <3>5. Far(n + 1, k, m) = Far(n, k, m)
      BY <2>0, <3>1, FarIs
    <3>. HIDE DEF x
    <3>6. /\ new.forward[x][i] = NodeOrEnd(order0, n, m)
          /\ i <= new.level => new.span[x][i] = Far(n, k, m)
      BY <2>2, <3>2, <3>3, <3>4, <3>5
    <3>. QED
      BY <3>6 DEF x
  <2>6. CASE k <= p /\ m > p /\ h1[p + 1] >= i
    <3>. DEFINE x == Node(order0, k)
    <3>1. /\ IsNext(h1, n + 1, k, i, p + 1) /\ IsNext(h1, n + 1, p + 1, i, m + 1)
          /\ p + 1 > p /\ m \in (p + 1)..(n + 1)
      BY <1>0, <2>0, <2>1, <2>6
    <3>2. i <= list.level /\ i \in 1..h1[p + 1]
      BY <1>0, <1>1, <2>0, <2>6
    <3>3. list.forward[x][i] = member /\ list.span[x][i] = Far(n + 1, k, p + 1)
          /\ IsLast(h1, p, i, k)
      BY <1>3, <1>4, <2>4, <2>6, <3>1, <3>2
    <3>4. /\ list.forward[member][i] = NodeOrEnd(order1, n + 1, m + 1)
          /\ list.span[member][i] = Far(n + 1, p + 1, m + 1)
      <4>. DEFINE r == p + 1
      <4>1. /\ r \in 0..(n + 1) /\ i \in 1..h1[r] /\ i <= list.level
            /\ IsNext(h1, n + 1, r, i, m + 1) /\ Node(order1, r) = member
        BY <1>0, <1>3, <3>1, <3>2
      <4>. HIDE DEF r
      <4>2. /\ list.forward[Node(order1, r)][i] = NodeOrEnd(order1, n + 1, m + 1)
            /\ list.span[Node(order1, r)][i] = Far(n + 1, r, m + 1)
        BY <1>4, <4>1
      <4>. QED
        BY <4>1, <4>2 DEF r
    <3>5. new.forward[x][i] = list.forward[member][i]
          /\ new.span[x][i] = list.span[x][i] + list.span[member][i] - 1
      BY <2>4, <2>6, <3>2, <3>3
    <3>6. NodeOrEnd(order1, n + 1, m + 1) = NodeOrEnd(order0, n, m)
      BY <1>3, <3>1
    <3>7. Far(n + 1, k, p + 1) + Far(n + 1, p + 1, m + 1) - 1 = Far(n, k, m)
      BY <1>0, <2>0, <2>6 DEF Far
    <3>. HIDE DEF x
    <3>8. new.forward[x][i] = NodeOrEnd(order0, n, m) /\ new.span[x][i] = Far(n, k, m)
      BY <3>3, <3>4, <3>5, <3>6, <3>7
    <3>. QED
      BY <3>8 DEF x
  <2>7. CASE k <= p /\ m > p /\ ~(h1[p + 1] >= i)
    <3>. DEFINE x == Node(order0, k)
    <3>1. IsNext(h1, n + 1, k, i, m + 1) /\ m + 1 > p /\ m \in (p + 1)..(n + 1)
      <4>1. h1[p + 1] < i
        BY <1>0, <1>1, <2>0, <2>7
      <4>. QED
        BY <1>0, <2>0, <2>1, <2>7, <4>1
    <3>2. /\ list.forward[x][i] = NodeOrEnd(order1, n + 1, m + 1)
          /\ i <= list.level => list.span[x][i] = Far(n + 1, k, m + 1)
          /\ IsLast(h1, p, i, k)
      BY <1>4, <2>4, <2>7, <3>1
    <3>3. list.forward[x][i] # member
      <4>. HIDE DEF x
      <4>1. member # End
        <5>1. Ordered(list.score, last, order1) /\ p + 1 \in 1..last
          BY <1>0, <1>1
        <5>. HIDE DEF last
        <5>. QED
          BY <5>1, PlaceIs
      <4>2. CASE m = n + 1
        BY <3>2, <4>1, <4>2 DEF NodeOrEnd
      <4>3. CASE m # n + 1
        <5>1. m + 1 \in 1..(n + 1) /\ m + 1 # p + 1 /\ m + 1 # n + 1 + 1
          BY <1>0, <2>0, <2>7, <4>3
        <5>2. order1[m + 1] # order1[p + 1]
          <6>. DEFINE j == m + 1
                      r == p + 1
          <6>1. Ordered(list.score, last, order1) /\ j \in 1..last /\ r \in 1..last /\ j # r
            BY <1>0, <1>1, <5>1
          <6>. HIDE DEF j, r, last
          <6>2. order1[j] # order1[r]
            BY <6>1, PlaceIs
          <6>. QED
            BY <6>2 DEF j, r
        <5>. QED
          BY <3>2, <5>1, <5>2 DEF NodeOrEnd
      <4>. QED
        BY <4>2, <4>3
    <3>4. new.forward[x][i] = list.forward[x][i]
          /\ (i <= list.level => new.span[x][i] = list.span[x][i] - 1)
      BY <2>4, <2>7, <3>2, <3>3
    <3>5. NodeOrEnd(order1, n + 1, m + 1) = NodeOrEnd(order0, n, m)
      BY <1>3, <3>1
    <3>6. Far(n + 1, k, m + 1) - 1 = Far(n, k, m)
      BY <2>0 DEF Far
    <3>. HIDE DEF x
    <3>7. /\ new.forward[x][i] = NodeOrEnd(order0, n, m)
          /\ i <= new.level => new.span[x][i] = Far(n, k, m)
      BY <2>2, <3>2, <3>4, <3>5, <3>6
    <3>. QED
      BY <3>7 DEF x
  <2>. QED
    BY <1>0, <2>0, <2>3, <2>5, <2>6, <2>7
<1>. QED
  BY <1>5 DEF Linked
-----------------------------------------------------------------------------
(***************************************************************************)
(* Removal: the result is an exact list.                                   *)
(***************************************************************************)

\* The nodes that are left keep their heights, and the level is that of the
\* highest of them.
LEMMA TallRemoved ==
  ASSUME NEW list, NEW n \in Nat, NEW order1, NEW h1, Built(list, n + 1, order1, h1),
         NEW p \in 0..n, NEW member, member = order1[p + 1],
         NEW new, RemovedShape(list, new, member),
         NEW h0 \in [0..n -> 1..MaxHeight], Grown(n, p, h0, h1),
         NEW order0 \in [1..n -> Members], Widened(n, p, order0, order1, member),
         Linked(new, n, order0, h0)
  PROVE  Tall(new, n, order0, h0)
<1>. DEFINE last == n + 1
<1>0. /\ last \in Nat /\ p \in Nat /\ p <= n /\ p + 1 \in 0..last
      /\ \A k \in 0..p : k \in 0..n /\ k \in 0..last
      /\ \A k \in (p + 1)..n : k \in 0..n /\ k + 1 \in 0..last /\ k + 1 # p + 1
  OBVIOUS
<1>00. Built(list, last, order1, h1)
  OBVIOUS
<1>. HIDE DEF last
<1>1. /\ h1 \in [0..last -> Nat] /\ MaxHeight \in Nat /\ list.level \in 1..MaxHeight
      /\ h1[0] = MaxHeight /\ list.level \in Nat /\ list.level >= 1
      /\ \A k \in 1..last : h1[k] <= list.level
      /\ Ordered(list.score, last, order1)
  BY <1>00, HeightsAre
<1>2. /\ \A k \in 0..p : h1[k] = h0[k]
      /\ \A k \in (p + 1)..n : h1[k + 1] = h0[k]
  BY DEF Grown
<1>3. /\ \A k \in 0..p : Node(order1, k) = Node(order0, k)
      /\ Node(order1, p + 1) = member
      /\ \A k \in (p + 1)..n : Node(order1, k + 1) = Node(order0, k)
  BY NodesWidened
<1>4. /\ DOMAIN list.forward = {Node(order1, k) : k \in 0..last}
      /\ DOMAIN list.span = DOMAIN list.forward
      /\ \A k \in 0..last : /\ DOMAIN list.forward[Node(order1, k)] = 1..h1[k]
                            /\ DOMAIN list.span[Node(order1, k)] = 1..h1[k]
  BY <1>00 DEF Built, Tall
<1>5. ASSUME NEW k \in 0..last, k # p + 1 PROVE Node(order1, k) \in DOMAIN list.forward \ {member}
  <2>1. Node(order1, k) # Node(order1, p + 1)
    <3>1. \A i, j \in 0..last : Node(order1, i) = Node(order1, j) => i = j
      BY <1>1, PlaceIs
    <3>. QED
      BY <1>0, <1>5, <3>1
  <2>. QED
    BY <1>3, <1>4, <2>1
<1>6. ASSUME NEW k \in 0..n
      PROVE  /\ Node(order0, k) \in DOMAIN list.forward \ {member}
             /\ DOMAIN list.forward[Node(order0, k)] = 1..h0[k]
             /\ DOMAIN list.span[Node(order0, k)] = 1..h0[k]
  <2>1. k \in 0..p \/ k \in (p + 1)..n
    BY <1>0
  <2>2. CASE k \in 0..p
    <3>1. k \in 0..last /\ k # p + 1
      BY <1>0, <2>2
    <3>. QED
      BY <1>2, <1>3, <1>4, <1>5, <2>2, <3>1
  <2>3. CASE k \in (p + 1)..n
    <3>1. k + 1 \in 0..last /\ k + 1 # p + 1
      BY <1>0, <2>3
    <3>2. Node(order1, k + 1) = Node(order0, k) /\ h1[k + 1] = h0[k]
      BY <1>2, <1>3, <2>3
    <3>. DEFINE j == k + 1
    <3>3. j \in 0..last /\ j # p + 1 /\ Node(order1, j) = Node(order0, k) /\ h1[j] = h0[k]
      BY <3>1, <3>2
    <3>. HIDE DEF j
    <3>. QED
      BY <1>4, <1>5, <3>3
  <2>. QED
    BY <2>1, <2>2, <2>3
<1>7. DOMAIN new.forward = {Node(order0, k) : k \in 0..n}
  <2>1. ASSUME NEW x \in DOMAIN new.forward PROVE \E k \in 0..n : x = Node(order0, k)
    <3>1. x \in DOMAIN list.forward /\ x # member
      BY DEF RemovedShape
    <3>2. PICK k \in 0..last : x = Node(order1, k)
      BY <1>4, <3>1
    <3>3. k # p + 1
      BY <1>3, <3>1, <3>2
    <3>4. k \in 0..p \/ (k - 1 \in (p + 1)..n /\ (k - 1) + 1 = k)
      BY <1>0, <3>3 DEF last
    <3>5. CASE k \in 0..p
      BY <1>0, <1>3, <3>2, <3>5
    <3>6. CASE k - 1 \in (p + 1)..n /\ (k - 1) + 1 = k
      <4>. DEFINE j == k - 1
      <4>1. j \in (p + 1)..n /\ j + 1 = k
        BY <3>6
      <4>. HIDE DEF j
      <4>2. Node(order1, j + 1) = Node(order0, j) /\ j \in 0..n
        BY <1>0, <1>3, <4>1
      <4>. QED
        BY <3>2, <4>1, <4>2
    <3>. QED
      BY <3>4, <3>5, <3>6
  <2>2. ASSUME NEW k \in 0..n PROVE Node(order0, k) \in DOMAIN new.forward
    BY <1>6 DEF RemovedShape
  <2>. QED
    BY <2>1, <2>2
<1>8. DOMAIN new.span = DOMAIN new.forward
  BY DEF RemovedShape
<1>9. ASSUME NEW k \in 0..n
      PROVE  /\ DOMAIN new.forward[Node(order0, k)] = 1..h0[k]
             /\ DOMAIN new.span[Node(order0, k)] = 1..h0[k]
  BY <1>6 DEF RemovedShape
<1>10. h0[0] = MaxHeight
  <2>1. 0 \in 0..p
    BY <1>0
  <2>. QED
    BY <1>1, <1>2, <2>1
<1>11. /\ new.level \in 1..list.level
       /\ \A i \in 2..list.level : new.forward[HeadNode][i] # End => i <= new.level
  BY <1>1, LoweredIs DEF RemovedShape
<1>12. new.level \in 1..MaxHeight /\ new.level \in Nat
  BY <1>1, <1>11
<1>13. ASSUME NEW k \in 1..n PROVE h0[k] <= new.level
  <2>. DEFINE i == h0[k]
  <2>1. i \in Nat /\ k \in 0..n /\ i \in 1..MaxHeight
    BY <1>1
  <2>2. i <= list.level
    <3>1. CASE k \in 0..p
      <4>1. k \in 1..last
        BY <1>0, <3>1
      <4>. QED
        BY <1>1, <1>2, <3>1, <4>1
    <3>2. CASE k \in (p + 1)..n
      <4>1. k + 1 \in 1..last
        BY <1>0, <3>2 DEF last
      <4>2. h1[k + 1] = i
        BY <1>2, <3>2
      <4>. QED
        BY <1>1, <4>1, <4>2
    <3>3. k \in 0..p \/ k \in (p + 1)..n
      BY <1>0
    <3>. QED
      BY <3>1, <3>2, <3>3
  <2>3. ASSUME ~(i <= new.level) PROVE FALSE
    <3>1. i \in 2..list.level
      BY <1>1, <1>11, <1>12, <2>1, <2>2, <2>3
    <3>2. h0 \in [0..n -> Nat] /\ 0 \in 0..n
      BY <1>1
    <3>3. PICK m \in (0 + 1)..(n + 1) : IsNext(h0, n, 0, i, m)
      <4>. HIDE DEF i
      <4>. QED
        BY <2>1, <3>2, NextExists
    <3>4. m <= k
      <4>1. ASSUME ~(m <= k) PROVE FALSE
        <5>1. k \in (0 + 1)..(m - 1) /\ m \in Nat
          BY <4>1
        <5>2. h0[k] < i
          BY <3>3, <5>1 DEF IsNext
        <5>. QED
          BY <2>1, <5>2
      <4>. QED
        BY <4>1
    <3>5. m \in 1..n /\ m # n + 1
      BY <3>4
    <3>6. new.forward[HeadNode][i] = order0[m]
      <4>1. i \in 1..h0[0]
        BY <1>10, <2>1
      <4>2. new.forward[Node(order0, 0)][i] = NodeOrEnd(order0, n, m)
        <5>. HIDE DEF i
        <5>. QED
          BY <3>2, <3>3, <4>1 DEF Linked
      <4>. QED
        BY <3>5, <4>2 DEF Node, NodeOrEnd
    <3>7. order0[m] # End
      <4>1. order0[m] \in Members
        BY <3>5
      <4>2. \A x \in Members : x # End
        BY MembersAre
      <4>. QED
        BY <4>1, <4>2
    <3>. QED
      BY <1>11, <2>3, <3>1, <3>6, <3>7
  <2>. QED
    BY <2>3
<1>. QED
  BY <1>7, <1>8, <1>9, <1>10, <1>12, <1>13 DEF Tall

\* remove takes a node out of the list: the list stays exact.
LEMMA RemoveIs ==
  ASSUME NEW list, NEW last, NEW order, NEW h, Built(list, last, order, h),
         NEW member \in DOMAIN list.score
  PROVE  /\ \E n, order0, h0 : Built(RemoveMember(list, member), n, order0, h0)
         /\ TopUsed(RemoveMember(list, member))
         /\ member \notin DOMAIN RemoveMember(list, member).score
<1>. DEFINE new == RemoveMember(list, member)
<1>1. /\ last \in Nat /\ h \in [0..last -> 1..MaxHeight] /\ MaxHeight \in Nat
      /\ list.level \in Nat /\ list.level >= 1
      /\ Ordered(list.score, last, order) /\ order \in [1..last -> Members]
  <2>1. /\ last \in Nat /\ MaxHeight \in Nat /\ list.level \in Nat /\ list.level >= 1
        /\ Ordered(list.score, last, order)
    BY HeightsAre
  <2>2. h \in [0..last -> 1..MaxHeight] /\ order \in [1..last -> Members]
    BY DEF Built, Tall, Ordered
  <2>. QED
    BY <2>1, <2>2
<1>2. PICK r \in 1..last : member = order[r]
  BY <1>1, OrderIs
<1>. DEFINE p == r - 1
            n == last - 1
<1>3. /\ n \in Nat /\ p \in 0..n /\ n + 1 = last /\ p + 1 = r /\ p \in Nat /\ p <= n
  BY <1>1
<1>. HIDE DEF p, n
<1>4. Built(list, n + 1, order, h) /\ member = order[p + 1]
      /\ h \in [0..(n + 1) -> 1..MaxHeight] /\ order \in [1..(n + 1) -> Members]
  BY <1>1, <1>2, <1>3
<1>5. /\ RemovedAt(list, new, n, order, h, p, member)
      /\ RemovedShape(list, new, member)
      /\ RemovedScore(list.score, new.score, member)
  BY <1>3, <1>4, RemoveFields
<1>. DEFINE order0 == [k \in 1..n |-> IF k <= p THEN order[k] ELSE order[k + 1]]
            h0 == [k \in 0..n |-> IF k <= p THEN h[k] ELSE h[k + 1]]
<1>6. ASSUME NEW k \in 0..n PROVE k \in 0..(n + 1) /\ k + 1 \in 0..(n + 1) /\ k + 1 \in 1..(n + 1)
  BY <1>3
<1>7. h0 \in [0..n -> 1..MaxHeight]
  <2>1. ASSUME NEW k \in 0..n PROVE (IF k <= p THEN h[k] ELSE h[k + 1]) \in 1..MaxHeight
    BY <1>4, <1>6
  <2>. QED
    BY <2>1
<1>8. order0 \in [1..n -> Members]
  <2>1. ASSUME NEW k \in 1..n PROVE (IF k <= p THEN order[k] ELSE order[k + 1]) \in Members
    <3>1. k \in 1..(n + 1) /\ k + 1 \in 1..(n + 1)
      BY <1>3
    <3>. QED
      BY <1>4, <3>1
  <2>. QED
    BY <2>1
<1>9. Grown(n, p, h0, h)
  <2>1. ASSUME NEW k \in 0..p PROVE h[k] = h0[k]
    BY <1>3
  <2>2. ASSUME NEW k \in (p + 1)..n PROVE h[k + 1] = h0[k]
    BY <1>3
  <2>. HIDE DEF h0
  <2>. QED
    BY <2>1, <2>2 DEF Grown
<1>10. Widened(n, p, order0, order, member)
  <2>1. ASSUME NEW k \in 1..p PROVE order[k] = order0[k]
    BY <1>3
  <2>2. ASSUME NEW k \in (p + 1)..n PROVE order[k + 1] = order0[k]
    BY <1>3
  <2>. HIDE DEF order0
  <2>. QED
    BY <1>4, <2>1, <2>2 DEF Widened
<1>. HIDE DEF order0, h0, new
<1>11. /\ new.level \in 1..list.level
       /\ new.level > 1 => new.forward[HeadNode][new.level] # End
  BY <1>1, <1>5, LoweredIs DEF RemovedShape
<1>12. Linked(new, n, order0, h0)
  <2>1. new.level \in Nat /\ new.level <= list.level
    BY <1>1, <1>11
  <2>2. h0 \in [0..n -> Nat]
    BY <1>1, <1>7
  <2>. QED
    BY <1>3, <1>4, <1>5, <1>9, <1>10, <2>1, <2>2, LinkedRemoved
<1>13. Tall(new, n, order0, h0)
  BY <1>3, <1>4, <1>5, <1>7, <1>8, <1>9, <1>10, <1>12, TallRemoved
<1>14. Ordered(new.score, n, order0)
  <2>1. /\ DOMAIN new.score = DOMAIN list.score \ {member}
        /\ \A m \in DOMAIN new.score : new.score[m] = list.score[m]
    BY <1>5 DEF RemovedScore
  <2>2. Ordered(list.score, n + 1, order)
    BY <1>4 DEF Built
  <2>. QED
    BY <1>3, <1>8, <1>10, <2>1, <2>2, OrderNarrowed
<1>15. Built(new, n, order0, h0)
  BY <1>12, <1>13, <1>14 DEF Built
<1>16. TopUsed(new) /\ member \notin DOMAIN new.score
  BY <1>5, <1>11 DEF TopUsed, RemovedScore
<1>. QED
  BY <1>15, <1>16 DEF new

-----------------------------------------------------------------------------
(***************************************************************************)
(* What ZADD makes of an exact list.                                       *)
(***************************************************************************)

\* The inductive invariant: some heights and the order of the members explain
\* every pointer and every span.
IsList(list) == (\E n, order, h : Built(list, n, order, h)) /\ TopUsed(list)

\* A new list is exact: every lane leads from the head to the end.
LEMMA EmptyIsList == IsList(EmptyList)
<1>. DEFINE list == EmptyList
            order == [k \in 1..0 |-> 0]
            h == [k \in 0..0 |-> MaxHeight]
<1>0. MaxHeight \in Nat /\ MaxHeight >= 1
  BY MaxHeightIs
<1>1. /\ list.score = <<>> /\ list.level = 1
      /\ list.forward = [x \in {HeadNode} |-> [i \in 1..MaxHeight |-> End]]
      /\ list.span = [x \in {HeadNode} |-> [i \in 1..MaxHeight |-> 0]]
  BY DEF EmptyList
<1>2. \A k \in 0..0 : k = 0 /\ Node(order, k) = HeadNode
  BY DEF Node
<1>3. Ordered(list.score, 0, order)
  <2>1. DOMAIN list.score = {}
    BY <1>1
  <2>2. {order[k] : k \in 1..0} = {}
    OBVIOUS
  <2>3. order \in [1..0 -> Members]
    OBVIOUS
  <2>4. \A k \in 1..0 : FALSE
    OBVIOUS
  <2>. HIDE DEF list, order
  <2>. QED
    BY <2>1, <2>2, <2>3, <2>4 DEF Ordered
<1>4. Tall(list, 0, order, h)
  <2>1. h \in [0..0 -> 1..MaxHeight] /\ h[0] = MaxHeight /\ list.level \in 1..MaxHeight
    BY <1>0, <1>1
  <2>2. DOMAIN list.forward = {HeadNode} /\ DOMAIN list.span = {HeadNode}
        /\ DOMAIN list.forward[HeadNode] = 1..MaxHeight
        /\ DOMAIN list.span[HeadNode] = 1..MaxHeight
    BY <1>1
  <2>3. {Node(order, k) : k \in 0..0} = {HeadNode}
    BY <1>2
  <2>4. \A k \in 1..0 : FALSE
    OBVIOUS
  <2>. HIDE DEF list, order, h
  <2>. QED
    BY <1>2, <2>1, <2>2, <2>3, <2>4 DEF Tall
<1>5. Linked(list, 0, order, h)
  <2>1. ASSUME NEW k \in 0..0, NEW i \in 1..h[k], NEW m \in (k + 1)..(0 + 1)
        PROVE  /\ list.forward[Node(order, k)][i] = NodeOrEnd(order, 0, m)
               /\ list.span[Node(order, k)][i] = Far(0, k, m)
    <3>1. k = 0 /\ m = 1 /\ m = 0 + 1 /\ i \in 1..MaxHeight /\ Node(order, k) = HeadNode
      BY <1>2
    <3>2. NodeOrEnd(order, 0, m) = End /\ Far(0, k, m) = 0
      BY <3>1 DEF NodeOrEnd, Far
    <3>. QED
      BY <1>1, <3>1, <3>2
  <2>. HIDE DEF list, order, h
  <2>. QED
    BY <2>1 DEF Linked
<1>6. TopUsed(list)
  BY <1>1 DEF TopUsed
<1>7. Built(list, 0, order, h)
  BY <1>3, <1>4, <1>5 DEF Built
<1>. HIDE DEF order, h
<1>. QED
  BY <1>6, <1>7 DEF IsList

\* ZADD keeps a list exact: of a new member, of an old one with its old score, and
\* of one with another score, which is taken out first.
LEMMA InsertIs ==
  ASSUME NEW list, IsList(list), NEW s \in Int, NEW member \in Members,
         NEW height \in 1..MaxHeight
  PROVE  IsList(InsertMember(list, s, member, height))
<1>1. PICK n, order, h : Built(list, n, order, h)
  BY DEF IsList
<1>2. CASE member \notin DOMAIN list.score
  <2>1. InsertMember(list, s, member, height) = Splice(list, s, member, height)
    BY <1>2 DEF InsertMember
  <2>2. \E order1, h1 : /\ Built(Splice(list, s, member, height), n + 1, order1, h1)
                        /\ TopUsed(Splice(list, s, member, height))
    BY <1>1, <1>2, SpliceIs DEF IsList
  <2>. QED
    BY <2>1, <2>2 DEF IsList
<1>3. CASE member \in DOMAIN list.score /\ list.score[member] = s
  BY <1>3 DEF InsertMember
<1>4. CASE member \in DOMAIN list.score /\ list.score[member] # s
  <2>. DEFINE rest == RemoveMember(list, member)
  <2>1. InsertMember(list, s, member, height) = Splice(rest, s, member, height)
    BY <1>4 DEF InsertMember
  <2>2. /\ \E n0, order0, h0 : Built(rest, n0, order0, h0)
        /\ TopUsed(rest) /\ member \notin DOMAIN rest.score
    BY <1>1, <1>4, RemoveIs
  <2>. HIDE DEF rest
  <2>3. PICK n0, order0, h0 : Built(rest, n0, order0, h0)
    BY <2>2
  <2>4. \E order1, h1 : /\ Built(Splice(rest, s, member, height), n0 + 1, order1, h1)
                        /\ TopUsed(Splice(rest, s, member, height))
    BY <2>2, <2>3, SpliceIs
  <2>. QED
    BY <2>1, <2>4 DEF IsList
<1>. QED
  BY <1>2, <1>3, <1>4
-----------------------------------------------------------------------------
(***************************************************************************)
(* The order of the nodes is the order of the members.                     *)
(***************************************************************************)

\* A rising map of 1..n to itself moves nothing.
LEMMA RisingIsIdentity ==
  ASSUME NEW n \in Nat, NEW f \in [1..n -> 1..n],
         \A j, k \in 1..n : j < k => f[j] < f[k]
  PROVE  \A k \in 1..n : f[k] = k
<1>1. \A k \in 1..n : f[k] \in Nat /\ f[k] >= 1 /\ f[k] <= n
  OBVIOUS
<1>2. ASSUME NEW k \in 1..n PROVE f[k] >= k
  <2>. DEFINE S == {j \in 0..n : j = 0 \/ f[j] >= j}
  <2>1. 0 \in S
    OBVIOUS
  <2>2. ASSUME NEW j \in 1..n, j - 1 \in S PROVE j \in S
    <3>1. CASE j = 1
      BY <1>1, <3>1
    <3>2. CASE j # 1
      <4>1. j - 1 \in 1..n /\ j - 1 < j
        BY <3>2
      <4>2. f[j - 1] >= j - 1 /\ f[j - 1] < f[j]
        BY <2>2, <4>1
      <4>3. f[j] >= j
        BY <1>1, <4>1, <4>2
      <4>. QED
        BY <4>3
    <3>. QED
      BY <3>1, <3>2
  <2>. HIDE DEF S
  <2>3. k \in S
    <3>1. k \in 0..n
      OBVIOUS
    <3>. QED
      BY <2>1, <2>2, <3>1, Counting!UpTo
  <2>. QED
    BY <2>3 DEF S
<1>3. ASSUME NEW k \in 1..n PROVE f[k] <= k
  <2>. DEFINE S == {d \in 0..n : d = n \/ f[n - d] <= n - d}
  <2>1. 0 \in S
    <3>1. n = 0 \/ n \in 1..n
      OBVIOUS
    <3>. QED
      BY <1>1, <3>1
  <2>2. ASSUME NEW d \in 1..n, d - 1 \in S PROVE d \in S
    <3>. DEFINE j == n - d
    <3>1. CASE d = n
      BY <3>1
    <3>2. CASE d # n
      <4>1. j \in 1..n /\ j + 1 \in 1..n /\ n - (d - 1) = j + 1 /\ d - 1 # n /\ j < j + 1
        BY <3>2
      <4>2. f[j + 1] <= j + 1 /\ f[j] < f[j + 1]
        BY <2>2, <4>1
      <4>3. f[j] <= j
        BY <1>1, <4>1, <4>2
      <4>. QED
        BY <4>3
    <3>. QED
      BY <3>1, <3>2
  <2>. HIDE DEF S
  <2>3. n - k \in S
    <3>1. n - k \in 0..n
      OBVIOUS
    <3>. QED
      BY <2>1, <2>2, <3>1, Counting!UpTo
  <2>4. n - (n - k) = k /\ n - k # n
    OBVIOUS
  <2>. QED
    BY <2>3, <2>4 DEF S
<1>. QED
  BY <1>1, <1>2, <1>3

\* There is only one order of the members.
Rises(score, n, order) ==
  \A j, k \in 1..n : j < k => Less(score[order[j]], order[j], score[order[k]], order[k])

\* There is one way to put the members in order.
LEMMA OneOrder ==
  ASSUME NEW score, NEW n, NEW order, Ordered(score, n, order),
         NEW o \in [1..n -> DOMAIN score], Rises(score, n, o)
  PROVE  o = order
<1>1. /\ n \in Nat /\ order \in [1..n -> Members]
      /\ \A k \in 1..n : order[k] \in DOMAIN score /\ score[order[k]] \in Int /\ order[k] \in Int
      /\ \A m \in DOMAIN score : \E k \in 1..n : m = order[k]
  BY OrderIs
<1>2. \A j, k \in 1..n : j < k => Less(score[order[j]], order[j], score[order[k]], order[k])
  BY OrderIs
<1>. DEFINE f == [k \in 1..n |-> CHOOSE j \in 1..n : o[k] = order[j]]
<1>3. ASSUME NEW k \in 1..n PROVE f[k] \in 1..n /\ o[k] = order[f[k]]
  <2>1. \E j \in 1..n : o[k] = order[j]
    BY <1>1
  <2>. QED
    BY <2>1
<1>4. f \in [1..n -> 1..n]
  <2>1. f = [k \in 1..n |-> f[k]]
    OBVIOUS
  <2>. HIDE DEF f
  <2>. QED
    BY <1>3, <2>1
<1>. HIDE DEF f
<1>5. ASSUME NEW j \in 1..n, NEW k \in 1..n, j < k PROVE f[j] < f[k]
  <2>. DEFINE a == f[j]
              b == f[k]
  <2>1. a \in 1..n /\ b \in 1..n /\ o[j] = order[a] /\ o[k] = order[b]
    BY <1>3
  <2>2. Less(score[order[a]], order[a], score[order[b]], order[b])
    BY <1>5, <2>1 DEF Rises
  <2>. HIDE DEF a, b
  <2>. DEFINE s == score[order[a]]
              m == order[a]
              s2 == score[order[b]]
              m2 == order[b]
  <2>3. s \in Int /\ m \in Int /\ s2 \in Int /\ m2 \in Int
    BY <1>1, <2>1
  <2>4. ~(b < a)
    <3>1. ASSUME b < a PROVE FALSE
      <4>1. Less(s2, m2, s, m) /\ Less(s, m, s2, m2)
        BY <1>2, <2>1, <2>2, <3>1
      <4>. HIDE DEF s, m, s2, m2
      <4>. QED
        BY <2>3, <4>1 DEF Less
    <3>. QED
      BY <3>1
  <2>5. ~(a = b)
    <3>1. ASSUME a = b PROVE FALSE
      <4>1. Less(s, m, s, m)
        BY <2>2, <3>1
      <4>. HIDE DEF s, m
      <4>. QED
        BY <2>3, <4>1 DEF Less
    <3>. QED
      BY <3>1
  <2>6. a < b
    BY <2>1, <2>4, <2>5
  <2>. QED
    BY <2>6 DEF a, b
<1>6. \A k \in 1..n : f[k] = k
  BY <1>1, <1>4, <1>5, RisingIsIdentity
<1>7. \A k \in 1..n : o[k] = order[k]
  BY <1>3, <1>6
<1>. QED
  BY <1>1, <1>7

\* So the order of the nodes is the order of the members.
LEMMA SortedIs ==
  ASSUME NEW list, NEW n, NEW order, Ordered(list.score, n, order)
  PROVE  Sorted(list) = order
<1>1. /\ n \in Nat /\ order \in [1..n -> Members]
      /\ \A k \in 1..n : order[k] \in DOMAIN list.score
  BY OrderIs
<1>2. Length(list) = n
  BY LengthIs
<1>3. Rises(list.score, n, order)
  BY DEF Ordered, Rises
<1>4. order \in [1..n -> DOMAIN list.score]
  BY <1>1
<1>5. Sorted(list) = CHOOSE o \in [1..n -> DOMAIN list.score] : Rises(list.score, n, o)
  BY <1>2 DEF Sorted, Rises
<1>. DEFINE it == CHOOSE o \in [1..n -> DOMAIN list.score] : Rises(list.score, n, o)
<1>6. it \in [1..n -> DOMAIN list.score] /\ Rises(list.score, n, it)
  BY <1>3, <1>4
<1>. HIDE DEF it
<1>7. it = order
  BY <1>6, OneOrder
<1>. QED
  BY <1>5, <1>7 DEF it

-----------------------------------------------------------------------------
(***************************************************************************)
(* The walk of get_range along the lowest lane.                            *)
(***************************************************************************)

\* On the lowest lane every node points to the one behind it.
LEMMA LowestLane ==
  ASSUME NEW list, NEW n, NEW order, NEW h, Built(list, n, order, h), NEW k \in 0..n
  PROVE  list.forward[Node(order, k)][1] = NodeOrEnd(order, n, k + 1)
<1>1. n \in Nat /\ k \in Nat /\ \A j \in 0..n : h[j] \in Nat /\ h[j] >= 1
  BY HeightsAre
<1>2. IsNext(h, n, k, 1, k + 1)
  <2>1. k + 1 \in (k + 1)..(n + 1) /\ (k + 1 <= n => k + 1 \in 0..n)
        /\ (k + 1)..(k + 1 - 1) = {}
    BY <1>1
  <2>. QED
    BY <1>1, <2>1 DEF IsNext
<1>3. 1 \in 1..h[k]
  BY <1>1
<1>. QED
  BY <1>2, <1>3, SpanIs

\* A walk along it collects what it passes, until the end.
WalkOf(list, first) ==
  CHOOSE walk : walk = [k \in Nat |->
    IF k = 0 THEN [elements |-> <<>>, current |-> first]
    ELSE LET was == walk[k - 1]
         IN IF was.current = End THEN was
            ELSE [elements |-> Append(was.elements, was.current),
                  current |-> list.forward[was.current][1]]]

\* The k-th step of the walk has collected the k members behind the start.
LEMMA WalkIs ==
  ASSUME NEW list, NEW n, NEW order, NEW h, Built(list, n, order, h),
         NEW start \in 0..n, NEW first, first = list.forward[Node(order, start)][1],
         NEW count \in 0..(n - start)
  PROVE  WalkOf(list, first)[count].elements = SubSeq(order, start + 1, start + count)
<1>. DEFINE Onward(was) == IF was.current = End THEN was
                           ELSE [elements |-> Append(was.elements, was.current),
                                 current |-> list.forward[was.current][1]]
            base == [elements |-> <<>>, current |-> first]
            Walks(walk) == walk = [k \in Nat |-> IF k = 0 THEN base ELSE Onward(walk[k - 1])]
            upto(k) == IF start + k < n THEN start + k ELSE n
            it == [k \in Nat |-> [elements |-> SubSeq(order, start + 1, upto(k)),
                                  current |-> NodeOrEnd(order, n, upto(k) + 1)]]
<1>1. /\ n \in Nat /\ start \in Nat /\ start <= n /\ order \in [1..n -> Members]
      /\ Ordered(list.score, n, order) /\ \A j \in 1..n : order[j] # End
  <2>1. Ordered(list.score, n, order)
    BY HeightsAre
  <2>2. \A j \in 1..n : order[j] # End
    BY <2>1, PlaceIs
  <2>. QED
    BY <2>1, <2>2 DEF Ordered
<1>2. order \in Seq(Members) /\ Len(order) = n
  BY <1>1, SeqDef
<1>3. \A k \in 0..n : list.forward[Node(order, k)][1] = NodeOrEnd(order, n, k + 1)
  BY LowestLane
<1>4. it[0] = base
  <2>1. upto(0) = start
    BY <1>1
  <2>2. SubSeq(order, start + 1, start) = <<>>
    BY <1>1, SubSeqEmpty
  <2>3. first = NodeOrEnd(order, n, start + 1)
    BY <1>3
  <2>. QED
    BY <2>1, <2>2, <2>3
<1>5. ASSUME NEW k \in Nat, k # 0 PROVE it[k] = Onward(it[k - 1])
  <2>. DEFINE j == upto(k - 1)
  <2>1. k - 1 \in Nat /\ j \in start..n
    BY <1>1, <1>5
  <2>2. it[k - 1] = [elements |-> SubSeq(order, start + 1, j), current |-> NodeOrEnd(order, n, j + 1)]
    BY <2>1
  <2>3. CASE j = n
    <3>1. upto(k) = n
      BY <1>1, <1>5, <2>1, <2>3
    <3>2. it[k] = it[k - 1]
      BY <2>2, <2>3, <3>1
    <3>3. NodeOrEnd(order, n, j + 1) = End
      BY <2>3 DEF NodeOrEnd
    <3>4. it[k - 1].current = End
      <4>. HIDE DEF it, j
      <4>. QED
        BY <2>2, <3>3
    <3>. HIDE DEF it
    <3>. QED
      BY <3>2, <3>4
  <2>4. CASE j # n
    <3>1. j = start + (k - 1) /\ upto(k) = j + 1 /\ j + 1 \in 1..n /\ j \in Nat /\ j + 1 # n + 1
      BY <1>1, <1>5, <2>1, <2>4
    <3>2. NodeOrEnd(order, n, j + 1) = order[j + 1] /\ order[j + 1] # End
          /\ Node(order, j + 1) = order[j + 1]
      BY <1>1, <3>1 DEF NodeOrEnd, Node
    <3>3. list.forward[order[j + 1]][1] = NodeOrEnd(order, n, j + 1 + 1)
      <4>1. j + 1 \in 0..n
        BY <1>1, <3>1
      <4>. QED
        BY <1>3, <3>2, <4>1
    <3>4. SubSeq(order, start + 1, j + 1) = Append(SubSeq(order, start + 1, j), order[j + 1])
      <4>. HIDE DEF j
      <4>1. start + 1 \in 1..Len(order) /\ j + 1 \in (start + 1)..Len(order) /\ (j + 1) - 1 = j
        BY <1>1, <1>2, <2>1, <3>1
      <4>2. SubSeq(order, start + 1, j + 1) = SubSeq(order, start + 1, j) \o <<order[j + 1]>>
        BY <1>2, <4>1, SubSeqRecursiveSecond
      <4>3. \A i \in (start + 1)..j : order[i] \in Members
        BY <1>1, <2>1
      <4>4. SubSeq(order, start + 1, j) \in Seq(Members)
        BY <1>1, <3>1, <4>3, SubSeqProperties
      <4>5. order[j + 1] \in Members
        BY <1>1, <3>1
      <4>. QED
        BY <4>2, <4>4, <4>5, AppendIsConcat
    <3>5. it[k] = [elements |-> SubSeq(order, start + 1, j + 1),
                   current |-> NodeOrEnd(order, n, j + 1 + 1)]
      BY <3>1
    <3>. HIDE DEF it, j
    <3>6. it[k - 1].current = order[j + 1] /\ it[k - 1].elements = SubSeq(order, start + 1, j)
      <4>1. it[k - 1] = [elements |-> SubSeq(order, start + 1, j),
                         current |-> NodeOrEnd(order, n, j + 1)]
        BY <2>2 DEF j
      <4>. DEFINE e == SubSeq(order, start + 1, j)
                  c == NodeOrEnd(order, n, j + 1)
                  w == it[k - 1]
      <4>2. w = [elements |-> e, current |-> c]
        BY <4>1
      <4>3. c = order[j + 1]
        BY <3>2
      <4>. HIDE DEF e, c, w
      <4>4. w.elements = e /\ w.current = c
        BY <4>2
      <4>. QED
        BY <4>3, <4>4 DEF e, w
    <3>. QED
      BY <3>2, <3>3, <3>4, <3>5, <3>6
  <2>. QED
    BY <2>3, <2>4
<1>6. Walks(it)
  <2>. HIDE DEF base, Onward
  <2>1. it = [k \in Nat |-> it[k]]
    OBVIOUS
  <2>. HIDE DEF it
  <2>2. \A k \in Nat : it[k] = IF k = 0 THEN base ELSE Onward(it[k - 1])
    BY <1>4, <1>5
  <2>. QED
    BY <2>1, <2>2
<1>. DEFINE walk == CHOOSE walk : Walks(walk)
<1>7. Walks(walk)
  <2>. HIDE DEF Walks, it
  <2>. QED
    BY <1>6
<1>8. WalkOf(list, first) = walk
  BY DEF WalkOf
<1>. HIDE DEF walk, it, Onward, base
<1>9. walk[0] = base /\ \A k \in Nat : k # 0 => walk[k] = Onward(walk[k - 1])
  BY <1>7
<1>10. walk[count] = it[count]
  <2>. DEFINE S == {k \in Nat : walk[k] = it[k]}
  <2>1. 0 \in S
    BY <1>4, <1>9
  <2>2. ASSUME NEW k \in 1..count, k - 1 \in S PROVE k \in S
    BY <1>5, <1>9, <2>2
  <2>. HIDE DEF S
  <2>3. count \in S
    <3>1. count \in Nat
      BY <1>1
    <3>. QED
      BY <2>1, <2>2, <3>1, Counting!UpTo
  <2>. QED
    BY <2>3 DEF S
<1>11. it[count].elements = SubSeq(order, start + 1, start + count)
  <2>1. upto(count) = start + count /\ count \in Nat
    BY <1>1
  <2>. QED
    BY <2>1 DEF it
<1>. QED
  BY <1>8, <1>10, <1>11
-----------------------------------------------------------------------------
(***************************************************************************)
(* Ranges.                                                                 *)
(***************************************************************************)

\* GetRange is what counting in the sorted sequence gives.
LEMMA RangeIs ==
  ASSUME NEW list, IsList(list), NEW from \in Int, NEW to \in Int
  PROVE  GetRange(list, from, to) =
           SubSeq(Sorted(list), Normal(list, from) + 1,
                  IF Normal(list, to) < Length(list) THEN Normal(list, to) + 1
                  ELSE Length(list))
<1>1. PICK n, order, h : Built(list, n, order, h)
  BY DEF IsList
<1>2. /\ n \in Nat /\ Ordered(list.score, n, order) /\ list.level \in Nat /\ list.level >= 1
      /\ h \in [0..n -> Nat]
  BY <1>1, HeightsAre
<1>3. Length(list) = n /\ Sorted(list) = order
  BY <1>2, LengthIs, SortedIs
<1>. DEFINE start == Normal(list, from)
            upto == Normal(list, to)
            stop == IF upto < n THEN upto ELSE n - 1
            ahead == {at \in Cursors(list) : at.rank < start + 1}
            path == Descend(list, ahead)
            first == list.forward[path[1].update][1]
<1>4. start \in Nat /\ upto \in Nat
  BY <1>2, <1>3 DEF Normal
<1>5. GetRange(list, from, to) =
        IF n = 0 \/ start > upto \/ start >= n THEN <<>>
        ELSE WalkOf(list, first)[stop - start + 1].elements
  BY <1>3 DEF GetRange, WalkOf
<1>. HIDE DEF start, upto
<1>6. CASE n = 0 \/ start > upto \/ start >= n
  <2>. DEFINE to1 == IF upto < n THEN upto + 1 ELSE n
  <2>1. to1 \in Int /\ start + 1 \in Int /\ to1 < start + 1
    BY <1>2, <1>4, <1>6
  <2>. HIDE DEF to1
  <2>2. SubSeq(order, start + 1, to1) = <<>>
    BY <2>1, SubSeqEmpty
  <2>3. GetRange(list, from, to) = <<>>
    BY <1>5, <1>6
  <2>. QED
    BY <1>3, <2>2, <2>3 DEF to1, start, upto
<1>7. CASE ~(n = 0 \/ start > upto \/ start >= n)
  <2>1. start \in 0..n /\ start < n /\ start <= upto
    BY <1>2, <1>4, <1>7
  <2>2. Splits(list, n, order, ahead, start)
    <3>1. ASSUME NEW k \in 1..n PROVE Cursor(order, k) \in ahead <=> k <= start
      <4>1. Cursor(order, k) \in Cursors(list) /\ Cursor(order, k).rank = k
        <5>1. Node(order, k) \in DOMAIN list.forward /\ k \in Nat
          <6>1. k \in 0..n
            BY <1>2
          <6>. QED
            BY <1>1, <6>1 DEF Built, Tall
        <5>. QED
          BY <5>1 DEF Cursor, Cursors
      <4>. DEFINE at == Cursor(order, k)
      <4>. HIDE DEF at
      <4>2. at \in ahead <=> k < start + 1
        BY <4>1 DEF at
      <4>3. k < start + 1 <=> k <= start
        BY <1>2, <1>4
      <4>. QED
        BY <4>2, <4>3 DEF at
    <3>2. ahead \subseteq Cursors(list)
      OBVIOUS
    <3>. HIDE DEF ahead
    <3>. QED
      BY <2>1, <3>1, <3>2 DEF Splits
  <2>3. first = list.forward[Node(order, start)][1]
    <3>1. IsPath(path, list, order, h, start)
      <4>. HIDE DEF ahead
      <4>. QED
        BY <1>1, <2>2, DescendIs
    <3>. HIDE DEF path
    <3>2. IsLast(h, start, 1, start)
      BY <1>1, <2>1, LowestIs
    <3>3. path[1] = Cursor(order, start)
      <4>1. 1 \in 1..list.level
        BY <1>2
      <4>. QED
        BY <3>1, <3>2, <4>1 DEF IsPath
    <3>. QED
      BY <3>3 DEF Cursor
  <2>. DEFINE count == stop - start + 1
  <2>4. /\ count \in 0..(n - start)
        /\ start + count = (IF upto < n THEN upto + 1 ELSE n)
    BY <1>2, <1>4, <2>1
  <2>5. WalkOf(list, first)[count].elements = SubSeq(order, start + 1, start + count)
    <3>. HIDE DEF first, count
    <3>. QED
      BY <1>1, <2>1, <2>3, <2>4, WalkIs
  <2>6. GetRange(list, from, to) = WalkOf(list, first)[count].elements
    <3>. HIDE DEF first, stop
    <3>. QED
      BY <1>5, <1>7
  <2>. HIDE DEF first, count
  <2>. QED
    BY <1>3, <2>4, <2>5, <2>6 DEF start, upto
<1>. QED
  BY <1>6, <1>7

-----------------------------------------------------------------------------
(***************************************************************************)
(* Lanes.                                                                  *)
(***************************************************************************)

\* The places behind one that are on a lane, and the first of them.
IsLater(later, list, n, order, rank, i) ==
  later = {j \in 1..n : j > rank /\ i \in DOMAIN list.forward[order[j]]}

\* What stands at the first of some places, if there is any.
IsFirst(next, later, order) ==
  next = IF later = {} THEN End
         ELSE order[CHOOSE j \in later : \A j2 \in later : j <= j2]

\* What an exact list says of one lane at one node.
LEMMA LaneIs ==
  ASSUME NEW list, NEW n, NEW order, NEW h, Built(list, n, order, h),
         NEW k \in 0..n, NEW i \in 1..h[k], i <= list.level,
         NEW later, IsLater(later, list, n, order, k, i),
         NEW next, IsFirst(next, later, order)
  PROVE  /\ list.forward[Node(order, k)][i] = next
         /\ next = End => list.span[Node(order, k)][i] = n - k
         /\ next # End => \E m \in 1..n : next = order[m]
                                          /\ list.span[Node(order, k)][i] = m - k
<1>1. /\ n \in Nat /\ h \in [0..n -> Nat] /\ list.level \in Nat
      /\ Ordered(list.score, n, order) /\ k \in Nat /\ i \in Nat /\ i >= 1
  BY HeightsAre
<1>0. /\ later = {j \in 1..n : j > k /\ i \in DOMAIN list.forward[order[j]]}
      /\ next = IF later = {} THEN End
                ELSE order[CHOOSE j \in later : \A j2 \in later : j <= j2]
  BY DEF IsLater, IsFirst
<1>2. PICK m \in (k + 1)..(n + 1) : IsNext(h, n, k, i, m)
  BY <1>1, NextExists
<1>3. /\ m \in Nat /\ m <= n + 1 /\ m > k /\ (m <= n => h[m] >= i)
      /\ \A j \in (k + 1)..(m - 1) : h[j] < i
  BY <1>1, <1>2 DEF IsNext
<1>4. /\ list.forward[Node(order, k)][i] = NodeOrEnd(order, n, m)
      /\ list.span[Node(order, k)][i] = Far(n, k, m)
  <2>1. /\ list.forward[Node(order, k)][i] = NodeOrEnd(order, n, m)
        /\ SpanAt(list, n, Node(order, k), i) = Far(n, k, m)
    BY <1>2, SpanIs
  <2>. QED
    BY <1>1, <2>1 DEF SpanAt
<1>5. ASSUME NEW j \in 1..n
      PROVE  j \in later <=> j > k /\ h[j] >= i
  <2>1. DOMAIN list.forward[order[j]] = 1..h[j] /\ h[j] \in Nat
    <3>1. j \in 0..n /\ Node(order, j) = order[j]
      BY <1>1 DEF Node
    <3>. QED
      BY <1>1, <3>1 DEF Built, Tall
  <2>2. i \in 1..h[j] <=> h[j] >= i
    BY <1>1, <2>1
  <2>. QED
    BY <1>0, <2>1, <2>2
<1>6. CASE m = n + 1
  <2>1. later = {}
    <3>0. \A j \in later : j \in 1..n
      BY <1>0
    <3>1. ASSUME NEW j \in 1..n, j > k, h[j] >= i PROVE FALSE
      <4>1. j \in (k + 1)..(m - 1) /\ h[j] \in Nat
        BY <1>1, <1>6, <3>1
      <4>2. h[j] < i
        BY <1>3, <4>1
      <4>. QED
        BY <1>1, <3>1, <4>1, <4>2
    <3>. QED
      BY <1>5, <3>0, <3>1
  <2>2. next = End
    BY <1>0, <2>1
  <2>. QED
    BY <1>4, <1>6, <2>2 DEF NodeOrEnd, Far
<1>7. CASE m # n + 1
  <2>1. m \in 1..n
    BY <1>1, <1>3, <1>7
  <2>2. m \in later
    BY <1>3, <1>5, <2>1
  <2>3. ASSUME NEW j \in later PROVE j \in 1..n /\ m <= j
    <3>1. j \in 1..n
      BY <1>0
    <3>2. j > k /\ h[j] >= i /\ j \in Nat /\ h[j] \in Nat
      BY <1>1, <1>5, <3>1
    <3>3. ASSUME j < m PROVE FALSE
      <4>1. j \in (k + 1)..(m - 1)
        BY <1>1, <1>3, <3>2, <3>3
      <4>2. h[j] < i
        BY <1>3, <4>1
      <4>. QED
        BY <1>1, <3>2, <4>2
    <3>. QED
      BY <1>3, <3>1, <3>2, <3>3
  <2>. DEFINE least == CHOOSE j \in later : \A j2 \in later : j <= j2
  <2>4. least \in later /\ \A j2 \in later : least <= j2
    BY <2>2, <2>3
  <2>. HIDE DEF least
  <2>5. least = m
    <3>1. least <= m /\ m <= least /\ least \in 1..n
      BY <2>2, <2>3, <2>4
    <3>. QED
      BY <1>3, <3>1
  <2>6. next = order[m]
    <3>1. next = order[least]
      BY <1>0, <2>2 DEF least
    <3>. QED
      BY <2>5, <3>1
  <2>7. order[m] # End
    BY <1>1, <2>1, PlaceIs
  <2>. QED
    BY <1>4, <1>7, <2>1, <2>6, <2>7 DEF NodeOrEnd, Far
<1>. QED
  BY <1>6, <1>7

\* An exact list has the pointers and spans that the order of its members asks for.
LEMMA LanesOf == IsList(zset) => LanesExact
<1>. SUFFICES ASSUME IsList(zset) PROVE LanesExact
  OBVIOUS
<1>1. PICK n, order0, h : Built(zset, n, order0, h)
  BY DEF IsList
<1>2. /\ n \in Nat /\ Ordered(zset.score, n, order0) /\ h \in [0..n -> Nat]
      /\ order0 \in [1..n -> Members]
      /\ DOMAIN zset.forward = {Node(order0, k) : k \in 0..n}
      /\ \A k \in 0..n : DOMAIN zset.forward[Node(order0, k)] = 1..h[k]
  BY <1>1, HeightsAre DEF Built, Tall, Ordered
<1>. DEFINE order == Sorted(zset)
            RankOf(x) == IF x = HeadNode THEN 0
                         ELSE CHOOSE k \in DOMAIN order : order[k] = x
            Later(x, i) ==
              {k \in DOMAIN order : k > RankOf(x) /\ i \in DOMAIN zset.forward[order[k]]}
            NextOn(x, i) ==
              IF Later(x, i) = {} THEN End
              ELSE order[CHOOSE k \in Later(x, i) : \A j \in Later(x, i) : k <= j]
            Distance(x, y) ==
              (IF y = End THEN Len(order) ELSE RankOf(y)) - RankOf(x)
<1>3. order = order0 /\ DOMAIN order = 1..n /\ Len(order0) = n
  <2>1. order = order0
    BY <1>2, SortedIs
  <2>2. order0 \in Seq(Members)
    BY <1>2, SeqDef
  <2>3. Len(order0) = n
    BY <1>2, <2>2, LenProperties
  <2>. QED
    BY <1>2, <2>1, <2>3
<1>. HIDE DEF order
<1>4. /\ \A k \in 1..n : order0[k] # HeadNode /\ order0[k] # End
      /\ \A j, k \in 1..n : order0[j] = order0[k] => j = k
  <2>. HIDE DEF RankOf, Later, NextOn, Distance
  <2>1. \A k \in 1..n : order0[k] # HeadNode /\ order0[k] # End
    BY <1>2, PlaceIs
  <2>2. \A j, k \in 1..n : order0[j] = order0[k] => j = k
    BY <1>2, PlaceIs
  <2>. QED
    BY <2>1, <2>2
<1>5. ASSUME NEW k \in 1..n PROVE RankOf(order0[k]) = k
  BY <1>3, <1>4
<1>6. ASSUME NEW k \in 0..n PROVE RankOf(Node(order0, k)) = k
  <2>1. CASE k = 0
    BY <2>1 DEF Node
  <2>2. CASE k # 0
    <3>1. k \in 1..n
      BY <1>2, <2>2
    <3>. HIDE DEF RankOf
    <3>. QED
      BY <1>5, <2>2, <3>1 DEF Node
  <2>. QED
    BY <2>1, <2>2
<1>. HIDE DEF RankOf
<1>7. ASSUME NEW x \in DOMAIN zset.forward, NEW i \in DOMAIN zset.forward[x], i <= zset.level
      PROVE  /\ zset.forward[x][i] = NextOn(x, i)
             /\ zset.span[x][i] = Distance(x, NextOn(x, i))
  <2>1. PICK k \in 0..n : x = Node(order0, k)
    BY <1>2
  <2>2. i \in 1..h[k] /\ RankOf(x) = k
    BY <1>2, <1>6, <2>1
  <2>. DEFINE later == Later(x, i)
              next == NextOn(x, i)
              rank == RankOf(x)
  <2>3. later = {j \in 1..n : j > rank /\ i \in DOMAIN zset.forward[order0[j]]}
    BY <1>3
  <2>4. next = IF later = {} THEN End
               ELSE order0[CHOOSE j \in later : \A j2 \in later : j <= j2]
    BY <1>3
  <2>. HIDE DEF later, next, rank
  <2>5. /\ zset.forward[Node(order0, k)][i] = next
        /\ next = End => zset.span[Node(order0, k)][i] = n - k
        /\ next # End => \E m \in 1..n : next = order0[m]
                                         /\ zset.span[Node(order0, k)][i] = m - k
    <3>. HIDE DEF NextOn, Later, Distance
    <3>1. IsLater(later, zset, n, order0, k, i) /\ IsFirst(next, later, order0)
      <4>1. rank = k
        BY <2>2 DEF rank
      <4>. QED
        BY <2>3, <2>4, <4>1 DEF IsLater, IsFirst
    <3>2. k \in 0..n /\ i \in 1..h[k] /\ i <= zset.level
      BY <1>7, <2>2
    <3>. QED
      BY <1>1, <3>1, <3>2, LaneIs
  <2>6. zset.span[x][i] = Distance(x, next)
    <3>1. CASE next = End
      BY <1>3, <2>1, <2>2, <2>5, <3>1
    <3>2. CASE next # End
      <4>1. PICK m \in 1..n : next = order0[m] /\ zset.span[Node(order0, k)][i] = m - k
        BY <2>5, <3>2
      <4>2. RankOf(next) = m
        BY <1>5, <4>1
      <4>. QED
        BY <2>1, <2>2, <3>2, <4>1, <4>2
    <3>. QED
      BY <3>1, <3>2
  <2>. QED
    BY <2>1, <2>5, <2>6 DEF next
<1>8. zset.level > 1 => zset.forward[HeadNode][zset.level] # End
  BY DEF IsList, TopUsed
<1>9. /\ zset.level > 1 => zset.forward[HeadNode][zset.level] # End
      /\ \A x \in DOMAIN zset.forward : \A i \in DOMAIN zset.forward[x] :
           i <= zset.level =>
             /\ zset.forward[x][i] = NextOn(x, i)
             /\ zset.span[x][i] = Distance(x, NextOn(x, i))
  <2>. HIDE DEF NextOn, Distance
  <2>. QED
    BY <1>7, <1>8
<1>. QED
  BY <1>9, Zenon DEF LanesExact, order, RankOf

-----------------------------------------------------------------------------
(***************************************************************************)
(* The invariant, and what follows from it.                                *)
(***************************************************************************)

\* The inductive invariant: a sorted set is an exact list, at all times.
ListInv == IsList(zset)

\* It holds at the start, every ZADD keeps it, and so it always holds.
LEMMA InitIsList == InitZset => ListInv
BY EmptyIsList DEF InitZset, ListInv

LEMMA StepIsList == ListInv /\ [ZsetNext]_zset => ListInv'
<1>. SUFFICES ASSUME ListInv, [ZsetNext]_zset PROVE ListInv'
  OBVIOUS
<1>1. CASE ZsetNext
  <2>1. PICK score \in Scores, member \in Members : ZAdd(score, member)
    BY <1>1 DEF ZsetNext
  <2>2. PICK height \in 1..MaxHeight : zset' = InsertMember(zset, score, member, height)
    BY <2>1 DEF ZAdd
  <2>3. score \in Int
    BY SkipListAssumption
  <2>. QED
    BY <2>2, <2>3, InsertIs DEF ListInv
<1>2. CASE UNCHANGED zset
  BY <1>2 DEF ListInv
<1>. QED
  BY <1>1, <1>2

LEMMA AlwaysIsList == ZsetSpec => []ListInv
BY InitIsList, StepIsList, PTL DEF ZsetSpec

\* After any calls of ZADD, new scores for old members included, and whatever
\* heights the coins gave the nodes: each lane in use links the nodes that are high
\* enough, in the order of score and name, each span is the distance to the next
\* node on its lane, and the top lane in use is not empty (SkipList.insert and
\* SkipList.remove).
THEOREM LanesAreExact == ZsetSpec => []LanesExact
<1>1. ListInv => LanesExact
  BY LanesOf DEF ListInv
<1>. QED
  BY <1>1, AlwaysIsList, PTL

\* On an exact list, the walk by spans and pointers finds a range.
LEMMA RangesOf == IsList(zset) => RangesExact
<1>. SUFFICES ASSUME IsList(zset),
                     NEW from \in (-Length(zset) - 1)..(Length(zset) + 1),
                     NEW to \in (-Length(zset) - 1)..(Length(zset) + 1)
              PROVE  GetRange(zset, from, to) =
                       SubSeq(Sorted(zset), Normal(zset, from) + 1,
                              IF Normal(zset, to) < Length(zset) THEN Normal(zset, to) + 1
                              ELSE Length(zset))
  BY DEF RangesExact
<1>1. from \in Int /\ to \in Int
  OBVIOUS
<1>. QED
  BY <1>1, RangeIs

\* After any calls of ZADD, for every two ranks, negative ones and those past the
\* end included: get_range returns the members that stand at these ranks in the
\* order of score and name (SkipList.get_range).
THEOREM RangesAreExact == ZsetSpec => []RangesExact
<1>1. ListInv => RangesExact
  BY RangesOf DEF ListInv
<1>. QED
  BY <1>1, AlwaysIsList, PTL
=============================================================================
