------------------------------- MODULE SkipList -------------------------------
(***************************************************************************)
(* The sorted set (skiplist.py): nodes on lanes, each with a pointer and a *)
(* span on every lane it stands on, and a map of the scores.               *)
(*                                                                         *)
(* Members are numbers, in the order of the strings they stand for.  The   *)
(* node of a member has its name; HeadNode is the node before all, and End *)
(* is None.                                                                *)
(***************************************************************************)
EXTENDS Integers, Sequences, FiniteSets

CONSTANTS
  Members,   \* the members
  Scores,    \* the scores
  MaxHeight  \* MAX_LEVEL

VARIABLE
  zset  \* a sorted set

ASSUME SkipListAssumption ==
  /\ Members \subseteq Nat \ {0}
  /\ Scores \subseteq Int
  /\ MaxHeight \in Nat \ {0}

HeadNode == 0
End == -1

\* __init__
EmptyList ==
  [score   |-> <<>>,
   level   |-> 1,
   forward |-> [x \in {HeadNode} |-> [i \in 1..MaxHeight |-> End]],
   span    |-> [x \in {HeadNode} |-> [i \in 1..MaxHeight |-> 0]]]

Length(list) == Cardinality(DOMAIN list.score)

\* Where a walk is: at a node, behind so many nodes.
Cursors(list) == [update : DOMAIN list.forward, rank : Nat]

Lane(list, i) == {x \in DOMAIN list.forward : i \in DOMAIN list.forward[x]}

Step(list, i, at) ==
  [update |-> list.forward[at.update][i], rank |-> at.rank + list.span[at.update][i]]

\* Along lane i, as long as a step leads to one of the cursors in ahead.
Along(list, i, from, ahead) ==
  LET on[at \in [update : Lane(list, i), rank : Nat]] ==
        IF Step(list, i, at) \in ahead THEN on[Step(list, i, at)] ELSE at
  IN on[from]

\* The walk down the lanes: where it leaves each of them.
Descend(list, ahead) ==
  LET lane[i \in 1..list.level] ==
        Along(list, i, IF i = list.level THEN [update |-> HeadNode, rank |-> 0]
                       ELSE lane[i + 1], ahead)
  IN lane

\* By score, and those of the same score by name.
Less(score, member, score2, member2) ==
  score < score2 \/ (score = score2 /\ member < member2)

Below(list, score, member) ==
  {at \in Cursors(list) :
     at.update # HeadNode /\ Less(list.score[at.update], at.update, score, member)}

-----------------------------------------------------------------------------
\* Mutant of Lowered: lanes that have become empty stay in use.
LoweredNever(forward, level) == level

\* The level once the top lanes are empty.
Lowered(forward, level) ==
  LET used == {i \in 2..level : forward[HeadNode][i] # End}
  IN IF used = {} THEN 1 ELSE CHOOSE i \in used : \A j \in used : j <= i

\* remove
RemoveMember(list, member) ==
  LET path == Descend(list, Below(list, list.score[member], member))
      score == [m \in DOMAIN list.score \ {member} |-> list.score[m]]
      reached(x, i) == i <= list.level /\ path[i].update = x
      left == DOMAIN list.forward \ {member}
      forward == [x \in left |-> [i \in DOMAIN list.forward[x] |->
                    IF reached(x, i) /\ list.forward[x][i] = member
                    THEN list.forward[member][i] ELSE list.forward[x][i]]]
      span == [x \in left |-> [i \in DOMAIN list.span[x] |->
                 IF ~reached(x, i) THEN list.span[x][i]
                 ELSE IF list.forward[x][i] = member
                 THEN list.span[x][i] + list.span[member][i] - 1
                 ELSE list.span[x][i] - 1]]
  IN IF list.forward[path[1].update][1] # member THEN [list EXCEPT !.score = score]
     ELSE [score   |-> score,
           level   |-> Lowered(forward, list.level),
           forward |-> forward,
           span    |-> span]

\* Mutant of Bypassed: a lane that passes the new node by is left as it was.
BypassedKept(span) == span

\* The span over a node that comes to stand below its lane.
Bypassed(span) == span + 1

\* insert, of a member that is not there: a node of the given height.  A lane
\* that was not in use spans the whole list; those above the node get longer.
Splice(list, score, member, height) ==
  LET count == Length(list) + 1
      found == Descend(list, Below(list, score, member))
      level == IF height > list.level THEN height ELSE list.level
      path == [i \in 1..level |-> IF i <= list.level THEN found[i]
                                  ELSE [update |-> HeadNode, rank |-> 0]]
      spanAt(x, i) == IF i > list.level THEN count - 1 ELSE list.span[x][i]
      behind(i) == path[1].rank - path[i].rank
      reached(x, i) == i <= level /\ path[i].update = x
  IN [score   |-> [m \in DOMAIN list.score \union {member} |->
                     IF m = member THEN score ELSE list.score[m]],
      level   |-> level,
      forward |-> [x \in DOMAIN list.forward \union {member} |->
                     IF x = member
                     THEN [i \in 1..height |-> list.forward[path[i].update][i]]
                     ELSE [i \in DOMAIN list.forward[x] |->
                             IF reached(x, i) /\ i <= height
                             THEN member ELSE list.forward[x][i]]],
      span    |-> [x \in DOMAIN list.span \union {member} |->
                     IF x = member
                     THEN [i \in 1..height |-> spanAt(path[i].update, i) - behind(i)]
                     ELSE [i \in DOMAIN list.span[x] |->
                             IF ~reached(x, i) THEN list.span[x][i]
                             ELSE IF i <= height THEN behind(i) + 1
                             ELSE Bypassed(list.span[x][i])]]]

\* insert: a member with another score is taken out first.
InsertMember(list, score, member, height) ==
  IF member \notin DOMAIN list.score THEN Splice(list, score, member, height)
  ELSE IF list.score[member] = score THEN list
  ELSE Splice(RemoveMember(list, member), score, member, height)

-----------------------------------------------------------------------------
\* A rank that counts from the end.
Normal(list, i) ==
  IF i >= 0 THEN i ELSE IF Length(list) + i < 0 THEN 0 ELSE Length(list) + i

\* get_range: down the lanes by their spans to the node before the first one,
\* and from there along the lowest lane.
GetRange(list, from, to) ==
  LET length == Length(list)
      start == Normal(list, from)
      stop == IF Normal(list, to) < length THEN Normal(list, to) ELSE length - 1
      path == Descend(list, {at \in Cursors(list) : at.rank < start + 1})
      walk[k \in Nat] ==
        IF k = 0 THEN [elements |-> <<>>, current |-> list.forward[path[1].update][1]]
        ELSE LET was == walk[k - 1]
             IN IF was.current = End THEN was
                ELSE [elements |-> Append(was.elements, was.current),
                      current |-> list.forward[was.current][1]]
  IN IF length = 0 \/ start > Normal(list, to) \/ start >= length THEN <<>>
     ELSE walk[stop - start + 1].elements

-----------------------------------------------------------------------------
InitZset == zset = EmptyList

\* ZADD: the coins give a new node any height.
ZAdd(score, member) ==
  \E height \in 1..MaxHeight : zset' = InsertMember(zset, score, member, height)

ZsetNext == \E score \in Scores, member \in Members : ZAdd(score, member)

ZsetSpec == InitZset /\ [][ZsetNext]_zset

-----------------------------------------------------------------------------
(***************************************************************************)
(* What a sorted set is.                                                   *)
(***************************************************************************)

\* The members in their order.
Sorted(list) ==
  CHOOSE order \in [1..Length(list) -> DOMAIN list.score] :
    \A j, k \in 1..Length(list) :
      j < k => Less(list.score[order[j]], order[j], list.score[order[k]], order[k])

\* "Returns members by rank, lowest score first.  Negative ranks count from
\* the end, and a stop past the end is clamped" (docs/commands.md): after any
\* calls of ZADD, new scores for old members included, and whatever heights
\* the coins gave the nodes, the walk along spans and pointers returns what
\* counting in the sorted sequence does (SkipList.get_range).
RangesExact ==
  \A from, to \in (-Length(zset) - 1)..(Length(zset) + 1) :
    GetRange(zset, from, to) =
      SubSeq(Sorted(zset), Normal(zset, from) + 1,
             IF Normal(zset, to) < Length(zset) THEN Normal(zset, to) + 1
             ELSE Length(zset))

\* On every lane in use there are the nodes that are high enough, in order,
\* each with the distance to the next one, or to the end, as its span; and the
\* top lane in use is not empty (insert, remove).
LanesExact ==
  LET order == Sorted(zset)
      RankOf(x) == IF x = HeadNode THEN 0
                   ELSE CHOOSE k \in DOMAIN order : order[k] = x
      Later(x, i) ==
        {k \in DOMAIN order : k > RankOf(x) /\ i \in DOMAIN zset.forward[order[k]]}
      NextOn(x, i) ==
        IF Later(x, i) = {} THEN End
        ELSE order[CHOOSE k \in Later(x, i) : \A j \in Later(x, i) : k <= j]
      Distance(x, y) ==
        (IF y = End THEN Len(order) ELSE RankOf(y)) - RankOf(x)
  IN /\ zset.level > 1 => zset.forward[HeadNode][zset.level] # End
     /\ \A x \in DOMAIN zset.forward : \A i \in DOMAIN zset.forward[x] :
          i <= zset.level =>
            /\ zset.forward[x][i] = NextOn(x, i)
            /\ zset.span[x][i] = Distance(x, NextOn(x, i))
=============================================================================
