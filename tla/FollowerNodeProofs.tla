-------------------------- MODULE FollowerNodeProofs --------------------------
(***************************************************************************)
(* Proofs about BlockingReads, for any number of readers and writers: the  *)
(* set of futures is exact, and no wake-up is lost.  Each of the three     *)
(* invariants is inductive given those before it.                          *)
(*                                                                         *)
(* And about FollowerNode: a node that follows a leader is, to the         *)
(* sessions that sleep on it, a node with writers and a stream of a        *)
(* leader.  NodeSpec implements ReadsSpec, so that what is shown of the    *)
(* reads holds of the node, for whatever its leader sends and however its  *)
(* connection ends.  It implements FollowerSpec as well, of which there is *)
(* an invariant: where in the script the follower is, what it has applied  *)
(* and collected of the frames up to there, and what its hint may say.     *)
(***************************************************************************)
EXTENDS FollowerNode, FiniteSetTheorems, SequenceTheorems, TLAPS

\* What the steps of a reader and of a writer are made of.
LEMMA StepKinds ==
  ASSUME [ReadsNext]_readsVars
  PROVE  \/ UNCHANGED readsVars
         \/ \E r \in Readers :
              \/ Block(r) \/ Pass(r) \/ Finish(r) \/ Park(r) \/ Woken(r)
              \/ Leave(r) \/ TimeOut(r) \/ Answer(r) \/ Depart(r) \/ Expire(r)
         \/ \E w \in Writers : Write(w) \/ Announce(w) \/ LoseWriter(w)
         \/ \E newTop \in top..MaxEntries, stopped \in BOOLEAN :
              ApplyFromLeader(newTop, stopped)
         \/ AnnounceLeader \/ StopLeader
         \/ \E n \in 0..MaxEntries : LoadBaseline(n)
  BY DEF ReadsNext, ClientsNext, LeaderStep, ReadStep, WriteStep

-----------------------------------------------------------------------------
\* The identifier before the first entry is within the bound.
LEMMA ZeroBound == 0 \in 0..MaxEntries
  BY ReadsAssumption

LEMMA InitTyped == InitReads => ReadsTypeOK
<1> SUFFICES ASSUME InitReads PROVE ReadsTypeOK
  OBVIOUS
<1>1. after \in [Readers -> 0..MaxEntries]
  BY ZeroBound DEF InitReads
<1>2. /\ top \in 0..MaxEntries /\ group \in BOOLEAN /\ cursor \in 0..MaxEntries
      /\ waiters \subseteq Readers /\ silent \in BOOLEAN
      /\ leader \in {"quiet", "applied"}
  BY ZeroBound DEF InitReads
<1>3. /\ phase \in [Readers -> Asleep \union {"idle", "replying"}]
      /\ reads \in [Readers -> {"none", "xread", "group"}]
      /\ late \in [Readers -> BOOLEAN]
      /\ peer \in [Readers -> {"here", "gone", "goneUnread"}]
      /\ wake \in [Readers -> {"none", "pending", "done"}]
      /\ writing \in [Writers -> {"idle", "command", "block"}]
  BY DEF InitReads, Asleep
<1>4. QED
  BY <1>1, <1>2, <1>3 DEF ReadsTypeOK

\* Every step keeps the types.
LEMMA StepTyped ==
  ASSUME ReadsTypeOK, [ReadsNext]_readsVars
  PROVE  ReadsTypeOK'
<1> USE ReadsAssumption DEF ReadsTypeOK, Asleep
<1>1. CASE UNCHANGED readsVars
  BY <1>1 DEF readsVars, streamVars, sleepVars, writeVars
<1>2. ASSUME NEW r \in Readers, Block(r)
      PROVE  ReadsTypeOK'
  BY <1>2 DEF Block, Ask, Pinned, Register, streamVars, writeVars
<1>3. ASSUME NEW r \in Readers, Pass(r)
      PROVE  ReadsTypeOK'
  BY <1>3 DEF Pass, writeVars
<1>4. ASSUME NEW r \in Readers, Finish(r) \/ TimeOut(r)
      PROVE  ReadsTypeOK'
  <2>1. Reply(r) /\ UNCHANGED <<streamVars, writeVars>>
    BY <1>4 DEF Finish, TimeOut
  <2>2. after' \in [Readers -> 0..MaxEntries]
    BY <2>1, ZeroBound DEF Reply, EndRead
  <2>3. /\ wake' \in [Readers -> {"none", "pending", "done"}]
        /\ waiters' \subseteq Readers
        /\ late' \in [Readers -> BOOLEAN]
        /\ phase' \in [Readers -> Asleep \union {"idle", "replying"}]
    BY <2>1 DEF Reply, EndRead
  <2>4. UNCHANGED <<top, group, cursor, reads, peer, writing, leader, silent>>
    BY <2>1 DEF Reply, streamVars, writeVars
  <2>5. QED
    BY <2>2, <2>3, <2>4
<1>5. ASSUME NEW r \in Readers, Park(r) \/ Woken(r)
      PROVE  ReadsTypeOK'
  BY <1>5 DEF Park, Woken, Register, streamVars, writeVars
<1>6. ASSUME NEW r \in Readers, Leave(r)
      PROVE  ReadsTypeOK'
  BY <1>6 DEF Leave, EndRead, EndSession, streamVars, writeVars
<1>7. ASSUME NEW r \in Readers, Answer(r)
      PROVE  ReadsTypeOK'
  BY <1>7 DEF Answer, EndSession, Notify, streamVars
<1>8. ASSUME NEW r \in Readers, Depart(r) \/ Expire(r)
      PROVE  ReadsTypeOK'
  <2>1. CASE Depart(r)
    BY <2>1 DEF Depart, streamVars, writeVars
  <2>2. CASE Expire(r)
    BY <2>2 DEF Expire, streamVars, writeVars
  <2>3. QED
    BY <1>8, <2>1, <2>2
<1>9. ASSUME NEW w \in Writers, Write(w)
      PROVE  ReadsTypeOK'
  <2>1. top' \in 0..MaxEntries /\ group' \in BOOLEAN /\ cursor' \in 0..MaxEntries
    <3>1. CASE top < MaxEntries /\ top' = top + 1 /\ UNCHANGED <<group, cursor>>
      BY <3>1
    <3>2. CASE group' = TRUE /\ cursor' \in {0, top} /\ UNCHANGED top
      BY <3>2, ZeroBound
    <3>3. CASE group' = FALSE /\ cursor' = 0 /\ UNCHANGED top
      BY <3>3, ZeroBound
    <3>4. CASE UNCHANGED streamVars
      BY <3>4 DEF streamVars
    <3>5. QED
      BY <1>9, <3>1, <3>2, <3>3, <3>4 DEF Write, ChangeStream
  <2>2. writing' \in [Writers -> {"idle", "command", "block"}]
    BY <1>9 DEF Write
  <2>3. QED
    BY <1>9, <2>1, <2>2 DEF Write, sleepVars
<1>10. ASSUME NEW w \in Writers, Announce(w) \/ LoseWriter(w)
       PROVE  ReadsTypeOK'
  <2>1. writing' = [writing EXCEPT ![w] = "idle"] /\ UNCHANGED <<streamVars, leader>>
    BY <1>10 DEF Announce, LoseWriter
  <2>2. CASE Announce(w)
    BY <2>1, <2>2 DEF Announce, Notify, streamVars
  <2>3. CASE LoseWriter(w)
    BY <2>1, <2>3 DEF LoseWriter, streamVars, sleepVars
  <2>4. QED
    BY <1>10, <2>2, <2>3
<1>11. ASSUME NEW newTop \in top..MaxEntries, NEW stopped \in BOOLEAN,
              ApplyFromLeader(newTop, stopped)
       PROVE  ReadsTypeOK'
  BY <1>11 DEF ApplyFromLeader, sleepVars
<1>12. CASE AnnounceLeader \/ StopLeader
  <2>1. CASE AnnounceLeader
    BY <2>1 DEF AnnounceLeader, Notify, streamVars
  <2>2. CASE StopLeader
    BY <2>2 DEF StopLeader, streamVars, sleepVars
  <2>3. QED
    BY <1>12, <2>1, <2>2
<1>13. ASSUME NEW n \in 0..MaxEntries, LoadBaseline(n)
       PROVE  ReadsTypeOK'
  <2>1. top' \in 0..MaxEntries /\ group' \in BOOLEAN /\ cursor' \in 0..MaxEntries
    BY <1>13, ZeroBound DEF LoadBaseline
  <2>2. QED
    BY <1>13, <2>1 DEF LoadBaseline, sleepVars
<1>14. QED
  BY StepKinds, <1>1, <1>2, <1>3, <1>4, <1>5, <1>6, <1>7, <1>8, <1>9, <1>10,
     <1>11, <1>12, <1>13

\* For all readers, writers and bounds, every variable keeps its type.
THEOREM ReadsTyped == ReadsSpec => []ReadsTypeOK
<1>1. ReadsTypeOK /\ [ReadsNext]_readsVars => ReadsTypeOK'
  BY StepTyped
<1>2. QED
  BY InitTyped, <1>1, PTL DEF ReadsSpec

-----------------------------------------------------------------------------
LEMMA InitWaiters == InitReads => WaitersExact
  BY DEF InitReads, WaitersExact, Asleep

\* notify_stream_waiters leaves no future in the set, and none unresolved.
LEMMA NotifyAll ==
  ASSUME ReadsTypeOK, WaitersExact, Notify
  PROVE  /\ waiters' = {}
         /\ \A r \in Readers : wake'[r] # "pending"
         /\ \A r \in Readers : wake'[r] # "none" <=> wake[r] # "none"
  BY DEF ReadsTypeOK, WaitersExact, Notify

\* The set of futures stays exact.
LEMMA StepWaiters ==
  ASSUME ReadsTypeOK, WaitersExact, [ReadsNext]_readsVars
  PROVE  WaitersExact'
<1> USE DEF ReadsTypeOK, WaitersExact, Asleep
<1>1. CASE UNCHANGED readsVars
  BY <1>1 DEF readsVars, sleepVars
<1>2. ASSUME NEW r \in Readers, Block(r)
      PROVE  WaitersExact'
  BY <1>2 DEF Block, Register
<1>3. ASSUME NEW r \in Readers, Pass(r) \/ Park(r)
      PROVE  WaitersExact'
  BY <1>3 DEF Pass, Park
<1>4. ASSUME NEW r \in Readers, Finish(r) \/ TimeOut(r)
      PROVE  WaitersExact'
  BY <1>4 DEF Finish, TimeOut, Reply, EndRead
<1>5. ASSUME NEW r \in Readers, Woken(r)
      PROVE  WaitersExact'
  BY <1>5 DEF Woken, Register
<1>6. ASSUME NEW r \in Readers, Leave(r)
      PROVE  WaitersExact'
  BY <1>6 DEF Leave, EndRead, EndSession
<1>7. ASSUME NEW r \in Readers, Answer(r)
      PROVE  WaitersExact'
  <2>1. phase' = [phase EXCEPT ![r] = "idle"] /\ phase[r] = "replying"
    BY <1>7 DEF Answer, EndSession
  <2>2. CASE Notify
    BY <2>1, <2>2, NotifyAll
  <2>3. CASE UNCHANGED <<wake, waiters, silent>>
    BY <2>1, <2>3
  <2>4. QED
    BY <1>7, <2>2, <2>3 DEF Answer
<1>8. ASSUME NEW r \in Readers, Depart(r) \/ Expire(r)
      PROVE  WaitersExact'
  BY <1>8 DEF Depart, Expire
<1>9. ASSUME NEW w \in Writers, Write(w) \/ LoseWriter(w)
      PROVE  WaitersExact'
  BY <1>9 DEF Write, LoseWriter, sleepVars
<1>10. ASSUME Notify, UNCHANGED phase
       PROVE  WaitersExact'
  BY <1>10, NotifyAll
<1>11. ASSUME NEW newTop \in top..MaxEntries, NEW stopped \in BOOLEAN,
              ApplyFromLeader(newTop, stopped)
       PROVE  WaitersExact'
  BY <1>11 DEF ApplyFromLeader, sleepVars
<1>12. CASE StopLeader
  BY <1>12 DEF StopLeader, sleepVars
<1>13. ASSUME NEW n \in 0..MaxEntries, LoadBaseline(n)
       PROVE  WaitersExact'
  BY <1>13 DEF LoadBaseline, sleepVars
<1>14. ASSUME NEW w \in Writers, Announce(w)
       PROVE  WaitersExact'
  BY <1>10, <1>14 DEF Announce
<1>15. CASE AnnounceLeader
  BY <1>10, <1>15 DEF AnnounceLeader
<1>16. QED
  BY StepKinds, <1>1, <1>2, <1>3, <1>4, <1>5, <1>6, <1>7, <1>8, <1>9, <1>11,
     <1>12, <1>13, <1>14, <1>15

\* For all readers, writers and bounds: stream_waiters holds the unresolved
\* futures of blocked reads and no others, so no read leaves one behind.
THEOREM WaitersAreExact == ReadsSpec => []WaitersExact
<1>1. ReadsTypeOK /\ WaitersExact /\ [ReadsNext]_readsVars => WaitersExact'
  BY StepWaiters
<1>2. QED
  BY InitWaiters, ReadsTyped, <1>1, PTL DEF ReadsSpec
-----------------------------------------------------------------------------
LEMMA InitNoLost == InitReads => NoLostWakeup
  BY DEF InitReads, NoLostWakeup

\* Once all have been notified, nobody that sleeps has an unresolved future.
LEMMA NotifiedNoLost ==
  ASSUME ReadsTypeOK, WaitersExact, Notify
  PROVE  NoLostWakeup'
  BY NotifyAll DEF NoLostWakeup

\* A step of one reader that gives no other reader anything to read, and that
\* leaves that one reader with nothing to read, or not about to sleep.
LEMMA OneReaderNoLost ==
  ASSUME ReadsTypeOK, NoLostWakeup, NEW r \in Readers,
         \A s \in Readers \ {r} :
           phase'[s] = phase[s] /\ wake'[s] = wake[s] /\ (HasNews(s)' => HasNews(s)),
         Owed => Owed', silent' = silent,
         \/ phase'[r] \notin {"empty", "parked"}
         \/ wake'[r] # "pending"
         \/ ~HasNews(r)'
         \/ /\ phase[r] \in {"empty", "parked"}
            /\ wake'[r] = wake[r]
            /\ HasNews(r)' => HasNews(r)
  PROVE  NoLostWakeup'
  BY DEF NoLostWakeup

\* A step that nobody is notified of, but that somebody owes a notification
\* for, or nobody can.
LEMMA OwedNoLost ==
  ASSUME Owed' \/ silent'
  PROVE  NoLostWakeup'
  BY DEF NoLostWakeup

\* No step loses a wake-up.
LEMMA StepNoLost ==
  ASSUME ReadsTypeOK, WaitersExact, NoLostWakeup, [ReadsNext]_readsVars
  PROVE  NoLostWakeup'
<1>1. CASE UNCHANGED readsVars
  BY <1>1 DEF readsVars, streamVars, sleepVars, writeVars, NoLostWakeup, HasNews, Owed
<1>2. ASSUME NEW r \in Readers, Block(r) \/ Woken(r)
      PROVE  NoLostWakeup'
  <2>1. /\ phase'[r] = "registered"
        /\ \A s \in Readers \ {r} :
             /\ phase'[s] = phase[s] /\ wake'[s] = wake[s]
             /\ reads'[s] = reads[s] /\ after'[s] = after[s]
        /\ UNCHANGED <<top, group, cursor, writing, leader, silent>>
    BY <1>2 DEF Block, Woken, Ask, Register, ReadsTypeOK, streamVars, writeVars
  <2>2. QED
    BY <2>1, OneReaderNoLost DEF HasNews, Owed
<1>3. ASSUME NEW r \in Readers, Pass(r)
      PROVE  NoLostWakeup'
  <2>1. /\ \A s \in Readers \ {r} : phase'[s] = phase[s] /\ wake'[s] = wake[s]
        /\ UNCHANGED <<top, group, reads, after, writing, leader, silent>>
        /\ cursor' = cursor \/ (cursor' = top /\ group)
    BY <1>3 DEF Pass, ReadsTypeOK, writeVars
  <2>2. \A s \in Readers : HasNews(s)' => HasNews(s)
    BY <2>1 DEF HasNews, ReadsTypeOK
  <2>3. phase'[r] = "found" \/ ~HasNews(r)
    BY <1>3 DEF Pass, ReadsTypeOK
  <2>4. QED
    BY <2>1, <2>2, <2>3, OneReaderNoLost DEF Owed
<1>4. ASSUME NEW r \in Readers, Finish(r) \/ TimeOut(r) \/ Leave(r)
      PROVE  NoLostWakeup'
  <2>1. /\ phase'[r] \in {"idle", "replying"}
        /\ \A s \in Readers \ {r} :
             /\ phase'[s] = phase[s] /\ wake'[s] = wake[s]
             /\ reads'[s] = reads[s] /\ after'[s] = after[s]
        /\ UNCHANGED <<top, group, cursor, writing, leader, silent>>
    BY <1>4 DEF Finish, TimeOut, Leave, Reply, EndRead, EndSession, ReadsTypeOK,
                streamVars, writeVars
  <2>2. QED
    BY <2>1, OneReaderNoLost DEF HasNews, Owed
<1>5. ASSUME NEW r \in Readers, Park(r) \/ Depart(r) \/ Expire(r)
      PROVE  NoLostWakeup'
  <2>1. /\ UNCHANGED <<top, group, cursor, reads, after, wake, writing, leader, silent>>
        /\ \A s \in Readers : phase'[s] = phase[s] \/ phase[s] = "empty"
    BY <1>5 DEF Park, Depart, Expire, ReadsTypeOK, streamVars, writeVars
  <2>2. QED
    BY <2>1 DEF NoLostWakeup, HasNews, Owed
<1>6. ASSUME NEW r \in Readers, Answer(r)
      PROVE  NoLostWakeup'
  <2>1. CASE Notify
    BY <2>1, NotifiedNoLost
  <2>2. CASE UNCHANGED <<wake, waiters, silent>>
    <3>1. /\ phase'[r] = "idle"
          /\ \A s \in Readers \ {r} :
               /\ phase'[s] = phase[s] /\ wake'[s] = wake[s]
               /\ reads'[s] = reads[s] /\ after'[s] = after[s]
          /\ UNCHANGED <<top, group, cursor, writing, leader, silent>>
      BY <1>6, <2>2 DEF Answer, EndSession, ReadsTypeOK, streamVars
    <3>2. QED
      BY <3>1, OneReaderNoLost DEF HasNews, Owed
  <2>3. QED
    BY <1>6, <2>1, <2>2 DEF Answer
<1>7. ASSUME NEW w \in Writers, Write(w)
      PROVE  NoLostWakeup'
  <2>1. writing'[w] \in {"command", "block"}
    BY <1>7 DEF Write, ReadsTypeOK
  <2>2. QED
    BY <2>1, OwedNoLost DEF Owed
<1>8. ASSUME NEW w \in Writers, Announce(w)
      PROVE  NoLostWakeup'
  BY <1>8, NotifiedNoLost DEF Announce
<1>9. ASSUME NEW w \in Writers, LoseWriter(w)
      PROVE  NoLostWakeup'
  BY <1>9, OwedNoLost DEF LoseWriter
<1>10. ASSUME NEW newTop \in top..MaxEntries, NEW stopped \in BOOLEAN,
              ApplyFromLeader(newTop, stopped)
       PROVE  NoLostWakeup'
  BY <1>10, OwedNoLost DEF ApplyFromLeader, Owed
<1>11. CASE AnnounceLeader
  BY <1>11, NotifiedNoLost DEF AnnounceLeader
<1>12. CASE StopLeader
  <2>1. CASE silent'
    BY <2>1, OwedNoLost
  <2>2. CASE ~silent'
    <3>1. leader = "quiet" /\ UNCHANGED <<streamVars, sleepVars, writing, silent, leader>>
      BY <1>12, <2>2 DEF StopLeader, ReadsTypeOK
    <3>2. QED
      BY <3>1 DEF NoLostWakeup, HasNews, Owed, streamVars, sleepVars
  <2>3. QED
    BY <2>1, <2>2
<1>13. ASSUME NEW n \in 0..MaxEntries, LoadBaseline(n)
       PROVE  NoLostWakeup'
  BY <1>13, OwedNoLost DEF LoadBaseline
<1>14. QED
  BY StepKinds, <1>1, <1>2, <1>3, <1>4, <1>5, <1>6, <1>7, <1>8, <1>9, <1>10,
     <1>11, <1>12, <1>13

\* For all readers, writers and bounds: a read that sleeps with something to
\* read has a notification coming, unless the change was made by one who can
\* notify nobody any more.
THEOREM NoWakeupIsLost == ReadsSpec => []NoLostWakeup
<1>1. /\ ReadsTypeOK /\ WaitersExact /\ NoLostWakeup /\ [ReadsNext]_readsVars
      => NoLostWakeup'
  BY StepNoLost
<1>2. QED
  BY InitNoLost, ReadsTyped, WaitersAreExact, <1>1, PTL DEF ReadsSpec

-----------------------------------------------------------------------------
\* Every step of the node is a step of the blocked reads, or leaves them.
LEMMA NodeStep ==
  ASSUME [NodeNext]_nodeVars
  PROVE  [ReadsNext]_readsVars
<1>1. CASE UNCHANGED nodeVars
  BY <1>1 DEF nodeVars
<1>2. CASE FollowOn
  BY <1>2 DEF FollowOn
<1>3. CASE RestoreBaseline
  BY <1>3 DEF RestoreBaseline, ReadsNext, LeaderStep
<1>4. CASE ApplyUnit
  <2>1. PICK newTop \in top..MaxEntries : ApplyFromLeader(newTop, stage # "applying")
    BY <1>4 DEF ApplyUnit
  <2>2. (stage # "applying") \in BOOLEAN
    OBVIOUS
  <2>3. \E n \in top..MaxEntries, stopped \in BOOLEAN : ApplyFromLeader(n, stopped)
    BY <2>1, <2>2
  <2>4. QED
    BY <2>3 DEF ReadsNext, LeaderStep
<1>5. CASE NotifyOfUnit
  BY <1>5 DEF NotifyOfUnit, ReadsNext, LeaderStep
<1>6. CASE StopFollowing
  BY <1>6 DEF StopFollowing, ReadsNext, LeaderStep
<1>7. ASSUME NEW r \in Readers, Sleep(r)
      PROVE  ReadsNext
  BY <1>7 DEF Sleep, ReadsNext, ClientsNext
<1>8. ASSUME NEW w \in Writers, LocalWrite(w)
      PROVE  ReadsNext
  BY <1>8 DEF LocalWrite, ReadsNext, ClientsNext
<1>9. QED
  BY <1>1, <1>2, <1>3, <1>4, <1>5, <1>6, <1>7, <1>8 DEF NodeNext

\* For all scripts, readers, writers and bounds: the node implements the
\* blocked reads with a leader's stream.
THEOREM NodeImplementsReads == NodeSpec => ReadsSpec
<1>1. InitNode => InitReads
  BY DEF InitNode
<1>2. [NodeNext]_nodeVars => [ReadsNext]_readsVars
  BY NodeStep
<1>3. QED
  BY <1>1, <1>2, PTL DEF NodeSpec, ReadsSpec

\* For all scripts of a leader and all points at which its stream can fail or
\* be stopped: the set of futures is exact, and no wake-up is lost.
THEOREM NodeKeepsReaders == NodeSpec => [](WaitersExact /\ NoLostWakeup)
  BY NodeImplementsReads, WaitersAreExact, NoWakeupIsLost, PTL

-----------------------------------------------------------------------------
(***************************************************************************)
(* Where the frames of a script are.                                       *)
(***************************************************************************)
Added(n, i, frames) == n + frames[i].size

Sums == INSTANCE FoldTheorems WITH Op <- Added

\* Where the first frames end.
EndIn(f, j) == IF j = 0 THEN 0 ELSE End(f[j].parts)

OnePart == [end : Nat, kind : {"line", "bytes", "junk"}]
Parts == Seq(OnePart)
OneFrame ==
  [parts : Parts, blank : BOOLEAN, what : {"command", "tx", "baseline", "blank"},
   count : Nat, size : Nat, adds : Nat]

LEMMA FrameIs ==
  ASSUME NEW f, Script(f), NEW i \in DOMAIN f
  PROVE  /\ DOMAIN f = 1..Len(f) /\ Len(f) \in Nat /\ i \in 1..Len(f)
         /\ f[i].parts \in Parts /\ f[i].parts # <<>>
         /\ f[i].what \in {"command", "tx", "baseline", "blank"} /\ f[i].blank \in BOOLEAN
         /\ f[i].count \in Nat /\ f[i].size \in Nat
         /\ f[i].what = "blank" <=> f[i].blank
         /\ f[i].what = "baseline" => \A j \in 1..(i - 1) : f[j].blank
<1>1. f \in Seq(OneFrame)
  BY DEF Script, OneFrame, Parts, OnePart
<1>2. DOMAIN f = 1..Len(f) /\ Len(f) \in Nat /\ i \in 1..Len(f) /\ f[i] \in OneFrame
  BY <1>1
<1>3. /\ f[i].parts # <<>>
      /\ f[i].what = "blank" <=> f[i].blank
      /\ f[i].what = "baseline" => \A j \in 1..(i - 1) : f[j].blank
  BY DEF Script
<1>. QED
  BY <1>2, <1>3 DEF OneFrame

LEMMA PartsRise ==
  ASSUME NEW f, Script(f), NEW i \in DOMAIN f
  PROVE  /\ \A j, k \in DOMAIN f[i].parts : j < k => f[i].parts[j].end < f[i].parts[k].end
         /\ StartOf(f, i) < f[i].parts[1].end
BY DEF Script

LEMMA PartsOf ==
  ASSUME NEW p \in Parts, p # <<>>
  PROVE  /\ Len(p) \in Nat /\ Len(p) >= 1 /\ DOMAIN p = 1..Len(p)
         /\ \A k \in 1..Len(p) : p[k].end \in Nat /\ p[k].kind \in {"line", "bytes", "junk"}
         /\ End(p) \in Nat /\ End(p) = p[Len(p)].end
<1>1. Len(p) \in Nat /\ Len(p) >= 1 /\ DOMAIN p = 1..Len(p)
  BY DEF Parts
<1>2. \A k \in 1..Len(p) : p[k].end \in Nat /\ p[k].kind \in {"line", "bytes", "junk"}
  <2>1. \A k \in 1..Len(p) : p[k] \in OnePart
    BY DEF Parts
  <2>. QED
    BY <2>1 DEF OnePart
<1>. QED
  BY <1>1, <1>2 DEF End

\* A frame begins where the one before it ends, and its parts are behind that.
LEMMA FrameEnds ==
  ASSUME NEW f, Script(f), NEW i \in DOMAIN f
  PROVE  /\ StartOf(f, i) = EndIn(f, i - 1)
         /\ EndIn(f, i) = End(f[i].parts) /\ EndIn(f, i) \in Nat /\ EndIn(f, i - 1) \in Nat
         /\ \A k \in DOMAIN f[i].parts :
              /\ f[i].parts[k].end \in Nat
              /\ EndIn(f, i - 1) < f[i].parts[k].end /\ f[i].parts[k].end <= EndIn(f, i)
         /\ EndIn(f, i - 1) < EndIn(f, i)
<1>. DEFINE p == f[i].parts
<1>1. p \in Parts /\ p # <<>> /\ i \in 1..Len(f) /\ Len(f) \in Nat
  BY FrameIs
<1>2. /\ \A j, k \in DOMAIN p : j < k => p[j].end < p[k].end
      /\ StartOf(f, i) < p[1].end
  BY PartsRise
<1>3. StartOf(f, i) = EndIn(f, i - 1)
  BY <1>1 DEF StartOf, EndIn
<1>4. EndIn(f, i) = End(p)
  BY <1>1 DEF EndIn
<1>5. EndIn(f, i - 1) \in Nat
  <2>1. CASE i = 1
    BY <2>1 DEF EndIn
  <2>2. CASE i # 1
    <3>1. i - 1 \in DOMAIN f /\ i - 1 # 0
      BY <1>1, <2>2, FrameIs
    <3>2. f[i - 1].parts \in Parts /\ f[i - 1].parts # <<>>
      BY <3>1, FrameIs
    <3>. QED
      BY <3>1, <3>2, PartsOf DEF EndIn
  <2>. QED
    BY <2>1, <2>2
<1>. HIDE DEF p
<1>6. /\ Len(p) \in Nat /\ Len(p) >= 1 /\ DOMAIN p = 1..Len(p)
      /\ \A k \in 1..Len(p) : p[k].end \in Nat
      /\ End(p) \in Nat /\ End(p) = p[Len(p)].end
  BY <1>1, PartsOf
<1>7. ASSUME NEW k \in 1..Len(p)
      PROVE  p[k].end \in Nat /\ EndIn(f, i - 1) < p[k].end /\ p[k].end <= End(p)
  <2>1. p[k].end = End(p) \/ p[k].end < End(p)
    <3>1. k \in DOMAIN p /\ Len(p) \in DOMAIN p /\ End(p) = p[Len(p)].end
      BY <1>6
    <3>2. k = Len(p) \/ k < Len(p)
      <4>1. k \in Nat /\ k <= Len(p) /\ Len(p) \in Nat
        BY <1>6
      <4>. QED
        BY ONLY <4>1
    <3>. QED
      BY <1>2, <3>1, <3>2
  <2>2. p[k].end = p[1].end \/ p[1].end < p[k].end
    <3>1. k = 1 \/ 1 < k
      BY <1>6
    <3>. QED
      BY <1>2, <1>6, <3>1
  <2>3. p[1].end \in Nat /\ p[k].end \in Nat
    BY <1>6
  <2>. QED
    BY <1>2, <1>3, <1>5, <1>6, <2>1, <2>2, <2>3
<1>8. EndIn(f, i - 1) < End(p)
  BY <1>6, <1>7
<1>. QED
  BY <1>3, <1>4, <1>5, <1>6, <1>7, <1>8 DEF p

LEMMA EndsRise ==
  ASSUME NEW f, Script(f), NEW j \in 0..Len(f), NEW i \in 0..j
  PROVE  /\ EndIn(f, i) \in Nat /\ EndIn(f, j) \in Nat
         /\ EndIn(f, i) <= EndIn(f, j)
         /\ i < j => EndIn(f, i) < EndIn(f, j)
<1>. DEFINE n == Len(f)
            Far(k) == i <= k => /\ EndIn(f, k) \in Nat
                                /\ EndIn(f, i) <= EndIn(f, k)
                                /\ i < k => EndIn(f, i) < EndIn(f, k)
            G == {k \in 0..n : Far(k)}
<1>1. n \in Nat /\ DOMAIN f = 1..n
  BY DEF Script
<1>2. \A k \in 1..n : EndIn(f, k - 1) \in Nat /\ EndIn(f, k) \in Nat /\ EndIn(f, k - 1) < EndIn(f, k)
  BY <1>1, FrameEnds
<1>3. EndIn(f, i) \in Nat
  BY <1>1, <1>2 DEF EndIn
<1>. HIDE DEF n
<1>4. 0 \in G
  BY <1>1, <1>3
<1>5. ASSUME NEW k \in 1..n, k - 1 \in G PROVE k \in G
  <2>1. Far(k - 1) /\ k - 1 \in 0..n /\ k \in 0..n
    BY <1>1, <1>5
  <2>2. CASE i = k
    BY <1>1, <1>3, <2>1, <2>2
  <2>3. CASE i <= k - 1
    BY <1>2, <1>3, <2>1, <2>3
  <2>. QED
    BY <1>1, <2>1, <2>2, <2>3
<1>. HIDE DEF G
<1>6. \A k \in 0..n : k \in G
  BY <1>1, <1>4, <1>5, Sums!UpTo
<1>. QED
  BY <1>1, <1>3, <1>6 DEF G, n

-----------------------------------------------------------------------------
(***************************************************************************)
(* What a parse from the end of the j-th frame comes to.                   *)
(***************************************************************************)
Skips(f, j, m, total) == \A k \in (j + 1)..m : f[k].blank /\ Whole(f[k].parts, total)

Behind(f, j) == (j + 1)..Len(f)

FindsCommand(f, j, i, total, r) ==
  /\ i \in Behind(f, j) /\ Skips(f, j, i - 1, total)
  /\ ~f[i].blank /\ Whole(f[i].parts, total)
  /\ r.verdict = "command" /\ r.frame = i

FindsJunk(f, j, i, total, r) ==
  /\ i \in Behind(f, j) /\ Skips(f, j, i - 1, total)
  /\ Malformed(f[i].parts, total)
  /\ r.verdict = "malformed"

FindsNothing(f, j, m, total, r) ==
  /\ m \in j..Len(f) /\ Skips(f, j, m, total)
  /\ total = EndIn(f, m)
  /\ r.verdict = "nothing" /\ r.pos = total /\ r.need = 0

FindsPart(f, j, i, total, r) ==
  /\ i \in Behind(f, j) /\ Skips(f, j, i - 1, total)
  /\ EndIn(f, i - 1) < total /\ total < EndIn(f, i) /\ ~Malformed(f[i].parts, total)
  /\ r.verdict = "incomplete" /\ r.pos = EndIn(f, i - 1)
  /\ r.need = Hint(f[i].parts, total) - EndIn(f, i - 1)

Finds(f, j, total, r) ==
  \/ \E i \in Behind(f, j) :
       FindsCommand(f, j, i, total, r) \/ FindsJunk(f, j, i, total, r) \/ FindsPart(f, j, i, total, r)
  \/ \E m \in j..Len(f) : FindsNothing(f, j, m, total, r)

\* Where parse_buffer stops.
Stops(f, at, total) ==
  {i \in DOMAIN f : End(f[i].parts) > at /\ ~(f[i].blank /\ Whole(f[i].parts, total))}

LEMMA StopsAre ==
  ASSUME NEW f, Script(f), NEW j \in 0..Len(f), NEW total
  PROVE  Stops(f, EndIn(f, j), total)
           = {i \in Behind(f, j) : ~(f[i].blank /\ Whole(f[i].parts, total))}
<1>1. DOMAIN f = 1..Len(f) /\ Len(f) \in Nat
  BY DEF Script
<1>2. ASSUME NEW i \in 1..Len(f) PROVE End(f[i].parts) > EndIn(f, j) <=> i > j
  <2>1. End(f[i].parts) = EndIn(f, i) /\ EndIn(f, i) \in Nat
    BY <1>1, FrameEnds
  <2>2. CASE i > j
    <3>1. i \in 0..Len(f) /\ j \in 0..i /\ j < i
      BY <1>1, <2>2
    <3>2. EndIn(f, j) < EndIn(f, i) /\ EndIn(f, j) \in Nat
      BY <3>1, EndsRise
    <3>. QED
      BY <2>1, <2>2, <3>2
  <2>3. CASE ~(i > j)
    <3>1. i \in 0..j
      BY <1>1, <2>3
    <3>2. EndIn(f, i) <= EndIn(f, j) /\ EndIn(f, j) \in Nat
      BY <3>1, EndsRise
    <3>. QED
      BY <2>1, <2>3, <3>2
  <2>. QED
    BY <2>2, <2>3
<1>3. ASSUME NEW i PROVE i \in Behind(f, j) <=> i \in 1..Len(f) /\ i > j
  BY <1>1 DEF Behind
<1>. QED
  BY <1>1, <1>2, <1>3 DEF Stops

LEMMA MinIs ==
  ASSUME NEW S \in SUBSET Nat, S # {}
  PROVE  Min(S) \in S /\ \A n \in S : Min(S) <= n
<1>1. \E m \in S : \A n \in S : m <= n
  BY Sums!LeastNumber
<1>. QED
  BY <1>1 DEF Min

LEMMA ParseFinds ==
  ASSUME NEW f, Script(f), NEW j \in 0..Len(f), NEW total \in Nat,
         EndIn(f, j) <= total, total <= EndIn(f, Len(f))
  PROVE  Finds(f, j, total, ParseBuffer(f, EndIn(f, j), total))
<1>. DEFINE n == Len(f)
            at == EndIn(f, j)
            S == Stops(f, at, total)
            i == Min(S)
            p == f[i].parts
            r == ParseBuffer(f, at, total)
<1>1. n \in Nat /\ DOMAIN f = 1..n
  BY DEF Script
<1>2. S = {k \in Behind(f, j) : ~(f[k].blank /\ Whole(f[k].parts, total))}
  BY StopsAre
<1>3. /\ S = {} \/ total <= StartOf(f, i) =>
            r = [verdict |-> "nothing", frame |-> 0, pos |-> total, need |-> 0]
      /\ S # {} /\ ~(total <= StartOf(f, i)) =>
            /\ Malformed(p, total) => r.verdict = "malformed"
            /\ ~Malformed(p, total) /\ Whole(p, total) =>
                 r = [verdict |-> "command", frame |-> i, pos |-> End(p), need |-> 0]
            /\ ~Malformed(p, total) /\ ~Whole(p, total) =>
                 r = [verdict |-> "incomplete", frame |-> i, pos |-> StartOf(f, i),
                      need |-> Hint(p, total) - StartOf(f, i)]
  BY DEF ParseBuffer, Stops
<1>. HIDE DEF S, r, i, n
<1>4. CASE S = {}
  <2>1. \A k \in (j + 1)..n : f[k].blank /\ Whole(f[k].parts, total)
    BY <1>2, <1>4 DEF Behind, n
  <2>2. total = EndIn(f, n)
    <3>1. CASE j = n
      BY <1>1, <3>1, EndsRise DEF n
    <3>2. CASE j # n
      <4>1. n \in (j + 1)..n /\ n \in DOMAIN f
        <5>1. j \in 0..n
          BY DEF n
        <5>. QED
          BY <1>1, <3>2, <5>1
      <4>2. End(f[n].parts) <= total /\ End(f[n].parts) = EndIn(f, n) /\ EndIn(f, n) \in Nat
        BY <2>1, <4>1, FrameEnds DEF Whole
      <4>. QED
        BY <4>2 DEF n
    <3>. QED
      BY <3>1, <3>2
  <2>3. r = [verdict |-> "nothing", frame |-> 0, pos |-> total, need |-> 0]
    BY <1>3, <1>4
  <2>4. FindsNothing(f, j, n, total, r)
    BY <1>1, <2>1, <2>2, <2>3 DEF FindsNothing, Skips, n
  <2>. QED
    BY <1>1, <2>4 DEF Finds, n, r
<1>5. CASE S # {}
  <2>1. S \in SUBSET Nat
    BY <1>1, <1>2 DEF Behind, n
  <2>2. i \in S /\ \A k \in S : i <= k
    BY <1>5, <2>1, MinIs DEF i
  <2>3. i \in Behind(f, j) /\ i \in DOMAIN f /\ i \in Nat /\ ~(f[i].blank /\ Whole(p, total))
    BY <1>1, <1>2, <2>2 DEF Behind, n
  <2>4. Skips(f, j, i - 1, total)
    <3>1. ASSUME NEW k \in (j + 1)..(i - 1) PROVE f[k].blank /\ Whole(f[k].parts, total)
      <4>1. k \in Behind(f, j) /\ ~(i <= k)
        BY <1>1, <2>3 DEF Behind, n
      <4>. QED
        BY <1>2, <2>2, <4>1
    <3>. QED
      BY <3>1 DEF Skips
  <2>5. /\ StartOf(f, i) = EndIn(f, i - 1) /\ EndIn(f, i) = End(p) /\ EndIn(f, i) \in Nat
        /\ EndIn(f, i - 1) \in Nat
    BY <2>3, FrameEnds
  <2>6. CASE total <= StartOf(f, i)
    <3>1. total = EndIn(f, i - 1)
      <4>1. CASE i - 1 = j
        BY <2>5, <2>6, <4>1
      <4>2. CASE i - 1 # j
        <5>1. i - 1 \in (j + 1)..(i - 1) /\ i - 1 \in DOMAIN f
          BY <1>1, <2>3, <4>2 DEF Behind, n
        <5>2. End(f[i - 1].parts) <= total /\ End(f[i - 1].parts) = EndIn(f, i - 1)
          BY <2>4, <5>1, FrameEnds DEF Skips, Whole
        <5>. QED
          BY <2>5, <2>6, <5>2
      <4>. QED
        BY <4>1, <4>2
    <3>2. r = [verdict |-> "nothing", frame |-> 0, pos |-> total, need |-> 0]
      BY <1>3, <2>6
    <3>3. i - 1 \in j..Len(f)
      BY <1>1, <2>3 DEF Behind, n
    <3>4. FindsNothing(f, j, i - 1, total, r)
      BY <2>4, <3>1, <3>2, <3>3 DEF FindsNothing
    <3>. QED
      BY <3>3, <3>4 DEF Finds, r
  <2>7. CASE ~(total <= StartOf(f, i))
    <3>. HIDE DEF p
    <3>1. CASE Malformed(p, total)
      <4>1. r.verdict = "malformed"
        BY <1>3, <1>5, <2>7, <3>1
      <4>2. FindsJunk(f, j, i, total, r)
        BY <2>3, <2>4, <3>1, <4>1 DEF FindsJunk, p
      <4>. QED
        BY <2>3, <4>2 DEF Finds, r
    <3>2. CASE ~Malformed(p, total) /\ Whole(p, total)
      <4>1. r = [verdict |-> "command", frame |-> i, pos |-> End(p), need |-> 0]
        BY <1>3, <1>5, <2>7, <3>2
      <4>2. FindsCommand(f, j, i, total, r)
        BY <2>3, <2>4, <3>2, <4>1 DEF FindsCommand, p
      <4>. QED
        BY <2>3, <4>2 DEF Finds, r
    <3>3. CASE ~Malformed(p, total) /\ ~Whole(p, total)
      <4>1. r = [verdict |-> "incomplete", frame |-> i, pos |-> StartOf(f, i),
                 need |-> Hint(p, total) - StartOf(f, i)]
        BY <1>3, <1>5, <2>7, <3>3
      <4>2. total < EndIn(f, i) /\ EndIn(f, i - 1) < total
        BY <2>5, <2>7, <3>3 DEF Whole, p
      <4>3. FindsPart(f, j, i, total, r)
        BY <2>3, <2>4, <2>5, <3>3, <4>1, <4>2 DEF FindsPart, p
      <4>. QED
        BY <2>3, <4>3 DEF Finds, r
    <3>. QED
      BY <3>1, <3>2, <3>3
  <2>. QED
    BY <2>6, <2>7
<1>. QED
  BY <1>4, <1>5

\* A frame that is whole has nothing in it that is none.
NoJunk(parts) == \A k \in DOMAIN parts : parts[k].kind # "junk"

LEMMA WholeIsClean ==
  ASSUME NEW f, Script(f), NEW i \in DOMAIN f, NEW total \in Nat, Whole(f[i].parts, total)
  PROVE  NoJunk(f[i].parts)
<1>. DEFINE p == f[i].parts
<1>1. /\ EndIn(f, i) = End(p) /\ EndIn(f, i) \in Nat
      /\ \A k \in DOMAIN p : p[k].end \in Nat /\ p[k].end <= EndIn(f, i)
  BY FrameEnds
<1>2. End(p) <= total /\ ~Malformed(p, total)
  BY DEF Whole
<1>. HIDE DEF p
<1>3. \A k \in DOMAIN p : p[k].end <= total
  BY <1>1, <1>2
<1>. QED
  BY <1>2, <1>3 DEF NoJunk, Malformed, p

LEMMA CleanNeverMalformed ==
  ASSUME NEW parts, NoJunk(parts), NEW total
  PROVE  ~Malformed(parts, total)
BY DEF NoJunk, Malformed

\* Until the bytes are there that the hint speaks of, a frame is neither whole
\* nor malformed.
LEMMA HintIs ==
  ASSUME NEW f, Script(f), NEW i \in DOMAIN f, NEW total \in Nat,
         EndIn(f, i - 1) < total, total < EndIn(f, i), ~Malformed(f[i].parts, total)
  PROVE  /\ Hint(f[i].parts, total) \in Nat
         /\ total < Hint(f[i].parts, total) /\ Hint(f[i].parts, total) <= EndIn(f, i)
         /\ \A t \in Nat : total <= t /\ t < Hint(f[i].parts, total) => ~Malformed(f[i].parts, t)
<1>. DEFINE p == f[i].parts
            S == {k \in DOMAIN p : p[k].end > total}
            IsCut(k) == k \in DOMAIN p /\ p[k].end > total /\ \A j \in 1..(k - 1) : p[j].end <= total
            cut == CHOOSE k \in DOMAIN p : p[k].end > total /\ \A j \in 1..(k - 1) : p[j].end <= total
<1>1. /\ p \in Parts /\ p # <<>>
      /\ \A j, k \in DOMAIN p : j < k => p[j].end < p[k].end
  BY FrameIs, PartsRise
<1>2. /\ EndIn(f, i) = End(p) /\ EndIn(f, i) \in Nat
      /\ \A k \in DOMAIN p : p[k].end \in Nat /\ p[k].end <= EndIn(f, i)
  BY FrameEnds
<1>3. Hint(p, total) = IF p[cut].kind = "bytes" THEN p[cut].end ELSE total + 1
  BY DEF Hint
<1>. HIDE DEF p
<1>4. Len(p) \in Nat /\ Len(p) >= 1 /\ DOMAIN p = 1..Len(p) /\ End(p) = p[Len(p)].end
  BY <1>1, PartsOf
<1>5. \E k \in DOMAIN p : p[k].end > total /\ \A j \in 1..(k - 1) : p[j].end <= total
  <2>1. Len(p) \in S
    BY <1>2, <1>4
  <2>2. S \in SUBSET Nat
    BY <1>4
  <2>. DEFINE k == Min(S)
  <2>3. k \in S /\ \A j \in S : k <= j
    BY <2>1, <2>2, MinIs
  <2>. HIDE DEF k
  <2>4. ASSUME NEW j \in 1..(k - 1) PROVE p[j].end <= total
    <3>1. j \in DOMAIN p /\ ~(k <= j) /\ p[j].end \in Nat
      BY <1>2, <1>4, <2>3
    <3>. QED
      BY <2>3, <3>1
  <2>. QED
    BY <2>3, <2>4
<1>6. IsCut(cut)
  BY <1>5
<1>. HIDE DEF cut
<1>7. p[cut].end \in Nat /\ total < p[cut].end /\ p[cut].end <= EndIn(f, i) /\ cut \in Nat
  BY <1>2, <1>4, <1>6
<1>8. Hint(p, total) \in Nat /\ total < Hint(p, total) /\ Hint(p, total) <= EndIn(f, i)
  BY <1>2, <1>3, <1>7
<1>9. ASSUME NEW t \in Nat, total <= t, t < Hint(p, total) PROVE ~Malformed(p, t)
  <2>1. ASSUME NEW k \in DOMAIN p, p[k].kind = "junk", p[k].end <= t PROVE FALSE
    <3>1. ~(p[k].end <= total)
      BY <2>1 DEF Malformed, p
    <3>2. p[cut].kind = "bytes"
      <4>1. CASE p[cut].kind # "bytes"
        <5>1. t = total
          BY <1>3, <1>9, <4>1
        <5>. QED
          BY <2>1, <3>1, <5>1
      <4>. QED
        BY <4>1
    <3>3. t < p[cut].end
      BY <1>3, <1>9, <3>2
    <3>4. k \in Nat /\ p[k].end \in Nat /\ cut \in DOMAIN p
      BY <1>2, <1>4, <1>6
    <3>5. CASE k < cut
      <4>1. k \in 1..(cut - 1)
        BY <1>4, <1>7, <3>4, <3>5
      <4>. QED
        BY <1>6, <3>1, <4>1
    <3>6. CASE k = cut
      BY <2>1, <3>2, <3>6
    <3>7. CASE cut < k
      <4>1. p[cut].end < p[k].end
        BY <1>1, <3>4, <3>7
      <4>. QED
        BY <1>7, <2>1, <3>3, <3>4, <4>1
    <3>. QED
      BY <1>7, <3>4, <3>5, <3>6, <3>7
  <2>. QED
    BY <2>1 DEF Malformed
<1>. QED
  BY <1>8, <1>9 DEF p

\* A parse that begins where a frame does that is there in part finds nothing.
LEMMA PartIsNoFind ==
  ASSUME NEW f, Script(f), NEW i \in DOMAIN f, NEW t \in Nat,
         EndIn(f, i - 1) < t, t < EndIn(f, i), ~Malformed(f[i].parts, t)
  PROVE  ParseBuffer(f, EndIn(f, i - 1), t).verdict \in {"incomplete", "nothing"}
<1>. DEFINE j == i - 1
            r == ParseBuffer(f, EndIn(f, j), t)
<1>1. DOMAIN f = 1..Len(f) /\ Len(f) \in Nat /\ i \in 1..Len(f) /\ j \in 0..Len(f) /\ i \in (j + 1)..i
  BY FrameIs
<1>2. EndIn(f, i) <= EndIn(f, Len(f)) /\ EndIn(f, Len(f)) \in Nat /\ EndIn(f, i) \in Nat /\ EndIn(f, j) \in Nat
  <2>1. i \in 0..Len(f) /\ Len(f) \in 0..Len(f)
    BY <1>1
  <2>. QED
    BY <1>1, <2>1, EndsRise
<1>3. Finds(f, j, t, r)
  <2>1. EndIn(f, j) <= t /\ t <= EndIn(f, Len(f))
    BY <1>2
  <2>. QED
    BY <1>1, <2>1, ParseFinds
<1>4. ~Whole(f[i].parts, t)
  BY FrameEnds, <1>2 DEF Whole
<1>. HIDE DEF r, j
<1>5. ASSUME NEW k \in Behind(f, j), Skips(f, j, k - 1, t) PROVE k = i
  <2>1. k \in Nat /\ k >= i
    BY <1>1, <1>5 DEF Behind, j
  <2>2. CASE k > i
    <3>1. i \in (j + 1)..(k - 1)
      BY <1>1, <2>1, <2>2
    <3>. QED
      BY <1>4, <1>5, <3>1 DEF Skips
  <2>. QED
    BY <1>1, <2>1, <2>2
<1>6. ASSUME NEW k \in Behind(f, j)
      PROVE  ~FindsCommand(f, j, k, t, r) /\ ~FindsJunk(f, j, k, t, r)
  BY <1>4, <1>5, <1>6 DEF FindsCommand, FindsJunk
<1>. QED
  BY <1>3, <1>6 DEF Finds, FindsPart, FindsNothing, r, j

-----------------------------------------------------------------------------
(***************************************************************************)
(* What a script means, as FollowerStream has it, for any script.          *)
(***************************************************************************)
FramesOf(f) == {i \in DOMAIN f : ~f[i].blank}
CommandsOf(f) == {i \in FramesOf(f) : f[i].what = "command"}
HeadersOf(f) == {i \in FramesOf(f) : f[i].what = "tx"}
Sizes(f) == [k \in DOMAIN f |-> f[k].size]
SizeOf(f, b) == SumFunction([k \in DOMAIN b |-> f[b[k]].size])

\* The frames behind h up to the k-th.
Between(f, h, k) == {i \in FramesOf(f) : h < i /\ i <= k}
MembersOf(f, h) ==
  {k \in FramesOf(f) : k > h /\ Cardinality(Between(f, h, k)) <= f[h].count}

WellFormedIn(f, h) ==
  /\ f[h].count >= 2
  /\ Cardinality(MembersOf(f, h)) = f[h].count
  /\ MembersOf(f, h) \subseteq CommandsOf(f)
  /\ SumFunctionOnSet(Sizes(f), MembersOf(f, h)) <= MaxCommandBytes

LEMMA FrameNumbers ==
  ASSUME NEW f, Script(f)
  PROVE  DOMAIN f = 1..Len(f) /\ Len(f) \in Nat /\ \A i \in FramesOf(f) : i \in Nat
<1>1. DOMAIN f = 1..Len(f) /\ Len(f) \in Nat
  BY DEF Script
<1>. QED
  BY <1>1 DEF FramesOf

LEMMA ScriptMeans ==
  /\ Frames = FramesOf(script) /\ Commands = CommandsOf(script) /\ Headers = HeadersOf(script)
  /\ \A h : Members(h) = MembersOf(script, h)
  /\ \A h : WellFormed(h) <=> WellFormedIn(script, h)
  /\ \A b : BatchSize(b) = SizeOf(script, b)
<1>1. Frames = FramesOf(script) /\ Commands = CommandsOf(script) /\ Headers = HeadersOf(script)
  BY DEF Frames, FramesOf, Commands, CommandsOf, Headers, HeadersOf
<1>2. ASSUME NEW h PROVE Members(h) = MembersOf(script, h)
  BY <1>1 DEF Members, MembersOf, Between
<1>3. ASSUME NEW h PROVE WellFormed(h) <=> WellFormedIn(script, h)
  BY <1>1, <1>2 DEF WellFormed, WellFormedIn, Sizes
<1>4. ASSUME NEW b PROVE BatchSize(b) = SizeOf(script, b)
  BY DEF BatchSize, SizeOf
<1>. QED
  BY <1>1, <1>2, <1>3, <1>4

\* A sequence of frames in the order they come in.
Rising(u) == \A j, k \in DOMAIN u : j < k => u[j] < u[k]

LEMMA RisingMore ==
  ASSUME NEW u \in Seq(Nat), NEW w \in Seq(Nat), Rising(u), Rising(w),
         \A x \in Range(u), y \in Range(w) : x < y
  PROVE  /\ Rising(u \o w) /\ Range(u \o w) = Range(u) \union Range(w)
<1>. DEFINE m == Len(u)
            n == Len(w)
            v == u \o w
<1>1. /\ m \in Nat /\ n \in Nat /\ DOMAIN u = 1..m /\ DOMAIN w = 1..n /\ DOMAIN v = 1..(m + n)
      /\ \A i \in 1..m : v[i] = u[i]
      /\ \A i \in 1..n : v[m + i] = w[i]
  OBVIOUS
<1>. HIDE DEF m, n, v
<1>2. /\ \A i \in 1..m : v[i] = u[i]
      /\ \A i \in 1..(m + n) : i \notin 1..m => i > m /\ i - m \in 1..n /\ v[i] = w[i - m]
  <2>1. ASSUME NEW i \in 1..(m + n), i \notin 1..m
        PROVE  i > m /\ i - m \in 1..n /\ v[i] = w[i - m]
    <3>1. i > m /\ i - m \in 1..n /\ m + (i - m) = i
      BY <1>1, <2>1
    <3>2. v[m + (i - m)] = w[i - m]
      BY <1>1, <3>1
    <3>. QED
      BY <3>1, <3>2
  <2>. QED
    BY <1>1, <2>1
<1>3. ASSUME NEW i \in 1..(m + n), NEW j \in 1..(m + n), i < j PROVE v[i] < v[j]
  <2>1. CASE i \in 1..m /\ j \in 1..m
    BY <1>1, <1>3, <2>1 DEF Rising
  <2>2. CASE i \in 1..m /\ j \notin 1..m
    <3>1. v[i] \in Range(u)
      BY <1>1, <2>2 DEF Range
    <3>2. j - m \in 1..n /\ v[j] = w[j - m]
      BY <1>2, <2>2
    <3>3. v[j] \in Range(w)
      BY <1>1, <3>2 DEF Range
    <3>. QED
      BY <3>1, <3>3
  <2>3. CASE i \notin 1..m
    <3>1. i > m /\ i - m \in 1..n /\ v[i] = w[i - m]
      BY <1>2, <2>3
    <3>2. j \notin 1..m
      BY <1>1, <1>3, <3>1
    <3>3. j - m \in 1..n /\ v[j] = w[j - m] /\ i - m < j - m
      BY <1>1, <1>2, <1>3, <3>2
    <3>. QED
      BY <1>1, <3>1, <3>3 DEF Rising
  <2>. QED
    BY <2>1, <2>2, <2>3
<1>4. Range(v) = Range(u) \union Range(w)
  <2>1. \A i \in 1..m : v[i] = u[i] /\ i \in 1..(m + n)
    BY <1>1
  <2>2. \A i \in 1..n : v[m + i] = w[i] /\ m + i \in 1..(m + n)
    BY <1>1
  <2>3. \A x \in Range(v) : x \in Range(u) \union Range(w)
    BY <1>1, <1>2 DEF Range
  <2>4. \A x \in Range(u) : x \in Range(v)
    BY <1>1, <2>1 DEF Range
  <2>5. \A x \in Range(w) : x \in Range(v)
    BY <1>1, <2>2 DEF Range
  <2>. QED
    BY <2>3, <2>4, <2>5
<1>5. Rising(v)
  BY <1>1, <1>3 DEF Rising
<1>. QED
  BY <1>4, <1>5 DEF v

LEMMA RisingOne ==
  ASSUME NEW n \in Nat
  PROVE  <<n>> \in Seq(Nat) /\ Rising(<<n>>) /\ Range(<<n>>) = {n} /\ Len(<<n>>) = 1
<1>. DEFINE w == <<n>>
<1>1. w \in Seq(Nat) /\ DOMAIN w = {1} /\ w[1] = n /\ Len(w) = 1
  OBVIOUS
<1>. HIDE DEF w
<1>. QED
  BY <1>1 DEF Rising, Range, w

LEMMA RisingNone == <<>> \in Seq(Nat) /\ Rising(<<>>) /\ Range(<<>>) = {} /\ Len(<<>>) = 0
BY DEF Rising, Range

(***************************************************************************)
(* What has been applied when j frames have been read: all commands up to  *)
(* there, in order, and each transaction with all its members.             *)
(***************************************************************************)
CommandsTo(f, j) == {c \in CommandsOf(f) : c <= j}
Clean(f, j) == \A i \in 1..j : NoJunk(f[i].parts)
AllBlank(f, j) == \A i \in 1..j : f[i].blank

Closes(f, h, j) == WellFormedIn(f, h) /\ \A k \in MembersOf(f, h) : k <= j

Holds(f, u, j) ==
  /\ u \in Seq(Nat) /\ Rising(u) /\ Range(u) = CommandsTo(f, j) /\ Clean(f, j)
  /\ \A h \in HeadersOf(f) : h <= j => Closes(f, h, j)

\* A transaction whose header is h is being collected.
Collecting(f, u, b, l, h, j) ==
  /\ h \in HeadersOf(f) /\ h <= j /\ f[h].count >= 2
  /\ Holds(f, u, h - 1) /\ Clean(f, j)
  /\ Between(f, h, j) \subseteq CommandsOf(f)
  /\ b \in Seq(Nat) /\ Rising(b) /\ Range(b) = Between(f, h, j)
  /\ Len(b) = Cardinality(Between(f, h, j))
  /\ l = f[h].count - Len(b) /\ l >= 1
  /\ SizeOf(f, b) = SumFunctionOnSet(Sizes(f), Between(f, h, j))
  /\ SizeOf(f, b) <= MaxCommandBytes

LEMMA SkipsKeepClean ==
  ASSUME NEW f, Script(f), NEW j \in 0..Len(f), NEW m \in j..Len(f), NEW total \in Nat,
         Skips(f, j, m, total), Clean(f, j)
  PROVE  Clean(f, m)
<1>1. DOMAIN f = 1..Len(f) /\ Len(f) \in Nat
  BY DEF Script
<1>2. ASSUME NEW i \in 1..m PROVE NoJunk(f[i].parts)
  <2>1. CASE i <= j
    BY <1>1, <2>1 DEF Clean
  <2>2. CASE ~(i <= j)
    <3>1. i \in (j + 1)..m /\ i \in DOMAIN f
      BY <1>1, <2>2
    <3>. QED
      BY <3>1, WholeIsClean DEF Skips
  <2>. QED
    BY <2>1, <2>2
<1>. QED
  BY <1>2 DEF Clean

LEMMA FramesSkipped ==
  ASSUME NEW f, Script(f), NEW j \in 0..Len(f), NEW m \in j..Len(f), NEW total \in Nat,
         Skips(f, j, m, total)
  PROVE  \A i \in FramesOf(f) : i <= m => i <= j
<1>1. DOMAIN f = 1..Len(f) /\ Len(f) \in Nat
  BY DEF Script
<1>2. ASSUME NEW i \in FramesOf(f), i <= m PROVE i <= j
  <2>1. i \in 1..Len(f) /\ ~f[i].blank
    BY <1>1 DEF FramesOf
  <2>2. CASE ~(i <= j)
    <3>1. i \in (j + 1)..m
      BY <1>1, <1>2, <2>1, <2>2
    <3>. QED
      BY <2>1, <3>1 DEF Skips
  <2>. QED
    BY <2>2
<1>. QED
  BY <1>2

\* Blanks are passed over.
LEMMA HoldsBlanks ==
  ASSUME NEW f, Script(f), NEW j \in 0..Len(f), NEW m \in j..Len(f), NEW total \in Nat,
         Skips(f, j, m, total), NEW u, Holds(f, u, j)
  PROVE  Holds(f, u, m)
<1>1. Clean(f, m)
  BY SkipsKeepClean DEF Holds
<1>2. \A i \in FramesOf(f) : i <= m <=> i <= j
  <2>1. \A i \in FramesOf(f) : i <= m => i <= j
    BY FramesSkipped
  <2>2. \A i \in FramesOf(f) : i \in Nat
    BY FrameNumbers
  <2>. QED
    BY <2>1, <2>2
<1>3. CommandsTo(f, m) = CommandsTo(f, j)
  BY <1>2 DEF CommandsTo, CommandsOf
<1>4. ASSUME NEW h \in HeadersOf(f), h <= m PROVE Closes(f, h, m)
  <2>1. Closes(f, h, j)
    BY <1>2, <1>4 DEF HeadersOf, Holds
  <2>2. \A k \in MembersOf(f, h) : k \in FramesOf(f)
    BY DEF MembersOf
  <2>. QED
    BY <1>2, <2>1, <2>2 DEF Closes
<1>. QED
  BY <1>1, <1>3, <1>4 DEF Holds

\* A command is read, and applied.
LEMMA HoldsCommand ==
  ASSUME NEW f, Script(f), NEW j \in 0..Len(f), NEW i \in Behind(f, j), NEW total \in Nat,
         Skips(f, j, i - 1, total), Whole(f[i].parts, total), ~f[i].blank, f[i].what = "command",
         NEW u, Holds(f, u, j)
  PROVE  Holds(f, u \o <<i>>, i)
<1>0. DOMAIN f = 1..Len(f) /\ Len(f) \in Nat
  BY FrameNumbers
<1>1. /\ i \in DOMAIN f /\ i \in Nat /\ i - 1 \in j..Len(f) /\ i - 1 \in 0..Len(f)
  BY <1>0 DEF Behind
<1>2. Holds(f, u, i - 1)
  BY <1>1, HoldsBlanks
<1>3. i \in CommandsOf(f) /\ i \notin HeadersOf(f)
  BY <1>1 DEF CommandsOf, HeadersOf, FramesOf
<1>4. \A k \in DOMAIN f : k <= i <=> k <= i - 1 \/ k = i
  BY <1>1
<1>5. CommandsTo(f, i) = CommandsTo(f, i - 1) \union {i}
  <2>1. \A k \in CommandsOf(f) : k \in DOMAIN f
    BY DEF CommandsOf, FramesOf
  <2>. QED
    BY <1>3, <1>4, <2>1 DEF CommandsTo
<1>6. /\ u \in Seq(Nat) /\ Rising(u) /\ Range(u) = CommandsTo(f, i - 1) /\ Clean(f, i - 1)
      /\ \A h \in HeadersOf(f) : h <= i - 1 => Closes(f, h, i - 1)
  BY <1>2 DEF Holds
<1>7. Rising(u \o <<i>>) /\ Range(u \o <<i>>) = Range(u) \union {i} /\ u \o <<i>> \in Seq(Nat)
  <2>. DEFINE w == <<i>>
  <2>1. w \in Seq(Nat) /\ Rising(w) /\ Range(w) = {i}
    BY <1>1, RisingOne
  <2>2. \A x \in Range(u) : x \in Nat /\ x < i
    BY <1>1, <1>6 DEF CommandsTo, CommandsOf, FramesOf
  <2>. HIDE DEF w
  <2>3. Rising(u \o w) /\ Range(u \o w) = Range(u) \union Range(w)
    <3>1. \A x \in Range(u), y \in Range(w) : x < y
      BY <2>1, <2>2
    <3>. QED
      BY <1>6, <2>1, <3>1, RisingMore
  <2>4. u \o w \in Seq(Nat)
    BY <1>6, <2>1
  <2>. QED
    BY <2>1, <2>3, <2>4 DEF w
<1>8. Clean(f, i)
  <2>1. NoJunk(f[i].parts)
    BY <1>1, WholeIsClean
  <2>2. \A k \in 1..i : k \in 1..(i - 1) \/ k = i
    BY <1>1
  <2>. QED
    BY <1>6, <2>1, <2>2 DEF Clean
<1>9. ASSUME NEW h \in HeadersOf(f), h <= i PROVE Closes(f, h, i)
  <2>1. h \in DOMAIN f /\ h # i
    BY <1>3 DEF HeadersOf, FramesOf
  <2>2. Closes(f, h, i - 1)
    BY <1>4, <1>6, <1>9, <2>1
  <2>3. \A k \in MembersOf(f, h) : k \in DOMAIN f
    BY DEF MembersOf, FramesOf
  <2>. QED
    BY <1>4, <2>2, <2>3 DEF Closes
<1>. HIDE DEF Rising
<1>. QED
  BY <1>5, <1>6, <1>7, <1>8, <1>9 DEF Holds

(***************************************************************************)
(* The steps of read_transaction.                                          *)
(***************************************************************************)
LEMMA BetweenIs ==
  ASSUME NEW f, Script(f), NEW h, NEW k
  PROVE  /\ Between(f, h, k) \subseteq DOMAIN f /\ IsFiniteSet(Between(f, h, k))
         /\ Cardinality(Between(f, h, k)) \in Nat
<1>1. DOMAIN f = 1..Len(f) /\ Len(f) \in Nat
  BY DEF Script
<1>2. Between(f, h, k) \subseteq 1..Len(f)
  BY <1>1 DEF Between, FramesOf
<1>3. IsFiniteSet(1..Len(f))
  BY <1>1, FS_Interval
<1>4. IsFiniteSet(Between(f, h, k))
  BY <1>2, <1>3, FS_Subset
<1>. QED
  BY <1>1, <1>2, <1>4, FS_CardinalityType

\* The sums of FoldTheorems are those of the model.
LEMMA SumsAlike == \A g, S : SumFunctionOnSet(g, S) = Sums!SumFunctionOnSet(g, S)
BY DEF SumFunctionOnSet, FoldFunctionOnSet, MapThenFoldSet,
       Sums!SumFunctionOnSet, Sums!FoldFunctionOnSet, Sums!MapThenFoldSet

Agreeing(g, h, S) == \A x \in S : h[x] \in Nat /\ g[x] = h[x]

LEMMA OneMore ==
  ASSUME NEW g, NEW h, NEW S, IsFiniteSet(S), NEW y, y \notin S, NEW T, T = S \union {y},
         g[y] \in Nat, Agreeing(g, h, S)
  PROVE  /\ SumFunctionOnSet(h, S) \in Nat
         /\ SumFunctionOnSet(g, T) = SumFunctionOnSet(h, S) + g[y]
<1>0. Sums!Agree(g, h, S)
  BY DEF Agreeing, Sums!Agree
<1>1. Sums!IsFiniteSet(S)
  BY DEF IsFiniteSet, Sums!IsFiniteSet
<1>2. /\ Sums!SumFunctionOnSet(h, S) \in Nat
      /\ Sums!SumFunctionOnSet(g, T) = Sums!SumFunctionOnSet(h, S) + g[y]
  BY <1>0, <1>1, Sums!SumOfMore
<1>. QED
  BY <1>2, SumsAlike

LEMMA SizeMore ==
  ASSUME NEW f, NEW b \in Seq(Nat), NEW i \in Nat, f[i].size \in Nat,
         \A k \in Range(b) : f[k].size \in Nat
  PROVE  SizeOf(f, b) \in Nat /\ SizeOf(f, Append(b, i)) = SizeOf(f, b) + f[i].size
<1>. DEFINE n == Len(b)
            w == Append(b, i)
            g == [k \in DOMAIN w |-> f[w[k]].size]
            h == [k \in DOMAIN b |-> f[b[k]].size]
            S == 1..n
            y == n + 1
<1>1. /\ n \in Nat /\ DOMAIN b = S /\ DOMAIN w = S \union {y} /\ y \notin S
      /\ w[y] = i /\ \A k \in S : w[k] = b[k]
  OBVIOUS
<1>2. DOMAIN g = DOMAIN w /\ DOMAIN h = DOMAIN b
  OBVIOUS
<1>3. SizeOf(f, b) = SumFunctionOnSet(h, DOMAIN h) /\ SizeOf(f, w) = SumFunctionOnSet(g, DOMAIN g)
  BY DEF SizeOf, SumFunction
<1>4. \A k \in S : b[k] \in Range(b)
  BY <1>1 DEF Range
<1>5. \A k \in S : h[k] = f[b[k]].size /\ g[k] = f[w[k]].size
  BY <1>1
<1>6. g[y] = f[i].size
  BY <1>1
<1>7. IsFiniteSet(S)
  BY <1>1, FS_Interval
<1>. HIDE DEF g, h, S, y, w, n
<1>8. Agreeing(g, h, S)
  BY <1>1, <1>4, <1>5 DEF Agreeing
<1>9. g[y] \in Nat
  BY <1>6
<1>10. SumFunctionOnSet(h, S) \in Nat /\ SumFunctionOnSet(g, S \union {y}) = SumFunctionOnSet(h, S) + g[y]
  BY <1>1, <1>7, <1>8, <1>9, OneMore
<1>. QED
  BY <1>1, <1>2, <1>3, <1>6, <1>10 DEF w

LEMMA SizeOfNone ==
  ASSUME NEW f
  PROVE  SizeOf(f, <<>>) = 0 /\ SumFunctionOnSet(Sizes(f), {}) = 0
<1>. DEFINE g == [k \in DOMAIN <<>> |-> f[<<>>[k]].size]
<1>1. DOMAIN g = {}
  OBVIOUS
<1>2. SizeOf(f, <<>>) = SumFunctionOnSet(g, DOMAIN g)
  BY DEF SizeOf, SumFunction
<1>. HIDE DEF g
<1>. QED
  BY <1>1, <1>2, Sums!SumOfNone, SumsAlike

\* The header.
LEMMA HeaderOpens ==
  ASSUME NEW f, Script(f), NEW j \in 0..Len(f), NEW i \in Behind(f, j), NEW total \in Nat,
         Skips(f, j, i - 1, total), Whole(f[i].parts, total), ~f[i].blank,
         f[i].what = "tx", f[i].count >= 2, NEW u, Holds(f, u, j), MaxCommandBytes \in Nat
  PROVE  Collecting(f, u, <<>>, f[i].count, i, i)
<1>0. DOMAIN f = 1..Len(f) /\ Len(f) \in Nat
  BY DEF Script
<1>1. /\ DOMAIN f = 1..Len(f) /\ Len(f) \in Nat /\ i \in DOMAIN f /\ i \in Nat
      /\ i - 1 \in j..Len(f)
  BY <1>0 DEF Behind
<1>2. Holds(f, u, i - 1)
  BY <1>1, HoldsBlanks
<1>3. Clean(f, i)
  <2>1. NoJunk(f[i].parts)
    BY <1>1, WholeIsClean
  <2>2. \A k \in 1..i : k \in 1..(i - 1) \/ k = i
    BY <1>1
  <2>. QED
    BY <1>2, <2>1, <2>2 DEF Clean, Holds
<1>4. i \in HeadersOf(f) /\ f[i].count \in Nat
  BY <1>1, FrameIs DEF HeadersOf, FramesOf
<1>5. Between(f, i, i) = {}
  BY <1>1 DEF Between, FramesOf
<1>6. Cardinality(Between(f, i, i)) = 0
  BY <1>5, FS_EmptySet
<1>7. SizeOf(f, <<>>) = 0 /\ SumFunctionOnSet(Sizes(f), Between(f, i, i)) = 0
  BY <1>5, SizeOfNone
<1>. QED
  BY <1>1, <1>2, <1>3, <1>4, <1>5, <1>6, <1>7, RisingNone DEF Collecting

\* Blanks between its commands.
LEMMA CollectsBlanks ==
  ASSUME NEW f, Script(f), NEW j \in 0..Len(f), NEW m \in j..Len(f), NEW total \in Nat,
         Skips(f, j, m, total), NEW u, NEW b, NEW l, NEW h, Collecting(f, u, b, l, h, j)
  PROVE  Collecting(f, u, b, l, h, m)
<1>1. \A i \in FramesOf(f) : i \in Nat /\ (i <= m <=> i <= j)
  <2>1. \A i \in FramesOf(f) : i <= m => i <= j
    BY FramesSkipped
  <2>2. \A i \in FramesOf(f) : i \in Nat
    BY FrameNumbers
  <2>. QED
    BY <2>1, <2>2
<1>2. Between(f, h, m) = Between(f, h, j)
  BY <1>1 DEF Between
<1>3. Clean(f, m)
  BY SkipsKeepClean DEF Collecting
<1>4. h <= m
  BY <1>1 DEF Collecting, HeadersOf
<1>. QED
  BY <1>2, <1>3, <1>4 DEF Collecting

\* One command more.
LEMMA BatchMore ==
  ASSUME NEW f, Script(f), NEW i \in DOMAIN f, ~f[i].blank, f[i].what = "command", NoJunk(f[i].parts),
         NEW u, NEW b, NEW l, NEW h, Collecting(f, u, b, l, h, i - 1)
  PROVE  /\ Append(b, i) \in Seq(Nat) /\ Rising(Append(b, i))
         /\ Range(Append(b, i)) = Between(f, h, i)
         /\ Between(f, h, i) \subseteq CommandsOf(f)
         /\ Len(Append(b, i)) = Len(b) + 1 /\ Len(b) \in Nat
         /\ Len(Append(b, i)) = Cardinality(Between(f, h, i))
         /\ SizeOf(f, Append(b, i)) = SumFunctionOnSet(Sizes(f), Between(f, h, i))
         /\ Clean(f, i) /\ h < i
<1>. DEFINE B == Between(f, h, i - 1)
            C == Between(f, h, i)
            w == Append(b, i)
            one == <<i>>
<1>0. i \in FramesOf(f) /\ i \in CommandsOf(f)
  BY DEF CommandsOf, FramesOf
<1>1. DOMAIN f = 1..Len(f) /\ Len(f) \in Nat /\ i \in Nat /\ i \in FramesOf(f) /\ i \in CommandsOf(f)
  BY <1>0, FrameNumbers
<1>2. /\ h \in DOMAIN f /\ h \in Nat /\ h <= i - 1 /\ b \in Seq(Nat) /\ Rising(b) /\ Range(b) = B
      /\ Len(b) = Cardinality(B) /\ B \subseteq CommandsOf(f) /\ Clean(f, i - 1)
      /\ SizeOf(f, b) = SumFunctionOnSet(Sizes(f), B)
  BY <1>1 DEF Collecting, HeadersOf, FramesOf
<1>3. C = B \union {i} /\ i \notin B /\ B \subseteq DOMAIN f
  <2>1. \A k \in DOMAIN f : k <= i <=> k <= i - 1 \/ k = i
    BY <1>1
  <2>2. \A k \in FramesOf(f) : k \in DOMAIN f
    BY DEF FramesOf
  <2>. QED
    BY <1>1, <1>2, <2>1, <2>2 DEF Between
<1>4. IsFiniteSet(B) /\ Cardinality(B) \in Nat
  BY BetweenIs
<1>. HIDE DEF B, C
<1>5. Cardinality(C) = Cardinality(B) + 1
  BY <1>3, <1>4, FS_AddElement
<1>6. w = b \o one /\ one \in Seq(Nat) /\ Rising(one) /\ Range(one) = {i}
  BY <1>1, <1>2, RisingOne, AppendIsConcat
<1>7. w \in Seq(Nat) /\ Len(w) = Len(b) + 1 /\ Len(b) \in Nat
  BY <1>1, <1>2
<1>. HIDE DEF one, w
<1>8. Rising(w) /\ Range(w) = C
  <2>1. \A x \in Range(b), y \in Range(one) : x < y
    BY <1>1, <1>2, <1>6 DEF B, Between, FramesOf
  <2>2. Rising(b \o one) /\ Range(b \o one) = Range(b) \union Range(one)
    BY <1>2, <1>6, <2>1, RisingMore
  <2>. QED
    BY <1>2, <1>3, <1>6, <2>2
<1>9. SizeOf(f, w) = SumFunctionOnSet(Sizes(f), C)
  <2>1. \A k \in DOMAIN f : f[k].size \in Nat /\ Sizes(f)[k] = f[k].size
    BY FrameIs DEF Sizes
  <2>2. SizeOf(f, w) = SizeOf(f, b) + f[i].size
    <3>1. f[i].size \in Nat /\ \A k \in Range(b) : f[k].size \in Nat
      BY <1>2, <1>3, <2>1
    <3>. QED
      BY <1>1, <1>2, <3>1, SizeMore DEF w
  <2>3. SumFunctionOnSet(Sizes(f), B \union {i}) = SumFunctionOnSet(Sizes(f), B) + Sizes(f)[i]
    <3>1. Sizes(f)[i] \in Nat /\ Agreeing(Sizes(f), Sizes(f), B)
      BY <1>3, <2>1 DEF Agreeing
    <3>. QED
      BY <1>3, <1>4, <3>1, OneMore
  <2>. QED
    BY <1>2, <1>3, <2>1, <2>2, <2>3
<1>10. Clean(f, i)
  <2>1. \A k \in 1..i : k \in 1..(i - 1) \/ k = i
    BY <1>1
  <2>. QED
    BY <1>2, <2>1 DEF Clean
<1>11. C \subseteq CommandsOf(f)
  BY <1>1, <1>2, <1>3
<1>12. h < i
  BY <1>1, <1>2
<1>. QED
  BY <1>2, <1>5, <1>7, <1>8, <1>9, <1>10, <1>11, <1>12 DEF w, C

LEMMA OneLess ==
  ASSUME NEW c \in Nat, NEW n \in Nat, NEW l, l = c - n, l >= 1, l # 1
  PROVE  l - 1 = c - (n + 1) /\ l - 1 >= 1
  OBVIOUS

LEMMA CollectsMore ==
  ASSUME NEW f, Script(f), NEW i \in DOMAIN f, ~f[i].blank, f[i].what = "command", NoJunk(f[i].parts),
         NEW u, NEW b, NEW l, NEW h, Collecting(f, u, b, l, h, i - 1),
         SizeOf(f, Append(b, i)) <= MaxCommandBytes, l # 1
  PROVE  Collecting(f, u, Append(b, i), l - 1, h, i)
<1>1. /\ Append(b, i) \in Seq(Nat) /\ Rising(Append(b, i))
      /\ Range(Append(b, i)) = Between(f, h, i)
      /\ Between(f, h, i) \subseteq CommandsOf(f)
      /\ Len(Append(b, i)) = Len(b) + 1 /\ Len(b) \in Nat
      /\ Len(Append(b, i)) = Cardinality(Between(f, h, i))
      /\ SizeOf(f, Append(b, i)) = SumFunctionOnSet(Sizes(f), Between(f, h, i))
      /\ Clean(f, i) /\ h < i
  BY BatchMore
<1>2. /\ h \in HeadersOf(f) /\ f[h].count >= 2 /\ Holds(f, u, h - 1)
      /\ l = f[h].count - Len(b) /\ l >= 1
  BY DEF Collecting
<1>0. DOMAIN f = 1..Len(f) /\ Len(f) \in Nat /\ \A k \in DOMAIN f : f[k].count \in Nat
  BY FrameIs DEF Script
<1>3. f[h].count \in Nat /\ h \in Nat /\ i \in Nat
  BY <1>0, <1>2 DEF HeadersOf, FramesOf
<1>. DEFINE w == Append(b, i)
<1>. HIDE DEF w
<1>5. w = Append(b, i)
  BY DEF w
<1>4. l - 1 = f[h].count - Len(w) /\ l - 1 >= 1 /\ h <= i
  <2>1. Len(w) = Len(b) + 1 /\ Len(b) \in Nat /\ h < i
    BY <1>1, <1>5
  <2>2. l - 1 = f[h].count - (Len(b) + 1) /\ l - 1 >= 1
    BY <1>2, <1>3, <2>1, OneLess
  <2>. QED
    BY <1>3, <2>1, <2>2
<1>. QED
  BY <1>1, <1>2, <1>4, <1>5 DEF Collecting

\* The members of a transaction are the frames behind its header, when there
\* are as many as it announced.
LEMMA MembersAre ==
  ASSUME NEW f, Script(f), NEW h \in DOMAIN f, NEW i \in FramesOf(f), h < i,
         Cardinality(Between(f, h, i)) = f[h].count
  PROVE  MembersOf(f, h) = Between(f, h, i)
<1>. DEFINE B == Between(f, h, i)
<1>0. DOMAIN f = 1..Len(f) /\ Len(f) \in Nat
  BY DEF Script
<1>1. DOMAIN f \subseteq Nat /\ h \in Nat /\ i \in Nat /\ \A k \in FramesOf(f) : k \in Nat
  BY <1>0 DEF FramesOf
<1>2. IsFiniteSet(B) /\ Cardinality(B) \in Nat /\ i \in B
  <2>1. IsFiniteSet(B) /\ Cardinality(B) \in Nat
    BY BetweenIs
  <2>2. i \in B
    BY <1>1 DEF Between
  <2>. QED
    BY <2>1, <2>2
<1>3. ASSUME NEW k \in FramesOf(f), k > h, k <= i PROVE Cardinality(Between(f, h, k)) <= f[h].count
  <2>1. Between(f, h, k) \subseteq B
    <3>1. k \in Nat /\ \A x \in FramesOf(f) : x <= k => x <= i
      BY <1>1, <1>3
    <3>. QED
      BY <3>1 DEF Between
  <2>. QED
    BY <1>2, <2>1, FS_Subset
<1>4. ASSUME NEW k \in FramesOf(f), k > i PROVE ~(Cardinality(Between(f, h, k)) <= f[h].count)
  <2>. DEFINE C == Between(f, h, k)
  <2>1. B \union {k} \subseteq C /\ k \notin B
    <3>1. k \in Nat /\ h < k /\ ~(k <= i) /\ \A x \in FramesOf(f) : x <= i => x <= k
      BY <1>1, <1>4
    <3>2. k \in C /\ k \notin B
      <4>. DEFINE n == k
      <4>1. n <= n
        BY <3>1
      <4>. QED
        BY <3>1, <4>1 DEF Between
    <3>3. B \subseteq C
      BY <3>1 DEF Between
    <3>. QED
      BY <3>2, <3>3
  <2>2. IsFiniteSet(C) /\ Cardinality(C) \in Nat
    BY BetweenIs
  <2>. HIDE DEF B, C
  <2>3. Cardinality(B \union {k}) = Cardinality(B) + 1 /\ IsFiniteSet(B \union {k})
    BY <1>2, <2>1, FS_AddElement
  <2>4. Cardinality(B \union {k}) <= Cardinality(C)
    BY <2>1, <2>2, FS_Subset
  <2>. QED
    BY <1>2, <2>2, <2>3, <2>4 DEF B, C
<1>5. ASSUME NEW k \in FramesOf(f)
      PROVE  k > h /\ Cardinality(Between(f, h, k)) <= f[h].count <=> h < k /\ k <= i
  <2>1. k \in Nat /\ i \in Nat
    BY <1>1
  <2>. QED
    BY <1>1, <1>3, <1>4, <2>1
<1>. QED
  BY <1>5 DEF MembersOf, Between

LEMMA CollectsLast ==
  ASSUME NEW f, Script(f), NEW i \in DOMAIN f, ~f[i].blank, f[i].what = "command", NoJunk(f[i].parts),
         NEW u, NEW b, NEW h, Collecting(f, u, b, 1, h, i - 1),
         SizeOf(f, Append(b, i)) <= MaxCommandBytes
  PROVE  Holds(f, u \o Append(b, i), i)
<1>. DEFINE w == Append(b, i)
            B == Between(f, h, i)
<1>1. /\ w \in Seq(Nat) /\ Rising(w) /\ Range(w) = B /\ B \subseteq CommandsOf(f)
      /\ Len(w) = Len(b) + 1 /\ Len(b) \in Nat /\ Len(w) = Cardinality(B)
      /\ SizeOf(f, w) = SumFunctionOnSet(Sizes(f), B)
      /\ Clean(f, i) /\ h < i
  BY BatchMore
<1>2. /\ h \in HeadersOf(f) /\ f[h].count >= 2 /\ Holds(f, u, h - 1)
      /\ 1 = f[h].count - Len(b)
  BY DEF Collecting
<1>0. DOMAIN f = 1..Len(f) /\ Len(f) \in Nat /\ \A k \in DOMAIN f : f[k].count \in Nat
  BY FrameIs DEF Script
<1>3. /\ f[h].count \in Nat /\ h \in Nat /\ i \in Nat /\ h \in DOMAIN f /\ i \in FramesOf(f)
      /\ DOMAIN f \subseteq Nat
  BY <1>0, <1>2 DEF HeadersOf, FramesOf
<1>4. Cardinality(B) = f[h].count
  BY <1>1, <1>2, <1>3
<1>5. MembersOf(f, h) = B
  BY <1>1, <1>3, <1>4, MembersAre
<1>6. SizeOf(f, w) <= MaxCommandBytes
  OBVIOUS
<1>. HIDE DEF w
<1>7. WellFormedIn(f, h)
  BY <1>1, <1>2, <1>4, <1>5, <1>6 DEF WellFormedIn
<1>8. \A k \in MembersOf(f, h) : k <= i
  BY <1>5 DEF Between
<1>9. /\ u \in Seq(Nat) /\ Rising(u) /\ Range(u) = CommandsTo(f, h - 1)
      /\ \A g \in HeadersOf(f) : g <= h - 1 => Closes(f, g, h - 1)
  BY <1>2 DEF Holds
<1>10. Rising(u \o w) /\ Range(u \o w) = Range(u) \union Range(w) /\ u \o w \in Seq(Nat)
  <2>1. \A x \in Range(u), y \in Range(w) : x < y
    BY <1>1, <1>3, <1>9 DEF CommandsTo, CommandsOf, FramesOf, Between
  <2>2. Rising(u \o w) /\ Range(u \o w) = Range(u) \union Range(w)
    BY <1>1, <1>9, <2>1, RisingMore
  <2>. QED
    BY <1>1, <1>9, <2>2
<1>11. CommandsTo(f, i) = CommandsTo(f, h - 1) \union B
  <2>1. h \notin CommandsOf(f)
    BY <1>2 DEF HeadersOf, CommandsOf
  <2>2. \A k \in CommandsOf(f) : k \in FramesOf(f) /\ k \in Nat /\ k # h
    BY <1>3, <2>1 DEF CommandsOf, FramesOf
  <2>3. \A k \in CommandsOf(f) : k <= i <=> k <= h - 1 \/ (h < k /\ k <= i)
    BY <1>1, <1>3, <2>2
  <2>4. \A k \in B : k \in CommandsOf(f) /\ h < k /\ k <= i
    BY <1>1 DEF Between
  <2>5. \A k \in CommandsOf(f) : h < k /\ k <= i => k \in B
    BY <2>2 DEF Between
  <2>. HIDE DEF B
  <2>. QED
    BY <2>3, <2>4, <2>5 DEF CommandsTo
<1>12. ASSUME NEW g \in HeadersOf(f), g <= i PROVE Closes(f, g, i)
  <2>1. g \in FramesOf(f) /\ g \in Nat /\ g \notin CommandsOf(f)
    BY <1>3 DEF HeadersOf, CommandsOf, FramesOf
  <2>2. ~(h < g)
    BY <1>1, <1>12, <2>1 DEF Between
  <2>3. CASE g = h
    BY <1>7, <1>8, <2>3 DEF Closes
  <2>4. CASE g # h
    <3>1. g <= h - 1
      BY <1>3, <2>1, <2>2, <2>4
    <3>2. Closes(f, g, h - 1)
      BY <1>9, <3>1
    <3>3. \A k \in MembersOf(f, g) : k \in Nat
      BY <1>3 DEF MembersOf, FramesOf
    <3>. QED
      BY <1>1, <1>3, <3>2, <3>3 DEF Closes
  <2>. QED
    BY <2>3, <2>4
<1>. QED
  BY <1>1, <1>9, <1>10, <1>11, <1>12 DEF Holds, w

(***************************************************************************)
(* How far a script has been read: j frames, which end at the byte "at".   *)
(* u has been applied, and v is that with what a thread has been given.    *)
(***************************************************************************)
ReadTo(f, at, st, u, v, b, l, j) ==
  /\ at = EndIn(f, j) /\ Clean(f, j)
  /\ st \notin {"connecting", "baseline"} => ~AllBlank(f, j)
  /\ st = "batch" => \E h \in HeadersOf(f) : Collecting(f, u, b, l, h, j)
  /\ st # "batch" => b = <<>> /\ l = 0 /\ Holds(f, v, j)

LEMMA ReadsBlanks ==
  ASSUME NEW f, Script(f), NEW j \in 0..Len(f), NEW m \in j..Len(f), NEW total \in Nat,
         Skips(f, j, m, total), NEW at, NEW st, NEW u, NEW v, NEW b, NEW l,
         ReadTo(f, at, st, u, v, b, l, j)
  PROVE  ReadTo(f, EndIn(f, m), st, u, v, b, l, m)
<1>1. Clean(f, m)
  BY SkipsKeepClean DEF ReadTo
<1>2. ~AllBlank(f, j) => ~AllBlank(f, m)
  <2>1. Len(f) \in Nat
    BY DEF Script
  <2>2. 1..j \subseteq 1..m
    BY <2>1
  <2>. QED
    BY <2>2 DEF AllBlank
<1>3. st = "batch" => \E h \in HeadersOf(f) : Collecting(f, u, b, l, h, m)
  BY CollectsBlanks DEF ReadTo
<1>4. st # "batch" => Holds(f, v, m)
  BY HoldsBlanks DEF ReadTo
<1>. QED
  BY <1>1, <1>2, <1>3, <1>4 DEF ReadTo

\* What is behind the baseline is a command or a header.
LEMMA NoSecondBaseline ==
  ASSUME NEW f, Script(f), NEW i \in DOMAIN f, ~f[i].blank, f[i].what # "tx",
         ~AllBlank(f, i - 1)
  PROVE  f[i].what = "command"
  BY FrameIs DEF AllBlank

LEMMA OneFurther ==
  ASSUME NEW f, Script(f), NEW i \in DOMAIN f, ~f[i].blank, NoJunk(f[i].parts), Clean(f, i - 1)
  PROVE  /\ Clean(f, i) /\ ~AllBlank(f, i) /\ i \in Nat /\ i \in 1..i
         /\ i - 1 \in 0..Len(f) /\ i \in Behind(f, i - 1) /\ i \in 0..Len(f)
<1>1. DOMAIN f = 1..Len(f) /\ Len(f) \in Nat
  BY DEF Script
<1>2. i \in Nat /\ i \in 1..i /\ i - 1 \in 0..Len(f) /\ i \in Behind(f, i - 1) /\ i \in 0..Len(f)
  BY <1>1 DEF Behind
<1>3. \A k \in 1..i : k \in 1..(i - 1) \/ k = i
  BY <1>2
<1>. QED
  BY <1>2, <1>3 DEF Clean, AllBlank

\* The baseline is no command.
LEMMA TakesBaseline ==
  ASSUME NEW f, Script(f), NEW i \in DOMAIN f, ~f[i].blank, NoJunk(f[i].parts),
         f[i].what = "baseline", NEW at, NEW u, NEW v, NEW b, NEW l,
         ReadTo(f, at, "baseline", u, v, b, l, i - 1)
  PROVE  ReadTo(f, EndIn(f, i), "restoring", u, v, b, l, i)
<1>1. Holds(f, v, i - 1) /\ b = <<>> /\ l = 0 /\ Clean(f, i - 1)
  BY DEF ReadTo
<1>2. Clean(f, i) /\ ~AllBlank(f, i) /\ i \in Nat
  BY <1>1, OneFurther
<1>3. \A k \in FramesOf(f) : k \in Nat
  <2>1. DOMAIN f = 1..Len(f) /\ Len(f) \in Nat
    BY DEF Script
  <2>. QED
    BY <2>1 DEF FramesOf
<1>4. i \notin CommandsOf(f) /\ i \notin HeadersOf(f)
  BY DEF CommandsOf, HeadersOf
<1>5. \A k \in FramesOf(f) : k # i => (k <= i <=> k <= i - 1)
  BY <1>2, <1>3
<1>6. CommandsTo(f, i) = CommandsTo(f, i - 1)
  BY <1>4, <1>5 DEF CommandsTo, CommandsOf
<1>7. ASSUME NEW h \in HeadersOf(f), h <= i PROVE Closes(f, h, i)
  <2>1. Closes(f, h, i - 1)
    BY <1>1, <1>4, <1>5, <1>7 DEF HeadersOf, Holds
  <2>2. \A k \in MembersOf(f, h) : k \in Nat
    BY <1>3 DEF MembersOf
  <2>. QED
    BY <1>2, <2>1, <2>2 DEF Closes
<1>8. Holds(f, v, i)
  BY <1>1, <1>2, <1>6, <1>7 DEF Holds
<1>. QED
  BY <1>1, <1>2, <1>8 DEF ReadTo

LEMMA TakesCommand ==
  ASSUME NEW f, Script(f), NEW i \in DOMAIN f, ~f[i].blank, NEW total \in Nat,
         Whole(f[i].parts, total),
         f[i].what # "tx", NEW at, NEW u, NEW b, NEW l,
         ReadTo(f, at, "live", u, u, b, l, i - 1)
  PROVE  ReadTo(f, EndIn(f, i), "applying", u, u \o <<i>>, b, l, i)
<1>1. Holds(f, u, i - 1) /\ b = <<>> /\ l = 0 /\ Clean(f, i - 1) /\ ~AllBlank(f, i - 1)
  BY DEF ReadTo
<1>2. NoJunk(f[i].parts)
  BY WholeIsClean
<1>3. Clean(f, i) /\ ~AllBlank(f, i) /\ i - 1 \in 0..Len(f) /\ i \in Behind(f, i - 1) /\ i \in Nat
  BY <1>1, <1>2, OneFurther
<1>4. f[i].what = "command"
  BY <1>1, NoSecondBaseline
<1>5. Skips(f, i - 1, i - 1, total)
  BY <1>3 DEF Skips
<1>6. Holds(f, u \o <<i>>, i)
  BY <1>1, <1>3, <1>4, <1>5, HoldsCommand
<1>. QED
  BY <1>1, <1>3, <1>6 DEF ReadTo

LEMMA TakesHeader ==
  ASSUME NEW f, Script(f), NEW i \in DOMAIN f, ~f[i].blank, NEW total \in Nat,
         Whole(f[i].parts, total), MaxCommandBytes \in Nat,
         f[i].what = "tx", f[i].count >= 2, NEW at, NEW u, NEW b, NEW l,
         ReadTo(f, at, "live", u, u, b, l, i - 1)
  PROVE  ReadTo(f, EndIn(f, i), "batch", u, u, b, f[i].count, i)
<1>1. Holds(f, u, i - 1) /\ b = <<>> /\ l = 0 /\ Clean(f, i - 1) /\ ~AllBlank(f, i - 1)
  BY DEF ReadTo
<1>2. NoJunk(f[i].parts)
  BY WholeIsClean
<1>3. Clean(f, i) /\ ~AllBlank(f, i) /\ i - 1 \in 0..Len(f) /\ i \in Behind(f, i - 1) /\ i \in Nat
  BY <1>1, <1>2, OneFurther
<1>4. Skips(f, i - 1, i - 1, total)
  BY <1>3 DEF Skips
<1>5. Collecting(f, u, b, f[i].count, i, i)
  BY <1>1, <1>3, <1>4, HeaderOpens
<1>6. i \in HeadersOf(f)
  BY DEF HeadersOf, FramesOf
<1>. QED
  BY <1>3, <1>5, <1>6 DEF ReadTo

LEMMA TakesMember ==
  ASSUME NEW f, Script(f), NEW i \in DOMAIN f, ~f[i].blank, NEW total \in Nat,
         Whole(f[i].parts, total), f[i].what # "tx",
         NEW at, NEW u, NEW v, NEW b, NEW l, ReadTo(f, at, "batch", u, v, b, l, i - 1),
         SizeOf(f, Append(b, i)) <= MaxCommandBytes
  PROVE  /\ l \in Nat /\ l >= 1
         /\ l # 1 => ReadTo(f, EndIn(f, i), "batch", u, v, Append(b, i), l - 1, i)
         /\ l = 1 => ReadTo(f, EndIn(f, i), "applying", u, u \o Append(b, i), <<>>, 0, i)
<1>1. Clean(f, i - 1) /\ ~AllBlank(f, i - 1)
  BY DEF ReadTo
<1>2. NoJunk(f[i].parts)
  BY WholeIsClean
<1>3. Clean(f, i) /\ ~AllBlank(f, i)
  BY <1>1, <1>2, OneFurther
<1>4. f[i].what = "command"
  BY <1>1, NoSecondBaseline
<1>5. PICK h \in HeadersOf(f) : Collecting(f, u, b, l, h, i - 1)
  BY DEF ReadTo
<1>6. l \in Nat /\ l >= 1
  <2>1. l = f[h].count - Len(b) /\ l >= 1 /\ b \in Seq(Nat)
    BY <1>5 DEF Collecting
  <2>2. f[h].count \in Nat
    BY FrameIs DEF HeadersOf, FramesOf
  <2>3. Len(b) \in Nat
    BY <2>1
  <2>. QED
    BY ONLY <2>1, <2>2, <2>3
<1>7. CASE l # 1
  <2>1. Collecting(f, u, Append(b, i), l - 1, h, i)
    BY <1>2, <1>4, <1>5, <1>7, CollectsMore
  <2>. QED
    BY <1>3, <1>6, <1>7, <2>1 DEF ReadTo
<1>8. CASE l = 1
  <2>1. Holds(f, u \o Append(b, i), i)
    BY <1>2, <1>4, <1>5, <1>8, CollectsLast
  <2>. QED
    BY <1>3, <1>6, <1>8, <2>1 DEF ReadTo
<1>. QED
  BY <1>7, <1>8


-----------------------------------------------------------------------------
(***************************************************************************)
(* The invariant of the stream: what has been applied is what some frames  *)
(* of the script hold, what a thread was given follows it, and until the   *)
(* bytes that "need" speaks of are there, a parse finds nothing.           *)
(***************************************************************************)
Given == applied \o thread

ReadSoFar ==
  stage # "stopped" =>
    \E j \in 0..Len(script) : ReadTo(script, pos, stage, applied, Given, batch, left, j)

StreamInv ==
  /\ \E m \in 0..Len(script) : Holds(script, applied, m)
  /\ \E n \in 0..Len(script) : Holds(script, Given, n)
  /\ stage \notin {"applying", "stopped"} => thread = <<>>
  /\ ReadSoFar

NothingFound(f, at, t) == ParseBuffer(f, at, t).verdict \in {"incomplete", "nothing"}

HintInv == \A t \in Nat : got <= t /\ t < pos + need => NothingFound(script, pos, t)

FollowerInv == FollowerTypeOK /\ StreamInv /\ HintInv

LEMMA TotalIs ==
  ASSUME NEW f \in Scripts
  PROVE  /\ Script(f) /\ Len(f) \in Nat /\ Len(f) >= 1 /\ DOMAIN f = 1..Len(f)
         /\ End(f[Len(f)].parts) = EndIn(f, Len(f)) /\ EndIn(f, Len(f)) \in Nat
         /\ EndIn(f, 0) = 0
         /\ \A i \in DOMAIN f : EndIn(f, i) = End(f[i].parts) /\ EndIn(f, i) <= EndIn(f, Len(f))
<1>1. Script(f)
  BY FollowerStreamAssumption
<1>2. Len(f) \in Nat /\ Len(f) >= 1 /\ DOMAIN f = 1..Len(f)
  BY <1>1 DEF Script
<1>3. ASSUME NEW i \in DOMAIN f
      PROVE  EndIn(f, i) = End(f[i].parts) /\ EndIn(f, i) <= EndIn(f, Len(f))
  <2>1. i \in 0..Len(f) /\ Len(f) \in 0..Len(f)
    BY <1>2
  <2>. QED
    BY <1>1, <2>1, FrameEnds, EndsRise
<1>4. EndIn(f, Len(f)) \in Nat
  <2>1. Len(f) \in DOMAIN f
    BY <1>2
  <2>. QED
    BY <1>1, <2>1, FrameEnds
<1>. QED
  BY <1>1, <1>2, <1>3, <1>4 DEF EndIn

LEMMA NothingHeld ==
  ASSUME NEW f, Script(f)
  PROVE  Holds(f, <<>>, 0) /\ Clean(f, 0) /\ EndIn(f, 0) = 0
<1>1. DOMAIN f \subseteq Nat \ {0}
  <2>1. DOMAIN f = 1..Len(f) /\ Len(f) \in Nat
    BY DEF Script
  <2>. QED
    BY <2>1
<1>2. CommandsTo(f, 0) = {}
  BY <1>1 DEF CommandsTo, CommandsOf, FramesOf
<1>3. \A h \in HeadersOf(f) : ~(h <= 0)
  BY <1>1 DEF HeadersOf, FramesOf
<1>. QED
  BY <1>2, <1>3, RisingNone DEF Holds, Clean, EndIn

LEMMA InitStream == InitFollower => FollowerInv
<1>. SUFFICES ASSUME InitFollower PROVE FollowerInv
  OBVIOUS
<1>1. Script(script) /\ Len(script) \in Nat /\ Total \in Nat
  BY TotalIs DEF InitFollower, Total
<1>2. FollowerTypeOK
  BY <1>1 DEF InitFollower, FollowerTypeOK
<1>3. Given = <<>> /\ applied = <<>>
  BY DEF InitFollower, Given
<1>4. /\ Holds(script, applied, 0) /\ Holds(script, Given, 0)
      /\ Clean(script, 0) /\ pos = EndIn(script, 0) /\ 0 \in 0..Len(script)
  BY <1>1, <1>3, NothingHeld DEF InitFollower
<1>5. ReadTo(script, pos, stage, applied, Given, batch, left, 0)
  BY <1>4 DEF InitFollower, ReadTo
<1>6. StreamInv
  BY <1>4, <1>5 DEF StreamInv, ReadSoFar, InitFollower
<1>7. HintInv
  BY DEF HintInv, InitFollower
<1>. QED
  BY <1>2, <1>6, <1>7 DEF FollowerInv

\* The end of the stream keeps what has been applied.
LEMMA StopKeeps ==
  ASSUME FollowerInv, Stop, UNCHANGED <<script, thread, applied>>,
         role' \in {"master", "replica"}
  PROVE  FollowerInv'
<1>1. Total' = Total /\ Total \in Nat
  BY TotalIs DEF Total, FollowerInv, FollowerTypeOK
<1>2. FollowerTypeOK'
  <2>1. <<>> \in Seq(DOMAIN script)
    OBVIOUS
  <2>. QED
    BY <1>1, <2>1 DEF FollowerInv, FollowerTypeOK, Stop
<1>3. Given' = Given
  BY DEF Given
<1>4. StreamInv'
  BY <1>3 DEF FollowerInv, StreamInv, ReadSoFar, Stop
<1>5. HintInv'
  BY DEF HintInv, Stop
<1>. QED
  BY <1>2, <1>4, <1>5 DEF FollowerInv

\* A step that changes neither the script nor what was read of it nor what is
\* in hand.
LEMMA StageKeeps ==
  ASSUME FollowerInv, UNCHANGED <<script, pos, need, batch, left, thread, applied>>,
         got' \in got..Total, role' \in {"master", "replica"},
         stage' \in {"connecting", "baseline", "restoring", "live", "batch",
                     "applying", "applied", "stopped"},
         stage \in {"connecting", "baseline"} => stage' \in {stage, "baseline"},
         stage' = "batch" <=> stage = "batch",
         stage = "stopped" => stage' = "stopped",
         thread # <<>> => stage' = stage
  PROVE  FollowerInv'
<1>1. Total' = Total /\ Total \in Nat
  BY TotalIs DEF Total, FollowerInv, FollowerTypeOK
<1>2. FollowerTypeOK'
  BY <1>1 DEF FollowerInv, FollowerTypeOK
<1>3. Given' = Given
  BY DEF Given
<1>4. ASSUME NEW j \in 0..Len(script),
             stage # "stopped", ReadTo(script, pos, stage, applied, Given, batch, left, j)
      PROVE  ReadTo(script, pos, stage', applied, Given, batch, left, j)
  BY <1>4 DEF ReadTo
<1>5. ReadSoFar'
  BY <1>3, <1>4 DEF FollowerInv, StreamInv, ReadSoFar
<1>6. StreamInv'
  BY <1>3, <1>5 DEF FollowerInv, StreamInv
<1>7. HintInv'
  BY DEF FollowerInv, FollowerTypeOK, HintInv
<1>. QED
  BY <1>2, <1>6, <1>7 DEF FollowerInv


(***************************************************************************)
(* A parse.                                                                *)
(***************************************************************************)
\* Frame i is handed out.
LEMMA HandsOut ==
  ASSUME FollowerInv, NEW i \in DOMAIN script, Whole(script[i].parts, got), HandOut(i),
         UNCHANGED <<script, applied>>,
         stage' \in {"restoring", "live", "batch", "applying"},
         batch' \in Seq(DOMAIN script), left' \in Nat, thread' \in Seq(DOMAIN script),
         stage' # "applying" => thread' = <<>>,
         ReadTo(script, EndIn(script, i), stage', applied, applied \o thread', batch', left', i),
         \E n \in 0..Len(script) : Holds(script, applied \o thread', n)
  PROVE  FollowerInv'
<1>1. /\ script \in Scripts /\ got \in 0..Total /\ role \in {"master", "replica"}
      /\ applied \in Seq(DOMAIN script)
  BY DEF FollowerInv, FollowerTypeOK
<1>2. /\ Total' = Total /\ Total \in Nat /\ i \in 0..Len(script)
      /\ EndIn(script, i) = End(script[i].parts) /\ EndIn(script, i) \in Nat
  <2>1. Script(script) /\ DOMAIN script = 1..Len(script) /\ Len(script) \in Nat /\ Total \in Nat
    BY <1>1, TotalIs DEF Total
  <2>2. Total' = Total
    BY DEF Total
  <2>3. EndIn(script, i) = End(script[i].parts) /\ EndIn(script, i) \in Nat
    BY <2>1, FrameEnds
  <2>. QED
    BY <2>1, <2>2, <2>3
<1>3. pos' = EndIn(script, i) /\ pos' \in 0..got /\ need' = 0 /\ got' = got /\ role' = role
  BY <1>1, <1>2 DEF HandOut, Whole
<1>4. FollowerTypeOK'
  BY <1>1, <1>2, <1>3 DEF FollowerTypeOK
<1>5. Given' = applied \o thread'
  BY DEF Given
<1>6. ReadSoFar'
  BY <1>2, <1>3, <1>5 DEF ReadSoFar
<1>7. StreamInv'
  BY <1>5, <1>6 DEF FollowerInv, StreamInv
<1>8. HintInv'
  BY <1>1, <1>3 DEF HintInv
<1>. QED
  BY <1>4, <1>7, <1>8 DEF FollowerInv

LEMMA NothingGiven == ASSUME thread = <<>>, applied \in Seq(DOMAIN script) PROVE Given = applied
  BY DEF Given

\* next_command returns frame i.
LEMMA TakeKeeps ==
  ASSUME FollowerInv, Reading, NEW i \in DOMAIN script, ~script[i].blank,
         Whole(script[i].parts, got), Take(i), UNCHANGED <<script, applied>>,
         ReadTo(script, EndIn(script, i - 1), stage, applied, Given, batch, left, i - 1)
  PROVE  FollowerInv'
<1>1. /\ Script(script) /\ DOMAIN script = 1..Len(script) /\ Len(script) \in Nat /\ i \in 0..Len(script)
      /\ got \in Nat /\ role \in {"master", "replica"} /\ applied \in Seq(DOMAIN script)
      /\ batch \in Seq(DOMAIN script) /\ left \in Nat /\ MaxCommandBytes \in Nat
      /\ script[i].count \in Nat
  <2>1. script \in Scripts /\ got \in 0..Total
    BY DEF FollowerInv, FollowerTypeOK
  <2>2. Script(script) /\ DOMAIN script = 1..Len(script) /\ Len(script) \in Nat /\ Total \in Nat
    BY <2>1, TotalIs DEF Total
  <2>. QED
    BY <2>1, <2>2, FollowerStreamAssumption, FrameIs DEF FollowerInv, FollowerTypeOK
<1>2. thread = <<>> /\ Given = applied
  <2>1. thread = <<>>
    BY DEF FollowerInv, StreamInv, Reading
  <2>. QED
    BY <1>1, <2>1, NothingGiven
<1>3. NoJunk(script[i].parts)
  BY <1>1, WholeIsClean
<1>4. applied \o <<>> = applied /\ <<>> \in Seq(DOMAIN script) /\ <<i>> \in Seq(DOMAIN script)
  BY <1>1
<1>5. ASSUME Drop, UNCHANGED thread PROVE FollowerInv'
  BY <1>1, <1>5, StopKeeps DEF Drop
<1>6. CASE stage = "baseline" /\ TakeBaseline(i)
  <2>1. CASE script[i].what = "baseline"
    <3>1. stage' = "restoring" /\ HandOut(i) /\ batch' = batch /\ left' = left /\ thread' = thread
      BY <1>6, <2>1 DEF TakeBaseline
    <3>2. ReadTo(script, EndIn(script, i), "restoring", applied, applied, batch, left, i)
      BY <1>1, <1>2, <1>3, <1>6, <2>1, TakesBaseline
    <3>3. Holds(script, applied, i)
      BY <3>2 DEF ReadTo
    <3>. QED
      BY <1>1, <1>2, <1>4, <3>1, <3>2, <3>3, HandsOut
  <2>2. CASE script[i].what # "baseline"
    BY <1>5, <1>6, <2>2 DEF TakeBaseline
  <2>. QED
    BY <2>1, <2>2
<1>7. CASE stage = "live" /\ TakeLive(i)
  <2>1. CASE script[i].what # "tx"
    <3>1. stage' = "applying" /\ HandOut(i) /\ batch' = batch /\ left' = left /\ thread' = <<i>>
      BY <1>7, <2>1 DEF TakeLive
    <3>2. ReadTo(script, EndIn(script, i), "applying", applied, applied \o <<i>>, batch, left, i)
      BY <1>1, <1>2, <1>7, <2>1, TakesCommand
    <3>3. Holds(script, applied \o <<i>>, i)
      BY <3>2 DEF ReadTo
    <3>. QED
      BY <1>1, <1>4, <3>1, <3>2, <3>3, HandsOut
  <2>2. CASE script[i].what = "tx" /\ script[i].count >= 2
    <3>1. /\ stage' = "batch" /\ HandOut(i) /\ batch' = batch /\ left' = script[i].count
          /\ thread' = thread
      BY <1>1, <1>7, <2>2 DEF TakeLive
    <3>2. ReadTo(script, EndIn(script, i), "batch", applied, applied, batch, script[i].count, i)
      BY <1>1, <1>2, <1>7, <2>2, TakesHeader
    <3>3. \E n \in 0..Len(script) : Holds(script, applied, n)
      BY DEF FollowerInv, StreamInv
    <3>. QED
      BY <1>1, <1>2, <1>4, <3>1, <3>2, <3>3, HandsOut
  <2>3. CASE script[i].what = "tx" /\ ~(script[i].count >= 2)
    BY <1>1, <1>5, <1>7, <2>3 DEF TakeLive
  <2>. QED
    BY <2>1, <2>2, <2>3
<1>8. CASE stage = "batch" /\ Collect(i)
  <2>. DEFINE frames == Append(batch, i)
  <2>1. CASE script[i].what = "tx" \/ BatchSize(frames) > MaxCommandBytes
    BY <1>5, <1>8, <2>1 DEF Collect
  <2>2. CASE ~(script[i].what = "tx" \/ BatchSize(frames) > MaxCommandBytes)
    <3>1. /\ batch' = IF left = 1 THEN <<>> ELSE frames
          /\ left' = left - 1 /\ HandOut(i)
          /\ IF left = 1
             THEN stage' = "applying" /\ thread' = frames
             ELSE UNCHANGED <<stage, thread>>
      BY <1>8, <2>2 DEF Collect
    <3>2. frames \in Seq(DOMAIN script)
      BY <1>1
    <3>3. SizeOf(script, frames) <= MaxCommandBytes
      <4>1. BatchSize(frames) = SizeOf(script, frames)
        BY ScriptMeans
      <4>2. SizeOf(script, frames) \in Nat
        <5>1. batch \in Seq(Nat) /\ i \in Nat
          BY <1>1
        <5>2. \A k \in DOMAIN script : script[k].size \in Nat
          BY <1>1, FrameIs
        <5>3. \A k \in Range(batch) : script[k].size \in Nat
          BY <1>1, <5>2 DEF Range
        <5>4. SizeOf(script, batch) \in Nat /\ SizeOf(script, frames) = SizeOf(script, batch) + script[i].size
          BY <5>1, <5>2, <5>3, SizeMore
        <5>. QED
          BY <5>2, <5>4
      <4>. QED
        BY <1>1, <2>2, <4>1, <4>2
    <3>4. /\ left \in Nat /\ left >= 1
          /\ left # 1 => ReadTo(script, EndIn(script, i), "batch", applied, applied, frames, left - 1, i)
          /\ left = 1 => ReadTo(script, EndIn(script, i), "applying", applied, applied \o frames, <<>>, 0, i)
      BY <1>1, <1>2, <1>8, <2>2, <3>3, TakesMember
    <3>. HIDE DEF frames
    <3>5. CASE left = 1
      <4>1. /\ stage' = "applying" /\ HandOut(i) /\ batch' = <<>> /\ left' = 0 /\ thread' = frames
        BY <3>1, <3>5
      <4>2. ReadTo(script, EndIn(script, i), "applying", applied, applied \o frames, <<>>, 0, i)
        BY <3>4, <3>5
      <4>3. Holds(script, applied \o frames, i)
        BY <4>2 DEF ReadTo
      <4>. QED
        BY <1>1, <1>4, <3>2, <4>1, <4>2, <4>3, HandsOut
    <3>6. CASE left # 1
      <4>1. /\ stage' = "batch" /\ HandOut(i) /\ batch' = frames /\ left' = left - 1 /\ thread' = thread
            /\ left - 1 \in Nat
        BY <1>8, <3>1, <3>4, <3>6
      <4>2. ReadTo(script, EndIn(script, i), "batch", applied, applied, frames, left - 1, i)
        BY <3>4, <3>6
      <4>3. \E n \in 0..Len(script) : Holds(script, applied, n)
        BY DEF FollowerInv, StreamInv
      <4>. QED
        BY <1>1, <1>2, <1>4, <3>2, <4>1, <4>2, <4>3, HandsOut
    <3>. QED
      BY <3>5, <3>6
  <2>. QED
    BY <2>1, <2>2
<1>. QED
  BY <1>6, <1>7, <1>8 DEF Take

\* Nothing is found: blanks are passed over, and no more is read of the script.
LEMMA WaitsOn ==
  ASSUME FollowerInv, UNCHANGED <<script, got, stage, batch, left, thread, applied, role>>,
         stage # "stopped", NEW j \in 0..Len(script), NEW m \in j..Len(script),
         Skips(script, j, m, got),
         ReadTo(script, pos, stage, applied, Given, batch, left, j),
         pos' = EndIn(script, m), pos' <= got, need' \in 0..(Total + 1),
         \A t \in Nat : got <= t /\ t < pos' + need' => NothingFound(script, pos', t)
  PROVE  FollowerInv'
<1>1. /\ Script(script) /\ Len(script) \in Nat /\ Total' = Total /\ Total \in Nat /\ got \in 0..Total
      /\ DOMAIN script = 1..Len(script)
  BY TotalIs DEF FollowerInv, FollowerTypeOK, Total
<1>2. m \in 0..Len(script) /\ EndIn(script, m) \in Nat
  <2>1. m \in 0..Len(script) /\ m \in 0..m
    BY <1>1
  <2>. QED
    BY <1>1, <2>1, EndsRise
<1>3. FollowerTypeOK'
  BY <1>1, <1>2 DEF FollowerInv, FollowerTypeOK
<1>4. Given' = Given
  BY DEF Given
<1>5. ReadTo(script, EndIn(script, m), stage, applied, Given, batch, left, m)
  <2>1. got \in Nat
    BY <1>1
  <2>. QED
    BY <1>1, <2>1, ReadsBlanks
<1>6. ReadSoFar'
  BY <1>2, <1>4, <1>5 DEF ReadSoFar
<1>7. StreamInv'
  BY <1>4, <1>6 DEF FollowerInv, StreamInv
<1>8. HintInv'
  BY DEF HintInv
<1>. QED
  BY <1>3, <1>7, <1>8 DEF FollowerInv

LEMMA ParseKeeps ==
  ASSUME FollowerInv, Parse
  PROVE  FollowerInv'
<1>. DEFINE r == ParseBuffer(script, pos, got)
<1>1. /\ Reading /\ ParseDue /\ UNCHANGED <<script, applied>>
      /\ \/ r.verdict = "command" /\ Take(r.frame)
         \/ r.verdict = "malformed" /\ Drop /\ UNCHANGED thread
         \/ /\ r.verdict \in {"incomplete", "nothing"}
            /\ pos' = r.pos
            /\ need' = r.need
            /\ UNCHANGED <<got, stage, batch, left, thread, role>>
  BY DEF Parse
<1>2. /\ Script(script) /\ Len(script) \in Nat /\ Total \in Nat /\ DOMAIN script = 1..Len(script)
      /\ got \in 0..Total /\ got \in Nat /\ pos \in 0..got /\ Total = EndIn(script, Len(script))
      /\ role \in {"master", "replica"}
  BY TotalIs DEF FollowerInv, FollowerTypeOK, Total
<1>3. stage # "stopped"
  BY <1>1 DEF Reading
<1>4. PICK j \in 0..Len(script) : ReadTo(script, pos, stage, applied, Given, batch, left, j)
  BY <1>3 DEF FollowerInv, StreamInv, ReadSoFar
<1>5. pos = EndIn(script, j)
  BY <1>4 DEF ReadTo
<1>6. Finds(script, j, got, r)
  BY <1>2, <1>5, ParseFinds
<1>. HIDE DEF r
<1>7. ASSUME NEW i \in Behind(script, j), FindsCommand(script, j, i, got, r)
      PROVE  FollowerInv'
  <2>1. /\ i \in DOMAIN script /\ i - 1 \in j..Len(script) /\ ~script[i].blank
        /\ Whole(script[i].parts, got) /\ Skips(script, j, i - 1, got) /\ r.frame = i
        /\ r.verdict = "command"
    BY <1>2, <1>7 DEF FindsCommand, Behind
  <2>2. Take(i)
    BY <1>1, <2>1
  <2>3. ReadTo(script, EndIn(script, i - 1), stage, applied, Given, batch, left, i - 1)
    BY <1>2, <1>4, <2>1, ReadsBlanks
  <2>. QED
    BY <1>1, <2>1, <2>2, <2>3, TakeKeeps
<1>8. ASSUME NEW i \in Behind(script, j), FindsJunk(script, j, i, got, r)
      PROVE  FollowerInv'
  <2>1. Drop /\ UNCHANGED thread
    BY <1>1, <1>8 DEF FindsJunk
  <2>. QED
    BY <1>1, <1>2, <2>1, StopKeeps DEF Drop
<1>9. ASSUME NEW i \in Behind(script, j), FindsPart(script, j, i, got, r)
      PROVE  FollowerInv'
  <2>. DEFINE m == i - 1
              hint == Hint(script[i].parts, got)
  <2>1. /\ i \in DOMAIN script /\ m \in j..Len(script) /\ Skips(script, j, m, got)
        /\ EndIn(script, m) < got /\ got < EndIn(script, i) /\ ~Malformed(script[i].parts, got)
        /\ r.verdict = "incomplete" /\ r.pos = EndIn(script, m) /\ r.need = hint - EndIn(script, m)
    BY <1>2, <1>9 DEF FindsPart, Behind
  <2>2. /\ hint \in Nat /\ got < hint /\ hint <= EndIn(script, i)
        /\ \A t \in Nat : got <= t /\ t < hint => ~Malformed(script[i].parts, t)
    BY <1>2, <2>1, HintIs
  <2>3. EndIn(script, i) \in Nat /\ EndIn(script, m) \in Nat /\ EndIn(script, i) <= Total
    BY <1>2, <2>1, FrameEnds, TotalIs DEF FollowerInv, FollowerTypeOK
  <2>4. /\ pos' = EndIn(script, m) /\ need' = hint - EndIn(script, m)
        /\ UNCHANGED <<script, got, stage, batch, left, thread, applied, role>>
    BY <1>1, <2>1
  <2>5. ASSUME NEW t \in Nat, got <= t, t < hint PROVE NothingFound(script, EndIn(script, m), t)
    <3>1. EndIn(script, m) < t /\ t < EndIn(script, i) /\ ~Malformed(script[i].parts, t)
      BY <1>2, <2>1, <2>2, <2>3, <2>5
    <3>. QED
      BY <1>2, <2>1, <3>1, PartIsNoFind DEF NothingFound
  <2>. HIDE DEF hint, m
  <2>6. pos' <= got /\ need' \in 0..(Total + 1) /\ pos' + need' = hint
    BY <1>2, <2>1, <2>2, <2>3, <2>4
  <2>7. \A t \in Nat : got <= t /\ t < pos' + need' => NothingFound(script, pos', t)
    BY <2>4, <2>5, <2>6
  <2>. QED
    BY <1>3, <1>4, <2>1, <2>4, <2>6, <2>7, WaitsOn
<1>10. ASSUME NEW m \in j..Len(script), FindsNothing(script, j, m, got, r)
       PROVE  FollowerInv'
  <2>1. /\ Skips(script, j, m, got) /\ got = EndIn(script, m)
        /\ r.verdict = "nothing" /\ r.pos = got /\ r.need = 0
    BY <1>10 DEF FindsNothing
  <2>2. pos' = got /\ need' = 0 /\ UNCHANGED <<script, got, stage, batch, left, thread, applied, role>>
    BY <1>1, <2>1
  <2>3. \A t \in Nat : got <= t /\ t < pos' + need' => NothingFound(script, pos', t)
    BY <1>2, <2>2
  <2>. QED
    BY <1>2, <1>3, <1>4, <2>1, <2>2, <2>3, WaitsOn
<1>. QED
  BY <1>6, <1>7, <1>8, <1>9, <1>10 DEF Finds

\* A thread has applied what it was given.
LEMMA ApplyKeeps ==
  ASSUME FollowerInv, Apply
  PROVE  FollowerInv'
<1>1. /\ thread' = <<>> /\ applied' = Given
      /\ stage' = IF stage = "applying" THEN "applied" ELSE stage
      /\ UNCHANGED <<script, got, pos, need, batch, left, role>> /\ thread # <<>>
  BY DEF Apply, Given
<1>2. /\ applied \in Seq(DOMAIN script) /\ thread \in Seq(DOMAIN script) /\ script \in Scripts
  BY DEF FollowerInv, FollowerTypeOK
<1>3. Given \in Seq(DOMAIN script)
  BY <1>2 DEF Given
<1>4. Given' = Given
  <2>1. Given' = Given \o <<>>
    BY <1>1 DEF Given
  <2>. QED
    BY <1>3, <2>1
<1>5. stage \in {"applying", "stopped"} /\ stage' # "applying"
  BY <1>1 DEF FollowerInv, StreamInv
<1>6. FollowerTypeOK'
  <2>1. Total' = Total /\ <<>> \in Seq(DOMAIN script)
    BY <1>1 DEF Total
  <2>. QED
    BY <1>1, <1>3, <2>1 DEF FollowerInv, FollowerTypeOK
<1>7. ASSUME NEW j \in 0..Len(script), stage = "applying",
             ReadTo(script, pos, stage, applied, Given, batch, left, j)
      PROVE  ReadTo(script, pos, "applied", Given, Given, batch, left, j)
  BY <1>7 DEF ReadTo
<1>8. ReadSoFar'
  BY <1>1, <1>4, <1>5, <1>7 DEF FollowerInv, StreamInv, ReadSoFar
<1>9. StreamInv'
  BY <1>1, <1>4, <1>5, <1>8 DEF FollowerInv, StreamInv
<1>10. HintInv'
  BY <1>1 DEF FollowerInv, HintInv
<1>. QED
  BY <1>6, <1>9, <1>10 DEF FollowerInv

LEMMA StreamStep ==
  ASSUME FollowerInv, [FollowerNext]_followVars
  PROVE  FollowerInv'
<1>1. /\ got \in 0..Total /\ Total \in Nat /\ role \in {"master", "replica"}
      /\ stage \in {"connecting", "baseline", "restoring", "live", "batch",
                    "applying", "applied", "stopped"}
      /\ stage \notin {"applying", "stopped"} => thread = <<>>
  BY TotalIs DEF FollowerInv, FollowerTypeOK, StreamInv, Total
<1>2. CASE UNCHANGED followVars
  BY <1>1, <1>2, StageKeeps DEF followVars
<1>3. CASE Connect
  BY <1>1, <1>3, StageKeeps DEF Connect
<1>4. CASE Refused \/ Promote \/ Closed \/ Reset
  BY <1>1, <1>4, StopKeeps DEF Refused, Promote, Closed, Reset, Crash, Drop
<1>5. CASE Replace \/ TimedOut
  BY <1>1, <1>5, StopKeeps DEF Replace, TimedOut, Drop
<1>6. CASE Parse
  BY <1>6, ParseKeeps
<1>7. CASE Receive
  BY <1>1, <1>7, StageKeeps DEF Receive, Waiting, Reading
<1>8. CASE Restore
  BY <1>1, <1>8, StageKeeps DEF Restore
<1>9. CASE Apply
  BY <1>9, ApplyKeeps
<1>10. CASE Applied
  BY <1>1, <1>10, StageKeeps DEF Applied
<1>. QED
  BY <1>2, <1>3, <1>4, <1>5, <1>6, <1>7, <1>8, <1>9, <1>10 DEF FollowerNext

LEMMA StreamIsInvariant == FollowerSpec => []FollowerInv
<1>1. FollowerInv /\ [FollowerNext]_followVars => FollowerInv'
  BY StreamStep
<1>. QED
  BY InitStream, <1>1, PTL DEF FollowerSpec

-----------------------------------------------------------------------------
LEMMA OrderFollows == FollowerInv => AppliedInOrder
<1>. SUFFICES ASSUME FollowerInv PROVE AppliedInOrder
  OBVIOUS
<1>1. PICK m \in 0..Len(script) : Holds(script, applied, m)
  BY DEF FollowerInv, StreamInv
<1>2. /\ Rising(applied) /\ Range(applied) = CommandsTo(script, m) /\ Clean(script, m)
  BY <1>1 DEF Holds
<1>3. Done = CommandsTo(script, m)
  BY <1>2 DEF Done, Range
<1>4. /\ DOMAIN script = 1..Len(script) /\ Len(script) \in Nat /\ m \in Nat
      /\ \A c \in CommandsOf(script) : c \in Nat
  <2>1. DOMAIN script = 1..Len(script) /\ Len(script) \in Nat
    BY TotalIs DEF FollowerInv, FollowerTypeOK
  <2>. QED
    BY <2>1 DEF CommandsOf, FramesOf
<1>5. Commands = CommandsOf(script)
  BY ScriptMeans
<1>6. Done = {c \in Commands : \E d \in Done : c <= d}
  <2>1. ASSUME NEW c \in Done PROVE c \in Commands /\ c <= c
    BY <1>3, <1>4, <1>5, <2>1 DEF CommandsTo
  <2>2. ASSUME NEW c \in Commands, NEW d \in Done, c <= d PROVE c \in Done
    <3>1. c \in Nat /\ d \in Nat /\ d <= m
      BY <1>3, <1>4, <1>5 DEF CommandsTo
    <3>. QED
      BY <1>3, <1>4, <1>5, <2>2, <3>1 DEF CommandsTo
  <2>. QED
    BY <2>1, <2>2
<1>7. ASSUME NEW d \in Done, NEW i \in 1..d PROVE ~Malformed(script[i].parts, Total)
  <2>1. d \in Nat /\ d <= m
    BY <1>3, <1>4 DEF CommandsTo
  <2>2. i \in 1..m
    BY <1>4, <2>1
  <2>. QED
    BY <1>2, <2>2, CleanNeverMalformed DEF Clean
<1>. QED
  BY <1>2, <1>6, <1>7 DEF AppliedInOrder, Rising

LEMMA WholeFollows == FollowerInv => TransactionsWhole
<1>. SUFFICES ASSUME FollowerInv PROVE TransactionsWhole
  OBVIOUS
<1>1. PICK m \in 0..Len(script) : Holds(script, applied, m)
  BY DEF FollowerInv, StreamInv
<1>2. /\ Range(applied) = CommandsTo(script, m)
      /\ \A h \in HeadersOf(script) : h <= m => Closes(script, h, m)
  BY <1>1 DEF Holds
<1>3. Done = CommandsTo(script, m)
  BY <1>2 DEF Done, Range
<1>4. m \in Nat /\ \A c \in FramesOf(script) : c \in Nat
  <2>1. DOMAIN script = 1..Len(script) /\ Len(script) \in Nat
    BY TotalIs DEF FollowerInv, FollowerTypeOK
  <2>. QED
    BY <2>1 DEF FramesOf
<1>5. ASSUME NEW h \in Headers, NEW d \in Done, d > h PROVE WellFormed(h) /\ Members(h) \subseteq Done
  <2>1. h \in HeadersOf(script) /\ h \in Nat
    BY <1>4, ScriptMeans DEF HeadersOf
  <2>2. d \in Nat /\ d <= m
    BY <1>3, <1>4 DEF CommandsTo, CommandsOf
  <2>3. h <= m
    BY <1>4, <1>5, <2>1, <2>2
  <2>4. WellFormedIn(script, h) /\ \A k \in MembersOf(script, h) : k <= m
    BY <1>2, <2>1, <2>3 DEF Closes
  <2>5. MembersOf(script, h) \subseteq CommandsOf(script)
    BY <2>4 DEF WellFormedIn
  <2>6. MembersOf(script, h) \subseteq Done
    BY <1>3, <2>4, <2>5 DEF CommandsTo
  <2>. QED
    BY <2>4, <2>6, ScriptMeans
<1>. QED
  BY <1>5 DEF TransactionsWhole

LEMMA HintFollows == FollowerInv => NeverSitsOnACommand
<1>. SUFFICES ASSUME FollowerInv, Waiting PROVE NothingFound(script, pos, got)
  BY DEF NeverSitsOnACommand, NothingFound
<1>1. /\ Script(script) /\ Len(script) \in Nat /\ DOMAIN script = 1..Len(script)
      /\ Total = EndIn(script, Len(script)) /\ Total \in Nat
      /\ got \in 0..Total /\ pos \in 0..got /\ need \in Nat
  BY TotalIs DEF FollowerInv, FollowerTypeOK, Total
<1>2. stage # "stopped" /\ ~ParseDue
  BY DEF Waiting, Reading
<1>3. CASE got < pos + need
  BY <1>1, <1>3 DEF FollowerInv, HintInv
<1>4. CASE got = pos
  <2>1. PICK j \in 0..Len(script) : pos = EndIn(script, j)
    BY <1>2 DEF FollowerInv, StreamInv, ReadSoFar, ReadTo
  <2>. DEFINE r == ParseBuffer(script, pos, got)
  <2>2. Finds(script, j, got, r)
    BY <1>1, <1>4, <2>1, ParseFinds
  <2>. HIDE DEF r
  <2>3. ASSUME NEW i \in Behind(script, j)
        PROVE  ~Whole(script[i].parts, got) /\ ~Malformed(script[i].parts, got)
    <3>1. i \in DOMAIN script /\ i - 1 \in 0..Len(script) /\ j \in 0..(i - 1)
      BY <1>1 DEF Behind
    <3>2. EndIn(script, j) <= EndIn(script, i - 1) /\ EndIn(script, i - 1) \in Nat
      BY <1>1, <3>1, EndsRise
    <3>3. /\ End(script[i].parts) = EndIn(script, i) /\ EndIn(script, i) \in Nat
          /\ EndIn(script, i - 1) < EndIn(script, i)
          /\ \A k \in DOMAIN script[i].parts :
               script[i].parts[k].end \in Nat /\ EndIn(script, i - 1) < script[i].parts[k].end
      BY <1>1, <3>1, FrameEnds
    <3>4. got \in Nat /\ got <= EndIn(script, i - 1)
      BY <1>1, <1>4, <2>1, <3>2
    <3>. QED
      BY <3>2, <3>3, <3>4 DEF Whole, Malformed
  <2>4. r.verdict \in {"incomplete", "nothing"}
    BY <2>2, <2>3 DEF Finds, FindsCommand, FindsJunk, FindsPart, FindsNothing
  <2>. QED
    BY <2>4 DEF NothingFound, r
<1>5. got < pos + need \/ got = pos
  BY <1>1, <1>2 DEF ParseDue
<1>. QED
  BY <1>3, <1>4, <1>5

(***************************************************************************)
(* For all scripts of a leader, in whatever pieces they arrive and at      *)
(* whatever byte they end: the store holds the leader's commands up to     *)
(* some command, each once and in order, and nothing from behind bytes     *)
(* that are no frame.                                                      *)
(***************************************************************************)
THEOREM CommandsAreAppliedInOrder == FollowerSpec => []AppliedInOrder
  BY StreamIsInvariant, OrderFollows, PTL

\* Of a transaction all is applied or nothing, and what is cut off, nested,
\* announced wrongly or too large is never applied, nor what follows it.
THEOREM TransactionsAreWhole == FollowerSpec => []TransactionsWhole
  BY StreamIsInvariant, WholeFollows, PTL

\* The hint of parse_buffer never makes the follower wait for bytes when a
\* command is there.
THEOREM HintsAreExact == FollowerSpec => []NeverSitsOnACommand
  BY StreamIsInvariant, HintFollows, PTL

\* Every step of the node is a step of its stream, or leaves it.
LEMMA NodeFollows ==
  ASSUME [NodeNext]_nodeVars
  PROVE  [FollowerNext]_followVars
  BY DEF NodeNext, nodeVars, FollowOn, RestoreBaseline, ApplyUnit, NotifyOfUnit,
         StopFollowing, Sleep, LocalWrite, FollowerNext

\* A node whose clients sleep and write follows as one that has none: nothing
\* they do touches what it applies.
THEOREM NodeImplementsFollower == NodeSpec => FollowerSpec
<1>1. InitNode => InitFollower
  BY DEF InitNode
<1>2. [NodeNext]_nodeVars => [FollowerNext]_followVars
  BY NodeFollows
<1>3. QED
  BY <1>1, <1>2, PTL DEF NodeSpec, FollowerSpec

\* The types of the node's stream and of its readers.
THEOREM NodeTyped == NodeSpec => []NodeTypeOK
<1>1. FollowerInv /\ ReadsTypeOK => NodeTypeOK
  BY DEF FollowerInv, NodeTypeOK
<1>2. QED
  BY <1>1, NodeImplementsFollower, StreamIsInvariant, NodeImplementsReads, ReadsTyped, PTL

\* What holds of the stream alone holds of the node, whatever its clients do.
THEOREM NodeAppliesTheStream ==
  NodeSpec => [](AppliedInOrder /\ TransactionsWhole /\ NeverSitsOnACommand)
  BY NodeImplementsFollower, CommandsAreAppliedInOrder, TransactionsAreWhole, HintsAreExact, PTL

=============================================================================
