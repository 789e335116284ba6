----------------------------- MODULE ServerProofs -----------------------------
(***************************************************************************)
(* Proofs about the two parts that MCServer runs.                          *)
(*                                                                         *)
(* AofSync: what was answered under "always" survives a kill, and a        *)
(* shutdown keeps all that was answered, for every number of changes,      *)
(* COMPACTs and signals.                                                   *)
(*                                                                         *)
(* PubSub, for any connections, limits and numbers of messages: what waits *)
(* for a subscriber is bounded, what a PUBLISH has counted is written      *)
(* before it is answered, and nobody misses a message or has one twice or  *)
(* out of order.                                                           *)
(***************************************************************************)
EXTENDS AofSync, PubSub, FiniteSetTheorems, SequenceTheorems, TLAPS

-----------------------------------------------------------------------------
(***************************************************************************)
(* AofSync: where the records of the append-only file are.                 *)
(***************************************************************************)
\* A flush puts everything into the file of self.aof_file and leaves the others.
LEMMA AofFlushed ==
  ASSUME TypeOK, FlushAof
  PROVE  /\ flushed' \in [Files -> Nat]
         /\ \A f \in Files : flushed'[f] = IF f = aof THEN changes ELSE flushed[f]
<1>1. flushed' = [flushed EXCEPT ![aof] = changes]
  BY DEF FlushAof
<1>2. aof \in Files /\ flushed \in [Files -> Nat] /\ changes \in Nat
  BY AofSyncAssumption DEF TypeOK
<1>. QED
  BY <1>1, <1>2

THEOREM AofSyncTypeCorrect == Spec => []TypeOK
<1>1. Init => TypeOK
  <2>. SUFFICES ASSUME Init PROVE TypeOK
    OBVIOUS
  <2>1. 0 \in Nat /\ 0 \in Files /\ 0 \in 0..MaxChanges /\ 0 \in 0..MaxSignals
    BY AofSyncAssumption DEF Files
  <2>2. thread \in {"none", "sleeping"}
    BY DEF Init
  <2>. QED
    BY <2>1, <2>2 DEF Init, TypeOK
<1>2. TypeOK /\ [Next]_vars => TypeOK'
  <2>. SUFFICES ASSUME TypeOK, [Next]_vars PROVE TypeOK'
    OBVIOUS
  <2>. USE AofSyncAssumption DEF TypeOK, Files, Fsync
  <2>1. CASE Log
    BY <2>1 DEF Log, threadVars, stopVars, clientVars
  <2>2. CASE Flush
    BY <2>2, AofFlushed DEF Flush, threadVars, stopVars, clientVars
  <2>3. CASE Sync
    BY <2>3 DEF Sync, threadVars, stopVars, clientVars
  <2>4. CASE Answer
    BY <2>4 DEF Answer, fileVars, threadVars, stopVars, clientVars
  <2>5. CASE SetAlways
    BY <2>5 DEF SetAlways, fileVars, threadVars, stopVars, clientVars
  <2>6. CASE SetEverysec
    BY <2>6 DEF SetEverysec, fileVars, clientVars
  <2>7. CASE Compact
    BY <2>7 DEF Compact, threadVars, stopVars, clientVars
  <2>8. CASE CompactClose
    BY <2>8, AofFlushed DEF CompactClose, threadVars, stopVars, clientVars
  <2>9. CASE CompactOpen
    BY <2>9 DEF CompactOpen, threadVars, stopVars, clientVars
  <2>10. CASE ThreadTest
    BY <2>10 DEF ThreadTest, NextRound, fileVars, stopVars, clientVars
  <2>11. CASE ThreadFlush
    BY <2>11, AofFlushed DEF ThreadFlush, stopVars, clientVars
  <2>12. CASE ThreadFileno
    BY <2>12 DEF ThreadFileno, fileVars, stopVars, clientVars
  <2>13. CASE ThreadFsync
    BY <2>13 DEF ThreadFsync, NextRound, stopVars, clientVars
  <2>14. CASE Signal
    BY <2>14 DEF Signal, fileVars, threadVars, clientVars
  <2>15. CASE StopTest
    BY <2>15 DEF StopTest, fileVars, threadVars, clientVars
  <2>16. CASE StopFlush
    BY <2>16, AofFlushed DEF StopFlush, threadVars, clientVars
  <2>17. CASE StopClose
    BY <2>17, AofFlushed DEF StopClose, threadVars, clientVars
  <2>18. ASSUME NEW f \in Files, WriteBack(f) PROVE TypeOK'
    BY <2>18 DEF WriteBack, threadVars, stopVars, clientVars
  <2>19. CASE UNCHANGED vars
    BY <2>19 DEF vars, fileVars, threadVars, stopVars, clientVars
  <2>. QED
    BY <2>1, <2>2, <2>3, <2>4, <2>5, <2>6, <2>7, <2>8, <2>9, <2>10, <2>11,
       <2>12, <2>13, <2>14, <2>15, <2>16, <2>17, <2>18, <2>19
    DEF Next, Command, Background, Shutdown
<1>. QED
  BY <1>1, <1>2, PTL DEF Spec

-----------------------------------------------------------------------------
(***************************************************************************)
(* A COMPACT has the name at a file with every change in it until it has   *)
(* opened that file.  Otherwise the file that is written to has the name,  *)
(* and all changes are in it when an always write has been flushed and     *)
(* when it is closed.                                                      *)
(***************************************************************************)
Swapping == busy \in {"close", "open"}

FileInv ==
  /\ IF Swapping THEN aof # name /\ flushed[name] = changes ELSE aof = name
  /\ busy = "fsync" => flushed[aof] = changes
  /\ busy = "answer" /\ mode = "always" => flushed[aof] = changes
  /\ closed /\ busy # "open" => flushed[aof] = changes

CountInv ==
  /\ \A f \in Files : flushed[f] <= changes
  /\ promised <= answered
  /\ answered <= changes

SafeInv == FileInv /\ CountInv /\ AlwaysSurvivesKill /\ ShutdownKeepsAll

LEMMA SafeStep == TypeOK /\ SafeInv /\ [Next]_vars => SafeInv'
<1>. SUFFICES ASSUME TypeOK, SafeInv, [Next]_vars PROVE SafeInv'
  OBVIOUS
<1>e. FlushAof => /\ flushed' \in [Files -> Nat]
                  /\ \A f \in Files : flushed'[f] = IF f = aof THEN changes ELSE flushed[f]
  BY AofFlushed
<1>. USE AofSyncAssumption
     DEF TypeOK, Files, SafeInv, FileInv, CountInv, Swapping, AlwaysSurvivesKill,
         ShutdownKeepsAll, Fsync
<1>f. FlushAof => flushed'[name] = changes
  BY <1>e
<1>g. ASSUME FlushAof, UNCHANGED <<changes, name, answered, promised>>
      PROVE  CountInv' /\ AlwaysSurvivesKill' /\ ShutdownKeepsAll'
  <2>1. flushed'[name'] = changes' /\ promised' <= answered' /\ answered' <= changes'
    BY <1>f, <1>g
  <2>2. ASSUME NEW f \in Files PROVE flushed'[f] <= changes
    <3>1. flushed'[f] = IF f = aof THEN changes ELSE flushed[f]
      BY <1>e, <1>g
    <3>2. changes \in Nat /\ flushed[f] <= changes
      OBVIOUS
    <3>. QED
      BY <3>1, <3>2
  <2>3. changes' \in Nat /\ answered' \in Nat /\ promised' \in Nat
    BY <1>g
  <2>. QED
    BY <2>1, <2>2, <2>3, <1>g
<1>1. CASE Log
  BY <1>1 DEF Log, threadVars, stopVars, clientVars
<1>2. CASE Flush
  <2>1. CASE closed
    BY <1>2, <2>1 DEF Flush, threadVars, stopVars, clientVars
  <2>2. CASE ~closed
    <3>1. /\ FlushAof /\ busy = "flush" /\ busy' = "fsync"
          /\ UNCHANGED <<mode, changes, aof, closed, name, answered, promised>>
          /\ UNCHANGED stopVars
      BY <1>2, <2>2 DEF Flush, clientVars
    <3>2. CountInv' /\ AlwaysSurvivesKill' /\ ShutdownKeepsAll'
      BY <1>g, <3>1
    <3>3. FileInv'
      BY <1>e, <1>f, <3>1 DEF stopVars
    <3>. QED
      BY <3>2, <3>3
  <2>. QED
    BY <2>1, <2>2
<1>3. CASE Sync
  BY <1>3 DEF Sync, threadVars, stopVars, clientVars
<1>4. CASE Answer
  BY <1>4 DEF Answer, fileVars, threadVars, stopVars, clientVars
<1>5. CASE SetAlways
  BY <1>5 DEF SetAlways, fileVars, threadVars, stopVars, clientVars
<1>6. CASE SetEverysec
  BY <1>6 DEF SetEverysec, fileVars, clientVars
<1>7. CASE Compact
  BY <1>7 DEF Compact, threadVars, stopVars, clientVars
<1>8. CASE CompactClose
  BY <1>8, <1>e DEF CompactClose, threadVars, stopVars, clientVars
<1>9. CASE CompactOpen
  BY <1>9 DEF CompactOpen, threadVars, stopVars, clientVars
<1>10. CASE ThreadTest
  BY <1>10 DEF ThreadTest, NextRound, fileVars, stopVars, clientVars
<1>11. CASE ThreadFlush
  <2>1. CASE closed
    BY <1>11, <2>1 DEF ThreadFlush, stopVars, clientVars
  <2>2. CASE ~closed
    <3>1. /\ FlushAof
          /\ UNCHANGED <<mode, busy, changes, aof, name, answered, promised, closed, stopping>>
      BY <1>11, <2>2 DEF ThreadFlush, stopVars, clientVars
    <3>2. FileInv'
      BY <1>e, <1>f, <3>1, <1>11, <2>2 DEF ThreadFlush
    <3>3. CountInv' /\ AlwaysSurvivesKill' /\ ShutdownKeepsAll'
      BY <1>g, <3>1
    <3>. QED
      BY <3>2, <3>3
  <2>. QED
    BY <2>1, <2>2
<1>12. CASE ThreadFileno
  BY <1>12 DEF ThreadFileno, fileVars, stopVars, clientVars
<1>13. CASE ThreadFsync
  BY <1>13 DEF ThreadFsync, NextRound, stopVars, clientVars
<1>14. CASE Signal
  BY <1>14 DEF Signal, fileVars, threadVars, clientVars
<1>15. CASE StopTest
  BY <1>15 DEF StopTest, fileVars, threadVars, clientVars
<1>16. CASE StopFlush
  <2>1. CASE closed
    BY <1>16, <2>1 DEF StopFlush, threadVars, clientVars
  <2>2. CASE ~closed
    <3>1. /\ FlushAof
          /\ UNCHANGED <<mode, busy, changes, aof, name, answered, promised, closed>>
      BY <1>16, <2>2 DEF StopFlush, threadVars, clientVars
    <3>2. FileInv'
      BY <1>e, <1>f, <3>1, <1>16, <2>2 DEF StopFlush
    <3>3. CountInv' /\ AlwaysSurvivesKill' /\ ShutdownKeepsAll'
      BY <1>g, <3>1
    <3>. QED
      BY <3>2, <3>3
  <2>. QED
    BY <2>1, <2>2
<1>17. CASE StopClose
  <2>1. CASE closed
    BY <1>17, <2>1 DEF StopClose, threadVars, clientVars
  <2>2. CASE ~closed
    <3>1. /\ FlushAof
          /\ UNCHANGED <<mode, busy, changes, aof, name, answered, promised>>
      BY <1>17, <2>2 DEF StopClose, threadVars, clientVars
    <3>2. FileInv'
      BY <1>e, <1>f, <3>1, <1>17, <2>2 DEF StopClose
    <3>3. CountInv' /\ AlwaysSurvivesKill' /\ ShutdownKeepsAll'
      BY <1>g, <3>1
    <3>. QED
      BY <3>2, <3>3
  <2>. QED
    BY <2>1, <2>2
<1>18. ASSUME NEW f \in Files, WriteBack(f) PROVE SafeInv'
  BY <1>18 DEF WriteBack, threadVars, stopVars, clientVars
<1>19. CASE UNCHANGED vars
  BY <1>19 DEF vars, fileVars, threadVars, stopVars, clientVars
<1>. QED
  BY <1>1, <1>2, <1>3, <1>4, <1>5, <1>6, <1>7, <1>8, <1>9, <1>10, <1>11,
     <1>12, <1>13, <1>14, <1>15, <1>16, <1>17, <1>18, <1>19
  DEF Next, Command, Background, Shutdown

LEMMA SafeAlways == Spec => []SafeInv
<1>1. Init => SafeInv
  BY AofSyncAssumption
  DEF Init, Files, SafeInv, FileInv, CountInv, Swapping, AlwaysSurvivesKill, ShutdownKeepsAll
<1>. QED
  BY <1>1, AofSyncTypeCorrect, SafeStep, PTL DEF Spec

(***************************************************************************)
(* "Every single write command is immediately flushed": what was answered  *)
(* under always is in the file that recovery will read.                    *)
(***************************************************************************)
THEOREM AlwaysIsKept == Spec => []AlwaysSurvivesKill
<1>1. SafeInv => AlwaysSurvivesKill
  BY DEF SafeInv
<1>. QED
  BY <1>1, SafeAlways, PTL

(***************************************************************************)
(* "No data lost": whatever COMPACT and the background thread are doing    *)
(* when the signal comes, a finished shutdown has all that was answered.   *)
(***************************************************************************)
THEOREM ShutdownIsClean == Spec => []ShutdownKeepsAll
<1>1. SafeInv => ShutdownKeepsAll
  BY DEF SafeInv
<1>. QED
  BY <1>1, SafeAlways, PTL

-----------------------------------------------------------------------------
(***************************************************************************)
(* What is chosen from a sequence.                                         *)
(***************************************************************************)
ChooseStep(t, e, S) == IF e \in S THEN Append(t, e) ELSE t

Choice == INSTANCE FoldTheorems WITH Op <- ChooseStep

\* The results of choosing, one element after the other.
ChosenBy(f, s, S, len) ==
  /\ f[0] = <<>>
  /\ \A n \in 1..len : f[n] = IF s[n] \in S THEN Append(f[n - 1], s[n]) ELSE f[n - 1]
  /\ Chosen(s, S) = f[len]

LEMMA ChosenSteps ==
  ASSUME NEW s, NEW S, NEW len \in Nat, DOMAIN s = 1..len
  PROVE  \E f : ChosenBy(f, s, S, len)
<1>. DEFINE it == CHOOSE it : Choice!IsFold(it, <<>>, s, S, len)
<1>1. Choice!IsFold(it, <<>>, s, S, len)
  BY Choice!FoldExists
<1>2. Chosen(s, S) = it[1..len]
  BY DEF Chosen, FoldLeft, MapThenFoldSet, Max, Choice!IsFold, Choice!Step, Choice!Max,
         ChooseStep
<1>. HIDE DEF it
<1>3. PICK f : Choice!AreResults(f, <<>>, s, S, len) /\ f[len] = it[1..len]
  BY <1>1, Choice!FoldSteps
<1>. QED
  BY <1>2, <1>3 DEF Choice!AreResults, ChooseStep, ChosenBy

\* No element stands twice.
Once(u) == \A i, j \in DOMAIN u : u[i] = u[j] => i = j

\* The elements up to the n-th that are chosen.
Part(s, S, n) == {s[i] : i \in 1..n} \intersect S

LEMMA ChosenIn ==
  ASSUME NEW T, NEW s \in Seq(T), NEW S
  PROVE  /\ Chosen(s, S) \in Seq(T)
         /\ Range(Chosen(s, S)) = Range(s) \intersect S
         /\ Once(s) => Once(Chosen(s, S))
<1>. DEFINE len == Len(s)
<1>1. len \in Nat /\ DOMAIN s = 1..len /\ \A n \in 1..len : s[n] \in T
  OBVIOUS
<1>. HIDE DEF len
<1>2. PICK f : /\ f[0] = <<>>
               /\ \A n \in 1..len : f[n] = IF s[n] \in S THEN Append(f[n - 1], s[n]) ELSE f[n - 1]
               /\ Chosen(s, S) = f[len]
  <2>1. \E f : ChosenBy(f, s, S, len)
    BY <1>1, ChosenSteps
  <2>. QED
    BY <2>1 DEF ChosenBy
<1>. DEFINE Good(u, n) == u \in Seq(T) /\ Range(u) = Part(s, S, n) /\ (Once(s) => Once(u))
            G == {n \in 0..len : Good(f[n], n)}
<1>3. 0 \in G
  <2>1. Part(s, S, 0) = {}
    BY DEF Part
  <2>2. <<>> \in Seq(T) /\ Range(<<>>) = {} /\ Once(<<>>)
    BY DEF Range, Once
  <2>3. Good(<<>>, 0)
    BY <2>1, <2>2, Zenon
  <2>4. 0 \in 0..len
    BY <1>1
  <2>. HIDE DEF Good
  <2>. QED
    BY <1>2, <2>3, <2>4
<1>4. ASSUME NEW n \in 1..len, n - 1 \in G PROVE n \in G
  <2>. DEFINE t == f[n - 1]
              u == f[n]
  <2>1. /\ t \in Seq(T) /\ Range(t) = Part(s, S, n - 1) /\ (Once(s) => Once(t))
        /\ u = IF s[n] \in S THEN Append(t, s[n]) ELSE t
        /\ s[n] \in T /\ n \in Nat /\ n \in 0..len
    BY <1>1, <1>2, <1>4
  <2>. HIDE DEF t, u
  <2>2. \A i \in 1..n : i = n \/ i \in 1..(n - 1)
    OBVIOUS
  <2>3. CASE s[n] \notin S
    <3>1. Part(s, S, n) = Part(s, S, n - 1)
      BY <2>2, <2>3 DEF Part
    <3>. QED
      BY <2>1, <2>3, <3>1 DEF u
  <2>4. CASE s[n] \in S
    <3>1. Part(s, S, n) = Part(s, S, n - 1) \union {s[n]}
      <4>1. 1..n = (1..(n - 1)) \union {n}
        BY <2>1
      <4>. QED
        BY <2>4, <4>1 DEF Part
    <3>2. /\ u \in Seq(T) /\ DOMAIN t = 1..Len(t) /\ DOMAIN u = 1..(Len(t) + 1)
          /\ Len(t) \in Nat /\ u[Len(t) + 1] = s[n] /\ \A i \in 1..Len(t) : u[i] = t[i]
      BY <2>1, <2>4
    <3>3. Range(u) = Range(t) \union {s[n]}
      <4>1. 1..(Len(t) + 1) = (1..Len(t)) \union {Len(t) + 1}
        BY <3>2
      <4>. QED
        BY <3>2, <4>1 DEF Range
    <3>4. ASSUME Once(s) PROVE Once(u)
      <4>1. \A i \in 1..(n - 1) : s[i] # s[n]
        BY <1>1, <3>4 DEF Once
      <4>2. \A i \in 1..Len(t) : t[i] # s[n]
        <5>1. s[n] \notin Range(t)
          BY <2>1, <4>1 DEF Part
        <5>. QED
          BY <3>2, <5>1 DEF Range
      <4>3. ASSUME NEW i \in DOMAIN u, NEW j \in DOMAIN u, u[i] = u[j] PROVE i = j
        <5>1. i \in 1..Len(t) \/ i = Len(t) + 1
          BY <3>2
        <5>2. j \in 1..Len(t) \/ j = Len(t) + 1
          BY <3>2
        <5>3. CASE i \in 1..Len(t) /\ j \in 1..Len(t)
          <6>1. t[i] = t[j] /\ i \in DOMAIN t /\ j \in DOMAIN t
            BY <3>2, <4>3, <5>3
          <6>. QED
            BY <2>1, <3>4, <6>1 DEF Once
        <5>4. CASE i \in 1..Len(t) /\ j = Len(t) + 1
          BY <3>2, <4>2, <4>3, <5>4
        <5>5. CASE i = Len(t) + 1 /\ j \in 1..Len(t)
          BY <3>2, <4>2, <4>3, <5>5
        <5>. QED
          BY <5>1, <5>2, <5>3, <5>4, <5>5
      <4>. QED
        BY <4>3 DEF Once
    <3>. QED
      BY <2>1, <3>1, <3>2, <3>3, <3>4 DEF u
  <2>. QED
    BY <2>3, <2>4
<1>. HIDE DEF G
<1>5. len \in G
  <2>1. \A n \in 0..len : n \in G
    BY <1>1, <1>3, <1>4, Choice!UpTo
  <2>. QED
    BY <1>1, <2>1
<1>6. Good(Chosen(s, S), len)
  BY <1>2, <1>5 DEF G
<1>7. Part(s, S, len) = Range(s) \intersect S
  BY <1>1 DEF Part, Range
<1>. QED
  BY <1>6, <1>7

\* Joining is associative: the provers take an equation between sequences
\* apart, this operator they leave as it is.
Same(x, y) == x = y

LEMMA Joined ==
  ASSUME NEW T, NEW a \in Seq(T), NEW b \in Seq(T), NEW c \in Seq(T)
  PROVE  Same((a \o b) \o c, a \o (b \o c))
BY ConcatAssociative DEF Same

LEMMA ChosenConcat ==
  ASSUME NEW T, NEW s \in Seq(T), NEW t \in Seq(T), NEW S
  PROVE  Chosen(s \o t, S) = Chosen(s, S) \o Chosen(t, S)
<1>. DEFINE m == Len(s)
            p == Len(t)
            u == s \o t
<1>1. /\ m \in Nat /\ p \in Nat /\ m + p \in Nat
      /\ DOMAIN s = 1..m /\ DOMAIN t = 1..p /\ DOMAIN u = 1..(m + p)
  OBVIOUS
<1>2. /\ \A n \in 1..m : u[n] = s[n]
      /\ \A n \in 1..p : u[m + n] = t[n] /\ t[n] \in T
  OBVIOUS
<1>. HIDE DEF m, p, u
<1>3. PICK f : /\ f[0] = <<>>
               /\ \A n \in 1..(m + p) : f[n] = IF u[n] \in S THEN Append(f[n - 1], u[n]) ELSE f[n - 1]
               /\ Chosen(u, S) = f[m + p]
  <2>1. \E f : ChosenBy(f, u, S, m + p)
    BY <1>1, ChosenSteps
  <2>. QED
    BY <2>1 DEF ChosenBy
<1>4. PICK g : /\ g[0] = <<>>
               /\ \A n \in 1..m : g[n] = IF s[n] \in S THEN Append(g[n - 1], s[n]) ELSE g[n - 1]
               /\ Chosen(s, S) = g[m]
  <2>1. \E g : ChosenBy(g, s, S, m)
    BY <1>1, ChosenSteps
  <2>. QED
    BY <2>1 DEF ChosenBy
<1>5. PICK h : /\ h[0] = <<>>
               /\ \A n \in 1..p : h[n] = IF t[n] \in S THEN Append(h[n - 1], t[n]) ELSE h[n - 1]
               /\ Chosen(t, S) = h[p]
  <2>1. \E h : ChosenBy(h, t, S, p)
    BY <1>1, ChosenSteps
  <2>. QED
    BY <2>1 DEF ChosenBy
<1>6. f[m] = Chosen(s, S) /\ f[m] \in Seq(T)
  <2>. DEFINE G == {n \in 0..m : f[n] = g[n]}
  <2>1. 0 \in G
    BY <1>1, <1>3, <1>4
  <2>2. ASSUME NEW n \in 1..m, n - 1 \in G PROVE n \in G
    <3>1. n \in 1..(m + p) /\ n \in 0..m /\ u[n] = s[n] /\ f[n - 1] = g[n - 1]
      BY <1>1, <1>2, <2>2
    <3>. QED
      BY <1>3, <1>4, <3>1
  <2>. HIDE DEF G
  <2>3. m \in G
    <3>1. \A n \in 0..m : n \in G
      BY <1>1, <2>1, <2>2, Choice!UpTo
    <3>. QED
      BY <1>1, <3>1
  <2>. QED
    BY <1>4, <2>3, ChosenIn DEF G
<1>. DEFINE a == f[m]
            G == {n \in 0..p : h[n] \in Seq(T) /\ f[m + n] = a \o h[n]}
<1>7. 0 \in G
  <2>1. <<>> \in Seq(T) /\ a \o <<>> = a
    BY <1>6, ConcatEmptySeq
  <2>2. m + 0 = m /\ 0 \in 0..p
    BY <1>1
  <2>. QED
    BY <1>5, <2>1, <2>2
<1>8. ASSUME NEW n \in 1..p, n - 1 \in G PROVE n \in G
  <2>. DEFINE b == h[n - 1]
              e == t[n]
  <2>1. b \in Seq(T) /\ f[m + (n - 1)] = a \o b /\ e \in T /\ n \in 0..p
    <3>1. b \in Seq(T) /\ f[m + (n - 1)] = a \o b
      BY <1>8
    <3>2. n \in 0..p /\ e \in T
      BY <1>1, <1>2
    <3>. QED
      BY <3>1, <3>2
  <2>2. m + n \in 1..(m + p) /\ (m + n) - 1 = m + (n - 1) /\ u[m + n] = e
    BY <1>1, <1>2
  <2>3. /\ f[m + n] = IF e \in S THEN Append(a \o b, e) ELSE a \o b
        /\ h[n] = IF e \in S THEN Append(b, e) ELSE b
    BY <1>3, <1>5, <2>1, <2>2
  <2>. HIDE DEF a, b, e
  <2>4. Append(b, e) \in Seq(T) /\ Append(a \o b, e) = a \o Append(b, e)
    <3>1. a \in Seq(T) /\ a \o b \in Seq(T) /\ <<e>> \in Seq(T)
      BY <1>6, <2>1 DEF a
    <3>2. Append(b, e) = b \o <<e>> /\ Append(a \o b, e) = (a \o b) \o <<e>>
      BY <2>1, <3>1, AppendIsConcat
    <3>3. (a \o b) \o <<e>> = a \o (b \o <<e>>)
      <4>1. Same((a \o b) \o <<e>>, a \o (b \o <<e>>))
        BY <2>1, <3>1, Joined
      <4>. QED
        BY <4>1 DEF Same
    <3>4. Append(b, e) \in Seq(T)
      BY <2>1
    <3>. QED
      BY <3>2, <3>3, <3>4
  <2>. QED
    BY <2>1, <2>3, <2>4
<1>. HIDE DEF G, a
<1>9. p \in G
  <2>1. \A n \in 0..p : n \in G
    BY <1>1, <1>7, <1>8, Choice!UpTo
  <2>. QED
    BY <1>1, <2>1
<1>. QED
  BY <1>3, <1>5, <1>6, <1>9 DEF G, a, u

\* Nothing is chosen, or one element.
LEMMA ChosenNone ==
  ASSUME NEW T, NEW s \in Seq(T), NEW S, Range(s) \intersect S = {}
  PROVE  Chosen(s, S) = <<>>
<1>1. Chosen(s, S) \in Seq(T) /\ Range(Chosen(s, S)) = {}
  BY ChosenIn
<1>. DEFINE u == Chosen(s, S)
<1>2. Len(u) \in Nat /\ \A i \in 1..Len(u) : u[i] \in Range(u)
  BY <1>1 DEF Range
<1>. HIDE DEF u
<1>3. Len(u) = 0
  BY <1>1, <1>2 DEF u
<1>. QED
  BY <1>1, <1>3 DEF u

LEMMA ChosenOne ==
  ASSUME NEW T, NEW e \in T, NEW S
  PROVE  Chosen(<<e>>, S) = IF e \in S THEN <<e>> ELSE <<>>
<1>. DEFINE s == <<e>>
            len == 1
<1>1. len \in Nat /\ DOMAIN s = 1..len /\ s[1] = e /\ 1 \in 1..len
  OBVIOUS
<1>2. Append(<<>>, e) = <<e>>
  OBVIOUS
<1>. HIDE DEF s, len
<1>3. PICK f : /\ f[0] = <<>>
               /\ \A n \in 1..len : f[n] = IF s[n] \in S THEN Append(f[n - 1], s[n]) ELSE f[n - 1]
               /\ Chosen(s, S) = f[len]
  <2>1. \E f : ChosenBy(f, s, S, len)
    BY <1>1, ChosenSteps
  <2>. QED
    BY <2>1 DEF ChosenBy
<1>4. 1 - 1 = 0
  OBVIOUS
<1>5. f[1] = IF e \in S THEN Append(f[0], e) ELSE f[0]
  BY <1>1, <1>3, <1>4
<1>. QED
  BY <1>2, <1>3, <1>5 DEF s, len

LEMMA ChosenAppend ==
  ASSUME NEW T, NEW s \in Seq(T), NEW e \in T, NEW S
  PROVE  Chosen(Append(s, e), S) = IF e \in S THEN Append(Chosen(s, S), e) ELSE Chosen(s, S)
<1>. DEFINE one == <<e>>
<1>1. Append(s, e) = s \o one /\ one \in Seq(T)
  BY AppendIsConcat
<1>2. Chosen(s \o one, S) = Chosen(s, S) \o Chosen(one, S)
  <2>. HIDE DEF one
  <2>. QED
    BY <1>1, ChosenConcat
<1>3. Chosen(<<e>>, S) = IF e \in S THEN <<e>> ELSE <<>>
  BY ChosenOne
<1>. DEFINE t == Chosen(s, S)
<1>4. t \in Seq(T)
  BY ChosenIn
<1>. HIDE DEF t
<1>5. Append(t, e) = t \o <<e>> /\ t \o <<>> = t
  BY <1>4, AppendIsConcat, ConcatEmptySeq
<1>. QED
  BY <1>1, <1>2, <1>3, <1>5 DEF t

LEMMA ChosenTail ==
  ASSUME NEW T, NEW s \in Seq(T), s # <<>>, NEW S
  PROVE  Chosen(s, S) = IF Head(s) \in S THEN <<Head(s)>> \o Chosen(Tail(s), S)
                        ELSE Chosen(Tail(s), S)
<1>. DEFINE e == Head(s)
            t == Tail(s)
            one == <<e>>
<1>1. e \in T /\ t \in Seq(T) /\ one \in Seq(T)
  BY HeadTailProperties
<1>2. s = one \o t
  OBVIOUS
<1>. HIDE DEF e, t
<1>3. Chosen(s, S) = Chosen(one, S) \o Chosen(t, S)
  <2>. HIDE DEF one
  <2>. QED
    BY <1>1, <1>2, ChosenConcat
<1>4. Chosen(<<e>>, S) = IF e \in S THEN <<e>> ELSE <<>>
  BY <1>1, ChosenOne
<1>5. <<>> \o Chosen(t, S) = Chosen(t, S)
  BY <1>1, ChosenIn, ConcatEmptySeq
<1>. QED
  BY <1>3, <1>4, <1>5 DEF e, t

-----------------------------------------------------------------------------
(***************************************************************************)
(* The queue of the loop: what a thread has handed over stands before its  *)
(* result, and it pushes at most one message to each subscriber.           *)
(***************************************************************************)
Calls == [to : Conns, what : {"write", "close", "result"}, unit : Nat]

ResultAt(q, i) == i \in DOMAIN q /\ q[i].what = "result"
WriteAt(q, i, s) == i \in DOMAIN q /\ q[i].what = "write" /\ q[i].to = s

Followed(q) == \A i \in DOMAIN q : \E j \in DOMAIN q : i <= j /\ ResultAt(q, j)
OneResult(q) ==
  \A i, j \in DOMAIN q : ResultAt(q, i) /\ ResultAt(q, j) /\ q[i].to = q[j].to => i = j
Apart(q) ==
  \A s \in Conns : \A i, j \in DOMAIN q :
    i < j /\ WriteAt(q, i, s) /\ WriteAt(q, j, s) => \E k \in DOMAIN q : i < k /\ k < j /\ ResultAt(q, k)
ResultsOf(q) == {q[i].to : i \in {j \in DOMAIN q : ResultAt(q, j)}}

Queue(q, R) == Followed(q) /\ OneResult(q) /\ Apart(q) /\ ResultsOf(q) = R

LEMMA TailIs ==
  ASSUME NEW T, NEW q \in Seq(T), q # <<>>
  PROVE  /\ Len(q) \in Nat /\ Len(q) >= 1 /\ DOMAIN q = 1..Len(q)
         /\ Head(q) = q[1] /\ q[1] \in T /\ Tail(q) \in Seq(T)
         /\ DOMAIN Tail(q) = 1..(Len(q) - 1) /\ Len(Tail(q)) = Len(q) - 1
         /\ \A i \in DOMAIN Tail(q) : i + 1 \in DOMAIN q /\ Tail(q)[i] = q[i + 1]
         /\ \A i \in DOMAIN q : i = 1 \/ (i - 1 \in DOMAIN Tail(q) /\ Tail(q)[i - 1] = q[i])
OBVIOUS

LEMMA QueueTail ==
  ASSUME NEW q \in Seq(Calls), q # <<>>, NEW R, Queue(q, R)
  PROVE  Queue(Tail(q), IF Head(q).what = "result" THEN R \ {Head(q).to} ELSE R)
<1>. DEFINE t == Tail(q)
            n == Len(q)
<1>1. /\ n \in Nat /\ n >= 1 /\ DOMAIN q = 1..n /\ Head(q) = q[1] /\ DOMAIN t = 1..(n - 1)
      /\ \A i \in DOMAIN t : i + 1 \in DOMAIN q /\ t[i] = q[i + 1] /\ i \in Nat
      /\ \A i \in DOMAIN q : i = 1 \/ (i - 1 \in DOMAIN t /\ t[i - 1] = q[i])
      /\ \A i \in DOMAIN q : i \in Nat /\ i >= 1
  BY TailIs
<1>. HIDE DEF t, n
<1>2. \A i \in DOMAIN t : ResultAt(t, i) <=> ResultAt(q, i + 1)
  BY <1>1 DEF ResultAt
<1>3. \A s \in Conns : \A i \in DOMAIN t : WriteAt(t, i, s) <=> WriteAt(q, i + 1, s)
  BY <1>1 DEF WriteAt
<1>4. Followed(t)
  <2>1. ASSUME NEW i \in DOMAIN t PROVE \E j \in DOMAIN t : i <= j /\ ResultAt(t, j)
    <3>1. i + 1 \in DOMAIN q /\ i \in Nat /\ i >= 1
      BY <1>1
    <3>2. PICK j \in DOMAIN q : i + 1 <= j /\ ResultAt(q, j)
      BY <3>1 DEF Queue, Followed
    <3>3. j \in Nat /\ j # 1 /\ j - 1 \in DOMAIN t /\ (j - 1) + 1 = j /\ i <= j - 1
      BY <1>1, <3>1, <3>2
    <3>4. ResultAt(t, j - 1)
      BY <1>2, <3>2, <3>3
    <3>. QED
      BY <3>3, <3>4
  <2>. QED
    BY <2>1 DEF Followed
<1>5. OneResult(t)
  <2>1. ASSUME NEW i \in DOMAIN t, NEW j \in DOMAIN t, ResultAt(t, i), ResultAt(t, j), t[i].to = t[j].to
        PROVE  i = j
    <3>1. /\ i + 1 \in DOMAIN q /\ j + 1 \in DOMAIN q /\ i \in Nat /\ j \in Nat
          /\ q[i + 1].to = q[j + 1].to
      BY <1>1, <2>1
    <3>2. i + 1 = j + 1
      BY <1>2, <2>1, <3>1 DEF Queue, OneResult
    <3>. QED
      BY <3>1, <3>2
  <2>. QED
    BY <2>1 DEF OneResult
<1>6. Apart(t)
  <2>1. ASSUME NEW s \in Conns, NEW i \in DOMAIN t, NEW j \in DOMAIN t, i < j,
               WriteAt(t, i, s), WriteAt(t, j, s)
        PROVE  \E k \in DOMAIN t : i < k /\ k < j /\ ResultAt(t, k)
    <3>1. i + 1 \in DOMAIN q /\ j + 1 \in DOMAIN q /\ i \in Nat /\ j \in Nat /\ i + 1 < j + 1 /\ i >= 1
      BY <1>1, <2>1
    <3>2. WriteAt(q, i + 1, s) /\ WriteAt(q, j + 1, s)
      BY <1>3, <2>1
    <3>3. PICK k \in DOMAIN q : i + 1 < k /\ k < j + 1 /\ ResultAt(q, k)
      BY <3>1, <3>2 DEF Queue, Apart
    <3>4. k \in Nat /\ k # 1 /\ k - 1 \in DOMAIN t /\ (k - 1) + 1 = k /\ i < k - 1 /\ k - 1 < j
      BY <1>1, <3>1, <3>3
    <3>5. ResultAt(t, k - 1)
      BY <1>2, <3>3, <3>4
    <3>. QED
      BY <3>4, <3>5
  <2>. QED
    BY <2>1 DEF Apart
<1>7. ResultsOf(t) = IF q[1].what = "result" THEN R \ {q[1].to} ELSE R
  <2>1. \A x \in ResultsOf(t) : x \in R /\ (q[1].what = "result" => x # q[1].to)
    <3>1. ASSUME NEW i \in DOMAIN t, ResultAt(t, i)
          PROVE  t[i].to \in R /\ (q[1].what = "result" => t[i].to # q[1].to)
      <4>1. i + 1 \in DOMAIN q /\ t[i] = q[i + 1] /\ ResultAt(q, i + 1) /\ i \in Nat /\ i >= 1 /\ 1 \in DOMAIN q
        BY <1>1, <1>2, <3>1
      <4>2. q[i + 1].to \in R
        BY <4>1 DEF Queue, ResultsOf
      <4>3. q[1].what = "result" /\ q[i + 1].to = q[1].to => i + 1 = 1
        BY <4>1 DEF Queue, OneResult, ResultAt
      <4>. QED
        BY <4>1, <4>2, <4>3
    <3>. QED
      BY <3>1 DEF ResultsOf
  <2>2. \A x \in R : x \in ResultsOf(t) \/ (q[1].what = "result" /\ x = q[1].to)
    <3>1. ASSUME NEW i \in DOMAIN q, ResultAt(q, i)
          PROVE  q[i].to \in ResultsOf(t) \/ (q[1].what = "result" /\ q[i].to = q[1].to)
      <4>1. CASE i = 1
        BY <3>1, <4>1 DEF ResultAt
      <4>2. CASE i # 1
        <5>1. i - 1 \in DOMAIN t /\ t[i - 1] = q[i]
          BY <1>1, <4>2
        <5>2. ResultAt(t, i - 1)
          BY <3>1, <5>1 DEF ResultAt
        <5>. QED
          BY <5>1, <5>2 DEF ResultsOf
      <4>. QED
        BY <4>1, <4>2
    <3>. QED
      BY <3>1 DEF Queue, ResultsOf
  <2>. QED
    BY <2>1, <2>2
<1>. QED
  BY <1>1, <1>4, <1>5, <1>6, <1>7 DEF Queue, t

LEMMA JoinIs ==
  ASSUME NEW T, NEW s \in Seq(T), NEW t \in Seq(T)
  PROVE  /\ Len(s) \in Nat /\ Len(t) \in Nat /\ s \o t \in Seq(T)
         /\ DOMAIN s = 1..Len(s) /\ DOMAIN t = 1..Len(t)
         /\ DOMAIN (s \o t) = 1..(Len(s) + Len(t)) /\ Len(s \o t) = Len(s) + Len(t)
         /\ \A i \in 1..Len(s) : (s \o t)[i] = s[i]
         /\ \A i \in 1..Len(t) : (s \o t)[Len(s) + i] = t[i]
OBVIOUS

\* What a thread hands over: calls to make, and then its one result.
Batch(v, c) ==
  /\ v \in Seq(Calls) /\ v # <<>>
  /\ \A i \in DOMAIN v : ResultAt(v, i) <=> i = Len(v)
  /\ v[Len(v)].to = c
  /\ \A s \in Conns : \A i, j \in DOMAIN v : WriteAt(v, i, s) /\ WriteAt(v, j, s) => i = j

LEMMA BatchIs ==
  ASSUME NEW w \in Seq(Calls), NEW c \in Conns,
         \A i \in DOMAIN w : w[i].what # "result",
         \A s \in Conns : \A i, j \in DOMAIN w : WriteAt(w, i, s) /\ WriteAt(w, j, s) => i = j
  PROVE  Batch(w \o <<Call(c, "result", ReplyUnit)>>, c)
<1>. DEFINE r == Call(c, "result", ReplyUnit)
            v == Append(w, r)
            n == Len(w)
<1>1. r \in Calls /\ r.what = "result" /\ r.to = c
  BY DEF Call, Calls, ReplyUnit
<1>2. w \o <<r>> = v
  BY <1>1, AppendIsConcat
<1>3. /\ n \in Nat /\ DOMAIN w = 1..n /\ DOMAIN v = 1..(n + 1) /\ Len(v) = n + 1
      /\ v \in Seq(Calls) /\ v # <<>> /\ v[n + 1] = r /\ \A i \in 1..n : v[i] = w[i]
  BY <1>1
<1>. HIDE DEF r, v, n
<1>4. \A i \in DOMAIN v : i = n + 1 \/ i \in 1..n
  BY <1>3
<1>5. \A i \in DOMAIN v : ResultAt(v, i) <=> i = Len(v)
  <2>1. ASSUME NEW i \in 1..n PROVE v[i].what # "result" /\ i # n + 1
    BY <1>3, <2>1
  <2>. QED
    BY <1>1, <1>3, <1>4, <2>1 DEF ResultAt
<1>6. ASSUME NEW s \in Conns, NEW i \in DOMAIN v, NEW j \in DOMAIN v, WriteAt(v, i, s), WriteAt(v, j, s)
      PROVE  i = j
  <2>1. i # n + 1 /\ j # n + 1
    BY <1>1, <1>3, <1>6 DEF WriteAt
  <2>2. i \in 1..n /\ j \in 1..n
    BY <1>4, <2>1
  <2>3. WriteAt(w, i, s) /\ WriteAt(w, j, s)
    BY <1>3, <1>6, <2>2 DEF WriteAt
  <2>. QED
    BY <1>3, <2>2, <2>3
<1>. QED
  BY <1>1, <1>2, <1>3, <1>5, <1>6 DEF Batch, r

LEMMA QueueGrows ==
  ASSUME NEW q \in Seq(Calls), NEW R, Queue(q, R), NEW c \in Conns \ R, NEW v, Batch(v, c)
  PROVE  Queue(q \o v, R \union {c})
<1>. DEFINE u == q \o v
            m == Len(q)
            n == Len(v)
<1>1. /\ m \in Nat /\ n \in Nat /\ n >= 1
      /\ DOMAIN q = 1..m /\ DOMAIN v = 1..n /\ DOMAIN u = 1..(m + n)
      /\ \A i \in 1..m : u[i] = q[i]
      /\ \A i \in 1..n : u[m + i] = v[i]
  <2>1. v \in Seq(Calls) /\ v # <<>>
    BY DEF Batch
  <2>2. n >= 1
    BY <2>1
  <2>. QED
    BY <2>1, <2>2, JoinIs
<1>2. /\ \A i \in 1..n : ResultAt(v, i) <=> i = n
      /\ v[n].to = c
      /\ \A s \in Conns : \A i, j \in 1..n : WriteAt(v, i, s) /\ WriteAt(v, j, s) => i = j
  BY <1>1 DEF Batch
<1>. HIDE DEF u, m, n
<1>3. \A i \in DOMAIN u : /\ i \in Nat
                          /\ i \in 1..m \/ (i > m /\ i - m \in 1..n /\ u[i] = v[i - m])
  <2>1. ASSUME NEW i \in DOMAIN u, i \notin 1..m PROVE i > m /\ i - m \in 1..n /\ u[i] = v[i - m]
    <3>1. i > m /\ i - m \in 1..n /\ m + (i - m) = i
      BY <1>1, <2>1
    <3>. QED
      BY <1>1, <3>1
  <2>. QED
    BY <1>1, <2>1
<1>4. /\ \A i \in 1..m : i \in DOMAIN u /\ i \in DOMAIN q /\ u[i] = q[i]
      /\ m + n \in DOMAIN u /\ u[m + n] = v[n] /\ m + n > m /\ n \in 1..n
  BY <1>1
<1>5. /\ \A i \in 1..m : ResultAt(u, i) <=> ResultAt(q, i)
      /\ \A i \in DOMAIN u : i \notin 1..m => (ResultAt(u, i) <=> i = m + n)
  <2>1. ASSUME NEW i \in DOMAIN u, i \notin 1..m PROVE ResultAt(u, i) <=> i = m + n
    <3>1. i - m \in 1..n /\ u[i] = v[i - m] /\ (i - m = n <=> i = m + n)
      BY <1>1, <1>3, <2>1
    <3>2. ResultAt(u, i) <=> ResultAt(v, i - m)
      BY <1>1, <3>1 DEF ResultAt
    <3>. QED
      BY <1>2, <3>1, <3>2
  <2>. QED
    BY <1>4, <2>1 DEF ResultAt
<1>6. ResultAt(u, m + n) /\ u[m + n].to = c
  BY <1>2, <1>4 DEF ResultAt
<1>7. \A i \in 1..m : ResultAt(u, i) => u[i].to \in R
  BY <1>4, <1>5 DEF Queue, ResultsOf
<1>8. Followed(u)
  <2>1. ASSUME NEW i \in DOMAIN u PROVE \E j \in DOMAIN u : i <= j /\ ResultAt(u, j)
    <3>1. i <= m + n
      BY <1>1
    <3>. QED
      BY <1>4, <1>6, <3>1
  <2>. QED
    BY <2>1 DEF Followed
<1>9. OneResult(u)
  <2>1. ASSUME NEW i \in DOMAIN u, NEW j \in DOMAIN u, ResultAt(u, i), ResultAt(u, j), u[i].to = u[j].to
        PROVE  i = j
    <3>1. CASE i \in 1..m /\ j \in 1..m
      BY <1>4, <1>5, <2>1, <3>1 DEF Queue, OneResult
    <3>2. CASE i \notin 1..m /\ j \notin 1..m
      BY <1>5, <2>1, <3>2
    <3>3. CASE i \in 1..m /\ j \notin 1..m
      BY <1>5, <1>6, <1>7, <2>1, <3>3
    <3>4. CASE i \notin 1..m /\ j \in 1..m
      BY <1>5, <1>6, <1>7, <2>1, <3>4
    <3>. QED
      BY <3>1, <3>2, <3>3, <3>4
  <2>. QED
    BY <2>1 DEF OneResult
<1>10. Apart(u)
  <2>1. ASSUME NEW s \in Conns, NEW i \in DOMAIN u, NEW j \in DOMAIN u, i < j,
               WriteAt(u, i, s), WriteAt(u, j, s)
        PROVE  \E k \in DOMAIN u : i < k /\ k < j /\ ResultAt(u, k)
    <3>1. CASE i \in 1..m /\ j \in 1..m
      <4>1. WriteAt(q, i, s) /\ WriteAt(q, j, s) /\ i \in DOMAIN q /\ j \in DOMAIN q
        BY <1>4, <2>1, <3>1 DEF WriteAt
      <4>2. PICK k \in DOMAIN q : i < k /\ k < j /\ ResultAt(q, k)
        BY <2>1, <4>1 DEF Queue, Apart
      <4>. QED
        BY <1>1, <1>4, <1>5, <4>2
    <3>2. CASE i \in 1..m /\ j \notin 1..m
      <4>1. i \in DOMAIN q /\ u[i] = q[i] /\ i \in Nat
        BY <1>3, <1>4, <3>2
      <4>2. PICK k \in DOMAIN q : i <= k /\ ResultAt(q, k)
        BY <4>1 DEF Queue, Followed
      <4>3. k # i
        BY <2>1, <4>1, <4>2 DEF ResultAt, WriteAt
      <4>4. k \in 1..m /\ k \in DOMAIN u /\ k \in Nat /\ i < k /\ k < j
        BY <1>1, <1>3, <1>4, <3>2, <4>1, <4>2, <4>3
      <4>. QED
        BY <1>5, <4>2, <4>4
    <3>3. CASE i \notin 1..m
      <4>1. /\ i - m \in 1..n /\ u[i] = v[i - m] /\ i > m
        BY <1>3, <3>3
      <4>2. j \notin 1..m
        BY <1>1, <1>3, <2>1, <4>1
      <4>3. j - m \in 1..n /\ u[j] = v[j - m]
        BY <1>3, <4>2
      <4>4. WriteAt(v, i - m, s) /\ WriteAt(v, j - m, s)
        BY <1>1, <2>1, <4>1, <4>3 DEF WriteAt
      <4>5. i - m = j - m
        BY <1>2, <4>1, <4>3, <4>4
      <4>. QED
        BY <1>1, <1>3, <2>1, <4>5
    <3>. QED
      BY <3>1, <3>2, <3>3
  <2>. QED
    BY <2>1 DEF Apart
<1>11. ResultsOf(u) = R \union {c}
  <2>1. ASSUME NEW x \in ResultsOf(u) PROVE x \in R \union {c}
    <3>1. PICK i \in DOMAIN u : ResultAt(u, i) /\ x = u[i].to
      BY DEF ResultsOf
    <3>. QED
      BY <1>5, <1>6, <1>7, <3>1
  <2>2. ASSUME NEW x \in R PROVE x \in ResultsOf(u)
    <3>1. PICK i \in DOMAIN q : ResultAt(q, i) /\ x = q[i].to
      BY DEF Queue, ResultsOf
    <3>2. i \in DOMAIN u /\ ResultAt(u, i) /\ x = u[i].to
      BY <1>1, <1>4, <1>5, <3>1
    <3>. QED
      BY <3>2 DEF ResultsOf
  <2>3. c \in ResultsOf(u)
    BY <1>4, <1>6 DEF ResultsOf
  <2>. QED
    BY <2>1, <2>2, <2>3
<1>. QED
  BY <1>8, <1>9, <1>10, <1>11 DEF Queue, u

\* The messages that the queue holds for s.
WritesFor(q, s) == {i \in DOMAIN q : WriteAt(q, i, s)}

\* There are no more of them than commands that have yet to be answered: each
\* is of another command, whose result is the next one behind it.
LEMMA FewWrites ==
  ASSUME NEW q \in Seq(Calls), NEW R, IsFiniteSet(R), Queue(q, R), NEW s \in Conns
  PROVE  IsFiniteSet(WritesFor(q, s)) /\ Cardinality(WritesFor(q, s)) <= Cardinality(R)
<1>. DEFINE W == WritesFor(q, s)
            Behind(i) == {j \in DOMAIN q : i <= j /\ ResultAt(q, j)}
            Next1(i) == CHOOSE j \in Behind(i) : \A k \in Behind(i) : j <= k
            f == [i \in W |-> q[Next1(i)].to]
<1>1. DOMAIN q \in SUBSET Nat /\ \A i \in W : i \in DOMAIN q /\ i \in Nat /\ WriteAt(q, i, s)
  BY DEF WritesFor
<1>2. ASSUME NEW i \in W
      PROVE  /\ Next1(i) \in DOMAIN q /\ i < Next1(i) /\ ResultAt(q, Next1(i)) /\ Next1(i) \in Nat
             /\ \A k \in DOMAIN q : i <= k /\ ResultAt(q, k) => Next1(i) <= k
  <2>1. Behind(i) # {} /\ Behind(i) \in SUBSET Nat
    BY <1>1, <1>2 DEF Queue, Followed
  <2>2. \E j \in Behind(i) : \A k \in Behind(i) : j <= k
    <3>. HIDE DEF Behind
    <3>. QED
      BY <2>1, Choice!LeastNumber
  <2>3. Next1(i) \in Behind(i) /\ \A k \in Behind(i) : Next1(i) <= k
    BY <2>2
  <2>. HIDE DEF Next1
  <2>4. Next1(i) # i
    BY <1>1, <1>2, <2>3 DEF WriteAt, ResultAt
  <2>. QED
    BY <1>1, <1>2, <2>3, <2>4
<1>. HIDE DEF Next1, Behind, W
<1>3. \A i \in W : f[i] = q[Next1(i)].to /\ f[i] \in R
  BY <1>2 DEF Queue, ResultsOf
<1>4. ASSUME NEW i \in W, NEW j \in W, f[i] = f[j] PROVE ~(i < j)
  <2>1. Next1(i) = Next1(j)
    <3>1. q[Next1(i)].to = q[Next1(j)].to
      BY <1>3, <1>4
    <3>. QED
      BY <1>2, <3>1 DEF Queue, OneResult
  <2>2. ASSUME i < j PROVE FALSE
    <3>1. PICK k \in DOMAIN q : i < k /\ k < j /\ ResultAt(q, k)
      BY <1>1, <2>2 DEF Queue, Apart
    <3>2. k \in Nat /\ i \in Nat /\ j \in Nat
      BY <1>1
    <3>3. Next1(i) <= k /\ j < Next1(j)
      BY <1>2, <3>1, <3>2
    <3>4. Next1(j) \in Nat
      BY <1>2
    <3>. QED
      BY <2>1, <3>1, <3>2, <3>3, <3>4
  <2>. QED
    BY <2>2
<1>5. f \in Injection(W, R)
  <2>1. ASSUME NEW i \in W, NEW j \in W, f[i] = f[j] PROVE i = j
    BY <1>1, <1>4, <2>1
  <2>2. f \in [W -> R]
    BY <1>3
  <2>3. \A i, j \in DOMAIN f : f[i] = f[j] => i = j
    BY <2>1
  <2>. HIDE DEF f
  <2>. QED
    BY <2>2, <2>3 DEF Injection, IsInjective
<1>. HIDE DEF f
<1>. QED
  BY <1>5, FS_Injection DEF W

\* The loop takes one, or a call that is none of them.
LEMMA WritesTail ==
  ASSUME NEW q \in Seq(Calls), q # <<>>, NEW s \in Conns, IsFiniteSet(WritesFor(q, s))
  PROVE  /\ Cardinality(WritesFor(q, s)) \in Nat
         /\ Cardinality(WritesFor(Tail(q), s)) =
              Cardinality(WritesFor(q, s)) - (IF WriteAt(q, 1, s) THEN 1 ELSE 0)
<1>. DEFINE t == Tail(q)
            W == WritesFor(q, s)
            V == WritesFor(t, s)
            f == [i \in W \ {1} |-> i - 1]
<1>1. /\ 1 \in DOMAIN q
      /\ \A i \in DOMAIN t : i + 1 \in DOMAIN q /\ t[i] = q[i + 1] /\ i \in Nat
      /\ \A i \in DOMAIN q : i \in Nat /\ (i = 1 \/ (i - 1 \in DOMAIN t /\ t[i - 1] = q[i]))
      /\ \A i \in DOMAIN t : i # 0
  BY TailIs
<1>. HIDE DEF t
<1>2. \A i \in W \ {1} : i \in Nat /\ i - 1 \in V
  BY <1>1 DEF WritesFor, WriteAt
<1>3. \A i \in V : i \in Nat /\ i + 1 \in W \ {1} /\ (i + 1) - 1 = i
  BY <1>1 DEF WritesFor, WriteAt
<1>4. 1 \in W <=> WriteAt(q, 1, s)
  BY <1>1 DEF WritesFor
<1>. HIDE DEF W, V
<1>5. f \in Bijection(W \ {1}, V)
  <2>1. f \in [W \ {1} -> V] /\ DOMAIN f = W \ {1} /\ \A i \in W \ {1} : f[i] = i - 1
    BY <1>2
  <2>2. \A v \in V : f[v + 1] = v /\ v + 1 \in W \ {1}
    BY <1>3, <2>1
  <2>. HIDE DEF f
  <2>3. \A i, j \in DOMAIN f : f[i] = f[j] => i = j
    <3>1. ASSUME NEW i \in W \ {1}, NEW j \in W \ {1}, f[i] = f[j] PROVE i = j
      BY <1>2, <2>1, <3>1
    <3>. QED
      BY <2>1, <3>1
  <2>. QED
    BY <2>1, <2>2, <2>3 DEF Bijection, Injection, Surjection, IsInjective
<1>6. IsFiniteSet(W) /\ IsFiniteSet(W \ {1}) /\ Cardinality(W) \in Nat
      /\ Cardinality(W \ {1}) = Cardinality(W) - (IF 1 \in W THEN 1 ELSE 0)
  <2>1. IsFiniteSet(W)
    BY DEF W
  <2>2. IsFiniteSet(W \ {1})
        /\ Cardinality(W \ {1}) = IF 1 \in W THEN Cardinality(W) - 1 ELSE Cardinality(W)
    BY <2>1, FS_RemoveElement
  <2>3. Cardinality(W) \in Nat
    BY <2>1, FS_CardinalityType
  <2>. QED
    BY <2>1, <2>2, <2>3
<1>7. Cardinality(V) = Cardinality(W \ {1})
  <2>. HIDE DEF f
  <2>1. ExistsBijection(W \ {1}, V)
    BY <1>5 DEF ExistsBijection
  <2>. QED
    BY <1>6, <2>1, FS_Bijection
<1>. QED
  BY <1>4, <1>6, <1>7 DEF W, V, t

-----------------------------------------------------------------------------
(***************************************************************************)
(* The types, and the queue of the loop.  The commands that have handed    *)
(* over their calls are those whose result is in the queue.                *)
(***************************************************************************)
Doing ==
  {"reading", "subscribe", "publish", "returning", "replying", "draining", "ending", "over"}

Types ==
  /\ session \in [Conns -> Doing]
  /\ transport \in [Conns -> {"open", "closing", "lost"}]
  /\ unsent \in [Conns -> Seq(Nat)]
  /\ received \in [Conns -> Seq(Nat)]
  /\ channel \in Seq(Conns) /\ Once(channel)
  /\ calls \in Seq(Calls)
  /\ published \in 0..MaxMessages
  /\ since \in [Conns -> 0..NotYet]
  /\ counted \in [Conns -> SUBSET Conns]
  /\ latest \in [Conns -> 0..MaxMessages]

Returning == {c \in Conns : session[c] = "returning"}

QueueInv == Queue(calls, Returning)

\* A sequence of calls, one for each element of a sequence.
LEMMA CallsOf ==
  ASSUME NEW u \in Seq(Conns), NEW what \in {"write", "close"}, NEW unit \in Nat,
         NEW w, w = [i \in DOMAIN u |-> Call(u[i], what, unit)]
  PROVE  /\ w \in Seq(Calls) /\ DOMAIN w = DOMAIN u /\ Len(w) = Len(u)
         /\ \A i \in DOMAIN u : w[i] \in Calls /\ w[i].to = u[i] /\ w[i].what = what /\ w[i].unit = unit
<1>. DEFINE n == Len(u)
<1>1. n \in Nat /\ DOMAIN u = 1..n /\ \A i \in 1..n : u[i] \in Conns
  OBVIOUS
<1>2. DOMAIN w = 1..n /\ \A i \in 1..n : w[i] = Call(u[i], what, unit)
  BY <1>1
<1>3. \A i \in 1..n : w[i] \in Calls /\ w[i].to = u[i] /\ w[i].what = what /\ w[i].unit = unit
  BY <1>1, <1>2 DEF Call, Calls
<1>4. w \in [1..n -> Calls]
  BY <1>1, <1>2, <1>3
<1>. HIDE DEF n
<1>5. w \in Seq(Calls) /\ Len(w) = n
  BY <1>1, <1>4
<1>. QED
  BY <1>1, <1>2, <1>3, <1>5 DEF n

\* Whom a PUBLISH reaches.
LEMMA ReachedIs ==
  ASSUME Types
  PROVE  /\ Reached \in Seq(Conns) /\ Once(Reached)
         /\ Range(Reached) = {s \in Range(channel) : Reachable(s)}
         /\ Range(Reached) \subseteq Conns /\ Range(channel) \subseteq Conns
<1>. DEFINE S == {s \in Conns : Reachable(s)}
<1>1. channel \in Seq(Conns) /\ Once(channel) /\ Range(channel) \subseteq Conns
  BY DEF Types, Range
<1>2. \A s \in Conns : s \in S <=> Reachable(s)
  OBVIOUS
<1>3. Reached = Chosen(channel, S)
  BY DEF Reached
<1>. HIDE DEF S
<1>4. Reached \in Seq(Conns) /\ Once(Reached) /\ Range(Reached) = Range(channel) \intersect S
  BY <1>1, <1>3, ChosenIn
<1>. QED
  BY <1>1, <1>2, <1>4

\* What a PUBLISH wants of the loop.
LEMMA Wanted ==
  ASSUME Types
  PROVE  LET w == Cutoffs \o Pushes
         IN  /\ w \in Seq(Calls)
             /\ \A i \in DOMAIN w : w[i].what # "result"
             /\ \A s \in Conns : \A i, j \in DOMAIN w : WriteAt(w, i, s) /\ WriteAt(w, j, s) => i = j
             /\ \A s \in Range(Reached) : \E i \in DOMAIN w : w[i] = Call(s, "write", published + 1)
             /\ \A s \in Conns : \A i \in DOMAIN w : WriteAt(w, i, s) =>
                  s \in Range(Reached) /\ w[i] = Call(s, "write", published + 1)
<1>. DEFINE cut == Chosen(channel, {s \in Conns : transport[s] = "open" /\ TooFar(s)})
            a == Cutoffs
            b == Pushes
            w == a \o b
            m == Len(a)
            n == Len(b)
<1>1. cut \in Seq(Conns) /\ Reached \in Seq(Conns) /\ Once(Reached)
  BY ChosenIn, ReachedIs DEF Types
<1>2. published + 1 \in Nat /\ ReplyUnit \in Nat
  BY PubSubAssumption DEF Types, ReplyUnit
<1>3. a \in Seq(Calls) /\ \A i \in DOMAIN a : a[i].what = "close"
  <2>1. a = [i \in DOMAIN cut |-> Call(cut[i], "close", ReplyUnit)]
    BY DEF Cutoffs
  <2>. HIDE DEF cut, a
  <2>. QED
    <3>1. cut \in Seq(Conns) /\ ReplyUnit \in Nat
      BY <1>1, <1>2
    <3>. QED
      BY ONLY <2>1, <3>1, CallsOf
<1>4. /\ b \in Seq(Calls) /\ DOMAIN b = DOMAIN Reached
      /\ \A i \in DOMAIN b : b[i] = Call(Reached[i], "write", published + 1) /\ b[i].to = Reached[i]
  <2>1. b = [i \in DOMAIN Reached |-> Call(Reached[i], "write", published + 1)]
    BY DEF Pushes
  <2>. HIDE DEF b
  <2>. QED
    BY <1>1, <1>2, <2>1, CallsOf
<1>. HIDE DEF cut, a, b
<1>5. /\ w \in Seq(Calls) /\ m \in Nat /\ n \in Nat
      /\ DOMAIN a = 1..m /\ DOMAIN b = 1..n /\ DOMAIN w = 1..(m + n)
      /\ \A i \in 1..m : w[i] = a[i]
      /\ \A i \in 1..n : w[m + i] = b[i]
  BY <1>3, <1>4, JoinIs
<1>. HIDE DEF w, m, n
<1>6. ASSUME NEW i \in DOMAIN w
      PROVE  \/ w[i].what = "close"
             \/ i \in Nat /\ i - m \in DOMAIN b /\ w[i] = b[i - m]
  <2>1. CASE i \in 1..m
    BY <1>3, <1>5, <2>1
  <2>2. CASE i \notin 1..m
    <3>1. i \in Nat /\ i - m \in 1..n /\ m + (i - m) = i
      BY <1>5, <1>6, <2>2
    <3>. QED
      BY <1>5, <3>1
  <2>. QED
    BY <2>1, <2>2
<1>7. \A i \in DOMAIN b : b[i].what = "write"
  BY <1>4 DEF Call
<1>8. \A i \in DOMAIN w : w[i].what # "result"
  BY <1>6, <1>7
<1>9. ASSUME NEW s \in Conns, NEW i \in DOMAIN w, WriteAt(w, i, s)
      PROVE  i \in Nat /\ i - m \in DOMAIN b /\ w[i] = b[i - m] /\ Reached[i - m] = s
  <2>1. i \in Nat /\ i - m \in DOMAIN b /\ w[i] = b[i - m]
    BY <1>6, <1>9 DEF WriteAt
  <2>. QED
    BY <1>4, <1>9, <2>1 DEF WriteAt
<1>10. ASSUME NEW s \in Conns, NEW i \in DOMAIN w, NEW j \in DOMAIN w, WriteAt(w, i, s), WriteAt(w, j, s)
       PROVE  i = j
  <2>1. i \in Nat /\ j \in Nat /\ i - m \in DOMAIN Reached /\ j - m \in DOMAIN Reached
        /\ Reached[i - m] = Reached[j - m]
    BY <1>4, <1>9, <1>10
  <2>2. i - m = j - m
    BY <1>1, <2>1 DEF Once
  <2>. QED
    BY <1>5, <2>1, <2>2
<1>11. ASSUME NEW s \in Conns, NEW i \in DOMAIN w, WriteAt(w, i, s)
       PROVE  s \in Range(Reached) /\ w[i] = Call(s, "write", published + 1)
  BY <1>4, <1>9, <1>11 DEF Range
<1>12. ASSUME NEW s \in Range(Reached) PROVE \E i \in DOMAIN w : w[i] = Call(s, "write", published + 1)
  <2>1. PICK i \in DOMAIN Reached : Reached[i] = s
    BY DEF Range
  <2>2. m + i \in DOMAIN w /\ w[m + i] = b[i]
    BY <1>4, <1>5, <2>1
  <2>. QED
    BY <1>4, <2>1, <2>2
<1>. QED
  BY <1>5, <1>8, <1>10, <1>11, <1>12 DEF w, a, b

\* A thread appends a batch to the queue, and only what it wanted is new.
LEMMA Handed ==
  ASSUME calls \in Seq(Calls), NEW c \in Conns, NEW w \in Seq(Calls), HandOver(c, w),
         \A i \in DOMAIN w : w[i].what # "result",
         \A s \in Conns : \A i, j \in DOMAIN w : WriteAt(w, i, s) /\ WriteAt(w, j, s) => i = j
  PROVE  LET v == w \o <<Call(c, "result", ReplyUnit)>>
         IN  Batch(v, c) /\ calls' = calls \o v
<1>. DEFINE r == <<Call(c, "result", ReplyUnit)>>
<1>1. r \in Seq(Calls)
  BY DEF Call, Calls, ReplyUnit
<1>2. calls' = (calls \o w) \o r
  BY DEF HandOver
<1>3. Batch(w \o r, c)
  BY BatchIs
<1>. HIDE DEF r
<1>4. calls' = calls \o (w \o r)
  BY <1>1, <1>2, ConcatAssociative
<1>. QED
  BY <1>3, <1>4 DEF r

LEMMA Steps ==
  ASSUME [PubSubNext]_pubSubVars
  PROVE  \/ UNCHANGED pubSubVars
         \/ RunCall
         \/ \E c \in Conns : Reply(c) \/ Drained(c) \/ GiveUp(c) \/ EndRun(c) \/ EndConnection(c)
         \/ \E c \in Conns : Receive(c) \/ Reset(c)
         \/ \E c \in Conns : Subscribe(c) \/ Publish(c)
         \/ \E c \in Conns : Ask(c, "subscribe") \/ Ask(c, "publish")
BY DEF PubSubNext, SessionStep

\* Taking the next call.
LEMMA NextCall ==
  ASSUME Types, QueueInv, RunCall
  PROVE  /\ calls # <<>> /\ Head(calls) = calls[1] /\ Head(calls) \in Calls /\ 1 \in DOMAIN calls
         /\ calls' = Tail(calls) /\ Tail(calls) \in Seq(Calls)
         /\ Head(calls).what = "result" => session[Head(calls).to] = "returning"
<1>1. calls # <<>> /\ calls \in Seq(Calls) /\ calls' = Tail(calls)
  BY DEF RunCall, Types
<1>2. Head(calls) = calls[1] /\ Head(calls) \in Calls /\ 1 \in DOMAIN calls /\ Tail(calls) \in Seq(Calls)
  BY <1>1, TailIs
<1>3. Head(calls).what = "result" => Head(calls).to \in Returning
  BY <1>2 DEF QueueInv, Queue, ResultsOf, ResultAt
<1>. QED
  BY <1>1, <1>2, <1>3 DEF Returning

LEMMA InitTypes == InitPubSub => Types /\ QueueInv
<1>. SUFFICES ASSUME InitPubSub PROVE Types /\ QueueInv
  OBVIOUS
<1>1. <<>> \in Seq(Conns) /\ <<>> \in Seq(Calls) /\ <<>> \in Seq(Nat) /\ Once(<<>>)
  BY DEF Once
<1>2. 0 \in 0..MaxMessages /\ NotYet \in 0..NotYet
  BY PubSubAssumption DEF NotYet
<1>3. Types
  BY <1>1, <1>2, Zenon DEF InitPubSub, Types, Doing
<1>4. Queue(<<>>, {})
  BY DEF Queue, Followed, OneResult, Apart, ResultsOf, ResultAt
<1>5. Returning = {}
  BY DEF InitPubSub, Returning
<1>. QED
  BY <1>3, <1>4, <1>5, Zenon DEF QueueInv, InitPubSub

\* The two steps that hand over calls.
LEMMA Handing ==
  ASSUME Types, QueueInv, NEW c \in Conns, Subscribe(c) \/ Publish(c)
  PROVE  \E v : Batch(v, c) /\ calls' = calls \o v
<1>1. CASE Subscribe(c)
  <2>1. <<>> \in Seq(Calls) /\ DOMAIN <<>> = {}
    OBVIOUS
  <2>2. HandOver(c, <<>>)
    BY <1>1 DEF Subscribe
  <2>3. calls \in Seq(Calls)
    BY DEF Types
  <2>. QED
    BY <2>1, <2>2, <2>3, Handed
<1>2. CASE Publish(c)
  <2>. DEFINE w == Cutoffs \o Pushes
  <2>1. HandOver(c, w) /\ calls \in Seq(Calls)
    BY <1>2 DEF Publish, Pushed, Types
  <2>2. /\ w \in Seq(Calls)
        /\ \A i \in DOMAIN w : w[i].what # "result"
        /\ \A s \in Conns : \A i, j \in DOMAIN w : WriteAt(w, i, s) /\ WriteAt(w, j, s) => i = j
    BY Wanted
  <2>. HIDE DEF w
  <2>3. Batch(w \o <<Call(c, "result", ReplyUnit)>>, c) /\ calls' = calls \o (w \o <<Call(c, "result", ReplyUnit)>>)
    BY <2>1, <2>2, Handed
  <2>. QED
    BY <2>3
<1>. QED
  BY <1>1, <1>2

LEMMA StepTypes ==
  ASSUME Types, QueueInv, [PubSubNext]_pubSubVars
  PROVE  Types'
<1>1. CASE UNCHANGED pubSubVars
  BY <1>1 DEF Types, pubSubVars, socketVars, channelVars
<1>2. CASE RunCall
  <2>1. Head(calls).to \in Conns /\ Head(calls).unit \in Nat /\ calls' \in Seq(Calls)
    BY <1>2, NextCall DEF Calls
  <2>2. session' \in [Conns -> Doing]
    BY <1>2, <2>1 DEF RunCall, Types, Doing
  <2>3. transport' \in [Conns -> {"open", "closing", "lost"}]
    BY <1>2, <2>1 DEF RunCall, Types, Close
  <2>4. unsent' \in [Conns -> Seq(Nat)]
    <3>1. Append(unsent[Head(calls).to], Head(calls).unit) \in Seq(Nat)
      BY <2>1 DEF Types
    <3>. QED
      BY <1>2, <3>1 DEF RunCall, Types
  <2>. QED
    BY <1>2, <2>1, <2>2, <2>3, <2>4 DEF RunCall, Types
<1>3. ASSUME NEW c \in Conns, Reply(c) \/ Drained(c) \/ GiveUp(c) \/ EndRun(c) \/ EndConnection(c)
      PROVE  Types'
  <2>1. UNCHANGED <<channel, calls, published, since, received>>
    BY <1>3 DEF Reply, Drained, GiveUp, EndRun, EndConnection, channelVars
  <2>2. session' \in [Conns -> Doing]
    BY <1>3 DEF Reply, Drained, GiveUp, EndRun, EndConnection, Types, Doing
  <2>3. transport' \in [Conns -> {"open", "closing", "lost"}]
    BY <1>3 DEF Reply, Drained, GiveUp, EndRun, EndConnection, Types, Close
  <2>4. unsent' \in [Conns -> Seq(Nat)]
    <3>1. Append(unsent[c], ReplyUnit) \in Seq(Nat) /\ <<>> \in Seq(Nat)
      BY DEF Types, ReplyUnit
    <3>. QED
      BY <1>3, <3>1 DEF Reply, Drained, GiveUp, EndRun, EndConnection, Types
  <2>5. counted' \in [Conns -> SUBSET Conns] /\ latest' \in [Conns -> 0..MaxMessages]
    <3>1. 0 \in 0..MaxMessages
      BY PubSubAssumption
    <3>2. CASE Reply(c)
      BY <3>1, <3>2 DEF Reply, Types
    <3>3. CASE ~Reply(c)
      <4>1. UNCHANGED <<counted, latest>>
        BY <1>3, <3>3 DEF Drained, GiveUp, EndRun, EndConnection, channelVars
      <4>. QED
        BY <4>1 DEF Types
    <3>. QED
      BY <3>2, <3>3
  <2>. QED
    BY <2>1, <2>2, <2>3, <2>4, <2>5 DEF Types
<1>4. ASSUME NEW c \in Conns, Receive(c) \/ Reset(c)
      PROVE  Types'
  <2>1. UNCHANGED <<session, channelVars>>
    BY <1>4 DEF Receive, Reset
  <2>2. transport' \in [Conns -> {"open", "closing", "lost"}]
    BY <1>4 DEF Receive, Reset, Types
  <2>3. unsent' \in [Conns -> Seq(Nat)] /\ received' \in [Conns -> Seq(Nat)]
    <3>1. CASE Receive(c)
      <4>1. unsent[c] \in Seq(Nat) /\ unsent[c] # <<>> /\ received[c] \in Seq(Nat)
        BY <3>1 DEF Receive, Types
      <4>2. Tail(unsent[c]) \in Seq(Nat) /\ Append(received[c], Head(unsent[c])) \in Seq(Nat)
        BY <4>1
      <4>. QED
        BY <3>1, <4>2 DEF Receive, Types
    <3>2. CASE Reset(c)
      BY <3>2 DEF Reset, Types
    <3>. QED
      BY <1>4, <3>1, <3>2
  <2>. QED
    BY <2>1, <2>2, <2>3 DEF Types, channelVars
<1>5. ASSUME NEW c \in Conns, Subscribe(c) \/ Publish(c)
      PROVE  Types'
  <2>1. UNCHANGED <<transport, unsent, received>> /\ session' = [session EXCEPT ![c] = "returning"]
    BY <1>5 DEF Subscribe, Publish
  <2>2. session' \in [Conns -> Doing]
    BY <2>1 DEF Types, Doing
  <2>3. calls' \in Seq(Calls)
    <3>1. PICK v : Batch(v, c) /\ calls' = calls \o v
      BY <1>5, Handing
    <3>2. v \in Seq(Calls)
      BY <3>1 DEF Batch
    <3>. QED
      BY <3>1, <3>2 DEF Types
  <2>4. channel' \in Seq(Conns) /\ Once(channel')
    <3>1. CASE Subscribe(c) /\ c \notin Range(channel)
      <4>1. channel' = Append(channel, c) /\ channel \in Seq(Conns)
        BY <3>1 DEF Subscribe, Types
      <4>2. \A i \in DOMAIN channel : channel[i] # c
        BY <3>1 DEF Range
      <4>3. /\ channel' \in Seq(Conns) /\ Len(channel) \in Nat
            /\ DOMAIN channel = 1..Len(channel) /\ DOMAIN channel' = 1..(Len(channel) + 1)
            /\ channel'[Len(channel) + 1] = c
            /\ \A i \in 1..Len(channel) : channel'[i] = channel[i]
        BY <4>1
      <4>4. \A i, j \in DOMAIN channel : channel[i] = channel[j] => i = j
        BY DEF Types, Once
      <4>5. ASSUME NEW i \in DOMAIN channel', NEW j \in DOMAIN channel', channel'[i] = channel'[j]
            PROVE  i = j
        <5>1. i \in 1..Len(channel) \/ i = Len(channel) + 1
          BY <4>3
        <5>2. j \in 1..Len(channel) \/ j = Len(channel) + 1
          BY <4>3
        <5>. QED
          BY <4>2, <4>3, <4>4, <4>5, <5>1, <5>2
      <4>. QED
        BY <4>3, <4>5 DEF Once
    <3>2. CASE Subscribe(c) /\ c \in Range(channel)
      BY <3>2 DEF Subscribe, Types
    <3>3. CASE Publish(c)
      <4>1. channel' = Chosen(channel, {s \in Conns : Reachable(s)})
        BY <3>3 DEF Publish
      <4>. QED
        BY <4>1, ChosenIn DEF Types
    <3>. QED
      BY <1>5, <3>1, <3>2, <3>3
  <2>5. published' \in 0..MaxMessages /\ published \in 0..NotYet
    BY <1>5, PubSubAssumption DEF Types, Subscribe, Publish, NotYet
  <2>6. since' \in [Conns -> 0..NotYet]
    BY <1>5, <2>5 DEF Types, Subscribe, Publish
  <2>7. counted' \in [Conns -> SUBSET Conns] /\ latest' \in [Conns -> 0..MaxMessages]
    <3>1. CASE Subscribe(c)
      BY <3>1 DEF Types, Subscribe
    <3>2. CASE Publish(c)
      <4>1. Range(Reached) \in SUBSET Conns
        BY ReachedIs
      <4>2. published + 1 \in 0..MaxMessages
        BY <3>2, PubSubAssumption DEF Types, Publish
      <4>. QED
        BY <3>2, <4>1, <4>2 DEF Types, Publish
    <3>. QED
      BY <1>5, <3>1, <3>2
  <2>. QED
    BY <2>1, <2>2, <2>3, <2>4, <2>5, <2>6, <2>7 DEF Types
<1>6. ASSUME NEW c \in Conns, Ask(c, "subscribe") \/ Ask(c, "publish")
      PROVE  Types'
  BY <1>6 DEF Types, Ask, Doing, channelVars
<1>. QED
  BY <1>1, <1>2, <1>3, <1>4, <1>5, <1>6, Steps

LEMMA StepQueue ==
  ASSUME Types, QueueInv, [PubSubNext]_pubSubVars
  PROVE  QueueInv'
<1>1. CASE UNCHANGED <<calls, Returning>>
  BY <1>1 DEF QueueInv
<1>2. CASE RunCall
  <2>1. Queue(calls', IF Head(calls).what = "result" THEN Returning \ {Head(calls).to} ELSE Returning)
    BY <1>2, NextCall, QueueTail DEF QueueInv, Types
  <2>2. CASE Head(calls).what = "result"
    <3>1. session' = [session EXCEPT ![Head(calls).to] = "replying"]
      BY <1>2, <2>2 DEF RunCall
    <3>2. Returning' = Returning \ {Head(calls).to}
      BY <3>1 DEF Returning, Types
    <3>. QED
      BY <2>1, <2>2, <3>2 DEF QueueInv
  <2>3. CASE Head(calls).what # "result"
    <3>1. session' = session
      BY <1>2, <2>3 DEF RunCall
    <3>. QED
      BY <2>1, <2>3, <3>1 DEF QueueInv, Returning
  <2>. QED
    BY <2>2, <2>3
<1>3. ASSUME NEW c \in Conns, Reply(c) \/ Drained(c) \/ GiveUp(c) \/ EndRun(c) \/ EndConnection(c)
      PROVE  UNCHANGED <<calls, Returning>>
  BY <1>3 DEF Reply, Drained, GiveUp, EndRun, EndConnection, Returning, Types, channelVars
<1>4. ASSUME NEW c \in Conns, Receive(c) \/ Reset(c) \/ Ask(c, "subscribe") \/ Ask(c, "publish")
      PROVE  UNCHANGED <<calls, Returning>>
  BY <1>4 DEF Receive, Reset, Ask, Returning, Types, channelVars
<1>5. ASSUME NEW c \in Conns, Subscribe(c) \/ Publish(c)
      PROVE  QueueInv'
  <2>1. PICK v : Batch(v, c) /\ calls' = calls \o v
    BY <1>5, Handing
  <2>2. Returning' = Returning \union {c} /\ c \notin Returning
    BY <1>5 DEF Subscribe, Publish, Returning, Types
  <2>3. Queue(calls \o v, Returning \union {c})
    BY <2>1, <2>2, QueueGrows DEF Types, QueueInv
  <2>. QED
    BY <2>1, <2>2, <2>3 DEF QueueInv
<1>6. UNCHANGED pubSubVars => UNCHANGED <<calls, Returning>>
  BY DEF pubSubVars, socketVars, channelVars, Returning
<1>. QED
  BY <1>1, <1>2, <1>3, <1>4, <1>5, <1>6, Steps

LEMMA TypesHold == PubSubSpec => [](Types /\ QueueInv)
<1>1. InitPubSub => Types /\ QueueInv
  BY InitTypes
<1>2. Types /\ QueueInv /\ [PubSubNext]_pubSubVars => (Types /\ QueueInv)'
  BY StepTypes, StepQueue
<1>. QED
  BY <1>1, <1>2, PTL DEF PubSubSpec

-----------------------------------------------------------------------------
(***************************************************************************)
(* What waits for a subscriber.  A command pushes to it only while it is   *)
(* within its limit, so that with what the loop has yet to write it is     *)
(* beyond the limit by no more than there are commands at work.            *)
(***************************************************************************)
Waiting(s) == Len(unsent[s]) + Cardinality(WritesFor(calls, s))

BoundInv ==
  \A s \in Conns :
    /\ transport[s] = "lost" => unsent[s] = <<>>
    /\ Waiting(s) <= BufferLimit + Cardinality(Conns) + (IF session[s] = "draining" THEN 1 ELSE 0)

LEMMA FewWaiting ==
  ASSUME Types, QueueInv, NEW s \in Conns
  PROVE  /\ IsFiniteSet(WritesFor(calls, s))
         /\ Cardinality(WritesFor(calls, s)) \in Nat /\ Cardinality(Conns) \in Nat
         /\ Cardinality(WritesFor(calls, s)) <= Cardinality(Conns)
         /\ unsent[s] \in Seq(Nat) /\ Len(unsent[s]) \in Nat
<1>1. Returning \subseteq Conns /\ IsFiniteSet(Conns)
  BY PubSubAssumption DEF Returning
<1>2. IsFiniteSet(Returning) /\ Cardinality(Returning) <= Cardinality(Conns)
  BY <1>1, FS_Subset
<1>3. IsFiniteSet(WritesFor(calls, s)) /\ Cardinality(WritesFor(calls, s)) <= Cardinality(Returning)
  BY <1>2, FewWrites DEF Types, QueueInv
<1>4. /\ Cardinality(WritesFor(calls, s)) \in Nat
      /\ Cardinality(Returning) \in Nat /\ Cardinality(Conns) \in Nat
  BY <1>1, <1>2, <1>3, FS_CardinalityType
<1>5. unsent[s] \in Seq(Nat) /\ Len(unsent[s]) \in Nat
  BY DEF Types
<1>. QED
  BY <1>2, <1>3, <1>4, <1>5

\* What is handed over for s, when it is not reached, and when it is.
LEMMA NotReached ==
  ASSUME Types, NEW c \in Conns, NEW s \in Conns,
         Subscribe(c) \/ (Publish(c) /\ s \notin Range(Reached))
  PROVE  WritesFor(calls', s) = WritesFor(calls, s)
<1>. DEFINE r == Call(c, "result", ReplyUnit)
<1>1. r \in Calls /\ r.what = "result" /\ <<r>> \in Seq(Calls)
  BY DEF Call, Calls, ReplyUnit
<1>2. PICK w \in Seq(Calls) : /\ calls' = (calls \o w) \o <<r>>
                              /\ \A i \in DOMAIN w : ~WriteAt(w, i, s)
  <2>1. CASE Subscribe(c)
    <3>1. <<>> \in Seq(Calls) /\ DOMAIN <<>> = {}
      OBVIOUS
    <3>. QED
      BY <2>1, <3>1 DEF Subscribe, HandOver
  <2>2. CASE Publish(c) /\ s \notin Range(Reached)
    <3>1. (Cutoffs \o Pushes) \in Seq(Calls)
      BY Wanted
    <3>2. \A i \in DOMAIN (Cutoffs \o Pushes) : ~WriteAt(Cutoffs \o Pushes, i, s)
      BY <2>2, Wanted
    <3>3. calls' = (calls \o (Cutoffs \o Pushes)) \o <<r>>
      BY <2>2 DEF Publish, Pushed, HandOver
    <3>. QED
      BY <3>1, <3>2, <3>3
  <2>. QED
    BY <2>1, <2>2
<1>. DEFINE q == calls
            u == q \o w
            m == Len(q)
            n == Len(w)
            one == <<r>>
            x == u \o one
<1>3. q \in Seq(Calls) /\ u \in Seq(Calls) /\ one \in Seq(Calls) /\ DOMAIN one = 1..1 /\ one[1] = r
  BY <1>1 DEF Types
<1>4. /\ m \in Nat /\ n \in Nat /\ DOMAIN q = 1..m /\ DOMAIN w = 1..n /\ DOMAIN u = 1..(m + n)
      /\ Len(u) = m + n
      /\ \A i \in 1..m : u[i] = q[i]
      /\ \A i \in 1..n : u[m + i] = w[i]
  BY <1>3, JoinIs
<1>5. /\ DOMAIN x = 1..(m + n + 1)
      /\ \A i \in 1..(m + n) : x[i] = u[i]
      /\ x[m + n + 1] = r
  <2>1. Len(one) = 1
    BY <1>3
  <2>. HIDE DEF u, one, m, n
  <2>2. /\ DOMAIN x = 1..(Len(u) + Len(one))
        /\ \A i \in 1..Len(u) : x[i] = u[i]
        /\ \A i \in 1..Len(one) : x[Len(u) + i] = one[i]
    BY <1>3, JoinIs
  <2>3. 1 \in 1..Len(one) /\ Len(u) + Len(one) = m + n + 1
    BY <1>4, <2>1
  <2>. QED
    BY <1>3, <1>4, <2>1, <2>2, <2>3
<1>. HIDE DEF q, u, m, n, one, x, r
<1>6. ASSUME NEW i \in DOMAIN x, WriteAt(x, i, s) PROVE i \in DOMAIN q /\ WriteAt(q, i, s)
  <2>1. i # m + n + 1
    BY <1>1, <1>5, <1>6 DEF WriteAt
  <2>2. i \in 1..(m + n) /\ x[i] = u[i]
    BY <1>4, <1>5, <2>1
  <2>3. CASE i \in 1..m
    BY <1>4, <1>6, <2>2, <2>3 DEF WriteAt
  <2>4. CASE i \notin 1..m
    <3>1. i - m \in 1..n /\ m + (i - m) = i
      BY <1>4, <2>2, <2>4
    <3>2. u[i] = w[i - m] /\ i - m \in DOMAIN w
      BY <1>4, <3>1
    <3>. QED
      BY <1>2, <1>6, <2>2, <3>2 DEF WriteAt
  <2>. QED
    BY <2>3, <2>4
<1>7. ASSUME NEW i \in DOMAIN q, WriteAt(q, i, s) PROVE i \in DOMAIN x /\ WriteAt(x, i, s)
  <2>1. i \in 1..(m + n) /\ i \in 1..(m + n + 1) /\ i \in 1..m
    BY <1>4
  <2>2. x[i] = q[i]
    BY <1>4, <1>5, <2>1
  <2>. QED
    BY <1>5, <1>7, <2>1, <2>2 DEF WriteAt
<1>8. WritesFor(x, s) = WritesFor(q, s)
  BY <1>6, <1>7 DEF WritesFor
<1>. QED
  BY <1>2, <1>8 DEF x, u, q, one

LEMMA InitBound == InitPubSub => BoundInv
<1>. SUFFICES ASSUME InitPubSub, NEW s \in Conns
              PROVE  /\ transport[s] = "lost" => unsent[s] = <<>>
                     /\ Waiting(s) <= BufferLimit + Cardinality(Conns)
                                        + (IF session[s] = "draining" THEN 1 ELSE 0)
  BY DEF BoundInv
<1>1. Types /\ QueueInv
  BY InitTypes
<1>2. unsent[s] = <<>> /\ Len(unsent[s]) = 0 /\ session[s] = "reading"
  BY DEF InitPubSub
<1>. QED
  BY <1>1, <1>2, FewWaiting, PubSubAssumption DEF Waiting

LEMMA StepBound ==
  ASSUME Types, QueueInv, BoundInv, [PubSubNext]_pubSubVars
  PROVE  BoundInv'
<1>. SUFFICES ASSUME NEW s \in Conns
              PROVE  /\ (transport[s] = "lost" => unsent[s] = <<>>)'
                     /\ Waiting(s)' <= BufferLimit + Cardinality(Conns)
                                         + (IF session'[s] = "draining" THEN 1 ELSE 0)
  BY DEF BoundInv
<1>0. Types' /\ QueueInv'
  BY StepTypes, StepQueue
<1>. DEFINE w  == Cardinality(WritesFor(calls, s))
            w1 == Cardinality(WritesFor(calls', s))
            k  == Cardinality(Conns)
            l  == Len(unsent[s])
            l1 == Len(unsent'[s])
            e  == IF session[s] = "draining" THEN 1 ELSE 0
            e1 == IF session'[s] = "draining" THEN 1 ELSE 0
            Good == (transport'[s] = "lost" => unsent'[s] = <<>>) /\ l1 + w1 <= BufferLimit + k + e1
<1>1. w \in Nat /\ k \in Nat /\ l \in Nat /\ w <= k /\ unsent[s] \in Seq(Nat)
  BY FewWaiting
<1>2. w1 \in Nat /\ l1 \in Nat /\ w1 <= k
  <2>1. calls' \in Seq(Calls) /\ Queue(calls', Returning') /\ Returning' \in SUBSET Conns
        /\ unsent'[s] \in Seq(Nat)
    BY <1>0 DEF Types, QueueInv, Returning
  <2>2. IsFiniteSet(Returning') /\ Cardinality(Returning') <= k
    BY <2>1, PubSubAssumption, FS_Subset
  <2>3. IsFiniteSet(WritesFor(calls', s)) /\ w1 <= Cardinality(Returning')
    <3>. HIDE DEF w1
    <3>1. IsFiniteSet(WritesFor(calls', s))
          /\ Cardinality(WritesFor(calls', s)) <= Cardinality(Returning')
      BY <2>1, <2>2, FewWrites
    <3>. QED
      BY <3>1 DEF w1
  <2>4. Cardinality(WritesFor(calls', s)) \in Nat /\ Cardinality(Returning') \in Nat
    BY <2>2, <2>3, FS_CardinalityType
  <2>5. l1 \in Nat
    BY <2>1
  <2>. HIDE DEF k, l1
  <2>. QED
    BY <1>1, <2>2, <2>3, <2>4, <2>5 DEF k
<1>3. (transport[s] = "lost" => unsent[s] = <<>>) /\ l + w <= BufferLimit + k + e
  BY DEF BoundInv, Waiting
<1>4. SUFFICES Good
  BY DEF Waiting
<1>. HIDE DEF w, w1, k, l, l1
<1>5. BufferLimit \in Nat /\ HighWater \in Nat /\ HighWater <= BufferLimit
      /\ e \in Nat /\ e1 \in Nat
  BY PubSubAssumption
<1>6. ASSUME UNCHANGED <<session[s], transport[s], unsent[s]>>, w1 = w PROVE Good
  BY <1>3, <1>6 DEF l, l1
<1>7. calls' = calls => w1 = w
  BY DEF w, w1
<1>8. CASE UNCHANGED pubSubVars
  BY <1>6, <1>7, <1>8 DEF pubSubVars, socketVars, channelVars
<1>9. CASE RunCall
  <2>. DEFINE h == Head(calls)
  <2>1. /\ calls \in Seq(Calls) /\ calls # <<>> /\ h = calls[1] /\ h \in Calls /\ 1 \in DOMAIN calls
        /\ calls' = Tail(calls) /\ (h.what = "result" => session[h.to] = "returning")
    BY <1>9, NextCall DEF Types
  <2>2. w1 = w - (IF WriteAt(calls, 1, s) THEN 1 ELSE 0)
    <3>1. IsFiniteSet(WritesFor(calls, s))
      BY FewWaiting
    <3>. QED
      BY <2>1, <3>1, WritesTail DEF w, w1
  <2>3. WriteAt(calls, 1, s) <=> h.what = "write" /\ h.to = s
    BY <2>1 DEF WriteAt
  <2>. HIDE DEF h
  <2>4. CASE h.what = "write"
    <3>1. UNCHANGED <<session, transport>>
          /\ unsent' = IF transport[h.to] = "lost" THEN unsent
                       ELSE [unsent EXCEPT ![h.to] = Append(@, h.unit)]
      BY <1>9, <2>4 DEF RunCall, h
    <3>2. CASE h.to = s /\ transport[s] # "lost"
      <4>1. unsent'[s] = Append(unsent[s], h.unit)
        BY <3>1, <3>2 DEF Types
      <4>2. l1 = l + 1
        BY <1>1, <4>1 DEF l, l1
      <4>3. w1 = w - 1
        BY <2>2, <2>3, <2>4, <3>2
      <4>. QED
        BY <1>1, <1>3, <1>5, <3>1, <3>2, <4>2, <4>3
    <3>3. CASE h.to = s /\ transport[s] = "lost"
      <4>1. l1 = l
        BY <3>1, <3>3 DEF l, l1
      <4>2. w1 = w - 1
        BY <2>2, <2>3, <2>4, <3>3
      <4>. QED
        BY <1>1, <1>3, <1>5, <3>1, <3>3, <4>1, <4>2
    <3>4. CASE h.to # s
      <4>1. w1 = w
        BY <1>1, <2>2, <2>3, <3>4
      <4>2. UNCHANGED <<session[s], transport[s], unsent[s]>>
        BY <3>1, <3>4
      <4>. QED
        BY <1>6, <4>1, <4>2
    <3>. QED
      BY <3>2, <3>3, <3>4
  <2>5. CASE h.what = "close"
    <3>1. Close(h.to) /\ UNCHANGED <<session, unsent>>
      BY <1>9, <2>5 DEF RunCall, h
    <3>2. w1 = w
      BY <1>1, <2>2, <2>3, <2>5
    <3>3. transport'[s] = "lost" => unsent[s] = <<>>
      BY <1>3, <3>1 DEF Close, Types
    <3>. QED
      BY <1>3, <3>1, <3>2, <3>3 DEF l, l1
  <2>6. CASE h.what = "result"
    <3>1. UNCHANGED <<transport, unsent>> /\ session' = [session EXCEPT ![h.to] = "replying"]
      BY <1>9, <2>6 DEF RunCall, h
    <3>2. w1 = w
      BY <1>1, <2>2, <2>3, <2>6
    <3>3. e1 = e
      BY <2>1, <2>6, <3>1 DEF Types
    <3>. QED
      BY <1>3, <3>1, <3>2, <3>3 DEF l, l1
  <2>. QED
    BY <2>1, <2>4, <2>5, <2>6 DEF Calls
<1>10. ASSUME NEW c \in Conns, Reply(c) \/ Drained(c) \/ GiveUp(c) \/ EndRun(c) \/ EndConnection(c)
       PROVE  Good
  <2>1. w1 = w
    BY <1>7, <1>10 DEF Reply, Drained, GiveUp, EndRun, EndConnection, channelVars
  <2>2. CASE c # s
    <3>1. UNCHANGED <<session[s], transport[s], unsent[s]>>
      BY <1>10, <2>2 DEF Reply, Drained, GiveUp, EndRun, EndConnection, Close, Types
    <3>. QED
      BY <1>6, <2>1, <3>1
  <2>3. CASE c = s /\ Reply(c)
    <3>1. e = 0 /\ e1 = 1 /\ transport' = transport
      BY <2>3 DEF Reply, Types
    <3>2. CASE transport[s] = "lost"
      <4>1. l1 = l /\ unsent' = unsent
        BY <2>3, <3>2 DEF Reply, l, l1
      <4>. QED
        BY <1>1, <1>3, <1>5, <2>1, <3>1, <4>1
    <3>3. CASE transport[s] # "lost"
      <4>1. unsent'[s] = Append(unsent[s], ReplyUnit)
        BY <2>3, <3>3 DEF Reply, Types
      <4>2. l1 = l + 1
        BY <1>1, <4>1 DEF l, l1, ReplyUnit
      <4>. QED
        BY <1>1, <1>3, <1>5, <2>1, <3>1, <3>3, <4>2
    <3>. QED
      BY <3>2, <3>3
  <2>4. CASE c = s /\ Drained(c)
    <3>1. l <= HighWater /\ l1 = l /\ transport' = transport /\ unsent' = unsent /\ transport[s] # "lost"
      BY <2>4 DEF Drained, l, l1
    <3>. QED
      BY <1>1, <1>5, <2>1, <3>1
  <2>5. CASE c = s /\ GiveUp(c)
    <3>1. unsent'[s] = <<>>
      BY <2>5 DEF GiveUp, Types
    <3>2. l1 = 0
      BY <3>1 DEF l1
    <3>. QED
      BY <1>1, <1>2, <1>5, <3>1, <3>2
  <2>6. CASE c = s /\ EndRun(c)
    <3>1. Close(s) /\ unsent' = unsent /\ session'[s] # "draining"
          /\ (session[s] = "draining" => transport[s] = "lost")
      BY <2>6 DEF EndRun, Types
    <3>2. transport'[s] = "lost" => unsent'[s] = <<>>
      BY <1>3, <3>1 DEF Close, Types
    <3>3. l1 = l /\ (session[s] = "draining" => l = 0)
      BY <1>3, <3>1 DEF l, l1
    <3>. QED
      BY <1>1, <1>3, <1>5, <2>1, <3>1, <3>2, <3>3
  <2>7. CASE c = s /\ EndConnection(c)
    <3>1. e = 0 /\ e1 = 0 /\ UNCHANGED <<transport, unsent>>
      BY <2>7 DEF EndConnection, Types
    <3>. QED
      BY <1>3, <2>1, <3>1 DEF l, l1
  <2>. QED
    BY <1>10, <2>2, <2>3, <2>4, <2>5, <2>6, <2>7
<1>11. ASSUME NEW c \in Conns, Receive(c) \/ Reset(c)
       PROVE  Good
  <2>1. w1 = w /\ session' = session
    BY <1>7, <1>11 DEF Receive, Reset, channelVars
  <2>2. CASE c # s
    <3>1. UNCHANGED <<session[s], transport[s], unsent[s]>>
      BY <1>11, <2>1, <2>2 DEF Receive, Reset, Types
    <3>. QED
      BY <1>6, <2>1, <3>1
  <2>3. CASE c = s /\ Receive(c)
    <3>1. /\ unsent[s] # <<>> /\ unsent'[s] = Tail(unsent[s])
          /\ transport'[s] = IF transport[s] = "closing" /\ l = 1 THEN "lost" ELSE transport[s]
      BY <2>3 DEF Receive, Types, l
    <3>2. l >= 1 /\ l1 = l - 1 /\ unsent'[s] \in Seq(Nat)
      BY <1>1, <3>1, TailIs DEF l, l1
    <3>4. l = 1 => unsent'[s] = <<>>
      BY <3>2 DEF l1
    <3>3. e1 = e
      BY <2>1
    <3>. QED
      BY <1>1, <1>3, <1>5, <2>1, <3>1, <3>2, <3>3, <3>4
  <2>4. CASE c = s /\ Reset(c)
    <3>1. unsent'[s] = <<>>
      BY <2>4 DEF Reset, Types
    <3>2. l1 = 0
      BY <3>1 DEF l1
    <3>. QED
      BY <1>1, <1>2, <1>5, <3>1, <3>2
  <2>. QED
    BY <1>11, <2>2, <2>3, <2>4
<1>12. ASSUME NEW c \in Conns, Subscribe(c) \/ Publish(c)
       PROVE  Good
  <2>1. UNCHANGED <<transport, unsent>> /\ l1 = l
    BY <1>12 DEF Subscribe, Publish, l, l1
  <2>2. e1 = e
    BY <1>12 DEF Subscribe, Publish, Types
  <2>3. CASE Publish(c) /\ s \in Range(Reached)
    <3>1. Reachable(s)
      BY <2>3, ReachedIs
    <3>2. l <= BufferLimit
      BY <1>1, <1>5, <3>1 DEF Reachable, TooFar, l
    <3>. QED
      BY <1>1, <1>2, <1>3, <1>5, <2>1, <2>2, <3>2
  <2>4. CASE ~(Publish(c) /\ s \in Range(Reached))
    <3>1. w1 = w
      BY <1>12, <2>4, NotReached DEF w, w1
    <3>. QED
      BY <1>3, <2>1, <2>2, <3>1
  <2>. QED
    BY <2>3, <2>4
<1>13. ASSUME NEW c \in Conns, Ask(c, "subscribe") \/ Ask(c, "publish")
       PROVE  Good
  <2>1. UNCHANGED <<transport, unsent, calls>> /\ l1 = l
    BY <1>13 DEF Ask, channelVars, l, l1
  <2>2. e1 = e
    BY <1>13 DEF Ask, Types
  <2>. QED
    BY <1>3, <1>7, <2>1, <2>2
<1>. QED
  BY <1>8, <1>9, <1>10, <1>11, <1>12, <1>13, Steps

\* For all connections and limits: no more waits for a subscriber than its
\* limit, a reply, and one message of each command at work when it reached it.
THEOREM SubscribersAreBounded == PubSubSpec => []BufferBounded
<1>1. InitPubSub => Types /\ QueueInv /\ BoundInv
  BY InitTypes, InitBound
<1>2. Types /\ QueueInv /\ BoundInv /\ [PubSubNext]_pubSubVars => (Types /\ QueueInv /\ BoundInv)'
  BY StepTypes, StepQueue, StepBound
<1>3. Types /\ QueueInv /\ BoundInv => BufferBounded
  <2>. SUFFICES ASSUME Types, QueueInv, BoundInv, NEW s \in Conns
                PROVE  Len(unsent[s]) <= BufferLimit + Cardinality(Conns) + 1
    BY DEF BufferBounded
  <2>1. Len(unsent[s]) + Cardinality(WritesFor(calls, s))
          <= BufferLimit + Cardinality(Conns) + (IF session[s] = "draining" THEN 1 ELSE 0)
    BY DEF BoundInv, Waiting
  <2>2. Cardinality(WritesFor(calls, s)) \in Nat /\ Cardinality(Conns) \in Nat /\ Len(unsent[s]) \in Nat
    BY FewWaiting
  <2>. QED
    BY <2>1, <2>2, PubSubAssumption
<1>. QED
  BY <1>1, <1>2, <1>3, PTL DEF PubSubSpec

-----------------------------------------------------------------------------
(***************************************************************************)
(* What a PUBLISH has counted.  Until its result is taken from the queue,  *)
(* each of its messages is ahead of it there or has been written.          *)
(***************************************************************************)
LEMMA RangeJoin ==
  ASSUME NEW T, NEW s \in Seq(T), NEW t \in Seq(T)
  PROVE  Range(s \o t) = Range(s) \union Range(t)
<1>. DEFINE m == Len(s)
            n == Len(t)
            u == s \o t
<1>1. /\ m \in Nat /\ n \in Nat /\ DOMAIN s = 1..m /\ DOMAIN t = 1..n /\ DOMAIN u = 1..(m + n)
      /\ \A i \in 1..m : u[i] = s[i]
      /\ \A i \in 1..n : u[m + i] = t[i]
  BY JoinIs
<1>. HIDE DEF m, n, u
<1>2. ASSUME NEW i \in DOMAIN u PROVE u[i] \in Range(s) \union Range(t)
  <2>1. CASE i \in 1..m
    BY <1>1, <2>1 DEF Range
  <2>2. CASE i \notin 1..m
    <3>1. i - m \in 1..n /\ m + (i - m) = i
      BY <1>1, <2>2
    <3>. QED
      BY <1>1, <3>1 DEF Range
  <2>. QED
    BY <2>1, <2>2
<1>3. Range(s) \subseteq Range(u)
  <2>1. \A i \in 1..m : i \in 1..(m + n)
    BY <1>1
  <2>. QED
    BY <1>1, <2>1 DEF Range
<1>4. Range(t) \subseteq Range(u)
  <2>1. \A i \in 1..n : m + i \in 1..(m + n)
    BY <1>1
  <2>. QED
    BY <1>1, <2>1 DEF Range
<1>5. Range(u) \subseteq Range(s) \union Range(t)
  BY <1>2 DEF Range
<1>. QED
  BY <1>3, <1>4, <1>5 DEF u

LEMMA RangeAppend ==
  ASSUME NEW T, NEW s \in Seq(T), NEW e \in T
  PROVE  Append(s, e) \in Seq(T) /\ Range(Append(s, e)) = Range(s) \union {e}
<1>. DEFINE one == <<e>>
<1>1. Append(s, e) = s \o one /\ one \in Seq(T)
  BY AppendIsConcat
<1>2. Range(one) = {e}
  BY DEF Range
<1>. HIDE DEF one
<1>. QED
  BY <1>1, <1>2, RangeJoin

LEMMA RangeTail ==
  ASSUME NEW T, NEW s \in Seq(T), s # <<>>
  PROVE  Range(s) = {Head(s)} \union Range(Tail(s))
<1>1. /\ DOMAIN s = 1..Len(s) /\ Head(s) = s[1] /\ 1 \in DOMAIN s
      /\ \A i \in DOMAIN Tail(s) : i + 1 \in DOMAIN s /\ Tail(s)[i] = s[i + 1]
      /\ \A i \in DOMAIN s : i = 1 \/ (i - 1 \in DOMAIN Tail(s) /\ Tail(s)[i - 1] = s[i])
  BY TailIs
<1>2. ASSUME NEW i \in DOMAIN s PROVE s[i] \in {Head(s)} \union Range(Tail(s))
  <2>1. i = 1 \/ (i - 1 \in DOMAIN Tail(s) /\ s[i] = Tail(s)[i - 1])
    BY <1>1
  <2>. QED
    BY <1>1, <2>1 DEF Range
<1>3. \A i \in DOMAIN Tail(s) : Tail(s)[i] \in Range(s)
  BY <1>1 DEF Range
<1>4. Head(s) \in Range(s)
  BY <1>1 DEF Range
<1>5. Range(Tail(s)) \subseteq Range(s)
  BY <1>3 DEF Range
<1>6. Range(s) \subseteq {Head(s)} \union Range(Tail(s))
  <2>1. Range(s) = {s[i] : i \in DOMAIN s}
    BY DEF Range
  <2>. QED
    BY <1>2, <2>1
<1>. QED
  BY <1>4, <1>5, <1>6

\* The message n for s is in the queue, ahead of the result of c.
Ahead(q, c, s, n) ==
  \E i \in DOMAIN q :
    /\ WriteAt(q, i, s) /\ q[i].unit = n
    /\ \A j \in DOMAIN q : ResultAt(q, j) /\ q[j].to = c => i < j

Written(s, n) == transport[s] = "lost" \/ n \in Range(received[s]) \/ n \in Range(unsent[s])

AnswerInv ==
  \A c \in Conns :
    /\ session[c] \notin {"returning", "replying"} => counted[c] = {}
    /\ \A s \in counted[c] :
         /\ latest[c] # ReplyUnit
         /\ Written(s, latest[c]) \/ (session[c] = "returning" /\ Ahead(calls, c, s, latest[c]))

LEMMA AheadTail ==
  ASSUME NEW q \in Seq(Calls), q # <<>>, NEW c, NEW s \in Conns, NEW n, Ahead(q, c, s, n)
  PROVE  /\ ~(q[1].what = "result" /\ q[1].to = c)
         /\ (q[1].what = "write" /\ q[1].to = s /\ q[1].unit = n) \/ Ahead(Tail(q), c, s, n)
<1>. DEFINE t == Tail(q)
<1>1. /\ 1 \in DOMAIN q
      /\ \A i \in DOMAIN t : i + 1 \in DOMAIN q /\ t[i] = q[i + 1] /\ i \in Nat
      /\ \A i \in DOMAIN q : i = 1 \/ (i - 1 \in DOMAIN t /\ t[i - 1] = q[i])
      /\ \A i \in DOMAIN q : i \in Nat /\ i >= 1
  BY TailIs
<1>. HIDE DEF t
<1>2. PICK i \in DOMAIN q : /\ WriteAt(q, i, s) /\ q[i].unit = n
                            /\ \A j \in DOMAIN q : ResultAt(q, j) /\ q[j].to = c => i < j
  BY DEF Ahead
<1>3. ~(q[1].what = "result" /\ q[1].to = c)
  <2>1. ASSUME q[1].what = "result", q[1].to = c PROVE FALSE
    <3>1. i < 1 /\ i >= 1 /\ i \in Nat
      BY <1>1, <1>2, <2>1 DEF ResultAt
    <3>. QED
      BY <3>1
  <2>. QED
    BY <2>1
<1>4. CASE i = 1
  BY <1>2, <1>3, <1>4 DEF WriteAt
<1>5. CASE i # 1
  <2>1. i - 1 \in DOMAIN t /\ t[i - 1] = q[i]
    BY <1>1, <1>5
  <2>2. WriteAt(t, i - 1, s) /\ t[i - 1].unit = n
    BY <1>2, <2>1 DEF WriteAt
  <2>3. ASSUME NEW j \in DOMAIN t, ResultAt(t, j), t[j].to = c PROVE i - 1 < j
    <3>1. j + 1 \in DOMAIN q /\ ResultAt(q, j + 1) /\ q[j + 1].to = c /\ j \in Nat
      BY <1>1, <2>3 DEF ResultAt
    <3>2. i < j + 1 /\ i \in Nat
      BY <1>1, <1>2, <3>1
    <3>. QED
      BY <3>1, <3>2
  <2>4. Ahead(t, c, s, n)
    BY <2>1, <2>2, <2>3 DEF Ahead
  <2>. QED
    BY <1>3, <2>4 DEF t
<1>. QED
  BY <1>4, <1>5

LEMMA AheadGrows ==
  ASSUME NEW q \in Seq(Calls), NEW v \in Seq(Calls), NEW c, NEW s \in Conns, NEW n, Ahead(q, c, s, n)
  PROVE  Ahead(q \o v, c, s, n)
<1>. DEFINE u == q \o v
<1>1. /\ Len(q) \in Nat /\ DOMAIN q = 1..Len(q)
      /\ DOMAIN u = 1..(Len(q) + Len(v)) /\ Len(v) \in Nat
      /\ \A i \in 1..Len(q) : u[i] = q[i]
  BY JoinIs
<1>. HIDE DEF u
<1>2. PICK i \in DOMAIN q : /\ WriteAt(q, i, s) /\ q[i].unit = n
                            /\ \A j \in DOMAIN q : ResultAt(q, j) /\ q[j].to = c => i < j
  BY DEF Ahead
<1>3. i \in DOMAIN u /\ u[i] = q[i]
  BY <1>1
<1>4. ASSUME NEW j \in DOMAIN u, ResultAt(u, j), u[j].to = c PROVE i < j
  <2>1. CASE j \in 1..Len(q)
    BY <1>1, <1>2, <1>4, <2>1 DEF ResultAt
  <2>2. CASE j \notin 1..Len(q)
    BY <1>1, <2>2
  <2>. QED
    BY <2>1, <2>2
<1>5. Ahead(u, c, s, n)
  BY <1>2, <1>3, <1>4 DEF Ahead, WriteAt
<1>. QED
  BY <1>5 DEF u

\* A write that is in a batch is ahead of the result that ends it.
LEMMA AheadInBatch ==
  ASSUME NEW q \in Seq(Calls), NEW c \in Conns, c \notin ResultsOf(q), NEW v, Batch(v, c),
         NEW s \in Conns, NEW n, \E i \in DOMAIN v : WriteAt(v, i, s) /\ v[i].unit = n
  PROVE  Ahead(q \o v, c, s, n)
<1>. DEFINE u == q \o v
<1>0. v \in Seq(Calls)
  BY DEF Batch
<1>1. /\ Len(q) \in Nat /\ Len(v) \in Nat /\ DOMAIN q = 1..Len(q) /\ DOMAIN v = 1..Len(v)
      /\ DOMAIN u = 1..(Len(q) + Len(v))
      /\ \A i \in 1..Len(q) : u[i] = q[i]
      /\ \A i \in 1..Len(v) : u[Len(q) + i] = v[i]
  BY <1>0, JoinIs
<1>. HIDE DEF u
<1>2. PICK i \in DOMAIN v : WriteAt(v, i, s) /\ v[i].unit = n
  OBVIOUS
<1>3. i # Len(v)
  <2>1. ~ResultAt(v, i)
    BY <1>2 DEF WriteAt, ResultAt
  <2>. QED
    BY <2>1, <1>2 DEF Batch
<1>4. Len(q) + i \in DOMAIN u /\ u[Len(q) + i] = v[i] /\ i \in Nat
  BY <1>1
<1>5. ASSUME NEW j \in DOMAIN u, ResultAt(u, j), u[j].to = c PROVE Len(q) + i < j
  <2>1. j \notin 1..Len(q)
    <3>1. ASSUME j \in 1..Len(q) PROVE FALSE
      <4>1. j \in DOMAIN q /\ ResultAt(q, j) /\ q[j].to = c
        BY <1>1, <1>5, <3>1 DEF ResultAt
      <4>. QED
        BY <4>1 DEF ResultsOf
    <3>. QED
      BY <3>1
  <2>2. j - Len(q) \in 1..Len(v) /\ Len(q) + (j - Len(q)) = j
    BY <1>1, <2>1
  <2>3. u[j] = v[j - Len(q)]
    BY <1>1, <2>2
  <2>4. ResultAt(v, j - Len(q))
    BY <1>1, <1>5, <2>2, <2>3 DEF ResultAt
  <2>5. j - Len(q) = Len(v)
    BY <1>1, <2>2, <2>4 DEF Batch
  <2>. QED
    BY <1>1, <1>3, <2>2, <2>5
<1>6. Ahead(u, c, s, n)
  BY <1>2, <1>4, <1>5 DEF Ahead, WriteAt
<1>. QED
  BY <1>6 DEF u

\* What was written stays written.
LEMMA WrittenStays ==
  ASSUME Types, [PubSubNext]_pubSubVars, NEW s \in Conns, NEW n, n # ReplyUnit, Written(s, n)
  PROVE  Written(s, n)'
<1>1. CASE UNCHANGED <<transport, unsent, received>>
  BY <1>1 DEF Written
<1>2. CASE RunCall
  <2>. DEFINE h == Head(calls)
  <2>1. h \in Calls
    <3>1. calls \in Seq(Calls) /\ calls # <<>>
      BY <1>2 DEF RunCall, Types
    <3>. QED
      BY <3>1, TailIs
  <2>2. received' = received /\ (transport[s] = "lost" => transport'[s] = "lost")
    BY <1>2, <2>1 DEF RunCall, Types, Close, Calls
  <2>3. unsent'[s] = unsent[s] \/ unsent'[s] = Append(unsent[s], h.unit)
    <3>1. unsent' = unsent \/ unsent' = [unsent EXCEPT ![h.to] = Append(@, h.unit)]
      BY <1>2 DEF RunCall
    <3>. QED
      BY <3>1 DEF Types
  <2>4. Range(unsent[s]) \subseteq Range(Append(unsent[s], h.unit))
    <3>1. unsent[s] \in Seq(Nat) /\ h.unit \in Nat
      BY <2>1 DEF Types, Calls
    <3>. HIDE DEF h
    <3>. QED
      BY <3>1, RangeAppend
  <2>. QED
    BY <2>2, <2>3, <2>4 DEF Written
<1>3. ASSUME NEW c \in Conns, Reply(c) \/ Drained(c) \/ GiveUp(c) \/ EndRun(c) \/ EndConnection(c)
      PROVE  Written(s, n)'
  <2>1. received' = received
    BY <1>3 DEF Reply, Drained, GiveUp, EndRun, EndConnection
  <2>2. transport[s] = "lost" => transport'[s] = "lost"
    BY <1>3 DEF Reply, Drained, GiveUp, EndRun, EndConnection, Close, Types
  <2>3. \/ unsent'[s] = unsent[s] \/ unsent'[s] = Append(unsent[s], ReplyUnit)
        \/ transport'[s] = "lost"
    <3>1. CASE Reply(c)
      BY <3>1 DEF Reply, Types
    <3>2. CASE GiveUp(c)
      BY <3>2 DEF GiveUp, Types
    <3>. QED
      BY <1>3, <3>1, <3>2 DEF Drained, EndRun, EndConnection
  <2>4. Range(unsent[s]) \subseteq Range(Append(unsent[s], ReplyUnit))
    <3>1. unsent[s] \in Seq(Nat) /\ ReplyUnit \in Nat
      BY DEF Types, ReplyUnit
    <3>. QED
      BY <3>1, RangeAppend
  <2>. QED
    BY <2>1, <2>2, <2>3, <2>4 DEF Written
<1>4. ASSUME NEW c \in Conns, Receive(c)
      PROVE  Written(s, n)'
  <2>1. transport[s] = "lost" => transport'[s] = "lost"
    BY <1>4 DEF Receive, Types
  <2>2. CASE c # s
    BY <1>4, <2>1, <2>2 DEF Receive, Types, Written
  <2>3. CASE c = s
    <3>1. unsent[s] \in Seq(Nat) /\ unsent[s] # <<>> /\ received[s] \in Seq(Nat)
          /\ unsent'[s] = Tail(unsent[s])
          /\ received'[s] = IF Head(unsent[s]) = ReplyUnit THEN received[s]
                            ELSE Append(received[s], Head(unsent[s]))
      BY <1>4, <2>3 DEF Receive, Types
    <3>2. Range(unsent[s]) = {Head(unsent[s])} \union Range(unsent'[s]) /\ Head(unsent[s]) \in Nat
      BY <3>1, RangeTail
    <3>3. Range(Append(received[s], Head(unsent[s]))) = Range(received[s]) \union {Head(unsent[s])}
      BY <3>1, <3>2, RangeAppend
    <3>4. n \in Range(received[s]) \/ n \in Range(unsent[s]) =>
            n \in Range(received'[s]) \/ n \in Range(unsent'[s])
      BY <3>1, <3>2, <3>3
    <3>. QED
      BY <2>1, <3>4 DEF Written
  <2>. QED
    BY <2>2, <2>3
<1>5. ASSUME NEW c \in Conns, Reset(c)
      PROVE  Written(s, n)'
  BY <1>5 DEF Reset, Types, Written
<1>6. ASSUME NEW c \in Conns, Subscribe(c) \/ Publish(c) \/ Ask(c, "subscribe") \/ Ask(c, "publish")
      PROVE  UNCHANGED <<transport, unsent, received>>
  BY <1>6 DEF Subscribe, Publish, Ask
<1>7. UNCHANGED pubSubVars => UNCHANGED <<transport, unsent, received>>
  BY DEF pubSubVars, socketVars
<1>. QED
  BY <1>1, <1>2, <1>3, <1>4, <1>5, <1>6, <1>7, Steps

\* The same after a step.
WrittenNext(s, n) ==
  transport'[s] = "lost" \/ n \in Range(received'[s]) \/ n \in Range(unsent'[s])

LEMMA StepAnswer ==
  ASSUME Types, QueueInv, AnswerInv, [PubSubNext]_pubSubVars
  PROVE  AnswerInv'
<1>. SUFFICES ASSUME NEW c \in Conns
              PROVE  /\ session'[c] \notin {"returning", "replying"} => counted'[c] = {}
                     /\ \A s \in counted'[c] :
                          /\ latest'[c] # ReplyUnit
                          /\ \/ WrittenNext(s, latest'[c])
                             \/ session'[c] = "returning" /\ Ahead(calls', c, s, latest'[c])
  BY DEF AnswerInv, ReplyUnit, Written, WrittenNext
<1>. DEFINE Good == /\ session'[c] \notin {"returning", "replying"} => counted'[c] = {}
                    /\ \A s \in counted'[c] :
                         /\ latest'[c] # ReplyUnit
                         /\ \/ WrittenNext(s, latest'[c])
                            \/ session'[c] = "returning" /\ Ahead(calls', c, s, latest'[c])
<1>1. /\ session[c] \notin {"returning", "replying"} => counted[c] = {}
      /\ \A s \in counted[c] :
           /\ latest[c] # ReplyUnit /\ s \in Conns
           /\ Written(s, latest[c]) \/ (session[c] = "returning" /\ Ahead(calls, c, s, latest[c]))
  BY DEF AnswerInv, Types
<1>2. \A s \in counted[c] : Written(s, latest[c]) => WrittenNext(s, latest[c])
  <2>1. ASSUME NEW s \in Conns, NEW n, n # ReplyUnit, Written(s, n) PROVE WrittenNext(s, n)
    <3>1. Written(s, n)'
      BY <2>1, WrittenStays
    <3>. QED
      BY <3>1 DEF Written, WrittenNext
  <2>. QED
    BY <1>1, <2>1
<1>. SUFFICES Good
  OBVIOUS
<1>3. ASSUME UNCHANGED <<counted[c], latest[c], session[c]>>,
             \A s \in counted[c] : Ahead(calls, c, s, latest[c]) =>
                                     Ahead(calls', c, s, latest[c]) \/ WrittenNext(s, latest[c])
      PROVE  Good
  BY <1>1, <1>2, <1>3
<1>4. ASSUME UNCHANGED <<counted[c], latest[c], session[c], calls>>
      PROVE  Good
  BY <1>1, <1>2, <1>4
<1>5. ASSUME session[c] \notin {"returning", "replying"}, counted'[c] = counted[c]
      PROVE  Good
  BY <1>1, <1>5
<1>6. CASE UNCHANGED pubSubVars
  BY <1>4, <1>6 DEF pubSubVars, socketVars, channelVars
<1>7. CASE RunCall
  <2>. DEFINE h == Head(calls)
  <2>1. /\ calls \in Seq(Calls) /\ calls # <<>> /\ h = calls[1] /\ h \in Calls /\ 1 \in DOMAIN calls
        /\ calls' = Tail(calls) /\ (h.what = "result" => session[h.to] = "returning")
        /\ UNCHANGED <<counted, latest>>
    BY <1>7, NextCall DEF Types, RunCall
  <2>2. ASSUME NEW s \in counted[c], Ahead(calls, c, s, latest[c])
        PROVE  /\ ~(h.what = "result" /\ h.to = c)
               /\ Ahead(calls', c, s, latest[c]) \/ WrittenNext(s, latest[c])
    <3>1. s \in Conns
      BY <1>1
    <3>2. /\ ~(h.what = "result" /\ h.to = c)
          /\ (h.what = "write" /\ h.to = s /\ h.unit = latest[c]) \/ Ahead(calls', c, s, latest[c])
      BY <2>1, <2>2, <3>1, AheadTail
    <3>3. CASE h.what = "write" /\ h.to = s /\ h.unit = latest[c]
      <4>1. CASE transport[s] = "lost"
        BY <1>7, <3>3, <4>1 DEF RunCall, WrittenNext
      <4>2. CASE transport[s] # "lost"
        <5>1. unsent'[s] = Append(unsent[s], h.unit)
          BY <1>7, <3>1, <3>3, <4>2 DEF RunCall, Types
        <5>2. h.unit \in Nat /\ unsent[s] \in Seq(Nat)
          BY <2>1, <3>1 DEF Calls, Types
        <5>3. h.unit \in Range(Append(unsent[s], h.unit))
          <6>. HIDE DEF h
          <6>. QED
            BY <5>2, RangeAppend
        <5>. QED
          BY <3>2, <3>3, <5>1, <5>3 DEF WrittenNext
      <4>. QED
        BY <3>2, <4>1, <4>2
    <3>. QED
      BY <3>2, <3>3
  <2>3. CASE h.what = "result" /\ h.to = c
    <3>1. session'[c] = "replying"
      BY <1>7, <2>3 DEF RunCall, Types
    <3>2. \A s \in counted[c] : WrittenNext(s, latest[c])
      BY <1>1, <1>2, <2>2, <2>3
    <3>. QED
      BY <1>1, <2>1, <3>1, <3>2
  <2>4. CASE ~(h.what = "result" /\ h.to = c)
    <3>1. session'[c] = session[c]
      BY <1>7, <2>4 DEF RunCall, Types
    <3>. QED
      BY <1>3, <2>1, <2>2, <3>1
  <2>. QED
    BY <2>3, <2>4
<1>8. ASSUME NEW d \in Conns, Reply(d) \/ Drained(d) \/ GiveUp(d) \/ EndRun(d) \/ EndConnection(d)
      PROVE  Good
  <2>0. calls' = calls
    BY <1>8 DEF Reply, Drained, GiveUp, EndRun, EndConnection, channelVars
  <2>1. CASE d # c
    <3>1. UNCHANGED <<counted[c], latest[c], session[c]>>
      BY <1>8, <2>1 DEF Reply, Drained, GiveUp, EndRun, EndConnection, channelVars, Types
    <3>. QED
      BY <1>4, <2>0, <3>1
  <2>2. CASE d = c /\ Reply(d)
    <3>1. counted'[c] = {}
      BY <2>2 DEF Reply, Types
    <3>. QED
      BY <3>1
  <2>3. CASE d = c /\ ~Reply(d)
    <3>1. session[c] \notin {"returning", "replying"} /\ counted' = counted
      BY <1>8, <2>3 DEF Drained, GiveUp, EndRun, EndConnection, channelVars
    <3>. QED
      BY <1>5, <3>1
  <2>. QED
    BY <2>1, <2>2, <2>3
<1>9. ASSUME NEW d \in Conns, Receive(d) \/ Reset(d)
      PROVE  Good
  BY <1>4, <1>9 DEF Receive, Reset, channelVars
<1>10. ASSUME NEW d \in Conns, Subscribe(d) \/ Publish(d)
       PROVE  Good
  <2>1. PICK v : Batch(v, d) /\ calls' = calls \o v
    BY <1>10, Handing
  <2>2. calls \in Seq(Calls) /\ v \in Seq(Calls)
    BY <2>1 DEF Types, Batch
  <2>3. CASE d # c
    <3>1. UNCHANGED <<counted[c], latest[c], session[c]>>
      BY <1>10, <2>3 DEF Subscribe, Publish, Types
    <3>2. \A s \in counted[c] : Ahead(calls, c, s, latest[c]) => Ahead(calls', c, s, latest[c])
      BY <1>1, <2>1, <2>2, AheadGrows
    <3>. QED
      BY <1>3, <3>1, <3>2
  <2>4. CASE d = c /\ Subscribe(c)
    <3>1. session[c] = "subscribe" /\ counted' = counted
      BY <2>4 DEF Subscribe
    <3>. QED
      BY <1>5, <3>1
  <2>5. CASE d = c /\ Publish(c)
    <3>1. /\ session'[c] = "returning" /\ session[c] = "publish"
          /\ counted'[c] = Range(Reached) /\ latest'[c] = published + 1
      BY <2>5 DEF Publish, Types
    <3>2. published + 1 # ReplyUnit
      BY PubSubAssumption DEF Types, ReplyUnit
    <3>3. ASSUME NEW s \in Range(Reached) PROVE Ahead(calls', c, s, published + 1)
      <4>. DEFINE w == Cutoffs \o Pushes
                  r == <<Call(c, "result", ReplyUnit)>>
                  x == w \o r
      <4>0. s \in Conns
        BY ReachedIs
      <4>1. /\ w \in Seq(Calls)
            /\ \A i \in DOMAIN w : w[i].what # "result"
            /\ \A e \in Conns : \A i, j \in DOMAIN w : WriteAt(w, i, e) /\ WriteAt(w, j, e) => i = j
            /\ \E i \in DOMAIN w : w[i] = Call(s, "write", published + 1)
        BY Wanted
      <4>2. HandOver(c, w)
        BY <2>5 DEF Publish, Pushed
      <4>. HIDE DEF w
      <4>3. Batch(w \o r, c) /\ calls' = calls \o (w \o r)
        BY <2>2, <4>1, <4>2, Handed
      <4>4. PICK i \in DOMAIN w : w[i] = Call(s, "write", published + 1)
        BY <4>1
      <4>5. i \in DOMAIN x /\ x[i] = w[i]
        <5>1. r \in Seq(Calls)
          BY DEF Call, Calls, ReplyUnit
        <5>. HIDE DEF r
        <5>2. /\ DOMAIN w = 1..Len(w) /\ DOMAIN x = 1..(Len(w) + Len(r)) /\ Len(w) \in Nat /\ Len(r) \in Nat
              /\ \A k \in 1..Len(w) : x[k] = w[k]
          BY <4>1, <5>1, JoinIs
        <5>. QED
          BY <5>2
      <4>. HIDE DEF r, x
      <4>6. WriteAt(x, i, s) /\ x[i].unit = published + 1
        BY <4>4, <4>5 DEF WriteAt, Call
      <4>7. c \notin ResultsOf(calls)
        BY <3>1 DEF QueueInv, Queue, Returning
      <4>8. Ahead(calls \o x, c, s, published + 1)
        <5>1. Batch(x, c)
          BY <4>3 DEF x
        <5>2. \E k \in DOMAIN x : WriteAt(x, k, s) /\ x[k].unit = published + 1
          BY <4>5, <4>6
        <5>. QED
          BY <2>2, <4>0, <4>7, <5>1, <5>2, AheadInBatch
      <4>. QED
        BY <4>3, <4>8 DEF x
    <3>. QED
      BY <3>1, <3>2, <3>3
  <2>. QED
    BY <1>10, <2>3, <2>4, <2>5
<1>11. ASSUME NEW d \in Conns, Ask(d, "subscribe") \/ Ask(d, "publish")
       PROVE  Good
  <2>0. UNCHANGED <<calls, counted, latest>>
    BY <1>11 DEF Ask, channelVars
  <2>1. CASE d # c
    <3>1. session'[c] = session[c]
      BY <1>11, <2>1 DEF Ask, Types
    <3>. QED
      BY <1>4, <2>0, <3>1
  <2>2. CASE d = c
    <3>1. session[c] = "reading"
      BY <1>11, <2>2 DEF Ask
    <3>. QED
      BY <1>5, <2>0, <3>1
  <2>. QED
    BY <2>1, <2>2
<1>. QED
  BY <1>6, <1>7, <1>8, <1>9, <1>10, <1>11, Steps

\* For all connections: when a PUBLISH is answered, whoever it counted has its
\* message in its transport or beyond, or has lost its connection.
THEOREM CountedAreWritten == PubSubSpec => []AnsweredIsWritten
<1>1. InitPubSub => Types /\ QueueInv /\ AnswerInv
  <2>1. InitPubSub => AnswerInv
    BY DEF InitPubSub, AnswerInv
  <2>. QED
    BY <2>1, InitTypes
<1>2. Types /\ QueueInv /\ AnswerInv /\ [PubSubNext]_pubSubVars => (Types /\ QueueInv /\ AnswerInv)'
  BY StepTypes, StepQueue, StepAnswer
<1>3. Types /\ QueueInv /\ AnswerInv => AnsweredIsWritten
  <2>. SUFFICES ASSUME Types, QueueInv, AnswerInv, NEW c \in Conns, session[c] = "replying",
                       NEW s \in counted[c]
                PROVE  transport[s] = "lost" \/ latest[c] \in Range(received[s] \o unsent[s])
    BY DEF AnsweredIsWritten
  <2>1. Written(s, latest[c]) /\ s \in Conns
    BY DEF AnswerInv, Types
  <2>2. Range(received[s] \o unsent[s]) = Range(received[s]) \union Range(unsent[s])
    <3>1. received[s] \in Seq(Nat) /\ unsent[s] \in Seq(Nat)
      BY <2>1 DEF Types
    <3>. QED
      BY <3>1, RangeJoin
  <2>. QED
    BY <2>1, <2>2 DEF Written
<1>. QED
  BY <1>1, <1>2, <1>3, PTL DEF PubSubSpec

-----------------------------------------------------------------------------
(***************************************************************************)
(* What was sent to a subscriber: what its peer has, what waits in its     *)
(* transport, and what waits in the queue.                                 *)
(***************************************************************************)
Messages(u) == Chosen(u, Nat \ {ReplyUnit})

WritesTo(s) == [to : {s}, what : {"write"}, unit : Nat]
UnitsOf(x) == [i \in DOMAIN x |-> x[i].unit]
Units(q, s) == UnitsOf(Chosen(q, WritesTo(s)))

Sent(r, u, q, s) == (r \o Messages(u)) \o Units(q, s)

LEMMA SentIs == \A s \in Conns : SentTo(s) = Sent(received[s], unsent[s], calls, s)
BY DEF SentTo, Sent, Messages, Units, UnitsOf, WritesTo

LEMMA MessagesIn ==
  ASSUME NEW u \in Seq(Nat)
  PROVE  Messages(u) \in Seq(Nat)
BY ChosenIn DEF Messages

LEMMA MessagesAppend ==
  ASSUME NEW u \in Seq(Nat), NEW n \in Nat \ {ReplyUnit}
  PROVE  Messages(Append(u, n)) = Append(Messages(u), n)
<1>. DEFINE S == Nat \ {ReplyUnit}
<1>1. n \in Nat /\ n \in S
  OBVIOUS
<1>. HIDE DEF S
<1>2. Chosen(Append(u, n), S) = IF n \in S THEN Append(Chosen(u, S), n) ELSE Chosen(u, S)
  BY <1>1, ChosenAppend
<1>. QED
  BY <1>1, <1>2 DEF Messages, S

LEMMA UnitsOfIs ==
  ASSUME NEW x \in Seq(Calls)
  PROVE  /\ UnitsOf(x) \in Seq(Nat) /\ Len(UnitsOf(x)) = Len(x)
         /\ \A i \in DOMAIN x : UnitsOf(x)[i] = x[i].unit
<1>. DEFINE n == Len(x)
            f == UnitsOf(x)
<1>1. n \in Nat /\ DOMAIN x = 1..n /\ \A i \in 1..n : x[i].unit \in Nat
  <2>1. n \in Nat /\ DOMAIN x = 1..n /\ \A i \in 1..n : x[i] \in Calls
    OBVIOUS
  <2>. QED
    BY <2>1 DEF Calls
<1>2. f \in [1..n -> Nat] /\ \A i \in 1..n : f[i] = x[i].unit
  BY <1>1 DEF UnitsOf
<1>. HIDE DEF f, n
<1>3. f \in Seq(Nat) /\ Len(f) = n
  BY <1>1, <1>2
<1>. QED
  BY <1>1, <1>2, <1>3 DEF f, n

LEMMA UnitsIn ==
  ASSUME NEW q \in Seq(Calls), NEW s
  PROVE  Units(q, s) \in Seq(Nat)
BY ChosenIn, UnitsOfIs DEF Units

LEMMA UnitsJoin ==
  ASSUME NEW q \in Seq(Calls), NEW v \in Seq(Calls), NEW s
  PROVE  Units(q \o v, s) = Units(q, s) \o Units(v, s)
<1>. DEFINE x == Chosen(q, WritesTo(s))
            y == Chosen(v, WritesTo(s))
            z == x \o y
            a == UnitsOf(x)
            b == UnitsOf(y)
            c == UnitsOf(z)
            d == a \o b
<1>1. Chosen(q \o v, WritesTo(s)) = z /\ x \in Seq(Calls) /\ y \in Seq(Calls)
  <2>1. Chosen(q \o v, WritesTo(s)) = z
    BY ChosenConcat
  <2>2. x \in Seq(Calls) /\ y \in Seq(Calls)
    BY ChosenIn
  <2>. QED
    BY <2>1, <2>2
<1>. HIDE DEF x, y
<1>2. /\ Len(x) \in Nat /\ Len(y) \in Nat /\ z \in Seq(Calls) /\ DOMAIN z = 1..(Len(x) + Len(y))
      /\ DOMAIN x = 1..Len(x) /\ DOMAIN y = 1..Len(y) /\ Len(z) = Len(x) + Len(y)
      /\ \A i \in 1..Len(x) : z[i] = x[i]
      /\ \A i \in 1..Len(y) : z[Len(x) + i] = y[i]
  BY <1>1, JoinIs
<1>. HIDE DEF z
<1>3. /\ a \in Seq(Nat) /\ Len(a) = Len(x) /\ \A i \in 1..Len(x) : a[i] = x[i].unit
      /\ b \in Seq(Nat) /\ Len(b) = Len(y) /\ \A i \in 1..Len(y) : b[i] = y[i].unit
      /\ c \in Seq(Nat) /\ Len(c) = Len(x) + Len(y)
      /\ \A i \in 1..(Len(x) + Len(y)) : c[i] = z[i].unit
  BY <1>1, <1>2, UnitsOfIs
<1>. HIDE DEF a, b, c
<1>4. /\ d \in Seq(Nat) /\ Len(d) = Len(x) + Len(y)
      /\ \A i \in 1..Len(x) : d[i] = a[i]
      /\ \A i \in 1..Len(y) : d[Len(x) + i] = b[i]
  <2>0. a \in Seq(Nat) /\ b \in Seq(Nat)
    BY <1>3
  <2>1. /\ d \in Seq(Nat) /\ Len(d) = Len(a) + Len(b)
        /\ \A i \in 1..Len(a) : d[i] = a[i]
        /\ \A i \in 1..Len(b) : d[Len(a) + i] = b[i]
    BY <2>0, JoinIs
  <2>. QED
    BY <1>3, <2>1
<1>. HIDE DEF d
<1>5. ASSUME NEW i \in 1..(Len(x) + Len(y)) PROVE c[i] = d[i]
  <2>1. CASE i \in 1..Len(x)
    <3>1. c[i] = z[i].unit /\ z[i] = x[i]
      BY <1>2, <1>3, <2>1
    <3>2. d[i] = a[i] /\ a[i] = x[i].unit
      BY <1>3, <1>4, <2>1
    <3>. QED
      BY <3>1, <3>2
  <2>2. CASE i \notin 1..Len(x)
    <3>1. i - Len(x) \in 1..Len(y) /\ Len(x) + (i - Len(x)) = i
      BY <1>2, <2>2
    <3>2. c[i] = z[i].unit /\ z[i] = y[i - Len(x)]
      <4>1. c[i] = z[i].unit
        BY <1>3
      <4>2. z[i] = y[i - Len(x)]
        BY <1>2, <3>1
      <4>. QED
        BY <4>1, <4>2
    <3>3. d[i] = b[i - Len(x)]
      BY <1>4, <3>1
    <3>. QED
      BY <1>3, <3>1, <3>2, <3>3
  <2>. QED
    BY <2>1, <2>2
<1>6. c = d
  BY <1>3, <1>4, <1>5, SeqEqual
<1>7. Units(q \o v, s) = c
  BY <1>1 DEF Units, c
<1>8. Units(q, s) = a /\ Units(v, s) = b
  BY DEF Units, a, b, x, y
<1>. QED
  BY <1>6, <1>7, <1>8 DEF d

LEMMA UnitsNone ==
  ASSUME NEW v \in Seq(Calls), NEW s, \A i \in DOMAIN v : ~WriteAt(v, i, s)
  PROVE  Units(v, s) = <<>>
<1>1. Range(v) \intersect WritesTo(s) = {}
  BY DEF Range, WritesTo, WriteAt
<1>2. Chosen(v, WritesTo(s)) = <<>>
  BY <1>1, ChosenNone
<1>. QED
  BY <1>2 DEF Units, UnitsOf

LEMMA UnitsOne ==
  ASSUME NEW e \in Calls, NEW s
  PROVE  Units(<<e>>, s) = IF e.what = "write" /\ e.to = s THEN <<e.unit>> ELSE <<>>
<1>1. e \in WritesTo(s) <=> e.what = "write" /\ e.to = s
  BY DEF WritesTo, Calls
<1>2. Chosen(<<e>>, WritesTo(s)) = IF e \in WritesTo(s) THEN <<e>> ELSE <<>>
  BY ChosenOne
<1>3. UnitsOf(<<e>>) = <<e.unit>> /\ UnitsOf(<<>>) = <<>>
  BY DEF UnitsOf
<1>. QED
  BY <1>1, <1>2, <1>3 DEF Units

LEMMA UnitsTail ==
  ASSUME NEW q \in Seq(Calls), q # <<>>, NEW s
  PROVE  Units(q, s) = IF Head(q).what = "write" /\ Head(q).to = s
                       THEN <<Head(q).unit>> \o Units(Tail(q), s) ELSE Units(Tail(q), s)
<1>. DEFINE h == Head(q)
            t == Tail(q)
            one == <<h>>
<1>1. h \in Calls /\ t \in Seq(Calls) /\ one \in Seq(Calls) /\ q = one \o t
  BY HeadTailProperties
<1>. HIDE DEF h, t
<1>2. Units(one, s) = IF h.what = "write" /\ h.to = s THEN <<h.unit>> ELSE <<>>
  BY <1>1, UnitsOne
<1>3. Units(t, s) \in Seq(Nat)
  BY <1>1, UnitsIn
<1>. HIDE DEF one
<1>4. Units(q, s) = Units(one, s) \o Units(t, s)
  BY <1>1, UnitsJoin
<1>5. <<>> \o Units(t, s) = Units(t, s)
  BY <1>3, ConcatEmptySeq
<1>. QED
  BY <1>2, <1>4, <1>5 DEF h, t

\* A sequence of one element.
LEMMA OneElement ==
  ASSUME NEW T, NEW u \in Seq(T), Once(u), NEW e, Range(u) = {e}
  PROVE  u = <<e>>
<1>1. Len(u) \in Nat /\ DOMAIN u = 1..Len(u) /\ \A i \in 1..Len(u) : u[i] = e
  BY DEF Range
<1>2. Len(u) # 0
  BY <1>1 DEF Range
<1>3. ~(Len(u) > 1)
  <2>1. ASSUME Len(u) > 1 PROVE FALSE
    <3>1. 1 \in DOMAIN u /\ 2 \in DOMAIN u /\ u[1] = u[2]
      BY <1>1, <2>1
    <3>. QED
      BY <3>1 DEF Once
  <2>. QED
    BY <2>1
<1>4. Len(u) = 1 /\ u[1] = e
  BY <1>1, <1>2, <1>3
<1>. QED
  BY <1>4

\* What a PUBLISH adds: one message for each that is reached.
LEMMA UnitsPublished ==
  ASSUME Types, NEW c \in Conns, Publish(c), NEW s \in Conns
  PROVE  Units(calls', s) = IF s \in Range(Reached) THEN Append(Units(calls, s), published + 1)
                            ELSE Units(calls, s)
<1>. DEFINE r == Call(c, "result", ReplyUnit)
            m == Call(s, "write", published + 1)
            one == <<r>>
            w == Cutoffs \o Pushes
            q == calls
            u == q \o w
            add == IF s \in Range(Reached) THEN <<published + 1>> ELSE <<>>
<1>0. published + 1 \in Nat
  BY PubSubAssumption DEF Types
<1>1. r \in Calls /\ one \in Seq(Calls) /\ q \in Seq(Calls) /\ Reached \in Seq(Conns) /\ Once(Reached)
  <2>1. r \in Calls
    BY DEF Call, Calls, ReplyUnit
  <2>2. one \in Seq(Calls)
    BY <2>1
  <2>3. q \in Seq(Calls)
    BY DEF Types
  <2>. QED
    BY <2>1, <2>2, <2>3, ReachedIs
<1>2. w \in Seq(Calls) /\ Cutoffs \in Seq(Calls) /\ Pushes \in Seq(Calls)
  <2>. DEFINE cut == Chosen(channel, {d \in Conns : transport[d] = "open" /\ TooFar(d)})
  <2>1. Cutoffs = [i \in DOMAIN cut |-> Call(cut[i], "close", ReplyUnit)] /\ cut \in Seq(Conns)
    BY ChosenIn DEF Cutoffs, Types
  <2>. HIDE DEF cut
  <2>2. Cutoffs \in Seq(Calls)
    BY <2>1, CallsOf DEF ReplyUnit
  <2>3. Pushes \in Seq(Calls)
    BY <1>0, <1>1, CallsOf DEF Pushes
  <2>. QED
    BY <2>2, <2>3
<1>3. calls' = u \o one
  BY DEF Publish, Pushed, HandOver
<1>4. Units(one, s) = <<>>
  <2>1. Units(one, s) = IF r.what = "write" /\ r.to = s THEN <<r.unit>> ELSE <<>>
    BY <1>1, UnitsOne
  <2>2. r.what # "write"
    BY DEF Call
  <2>. QED
    BY <2>1, <2>2
<1>5. Units(w, s) = add
  <2>1. CASE s \notin Range(Reached)
    <3>1. \A i \in DOMAIN w : ~WriteAt(w, i, s)
      BY <2>1, Wanted
    <3>. HIDE DEF w
    <3>. QED
      BY <1>2, <2>1, <3>1, UnitsNone
  <2>2. CASE s \in Range(Reached)
    <3>. DEFINE b == Pushes
    <3>1. /\ DOMAIN b = DOMAIN Reached
          /\ \A i \in DOMAIN b : b[i] = Call(Reached[i], "write", published + 1)
      BY DEF Pushes
    <3>2. \A d : Call(d, "write", published + 1) = m <=> d = s
      BY DEF Call
    <3>3. Once(b)
      <4>1. ASSUME NEW i \in DOMAIN b, NEW j \in DOMAIN b, b[i] = b[j] PROVE i = j
        <5>1. Reached[i] = Reached[j]
          <6>1. b[i].to = Reached[i] /\ b[j].to = Reached[j]
            BY <3>1 DEF Call
          <6>. QED
            BY <4>1, <6>1
        <5>. QED
          BY <1>1, <3>1, <5>1 DEF Once
      <4>. QED
        BY <4>1 DEF Once
    <3>4. Range(b) \intersect WritesTo(s) = {m}
      <4>1. m \in Range(b)
        <5>1. PICK i \in DOMAIN Reached : Reached[i] = s
          BY <2>2 DEF Range
        <5>. QED
          BY <3>1, <5>1 DEF Range
      <4>2. m \in WritesTo(s)
        BY <1>0 DEF Call, WritesTo
      <4>3. ASSUME NEW i \in DOMAIN b, b[i] \in WritesTo(s) PROVE b[i] = m
        <5>1. b[i].to = s /\ b[i] = Call(Reached[i], "write", published + 1)
          BY <3>1, <4>3 DEF WritesTo
        <5>. QED
          BY <5>1 DEF Call
      <4>. QED
        BY <4>1, <4>2, <4>3 DEF Range
    <3>. HIDE DEF b, m
    <3>5. Chosen(b, WritesTo(s)) = <<m>>
      <4>1. b \in Seq(Calls)
        BY <1>2 DEF b
      <4>2. /\ Chosen(b, WritesTo(s)) \in Seq(Calls) /\ Once(Chosen(b, WritesTo(s)))
            /\ Range(Chosen(b, WritesTo(s))) = {m}
        BY <3>3, <3>4, <4>1, ChosenIn
      <4>. QED
        BY <4>2, OneElement
    <3>6. Units(b, s) = <<published + 1>>
      <4>1. UnitsOf(<<m>>) = <<m.unit>> /\ m.unit = published + 1
        BY DEF UnitsOf, m, Call
      <4>. QED
        BY <3>5, <4>1 DEF Units
    <3>7. Units(Cutoffs, s) = <<>>
      <4>1. \A i \in DOMAIN Cutoffs : ~WriteAt(Cutoffs, i, s)
        BY DEF Cutoffs, Call, WriteAt
      <4>. QED
        BY <1>2, <4>1, UnitsNone
    <3>8. Units(w, s) = Units(Cutoffs, s) \o Units(b, s)
      BY <1>2, UnitsJoin DEF b
    <3>9. <<>> \o <<published + 1>> = <<published + 1>>
      BY <1>0
    <3>. QED
      BY <2>2, <3>6, <3>7, <3>8, <3>9
  <2>. QED
    BY <2>1, <2>2
<1>. HIDE DEF one, w, r
<1>6. u \in Seq(Calls)
  BY <1>1, <1>2
<1>7. Units(u \o one, s) = Units(u, s) \o Units(one, s)
  <2>. HIDE DEF u
  <2>. QED
    BY <1>1, <1>6, UnitsJoin
<1>8. Units(u, s) = Units(q, s) \o Units(w, s)
  <2>1. q \in Seq(Calls) /\ w \in Seq(Calls)
    BY <1>1, <1>2
  <2>. HIDE DEF q
  <2>2. Units(q \o w, s) = Units(q, s) \o Units(w, s)
    BY <2>1, UnitsJoin
  <2>. QED
    BY <2>2
<1>9. Units(q, s) \in Seq(Nat) /\ Units(u, s) \in Seq(Nat)
  BY <1>1, <1>6, UnitsIn
<1>10. Units(u, s) \o <<>> = Units(u, s) /\ Units(q, s) \o <<>> = Units(q, s)
       /\ Units(q, s) \o <<published + 1>> = Append(Units(q, s), published + 1)
  BY <1>0, <1>9, ConcatEmptySeq, AppendIsConcat
<1>. QED
  BY <1>3, <1>4, <1>5, <1>7, <1>8, <1>10 DEF q

\* What a SUBSCRIBE adds: nothing.
LEMMA UnitsSubscribed ==
  ASSUME Types, NEW c \in Conns, Subscribe(c), NEW s \in Conns
  PROVE  Units(calls', s) = Units(calls, s)
<1>. DEFINE r == Call(c, "result", ReplyUnit)
            one == <<r>>
<1>1. r \in Calls /\ one \in Seq(Calls) /\ calls \in Seq(Calls)
  BY DEF Types, Call, Calls, ReplyUnit
<1>2. calls' = calls \o one
  <2>1. calls' = (calls \o <<>>) \o one
    BY DEF Subscribe, HandOver
  <2>. HIDE DEF one
  <2>. QED
    BY <1>1, <2>1, ConcatEmptySeq
<1>3. Units(one, s) = <<>>
  <2>1. Units(one, s) = IF r.what = "write" /\ r.to = s THEN <<r.unit>> ELSE <<>>
    BY <1>1, UnitsOne
  <2>2. r.what # "write"
    BY DEF Call
  <2>. QED
    BY <2>1, <2>2
<1>. HIDE DEF one
<1>4. Units(calls \o one, s) = Units(calls, s) \o Units(one, s) /\ Units(calls, s) \in Seq(Nat)
  BY <1>1, UnitsJoin, UnitsIn
<1>. QED
  BY <1>2, <1>3, <1>4, ConcatEmptySeq

-----------------------------------------------------------------------------
(***************************************************************************)
(* Order: what remains of a rising sequence rises.                         *)
(***************************************************************************)
Rising(u) == \A i, j \in DOMAIN u : i < j => u[i] < u[j]

LEMMA RisingJoin ==
  ASSUME NEW s \in Seq(Nat), NEW t \in Seq(Nat)
  PROVE  Rising(s \o t) <=> /\ Rising(s) /\ Rising(t)
                            /\ \A x \in Range(s), y \in Range(t) : x < y
<1>. DEFINE m == Len(s)
            n == Len(t)
            u == s \o t
<1>1. /\ m \in Nat /\ n \in Nat /\ DOMAIN s = 1..m /\ DOMAIN t = 1..n /\ DOMAIN u = 1..(m + n)
      /\ \A i \in 1..m : u[i] = s[i]
      /\ \A i \in 1..n : u[m + i] = t[i]
  BY JoinIs
<1>. HIDE DEF m, n, u
<1>2. ASSUME Rising(u) PROVE Rising(s) /\ Rising(t) /\ \A x \in Range(s), y \in Range(t) : x < y
  <2>1. \A i \in 1..m : i \in DOMAIN u /\ u[i] = s[i]
    BY <1>1
  <2>2. \A i \in 1..n : m + i \in DOMAIN u /\ u[m + i] = t[i]
    BY <1>1
  <2>3. Rising(s)
    BY <1>1, <1>2, <2>1 DEF Rising
  <2>4. ASSUME NEW i \in 1..n, NEW j \in 1..n, i < j PROVE t[i] < t[j]
    <3>1. m + i < m + j
      BY <1>1, <2>4
    <3>. QED
      BY <1>2, <2>2, <3>1 DEF Rising
  <2>5. ASSUME NEW i \in 1..m, NEW j \in 1..n PROVE s[i] < t[j]
    <3>1. i < m + j
      BY <1>1
    <3>. QED
      BY <1>2, <2>1, <2>2, <3>1 DEF Rising
  <2>6. \A x \in Range(s), y \in Range(t) : x < y
    BY <1>1, <2>5 DEF Range
  <2>. QED
    BY <1>1, <2>3, <2>4, <2>6 DEF Rising
<1>3. ASSUME Rising(s), Rising(t), \A x \in Range(s), y \in Range(t) : x < y PROVE Rising(u)
  <2>1. ASSUME NEW i \in DOMAIN u, NEW j \in DOMAIN u, i < j PROVE u[i] < u[j]
    <3>1. \A k \in DOMAIN u : k \in 1..m \/ (k - m \in 1..n /\ m + (k - m) = k)
      BY <1>1
    <3>2. CASE i \in 1..m /\ j \in 1..m
      BY <1>1, <1>3, <2>1, <3>2 DEF Rising
    <3>3. CASE i \in 1..m /\ j \notin 1..m
      <4>1. j - m \in 1..n /\ u[j] = t[j - m]
        BY <1>1, <3>1, <3>3
      <4>2. u[i] \in Range(s) /\ u[j] \in Range(t)
        BY <1>1, <3>3, <4>1 DEF Range
      <4>. QED
        BY <1>3, <4>2
    <3>4. CASE i \notin 1..m
      <4>1. i - m \in 1..n /\ u[i] = t[i - m]
        BY <1>1, <3>1, <3>4
      <4>2. j \notin 1..m
        BY <1>1, <2>1, <3>4
      <4>3. j - m \in 1..n /\ u[j] = t[j - m] /\ i - m < j - m
        BY <1>1, <2>1, <3>1, <4>2
      <4>. QED
        BY <1>1, <1>3, <4>1, <4>3 DEF Rising
    <3>. QED
      BY <3>2, <3>3, <3>4
  <2>. QED
    BY <2>1 DEF Rising
<1>. QED
  BY <1>2, <1>3 DEF u

\* Rising, and within a bound.
RisingTo(u, n) == u \in Seq(Nat) /\ Rising(u) /\ \A x \in Range(u) : 1 <= x /\ x <= n

LEMMA RisingWithout ==
  ASSUME NEW a \in Seq(Nat), NEW b \in Seq(Nat), NEW c \in Seq(Nat), NEW n,
         RisingTo((a \o b) \o c, n)
  PROVE  RisingTo(a \o c, n)
<1>1. a \o b \in Seq(Nat) /\ a \o c \in Seq(Nat)
  OBVIOUS
<1>2. Range(a \o b) = Range(a) \union Range(b) /\ Range(a \o c) = Range(a) \union Range(c)
  BY RangeJoin
<1>3. Range((a \o b) \o c) = Range(a \o b) \union Range(c)
  <2>. DEFINE ab == a \o b
  <2>1. ab \in Seq(Nat)
    BY <1>1
  <2>. HIDE DEF ab
  <2>2. Range(ab \o c) = Range(ab) \union Range(c)
    BY <2>1, RangeJoin
  <2>. QED
    BY <2>2 DEF ab
<1>4. Rising(a \o b) /\ Rising(c) /\ \A x \in Range(a \o b), y \in Range(c) : x < y
  BY <1>1, RisingJoin DEF RisingTo
<1>5. Rising(a)
  BY <1>4, RisingJoin
<1>6. Rising(a \o c)
  BY <1>2, <1>4, <1>5, RisingJoin
<1>7. \A x \in Range(a \o c) : x \in Range((a \o b) \o c)
  BY <1>2, <1>3
<1>. QED
  BY <1>1, <1>6, <1>7 DEF RisingTo

LEMMA RisingAppend ==
  ASSUME NEW n \in Nat, NEW u, RisingTo(u, n)
  PROVE  RisingTo(Append(u, n + 1), n + 1)
<1>. DEFINE one == <<n + 1>>
<1>1. u \in Seq(Nat) /\ one \in Seq(Nat) /\ Append(u, n + 1) = u \o one /\ n + 1 \in Nat
  BY AppendIsConcat DEF RisingTo
<1>2. Range(one) = {n + 1} /\ Rising(one)
  BY DEF Range, Rising
<1>. HIDE DEF one
<1>3. \A x \in Range(u) : x \in Nat /\ 1 <= x /\ x <= n
  BY <1>1 DEF RisingTo, Range
<1>4. Rising(u \o one)
  <2>1. \A x \in Range(u), y \in Range(one) : x < y
    BY <1>2, <1>3
  <2>. QED
    BY <1>1, <1>2, <2>1, RisingJoin DEF RisingTo
<1>5. Range(u \o one) = Range(u) \union {n + 1}
  BY <1>1, <1>2, RangeJoin
<1>6. \A x \in Range(u \o one) : 1 <= x /\ x <= n + 1
  BY <1>3, <1>5
<1>7. Append(u, n + 1) \in Seq(Nat)
  BY <1>1
<1>. QED
  BY <1>1, <1>4, <1>6, <1>7 DEF RisingTo

-----------------------------------------------------------------------------
(***************************************************************************)
(* What a step of one part makes of what was sent.                         *)
(***************************************************************************)
\* The message that is first in the queue.
LEMMA HeadUnit ==
  ASSUME NEW q \in Seq(Calls), q # <<>>
  PROVE  Head(q).unit \in Nat /\ <<Head(q).unit>> \in Seq(Nat) /\ Tail(q) \in Seq(Calls)
<1>1. Head(q) \in Calls /\ Tail(q) \in Seq(Calls)
  BY HeadTailProperties
<1>2. Head(q).unit \in Nat
  BY <1>1 DEF Calls
<1>. QED
  BY <1>1, <1>2

LEMMA SentIn ==
  ASSUME NEW r \in Seq(Nat), NEW u \in Seq(Nat), NEW q \in Seq(Calls), NEW s
  PROVE  /\ Sent(r, u, q, s) \in Seq(Nat)
         /\ Messages(u) \in Seq(Nat) /\ Units(q, s) \in Seq(Nat)
         /\ Sent(r, u, q, s) = r \o (Messages(u) \o Units(q, s))
<1>1. Messages(u) \in Seq(Nat) /\ Units(q, s) \in Seq(Nat)
  BY MessagesIn, UnitsIn
<1>2. r \o Messages(u) \in Seq(Nat)
  BY <1>1
<1>3. (r \o Messages(u)) \o Units(q, s) \in Seq(Nat)
  BY <1>1, <1>2
<1>4. (r \o Messages(u)) \o Units(q, s) = r \o (Messages(u) \o Units(q, s))
  <2>1. Same((r \o Messages(u)) \o Units(q, s), r \o (Messages(u) \o Units(q, s)))
    BY <1>1, Joined
  <2>. QED
    BY <2>1 DEF Same
<1>. QED
  BY <1>1, <1>3, <1>4 DEF Sent

\* A reply is no message.
LEMMA SentReply ==
  ASSUME NEW r, NEW u \in Seq(Nat), NEW q, NEW s
  PROVE  Sent(r, Append(u, ReplyUnit), q, s) = Sent(r, u, q, s)
<1>1. ReplyUnit \in Nat /\ ReplyUnit \notin Nat \ {ReplyUnit}
  BY DEF ReplyUnit
<1>2. Messages(Append(u, ReplyUnit)) = Messages(u)
  BY <1>1, ChosenAppend DEF Messages
<1>. QED
  BY <1>2 DEF Sent

\* The peer reads.
LEMMA SentReceived ==
  ASSUME NEW r \in Seq(Nat), NEW u \in Seq(Nat), u # <<>>, NEW q, NEW s
  PROVE  Sent(IF Head(u) = ReplyUnit THEN r ELSE Append(r, Head(u)), Tail(u), q, s) = Sent(r, u, q, s)
<1>. DEFINE h == Head(u)
            t == Tail(u)
            one == <<h>>
<1>1. h \in Nat /\ t \in Seq(Nat) /\ one \in Seq(Nat)
  BY HeadTailProperties
<1>2. Messages(u) = IF h \in Nat \ {ReplyUnit} THEN one \o Messages(t) ELSE Messages(t)
  BY ChosenTail DEF Messages
<1>. HIDE DEF h, t
<1>3. Messages(t) \in Seq(Nat)
  BY <1>1, MessagesIn
<1>4. Append(r, h) = r \o one
  BY <1>1, AppendIsConcat
<1>. HIDE DEF one
<1>5. (r \o one) \o Messages(t) = r \o (one \o Messages(t))
  <2>1. Same((r \o one) \o Messages(t), r \o (one \o Messages(t)))
    BY <1>1, <1>3, Joined
  <2>. QED
    BY <2>1 DEF Same
<1>6. (IF h = ReplyUnit THEN r ELSE Append(r, h)) \o Messages(t) = r \o Messages(u)
  BY <1>1, <1>2, <1>4, <1>5
<1>. QED
  BY <1>6 DEF Sent, h, t

\* The loop writes a message.
LEMMA SentWritten ==
  ASSUME NEW r \in Seq(Nat), NEW u \in Seq(Nat), NEW q \in Seq(Calls), q # <<>>, NEW s,
         Head(q).what = "write", Head(q).to = s, Head(q).unit # ReplyUnit
  PROVE  Sent(r, Append(u, Head(q).unit), Tail(q), s) = Sent(r, u, q, s)
<1>. DEFINE n == Head(q).unit
            t == Tail(q)
            one == <<n>>
            a == Messages(u)
            b == Units(t, s)
<1>1. n \in Nat /\ t \in Seq(Calls) /\ one \in Seq(Nat)
  BY HeadUnit
<1>2. Units(q, s) = one \o b
  BY UnitsTail
<1>. HIDE DEF n, t
<1>3. Messages(Append(u, n)) = Append(a, n)
  <2>1. n \in Nat \ {ReplyUnit}
    BY <1>1 DEF n
  <2>. QED
    BY <2>1, MessagesAppend
<1>4. a \in Seq(Nat) /\ b \in Seq(Nat)
  BY <1>1, MessagesIn, UnitsIn
<1>. HIDE DEF a, b
<1>5. Append(a, n) = a \o one
  BY <1>1, <1>4, AppendIsConcat
<1>. HIDE DEF one
<1>6. (r \o (a \o one)) \o b = (r \o a) \o (one \o b)
  <2>1. r \in Seq(Nat) /\ a \in Seq(Nat) /\ b \in Seq(Nat) /\ one \in Seq(Nat) /\ r \o a \in Seq(Nat)
    BY <1>1, <1>4
  <2>2. Same((r \o a) \o one, r \o (a \o one))
    BY ONLY <2>1, Joined
  <2>3. Same(((r \o a) \o one) \o b, (r \o a) \o (one \o b))
    BY ONLY <2>1, Joined
  <2>. QED
    BY ONLY <2>2, <2>3 DEF Same
<1>. QED
  BY <1>2, <1>3, <1>5, <1>6 DEF Sent, n, t, a, b

\* The loop takes another call.
LEMMA SentOther ==
  ASSUME NEW r, NEW u, NEW q \in Seq(Calls), q # <<>>, NEW s,
         ~(Head(q).what = "write" /\ Head(q).to = s)
  PROVE  Sent(r, u, Tail(q), s) = Sent(r, u, q, s)
<1>1. Units(q, s) = Units(Tail(q), s)
  BY UnitsTail
<1>. QED
  BY <1>1 DEF Sent

\* The transport loses what it holds.
LEMMA SentLost ==
  ASSUME NEW r \in Seq(Nat), NEW u \in Seq(Nat), NEW q \in Seq(Calls), NEW s, NEW n,
         RisingTo(Sent(r, u, q, s), n)
  PROVE  RisingTo(Sent(r, <<>>, q, s), n)
<1>1. Messages(u) \in Seq(Nat) /\ Units(q, s) \in Seq(Nat)
  BY SentIn
<1>2. RisingTo(r \o Units(q, s), n)
  BY <1>1, RisingWithout DEF Sent
<1>3. Messages(<<>>) = <<>>
  <2>1. <<>> \in Seq(Nat) /\ Range(<<>>) = {}
    BY DEF Range
  <2>. QED
    BY <2>1, ChosenNone DEF Messages
<1>4. r \o <<>> = r
  BY ConcatEmptySeq
<1>. QED
  BY <1>2, <1>3, <1>4 DEF Sent

\* The loop drops a message for a transport that is lost.
LEMMA SentDropped ==
  ASSUME NEW r \in Seq(Nat), NEW u \in Seq(Nat), NEW q \in Seq(Calls), q # <<>>, NEW s, NEW n,
         RisingTo(Sent(r, u, q, s), n)
  PROVE  RisingTo(Sent(r, u, Tail(q), s), n)
<1>. DEFINE one == <<Head(q).unit>>
            t == Tail(q)
            a == r \o Messages(u)
<1>1. t \in Seq(Calls) /\ one \in Seq(Nat)
  BY HeadUnit
<1>2. Units(q, s) = IF Head(q).what = "write" /\ Head(q).to = s THEN one \o Units(t, s) ELSE Units(t, s)
  BY UnitsTail
<1>. HIDE DEF t, one
<1>3. a \in Seq(Nat) /\ Units(t, s) \in Seq(Nat)
  <2>1. Messages(u) \in Seq(Nat)
    BY MessagesIn
  <2>. QED
    BY <1>1, <2>1, UnitsIn
<1>. HIDE DEF a
<1>4. (a \o one) \o Units(t, s) = a \o (one \o Units(t, s))
  <2>1. a \in Seq(Nat) /\ one \in Seq(Nat) /\ Units(t, s) \in Seq(Nat)
    BY <1>1, <1>3
  <2>2. Same((a \o one) \o Units(t, s), a \o (one \o Units(t, s)))
    BY ONLY <2>1, Joined
  <2>. QED
    BY ONLY <2>2 DEF Same
<1>5. RisingTo(a \o Units(q, s), n)
  BY DEF Sent, a
<1>6. RisingTo(a \o Units(t, s), n)
  BY <1>1, <1>2, <1>3, <1>4, <1>5, RisingWithout
<1>. QED
  BY <1>6 DEF Sent, a, t

Longer(a, b, n) == a = Append(b, n)

\* A message is handed over.
LEMMA SentGrows ==
  ASSUME NEW r \in Seq(Nat), NEW u \in Seq(Nat), NEW q \in Seq(Calls), NEW s, NEW n \in Nat,
         NEW p, Longer(Units(p, s), Units(q, s), n)
  PROVE  Longer(Sent(r, u, p, s), Sent(r, u, q, s), n)
<1>. DEFINE a == r \o Messages(u)
            b == Units(q, s)
            one == <<n>>
<1>1. a \in Seq(Nat) /\ b \in Seq(Nat) /\ one \in Seq(Nat) /\ a \o b \in Seq(Nat)
  <2>1. Messages(u) \in Seq(Nat) /\ b \in Seq(Nat)
    BY MessagesIn, UnitsIn
  <2>2. a \in Seq(Nat)
    BY <2>1
  <2>. HIDE DEF a, b
  <2>. QED
    BY <2>1, <2>2
<1>. HIDE DEF a, b
<1>2. Append(b, n) = b \o one /\ Append(a \o b, n) = (a \o b) \o one
  BY <1>1, AppendIsConcat
<1>. HIDE DEF one
<1>3. (a \o b) \o one = a \o (b \o one)
  <2>1. a \in Seq(Nat) /\ b \in Seq(Nat) /\ one \in Seq(Nat)
    BY <1>1
  <2>2. Same((a \o b) \o one, a \o (b \o one))
    BY ONLY <2>1, Joined
  <2>. QED
    BY ONLY <2>2 DEF Same
<1>4. Units(p, s) = b \o one
  BY <1>2 DEF b, Longer
<1>. QED
  BY <1>2, <1>3, <1>4 DEF Sent, a, b, Longer

-----------------------------------------------------------------------------
(***************************************************************************)
(* Nobody misses a message or has one twice.  To whoever is listed and     *)
(* open everything is sent since it subscribed; whoever is no longer       *)
(* listed is not open and never will be.                                   *)
(***************************************************************************)
CloseIn(q, s) == \E e \in Range(q) : e.to = s /\ e.what = "close"
OpenFor(s) == transport[s] = "open" /\ ~CloseIn(calls, s)

Run(a, b) == [i \in 1..(b - a) |-> a + i]

GapFree(s) ==
  /\ RisingTo(SentTo(s), published)
  /\ since[s] # NotYet => since[s] <= published
  /\ since[s] = NotYet => RisingTo(SentTo(s), 0) /\ s \notin Range(channel)
  /\ s \in Range(channel) /\ OpenFor(s) => SentTo(s) = Run(since[s], published)
  /\ since[s] # NotYet /\ s \notin Range(channel) => ~OpenFor(s)

GapInv == \A s \in Conns : GapFree(s)

\* The same after a step.
SentNext(s) == Sent(received'[s], unsent'[s], calls', s)
OpenNext(s) == transport'[s] = "open" /\ ~CloseIn(calls', s)
GapFreeNext(s) ==
  /\ RisingTo(SentNext(s), published')
  /\ since'[s] # NotYet => since'[s] <= published'
  /\ since'[s] = NotYet => RisingTo(SentNext(s), 0) /\ s \notin Range(channel')
  /\ s \in Range(channel') /\ OpenNext(s) => SentNext(s) = Run(since'[s], published')
  /\ since'[s] # NotYet /\ s \notin Range(channel') => ~OpenNext(s)

LEMMA NothingRises ==
  ASSUME NEW u, RisingTo(u, 0)
  PROVE  u = <<>>
<1>1. u \in Seq(Nat) /\ \A i \in 1..Len(u) : 1 <= u[i] /\ u[i] <= 0 /\ u[i] \in Nat
  BY DEF RisingTo, Range
<1>2. Len(u) = 0
  <2>1. ASSUME Len(u) # 0 PROVE FALSE
    <3>1. 1 \in 1..Len(u)
      BY <1>1, <2>1
    <3>2. 1 <= u[1] /\ u[1] <= 0 /\ u[1] \in Nat
      BY <1>1, <3>1
    <3>. QED
      BY <3>2
  <2>. QED
    BY <2>1
<1>. QED
  BY <1>1, <1>2

LEMMA RunGrows ==
  ASSUME NEW a \in Nat, NEW b \in Nat, a <= b
  PROVE  Append(Run(a, b), b + 1) = Run(a, b + 1)
<1>. DEFINE n == b - a
            f == Run(a, b)
            g == Run(a, b + 1)
<1>1. n \in Nat /\ f \in [1..n -> Nat] /\ \A i \in 1..n : f[i] = a + i
  BY DEF Run
<1>2. (b + 1) - a = n + 1 /\ g \in [1..(n + 1) -> Nat] /\ \A i \in 1..(n + 1) : g[i] = a + i
  BY DEF Run
<1>3. a + (n + 1) = b + 1 /\ b + 1 \in Nat
  OBVIOUS
<1>. HIDE DEF n, f, g
<1>4. f \in Seq(Nat) /\ Len(f) = n /\ g \in Seq(Nat) /\ Len(g) = n + 1
  <2>1. f \in Seq(Nat) /\ Len(f) = n
    BY <1>1
  <2>2. g \in Seq(Nat) /\ Len(g) = n + 1
    BY <1>1, <1>2
  <2>. QED
    BY <2>1, <2>2
<1>. DEFINE h == Append(f, b + 1)
<1>5. /\ h \in Seq(Nat) /\ Len(h) = n + 1 /\ h[n + 1] = b + 1
      /\ \A i \in 1..n : h[i] = f[i]
  BY <1>3, <1>4
<1>. HIDE DEF h
<1>6. ASSUME NEW i \in 1..Len(h) PROVE h[i] = g[i]
  <2>1. i \in 1..n \/ i = n + 1
    BY <1>1, <1>5
  <2>. QED
    BY <1>1, <1>2, <1>3, <1>5, <2>1
<1>7. h = g
  BY <1>4, <1>5, <1>6, SeqEqual
<1>. QED
  BY <1>7 DEF h, f, g

\* What waits in the queue for s is a message.
LEMMA FirstIsMessage ==
  ASSUME Types, calls # <<>>, NEW s \in Conns, NEW n, RisingTo(SentTo(s), n),
         Head(calls).what = "write", Head(calls).to = s
  PROVE  Head(calls).unit # ReplyUnit
<1>. DEFINE q == calls
            one == <<Head(q).unit>>
            t == Tail(q)
            a == received[s] \o Messages(unsent[s])
            b == Units(t, s)
<1>0. q \in Seq(Calls) /\ received[s] \in Seq(Nat) /\ unsent[s] \in Seq(Nat)
  BY DEF Types
<1>1. one \in Seq(Nat) /\ t \in Seq(Calls) /\ a \in Seq(Nat) /\ b \in Seq(Nat)
  <2>1. one \in Seq(Nat) /\ t \in Seq(Calls)
    BY <1>0, HeadUnit
  <2>2. Messages(unsent[s]) \in Seq(Nat)
    BY <1>0, MessagesIn
  <2>3. a \in Seq(Nat)
    BY <1>0, <2>2
  <2>. HIDE DEF a, t, q, one
  <2>. QED
    BY <2>1, <2>3, UnitsIn
<1>2. SentTo(s) = a \o (one \o b)
  <2>1. SentTo(s) = a \o Units(q, s)
    BY SentIs DEF Sent
  <2>2. Units(q, s) = one \o b
    BY <1>0, UnitsTail
  <2>. QED
    BY <2>1, <2>2
<1>3. Head(q).unit \in Range(one)
  BY DEF Range
<1>. HIDE DEF a, b, one
<1>4. Range(one) \subseteq Range(SentTo(s))
  <2>1. Range(one \o b) = Range(one) \union Range(b) /\ one \o b \in Seq(Nat)
    BY <1>1, RangeJoin
  <2>. DEFINE z == one \o b
  <2>2. a \in Seq(Nat) /\ z \in Seq(Nat)
    BY <1>1, <2>1
  <2>. HIDE DEF z
  <2>3. Range(a \o z) = Range(a) \union Range(z)
    BY <2>2, RangeJoin
  <2>. QED
    BY <1>2, <2>1, <2>3 DEF z
<1>5. 1 <= Head(q).unit
  BY <1>3, <1>4 DEF RisingTo
<1>. QED
  BY <1>5 DEF ReplyUnit

\* A step loses nothing that was sent to s, unless its connection is lost.
LEMMA SentSteps ==
  ASSUME Types, QueueInv, [PubSubNext]_pubSubVars, NEW s \in Conns, NEW max, RisingTo(SentTo(s), max)
  PROVE  \/ SentNext(s) = SentTo(s) /\ ~\E c \in Conns : Publish(c) /\ s \in Range(Reached)
         \/ /\ transport'[s] = "lost" /\ ~\E c \in Conns : Publish(c)
            /\ \A n : RisingTo(SentTo(s), n) => RisingTo(SentNext(s), n)
         \/ \E c \in Conns : /\ Publish(c) /\ s \in Range(Reached)
                             /\ SentNext(s) = Append(SentTo(s), published + 1)
<1>. DEFINE r == received[s]
            u == unsent[s]
            q == calls
<1>1. r \in Seq(Nat) /\ u \in Seq(Nat) /\ q \in Seq(Calls) /\ SentTo(s) = Sent(r, u, q, s)
  BY SentIs DEF Types
<1>2. ASSUME UNCHANGED <<received[s], unsent[s], calls>> PROVE SentNext(s) = SentTo(s)
  BY <1>1, <1>2 DEF SentNext
<1>3. (\E c \in Conns : Publish(c)) => published' # published
  BY PubSubAssumption DEF Publish, Types
<1>4. CASE UNCHANGED pubSubVars
  BY <1>2, <1>3, <1>4 DEF pubSubVars, socketVars, channelVars
<1>5. CASE RunCall
  <2>. DEFINE h == Head(calls)
  <2>1. /\ calls # <<>> /\ h \in Calls /\ calls' = Tail(calls) /\ received' = received
        /\ published' = published
    BY <1>5, NextCall DEF RunCall
  <2>2. CASE h.what = "write" /\ h.to = s /\ transport[s] # "lost"
    <3>1. unsent'[s] = Append(unsent[s], h.unit)
      BY <1>5, <2>2 DEF RunCall, Types
    <3>2. h.unit # ReplyUnit
      BY <2>1, <2>2, FirstIsMessage
    <3>3. Sent(r, Append(u, h.unit), Tail(q), s) = Sent(r, u, q, s)
      <4>. HIDE DEF r, u
      <4>. QED
        BY <1>1, <2>1, <2>2, <3>2, SentWritten
    <3>. QED
      BY <1>1, <1>3, <2>1, <3>1, <3>3 DEF SentNext
  <2>3. CASE h.what = "write" /\ h.to = s /\ transport[s] = "lost"
    <3>1. unsent' = unsent /\ transport' = transport
      BY <1>5, <2>3 DEF RunCall
    <3>2. ASSUME NEW n, RisingTo(Sent(r, u, q, s), n) PROVE RisingTo(Sent(r, u, Tail(q), s), n)
      <4>. HIDE DEF r, u, q
      <4>. QED
        BY <1>1, <2>1, <3>2, SentDropped DEF q
    <3>. QED
      BY <1>1, <1>3, <2>1, <2>3, <3>1, <3>2 DEF SentNext
  <2>4. CASE ~(h.what = "write" /\ h.to = s)
    <3>1. unsent'[s] = unsent[s]
      BY <1>5, <2>1, <2>4 DEF RunCall, Types, Calls
    <3>2. Sent(r, u, Tail(q), s) = Sent(r, u, q, s)
      <4>. HIDE DEF r, u
      <4>. QED
        BY <1>1, <2>1, <2>4, SentOther
    <3>. QED
      BY <1>1, <1>3, <2>1, <3>1, <3>2 DEF SentNext
  <2>. QED
    BY <2>2, <2>3, <2>4
<1>6. ASSUME NEW n, RisingTo(SentTo(s), n) PROVE RisingTo(Sent(r, <<>>, q, s), n)
  <2>. HIDE DEF r, u, q
  <2>. QED
    BY <1>1, <1>6, SentLost
<1>7. ASSUME NEW c \in Conns, Reply(c) \/ Drained(c) \/ GiveUp(c) \/ EndRun(c) \/ EndConnection(c)
      PROVE  \/ SentNext(s) = SentTo(s) /\ published' = published
             \/ /\ transport'[s] = "lost" /\ published' = published
                /\ \A n : RisingTo(SentTo(s), n) => RisingTo(SentNext(s), n)
  <2>1. UNCHANGED <<calls, received, published>>
    BY <1>7 DEF Reply, Drained, GiveUp, EndRun, EndConnection, channelVars
  <2>2. \/ unsent'[s] = unsent[s]
        \/ unsent'[s] = Append(unsent[s], ReplyUnit)
        \/ unsent'[s] = <<>> /\ transport'[s] = "lost"
    <3>1. CASE Reply(c)
      BY <3>1 DEF Reply, Types
    <3>2. CASE GiveUp(c)
      BY <3>2 DEF GiveUp, Types
    <3>. QED
      BY <1>7, <3>1, <3>2 DEF Drained, EndRun, EndConnection
  <2>3. Sent(r, Append(u, ReplyUnit), q, s) = Sent(r, u, q, s)
    <3>. HIDE DEF u
    <3>. QED
      BY <1>1, SentReply
  <2>. QED
    BY <1>1, <1>6, <2>1, <2>2, <2>3 DEF SentNext
<1>8. ASSUME NEW c \in Conns, Receive(c)
      PROVE  SentNext(s) = SentTo(s) /\ published' = published
  <2>1. calls' = calls /\ published' = published
    BY <1>8 DEF Receive, channelVars
  <2>2. CASE c # s
    <3>1. unsent'[s] = unsent[s] /\ received'[s] = received[s]
      BY <1>8, <2>2 DEF Receive, Types
    <3>. QED
      BY <1>2, <2>1, <3>1
  <2>3. CASE c = s
    <3>1. /\ u # <<>> /\ unsent'[s] = Tail(u)
          /\ received'[s] = IF Head(u) = ReplyUnit THEN r ELSE Append(r, Head(u))
      BY <1>8, <2>3 DEF Receive, Types
    <3>2. Sent(IF Head(u) = ReplyUnit THEN r ELSE Append(r, Head(u)), Tail(u), q, s) = Sent(r, u, q, s)
      <4>. HIDE DEF u, r
      <4>. QED
        BY <1>1, <3>1, SentReceived
    <3>. QED
      BY <1>1, <2>1, <3>1, <3>2 DEF SentNext
  <2>. QED
    BY <2>2, <2>3
<1>9. ASSUME NEW c \in Conns, Reset(c)
      PROVE  \/ SentNext(s) = SentTo(s) /\ published' = published
             \/ /\ transport'[s] = "lost" /\ published' = published
                /\ \A n : RisingTo(SentTo(s), n) => RisingTo(SentNext(s), n)
  <2>1. UNCHANGED <<calls, received, published>>
    BY <1>9 DEF Reset, channelVars
  <2>2. unsent'[s] = unsent[s] \/ (unsent'[s] = <<>> /\ transport'[s] = "lost")
    BY <1>9 DEF Reset, Types
  <2>. QED
    BY <1>1, <1>6, <2>1, <2>2 DEF SentNext
<1>10. ASSUME NEW c \in Conns, Subscribe(c)
       PROVE  SentNext(s) = SentTo(s) /\ published' = published
  <2>1. Units(calls', s) = Units(calls, s)
    BY <1>10, UnitsSubscribed
  <2>2. UNCHANGED <<received, unsent, published>>
    BY <1>10 DEF Subscribe
  <2>. QED
    BY <1>1, <2>1, <2>2 DEF SentNext, Sent
<1>11. ASSUME NEW c \in Conns, Publish(c), s \in Range(Reached)
       PROVE  SentNext(s) = Append(SentTo(s), published + 1)
  <2>1. Units(calls', s) = Append(Units(q, s), published + 1)
    BY <1>11, UnitsPublished
  <2>2. UNCHANGED <<received, unsent>> /\ published + 1 \in Nat
    BY <1>11, PubSubAssumption DEF Publish, Types
  <2>3. Sent(r, u, calls', s) = Append(Sent(r, u, q, s), published + 1)
    <3>. DEFINE p == calls'
                n == published + 1
    <3>. HIDE DEF r, u, q, p
    <3>1. r \in Seq(Nat) /\ u \in Seq(Nat) /\ q \in Seq(Calls) /\ n \in Nat
      BY <1>1, <2>2
    <3>2. Longer(Units(p, s), Units(q, s), n)
      BY <2>1 DEF p, Longer
    <3>. HIDE DEF n
    <3>3. Longer(Sent(r, u, p, s), Sent(r, u, q, s), n)
      BY <3>1, <3>2, SentGrows
    <3>. QED
      BY <3>3 DEF p, n, Longer
  <2>. QED
    BY <1>1, <2>2, <2>3 DEF SentNext
<1>12. ASSUME NEW c \in Conns, Publish(c), s \notin Range(Reached)
       PROVE  SentNext(s) = SentTo(s)
  <2>1. Units(calls', s) = Units(calls, s)
    BY <1>12, UnitsPublished
  <2>2. UNCHANGED <<received, unsent>>
    BY <1>12 DEF Publish
  <2>. QED
    BY <1>1, <2>1, <2>2 DEF SentNext, Sent
<1>13. ASSUME NEW c \in Conns, Ask(c, "subscribe") \/ Ask(c, "publish")
       PROVE  SentNext(s) = SentTo(s) /\ published' = published
  BY <1>2, <1>13 DEF Ask, channelVars
<1>. HIDE DEF r, u, q
<1>. QED
  BY <1>3, <1>4, <1>5, <1>7, <1>8, <1>9, <1>10, <1>11, <1>12, <1>13, Steps

\* Whoever is not open, or about to be closed, stays so.
LEMMA NeverReopens ==
  ASSUME Types, QueueInv, [PubSubNext]_pubSubVars, NEW s \in Conns, OpenNext(s)
  PROVE  OpenFor(s)
<1>1. CASE UNCHANGED <<transport, calls>>
  BY <1>1 DEF OpenFor, OpenNext
<1>2. CASE RunCall
  <2>. DEFINE h == Head(calls)
  <2>1. /\ calls \in Seq(Calls) /\ calls # <<>> /\ h \in Calls /\ calls' = Tail(calls)
    BY <1>2, NextCall DEF Types
  <2>2. Range(calls) = {h} \union Range(calls')
    BY <2>1, RangeTail
  <2>3. transport'[s] = "open" => transport[s] = "open" /\ ~(h.to = s /\ h.what = "close")
    <3>1. CASE h.what = "close"
      BY <1>2, <2>1, <3>1 DEF RunCall, Close, Types, Calls
    <3>2. CASE h.what # "close"
      BY <1>2, <3>2 DEF RunCall
    <3>. QED
      BY <3>1, <3>2
  <2>. HIDE DEF h
  <2>. QED
    BY <2>2, <2>3 DEF OpenFor, OpenNext, CloseIn
<1>3. ASSUME NEW c \in Conns, Reply(c) \/ Drained(c) \/ GiveUp(c) \/ EndRun(c) \/ EndConnection(c)
      PROVE  OpenFor(s)
  <2>1. calls' = calls
    BY <1>3 DEF Reply, Drained, GiveUp, EndRun, EndConnection, channelVars
  <2>2. transport'[s] = "open" => transport[s] = "open"
    BY <1>3 DEF Reply, Drained, GiveUp, EndRun, EndConnection, Close, Types
  <2>. QED
    BY <2>1, <2>2 DEF OpenFor, OpenNext
<1>4. ASSUME NEW c \in Conns, Receive(c) \/ Reset(c)
      PROVE  OpenFor(s)
  <2>1. calls' = calls
    BY <1>4 DEF Receive, Reset, channelVars
  <2>2. transport'[s] = "open" => transport[s] = "open"
    BY <1>4 DEF Receive, Reset, Types
  <2>. QED
    BY <2>1, <2>2 DEF OpenFor, OpenNext
<1>5. ASSUME NEW c \in Conns, Subscribe(c) \/ Publish(c)
      PROVE  OpenFor(s)
  <2>1. PICK v : Batch(v, c) /\ calls' = calls \o v
    BY <1>5, Handing
  <2>2. calls \in Seq(Calls) /\ v \in Seq(Calls)
    BY <2>1 DEF Types, Batch
  <2>3. Range(calls \o v) = Range(calls) \union Range(v)
    BY <2>2, RangeJoin
  <2>4. transport' = transport
    BY <1>5 DEF Subscribe, Publish
  <2>. QED
    BY <2>1, <2>3, <2>4 DEF OpenFor, OpenNext, CloseIn
<1>6. ASSUME NEW c \in Conns, Ask(c, "subscribe") \/ Ask(c, "publish")
      PROVE  UNCHANGED <<transport, calls>>
  BY <1>6 DEF Ask, channelVars
<1>7. UNCHANGED pubSubVars => UNCHANGED <<transport, calls>>
  BY DEF pubSubVars, socketVars, channelVars
<1>. QED
  BY <1>1, <1>2, <1>3, <1>4, <1>5, <1>6, <1>7, Steps

\* A PUBLISH lists those that are reached, and closes who is open otherwise.
LEMMA Pruned ==
  ASSUME Types, NEW c \in Conns, Publish(c)
  PROVE  /\ Range(channel') = Range(Reached)
         /\ Range(channel') = {s \in Range(channel) : Reachable(s)}
         /\ \A s \in Range(channel) : s \notin Range(channel') => ~OpenNext(s)
<1>1. channel' = Reached
  BY DEF Publish, Reached
<1>2. Range(Reached) = {s \in Range(channel) : Reachable(s)}
  BY ReachedIs
<1>3. Range(channel) \subseteq Conns
  BY ReachedIs
<1>4. ASSUME NEW s \in Range(channel), ~Reachable(s), transport[s] = "open" PROVE CloseIn(calls', s)
  <2>. DEFINE S == {d \in Conns : transport[d] = "open" /\ TooFar(d)}
              cut == Chosen(channel, S)
              e == Call(s, "close", ReplyUnit)
              r == <<Call(c, "result", ReplyUnit)>>
              w == Cutoffs \o Pushes
  <2>1. s \in S
    BY <1>3, <1>4 DEF Reachable
  <2>. HIDE DEF S
  <2>2. cut \in Seq(Conns) /\ Range(cut) = Range(channel) \intersect S
    BY ChosenIn DEF Types
  <2>3. Cutoffs = [i \in DOMAIN cut |-> Call(cut[i], "close", ReplyUnit)]
    BY DEF Cutoffs, S
  <2>. HIDE DEF cut
  <2>4. e \in Range(Cutoffs)
    <3>1. PICK i \in DOMAIN cut : cut[i] = s
      BY <2>1, <2>2 DEF Range
    <3>2. i \in DOMAIN Cutoffs /\ Cutoffs[i] = e
      BY <2>3, <3>1
    <3>. QED
      BY <3>2 DEF Range
  <2>5. Cutoffs \in Seq(Calls) /\ Pushes \in Seq(Calls) /\ r \in Seq(Calls) /\ calls \in Seq(Calls)
    <3>0. ReplyUnit \in Nat
      BY DEF ReplyUnit
    <3>1. Cutoffs \in Seq(Calls)
      BY <2>2, <2>3, <3>0, CallsOf
    <3>2. published + 1 \in Nat /\ Reached \in Seq(Conns)
      BY PubSubAssumption, ReachedIs DEF Types
    <3>3. Pushes \in Seq(Calls)
      BY <3>2, CallsOf DEF Pushes
    <3>. QED
      BY <3>1, <3>3 DEF Types, Call, Calls, ReplyUnit
  <2>. HIDE DEF r, e
  <2>6. Range(w) = Range(Cutoffs) \union Range(Pushes) /\ w \in Seq(Calls)
    BY <2>5, RangeJoin
  <2>7. calls' = (calls \o w) \o r
    BY DEF Publish, Pushed, HandOver, r
  <2>. HIDE DEF w
  <2>8. Range(calls \o w) = Range(calls) \union Range(w) /\ calls \o w \in Seq(Calls)
    BY <2>5, <2>6, RangeJoin
  <2>. DEFINE x == calls \o w
  <2>. HIDE DEF x
  <2>9. Range(x \o r) = Range(x) \union Range(r)
    <3>1. x \in Seq(Calls) /\ r \in Seq(Calls)
      BY <2>5, <2>8 DEF x
    <3>. QED
      BY <3>1, RangeJoin
  <2>10. e \in Range(calls')
    BY <2>4, <2>6, <2>7, <2>8, <2>9 DEF x
  <2>. QED
    BY <2>10 DEF CloseIn, e, Call
<1>5. transport' = transport
  BY DEF Publish
<1>6. \A s \in Range(channel) : s \notin Range(channel') => ~OpenNext(s)
  BY <1>1, <1>2, <1>3, <1>4, <1>5 DEF OpenNext
<1>. QED
  BY <1>1, <1>2, <1>3, <1>6

LEMMA StepGap ==
  ASSUME Types, QueueInv, GapInv, [PubSubNext]_pubSubVars, NEW s \in Conns
  PROVE  GapFreeNext(s)
<1>1. /\ RisingTo(SentTo(s), published)
      /\ since[s] # NotYet => since[s] <= published
      /\ since[s] = NotYet => RisingTo(SentTo(s), 0) /\ s \notin Range(channel)
      /\ s \in Range(channel) /\ OpenFor(s) => SentTo(s) = Run(since[s], published)
      /\ since[s] # NotYet /\ s \notin Range(channel) => ~OpenFor(s)
  BY DEF GapInv, GapFree
<1>2. OpenNext(s) => OpenFor(s)
  BY NeverReopens
<1>3. published \in Nat /\ since[s] \in Nat /\ NotYet \in Nat /\ NotYet = MaxMessages + 1
      /\ published <= MaxMessages /\ since[s] <= NotYet /\ MaxMessages \in Nat
  BY PubSubAssumption DEF Types, NotYet
<1>4. \/ SentNext(s) = SentTo(s) /\ ~\E c \in Conns : Publish(c) /\ s \in Range(Reached)
      \/ /\ transport'[s] = "lost" /\ ~\E c \in Conns : Publish(c)
         /\ \A n : RisingTo(SentTo(s), n) => RisingTo(SentNext(s), n)
      \/ \E c \in Conns : /\ Publish(c) /\ s \in Range(Reached)
                          /\ SentNext(s) = Append(SentTo(s), published + 1)
  BY <1>1, SentSteps
<1>5. \/ \E c \in Conns : Publish(c)
      \/ \E c \in Conns : Subscribe(c)
      \/ UNCHANGED <<channel, since, published>>
  BY Steps DEF pubSubVars, socketVars, channelVars, RunCall, Reply, Drained, GiveUp, EndRun,
     EndConnection, Receive, Reset, Ask
<1>6. ASSUME NEW c \in Conns, Publish(c) PROVE GapFreeNext(s)
  <2>1. since' = since /\ published' = published + 1
    BY <1>6 DEF Publish
  <2>2. /\ Range(channel') = Range(Reached) /\ Range(channel') \subseteq Range(channel)
        /\ s \in Range(channel) /\ s \notin Range(channel') => ~OpenNext(s)
    BY <1>6, Pruned
  <2>3. CASE s \in Range(Reached)
    <3>1. SentNext(s) = Append(SentTo(s), published + 1)
      BY <1>4, <1>6, <2>3
    <3>2. since[s] # NotYet
      BY <1>1, <2>2, <2>3
    <3>3. RisingTo(SentNext(s), published')
      BY <1>1, <1>3, <2>1, <3>1, RisingAppend
    <3>4. OpenNext(s) => SentNext(s) = Run(since[s], published + 1)
      <4>1. ASSUME OpenNext(s) PROVE SentNext(s) = Run(since[s], published + 1)
        <5>1. SentTo(s) = Run(since[s], published)
          BY <1>1, <1>2, <2>2, <2>3, <4>1
        <5>2. Append(Run(since[s], published), published + 1) = Run(since[s], published + 1)
          BY <1>1, <1>3, <3>2, RunGrows
        <5>. QED
          BY <3>1, <5>1, <5>2
      <4>. QED
        BY <4>1
    <3>5. since'[s] <= published'
      BY <1>1, <1>3, <2>1, <3>2
    <3>. QED
      BY <2>1, <2>2, <2>3, <3>2, <3>3, <3>4, <3>5 DEF GapFreeNext
  <2>4. CASE s \notin Range(Reached)
    <3>1. SentNext(s) = SentTo(s)
      BY <1>4, <1>6, <2>4
    <3>2. RisingTo(SentNext(s), published')
      <4>1. \A x \in Range(SentTo(s)) : x \in Nat /\ 1 <= x /\ x <= published
        BY <1>1 DEF RisingTo, Range
      <4>2. \A x \in Range(SentTo(s)) : 1 <= x /\ x <= published + 1
        BY <1>3, <4>1
      <4>. QED
        BY <1>1, <2>1, <3>1, <4>2 DEF RisingTo
    <3>3. s \notin Range(channel') /\ (since[s] # NotYet => ~OpenNext(s))
      BY <1>1, <1>2, <2>2, <2>4
    <3>4. since'[s] # NotYet => since'[s] <= published'
      BY <1>1, <1>3, <2>1
    <3>. QED
      BY <1>1, <2>1, <3>1, <3>2, <3>3, <3>4 DEF GapFreeNext
  <2>. QED
    BY <2>3, <2>4
<1>7. ASSUME NEW c \in Conns, Subscribe(c) PROVE GapFreeNext(s)
  <2>1. /\ published' = published /\ transport' = transport
        /\ channel' = IF c \in Range(channel) THEN channel ELSE Append(channel, c)
        /\ since' = [since EXCEPT ![c] = IF @ = NotYet THEN published ELSE @]
    BY <1>7 DEF Subscribe
  <2>2. SentNext(s) = SentTo(s)
    <3>1. ~\E d \in Conns : Publish(d)
      <4>1. ASSUME NEW d \in Conns, Publish(d) PROVE FALSE
        BY <1>3, <2>1, <4>1 DEF Publish
      <4>. QED
        BY <4>1
    <3>2. Units(calls', s) = Units(calls, s) /\ received' = received /\ unsent' = unsent
      BY <1>7, UnitsSubscribed DEF Subscribe
    <3>. QED
      BY <3>2, SentIs DEF SentNext, Sent
  <2>3. Range(channel') = Range(channel) \union {c}
    <3>1. channel \in Seq(Conns)
      BY DEF Types
    <3>2. Range(Append(channel, c)) = Range(channel) \union {c}
      BY <3>1, RangeAppend
    <3>. QED
      BY <2>1, <3>2
  <2>4. CASE c # s
    <3>1. since'[s] = since[s] /\ (s \in Range(channel') <=> s \in Range(channel))
      BY <2>1, <2>3, <2>4 DEF Types
    <3>. QED
      BY <1>1, <1>2, <2>1, <2>2, <3>1 DEF GapFreeNext
  <2>5. CASE c = s
    <3>1. since'[s] = IF since[s] = NotYet THEN published ELSE since[s]
      BY <2>1, <2>5 DEF Types
    <3>2. since'[s] # NotYet /\ since'[s] <= published /\ s \in Range(channel')
      BY <1>1, <1>3, <2>3, <2>5, <3>1
    <3>3. OpenNext(s) => SentTo(s) = Run(since'[s], published)
      <4>1. CASE since[s] = NotYet
        <5>1. SentTo(s) = <<>>
          BY <1>1, <4>1, NothingRises
        <5>2. Run(published, published) = <<>>
          <6>1. 1..(published - published) = {}
            BY <1>3
          <6>. QED
            BY <6>1 DEF Run
        <5>. QED
          BY <3>1, <4>1, <5>1, <5>2
      <4>2. CASE since[s] # NotYet
        BY <1>1, <1>2, <3>1, <4>2
      <4>. QED
        BY <4>1, <4>2
    <3>. QED
      BY <1>1, <2>1, <2>2, <3>2, <3>3 DEF GapFreeNext
  <2>. QED
    BY <2>4, <2>5
<1>8. CASE UNCHANGED <<channel, since, published>>
  <2>1. ~\E c \in Conns : Publish(c)
    <3>1. ASSUME NEW d \in Conns, Publish(d) PROVE FALSE
      <4>1. published' = published + 1
        BY <3>1 DEF Publish
      <4>. QED
        BY <1>3, <1>8, <4>1
    <3>. QED
      BY <3>1
  <2>2. /\ SentNext(s) = SentTo(s) \/ transport'[s] = "lost"
        /\ \A n : RisingTo(SentTo(s), n) => RisingTo(SentNext(s), n)
    BY <1>4, <2>1
  <2>3. OpenNext(s) => SentNext(s) = SentTo(s)
    BY <2>2 DEF OpenNext
  <2>. QED
    BY <1>1, <1>2, <1>8, <2>2, <2>3 DEF GapFreeNext
<1>. QED
  BY <1>5, <1>6, <1>7, <1>8

LEMMA InitGap == InitPubSub => GapInv
<1>. SUFFICES ASSUME InitPubSub, NEW s \in Conns PROVE GapFree(s)
  BY DEF GapInv
<1>1. /\ received[s] = <<>> /\ unsent[s] = <<>> /\ calls = <<>> /\ channel = <<>>
      /\ published = 0 /\ since[s] = NotYet
  BY DEF InitPubSub
<1>2. <<>> \in Seq(Nat) /\ <<>> \in Seq(Calls) /\ Range(<<>>) = {} /\ DOMAIN <<>> = {}
  BY DEF Range
<1>3. Messages(<<>>) = <<>>
  BY <1>2, ChosenNone DEF Messages
<1>4. Units(<<>>, s) = <<>>
  BY <1>2, UnitsNone
<1>5. <<>> \o <<>> = <<>>
  BY <1>2, ConcatEmptySeq
<1>6. SentTo(s) = <<>>
  BY <1>1, <1>3, <1>4, <1>5, SentIs DEF Sent
<1>7. RisingTo(<<>>, 0)
  BY <1>2 DEF RisingTo, Rising
<1>. QED
  BY <1>1, <1>2, <1>6, <1>7 DEF GapFree

\* For all connections, limits and numbers of messages: to every subscriber
\* that is listed and open each message was sent since it subscribed, once and
\* in order, and to nobody one twice or out of order.
THEOREM SubscribersMissNothing == PubSubSpec => []PushesGapless
<1>1. InitPubSub => Types /\ QueueInv /\ GapInv
  BY InitTypes, InitGap
<1>2. Types /\ QueueInv /\ GapInv /\ [PubSubNext]_pubSubVars => (Types /\ QueueInv /\ GapInv)'
  <2>. SUFFICES ASSUME Types, QueueInv, GapInv, [PubSubNext]_pubSubVars
                PROVE  (Types /\ QueueInv /\ GapInv)'
    OBVIOUS
  <2>1. ASSUME NEW s \in Conns PROVE GapFree(s)'
    <3>1. GapFreeNext(s)
      BY StepGap
    <3>2. SentTo(s)' = SentNext(s)
      BY DEF SentTo, SentNext, Sent, Messages, Units, UnitsOf, WritesTo
    <3>3. OpenFor(s)' <=> OpenNext(s)
      BY DEF OpenFor, OpenNext
    <3>. QED
      BY <3>1, <3>2, <3>3 DEF GapFree, GapFreeNext, NotYet
  <2>2. GapInv'
    BY <2>1 DEF GapInv
  <2>. QED
    BY <2>2, StepTypes, StepQueue
<1>3. Types /\ QueueInv /\ GapInv => PushesGapless
  <2>. SUFFICES ASSUME Types, QueueInv, GapInv, NEW s \in Conns
                PROVE  /\ Listening(s) => SentTo(s) = [i \in 1..(published - since[s]) |-> since[s] + i]
                       /\ \A i, j \in DOMAIN SentTo(s) : i < j => SentTo(s)[i] < SentTo(s)[j]
    BY DEF PushesGapless
  <2>1. GapFree(s)
    BY DEF GapInv
  <2>2. Listening(s) => s \in Range(channel) /\ OpenFor(s)
    BY DEF Listening, OpenFor, CloseIn, Range
  <2>. QED
    BY <2>1, <2>2 DEF GapFree, RisingTo, Rising, Run
<1>. QED
  BY <1>1, <1>2, <1>3, PTL DEF PubSubSpec
===============================================================================
