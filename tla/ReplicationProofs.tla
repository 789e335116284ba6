-------------------------- MODULE ReplicationProofs --------------------------
(***************************************************************************)
(* Proofs about Replication.tla, for any sessions, followers and bounds.   *)
(***************************************************************************)
EXTENDS Replication, FiniteSetTheorems, SequenceTheorems, TLAPS

USE DEF barrierVars, sessionVars, orderVars, followerVars, leaderVars

\* The barrier's counter is an integer; that it never goes below zero needs
\* the invariant of the barrier.
Types ==
  /\ inflight \in Int
  /\ syncing \in BOOLEAN
  /\ parked \subseteq Sessions \union Conns
  /\ SessionType
  /\ FollowerType
  /\ RoleType

LEMMA RestType ==
  ASSUME SessionType, NEW s \in Sessions, NEW w \in WritePc, Rest(s, w),
         UNCHANGED orderVars
  PROVE  SessionType'
BY DEF SessionType, Rest

LEMMA TypesInit == Init => Types
<1>. USE ReplicationAssumption DEF ReplicationAssumption
<1>. SUFFICES ASSUME Init PROVE Types
  OBVIOUS
<1>1. SessionType
  BY DEF Init, SessionType, WritePc
<1>2. FollowerType
  BY DEF Init, FollowerType, SyncPc
<1>3. RoleType
  BY DEF Init, RoleType, LinkPc
<1>4. inflight \in Int
  BY DEF Init
<1>5. syncing \in BOOLEAN /\ parked \subseteq Sessions \union Conns
  BY Zenon DEF Init
<1>. QED
  BY <1>1, <1>2, <1>3, <1>4, <1>5, Zenon DEF Types

LEMMA TypesWrite ==
  ASSUME Types, NEW s \in Sessions, WriteStep(s)
  PROVE  Types'
<1>. USE ReplicationAssumption DEF ReplicationAssumption, Types
<1>1. CASE Request(s)
  <2>1. SessionType'
    BY <1>1 DEF Request, EnterBarrier, SessionType, WritePc
  <2>2. FollowerType' /\ RoleType'
    BY <1>1 DEF Request, FollowerType, RoleType
  <2>. QED
    BY <1>1, <2>1, <2>2 DEF Request, EnterBarrier
<1>2. CASE Reenter(s)
  <2>1. SessionType'
    BY <1>2 DEF Reenter, EnterBarrier, SessionType, WritePc
  <2>2. FollowerType' /\ RoleType'
    BY <1>2 DEF Reenter, FollowerType, RoleType
  <2>. QED
    BY <1>2, <2>1, <2>2 DEF Reenter, EnterBarrier
<1>3. CASE TakeOrder(s)
  <2>1. SessionType'
    BY <1>3 DEF TakeOrder, SessionType, WritePc
  <2>2. FollowerType' /\ RoleType'
    BY <1>3 DEF TakeOrder, FollowerType, RoleType
  <2>. QED
    BY <1>3, <2>1, <2>2 DEF TakeOrder
<1>4. CASE Apply(s)
  <2>1. SessionType'
    BY <1>4 DEF Apply, SessionType, WritePc, RoleType
  <2>2. FollowerType' /\ RoleType'
    BY <1>4 DEF Apply, FollowerType, RoleType
  <2>. QED
    BY <1>4, <2>1, <2>2 DEF Apply
<1>5. CASE HandOff(s)
  <2>1. SessionType'
    BY <1>5 DEF HandOff, SessionType, WritePc
  <2>2. FollowerType' /\ RoleType'
    BY <1>5 DEF HandOff, FollowerType, RoleType
  <2>. QED
    BY <1>5, <2>1, <2>2 DEF HandOff
<1>6. CASE Resume(s)
  <2>1. SessionType'
    <3>1. CASE s \in cancelled
      BY <1>6, <3>1, RestType DEF Resume, EndSession, WritePc
    <3>2. CASE s \notin cancelled
      BY <1>6, <3>2 DEF Resume, SessionType, WritePc
    <3>. QED BY <3>1, <3>2
  <2>2. FollowerType' /\ RoleType'
    BY <1>6 DEF Resume, FollowerType, RoleType
  <2>. QED
    BY <1>6, <2>1, <2>2 DEF Resume, Wake
<1>7. CASE Reply(s)
  <2>1. SessionType'
    <3>1. CASE EndSession(s)
      BY <1>7, <3>1, RestType DEF Reply, EndSession, WritePc
    <3>2. CASE ~ EndSession(s)
      BY <1>7, <3>2 DEF Reply, SessionType, WritePc
    <3>. QED BY <3>1, <3>2
  <2>2. FollowerType' /\ RoleType'
    BY <1>7 DEF Reply, FollowerType, RoleType
  <2>. QED
    BY <1>7, <2>1, <2>2 DEF Reply
<1>8. CASE Drain(s)
  <2>1. SessionType'
    BY <1>8, RestType DEF Drain, WritePc
  <2>2. FollowerType' /\ RoleType'
    BY <1>8 DEF Drain, FollowerType, RoleType
  <2>. QED
    BY <1>8, <2>1, <2>2 DEF Drain
<1>9. CASE Cancel(s)
  <2>1. SessionType'
    <3>1. CASE EndSession(s)
      BY <1>9, <3>1, RestType DEF Cancel, EndSession, WritePc
    <3>2. CASE ~ EndSession(s)
      BY <1>9, <3>2 DEF Cancel, SessionType
    <3>. QED BY <3>1, <3>2
  <2>2. FollowerType' /\ RoleType'
    BY <1>9 DEF Cancel, FollowerType, RoleType
  <2>. QED
    BY <1>9, <2>1, <2>2 DEF Cancel
<1>. QED
  BY <1>1, <1>2, <1>3, <1>4, <1>5, <1>6, <1>7, <1>8, <1>9 DEF WriteStep

LEMMA TypesSync ==
  ASSUME Types, NEW c \in Conns, SyncStep(c)
  PROVE  Types'
<1>. USE DEF Types
<1>1. CASE SyncRequest(c)
  <2>1. FollowerType'
    BY <1>1 DEF SyncRequest, TakeSnapshotTurn, AwaitQuiet, FollowerType, SyncPc
  <2>2. SessionType' /\ RoleType'
    BY <1>1 DEF SyncRequest, SessionType, RoleType
  <2>. QED
    BY <1>1, <2>1, <2>2 DEF SyncRequest, TakeSnapshotTurn, AwaitQuiet
<1>2. CASE SyncRecheck(c)
  <2>1. FollowerType'
    BY <1>2 DEF SyncRecheck, TakeSnapshotTurn, AwaitQuiet, FollowerType, SyncPc
  <2>2. SessionType' /\ RoleType'
    BY <1>2 DEF SyncRecheck, SessionType, RoleType
  <2>. QED
    BY <1>2, <2>1, <2>2 DEF SyncRecheck, TakeSnapshotTurn, AwaitQuiet
<1>3. CASE Dump(c)
  <2>1. FollowerType'
    BY <1>3, ReplicationAssumption
    DEF Dump, FollowerType, SyncPc, RoleType, ReplicationAssumption
  <2>2. SessionType' /\ RoleType'
    BY <1>3 DEF Dump, SessionType, RoleType
  <2>. QED
    BY <1>3, <2>1, <2>2 DEF Dump
<1>4. CASE Register(c)
  <2>1. FollowerType'
    BY <1>4 DEF Register, FollowerType, SyncPc
  <2>2. SessionType' /\ RoleType'
    BY <1>4 DEF Register, SessionType, RoleType
  <2>. QED
    BY <1>4, <2>1, <2>2 DEF Register, Wake
<1>5. CASE SendBaseline(c)
  <2>1. FollowerType'
    BY <1>5 DEF SendBaseline, FollowerType, SyncPc
  <2>2. SessionType' /\ RoleType'
    BY <1>5 DEF SendBaseline, SessionType, RoleType
  <2>. QED
    BY <1>5, <2>1, <2>2 DEF SendBaseline
<1>6. CASE CancelSync(c)
  <2>1. FollowerType'
    BY <1>6 DEF CancelSync, FollowerType, SyncPc
  <2>2. SessionType' /\ RoleType'
    BY <1>6 DEF CancelSync, SessionType, RoleType
  <2>. QED
    BY <1>6, <2>1, <2>2 DEF CancelSync, Wake
<1>7. CASE Vanish(c)
  <2>1. FollowerType'
    BY <1>7 DEF Vanish, FollowerType
  <2>2. SessionType' /\ RoleType'
    BY <1>7 DEF Vanish, SessionType, RoleType
  <2>. QED
    BY <1>7, <2>1, <2>2 DEF Vanish
<1>. QED
  BY <1>1, <1>2, <1>3, <1>4, <1>5, <1>6, <1>7 DEF SyncStep

LEMMA TypesBroadcast ==
  ASSUME Types, Broadcast
  PROVE  Types'
<1>. USE DEF Types, Broadcast
<1>1. SessionType'
  BY DEF SessionType, FollowerType
<1>2. FollowerType'
  BY DEF SessionType, FollowerType
<1>3. RoleType'
  BY DEF RoleType
<1>. QED
  BY <1>1, <1>2, <1>3

LEMMA RoleFrame ==
  ASSUME RoleNext
  PROVE  UNCHANGED <<barrierVars, sessionVars, orderVars, followerVars>>
BY DEF RoleNext, ReplicaOf, Handshake, Restore, FollowLeader, Promote,
       LoseLeader, ApplyFromLeader

LEMMA TypesRole ==
  ASSUME Types, RoleNext
  PROVE  Types'
<1>1. RoleType'
  <2>. SUFFICES ASSUME RoleType PROVE RoleType'
    BY DEF Types
  <2>. USE ReplicationAssumption DEF ReplicationAssumption, RoleType, LinkPc
  <2>1. CASE ReplicaOf
    BY <2>1 DEF ReplicaOf
  <2>2. CASE Handshake
    BY <2>2 DEF Handshake
  <2>3. CASE Restore
    BY <2>3 DEF Restore
  <2>4. CASE FollowLeader
    BY <2>4 DEF FollowLeader
  <2>5. CASE Promote
    BY <2>5 DEF Promote
  <2>6. CASE LoseLeader
    BY <2>6 DEF LoseLeader
  <2>7. CASE \E n \in orphans : ApplyFromLeader(n)
    BY <2>7 DEF ApplyFromLeader
  <2>. QED
    BY <2>1, <2>2, <2>3, <2>4, <2>5, <2>6, <2>7 DEF RoleNext
<1>. QED
  BY <1>1, RoleFrame DEF Types, SessionType, FollowerType

LEMMA TypesNext == Types /\ [Next]_vars => Types'
<1>. SUFFICES ASSUME Types, [Next]_vars PROVE Types'
  OBVIOUS
<1>1. CASE UNCHANGED vars
  BY <1>1 DEF vars, Types, SessionType, FollowerType, RoleType
<1>. QED
  BY <1>1, TypesWrite, TypesSync, TypesBroadcast, TypesRole
  DEF Next, MasterNext

-----------------------------------------------------------------------------
(***************************************************************************)
(* The inductive invariant.                                                *)
(***************************************************************************)

\* The writes between "about to apply" and "buffered for followers".
Holders == {s \in Sessions : pc[s] \in {"submitted", "ordered", "applied", "handed"}}

OwnsBarrier(c) == sync[c] \in {"holding", "dumping", "dumped"}

\* The counter counts the writes in flight; one SYNC at a time owns the
\* barrier, and once it dumps there is no write in flight until it is done.
BarrierInv ==
  /\ inflight = Cardinality(Holders)
  /\ \A c \in Conns : OwnsBarrier(c) => syncing
  /\ \A c, d \in Conns : OwnsBarrier(c) /\ OwnsBarrier(d) => c = d
  /\ \A c \in Conns : sync[c] \in {"dumping", "dumped"} => Holders = {}

\* The write-order lock is held by the one thread between its two ends.
OrderInv ==
  \A s \in Sessions : pc[s] \in {"ordered", "applied"} <=> order = s

\* The change of a session exists, and is kept while the session needs it.
Numbered ==
  \A s \in Sessions :
    /\ change[s] <= applied
    /\ change[s] # 0 => pc[s] \in {"applied", "handed", "replying", "draining"}

Distinct ==
  \A s, t \in Sessions : s # t /\ change[s] # 0 => change[s] # change[t]

\* What is queued on the loop was applied in that order,
Sorted == \A i, j \in DOMAIN handoff : i < j => handoff[i] < handoff[j]

\* belongs to a write that is still in flight,
Owned ==
  \A i \in DOMAIN handoff : \E s \in Sessions :
    pc[s] = "handed" /\ change[s] = handoff[i] /\ change[s] # 0

\* and was applied before the write that is next to be queued.
Below ==
  \A s \in Sessions : pc[s] = "applied" /\ change[s] # 0 =>
    \A i \in DOMAIN handoff : handoff[i] < change[s]

ChangeInv == Numbered /\ Distinct /\ Sorted /\ Owned /\ Below

\* Nothing a follower already has is still on its way to it.
Beyond(c, n) == baseline[c] < n /\ \A i \in DOMAIN stream[c] : stream[c][i] < n

\* Before it is registered a follower has no stream.
Unfed ==
  \A c \in Conns : sync[c] \in BeforeBaseline =>
    stream[c] = <<>> /\ c \notin connected

FeedInv ==
  /\ Unfed
  /\ \A c \in Conns : Beyond(c, applied + 1)
  /\ \A c \in connected :
       /\ \A i \in DOMAIN handoff : Beyond(c, handoff[i])
       /\ \A s \in Sessions : pc[s] = "applied" /\ change[s] # 0 =>
            Beyond(c, change[s])

\* Before a first REPLICAOF this node is a master that follows nobody, and
NeverFollowed == role = "master" /\ link = "none" /\ orphans = {}

\* every change up to this one was given to the followers there were;
Given == applied - BeingHandedOff - Len(handoff)

\* the changes after it are in the loop's queue, one after the other,
Contiguous == \A i \in DOMAIN handoff : handoff[i] = Given + i

\* and at most the last one is still in its worker thread.
LastApplied ==
  \A s \in Sessions : pc[s] = "applied" /\ change[s] # 0 => change[s] = applied

\* A snapshot is the whole keyspace until its follower is registered.
FreshDump == \A c \in Conns : sync[c] = "dumped" => baseline[c] = applied

Exact ==
  \A c \in Conns :
    /\ \A i \in DOMAIN stream[c] : stream[c][i] = baseline[c] + i
    /\ c \in connected /\ c \in open => baseline[c] + Len(stream[c]) = Given

ExactInv ==
  demotions = 0 =>
    NeverFollowed /\ LastApplied /\ Contiguous /\ FreshDump /\ Exact

IInv ==
  /\ Types /\ BarrierInv /\ OrderInv /\ ChangeInv /\ FeedInv /\ InOrderOnce
  /\ ExactInv /\ NoSilentDrop

-----------------------------------------------------------------------------
(***************************************************************************)
(* The barrier.                                                            *)
(***************************************************************************)
LEMMA HoldersFinite ==
  /\ IsFiniteSet(Holders)
  /\ Cardinality(Holders) \in Nat
  /\ Cardinality(Holders) = 0 <=> Holders = {}
BY ReplicationAssumption, FS_Subset, FS_CardinalityType, FS_EmptySet
DEF Holders, ReplicationAssumption

\* A step that moves no session in or out of the barrier and changes no SYNC.
LEMMA BarrierFrame ==
  ASSUME BarrierInv, Holders' = Holders, UNCHANGED <<inflight, syncing, sync>>
  PROVE  BarrierInv'
BY Zenon DEF BarrierInv, OwnsBarrier

LEMMA EnterBarrierStep ==
  ASSUME Types, BarrierInv, NEW s \in Sessions, pc[s] \in {"idle", "entering"},
         EnterBarrier(s), UNCHANGED sync
  PROVE  BarrierInv'
<1>. USE DEF Types, SessionType
<1>1. CASE syncing
  <2>1. Holders' = Holders
    BY <1>1 DEF EnterBarrier, Holders
  <2>2. UNCHANGED <<inflight, syncing>>
    BY <1>1 DEF EnterBarrier
  <2>. QED
    BY <2>1, <2>2, BarrierFrame
<1>2. CASE ~syncing
  <2>1. Holders' = Holders \union {s} /\ s \notin Holders
    BY <1>2 DEF EnterBarrier, Holders
  <2>2. inflight' = Cardinality(Holders')
    BY <1>2, <2>1, HoldersFinite, FS_AddElement DEF EnterBarrier, BarrierInv
  <2>3. \A c \in Conns : ~OwnsBarrier(c) /\ ~OwnsBarrier(c)'
    BY <1>2 DEF BarrierInv, OwnsBarrier
  <2>. QED
    BY <2>2, <2>3 DEF BarrierInv, OwnsBarrier
<1>. QED
  BY <1>1, <1>2

LEMMA BarrierWrite ==
  ASSUME Types, BarrierInv, NEW s \in Sessions, WriteStep(s)
  PROVE  BarrierInv'
<1>. USE DEF Types, SessionType
<1>1. CASE Request(s) \/ Reenter(s)
  BY <1>1, EnterBarrierStep DEF Request, Reenter
<1>2. CASE TakeOrder(s) \/ Apply(s) \/ HandOff(s)
  <2>1. Holders' = Holders
    BY <1>2 DEF TakeOrder, Apply, HandOff, Holders
  <2>. QED
    BY <1>2, <2>1, BarrierFrame DEF TakeOrder, Apply, HandOff
<1>3. CASE Resume(s)
  <2>1. s \in Holders
    BY <1>3 DEF Resume, Holders
  <2>2. Holders' = Holders \ {s}
    BY <1>3 DEF Resume, EndSession, Rest, Holders
  <2>3. inflight' = Cardinality(Holders')
    BY <1>3, <2>1, <2>2, HoldersFinite, FS_RemoveElement DEF Resume, BarrierInv
  <2>4. UNCHANGED <<sync, syncing>>
    BY <1>3 DEF Resume
  <2>. QED
    BY <2>1, <2>2, <2>3, <2>4 DEF BarrierInv, OwnsBarrier
<1>4. CASE Reply(s) \/ Drain(s) \/ Cancel(s)
  <2>1. Holders' = Holders
    BY <1>4 DEF Reply, Drain, Cancel, EndSession, Rest, Holders
  <2>. QED
    BY <1>4, <2>1, BarrierFrame DEF Reply, Drain, Cancel
<1>. QED
  BY <1>1, <1>2, <1>3, <1>4 DEF WriteStep

LEMMA BarrierSync ==
  ASSUME Types, BarrierInv, NEW c \in Conns, SyncStep(c)
  PROVE  BarrierInv'
<1>. USE DEF Types, FollowerType
<1>1. Holders' = Holders
  BY DEF SyncStep, SyncRequest, SyncRecheck, Dump, Register, SendBaseline,
         CancelSync, Vanish, Holders
<1>2. CASE SyncRequest(c)
  <2>1. UNCHANGED inflight
    BY <1>2 DEF SyncRequest, TakeSnapshotTurn
  <2>. QED
    BY <1>1, <1>2, <2>1, HoldersFinite
    DEF SyncRequest, TakeSnapshotTurn, AwaitQuiet, BarrierInv, OwnsBarrier
<1>3. CASE SyncRecheck(c)
  <2>1. UNCHANGED inflight
    BY <1>3 DEF SyncRecheck, TakeSnapshotTurn
  <2>2. CASE sync[c] = "arriving"
    BY <1>1, <1>3, <2>1, <2>2, HoldersFinite
    DEF SyncRecheck, TakeSnapshotTurn, AwaitQuiet, BarrierInv, OwnsBarrier
  <2>3. CASE sync[c] = "holding"
    <3>1. \A d \in Conns : OwnsBarrier(d)' <=> OwnsBarrier(d)
      BY <1>3, <2>3 DEF SyncRecheck, AwaitQuiet, OwnsBarrier
    <3>2. UNCHANGED syncing
      BY <1>3, <2>3 DEF SyncRecheck
    <3>3. \A d \in Conns : sync'[d] \in {"dumping", "dumped"} => Holders = {}
      BY <1>3, <2>3, HoldersFinite DEF SyncRecheck, AwaitQuiet, BarrierInv
    <3>. QED
      BY <1>1, <2>1, <3>1, <3>2, <3>3 DEF BarrierInv
  <2>. QED
    BY <1>3, <2>2, <2>3 DEF SyncRecheck
<1>4. CASE Dump(c)
  BY <1>1, <1>4 DEF Dump, BarrierInv, OwnsBarrier
<1>5. CASE Register(c)
  BY <1>1, <1>5 DEF Register, BarrierInv, OwnsBarrier
<1>6. CASE SendBaseline(c)
  BY <1>1, <1>6 DEF SendBaseline, BarrierInv, OwnsBarrier
<1>7. CASE CancelSync(c)
  BY <1>1, <1>7 DEF CancelSync, BarrierInv, OwnsBarrier
<1>8. CASE Vanish(c)
  BY <1>1, <1>8, BarrierFrame DEF Vanish
<1>. QED
  BY <1>2, <1>3, <1>4, <1>5, <1>6, <1>7, <1>8 DEF SyncStep

LEMMA BarrierNext == Types /\ BarrierInv /\ [Next]_vars => BarrierInv'
<1>. SUFFICES ASSUME Types, BarrierInv, [Next]_vars PROVE BarrierInv'
  OBVIOUS
<1>1. CASE UNCHANGED vars
  BY <1>1, BarrierFrame DEF vars, Holders
<1>2. CASE Broadcast
  BY <1>2, BarrierFrame DEF Broadcast, Holders
<1>3. CASE RoleNext
  BY <1>3, RoleFrame, BarrierFrame DEF Holders
<1>. QED
  BY <1>1, <1>2, <1>3, BarrierWrite, BarrierSync DEF Next, MasterNext

-----------------------------------------------------------------------------
(***************************************************************************)
(* The write-order lock and the numbers of changes.                        *)
(***************************************************************************)
\* What the steps of a SYNC and of a role change leave alone.
LEMMA SyncFrame ==
  ASSUME NEW c \in Conns, SyncStep(c)
  PROVE  UNCHANGED <<applied, role, sessionVars, orderVars, stream, leaderVars>>
BY DEF SyncStep, SyncRequest, SyncRecheck, Dump, Register, SendBaseline,
       CancelSync, Vanish

LEMMA AppliedGrows ==
  ASSUME Types, [Next]_vars
  PROVE  applied \in Nat /\ applied' \in Nat /\ applied <= applied'
<1>1. applied \in Nat /\ applied' \in Nat
  BY TypesNext, ReplicationAssumption DEF Types, RoleType, ReplicationAssumption
<1>2. ASSUME NEW s \in Sessions, WriteStep(s) PROVE applied <= applied'
  BY <1>1, <1>2 DEF WriteStep, Request, Reenter, TakeOrder, Apply, HandOff,
                    Resume, Reply, Drain, Cancel
<1>3. CASE RoleNext
  BY <1>1, <1>3 DEF RoleNext, ReplicaOf, Handshake, Restore, FollowLeader,
                    Promote, LoseLeader, ApplyFromLeader
<1>4. CASE Broadcast \/ UNCHANGED vars
  BY <1>1, <1>4 DEF Broadcast, vars
<1>. QED
  BY <1>1, <1>2, <1>3, <1>4, SyncFrame DEF Next, MasterNext

LEMMA OrderNext == Types /\ OrderInv /\ [Next]_vars => OrderInv'
<1>. SUFFICES ASSUME Types, OrderInv, [Next]_vars PROVE OrderInv'
  OBVIOUS
<1>. USE ReplicationAssumption
     DEF ReplicationAssumption, Types, SessionType, OrderInv
<1>1. CASE UNCHANGED vars
  BY <1>1 DEF vars
<1>2. CASE RoleNext
  BY <1>2, RoleFrame
<1>3. ASSUME NEW c \in Conns, SyncStep(c) PROVE OrderInv'
  BY <1>3, SyncFrame
<1>4. CASE Broadcast
  BY <1>4 DEF Broadcast
<1>5. ASSUME NEW s \in Sessions, WriteStep(s) PROVE OrderInv'
  <2>1. CASE Request(s)
    BY <2>1 DEF Request, EnterBarrier
  <2>2. CASE Reenter(s)
    BY <2>2 DEF Reenter, EnterBarrier
  <2>3. CASE TakeOrder(s)
    BY <2>3 DEF TakeOrder
  <2>4. CASE Apply(s)
    BY <2>4 DEF Apply
  <2>5. CASE HandOff(s)
    BY <2>5 DEF HandOff
  <2>6. CASE Resume(s)
    BY <2>6 DEF Resume, EndSession, Rest
  <2>7. CASE Reply(s)
    BY <2>7 DEF Reply, EndSession, Rest
  <2>8. CASE Drain(s)
    BY <2>8 DEF Drain, Rest
  <2>9. CASE Cancel(s)
    BY <2>9 DEF Cancel, EndSession, Rest
  <2>. QED
    BY <1>5, <2>1, <2>2, <2>3, <2>4, <2>5, <2>6, <2>7, <2>8, <2>9 DEF WriteStep
<1>. QED
  BY <1>1, <1>2, <1>3, <1>4, <1>5 DEF Next, MasterNext

\* A step that changes neither the changes of the sessions nor the queue, and
\* that keeps each session where its change allows.
LEMMA ChangeFrame ==
  ASSUME Types, ChangeInv, applied \in Nat, applied' \in Nat, applied <= applied',
         UNCHANGED <<change, handoff>>,
         \A t \in Sessions : change[t] # 0 =>
           pc'[t] \in {"applied", "handed", "replying", "draining"},
         \A t \in Sessions : pc'[t] = "applied" /\ change[t] # 0 => pc[t] = "applied",
         \A t \in Sessions, i \in DOMAIN handoff :
           pc[t] = "handed" /\ change[t] = handoff[i] => pc'[t] = "handed"
  PROVE  ChangeInv'
<1>. USE DEF Types, SessionType, ChangeInv
<1>1. Numbered' /\ Distinct'
  BY DEF Numbered, Distinct
<1>2. Sorted'
  BY DEF Sorted
<1>3. Owned'
  BY DEF Owned
<1>4. Below'
  BY DEF Below
<1>. QED
  BY <1>1, <1>2, <1>3, <1>4

\* A session that leaves its write keeps the numbers in order, if its change
\* is no longer queued.
LEMMA ChangeRest ==
  ASSUME Types, ChangeInv, applied \in Nat, NEW s \in Sessions,
         NEW w \in {"idle", "gone"},
         \A i \in DOMAIN handoff : handoff[i] # change[s],
         Rest(s, w), UNCHANGED <<applied, handoff>>
  PROVE  ChangeInv'
<1>. USE DEF Types, SessionType, ChangeInv, Rest
<1>1. Numbered' /\ Distinct'
  BY DEF Numbered, Distinct
<1>2. Sorted'
  BY DEF Sorted
<1>3. Owned'
  BY DEF Owned
<1>4. Below'
  BY DEF Below
<1>. QED
  BY <1>1, <1>2, <1>3, <1>4

\* The change of a session that is not waiting for its callback is not queued.
LEMMA NotQueued ==
  ASSUME Types, ChangeInv, NEW s \in Sessions, pc[s] # "handed"
  PROVE  \A i \in DOMAIN handoff : handoff[i] # change[s]
BY DEF Types, SessionType, ChangeInv, Owned, Distinct

LEMMA NothingQueued ==
  ASSUME Types, ChangeInv, \A s \in Sessions : pc[s] # "handed"
  PROVE  handoff = <<>>
<1>1. 1 \notin DOMAIN handoff
  BY DEF ChangeInv, Owned
<1>. QED
  BY <1>1 DEF Types, SessionType

LEMMA ChangeWrite ==
  ASSUME Types, OrderInv, ChangeInv, NEW s \in Sessions, WriteStep(s)
  PROVE  ChangeInv'
<1>. USE DEF Types, SessionType
<1>0. [Next]_vars
  BY DEF Next, MasterNext
<1>1. CASE Request(s) \/ Reenter(s)
  BY <1>1, <1>0, AppliedGrows, ChangeFrame
  DEF Request, Reenter, EnterBarrier, ChangeInv, Numbered
<1>2. CASE TakeOrder(s)
  BY <1>2, <1>0, AppliedGrows, ChangeFrame DEF TakeOrder, ChangeInv, Numbered
<1>3. CASE Apply(s)
  <2>1. change[s] = 0
    BY <1>3 DEF Apply, ChangeInv, Numbered
  <2>2. CASE UNCHANGED <<applied, change>>
    BY <1>3, <2>1, <2>2, <1>0, AppliedGrows, ChangeFrame
    DEF Apply, ChangeInv, Numbered
  <2>3. CASE applied' = applied + 1 /\ change' = [change EXCEPT ![s] = applied + 1]
    <3>. USE <1>0, <1>3, <2>1, <2>3, AppliedGrows DEF Apply, ChangeInv
    <3>1. Numbered' /\ Distinct'
      BY DEF Numbered, Distinct
    <3>2. Sorted' /\ Owned'
      BY DEF Sorted, Owned
    <3>3. \A i \in DOMAIN handoff : handoff[i] <= applied
      BY DEF Owned, Numbered
    <3>4. \A t \in Sessions : pc'[t] = "applied" => t = s
      BY DEF OrderInv
    <3>5. Below'
      BY <3>3, <3>4 DEF Below
    <3>. QED
      BY <3>1, <3>2, <3>5
  <2>. QED
    BY <1>3, <2>2, <2>3 DEF Apply
<1>4. CASE HandOff(s)
  <2>1. \A t \in Sessions : pc'[t] # "applied"
    BY <1>4 DEF HandOff, OrderInv
  <2>2. CASE handoff' = handoff
    BY <1>4, <2>1, <2>2, <1>0, AppliedGrows, ChangeFrame
    DEF HandOff, ChangeInv, Numbered
  <2>3. CASE change[s] # 0 /\ handoff' = Append(handoff, change[s])
    <3>. USE <1>4, <2>3 DEF HandOff, ChangeInv
    <3>1. Numbered' /\ Distinct'
      BY DEF Numbered, Distinct
    <3>2. Sorted'
      BY DEF Sorted, Below
    <3>3. Owned'
      <4>. SUFFICES ASSUME NEW i \in DOMAIN handoff'
                    PROVE  \E t \in Sessions :
                             pc'[t] = "handed" /\ change'[t] = handoff'[i] /\ change'[t] # 0
        BY DEF Owned
      <4>1. CASE i = Len(handoff) + 1
        BY <4>1
      <4>2. CASE i \in DOMAIN handoff
        <5>1. PICK t \in Sessions : pc[t] = "handed" /\ change[t] = handoff[i] /\ change[t] # 0
          BY <4>2 DEF Owned
        <5>. QED
          BY <4>2, <5>1
      <4>. QED
        BY <4>1, <4>2
    <3>4. Below'
      BY <2>1 DEF Below
    <3>. QED
      BY <3>1, <3>2, <3>3, <3>4
  <2>. QED
    BY <1>4, <2>2, <2>3 DEF HandOff
<1>5. CASE Resume(s)
  <2>1. CASE s \in cancelled
    BY <1>5, <2>1, <1>0, AppliedGrows, ChangeRest DEF Resume, EndSession
  <2>2. CASE s \notin cancelled
    BY <1>5, <2>2, <1>0, AppliedGrows, ChangeFrame DEF Resume, ChangeInv, Numbered
  <2>. QED
    BY <2>1, <2>2
<1>6. CASE Reply(s)
  <2>1. CASE EndSession(s)
    BY <1>6, <2>1, <1>0, AppliedGrows, NotQueued, ChangeRest DEF Reply, EndSession
  <2>2. CASE ~EndSession(s)
    BY <1>6, <2>2, <1>0, AppliedGrows, ChangeFrame DEF Reply, ChangeInv, Numbered
  <2>. QED
    BY <2>1, <2>2
<1>7. CASE Drain(s)
  BY <1>7, <1>0, AppliedGrows, NotQueued, ChangeRest DEF Drain
<1>8. CASE Cancel(s)
  <2>1. CASE EndSession(s) /\ pc[s] \in {"entering", "replying", "draining"}
    BY <1>8, <2>1, <1>0, AppliedGrows, NotQueued, ChangeRest DEF Cancel, EndSession
  <2>2. CASE UNCHANGED <<pc, change>>
    BY <1>8, <2>2, <1>0, AppliedGrows, ChangeFrame DEF Cancel, ChangeInv, Numbered
  <2>. QED
    BY <1>8, <2>1, <2>2 DEF Cancel
<1>. QED
  BY <1>1, <1>2, <1>3, <1>4, <1>5, <1>6, <1>7, <1>8 DEF WriteStep

LEMMA ChangeBroadcast ==
  ASSUME Types, ChangeInv, Broadcast
  PROVE  ChangeInv'
<1>. USE DEF Types, SessionType, ChangeInv, Broadcast
<1>1. \A i \in DOMAIN handoff' :
        i + 1 \in DOMAIN handoff /\ handoff'[i] = handoff[i + 1]
  OBVIOUS
<1>2. Numbered' /\ Distinct'
  BY DEF Numbered, Distinct
<1>3. Sorted'
  BY <1>1 DEF Sorted
<1>4. Owned'
  BY <1>1 DEF Owned
<1>5. Below'
  BY <1>1 DEF Below
<1>. QED
  BY <1>2, <1>3, <1>4, <1>5

LEMMA ChangeNext ==
  Types /\ OrderInv /\ ChangeInv /\ [Next]_vars => ChangeInv'
<1>. SUFFICES ASSUME Types, OrderInv, ChangeInv, [Next]_vars PROVE ChangeInv'
  OBVIOUS
<1>1. ASSUME UNCHANGED <<pc, change, handoff>> PROVE ChangeInv'
  BY <1>1, AppliedGrows, ChangeFrame DEF Types, SessionType, ChangeInv, Numbered
<1>2. CASE UNCHANGED vars
  BY <1>1, <1>2 DEF vars
<1>3. CASE RoleNext
  BY <1>1, <1>3, RoleFrame
<1>4. ASSUME NEW c \in Conns, SyncStep(c) PROVE ChangeInv'
  BY <1>1, <1>4, SyncFrame
<1>. QED
  BY <1>2, <1>3, <1>4, ChangeBroadcast, ChangeWrite DEF Next, MasterNext

-----------------------------------------------------------------------------
(***************************************************************************)
(* What followers are fed.                                                 *)
(***************************************************************************)
Feeds == Types /\ BarrierInv /\ OrderInv /\ ChangeInv /\ FeedInv

\* A step that only adds changes or removes followers.
LEMMA FeedFrame ==
  ASSUME Types, FeedInv, applied \in Nat, applied' \in Nat, applied <= applied',
         UNCHANGED <<handoff, stream, baseline>>, connected' \subseteq connected,
         \A c \in Conns : sync'[c] \in BeforeBaseline => sync[c] \in BeforeBaseline,
         \A s \in Sessions : pc'[s] = "applied" /\ change'[s] # 0 =>
           \/ pc[s] = "applied" /\ change[s] = change'[s]
           \/ change'[s] = applied + 1
  PROVE  FeedInv'
<1>. USE DEF Types, FollowerType, SessionType, FeedInv
<1>1. Unfed'
  BY DEF Unfed
<1>2. \A c \in Conns : Beyond(c, applied + 1)'
  BY DEF Beyond
<1>3. \A c \in connected : \A i \in DOMAIN handoff : Beyond(c, handoff[i])'
  BY DEF Beyond
<1>4. ASSUME NEW c \in connected, NEW s \in Sessions,
             pc'[s] = "applied", change'[s] # 0
      PROVE  Beyond(c, change[s])'
  <2>1. CASE pc[s] = "applied" /\ change[s] = change'[s]
    BY <1>4, <2>1 DEF Beyond
  <2>2. CASE change'[s] = applied + 1
    <3>1. Beyond(c, applied + 1)
      OBVIOUS
    <3>. QED
      BY <2>2, <3>1 DEF Beyond
  <2>. QED
    BY <1>4, <2>1, <2>2
<1>. QED
  BY <1>1, <1>2, <1>3, <1>4

LEMMA FeedWrite ==
  ASSUME Feeds, NEW s \in Sessions, WriteStep(s)
  PROVE  FeedInv'
<1>. USE DEF Feeds, Types, SessionType
<1>0. [Next]_vars
  BY DEF Next, MasterNext
<1>1. CASE Request(s) \/ Reenter(s)
  BY <1>1, <1>0, AppliedGrows, FeedFrame DEF Request, Reenter, EnterBarrier
<1>2. CASE TakeOrder(s)
  BY <1>2, <1>0, AppliedGrows, FeedFrame DEF TakeOrder
<1>3. CASE Apply(s)
  <2>1. change[s] = 0
    BY <1>3 DEF Apply, ChangeInv, Numbered
  <2>. QED
    BY <1>3, <2>1, <1>0, AppliedGrows, FeedFrame DEF Apply
<1>4. CASE HandOff(s)
  <2>. USE <1>4 DEF HandOff
  <2>1. UNCHANGED <<applied, stream, baseline, sync, connected, change>>
    OBVIOUS
  <2>2. \A t \in Sessions : pc'[t] # "applied"
    BY DEF OrderInv
  <2>3. ASSUME NEW c \in connected, NEW i \in DOMAIN handoff'
        PROVE  Beyond(c, handoff'[i])
    <3>1. CASE i \in DOMAIN handoff /\ handoff'[i] = handoff[i]
      BY <2>3, <3>1 DEF FeedInv
    <3>2. CASE change[s] # 0 /\ handoff'[i] = change[s]
      BY <2>3, <3>2 DEF FeedInv
    <3>. QED
      BY <2>3, <3>1, <3>2
  <2>. QED
    BY <2>1, <2>2, <2>3 DEF FeedInv, Unfed, Beyond
<1>5. CASE Resume(s)
  BY <1>5, <1>0, AppliedGrows, FeedFrame DEF Resume, EndSession, Rest
<1>6. CASE Reply(s)
  BY <1>6, <1>0, AppliedGrows, FeedFrame DEF Reply, EndSession, Rest
<1>7. CASE Drain(s)
  BY <1>7, <1>0, AppliedGrows, FeedFrame DEF Drain, Rest
<1>8. CASE Cancel(s)
  BY <1>8, <1>0, AppliedGrows, FeedFrame DEF Cancel, EndSession, Rest
<1>. QED
  BY <1>1, <1>2, <1>3, <1>4, <1>5, <1>6, <1>7, <1>8 DEF WriteStep

LEMMA FeedSync ==
  ASSUME Feeds, NEW c \in Conns, SyncStep(c)
  PROVE  FeedInv'
<1>. USE DEF Feeds
<1>0. [Next]_vars
  BY DEF Next, MasterNext
<1>1. CASE SyncRequest(c) \/ SyncRecheck(c)
  BY <1>1, <1>0, AppliedGrows, FeedFrame
  DEF SyncRequest, SyncRecheck, TakeSnapshotTurn, AwaitQuiet, Types,
      FollowerType, BeforeBaseline
<1>2. CASE Dump(c)
  <2>. USE <1>2 DEF Dump, Types, FollowerType
  <2>1. c \notin connected /\ stream[c] = <<>>
    BY DEF FeedInv, Unfed, BeforeBaseline
  <2>2. Unfed'
    BY DEF FeedInv, Unfed, BeforeBaseline
  <2>3. \A d \in Conns : Beyond(d, applied + 1)'
    BY <2>1, <1>0, AppliedGrows DEF FeedInv, Beyond
  <2>4. \A d \in connected : baseline'[d] = baseline[d]
    BY <2>1
  <2>. QED
    BY <2>2, <2>3, <2>4 DEF FeedInv, Beyond
<1>3. CASE Register(c)
  <2>. USE <1>3 DEF Register, Types, FollowerType
  <2>1. Holders = {}
    BY DEF BarrierInv
  <2>2. \A s \in Sessions : pc[s] \notin {"applied", "handed"}
    BY <2>1 DEF Holders
  <2>3. handoff = <<>>
    BY <2>2, NothingQueued
  <2>4. Unfed'
    BY DEF FeedInv, Unfed, BeforeBaseline
  <2>5. \A d \in Conns : Beyond(d, applied + 1)'
    BY <1>0, AppliedGrows DEF FeedInv, Beyond
  <2>. QED
    BY <2>2, <2>3, <2>4, <2>5 DEF FeedInv
<1>4. CASE SendBaseline(c)
  BY <1>4, <1>0, AppliedGrows, FeedFrame
  DEF SendBaseline, Types, FollowerType, BeforeBaseline
<1>5. CASE CancelSync(c)
  <2>. USE <1>5 DEF CancelSync, Types, FollowerType
  <2>1. c \notin connected
    BY DEF FeedInv, Unfed, BeforeBaseline
  <2>2. Unfed'
    BY DEF FeedInv, Unfed, BeforeBaseline
  <2>3. \A d \in Conns : Beyond(d, applied + 1)'
    BY <1>0, AppliedGrows DEF FeedInv, Beyond
  <2>4. \A d \in connected : baseline'[d] = baseline[d]
    BY <2>1
  <2>. QED
    BY <2>2, <2>3, <2>4 DEF FeedInv, Beyond
<1>6. CASE Vanish(c)
  BY <1>6, <1>0, AppliedGrows, FeedFrame DEF Vanish
<1>. QED
  BY <1>1, <1>2, <1>3, <1>4, <1>5, <1>6 DEF SyncStep

LEMMA FeedBroadcast ==
  ASSUME Feeds, Broadcast
  PROVE  FeedInv'
<1>. USE DEF Feeds, Types, SessionType, FollowerType, Broadcast
<1>0. applied \in Nat
  BY AppliedGrows DEF Next, MasterNext
<1>1. \A i \in DOMAIN handoff' :
        i + 1 \in DOMAIN handoff /\ handoff'[i] = handoff[i + 1]
  OBVIOUS
<1>2. 1 \in DOMAIN handoff /\ Head(handoff) = handoff[1]
  OBVIOUS
<1>3. Unfed'
  BY DEF FeedInv, Unfed
<1>4. handoff[1] <= applied
  BY <1>2 DEF ChangeInv, Owned, Numbered
<1>5. ASSUME NEW c \in Conns, NEW n \in Nat, Beyond(c, n), handoff[1] < n
      PROVE  Beyond(c, n)'
  BY <1>2, <1>5 DEF Beyond
<1>6. \A c \in Conns : Beyond(c, applied + 1)'
  BY <1>0, <1>2, <1>4, <1>5 DEF FeedInv
<1>7. \A c \in connected : \A i \in DOMAIN handoff' : Beyond(c, handoff[i])'
  BY <1>1, <1>2, <1>5 DEF FeedInv, ChangeInv, Sorted
<1>8. \A c \in connected : \A s \in Sessions :
        pc[s] = "applied" /\ change[s] # 0 => Beyond(c, change[s])'
  BY <1>2, <1>5 DEF FeedInv, ChangeInv, Below
<1>. QED
  BY <1>3, <1>6, <1>7, <1>8 DEF FeedInv

LEMMA FeedNext == Feeds /\ [Next]_vars => FeedInv'
<1>. SUFFICES ASSUME Feeds, [Next]_vars PROVE FeedInv'
  OBVIOUS
<1>1. CASE UNCHANGED vars
  BY <1>1, AppliedGrows, FeedFrame DEF vars, Feeds
<1>2. CASE RoleNext
  BY <1>2, RoleFrame, AppliedGrows, FeedFrame DEF Feeds
<1>. QED
  BY <1>1, <1>2, FeedWrite, FeedSync, FeedBroadcast DEF Next, MasterNext

\* InOrderOnce follows step by step: only Broadcast writes to a follower, and
\* only Dump, Register and CancelSync move a baseline, of a follower that has
\* no stream.
LEMMA InOrderNext == Feeds /\ InOrderOnce /\ [Next]_vars => InOrderOnce'
<1>. SUFFICES ASSUME Feeds, InOrderOnce, [Next]_vars PROVE InOrderOnce'
  OBVIOUS
<1>. USE DEF Feeds, Types, FollowerType
<1>1. ASSUME UNCHANGED <<baseline, stream>> PROVE InOrderOnce'
  BY <1>1 DEF InOrderOnce
<1>2. CASE Broadcast
  <2>1. 1 \in DOMAIN handoff /\ Head(handoff) = handoff[1] /\ handoff[1] \in Nat
    BY <1>2 DEF Broadcast, SessionType
  <2>2. \A c \in connected : Beyond(c, handoff[1])
    BY <2>1 DEF FeedInv
  <2>3. ASSUME NEW c \in Conns
        PROVE  \/ stream'[c] = stream[c]
               \/ stream'[c] = Append(stream[c], handoff[1]) /\ Beyond(c, handoff[1])
    BY <1>2, <2>1, <2>2 DEF Broadcast
  <2>4. UNCHANGED baseline /\ stream \in [Conns -> Seq(Nat)] /\ baseline \in [Conns -> Nat]
    BY <1>2 DEF Broadcast
  <2>. HIDE DEF Types, FollowerType
  <2>5. ASSUME NEW c \in Conns
        PROVE  /\ \A i \in DOMAIN stream'[c] : baseline'[c] < stream'[c][i]
               /\ \A i, j \in DOMAIN stream'[c] : i < j => stream'[c][i] < stream'[c][j]
    <3>1. CASE stream'[c] = stream[c]
      BY <2>4, <3>1 DEF InOrderOnce
    <3>2. CASE stream'[c] = Append(stream[c], handoff[1]) /\ Beyond(c, handoff[1])
      <4>. DEFINE q == stream[c]
                  r == stream'[c]
                  len == Len(stream[c])
      <4>1. /\ len \in Nat /\ DOMAIN q = 1..len /\ DOMAIN r = 1..(len + 1)
            /\ r[len + 1] = handoff[1] /\ \A i \in 1..len : r[i] = q[i]
        BY <2>4, <3>2
      <4>2. /\ \A i \in 1..len : baseline[c] < q[i] /\ q[i] < handoff[1]
            /\ \A i, j \in 1..len : i < j => q[i] < q[j]
            /\ baseline[c] < handoff[1] /\ baseline'[c] = baseline[c]
        BY <2>4, <3>2, <4>1 DEF InOrderOnce, Beyond
      <4>. HIDE DEF q, r, len
      <4>3. ASSUME NEW i \in 1..(len + 1) PROVE baseline'[c] < r[i]
        <5>1. CASE i = len + 1
          BY <4>1, <4>2, <5>1
        <5>2. CASE i \in 1..len
          BY <4>1, <4>2, <5>2
        <5>. QED
          BY <4>1, <5>1, <5>2
      <4>4. ASSUME NEW i \in 1..(len + 1), NEW j \in 1..(len + 1), i < j
            PROVE  r[i] < r[j]
        <5>1. i \in 1..len
          BY <4>1, <4>4
        <5>2. CASE j = len + 1
          BY <4>1, <4>2, <5>1, <5>2
        <5>3. CASE j \in 1..len
          BY <4>1, <4>2, <4>4, <5>1, <5>3
        <5>. QED
          BY <4>1, <5>2, <5>3
      <4>. QED
        BY <4>1, <4>3, <4>4 DEF r
    <3>. QED
      BY <2>3, <3>1, <3>2
  <2>. QED
    BY <2>5 DEF InOrderOnce
<1>3. ASSUME NEW c \in Conns, SyncStep(c) PROVE InOrderOnce'
  <2>1. CASE sync[c] \in {"arriving", "holding", "dumping", "dumped"}
    <3>1. stream[c] = <<>>
      BY <2>1 DEF FeedInv, Unfed, BeforeBaseline
    <3>2. \A d \in Conns \ {c} : baseline'[d] = baseline[d]
      BY <1>3 DEF SyncStep, SyncRequest, SyncRecheck, Dump, Register,
                  SendBaseline, CancelSync, Vanish
    <3>3. UNCHANGED stream
      BY <1>3, SyncFrame
    <3>4. DOMAIN stream'[c] = {}
      BY <3>1, <3>3
    <3>5. ASSUME NEW d \in Conns \ {c}
          PROVE  baseline'[d] = baseline[d] /\ stream'[d] = stream[d]
      BY <3>2, <3>3
    <3>. QED
      BY <3>4, <3>5 DEF InOrderOnce
  <2>2. CASE sync[c] \notin {"arriving", "holding", "dumping", "dumped"}
    <3>1. UNCHANGED baseline
      BY <1>3, <2>2 DEF SyncStep, SyncRequest, SyncRecheck, Dump, Register,
                        SendBaseline, CancelSync, Vanish
    <3>. QED
      BY <1>1, <1>3, <3>1, SyncFrame
  <2>. QED
    BY <2>1, <2>2
<1>4. ASSUME NEW s \in Sessions, WriteStep(s) PROVE InOrderOnce'
  BY <1>1, <1>4 DEF WriteStep, Request, Reenter, TakeOrder, Apply, HandOff,
                    Resume, Reply, Drain, Cancel
<1>5. CASE RoleNext
  BY <1>1, <1>5, RoleFrame
<1>6. CASE UNCHANGED vars
  BY <1>1, <1>6 DEF vars
<1>. QED
  BY <1>2, <1>3, <1>4, <1>5, <1>6 DEF Next, MasterNext

-----------------------------------------------------------------------------
(***************************************************************************)
(* Until a first REPLICAOF: the stream of a follower has no gap.           *)
(***************************************************************************)
LEMMA GivenType == Types => applied \in Nat /\ Len(handoff) \in Nat /\ Given \in Int
BY ReplicationAssumption
DEF Types, RoleType, SessionType, ReplicationAssumption, Given, BeingHandedOff

\* The change in the thread that holds the write-order lock, if there is one,
\* is the only one that is applied and not yet queued.
LEMMA HandedOffBy ==
  ASSUME Types, OrderInv, NEW s \in Sessions, pc[s] = "applied"
  PROVE  BeingHandedOff = IF change[s] # 0 THEN 1 ELSE 0
BY ReplicationAssumption DEF OrderInv, BeingHandedOff, ReplicationAssumption

LEMMA NothingHandedOff ==
  ASSUME Types, OrderInv, \A s \in Sessions : ~(pc[s] = "applied" /\ change[s] # 0)
  PROVE  BeingHandedOff = 0
BY DEF Types, SessionType, BeingHandedOff

\* A step that moves no change between the keyspace, the thread, the queue
\* and the followers, and that only removes followers.
LEMMA ExactFrame ==
  ASSUME ExactInv, demotions' = 0 => demotions = 0,
         UNCHANGED <<applied, handoff, stream, baseline, role, link, orphans>>,
         BeingHandedOff' = BeingHandedOff,
         connected' \intersect open' \subseteq connected \intersect open,
         \A s \in Sessions : pc'[s] = "applied" /\ change'[s] # 0 =>
           pc[s] = "applied" /\ change'[s] = change[s],
         \A c \in Conns : sync'[c] = "dumped" => sync[c] = "dumped"
  PROVE  ExactInv'
<1>. SUFFICES ASSUME demotions = 0
              PROVE  (NeverFollowed /\ LastApplied /\ Contiguous /\ FreshDump /\ Exact)'
  BY DEF ExactInv
<1>. USE DEF ExactInv
<1>1. Given' = Given
  BY DEF Given
<1>2. NeverFollowed' /\ LastApplied'
  BY DEF NeverFollowed, LastApplied
<1>3. Contiguous' /\ FreshDump'
  BY <1>1 DEF Contiguous, FreshDump
<1>4. Exact'
  BY <1>1 DEF Exact
<1>. QED
  BY <1>2, <1>3, <1>4

\* The steps of a session that neither apply a change nor queue one.
LEMMA QuietWrite ==
  ASSUME Types, OrderInv, NEW s \in Sessions,
         pc[s] \notin {"ordered", "applied"}, pc'[s] # "applied",
         \A t \in Sessions \ {s} : pc'[t] = pc[t] /\ change'[t] = change[t],
         order' = order \/ (order = NoOne /\ order' = s)
  PROVE  /\ BeingHandedOff' = BeingHandedOff
         /\ \A t \in Sessions : pc'[t] = "applied" /\ change'[t] # 0 =>
              pc[t] = "applied" /\ change'[t] = change[t]
<1>. USE ReplicationAssumption
     DEF Types, SessionType, OrderInv, BeingHandedOff, ReplicationAssumption
<1>1. CASE order' = order
  BY <1>1
<1>2. CASE order = NoOne /\ order' = s
  BY <1>2
<1>. QED
  BY <1>1, <1>2

\* The numbers from b + 1 to n, and the next one.
IsRun(s, b, n) == b + Len(s) = n /\ \A i \in 1..Len(s) : s[i] = b + i

LEMMA RunGrows ==
  ASSUME NEW s \in Seq(Nat), NEW b \in Int, NEW n \in Int, IsRun(s, b, n)
  PROVE  IsRun(Append(s, n + 1), b, n + 1)
<1>. DEFINE t == Append(s, n + 1)
            len == Len(s)
<1>1. /\ len \in Nat /\ Len(t) = len + 1 /\ DOMAIN t = 1..(len + 1)
      /\ t[len + 1] = n + 1
      /\ \A i \in 1..len : t[i] = s[i]
  OBVIOUS
<1>2. b + len = n /\ \A i \in 1..len : s[i] = b + i
  BY DEF IsRun
<1>. HIDE DEF t, len
<1>4. b + (len + 1) = n + 1
  BY <1>1, <1>2
<1>3. ASSUME NEW i \in 1..(len + 1) PROVE t[i] = b + i
  <2>1. CASE i = len + 1
    <3>1. t[len + 1] = n + 1
      BY <1>1
    <3>. QED
      BY <1>4, <2>1, <3>1, Zenon
  <2>2. CASE i # len + 1
    <3>1. i \in 1..len
      BY <1>1, <2>2
    <3>. QED
      BY <1>1, <1>2, <3>1
  <2>. QED
    BY <2>1, <2>2
<1>5. IsRun(t, b, n + 1)
  BY <1>1, <1>3, <1>4 DEF IsRun
<1>. QED
  BY <1>5 DEF t

LEMMA ExactWrite ==
  ASSUME Feeds, ExactInv, NEW s \in Sessions, WriteStep(s)
  PROVE  ExactInv'
<1>. USE DEF Feeds, Types, SessionType
<1>0. /\ UNCHANGED <<role, link, orphans, demotions, stream, baseline, sync>>
      /\ connected' \intersect open' \subseteq connected \intersect open
  BY DEF WriteStep, Request, Reenter, EnterBarrier, TakeOrder, Apply, HandOff,
         Resume, Reply, Drain, Cancel
<1>1. CASE Apply(s)
  <2>. USE <1>0, <1>1, GivenType DEF Apply
  <2>1. change[s] = 0
    BY DEF ChangeInv, Numbered
  <2>2. BeingHandedOff = 0
    BY <2>1, NothingHandedOff DEF OrderInv
  <2>3. Types' /\ OrderInv'
    BY TypesNext, OrderNext DEF Next, MasterNext
  <2>4. \A c \in Conns : sync[c] # "dumped"
    BY DEF BarrierInv, Holders
  <2>5. CASE UNCHANGED <<applied, change>>
    <3>1. BeingHandedOff' = 0
      BY <2>1, <2>3, <2>5, HandedOffBy DEF BeingHandedOff, OrderInv
    <3>. QED
      BY <2>1, <2>2, <2>5, <3>1, ExactFrame
  <2>6. CASE applied' = applied + 1 /\ change' = [change EXCEPT ![s] = applied + 1]
    <3>1. BeingHandedOff' = 1
      BY <2>6, ReplicationAssumption
      DEF BeingHandedOff, OrderInv, ReplicationAssumption
    <3>2. Given' = Given
      BY <2>2, <2>6, <3>1 DEF Given
    <3>3. \A t \in Sessions : pc'[t] = "applied" => t = s
      BY DEF OrderInv
    <3>4. LastApplied'
      BY <2>6, <3>3 DEF LastApplied
    <3>. QED
      BY <2>4, <3>2, <3>4
      DEF ExactInv, NeverFollowed, Contiguous, FreshDump, Exact
  <2>. QED
    BY <2>5, <2>6
<1>2. CASE HandOff(s)
  <2>. USE <1>0, <1>2, GivenType DEF HandOff
  <2>1. \A t \in Sessions : pc'[t] # "applied"
    BY DEF OrderInv
  <2>2. BeingHandedOff' = 0
    BY <2>1, ReplicationAssumption DEF BeingHandedOff, ReplicationAssumption
  <2>3. BeingHandedOff = IF change[s] # 0 THEN 1 ELSE 0
    BY HandedOffBy
  <2>4. CASE change[s] = 0
    BY <2>1, <2>2, <2>3, <2>4, ExactFrame
  <2>5. CASE change[s] # 0
    <3>. SUFFICES ASSUME demotions = 0
                  PROVE  (NeverFollowed /\ LastApplied /\ Contiguous
                            /\ FreshDump /\ Exact)'
      BY DEF ExactInv
    <3>. USE DEF ExactInv
    <3>1. handoff' = Append(handoff, change[s]) /\ change[s] = applied
      BY <2>5 DEF NeverFollowed, LastApplied
    <3>2. Given' = Given
      BY <2>2, <2>3, <2>5, <3>1 DEF Given
    <3>3. change[s] = Given + Len(handoff) + 1
      BY <2>3, <2>5, <3>1 DEF Given
    <3>4. Contiguous'
      <4>1. handoff \in Seq(Nat) /\ Given \in Int
        BY DEF Feeds, Types, SessionType
      <4>2. IsRun(handoff, Given, Given + Len(handoff))
        BY <4>1 DEF NeverFollowed, Contiguous, IsRun
      <4>3. IsRun(handoff', Given, Given + Len(handoff) + 1)
        BY <3>1, <3>3, <4>1, <4>2, RunGrows
      <4>. QED
        BY <3>1, <3>2, <4>1, <4>3 DEF Contiguous, IsRun
    <3>. QED
      BY <2>1, <3>2, <3>4 DEF NeverFollowed, LastApplied, FreshDump, Exact
  <2>. QED
    BY <2>4, <2>5
<1>3. CASE ~Apply(s) /\ ~HandOff(s)
  <2>. DEFINE Quiet ==
         /\ pc[s] \notin {"ordered", "applied"} /\ pc'[s] # "applied"
         /\ \A t \in Sessions \ {s} : pc'[t] = pc[t] /\ change'[t] = change[t]
         /\ order' = order \/ (order = NoOne /\ order' = s)
         /\ UNCHANGED <<applied, handoff>>
  <2>1. Quiet \/ UNCHANGED <<applied, handoff, pc, change, order>>
    <3>1. CASE Request(s) \/ Reenter(s) \/ TakeOrder(s)
      BY <3>1 DEF Request, Reenter, EnterBarrier, TakeOrder
    <3>2. CASE Resume(s) \/ Reply(s) \/ Drain(s) \/ Cancel(s)
      BY <3>2 DEF Resume, Reply, Drain, Cancel, EndSession, Rest
    <3>. QED
      BY <1>3, <3>1, <3>2 DEF WriteStep
  <2>2. CASE UNCHANGED <<applied, handoff, pc, change, order>>
    BY <1>0, <2>2, ExactFrame DEF BeingHandedOff
  <2>. QED
    BY <1>0, <2>1, <2>2, QuietWrite, ExactFrame
<1>. QED
  BY <1>1, <1>2, <1>3

LEMMA ExactSync ==
  ASSUME Feeds, ExactInv, NEW c \in Conns, SyncStep(c)
  PROVE  ExactInv'
<1>. USE SyncFrame DEF Feeds
<1>1. BeingHandedOff' = BeingHandedOff
  BY DEF BeingHandedOff
<1>2. UNCHANGED <<role, link, orphans, demotions>> /\ Given' = Given
  BY <1>1 DEF SyncStep, SyncRequest, SyncRecheck, Dump, Register, SendBaseline,
              CancelSync, Vanish, Given
<1>3. CASE SyncRequest(c) \/ SyncRecheck(c)
  BY <1>1, <1>2, <1>3, ExactFrame
  DEF SyncRequest, SyncRecheck, TakeSnapshotTurn, AwaitQuiet, Types, FollowerType
<1>4. CASE SendBaseline(c) \/ Vanish(c)
  BY <1>1, <1>2, <1>4, ExactFrame DEF SendBaseline, Vanish, Types, FollowerType
<1>5. CASE Dump(c) \/ Register(c) \/ CancelSync(c)
  <2>. USE DEF Types, FollowerType
  <2>. SUFFICES ASSUME demotions = 0
                PROVE  (NeverFollowed /\ LastApplied /\ Contiguous
                          /\ FreshDump /\ Exact)'
    BY DEF ExactInv
  <2>. USE DEF ExactInv
  <2>1. stream[c] = <<>> /\ c \notin connected
    BY <1>5 DEF Dump, Register, CancelSync, FeedInv, Unfed, BeforeBaseline
  <2>2. (NeverFollowed /\ LastApplied /\ Contiguous)'
    BY <1>2 DEF NeverFollowed, LastApplied, Contiguous
  <2>3. \A d \in Conns \ {c} :
          baseline'[d] = baseline[d] /\ (sync'[d] = "dumped" => sync[d] = "dumped")
    BY <1>5 DEF Dump, Register, CancelSync
  <2>4. FreshDump'
    <3>1. sync'[c] = "dumped" => baseline'[c] = applied
      BY <1>5 DEF Dump, Register, CancelSync
    <3>. QED
      BY <2>3, <3>1 DEF FreshDump
  <2>5. \A d \in Conns \ {c} : d \in connected' /\ d \in open' => d \in connected /\ d \in open
    BY <1>5 DEF Dump, Register, CancelSync
  <2>6. c \in connected' /\ c \in open' => baseline'[c] = Given
    <3>1. CASE Dump(c) \/ CancelSync(c)
      BY <2>1, <3>1 DEF Dump, CancelSync
    <3>2. CASE Register(c)
      <4>1. \A s \in Sessions : pc[s] \notin {"applied", "handed"}
        BY <3>2 DEF Register, BarrierInv, Holders
      <4>2. handoff = <<>>
        BY <4>1, NothingQueued
      <4>3. BeingHandedOff = 0
        BY <4>1, NothingHandedOff
      <4>4. applied = Given
        BY <4>2, <4>3, GivenType DEF Given
      <4>. QED
        BY <3>2, <4>4 DEF Register, FreshDump
    <3>. QED
      BY <1>5, <3>1, <3>2
  <2>7. Exact'
    <3>1. Len(stream[c]) = 0 /\ DOMAIN stream[c] = {} /\ UNCHANGED stream
      BY <2>1
    <3>2. c \in connected' /\ c \in open' => baseline'[c] + Len(stream[c]) = Given'
      BY <1>2, <2>6, <3>1, GivenType
    <3>3. ASSUME NEW d \in Conns \ {c}
          PROVE  /\ \A i \in DOMAIN stream[d] : stream[d][i] = baseline'[d] + i
                 /\ d \in connected' /\ d \in open' =>
                      baseline'[d] + Len(stream[d]) = Given'
      BY <1>2, <2>3, <2>5 DEF Exact
    <3>. QED
      BY <3>1, <3>2, <3>3 DEF Exact
  <2>. QED
    BY <2>2, <2>4, <2>7
<1>. QED
  BY <1>3, <1>4, <1>5 DEF SyncStep

LEMMA ExactBroadcast ==
  ASSUME Feeds, ExactInv, Broadcast
  PROVE  ExactInv'
<1>. USE GivenType DEF Feeds, Types, SessionType, FollowerType, Broadcast
<1>. SUFFICES ASSUME demotions = 0
              PROVE  (NeverFollowed /\ LastApplied /\ Contiguous
                        /\ FreshDump /\ Exact)'
  BY DEF ExactInv
<1>. USE DEF ExactInv
<1>1. /\ 1 \in DOMAIN handoff /\ Head(handoff) = Given + 1
      /\ Len(handoff') = Len(handoff) - 1 /\ Given \in Int
      /\ \A i \in DOMAIN handoff' :
           i + 1 \in DOMAIN handoff /\ handoff'[i] = handoff[i + 1]
  BY DEF Contiguous
<1>2. Given' = Given + 1
  BY <1>1 DEF Given, BeingHandedOff
<1>3. Contiguous'
  <2>. SUFFICES ASSUME NEW i \in DOMAIN handoff'
                PROVE  handoff'[i] = Given' + i
    BY DEF Contiguous
  <2>1. handoff'[i] = Given + (i + 1) /\ i \in Int
    BY <1>1 DEF Contiguous
  <2>. HIDE DEF Broadcast, Types, SessionType
  <2>. QED
    BY <1>1, <1>2, <2>1
<1>4. Exact'
  <2>. SUFFICES ASSUME NEW c \in Conns
                PROVE  /\ \A i \in DOMAIN stream'[c] : stream'[c][i] = baseline[c] + i
                       /\ c \in connected /\ c \in open =>
                            baseline[c] + Len(stream'[c]) = Given'
    BY DEF Exact
  <2>1. CASE c \in connected /\ c \in open
    <3>1. stream'[c] = Append(stream[c], Given + 1)
      BY <1>1, <2>1
    <3>2. /\ baseline[c] + Len(stream[c]) = Given
          /\ \A i \in DOMAIN stream[c] : stream[c][i] = baseline[c] + i
      BY <2>1 DEF Exact
    <3>3. stream[c] \in Seq(Nat) /\ baseline[c] \in Nat /\ Given \in Int
      BY <1>1
    <3>. DEFINE s == stream[c]
                b == baseline[c]
                n == Given
                t == stream'[c]
    <3>4. s \in Seq(Nat) /\ b \in Int /\ n \in Int /\ t = Append(s, n + 1)
      BY <3>1, <3>3
    <3>5. IsRun(s, b, n)
      <4>1. DOMAIN s = 1..Len(s)
        BY <3>3
      <4>. QED
        BY <3>2, <4>1 DEF IsRun
    <3>. HIDE DEF s, b, n, t
    <3>6. IsRun(t, b, n + 1)
      BY <3>4, <3>5, RunGrows
    <3>7. t \in Seq(Int)
      BY <3>4
    <3>8. b + Len(t) = n + 1 /\ \A i \in DOMAIN t : t[i] = b + i
      <4>1. DOMAIN t = 1..Len(t)
        BY <3>7
      <4>. QED
        BY <3>6, <4>1 DEF IsRun
    <3>. QED
      BY <1>2, <3>8 DEF s, b, n, t
  <2>2. CASE ~(c \in connected /\ c \in open)
    BY <2>2 DEF Exact
  <2>. QED
    BY <2>1, <2>2
<1>. QED
  BY <1>3, <1>4 DEF NeverFollowed, LastApplied, FreshDump

\* With no stream followed and none orphaned, only ReplicaOf can change roles.
LEMMA ExactRole ==
  ASSUME Feeds, ExactInv, RoleNext
  PROVE  ExactInv'
<1>1. CASE demotions = 0
  <2>1. NeverFollowed
    BY <1>1 DEF ExactInv
  <2>2. demotions' = 1
    BY <1>1, <2>1 DEF NeverFollowed, RoleNext, ReplicaOf, Handshake, Restore,
                      FollowLeader, Promote, LoseLeader
  <2>. QED
    BY <2>2 DEF ExactInv
<1>2. CASE demotions # 0
  <2>1. demotions' # 0
    BY <1>2 DEF Feeds, Types, RoleType, RoleNext, ReplicaOf, Handshake, Restore,
                FollowLeader, Promote, LoseLeader, ApplyFromLeader
  <2>. QED
    BY <2>1 DEF ExactInv
<1>. QED
  BY <1>1, <1>2

LEMMA ExactNext == Feeds /\ ExactInv /\ [Next]_vars => ExactInv'
<1>. SUFFICES ASSUME Feeds, ExactInv, [Next]_vars PROVE ExactInv'
  OBVIOUS
<1>1. CASE UNCHANGED vars
  BY <1>1, ExactFrame DEF vars, BeingHandedOff
<1>. QED
  BY <1>1, ExactWrite, ExactSync, ExactBroadcast, ExactRole DEF Next, MasterNext

LEMMA NoSilentDropNext == Types /\ NoSilentDrop /\ [Next]_vars => NoSilentDrop'
<1>. SUFFICES ASSUME Types, NoSilentDrop, [Next]_vars PROVE NoSilentDrop'
  OBVIOUS
<1>. USE DEF Types, FollowerType, NoSilentDrop
<1>1. ASSUME NEW s \in Sessions, WriteStep(s) PROVE NoSilentDrop'
  BY <1>1 DEF WriteStep, Request, Reenter, TakeOrder, Apply, HandOff, Resume,
              Reply, Drain, Cancel
<1>2. ASSUME NEW c \in Conns, SyncStep(c) PROVE NoSilentDrop'
  BY <1>2 DEF SyncStep, SyncRequest, SyncRecheck, TakeSnapshotTurn, AwaitQuiet,
              Dump, Register, SendBaseline, CancelSync, Vanish
<1>3. CASE Broadcast \/ UNCHANGED vars
  BY <1>3 DEF Broadcast, vars
<1>4. CASE RoleNext
  BY <1>4, RoleFrame
<1>. QED
  BY <1>1, <1>2, <1>3, <1>4 DEF Next, MasterNext

-----------------------------------------------------------------------------
LEMMA Initially == Init => IInv
<1>. SUFFICES ASSUME Init PROVE IInv
  OBVIOUS
<1>1. Types
  BY TypesInit
<1>2. Holders = {}
  BY DEF Init, Holders
<1>3. BarrierInv
  BY <1>2, FS_EmptySet DEF Init, BarrierInv, OwnsBarrier
<1>4. OrderInv
  BY ReplicationAssumption DEF Init, OrderInv, ReplicationAssumption
<1>5. ChangeInv
  BY DEF Init, ChangeInv, Numbered, Distinct, Sorted, Owned, Below
<1>6. FeedInv
  BY DEF Init, FeedInv, Unfed, Beyond
<1>7. InOrderOnce
  BY DEF Init, InOrderOnce
<1>8. ExactInv
  BY DEF Init, ExactInv, NeverFollowed, LastApplied, Contiguous, FreshDump, Exact
<1>9. NoSilentDrop
  BY DEF Init, NoSilentDrop
<1>. QED
  BY <1>1, <1>3, <1>4, <1>5, <1>6, <1>7, <1>8, <1>9 DEF IInv

LEMMA Preserved == IInv /\ [Next]_vars => IInv'
BY TypesNext, BarrierNext, OrderNext, ChangeNext, FeedNext, InOrderNext,
   ExactNext, NoSilentDropNext
DEF IInv, Feeds

LEMMA Inductive == Spec => []IInv
BY Preserved, Initially, PTL DEF Spec

\* The leader's variables keep their types whatever its role; in particular
\* SyncBarrier.inflight, which __aexit__ decrements, never goes below zero.
THEOREM TypeCorrect == Spec => []TypeOK
<1>1. IInv => TypeOK
  BY HoldersFinite DEF IInv, Types, BarrierInv, TypeOK, BarrierType
<1>. QED
  BY <1>1, Inductive, PTL

\* No follower is ever sent a change twice or out of order, for any number of
\* sessions and followers, and however REPLICAOF moves this node about.
THEOREM FollowersHearInOrderOnce == Spec => []InOrderOnce
<1>1. IInv => InOrderOnce
  BY DEF IInv
<1>. QED
  BY <1>1, Inductive, PTL
\* Until this node first follows a leader, the stream of a follower continues
\* its baseline with no gap, and what it was not sent yet is on its way: the
\* claim of the SYNC handler, "every write is then in the snapshot or in the
\* stream, once".
THEOREM FollowersMissNothing == Spec => []ExactStream
<1>1. IInv => ExactStream
  <2>. SUFFICES ASSUME IInv, demotions = 0, NEW c \in Conns,
                       NEW sent \in Nat, sent = Len(stream[c])
                PROVE  c \in connected /\ c \in open =>
                         baseline[c] + sent + Len(handoff) + BeingHandedOff = applied
    BY DEF IInv, ExactInv, Exact, ExactStream, Types, FollowerType
  <2>1. baseline[c] \in Nat /\ BeingHandedOff \in Nat
    BY DEF IInv, Types, FollowerType, BeingHandedOff
  <2>2. c \in connected /\ c \in open => baseline[c] + sent = Given
    BY DEF IInv, ExactInv, Exact
  <2>. QED
    BY <2>1, <2>2, GivenType DEF IInv, Given
<1>. QED
  BY <1>1, Inductive, PTL

\* Until then, a client that is answered knows its change to be in the
\* baseline or in the buffer of every connected follower.
THEOREM AnsweredIsBuffered == Spec => []ReplyWhileMaster
<1>1. ASSUME IInv PROVE ReplyWhileMaster
  <2>. USE <1>1, GivenType DEF IInv, Types, SessionType
  <2>. SUFFICES ASSUME demotions = 0, NEW s \in Sessions,
                       pc[s] \in {"replying", "draining"},
                       NEW c \in connected \intersect open
                PROVE  change[s] <= baseline[c] + Len(stream[c])
    BY DEF ReplyWhileMaster, ReplyMeansBuffered
  <2>1. baseline[c] + Len(stream[c]) = Given
    BY DEF ExactInv, Exact, FollowerType
  <2>2. ASSUME change[s] > Given, change[s] <= Given + Len(handoff) PROVE FALSE
    <3>. DEFINE i == change[s] - Given
    <3>1. i \in DOMAIN handoff /\ Given + i = change[s]
      BY <2>2
    <3>. QED
      BY <3>1, NotQueued DEF ExactInv, Contiguous
  <2>3. BeingHandedOff = 1 => change[s] # applied
    BY DEF BeingHandedOff, ExactInv, LastApplied, ChangeInv, Distinct
  <2>4. change[s] <= applied
    BY DEF ChangeInv, Numbered
  <2>5. change[s] <= Given
    <3>1. CASE BeingHandedOff = 1
      BY <2>2, <2>3, <2>4, <3>1 DEF Given
    <3>2. CASE BeingHandedOff = 0
      BY <2>2, <2>4, <3>2 DEF Given
    <3>. QED
      BY <3>1, <3>2 DEF BeingHandedOff
  <2>. QED
    BY <2>1, <2>5
<1>. QED
  BY <1>1, Inductive, PTL

\* A follower whose connection works and whose baseline was buffered is still
\* registered, whatever deadlines other followers miss (drain_broadcast).
THEOREM NobodyIsDroppedSilently == Spec => []NoSilentDrop
<1>1. IInv => NoSilentDrop
  BY DEF IInv
<1>. QED
  BY <1>1, Inductive, PTL
-----------------------------------------------------------------------------
(***************************************************************************)
(* The refinement.  While the node stays a master, each step maps to a     *)
(* step of ReplicatedHistory or changes nothing there: Apply is Change,    *)
(* Register is Join, Broadcast is Deliver to every follower at once, and   *)
(* whatever ends a connection is Leave.                                    *)
(***************************************************************************)
LEMMA UpToType ==
  ASSUME NEW n \in Nat
  PROVE  /\ UpTo(n) \in Seq(Nat) /\ Len(UpTo(n)) = n
         /\ \A i \in 1..n : UpTo(n)[i] = i
<1>1. UpTo(n) \in [1..n -> Nat]
  BY DEF UpTo
<1>2. UpTo(n) \in Seq(Nat)
  BY <1>1, SeqDef
<1>3. DOMAIN UpTo(n) = 1..n /\ DOMAIN UpTo(n) = 1..Len(UpTo(n))
  BY <1>1, <1>2, LenProperties
<1>4. Len(UpTo(n)) \in Nat
  BY <1>2, LenProperties
<1>5. Len(UpTo(n)) = n
  BY <1>3, <1>4
<1>. QED
  BY <1>2, <1>5 DEF UpTo

LEMMA UpToNext ==
  ASSUME NEW n \in Nat
  PROVE  UpTo(n + 1) = Append(UpTo(n), n + 1)
<1>. DEFINE longer == Append(UpTo(n), n + 1)
<1>1. longer \in Seq(Nat) /\ Len(longer) = n + 1
  BY UpToType
<1>2. \A i \in 1..(n + 1) : longer[i] = i
  BY UpToType
<1>3. /\ UpTo(n + 1) \in Seq(Nat) /\ Len(UpTo(n + 1)) = n + 1
      /\ \A i \in 1..(n + 1) : UpTo(n + 1)[i] = i
  BY UpToType
<1>4. \A i \in 1..Len(longer) : longer[i] = UpTo(n + 1)[i]
  BY <1>1, <1>2, <1>3
<1>. HIDE DEF longer
<1>5. longer = UpTo(n + 1)
  BY <1>1, <1>3, <1>4, SeqEqual
<1>. QED
  BY <1>5 DEF longer

LEMMA ConcatAppend ==
  ASSUME NEW s \in Seq(Nat), NEW t \in Seq(Nat), NEW x \in Nat
  PROVE  s \o Append(t, x) = Append(s \o t, x)
<1>. DEFINE left == s \o Append(t, x)
            right == Append(s \o t, x)
<1>1. Append(t, x) \in Seq(Nat) /\ Len(Append(t, x)) = Len(t) + 1
  OBVIOUS
<1>2. left \in Seq(Nat) /\ Len(left) = Len(s) + Len(t) + 1
  BY <1>1, ConcatProperties, LenProperties
<1>3. right \in Seq(Nat) /\ Len(right) = Len(s) + Len(t) + 1
  BY ConcatProperties, LenProperties
<1>4. ASSUME NEW i \in 1..Len(left) PROVE left[i] = right[i]
  OBVIOUS
<1>. HIDE DEF left, right
<1>5. left = right
  BY <1>2, <1>3, <1>4, SeqEqual
<1>. QED
  BY <1>5 DEF left, right

\* What a follower was given so far, in one piece.
LEMMA CopyType ==
  ASSUME Types, NEW c \in Conns, sync[c] \notin BeforeBaseline
  PROVE  /\ Copy[c] = UpTo(baseline[c]) \o stream[c]
         /\ Len(Copy[c]) = baseline[c] + Len(stream[c])
<1>1. Copy[c] = UpTo(baseline[c]) \o stream[c]
  BY DEF Copy
<1>2. baseline[c] \in Nat /\ stream[c] \in Seq(Nat)
  BY DEF Types, FollowerType
<1>3. UpTo(baseline[c]) \in Seq(Nat) /\ Len(UpTo(baseline[c])) = baseline[c]
  BY <1>2, UpToType
<1>4. Len(UpTo(baseline[c]) \o stream[c]) = Len(UpTo(baseline[c])) + Len(stream[c])
  BY <1>2, <1>3, ConcatProperties
<1>. QED
  BY <1>1, <1>3, <1>4

\* A step that only takes followers away.
LEMMA Leaving ==
  ASSUME UNCHANGED applied, Copy' = Copy,
         \A c \in Conns : Standing'[c] = "left" \/ Standing'[c] = Standing[c]
  PROVE  [History!Next]_(History!vars)
<1>. DEFINE D == {c \in Conns : Standing'[c] = "left"}
<1>1. Standing' = [c \in Conns |-> IF c \in D THEN "left" ELSE Standing[c]]
  BY DEF Standing
<1>2. History!Leave(D)
  BY <1>1 DEF History!Leave
<1>. QED
  BY <1>2 DEF History!Next
LEMMA RefinesInit == Init => History!Init
<1>. SUFFICES ASSUME Init PROVE History!Init
  OBVIOUS
<1>1. UpTo(applied) = <<>>
  BY UpToType DEF Init
<1>2. Copy = [c \in Conns |-> <<>>] /\ Standing = [c \in Conns |-> "new"]
  BY DEF Init, Copy, Standing, BeforeBaseline
<1>. QED
  BY <1>1, <1>2 DEF History!Init

LEMMA RefinesWrite ==
  ASSUME IInv, NEW s \in Sessions, WriteStep(s)
  PROVE  [History!Next]_(History!vars)
<1>1. CASE Drain(s)
  <2>1. Copy' = Copy
    BY <1>1 DEF Drain, Copy
  <2>2. \A c \in Conns : Standing'[c] = "left" \/ Standing'[c] = Standing[c]
    BY <1>1 DEF Drain, Standing
  <2>. QED
    BY <1>1, <2>1, <2>2, Leaving DEF Drain
<1>2. CASE ~Drain(s)
  <2>1. UNCHANGED <<sync, connected, baseline, stream, open>>
    BY <1>2 DEF WriteStep, Request, Reenter, TakeOrder, Apply, HandOff, Resume,
                Reply, Cancel
  <2>2. Copy' = Copy /\ Standing' = Standing
    BY <2>1 DEF Copy, Standing
  <2>3. CASE UNCHANGED applied
    BY <2>2, <2>3 DEF History!vars
  <2>4. CASE applied' # applied
    <3>1. applied \in Nat /\ applied < MaxChanges /\ applied' = applied + 1
      BY <2>4, GivenType
      DEF IInv, WriteStep, Request, Reenter, TakeOrder, Apply, HandOff, Resume,
          Reply, Drain, Cancel
    <3>2. UpTo(applied') = Append(UpTo(applied), applied + 1)
      BY <3>1, UpToNext
    <3>3. applied + 1 \in 1..MaxChanges
      BY <3>1, ReplicationAssumption DEF ReplicationAssumption
    <3>. QED
      BY <2>2, <3>2, <3>3 DEF History!Next, History!Change
  <2>. QED
    BY <2>3, <2>4
<1>. QED
  BY <1>1, <1>2

LEMMA RefinesSync ==
  ASSUME IInv, demotions = 0, NEW c \in Conns, SyncStep(c)
  PROVE  [History!Next]_(History!vars)
<1>. USE DEF IInv, Types, FollowerType
<1>1. UNCHANGED applied
  BY DEF SyncStep, SyncRequest, SyncRecheck, Dump, Register, SendBaseline,
         CancelSync, Vanish
<1>2. CASE Register(c) /\ c \in open
  <2>. USE <1>2 DEF Register
  <2>1. baseline[c] = applied /\ stream[c] = <<>> /\ baseline' = baseline
    BY DEF ExactInv, FreshDump, FeedInv, Unfed, BeforeBaseline
  <2>2. Standing[c] = "new"
    BY DEF Standing, BeforeBaseline
  <2>3. Standing' = [Standing EXCEPT ![c] = "following"]
    BY DEF Standing, BeforeBaseline
  <2>4. UpTo(applied) \o <<>> = UpTo(applied)
    BY GivenType, UpToType, ConcatEmptySeq
  <2>5. Copy' = [Copy EXCEPT ![c] = UpTo(applied)]
    BY <2>1, <2>4 DEF Copy, BeforeBaseline
  <2>. QED
    BY <1>1, <2>2, <2>3, <2>5 DEF History!Next, History!Join
<1>3. CASE ~(Register(c) /\ c \in open)
  <2>1. \A d \in Conns : Standing'[d] = "left" \/ Standing'[d] = Standing[d]
    BY <1>3 DEF SyncStep, SyncRequest, SyncRecheck, TakeSnapshotTurn, AwaitQuiet,
                Dump, Register, SendBaseline, CancelSync, Vanish, Standing,
                BeforeBaseline
  <2>2. \A d \in Conns \ {c} : Copy'[d] = Copy[d]
    BY SyncFrame
    DEF SyncStep, SyncRequest, SyncRecheck, TakeSnapshotTurn, AwaitQuiet, Dump,
        Register, SendBaseline, CancelSync, Vanish, Copy
  <2>3. Copy'[c] = Copy[c]
    <3>1. CASE Register(c) \/ CancelSync(c)
      <4>1. stream'[c] = <<>> /\ baseline'[c] = 0 /\ Copy[c] = <<>>
        BY <1>3, <3>1, SyncFrame
        DEF Register, CancelSync, FeedInv, Unfed, BeforeBaseline, Copy
      <4>2. UpTo(0) \o <<>> = <<>>
        BY UpToType, ConcatEmptySeq
      <4>. QED
        BY <4>1, <4>2 DEF Copy
    <3>2. CASE SyncRequest(c) \/ SyncRecheck(c) \/ Dump(c)
      BY <3>2 DEF SyncRequest, SyncRecheck, TakeSnapshotTurn, AwaitQuiet, Dump,
                  Copy, BeforeBaseline
    <3>3. CASE SendBaseline(c) \/ Vanish(c)
      BY <3>3 DEF SendBaseline, Vanish, Copy, BeforeBaseline
    <3>. QED
      BY <3>1, <3>2, <3>3 DEF SyncStep
  <2>4. Copy' = Copy
    BY <2>2, <2>3 DEF Copy
  <2>. QED
    BY <1>1, <2>1, <2>4, Leaving
<1>. QED
  BY <1>2, <1>3

LEMMA RefinesBroadcast ==
  ASSUME IInv, demotions = 0, Broadcast
  PROVE  History!Next
<1>. DEFINE D == connected \intersect open
<1>. USE DEF IInv
<1>1. /\ Head(handoff) = Given + 1 /\ Given + 1 <= applied
      /\ Given \in Nat \/ D = {}
  <2>1. 1 \in DOMAIN handoff /\ Head(handoff) = handoff[1]
    BY DEF Types, SessionType, Broadcast
  <2>2. BeingHandedOff \in Nat /\ Len(handoff) >= 1
    BY <2>1 DEF BeingHandedOff, Types, SessionType
  <2>3. ASSUME NEW c \in D PROVE Given \in Nat
    BY DEF ExactInv, Exact, Types, FollowerType
  <2>. QED
    BY <2>1, <2>2, <2>3, GivenType DEF ExactInv, Contiguous, Given
<1>2. ASSUME NEW c \in D
      PROVE  /\ sync[c] \notin BeforeBaseline /\ Standing[c] = "following"
             /\ Len(Copy[c]) = Given
             /\ Copy'[c] = Append(Copy[c], Given + 1)
  <2>1. sync[c] \notin BeforeBaseline /\ c \in Conns
    BY DEF FeedInv, Unfed, Types, FollowerType
  <2>2. baseline[c] \in Nat /\ stream[c] \in Seq(Nat) /\ Given + 1 \in Nat
    BY <1>1 DEF Types, FollowerType
  <2>3. baseline[c] + Len(stream[c]) = Given
    BY <2>1 DEF ExactInv, Exact
  <2>4. stream'[c] = Append(stream[c], Given + 1)
    BY <1>1, <2>1 DEF Broadcast
  <2>5. Copy'[c] = UpTo(baseline[c]) \o Append(stream[c], Given + 1)
    BY <2>1, <2>4 DEF Broadcast, Copy
  <2>6. Copy'[c] = Append(Copy[c], Given + 1)
    <3>1. UpTo(baseline[c]) \in Seq(Nat)
      BY <2>2, UpToType
    <3>2. Copy[c] = UpTo(baseline[c]) \o stream[c]
      BY <2>1 DEF Copy
    <3>3. UpTo(baseline[c]) \o Append(stream[c], Given + 1)
            = Append(UpTo(baseline[c]) \o stream[c], Given + 1)
      BY <2>2, <3>1, ConcatAppend
    <3>. QED
      BY <2>5, <3>2, <3>3
  <2>. QED
    BY <2>1, <2>3, <2>6, CopyType DEF Standing
<1>3. ASSUME NEW c \in Conns \ D PROVE Copy'[c] = Copy[c]
  BY <1>3 DEF Broadcast, Copy
<1>4. ASSUME NEW c \in D
      PROVE  UpTo(applied)[Given + 1] = Given + 1 /\ Given < Len(UpTo(applied))
  <2>1. applied \in Nat /\ Given \in Nat /\ Given + 1 \in 1..applied
    BY <1>1, GivenType
  <2>2. Len(UpTo(applied)) = applied /\ UpTo(applied)[Given + 1] = Given + 1
    BY <2>1, UpToType
  <2>. QED
    BY <2>1, <2>2
<1>5. Copy' = [c \in Conns |->
                 IF c \in D THEN Append(Copy[c], UpTo(applied)[Len(Copy[c]) + 1])
                 ELSE Copy[c]]
  <2>1. \A c \in D : Copy'[c] = Append(Copy[c], UpTo(applied)[Len(Copy[c]) + 1])
    BY <1>2, <1>4
  <2>. QED
    BY <1>3, <2>1 DEF Copy
<1>6. UNCHANGED <<UpTo(applied), Standing>>
  BY DEF Broadcast, Standing
<1>7. D \in SUBSET Conns
  BY DEF Types, FollowerType
<1>8. History!Deliver(D)
  <2>. HIDE DEF D
  <2>. QED
    BY <1>2, <1>4, <1>5, <1>6 DEF History!Deliver
<1>. QED
  BY <1>7, <1>8 DEF History!Next

\* What holds while this node stays the master it started as.
Unmoved == IInv /\ demotions = 0

LEMMA MasterInductive == MasterSpec => []Unmoved
<1>1. Init => Unmoved
  BY Initially DEF Init, Unmoved
<1>2. Unmoved /\ [MasterNext]_vars => Unmoved'
  <2>1. [MasterNext]_vars => [Next]_vars /\ UNCHANGED demotions
    BY SyncFrame
    DEF Next, MasterNext, WriteStep, SyncStep, Request, Reenter, TakeOrder,
        Apply, HandOff, Resume, Reply, Drain, Cancel, SyncRequest, SyncRecheck,
        Dump, Register, SendBaseline, CancelSync, Vanish, Broadcast, vars
  <2>. QED
    BY <2>1, Preserved DEF Unmoved
<1>. QED
  BY <1>1, <1>2, PTL DEF MasterSpec

\* As long as this node stays a master, its barrier, threads and buffers
\* implement ReplicatedHistory: a follower that joins is given the whole
\* history, and from then on each change, in order and one by one.
THEOREM LeaderImplementsHistory == MasterSpec => History!Spec
<1>1. Unmoved /\ [MasterNext]_vars => [History!Next]_(History!vars)
  <2>1. CASE UNCHANGED vars
    BY <2>1 DEF vars, History!vars, Copy, Standing
  <2>. QED
    BY <2>1, RefinesWrite, RefinesSync, RefinesBroadcast DEF MasterNext, Unmoved
<1>. QED
  BY <1>1, RefinesInit, MasterInductive, PTL DEF MasterSpec, History!Spec
=============================================================================
