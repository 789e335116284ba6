----------------------------- MODULE Replication -----------------------------
(***************************************************************************)
(* The leader's side of replication (server.py): how a write travels from  *)
(* the session that read it, through a worker thread, to the buffers of    *)
(* the followers, while other connections ask for SYNC and while REPLICAOF *)
(* changes the role of the node.                                           *)
(*                                                                         *)
(* Three kinds of steps interleave: steps of the event loop (a session     *)
(* runs from one await to the next, or the loop runs a scheduled           *)
(* callback), steps of worker threads, and steps of the peers.             *)
(*                                                                         *)
(* Changes of the keyspace are numbered in the order in which the engine   *)
(* lock applies them: change n is the n-th.  What a follower holds is then *)
(* a baseline (every change up to a number) and a stream of numbers.       *)
(***************************************************************************)
EXTENDS Naturals, Sequences, FiniteSets

CONSTANTS
  Sessions,      \* client sessions that send writes
  Conns,         \* connections that send SYNC, one per follower: a follower
                 \* that comes back does so on a new connection
  NoOne,         \* nobody: the write-order lock is free
  MaxChanges,    \* bound: changes applied to the keyspace
  MaxDemotions   \* bound: times REPLICAOF <host> <port> makes this a replica

ASSUME ReplicationAssumption ==
  /\ Sessions \intersect Conns = {}
  /\ NoOne \notin Sessions
  /\ IsFiniteSet(Sessions)
  /\ MaxChanges \in Nat
  /\ MaxDemotions \in Nat

VARIABLES
  applied,    \* number of changes the engine has applied
  role,       \* server_role
  inflight,   \* SyncBarrier.inflight
  syncing,    \* SyncBarrier.syncing
  parked,     \* who sleeps on a future of SyncBarrier._waiters
  pc,         \* where each session is in its write
  change,     \* the change a session's write made, 0 if it made none
  cancelled,  \* sessions whose task was cancelled while its thread runs
  order,      \* the session whose thread holds _write_order
  handoff,    \* enqueue_broadcast callbacks scheduled on the loop, in order
  waiting,    \* the followers a session's drain_broadcast waits for
  sync,       \* where each connection is in its SYNC
  connected,  \* connected_replicas
  baseline,   \* the changes in the snapshot a connection was sent: 1..n
  stream,     \* the changes written to a connection after its baseline
  open,       \* connections whose transport still carries bytes
  link,       \* the stream this node follows: init_replication_stream
  demotions,  \* how many such streams were started
  orphans     \* streams with a command in a worker thread

barrierVars  == <<inflight, syncing, parked>>
sessionVars  == <<pc, change, cancelled, waiting>>
orderVars    == <<order, handoff>>
followerVars == <<sync, connected, baseline, stream, open>>
leaderVars   == <<link, demotions, orphans>>
vars == <<applied, role, barrierVars, sessionVars, orderVars, followerVars,
          leaderVars>>

Init ==
  /\ applied = 0
  /\ role = "master"
  /\ inflight = 0
  /\ syncing = FALSE
  /\ parked = {}
  /\ pc = [s \in Sessions |-> "idle"]
  /\ change = [s \in Sessions |-> 0]
  /\ cancelled = {}
  /\ order = NoOne
  /\ handoff = <<>>
  /\ waiting = [s \in Sessions |-> {}]
  /\ sync = [c \in Conns |-> "none"]
  /\ connected = {}
  /\ baseline = [c \in Conns |-> 0]
  /\ stream = [c \in Conns |-> <<>>]
  /\ open = Conns
  /\ link = "none"
  /\ demotions = 0
  /\ orphans = {}

-----------------------------------------------------------------------------
(***************************************************************************)
(* SyncBarrier.  _wake resolves every future in _waiters; each sleeper     *)
(* then tests its condition again, and sleeps again if it does not hold.   *)
(***************************************************************************)
Wake == parked' = {}

\* _WriteScope.__aenter__ : sleep while a SYNC is in progress, else count in.
EnterBarrier(s) ==
  IF syncing
  THEN /\ parked' = parked \union {s}
       /\ pc' = [pc EXCEPT ![s] = "entering"]
       /\ UNCHANGED <<inflight, syncing>>
  ELSE /\ inflight' = inflight + 1
       /\ pc' = [pc EXCEPT ![s] = "submitted"]
       /\ UNCHANGED <<syncing, parked>>

\* Mutant of AwaitQuiet: the snapshot does not wait for writes in flight.
AwaitQuietUnchecked(c) ==
  /\ sync' = [sync EXCEPT ![c] = "dumping"]
  /\ UNCHANGED parked

\* The second wait of SyncBarrier.snapshot: for the writes in flight.
AwaitQuiet(c) ==
  IF inflight = 0
  THEN /\ sync' = [sync EXCEPT ![c] = "dumping"]
       /\ UNCHANGED parked
  ELSE /\ sync' = [sync EXCEPT ![c] = "holding"]
       /\ parked' = parked \union {c}

\* SyncBarrier.snapshot up to its first sleep: one SYNC at a time.
TakeSnapshotTurn(c) ==
  /\ UNCHANGED inflight
  /\ IF syncing
     THEN /\ sync' = [sync EXCEPT ![c] = "arriving"]
          /\ parked' = parked \union {c}
          /\ UNCHANGED syncing
     ELSE /\ syncing' = TRUE
          /\ AwaitQuiet(c)

-----------------------------------------------------------------------------
(***************************************************************************)
(* A write: a plain write command, an EXEC, or one pass of XREADGROUP.     *)
(***************************************************************************)

\* A session has left its write: nothing of it is kept.
Rest(s, where) ==
  /\ pc' = [pc EXCEPT ![s] = where]
  /\ change' = [change EXCEPT ![s] = 0]
  /\ waiting' = [waiting EXCEPT ![s] = {}]
  /\ cancelled' = cancelled \ {s}

EndSession(s) == Rest(s, "gone")

\* The session parsed a write; the read-only firewall lets it through.
Request(s) ==
  /\ pc[s] = "idle"
  /\ role = "master"
  /\ EnterBarrier(s)
  /\ UNCHANGED <<applied, role, change, cancelled, waiting, orderVars,
                 followerVars, leaderVars>>

\* The session was woken and tests the barrier again.
Reenter(s) ==
  /\ pc[s] = "entering"
  /\ s \notin parked
  /\ EnterBarrier(s)
  /\ UNCHANGED <<applied, role, change, cancelled, waiting, orderVars,
                 followerVars, leaderVars>>

\* Mutant of TakeOrder: no write-order lock.
TakeOrderUnlocked(s) ==
  /\ pc[s] = "submitted"
  /\ order' = s
  /\ pc' = [pc EXCEPT ![s] = "ordered"]
  /\ UNCHANGED <<applied, role, barrierVars, change, cancelled, waiting,
                 handoff, followerVars, leaderVars>>

\* apply_in_order, worker thread: take the write-order lock.
TakeOrder(s) ==
  /\ pc[s] = "submitted"
  /\ order = NoOne
  /\ order' = s
  /\ pc' = [pc EXCEPT ![s] = "ordered"]
  /\ UNCHANGED <<applied, role, barrierVars, change, cancelled, waiting,
                 handoff, followerVars, leaderVars>>

\* apply_in_order, worker thread: run() applies the write under the engine
\* lock.  A write may change nothing, and then has nothing to forward.
Apply(s) ==
  /\ pc[s] = "ordered"
  /\ pc' = [pc EXCEPT ![s] = "applied"]
  /\ \/ /\ applied < MaxChanges
        /\ applied' = applied + 1
        /\ change' = [change EXCEPT ![s] = applied + 1]
     \/ UNCHANGED <<applied, change>>
  /\ UNCHANGED <<role, barrierVars, cancelled, waiting, orderVars,
                 followerVars, leaderVars>>

\* apply_in_order, worker thread: still under the write-order lock, schedule
\* the buffering on the loop if this node is a master; the thread then ends.
HandOff(s) ==
  /\ pc[s] = "applied"
  /\ handoff' = IF role = "master" /\ change[s] # 0
                THEN Append(handoff, change[s])
                ELSE handoff
  /\ order' = NoOne
  /\ pc' = [pc EXCEPT ![s] = "handed"]
  /\ UNCHANGED <<applied, role, barrierVars, change, cancelled, waiting,
                 followerVars, leaderVars>>

\* The loop runs the oldest scheduled enqueue_broadcast: the change goes into
\* the buffer of every follower.  A transport that is gone swallows it.
Broadcast ==
  /\ handoff # <<>>
  /\ handoff' = Tail(handoff)
  /\ stream' = [c \in Conns |->
                  IF c \in connected /\ c \in open
                  THEN Append(stream[c], Head(handoff))
                  ELSE stream[c]]
  /\ waiting' = [s \in Sessions |->
                   IF pc[s] = "handed" /\ change[s] = Head(handoff)
                   THEN connected
                   ELSE waiting[s]]
  /\ UNCHANGED <<applied, role, barrierVars, pc, change, cancelled, order,
                 sync, connected, baseline, open, leaderVars>>

\* Mutant of Resume: the thread reports back before its buffering has run.
ResumeEarly(s) ==
  /\ pc[s] = "handed"
  /\ inflight' = inflight - 1
  /\ Wake
  /\ pc' = [pc EXCEPT ![s] = "replying"]
  /\ UNCHANGED <<applied, role, syncing, change, cancelled, waiting,
                 orderVars, followerVars, leaderVars>>

\* Mutant of Resume: a write that leaves the barrier wakes nobody.
ResumeSilent(s) ==
  /\ pc[s] = "handed"
  /\ \A i \in DOMAIN handoff : handoff[i] # change[s]
  /\ inflight' = inflight - 1
  /\ pc' = [pc EXCEPT ![s] = "replying"]
  /\ UNCHANGED <<applied, role, syncing, parked, change, cancelled, waiting,
                 orderVars, followerVars, leaderVars>>

\* apply_in_order returns: the thread is done, and the loop, which is first
\* in first out, has run the callback the thread scheduled before it ended.
\* The barrier is released.  A cancelled session unwinds without a reply.
Resume(s) ==
  /\ pc[s] = "handed"
  /\ \A i \in DOMAIN handoff : handoff[i] # change[s]
  /\ inflight' = inflight - 1
  /\ Wake
  /\ IF s \in cancelled
     THEN EndSession(s)
     ELSE /\ pc' = [pc EXCEPT ![s] = "replying"]
          /\ UNCHANGED <<change, cancelled, waiting>>
  /\ UNCHANGED <<applied, role, syncing, orderVars, followerVars, leaderVars>>

\* send_parts: the reply reaches the client, or the client is gone, and then
\* the session ends without waiting for any follower.
Reply(s) ==
  /\ pc[s] = "replying"
  /\ \/ /\ pc' = [pc EXCEPT ![s] = "draining"]
        /\ UNCHANGED <<change, cancelled, waiting>>
     \/ EndSession(s)
  /\ UNCHANGED <<applied, role, barrierVars, orderVars, followerVars,
                 leaderVars>>

\* Mutant of Drain: one late follower costs every waiting one its place.
DrainDropsAll(s) ==
  /\ pc[s] = "draining"
  /\ \E late \in (SUBSET waiting[s]) \ {{}} :
       /\ connected' = connected \ waiting[s]
       /\ open' = open \ late
  /\ Rest(s, "idle")
  /\ UNCHANGED <<applied, role, barrierVars, orderVars, sync, baseline, stream,
                 leaderVars>>

\* drain_broadcast: all followers are waited for together; those that are
\* gone, or that did not read within their deadline, are aborted and dropped.
Drain(s) ==
  /\ pc[s] = "draining"
  /\ \E late \in SUBSET waiting[s] :
       /\ waiting[s] \ open \subseteq late
       /\ connected' = connected \ late
       /\ open' = open \ late
  /\ Rest(s, "idle")
  /\ UNCHANGED <<applied, role, barrierVars, orderVars, sync, baseline, stream,
                 leaderVars>>

\* Mutant of Cancel: the barrier is released while the thread still runs.
CancelReleases(s) ==
  /\ pc[s] \in {"submitted", "ordered", "applied", "handed"}
  /\ s \notin cancelled
  /\ cancelled' = cancelled \union {s}
  /\ inflight' = inflight - 1
  /\ Wake
  /\ UNCHANGED <<applied, role, syncing, pc, change, waiting, orderVars,
                 followerVars, leaderVars>>

\* The session's task is cancelled (the server shuts down).  A worker thread
\* cannot be stopped: the session keeps the barrier until it has ended.
Cancel(s) ==
  /\ \/ /\ pc[s] \in {"submitted", "ordered", "applied", "handed"}
        /\ s \notin cancelled
        /\ cancelled' = cancelled \union {s}
        /\ UNCHANGED <<pc, change, waiting, parked>>
     \/ /\ pc[s] \in {"entering", "replying", "draining"}
        /\ EndSession(s)
        /\ parked' = parked \ {s}
  /\ UNCHANGED <<applied, role, inflight, syncing, orderVars, followerVars,
                 leaderVars>>

-----------------------------------------------------------------------------
(***************************************************************************)
(* SYNC, and what the connection of a follower may do.                     *)
(***************************************************************************)
SyncRequest(c) ==
  /\ sync[c] = "none"
  /\ c \in open
  /\ role = "master"
  /\ TakeSnapshotTurn(c)
  /\ UNCHANGED <<applied, role, sessionVars, orderVars, connected, baseline,
                 stream, open, leaderVars>>

\* A parked SYNC was woken and tests its condition again.
SyncRecheck(c) ==
  /\ c \notin parked
  /\ \/ /\ sync[c] = "arriving"
        /\ TakeSnapshotTurn(c)
     \/ /\ sync[c] = "holding"
        /\ AwaitQuiet(c)
        /\ UNCHANGED <<inflight, syncing>>
  /\ UNCHANGED <<applied, role, sessionVars, orderVars, connected, baseline,
                 stream, open, leaderVars>>

\* snapshot_bytes, worker thread: the keyspace under the engine lock.
Dump(c) ==
  /\ sync[c] = "dumping"
  /\ baseline' = [baseline EXCEPT ![c] = applied]
  /\ sync' = [sync EXCEPT ![c] = "dumped"]
  /\ UNCHANGED <<applied, role, barrierVars, sessionVars, orderVars,
                 connected, stream, open, leaderVars>>

\* Back on the loop: buffer the baseline (a transport that is gone swallows
\* it), register the follower, release the barrier.
Register(c) ==
  /\ sync[c] = "dumped"
  /\ baseline' = IF c \in open THEN baseline ELSE [baseline EXCEPT ![c] = 0]
  /\ connected' = connected \union {c}
  /\ sync' = [sync EXCEPT ![c] = "sending"]
  /\ syncing' = FALSE
  /\ Wake
  /\ UNCHANGED <<applied, role, inflight, sessionVars, orderVars, stream, open,
                 leaderVars>>

\* The baseline was sent in time, or the follower is removed again.
SendBaseline(c) ==
  /\ sync[c] = "sending"
  /\ \/ /\ c \in open
        /\ sync' = [sync EXCEPT ![c] = "live"]
        /\ UNCHANGED <<connected, open>>
     \/ /\ sync' = [sync EXCEPT ![c] = "gone"]
        /\ connected' = connected \ {c}
        /\ open' = open \ {c}
  /\ UNCHANGED <<applied, role, barrierVars, sessionVars, orderVars, baseline,
                 stream, leaderVars>>

\* Mutant of CancelSync: the barrier stays closed.
CancelSyncHolds(c) ==
  /\ sync[c] \in {"arriving", "holding", "dumping", "dumped"}
  /\ parked' = parked \ {c}
  /\ sync' = [sync EXCEPT ![c] = "gone"]
  /\ open' = open \ {c}
  /\ baseline' = [baseline EXCEPT ![c] = 0]
  /\ UNCHANGED <<applied, role, inflight, syncing, sessionVars, orderVars,
                 connected, stream, leaderVars>>

\* A SYNC is cancelled before its follower is registered: "finally" releases
\* the barrier if this SYNC holds it.
CancelSync(c) ==
  /\ \/ /\ sync[c] = "arriving"
        /\ parked' = parked \ {c}
        /\ UNCHANGED syncing
     \/ /\ sync[c] \in {"holding", "dumping", "dumped"}
        /\ syncing' = FALSE
        /\ Wake
  /\ sync' = [sync EXCEPT ![c] = "gone"]
  /\ open' = open \ {c}
  /\ baseline' = [baseline EXCEPT ![c] = 0]
  /\ UNCHANGED <<applied, role, inflight, sessionVars, orderVars, connected,
                 stream, leaderVars>>

\* The peer resets its connection.  Nobody looks before the next drain.
Vanish(c) ==
  /\ c \in open
  /\ sync[c] # "none"
  /\ open' = open \ {c}
  /\ UNCHANGED <<applied, role, barrierVars, sessionVars, orderVars, sync,
                 connected, baseline, stream, leaderVars>>

-----------------------------------------------------------------------------
(***************************************************************************)
(* REPLICAOF: this node follows another leader for a while.  A change that *)
(* comes from that leader (its snapshot, its live commands) is applied     *)
(* outside the barrier and forwarded to nobody.                            *)
(***************************************************************************)

\* REPLICAOF <host> <port>: any stream already followed is stopped, and a
\* task connects to the new leader.
ReplicaOf ==
  /\ demotions < MaxDemotions
  /\ demotions' = demotions + 1
  /\ link' = "connecting"
  /\ UNCHANGED <<applied, role, barrierVars, sessionVars, orderVars,
                 followerVars, orphans>>

\* The connection to the leader is up: from here on this node is a replica.
Handshake ==
  /\ link = "connecting"
  /\ link' = "baseline"
  /\ role' = "replica"
  /\ UNCHANGED <<applied, barrierVars, sessionVars, orderVars, followerVars,
                 demotions, orphans>>

\* The leader's snapshot replaces the keyspace, on the loop.
Restore ==
  /\ link = "baseline"
  /\ applied < MaxChanges
  /\ applied' = applied + 1
  /\ link' = "live"
  /\ UNCHANGED <<role, barrierVars, sessionVars, orderVars, followerVars,
                 demotions, orphans>>

\* A live command of the leader is given to a worker thread and awaited.
FollowLeader ==
  /\ link = "live"
  /\ link' = "applying"
  /\ orphans' = orphans \union {demotions}
  /\ UNCHANGED <<applied, role, barrierVars, sessionVars, orderVars,
                 followerVars, demotions>>

\* That thread applies it, whether or not the stream was stopped meanwhile.
ApplyFromLeader(n) ==
  /\ n \in orphans
  /\ applied < MaxChanges
  /\ applied' = applied + 1
  /\ orphans' = orphans \ {n}
  /\ link' = IF n = demotions /\ link = "applying" THEN "live" ELSE link
  /\ UNCHANGED <<role, barrierVars, sessionVars, orderVars, followerVars,
                 demotions>>

\* REPLICAOF NO ONE: the stream's task is cancelled, this is a master again.
Promote ==
  /\ role = "replica" \/ link # "none"
  /\ role' = "master"
  /\ link' = "none"
  /\ UNCHANGED <<applied, barrierVars, sessionVars, orderVars, followerVars,
                 demotions, orphans>>

\* The stream ends by itself.  A leader that closes between commands or sends
\* bad data leaves this node in its role; any other exception, a refused
\* connection among them, makes it a master.
LoseLeader ==
  /\ link \in {"connecting", "baseline", "live"}
  /\ link' = "none"
  /\ \/ /\ link # "connecting"
        /\ UNCHANGED role
     \/ role' = "master"
  /\ UNCHANGED <<applied, barrierVars, sessionVars, orderVars, followerVars,
                 demotions, orphans>>

-----------------------------------------------------------------------------
WriteStep(s) ==
  \/ Request(s) \/ Reenter(s) \/ TakeOrder(s) \/ Apply(s) \/ HandOff(s)
  \/ Resume(s) \/ Reply(s) \/ Drain(s) \/ Cancel(s)

SyncStep(c) ==
  \/ SyncRequest(c) \/ SyncRecheck(c) \/ Dump(c) \/ Register(c)
  \/ SendBaseline(c) \/ CancelSync(c) \/ Vanish(c)

\* What happens while the node stays the master it is.
MasterNext ==
  \/ \E s \in Sessions : WriteStep(s)
  \/ \E c \in Conns : SyncStep(c)
  \/ Broadcast

RoleNext ==
  \/ ReplicaOf \/ Handshake \/ Restore \/ FollowLeader \/ Promote
  \/ LoseLeader
  \/ \E n \in orphans : ApplyFromLeader(n)

Next == MasterNext \/ RoleNext

\* A node whose role never changes, and one that REPLICAOF moves around.
MasterSpec == Init /\ [][MasterNext]_vars
Spec == Init /\ [][Next]_vars

(***************************************************************************)
(* Fairness: the loop runs what is ready, worker threads are scheduled, a  *)
(* drain ends by its deadline.  _write_order is a plain lock, released     *)
(* again and again: a thread that keeps asking for it gets it in the end.  *)
(* Nothing obliges a client, a peer or an administrator to do anything.    *)
(***************************************************************************)
SessionFairness(s) ==
  /\ WF_vars(Reenter(s)) /\ SF_vars(TakeOrder(s)) /\ WF_vars(Apply(s))
  /\ WF_vars(HandOff(s)) /\ WF_vars(Resume(s)) /\ WF_vars(Reply(s))
  /\ WF_vars(Drain(s))

ConnFairness(c) ==
  /\ WF_vars(SyncRecheck(c)) /\ WF_vars(Dump(c)) /\ WF_vars(Register(c))
  /\ WF_vars(SendBaseline(c))

FairMasterSpec ==
  /\ MasterSpec
  /\ WF_vars(Broadcast)
  /\ \A s \in Sessions : SessionFairness(s)
  /\ \A c \in Conns : ConnFairness(c)

-----------------------------------------------------------------------------
WritePc == {"idle", "entering", "submitted", "ordered", "applied", "handed",
            "replying", "draining", "gone"}
SyncPc  == {"none", "arriving", "holding", "dumping", "dumped", "sending",
            "live", "gone"}
LinkPc  == {"none", "connecting", "baseline", "live", "applying"}

BarrierType ==
  /\ inflight \in Nat
  /\ syncing \in BOOLEAN
  /\ parked \subseteq Sessions \union Conns

SessionType ==
  /\ pc \in [Sessions -> WritePc]
  /\ change \in [Sessions -> Nat]
  /\ cancelled \subseteq Sessions
  /\ waiting \in [Sessions -> SUBSET Conns]
  /\ order \in Sessions \union {NoOne}
  /\ handoff \in Seq(Nat)

FollowerType ==
  /\ sync \in [Conns -> SyncPc]
  /\ connected \subseteq Conns
  /\ baseline \in [Conns -> Nat]
  /\ stream \in [Conns -> Seq(Nat)]
  /\ open \subseteq Conns

RoleType ==
  /\ applied \in 0..MaxChanges
  /\ role \in {"master", "replica"}
  /\ link \in LinkPc
  /\ demotions \in 0..MaxDemotions
  /\ orphans \subseteq 0..MaxDemotions

\* Every variable of the leader stays within its type; in particular
\* SyncBarrier.inflight never goes below zero.
TypeOK == BarrierType /\ SessionType /\ FollowerType /\ RoleType

\* What a follower has been sent, from its baseline on, never repeats a
\* change and never brings one before an earlier one, whatever the roles of
\* this node were meanwhile (SyncBarrier and apply_in_order: a write that is
\* in the snapshot is not forwarded, an overtaken one is forwarded in turn).
InOrderOnce ==
  \A c \in Conns :
    /\ \A i \in DOMAIN stream[c] : baseline[c] < stream[c][i]
    /\ \A i, j \in DOMAIN stream[c] : i < j => stream[c][i] < stream[c][j]

\* The write whose thread has applied it and not yet scheduled its buffering.
BeingHandedOff ==
  IF order # NoOne /\ pc[order] = "applied" /\ change[order] # 0 THEN 1 ELSE 0

\* "Every write is then in the snapshot or in the stream, once" (SYNC in
\* AsyncKedisSession.run): until this node follows a leader of its own, a
\* follower's stream continues its baseline with no gap, and what a connected
\* follower was not sent yet is on its way, in the loop's queue or in the
\* thread that holds the write-order lock.
ExactStream ==
  demotions = 0 => \A c \in Conns :
    /\ \A i \in DOMAIN stream[c] : stream[c][i] = baseline[c] + i
    /\ c \in connected /\ c \in open =>
         baseline[c] + Len(stream[c]) + Len(handoff) + BeingHandedOff = applied

\* "A reply means already on its way to every follower there is" (run): when
\* a client is answered, its change is in the baseline or in the buffer of
\* every connected follower.
ReplyMeansBuffered ==
  \A s \in Sessions : pc[s] \in {"replying", "draining"} =>
    \A c \in connected \intersect open :
      change[s] <= baseline[c] + Len(stream[c])

\* The same until this node follows a leader of its own.
ReplyWhileMaster == demotions = 0 => ReplyMeansBuffered

\* No follower whose connection works is dropped from connected_replicas: one
\* that is removed was aborted, so it notices and comes back for a new
\* baseline instead of waiting for a stream that will never move
\* (drain_broadcast, drain_within_deadline).
NoSilentDrop ==
  \A c \in Conns : sync[c] \in {"sending", "live"} /\ c \in open =>
    c \in connected

\* A SYNC always gets through, however many writes keep coming: new writes
\* wait while it collects those in flight, and no wake-up is lost.
SyncCompletes ==
  \A c \in Conns : (sync[c] = "arriving") ~> (sync[c] \in {"live", "gone"})

\* A write that reached the barrier is answered, or its session has ended:
\* neither a SYNC nor the cancellation of one leaves the barrier closed.
WriteCompletes ==
  \A s \in Sessions : (pc[s] = "entering") ~> (pc[s] \in {"idle", "gone"})

-----------------------------------------------------------------------------
(***************************************************************************)
(* The refinement.  A follower is "new" until Register puts its baseline   *)
(* into its buffer; it is following while it is registered and its         *)
(* transport works.                                                        *)
(***************************************************************************)
BeforeBaseline == {"none", "arriving", "holding", "dumping", "dumped"}

UpTo(n) == [i \in 1..n |-> i]

Copy == [c \in Conns |->
           IF sync[c] \in BeforeBaseline THEN <<>>
           ELSE UpTo(baseline[c]) \o stream[c]]

Standing == [c \in Conns |->
               IF sync[c] \in BeforeBaseline THEN "new"
               ELSE IF c \in connected /\ c \in open THEN "following"
               ELSE "left"]

History == INSTANCE ReplicatedHistory WITH
  Changes <- 1..MaxChanges,
  history <- UpTo(applied),
  copy <- Copy,
  standing <- Standing

\* While the node stays a master, followers get what ReplicatedHistory
\* promises, and a follower that stays connected is never left behind.
ImplementsHistory == History!FairSpec
=============================================================================
