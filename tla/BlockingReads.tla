---------------------------- MODULE BlockingReads ----------------------------
(***************************************************************************)
(* XREAD BLOCK and XREADGROUP BLOCK (server.py): sessions that wait for    *)
(* entries of one stream, and the writers that wake them.                  *)
(*                                                                         *)
(* A pass of a read looks at the stream in a worker thread.  If it finds   *)
(* nothing, its session sleeps on a future until a writer resolves it, the *)
(* deadline passes, or the client is seen to be gone.  A writer resolves   *)
(* the futures some time after its write: a client's single command when   *)
(* it has been answered, a transaction before that, the stream of a leader *)
(* after each thing it applied.                                            *)
(*                                                                         *)
(* Entries are numbered in the order they are added.                       *)
(***************************************************************************)
EXTENDS Naturals

CONSTANTS
  Readers,    \* places for sessions that read; one that ends makes room
  Writers,    \* places for sessions that write
  MaxEntries  \* bound: entries added to the stream

ASSUME ReadsAssumption == MaxEntries \in Nat

VARIABLES
  top,      \* the last identifier of the stream
  group,    \* the consumer group exists
  cursor,   \* the last entry the group has handed out
  phase,    \* where each session is in wait_for_stream_data
  reads,    \* what each read is: an XREAD, or an XREADGROUP ... > of the group
  after,    \* the entry an XREAD reads from: '$', once it is pinned
  late,     \* its deadline has passed, which BLOCK 0 never does
  peer,     \* what has become of each session's client
  wake,     \* the future of each session's current pass
  waiters,  \* stream_waiters: the sessions whose future is in the set
  writing,  \* where each writer is between its write and its notification
  leader,   \* the same for the stream of a leader that this node follows
  silent    \* history: something changed since readers were last notified,
            \* and the one who changed it will notify nobody

streamVars == <<top, group, cursor>>
sleepVars  == <<phase, reads, after, late, peer, wake, waiters>>
writeVars  == <<writing, leader, silent>>
readsVars  == <<streamVars, sleepVars, writeVars>>

InitReads ==
  /\ top = 0
  /\ group = TRUE
  /\ cursor = 0
  /\ phase = [r \in Readers |-> "idle"]
  /\ reads = [r \in Readers |-> "none"]
  /\ after = [r \in Readers |-> 0]
  /\ late = [r \in Readers |-> FALSE]
  /\ peer = [r \in Readers |-> "here"]
  /\ wake = [r \in Readers |-> "none"]
  /\ waiters = {}
  /\ writing = [w \in Writers |-> "idle"]
  /\ leader = "quiet"
  /\ silent = FALSE

-----------------------------------------------------------------------------
(***************************************************************************)
(* stream_waiters.                                                         *)
(***************************************************************************)

\* The top of wait_for_stream_data's loop: a new future, in the set, before
\* the stream is looked at.
Register(r) ==
  /\ phase' = [phase EXCEPT ![r] = "registered"]
  /\ wake' = [wake EXCEPT ![r] = "pending"]
  /\ waiters' = waiters \union {r}

\* The read ends, with a reply or because its client is gone.  "finally": its
\* future leaves the set.
EndRead(r) ==
  /\ wake' = [wake EXCEPT ![r] = "none"]
  /\ waiters' = waiters \ {r}
  /\ after' = [after EXCEPT ![r] = 0]
  /\ late' = [late EXCEPT ![r] = FALSE]

Reply(r) ==
  /\ EndRead(r)
  /\ phase' = [phase EXCEPT ![r] = "replying"]
  /\ UNCHANGED <<reads, peer>>

EndSession(r) ==
  /\ phase' = [phase EXCEPT ![r] = "idle"]
  /\ reads' = [reads EXCEPT ![r] = "none"]
  /\ peer' = [peer EXCEPT ![r] = "here"]

\* Mutant of Notify: only sessions that are asleep by now are woken.
NotifyParked ==
  /\ wake' = [r \in Readers |->
                IF r \in waiters /\ phase[r] = "parked" THEN "done" ELSE wake[r]]
  /\ waiters' = {}
  /\ silent' = FALSE

\* notify_stream_waiters
Notify ==
  /\ wake' = [r \in Readers |-> IF r \in waiters THEN "done" ELSE wake[r]]
  /\ waiters' = {}
  /\ silent' = FALSE

-----------------------------------------------------------------------------
(***************************************************************************)
(* A blocked read.                                                         *)
(***************************************************************************)

Asleep == {"registered", "found", "empty", "parked"}

\* There is something for r: new entries, or, for a reader of a group, that
\* the group is gone.
HasNews(r) ==
  IF reads[r] = "group" THEN ~group \/ cursor < top ELSE after[r] < top

\* xresolve_ids: '$' is the top there is now; or a client gives an identifier.
Pinned == {0, top}

\* blocking_xread, blocking_xreadgroup up to the first pass.
Ask(r) ==
  /\ phase[r] = "idle"
  /\ \/ /\ reads' = [reads EXCEPT ![r] = "group"]
        /\ UNCHANGED after
     \/ /\ reads' = [reads EXCEPT ![r] = "xread"]
        /\ \E from \in Pinned : after' = [after EXCEPT ![r] = from]

\* The first future, and with it the wait.
Block(r) ==
  /\ Ask(r)
  /\ Register(r)
  /\ UNCHANGED <<streamVars, late, peer, writeVars>>

\* run_attempt, worker thread: one pass under the engine lock.  What it found
\* waits for the loop.  A group hands out what it finds.
Pass(r) ==
  /\ phase[r] = "registered"
  /\ phase' = [phase EXCEPT ![r] = IF HasNews(r) THEN "found" ELSE "empty"]
  /\ cursor' = IF reads[r] = "group" /\ group THEN top ELSE cursor
  /\ UNCHANGED <<top, group, reads, after, late, peer, wake, waiters,
                 writeVars>>

\* The pass is back on the loop with a reply, which ends the read.
Finish(r) ==
  /\ phase[r] = "found"
  /\ Reply(r)
  /\ UNCHANGED <<streamVars, writeVars>>

\* at_eof or is_closing: the client has closed, and every byte it sent has
\* been read; or the connection was reset.
SeenGone(r) == peer[r] = "gone"

\* Mutant of Park: the future is made only when the session goes to sleep.
ParkAfresh(r) ==
  /\ phase[r] = "empty"
  /\ ~SeenGone(r) /\ ~late[r]
  /\ phase' = [phase EXCEPT ![r] = "parked"]
  /\ wake' = [wake EXCEPT ![r] = "pending"]
  /\ waiters' = waiters \union {r}
  /\ UNCHANGED <<streamVars, reads, after, late, peer, writeVars>>

\* A pass found nothing, the client is there and there is time: sleep.
Park(r) ==
  /\ phase[r] = "empty"
  /\ ~SeenGone(r) /\ ~late[r]
  /\ phase' = [phase EXCEPT ![r] = "parked"]
  /\ UNCHANGED <<streamVars, reads, after, late, peer, wake, waiters,
                 writeVars>>

\* Mutant of Woken: after a wake-up, the old, resolved future is kept.
WokenKeeps(r) ==
  /\ phase[r] = "parked"
  /\ wake[r] = "done"
  /\ phase' = [phase EXCEPT ![r] = "registered"]
  /\ wake' = [wake EXCEPT ![r] = "pending"]
  /\ UNCHANGED <<streamVars, reads, after, late, peer, waiters, writeVars>>

\* A writer resolved the future: read again, with a new future.
Woken(r) ==
  /\ phase[r] = "parked"
  /\ wake[r] = "done"
  /\ Register(r)
  /\ UNCHANGED <<streamVars, reads, after, late, peer, writeVars>>

\* Mutant of Leave: there is no look at the client at each poll.
LeaveUnpolled(r) ==
  /\ phase[r] = "empty"
  /\ SeenGone(r)
  /\ EndRead(r) /\ EndSession(r)
  /\ UNCHANGED <<streamVars, writeVars>>

\* Before it sleeps, and at each poll: the client is gone.  A wake-up that
\* comes in the same turn of the loop as the poll does not change that.
Leave(r) ==
  /\ phase[r] \in {"empty", "parked"}
  /\ SeenGone(r)
  /\ EndRead(r) /\ EndSession(r)
  /\ UNCHANGED <<streamVars, writeVars>>

\* Then: the deadline has passed, and the reply is nil.
TimeOut(r) ==
  /\ phase[r] \in {"empty", "parked"}
  /\ ~SeenGone(r)
  /\ late[r]
  /\ Reply(r)
  /\ UNCHANGED <<streamVars, writeVars>>

\* The reply is sent, and an XREADGROUP, being a write, notifies.  If the
\* client is gone, that may fail, and the session ends either way.
Answer(r) ==
  /\ phase[r] = "replying"
  /\ EndSession(r)
  /\ \/ reads[r] = "group" /\ Notify
     \/ /\ reads[r] = "xread" \/ peer[r] # "here"
        /\ UNCHANGED <<wake, waiters, silent>>
  /\ UNCHANGED <<streamVars, after, late, writing, leader>>

\* The client goes: it closes or resets its connection, or it closes with a
\* command that it had sent behind the blocked read and that nobody has read.
Depart(r) ==
  /\ phase[r] # "idle" /\ peer[r] = "here"
  /\ \E how \in {"gone", "goneUnread"} : peer' = [peer EXCEPT ![r] = how]
  /\ UNCHANGED <<streamVars, phase, reads, after, late, wake, waiters,
                 writeVars>>

\* Time passes.
Expire(r) ==
  /\ phase[r] \in Asleep /\ ~late[r]
  /\ late' = [late EXCEPT ![r] = TRUE]
  /\ UNCHANGED <<streamVars, phase, reads, after, peer, wake, waiters, writeVars>>

-----------------------------------------------------------------------------
(***************************************************************************)
(* Those who change the stream.                                            *)
(***************************************************************************)

\* What a write does to the stream and its group: XADD, XGROUP CREATE or
\* SETID, XGROUP DESTROY, or nothing at all (a write to another key).
ChangeStream ==
  \/ /\ top < MaxEntries
     /\ top' = top + 1
     /\ UNCHANGED <<group, cursor>>
  \/ /\ group' = TRUE
     /\ cursor' \in {0, top}
     /\ UNCHANGED top
  \/ /\ group' = FALSE
     /\ cursor' = 0
     /\ UNCHANGED top
  \/ UNCHANGED streamVars

\* A write, or a transaction, in a worker thread under the engine lock.
Write(w) ==
  /\ writing[w] = "idle"
  /\ ChangeStream
  /\ \E kind \in {"command", "block"} :
       writing' = [writing EXCEPT ![w] = kind]
  /\ UNCHANGED <<sleepVars, leader, silent>>

\* run: the reply of a single command has been sent; handle_exec: the block
\* has run.  The readers are notified.
Announce(w) ==
  /\ writing[w] \in {"command", "block"}
  /\ writing' = [writing EXCEPT ![w] = "idle"]
  /\ Notify
  /\ UNCHANGED <<streamVars, phase, reads, after, late, peer, leader>>

\* run: the reply of a single command cannot be sent, because the client has
\* reset the connection or does not read: the session ends there.
LoseWriter(w) ==
  /\ writing[w] = "command"
  /\ writing' = [writing EXCEPT ![w] = "idle"]
  /\ silent' = TRUE
  /\ UNCHANGED <<streamVars, sleepVars, leader>>

\* init_replication_stream: a command or a transaction of the leader, applied
\* in a worker thread, adds entries up to newTop; the loop then notifies,
\* unless the stream was stopped meanwhile.
ApplyFromLeader(newTop, stopped) ==
  /\ top' = newTop
  /\ leader' = IF stopped THEN leader ELSE "applied"
  /\ silent' = (silent \/ stopped)
  /\ UNCHANGED <<group, cursor, sleepVars, writing>>

AnnounceLeader ==
  /\ leader = "applied"
  /\ leader' = "quiet"
  /\ Notify
  /\ UNCHANGED <<streamVars, phase, reads, after, late, peer, writing>>

\* The stream is stopped between a command and its notification.
StopLeader ==
  /\ silent' = (silent \/ leader = "applied")
  /\ leader' = "quiet"
  /\ UNCHANGED <<streamVars, sleepVars, writing>>

\* restore_snapshot_state: the leader's baseline, with a stream of n entries
\* and perhaps its group, replaces the keyspace.  Nobody is notified.
LoadBaseline(n) ==
  /\ top' = n
  /\ \/ group' = TRUE /\ cursor' \in {0, n}
     \/ group' = FALSE /\ cursor' = 0
  /\ silent' = TRUE
  /\ UNCHANGED <<sleepVars, writing, leader>>

-----------------------------------------------------------------------------
ReadStep(r) ==
  \/ Block(r) \/ Pass(r) \/ Finish(r) \/ Park(r) \/ Woken(r) \/ Leave(r)
  \/ TimeOut(r) \/ Answer(r) \/ Depart(r) \/ Expire(r)

WriteStep(w) == Write(w) \/ Announce(w) \/ LoseWriter(w)

LeaderStep ==
  \/ \E newTop \in top..MaxEntries, stopped \in BOOLEAN :
       ApplyFromLeader(newTop, stopped)
  \/ AnnounceLeader \/ StopLeader
  \/ \E n \in 0..MaxEntries : LoadBaseline(n)

\* A node that follows nobody, and one that may follow a leader.
ClientsNext == (\E r \in Readers : ReadStep(r)) \/ (\E w \in Writers : WriteStep(w))

ReadsNext == ClientsNext \/ LeaderStep

ReadsSpec == InitReads /\ [][ReadsNext]_readsVars

(***************************************************************************)
(* Fairness: the loop runs what is ready, worker threads are scheduled, a  *)
(* poll comes every _BLOCK_POLL, and a reply is sent, or given up on, by   *)
(* its deadline.  Nothing obliges a client to do anything.                 *)
(***************************************************************************)
Progress(r) ==
  \/ Pass(r) \/ Finish(r) \/ Park(r) \/ Woken(r) \/ Leave(r) \/ TimeOut(r)
  \/ Answer(r)

FairClientsSpec ==
  /\ InitReads /\ [][ClientsNext]_readsVars
  /\ \A r \in Readers : WF_readsVars(Progress(r))
  /\ \A w \in Writers : WF_readsVars(Announce(w) \/ LoseWriter(w))

-----------------------------------------------------------------------------
ReadsTypeOK ==
  /\ top \in 0..MaxEntries
  /\ group \in BOOLEAN
  /\ cursor \in 0..MaxEntries
  /\ phase \in [Readers -> Asleep \union {"idle", "replying"}]
  /\ reads \in [Readers -> {"none", "xread", "group"}]
  /\ after \in [Readers -> 0..MaxEntries]
  /\ late \in [Readers -> BOOLEAN]
  /\ peer \in [Readers -> {"here", "gone", "goneUnread"}]
  /\ wake \in [Readers -> {"none", "pending", "done"}]
  /\ waiters \subseteq Readers
  /\ writing \in [Writers -> {"idle", "command", "block"}]
  /\ leader \in {"quiet", "applied"}
  /\ silent \in BOOLEAN

\* stream_waiters holds the futures of blocked reads and no others, and every
\* future nobody has resolved yet is in it: no read leaves one behind when it
\* ends, however it ends, and none is dropped without being resolved.
WaitersExact ==
  /\ waiters = {r \in Readers : wake[r] = "pending"}
  /\ \A r \in Readers : wake[r] # "none" <=> phase[r] \in Asleep

\* Somebody will notify the readers of a change that was made.
Owed == leader = "applied" \/ \E w \in Writers : writing[w] \in {"command", "block"}

\* "A write landing between the read and the wait" is not missed
\* (wait_for_stream_data): a read that is about to sleep, or asleep, with an
\* unresolved future and something to read has a notification coming, unless
\* the change was made by one who can notify nobody any more.
NoLostWakeup ==
  \A r \in Readers :
    phase[r] \in {"empty", "parked"} /\ wake[r] = "pending" /\ HasNews(r) =>
      Owed \/ silent

\* A blocked read with something to read is not left asleep, unless its
\* change was made by one who can notify nobody any more, or the news goes
\* to another consumer (wait_for_stream_data, notify_stream_waiters).
Served ==
  \A r \in Readers :
    (phase[r] = "parked" /\ HasNews(r))
      ~> (phase[r] # "parked" \/ ~HasNews(r) \/ silent)

\* "On timeout the reply is (nil).  A client that disconnects while blocked
\* is cleaned up" (docs/streams.md): past its deadline, or with its client
\* seen to be gone, a blocked read ends, however often it is woken for
\* nothing meanwhile.
EndsInTime ==
  \A r \in Readers :
    (phase[r] \in Asleep /\ (SeenGone(r) \/ late[r]))
      ~> (phase[r] \notin Asleep)

\* "A write to any stream wakes every blocked reader" (docs/streams.md): a
\* blocked read with something to read is not left asleep while its client
\* waits, whoever wrote it.
WriteWakes ==
  \A r \in Readers :
    (phase[r] = "parked" /\ HasNews(r))
      ~> (phase[r] # "parked" \/ ~HasNews(r) \/ peer[r] # "here")
=============================================================================
