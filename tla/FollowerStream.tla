--------------------------- MODULE FollowerStream ---------------------------
(***************************************************************************)
(* The follower's side of replication (server.py, LeaderStream,            *)
(* read_transaction, init_replication_stream): bytes of a leader arrive in *)
(* pieces, commands are cut out of them, and commands and whole            *)
(* transactions are applied, until the leader or the stream fails.         *)
(*                                                                         *)
(* What the leader would send is a script: frames that follow each other.  *)
(* The leader may close, reset or stall at any byte of it.  Framing.tla    *)
(* has the layout of frames.                                               *)
(***************************************************************************)
EXTENDS Framing, SequencesExt

(***************************************************************************)
(* A frame of a script has                                                 *)
(*   parts, blank   see Framing                                            *)
(*   what           "command", "tx" (a TXBATCH header), "baseline" (one    *)
(*                  string with a JSON object, where a baseline is waited  *)
(*                  for) or "blank"                                        *)
(*   count          of a "tx": the commands it announces, 0 for a header   *)
(*                  that is not one number from 2 up                       *)
(*   size           the bytes of a command's strings                       *)
(*   adds           entries added to the stream that readers block on      *)
(***************************************************************************)
CONSTANTS
  Scripts,         \* what a leader may send
  MaxCommandBytes  \* CommandParser.MAX_COMMAND_BYTES

\* Frames that follow each other, each with its parts one behind the other.
Script(frames) ==
  /\ frames \in Seq([parts : Seq([end : Nat, kind : {"line", "bytes", "junk"}]),
                     blank : BOOLEAN, what : {"command", "tx", "baseline", "blank"},
                     count : Nat, size : Nat, adds : Nat])
  /\ frames # <<>>
  /\ \A i \in DOMAIN frames :
       LET parts == frames[i].parts
       IN  /\ parts # <<>>
           /\ StartOf(frames, i) < parts[1].end
           /\ \A j, k \in DOMAIN parts : j < k => parts[j].end < parts[k].end
           /\ frames[i].what = "blank" <=> frames[i].blank
           /\ frames[i].what = "baseline" => \A j \in 1..(i - 1) : frames[j].blank

ASSUME FollowerStreamAssumption ==
  /\ \A s \in Scripts : Script(s)
  /\ MaxCommandBytes \in Nat

VARIABLES
  script,   \* what this leader sends
  got,      \* LeaderStream.buf: bytes that were read from the socket
  pos,      \* LeaderStream.pos: where the bytes not yet handed out begin
  need,     \* LeaderStream.need: unread bytes before a parse makes sense
  stage,    \* where init_replication_stream is
  batch,    \* read_transaction: the commands collected
  left,     \* read_transaction: how many are still to come
  thread,   \* what a worker thread has been given to apply
  applied,  \* the frames whose commands were applied, in order
  role      \* server_role

followVars == <<script, got, pos, need, stage, batch, left, thread, applied,
                role>>

Total == End(script[Len(script)].parts)

InitFollower ==
  /\ script \in Scripts
  /\ got = 0
  /\ pos = 0
  /\ need = 0
  /\ stage = "connecting"
  /\ batch = <<>>
  /\ left = 0
  /\ thread = <<>>
  /\ applied = <<>>
  /\ role \in {"master", "replica"}

-----------------------------------------------------------------------------
(***************************************************************************)
(* The end of the stream, and of its LeaderStream with what it holds.      *)
(* ReplicationError leaves this node what it is; any other exception makes *)
(* it a master.                                                            *)
(***************************************************************************)
Stop ==
  /\ stage' = "stopped"
  /\ got' = 0
  /\ pos' = 0
  /\ need' = 0
  /\ batch' = <<>>
  /\ left' = 0

Drop == Stop /\ UNCHANGED role

Crash == Stop /\ role' = "master"

\* The connection to the leader comes up: SYNC is sent; or it is refused.
Connect ==
  /\ stage = "connecting"
  /\ stage' = "baseline"
  /\ role' = "replica"
  /\ UNCHANGED <<script, got, pos, need, batch, left, thread, applied>>

Refused ==
  /\ stage = "connecting"
  /\ Crash
  /\ UNCHANGED <<script, thread, applied>>

\* REPLICAOF NO ONE, or REPLICAOF to another leader, whose stream is a new
\* one: the task is cancelled.  A thread that has a command goes on.
Promote ==
  /\ stage # "stopped" \/ role = "replica"
  /\ Crash
  /\ UNCHANGED <<script, thread, applied>>

Replace ==
  /\ stage # "stopped"
  /\ Drop
  /\ UNCHANGED <<script, thread, applied>>

-----------------------------------------------------------------------------
(***************************************************************************)
(* LeaderStream.next_command, and what is done with the frame it returns.  *)
(***************************************************************************)

\* The stages in which next_command has been called and not returned.
Reading == stage \in {"baseline", "live", "batch"}

\* The buffer is worth a parse.
ParseDue == got > pos /\ got - pos >= need

\* Mutant of HandOut: the bytes of the frame stay unread.
HandOutKept(i) == need' = 0 /\ UNCHANGED <<got, pos, role>>

\* Frame i is returned: its bytes are consumed, and there is no hint.
HandOut(i) ==
  /\ pos' = End(script[i].parts)
  /\ need' = 0
  /\ UNCHANGED <<got, role>>

BatchSize(frames) == SumFunction([k \in DOMAIN frames |-> script[frames[k]].size])

\* Mutant of Collect: a transaction inside a transaction is not refused.
CollectNested(i) ==
  /\ batch' = IF left = 1 THEN <<>> ELSE Append(batch, i)
  /\ left' = left - 1
  /\ IF left = 1
     THEN stage' = "applying" /\ thread' = Append(batch, i)
     ELSE UNCHANGED <<stage, thread>>
  /\ HandOut(i)

\* read_transaction gets the next command of the transaction: all are read
\* before any is applied.
Collect(i) ==
  LET frames == Append(batch, i)
  IN IF script[i].what = "tx" \/ BatchSize(frames) > MaxCommandBytes
     THEN Drop /\ UNCHANGED thread
     ELSE /\ batch' = IF left = 1 THEN <<>> ELSE frames
          /\ left' = left - 1
          /\ IF left = 1
             THEN stage' = "applying" /\ thread' = frames
             ELSE UNCHANGED <<stage, thread>>
          /\ HandOut(i)

\* init_replication_stream gets a live frame.
TakeLive(i) ==
  \/ /\ script[i].what # "tx"
     /\ stage' = "applying"
     /\ thread' = <<i>>
     /\ HandOut(i)
     /\ UNCHANGED <<batch, left>>
  \/ /\ script[i].what = "tx" /\ script[i].count >= 2
     /\ stage' = "batch"
     /\ left' = script[i].count
     /\ HandOut(i)
     /\ UNCHANGED <<batch, thread>>
  \/ /\ script[i].what = "tx" /\ script[i].count < 2
     /\ Drop
     /\ UNCHANGED thread

\* The first frame: its JSON is parsed in a worker thread.
TakeBaseline(i) ==
  /\ IF script[i].what = "baseline"
     THEN stage' = "restoring" /\ HandOut(i) /\ UNCHANGED <<batch, left>>
     ELSE Drop
  /\ UNCHANGED thread

Take(i) ==
  \/ stage = "baseline" /\ TakeBaseline(i)
  \/ stage = "live" /\ TakeLive(i)
  \/ stage = "batch" /\ Collect(i)

Parse ==
  /\ Reading /\ ParseDue
  /\ LET result == ParseBuffer(script, pos, got)
     IN \/ result.verdict = "command" /\ Take(result.frame)
        \/ result.verdict = "malformed" /\ Drop /\ UNCHANGED thread
        \/ /\ result.verdict \in {"incomplete", "nothing"}
           /\ pos' = result.pos
           /\ need' = result.need
           /\ UNCHANGED <<got, stage, batch, left, thread, role>>
  /\ UNCHANGED <<script, applied>>

-----------------------------------------------------------------------------
(***************************************************************************)
(* reader.read, when the buffer holds nothing that can be handed out.      *)
(***************************************************************************)
Waiting == Reading /\ ~ParseDue

\* A chunk: whatever part of the rest has come.
Receive ==
  /\ Waiting
  /\ got' \in (got + 1)..Total
  /\ UNCHANGED <<script, pos, need, stage, batch, left, thread, applied, role>>

\* The leader has closed.  Between commands of a live stream that is a clean
\* end; before the baseline it is a lost connection; anywhere else an error.
Closed ==
  /\ Waiting
  /\ IF stage = "baseline" /\ got = pos THEN Crash ELSE Drop
  /\ UNCHANGED <<script, thread, applied>>

\* The connection was reset: read raises.
Reset ==
  /\ Waiting
  /\ Crash
  /\ UNCHANGED <<script, thread, applied>>

\* STALL_TIMEOUT or FRAME_DEADLINE: for the rest of a frame, for the baseline,
\* for the next command of a transaction.  A live stream may be quiet.
TimedOut ==
  /\ Waiting
  /\ got > pos \/ stage \in {"baseline", "batch"}
  /\ Drop
  /\ UNCHANGED <<script, thread, applied>>

-----------------------------------------------------------------------------
(***************************************************************************)
(* What was received is applied.                                           *)
(***************************************************************************)

\* restore_snapshot_state, on the loop.
Restore ==
  /\ stage = "restoring"
  /\ stage' = "live"
  /\ UNCHANGED <<script, got, pos, need, batch, left, thread, applied, role>>

\* execute or execute_batch, in the worker thread.
Apply ==
  /\ thread # <<>>
  /\ thread' = <<>>
  /\ applied' = applied \o thread
  /\ stage' = IF stage = "applying" THEN "applied" ELSE stage
  /\ UNCHANGED <<script, got, pos, need, batch, left, role>>

\* Back on the loop: readers are notified, and the next frame is awaited.
Applied ==
  /\ stage = "applied"
  /\ stage' = "live"
  /\ UNCHANGED <<script, got, pos, need, batch, left, thread, applied, role>>

FollowerNext ==
  \/ Connect \/ Refused \/ Promote \/ Replace \/ Parse \/ Receive \/ Closed
  \/ Reset \/ TimedOut \/ Restore \/ Apply \/ Applied

FollowerSpec == InitFollower /\ [][FollowerNext]_followVars

-----------------------------------------------------------------------------
FollowerTypeOK ==
  /\ script \in Scripts
  /\ got \in 0..Total
  /\ pos \in 0..got
  /\ need \in 0..(Total + 1)
  /\ stage \in {"connecting", "baseline", "restoring", "live", "batch",
                "applying", "applied", "stopped"}
  /\ batch \in Seq(DOMAIN script)
  /\ left \in Nat
  /\ thread \in Seq(DOMAIN script)
  /\ applied \in Seq(DOMAIN script)
  /\ role \in {"master", "replica"}

(***************************************************************************)
(* What a script means, whatever the pieces it arrives in.                 *)
(***************************************************************************)
Frames == {i \in DOMAIN script : ~script[i].blank}
Commands == {i \in Frames : script[i].what = "command"}
Headers == {i \in Frames : script[i].what = "tx"}

\* The frames a header announces, as far as there are any.
Members(h) ==
  {k \in Frames : k > h /\ Cardinality({j \in Frames : h < j /\ j <= k}) <= script[h].count}

WellFormed(h) ==
  /\ script[h].count >= 2
  /\ Cardinality(Members(h)) = script[h].count
  /\ Members(h) \subseteq Commands
  /\ SumFunctionOnSet([k \in DOMAIN script |-> script[k].size], Members(h)) <= MaxCommandBytes

Done == {applied[k] : k \in DOMAIN applied}

\* The store is the baseline and then the leader's commands, each once, in
\* order and with none left out, up to some command; and nothing that stands
\* behind bytes that are no frame (LeaderStream.next_command).
AppliedInOrder ==
  /\ \A j, k \in DOMAIN applied : j < k => applied[j] < applied[k]
  /\ Done = {c \in Commands : \E d \in Done : c <= d}
  /\ \A d \in Done : \A i \in 1..d : ~Malformed(script[i].parts, Total)

\* "No reader sees half of it" (docs/limits.md): of a transaction, all is
\* applied or nothing; and it is nothing, with all that follows, if it is cut
\* off, nested, announced wrongly or too large (read_transaction).
TransactionsWhole ==
  \A h \in Headers : (\E d \in Done : d > h) => WellFormed(h) /\ Members(h) \subseteq Done

\* The hint that saves a parse after every chunk never costs a command: while
\* the follower waits for bytes, what it holds has no whole command in it and
\* nothing that is malformed (parse_buffer, next_command).
NeverSitsOnACommand ==
  Waiting => ParseBuffer(script, pos, got).verdict \in {"incomplete", "nothing"}

\* Everything the leader sent is applied in the end, unless the stream ends:
\* no frame is waited for that is already there.
EverythingApplied ==
  (got = Total /\ stage # "stopped")
    ~> (stage = "stopped" \/ Commands \subseteq Done)

FairFollowerSpec ==
  /\ FollowerSpec
  /\ WF_followVars(Parse)
  /\ WF_followVars(Restore)
  /\ WF_followVars(Apply)
  /\ WF_followVars(Applied)
=============================================================================
