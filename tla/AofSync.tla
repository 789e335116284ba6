-------------------------------- MODULE AofSync --------------------------------
(***************************************************************************)
(* Where the records of the append-only file are (store.py): in the buffer *)
(* of the Python file object, in the operating system, or on the disk.     *)
(* Three threads use KedisStore.aof_file: the holder of the engine lock    *)
(* (commands, CONFIG SET appendfsync, COMPACT), the background thread of   *)
(* everysec, and the event loop when a signal shuts the server down.       *)
(*                                                                         *)
(* Changes are numbered as they are logged.  A file is named by the number *)
(* of the COMPACT that wrote it, and holds every change up to some number: *)
(* COMPACT writes what all the changes before it have led to.  All changes *)
(* are in self.aof_file, its buffer included.                              *)
(***************************************************************************)
EXTENDS Naturals

CONSTANTS
  MaxChanges,   \* bound: changes logged
  MaxCompacts,  \* bound: how often the file is replaced
  MaxSignals    \* bound: how often a signal asks for a shutdown

ASSUME AofSyncAssumption ==
  /\ MaxChanges \in Nat
  /\ MaxCompacts \in Nat
  /\ MaxSignals \in Nat

Files == 0..MaxCompacts

VARIABLES
  mode,      \* appendfsync
  busy,      \* what the holder of the engine lock is about to do
  changes,   \* changes logged
  aof,       \* the file of self.aof_file
  closed,    \* self.aof_file.closed
  name,      \* the file that has the name kedis.aof
  flushed,   \* changes in each file that the operating system has
  synced,    \* changes in each file that are on the disk
  thread,    \* the background thread
  fd,        \* the file whose descriptor the thread has asked for
  flag,      \* _shutdown_flag
  stopping,  \* the shutdown on the event loop
  signals,   \* how often it was started
  (*************************************************************************)
  (* What clients know.                                                    *)
  (*************************************************************************)
  answered,  \* changes that were answered
  promised   \* changes that were answered under "always"

fileVars   == <<aof, closed, name, flushed, synced>>
threadVars == <<thread, fd>>
stopVars   == <<flag, stopping, signals>>
clientVars == <<answered, promised>>
vars == <<mode, busy, changes, fileVars, threadVars, stopVars, clientVars>>

Init ==
  /\ mode \in {"always", "everysec"}
  /\ busy = "no"
  /\ changes = 0
  /\ aof = 0
  /\ closed = FALSE
  /\ name = 0
  /\ flushed = [f \in Files |-> 0]
  /\ synced = [f \in Files |-> 0]
  /\ thread = IF mode = "everysec" THEN "sleeping" ELSE "none"
  /\ fd = 0
  /\ flag = FALSE
  /\ stopping = "no"
  /\ signals = 0
  /\ answered = 0
  /\ promised = 0

\* self.aof_file.flush(), os.fsync(self.aof_file.fileno())
FlushAof == flushed' = [flushed EXCEPT ![aof] = changes]
Fsync(f) == synced' = [synced EXCEPT ![f] = flushed[f]]

-----------------------------------------------------------------------------
(***************************************************************************)
(* The holder of the engine lock.  A closed file makes write, flush and    *)
(* fileno raise ValueError, which ends the command with an error.  Threads *)
(* that wait for the lock when the server stops still get their turn.      *)
(***************************************************************************)

\* Mutant of Log: the policy is not looked at.
LogUnflushed ==
  /\ busy = "no"
  /\ changes < MaxChanges
  /\ ~closed
  /\ changes' = changes + 1
  /\ \E n \in flushed[aof]..changes' : flushed' = [flushed EXCEPT ![aof] = n]
  /\ busy' = "answer"
  /\ UNCHANGED <<mode, aof, closed, name, synced, threadVars, stopVars, clientVars>>

\* _log_operation: the record goes to the buffer, which may have to make room.
Log ==
  /\ busy = "no"
  /\ changes < MaxChanges
  /\ ~closed
  /\ changes' = changes + 1
  /\ \E n \in flushed[aof]..changes' : flushed' = [flushed EXCEPT ![aof] = n]
  /\ busy' = IF mode = "always" THEN "flush" ELSE "answer"
  /\ UNCHANGED <<mode, aof, closed, name, synced, threadVars, stopVars, clientVars>>

\* The flush and the fsync of _log_operation and of set_appendfsync.
Flush ==
  /\ busy = "flush"
  /\ IF closed
     THEN /\ busy' = "no"
          /\ UNCHANGED flushed
     ELSE /\ busy' = "fsync"
          /\ FlushAof
  /\ UNCHANGED <<mode, changes, aof, closed, name, synced, threadVars,
                 stopVars, clientVars>>

Sync ==
  /\ busy = "fsync"
  /\ IF closed
     THEN /\ busy' = "no"
          /\ UNCHANGED synced
     ELSE /\ busy' = "answer"
          /\ Fsync(aof)
  /\ UNCHANGED <<mode, changes, aof, closed, name, flushed, threadVars,
                 stopVars, clientVars>>

\* The engine lock is released and the client answered, unless the server has
\* stopped.  A shutdown that is under way delays the answer, and if it fails
\* the answer is sent after all: it counts from here.
Answer ==
  /\ busy = "answer"
  /\ busy' = "no"
  /\ IF stopping # "stopped"
     THEN /\ answered' = changes
          /\ promised' = IF mode = "always" THEN changes ELSE promised
     ELSE UNCHANGED clientVars
  /\ UNCHANGED <<mode, changes, fileVars, threadVars, stopVars>>

\* set_appendfsync
SetAlways ==
  /\ busy = "no"
  /\ mode' = "always"
  /\ busy' = IF closed THEN "answer" ELSE "flush"
  /\ UNCHANGED <<changes, fileVars, threadVars, stopVars, clientVars>>

SetEverysec ==
  /\ busy = "no"
  /\ mode' = "everysec"
  /\ IF thread \in {"none", "died", "ended"}
     THEN /\ thread' = "sleeping"
          /\ flag' = FALSE
     ELSE UNCHANGED <<thread, flag>>
  /\ UNCHANGED <<busy, changes, fileVars, fd, stopping, signals, clientVars>>

\* compact_aof: the temporary file is complete and closed, but not synced;
\* os.replace gives it the name.
Compact ==
  /\ busy = "no"
  /\ name < MaxCompacts
  /\ flushed' = [flushed EXCEPT ![name + 1] = changes]
  /\ name' = name + 1
  /\ busy' = "close"
  /\ UNCHANGED <<mode, changes, aof, closed, synced, threadVars,
                 stopVars, clientVars>>

\* The old file object is closed, what it buffers goes to the old file.
CompactClose ==
  /\ busy = "close"
  /\ busy' = "open"
  /\ closed' = TRUE
  /\ IF closed THEN UNCHANGED flushed ELSE FlushAof
  /\ UNCHANGED <<mode, changes, aof, name, synced, threadVars,
                 stopVars, clientVars>>

CompactOpen ==
  /\ busy = "open"
  /\ busy' = "no"
  /\ aof' = name
  /\ closed' = FALSE
  /\ UNCHANGED <<mode, changes, name, flushed, synced, threadVars, stopVars,
                 clientVars>>

-----------------------------------------------------------------------------
(***************************************************************************)
(* The background thread, _background_fsync.  It reads self.aof_file anew  *)
(* in each step; ValueError is not an OSError and ends it.                 *)
(***************************************************************************)
NextRound == IF flag THEN "ended" ELSE "sleeping"

ThreadTest ==
  /\ thread = "sleeping"
  /\ thread' = IF mode = "everysec" /\ ~closed THEN "flushing" ELSE NextRound
  /\ UNCHANGED <<mode, busy, changes, fileVars, fd, stopVars, clientVars>>

ThreadFlush ==
  /\ thread = "flushing"
  /\ IF closed
     THEN /\ thread' = "died"
          /\ UNCHANGED flushed
     ELSE /\ thread' = "asking"
          /\ FlushAof
  /\ UNCHANGED <<mode, busy, changes, aof, closed, name, synced, fd,
                 stopVars, clientVars>>

ThreadFileno ==
  /\ thread = "asking"
  /\ thread' = IF closed THEN "died" ELSE "syncing"
  /\ fd' = aof
  /\ UNCHANGED <<mode, busy, changes, fileVars, stopVars, clientVars>>

\* Mutant of ThreadFsync: the thread flushes and leaves the rest to the
\* operating system.
ThreadFsyncNever ==
  /\ thread = "syncing"
  /\ thread' = NextRound
  /\ UNCHANGED <<mode, busy, changes, fileVars, fd, stopVars, clientVars>>

\* A descriptor that was closed meanwhile is unknown, which is an OSError, or
\* is that of the next file already.
ThreadFsync ==
  /\ thread = "syncing"
  /\ thread' = NextRound
  /\ IF fd = aof /\ ~closed
     THEN Fsync(fd)
     ELSE \/ UNCHANGED synced
          \/ ~closed /\ Fsync(aof)
  /\ UNCHANGED <<mode, busy, changes, aof, closed, name, flushed, fd,
                 stopVars, clientVars>>

-----------------------------------------------------------------------------
(***************************************************************************)
(* The shutdown on the event loop: shutdown_sequence calls                 *)
(* KedisStore.shutdown, without the engine lock.                           *)
(***************************************************************************)
Signal ==
  /\ stopping = "no"
  /\ signals < MaxSignals
  /\ signals' = signals + 1
  /\ flag' = TRUE
  /\ stopping' = "joining"
  /\ UNCHANGED <<mode, busy, changes, fileVars, threadVars, clientVars>>

\* Mutant of StopTest: the file is taken for closed.
StopTestSkips ==
  /\ stopping = "joining"
  /\ stopping' = "stopped"
  /\ UNCHANGED <<mode, busy, changes, fileVars, threadVars, flag, signals, clientVars>>

\* The background thread has ended, or two seconds have passed.
StopTest ==
  /\ stopping = "joining"
  /\ stopping' = IF closed THEN "stopped" ELSE "flush"
  /\ UNCHANGED <<mode, busy, changes, fileVars, threadVars, flag, signals, clientVars>>

\* flush and fsync.  If COMPACT has just closed the file, the ValueError ends
\* the signal handler, and the server goes on.
StopFlush ==
  /\ stopping = "flush"
  /\ IF closed
     THEN /\ stopping' = "no"
          /\ UNCHANGED <<flushed, synced>>
     ELSE /\ stopping' = "close"
          /\ FlushAof
          /\ synced' = [synced EXCEPT ![aof] = changes]
  /\ UNCHANGED <<mode, busy, changes, aof, closed, name, threadVars,
                 flag, signals, clientVars>>

StopClose ==
  /\ stopping = "close"
  /\ stopping' = "stopped"
  /\ closed' = TRUE
  /\ IF closed THEN UNCHANGED flushed ELSE FlushAof
  /\ UNCHANGED <<mode, busy, changes, aof, name, synced, threadVars,
                 flag, signals, clientVars>>

\* The operating system writes to the disk when it likes.
WriteBack(f) ==
  /\ synced[f] # flushed[f]
  /\ Fsync(f)
  /\ UNCHANGED <<mode, busy, changes, aof, closed, name, flushed,
                 threadVars, stopVars, clientVars>>

-----------------------------------------------------------------------------
Command == Flush \/ Sync \/ Answer \/ CompactClose \/ CompactOpen
Background == ThreadTest \/ ThreadFlush \/ ThreadFileno \/ ThreadFsync
Shutdown == StopTest \/ StopFlush \/ StopClose

Next ==
  \/ Log \/ SetAlways \/ SetEverysec \/ Compact \/ Signal
  \/ Command \/ Background \/ Shutdown
  \/ \E f \in Files : WriteBack(f)

(***************************************************************************)
(* Fairness: a command that holds the engine lock ends, the background     *)
(* thread wakes up and goes on, a shutdown goes on.  Nobody has to send a  *)
(* command.  Spec also has an operating system that writes back what it    *)
(* was given: where a change does not get to the disk even so, it is still *)
(* in the program's buffer.                                                *)
(***************************************************************************)
Spec ==
  /\ Init /\ [][Next]_vars
  /\ WF_vars(Command) /\ WF_vars(Background) /\ WF_vars(Shutdown)
  /\ \A f \in Files : WF_vars(WriteBack(f))

-----------------------------------------------------------------------------
TypeOK ==
  /\ mode \in {"always", "everysec"}
  /\ busy \in {"no", "flush", "fsync", "answer", "close", "open"}
  /\ changes \in 0..MaxChanges
  /\ aof \in Files /\ name \in Files /\ fd \in Files
  /\ closed \in BOOLEAN
  /\ flushed \in [Files -> Nat]
  /\ synced \in [Files -> Nat]
  /\ thread \in {"none", "sleeping", "flushing", "asking", "syncing", "died", "ended"}
  /\ flag \in BOOLEAN
  /\ stopping \in {"no", "joining", "flush", "close", "stopped"}
  /\ signals \in 0..MaxSignals
  /\ answered \in Nat /\ promised \in Nat

\* "Every single write command is immediately flushed to the physical disk
\* before the next command is processed" (docs/persistence.md): a process that
\* is killed loses no change it answered under "always", whatever COMPACT, the
\* background thread, a change of the policy or a shutdown are doing.
AlwaysSurvivesKill == flushed[name] >= promised

\* "Engine powered down safely. No data lost." (shutdown_sequence): the file
\* that has the name then holds every change that was answered, also when the
\* signal came in the middle of a COMPACT or of a write.
ShutdownKeepsAll == stopping = "stopped" => flushed[name] >= answered

\* "Hands them off to the background thread to be bulk-flushed to the SSD"
\* (docs/persistence.md): every answered change gets to the disk.
EverySecond ==
  \A n \in 1..MaxChanges : (answered >= n) ~> (synced[name] >= n)

\* The same while the server runs and its background thread lives, and by the
\* flushes and fsyncs of the program alone, in an operating system that need not
\* write back anything.  A COMPACT that closes the file under the thread ends it,
\* and so does a shutdown; and under "always" nobody fsyncs the file that a
\* COMPACT has written before the next record (_background_fsync,
\* _log_operation, set_appendfsync, compact_aof).
SyncedWhileAlive ==
  \A n \in 1..MaxChanges :
    (answered >= n) ~>
      \/ synced[name] >= n
      \/ thread \in {"died", "ended"} \/ stopping = "stopped"
      \/ (mode = "always" /\ name # 0)
=============================================================================
