-------------------------- MODULE TransactionsProofs --------------------------
(***************************************************************************)
(* Proofs about Transactions.tla, for any clients, keys and bounds.        *)
(***************************************************************************)
EXTENDS Transactions, SequenceTheorems, TLAPS

USE TransactionsAssumption DEF TransactionsAssumption
USE DEF queueVars, watchVars, threadVars, storeVars

\* A command that is half done is the first of those still to run, and no read.
HalfInv ==
  \A c \in Clients : pc[c] = "half" => rest[c] # <<>> /\ Head(rest[c]).op # "read"

Types == TypeOK /\ HalfInv

LEMMA CommandKeys ==
  ASSUME NEW cmd \in Commands
  PROVE  /\ cmd.on \subseteq Keys
         /\ cmd.op \in {"read", "set", "del", "flushall"}
BY DEF Commands

\* The first command of a thread that has one, and what is left after it.
LEMMA FirstCommand ==
  ASSUME NEW s \in Seq(Commands), s # <<>>
  PROVE  Head(s) \in Commands /\ Tail(s) \in Seq(Commands)
BY HeadTailProperties

-----------------------------------------------------------------------------
(***************************************************************************)
(* Types.                                                                  *)
(***************************************************************************)
LEMMA Tables ==
  /\ NoKeys \in WatchTables
  /\ \A t \in WatchTables, k \in Keys, n \in Nat :
       [j \in DOMAIN t \union {k} |-> IF j = k THEN n ELSE t[j]] \in WatchTables
<1>1. NoKeys \in [{} -> Nat] /\ {} \in SUBSET Keys
  BY DEF NoKeys
<1>2. ASSUME NEW t \in WatchTables, NEW k \in Keys, NEW n \in Nat
      PROVE  [j \in DOMAIN t \union {k} |-> IF j = k THEN n ELSE t[j]] \in WatchTables
  <2>1. PICK S \in SUBSET Keys : t \in [S -> Nat]
    BY DEF WatchTables
  <2>2. [j \in DOMAIN t \union {k} |-> IF j = k THEN n ELSE t[j]]
          \in [S \union {k} -> Nat]
    BY <2>1
  <2>. QED
    BY <2>2 DEF WatchTables
<1>. QED
  BY <1>1, <1>2 DEF WatchTables

-----------------------------------------------------------------------------
(***************************************************************************)
(* Types.                                                                  *)
(***************************************************************************)
LEMMA TypesInit == Init => Types
<1>. SUFFICES ASSUME Init PROVE Types
  OBVIOUS
<1>1. QueueType
  BY DEF Init, QueueType
<1>2. WatchType
  BY Tables DEF Init, WatchType
<1>3. ThreadType
  BY DEF Init, ThreadType
<1>4. StoreType
  BY DEF Init, StoreType
<1>5. HalfInv
  BY DEF Init, HalfInv
<1>. QED
  BY <1>1, <1>2, <1>3, <1>4, <1>5 DEF Types, TypeOK

LEMMA ForgetType ==
  ASSUME WatchType, NEW c \in Clients, Unlock(c), Forget(c)
  PROVE  WatchType'
BY Tables DEF WatchType, Unlock, Forget

LEMMA ResetType ==
  ASSUME QueueType, NEW c \in Clients, ResetQueue(c), inTx' \subseteq Clients
  PROVE  QueueType'
BY DEF QueueType, ResetQueue

\* The steps of a session on the loop leave its thread and the store alone,
\* but for those that start one.
LEMMA TypesTransactor ==
  ASSUME Types, NEW c \in Transactors, TransactorStep(c)
  PROVE  Types'
<1>. c \in Clients
  OBVIOUS
<1>. USE DEF Types, TypeOK
<1>1. ASSUME NEW k \in Keys, Watch(c, k) PROVE Types'
  <2>1. watched' \in [Clients -> WatchTables]
    <3>1. watched[c] \in WatchTables /\ versions[k] \in Nat
      BY DEF WatchType, StoreType
    <3>2. [j \in DOMAIN watched[c] \union {k} |->
             IF j = k THEN versions[k] ELSE watched[c][j]] \in WatchTables
      BY <3>1, Tables
    <3>. QED
      BY <1>1, <3>2 DEF Watch, WatchType
  <2>2. WatchType'
    BY <1>1, <2>1 DEF Watch, WatchType
  <2>. QED
    BY <1>1, <2>2 DEF Watch, QueueType, ThreadType, StoreType, HalfInv
<1>2. ASSUME NEW cmd \in Commands, QueueCommand(c, cmd) PROVE Types'
  <2>1. queue' \in [Clients -> Seq(Commands)]
    <3>1. queue[c] \in Seq(Commands) /\ <<>> \in Seq(Commands)
      BY DEF QueueType
    <3>2. Append(queue[c], cmd) \in Seq(Commands)
      BY <3>1
    <3>3. \/ queue' = queue
          \/ queue' = [queue EXCEPT ![c] = <<>>]
          \/ queue' = [queue EXCEPT ![c] = Append(queue[c], cmd)]
      BY <1>2 DEF QueueCommand, Keep
    <3>. QED
      BY <3>1, <3>2, <3>3 DEF QueueType
  <2>2. overflowed' \subseteq Clients /\ refused' \subseteq Clients /\ lost' \subseteq Clients
    BY <1>2 DEF QueueCommand, Keep, QueueType
  <2>. QED
    BY <1>2, <2>1, <2>2 DEF QueueCommand, QueueType, WatchType, ThreadType,
       StoreType, HalfInv
<1>3. CASE Unwatch(c)
  <2>1. WatchType'
    BY <1>3, ForgetType DEF Unwatch
  <2>. QED
    BY <1>3, <2>1 DEF Unwatch, QueueType, ThreadType, StoreType, HalfInv
<1>4. CASE Multi(c)
  <2>1. QueueType'
    BY <1>4, ResetType DEF Multi, QueueType
  <2>. QED
    BY <1>4, <2>1 DEF Multi, WatchType, ThreadType, StoreType, HalfInv
<1>5. CASE Discard(c)
  <2>1. QueueType' /\ WatchType'
    BY <1>5, ResetType, ForgetType DEF Discard, QueueType
  <2>. QED
    BY <1>5, <2>1 DEF Discard, ThreadType, StoreType, HalfInv
<1>6. CASE ExecAborts(c)
  <2>1. QueueType' /\ WatchType'
    BY <1>6, ResetType, ForgetType DEF ExecAborts, QueueType
  <2>. QED
    BY <1>6, <2>1 DEF ExecAborts, ThreadType, StoreType, HalfInv
<1>7. CASE ExecRuns(c)
  <2>1. QueueType'
    BY <1>7 DEF ExecRuns, QueueType
  <2>2. WatchType'
    BY <1>7, Tables DEF ExecRuns, Unlock, WatchType
  <2>3. ThreadType'
    BY <1>7 DEF ExecRuns, ThreadType, QueueType
  <2>4. HalfInv'
    BY <1>7 DEF ExecRuns, HalfInv, ThreadType
  <2>. QED
    BY <1>7, <2>1, <2>2, <2>3, <2>4 DEF ExecRuns, StoreType
<1>. QED
  BY <1>1, <1>2, <1>3, <1>4, <1>5, <1>6, <1>7 DEF TransactorStep

LEMMA TypesSession ==
  ASSUME Types, NEW c \in Clients, SessionStep(c)
  PROVE  Types'
<1>. USE DEF Types, TypeOK
<1>1. ASSUME NEW cmd \in Commands, Submit(c, cmd) PROVE Types'
  <2>1. rest' \in [Clients -> Seq(Commands)]
    BY <1>1 DEF Submit, ThreadType
  <2>2. ThreadType' /\ HalfInv'
    BY <1>1, <2>1 DEF Submit, ThreadType, HalfInv
  <2>. QED
    BY <1>1, <2>2 DEF Submit, QueueType, WatchType, StoreType
<1>2. CASE Answer(c)
  <2>1. QueueType'
    BY <1>2, ResetType DEF Answer, QueueType
  <2>2. unanswered' \in [Clients -> SUBSET (Keys \X Clients)]
    BY <1>2 DEF Answer, WatchType
  <2>3. \A d \in Clients : {p[1] : p \in {q \in unanswered[d] : q[2] = c}} \subseteq Keys
    BY DEF WatchType
  <2>4. answered' \in [Clients -> SUBSET Keys]
    BY <1>2, <2>3 DEF Answer, WatchType
  <2>5. WatchType'
    BY <1>2, <2>2, <2>4 DEF Answer, WatchType
  <2>6. ThreadType' /\ HalfInv'
    BY <1>2 DEF Answer, ThreadType, HalfInv
  <2>. QED
    BY <1>2, <2>1, <2>5, <2>6 DEF Answer, StoreType
<1>3. CASE Disconnect(c)
  <2>1. QueueType' /\ WatchType'
    BY <1>3, ResetType, ForgetType DEF Disconnect, QueueType
  <2>. QED
    BY <1>3, <2>1 DEF Disconnect, ThreadType, StoreType, HalfInv
<1>. QED
  BY <1>1, <1>2, <1>3 DEF SessionStep

LEMMA TypesThread ==
  ASSUME Types, NEW c \in Clients, ThreadStep(c)
  PROVE  Types'
<1>. USE DEF Types, TypeOK
<1>1. CASE TakeEngine(c)
  <2>1. ThreadType' /\ HalfInv'
    BY <1>1 DEF TakeEngine, ThreadType, HalfInv
  <2>. QED
    BY <1>1, <2>1 DEF TakeEngine, QueueType, WatchType, StoreType
<1>2. CASE Look(c)
  <2>1. Tail(rest[c]) \in Seq(Commands)
    BY <1>2, FirstCommand DEF Look, ThreadType
  <2>2. ThreadType' /\ HalfInv'
    BY <1>2, <2>1 DEF Look, ThreadType, HalfInv
  <2>3. DOMAIN watched[c] \subseteq Keys
    BY DEF WatchType, WatchTables
  <2>4. WatchType'
    BY <1>2, <2>3 DEF Look, WatchType
  <2>. QED
    BY <1>2, <2>2, <2>4 DEF Look, QueueType, StoreType
<1>3. CASE Begin(c)
  <2>1. Head(rest[c]) \in Commands
    BY <1>3, FirstCommand DEF Begin, ThreadType
  <2>2. present' \subseteq Keys
    BY <1>3, <2>1, CommandKeys DEF Begin, Effective, StoreType
  <2>3. versions' \in [Keys -> Nat]
    BY <1>3 DEF Begin, StoreType
  <2>4. log' \in Seq(Nat)
    BY <1>3 DEF Begin, StoreType, ThreadType
  <2>5. ThreadType' /\ HalfInv'
    BY <1>3 DEF Begin, Effective, ThreadType, HalfInv
  <2>. QED
    BY <1>3, <2>2, <2>3, <2>4, <2>5 DEF Begin, QueueType, WatchType, StoreType
<1>4. CASE End(c)
  <2>1. Tail(rest[c]) \in Seq(Commands) /\ Head(rest[c]) \in Commands
    BY <1>4, FirstCommand DEF End, ThreadType, HalfInv
  <2>2. versions' \in [Keys -> Nat]
    <3>1. Head(rest[c]).op \in {"set", "del", "flushall"}
      BY <1>4, <2>1, CommandKeys DEF End, HalfInv
    <3>. QED
      BY <1>4, <3>1 DEF End, NewVersions, StoreType
  <2>3. ThreadType' /\ HalfInv'
    BY <1>4, <2>1 DEF End, ThreadType, HalfInv
  <2>4. unanswered' \in [Clients -> SUBSET (Keys \X Clients)]
    BY <1>4 DEF End, WatchType
  <2>5. wiped' \subseteq Clients
    BY <1>4 DEF End, WatchType
  <2>6. present' \subseteq Keys
    BY <1>4 DEF End, StoreType
  <2>. QED
    BY <1>4, <2>2, <2>3, <2>4, <2>5, <2>6 DEF End, QueueType, WatchType, StoreType
<1>5. CASE Release(c)
  <2>1. ThreadType' /\ HalfInv'
    BY <1>5 DEF Release, ThreadType, HalfInv
  <2>. QED
    BY <1>5, <2>1 DEF Release, QueueType, WatchType, StoreType
<1>. QED
  BY <1>1, <1>2, <1>3, <1>4, <1>5 DEF ThreadStep

LEMMA TypesStep == Types /\ [Next]_vars => Types'
<1>. SUFFICES ASSUME Types, [Next]_vars PROVE Types'
  OBVIOUS
<1>. USE DEF Types, TypeOK, QueueType, WatchType, ThreadType, StoreType, HalfInv
<1>1. ASSUME NEW k \in Keys, Expire(k) PROVE Types'
  BY <1>1 DEF Expire
<1>2. CASE ChangeRole
  BY <1>2 DEF ChangeRole
<1>3. CASE UNCHANGED vars
  BY <1>3 DEF vars
<1>. QED
  BY <1>1, <1>2, <1>3, TypesTransactor, TypesSession, TypesThread DEF Next

\* Every variable of the sessions, the store and the ghosts stays within its
\* type.
THEOREM TransactionsTypeCorrect == Spec => []TypeOK
<1>1. Types => TypeOK
  BY DEF Types
<1>. QED
  BY <1>1, TypesInit, TypesStep, PTL DEF Spec

-----------------------------------------------------------------------------
(***************************************************************************)
(* Blocks are whole: what a block lost is remembered until the queue is    *)
(* reset, and EXEC does not run a block that remembers a loss.             *)
(***************************************************************************)
WholeInv ==
  /\ lost \subseteq overflowed \union refused
  /\ \A c \in block : pc[c] # "ready"
  /\ WholeBlocks

LEMMA WholeTransactor ==
  ASSUME Types, WholeInv, NEW c \in Transactors, TransactorStep(c)
  PROVE  WholeInv'
<1>. c \in Clients /\ QueueType /\ ThreadType
  BY DEF Types, TypeOK
<1>. USE DEF WholeInv, WholeBlocks
<1>1. ASSUME NEW k \in Keys, Watch(c, k) PROVE WholeInv'
  BY <1>1 DEF Watch
<1>2. ASSUME NEW cmd \in Commands, QueueCommand(c, cmd) PROVE WholeInv'
  <2>1. c \notin block
    BY <1>2 DEF QueueCommand
  <2>2. \/ c \in overflowed' \union refused' /\ lost' \subseteq lost \union {c}
        \/ lost' = lost
    <3>1. CASE role = "replica" /\ IsWrite(cmd)
      BY <1>2, <3>1 DEF QueueCommand
    <3>2. CASE ~(role = "replica" /\ IsWrite(cmd))
      BY <1>2, <3>2 DEF QueueCommand, Keep, QueueType
    <3>. QED
      BY <3>1, <3>2
  <2>3. overflowed \subseteq overflowed' /\ refused \subseteq refused'
    BY <1>2 DEF QueueCommand, Keep
  <2>. QED
    BY <1>2, <2>1, <2>2, <2>3 DEF QueueCommand
<1>3. CASE Unwatch(c)
  BY <1>3 DEF Unwatch
<1>4. CASE Multi(c)
  BY <1>4 DEF Multi, ResetQueue
<1>5. CASE Discard(c)
  BY <1>5 DEF Discard, ResetQueue
<1>6. CASE ExecAborts(c)
  BY <1>6 DEF ExecAborts, ResetQueue
<1>7. CASE ExecRuns(c)
  <2>1. c \notin lost
    BY <1>7 DEF ExecRuns, Refusal
  <2>. QED
    BY <1>7, <2>1 DEF ExecRuns, ThreadType
<1>. QED
  BY <1>1, <1>2, <1>3, <1>4, <1>5, <1>6, <1>7 DEF TransactorStep

LEMMA WholeStep == Types /\ WholeInv /\ [Next]_vars => WholeInv'
<1>. SUFFICES ASSUME Types, WholeInv, [Next]_vars PROVE WholeInv'
  OBVIOUS
<1>. ThreadType
  BY DEF Types, TypeOK
<1>. USE DEF WholeInv, WholeBlocks
<1>1. ASSUME NEW c \in Clients, SessionStep(c) PROVE WholeInv'
  BY <1>1 DEF SessionStep, Submit, Answer, Disconnect, ResetQueue, ThreadType
<1>2. ASSUME NEW c \in Clients, ThreadStep(c) PROVE WholeInv'
  BY <1>2 DEF ThreadStep, TakeEngine, Look, Begin, End, Release, ThreadType
<1>3. ASSUME NEW k \in Keys, Expire(k) PROVE WholeInv'
  BY <1>3 DEF Expire
<1>4. CASE ChangeRole
  BY <1>4 DEF ChangeRole
<1>5. CASE UNCHANGED vars
  BY <1>5 DEF vars
<1>. QED
  BY <1>1, <1>2, <1>3, <1>4, <1>5, WholeTransactor DEF Next

\* A block that EXEC runs has every command its client sent since MULTI:
\* neither a queue limit nor a refused write, nor any change of the role in
\* between, leaves a part of it to run (queue_command, handle_exec).
THEOREM BlocksAreWhole == Spec => []WholeBlocks
<1>1. Init => WholeInv
  BY DEF Init, WholeInv, WholeBlocks
<1>2. WholeInv => WholeBlocks
  BY DEF WholeInv
<1>. QED
  BY <1>1, <1>2, TypesInit, TypesStep, WholeStep, PTL DEF Spec

-----------------------------------------------------------------------------
(***************************************************************************)
(* Blocks are contiguous: the log is sorted by turns, because the records  *)
(* of a turn are written by the holder of the engine lock, and its turn is *)
(* the last there was.                                                     *)
(***************************************************************************)
EngineInv ==
  \A c \in Clients : pc[c] \in {"running", "half"} => engine = c /\ turn[c] = turns

LogInv ==
  /\ \A i \in DOMAIN log : log[i] <= turns
  /\ \A i, j \in DOMAIN log : i < j => log[i] <= log[j]

LEMMA EngineStep == Types /\ EngineInv /\ [Next]_vars => EngineInv'
<1>. SUFFICES ASSUME Types, EngineInv, [Next]_vars PROVE EngineInv'
  OBVIOUS
<1>. ThreadType
  BY DEF Types, TypeOK
<1>. USE DEF EngineInv
<1>1. ASSUME NEW c \in Transactors, TransactorStep(c) PROVE EngineInv'
  BY <1>1 DEF TransactorStep, Watch, QueueCommand, Unwatch, Multi, Discard,
     ExecAborts, ExecRuns, ThreadType
<1>2. ASSUME NEW c \in Clients, SessionStep(c) PROVE EngineInv'
  BY <1>2 DEF SessionStep, Submit, Answer, Disconnect, ThreadType
<1>3. ASSUME NEW c \in Clients, ThreadStep(c) PROVE EngineInv'
  BY <1>3 DEF ThreadStep, TakeEngine, Look, Begin, End, Release, ThreadType
<1>4. ASSUME NEW k \in Keys, Expire(k) PROVE EngineInv'
  BY <1>4 DEF Expire
<1>5. CASE ChangeRole
  BY <1>5 DEF ChangeRole
<1>6. CASE UNCHANGED vars
  BY <1>6 DEF vars
<1>. QED
  BY <1>1, <1>2, <1>3, <1>4, <1>5, <1>6 DEF Next

\* Only Begin writes to the log, and only TakeEngine starts a turn.
LEMMA LogStep == Types /\ EngineInv /\ LogInv /\ [Next]_vars => LogInv'
<1>. SUFFICES ASSUME Types, EngineInv, LogInv, [Next]_vars PROVE LogInv'
  OBVIOUS
<1>. ThreadType /\ StoreType
  BY DEF Types, TypeOK
<1>1. ASSUME NEW c \in Clients, Begin(c) PROVE LogInv'
  <2>1. turn[c] = turns /\ turns \in Nat
    BY <1>1 DEF Begin, EngineInv, ThreadType
  <2>2. /\ log' = Append(log, turns)
        /\ turns' = turns
    BY <1>1, <2>1 DEF Begin
  <2>3. /\ DOMAIN log' = DOMAIN log \union {Len(log) + 1}
        /\ \A i \in DOMAIN log : log'[i] = log[i] /\ i < Len(log) + 1 /\ log[i] \in Nat
        /\ log'[Len(log) + 1] = turns
    BY <2>2, <2>1 DEF StoreType
  <2>. QED
    BY <2>1, <2>2, <2>3 DEF LogInv, StoreType
<1>2. ASSUME NEW c \in Clients, TakeEngine(c) PROVE LogInv'
  <2>1. log' = log /\ turns' = turns + 1 /\ turns \in Nat
    BY <1>2 DEF TakeEngine, ThreadType
  <2>2. \A i \in DOMAIN log : log[i] \in Nat
    BY DEF StoreType
  <2>. QED
    BY <2>1, <2>2 DEF LogInv
<1>3. CASE UNCHANGED <<log, turns>>
  BY <1>3 DEF LogInv
<1>4. \/ UNCHANGED <<log, turns>>
      \/ \E c \in Clients : Begin(c) \/ TakeEngine(c)
  BY DEF Next, vars, TransactorStep, Watch, QueueCommand, Unwatch, Multi, Discard,
     ExecAborts, ExecRuns, SessionStep, Submit, Answer, Disconnect, ThreadStep,
     Look, End, Release, Expire, ChangeRole
<1>. QED
  BY <1>1, <1>2, <1>3, <1>4

\* In the append-only file, and so in what followers are sent, no record of
\* another client stands between two of a block (execute_batch).
THEOREM BlocksStandTogether == Spec => []BlocksContiguous
<1>1. Init => EngineInv /\ LogInv
  BY DEF Init, EngineInv, LogInv
<1>2. Types /\ LogInv => BlocksContiguous
  BY DEF Types, TypeOK, StoreType, LogInv, BlocksContiguous
<1>. QED
  BY <1>1, <1>2, TypesInit, TypesStep, EngineStep, LogStep, PTL DEF Spec

-----------------------------------------------------------------------------
(***************************************************************************)
(* The optimistic lock.  Until a FLUSHALL, versions only grow, so that a   *)
(* key that was changed after it was read under WATCH is outdated for      *)
(* good.  DEL gives the key its new version before other clients can see   *)
(* it change: they rely on a key only by reading it, with the engine lock. *)
(***************************************************************************)
Outdated(c, k) == k \in DOMAIN watched[c] /\ watched[c][k] < versions[k]

\* What is true of a session that has a WATCH and does not run its block.
Guarded(c) ==
  /\ relied[c] \subseteq DOMAIN watched[c]
  /\ c \notin wiped =>
       /\ \A k \in DOMAIN watched[c] : watched[c][k] <= versions[k]
       /\ \A k \in answered[c] : Outdated(c, k)
       /\ \A p \in unanswered[c] : Outdated(c, p[1])
       /\ \A d \in Clients :
            pc[d] = "half" /\ Head(rest[d]).op = "del" =>
              \A k \in Head(rest[d]).on \intersect relied[c] : Outdated(c, k)

LockInv ==
  \A c \in Clients :
    IF c \in block THEN pc[c] # "ready" /\ DOMAIN watched[c] = {} ELSE Guarded(c)

LEMMA TableKeys ==
  ASSUME NEW t \in WatchTables
  PROVE  DOMAIN t \subseteq Keys /\ \A k \in DOMAIN t : t[k] \in Nat
BY DEF WatchTables

\* A session that has dropped its watches relies on nothing.
LEMMA GuardedForgets ==
  ASSUME WatchType, NEW c \in Clients, Unlock(c), Forget(c)
  PROVE  Guarded(c)'
BY DEF WatchType, Unlock, Forget, Guarded, Outdated, NoKeys

LEMMA LockTransactor ==
  ASSUME Types, LockInv, NEW c \in Transactors, TransactorStep(c)
  PROVE  LockInv'
<1>. c \in Clients /\ WatchType /\ ThreadType /\ StoreType
  BY DEF Types, TypeOK
<1>1. ASSUME NEW k \in Keys, Watch(c, k) PROVE LockInv'
  <2>1. c \notin block /\ block' = block /\ pc' = pc /\ rest' = rest
        /\ versions' = versions /\ wiped' = wiped
    BY <1>1 DEF Watch, LockInv
  <2>2. ASSUME NEW d \in Clients, d # c
        PROVE  /\ watched'[d] = watched[d] /\ relied'[d] = relied[d]
               /\ unanswered'[d] = unanswered[d] /\ answered'[d] = answered[d]
    BY <1>1, <2>2 DEF Watch, WatchType
  <2>3. /\ watched'[c] = [j \in DOMAIN watched[c] \union {k} |->
                            IF j = k THEN versions[k] ELSE watched[c][j]]
        /\ relied'[c] = relied[c] \ {k}
        /\ unanswered'[c] = {p \in unanswered[c] : p[1] # k}
        /\ answered'[c] = answered[c] \ {k}
    BY <1>1 DEF Watch, WatchType
  <2>4. versions[k] \in Nat
    BY DEF StoreType
  <2>5. Guarded(c)
    BY <2>1 DEF LockInv
  <2>6. Guarded(c)'
    <3>1. relied'[c] \subseteq DOMAIN watched'[c]
      BY <2>3, <2>5 DEF Guarded
    <3>2. ASSUME c \notin wiped, NEW j \in DOMAIN watched'[c]
          PROVE  watched'[c][j] <= versions[j]
      BY <2>3, <2>4, <2>5, <3>2 DEF Guarded
    <3>3. ASSUME NEW j, j # k, Outdated(c, j) PROVE Outdated(c, j)'
      BY <2>1, <2>3, <3>3 DEF Outdated
    <3>4. ASSUME c \notin wiped, NEW j \in answered'[c] PROVE Outdated(c, j)'
      BY <2>3, <2>5, <3>3, <3>4 DEF Guarded
    <3>5. ASSUME c \notin wiped, NEW p \in unanswered'[c] PROVE Outdated(c, p[1])'
      BY <2>3, <2>5, <3>3, <3>5 DEF Guarded
    <3>6. ASSUME c \notin wiped, NEW d \in Clients, pc[d] = "half",
                 Head(rest[d]).op = "del", NEW j \in Head(rest[d]).on \intersect relied'[c]
          PROVE  Outdated(c, j)'
      BY <2>3, <2>5, <3>3, <3>6 DEF Guarded
    <3>. QED
      BY <2>1, <3>1, <3>2, <3>4, <3>5, <3>6 DEF Guarded
  <2>. QED
    BY <2>1, <2>2, <2>6 DEF LockInv, Guarded, Outdated
<1>2. ASSUME Unlock(c), Forget(c), pc[c] = "ready", UNCHANGED <<threadVars, storeVars>>
      PROVE  LockInv'
  <2>1. Guarded(c)' /\ c \notin block
    BY <1>2, GuardedForgets DEF LockInv
  <2>2. ASSUME NEW d \in Clients, d # c
        PROVE  /\ watched'[d] = watched[d] /\ relied'[d] = relied[d]
               /\ unanswered'[d] = unanswered[d] /\ answered'[d] = answered[d]
               /\ d \in wiped' <=> d \in wiped
    BY <1>2, <2>2 DEF Unlock, Forget, WatchType
  <2>. QED
    BY <1>2, <2>1, <2>2 DEF LockInv, Guarded, Outdated
<1>3. CASE ExecRuns(c)
  <2>1. /\ block' = block \union {c} /\ pc'[c] = "submitted"
        /\ DOMAIN watched'[c] = {}
    BY <1>3 DEF ExecRuns, Unlock, NoKeys, WatchType, ThreadType
  <2>2. ASSUME NEW d \in Clients, d # c
        PROVE  watched'[d] = watched[d] /\ pc'[d] = pc[d] /\ rest'[d] = rest[d]
    BY <1>3, <2>2 DEF ExecRuns, Unlock, WatchType, ThreadType
  <2>3. UNCHANGED <<relied, unanswered, answered, wiped, versions>>
    BY <1>3 DEF ExecRuns, storeVars
  <2>. QED
    BY <2>1, <2>2, <2>3 DEF LockInv, Guarded, Outdated
<1>4. CASE UNCHANGED <<watchVars, pc, block, rest, versions>>
  BY <1>4 DEF LockInv, Guarded, Outdated
<1>. QED
  BY <1>1, <1>2, <1>3, <1>4 DEF TransactorStep, QueueCommand, Unwatch, Multi,
     Discard, ExecAborts

LEMMA LockSession ==
  ASSUME Types, LockInv, NEW c \in Clients, SessionStep(c)
  PROVE  LockInv'
<1>. WatchType /\ ThreadType /\ StoreType
  BY DEF Types, TypeOK
<1>1. ASSUME NEW cmd \in Commands, Submit(c, cmd) PROVE LockInv'
  <2>1. /\ UNCHANGED <<watchVars, block, versions>>
        /\ c \notin block /\ pc'[c] = "submitted"
    BY <1>1 DEF Submit, LockInv, ThreadType
  <2>2. \A d \in Clients : d # c => pc'[d] = pc[d] /\ rest'[d] = rest[d]
    BY <1>1 DEF Submit, ThreadType
  <2>. QED
    BY <2>1, <2>2 DEF LockInv, Guarded, Outdated
<1>2. CASE Answer(c)
  <2>1. /\ UNCHANGED <<watched, rest, versions>>
        /\ block' = block \ {c} /\ pc'[c] = "ready"
        /\ \A d \in Clients : d # c => pc'[d] = pc[d]
    BY <1>2 DEF Answer, storeVars, ThreadType
  <2>2. ASSUME NEW d \in Clients, d # c \/ c \notin block
        PROVE  /\ relied'[d] = relied[d]
               /\ unanswered'[d] \subseteq unanswered[d]
               /\ \A k \in answered'[d] :
                    k \in answered[d] \/ \E p \in unanswered[d] : p[1] = k
               /\ d \in wiped' <=> d \in wiped
    BY <1>2, <2>2 DEF Answer, WatchType
  <2>3. ASSUME c \in block
        PROVE  relied'[c] = {} /\ unanswered'[c] = {} /\ answered'[c] = {}
    BY <1>2, <2>3 DEF Answer, WatchType
  <2>4. ASSUME NEW d \in Clients, d # c \/ c \notin block, Guarded(d) PROVE Guarded(d)'
    BY <2>1, <2>2, <2>4 DEF Guarded, Outdated
  <2>5. ASSUME c \in block PROVE Guarded(c)'
    BY <2>1, <2>3, <2>5 DEF LockInv, Guarded, Outdated
  <2>. QED
    BY <2>1, <2>4, <2>5 DEF LockInv
<1>3. CASE Disconnect(c)
  <2>1. Guarded(c)' /\ c \notin block
    BY <1>3, GuardedForgets DEF Disconnect, LockInv
  <2>2. ASSUME NEW d \in Clients, d # c
        PROVE  /\ watched'[d] = watched[d] /\ relied'[d] = relied[d]
               /\ unanswered'[d] = unanswered[d] /\ answered'[d] = answered[d]
               /\ d \in wiped' <=> d \in wiped
    BY <1>3, <2>2 DEF Disconnect, Unlock, Forget, WatchType
  <2>3. UNCHANGED <<pc, block, rest, versions>>
    BY <1>3 DEF Disconnect
  <2>. QED
    BY <2>1, <2>2, <2>3 DEF LockInv, Guarded, Outdated
<1>. QED
  BY <1>1, <1>2, <1>3 DEF SessionStep

LEMMA LockThread ==
  ASSUME Types, EngineInv, LockInv, NEW c \in Clients, ThreadStep(c)
  PROVE  LockInv'
<1>. WatchType /\ ThreadType /\ StoreType
  BY DEF Types, TypeOK
<1>0. ASSUME pc[c] \in {"running", "half"}, NEW d \in Clients, pc[d] = "half" PROVE d = c
  BY <1>0 DEF EngineInv
<1>1. CASE TakeEngine(c) \/ Release(c)
  <2>1. UNCHANGED <<watchVars, block, rest, versions>>
    BY <1>1 DEF TakeEngine, Release, storeVars
  <2>2. pc'[c] \in {"running", "answering"} /\ \A d \in Clients : d # c => pc'[d] = pc[d]
    BY <1>1 DEF TakeEngine, Release, ThreadType
  <2>. QED
    BY <2>1, <2>2 DEF LockInv, Guarded, Outdated
<1>2. CASE Look(c)
  <2>1. UNCHANGED <<watched, unanswered, answered, wiped, pc, block, versions>>
    BY <1>2 DEF Look, storeVars
  <2>2. \A d \in Clients : pc[d] # "half"
    BY <1>0, <1>2 DEF Look
  <2>3. \A d \in Clients : \/ relied'[d] = relied[d]
                           \/ relied'[d] \subseteq relied[d] \union DOMAIN watched[d]
    BY <1>2 DEF Look, WatchType
  <2>. QED
    BY <2>1, <2>2, <2>3 DEF LockInv, Guarded, Outdated
<1>3. CASE Begin(c)
  <2>1. /\ UNCHANGED <<watchVars, block, rest>>
        /\ pc[c] = "running" /\ pc'[c] = "half" /\ rest[c] # <<>>
        /\ \A d \in Clients : d # c => pc'[d] = pc[d]
    BY <1>3 DEF Begin, ThreadType
  <2>2. \A k \in Keys : /\ versions[k] \in Nat /\ versions'[k] \in Nat
                        /\ versions[k] <= versions'[k]
                        /\ Head(rest[c]).op = "del" /\ k \in Head(rest[c]).on =>
                             versions[k] < versions'[k]
    BY <1>3 DEF Begin, StoreType
  <2>3. Head(rest[c]).on \subseteq Keys
    BY <2>1, FirstCommand, CommandKeys DEF ThreadType
  <2>4. \A d \in Clients : pc'[d] = "half" => d = c
    BY <1>0, <2>1
  <2>5. ASSUME NEW d \in Clients, Guarded(d) PROVE Guarded(d)'
    <3>1. DOMAIN watched[d] \subseteq Keys /\ \A k \in DOMAIN watched[d] : watched[d][k] \in Nat
      BY TableKeys DEF WatchType
    <3>2. ASSUME NEW k, Outdated(d, k) PROVE Outdated(d, k)'
      <4>1. k \in Keys /\ watched[d][k] \in Nat
        BY <3>1, <3>2 DEF Outdated
      <4>2. versions[k] \in Nat /\ versions'[k] \in Nat
        BY <2>2, <4>1
      <4>. QED
        BY <2>1, <2>2, <3>2, <4>1, <4>2 DEF Outdated
    <3>3. ASSUME d \notin wiped, NEW k \in DOMAIN watched[d]
          PROVE  watched[d][k] <= versions'[k]
      BY <2>2, <2>5, <3>1, <3>3 DEF Guarded
    <3>4. ASSUME d \notin wiped, Head(rest[c]).op = "del",
                 NEW k \in Head(rest[c]).on \intersect relied[d]
          PROVE  Outdated(d, k)'
      <4>1. k \in Keys /\ k \in DOMAIN watched[d] /\ watched[d][k] <= versions[k]
        BY <2>3, <2>5, <3>4 DEF Guarded
      <4>. QED
        BY <2>1, <2>2, <3>1, <3>4, <4>1 DEF Outdated
    <3>. QED
      BY <2>1, <2>4, <2>5, <3>2, <3>3, <3>4 DEF Guarded
  <2>. QED
    BY <2>1, <2>5 DEF LockInv
<1>4. CASE End(c)
  <2>. DEFINE cmd == Head(rest[c])
  <2>1. /\ UNCHANGED <<watched, relied, answered, block>>
        /\ pc[c] = "half" /\ pc'[c] = "running"
        /\ \A d \in Clients : d # c => pc'[d] = pc[d]
    BY <1>4 DEF End, ThreadType
  <2>2. \A d \in Clients : pc'[d] # "half"
    BY <1>0, <2>1
  <2>3. cmd.op \in {"set", "del", "flushall"} /\ cmd.on \subseteq Keys
    BY <1>4, FirstCommand, CommandKeys DEF End, ThreadType, Types, HalfInv
  <2>4. ASSUME NEW d \in Clients
        PROVE  /\ d \in wiped => d \in wiped'
               /\ cmd.op = "flushall" /\ d \notin wiped' => DOMAIN watched[d] = {}
               /\ \A p \in unanswered'[d] :
                    p \in unanswered[d] \/ p[1] \in cmd.on \intersect relied[d]
    BY <1>4 DEF End, WatchType
  <2>5. ASSUME cmd.op # "flushall", NEW k \in Keys
        PROVE  /\ versions[k] \in Nat /\ versions'[k] \in Nat
               /\ versions[k] <= versions'[k]
               /\ cmd.op = "set" /\ k \in cmd.on => versions[k] < versions'[k]
    BY <1>4, <2>3, <2>5 DEF End, NewVersions, StoreType
  <2>6. ASSUME NEW d \in Clients, Guarded(d) PROVE Guarded(d)'
    <3>1. DOMAIN watched[d] \subseteq Keys /\ \A k \in DOMAIN watched[d] : watched[d][k] \in Nat
      BY TableKeys DEF WatchType
    <3>2. CASE cmd.op = "flushall"
      <4>1. ASSUME d \notin wiped'
            PROVE  /\ DOMAIN watched'[d] = {} /\ answered'[d] = {} /\ unanswered'[d] = {}
        <5>1. DOMAIN watched[d] = {} /\ d \notin wiped
          BY <2>4, <3>2, <4>1
        <5>2. relied[d] = {} /\ answered[d] = {} /\ unanswered[d] = {}
          BY <2>6, <5>1 DEF Guarded, Outdated
        <5>. QED
          BY <2>1, <2>4, <5>1, <5>2
      <4>2. relied'[d] \subseteq DOMAIN watched'[d]
        BY <2>1, <2>6 DEF Guarded
      <4>. QED
        BY <2>2, <4>1, <4>2 DEF Guarded
    <3>3. CASE cmd.op # "flushall"
      <4>1. ASSUME NEW k, Outdated(d, k) PROVE Outdated(d, k)'
        BY <2>1, <2>5, <3>1, <3>3, <4>1 DEF Outdated
      <4>2. ASSUME d \notin wiped', NEW k \in cmd.on \intersect relied[d]
            PROVE  Outdated(d, k)'
        <5>1. d \notin wiped /\ k \in DOMAIN watched[d] /\ watched[d][k] <= versions[k]
          BY <2>4, <2>6, <4>2 DEF Guarded
        <5>2. CASE cmd.op = "set"
          BY <2>1, <2>5, <3>1, <3>3, <5>1, <5>2, <4>2 DEF Outdated
        <5>3. CASE cmd.op = "del"
          <6>1. Outdated(d, k)
            BY <2>1, <2>6, <4>2, <5>1, <5>3 DEF Guarded
          <6>. QED
            BY <4>1, <6>1
        <5>. QED
          BY <2>3, <3>3, <5>2, <5>3
      <4>3. ASSUME d \notin wiped', NEW p \in unanswered'[d] PROVE Outdated(d, p[1])'
        BY <2>4, <2>6, <4>1, <4>2, <4>3 DEF Guarded
      <4>4. ASSUME d \notin wiped', NEW k \in answered'[d] PROVE Outdated(d, k)'
        BY <2>1, <2>4, <2>6, <4>1, <4>4 DEF Guarded
      <4>5. ASSUME d \notin wiped', NEW k \in DOMAIN watched'[d]
            PROVE  watched'[d][k] <= versions'[k]
        BY <2>1, <2>4, <2>5, <2>6, <3>1, <3>3, <4>5 DEF Guarded
      <4>6. relied'[d] \subseteq DOMAIN watched'[d]
        BY <2>1, <2>6 DEF Guarded
      <4>. QED
        BY <2>2, <4>3, <4>4, <4>5, <4>6 DEF Guarded
    <3>. QED
      BY <3>2, <3>3
  <2>. QED
    BY <2>1, <2>6 DEF LockInv
<1>. QED
  BY <1>1, <1>2, <1>3, <1>4 DEF ThreadStep

LEMMA LockStep == Types /\ EngineInv /\ LockInv /\ [Next]_vars => LockInv'
<1>. SUFFICES ASSUME Types, EngineInv, LockInv, [Next]_vars PROVE LockInv'
  OBVIOUS
<1>1. CASE UNCHANGED <<watchVars, pc, block, rest, versions>>
  BY <1>1 DEF LockInv, Guarded, Outdated
<1>. QED
  BY <1>1, LockTransactor, LockSession, LockThread DEF Next, vars, Expire, ChangeRole

\* A block that passes the check of EXEC depends on no key that another client
\* changed, and was told so, after it was read under WATCH, unless a FLUSHALL
\* has restarted the versions (handle_watch, handle_exec, _bump_version).
THEOREM ToldChangesAbort == Spec => AnsweredChangeAborts
<1>1. Init => EngineInv /\ LockInv
  BY DEF Init, EngineInv, LockInv, Guarded, Outdated, NoKeys
<1>2. ASSUME Types, LockInv, [Next]_vars
      PROVE  [\A c \in Clients :
                c \in block' \ block => answered[c] = {} \/ c \in wiped]_vars
  <2>. SUFFICES ASSUME NEW c \in Clients, c \in block' \ block, vars' # vars
                PROVE  answered[c] = {} \/ c \in wiped
    OBVIOUS
  <2>1. ExecRuns(c)
    BY <1>2 DEF Next, TransactorStep, Watch, QueueCommand, Unwatch, Multi, Discard,
       ExecAborts, ExecRuns, SessionStep, Submit, Answer, Disconnect, ThreadStep,
       TakeEngine, Look, Begin, End, Release, Expire, ChangeRole
  <2>2. Guarded(c) /\ ~Tripped(c)
    BY <1>2, <2>1 DEF LockInv, ExecRuns, Refusal
  <2>3. \A k \in DOMAIN watched[c] : watched[c][k] \in Nat /\ versions[k] = watched[c][k]
    BY <1>2, <2>2, TableKeys DEF Tripped, Types, TypeOK, WatchType
  <2>. QED
    BY <2>2, <2>3 DEF Guarded, Outdated
<1>. QED
  BY <1>1, <1>2, TypesInit, TypesStep, EngineStep, LockStep, PTL
     DEF Spec, AnsweredChangeAborts
=============================================================================
