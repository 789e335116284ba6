-------------------------- MODULE ReplicatedHistory --------------------------
(***************************************************************************)
(* What replication promises, without barriers, threads or buffers: there  *)
(* is one history of changes; a follower that joins is given all of it,    *)
(* and from then on every further change, one by one and in order, until   *)
(* it leaves.  Replication.tla is the mechanism that implements this.      *)
(***************************************************************************)
EXTENDS Naturals, Sequences

CONSTANTS Conns,       \* the connections of followers
          Changes      \* the changes there can be

VARIABLES
  history,   \* every change made, in order
  copy,      \* the changes each follower was given, in order
  standing   \* what each follower is to the leader: new, following or left

vars == <<history, copy, standing>>

Init ==
  /\ history = <<>>
  /\ copy = [c \in Conns |-> <<>>]
  /\ standing = [c \in Conns |-> "new"]

Change(x) ==
  /\ history' = Append(history, x)
  /\ UNCHANGED <<copy, standing>>

Join(c) ==
  /\ standing[c] = "new"
  /\ standing' = [standing EXCEPT ![c] = "following"]
  /\ copy' = [copy EXCEPT ![c] = history]
  /\ UNCHANGED history

\* The followers in D, each at its own place in the history, are given the
\* next change.
Deliver(D) ==
  /\ \A c \in D : standing[c] = "following" /\ Len(copy[c]) < Len(history)
  /\ copy' = [c \in Conns |->
                IF c \in D
                THEN Append(copy[c], history[Len(copy[c]) + 1])
                ELSE copy[c]]
  /\ UNCHANGED <<history, standing>>

Leave(D) ==
  /\ standing' = [c \in Conns |-> IF c \in D THEN "left" ELSE standing[c]]
  /\ UNCHANGED <<history, copy>>

Next ==
  \/ \E x \in Changes : Change(x)
  \/ \E c \in Conns : Join(c)
  \/ \E D \in SUBSET Conns : Deliver(D) \/ Leave(D)

Spec == Init /\ [][Next]_vars

\* A follower that stays is always given the next change.
FairSpec ==
  /\ Spec
  /\ \A c \in Conns : WF_vars(\E D \in SUBSET Conns : c \in D /\ Deliver(D))
=============================================================================
