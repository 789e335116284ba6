---------------------------- MODULE FollowerNode ----------------------------
(***************************************************************************)
(* A node that follows a leader while clients of its own sleep in blocked  *)
(* reads: FollowerStream and BlockingReads on one event loop.  What the    *)
(* leader's commands add to the stream is what the readers wait for, and   *)
(* what ends the following decides whether anybody wakes them.             *)
(***************************************************************************)
EXTENDS FollowerStream, BlockingReads

CONSTANT
  Watched  \* bound: the scripts during which this node has clients

nodeVars == <<followVars, readsVars>>

\* The baselines and commands of the script that add entries add so many.
Adds(frames) == MapThenSumSet(LAMBDA k : script[frames[k]].adds, DOMAIN frames)

InitNode == InitFollower /\ InitReads

\* Steps of the follower that touch neither the stream nor its readers.
FollowOn ==
  /\ \/ Connect \/ Parse \/ Receive
     \/ Refused \/ Closed \/ Reset \/ TimedOut
  /\ UNCHANGED readsVars

\* The leader's baseline replaces the keyspace, streams included.
RestoreBaseline ==
  Restore /\ \E n \in 0..MaxEntries : n = script[1].adds /\ LoadBaseline(n)

\* A command or a transaction of the leader is applied; if the stream was
\* stopped meanwhile, nobody is left to notify the readers.
ApplyUnit ==
  /\ Apply
  /\ \E newTop \in top..MaxEntries :
       newTop = top + Adds(thread) /\ ApplyFromLeader(newTop, stage # "applying")

NotifyOfUnit == Applied /\ AnnounceLeader

StopFollowing == (Promote \/ Replace) /\ StopLeader

\* The read-only firewall: a replica takes no XREADGROUP and no write.
Sleep(r) ==
  /\ script \in Watched
  /\ ReadStep(r)
  /\ reads'[r] = "group" => reads[r] = "group" \/ role = "master"
  /\ UNCHANGED followVars

LocalWrite(w) ==
  /\ script \in Watched
  /\ role = "master" \/ writing[w] # "idle"
  /\ WriteStep(w)
  /\ UNCHANGED followVars

NodeNext ==
  \/ FollowOn \/ RestoreBaseline \/ ApplyUnit \/ NotifyOfUnit \/ StopFollowing
  \/ \E r \in Readers : Sleep(r)
  \/ \E w \in Writers : LocalWrite(w)

NodeSpec == InitNode /\ [][NodeNext]_nodeVars

(***************************************************************************)
(* Fairness: that of the two parts.  What the follower can go on with is   *)
(* one thing at a time, but for a thread that a stopped stream left.       *)
(***************************************************************************)
FollowerProgress ==
  \/ Parse /\ UNCHANGED readsVars
  \/ RestoreBaseline \/ ApplyUnit \/ NotifyOfUnit

FairNodeSpec ==
  /\ NodeSpec
  /\ WF_nodeVars(FollowerProgress)
  /\ \A r \in Readers : WF_nodeVars(Progress(r) /\ UNCHANGED followVars)
  /\ \A w \in Writers :
       WF_nodeVars((Announce(w) \/ LoseWriter(w)) /\ UNCHANGED followVars)

\* Both modules' types.
NodeTypeOK == FollowerTypeOK /\ ReadsTypeOK
=============================================================================
