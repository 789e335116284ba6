-------------------------------- MODULE PubSub --------------------------------
(***************************************************************************)
(* SUBSCRIBE and PUBLISH (commands.py), and the connections they are about *)
(* (server.py): their replies, what they are still to be sent, their end.  *)
(*                                                                         *)
(* Commands run in worker threads, one at a time under the engine lock.  A *)
(* thread hands the event loop what is to be written to the subscribers,   *)
(* and then its own result, through the loop's queue of calls; all writes  *)
(* are made by the loop.  There is one channel: channels share nothing but *)
(* the buffers of their subscribers.                                       *)
(*                                                                         *)
(* Messages are numbered as they are published.  What is written to a      *)
(* connection is a message, by its number, or ReplyUnit.                   *)
(***************************************************************************)
EXTENDS Integers, Selection, FiniteSets

CONSTANTS
  Conns,        \* connections, which have been made
  HighWater,    \* units in a transport from which on drain waits
  BufferLimit,  \* MAX_SUBSCRIBER_BUFFER, in units
  MaxMessages   \* bound: messages published

\* drain waits at 64 KiB and a subscriber may leave 32 MiB unread.
ASSUME PubSubAssumption ==
  /\ IsFiniteSet(Conns)
  /\ HighWater \in Nat /\ BufferLimit \in Nat /\ MaxMessages \in Nat
  /\ HighWater <= BufferLimit

VARIABLES
  session,    \* what the session of each connection is doing
  transport,  \* "open", "closing" (it sends what it has), "lost"
  unsent,     \* what was written to each transport and is still in it
  received,   \* history: the messages each peer has received
  channel,    \* _channels[channel]
  calls,      \* what threads have handed to the loop, in order
  published,  \* messages published
  since,      \* history: messages published before each first subscribed
  counted,    \* history: whom the PUBLISH of each session has reached, until
  latest      \* it is answered, and its message

socketVars  == <<session, transport, unsent, received>>
channelVars == <<channel, calls, published, since, counted, latest>>
pubSubVars  == <<socketVars, channelVars>>

ReplyUnit == 0
NotYet == MaxMessages + 1

Call(to, what, unit) == [to |-> to, what |-> what, unit |-> unit]

InitPubSub ==
  /\ session = [c \in Conns |-> "reading"]
  /\ transport = [c \in Conns |-> "open"]
  /\ unsent = [c \in Conns |-> <<>>]
  /\ received = [c \in Conns |-> <<>>]
  /\ channel = <<>>
  /\ calls = <<>>
  /\ published = 0
  /\ since = [c \in Conns |-> NotYet]
  /\ counted = [c \in Conns |-> {}]
  /\ latest = [c \in Conns |-> 0]

-----------------------------------------------------------------------------
(***************************************************************************)
(* A connection and its session.                                           *)
(***************************************************************************)

\* run: a command is there, and is given to a worker thread.  Commands that
\* were received before are run on a connection that is closing or lost.
Ask(c, command) ==
  /\ session[c] = "reading"
  /\ session' = [session EXCEPT ![c] = command]
  /\ UNCHANGED <<transport, unsent, received, channelVars>>

\* send: the reply is written, and drained.
Reply(c) ==
  /\ session[c] = "replying"
  /\ session' = [session EXCEPT ![c] = "draining"]
  /\ unsent' = IF transport[c] = "lost" THEN unsent
               ELSE [unsent EXCEPT ![c] = Append(@, ReplyUnit)]
  /\ counted' = [counted EXCEPT ![c] = {}]
  /\ latest' = [latest EXCEPT ![c] = 0]
  /\ UNCHANGED <<transport, received, channel, calls, published, since>>

\* drain_within_deadline: enough was sent, and the next command is read.
Drained(c) ==
  /\ session[c] = "draining"
  /\ transport[c] # "lost" /\ Len(unsent[c]) <= HighWater
  /\ session' = [session EXCEPT ![c] = "reading"]
  /\ UNCHANGED <<transport, unsent, received, channelVars>>

\* The transport is closed.  What it holds it still sends, if it can.
Close(c) ==
  transport' = [transport EXCEPT ![c] =
                  IF @ = "open" /\ unsent[c] # <<>> THEN "closing"
                  ELSE IF @ = "open" THEN "lost" ELSE @]

\* Mutant of GiveUp: a subscriber is not timed.
GiveUpNotSubscribers(c) ==
  /\ session[c] = "draining"
  /\ transport[c] # "lost" /\ Len(unsent[c]) > HighWater
  /\ c \notin Range(channel)
  /\ transport' = [transport EXCEPT ![c] = "lost"]
  /\ unsent' = [unsent EXCEPT ![c] = <<>>]
  /\ session' = [session EXCEPT ![c] = "ending"]
  /\ UNCHANGED <<received, channelVars>>

\* drain_within_deadline: the peer did not read in time.  The transport is
\* aborted, and the session ends.
GiveUp(c) ==
  /\ session[c] = "draining"
  /\ transport[c] # "lost" /\ Len(unsent[c]) > HighWater
  /\ transport' = [transport EXCEPT ![c] = "lost"]
  /\ unsent' = [unsent EXCEPT ![c] = <<>>]
  /\ session' = [session EXCEPT ![c] = "ending"]
  /\ UNCHANGED <<received, channelVars>>

\* run: read returns nothing, as the peer has closed or the transport is lost,
\* or drain raises.  A transport that is closing reads no more.
EndRun(c) ==
  /\ \/ session[c] = "reading" /\ transport[c] # "closing"
     \/ session[c] = "draining" /\ transport[c] = "lost"
  /\ session' = [session EXCEPT ![c] = "ending"]
  /\ Close(c)
  /\ UNCHANGED <<unsent, received, channelVars>>

\* wait_closed has returned, and the session is over.
EndConnection(c) ==
  /\ session[c] = "ending" /\ transport[c] = "lost"
  /\ session' = [session EXCEPT ![c] = "over"]
  /\ UNCHANGED <<transport, unsent, received, channelVars>>

-----------------------------------------------------------------------------
(***************************************************************************)
(* The network.                                                            *)
(***************************************************************************)

\* The peer reads.  With its last byte gone, a closing transport is lost.
Receive(c) ==
  /\ unsent[c] # <<>>
  /\ unsent' = [unsent EXCEPT ![c] = Tail(@)]
  /\ received' = IF Head(unsent[c]) = ReplyUnit THEN received
                 ELSE [received EXCEPT ![c] = Append(@, Head(unsent[c]))]
  /\ transport' = IF transport[c] = "closing" /\ Len(unsent[c]) = 1
                  THEN [transport EXCEPT ![c] = "lost"] ELSE transport
  /\ UNCHANGED <<session, channelVars>>

\* The connection is reset.
Reset(c) ==
  /\ transport[c] \in {"open", "closing"}
  /\ transport' = [transport EXCEPT ![c] = "lost"]
  /\ unsent' = [unsent EXCEPT ![c] = <<>>]
  /\ UNCHANGED <<session, received, channelVars>>

-----------------------------------------------------------------------------
(***************************************************************************)
(* Worker threads, under the engine lock.                                  *)
(***************************************************************************)

\* The thread is through with the command of c: what it wants of the loop, and
\* then its result.
HandOver(c, wanted) == calls' = calls \o wanted \o <<Call(c, "result", ReplyUnit)>>

\* _handle_subscribe
Subscribe(c) ==
  /\ session[c] = "subscribe"
  /\ session' = [session EXCEPT ![c] = "returning"]
  /\ channel' = IF c \in Range(channel) THEN channel ELSE Append(channel, c)
  /\ since' = [since EXCEPT ![c] = IF @ = NotYet THEN published ELSE @]
  /\ HandOver(c, <<>>)
  /\ UNCHANGED <<transport, unsent, received, published, counted, latest>>

\* Mutant of TooFar: a subscriber may leave anything unread.
TooFarNever(s) == FALSE

\* _push: s has left too much unread.
TooFar(s) == Len(unsent[s]) > BufferLimit

Reachable(s) == transport[s] = "open" /\ ~TooFar(s)

\* Mutant of Reached: a dead subscriber is removed from the list while the
\* list is walked, so that the one behind it is skipped.
ReachedSkipping ==
  LET alive(k) == Reachable(channel[k]) /\ (k = 1 \/ Reachable(channel[k - 1]))
      kept == Chosen([k \in DOMAIN channel |-> k], {k \in DOMAIN channel : alive(k)})
  IN [i \in DOMAIN kept |-> channel[kept[i]]]

\* _handle_publish: the subscribers that are reached, in their order.
Reached == Chosen(channel, {s \in Conns : Reachable(s)})

\* Those that are not reading are closed, by the loop.
Cutoffs ==
  LET cut == Chosen(channel, {s \in Conns : transport[s] = "open" /\ TooFar(s)})
  IN [i \in DOMAIN cut |-> Call(cut[i], "close", ReplyUnit)]

Pushes == [i \in DOMAIN Reached |-> Call(Reached[i], "write", published + 1)]

\* Mutant of Pushed: the result overtakes the messages.
PushedLate(c) ==
  calls' = calls \o Cutoffs \o <<Call(c, "result", ReplyUnit)>> \o Pushes

Pushed(c) == HandOver(c, Cutoffs \o Pushes)

\* _handle_publish
Publish(c) ==
  /\ session[c] = "publish"
  /\ published < MaxMessages
  /\ session' = [session EXCEPT ![c] = "returning"]
  /\ published' = published + 1
  /\ Pushed(c)
  /\ counted' = [counted EXCEPT ![c] = Range(Reached)]
  /\ latest' = [latest EXCEPT ![c] = published + 1]
  /\ channel' = Chosen(channel, {s \in Conns : Reachable(s)})
  /\ UNCHANGED <<transport, unsent, received, since>>

-----------------------------------------------------------------------------
\* The loop takes its next call: a write to a transport that is lost does
\* nothing.
RunCall ==
  /\ calls # <<>>
  /\ calls' = Tail(calls)
  /\ LET to == Head(calls).to
     IN \/ /\ Head(calls).what = "write"
           /\ unsent' = IF transport[to] = "lost" THEN unsent
                        ELSE [unsent EXCEPT ![to] = Append(@, Head(calls).unit)]
           /\ UNCHANGED <<session, transport>>
        \/ /\ Head(calls).what = "close"
           /\ Close(to)
           /\ UNCHANGED <<session, unsent>>
        \/ /\ Head(calls).what = "result"
           /\ session' = [session EXCEPT ![to] = "replying"]
           /\ UNCHANGED <<transport, unsent>>
  /\ UNCHANGED <<received, channel, published, since, counted, latest>>

SessionStep(c) ==
  \/ Reply(c) \/ Drained(c) \/ GiveUp(c) \/ EndRun(c)
  \/ EndConnection(c) \/ Receive(c) \/ Reset(c) \/ Subscribe(c) \/ Publish(c)
  \/ \E command \in {"subscribe", "publish"} : Ask(c, command)

PubSubNext == RunCall \/ \E c \in Conns : SessionStep(c)

\* Fairness: the loop runs its calls and replies, and a drain ends by its
\* deadline.  Nothing obliges a peer to read, to send or to close.
DrainEnds(c) ==
  \/ Drained(c) \/ GiveUp(c)
  \/ session[c] = "draining" /\ EndRun(c)

PubSubSpec ==
  /\ InitPubSub /\ [][PubSubNext]_pubSubVars
  /\ WF_pubSubVars(RunCall)
  /\ \A c \in Conns : WF_pubSubVars(Reply(c) \/ DrainEnds(c))

-----------------------------------------------------------------------------
\* The messages s was sent, from the first that its peer has on to the last
\* that the loop has been handed.
SentTo(s) ==
  LET writes == Chosen(calls, [to : {s}, what : {"write"}, unit : Nat])
  IN received[s] \o Chosen(unsent[s], Nat \ {ReplyUnit})
       \o [i \in DOMAIN writes |-> writes[i].unit]

Listening(s) ==
  /\ s \in Range(channel)
  /\ transport[s] = "open"
  /\ ~\E i \in DOMAIN calls : calls[i].to = s /\ calls[i].what = "close"

\* "Messages from one publisher reach a subscriber in the order they were
\* published" (docs/pubsub.md), and so do those of several: every subscriber
\* that is still listed and open has had, or is being sent, each message since
\* it subscribed, once and in order, whoever else left, was cut off or was
\* pruned meanwhile; and nobody ever has one twice or out of order.
PushesGapless ==
  \A s \in Conns :
    LET sent == SentTo(s)
    IN  /\ Listening(s) => sent = [i \in 1..(published - since[s]) |-> since[s] + i]
        /\ \A i, j \in DOMAIN sent : i < j => sent[i] < sent[j]

\* "The number of subscribers it was delivered to" (docs/pubsub.md): when a
\* PUBLISH is answered, every subscriber it counted has its message in its
\* transport or beyond, unless that connection is lost.
AnsweredIsWritten ==
  \A c \in Conns :
    session[c] = "replying" =>
      \A s \in counted[c] :
        transport[s] = "lost" \/ latest[c] \in Range(received[s] \o unsent[s])

\* "A subscriber that stops reading may leave up to 32 MiB queued"
\* (docs/limits.md): and no more than what publishers were about to push when
\* it reached that, with a reply of its own.
BufferBounded ==
  \A s \in Conns :
    Len(unsent[s]) <= BufferLimit + Cardinality(Conns) + 1

\* "A client that does not read what it is sent is dropped" (docs/limits.md):
\* no session waits for ever for its peer to read a reply.
RepliesEnd ==
  \A c \in Conns : (session[c] = "draining") ~> (session[c] # "draining")
=============================================================================
