------------------------------- MODULE MCServer -------------------------------
(***************************************************************************)
(* Two parts of the server that share no state, in one run: the file       *)
(* object of the log, and the connections of a channel.  A behaviour is    *)
(* about one of them, so their states add up and do not multiply.  The     *)
(* operating system may write back, and need not.                          *)
(***************************************************************************)
EXTENDS AofSync, PubSub
CONSTANTS c1, c2

VARIABLE about

serverVars == <<vars, pubSubVars, about>>

ServerInit ==
  /\ Init /\ InitPubSub
  /\ about \in {"log", "channel"}
  /\ about = "channel" => mode = "always"

LogStep(A) == about = "log" /\ A /\ UNCHANGED <<pubSubVars, about>>

ChannelStep(A) == about = "channel" /\ A /\ UNCHANGED <<vars, about>>

ServerSpec ==
  /\ ServerInit /\ [][LogStep(Next) \/ ChannelStep(PubSubNext)]_serverVars
  /\ WF_serverVars(LogStep(Command))
  /\ WF_serverVars(LogStep(Background))
  /\ WF_serverVars(LogStep(Shutdown))
  /\ WF_serverVars(ChannelStep(RunCall))
  /\ \A c \in Conns : WF_serverVars(ChannelStep(Reply(c) \/ DrainEnds(c)))
=============================================================================
