-------------------------- MODULE WebSocketServer --------------------------
(***************************************************************************)
(* netx::WebSocketServer (src/websocket_server.cc): the handshake, the     *)
(* frames of a client, the index of subscriptions under subs_mu_, and      *)
(* PublishTo, which another thread calls.  A frame is what the server      *)
(* makes of it: a text command, a ping, a close, or one it does not        *)
(* support.  last_heartbeat is written here but never read.                *)
(***************************************************************************)
EXTENDS PushLink

CONSTANTS Id   \* what can be subscribed to: 1, 2, ...

ASSUME IdAssumption == Id \subseteq Nat \ {0}

VARIABLES
  session,    \* Web connection -> Session::state
  subscribed, \* Web connection -> Session::subscribed
  ws_subs,    \* subs_: id -> sequence of connections
  again,      \* the handshake of this OnMessage passed the rest to HandleFrames
  unacked     \* connections whose index is updated and subscribe_ack not sent

wsVars == <<session, subscribed, ws_subs, again, unacked>>

WsInit ==
  /\ session = [c \in Web |-> "handshaking"]
  /\ subscribed = [c \in Web |-> {}]
  /\ ws_subs = [i \in Id |-> << >>]
  /\ again = FALSE /\ unacked = {}

\* HandleFrames can take a frame.
Frames(c) == Handling(c) /\ session[c] = "open" /\ unacked = {}

\* OnMessage returns, with nothing left in the buffer.
WsEnd(c) ==
  /\ EndMessage(c) /\ unacked = {}
  /\ again' = FALSE
  /\ UNCHANGED <<session, subscribed, ws_subs, unacked>>

\* A return from HandleFrames: out of OnMessage, unless the call was
\* HandleHandshake's and OnMessage goes on to HandleFrames.
LeaveFrames(c) ==
  /\ again' = FALSE
  /\ busy' = IF again /\ session'[c] = "open" THEN busy
             ELSE [busy EXCEPT !["ws"] = NoConn]

-----------------------------------------------------------------------------
(* HandleHandshake.                                                        *)

Handshake(c) ==
  /\ Handling(c) /\ session[c] = "handshaking"
  /\ session' = [session EXCEPT ![c] = "open"]
  /\ Write(c, Other)
  /\ again' = TRUE
  /\ UNCHANGED <<link, shut, tasks, busy, subscribed, ws_subs, unacked>>

\* Not a handshake: an answer and a Shutdown, or the Shutdown alone when
\* the request does not parse.  The session stays as it is.
RefuseHandshake(c) ==
  /\ Handling(c) /\ session[c] = "handshaking"
  /\ Write(c, Other) \/ UNCHANGED <<alive, heard>>
  /\ shut' = shut \cup {c}
  /\ busy' = [busy EXCEPT !["ws"] = NoConn]
  /\ UNCHANGED <<link, tasks, wsVars>>

-----------------------------------------------------------------------------
(* HandleFrames and the index.                                             *)

\* Drop c from the lists of its session.
Unsubscribed(c) ==
  [i \in Id |-> IF i \in subscribed[c] THEN Without(ws_subs[i], c) ELSE ws_subs[i]]

\* The command "subscribe" with a list of numbers: zeros and repetitions go,
\* and the index is updated under subs_mu_.
Subscribe(c, list) ==
  LET normalized == {list[i] : i \in 1..Len(list)} \ {0} IN
  /\ Frames(c)
  /\ ws_subs' = [i \in Id |-> IF i \in normalized THEN Append(Unsubscribed(c)[i], c)
                              ELSE Unsubscribed(c)[i]]
  /\ subscribed' = [subscribed EXCEPT ![c] = normalized]
  /\ unacked' = {c}
  /\ UNCHANGED <<linkVars, session, again>>

\* subscribe_ack follows after the unlock.
Acknowledge(c) ==
  /\ Handling(c) /\ c \in unacked
  /\ Write(c, Ack(subscribed[c]))
  /\ unacked' = {}
  /\ UNCHANGED <<link, shut, tasks, busy, session, subscribed, ws_subs, again>>

\* login, ping, an unknown or unreadable command, or a ping frame: a reply.
Reply(c) ==
  /\ Frames(c)
  /\ Write(c, Other)
  /\ UNCHANGED <<link, shut, tasks, busy, wsVars>>

WsRemove(c) ==
  /\ ws_subs' = Unsubscribed(c)
  /\ subscribed' = [subscribed EXCEPT ![c] = {}]

CloseFrame(c) ==
  /\ Frames(c)
  /\ session' = [session EXCEPT ![c] = "closing"]
  /\ WsRemove(c)
  /\ Write(c, Other)
  /\ shut' = shut \cup {c}
  /\ LeaveFrames(c)
  /\ UNCHANGED <<link, tasks, unacked>>

\* An unsupported opcode, or what follows the first fragment of a message
\* (which is taken for a whole one): a close frame, and nothing else.
Unsupported(c) ==
  /\ Frames(c)
  /\ Write(c, Other)
  /\ UNCHANGED <<link, shut, tasks, session, subscribed, ws_subs, unacked>>
  /\ LeaveFrames(c)

\* The connection callback after the close.
WsRunRemove ==
  /\ RunRemove("ws")
  /\ WsRemove(Head(tasks["ws"]).c)
  /\ UNCHANGED <<session, again, unacked>>

-----------------------------------------------------------------------------
(* PublishTo, first part: under the lock, drop who is not connected and    *)
(* collect the others.  The sends come after the unlock.                   *)

Connected(s) == Keep(s, {c \in Client : IsConnected(c)})

Collect(id) == ws_subs' = [ws_subs EXCEPT ![id] = Connected(@)]

WsStep ==
  \/ \E c \in Web :
       \/ WsEnd(c) \/ Acknowledge(c)
       \/ HandleClose(c) /\ UNCHANGED wsVars
       \/ Connect(c) /\ UNCHANGED wsVars
  \/ WsRunRemove
  \/ RunSend("ws") /\ UNCHANGED wsVars

\* The steps by which the client makes the server do something.
WsRequest(c, lists) ==
  \/ (BeginMessage(c) \/ CloseThenRead(c)) /\ UNCHANGED wsVars
  \/ Handshake(c) \/ RefuseHandshake(c)
  \/ \E s \in lists : Subscribe(c, s)
  \/ Reply(c) \/ CloseFrame(c) \/ Unsupported(c)

-----------------------------------------------------------------------------
\* The index lists a connection once under each id of its session, except
\* where PublishTo has dropped a closed one.
WsIndexIsTrue ==
  \A c \in Web, i \in Id :
    /\ Times(c, ws_subs[i]) <= (IF i \in subscribed[c] THEN 1 ELSE 0)
    /\ IsConnected(c) /\ i \in subscribed[c] => Times(c, ws_subs[i]) = 1
    /\ link[c] = "gone" => Times(c, ws_subs[i]) = 0
=============================================================================
