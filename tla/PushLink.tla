------------------------------ MODULE PushLink ------------------------------
(***************************************************************************)
(* What the push servers use of netx: clients' connections, each on one IO *)
(* loop that handles events and runs tasks queued by itself and by the     *)
(* base loop (tcp_connection.cc, tcp_server.cc).  Each kind of client has  *)
(* one IO loop, the default of both programs.                              *)
(*                                                                         *)
(* A Send on the connection's loop writes at once; on another thread it    *)
(* queues the write.  Shutdown acts on the socket at once, whatever is     *)
(* queued.  A write after it, or to a connection that is closed, may raise *)
(* SIGPIPE, which nothing ignores, and end the process (module             *)
(* TcpConnection says when).  What a client is written is a sequence of    *)
(* items [kind, ids, n]: an update number n of the id in ids, an           *)
(* acknowledgement of a subscription to ids, or "other".  It is what       *)
(* SendInLoop is given: what becomes of the bytes when the socket is full  *)
(* (output_, and its repetition) is the subject of TcpConnection, and      *)
(* nothing here says that a slow client receives them once.                *)
(***************************************************************************)
EXTENDS Naturals, Sequences

CONSTANTS
  Tcp,      \* connections of the binary protocol
  Web,      \* connections of WebSocketServer
  NoConn

Client == Tcp \cup Web

ASSUME ClientAssumption == Tcp \cap Web = {} /\ NoConn \notin Client

Thread == {"io", "ws"}
LoopOf(c) == IF c \in Tcp THEN "io" ELSE "ws"

VARIABLES
  alive,   \* FALSE when SIGPIPE has ended the process
  link,    \* client -> "none", "up", "closed" (HandleClose), "gone"
  shut,    \* clients whose socket has been shut down for writing
  heard,   \* client -> what SendInLoop was given for it, "other" left out
  tasks,   \* thread -> pending tasks of its loop
  busy     \* thread -> the connection whose OnMessage it is in

linkVars == <<alive, link, shut, heard, tasks, busy>>

LinkInit ==
  /\ alive = TRUE
  /\ link = [c \in Client |-> "none"] /\ shut = {}
  /\ heard = [c \in Client |-> << >>]
  /\ tasks = [t \in Thread |-> << >>]
  /\ busy = [t \in Thread |-> NoConn]

IsConnected(c) == link[c] = "up"

\* The loop of c handles events.
Polling(c) == alive /\ busy[LoopOf(c)] = NoConn

Item(kind, ids, n) == [kind |-> kind, ids |-> ids, n |-> n]
Other == Item("other", {}, 0)
Ack(ids) == Item("ack", ids, 0)
Update(id, n) == Item("update", {id}, n)

Writable(c) == IsConnected(c) /\ c \notin shut

\* SendInLoop, which does not look at state_; whether the bytes go to the
\* socket or to output_ is left out.
Write(c, item) ==
  /\ alive' \in IF Writable(c) THEN {TRUE} ELSE BOOLEAN
  /\ heard' = IF Writable(c) /\ item # Other
              THEN [heard EXCEPT ![c] = Append(@, item)] ELSE heard

Task(op, c, item) == [op |-> op, c |-> c, item |-> item]

\* Mutant of QueueSend: the calling thread writes.
SendAtOnce(c, item) == Write(c, item) /\ UNCHANGED tasks

\* Send from another thread.
QueueSend(c, item) ==
  /\ tasks' = [tasks EXCEPT ![LoopOf(c)] = Append(@, Task("send", c, item))]
  /\ UNCHANGED <<alive, heard>>

\* The same item to each member of a sequence, in order.
QueueSends(t, cs, item) ==
  /\ tasks' = [tasks EXCEPT ![t] = @ \o [i \in 1..Len(cs) |-> Task("send", cs[i], item)]]
  /\ UNCHANGED <<alive, heard>>

-----------------------------------------------------------------------------
\* The task of NewConnectionInLoop.
Connect(c) ==
  /\ Polling(c) /\ link[c] = "none"
  /\ link' = [link EXCEPT ![c] = "up"]
  /\ UNCHANGED <<alive, shut, heard, tasks, busy>>

\* HandleRead calls OnMessage.
BeginMessage(c) ==
  /\ Polling(c) /\ IsConnected(c)
  /\ busy' = [busy EXCEPT ![LoopOf(c)] = c]
  /\ UNCHANGED <<alive, link, shut, heard, tasks>>

\* The thread of c is inside OnMessage of c.
Handling(c) == alive /\ busy[LoopOf(c)] = c

EndMessage(c) ==
  /\ Handling(c)
  /\ busy' = [busy EXCEPT ![LoopOf(c)] = NoConn]
  /\ UNCHANGED <<alive, link, shut, heard, tasks>>

\* HandleClose queues the removal.
Close(c) ==
  /\ Polling(c) /\ IsConnected(c)
  /\ link' = [link EXCEPT ![c] = "closed"]
  /\ tasks' = [tasks EXCEPT ![LoopOf(c)] = Append(@, Task("remove", c, Other))]
  /\ UNCHANGED <<alive, shut, heard>>

\* The peer closes or resets.
HandleClose(c) == Close(c) /\ UNCHANGED busy

\* ERR and IN in one batch: HandleRead calls OnMessage after the close.
CloseThenRead(c) == Close(c) /\ busy' = [busy EXCEPT ![LoopOf(c)] = c]

NextTask(t, op) ==
  /\ alive /\ busy[t] = NoConn
  /\ tasks[t] # << >> /\ Head(tasks[t]).op = op
  /\ tasks' = [tasks EXCEPT ![t] = Tail(@)]

RunSend(t) ==
  /\ NextTask(t, "send")
  /\ Write(Head(tasks[t]).c, Head(tasks[t]).item)
  /\ UNCHANGED <<link, shut, busy>>

\* The task of RemoveConnection, which calls the connection callback.
RunRemove(t) ==
  /\ NextTask(t, "remove")
  /\ link' = [link EXCEPT ![Head(tasks[t]).c] = "gone"]
  /\ UNCHANGED <<alive, shut, heard, busy>>

-----------------------------------------------------------------------------
\* Lists of the index: what is in T, in its order; no c left; how often x is
\* in it.
Keep(s, T) ==
  LET kept[n \in 0..Len(s)] ==
        IF n = 0 THEN << >>
        ELSE IF s[n] \in T THEN Append(kept[n - 1], s[n]) ELSE kept[n - 1]
  IN kept[Len(s)]

Without(s, c) == Keep(s, Client \ {c})
Times(x, s) == Len(Keep(s, {x}))
=============================================================================
