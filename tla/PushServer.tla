----------------------------- MODULE PushServer -----------------------------
(***************************************************************************)
(* app/stock_push/stock_push_server.cc and                                 *)
(* app/traffic_push/traffic_push_server.cc: a simulator thread hands       *)
(* batches of updates to the base loop, which pushes each to the TCP       *)
(* clients of its id and then, through WebSocketServer, to the web         *)
(* clients.  The base loop of the stock server also runs CheckHeartbeats.  *)
(* `app` says which of the two programs this is; they differ in the index  *)
(* of the TCP side and in the heartbeat.                                   *)
(*                                                                         *)
(* subs_ of the TCP side has no lock although the base loop and the IO     *)
(* loop both use it: here each use is one step, which is what the program  *)
(* would do if they never met; what it does when they meet is undefined    *)
(* and not modelled.  last_heartbeat is one word: a racing read gives the  *)
(* old or the new value.  Time is a number of ticks: age is how long ago a *)
(* client was heard, lag how long ago CheckHeartbeats read the clock.      *)
(***************************************************************************)
EXTENDS WebSocketServer, FiniteSets

CONSTANTS
  Timeout,    \* heartbeat_timeout_ms_, in ticks
  MaxLag,     \* bound: ticks while one CheckHeartbeats runs
  MaxUpdate,  \* bound: updates the simulator makes
  PerTick,    \* updates_per_tick
  MaxSay,     \* bound: requests of all clients together
  Lists       \* bound: the lists clients subscribe to

ASSUME PushAssumption ==
  /\ Id # {} /\ IsFiniteSet(Id) /\ Id = 1..Cardinality(Id)
  /\ Timeout \in Nat /\ MaxLag \in Nat /\ MaxUpdate \in Nat /\ MaxSay \in Nat
  /\ PerTick \in Nat \ {0}
  /\ \A list \in Lists : list \in Seq(Nat)

VARIABLES
  app,      \* "stock" or "traffic"
  phase,    \* of the main thread: "new", "simulating", "running" (in Loop)
  subs,     \* SubscriptionManager::subs_: id -> sequence of connections
  listed,   \* traffic: Session::subscribed_light_ids
  wanted,   \* history: what the index should hold for a TCP connection
  stuck,    \* connections with an invalid packet at the head of the buffer
  said,     \* requests made
  next,     \* next_stock_, next_light_
  made,     \* updates made
  queue,    \* updates handed to the base loop
  base,     \* where the base loop is
  targets,  \* PublishTo: connections still to be sent the update
  age,      \* TCP connection -> ticks since last_heartbeat
  lag,      \* ticks since CheckHeartbeats read the clock
  unseen,   \* CheckHeartbeats: connections not looked at yet
  cut       \* timeout_conns

mode       == <<app, phase>>
clientVars == <<subs, listed, wanted, stuck>>
simVars    == <<next, made, queue>>
baseVars   == <<base, targets>>
beatVars   == <<age, lag, unseen, cut>>
vars == <<linkVars, wsVars, mode, clientVars, said, simVars, baseVars, beatVars>>

MaxAge == Timeout + MaxLag + 1

Init ==
  /\ LinkInit /\ WsInit
  /\ app \in {"stock", "traffic"} /\ phase = "new"
  /\ subs = [i \in Id |-> << >>]
  /\ listed = [c \in Tcp |-> << >>] /\ wanted = [c \in Tcp |-> << >>]
  /\ stuck = {} /\ said = 0
  /\ next = 1 /\ made = 0 /\ queue = << >>
  /\ base = "idle" /\ targets = << >>
  /\ age = [c \in Tcp |-> 0] /\ lag = 0 /\ unseen = {} /\ cut = {}

-----------------------------------------------------------------------------
(* Start, on the main thread: the servers listen and the simulator starts, *)
(* but the acceptors and the tasks are the base loop's and wait for Loop.  *)

Start ==
  /\ phase = "new" /\ phase' = "simulating"
  /\ UNCHANGED <<linkVars, wsVars, app, clientVars, said, simVars, baseVars, beatVars>>

RunLoop ==
  /\ phase = "simulating" /\ phase' = "running"
  /\ UNCHANGED <<linkVars, wsVars, app, clientVars, said, simVars, baseVars, beatVars>>

-----------------------------------------------------------------------------
(* SubscriptionManager.                                                    *)

\* The lists with one more entry of c for every occurrence of the id.
With(index, c, list) ==
  [i \in Id |-> index[i] \o [k \in 1..Times(i, list) |-> c]]

\* The stock server looks for c in all lists, the traffic server in those of
\* its session.
StockWithout(c) == [i \in Id |-> Without(subs[i], c)]

TrafficWithout(c) ==
  [i \in Id |-> IF Times(i, listed[c]) > 0 THEN Without(subs[i], c) ELSE subs[i]]

StockUpdateSubscriptions(c, list) ==
  /\ app = "stock"
  /\ subs' = With(StockWithout(c), c, list)
  /\ UNCHANGED listed

TrafficUpdateSubscriptions(c, list) ==
  /\ app = "traffic"
  /\ subs' = With(TrafficWithout(c), c, list)
  /\ listed' = [listed EXCEPT ![c] = list]

StockRemoveConnection(c) ==
  /\ app = "stock"
  /\ subs' = StockWithout(c)
  /\ UNCHANGED listed

\* Mutant of TrafficRemoveConnection: the session is cleared first.
TrafficForget(c) ==
  /\ app = "traffic"
  /\ listed' = [listed EXCEPT ![c] = << >>]
  /\ UNCHANGED subs

TrafficRemoveConnection(c) ==
  /\ app = "traffic"
  /\ subs' = TrafficWithout(c)
  /\ listed' = [listed EXCEPT ![c] = << >>]

-----------------------------------------------------------------------------
(* The TCP side: OnConnection and OnMessage on the IO loop.                *)

Renew(c) == age' = [age EXCEPT ![c] = 0]

OnConnectionUp(c) ==
  /\ phase = "running" /\ Connect(c)
  /\ Renew(c)
  /\ UNCHANGED <<wsVars, mode, clientVars, said, simVars, baseVars, lag, unseen, cut>>

OnConnectionDown ==
  /\ RunRemove("io")
  /\ LET c == Head(tasks["io"]).c
     IN /\ StockRemoveConnection(c) \/ TrafficRemoveConnection(c)
        /\ wanted' = [wanted EXCEPT ![c] = << >>]
  /\ UNCHANGED <<wsVars, mode, stuck, said, simVars, baseVars, beatVars>>

HandleLogin(c) ==
  /\ Handling(c) /\ c \notin stuck
  /\ Renew(c)
  /\ UNCHANGED <<linkVars, wsVars, mode, clientVars, simVars, baseVars, lag, unseen, cut>>

HandlePing(c) ==
  /\ Handling(c) /\ c \notin stuck
  /\ Renew(c)
  /\ Write(c, Other)
  /\ UNCHANGED <<link, shut, tasks, busy, wsVars, mode, clientVars, simVars,
                 baseVars, lag, unseen, cut>>

\* SUBSCRIBE replaces the whole subscription, and is not a heartbeat.
HandleSubscribe(c, list) ==
  /\ Handling(c) /\ c \notin stuck
  /\ StockUpdateSubscriptions(c, list) \/ TrafficUpdateSubscriptions(c, list)
  /\ wanted' = [wanted EXCEPT ![c] = list]
  /\ UNCHANGED <<linkVars, wsVars, mode, stuck, simVars, baseVars, beatVars>>

\* An impossible length: Shutdown, and the packet stays where it is.
BadLength(c) ==
  /\ Handling(c)
  /\ shut' = shut \cup {c} /\ stuck' = stuck \cup {c}
  /\ busy' = [busy EXCEPT !["io"] = NoConn]
  /\ UNCHANGED <<alive, link, heard, tasks, wsVars, mode, subs, listed, wanted,
                 simVars, baseVars, beatVars>>

Say == said < MaxSay /\ said' = said + 1

Request ==
  /\ Say
  /\ \/ \E c \in Tcp :
          \/ /\ BeginMessage(c) \/ CloseThenRead(c)
             /\ UNCHANGED <<wsVars, mode, clientVars, simVars, baseVars, beatVars>>
          \/ HandleLogin(c) \/ HandlePing(c) \/ BadLength(c)
          \/ \E list \in Lists : HandleSubscribe(c, list)
     \/ \E c \in Web :
          /\ WsRequest(c, Lists)
          /\ UNCHANGED <<mode, clientVars, simVars, baseVars, beatVars>>

\* What the IO loops do whether or not clients ask for it.
IoStep ==
  /\ \/ \E c \in Tcp : EndMessage(c) \/ HandleClose(c)
     \/ RunSend("io")
  /\ UNCHANGED <<wsVars, mode, clientVars, said, simVars, baseVars, beatVars>>

WebStep ==
  /\ phase = "running" /\ WsStep
  /\ UNCHANGED <<mode, clientVars, said, simVars, baseVars, beatVars>>

-----------------------------------------------------------------------------
(* The simulator thread and the updates on the base loop.                  *)

Smaller(a, b) == IF a < b THEN a ELSE b

NumIds == Cardinality(Id)
Count == Smaller(PerTick, NumIds)

\* GenerateBatchUpdates round robin, and one task with the whole batch.
Simulate ==
  /\ alive /\ phase # "new" /\ made + Count <= MaxUpdate
  /\ queue' = queue \o [k \in 1..Count |->
                          [id |-> ((next + k - 2) % NumIds) + 1, n |-> made + k]]
  /\ next' = ((next + Count - 1) % NumIds) + 1
  /\ made' = made + Count
  /\ UNCHANGED <<linkVars, wsVars, mode, clientVars, said, baseVars, beatVars>>

\* OnStockUpdate, OnLightUpdate: ForEachSubscriber drops who is not
\* connected and sends to the others, each once for every entry.
PushToTcp ==
  LET u == Head(queue) IN
  /\ alive /\ phase = "running" /\ base \in {"idle", "batch"} /\ queue # << >>
  /\ subs' = [subs EXCEPT ![u.id] = Connected(@)]
  /\ QueueSends("io", Connected(subs[u.id]), Update(u.id, u.n))
  /\ base' = "publish"
  /\ UNCHANGED <<link, shut, busy, wsVars, mode, listed, wanted, stuck, said, simVars,
                 targets, beatVars>>

\* PublishTo, under its lock.  Stock codes are numbered in the order of
\* their first update, which is that of the round robin.
PublishCollect ==
  LET u == Head(queue) IN
  /\ alive /\ base = "publish"
  /\ Collect(u.id)
  /\ targets' = Connected(ws_subs[u.id])
  /\ base' = "send"
  /\ UNCHANGED <<linkVars, session, subscribed, again, unacked, mode, clientVars, said,
                 simVars, beatVars>>

PublishSend ==
  LET u == Head(queue) IN
  /\ alive /\ base = "send" /\ targets # << >>
  /\ QueueSend(Head(targets), Update(u.id, u.n))
  /\ targets' = Tail(targets)
  /\ UNCHANGED <<link, shut, busy, wsVars, mode, clientVars, said, simVars, base, beatVars>>

\* The next update of the same task, or the end of the task.
PublishEnd ==
  /\ alive /\ base = "send" /\ targets = << >>
  /\ queue' = Tail(queue)
  /\ base' = IF Head(queue).n % Count = 0 THEN "idle" ELSE "batch"
  /\ UNCHANGED <<linkVars, wsVars, mode, clientVars, said, next, made, targets, beatVars>>

-----------------------------------------------------------------------------
(* CheckHeartbeats, on the base loop of the stock server.                  *)

\* A millisecond or more passes for everyone.
Tick ==
  /\ alive /\ phase = "running" /\ app = "stock"
  /\ base = "check" => lag < MaxLag
  /\ lag' = IF base = "check" THEN lag + 1 ELSE lag
  /\ age' = [c \in Tcp |-> Smaller(age[c] + 1, MaxAge)]
  /\ UNCHANGED <<linkVars, wsVars, mode, clientVars, said, simVars, baseVars, unseen, cut>>

\* The repeated timer fires: read the clock, start on the connection tables.
CheckBegin ==
  /\ alive /\ phase = "running" /\ app = "stock" /\ base = "idle"
  /\ base' = "check" /\ lag' = 0 /\ cut' = {}
  /\ unseen' = {c \in Tcp : link[c] \in {"up", "closed"}}
  /\ UNCHANGED <<linkVars, wsVars, mode, clientVars, said, simVars, targets, age>>

\* now - last_heartbeat, cast to uint64_t, is above the timeout: also when
\* it is negative, because the client was heard after the clock was read.
Overdue(c) == age[c] < lag \/ age[c] - lag > Timeout

\* Mutant of CheckVisit: the test of IsConnected is inverted.
CheckVisitClosed(c) ==
  /\ alive /\ base = "check" /\ c \in unseen
  /\ unseen' = unseen \ {c}
  /\ cut' = IF ~IsConnected(c) /\ Overdue(c) THEN cut \cup {c} ELSE cut
  /\ UNCHANGED <<linkVars, wsVars, mode, clientVars, said, simVars, baseVars, age, lag>>

CheckVisit(c) ==
  /\ alive /\ base = "check" /\ c \in unseen
  /\ unseen' = unseen \ {c}
  /\ cut' = IF IsConnected(c) /\ Overdue(c) THEN cut \cup {c} ELSE cut
  /\ UNCHANGED <<linkVars, wsVars, mode, clientVars, said, simVars, baseVars, age, lag>>

\* Shutdown, which acts on the socket, and the index.
CheckCut(c) ==
  /\ alive /\ base = "check" /\ unseen = {} /\ c \in cut
  /\ cut' = cut \ {c}
  /\ shut' = shut \cup {c}
  /\ StockRemoveConnection(c)
  /\ wanted' = [wanted EXCEPT ![c] = << >>]
  /\ UNCHANGED <<alive, link, heard, tasks, busy, wsVars, mode, stuck, said, simVars,
                 baseVars, age, lag, unseen>>

CheckEnd ==
  /\ alive /\ base = "check" /\ unseen = {} /\ cut = {}
  /\ base' = "idle" /\ lag' = 0
  /\ UNCHANGED <<linkVars, wsVars, mode, clientVars, said, simVars, targets, age,
                 unseen, cut>>

\* The base loop runs timers before tasks, every round.
BaseTasks == PushToTcp \/ PublishCollect \/ PublishSend \/ PublishEnd
CheckStep == CheckEnd \/ \E c \in Tcp : CheckVisit(c) \/ CheckCut(c)

Next ==
  \/ Start \/ RunLoop
  \/ \E c \in Tcp : OnConnectionUp(c)
  \/ OnConnectionDown \/ Request \/ IoStep \/ WebStep
  \/ Simulate \/ BaseTasks
  \/ Tick \/ CheckBegin \/ CheckStep

(***************************************************************************)
(* The base loop goes on with what it has begun and its repeated timer     *)
(* keeps firing (SF: updates may be pending whenever it is due, but        *)
(* EventLoop::Loop runs timers in every round).  Nothing is asked of       *)
(* clients, of the simulator or of time.                                   *)
(***************************************************************************)
Fairness ==
  /\ WF_vars(BaseTasks) /\ WF_vars(CheckStep) /\ SF_vars(CheckBegin)

Spec == Init /\ [][Next]_vars /\ Fairness

-----------------------------------------------------------------------------
(***************************************************************************)
(* The index of each server holds, for a connection that is up, one entry  *)
(* for every occurrence of an id in its last SUBSCRIBE (none if the        *)
(* heartbeat has cut it since); for a closed one at most that, because     *)
(* publishing prunes; and none once the connection callback has run        *)
(* ("连接关闭时清理其所有订阅").  The web side lists each id once.           *)
(***************************************************************************)
IndexIsTrue ==
  /\ WsIndexIsTrue
  /\ \A c \in Tcp, i \in Id :
       /\ Times(c, subs[i]) <= Times(i, wanted[c])
       /\ IsConnected(c) => Times(c, subs[i]) = Times(i, wanted[c])
       /\ link[c] = "gone" => Times(c, subs[i]) = 0

(***************************************************************************)
(* What a client is written makes sense to it: updates come in the order   *)
(* in which they were made, although the base loop, the simulator and the  *)
(* IO loop hand them on, and a web client sees no update of an id before   *)
(* the acknowledgement of a subscription to it, although PublishTo may     *)
(* collect it between the index and the acknowledgement.                   *)
(***************************************************************************)
StreamMakesSense ==
  \A c \in Client : \A j \in 1..Len(heard[c]) :
    heard[c][j].kind = "update" =>
      /\ \A i \in 1..(j - 1) : heard[c][i].n <= heard[c][j].n
      /\ c \in Web => \E i \in 1..(j - 1) :
                        heard[c][i].kind = "ack" /\ heard[c][j].ids \subseteq heard[c][i].ids

(***************************************************************************)
(* "启动心跳检测" (stock_push_server.cc:537): a client that stays silent     *)
(* longer than the timeout is shut down, unless it closes or speaks first  *)
(* or a late write has ended the process.                                  *)
(***************************************************************************)
SilentIsCut ==
  \A c \in Tcp :
    (app = "stock" /\ IsConnected(c) /\ age[c] > Timeout)
      ~> (c \in shut \/ ~IsConnected(c) \/ age[c] <= Timeout \/ ~alive)

(***************************************************************************)
(* "关闭超时连接" (stock_push_server.cc:569): only a client that has been   *)
(* silent for longer than the timeout when CheckHeartbeats looks at it is  *)
(* put on the list of those to close.                                      *)
(***************************************************************************)
OnlySilentAreCut ==
  [][\A c \in Tcp : c \in cut' \ cut => age[c] > Timeout]_vars
=============================================================================
