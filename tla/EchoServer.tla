----------------------------- MODULE EchoServer -----------------------------
(***************************************************************************)
(* examples/echo_server.cc: a TcpServer whose message callback echoes in   *)
(* the IO thread (biz_threads = 0) or posts a copy to a WorkerThreadPool,  *)
(* whose worker hands the reply back to the connection's loop with Send.   *)
(* The n-th message of connection c is the task <<c, n>>.  echo_server.cc  *)
(* itself never stops its pool; StopSet and what follows it are the calls  *)
(* of an owner that does, while the server runs on.                        *)
(***************************************************************************)
EXTENDS TcpServer, WorkerThreadPool

CONSTANTS MaxMsg   \* bound: messages a client sends

ASSUME EchoAssumption == /\ MaxMsg \in Nat
                         /\ Work = Conn \X (1..MaxMsg)
                         /\ Poster = Loop

VARIABLES
  biz,     \* is there a worker pool?
  reads,   \* connection -> messages read
  sent     \* connection -> messages echoed

echoVars == <<biz, reads, sent>>
vars == <<serverVars, poolVars, echoVars>>

Init ==
  /\ ServerInit /\ PoolInit
  /\ biz \in BOOLEAN
  /\ reads = [c \in Conn |-> 0]
  /\ sent = [c \in Conn |-> {}]

-----------------------------------------------------------------------------
\* A loop thread that is inside Post does nothing else.
Free(l) == l \notin posting

\* HandleRead and the message callback with a pool: copy, retrieve, Post.
OnMessagePost(c) ==
  /\ biz /\ state[c] = "up" /\ reads[c] < MaxMsg
  /\ Polling(home[c]) /\ Free(home[c])
  /\ reads' = [reads EXCEPT ![c] = @ + 1]
  /\ Post(home[c], <<c, reads[c] + 1>>)
  /\ lent' = [lent EXCEPT ![c] = @ + 1]
  /\ UNCHANGED <<startVars, next, connVars, taskVars, biz, sent>>

\* The same without a pool: Send on the loop's own thread.
OnMessageEcho(c) ==
  /\ ~biz /\ state[c] = "up" /\ reads[c] < MaxMsg
  /\ Polling(home[c])
  /\ reads' = [reads EXCEPT ![c] = @ + 1]
  /\ sent' = [sent EXCEPT ![c] = @ \cup {reads[c] + 1}]
  /\ UNCHANGED <<serverVars, poolVars, biz>>

\* The task of a worker: Send from another thread queues SendInLoop.
WorkerSend(w) ==
  /\ RunTask(w)
  /\ LET c == task[w][1]
     IN Queue(home[c], [op |-> "send", c |-> c, n |-> task[w][2]])
  /\ UNCHANGED <<startVars, next, connVars, buffer, done, lent, echoVars>>

\* Mutant of WorkerDrop: the closure is never destroyed.
WorkerKeep(w) ==
  /\ DropTask(w)
  /\ UNCHANGED <<serverVars, echoVars>>

WorkerDrop(w) ==
  /\ DropTask(w)
  /\ lent' = [lent EXCEPT ![task[w][1]] = @ - 1]
  /\ UNCHANGED <<startVars, next, connVars, taskVars, echoVars>>

\* SendInLoop as a task.  It does not look at state_, and a failing write
\* closes nothing; what it writes for a closed connection is not recorded.
RunSend(l) ==
  LET t == buffer[l][done[l] + 1] IN
  /\ Running(l, "send")
  /\ sent' = IF state[t.c] = "up"
             THEN [sent EXCEPT ![t.c] = @ \cup {t.n}] ELSE sent
  /\ Done(l)
  /\ UNCHANGED <<startVars, next, connVars, pending, buffer, lent, poolVars, biz, reads>>

-----------------------------------------------------------------------------
Starting ==
  /\ \/ \E l \in Loop : StartLoop(l) \/ ThreadFunc(l)
     \/ PrepareTables \/ ListenInLoop \/ ListenInBase
  /\ UNCHANGED <<poolVars, echoVars>>

Accepting ==
  /\ \E c \in Conn : AcceptInBase(c) \/ \E l \in Loop : Free(l) /\ AcceptInLoop(l, c)
  /\ UNCHANGED <<poolVars, echoVars>>

\* The part of a loop thread that must go on: its batch.
LoopTasks(l) ==
  /\ Free(l)
  /\ \/ /\ BeginTasks(l) \/ RunNew(l) \/ RunRemove(l) \/ EndTasks(l)
        /\ UNCHANGED <<poolVars, echoVars>>
     \/ RunSend(l)

FinishPost(l) == Notify(l) /\ UNCHANGED <<serverVars, echoVars>>

Closing ==
  /\ \E c \in Conn : Free(home[c]) /\ HandleClose(c)
  /\ UNCHANGED <<poolVars, echoVars>>

WorkerStep(w) ==
  \/ /\ Sleep(w) \/ Take(w) \/ Leave(w)
     /\ UNCHANGED <<serverVars, echoVars>>
  \/ WorkerSend(w) \/ WorkerDrop(w)

Stopping ==
  /\ StopSet \/ StopNotify \/ StopJoin
  /\ UNCHANGED <<serverVars, echoVars>>

Waking ==
  /\ \E w \in Worker : SpuriousWakeup(w)
  /\ UNCHANGED <<serverVars, echoVars>>

Next ==
  \/ Starting \/ Accepting \/ Closing \/ Stopping \/ Waking
  \/ \E c \in Conn : OnMessagePost(c) \/ OnMessageEcho(c)
  \/ \E l \in Loop : LoopTasks(l) \/ FinishPost(l)
  \/ \E w \in Worker : WorkerStep(w)

(***************************************************************************)
(* A loop goes on with its tasks and its calls, a worker with its loop.    *)
(* Clients, the owner's Stop and spurious wakeups are under no obligation. *)
(***************************************************************************)
Fairness ==
  /\ \A l \in Loop : WF_vars(LoopTasks(l)) /\ WF_vars(FinishPost(l))
  /\ \A w \in Worker : WF_vars(WorkerStep(w))

Spec == Init /\ [][Next]_vars /\ Fairness

-----------------------------------------------------------------------------
Tasks == [op : {"new", "remove"}, c : Conn, n : {0}]
           \cup [op : {"send"}, c : Conn, n : 1..MaxMsg]

TypeOK ==
  /\ ServerTypeOK /\ PoolTypeOK
  /\ pending \in [Loop -> Seq(Tasks)] /\ buffer \in [Loop -> Seq(Tasks)]
  /\ \A l \in Loop : done[l] <= Len(buffer[l])
  /\ biz \in BOOLEAN
  /\ reads \in [Conn -> 0..MaxMsg]
  /\ sent \in [Conn -> SUBSET (1..MaxMsg)]

(***************************************************************************)
(* A message posted before the pool was stopped is answered, unless its    *)
(* connection closes first: through the queue of the pool, a worker's      *)
(* wait, the cross-thread Send (tcp_connection.cc:116) and the loop's      *)
(* task queue no wakeup and no task is lost.                               *)
(***************************************************************************)
PostedIsEchoed ==
  \A c \in Conn, n \in 1..MaxMsg :
    <<c, n>> \in in_time ~> (n \in sent[c] \/ state[c] # "up")

(***************************************************************************)
(* A connection that has left its table gives its descriptor back          *)
(* (tcp_server.cc:101-105 counts the references): unless a task posted     *)
(* after the stop holds it for ever in q_.                                 *)
(***************************************************************************)
DescriptorsReturn ==
  \A c \in Conn :
    state[c] = "removed" ~> (~UsedBy(c) \/ \E n \in 1..MaxMsg : <<c, n>> \in Queued)
=============================================================================
