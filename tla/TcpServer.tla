----------------------------- MODULE TcpServer -----------------------------
(***************************************************************************)
(* netx::TcpServer with its Acceptors, IoThreadPool and EventLoopThreads   *)
(* (src/tcp_server.cc, acceptor.cc, io_thread_pool.cc,                     *)
(* event_loop_thread.cc): how the loops come up, how a descriptor becomes  *)
(* a connection of one loop, how it leaves that loop's table, and when the *)
(* descriptor may be used again.                                           *)
(*                                                                         *)
(* Each loop thread alternates, as EventLoop::Loop does, between events    *)
(* (while its `buffer` is empty) and the batch of tasks it has swapped     *)
(* out; the closures of a batch are destroyed when the whole batch has     *)
(* run.  A connection is released, and its descriptor closed, with the     *)
(* last reference: the table, a queued closure, or the `lent` ones, which  *)
(* the application holds.  The kernel hands out the lowest descriptor that *)
(* is not in use.  Connection c is the c-th that is accepted; bytes, idle  *)
(* timeouts and partial writes are the business of module TcpConnection.   *)
(***************************************************************************)
EXTENDS Naturals, Sequences, FiniteSets

CONSTANTS
  NumLoops,  \* io_threads
  MaxConn,   \* bound: connections clients make
  Fd,        \* the descriptors of the process
  NoFd, NoConn,
  Base       \* the thread of base_loop_, which also runs Start

ASSUME ServerAssumption ==
  /\ NumLoops \in Nat \ {0}
  /\ MaxConn \in Nat /\ NoConn \notin 1..MaxConn
  /\ Fd \subseteq Nat /\ NoFd \notin Fd
  /\ Base \notin 1..NumLoops

Loop == 1..NumLoops
Conn == 1..MaxConn

VARIABLES
  reuse_port,  \* argument of the constructor
  thread,      \* loop -> "none", "created", "looping"
  prepared,    \* have the tables of loop_conns_ been made?
  listening,   \* the loops with an acceptor that listens
  next,        \* IoThreadPool::next_, from 1
  state,       \* connection -> how far it is
  fd,          \* connection -> its descriptor
  home,        \* connection -> its loop
  table,       \* loop_conns_
  pending,     \* loop -> pending_tasks_
  buffer,      \* loop -> pending_buffer_
  done,        \* loop -> how many tasks of the batch have run
  lent         \* connection -> references held by the application

startVars  == <<reuse_port, thread, prepared, listening>>
connVars   == <<state, fd, home, table>>
taskVars   == <<pending, buffer, done>>
serverVars == <<reuse_port, thread, prepared, listening, next, state, fd, home,
                table, pending, buffer, done, lent>>

ServerInit ==
  /\ reuse_port \in BOOLEAN
  /\ thread = [l \in Loop |-> "none"]
  /\ prepared = FALSE /\ listening = {} /\ next = 1
  /\ state = [c \in Conn |-> "none"]
  /\ fd = [c \in Conn |-> NoFd] /\ home = [c \in Conn |-> 1]
  /\ table = [l \in Loop |-> [f \in Fd |-> NoConn]]
  /\ pending = [l \in Loop |-> << >>] /\ buffer = [l \in Loop |-> << >>]
  /\ done = [l \in Loop |-> 0]
  /\ lent = [c \in Conn |-> 0]

-----------------------------------------------------------------------------
(* Start, and the threads it waits for.                                    *)

\* IoThreadPool::Start: one thread after the other, each awaited.
StartLoop(l) ==
  /\ thread[l] = "none" /\ \A k \in 1..(l - 1) : thread[k] = "looping"
  /\ thread' = [thread EXCEPT ![l] = "created"]
  /\ UNCHANGED <<reuse_port, prepared, listening, next, connVars, taskVars, lent>>

\* The thread publishes loop_, which ends the wait of StartLoop, and loops.
ThreadFunc(l) ==
  /\ thread[l] = "created"
  /\ thread' = [thread EXCEPT ![l] = "looping"]
  /\ UNCHANGED <<reuse_port, prepared, listening, next, connVars, taskVars, lent>>

PrepareTables ==
  /\ \A l \in Loop : thread[l] = "looping"
  /\ ~prepared /\ prepared' = TRUE
  /\ UNCHANGED <<reuse_port, thread, listening, next, connVars, taskVars, lent>>

\* Mutant of NextLoop: the index is not taken modulo the size.
NextLoopPastEnd == next' = next + 1

NextLoop == next' = (next % NumLoops) + 1

\* SO_REUSEPORT: an acceptor on each loop, set up by the main thread while
\* the loops that have theirs already accept.
ListenInLoop ==
  /\ prepared /\ reuse_port
  /\ Cardinality(listening) < NumLoops
  /\ listening' = listening \cup {next}
  /\ NextLoop
  /\ UNCHANGED <<reuse_port, thread, prepared, connVars, taskVars, lent>>

\* Otherwise one acceptor, on the base loop.
ListenInBase ==
  /\ prepared /\ ~reuse_port /\ listening = {}
  /\ listening' = {Base}
  /\ UNCHANGED <<reuse_port, thread, prepared, next, connVars, taskVars, lent>>

-----------------------------------------------------------------------------
(* Descriptors and references.                                             *)

Holds(t, c) == t.c = c /\ t.op # "new"

\* Some shared_ptr to c exists: in the table, in a closure, with the
\* application, or on the stack of the task that runs.
Held(c) ==
  \/ lent[c] > 0
  \/ \E l \in Loop :
       \/ \E f \in Fd : table[l][f] = c
       \/ \E i \in 1..Len(pending[l]) : Holds(pending[l][i], c)
       \/ \E i \in 1..Len(buffer[l])  : Holds(buffer[l][i], c)

\* Does c own its descriptor?  While it is accepted the number is in a closure.
UsedBy(c) == state[c] = "accepted" \/ (state[c] # "none" /\ Held(c))

FreeFd == Fd \ {fd[c] : c \in {d \in Conn : UsedBy(d)}}
LowestFree == {f \in FreeFd : \A g \in FreeFd : f <= g}

\* c is the next connection to be accepted.
Fresh(c) == state[c] = "none" /\ \A d \in 1..(c - 1) : state[d] # "none"

-----------------------------------------------------------------------------
(* Tasks of the server on a loop.                                          *)

ServerTask(o, c) == [op |-> o, c |-> c, n |-> 0]

Queue(l, t) == pending' = [pending EXCEPT ![l] = Append(@, t)]

\* Is loop l handling events (not tasks)?
Polling(l) == thread[l] = "looping" /\ buffer[l] = << >>

\* NewConnectionInLoop on loop l for the descriptor f just accepted.
NewConnection(l, c, f) ==
  /\ state' = [state EXCEPT ![c] = "accepted"]
  /\ fd' = [fd EXCEPT ![c] = f]
  /\ home' = [home EXCEPT ![c] = l]
  /\ Queue(l, ServerTask("new", c))

\* Acceptor::HandleRead on the base loop, and the round robin.
AcceptInBase(c) ==
  /\ Base \in listening /\ Fresh(c)
  /\ \E f \in LowestFree : NewConnection(next, c, f)
  /\ NextLoop
  /\ UNCHANGED <<startVars, table, buffer, done, lent>>

\* Acceptor::HandleRead on loop l itself.
AcceptInLoop(l, c) ==
  /\ l \in listening /\ Polling(l) /\ Fresh(c)
  /\ \E f \in LowestFree : NewConnection(l, c, f)
  /\ UNCHANGED <<startVars, next, table, buffer, done, lent>>

\* DoPendingTasks: swap.
BeginTasks(l) ==
  /\ Polling(l) /\ pending[l] # << >>
  /\ buffer' = [buffer EXCEPT ![l] = pending[l]]
  /\ pending' = [pending EXCEPT ![l] = << >>]
  /\ UNCHANGED <<startVars, next, connVars, done, lent>>

\* The task of the batch that loop l runs next has this op.
Running(l, o) ==
  /\ done[l] < Len(buffer[l])
  /\ buffer[l][done[l] + 1].op = o

This(l) == buffer[l][done[l] + 1].c

Done(l) == done' = [done EXCEPT ![l] = @ + 1]

\* The lambda of NewConnectionInLoop.  emplace leaves an entry that is
\* already there alone.
RunNew(l) ==
  LET c == This(l) IN
  /\ Running(l, "new")
  /\ state' = [state EXCEPT ![c] = "up"]
  /\ table' = IF table[l][fd[c]] = NoConn
              THEN [table EXCEPT ![l][fd[c]] = c] ELSE table
  /\ Done(l)
  /\ UNCHANGED <<startVars, next, fd, home, pending, buffer, lent>>

\* The lambda of RemoveConnection: the entry goes by descriptor number.
RunRemove(l) ==
  LET c == This(l) IN
  /\ Running(l, "remove")
  /\ state' = [state EXCEPT ![c] = "removed"]
  /\ table' = [table EXCEPT ![l][fd[c]] = NoConn]
  /\ Done(l)
  /\ UNCHANGED <<startVars, next, fd, home, pending, buffer, lent>>

\* The batch has run: clear destroys its closures.
EndTasks(l) ==
  /\ buffer[l] # << >> /\ done[l] = Len(buffer[l])
  /\ buffer' = [buffer EXCEPT ![l] = << >>]
  /\ done' = [done EXCEPT ![l] = 0]
  /\ UNCHANGED <<startVars, next, connVars, pending, lent>>

-----------------------------------------------------------------------------
(* TcpConnection::HandleClose and the close handler of the server.         *)

\* Mutant of Close: the removal is queued to the next loop, not to c's own.
CloseOnNext(c) ==
  /\ state[c] = "up"
  /\ state' = [state EXCEPT ![c] = "closed"]
  /\ Queue(next, ServerTask("remove", c))

Close(c) ==
  /\ state[c] = "up"
  /\ state' = [state EXCEPT ![c] = "closed"]
  /\ Queue(home[c], ServerTask("remove", c))

\* read returned 0 or an error.
HandleClose(c) ==
  /\ Polling(home[c])
  /\ Close(c)
  /\ UNCHANGED <<startVars, next, fd, home, table, buffer, done, lent>>

-----------------------------------------------------------------------------
ServerTypeOK ==
  /\ reuse_port \in BOOLEAN /\ prepared \in BOOLEAN
  /\ thread \in [Loop -> {"none", "created", "looping"}]
  /\ listening \subseteq Loop \cup {Base}
  /\ next \in Loop
  /\ state \in [Conn -> {"none", "accepted", "up", "closed", "removed"}]
  /\ fd \in [Conn -> Fd \cup {NoFd}]
  /\ home \in [Conn -> Loop]
  /\ table \in [Loop -> [Fd -> Conn \cup {NoConn}]]
  /\ done \in [Loop -> Nat]
  /\ lent \in [Conn -> Nat]

(***************************************************************************)
(* The tables (tcp_server.cc:98, 116) name exactly the connections that    *)
(* are up or whose removal is still queued, each in the table of its own   *)
(* loop at its own descriptor.  It needs the order of the tasks of a loop   *)
(* and the life of the closures: were a number in use again while its old  *)
(* owner is in the table, emplace would be a silent no-op and the new      *)
(* connection would vanish, or erase by number take the wrong one out.     *)
(***************************************************************************)
TableIsTrue ==
  \A l \in Loop, f \in Fd, c \in Conn :
    table[l][f] = c <=>
      /\ state[c] \in {"up", "closed"}
      /\ home[c] = l /\ fd[c] = f
=============================================================================
