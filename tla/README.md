# A TLA+ model of netx

netx is a C++17 reactor library in the style of muduo (an epoll or io_uring
loop per thread, TCP connections, HTTP and WebSocket servers) with two push
servers built on it. This directory models its concurrent and stateful core in
TLA+, model-checks it with TLC and proves the safety part with TLAPS. Paths
such as `src/event_loop.cc` are relative to the repository root.

## 1. Inventory

| Component | State | Operations | Talks to |
|---|---|---|---|
| `EventLoop` (`src/event_loop.cc`) | `pending_tasks_`/`pending_buffer_`, `wakeup_pending_`, `calling_pending_`, `quit_`, the eventfd | `Loop`, `QueueInLoop`, `RunInLoop`, `Quit`, `HandleWakeup`, `DoPendingTasks`, `RunAfter/Every/CancelTimer` | every thread queues tasks into it; it calls Poller, Channel, TimerWheel |
| `EpollPoller`, `IoUringPoller` | the kernel's interest set; for io_uring a watcher table with generations | `Add`, `Mod`, `Del`, `Poll` | EventLoop, kernel |
| `Channel` (`src/channel.cc`) | `events_`, `registered_`, `registered_events_`, `tie_` | `enable_/disable_*`, `remove`, `handle_event` | its owner (TcpConnection, Acceptor, EventLoop) |
| `TimerWheel`, `Timer` | slots, `current_slot_`, `current_time_`, `timer_map_`, `mu_` | `AddTimer`, `RemoveTimer`, `Tick`, `GetNextTimeout` | EventLoop (Tick after each batch), TcpConnection timeouts |
| `TcpConnection` (`src/tcp_connection.cc`) | `state_`, `output_`, `writing_`, timer ids | `Send*`, `SendInLoop`, `SendVecInLoop`, `HandleRead/Write/Close`, `Shutdown`, `SetTimeout` | Channel, EventLoop queue, user callbacks, peer |
| `Buffer`, `BufferPool` | reader/writer index, storage, thread-local free list | `append`, `retrieve`, `make_space`, `read_fd` | TcpConnection |
| `TcpServer`, `Acceptor` | per-loop connection tables | `NewConnection`, `NewConnectionInLoop`, `RemoveConnection`, `ForEachConnection` | IoThreadPool, EventLoop queues |
| `EventLoopThread`, `IoThreadPool` | `loop_`, `started_`, round-robin index | `StartLoop`, `ThreadFunc`, destructor, `NextLoop` | EventLoop |
| `WorkerThreadPool` | `q_`, `stopping_`, threads | `Start`, `Stop`, `Post`, `Worker` | the message callback that posts; a task sends back through the connection's loop |
| `Logger`, `LogBackend`, `BlockingQueue`, `MpmcQueue` (`src/logging.cc`) | ring of cells with sequence numbers, `running_`, file | `push`, `pop`, `Append`, `Start`, `Stop`, `ThreadFunc` | every thread |
| `HttpParser`, `HttpServer` | parse result, input buffer, static cache | `Parse`, `OnMessage`, `GetStatic` | TcpServer, WorkerThreadPool |
| `WebSocketServer` | sessions, topic subscriptions, `subs_mu_` | handshake, frame parsing, `PublishTo`, close | TcpServer |
| traffic push, stock push servers (`app/`) | sessions, `SubscriptionManager`, simulator | login, subscribe, ping, publish, heartbeat check | TcpServer, simulator thread |
| `examples/echo_server.cc` | `Stats` counters, a `WorkerThreadPool` or none | echo in the IO thread, or post and Send back | TcpServer, WorkerThreadPool |
| other examples, benchmarks, push clients, `web/` | - | - | they drive the library |

How they interact. A connection belongs to one loop and its state is touched by
that loop's thread; other threads reach it by `QueueInLoop`. The loop turns
kernel events into `Channel::handle_event` calls, then runs the timers that are
due, then the queued tasks. A close callback queues the removal from the
server's table, so that the connection outlives the batch it was closed in.

What is hard, and what makes each component correct:

| Component | Hard behaviour | Correct when |
|---|---|---|
| EventLoop | producers race with the two-step `HandleWakeup`; coalesced wakeups; `Quit` from any thread | no queued task waits behind a sleeping loop; tasks run once and in order; `Quit` ends the loop |
| TimerWheel | time moves between `Tick`, `AddTimer` and `RemoveTimer`; rounding to slots | a timer is in one slot, fires neither early nor late, and never after it was removed |
| TcpConnection | partial writes; ERR, IN, OUT and HUP in one batch; sends after the close; FIN, RST and timeout at any time | every byte goes out once and in order; EPOLLOUT is watched exactly while needed; one close callback; closed connections stay out of the poller |
| Buffer | moving, growing, leaving the pool | contents are a byte sequence whatever the indices do |
| TcpServer, IoThreadPool | tables shared with `ForEachConnection`; descriptor reuse | a table holds exactly its loop's live connections |
| EventLoopThread | start and stop from another thread | `StartLoop` returns a running loop; the destructor touches no dead loop |
| WorkerThreadPool | condition variable, stop while posting | a task posted before the stop runs before `Stop` returns |
| LogBackend, MpmcQueue | lock-free ring; stop while appending | a FIFO; each line in one place; what a stop may lose is bounded |
| IoUringPoller | completions of old registrations | a registered channel has exactly one live poll request |
| HttpServer | requests arrive in pieces and pipelined | one response per request, in order, with its own body |
| WebSocketServer, push servers | subscriptions changed, published, closed and cut by different threads; a heartbeat clock read early | the index agrees with the last SUBSCRIBE; updates arrive in order and after the acknowledgement; exactly the silent are cut |

## 2. Modules

| Module | Models | Role |
|---|---|---|
| `TaskQueue` | what `EventLoop` promises to its callers | abstract: a FIFO that runs each task at most once |
| `EventLoop` | `src/event_loop.cc` | detailed; implements `TaskQueue` |
| `TcpConnection` | `src/tcp_connection.cc`, `src/channel.cc`, `EventLoop::UpdateChannel/RemoveChannel` | one connection, its socket and its peer |
| `TimerWheel` | `src/timer_wheel.cc`, `src/timer.cc`, the timeout computation of `Loop` | the wheel against a clock |
| `IoUringPoller` | `src/iouring_poller.cc` | one ring, its watchers and the kernel |
| `LineQueue` | what `Append` and `ThreadFunc` need of their queue | abstract: a FIFO whose places are claimed, then filled |
| `LogBackend` | `src/logging.cc` | detailed; implements `LineQueue` |
| `Buffer` | `src/buffer.cc` | operators on one buffer, no state of its own |
| `HttpServer` | `src/http_server.cc`, `src/http_parser.cc` | one connection; extends `Buffer` |
| `TcpServer` | `src/tcp_server.cc`, `src/acceptor.cc`, `src/io_thread_pool.cc`, `src/event_loop_thread.cc` | loops, tables, descriptors, references |
| `WorkerThreadPool` | `src/worker_thread_pool.cc` | the pool, without a specification of its own |
| `EchoServer` | `examples/echo_server.cc` | composes `TcpServer` and `WorkerThreadPool` |
| `PushLink` | what the push servers use of `tcp_connection.cc` and `tcp_server.cc` | connections, cross-thread sends, closes |
| `WebSocketServer` | `src/websocket_server.cc` | sessions and index; extends `PushLink` |
| `PushServer` | `app/stock_push/stock_push_server.cc`, `app/traffic_push/traffic_push_server.cc` | composes both sides with the base loop and the simulator |
| `MC*` | - | instances for TLC |
| `*Proofs` | - | theorems and TLAPS proofs |

**EventLoop.** `pc` is the place of the loop thread: `while`, `lock` and `next`
(the two halves of the timeout computation), `poll`, `dispatch`, `wakeup`
(between drain and clear in `HandleWakeup`), `timers`, `swap`, `batch`, and
`io`, `timer`, `task` while user code runs. `op[p]` is how far thread `p` is
inside `QueueInLoop` (`notify`: before the compare-and-swap, `write`: before the
write to the eventfd) or `Quit`. A step is a critical section of `pending_mu_`,
an atomic operation or a system call. Memory order: `wakeup_pending_` is used
with relaxed operations, the model with sequentially consistent ones. That is
adequate: a producer's push and the loop's swap are ordered by `pending_mu_`, and
a compare-and-swap that fails read a value not yet overwritten by
`HandleWakeup`, whose iteration still has its swap ahead. `quit_` is a plain
`bool` that other threads write; each iteration passes calls the compiler cannot
see through, so the build rereads it.

**TcpConnection.** The k-th byte given to a Send is the number k, so the stream
on the wire shows what was lost, repeated or reordered. `SendDirect` is the fast
path of `SendInLoop` and `SendVecInLoop`, `SendBehindBacklog` the slow path of
both; they run as a queued task or another callback (`pc = "poll"`) or inside
the message callback. A batch walks through `HandleError`, `ReadData` or
`ReadEnd`, `HandleWrite`, `HandleHup` in the order of
`Channel::HandleEventGuarded`, with the events epoll reported at its start: the
peer moves in between. `wire` and `taken` are the socket: it takes what fits in
`SndBuf`. Writing on a socket that was shut down or reset raises SIGPIPE, which
nothing in the repository ignores; `killed` is the state after it. Empty sends
are left out. `behind`, `late` and `expired` are history variables.

**TimerWheel.** The clock runs during `poll` only up to the deadline and at any
pace elsewhere. One `Tick` is one action because `mu_` is held throughout; the
passes of `Tick` over all slots are collapsed into the one that finds something
(the later ones cannot: expired timers are gone, restarted ones are in the
future). `due` is when the caller expects the timer, `stale` the timers added
when the clock had moved past `current_time_`.

**IoUringPoller.** A channel is an address, because `watchers_` is keyed by the
pointer: an address is freed and used again. `pc` is the turn of the loop:
`dispatch`, `tasks` (where connections are made and leave their table), `submit`
and `wait` (the two halves of `Poll`). `chan` is the connection at an address,
`registered` the flag of its Channel; the two are independent, because a Send
after the close registers the Channel again (`Update` of a closed or gone
connection; `late` remembers it) and nothing takes that back: `HandleClose`
returns at its first line, `Leave` is the table's part only, and `Destroy`, which
may happen at any time and on any thread once the connection has left, tells the
poller nothing. The watcher that is left then has the number of a closed
descriptor (`orphan`) until it is taken over or reclaimed; its polls are refused,
or watch a file that has come to have the number, until a new connection at the
address has that very number. `AddOrMod` and `Del` are the poller. `KernelTakes`
and `Completes` are the kernel, in which a removed poll and its removal complete
in either order. Generations are compared in full where the code does and modulo
`GenMod` in the user data. `lost`, `late` are history variables.

**LogBackend.** `pc[p]` is a thread in `Append`: after `running_` was read
(`load`, `look`, `claim`, `store` in `MpmcQueue::push`, `put` in
`BlockingQueue::push`, `sync` in `WriteSync`). `wpc` is the log thread, `mpc` the
main thread in `Start`, `Stop` and the join. The ring's atomics carry
acquire/release order on the sequence numbers, which is what publishes a cell;
the model is sequentially consistent. `Pop` and its compare-and-swap are one
step, because there is a single consumer. `written`, `before`, `blind` are
history variables. The refinement maps a place claimed and not stored to the
thread that claimed it.

**Buffer, HttpServer.** A buffer is a record of storage and indices, each
operation a function on it; `MakeSpace` compacts, leaves the pool for the heap
or grows the vector as the code decides. In `HttpServer` the stream of a client
is a sequence of units (a request line, a header, a blank line, a unit of a
body), to which `SendRequest` adds whenever the client likes; `HandleRead(n)`
reads the next `n` of them. `Parse` consumes what
`HttpParser::Parse` consumes, also when it returns false. One action per branch
of `OnMessage`.

**TcpServer, WorkerThreadPool, EchoServer.** A loop thread handles events while
its `buffer` is empty, then runs the swapped-out batch task by task; closures are
destroyed with the batch (`EndTasks`), which is what frees a descriptor.
`UsedBy` counts references as `shared_ptr` does: the table, queued closures and
what the application `lent`. `WorkerThreadPool` has a step for each critical
section and each notification. In `EchoServer` the task of a worker is a Send
from a foreign thread, so it goes through the connection's loop.
`echo_server.cc` itself never stops its pool: `StopSet`, `StopNotify` and
`StopJoin` are an owner that calls `WorkerThreadPool::Stop`.

**PushLink, WebSocketServer, PushServer.** `busy[t]` is the connection whose
`OnMessage` thread `t` is in; the base loop takes steps between the steps of a
message. `PublishTo` is split at its unlock (`PublishCollect`, `PublishSend`),
the subscribe command at its own (`Subscribe`, `Acknowledge`). `CheckHeartbeats`
reads the clock (`CheckBegin`), visits the connections one by one, then cuts
(a Shutdown, so no more than the half-close of finding 2, and the removal from
the index).
Time is relative: `age` counts ticks since a client was heard, `lag` since the
clock was read. `app` chooses the program; the two differ in
`SubscriptionManager` and in the heartbeat. `wanted` is a history variable.
`CloseThenRead` is a batch with ERR and IN: `HandleError` closes and `HandleRead`
still calls `OnMessage`, so every request may also be made by a connection that
has just been closed. `heard` is what `SendInLoop` was given for a client, not
what the client reads: that the backlog in `output_` is repeated to a slow client
is finding 1, in module `TcpConnection`, and nothing said here of streams holds
for such a client.

**Composition.** `EventLoop` abstracts time (`armed`, `due`), `TimerWheel`
abstracts the queue and the wakeup, `TcpConnection` abstracts both to the moments
its handlers may run. `TcpServer` and `PushLink` use what `EventLoop` and
`TcpConnection` establish: tasks run once and in order on their loop, one close
per connection, a write to a closed or shut socket may kill the process. They
share no state in the code except through the operations each models.

## 3. Runs

| Run | Instance | Shows |
|---|---|---|
| `event_loop` | 2 remote threads, 2 tasks, 1 timer | `NoLostWakeup`, `QuitIsNoticed`, refinement of `TaskQueue`, and under fairness: queued tasks run, `Quit` ends the loop, timers fire |
| `tcp_connection` | buffer of 2, five bytes in sends of 1 to 3, one byte in | EPOLLOUT is watched exactly while `output_` holds bytes, nothing is lost, one close, no re-registration without a late send, a backlog drains |
| `tcp_connection_backlog` | same | violated: the stream is intact |
| `tcp_connection_timeout` | same, two bytes | violated: the idle timeout closes the connection |
| `timer_wheel` | 2 timers, wheel of 2 slots of 2 ms, delays 0, 3 and 5, clock to 6 | placement, no wrap, never late, never early when prompt |
| `timer_wheel_cancel` | 1 timer, 3 slots | violated: a removed timer never fires |
| `iouring_poller` | 2 addresses, 2 watcher ids, 3 generations of which 2 fit | a registered channel is polled and its events dispatched (three exceptions), none reaches a channel that has left its server (unless registered late), watchers are reclaimed |
| `log_backend` | 2 threads with 2 lines each, a ring of 2 cells, both queues | refinement of `LineQueue`, every line in one place, what a stop may lose, `Stop` returns |
| `http_server` | up to 4 pipelined requests of 4 kinds, a block of 4 units, an `extrabuf` of 6, every segmentation | the buffer holds the stream, answers are in order, nothing complete waits |
| `echo_server` | 2 loops, 2 connections, 2 descriptors, 1 worker, with and without `SO_REUSEPORT` and the pool | tables are true, a stop drains, what is posted is echoed, descriptors return |
| `push_server` | 1 TCP and 1 web client, 2 ids, 4 updates in batches of 2, 4 requests, both programs, a heartbeat timeout of 0 ticks | indexes are true, streams make sense, the silent are cut |
| `push_heartbeat` | same, a timeout of 1 tick | violated: only the silent are cut |

Bounds. Two remote threads are the fewest that compete for the coalesced wakeup
while the loop thread is between drain and clear; with two tasks one can be
queued before and one during a batch. A send buffer of two bytes gives empty,
partial and full writes with sends of one to three bytes, and five bytes allow a
send behind a backlog after a partial write. Delays are shorter and longer than
one slot (2 ms) and one turn (4 ms), and the clock runs beyond a turn. With
`GenMod = 3` a generation wraps within the run. A ring of two cells is the
smallest legal one: it is full with two lines and a producer can be a lap behind.
Four units of pooled block make a buffer compact, leave the pool and grow in turn,
and four requests put some in front of and some behind each kind. Two descriptors
for two connections make a number be reused as soon as it is free. The list
`<<1, 2, 1>>` repeats an id, `<<0>>` is empty after normalisation; two batches of
two updates let one be half pushed while the next is queued. One client of each
kind is enough for the push properties, which are about one client and two
loops; two clients of a kind share only the order in a list, which no property
reads. A timeout of 0 ticks means that a client is overdue one tick after it was
heard, which is enough for `SilentIsCut`: what it depends on is that the base
loop finds the client, whatever the number it compares with. The bounds are
`MaxBytes`, `MaxIn`, `MaxTime`, `MaxGen`, `MaxId`, `MaxReq`, `MaxLine`,
`MaxConn`, `MaxMsg`, `MaxLag`, `MaxUpdate` and `MaxSay`, all in guards or in the
initial states.

Deadlock checking is on in the `EventLoop`, `TimerWheel` and `IoUringPoller`
runs, whose loops never end. It is off where the system really stops: SIGPIPE or
an exception ends the process (`TcpConnection`, `HttpServer`, `PushServer`), a
closed connection with a silent peer has nothing left to do, and the log backend
and the echo server come to rest when all lines are written, all clients served.

Fairness. `EventLoop`: the loop thread keeps running, a thread that has begun
`QueueInLoop` or `Quit` finishes it, time passes (weak fairness), and a callback
that keeps making calls returns at last (strong fairness: each call disables
the return for a moment). Callers and foreign descriptors owe nothing.
`TcpConnection`: the loop thread runs, an armed timer fires, and the peer takes
the bytes that were sent; nobody owes a Send, a FIN or a reset. That the peer
reads is an assumption about the peer, and `BacklogDrains` is conditional on it.

`IoUringPoller`: the loop goes round and the kernel takes what was submitted
(weak); a descriptor that stays ready has the poll of its watcher completed
(strong, one condition for each watcher id, because completions are visible
during `Poll` only and the poll may be replaced in between). `LogBackend`: the log thread and the
joining thread run. `EchoServer`: loops finish their tasks and calls, workers
run; clients and the owner's Stop owe nothing. `PushServer`: the base loop goes
on with what it has begun, and its repeated timer keeps firing although tasks
may be pending (strong: `EventLoop::Loop` runs timers in every round). Clients,
the simulator and time owe nothing.

## 4. Disagreements between the code and what is said of it

1. `src/tcp_connection.cc:204`. When a Send finds bytes in `output_` and the
   `writev` takes all of them, the old bytes stay in `output_` and are sent again
   (`tcp_connection_backlog`). `IntactUnlessBehind` and `NothingLost` say how far
   the damage goes: only repetition, and only after such a Send.
2. `src/tcp_connection.cc:326`. The idle timeout half-closes; if the peer stays
   silent the connection is never closed (`tcp_connection_timeout`).
3. `src/timer_wheel.cc:76`. `RemoveTimer` may look in a different slot than
   `AddTimer` used; the timer fires after its removal (`timer_wheel_cancel`).
4. `app/stock_push/stock_push_server.cc:564`. `CheckHeartbeats` reads the clock
   once; a client heard a millisecond later has a negative silence, which the cast
   to unsigned makes enormous, and is cut (`push_heartbeat`).

Seen while modelling, without a run of their own, because an exception in a
property, a guard or an assumption names each:

- *Event loop and timers.* `RunAfter` from another thread does not wake the loop
  (`ArmedTimersFire`). A delay counts from the last `Tick`, not from the call
  (`timer_wheel.cc:40`, `event_loop.h:57` says "after delay_ms"), so a timer added
  in a callback after a long `Poll` fires early; `PromptNeverEarly` is what holds.
- *Connections.* A Send after the close registers the channel again
  (`ClosedIsUnregistered`), and nothing removes it before it is freed; ERR and IN
  in one batch hand a closed connection's message to the application and re-arm
  its idle timer; `Shutdown` does not wait for `output_`.
- *io_uring.* A channel registered at an address whose watcher is still
  `pending_delete` is lost (`iouring_poller.cc:157` leads to 128), against
  `iouring_poller.h:25` (`lost` in `RegisteredIsPolled`). A connection that a late
  Send has registered again may be freed while it is watched: the watcher keeps
  the number of the closed descriptor, and its completion is dispatched to the
  freed Channel as long as nobody uses the address (`late` in
  `DispatchedIsAlive`); a new connection at the address takes the watcher over
  with the old number (line 189), so that its own descriptor is not watched
  (`orphan`). The user data has 30 bits for a 32-bit generation
  (`gen[a] >= GenMod`).
- *Pools.* `worker_thread_pool.h:33` says that Post refuses after the stop; the
  code queues the task and nobody runs it (`in_time` in `StopDrains`).
  `tcp_server.h:28` allows no IO threads, for which `NextLoop` returns a null
  pointer (`ServerAssumption`).
- *Logging.* A ring of capacity 0 or 1 has one cell, in which full and empty
  coincide, and unread lines are overwritten (`LogAssumption`). `Start` sets
  `running_` before the queue exists, which is harmless as long as nobody logs
  yet. Lines pushed between the log thread's last failing pop and its test of
  `running_` are lost (`blind`), although `logging.cc:277` means to lose none. A
  caller that finds the ring full overtakes the queued lines. After the stop
  lines go to stderr.
- *HTTP.* `Parse` consumes the request line and headers before it knows that the
  request is complete; the next call starts in the middle and throws, nobody
  catches, the process ends (`split` in `AnswersInOrder`; `http_parser.cc:27-28`
  speaks of incremental parsing). Static routes leave pipelined requests in the
  buffer (`left` in `NothingWaits`) and do not consume a body. A request after
  `Connection: close` is answered on a shut socket.
- *WebSocket and push.* `subs_` of the push servers and the connection tables are
  used by the base loop and an IO loop without a lock even in the default
  configuration (`stock_push_server.cc:10`, `tcp_server.h:63`). A Shutdown acts
  at once while updates are queued, so a later write can end the process. The
  close frame for an unsupported opcode leaves the session open. A repeated id in
  SUBSCRIBE gives repeated updates to a TCP client, not to a web client. A web
  client may get an update right after the acknowledgement of an unsubscription.
  SUBSCRIBE does not renew the heartbeat. The handshake of a web client that
  arrives in two segments is refused. The stock page numbers codes by its own
  first use (`stock_push_server.cc:203-205`), the server by first update
  (766-775): a page that does not ask for all codes in that order subscribes to
  others.
- *Clients.* `examples/echo_perf_client.cc:299` decrements `active` for a
  connection not counted yet, and waits for ever for a reply that does not come.

## 5. Proofs

All proofs hold for every value of the constants, under the named assumptions
`ThreadsAssumption` (the loop thread is not one of the others),
`ConstantsAssumption` (positive buffer and message sizes), `WheelAssumption`
(a wheel with at least one slot of at least one millisecond), `RingAssumption`
(bounds are numbers, at least one generation fits), `ServerAssumption` (at least
one loop, the base thread is none of them, descriptors are numbers),
`WorkAssumption` (a pool has a worker) and `EchoAssumption` (which tasks are
posted, and by whom), `BufferAssumption` and `HttpAssumption` (sizes are numbers, the
kinds of requests) and `LogAssumption` (a ring of at least two cells; threads, lines,
the log thread and "no line" are told apart); TLC evaluates them in every run.

*EventLoopProofs.* `NoLostWakeup` is not inductive: it speaks of a sleeping
loop, and what guarantees it happens long before. `IInv` adds that a set
`wakeup_pending_` is backed (the eventfd is readable, or the clear is still to
come, or some thread has its write ahead: `FlagIsBacked`); that a task queued
after `CheckPending` saw the queue empty has set the flag or is about to
(`LateTaskIsSignalled`); and the same for a `Quit` after the `while` test
(`LateQuitIsSignalled`). `BatchIsClosed` (the swapped-out batch is empty outside
`DoPendingTasks`) is what the refinement needs: the abstract queue is
`pending_buffer \o pending_tasks`, and `SwapPending` must leave it unchanged.
Theorems: `TypeCorrect`, `Invariance`, `NoWakeupIsLost`, `QuitWakesTheLoop`,
`ImplementsTaskQueue`.

*TcpConnectionProofs.* `IInv` joins `TypeOK`, `BacklogIsWatched`, `ClosedOnce`,
`ClosedIsQuiet` (without `~writing` the rest of a batch could bring a closed
channel back), `IntactUnlessBehind` and `NothingLost`. The byte-stream part rests
on lemmas about what each write moves from `output_` to `wire`: a prefix, so that
their concatenation stays the same. Theorems: `TypeCorrect`, `Invariance`,
`BacklogWatched`, `ClosesOnce`, `ClosedStaysOut`, `IntactWithoutBacklog`,
`NoByteIsLost`.

*TimerWheelProofs.* `IInv` joins `TypeOK`, `Placed` (each known timer in a slot,
no timer in two, unused ids nowhere), `ExpiryIsAhead`, `ExpiryIsDue` (the expiry
is never after the time the caller expects, and equal to it unless the timer is
stale), `PollIsShort` (as long as callbacks take no time a Poll starts at the
time of the last Tick and ends before the first expiry) and `NeverLate`.
Theorems: `TypeCorrect`, `Invariance`, `TimersArePlaced`, `NoWrap`,
`TimersAreOnTime`, `PromptTimersAreNotEarly`.

*EchoServerProofs.* `IInv` joins `TypeOK` and an invariant for each composed part.
`PoolInv`: a worker holds a task exactly while it runs it or keeps its closure
(`HoldsWhileBusy`), a task is in one place (`OnePlace`), the next message of a
connection is a new task (`NextIsNew`), the application's references are those of
the closures in the pool (`LentIsCounted`), and a worker that has gone left no
task behind that was posted in time (`GoneIsDrained`). `ServerInv` is about the tables: `TableIsTrue`
alone is not inductive, because the removal is a task that another loop may
queue, run in a later batch, and by then the descriptor number may belong to
somebody else. `TasksAreTrue` says of each queued or swapped-out task of the
server that it is on its connection's loop, that the connection is in the state
the task expects, and that there is no second one for it; `OneOwner` that a
descriptor belongs to one connection as long as anything refers to that.
Theorems: `TypeCorrect`, `TablesAreTrue`, `StopDrained`.

*IoUringPollerProofs.* `RegisteredIsPolled` follows a poll through four places,
and an id that has been reused could mistake another's completion for its own.
`IdsAreTrue` says that an id names one watcher and a new one is unknown to the
kernel, `GensAreTrue` that nothing in flight is of a generation to come, and
`RemovalsAreOld` that a removal or failed poll in flight names a generation
already left behind, as long as the watcher's descriptor is open.
`WatchersAreOpen` is what replaces a link between registration and life, which the
code does not have: a watcher that is not deleting belongs to a connection that is
up, or to one registered late. `DeletingIsLost` covers what is registered while
its watcher is deleting, and `ReadyIsDispatched` says that nothing is left to
dispatch when connections leave their table. From there on they may be freed at
any moment, so `DispatchedIsAlive` asks for more than a Channel that still
exists. Theorems: `TypeCorrect`, `RegisteredArePolled`, `DispatchedAreAlive`.

*HttpServerProofs.* A library of lemmas says of each operation of `Buffer` what it
does to the unread units: `Moved`, `Resized` and leaving the pool keep them,
`Store`, `AppendData` and `ReadFd` add the new ones behind them, `Retrieve` leaves a
suffix. `ParseFacts` bounds what the parser takes. `IInv` is `TypeOK`,
`HoldsStream` and that units belong to requests already sent (`StreamIsSent`).
The other two theorems need to know what the stream is: `Row` says that it is the
sent requests one behind the other, where each begins (`at`) and which unit of a
request stands where (`KindAt`). It survives a new request (`RowGrow`), so the
positions exist although they are defined by no recursion. `HeadEnds` is the key:
a header and the first blank line behind it belong to the same request. From it
follows that what a Parse that wants more leaves behind the lines it consumed is
units of a body only (`RestHasNoLine`), so that the next Parse of the same units
wants more as well: `NoRequestWaits`, also after the parser has lost its place.
`Aligned`, which holds until a request is split, says that the buffer begins where
the first unanswered request does and that the answers so far are the right ones;
`BoundaryParse` reads the whole request off such a buffer. `RequestsAreAnswered`
has the hypothesis `GetsHaveNoBody`: the routes of `GET` consume no body
(`http_server.cc:61-77`), so one that a client sent with it would stay in the buffer
in front of the next request line, whose method the parser would not know. TLC
shows this at once with a static request of two body units; `MCRequest` has none.
Theorems: `TypeCorrect`, `BufferHoldsStream`, `NoRequestWaits`,
`RequestsAreAnswered`.

*LogBackendProofs.* `RingInv` is what the sequence numbers of `MpmcQueue` mean. The
places from `dequeue_pos_` to `enqueue_pos_` are filled, or free and claimed by
exactly one thread (`RingIsTrue`, `ClaimsAreTrue`); the cells behind them are
free, counted from `Low`, which stays behind by one while the log thread has moved
`dequeue_pos_` and not yet given the cell back. `SightsAreTrue` is the heart: a
thread that saw its cell free may compare and swap much later, after others have
gone round, and if it still succeeds the ring has room. `SameSlot`, `NextSlot` and
`CellWrite` are the arithmetic of places modulo `Cells`. From `RingInv` each step
is shown to be one of `LineQueue`, or to leave its places alone
(`QueueImplementsFifo`). `LinesInv` then speaks of the places only, not of cells:
`LinesAreOld` (what is queued, held or written is older than its thread's next
line, so a new one is nowhere yet), `QueueIsOrdered` (a thread's claim is behind
its lines), `TakenIsOlder` (what was taken is older than what is queued) and
`RestIsBlind` (the log thread rests or leaves with nothing but blind lines
queued). Theorems: `RingHolds`, `QueueImplementsFifo`, `NoLineLost`,
`StopLosesFew`.

*PushServerProofs.* The lists of the index are sequences that steps filter, prune
and extend, so the proof begins with what `Keep` and `Times` do to a sequence.
Both are recursive functions over positions; their facts are proved with induction
over a set (`SetInduction`, from well-foundedness of the numbers) and over
sequences that grow at the end (`SequenceInduction`). `IndexIsTrue` is inductive
only together with what ties it to the rest: a removal is queued only for a
connection that has closed (`Loops`), a connection that is not up yet has asked
for nothing, and the session's list in the traffic server, by which
`UpdateSubscriptions` finds what to remove, is what the client last asked for
(`TcpIndex`, `WebIndex`). `StreamMakesSense` needs the contents of all queues on
the way. `Batch` says that the queue of the base loop holds the last updates
made, so that the one it is at has the number `Now`. `TasksInOrder` and
`HeardInOrder` order what a client was written before what is queued on its loop,
and that before `Now`. `Told` is the other half: whatever may still reach a web
client - an entry of its subscription, a target collected by `PublishTo`, a queued
send - is `Covered`: the client hears nothing more (`Deaf`: shut down, closed or
removed; a request read after the close still updates the index), or has the acknowledgement, or its
loop owes it one and runs no task before it pays (`OwedInside`). Assumptions:
`ClientAssumption` (the kinds of clients are disjoint), `IdAssumption` and
`PushAssumption` (ids are `1..n` with n > 0, a tick makes at least one update, lists
are lists of numbers). Theorems: `IndexStaysTrue`, `StreamsMakeSense`.

Only model-checked: everything under fairness (`QueuedTasksRun`, `QuitEndsLoop`,
`ArmedTimersFire`, `BacklogDrains`, `EventsDelivered`, `WatchersReclaimed`,
`StopReturns`, `PostedIsEchoed`, `DescriptorsReturn`, `SilentIsCut`), because
liveness is beyond the prover; and the four violated properties. Every invariant and
every action property that a passing run checks is stated by a theorem.

## 6. Not modelled

Formatting, command lines, levels and texts of log lines, SHA-1, base64, JSON,
masking, CPU affinity and socket options, the text of HTTP responses and the
cache of static files: no property depends on them. `Socket` and `InetAddress`
are wrappers of system calls; their effect is in the environment actions.
`EpollPoller` is modelled as what its callers see (interest set, level-triggered
readiness); its fall-backs between Add and Mod and the growth of its event array
are not. `SetHeartbeatInterval` and timer callbacks that call back into the wheel
(they would lock `mu_` twice; nothing in the repository installs one).
Destructors of the thread pools: no program of the repository runs them while
loops run. Exceptions thrown by user callbacks. Data races: undefined behaviour
has no model; each racing access is one step here. Clients, benchmarks and the
web page are programs at the other end of the wire: what they can send is an
action of the environment.

## 7. What could come next

A byte-level `EpollPoller` (Add against Mod after ENOENT and EEXIST); the
destructors of `EventLoopThread` and `IoThreadPool` against a running loop, once a
program uses them; `echo_perf_client.cc` as the peer of `EchoServer`.
