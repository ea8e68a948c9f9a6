----------------------------- MODULE EventLoop -----------------------------
(***************************************************************************)
(* netx::EventLoop (src/event_loop.cc, include/netx/event_loop.h): the     *)
(* one-thread reactor, its cross-thread task queue and the eventfd that    *)
(* wakes a blocked Poll.                                                   *)
(*                                                                         *)
(* The loop thread is a program counter `pc` that walks through Loop(),    *)
(* HandleWakeup() and DoPendingTasks().  Every thread, the loop thread     *)
(* included, also has an `op`: how far it is in QueueInLoop or Quit.  A    *)
(* step is one critical section of pending_mu_, one atomic operation or    *)
(* one system call.  While `pc` is inside a callback ("io", "timer",       *)
(* "task") the loop thread may itself call QueueInLoop, RunInLoop,         *)
(* RunAfter and Quit, any number of times, before the callback returns.    *)
(*                                                                         *)
(* Abstractions.  A task is a model value that is handed over once.  The   *)
(* eventfd counter is only ever tested for being positive, so it is a      *)
(* Boolean.  Time is left to module TimerWheel: here a one-shot timer is   *)
(* armed, becomes due at some point, and is run by Tick.  quit_ is a plain *)
(* bool that other threads write; each iteration passes opaque calls, so   *)
(* the build rereads it, and a read returns the old or the new value.      *)
(* pending_buffer_ is represented by its part that has not been started.   *)
(***************************************************************************)
EXTENDS Sequences

CONSTANTS
  Loop,          \* the thread that runs Loop()
  Remote,        \* the other threads that hold the EventLoop pointer
  Tasks,         \* the tasks that may be handed over
  Timers         \* the one-shot timers that may be armed

ASSUME ThreadsAssumption == Loop \notin Remote

Threads == Remote \cup {Loop}

VARIABLES
  pending_tasks,    \* guarded by pending_mu_
  pending_buffer,   \* the swapped-out batch, without the tasks already started
  wakeup_pending,   \* the atomic that coalesces wakeups
  calling_pending,  \* only touched by the loop thread
  quit,
  eventfd,          \* is wakeup_fd_ readable?
  pc,               \* where the loop thread is
  timeout,          \* argument of Poll: "zero", "none" (block) or "timer"
  ready,            \* events of the current batch not dispatched yet
  op,               \* per thread: "idle", "notify" (before the CAS), "write"
  armed,            \* timers in the wheel
  due,              \* armed timers whose time has come
  fresh,            \* tasks not handed over yet
  ran               \* history: tasks started by the loop thread

taskVars  == <<pending_tasks, pending_buffer, fresh, ran>>
timerVars == <<armed, due>>
vars == <<pending_tasks, pending_buffer, wakeup_pending, calling_pending, quit,
          eventfd, pc, timeout, ready, op, armed, due, fresh, ran>>

Init ==
  /\ pending_tasks = << >> /\ pending_buffer = << >>
  /\ wakeup_pending = FALSE /\ calling_pending = FALSE
  /\ quit = FALSE /\ eventfd = FALSE
  /\ pc = "while" /\ timeout = "zero" /\ ready = {}
  /\ op = [t \in Threads |-> "idle"]
  /\ armed = {} /\ due = {}
  /\ fresh = Tasks /\ ran = << >>

-----------------------------------------------------------------------------
(* Calls other code makes into the loop.                                   *)

InCallback == pc \in {"io", "timer", "task"}

\* A thread may make a call: a remote one at any time, the loop thread only
\* from inside a callback it is running.
CanCall(p) == op[p] = "idle" /\ (p = Loop => InCallback)

\* Mutant of QueueInLoop: only a push from inside the batch wakes the loop.
QueueWithoutWakeup(p, t) ==
  /\ CanCall(p)
  /\ t \in fresh
  /\ fresh' = fresh \ {t}
  /\ pending_tasks' = Append(pending_tasks, t)
  /\ op' = [op EXCEPT ![p] = IF p = Loop /\ calling_pending
                             THEN "notify" ELSE "idle"]
  /\ UNCHANGED <<pending_buffer, wakeup_pending, calling_pending, quit,
                 eventfd, pc, timeout, ready, timerVars, ran>>

\* QueueInLoop, the critical section.  The loop thread needs no wakeup unless
\* it is running the batch, because DoPendingTasks is still ahead of it.
QueueInLoop(p, t) ==
  /\ CanCall(p)
  /\ t \in fresh
  /\ fresh' = fresh \ {t}
  /\ pending_tasks' = Append(pending_tasks, t)
  /\ op' = [op EXCEPT ![p] = IF p # Loop \/ calling_pending
                             THEN "notify" ELSE "idle"]
  /\ UNCHANGED <<pending_buffer, wakeup_pending, calling_pending, quit,
                 eventfd, pc, timeout, ready, timerVars, ran>>

\* compare_exchange_strong(false -> true); only the winner writes the eventfd.
TryNotify(p) ==
  /\ op[p] = "notify"
  /\ wakeup_pending' = TRUE
  /\ op' = [op EXCEPT ![p] = IF wakeup_pending THEN "idle" ELSE "write"]
  /\ UNCHANGED <<taskVars, calling_pending, quit, eventfd, pc, timeout, ready,
                 timerVars>>

Wakeup(p) ==
  /\ op[p] = "write"
  /\ eventfd' = TRUE
  /\ op' = [op EXCEPT ![p] = "idle"]
  /\ UNCHANGED <<taskVars, wakeup_pending, calling_pending, quit, pc, timeout,
                 ready, timerVars>>

\* Mutant of Quit: the Wakeup is forgotten.
QuitSilently(p) ==
  /\ CanCall(p)
  /\ quit' = TRUE
  /\ UNCHANGED <<taskVars, wakeup_pending, calling_pending, eventfd, pc,
                 timeout, ready, op, timerVars>>

\* Quit: quit_ = true, then an unconditional Wakeup.
Quit(p) ==
  /\ CanCall(p)
  /\ quit' = TRUE
  /\ op' = [op EXCEPT ![p] = "write"]
  /\ UNCHANGED <<taskVars, wakeup_pending, calling_pending, eventfd, pc,
                 timeout, ready, timerVars>>

\* RunInLoop on the loop thread: the task runs inside the current callback.
\* On any other thread RunInLoop is QueueInLoop.
RunInLoop(t) ==
  /\ CanCall(Loop)
  /\ t \in fresh
  /\ fresh' = fresh \ {t}
  /\ ran' = Append(ran, t)
  /\ UNCHANGED <<pending_tasks, pending_buffer, wakeup_pending,
                 calling_pending, quit, eventfd, pc, timeout, ready, op,
                 timerVars>>

\* RunAfter.  Tick holds the wheel's mutex while it runs callbacks: a remote
\* caller waits until it is over, a timer callback must not call at all.
RunAfter(p, x) ==
  /\ CanCall(p)
  /\ pc \notin {"timers", "timer"}
  /\ x \in Timers \ armed
  /\ armed' = armed \cup {x}
  /\ UNCHANGED <<taskVars, wakeup_pending, calling_pending, quit, eventfd, pc,
                 timeout, ready, op, due>>

\* Time passes.
BecomeDue(x) ==
  /\ x \in armed \ due
  /\ due' = due \cup {x}
  /\ UNCHANGED <<taskVars, wakeup_pending, calling_pending, quit, eventfd, pc,
                 timeout, ready, op, armed>>

-----------------------------------------------------------------------------
(* The loop thread.  A call it makes from a callback is finished before    *)
(* the callback goes on.                                                   *)

At(l) == pc = l /\ op[Loop] = "idle"

LoopWhile ==
  /\ At("while")
  /\ pc' = IF quit THEN "exited" ELSE "lock"
  /\ UNCHANGED <<taskVars, wakeup_pending, calling_pending, quit, eventfd,
                 timeout, ready, op, timerVars>>

\* empty = pending_tasks_.empty(), under pending_mu_.
CheckPending ==
  /\ At("lock")
  /\ timeout' = IF pending_tasks = << >> THEN "none" ELSE "zero"
  /\ pc' = "next"
  /\ UNCHANGED <<taskVars, wakeup_pending, calling_pending, quit, eventfd,
                 ready, op, timerVars>>

\* Mutant of CheckTimers: the poll timeout ignores the timers.
IgnoreTimers ==
  /\ At("next")
  /\ pc' = "poll"
  /\ UNCHANGED <<taskVars, wakeup_pending, calling_pending, quit, eventfd,
                 timeout, ready, op, timerVars>>

\* GetNextTimeout, asked only when the queue was seen empty.
CheckTimers ==
  /\ At("next")
  /\ timeout' = IF timeout = "none" /\ armed # {} THEN "timer" ELSE timeout
  /\ pc' = "poll"
  /\ UNCHANGED <<taskVars, wakeup_pending, calling_pending, quit, eventfd,
                 ready, op, timerVars>>

\* epoll_wait reports the events in b.  The eventfd is level triggered; it can
\* be missing from one batch when other descriptors fill the event array.
PollReturns(b) ==
  /\ At("poll")
  /\ "wakeup" \in b => eventfd
  /\ ready' = b
  /\ pc' = "dispatch"
  /\ UNCHANGED <<taskVars, wakeup_pending, calling_pending, quit, eventfd,
                 timeout, op, timerVars>>

PollWakeup  == PollReturns({"wakeup"}) \/ PollReturns({"wakeup", "io"})
PollIo      == PollReturns({"io"})
PollTimeout == timeout # "none" /\ PollReturns({})

\* HandleWakeup, first half: read the eventfd until it is drained.
DrainEventfd ==
  /\ At("dispatch") /\ "wakeup" \in ready
  /\ ready' = ready \ {"wakeup"}
  /\ eventfd' = FALSE
  /\ pc' = "wakeup"
  /\ UNCHANGED <<taskVars, wakeup_pending, calling_pending, quit, timeout, op,
                 timerVars>>

\* Mutant of ClearWakeupPending: the flag stays set after the drain.
KeepWakeupPending ==
  /\ At("wakeup")
  /\ pc' = "dispatch"
  /\ UNCHANGED <<taskVars, wakeup_pending, calling_pending, quit, eventfd,
                 timeout, ready, op, timerVars>>

\* HandleWakeup, second half: allow the next wakeup.
ClearWakeupPending ==
  /\ At("wakeup")
  /\ wakeup_pending' = FALSE
  /\ pc' = "dispatch"
  /\ UNCHANGED <<taskVars, calling_pending, quit, eventfd, timeout, ready, op,
                 timerVars>>

\* handle_event of some other channel: its callback begins.
HandleIo ==
  /\ At("dispatch") /\ "io" \in ready
  /\ ready' = ready \ {"io"}
  /\ pc' = "io"
  /\ UNCHANGED <<taskVars, wakeup_pending, calling_pending, quit, eventfd,
                 timeout, op, timerVars>>

BatchDone ==
  /\ At("dispatch") /\ ready = {}
  /\ pc' = "timers"
  /\ UNCHANGED <<taskVars, wakeup_pending, calling_pending, quit, eventfd,
                 timeout, ready, op, timerVars>>

\* Mutant of RunTimer: the fired timer is not erased from the wheel's slot.
RunTimerKeepDue(x) ==
  /\ At("timers") /\ x \in due
  /\ armed' = armed \ {x}
  /\ pc' = "timer"
  /\ UNCHANGED <<taskVars, wakeup_pending, calling_pending, quit, eventfd,
                 timeout, ready, op, due>>

\* ProcessTimers: run the timers that are due, one callback after the other.
RunTimer(x) ==
  /\ At("timers") /\ x \in due
  /\ due' = due \ {x} /\ armed' = armed \ {x}
  /\ pc' = "timer"
  /\ UNCHANGED <<taskVars, wakeup_pending, calling_pending, quit, eventfd,
                 timeout, ready, op>>

TimersDone ==
  /\ At("timers") /\ due = {}
  /\ pc' = "swap"
  /\ UNCHANGED <<taskVars, wakeup_pending, calling_pending, quit, eventfd,
                 timeout, ready, op, timerVars>>

\* Mutant of SwapPending: the batch is copied instead of swapped out.
CopyPending ==
  /\ At("swap")
  /\ pending_buffer' = pending_tasks
  /\ calling_pending' = (pending_tasks # << >>)
  /\ pc' = IF pending_tasks = << >> THEN "while" ELSE "batch"
  /\ UNCHANGED <<pending_tasks, wakeup_pending, quit, eventfd, timeout, ready,
                 op, timerVars, fresh, ran>>

\* DoPendingTasks: swap the queue out under the mutex, or return at once.
SwapPending ==
  /\ At("swap")
  /\ pending_buffer' = pending_tasks
  /\ pending_tasks' = pending_buffer
  /\ calling_pending' = (pending_tasks # << >>)
  /\ pc' = IF pending_tasks = << >> THEN "while" ELSE "batch"
  /\ UNCHANGED <<wakeup_pending, quit, eventfd, timeout, ready, op, timerVars,
                 fresh, ran>>

StartTask ==
  /\ At("batch") /\ pending_buffer # << >>
  /\ ran' = Append(ran, Head(pending_buffer))
  /\ pending_buffer' = Tail(pending_buffer)
  /\ pc' = "task"
  /\ UNCHANGED <<pending_tasks, wakeup_pending, calling_pending, quit, eventfd,
                 timeout, ready, op, timerVars, fresh>>

EndBatch ==
  /\ At("batch") /\ pending_buffer = << >>
  /\ calling_pending' = FALSE
  /\ pc' = "while"
  /\ UNCHANGED <<taskVars, wakeup_pending, quit, eventfd, timeout, ready, op,
                 timerVars>>

\* The callback the loop thread is in returns.
CallbackReturns ==
  /\ InCallback /\ op[Loop] = "idle"
  /\ pc' = CASE pc = "io" -> "dispatch" [] pc = "timer" -> "timers"
             [] pc = "task" -> "batch"
  /\ UNCHANGED <<taskVars, wakeup_pending, calling_pending, quit, eventfd,
                 timeout, ready, op, timerVars>>

-----------------------------------------------------------------------------
Call(p) == \/ \E t \in Tasks : QueueInLoop(p, t)
           \/ \E x \in Timers : RunAfter(p, x)
           \/ Quit(p)

FinishCall(p) == TryNotify(p) \/ Wakeup(p)

LoopStep == \/ LoopWhile \/ CheckPending \/ CheckTimers
            \/ PollWakeup \/ PollTimeout
            \/ DrainEventfd \/ ClearWakeupPending \/ HandleIo \/ BatchDone
            \/ (\E x \in Timers : RunTimer(x)) \/ TimersDone
            \/ SwapPending \/ StartTask \/ EndBatch \/ CallbackReturns

Next == \/ \E p \in Threads : Call(p) \/ FinishCall(p)
        \/ \E t \in Tasks : RunInLoop(t)
        \/ \E x \in Timers : BecomeDue(x)
        \/ PollIo
        \/ LoopStep

Spec == Init /\ [][Next]_vars

\* The operating system runs every thread, Poll returns when the eventfd is
\* readable or its timeout expires, and time passes.  Every callback returns
\* after finitely many calls into the loop: hence strong fairness, since each
\* call disables the return for a while.  Callers and other descriptors owe
\* nothing.
Fairness == /\ WF_vars(LoopStep)
            /\ SF_vars(CallbackReturns)
            /\ \A p \in Threads : WF_vars(FinishCall(p))
            /\ \A x \in Timers : WF_vars(BecomeDue(x))

FairSpec == Spec /\ Fairness

-----------------------------------------------------------------------------
TypeOK ==
  /\ pending_tasks \in Seq(Tasks) /\ pending_buffer \in Seq(Tasks)
  /\ wakeup_pending \in BOOLEAN /\ calling_pending \in BOOLEAN
  /\ quit \in BOOLEAN /\ eventfd \in BOOLEAN
  /\ pc \in {"while", "lock", "next", "poll", "dispatch", "wakeup", "io",
             "timers", "timer", "swap", "batch", "task", "exited"}
  /\ timeout \in {"zero", "none", "timer"}
  /\ ready \in SUBSET {"wakeup", "io"}
  /\ op \in [Threads -> {"idle", "notify", "write"}]
  /\ armed \in SUBSET Timers /\ due \in SUBSET armed
  /\ fresh \in SUBSET Tasks /\ ran \in Seq(Tasks)

NobodyCalling == \A p \in Threads : op[p] = "idle"
Sleeping == pc = "poll" /\ timeout # "zero"

(* A task never waits behind a sleeping loop: once every QueueInLoop has    *)
(* returned, a loop blocked in Poll (event_loop.cc:82) with tasks queued    *)
(* has a readable eventfd, whatever the two-step HandleWakeup and the       *)
(* coalesced wakeups of event_loop.cc:121-127 did in between.               *)
NoLostWakeup ==
  Sleeping /\ NobodyCalling /\ pending_tasks # << >> => eventfd

(* A loop that blocks in Poll after somebody called Quit is woken: the      *)
(* write of event_loop.cc:100 is never swallowed by an earlier drain.       *)
QuitIsNoticed == pc = "poll" /\ quit /\ NobodyCalling => eventfd

(* The inductive strengthening of the two.  A set wakeup_pending is backed  *)
(* by a readable eventfd, by a write on its way, or by the loop being       *)
(* between the two halves of HandleWakeup; from CheckPending to Poll a task *)
(* queued too late to be seen has wakeup_pending set or its CAS ahead; and  *)
(* a quit_ set after LoopWhile has its write ahead or done.                 *)
WriteAhead == \E p \in Threads : op[p] = "write"

FlagIsBacked == wakeup_pending => eventfd \/ pc = "wakeup" \/ WriteAhead

LateTaskIsSignalled ==
  pc \in {"next", "poll"} /\ timeout # "zero" /\ pending_tasks # << >>
    => wakeup_pending \/ \E p \in Threads : op[p] = "notify"

LateQuitIsSignalled ==
  pc \in {"lock", "next", "poll"} /\ quit => eventfd \/ WriteAhead

BatchIsClosed == pc \notin {"batch", "task"} => pending_buffer = << >>

IInv == /\ TypeOK
        /\ FlagIsBacked
        /\ LateTaskIsSignalled
        /\ LateQuitIsSignalled
        /\ BatchIsClosed

(* The queue is FIFO and runs each task at most once across the swap of     *)
(* event_loop.cc:175-190: the code implements TaskQueue.                    *)
Queue == INSTANCE TaskQueue WITH queue <- pending_buffer \o pending_tasks

Refinement == Queue!Spec

Queued(t) == t \in {pending_tasks[i] : i \in DOMAIN pending_tasks}
                    \cup {pending_buffer[i] : i \in DOMAIN pending_buffer}
Ran(t) == t \in {ran[i] : i \in DOMAIN ran}

(* Every queued task is eventually started, unless Quit was called.         *)
QueuedTasksRun == \A t \in Tasks : Queued(t) ~> (Ran(t) \/ quit)

(* Quit, from whatever thread and at whatever moment, ends Loop().          *)
QuitEndsLoop == quit ~> (pc = "exited")

(* A timer is run by the loop, unless it quits.  The exception is the one   *)
(* the code has: RunAfter (event_loop.cc:193-195) does not wake the loop,   *)
(* so a timer another thread arms while the loop is blocked in Poll without *)
(* a timeout waits until something else happens.                            *)
ArmedTimersFire ==
  \A x \in Timers :
    x \in armed /\ ~(pc = "poll" /\ timeout = "none")
      ~> (x \notin armed \/ quit)
=============================================================================
