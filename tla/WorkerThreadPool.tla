-------------------------- MODULE WorkerThreadPool --------------------------
(***************************************************************************)
(* netx::WorkerThreadPool (src/worker_thread_pool.cc): a queue under mu_,  *)
(* workers that sleep on cv_, Post from any thread and Stop by the owner.  *)
(*                                                                         *)
(* A step is one critical section of mu_, one notification, or one task.   *)
(* cv_ is the set of workers whose pc is "wait": notify_one wakes any one  *)
(* of them, notify_all all, and a wait may end by itself.  What a task     *)
(* does is left to the module that extends this one (RunTask says only     *)
(* that the worker is done with it); `keeping` marks a worker whose task   *)
(* has run and whose closure is not destroyed yet.  Start, which creates   *)
(* the threads before anything is posted, is the initial state.            *)
(***************************************************************************)
EXTENDS Naturals, Sequences, FiniteSets

CONSTANTS
  Worker,    \* the threads of workers_; a pool is made with at least one
  Poster,    \* the threads that call Post
  Work,      \* the tasks that may be posted, each once
  NoWork

ASSUME WorkAssumption == NoWork \notin Work /\ Worker # {}

VARIABLES
  q,         \* q_, guarded by mu_
  stopping,  \* stopping_, guarded by mu_
  worker,    \* worker -> where it is in Worker()
  task,      \* worker -> the task it holds
  posting,   \* posters between the unlock of Post and notify_one
  stop,      \* how far the owner is in Stop
  in_time    \* history: tasks posted before stopping_ was set

poolVars == <<q, stopping, worker, task, posting, stop, in_time>>

PoolInit ==
  /\ q = << >> /\ stopping = FALSE
  /\ worker = [w \in Worker |-> "check"]
  /\ task = [w \in Worker |-> NoWork]
  /\ posting = {} /\ stop = "running" /\ in_time = {}

-----------------------------------------------------------------------------
(* Post, lines 60-66.                                                      *)

Post(p, t) ==
  /\ p \notin posting
  /\ q' = Append(q, t)
  /\ posting' = posting \cup {p}
  /\ in_time' = IF stopping THEN in_time ELSE in_time \cup {t}
  /\ UNCHANGED <<stopping, worker, task, stop>>

Sleeping == {w \in Worker : worker[w] = "wait"}

\* Mutant of Notify: nobody is told.
NotifyNobody(p) ==
  /\ p \in posting
  /\ posting' = posting \ {p}
  /\ UNCHANGED <<q, stopping, worker, task, stop, in_time>>

Notify(p) ==
  /\ p \in posting
  /\ posting' = posting \ {p}
  /\ \/ Sleeping = {} /\ UNCHANGED worker
     \/ \E w \in Sleeping : worker' = [worker EXCEPT ![w] = "check"]
  /\ UNCHANGED <<q, stopping, task, stop, in_time>>

-----------------------------------------------------------------------------
(* Worker, lines 69-81.                                                    *)

\* The predicate of cv_.wait is false: sleep.
Sleep(w) ==
  /\ worker[w] = "check" /\ ~stopping /\ q = << >>
  /\ worker' = [worker EXCEPT ![w] = "wait"]
  /\ UNCHANGED <<q, stopping, task, posting, stop, in_time>>

SpuriousWakeup(w) ==
  /\ worker[w] = "wait"
  /\ worker' = [worker EXCEPT ![w] = "check"]
  /\ UNCHANGED <<q, stopping, task, posting, stop, in_time>>

Take(w) ==
  /\ worker[w] = "check" /\ q # << >>
  /\ task' = [task EXCEPT ![w] = Head(q)]
  /\ q' = Tail(q)
  /\ worker' = [worker EXCEPT ![w] = "run"]
  /\ UNCHANGED <<stopping, posting, stop, in_time>>

RunTask(w) ==
  /\ worker[w] = "run"
  /\ worker' = [worker EXCEPT ![w] = "keeping"]
  /\ UNCHANGED <<q, stopping, task, posting, stop, in_time>>

\* The end of the loop body destroys the closure.
DropTask(w) ==
  /\ worker[w] = "keeping"
  /\ task' = [task EXCEPT ![w] = NoWork]
  /\ worker' = [worker EXCEPT ![w] = "check"]
  /\ UNCHANGED <<q, stopping, posting, stop, in_time>>

\* Mutant of Leave: the flag alone ends the loop.
LeaveAtOnce(w) ==
  /\ worker[w] = "check" /\ stopping
  /\ worker' = [worker EXCEPT ![w] = "gone"]
  /\ UNCHANGED <<q, stopping, task, posting, stop, in_time>>

Leave(w) ==
  /\ worker[w] = "check" /\ stopping /\ q = << >>
  /\ worker' = [worker EXCEPT ![w] = "gone"]
  /\ UNCHANGED <<q, stopping, task, posting, stop, in_time>>

-----------------------------------------------------------------------------
(* Stop, lines 49-57.                                                      *)

StopSet ==
  /\ stop = "running"
  /\ stopping' = TRUE /\ stop' = "notify"
  /\ UNCHANGED <<q, worker, task, posting, in_time>>

StopNotify ==
  /\ stop = "notify"
  /\ worker' = [w \in Worker |-> IF w \in Sleeping THEN "check" ELSE worker[w]]
  /\ stop' = "join"
  /\ UNCHANGED <<q, stopping, task, posting, in_time>>

StopJoin ==
  /\ stop = "join" /\ \A w \in Worker : worker[w] = "gone"
  /\ stop' = "joined"
  /\ UNCHANGED <<q, stopping, worker, task, posting, in_time>>

-----------------------------------------------------------------------------
PoolTypeOK ==
  /\ q \in Seq(Work) /\ stopping \in BOOLEAN
  /\ worker \in [Worker -> {"check", "wait", "run", "keeping", "gone"}]
  /\ task \in [Worker -> Work \cup {NoWork}]
  /\ posting \subseteq Poster
  /\ stop \in {"running", "notify", "join", "joined"}
  /\ in_time \subseteq Work

Queued == {q[i] : i \in 1..Len(q)}

(***************************************************************************)
(* "只有"关闭 + 队列空"才退出" (worker_thread_pool.cc:75): when Stop        *)
(* returns, every task posted before it has run, however Post, the         *)
(* workers' waits and the two halves of Stop were interleaved.  Only tasks *)
(* posted after stopping_ was set can be left behind.                      *)
(***************************************************************************)
StopDrains ==
  stop = "joined" => in_time \cap Queued = {} /\ \A w \in Worker : task[w] = NoWork
=============================================================================
