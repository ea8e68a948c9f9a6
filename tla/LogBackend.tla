----------------------------- MODULE LogBackend -----------------------------
(***************************************************************************)
(* The log backend (src/logging.cc): threads call Append, one log thread   *)
(* takes the lines from a queue and writes them, the main thread starts    *)
(* and stops it.  The queue is the bounded MpmcQueue, whose push is split  *)
(* at each of its atomic accesses, or the BlockingQueue.                   *)
(*                                                                         *)
(* A line is <<thread, number>>.  The usage is that of                     *)
(* examples/logging_bench.cc: InitLogging comes before the threads that    *)
(* log, and ShutdownLogging may come while they still do.                  *)
(***************************************************************************)
EXTENDS Naturals, Sequences, FiniteSets

CONSTANTS
  Thread,    \* threads that log
  Cells,     \* buffer_mask_ + 1
  MaxLine,   \* bound: lines per thread
  Nobody     \* no line

Lines == Thread \X (1..MaxLine)

\* With one cell a second push finds sequence = pos on the full cell and
\* overwrites it: RoundUpToPowerOf2 allows it, this model does not.
ASSUME LogAssumption ==
  /\ Cells \in Nat \ {0, 1} /\ MaxLine \in Nat
  /\ Thread \cap Lines = {} /\ "worker" \notin Thread /\ Nobody \notin Lines

VARIABLES
  queue_type,  \* config_.queue_type
  running,     \* running_
  file,        \* file_: "none", "log" or "stderr"
  cells,       \* buffer_: sequence and data
  enqueue_pos, dequeue_pos,
  deque,       \* BlockingQueue::queue_
  stopped,     \* BlockingQueue::stopped_
  pc, pos,     \* of the threads in Append
  number,      \* the line each thread logs next
  wpc,         \* the log thread: "off", "pop", "free", "empty", "write", "done"
  line,        \* the line the log thread holds
  mpc,         \* the main thread: "init", "up", "join", "close", "closed"
  written,     \* history: lines written, by whom
  before,      \* history: lines whose Append had returned when Stop began
  blind        \* history: lines the log thread's last pop did not see

mpmcVars == <<cells, enqueue_pos, dequeue_pos>>
blockingVars == <<deque, stopped>>
threadVars == <<pc, pos, number>>
workerVars == <<wpc, line>>
historyVars == <<written, before, blind>>
vars == <<queue_type, running, file, mpmcVars, blockingVars, threadVars,
          workerVars, mpc, historyVars>>

EmptyCells == [i \in 0..(Cells - 1) |-> [sequence |-> i, data |-> Nobody]]

Init ==
  /\ queue_type \in {"mpmc", "blocking"}
  /\ running = FALSE /\ file = "none"
  /\ cells = EmptyCells /\ enqueue_pos = 0 /\ dequeue_pos = 0
  /\ deque = << >> /\ stopped = FALSE
  /\ pc = [p \in Thread |-> "idle"] /\ pos = [p \in Thread |-> 0]
  /\ number = [p \in Thread |-> 1]
  /\ wpc = "off" /\ line = Nobody /\ mpc = "init"
  /\ written = << >> /\ before = {} /\ blind = {}

CellOf(i) == cells[i % Cells]

\* WriteSync: a line to the open file, or to stderr.
WriteSync(x, who) ==
  /\ file' = IF file = "none" THEN "stderr" ELSE file
  /\ written' = Append(written, [line |-> x, by |-> who])

-----------------------------------------------------------------------------
(* Append.                                                                 *)

Holding(p) == <<p, number[p]>>

Returns(p) == /\ pc' = [pc EXCEPT ![p] = "idle"]
              /\ number' = [number EXCEPT ![p] = @ + 1]

At(p, here) == pc[p] = here
Goto(p, there) == pc' = [pc EXCEPT ![p] = there]

\* running_ is read without the lock.
ReadRunning(p) ==
  /\ At(p, "idle") /\ number[p] <= MaxLine
  /\ Goto(p, IF ~running THEN "sync" ELSE IF queue_type = "mpmc" THEN "load" ELSE "put")
  /\ UNCHANGED <<queue_type, running, file, mpmcVars, blockingVars, pos, number,
                 workerVars, mpc, historyVars>>

\* BlockingQueue::push.
Put(p) ==
  /\ At(p, "put") /\ Returns(p)
  /\ deque' = Append(deque, Holding(p))
  /\ blind' = blind \cup {Holding(p)}
  /\ UNCHANGED <<queue_type, running, file, mpmcVars, stopped, pos, workerVars,
                 mpc, written, before>>

\* MpmcQueue::push reads enqueue_pos_, ...
LoadPos(p) ==
  /\ At(p, "load") /\ Goto(p, "look")
  /\ pos' = [pos EXCEPT ![p] = enqueue_pos]
  /\ UNCHANGED <<queue_type, running, file, mpmcVars, blockingVars, number,
                 workerVars, mpc, historyVars>>

\* Mutant of LookAtCell: a full cell is taken for a free one.
LookNotFull(p) ==
  /\ At(p, "look")
  /\ Goto(p, IF CellOf(pos[p]).sequence <= pos[p] THEN "claim" ELSE "load")
  /\ UNCHANGED <<queue_type, running, file, mpmcVars, blockingVars, pos, number,
                 workerVars, mpc, historyVars>>

\* ... compares the cell's sequence with it: free, full or overtaken, ...
LookAtCell(p) ==
  /\ At(p, "look")
  /\ LET seq == CellOf(pos[p]).sequence
     IN Goto(p, IF seq = pos[p] THEN "claim"
                ELSE IF seq < pos[p] THEN "sync" ELSE "load")
  /\ UNCHANGED <<queue_type, running, file, mpmcVars, blockingVars, pos, number,
                 workerVars, mpc, historyVars>>

\* Mutant of Claim: the compare-and-swap is a plain store.
ClaimBlindly(p) ==
  /\ At(p, "claim")
  /\ enqueue_pos' = pos[p] + 1 /\ Goto(p, "store") /\ UNCHANGED pos
  /\ UNCHANGED <<queue_type, running, file, cells, dequeue_pos, blockingVars,
                 number, workerVars, mpc, historyVars>>

\* ... claims the place by compare-and-swap, ...
Claim(p) ==
  /\ At(p, "claim")
  /\ IF enqueue_pos = pos[p]
     THEN enqueue_pos' = enqueue_pos + 1 /\ Goto(p, "store") /\ UNCHANGED pos
     ELSE pos' = [pos EXCEPT ![p] = enqueue_pos] /\ Goto(p, "look") /\ UNCHANGED enqueue_pos
  /\ UNCHANGED <<queue_type, running, file, cells, dequeue_pos, blockingVars,
                 number, workerVars, mpc, historyVars>>

\* ... and stores the line and the sequence that publishes it.
Store(p) ==
  /\ At(p, "store") /\ Returns(p)
  /\ cells' = [cells EXCEPT ![pos[p] % Cells] =
                 [sequence |-> pos[p] + 1, data |-> Holding(p)]]
  /\ blind' = blind \cup {Holding(p)}
  /\ UNCHANGED <<queue_type, running, file, enqueue_pos, dequeue_pos, blockingVars,
                 pos, workerVars, mpc, written, before>>

\* The caller writes the line itself: not running, or the queue was full.
WriteByCaller(p) ==
  /\ At(p, "sync") /\ Returns(p)
  /\ WriteSync(Holding(p), p)
  /\ UNCHANGED <<queue_type, running, mpmcVars, blockingVars, pos, workerVars, mpc,
                 before, blind>>

-----------------------------------------------------------------------------
(* ThreadFunc.                                                             *)

Queued == {deque[i] : i \in DOMAIN deque} \cup
          {CellOf(i).data : i \in {j \in dequeue_pos..(enqueue_pos - 1) :
                                     CellOf(j).sequence = j + 1}}

\* BlockingQueue::pop waits for a line or for stop.
PopBlocking ==
  /\ wpc = "pop" /\ queue_type = "blocking"
  /\ \/ /\ deque # << >>
        /\ deque' = Tail(deque) /\ line' = Head(deque) /\ wpc' = "write"
     \/ /\ deque = << >> /\ stopped
        /\ wpc' = "done" /\ UNCHANGED <<deque, line>>
  /\ blind' = {}
  /\ UNCHANGED <<queue_type, running, file, mpmcVars, stopped, threadVars, mpc,
                 written, before>>

\* MpmcQueue::pop: its only caller always wins the compare-and-swap.
Pop ==
  /\ wpc = "pop" /\ queue_type = "mpmc"
  /\ LET cell == CellOf(dequeue_pos)
     IN \/ /\ cell.sequence = dequeue_pos + 1
           /\ dequeue_pos' = dequeue_pos + 1 /\ line' = cell.data /\ wpc' = "free"
           /\ blind' = {}
        \/ /\ cell.sequence < dequeue_pos + 1
           /\ wpc' = "empty" /\ UNCHANGED <<dequeue_pos, line>>
           /\ blind' = IF enqueue_pos = dequeue_pos THEN {} ELSE Queued
  /\ UNCHANGED <<queue_type, running, file, cells, enqueue_pos, blockingVars,
                 threadVars, mpc, written, before>>

\* The cell is free for the push one round later.
FreeCell ==
  /\ wpc = "free" /\ wpc' = "write"
  /\ cells' = [cells EXCEPT ![(dequeue_pos - 1) % Cells].sequence =
                 dequeue_pos - 1 + Cells]
  /\ UNCHANGED <<queue_type, running, file, enqueue_pos, dequeue_pos, blockingVars,
                 threadVars, line, mpc, historyVars>>

\* Nothing to pop: leave, or sleep, flush and try again.
Rest ==
  /\ wpc = "empty" /\ wpc' = IF running THEN "pop" ELSE "done"
  /\ UNCHANGED <<queue_type, running, file, mpmcVars, blockingVars, threadVars,
                 line, mpc, historyVars>>

\* Mutant of WriteByWorker: running_ is looked at after every line.
WriteAndLeave ==
  /\ wpc = "write" /\ wpc' = (IF running THEN "pop" ELSE "done") /\ line' = Nobody
  /\ WriteSync(line, "worker")
  /\ UNCHANGED <<queue_type, running, mpmcVars, blockingVars, threadVars, mpc,
                 before, blind>>

WriteByWorker ==
  /\ wpc = "write" /\ wpc' = "pop" /\ line' = Nobody
  /\ WriteSync(line, "worker")
  /\ UNCHANGED <<queue_type, running, mpmcVars, blockingVars, threadVars, mpc,
                 before, blind>>

-----------------------------------------------------------------------------
(* InitLogging and ShutdownLogging.                                        *)

\* Configure and Start: openOutput falls back to stderr.
Start ==
  /\ mpc = "init" /\ \A p \in Thread : At(p, "idle")
  /\ running' = TRUE /\ mpc' = "up" /\ wpc' = "pop"
  /\ file' \in {"log", "stderr"}
  /\ UNCHANGED <<queue_type, mpmcVars, blockingVars, threadVars, line, historyVars>>

\* Mutant of Stop: the blocking queue is not told.
StopSilently ==
  /\ mpc = "up" /\ mpc' = "join"
  /\ running' = FALSE
  /\ before' = {x \in Lines : x[2] < number[x[1]]}
  /\ UNCHANGED <<queue_type, file, mpmcVars, blockingVars, threadVars, workerVars,
                 written, blind>>

Stop ==
  /\ mpc = "up" /\ mpc' = "join"
  /\ running' = FALSE
  /\ stopped' = (queue_type = "blocking")
  /\ before' = {x \in Lines : x[2] < number[x[1]]}
  /\ UNCHANGED <<queue_type, file, mpmcVars, deque, threadVars, workerVars,
                 written, blind>>

Join ==
  /\ mpc = "join" /\ wpc = "done" /\ mpc' = "close"
  /\ UNCHANGED <<queue_type, running, file, mpmcVars, blockingVars, threadVars,
                 workerVars, historyVars>>

FlushAndClose ==
  /\ mpc = "close" /\ mpc' = "closed" /\ file' = "none"
  /\ UNCHANGED <<queue_type, running, mpmcVars, blockingVars, threadVars,
                 workerVars, historyVars>>

-----------------------------------------------------------------------------
LogThread == PopBlocking \/ Pop \/ FreeCell \/ Rest \/ WriteByWorker

Next == \/ \E p \in Thread : \/ ReadRunning(p) \/ Put(p) \/ LoadPos(p)
                             \/ LookAtCell(p) \/ Claim(p) \/ Store(p)
                             \/ WriteByCaller(p)
        \/ LogThread
        \/ Start \/ Stop \/ Join \/ FlushAndClose

Spec == Init /\ [][Next]_vars

\* Only the log thread and the joining thread must go on.
FairSpec == Spec /\ WF_vars(LogThread) /\ WF_vars(Join) /\ WF_vars(FlushAndClose)

-----------------------------------------------------------------------------
\* The places of the queue: from dequeue_pos_ to enqueue_pos_, or the deque.
Claimant(i) == CHOOSE p \in Thread : At(p, "store") /\ pos[p] = i
Place(i) == IF CellOf(i).sequence = i + 1 THEN CellOf(i).data ELSE Claimant(i)

Places == IF queue_type = "blocking" THEN deque
          ELSE [i \in 1..(enqueue_pos - dequeue_pos) |-> Place(dequeue_pos + i - 1)]

LQ == INSTANCE LineQueue WITH Line <- Lines, Room <- Cells, queue <- Places, hand <- line

(* MpmcQueue with its sequence numbers (lines 147-196) and BlockingQueue    *)
(* (lines 100-117) are first-in first-out queues: no line is overwritten,  *)
(* taken twice or taken before it is stored, whatever the interleaving of  *)
(* the atomic accesses.                                                    *)
QueueIsFifo == LQ!Spec

WrittenLines == {written[i].line : i \in DOMAIN written}

(* A line whose Append has returned is in exactly one place: written once,  *)
(* held by the log thread, or queued; and what the log thread writes of one *)
(* thread keeps that thread's order (Append, 259-280; ThreadFunc, 286-306).  *)
LinesAccounted ==
  /\ \A i, j \in DOMAIN written : i < j =>
       LET x == written[i].line
           y == written[j].line
       IN /\ x # y
          /\ written[i].by = "worker" /\ written[j].by = "worker" /\ x[1] = y[1]
               => x[2] < y[2]
  /\ WrittenLines \cap (Queued \cup {line}) = {} /\ line \notin Queued
  /\ \A p \in Thread : \A n \in 1..(number[p] - 1) :
       <<p, n>> \in WrittenLines \cup Queued \cup {line}

(* When ShutdownLogging returns, the lines whose Append had returned before *)
(* it are written, but for those stored since the log thread's last pop, or *)
(* behind a place claimed and not stored at that pop: it leaves on running_ *)
(* without looking again (lines 293-295).                                  *)
StopLosesOnlyBlind ==
  mpc = "closed" => before \subseteq WrittenLines \cup blind

(* Stop returns, whatever the logging threads do meanwhile (243-256).       *)
StopReturns == mpc = "join" ~> mpc = "closed"
=============================================================================
