-------------------------- MODULE LogBackendProofs --------------------------
(***************************************************************************)
(* The log backend for any number of threads, lines and cells: its queues  *)
(* are first-in first-out, no line is lost or repeated, and what a stop    *)
(* may lose is bounded.                                                    *)
(***************************************************************************)
EXTENDS LogBackend, SequenceTheorems, TLAPS

-----------------------------------------------------------------------------
(* The inductive invariant of the ring.                                    *)

TypeOK ==
  /\ queue_type \in {"mpmc", "blocking"} /\ running \in BOOLEAN
  /\ file \in {"none", "log", "stderr"}
  /\ cells \in [0..(Cells - 1) -> [sequence : Nat, data : Lines \cup {Nobody}]]
  /\ enqueue_pos \in Nat /\ dequeue_pos \in Nat
  /\ deque \in Seq(Lines) /\ stopped \in BOOLEAN
  /\ pc \in [Thread -> {"idle", "load", "look", "claim", "store", "put", "sync"}]
  /\ pos \in [Thread -> Nat] /\ number \in [Thread -> 1..(MaxLine + 1)]
  /\ wpc \in {"off", "pop", "free", "empty", "write", "done"}
  /\ line \in Lines \cup {Nobody}
  /\ mpc \in {"init", "up", "join", "close", "closed"}
  /\ written \in Seq([line : Lines, by : Thread \cup {"worker"}])
  /\ before \subseteq Lines /\ blind \subseteq Lines

\* The oldest cell the log thread has not given back.
Low == IF wpc = "free" THEN dequeue_pos - 1 ELSE dequeue_pos

\* The cell of place i is free, claimed or filled.
Free(i) == CellOf(i).sequence = i
Filled(i) == CellOf(i).sequence = i + 1

\* From Low, at most Cells places are in use; those before enqueue_pos_ are
\* filled or claimed, those after it are free.
RingIsTrue ==
  /\ wpc = "free" => dequeue_pos > 0 /\ Filled(Low)
  /\ dequeue_pos <= enqueue_pos /\ enqueue_pos <= Low + Cells
  /\ \A i \in enqueue_pos..(Low + Cells - 1) : Free(i)
  /\ \A i \in dequeue_pos..(enqueue_pos - 1) :
       \/ Filled(i) /\ CellOf(i).data \in Lines
       \/ Free(i) /\ \E p \in Thread : At(p, "store") /\ pos[p] = i

\* A thread between Claim and Store has a place of its own.
ClaimsAreTrue ==
  /\ \A p \in Thread : At(p, "store") =>
       pos[p] \in dequeue_pos..(enqueue_pos - 1) /\ Free(pos[p])
  /\ \A p, q \in Thread : At(p, "store") /\ At(q, "store") /\ pos[p] = pos[q] => p = q

\* A compare-and-swap that succeeds finds the place still free.
SightsAreTrue ==
  \A p \in Thread :
    /\ pc[p] \in {"look", "claim"} => pos[p] <= enqueue_pos
    /\ At(p, "claim") /\ pos[p] = enqueue_pos => enqueue_pos < Low + Cells

\* Each kind of queue is used alone, and hands and lines go together.
HandsAreTrue ==
  /\ queue_type = "blocking" => /\ enqueue_pos = 0 /\ dequeue_pos = 0
                                /\ \A p \in Thread : pc[p] \in {"idle", "put", "sync"}
                                /\ wpc \notin {"free", "empty"}
  /\ queue_type = "mpmc" => deque = << >> /\ \A p \in Thread : pc[p] # "put"
  /\ line # Nobody <=> wpc \in {"free", "write"}
  /\ mpc = "init" => wpc = "off"
  /\ \A p \in Thread : pc[p] # "idle" => number[p] <= MaxLine

RingInv == TypeOK /\ RingIsTrue /\ ClaimsAreTrue /\ SightsAreTrue /\ HandsAreTrue

-----------------------------------------------------------------------------
(* The invariant of the lines.                                             *)

\* A line that is somewhere is older than the line its thread logs next.
LinesAreOld ==
  \A x \in WrittenLines \cup Queued \cup ({line} \ {Nobody}) : x[2] < number[x[1]]

\* In the queue the lines of a thread are in order, its claim behind them.
QueueIsOrdered ==
  \A i, j \in 1..Len(Places) : i < j /\ Places[j] \in Lines =>
    /\ Places[i] \in Lines /\ Places[i][1] = Places[j][1] => Places[i][2] < Places[j][2]
    /\ Places[i] # Places[j][1]

\* What the log thread holds or has written is older than what is queued.
TakenIsOlder ==
  /\ \A y \in Queued : line # Nobody /\ line[1] = y[1] => line[2] < y[2]
  /\ \A i \in DOMAIN written, y \in Queued \cup ({line} \ {Nobody}) :
       written[i].by = "worker" /\ written[i].line[1] = y[1] => written[i].line[2] < y[2]

\* The log thread rests only when nothing but blind lines is queued.
RestIsBlind == wpc \in {"empty", "done"} => Queued \subseteq blind

BeforeIsOld == \A x \in before : x[2] < number[x[1]]

ClosedIsDone == mpc \in {"close", "closed"} => wpc = "done"

LinesInv == /\ LinesAccounted /\ LinesAreOld /\ QueueIsOrdered /\ TakenIsOlder
            /\ RestIsBlind /\ BeforeIsOld /\ ClosedIsDone

IInv == RingInv /\ LinesInv

-----------------------------------------------------------------------------
(* Places and cells.                                                       *)

LEMMA ModFacts ==
  ASSUME NEW i \in Nat
  PROVE  /\ i % Cells \in 0..(Cells - 1) /\ i \div Cells \in Nat
         /\ i = Cells * (i \div Cells) + (i % Cells)
BY LogAssumption

LEMMA SameSlot ==
  ASSUME NEW i \in Nat, NEW j \in Nat, i <= j, j < i + Cells, i % Cells = j % Cells
  PROVE  i = j
<1>1. PICK c \in Nat : c = Cells /\ c > 0
  BY LogAssumption
<1>2. PICK a \in Nat, b \in Nat, r \in Nat : i = c * a + r /\ j = c * b + r
  BY <1>1, ModFacts
<1>3. c * (b - a) = j - i
  BY <1>2
<1>4. CASE b > a
  <2>1. c * (b - a) >= c
    BY <1>1, <1>4
  <2> QED BY <1>1, <1>3, <2>1
<1>5. CASE b < a
  <2>1. c * (b - a) <= 0 - c
    BY <1>1, <1>5
  <2> QED BY <1>1, <1>3, <2>1
<1>6. CASE b = a
  BY <1>2, <1>6
<1> QED BY <1>4, <1>5, <1>6

LEMMA NextSlot ==
  ASSUME NEW i \in Nat
  PROVE  (i + Cells) % Cells = i % Cells
<1>1. PICK c \in Nat : c = Cells /\ c > 0
  BY LogAssumption
<1>2. PICK a \in Nat, r \in Nat : i = c * a + r /\ r = i % Cells /\ r < c
  BY <1>1, ModFacts
<1>3. PICK b \in Nat, s \in Nat : i + c = c * b + s /\ s = (i + Cells) % Cells /\ s < c
  <2>1. i + Cells \in Nat
    BY LogAssumption
  <2> QED BY <1>1, <2>1, ModFacts
<1>4. c * (b - (a + 1)) = r - s
  BY <1>2, <1>3
<1>5. CASE b > a + 1
  <2>1. c * (b - (a + 1)) >= c
    BY <1>1, <1>5
  <2> QED BY <1>2, <1>3, <1>4, <2>1
<1>6. CASE b < a + 1
  <2>1. c * (b - (a + 1)) <= 0 - c
    BY <1>1, <1>6
  <2> QED BY <1>2, <1>3, <1>4, <2>1
<1>7. CASE b = a + 1
  <2>1. b - (a + 1) = 0
    BY <1>7
  <2>2. c * 0 = r - s
    BY <1>4, <2>1
  <2>3. r = s
    BY <2>2
  <2> QED BY <1>2, <1>3, <2>3
<1> QED BY <1>5, <1>6, <1>7

Cell == [sequence : Nat, data : Lines \cup {Nobody}]

LEMMA CellType ==
  ASSUME TypeOK, NEW i \in Nat
  PROVE  CellOf(i) \in Cell /\ CellOf(i).sequence \in Nat
<1>1. i % Cells \in 0..(Cells - 1)
  BY ModFacts
<1> QED BY <1>1 DEF TypeOK, CellOf, Cell

\* Writing the cell of place k leaves the other places of the round alone.
LEMMA CellWrite ==
  ASSUME TypeOK, NEW k \in Nat, NEW x, cells' = [cells EXCEPT ![k % Cells] = x],
         NEW i \in Nat, i < k + Cells, k < i + Cells
  PROVE  CellOf(i)' = IF i = k THEN x ELSE CellOf(i)
<1>1. PICK a \in 0..(Cells - 1), b \in 0..(Cells - 1) : a = i % Cells /\ b = k % Cells
  BY ModFacts
<1>2. a = b => i = k
  <2>1. i <= k \/ k <= i
    OBVIOUS
  <2> QED BY <1>1, <2>1, SameSlot
<1>3. DOMAIN cells = 0..(Cells - 1)
  BY DEF TypeOK
<1>4. cells' = [cells EXCEPT ![b] = x]
  BY <1>1
<1>5. CellOf(i)' = cells'[a] /\ CellOf(i) = cells[a]
  BY <1>1 DEF CellOf
<1>6. CASE i = k
  BY <1>1, <1>3, <1>4, <1>5, <1>6
<1>7. CASE i # k
  BY <1>1, <1>2, <1>3, <1>4, <1>5, <1>7
<1> QED BY <1>6, <1>7

-----------------------------------------------------------------------------
(* Types.                                                                  *)

LEMMA HoldingIsLine ==
  ASSUME RingInv, NEW p \in Thread, pc[p] # "idle"
  PROVE  Holding(p) \in Lines
<1>1. number[p] \in 1..(MaxLine + 1) /\ number[p] <= MaxLine
  BY DEF RingInv, TypeOK, HandsAreTrue
<1>2. number[p] \in 1..MaxLine
  BY <1>1, LogAssumption
<1> QED BY <1>2 DEF Holding, Lines

LEMMA ReturnsFacts ==
  ASSUME RingInv, NEW p \in Thread, pc[p] # "idle", Returns(p)
  PROVE  /\ pc' \in [Thread -> {"idle", "load", "look", "claim", "store", "put", "sync"}]
         /\ number' \in [Thread -> 1..(MaxLine + 1)]
         /\ pc'[p] = "idle" /\ number'[p] = number[p] + 1
         /\ \A q \in Thread \ {p} : pc'[q] = pc[q] /\ number'[q] = number[q]
<1>1. number[p] \in 1..(MaxLine + 1) /\ number[p] <= MaxLine
  BY DEF RingInv, TypeOK, HandsAreTrue
<1>2. number[p] + 1 \in 1..(MaxLine + 1)
  BY <1>1, LogAssumption
<1> QED BY <1>2 DEF Returns, RingInv, TypeOK

LEMMA WriteSyncType ==
  ASSUME TypeOK, NEW x \in Lines, NEW who \in Thread \cup {"worker"}, WriteSync(x, who)
  PROVE  /\ file' \in {"none", "log", "stderr"}
         /\ written' \in Seq([line : Lines, by : Thread \cup {"worker"}])
<1>1. PICK w \in Seq([line : Lines, by : Thread \cup {"worker"}]) : w = written
  BY DEF TypeOK
<1>2. PICK e \in [line : Lines, by : Thread \cup {"worker"}] : e = [line |-> x, by |-> who]
  OBVIOUS
<1>3. written' = Append(w, e)
  BY <1>1, <1>2 DEF WriteSync
<1>4. written' \in Seq([line : Lines, by : Thread \cup {"worker"}])
  BY <1>3, AppendProperties
<1>5. file' \in {"none", "log", "stderr"}
  BY DEF WriteSync, TypeOK
<1> QED BY <1>4, <1>5

LEMMA InitRing == Init => RingInv
<1> SUFFICES ASSUME Init PROVE RingInv
  OBVIOUS
<1>1. Cells \in Nat \ {0, 1} /\ MaxLine \in Nat /\ Nobody \notin Lines
  BY LogAssumption
<1>2. cells = EmptyCells /\ cells \in [0..(Cells - 1) -> [sequence : Nat, data : Lines \cup {Nobody}]]
  BY <1>1 DEF Init, EmptyCells
<1>3. TypeOK
  <2>1. running \in BOOLEAN /\ stopped \in BOOLEAN
    BY Zenon DEF Init
  <2>2. written \in Seq([line : Lines, by : Thread \cup {"worker"}]) /\ deque \in Seq(Lines)
    BY EmptySeq DEF Init
  <2>3. number \in [Thread -> 1..(MaxLine + 1)]
    BY <1>1 DEF Init
  <2>4. before \subseteq Lines /\ blind \subseteq Lines
    BY DEF Init
  <2>5. /\ queue_type \in {"mpmc", "blocking"} /\ file \in {"none", "log", "stderr"}
        /\ enqueue_pos \in Nat /\ dequeue_pos \in Nat
        /\ pc \in [Thread -> {"idle", "load", "look", "claim", "store", "put", "sync"}]
        /\ pos \in [Thread -> Nat]
        /\ wpc \in {"off", "pop", "free", "empty", "write", "done"}
        /\ line \in Lines \cup {Nobody}
        /\ mpc \in {"init", "up", "join", "close", "closed"}
    BY DEF Init
  <2> QED BY <1>2, <2>1, <2>2, <2>3, <2>4, <2>5, Zenon DEF TypeOK
<1>4. \A i \in 0..(Cells - 1) : Free(i)
  <2> SUFFICES ASSUME NEW i \in 0..(Cells - 1) PROVE Free(i)
    OBVIOUS
  <2>1. PICK j \in Nat, c \in Nat : j = i /\ c = Cells /\ c > 0 /\ j < c
    BY <1>1
  <2>2. i % Cells = i
    <3>1. i % Cells \in 0..(Cells - 1) /\ i \in Nat
      BY ModFacts
    <3>2. PICK m \in Nat : m = i % Cells /\ m < c
      BY <2>1, <3>1
    <3>3. PICK d \in Nat : i = c * d + m
      BY <2>1, <3>2, ModFacts
    <3>4. CASE d >= 1
      <4>1. c * d >= c
        BY <2>1, <3>4
      <4> QED BY <2>1, <3>3, <4>1
    <3>5. CASE d = 0
      BY <3>2, <3>3, <3>5
    <3> QED BY <3>4, <3>5
  <2> QED BY <1>2, <2>2 DEF Free, CellOf, EmptyCells
<1>5. RingIsTrue
  <2>1. Low = 0 /\ wpc # "free" /\ enqueue_pos = 0 /\ dequeue_pos = 0
    BY DEF Low, Init
  <2>2. 0 + Cells - 1 = Cells - 1 /\ 0 <= 0 + Cells
    BY <1>1
  <2>3. ASSUME NEW i \in 0..(0 - 1) PROVE FALSE
    OBVIOUS
  <2> QED BY <1>4, <2>1, <2>2, <2>3 DEF RingIsTrue
<1>6. ClaimsAreTrue /\ SightsAreTrue
  <2>1. \A p \in Thread : pc[p] = "idle"
    BY DEF Init
  <2> QED BY <2>1 DEF ClaimsAreTrue, SightsAreTrue, At
<1>7. HandsAreTrue
  BY DEF Init, HandsAreTrue
<1> QED BY <1>3, <1>5, <1>6, <1>7 DEF RingInv

LEMMA TypeStep ==
  ASSUME RingInv, Next
  PROVE  TypeOK'
<1> USE DEF mpmcVars, blockingVars, threadVars, workerVars, historyVars
<1> TypeOK
  BY DEF RingInv
<1>1. ASSUME NEW p \in Thread, ReadRunning(p) PROVE TypeOK'
  <2>1. PICK t \in {"sync", "load", "put"} : pc' = [pc EXCEPT ![p] = t]
    BY <1>1 DEF ReadRunning, Goto
  <2>2. pc' \in [Thread -> {"idle", "load", "look", "claim", "store", "put", "sync"}]
    BY <2>1 DEF TypeOK
  <2>3. UNCHANGED <<queue_type, running, file, cells, enqueue_pos, dequeue_pos, deque,
                    stopped, pos, number, wpc, line, mpc, written, before, blind>>
    BY <1>1 DEF ReadRunning
  <2> QED BY <2>2, <2>3 DEF TypeOK
<1>2. ASSUME NEW p \in Thread, Put(p) PROVE TypeOK'
  <2>1. Holding(p) \in Lines
    BY <1>2, HoldingIsLine DEF Put, At
  <2>2. /\ pc' \in [Thread -> {"idle", "load", "look", "claim", "store", "put", "sync"}]
        /\ number' \in [Thread -> 1..(MaxLine + 1)]
    BY <1>2, ReturnsFacts DEF Put, At
  <2>3. deque' \in Seq(Lines)
    <3>1. PICK d \in Seq(Lines), x \in Lines : d = deque /\ x = Holding(p)
      BY <2>1 DEF TypeOK
    <3>2. deque' = Append(d, x)
      BY <1>2, <3>1 DEF Put
    <3> QED BY <3>2, AppendProperties
  <2> QED BY <1>2, <2>1, <2>2, <2>3 DEF Put, TypeOK
<1>3. ASSUME NEW p \in Thread, LoadPos(p) PROVE TypeOK'
  BY <1>3 DEF LoadPos, TypeOK, At, Goto
<1>4. ASSUME NEW p \in Thread, LookAtCell(p) PROVE TypeOK'
  BY <1>4 DEF LookAtCell, TypeOK, At, Goto
<1>5. ASSUME NEW p \in Thread, Claim(p) PROVE TypeOK'
  <2>1. PICK t \in {"store", "look"} : pc' = [pc EXCEPT ![p] = t]
    BY <1>5 DEF Claim, Goto
  <2>2. pc' \in [Thread -> {"idle", "load", "look", "claim", "store", "put", "sync"}]
    BY <2>1 DEF TypeOK
  <2>3. enqueue_pos' \in Nat /\ pos' \in [Thread -> Nat]
    <3>1. \/ enqueue_pos' = enqueue_pos + 1 /\ pos' = pos
          \/ enqueue_pos' = enqueue_pos /\ pos' = [pos EXCEPT ![p] = enqueue_pos]
      BY <1>5 DEF Claim, Goto
    <3> QED BY <3>1 DEF TypeOK
  <2>4. UNCHANGED <<queue_type, running, file, cells, dequeue_pos, deque, stopped,
                    number, wpc, line, mpc, written, before, blind>>
    BY <1>5 DEF Claim
  <2> QED BY <2>2, <2>3, <2>4 DEF TypeOK
<1>6. ASSUME NEW p \in Thread, Store(p) PROVE TypeOK'
  <2>1. Holding(p) \in Lines
    BY <1>6, HoldingIsLine DEF Store, At
  <2>2. /\ pc' \in [Thread -> {"idle", "load", "look", "claim", "store", "put", "sync"}]
        /\ number' \in [Thread -> 1..(MaxLine + 1)]
    BY <1>6, ReturnsFacts DEF Store, At
  <2>3. cells' \in [0..(Cells - 1) -> [sequence : Nat, data : Lines \cup {Nobody}]]
    <3>1. PICK x \in [sequence : Nat, data : Lines \cup {Nobody}] :
            x = [sequence |-> pos[p] + 1, data |-> Holding(p)]
      <4>1. pos[p] + 1 \in Nat
        BY DEF TypeOK
      <4> QED BY <2>1, <4>1
    <3>2. cells' = [cells EXCEPT ![pos[p] % Cells] = x]
      BY <1>6, <3>1 DEF Store
    <3> QED BY <3>2 DEF TypeOK
  <2> QED BY <1>6, <2>1, <2>2, <2>3 DEF Store, TypeOK
<1>7. ASSUME NEW p \in Thread, WriteByCaller(p) PROVE TypeOK'
  <2>1. Holding(p) \in Lines
    BY <1>7, HoldingIsLine DEF WriteByCaller, At
  <2>2. /\ pc' \in [Thread -> {"idle", "load", "look", "claim", "store", "put", "sync"}]
        /\ number' \in [Thread -> 1..(MaxLine + 1)]
    BY <1>7, ReturnsFacts DEF WriteByCaller, At
  <2>3. /\ file' \in {"none", "log", "stderr"}
        /\ written' \in Seq([line : Lines, by : Thread \cup {"worker"}])
    BY <1>7, <2>1, WriteSyncType DEF WriteByCaller
  <2> QED BY <1>7, <2>2, <2>3 DEF WriteByCaller, TypeOK
<1>8. CASE PopBlocking
  <2>1. deque' \in Seq(Lines) /\ line' \in Lines \cup {Nobody}
    <3>1. PICK d \in Seq(Lines) : d = deque
      BY DEF TypeOK
    <3>2. CASE deque # << >> /\ deque' = Tail(deque) /\ line' = Head(deque)
      BY <3>1, <3>2, HeadTailProperties
    <3>3. CASE UNCHANGED <<deque, line>>
      BY <3>3 DEF TypeOK
    <3> QED BY <1>8, <3>2, <3>3 DEF PopBlocking
  <2>2. wpc' \in {"off", "pop", "free", "empty", "write", "done"} /\ blind' \subseteq Lines
    BY <1>8 DEF PopBlocking
  <2> QED BY <1>8, <2>1, <2>2 DEF PopBlocking, TypeOK
<1>9. CASE Pop
  <2>1. dequeue_pos' \in Nat
    BY <1>9 DEF Pop, TypeOK
  <2>2. line' \in Lines \cup {Nobody}
    <3>1. CellOf(dequeue_pos).data \in Lines \cup {Nobody}
      BY CellType DEF TypeOK, Cell
    <3> QED BY <1>9, <3>1 DEF Pop, TypeOK
  <2>3. blind' \subseteq Lines
    <3>1. CASE blind' = {}
      BY <3>1
    <3>2. CASE blind' = Queued /\ CellOf(dequeue_pos).sequence < dequeue_pos + 1
      <4>1. ASSUME NEW i \in dequeue_pos..(enqueue_pos - 1), CellOf(i).sequence = i + 1
            PROVE  CellOf(i).data \in Lines
        <5>1. i \in Nat /\ CellOf(i).sequence # i
          BY <4>1 DEF TypeOK
        <5> QED BY <4>1, <5>1 DEF RingInv, RingIsTrue, Free
      <4>2. \A i \in DOMAIN deque : deque[i] \in Lines
        BY ElementOfSeq, LenProperties DEF TypeOK
      <4> QED BY <3>2, <4>1, <4>2 DEF Queued
    <3> QED BY <1>9, <3>1, <3>2 DEF Pop
  <2>4. wpc' \in {"off", "pop", "free", "empty", "write", "done"}
    BY <1>9 DEF Pop
  <2> QED BY <1>9, <2>1, <2>2, <2>3, <2>4 DEF Pop, TypeOK
<1>10. CASE FreeCell
  <2>1. PICK k \in Nat : k = dequeue_pos - 1
    BY <1>10 DEF FreeCell, RingInv, RingIsTrue, TypeOK
  <2>2. PICK m \in 0..(Cells - 1) : m = k % Cells
    BY ModFacts
  <2>3. k + Cells \in Nat
    BY LogAssumption
  <2>4. cells' = [cells EXCEPT ![m].sequence = k + Cells]
    BY <1>10, <2>1, <2>2 DEF FreeCell
  <2>5. cells' \in [0..(Cells - 1) -> [sequence : Nat, data : Lines \cup {Nobody}]]
    BY <2>3, <2>4 DEF TypeOK
  <2> QED BY <1>10, <2>5 DEF FreeCell, TypeOK
<1>11. CASE Rest
  BY <1>11 DEF Rest, TypeOK
<1>12. CASE WriteByWorker
  <2>1. line \in Lines
    BY <1>12 DEF WriteByWorker, RingInv, HandsAreTrue, TypeOK
  <2>2. /\ file' \in {"none", "log", "stderr"}
        /\ written' \in Seq([line : Lines, by : Thread \cup {"worker"}])
    BY <1>12, <2>1, WriteSyncType DEF WriteByWorker
  <2> QED BY <1>12, <2>2 DEF WriteByWorker, TypeOK
<1>13. CASE Start
  BY <1>13 DEF Start, TypeOK
<1>14. CASE Stop
  <2>1. stopped' \in BOOLEAN
    BY <1>14, Zenon DEF Stop
  <2>2. running' \in BOOLEAN /\ before' \subseteq Lines
    BY <1>14 DEF Stop
  <2> QED BY <1>14, <2>1, <2>2 DEF Stop, TypeOK
<1>15. CASE Join
  BY <1>15 DEF Join, TypeOK
<1>16. CASE FlushAndClose
  BY <1>16 DEF FlushAndClose, TypeOK
<1> QED BY <1>1, <1>2, <1>3, <1>4, <1>5, <1>6, <1>7, <1>8, <1>9, <1>10, <1>11, <1>12,
           <1>13, <1>14, <1>15, <1>16 DEF Next, LogThread

-----------------------------------------------------------------------------
(* The ring.                                                               *)

LEMMA RingNumbers ==
  ASSUME RingInv
  PROVE  /\ Low \in Nat /\ Cells \in Nat /\ Cells >= 2
         /\ dequeue_pos \in Nat /\ enqueue_pos \in Nat
         /\ Low <= dequeue_pos /\ dequeue_pos <= Low + 1
         /\ dequeue_pos <= enqueue_pos /\ enqueue_pos <= Low + Cells
         /\ \A i \in dequeue_pos..(enqueue_pos - 1) : i \in Nat
         /\ \A i \in Low..(Low + Cells - 1) : i \in Nat
         /\ \A p \in Thread : pos[p] \in Nat
<1>1. Cells \in Nat /\ Cells >= 2
  BY LogAssumption
<1>2. dequeue_pos \in Nat /\ enqueue_pos \in Nat /\ \A p \in Thread : pos[p] \in Nat
  BY DEF RingInv, TypeOK
<1>3. Low \in Nat /\ Low <= dequeue_pos /\ dequeue_pos <= Low + 1
  BY <1>2 DEF RingInv, RingIsTrue, Low
<1>4. dequeue_pos <= enqueue_pos /\ enqueue_pos <= Low + Cells
  BY DEF RingInv, RingIsTrue
<1> QED BY <1>1, <1>2, <1>3, <1>4

\* Steps that leave the ring and the threads inside push alone.
LEMMA RingFrame ==
  ASSUME RingInv, UNCHANGED <<cells, enqueue_pos, dequeue_pos, pos>>,
         wpc' = "free" <=> wpc = "free",
         \A p \in Thread : /\ pc'[p] = "store" <=> pc[p] = "store"
                           /\ pc'[p] = "look" => pc[p] = "look"
                           /\ pc'[p] = "claim" => pc[p] = "claim"
  PROVE  RingIsTrue' /\ ClaimsAreTrue' /\ SightsAreTrue'
<1>1. Low' = Low /\ \A i : CellOf(i)' = CellOf(i)
  BY DEF Low, CellOf
<1>2. \A i : (Free(i)' <=> Free(i)) /\ (Filled(i)' <=> Filled(i))
  BY <1>1 DEF Free, Filled
<1>3. RingIsTrue'
  BY <1>1, <1>2 DEF RingInv, RingIsTrue, At
<1>4. ClaimsAreTrue'
  BY <1>2 DEF RingInv, ClaimsAreTrue, At
<1>5. SightsAreTrue'
  BY <1>1 DEF RingInv, SightsAreTrue, At
<1> QED BY <1>3, <1>4, <1>5

LEMMA LoadPosRing ==
  ASSUME RingInv, NEW p \in Thread, LoadPos(p)
  PROVE  RingIsTrue' /\ ClaimsAreTrue' /\ SightsAreTrue'
<1> USE DEF mpmcVars, blockingVars, threadVars, workerVars, historyVars
<1>1. /\ pc[p] = "load" /\ pc'[p] = "look" /\ pos'[p] = enqueue_pos
      /\ \A q \in Thread \ {p} : pc'[q] = pc[q] /\ pos'[q] = pos[q]
      /\ UNCHANGED <<cells, enqueue_pos, dequeue_pos, wpc>>
  BY DEF LoadPos, At, Goto, RingInv, TypeOK
<1>2. Low' = Low /\ \A i : CellOf(i)' = CellOf(i)
  BY <1>1 DEF Low, CellOf
<1>3. \A i : (Free(i)' <=> Free(i)) /\ (Filled(i)' <=> Filled(i))
  BY <1>2 DEF Free, Filled
<1>4. \A q \in Thread : /\ pc'[q] = "store" <=> pc[q] = "store"
                        /\ pc[q] = "store" => pos'[q] = pos[q]
  BY <1>1
<1>5. RingIsTrue'
  BY <1>1, <1>2, <1>3, <1>4 DEF RingInv, RingIsTrue, At
<1>6. ClaimsAreTrue'
  BY <1>1, <1>3, <1>4 DEF RingInv, ClaimsAreTrue, At
<1>7. SightsAreTrue'
  BY <1>1, <1>2, RingNumbers DEF RingInv, SightsAreTrue, At
<1> QED BY <1>5, <1>6, <1>7

LEMMA LookAtCellRing ==
  ASSUME RingInv, NEW p \in Thread, LookAtCell(p)
  PROVE  RingIsTrue' /\ ClaimsAreTrue' /\ SightsAreTrue'
<1> USE DEF mpmcVars, blockingVars, threadVars, workerVars, historyVars
<1>1. /\ pc[p] = "look" /\ pc'[p] \in {"claim", "sync", "load"}
      /\ pc'[p] = "claim" => Free(pos[p])
      /\ \A q \in Thread \ {p} : pc'[q] = pc[q]
      /\ UNCHANGED <<cells, enqueue_pos, dequeue_pos, wpc, pos>>
  BY DEF LookAtCell, At, Goto, Free, RingInv, TypeOK
<1>2. Low' = Low /\ \A i : CellOf(i)' = CellOf(i)
  BY <1>1 DEF Low, CellOf
<1>3. \A i : (Free(i)' <=> Free(i)) /\ (Filled(i)' <=> Filled(i))
  BY <1>2 DEF Free, Filled
<1>4. \A q \in Thread : pc'[q] = "store" <=> pc[q] = "store"
  BY <1>1
<1>5. RingIsTrue'
  BY <1>1, <1>2, <1>3, <1>4 DEF RingInv, RingIsTrue, At
<1>6. ClaimsAreTrue'
  BY <1>1, <1>3, <1>4 DEF RingInv, ClaimsAreTrue, At
<1>7. ASSUME Free(pos[p]), pos[p] = enqueue_pos PROVE enqueue_pos < Low + Cells
  <2>1. SUFFICES ASSUME enqueue_pos = Low + Cells PROVE FALSE
    BY RingNumbers
  <2>2. CellOf(Low + Cells) = CellOf(Low)
    BY RingNumbers, NextSlot DEF CellOf
  <2>3. CellOf(Low).sequence = Low + Cells
    BY <1>7, <2>1, <2>2 DEF Free
  <2>4. Filled(Low) \/ Free(Low)
    <3>1. CASE wpc = "free"
      BY <3>1 DEF RingInv, RingIsTrue
    <3>2. CASE wpc # "free"
      <4>1. Low = dequeue_pos /\ Low \in dequeue_pos..(enqueue_pos - 1)
        BY <2>1, <3>2, RingNumbers DEF Low
      <4> QED BY <4>1 DEF RingInv, RingIsTrue
    <3> QED BY <3>1, <3>2
  <2> QED BY <2>3, <2>4, RingNumbers DEF Filled, Free
<1>8. SightsAreTrue'
  <2>1. ASSUME NEW q \in Thread, pc'[q] \in {"look", "claim"}
        PROVE  pc[q] \in {"look", "claim"}
    BY <1>1, <2>1
  <2>2. ASSUME NEW q \in Thread, pc'[q] = "claim", pos[q] = enqueue_pos
        PROVE  enqueue_pos < Low + Cells
    <3>1. CASE q = p
      BY <1>1, <1>7, <2>2, <3>1
    <3>2. CASE q # p
      BY <1>1, <2>2, <3>2 DEF RingInv, SightsAreTrue, At
    <3> QED BY <3>1, <3>2
  <2> QED BY <1>1, <1>2, <2>1, <2>2 DEF RingInv, SightsAreTrue, At
<1> QED BY <1>5, <1>6, <1>8

\* The compare-and-swap of p succeeds.
Claims(p) == Claim(p) /\ enqueue_pos = pos[p]

LEMMA FailedClaimRing ==
  ASSUME RingInv, NEW p \in Thread, Claim(p), ~Claims(p)
  PROVE  RingIsTrue' /\ ClaimsAreTrue' /\ SightsAreTrue'
<1> USE DEF mpmcVars, blockingVars, threadVars, workerVars, historyVars
<1>1. /\ pc[p] = "claim" /\ pc'[p] = "look" /\ pos'[p] = enqueue_pos
      /\ \A q \in Thread \ {p} : pc'[q] = pc[q] /\ pos'[q] = pos[q]
      /\ UNCHANGED <<cells, enqueue_pos, dequeue_pos, wpc>>
  BY DEF Claim, Claims, At, Goto, RingInv, TypeOK
<1>2. Low' = Low /\ \A i : CellOf(i)' = CellOf(i)
  BY <1>1 DEF Low, CellOf
<1>3. \A i : (Free(i)' <=> Free(i)) /\ (Filled(i)' <=> Filled(i))
  BY <1>2 DEF Free, Filled
<1>4. \A q \in Thread : /\ pc'[q] = "store" <=> pc[q] = "store"
                        /\ pc[q] = "store" => pos'[q] = pos[q]
  BY <1>1
<1>5. RingIsTrue'
  BY <1>1, <1>2, <1>3, <1>4 DEF RingInv, RingIsTrue, At
<1>6. ClaimsAreTrue'
  BY <1>1, <1>3, <1>4 DEF RingInv, ClaimsAreTrue, At
<1>7. SightsAreTrue'
  BY <1>1, <1>2, RingNumbers DEF RingInv, SightsAreTrue, At
<1> QED BY <1>5, <1>6, <1>7

LEMMA ClaimRing ==
  ASSUME RingInv, NEW p \in Thread, Claims(p)
  PROVE  RingIsTrue' /\ ClaimsAreTrue' /\ SightsAreTrue'
<1> USE DEF mpmcVars, blockingVars, threadVars, workerVars, historyVars
<1>1. /\ pc[p] = "claim" /\ pc'[p] = "store" /\ pos[p] = enqueue_pos
      /\ enqueue_pos' = enqueue_pos + 1
      /\ \A q \in Thread \ {p} : pc'[q] = pc[q]
      /\ UNCHANGED <<cells, dequeue_pos, wpc, pos>>
  BY DEF Claim, Claims, At, Goto, RingInv, TypeOK
<1>2. Low' = Low /\ \A i : CellOf(i)' = CellOf(i)
  BY <1>1 DEF Low, CellOf
<1>3. \A i : (Free(i)' <=> Free(i)) /\ (Filled(i)' <=> Filled(i))
  BY <1>2 DEF Free, Filled
<1>4. enqueue_pos < Low + Cells
  BY <1>1 DEF RingInv, SightsAreTrue, At
<1>5. Free(enqueue_pos)
  <2>1. enqueue_pos \in enqueue_pos..(Low + Cells - 1)
    BY <1>4, RingNumbers
  <2> QED BY <2>1 DEF RingInv, RingIsTrue
<1>6. RingIsTrue'
  <2>1. wpc' = "free" => dequeue_pos' > 0 /\ Filled(Low)'
    BY <1>1, <1>2 DEF RingInv, RingIsTrue, Filled
  <2>2. dequeue_pos' <= enqueue_pos' /\ enqueue_pos' <= (Low + Cells)'
    BY <1>1, <1>2, <1>4, RingNumbers
  <2>3. ASSUME NEW i \in enqueue_pos'..(Low' + Cells - 1) PROVE Free(i)'
    <3>1. i \in enqueue_pos..(Low + Cells - 1)
      BY <1>1, <1>2, RingNumbers
    <3> QED BY <1>3, <3>1 DEF RingInv, RingIsTrue
  <2>4. ASSUME NEW i \in dequeue_pos'..(enqueue_pos' - 1)
        PROVE  \/ Filled(i)' /\ CellOf(i)'.data \in Lines
               \/ Free(i)' /\ \E q \in Thread : pc'[q] = "store" /\ pos'[q] = i
    <3>1. CASE i = enqueue_pos
      BY <1>1, <1>3, <1>5, <3>1
    <3>2. CASE i # enqueue_pos
      <4>1. i \in dequeue_pos..(enqueue_pos - 1)
        BY <1>1, <3>2, RingNumbers
      <4>2. \/ Filled(i) /\ CellOf(i).data \in Lines
            \/ Free(i) /\ \E q \in Thread : pc[q] = "store" /\ pos[q] = i
        BY <4>1 DEF RingInv, RingIsTrue, At
      <4> QED BY <1>1, <1>2, <1>3, <4>2
    <3> QED BY <3>1, <3>2
  <2> QED BY <2>1, <2>2, <2>3, <2>4 DEF RingIsTrue, At
<1>7. ClaimsAreTrue'
  <2>1. ASSUME NEW q \in Thread, pc'[q] = "store"
        PROVE  pos[q] \in dequeue_pos..enqueue_pos /\ Free(pos[q])
    <3>1. CASE q = p
      BY <1>1, <1>5, <3>1, RingNumbers
    <3>2. CASE q # p
      <4>1. pos[q] \in dequeue_pos..(enqueue_pos - 1) /\ Free(pos[q])
        BY <1>1, <2>1, <3>2 DEF RingInv, ClaimsAreTrue, At
      <4> QED BY <4>1, RingNumbers
    <3> QED BY <3>1, <3>2
  <2>2. ASSUME NEW q \in Thread, NEW r \in Thread, pc'[q] = "store", pc'[r] = "store",
               pos'[q] = pos'[r]
        PROVE  q = r
    <3>1. ASSUME NEW t \in Thread, t # p, pc'[t] = "store" PROVE pos[t] < enqueue_pos
      <4>1. pos[t] \in dequeue_pos..(enqueue_pos - 1)
        BY <1>1, <3>1 DEF RingInv, ClaimsAreTrue, At
      <4> QED BY <4>1, RingNumbers
    <3>2. CASE q = p /\ r # p
      BY <1>1, <2>2, <3>1, <3>2, RingNumbers
    <3>3. CASE q # p /\ r = p
      BY <1>1, <2>2, <3>1, <3>3, RingNumbers
    <3>4. CASE q # p /\ r # p
      BY <1>1, <2>2, <3>4 DEF RingInv, ClaimsAreTrue, At
    <3> QED BY <3>2, <3>3, <3>4
  <2>3. enqueue_pos' - 1 = enqueue_pos
    BY <1>1, RingNumbers
  <2> QED BY <1>1, <1>3, <2>1, <2>2, <2>3 DEF ClaimsAreTrue, At
<1>8. SightsAreTrue'
  <2>1. ASSUME NEW q \in Thread, pc'[q] \in {"look", "claim"}
        PROVE  pos[q] <= enqueue_pos /\ q # p
    BY <1>1, <2>1 DEF RingInv, SightsAreTrue
  <2>2. ASSUME NEW q \in Thread, pc'[q] \in {"look", "claim"}
        PROVE  pos'[q] <= enqueue_pos' /\ pos'[q] # enqueue_pos'
    BY <1>1, <2>1, <2>2, RingNumbers
  <2> QED BY <2>2 DEF SightsAreTrue, At
<1> QED BY <1>6, <1>7, <1>8

LEMMA StoreRing ==
  ASSUME RingInv, NEW p \in Thread, Store(p)
  PROVE  /\ RingIsTrue' /\ ClaimsAreTrue' /\ SightsAreTrue'
         /\ pos[p] \in dequeue_pos..(enqueue_pos - 1) /\ Free(pos[p])
         /\ \A i \in Low..(Low + Cells - 1) :
              CellOf(i)' = IF i = pos[p]
                           THEN [sequence |-> pos[p] + 1, data |-> Holding(p)]
                           ELSE CellOf(i)
<1> USE DEF mpmcVars, blockingVars, threadVars, workerVars, historyVars
<1>1. /\ pc[p] = "store" /\ pc[p] # "idle" /\ Returns(p)
      /\ UNCHANGED <<enqueue_pos, dequeue_pos, wpc, pos>>
  BY DEF Store, At
<1>2. pc'[p] = "idle" /\ \A q \in Thread \ {p} : pc'[q] = pc[q]
  BY <1>1, ReturnsFacts
<1>3. Low' = Low
  BY <1>1 DEF Low
<1>4. PICK k \in Nat : k = pos[p]
  BY DEF RingInv, TypeOK
<1>5. k \in dequeue_pos..(enqueue_pos - 1) /\ Free(k)
  BY <1>1, <1>4 DEF RingInv, ClaimsAreTrue, At
<1>6. k >= Low /\ k < Low + Cells /\ k >= dequeue_pos /\ k < enqueue_pos
  BY <1>5, RingNumbers
<1>7. PICK x : x = [sequence |-> k + 1, data |-> Holding(p)]
  OBVIOUS
<1>8. cells' = [cells EXCEPT ![k % Cells] = x]
  BY <1>4, <1>7 DEF Store
<1>9. ASSUME NEW i \in Low..(Low + Cells - 1)
      PROVE  CellOf(i)' = IF i = k THEN x ELSE CellOf(i)
  <2>1. i \in Nat /\ i < k + Cells /\ k < i + Cells
    BY <1>6, <1>9, RingNumbers
  <2>2. TypeOK
    BY DEF RingInv
  <2> QED BY <1>8, <2>1, <2>2, CellWrite
<1>10. \A i \in Low..(Low + Cells - 1) : i # k =>
         CellOf(i)' = CellOf(i) /\ (Free(i)' <=> Free(i)) /\ (Filled(i)' <=> Filled(i))
  BY <1>9 DEF Free, Filled
<1>11. \A i \in dequeue_pos..(enqueue_pos - 1) : i \in Low..(Low + Cells - 1)
  BY RingNumbers
<1>12. RingIsTrue'
  <2>1. wpc' = "free" => dequeue_pos' > 0 /\ Filled(Low)'
    <3>1. SUFFICES ASSUME wpc = "free" PROVE dequeue_pos > 0 /\ Filled(Low)'
      BY <1>1
    <3>2. dequeue_pos > 0 /\ Filled(Low) /\ Low = dequeue_pos - 1
      BY <3>1 DEF RingInv, RingIsTrue, Low
    <3>3. Low # k /\ Low \in Low..(Low + Cells - 1)
      BY <1>6, <3>2, RingNumbers
    <3> QED BY <1>3, <1>10, <3>2, <3>3 DEF Filled
  <2>2. dequeue_pos' <= enqueue_pos' /\ enqueue_pos' <= (Low + Cells)'
    BY <1>1, <1>3, RingNumbers
  <2>3. ASSUME NEW i \in enqueue_pos..(Low + Cells - 1) PROVE Free(i)'
    <3>1. i \in Low..(Low + Cells - 1) /\ i # k
      BY <1>6, RingNumbers
    <3>2. Free(i)
      BY DEF RingInv, RingIsTrue
    <3> QED BY <1>10, <3>1, <3>2
  <2>4. ASSUME NEW i \in dequeue_pos..(enqueue_pos - 1)
        PROVE  \/ Filled(i)' /\ CellOf(i)'.data \in Lines
               \/ Free(i)' /\ \E q \in Thread : pc'[q] = "store" /\ pos'[q] = i
    <3>1. CASE i = k
      <4>1. CellOf(i)' = x
        BY <1>9, <1>11, <3>1
      <4>2. Holding(p) \in Lines
        BY <1>1, HoldingIsLine
      <4> QED BY <1>7, <3>1, <4>1, <4>2 DEF Filled
    <3>2. CASE i # k
      <4>1. \/ Filled(i) /\ CellOf(i).data \in Lines
            \/ Free(i) /\ \E q \in Thread : pc[q] = "store" /\ pos[q] = i
        BY DEF RingInv, RingIsTrue, At
      <4>2. \A q \in Thread : pc[q] = "store" /\ pos[q] = i => pc'[q] = "store" /\ pos'[q] = i
        BY <1>1, <1>2, <1>4, <3>2
      <4>3. CellOf(i)' = CellOf(i) /\ (Free(i)' <=> Free(i)) /\ (Filled(i)' <=> Filled(i))
        BY <1>10, <1>11, <3>2
      <4> QED BY <4>1, <4>2, <4>3
    <3> QED BY <3>1, <3>2
  <2> QED BY <1>1, <1>3, <2>1, <2>2, <2>3, <2>4 DEF RingIsTrue, At
<1>13. ClaimsAreTrue'
  <2>1. ASSUME NEW q \in Thread, pc'[q] = "store"
        PROVE  pc[q] = "store" /\ pos[q] # k
    <3>1. q # p /\ pc[q] = "store"
      BY <1>2, <2>1
    <3> QED BY <1>1, <1>4, <3>1 DEF RingInv, ClaimsAreTrue, At
  <2>2. ASSUME NEW q \in Thread, pc'[q] = "store"
        PROVE  pos[q] \in dequeue_pos..(enqueue_pos - 1) /\ Free(pos[q])
    BY <2>1, <2>2 DEF RingInv, ClaimsAreTrue, At
  <2>3. ASSUME NEW q \in Thread, pc'[q] = "store" PROVE Free(pos[q])'
    <3>1. PICK i \in dequeue_pos..(enqueue_pos - 1) : i = pos[q]
      BY <2>2, <2>3
    <3>2. Free(i)' <=> Free(i)
      BY <1>10, <1>11, <2>1, <2>3, <3>1
    <3> QED BY <1>1, <2>2, <2>3, <3>1, <3>2 DEF Free, CellOf
  <2>4. \A q, r \in Thread : pc'[q] = "store" /\ pc'[r] = "store" /\ pos[q] = pos[r] => q = r
    BY <2>1 DEF RingInv, ClaimsAreTrue, At
  <2> QED BY <1>1, <2>2, <2>3, <2>4 DEF ClaimsAreTrue, At, Free, CellOf
<1>14. SightsAreTrue'
  BY <1>1, <1>2, <1>3 DEF RingInv, SightsAreTrue, At
<1> QED BY <1>4, <1>5, <1>7, <1>9, <1>12, <1>13, <1>14

\* The log thread takes the oldest line.
Pops == Pop /\ Filled(dequeue_pos)

LEMMA PopRing ==
  ASSUME RingInv, Pops
  PROVE  /\ RingIsTrue' /\ ClaimsAreTrue' /\ SightsAreTrue'
         /\ dequeue_pos < enqueue_pos /\ line' \in Lines /\ wpc' = "free"
         /\ line' = CellOf(dequeue_pos).data /\ dequeue_pos' = dequeue_pos + 1
<1> USE DEF mpmcVars, blockingVars, threadVars, workerVars, historyVars
<1>1. CellOf(dequeue_pos).sequence = dequeue_pos + 1
  BY DEF Pops, Filled
<1>2. /\ wpc = "pop" /\ wpc' = "free" /\ dequeue_pos' = dequeue_pos + 1
      /\ line' = CellOf(dequeue_pos).data
      /\ UNCHANGED <<cells, enqueue_pos, pc, pos>>
  BY <1>1, RingNumbers DEF Pops, Pop
<1>3. Low = dequeue_pos /\ Low' = Low
  BY <1>2, RingNumbers DEF Low
<1>4. \A i : /\ CellOf(i)' = CellOf(i)
             /\ (Free(i)' <=> Free(i)) /\ (Filled(i)' <=> Filled(i))
  BY <1>2 DEF CellOf, Free, Filled
<1>5. ~Free(dequeue_pos)
  BY <1>1, RingNumbers DEF Free
<1>6. dequeue_pos < enqueue_pos
  <2>1. SUFFICES ASSUME dequeue_pos = enqueue_pos PROVE FALSE
    BY RingNumbers
  <2>2. dequeue_pos \in enqueue_pos..(Low + Cells - 1)
    BY <1>3, <2>1, RingNumbers
  <2> QED BY <1>5, <2>2 DEF RingInv, RingIsTrue
<1>7. line' \in Lines
  <2>1. dequeue_pos \in dequeue_pos..(enqueue_pos - 1)
    BY <1>6, RingNumbers
  <2> QED BY <1>2, <1>5, <2>1 DEF RingInv, RingIsTrue
<1>8. RingIsTrue'
  <2>1. dequeue_pos' > 0 /\ Filled(Low)'
    BY <1>2, <1>3, <1>4, RingNumbers DEF Pops, Filled
  <2>2. dequeue_pos' <= enqueue_pos' /\ enqueue_pos' <= (Low + Cells)'
    BY <1>2, <1>3, <1>6, RingNumbers
  <2>3. \A i \in enqueue_pos..(Low + Cells - 1) : Free(i)'
    BY <1>4 DEF RingInv, RingIsTrue
  <2>4. \A i \in dequeue_pos'..(enqueue_pos - 1) : i \in dequeue_pos..(enqueue_pos - 1)
    BY <1>2, RingNumbers
  <2>5. \A i \in dequeue_pos'..(enqueue_pos - 1) :
          \/ Filled(i)' /\ CellOf(i)'.data \in Lines
          \/ Free(i)' /\ \E q \in Thread : pc'[q] = "store" /\ pos'[q] = i
    BY <1>2, <1>4, <2>4 DEF RingInv, RingIsTrue, At
  <2> QED BY <1>2, <1>3, <2>1, <2>2, <2>3, <2>5 DEF RingIsTrue, At
<1>9. ClaimsAreTrue'
  <2>1. ASSUME NEW q \in Thread, pc[q] = "store"
        PROVE  pos[q] \in dequeue_pos'..(enqueue_pos - 1)
    <3>1. pos[q] \in dequeue_pos..(enqueue_pos - 1) /\ Free(pos[q])
      BY <2>1 DEF RingInv, ClaimsAreTrue, At
    <3>2. pos[q] # dequeue_pos
      BY <1>5, <3>1
    <3> QED BY <1>2, <3>1, <3>2, RingNumbers
  <2> QED BY <1>2, <1>4, <2>1 DEF RingInv, ClaimsAreTrue, At
<1>10. SightsAreTrue'
  BY <1>2, <1>3 DEF RingInv, SightsAreTrue, At
<1> QED BY <1>2, <1>6, <1>7, <1>8, <1>9, <1>10

LEMMA FreeCellRing ==
  ASSUME RingInv, FreeCell
  PROVE  /\ RingIsTrue' /\ ClaimsAreTrue' /\ SightsAreTrue'
         /\ \A i \in dequeue_pos..(enqueue_pos - 1) : CellOf(i)' = CellOf(i)
<1> USE DEF mpmcVars, blockingVars, threadVars, workerVars, historyVars
<1>1. wpc = "free" /\ wpc' = "write" /\ UNCHANGED <<enqueue_pos, dequeue_pos, pc, pos>>
  BY DEF FreeCell
<1>2. PICK k \in Nat : k = Low /\ dequeue_pos = k + 1 /\ k = dequeue_pos - 1
  BY <1>1, RingNumbers DEF Low
<1>3. Low' = k + 1
  BY <1>1, <1>2 DEF Low
<1>4. PICK c \in Nat : c = Cells /\ c >= 2
  BY RingNumbers
<1>5. PICK x : x = [CellOf(k) EXCEPT !.sequence = k + c]
  OBVIOUS
<1>6. x.sequence = k + c
  <2>1. TypeOK
    BY DEF RingInv
  <2>2. CellOf(k) \in Cell
    BY <2>1, CellType
  <2> QED BY <1>5, <2>2 DEF Cell
<1>7. cells' = [cells EXCEPT ![k % Cells] = x]
  BY <1>2, <1>4, <1>5 DEF FreeCell, CellOf
<1>8. ASSUME NEW i \in k..(k + c - 1) PROVE CellOf(i)' = IF i = k THEN x ELSE CellOf(i)
  <2>1. i \in Nat /\ i < k + Cells /\ k < i + Cells
    BY <1>4, <1>8
  <2>2. TypeOK
    BY DEF RingInv
  <2> QED BY <1>7, <2>1, <2>2, CellWrite
<1>9. \A i \in (k + 1)..(k + c - 1) :
        CellOf(i)' = CellOf(i) /\ (Free(i)' <=> Free(i)) /\ (Filled(i)' <=> Filled(i))
  BY <1>8 DEF Free, Filled
<1>10. Free(k + c)'
  <2>1. (k + c) % Cells = k % Cells
    BY <1>4, NextSlot
  <2>2. CellOf(k)' = x
    BY <1>4, <1>8
  <2>3. CellOf(k + c)' = CellOf(k)'
    BY <2>1 DEF CellOf
  <2> QED BY <1>6, <2>2, <2>3 DEF Free
<1>11. /\ \A i \in dequeue_pos..(enqueue_pos - 1) : i \in (k + 1)..(k + c - 1)
       /\ enqueue_pos <= k + c /\ k + 1 <= enqueue_pos
  BY <1>2, <1>4, RingNumbers
<1>12. RingIsTrue'
  <2>1. dequeue_pos' <= enqueue_pos' /\ enqueue_pos' <= (Low + Cells)'
    BY <1>1, <1>3, <1>4, <1>11, RingNumbers
  <2>2. ASSUME NEW i \in enqueue_pos..(k + 1 + Cells - 1) PROVE Free(i)'
    <3>1. CASE i = k + c
      BY <1>10, <3>1
    <3>2. CASE i # k + c
      <4>1. i \in enqueue_pos..(Low + Cells - 1) /\ i \in (k + 1)..(k + c - 1)
        BY <1>2, <1>4, <1>11, <3>2, RingNumbers
      <4> QED BY <1>9, <4>1 DEF RingInv, RingIsTrue
    <3> QED BY <3>1, <3>2
  <2>3. \A i \in dequeue_pos..(enqueue_pos - 1) :
          \/ Filled(i)' /\ CellOf(i)'.data \in Lines
          \/ Free(i)' /\ \E q \in Thread : pc'[q] = "store" /\ pos'[q] = i
    BY <1>1, <1>9, <1>11 DEF RingInv, RingIsTrue, At
  <2> QED BY <1>1, <1>3, <2>1, <2>2, <2>3 DEF RingIsTrue, At
<1>13. ClaimsAreTrue'
  <2>1. ASSUME NEW q \in Thread, pc[q] = "store"
        PROVE  pos[q] \in dequeue_pos..(enqueue_pos - 1) /\ Free(pos[q])'
    <3>1. pos[q] \in dequeue_pos..(enqueue_pos - 1) /\ Free(pos[q])
      BY <2>1 DEF RingInv, ClaimsAreTrue, At
    <3>2. PICK i \in dequeue_pos..(enqueue_pos - 1) : i = pos[q]
      BY <3>1
    <3>3. Free(i)'
      BY <1>9, <1>11, <3>1, <3>2
    <3> QED BY <1>1, <3>1, <3>2, <3>3 DEF Free, CellOf
  <2> QED BY <1>1, <2>1 DEF RingInv, ClaimsAreTrue, At, Free, CellOf
<1>14. SightsAreTrue'
  <2>1. Low < Low'
    BY <1>2, <1>3
  <2>2. enqueue_pos < Low + Cells => enqueue_pos' < (Low + Cells)'
    BY <1>1, <1>2, <1>3, <1>4, RingNumbers
  <2> QED BY <1>1, <2>2 DEF RingInv, SightsAreTrue, At
<1> QED BY <1>9, <1>11, <1>12, <1>13, <1>14

LEMMA HandsStep ==
  ASSUME RingInv, Next
  PROVE  HandsAreTrue'
<1> USE DEF mpmcVars, blockingVars, threadVars, workerVars, historyVars
<1>1. TypeOK /\ HandsAreTrue
  BY DEF RingInv
<1>2. ASSUME NEW p \in Thread, ReadRunning(p) PROVE HandsAreTrue'
  BY <1>1, <1>2 DEF ReadRunning, HandsAreTrue, TypeOK, At, Goto
<1>3. ASSUME NEW p \in Thread, Put(p) PROVE HandsAreTrue'
  <2>1. pc[p] = "put" /\ Returns(p)
    BY <1>3 DEF Put, At
  <2>2. pc'[p] = "idle" /\ \A q \in Thread \ {p} : pc'[q] = pc[q] /\ number'[q] = number[q]
    BY <2>1, ReturnsFacts
  <2> QED BY <1>1, <1>3, <2>1, <2>2 DEF Put, HandsAreTrue, TypeOK
<1>4. ASSUME NEW p \in Thread, LoadPos(p) PROVE HandsAreTrue'
  BY <1>1, <1>4 DEF LoadPos, HandsAreTrue, TypeOK, At, Goto
<1>5. ASSUME NEW p \in Thread, LookAtCell(p) PROVE HandsAreTrue'
  BY <1>1, <1>5 DEF LookAtCell, HandsAreTrue, TypeOK, At, Goto
<1>6. ASSUME NEW p \in Thread, Claim(p) PROVE HandsAreTrue'
  BY <1>1, <1>6 DEF Claim, HandsAreTrue, TypeOK, At, Goto
<1>7. ASSUME NEW p \in Thread, Store(p) PROVE HandsAreTrue'
  <2>1. pc[p] = "store" /\ Returns(p)
    BY <1>7 DEF Store, At
  <2>2. pc'[p] = "idle" /\ \A q \in Thread \ {p} : pc'[q] = pc[q] /\ number'[q] = number[q]
    BY <2>1, ReturnsFacts
  <2> QED BY <1>1, <1>7, <2>1, <2>2 DEF Store, HandsAreTrue, TypeOK
<1>8. ASSUME NEW p \in Thread, WriteByCaller(p) PROVE HandsAreTrue'
  <2>1. pc[p] = "sync" /\ Returns(p)
    BY <1>8 DEF WriteByCaller, At
  <2>2. pc'[p] = "idle" /\ \A q \in Thread \ {p} : pc'[q] = pc[q] /\ number'[q] = number[q]
    BY <2>1, ReturnsFacts
  <2> QED BY <1>1, <1>8, <2>1, <2>2 DEF WriteByCaller, HandsAreTrue, TypeOK
<1>9. CASE PopBlocking
  <2>1. line' # Nobody <=> wpc' \in {"free", "write"}
    <3>1. PICK d \in Seq(Lines) : d = deque
      BY <1>1 DEF TypeOK
    <3>2. CASE deque # << >> /\ line' = Head(deque) /\ wpc' = "write"
      <4>1. line' \in Lines
        BY <3>1, <3>2, HeadTailProperties
      <4> QED BY <3>2, <4>1, LogAssumption
    <3>3. CASE wpc' = "done" /\ line' = line
      BY <1>1, <1>9, <3>3 DEF PopBlocking, HandsAreTrue
    <3> QED BY <1>9, <3>2, <3>3 DEF PopBlocking
  <2>2. wpc' \in {"write", "done"} /\ queue_type = "blocking"
    BY <1>9 DEF PopBlocking
  <2> QED BY <1>1, <1>9, <2>1, <2>2 DEF PopBlocking, HandsAreTrue
<1>10. CASE Pop
  <2>1. CASE Pops
    <3>1. line' # Nobody /\ wpc' = "free"
      BY <2>1, PopRing, LogAssumption
    <3> QED BY <1>1, <1>10, <3>1 DEF Pop, HandsAreTrue
  <2>2. CASE ~Pops
    <3>1. wpc' = "empty" /\ line' = line
      BY <1>10, <2>2 DEF Pop, Pops, Filled
    <3> QED BY <1>1, <1>10, <3>1 DEF Pop, HandsAreTrue
  <2> QED BY <2>1, <2>2
<1>11. CASE FreeCell
  BY <1>1, <1>11 DEF FreeCell, HandsAreTrue
<1>12. CASE Rest
  BY <1>1, <1>12 DEF Rest, HandsAreTrue
<1>13. CASE WriteByWorker
  BY <1>1, <1>13 DEF WriteByWorker, HandsAreTrue
<1>14. CASE Start
  BY <1>1, <1>14 DEF Start, HandsAreTrue
<1>15. CASE Stop \/ Join \/ FlushAndClose
  BY <1>1, <1>15 DEF Stop, Join, FlushAndClose, HandsAreTrue
<1> QED BY <1>2, <1>3, <1>4, <1>5, <1>6, <1>7, <1>8, <1>9, <1>10, <1>11, <1>12, <1>13,
           <1>14, <1>15 DEF Next, LogThread

LEMMA RingStep ==
  ASSUME RingInv, Next
  PROVE  RingInv'
<1> USE DEF mpmcVars, blockingVars, threadVars, workerVars, historyVars
<1> DEFINE Ring == RingIsTrue /\ ClaimsAreTrue /\ SightsAreTrue
<1>1. TypeOK' /\ HandsAreTrue'
  BY TypeStep, HandsStep
<1>2. ASSUME NEW p \in Thread, ReadRunning(p) PROVE Ring'
  <2>1. /\ \A q \in Thread : /\ pc'[q] = "store" <=> pc[q] = "store"
                             /\ pc'[q] = "look" => pc[q] = "look"
                             /\ pc'[q] = "claim" => pc[q] = "claim"
    BY <1>2 DEF ReadRunning, At, Goto, RingInv, TypeOK
  <2>2. UNCHANGED <<cells, enqueue_pos, dequeue_pos, pos, wpc>>
    BY <1>2 DEF ReadRunning
  <2> QED BY <2>1, <2>2, RingFrame
<1>3. ASSUME NEW p \in Thread, Put(p) \/ WriteByCaller(p) PROVE Ring'
  <2>1. pc[p] \in {"put", "sync"} /\ Returns(p)
    BY <1>3 DEF Put, WriteByCaller, At
  <2>2. pc'[p] = "idle" /\ \A q \in Thread \ {p} : pc'[q] = pc[q]
    BY <2>1, ReturnsFacts
  <2>3. \A q \in Thread : /\ pc'[q] = "store" <=> pc[q] = "store"
                          /\ pc'[q] = "look" => pc[q] = "look"
                          /\ pc'[q] = "claim" => pc[q] = "claim"
    BY <2>1, <2>2
  <2>4. UNCHANGED <<cells, enqueue_pos, dequeue_pos, pos, wpc>>
    BY <1>3 DEF Put, WriteByCaller
  <2> QED BY <2>3, <2>4, RingFrame
<1>4. ASSUME NEW p \in Thread, LoadPos(p) \/ LookAtCell(p) \/ Claim(p) \/ Store(p)
      PROVE  Ring'
  BY <1>4, LoadPosRing, LookAtCellRing, FailedClaimRing, ClaimRing, StoreRing DEF Claims
<1>5. ASSUME Pop PROVE Ring'
  <2>1. CASE Pops
    BY <2>1, PopRing
  <2>2. CASE ~Pops
    <3>1. wpc = "pop" /\ wpc' = "empty" /\ UNCHANGED <<cells, enqueue_pos, dequeue_pos, pc, pos>>
      BY <1>5, <2>2 DEF Pop, Pops, Filled
    <3> QED BY <3>1, RingFrame
  <2> QED BY <2>1, <2>2
<1>6. ASSUME FreeCell PROVE Ring'
  BY <1>6, FreeCellRing
<1>7. ASSUME PopBlocking \/ Rest \/ WriteByWorker \/ Start \/ Stop \/ Join \/ FlushAndClose
      PROVE  Ring'
  <2>1. UNCHANGED <<cells, enqueue_pos, dequeue_pos, pc, pos>>
    BY <1>7 DEF PopBlocking, Rest, WriteByWorker, Start, Stop, Join, FlushAndClose
  <2>3. wpc' = "free" <=> wpc = "free"
    BY <1>7 DEF PopBlocking, Rest, WriteByWorker, Start, Stop, Join, FlushAndClose,
                RingInv, HandsAreTrue
  <2> QED BY <2>1, <2>3, RingFrame
<1> QED BY <1>1, <1>2, <1>3, <1>4, <1>5, <1>6, <1>7 DEF Next, LogThread, RingInv

LEMMA RingStutter ==
  ASSUME RingInv, UNCHANGED vars
  PROVE  RingInv'
<1> USE DEF vars, mpmcVars, blockingVars, threadVars, workerVars, historyVars
<1>1. RingIsTrue' /\ ClaimsAreTrue' /\ SightsAreTrue'
  BY RingFrame
<1>2. TypeOK' /\ HandsAreTrue'
  BY DEF RingInv, TypeOK, HandsAreTrue
<1> QED BY <1>1, <1>2 DEF RingInv

(* The ring of cells is as the sequence numbers say, from the first step on *)
(* (MpmcQueue, lines 131-231): no two threads own a place, and no cell in    *)
(* use is claimed again.                                                     *)
THEOREM RingHolds == Spec => []RingInv
BY InitRing, RingStep, RingStutter, PTL DEF Spec

-----------------------------------------------------------------------------
(* The places of the ring as a sequence.                                   *)

\* A place shows its line once it is filled, its claimant before.
PlacesTrue ==
  queue_type = "mpmc" =>
    /\ Places \in Seq(Thread \cup Lines) /\ Len(Places) = enqueue_pos - dequeue_pos
    /\ \A i \in 1..(enqueue_pos - dequeue_pos) : Places[i] = Place(dequeue_pos + i - 1)
    /\ \A j \in dequeue_pos..(enqueue_pos - 1) :
         /\ Filled(j) => Place(j) = CellOf(j).data /\ Place(j) \in Lines
         /\ ~Filled(j) => /\ Place(j) \in Thread /\ Place(j) \notin Lines
                          /\ At(Place(j), "store") /\ pos[Place(j)] = j
         /\ \A p \in Thread : At(p, "store") /\ pos[p] = j => Place(j) = p

LEMMA PlacesNow == RingInv => PlacesTrue
<1> SUFFICES ASSUME RingInv, queue_type = "mpmc"
             PROVE  /\ Places \in Seq(Thread \cup Lines)
                    /\ Len(Places) = enqueue_pos - dequeue_pos
                    /\ \A i \in 1..(enqueue_pos - dequeue_pos) :
                         Places[i] = Place(dequeue_pos + i - 1)
                    /\ \A j \in dequeue_pos..(enqueue_pos - 1) :
                         /\ Filled(j) => Place(j) = CellOf(j).data /\ Place(j) \in Lines
                         /\ ~Filled(j) => /\ Place(j) \in Thread /\ Place(j) \notin Lines
                                          /\ At(Place(j), "store") /\ pos[Place(j)] = j
                         /\ \A p \in Thread : At(p, "store") /\ pos[p] = j => Place(j) = p
  BY DEF PlacesTrue
<1>1. ASSUME NEW j \in dequeue_pos..(enqueue_pos - 1)
      PROVE  /\ Filled(j) => Place(j) = CellOf(j).data /\ Place(j) \in Lines
             /\ ~Filled(j) => /\ Place(j) \in Thread /\ Place(j) \notin Lines
                              /\ At(Place(j), "store") /\ pos[Place(j)] = j
             /\ \A p \in Thread : At(p, "store") /\ pos[p] = j => Place(j) = p
  <2>1. \/ Filled(j) /\ CellOf(j).data \in Lines
        \/ Free(j) /\ \E p \in Thread : At(p, "store") /\ pos[p] = j
    BY DEF RingInv, RingIsTrue
  <2>2. ~(Filled(j) /\ Free(j))
    BY RingNumbers DEF Filled, Free
  <2>3. CASE Filled(j)
    <3>1. Place(j) = CellOf(j).data
      BY <2>3 DEF Place, Filled
    <3>2. ASSUME NEW p \in Thread, At(p, "store"), pos[p] = j PROVE FALSE
      BY <2>2, <2>3, <3>2 DEF RingInv, ClaimsAreTrue
    <3> QED BY <2>1, <2>2, <2>3, <3>1, <3>2
  <2>4. CASE ~Filled(j)
    <3>1. Place(j) = Claimant(j)
      BY <2>4 DEF Place, Filled
    <3>2. \E p \in Thread : At(p, "store") /\ pos[p] = j
      BY <2>1, <2>4
    <3>3. Claimant(j) \in Thread /\ At(Claimant(j), "store") /\ pos[Claimant(j)] = j
      BY <3>2, Zenon DEF Claimant
    <3>4. \A p \in Thread : At(p, "store") /\ pos[p] = j => p = Claimant(j)
      BY <3>3 DEF RingInv, ClaimsAreTrue
    <3>5. Claimant(j) \notin Lines
      BY <3>3, LogAssumption
    <3> QED BY <2>4, <3>1, <3>3, <3>4, <3>5
  <2> QED BY <2>3, <2>4
<1>2. PICK n \in Nat, d \in Nat : n = enqueue_pos - dequeue_pos /\ d = dequeue_pos
  BY RingNumbers
<1>3. ASSUME NEW i \in 1..n PROVE Place(d + i - 1) \in Thread \cup Lines
  <2>1. d + i - 1 \in dequeue_pos..(enqueue_pos - 1)
    BY <1>2, RingNumbers
  <2> QED BY <1>1, <2>1
<1>4. Places = [i \in 1..n |-> Place(d + i - 1)]
  BY <1>2 DEF Places
<1>5. Places \in [1..n -> Thread \cup Lines]
  BY <1>3, <1>4
<1>6. Places \in Seq(Thread \cup Lines)
  BY <1>5, SeqDef
<1>7. Len(Places) = n
  BY <1>5
<1>8. \A i \in 1..n : Places[i] = Place(d + i - 1)
  BY <1>4
<1> QED BY <1>1, <1>2, <1>6, <1>7, <1>8

LEMMA PlacesThen == RingInv' => PlacesTrue'
BY PlacesNow, PTL

\* A place whose cell and claimant stay shows the same.
LEMMA PlaceFrame ==
  ASSUME RingInv, RingInv', queue_type = "mpmc", queue_type' = queue_type,
         NEW j \in dequeue_pos..(enqueue_pos - 1), j \in dequeue_pos'..(enqueue_pos' - 1),
         CellOf(j)' = CellOf(j),
         \A q \in Thread : pc[q] = "store" /\ pos[q] = j => pc'[q] = "store" /\ pos'[q] = j
  PROVE  Place(j)' = Place(j)
<1>1. PlacesTrue /\ PlacesTrue'
  BY PlacesNow, PlacesThen
<1>2. Filled(j)' <=> Filled(j)
  BY DEF Filled
<1>3. CASE Filled(j)
  BY <1>1, <1>2, <1>3 DEF PlacesTrue
<1>4. CASE ~Filled(j)
  <2>1. PICK q \in Thread : q = Place(j) /\ pc[q] = "store" /\ pos[q] = j
    BY <1>1, <1>4 DEF PlacesTrue, At
  <2>2. pc'[q] = "store" /\ pos'[q] = j
    BY <2>1
  <2> QED BY <1>1, <2>1, <2>2 DEF PlacesTrue, At
<1> QED BY <1>3, <1>4

LEMMA PlacesFrame ==
  ASSUME RingInv, RingInv',
         UNCHANGED <<queue_type, cells, enqueue_pos, dequeue_pos, deque>>,
         \A q \in Thread : pc[q] = "store" => pc'[q] = "store" /\ pos'[q] = pos[q]
  PROVE  Places' = Places
<1>1. CASE queue_type = "blocking"
  BY <1>1 DEF Places
<1>2. CASE queue_type = "mpmc"
  <2>1. \A j : CellOf(j)' = CellOf(j)
    BY DEF CellOf
  <2>2. \A j \in dequeue_pos..(enqueue_pos - 1) : Place(j)' = Place(j)
    BY <1>2, <2>1, PlaceFrame
  <2>3. PICK n \in Nat, d \in Nat : n = enqueue_pos - dequeue_pos /\ d = dequeue_pos
    BY RingNumbers
  <2>4. Places = [i \in 1..n |-> Place(d + i - 1)]
    BY <1>2, <2>3 DEF Places
  <2>5. Places' = [i \in 1..n |-> Place(d + i - 1)']
    BY <1>2, <2>3 DEF Places
  <2>6. \A i \in 1..n : Place(d + i - 1)' = Place(d + i - 1)
    BY <2>2, <2>3, RingNumbers
  <2> QED BY <2>4, <2>5, <2>6
<1> QED BY <1>1, <1>2 DEF RingInv, TypeOK

LEMMA ClaimPlaces ==
  ASSUME RingInv, RingInv', NEW p \in Thread, Claims(p)
  PROVE  /\ queue_type = "mpmc" /\ queue_type' = queue_type /\ line' = line
         /\ Places' = Append(Places, p)
         /\ Len(Places) < Cells /\ \A i \in DOMAIN Places : Places[i] # p
<1> USE DEF mpmcVars, blockingVars, threadVars, workerVars, historyVars
<1>1. /\ pc[p] = "claim" /\ pc'[p] = "store" /\ pos[p] = enqueue_pos
      /\ enqueue_pos' = enqueue_pos + 1
      /\ \A q \in Thread \ {p} : pc'[q] = pc[q]
      /\ UNCHANGED <<cells, dequeue_pos, wpc, pos, queue_type, line>>
  BY DEF Claim, Claims, At, Goto, RingInv, TypeOK
<1>2. queue_type = "mpmc"
  <2>1. queue_type \in {"mpmc", "blocking"} /\ ~(pc[p] \in {"idle", "put", "sync"})
    BY <1>1 DEF RingInv, TypeOK
  <2> QED BY <2>1 DEF RingInv, HandsAreTrue
<1>3. PlacesTrue /\ PlacesTrue'
  BY PlacesNow, PlacesThen
<1>4. PICK n \in Nat, d \in Nat, s \in Seq(Thread \cup Lines), t \in Seq(Thread \cup Lines) :
        /\ n = enqueue_pos - dequeue_pos /\ d = dequeue_pos
        /\ enqueue_pos = d + n /\ enqueue_pos' = d + n + 1
        /\ s = Places /\ t = Places' /\ Len(s) = n /\ Len(t) = n + 1
  <2>1. PICK n \in Nat, d \in Nat : n = enqueue_pos - dequeue_pos /\ d = dequeue_pos
    BY RingNumbers
  <2>2. enqueue_pos = d + n /\ enqueue_pos' = d + n + 1 /\ enqueue_pos' - dequeue_pos' = n + 1
    BY <1>1, <2>1, RingNumbers
  <2>3. Places \in Seq(Thread \cup Lines) /\ Len(Places) = n
    BY <1>2, <1>3, <2>1 DEF PlacesTrue
  <2>4. Places' \in Seq(Thread \cup Lines) /\ Len(Places') = n + 1
    BY <1>1, <1>2, <1>3, <2>2 DEF PlacesTrue
  <2> QED BY <2>1, <2>2, <2>3, <2>4
<1>5. \A j \in d..(d + n - 1) : j \in dequeue_pos..(enqueue_pos - 1) /\ j \in dequeue_pos'..(enqueue_pos' - 1)
  BY <1>1, <1>4
<1>6. \A j \in d..(d + n - 1) : Place(j)' = Place(j)
  <2> TAKE j \in d..(d + n - 1)
  <2>1. CellOf(j)' = CellOf(j)
    BY <1>1 DEF CellOf
  <2>2. \A q \in Thread : pc[q] = "store" /\ pos[q] = j => pc'[q] = "store" /\ pos'[q] = j
    BY <1>1
  <2> QED BY <1>1, <1>2, <1>5, <2>1, <2>2, PlaceFrame
<1>7. \A i \in 1..n : s[i] = Place(d + i - 1)
  BY <1>2, <1>3, <1>4 DEF PlacesTrue
<1>8. \A i \in 1..(n + 1) : t[i] = Place(d + i - 1)'
  BY <1>1, <1>2, <1>3, <1>4 DEF PlacesTrue
<1>9. Place(d + n)' = p
  <2>1. d + n \in dequeue_pos'..(enqueue_pos' - 1) /\ pos'[p] = d + n
    BY <1>1, <1>4
  <2> QED BY <1>1, <1>2, <1>3, <2>1 DEF PlacesTrue, At
<1>10. t = Append(s, p)
  <2>1. PICK u \in Seq(Thread \cup Lines) :
          /\ u = Append(s, p) /\ Len(u) = n + 1
          /\ \A i \in 1..n : u[i] = s[i]
          /\ u[n + 1] = p
    <3>1. p \in Thread \cup Lines
      OBVIOUS
    <3>2. /\ Append(s, p) \in Seq(Thread \cup Lines) /\ Len(Append(s, p)) = Len(s) + 1
          /\ \A i \in 1..Len(s) : Append(s, p)[i] = s[i]
          /\ Append(s, p)[Len(s) + 1] = p
      BY <3>1, AppendProperties
    <3> QED BY <1>4, <3>2, Zenon
  <2>2. ASSUME NEW i \in 1..(n + 1) PROVE t[i] = u[i]
    <3>1. CASE i = n + 1
      <4>1. d + i - 1 = d + n
        BY <3>1
      <4> QED BY <1>8, <1>9, <2>1, <3>1, <4>1
    <3>2. CASE i # n + 1
      <4>1. i \in 1..n /\ d + i - 1 \in d..(d + n - 1)
        BY <3>2
      <4> QED BY <1>6, <1>7, <1>8, <2>1, <4>1
    <3> QED BY <3>1, <3>2
  <2>3. Len(t) = Len(u) /\ \A i \in 1..Len(t) : t[i] = u[i]
    BY <1>4, <2>1, <2>2
  <2> QED BY <2>1, <2>3, SeqEqual
<1>11. n < Cells
  <2>1. enqueue_pos < Low + Cells
    BY <1>1 DEF RingInv, SightsAreTrue, At
  <2> QED BY <1>4, <2>1, RingNumbers
<1>12. ASSUME NEW i \in 1..n PROVE s[i] # p
  <2>1. PICK j \in d..(d + n - 1) : j = d + i - 1
    OBVIOUS
  <2>2. s[i] = Place(j)
    BY <1>7, <2>1
  <2>3. CASE Filled(j)
    BY <1>2, <1>3, <1>5, <2>2, <2>3, LogAssumption DEF PlacesTrue
  <2>4. CASE ~Filled(j)
    BY <1>1, <1>2, <1>3, <1>5, <2>2, <2>4 DEF PlacesTrue, At
  <2> QED BY <2>3, <2>4
<1>13. DOMAIN s = 1..n
  BY <1>4, LenProperties
<1> QED BY <1>1, <1>2, <1>4, <1>10, <1>11, <1>12, <1>13

LEMMA StorePlaces ==
  ASSUME RingInv, RingInv', NEW p \in Thread, Store(p)
  PROVE  /\ queue_type = "mpmc" /\ queue_type' = queue_type /\ line' = line
         /\ Holding(p) \in Lines
         /\ \E i \in DOMAIN Places :
              Places[i] = p /\ Places' = [Places EXCEPT ![i] = Holding(p)]
<1> USE DEF mpmcVars, blockingVars, threadVars, workerVars, historyVars
<1>1. /\ pc[p] = "store" /\ pc[p] # "idle" /\ Returns(p)
      /\ UNCHANGED <<enqueue_pos, dequeue_pos, wpc, pos, queue_type, line>>
  BY DEF Store, At
<1>2. queue_type = "mpmc"
  <2>1. queue_type \in {"mpmc", "blocking"} /\ ~(pc[p] \in {"idle", "put", "sync"})
    BY <1>1 DEF RingInv, TypeOK
  <2> QED BY <2>1 DEF RingInv, HandsAreTrue
<1>3. PlacesTrue /\ PlacesTrue'
  BY PlacesNow, PlacesThen
<1>4. pc'[p] = "idle" /\ \A q \in Thread \ {p} : pc'[q] = pc[q]
  BY <1>1, ReturnsFacts
<1>5. PICK x \in Lines : x = Holding(p)
  BY <1>1, HoldingIsLine
<1>6. PICK n \in Nat, d \in Nat, s \in Seq(Thread \cup Lines), t \in Seq(Thread \cup Lines) :
        /\ n = enqueue_pos - dequeue_pos /\ d = dequeue_pos /\ enqueue_pos = d + n
        /\ s = Places /\ t = Places' /\ Len(s) = n /\ Len(t) = n
        /\ \A i \in 1..n : s[i] = Place(d + i - 1) /\ t[i] = Place(d + i - 1)'
  <2>1. PICK n \in Nat, d \in Nat : n = enqueue_pos - dequeue_pos /\ d = dequeue_pos
    BY RingNumbers
  <2>2. /\ Places \in Seq(Thread \cup Lines) /\ Len(Places) = n
        /\ \A i \in 1..n : Places[i] = Place(d + i - 1)
    BY <1>2, <1>3, <2>1 DEF PlacesTrue
  <2>3. Places' \in Seq(Thread \cup Lines) /\ Len(Places') = n
        /\ \A i \in 1..n : Places'[i] = Place(d + i - 1)'
    BY <1>1, <1>2, <1>3, <2>1 DEF PlacesTrue
  <2>4. enqueue_pos = d + n
    BY <2>1, RingNumbers
  <2> QED BY <2>1, <2>2, <2>3, <2>4
<1>7. PICK k \in d..(d + n - 1) : k = pos[p]
  <2>1. pos[p] \in dequeue_pos..(enqueue_pos - 1)
    BY StoreRing
  <2> QED BY <1>6, <2>1
<1>8. \A j \in d..(d + n - 1) : /\ j \in dequeue_pos..(enqueue_pos - 1)
                                /\ j \in dequeue_pos'..(enqueue_pos' - 1)
                                /\ j \in Low..(Low + Cells - 1)
  <2>1. \A j \in d..(d + n - 1) : j \in dequeue_pos..(enqueue_pos - 1)
    BY <1>6
  <2>2. \A j \in dequeue_pos..(enqueue_pos - 1) : j \in Low..(Low + Cells - 1)
    BY RingNumbers
  <2> QED BY <1>1, <2>1, <2>2
<1>9. \A j \in d..(d + n - 1) :
        CellOf(j)' = IF j = k THEN [sequence |-> k + 1, data |-> x] ELSE CellOf(j)
  BY <1>5, <1>7, <1>8, StoreRing
<1>10. Place(k) = p /\ Place(k)' = x
  <2>1. Place(k) = p
    BY <1>1, <1>2, <1>3, <1>7, <1>8 DEF PlacesTrue, At
  <2>2. CellOf(k)' = [sequence |-> k + 1, data |-> x]
    BY <1>9
  <2>3. Filled(k)' /\ CellOf(k)'.data = x
    BY <2>2 DEF Filled
  <2>4. Place(k)' = x
    BY <1>1, <1>2, <1>3, <1>8, <2>3 DEF PlacesTrue
  <2> QED BY <2>1, <2>4
<1>11. ASSUME NEW j \in d..(d + n - 1), j # k PROVE Place(j)' = Place(j)
  <2>1. CellOf(j)' = CellOf(j)
    BY <1>9, <1>11
  <2>2. \A q \in Thread : pc[q] = "store" /\ pos[q] = j => pc'[q] = "store" /\ pos'[q] = j
    BY <1>1, <1>4, <1>7, <1>11
  <2> QED BY <1>1, <1>2, <1>8, <2>1, <2>2, PlaceFrame
<1>12. PICK m \in 1..n : m = k - d + 1 /\ k = d + m - 1
  OBVIOUS
<1>13. s[m] = p
  BY <1>6, <1>10, <1>12
<1>14. t = [s EXCEPT ![m] = x]
  <2>1. PICK u \in Seq(Thread \cup Lines) :
          /\ u = [s EXCEPT ![m] = x] /\ Len(u) = n
          /\ \A i \in 1..n : u[i] = IF i = m THEN x ELSE s[i]
    <3>1. x \in Thread \cup Lines /\ m \in 1..Len(s)
      BY <1>6
    <3>2. /\ [s EXCEPT ![m] = x] \in Seq(Thread \cup Lines)
          /\ Len([s EXCEPT ![m] = x]) = Len(s)
          /\ \A i \in 1..Len(s) : [s EXCEPT ![m] = x][i] = IF i = m THEN x ELSE s[i]
      BY <3>1, ExceptSeq
    <3> QED BY <1>6, <3>2, Zenon
  <2>2. ASSUME NEW i \in 1..n PROVE t[i] = u[i]
    <3>1. PICK j \in d..(d + n - 1) : j = d + i - 1
      OBVIOUS
    <3>2. i = m <=> j = k
      BY <1>12, <3>1
    <3> QED BY <1>6, <1>10, <1>11, <2>1, <3>1, <3>2
  <2>3. Len(t) = Len(u) /\ \A i \in 1..Len(t) : t[i] = u[i]
    BY <1>6, <2>1, <2>2
  <2> QED BY <2>1, <2>3, SeqEqual
<1>15. m \in DOMAIN s
  BY <1>6, LenProperties
<1> QED BY <1>1, <1>2, <1>5, <1>6, <1>13, <1>14, <1>15

LEMMA PopPlaces ==
  ASSUME RingInv, RingInv', Pops
  PROVE  /\ queue_type = "mpmc" /\ queue_type' = queue_type /\ line = Nobody
         /\ Places # << >> /\ Head(Places) \in Lines
         /\ line' = Head(Places) /\ Places' = Tail(Places)
<1> USE DEF mpmcVars, blockingVars, threadVars, workerVars, historyVars
<1>1. /\ wpc = "pop" /\ queue_type = "mpmc" /\ dequeue_pos' = dequeue_pos + 1
      /\ dequeue_pos < enqueue_pos
      /\ line' = CellOf(dequeue_pos).data /\ line' \in Lines
      /\ UNCHANGED <<cells, enqueue_pos, pc, pos, queue_type>>
  BY PopRing DEF Pops, Pop
<1>2. line = Nobody
  BY <1>1 DEF RingInv, HandsAreTrue
<1>3. PlacesTrue /\ PlacesTrue'
  BY PlacesNow, PlacesThen
<1>4. PICK n \in Nat, d \in Nat, s \in Seq(Thread \cup Lines), t \in Seq(Thread \cup Lines) :
        /\ n + 1 = enqueue_pos - dequeue_pos /\ d = dequeue_pos
        /\ enqueue_pos = d + n + 1 /\ enqueue_pos' = d + n + 1 /\ dequeue_pos' = d + 1
        /\ s = Places /\ t = Places' /\ Len(s) = n + 1 /\ Len(t) = n
        /\ \A i \in 1..(n + 1) : s[i] = Place(d + i - 1)
        /\ \A i \in 1..n : t[i] = Place((d + 1) + i - 1)'
  <2>1. PICK n \in Nat, d \in Nat : n + 1 = enqueue_pos - dequeue_pos /\ d = dequeue_pos
    <3>1. enqueue_pos - dequeue_pos - 1 \in Nat /\ dequeue_pos \in Nat
      BY <1>1, RingNumbers
    <3> QED BY <3>1, RingNumbers
  <2>2. /\ enqueue_pos = d + n + 1 /\ enqueue_pos' = d + n + 1 /\ dequeue_pos' = d + 1
        /\ enqueue_pos' - dequeue_pos' = n
    BY <1>1, <2>1, RingNumbers
  <2>3. /\ Places \in Seq(Thread \cup Lines) /\ Len(Places) = n + 1
        /\ \A i \in 1..(n + 1) : Places[i] = Place(d + i - 1)
    BY <1>1, <1>3, <2>1 DEF PlacesTrue
  <2>4. /\ Places' \in Seq(Thread \cup Lines) /\ Len(Places') = n
        /\ \A i \in 1..n : Places'[i] = Place((d + 1) + i - 1)'
    BY <1>1, <1>3, <2>2 DEF PlacesTrue
  <2> QED BY <2>1, <2>2, <2>3, <2>4
<1>5. \A j \in (d + 1)..(d + n) : /\ j \in dequeue_pos..(enqueue_pos - 1)
                                  /\ j \in dequeue_pos'..(enqueue_pos' - 1)
  BY <1>4
<1>6. \A j \in (d + 1)..(d + n) : Place(j)' = Place(j)
  <2> TAKE j \in (d + 1)..(d + n)
  <2>1. CellOf(j)' = CellOf(j)
    BY <1>1 DEF CellOf
  <2>2. \A q \in Thread : pc[q] = "store" /\ pos[q] = j => pc'[q] = "store" /\ pos'[q] = j
    BY <1>1
  <2> QED BY <1>1, <1>5, <2>1, <2>2, PlaceFrame
<1>7. s # << >> /\ 1 \in 1..(n + 1) /\ d + 1 - 1 = d
  BY <1>4
<1>8. Head(s) = Place(d)
  <2>1. Head(s) = s[1]
    BY <1>4, <1>7
  <2> QED BY <1>4, <1>7, <2>1
<1>9. Place(d) = line' /\ line' \in Lines
  <2>1. d \in dequeue_pos..(enqueue_pos - 1) /\ Filled(d)
    BY <1>4 DEF Pops
  <2> QED BY <1>1, <1>3, <1>4, <2>1 DEF PlacesTrue
<1>10. t = Tail(s)
  <2>1. PICK u \in Seq(Thread \cup Lines) :
          u = Tail(s) /\ Len(u) = n /\ \A i \in 1..n : u[i] = s[i + 1]
    <3>1. /\ Tail(s) \in Seq(Thread \cup Lines) /\ Len(Tail(s)) = Len(s) - 1
          /\ \A i \in 1..Len(Tail(s)) : Tail(s)[i] = s[i + 1]
      BY <1>7, HeadTailProperties
    <3>2. Len(Tail(s)) = n
      BY <1>4, <3>1
    <3> QED BY <3>1, <3>2, Zenon
  <2>2. ASSUME NEW i \in 1..n PROVE t[i] = u[i]
    <3>1. PICK j \in (d + 1)..(d + n) : j = (d + 1) + i - 1 /\ j = d + (i + 1) - 1
      OBVIOUS
    <3>2. i + 1 \in 1..(n + 1)
      OBVIOUS
    <3>3. t[i] = Place(j)' /\ s[i + 1] = Place(j)
      BY <1>4, <3>1, <3>2
    <3> QED BY <1>6, <2>1, <3>3
  <2>3. Len(t) = Len(u) /\ \A i \in 1..Len(t) : t[i] = u[i]
    BY <1>4, <2>1, <2>2
  <2> QED BY <2>1, <2>3, SeqEqual
<1> QED BY <1>1, <1>2, <1>4, <1>7, <1>8, <1>9, <1>10

-----------------------------------------------------------------------------
(* The queue is first-in first-out.                                        *)

LEMMA QueueInit == Init => LQ!Init
<1> SUFFICES ASSUME Init PROVE LQ!Init
  OBVIOUS
<1>1. Places = << >>
  <2>1. queue_type \in {"mpmc", "blocking"} /\ deque = << >> /\ enqueue_pos - dequeue_pos = 0
    BY DEF Init
  <2>2. 1..0 = {}
    OBVIOUS
  <2>3. [i \in 1..0 |-> Place(dequeue_pos + i - 1)] = << >>
    BY <2>2
  <2> QED BY <2>1, <2>3 DEF Places
<1> QED BY <1>1 DEF Init, LQ!Init

\* Steps of the threads that move no line and no claim, ...
LEMMA ThreadPlaces ==
  ASSUME RingInv, RingInv', NEW p \in Thread,
         ReadRunning(p) \/ LoadPos(p) \/ LookAtCell(p) \/ (Claim(p) /\ ~Claims(p))
           \/ WriteByCaller(p)
  PROVE  Places' = Places
<1> USE DEF mpmcVars, blockingVars, threadVars, workerVars, historyVars
<1>1. pc[p] # "store" /\ \A q \in Thread \ {p} : pc'[q] = pc[q]
  <2>1. CASE WriteByCaller(p)
    <3>1. pc[p] = "sync" /\ pc[p] # "idle" /\ Returns(p)
      BY <2>1 DEF WriteByCaller, At
    <3> QED BY <3>1, ReturnsFacts
  <2>2. CASE ~WriteByCaller(p)
    BY <2>2 DEF ReadRunning, LoadPos, LookAtCell, Claim, At, Goto, RingInv, TypeOK
  <2> QED BY <2>1, <2>2
<1>2. \A q \in Thread : pc[q] = "store" => pc'[q] = "store"
  BY <1>1
<1>3. UNCHANGED <<queue_type, cells, enqueue_pos, dequeue_pos, deque>>
  BY DEF ReadRunning, LoadPos, LookAtCell, Claim, Claims, WriteByCaller
<1>4. \A q \in Thread \ {p} : pos'[q] = pos[q]
  BY DEF ReadRunning, LoadPos, LookAtCell, Claim, WriteByCaller, RingInv, TypeOK
<1> QED BY <1>1, <1>2, <1>3, <1>4, PlacesFrame

\* ... and of the others.
LEMMA QuietPlaces ==
  ASSUME RingInv, RingInv',
         (Pop /\ ~Pops) \/ FreeCell \/ Rest \/ Start \/ Stop \/ Join \/ FlushAndClose
  PROVE  Places' = Places
<1> USE DEF mpmcVars, blockingVars, threadVars, workerVars, historyVars
<1>1. ASSUME FreeCell PROVE Places' = Places
  <2>1. wpc = "free" /\ UNCHANGED <<queue_type, enqueue_pos, dequeue_pos, pos, pc, deque>>
    BY <1>1 DEF FreeCell
  <2>2. queue_type = "mpmc"
    BY <2>1 DEF RingInv, HandsAreTrue, TypeOK
  <2>3. \A j \in dequeue_pos..(enqueue_pos - 1) : Place(j)' = Place(j)
    <3> TAKE j \in dequeue_pos..(enqueue_pos - 1)
    <3>1. CellOf(j)' = CellOf(j)
      BY <1>1, FreeCellRing
    <3>2. \A q \in Thread : pc[q] = "store" /\ pos[q] = j => pc'[q] = "store" /\ pos'[q] = j
      BY <2>1
    <3> QED BY <2>1, <2>2, <3>1, <3>2, PlaceFrame
  <2>4. PICK n \in Nat, d \in Nat : n = enqueue_pos - dequeue_pos /\ d = dequeue_pos
    BY RingNumbers
  <2>5. Places = [i \in 1..n |-> Place(d + i - 1)]
    BY <2>2, <2>4 DEF Places
  <2>6. Places' = [i \in 1..n |-> Place(d + i - 1)']
    BY <2>1, <2>2, <2>4 DEF Places
  <2>7. \A i \in 1..n : Place(d + i - 1)' = Place(d + i - 1)
    BY <2>3, <2>4, RingNumbers
  <2> QED BY <2>5, <2>6, <2>7
<1>2. ASSUME (Pop /\ ~Pops) \/ Rest \/ Start \/ Stop \/ Join \/ FlushAndClose
      PROVE  Places' = Places
  <2>1. UNCHANGED <<queue_type, cells, enqueue_pos, dequeue_pos, pos, pc, deque>>
    BY <1>2 DEF Pop, Pops, Filled, Rest, Start, Stop, Join, FlushAndClose
  <2> QED BY <2>1, PlacesFrame
<1> QED BY <1>1, <1>2

LEMMA QueueStep ==
  ASSUME RingInv, RingInv', Next
  PROVE  LQ!Next \/ UNCHANGED <<Places, line>>
<1> USE DEF mpmcVars, blockingVars, threadVars, workerVars, historyVars
<1>1. ASSUME NEW p \in Thread, ReadRunning(p) \/ LoadPos(p) \/ LookAtCell(p)
                                 \/ (Claim(p) /\ ~Claims(p)) \/ WriteByCaller(p)
      PROVE  UNCHANGED <<Places, line>>
  <2>1. line' = line
    BY <1>1 DEF ReadRunning, LoadPos, LookAtCell, Claim, WriteByCaller
  <2> QED BY <1>1, <2>1, ThreadPlaces
<1>2. ASSUME NEW p \in Thread, Put(p) PROVE LQ!Next
  <2>1. pc[p] = "put" /\ pc[p] # "idle"
    BY <1>2 DEF Put, At
  <2>2. queue_type = "blocking" /\ queue_type' = queue_type /\ line' = line
    BY <1>2, <2>1 DEF Put, RingInv, HandsAreTrue, TypeOK
  <2>3. Holding(p) \in Lines
    BY <2>1, HoldingIsLine
  <2>4. Places' = Append(Places, Holding(p))
    BY <1>2, <2>2 DEF Put, Places
  <2>5. LQ!Put(Holding(p))
    BY <2>2, <2>4 DEF LQ!Put
  <2> QED BY <2>3, <2>5 DEF LQ!Next
<1>3. ASSUME NEW p \in Thread, Claims(p) PROVE LQ!Next
  <2>1. LQ!Claim(p)
    BY <1>3, ClaimPlaces DEF LQ!Claim
  <2> QED BY <2>1 DEF LQ!Next
<1>4. ASSUME NEW p \in Thread, Store(p) PROVE LQ!Next
  <2>1. LQ!Fill(p, Holding(p)) /\ Holding(p) \in Lines
    BY <1>4, StorePlaces DEF LQ!Fill
  <2> QED BY <2>1 DEF LQ!Next
<1>5. ASSUME PopBlocking PROVE LQ!Next \/ UNCHANGED <<Places, line>>
  <2>1. queue_type = "blocking" /\ queue_type' = queue_type /\ wpc = "pop"
    BY <1>5 DEF PopBlocking
  <2>2. Places = deque /\ Places' = deque'
    BY <2>1 DEF Places
  <2>3. CASE UNCHANGED <<deque, line>>
    BY <2>2, <2>3
  <2>4. CASE deque # << >> /\ deque' = Tail(deque) /\ line' = Head(deque)
    <3>1. line = Nobody
      BY <2>1 DEF RingInv, HandsAreTrue
    <3>2. Head(deque) \in Lines
      <4>1. PICK s \in Seq(Lines) : s = deque
        BY DEF RingInv, TypeOK
      <4> QED BY <2>4, <4>1, HeadTailProperties
    <3>3. LQ!Take
      BY <2>2, <2>4, <3>1, <3>2 DEF LQ!Take
    <3> QED BY <3>3 DEF LQ!Next
  <2> QED BY <1>5, <2>3, <2>4 DEF PopBlocking
<1>6. ASSUME Pops PROVE LQ!Next
  <2>1. LQ!Take
    BY <1>6, PopPlaces DEF LQ!Take
  <2> QED BY <2>1 DEF LQ!Next
<1>7. ASSUME (Pop /\ ~Pops) \/ FreeCell \/ Rest \/ Start \/ Stop \/ Join \/ FlushAndClose
      PROVE  UNCHANGED <<Places, line>>
  <2>1. line' = line
    BY <1>7 DEF Pop, Pops, Filled, FreeCell, Rest, Start, Stop, Join, FlushAndClose
  <2> QED BY <1>7, <2>1, QuietPlaces
<1>8. ASSUME WriteByWorker PROVE LQ!Next
  <2>1. /\ wpc = "write" /\ line' = Nobody
        /\ UNCHANGED <<queue_type, cells, enqueue_pos, dequeue_pos, pos, pc, deque>>
    BY <1>8 DEF WriteByWorker
  <2>2. Places' = Places
    BY <2>1, PlacesFrame
  <2>3. line # Nobody
    BY <2>1 DEF RingInv, HandsAreTrue
  <2>4. LQ!Write
    BY <2>1, <2>2, <2>3 DEF LQ!Write
  <2> QED BY <2>4 DEF LQ!Next
<1> QED BY <1>1, <1>2, <1>3, <1>4, <1>5, <1>6, <1>7, <1>8 DEF Next, LogThread

LEMMA QueueStutter ==
  ASSUME RingInv, RingInv', UNCHANGED vars
  PROVE  UNCHANGED <<Places, line>>
<1>1. UNCHANGED <<queue_type, cells, enqueue_pos, dequeue_pos, pos, pc, deque, line>>
  BY DEF vars, mpmcVars, blockingVars, threadVars, workerVars
<1> QED BY <1>1, PlacesFrame

(* Both queues implement the first-in first-out queue of LineQueue: no line  *)
(* is overwritten, taken twice or taken before it is stored, for any number *)
(* of threads, lines and cells (logging.cc, 100-117 and 147-228).           *)
THEOREM QueueImplementsFifo == Spec => QueueIsFifo
<1>1. RingInv /\ RingInv' /\ [Next]_vars => [LQ!Next]_<<Places, line>>
  BY QueueStep, QueueStutter
<1> QED BY <1>1, QueueInit, RingHolds, PTL DEF Spec, QueueIsFifo, LQ!Spec

-----------------------------------------------------------------------------
(* The lines that are queued.                                              *)

\* The queued lines are those that the places show.
QueuedTrue ==
  /\ Places \in Seq(Thread \cup Lines)
  /\ \A x : x \in Queued <=> x \in Lines /\ \E i \in 1..Len(Places) : Places[i] = x

LEMMA QueuedNow == RingInv => QueuedTrue
<1> SUFFICES ASSUME RingInv PROVE QueuedTrue
  OBVIOUS
<1>1. CASE queue_type = "blocking"
  <2>1. Places = deque
    BY <1>1 DEF Places
  <2>2. PICK s \in Seq(Lines) : s = deque
    BY DEF RingInv, TypeOK
  <2>3. s \in Seq(Thread \cup Lines)
    BY SeqMonotonic
  <2>4. DOMAIN s = 1..Len(s) /\ \A i \in 1..Len(s) : s[i] \in Lines
    BY LenProperties, ElementOfSeq
  <2>5. enqueue_pos = 0 /\ dequeue_pos = 0
    BY <1>1 DEF RingInv, HandsAreTrue
  <2>6. {j \in dequeue_pos..(enqueue_pos - 1) : CellOf(j).sequence = j + 1} = {}
    BY <2>5
  <2>7. Queued = {s[i] : i \in 1..Len(s)}
    BY <2>2, <2>4, <2>6 DEF Queued
  <2> QED BY <2>1, <2>2, <2>3, <2>4, <2>7 DEF QueuedTrue
<1>2. CASE queue_type = "mpmc"
  <2>1. PlacesTrue
    BY PlacesNow
  <2>2. deque = << >>
    BY <1>2 DEF RingInv, HandsAreTrue
  <2>3. {deque[i] : i \in DOMAIN deque} = {}
    BY <2>2
  <2>4. \A x : x \in Queued <=> \E j \in dequeue_pos..(enqueue_pos - 1) :
                                  Filled(j) /\ x = CellOf(j).data
    BY <2>3 DEF Queued, Filled
  <2>5. PICK n \in Nat, d \in Nat : n = enqueue_pos - dequeue_pos /\ d = dequeue_pos
                                     /\ enqueue_pos = d + n
    BY RingNumbers
  <2>6. /\ Places \in Seq(Thread \cup Lines) /\ Len(Places) = n
        /\ \A i \in 1..n : Places[i] = Place(d + i - 1)
    BY <1>2, <2>1, <2>5 DEF PlacesTrue
  <2>7. \A j \in d..(d + n - 1) : /\ Filled(j) => Place(j) = CellOf(j).data
                                  /\ Filled(j) <=> Place(j) \in Lines
    BY <1>2, <2>1, <2>5 DEF PlacesTrue
  <2>8. ASSUME NEW x \in Queued
        PROVE  x \in Lines /\ \E i \in 1..n : Places[i] = x
    <3>1. PICK j \in d..(d + n - 1) : Filled(j) /\ x = CellOf(j).data
      BY <2>4, <2>5, <2>8
    <3>2. PICK i \in 1..n : i = j - d + 1 /\ d + i - 1 = j
      OBVIOUS
    <3> QED BY <2>6, <2>7, <3>1, <3>2
  <2>9. ASSUME NEW x \in Lines, NEW i \in 1..n, Places[i] = x
        PROVE  x \in Queued
    <3>1. PICK j \in d..(d + n - 1) : j = d + i - 1
      OBVIOUS
    <3>2. Place(j) = x /\ Filled(j) /\ x = CellOf(j).data
      BY <2>6, <2>7, <2>9, <3>1
    <3> QED BY <2>4, <2>5, <3>2
  <2> QED BY <2>6, <2>8, <2>9 DEF QueuedTrue
<1> QED BY <1>1, <1>2 DEF RingInv, TypeOK

LEMMA QueuedThen == RingInv' => QueuedTrue'
BY QueuedNow, PTL

\* What a step may do to the queued lines.
LEMMA QueuedSame ==
  ASSUME RingInv, RingInv', Places' = Places
  PROVE  Queued' = Queued
BY QueuedNow, QueuedThen DEF QueuedTrue

LEMMA QueuedAppend ==
  ASSUME RingInv, RingInv', NEW x \in Thread \cup Lines, Places' = Append(Places, x)
  PROVE  /\ Queued' = Queued \cup ({x} \cap Lines)
         /\ Len(Places) \in Nat /\ Len(Places') = Len(Places) + 1
         /\ \A i \in 1..Len(Places) : Places'[i] = Places[i]
         /\ Places'[Len(Places) + 1] = x
<1>1. QueuedTrue /\ QueuedTrue'
  BY QueuedNow, QueuedThen
<1>2. PICK s \in Seq(Thread \cup Lines), t \in Seq(Thread \cup Lines) :
        s = Places /\ t = Places'
  BY <1>1 DEF QueuedTrue
<1>3. PICK n \in Nat : n = Len(s)
  BY LenProperties
<1>4. t = Append(s, x)
  BY <1>2
<1>5. Len(t) = n + 1 /\ (\A i \in 1..n : t[i] = s[i]) /\ t[n + 1] = x
  BY <1>3, <1>4, AppendProperties
<1>6. \A i \in 1..(n + 1) : i \in 1..n \/ i = n + 1
  OBVIOUS
<1>7. \A y : (\E i \in 1..(n + 1) : t[i] = y) <=> (\E i \in 1..n : s[i] = y) \/ y = x
  BY <1>5, <1>6
<1>8. \A y : y \in Queued' <=> y \in Queued \/ (y = x /\ x \in Lines)
  BY <1>1, <1>2, <1>3, <1>5, <1>7 DEF QueuedTrue
<1>9. Queued' = Queued \cup ({x} \cap Lines)
  BY <1>8
<1> QED BY <1>2, <1>3, <1>5, <1>9

LEMMA QueuedFill ==
  ASSUME RingInv, RingInv', NEW p \in Thread, NEW x \in Lines, NEW m \in DOMAIN Places,
         Places[m] = p, Places' = [Places EXCEPT ![m] = x]
  PROVE  /\ Queued' = Queued \cup {x}
         /\ m \in 1..Len(Places) /\ Len(Places') = Len(Places)
         /\ \A i \in 1..Len(Places) : Places'[i] = IF i = m THEN x ELSE Places[i]
<1>1. QueuedTrue /\ QueuedTrue'
  BY QueuedNow, QueuedThen
<1>2. PICK s \in Seq(Thread \cup Lines), t \in Seq(Thread \cup Lines) :
        s = Places /\ t = Places'
  BY <1>1 DEF QueuedTrue
<1>3. DOMAIN s = 1..Len(s) /\ Len(s) \in Nat
  BY LenProperties
<1>4. t = [s EXCEPT ![m] = x] /\ m \in 1..Len(s)
  BY <1>2, <1>3
<1>5. Len(t) = Len(s) /\ \A i \in 1..Len(s) : t[i] = IF i = m THEN x ELSE s[i]
  <2>1. x \in Thread \cup Lines
    OBVIOUS
  <2> QED BY <1>4, <2>1, ExceptSeq
<1>6. p \notin Lines
  BY LogAssumption
<1>7. \A y \in Lines : (\E i \in 1..Len(s) : t[i] = y) <=> (\E i \in 1..Len(s) : s[i] = y) \/ y = x
  <2> TAKE y \in Lines
  <2>1. s[m] # y
    BY <1>2, <1>6
  <2> QED BY <1>4, <1>5, <2>1
<1>8. \A y : y \in Queued' <=> y \in Queued \/ y = x
  BY <1>1, <1>2, <1>5, <1>7 DEF QueuedTrue
<1> QED BY <1>2, <1>4, <1>5, <1>8

LEMMA QueuedTail ==
  ASSUME RingInv, RingInv', Places # << >>, Head(Places) \in Lines, Places' = Tail(Places)
  PROVE  /\ Queued = Queued' \cup {Head(Places)} /\ Head(Places) = Places[1]
         /\ Len(Places') \in Nat /\ Len(Places) = Len(Places') + 1
         /\ \A i \in 1..Len(Places') : Places'[i] = Places[i + 1]
<1>1. QueuedTrue /\ QueuedTrue'
  BY QueuedNow, QueuedThen
<1>2. PICK s \in Seq(Thread \cup Lines), t \in Seq(Thread \cup Lines) :
        s = Places /\ t = Places'
  BY <1>1 DEF QueuedTrue
<1>3. PICK n \in Nat : n = Len(t)
  BY LenProperties
<1>4. s # << >> /\ t = Tail(s) /\ Head(s) \in Lines
  BY <1>2
<1>5. Len(s) = n + 1 /\ \A i \in 1..n : t[i] = s[i + 1]
  <2>1. Len(Tail(s)) = Len(s) - 1 /\ \A i \in 1..Len(Tail(s)) : Tail(s)[i] = s[i + 1]
    BY <1>4, HeadTailProperties
  <2>2. Len(s) \in Nat
    BY LenProperties
  <2> QED BY <1>3, <1>4, <2>1, <2>2
<1>6. Head(s) = s[1]
  BY <1>4
<1>7. \A y : (\E i \in 1..(n + 1) : s[i] = y) <=> (\E i \in 1..n : t[i] = y) \/ y = Head(s)
  <2> TAKE y
  <2>1. ASSUME NEW i \in 1..(n + 1), s[i] = y, y # Head(s) PROVE \E k \in 1..n : t[k] = y
    <3>1. i # 1
      BY <1>6, <2>1
    <3>2. PICK k \in 1..n : k + 1 = i
      <4>1. i - 1 \in 1..n /\ (i - 1) + 1 = i
        BY <3>1
      <4> QED BY <4>1
    <3> QED BY <1>5, <2>1, <3>2
  <2>2. ASSUME NEW k \in 1..n PROVE \E i \in 1..(n + 1) : s[i] = t[k]
    <3>1. k + 1 \in 1..(n + 1)
      OBVIOUS
    <3> QED BY <1>5, <3>1
  <2>3. 1 \in 1..(n + 1)
    OBVIOUS
  <2> QED BY <1>6, <2>1, <2>2, <2>3
<1>8. \A y : y \in Queued <=> y \in Queued' \/ y = Head(s)
  BY <1>1, <1>2, <1>3, <1>4, <1>5, <1>7 DEF QueuedTrue
<1> QED BY <1>2, <1>3, <1>5, <1>6, <1>8

-----------------------------------------------------------------------------
(* The lines.                                                              *)

CoreLines == LinesAccounted /\ LinesAreOld /\ QueueIsOrdered /\ TakenIsOlder

LEMMA CoreSame ==
  ASSUME RingInv, RingInv', CoreLines, UNCHANGED <<Places, line, written, number>>
  PROVE  CoreLines'
<1>1. Queued' = Queued /\ WrittenLines' = WrittenLines
  BY QueuedSame DEF WrittenLines
<1>2. LinesAccounted'
  BY <1>1 DEF CoreLines, LinesAccounted
<1>3. LinesAreOld'
  BY <1>1 DEF CoreLines, LinesAreOld
<1>4. QueueIsOrdered'
  BY DEF CoreLines, QueueIsOrdered
<1>5. TakenIsOlder'
  BY <1>1 DEF CoreLines, TakenIsOlder
<1> QED BY <1>2, <1>3, <1>4, <1>5 DEF CoreLines

\* What is queued, held or written is a line, older than its thread's next.
LEMMA LinesNow ==
  ASSUME RingInv, CoreLines
  PROVE  /\ Queued \subseteq Lines /\ WrittenLines \subseteq Lines
         /\ DOMAIN written = 1..Len(written) /\ Len(written) \in Nat
         /\ line \in Lines \cup {Nobody} /\ Nobody \notin Lines
         /\ \A x \in Lines : x[1] \in Thread /\ x[2] \in Nat
         /\ \A x \in Lines : x = <<x[1], x[2]>>
         /\ \A p \in Thread : number[p] \in Nat \ {0} /\ Holding(p)[1] = p /\ Holding(p)[2] = number[p]
         /\ \A p \in Thread : Holding(p) \notin WrittenLines \cup Queued
         /\ \A p \in Thread : Holding(p) \in Lines => line # Holding(p)
<1>1. Queued \subseteq Lines
  BY QueuedNow DEF QueuedTrue
<1>2. PICK w \in Seq([line : Lines, by : Thread \cup {"worker"}]) : w = written
  BY DEF RingInv, TypeOK
<1>3. DOMAIN w = 1..Len(w) /\ Len(w) \in Nat
      /\ \A i \in 1..Len(w) : w[i] \in [line : Lines, by : Thread \cup {"worker"}]
  BY LenProperties, ElementOfSeq
<1>4. WrittenLines \subseteq Lines
  BY <1>2, <1>3 DEF WrittenLines
<1>5. line \in Lines \cup {Nobody} /\ Nobody \notin Lines
  BY LogAssumption DEF RingInv, TypeOK
<1>6. /\ \A x \in Lines : x[1] \in Thread /\ x[2] \in Nat
      /\ \A x \in Lines : x = <<x[1], x[2]>>
  BY DEF Lines
<1>7. \A p \in Thread : /\ number[p] \in Nat \ {0}
                        /\ Holding(p)[1] = p /\ Holding(p)[2] = number[p]
  BY LogAssumption DEF Holding, RingInv, TypeOK
<1>8. ASSUME NEW p \in Thread, Holding(p) \in WrittenLines \cup Queued \cup ({line} \ {Nobody})
      PROVE  FALSE
  BY <1>7, <1>8 DEF CoreLines, LinesAreOld
<1>9. \A p \in Thread : Holding(p) \notin WrittenLines \cup Queued
  BY <1>8
<1>10. \A p \in Thread : Holding(p) \in Lines => line # Holding(p)
  BY <1>5, <1>8
<1> QED BY <1>1, <1>2, <1>3, <1>4, <1>5, <1>6, <1>7, <1>9, <1>10

\* A place claimed: no line moves.
LEMMA CoreClaim ==
  ASSUME RingInv, RingInv', CoreLines, NEW p \in Thread, Places' = Append(Places, p),
         UNCHANGED <<line, written, number>>
  PROVE  CoreLines'
<1>1. p \notin Lines
  BY LogAssumption
<1>2. /\ Queued' = Queued
      /\ Len(Places) \in Nat /\ Len(Places') = Len(Places) + 1
      /\ \A i \in 1..Len(Places) : Places'[i] = Places[i]
      /\ Places'[Len(Places) + 1] = p
  BY <1>1, QueuedAppend
<1>3. WrittenLines' = WrittenLines
  BY DEF WrittenLines
<1>4. LinesAccounted'
  BY <1>2, <1>3 DEF CoreLines, LinesAccounted
<1>5. LinesAreOld'
  BY <1>2, <1>3 DEF CoreLines, LinesAreOld
<1>6. QueueIsOrdered'
  <2>1. ASSUME NEW i \in 1..Len(Places'), NEW j \in 1..Len(Places'), i < j, Places'[j] \in Lines
        PROVE  /\ Places'[i] \in Lines /\ Places'[i][1] = Places'[j][1]
                    => Places'[i][2] < Places'[j][2]
               /\ Places'[i] # Places'[j][1]
    <3>1. j # Len(Places) + 1
      BY <1>1, <1>2, <2>1
    <3>2. i \in 1..Len(Places) /\ j \in 1..Len(Places)
      BY <1>2, <2>1, <3>1
    <3> QED BY <1>2, <2>1, <3>2 DEF CoreLines, QueueIsOrdered
  <2> QED BY <2>1 DEF QueueIsOrdered
<1>7. TakenIsOlder'
  BY <1>2 DEF CoreLines, TakenIsOlder
<1> QED BY <1>4, <1>5, <1>6, <1>7 DEF CoreLines

\* A line queued by the return of Append, wherever its place.
LEMMA CoreQueued ==
  ASSUME RingInv, RingInv', CoreLines, NEW p \in Thread, Holding(p) \in Lines,
         Queued' = Queued \cup {Holding(p)}, UNCHANGED <<line, written>>,
         number'[p] = number[p] + 1, \A q \in Thread \ {p} : number'[q] = number[q]
  PROVE  LinesAccounted' /\ LinesAreOld' /\ TakenIsOlder'
<1>1. WrittenLines' = WrittenLines
  BY DEF WrittenLines
<1>2. PICK x \in Lines : x = Holding(p) /\ x[1] = p /\ x[2] = number[p]
  BY LinesNow
<1>3. x \notin WrittenLines \cup Queued /\ line # x
  BY <1>2, LinesNow
<1>4. \A q \in Thread : number[q] \in Nat
  BY LinesNow
<1>5. LinesAccounted'
  <2>1. WrittenLines' \cap (Queued' \cup {line'}) = {} /\ line' \notin Queued'
    BY <1>1, <1>2, <1>3 DEF CoreLines, LinesAccounted
  <2>2. ASSUME NEW q \in Thread, NEW n \in 1..(number'[q] - 1)
        PROVE  <<q, n>> \in WrittenLines \cup Queued' \cup {line}
    <3>1. CASE q = p /\ n = number[p]
      BY <1>2, <3>1 DEF Holding
    <3>2. CASE ~(q = p /\ n = number[p])
      <4>1. n \in 1..(number[q] - 1)
        BY <1>4, <2>2, <3>2
      <4> QED BY <4>1 DEF CoreLines, LinesAccounted
    <3> QED BY <3>1, <3>2
  <2>3. \A q \in Thread : \A n \in 1..(number'[q] - 1) :
          <<q, n>> \in WrittenLines' \cup Queued' \cup {line'}
    BY <1>1, <2>2
  <2> QED BY <2>1, <2>3 DEF CoreLines, LinesAccounted
<1>6. LinesAreOld'
  <2>1. ASSUME NEW y \in WrittenLines \cup Queued' \cup ({line} \ {Nobody})
        PROVE  y[2] < number'[y[1]]
    <3>1. CASE y = x
      BY <1>2, <1>4, <3>1
    <3>2. CASE y # x
      <4>1. y \in WrittenLines \cup Queued \cup ({line} \ {Nobody}) /\ y[2] < number[y[1]]
        BY <1>2, <3>2 DEF CoreLines, LinesAreOld
      <4>2. y[1] \in Thread /\ y[2] \in Nat
        BY <4>1, LinesNow
      <4> QED BY <1>4, <4>1, <4>2
    <3> QED BY <3>1, <3>2
  <2> QED BY <1>1, <2>1 DEF LinesAreOld
<1>7. TakenIsOlder'
  <2>1. ASSUME NEW y \in Queued', line # Nobody, line[1] = y[1] PROVE line[2] < y[2]
    <3>1. CASE y = x
      BY <1>2, <2>1, <3>1 DEF CoreLines, LinesAreOld
    <3>2. CASE y # x
      BY <1>2, <2>1, <3>2 DEF CoreLines, TakenIsOlder
    <3> QED BY <3>1, <3>2
  <2>2. ASSUME NEW i \in DOMAIN written, NEW y \in Queued' \cup ({line} \ {Nobody}),
               written[i].by = "worker", written[i].line[1] = y[1]
        PROVE  written[i].line[2] < y[2]
    <3>1. CASE y = x
      <4>1. written[i].line \in WrittenLines
        BY DEF WrittenLines
      <4> QED BY <1>2, <2>2, <3>1, <4>1 DEF CoreLines, LinesAreOld
    <3>2. CASE y # x
      BY <1>2, <2>2, <3>2 DEF CoreLines, TakenIsOlder
    <3> QED BY <3>1, <3>2
  <2> QED BY <2>1, <2>2 DEF TakenIsOlder
<1> QED BY <1>5, <1>6, <1>7

LEMMA CorePut ==
  ASSUME RingInv, RingInv', CoreLines, NEW p \in Thread, Holding(p) \in Lines,
         Places' = Append(Places, Holding(p)), \A i \in 1..Len(Places) : Places[i] \in Lines,
         UNCHANGED <<line, written>>,
         number'[p] = number[p] + 1, \A q \in Thread \ {p} : number'[q] = number[q]
  PROVE  CoreLines'
<1>1. /\ Queued' = Queued \cup {Holding(p)}
      /\ Len(Places) \in Nat /\ Len(Places') = Len(Places) + 1
      /\ \A i \in 1..Len(Places) : Places'[i] = Places[i]
      /\ Places'[Len(Places) + 1] = Holding(p)
  BY QueuedAppend
<1>2. QueueIsOrdered'
  <2>1. ASSUME NEW i \in 1..Len(Places'), NEW j \in 1..Len(Places'), i < j, Places'[j] \in Lines
        PROVE  /\ Places'[i] \in Lines /\ Places'[i][1] = Places'[j][1]
                    => Places'[i][2] < Places'[j][2]
               /\ Places'[i] # Places'[j][1]
    <3>1. i \in 1..Len(Places) /\ Places'[i] = Places[i] /\ Places[i] \in Lines
      BY <1>1, <2>1
    <3>2. Places[i] \in Queued
      BY <3>1, QueuedNow DEF QueuedTrue
    <3>3. Places'[i] # Places'[j][1]
      BY <2>1, <3>1, LinesNow, LogAssumption
    <3>4. CASE j = Len(Places) + 1
      <4>1. Places'[j] = Holding(p)
        BY <1>1, <3>4
      <4>2. Places[i][2] < number[Places[i][1]]
        BY <3>2 DEF CoreLines, LinesAreOld
      <4> QED BY <3>1, <3>3, <4>1, <4>2, LinesNow
    <3>5. CASE j # Len(Places) + 1
      <4>1. j \in 1..Len(Places) /\ Places'[j] = Places[j]
        BY <1>1, <2>1, <3>5
      <4> QED BY <2>1, <3>1, <3>3, <4>1 DEF CoreLines, QueueIsOrdered
    <3> QED BY <3>4, <3>5
  <2> QED BY <2>1 DEF QueueIsOrdered
<1> QED BY <1>1, <1>2, CoreQueued DEF CoreLines

LEMMA CoreFill ==
  ASSUME RingInv, RingInv', CoreLines, NEW p \in Thread, Holding(p) \in Lines,
         NEW m \in DOMAIN Places, Places[m] = p, \A i \in DOMAIN Places : Places[i] = p => i = m,
         Places' = [Places EXCEPT ![m] = Holding(p)], UNCHANGED <<line, written>>,
         number'[p] = number[p] + 1, \A q \in Thread \ {p} : number'[q] = number[q]
  PROVE  CoreLines'
<1>1. PICK x \in Lines : x = Holding(p) /\ x[1] = p /\ x[2] = number[p]
  BY LinesNow
<1>2. /\ Queued' = Queued \cup {x}
      /\ m \in 1..Len(Places) /\ Len(Places') = Len(Places)
      /\ \A i \in 1..Len(Places) : Places'[i] = IF i = m THEN x ELSE Places[i]
  BY <1>1, QueuedFill
<1>3. \A i \in 1..Len(Places) : i # m => Places[i] # p
  <2>1. PICK s \in Seq(Thread \cup Lines) : s = Places
    BY QueuedNow DEF QueuedTrue
  <2>2. DOMAIN s = 1..Len(s)
    BY LenProperties
  <2> QED BY <2>1, <2>2
<1>4. QueueIsOrdered'
  <2>1. ASSUME NEW i \in 1..Len(Places), NEW j \in 1..Len(Places), i < j, Places'[j] \in Lines
        PROVE  /\ Places'[i] \in Lines /\ Places'[i][1] = Places'[j][1]
                    => Places'[i][2] < Places'[j][2]
               /\ Places'[i] # Places'[j][1]
    <3>1. CASE j = m
      <4>1. Places'[i] = Places[i] /\ Places'[j] = x /\ Places[i] # p
        BY <1>2, <1>3, <2>1, <3>1
      <4>2. Places[i] \in Lines => Places[i][2] < number[Places[i][1]]
        <5>1. Places[i] \in Lines => Places[i] \in Queued
          BY QueuedNow DEF QueuedTrue
        <5> QED BY <5>1 DEF CoreLines, LinesAreOld
      <4> QED BY <1>1, <4>1, <4>2
    <3>2. CASE i = m
      <4>1. Places'[i] = x /\ Places'[j] = Places[j] /\ Places[i] = p
        BY <1>2, <2>1, <3>2
      <4>2. Places[j] \in Lines /\ p # Places[j][1]
        BY <2>1, <4>1 DEF CoreLines, QueueIsOrdered
      <4>3. Places[j][1] \in Thread /\ x \notin Thread
        BY <4>2, LinesNow, LogAssumption
      <4> QED BY <1>1, <4>1, <4>2, <4>3
    <3>3. CASE i # m /\ j # m
      <4>1. Places'[i] = Places[i] /\ Places'[j] = Places[j]
        BY <1>2, <3>3
      <4> QED BY <2>1, <4>1 DEF CoreLines, QueueIsOrdered
    <3> QED BY <3>1, <3>2, <3>3
  <2> QED BY <1>2, <2>1 DEF QueueIsOrdered
<1>5. Queued' = Queued \cup {Holding(p)}
  BY <1>1, <1>2
<1> QED BY <1>4, <1>5, CoreQueued DEF CoreLines

LEMMA CoreTake ==
  ASSUME RingInv, RingInv', CoreLines, line = Nobody, Places # << >>, Head(Places) \in Lines,
         line' = Head(Places), Places' = Tail(Places), UNCHANGED <<written, number>>
  PROVE  CoreLines'
<1>1. /\ Queued = Queued' \cup {line'} /\ line' = Places[1] /\ line' \in Lines
      /\ Len(Places') \in Nat /\ Len(Places) = Len(Places') + 1
      /\ \A i \in 1..Len(Places') : Places'[i] = Places[i + 1]
  BY QueuedTail
<1>2. WrittenLines' = WrittenLines
  BY DEF WrittenLines
<1>3. \A y \in Queued' : line'[1] = y[1] => line'[2] < y[2]
  <2> TAKE y \in Queued'
  <2>1. PICK i \in 1..Len(Places') : Places'[i] = y /\ y \in Lines
    BY QueuedThen DEF QueuedTrue
  <2>2. /\ 1 \in 1..Len(Places) /\ i + 1 \in 1..Len(Places) /\ 1 < i + 1
        /\ Places[i + 1] = y
    BY <1>1, <2>1
  <2> QED BY <1>1, <2>1, <2>2 DEF CoreLines, QueueIsOrdered
<1>4. line' \notin Queued'
  <2>1. line'[2] \in Nat
    BY <1>1, LinesNow
  <2> QED BY <1>3, <2>1
<1>5. LinesAccounted'
  <2>1. WrittenLines' \cap (Queued' \cup {line'}) = {}
    BY <1>1, <1>2 DEF CoreLines, LinesAccounted
  <2>2. \A q \in Thread : \A n \in 1..(number'[q] - 1) :
          <<q, n>> \in WrittenLines' \cup Queued' \cup {line'}
    <3> TAKE q \in Thread
    <3> TAKE n \in 1..(number'[q] - 1)
    <3>1. <<q, n>> \in WrittenLines \cup Queued \cup {line}
      BY DEF CoreLines, LinesAccounted
    <3>2. <<q, n>> # Nobody
      <4>1. number[q] \in 1..(MaxLine + 1)
        BY DEF RingInv, TypeOK
      <4>2. n \in 1..MaxLine
        BY <4>1, LogAssumption
      <4>3. <<q, n>> \in Lines
        BY <4>2 DEF Lines
      <4> QED BY <4>3, LogAssumption
    <3> QED BY <1>1, <1>2, <3>1, <3>2
  <2> QED BY <1>4, <2>1, <2>2 DEF CoreLines, LinesAccounted
<1>6. LinesAreOld'
  BY <1>1, <1>2 DEF CoreLines, LinesAreOld
<1>7. QueueIsOrdered'
  <2>1. ASSUME NEW i \in 1..Len(Places'), NEW j \in 1..Len(Places'), i < j, Places'[j] \in Lines
        PROVE  /\ Places'[i] \in Lines /\ Places'[i][1] = Places'[j][1]
                    => Places'[i][2] < Places'[j][2]
               /\ Places'[i] # Places'[j][1]
    <3>1. i + 1 \in 1..Len(Places) /\ j + 1 \in 1..Len(Places) /\ i + 1 < j + 1
      BY <1>1, <2>1
    <3>2. Places'[i] = Places[i + 1] /\ Places'[j] = Places[j + 1]
      BY <1>1
    <3> QED BY <2>1, <3>1, <3>2 DEF CoreLines, QueueIsOrdered
  <2> QED BY <2>1 DEF QueueIsOrdered
<1>8. TakenIsOlder'
  <2>1. ASSUME NEW i \in DOMAIN written, NEW y \in Queued' \cup {line'},
               written[i].by = "worker", written[i].line[1] = y[1]
        PROVE  written[i].line[2] < y[2]
    BY <1>1, <2>1 DEF CoreLines, TakenIsOlder
  <2> QED BY <1>3, <2>1 DEF TakenIsOlder
<1> QED BY <1>5, <1>6, <1>7, <1>8 DEF CoreLines

\* What WriteSync adds to the history.
LEMMA WriteAdds ==
  ASSUME RingInv, NEW x \in Lines, NEW who \in Thread \cup {"worker"}, WriteSync(x, who)
  PROVE  /\ WrittenLines' = WrittenLines \cup {x}
         /\ DOMAIN written = 1..Len(written) /\ Len(written) \in Nat
         /\ DOMAIN written' = 1..(Len(written) + 1)
         /\ \A i \in 1..Len(written) : written'[i] = written[i]
         /\ written'[Len(written) + 1].line = x /\ written'[Len(written) + 1].by = who
<1>1. PICK w \in Seq([line : Lines, by : Thread \cup {"worker"}]) : w = written
  BY DEF RingInv, TypeOK
<1>2. PICK e \in [line : Lines, by : Thread \cup {"worker"}] :
        e = [line |-> x, by |-> who] /\ e.line = x /\ e.by = who
  <2>1. [line |-> x, by |-> who] \in [line : Lines, by : Thread \cup {"worker"}]
    OBVIOUS
  <2>2. [line |-> x, by |-> who].line = x /\ [line |-> x, by |-> who].by = who
    OBVIOUS
  <2> QED BY <2>1, <2>2, Zenon
<1>3. PICK n \in Nat : n = Len(w) /\ DOMAIN w = 1..n
  BY LenProperties
<1>4. PICK v \in Seq([line : Lines, by : Thread \cup {"worker"}]) :
        /\ v = Append(w, e) /\ Len(v) = n + 1 /\ DOMAIN v = 1..(n + 1)
        /\ \A i \in 1..n : v[i] = w[i]
        /\ v[n + 1] = e
  <2>1. /\ Append(w, e) \in Seq([line : Lines, by : Thread \cup {"worker"}])
        /\ Len(Append(w, e)) = Len(w) + 1
        /\ \A i \in 1..Len(w) : Append(w, e)[i] = w[i]
        /\ Append(w, e)[Len(w) + 1] = e
    BY AppendProperties
  <2>2. DOMAIN Append(w, e) = 1..Len(Append(w, e))
    BY <2>1, LenProperties
  <2> QED BY <1>3, <2>1, <2>2, Zenon
<1>5. written' = v
  BY <1>1, <1>2, <1>4 DEF WriteSync
<1>6. \A i \in 1..(n + 1) : i \in 1..n \/ i = n + 1
  OBVIOUS
<1>7. {v[i].line : i \in 1..(n + 1)} = {w[i].line : i \in 1..n} \cup {x}
  <2>1. ASSUME NEW i \in 1..(n + 1) PROVE v[i].line \in {w[k].line : k \in 1..n} \cup {x}
    BY <1>2, <1>4, <1>6
  <2>2. ASSUME NEW i \in 1..n PROVE w[i].line \in {v[k].line : k \in 1..(n + 1)}
    <3>1. i \in 1..(n + 1) /\ v[i] = w[i]
      BY <1>4
    <3> QED BY <3>1
  <2>3. n + 1 \in 1..(n + 1)
    OBVIOUS
  <2>4. x \in {v[k].line : k \in 1..(n + 1)}
    BY <1>2, <1>4, <2>3
  <2> QED BY <2>1, <2>2, <2>4
<1>8. WrittenLines' = WrittenLines \cup {x}
  <2>1. WrittenLines = {w[i].line : i \in 1..n}
    BY <1>1, <1>3, Zenon DEF WrittenLines
  <2>2. WrittenLines' = {v[i].line : i \in 1..(n + 1)}
    BY <1>4, <1>5, Zenon DEF WrittenLines
  <2> QED BY <1>7, <2>1, <2>2
<1> QED BY <1>1, <1>2, <1>3, <1>4, <1>5, <1>8

\* A line written is behind all others written, and by the log thread in order.
LEMMA WrittenInOrder ==
  ASSUME RingInv, CoreLines, NEW x \in Lines, NEW who \in Thread \cup {"worker"},
         WriteSync(x, who), x \notin WrittenLines,
         who = "worker" => \A i \in DOMAIN written :
           written[i].by = "worker" /\ written[i].line[1] = x[1] => written[i].line[2] < x[2]
  PROVE  \A i, j \in DOMAIN written' : i < j =>
           /\ written'[i].line # written'[j].line
           /\ written'[i].by = "worker" /\ written'[j].by = "worker"
                /\ written'[i].line[1] = written'[j].line[1]
                => written'[i].line[2] < written'[j].line[2]
<1>1. PICK n \in Nat : /\ n = Len(written) /\ DOMAIN written = 1..n /\ DOMAIN written' = 1..(n + 1)
                       /\ \A i \in 1..n : written'[i] = written[i]
                       /\ written'[n + 1].line = x /\ written'[n + 1].by = who
  BY WriteAdds
<1> SUFFICES ASSUME NEW i \in 1..(n + 1), NEW j \in 1..(n + 1), i < j
             PROVE  /\ written'[i].line # written'[j].line
                    /\ written'[i].by = "worker" /\ written'[j].by = "worker"
                         /\ written'[i].line[1] = written'[j].line[1]
                         => written'[i].line[2] < written'[j].line[2]
  BY <1>1
<1>2. i \in 1..n /\ written'[i] = written[i]
  BY <1>1
<1>3. CASE j = n + 1
  <2>1. written[i].line \in WrittenLines
    BY <1>1, <1>2 DEF WrittenLines
  <2> QED BY <1>1, <1>2, <1>3, <2>1
<1>4. CASE j # n + 1
  <2>1. j \in 1..n /\ written'[j] = written[j]
    BY <1>1, <1>4
  <2> QED BY <1>1, <1>2, <2>1 DEF CoreLines, LinesAccounted
<1> QED BY <1>3, <1>4

LEMMA CoreByCaller ==
  ASSUME RingInv, RingInv', CoreLines, NEW p \in Thread, Holding(p) \in Lines,
         WriteSync(Holding(p), p), UNCHANGED <<Places, line>>,
         number'[p] = number[p] + 1, \A q \in Thread \ {p} : number'[q] = number[q]
  PROVE  CoreLines'
<1>1. PICK x \in Lines : x = Holding(p) /\ x[1] = p /\ x[2] = number[p]
  BY LinesNow
<1>2. x \notin WrittenLines \cup Queued /\ line # x /\ p # "worker"
  BY <1>1, LinesNow, LogAssumption
<1>3. Queued' = Queued /\ WrittenLines' = WrittenLines \cup {x}
  BY <1>1, QueuedSame, WriteAdds
<1>4. \A q \in Thread : number[q] \in Nat
  BY LinesNow
<1>5. LinesAccounted'
  <2>1. WrittenLines' \cap (Queued' \cup {line'}) = {} /\ line' \notin Queued'
    BY <1>2, <1>3 DEF CoreLines, LinesAccounted
  <2>2. ASSUME NEW q \in Thread, NEW n \in 1..(number'[q] - 1)
        PROVE  <<q, n>> \in WrittenLines' \cup Queued' \cup {line'}
    <3>1. CASE q = p /\ n = number[p]
      BY <1>1, <1>3, <3>1 DEF Holding
    <3>2. CASE ~(q = p /\ n = number[p])
      <4>1. n \in 1..(number[q] - 1)
        BY <1>4, <2>2, <3>2
      <4> QED BY <1>3, <4>1 DEF CoreLines, LinesAccounted
    <3> QED BY <3>1, <3>2
  <2>3. \A i, j \in DOMAIN written' : i < j =>
           /\ written'[i].line # written'[j].line
           /\ written'[i].by = "worker" /\ written'[j].by = "worker"
                /\ written'[i].line[1] = written'[j].line[1]
                => written'[i].line[2] < written'[j].line[2]
    BY <1>1, <1>2, WrittenInOrder
  <2> QED BY <2>1, <2>2, <2>3 DEF LinesAccounted
<1>6. LinesAreOld'
  <2>1. ASSUME NEW y \in WrittenLines' \cup Queued' \cup ({line} \ {Nobody})
        PROVE  y[2] < number'[y[1]]
    <3>1. CASE y = x
      BY <1>1, <1>4, <3>1
    <3>2. CASE y # x
      <4>1. y \in WrittenLines \cup Queued \cup ({line} \ {Nobody}) /\ y[2] < number[y[1]]
        BY <1>3, <3>2 DEF CoreLines, LinesAreOld
      <4>2. y[1] \in Thread /\ y[2] \in Nat
        BY <4>1, LinesNow
      <4> QED BY <1>4, <4>1, <4>2
    <3> QED BY <3>1, <3>2
  <2> QED BY <2>1 DEF LinesAreOld
<1>7. QueueIsOrdered'
  BY DEF CoreLines, QueueIsOrdered
<1>8. TakenIsOlder'
  <2>1. PICK n \in Nat : /\ n = Len(written) /\ DOMAIN written = 1..n /\ DOMAIN written' = 1..(n + 1)
                         /\ \A i \in 1..n : written'[i] = written[i]
                         /\ written'[n + 1].by = p
    BY <1>1, WriteAdds
  <2>2. ASSUME NEW i \in DOMAIN written', NEW y \in Queued \cup ({line} \ {Nobody}),
               written'[i].by = "worker", written'[i].line[1] = y[1]
        PROVE  written'[i].line[2] < y[2]
    <3>1. i \in DOMAIN written /\ written'[i] = written[i]
      BY <1>2, <2>1, <2>2
    <3> QED BY <2>2, <3>1 DEF CoreLines, TakenIsOlder
  <2>3. \A y \in Queued : line # Nobody /\ line[1] = y[1] => line[2] < y[2]
    BY DEF CoreLines, TakenIsOlder
  <2> QED BY <1>3, <2>2, <2>3 DEF TakenIsOlder
<1> QED BY <1>5, <1>6, <1>7, <1>8 DEF CoreLines

LEMMA CoreByWorker ==
  ASSUME RingInv, RingInv', CoreLines, line # Nobody, WriteSync(line, "worker"),
         line' = Nobody, UNCHANGED <<Places, number>>
  PROVE  CoreLines'
<1>1. line \in Lines /\ line \notin WrittenLines /\ line \notin Queued /\ Nobody \notin Lines
      /\ WrittenLines \subseteq Lines /\ Queued \subseteq Lines
  <2>1. line \in Lines
    BY LinesNow
  <2> QED BY <2>1, LinesNow DEF CoreLines, LinesAccounted
<1>2. Queued' = Queued /\ WrittenLines' = WrittenLines \cup {line}
  BY <1>1, QueuedSame, WriteAdds
<1>3. LinesAccounted'
  <2>1. WrittenLines' \cap (Queued' \cup {line'}) = {} /\ line' \notin Queued'
    BY <1>1, <1>2 DEF CoreLines, LinesAccounted
  <2>2. \A q \in Thread : \A n \in 1..(number'[q] - 1) :
          <<q, n>> \in WrittenLines' \cup Queued' \cup {line'}
    BY <1>2 DEF CoreLines, LinesAccounted
  <2>3. \A i \in DOMAIN written :
          written[i].by = "worker" /\ written[i].line[1] = line[1] => written[i].line[2] < line[2]
    BY DEF CoreLines, TakenIsOlder
  <2>4. \A i, j \in DOMAIN written' : i < j =>
           /\ written'[i].line # written'[j].line
           /\ written'[i].by = "worker" /\ written'[j].by = "worker"
                /\ written'[i].line[1] = written'[j].line[1]
                => written'[i].line[2] < written'[j].line[2]
    BY <1>1, <2>3, WrittenInOrder
  <2> QED BY <2>1, <2>2, <2>4 DEF LinesAccounted
<1>4. LinesAreOld'
  BY <1>2 DEF CoreLines, LinesAreOld
<1>5. QueueIsOrdered'
  BY DEF CoreLines, QueueIsOrdered
<1>6. TakenIsOlder'
  <2>1. PICK n \in Nat : /\ n = Len(written) /\ DOMAIN written = 1..n /\ DOMAIN written' = 1..(n + 1)
                         /\ \A i \in 1..n : written'[i] = written[i]
                         /\ written'[n + 1].line = line
    BY <1>1, WriteAdds
  <2>2. ASSUME NEW i \in DOMAIN written', NEW y \in Queued,
               written'[i].by = "worker", written'[i].line[1] = y[1]
        PROVE  written'[i].line[2] < y[2]
    <3>1. CASE i = n + 1
      BY <2>1, <2>2, <3>1 DEF CoreLines, TakenIsOlder
    <3>2. CASE i # n + 1
      <4>1. i \in DOMAIN written /\ written'[i] = written[i]
        BY <2>1, <3>2
      <4> QED BY <2>2, <4>1 DEF CoreLines, TakenIsOlder
    <3> QED BY <3>1, <3>2
  <2> QED BY <1>2, <2>2 DEF TakenIsOlder
<1> QED BY <1>3, <1>4, <1>5, <1>6 DEF CoreLines

LEMMA CoreStep ==
  ASSUME RingInv, RingInv', CoreLines, Next
  PROVE  CoreLines'
<1> USE DEF mpmcVars, blockingVars, threadVars, workerVars, historyVars
<1>1. ASSUME NEW p \in Thread, ReadRunning(p) \/ LoadPos(p) \/ LookAtCell(p)
                                 \/ (Claim(p) /\ ~Claims(p))
      PROVE  CoreLines'
  <2>1. UNCHANGED <<line, written, number>>
    BY <1>1 DEF ReadRunning, LoadPos, LookAtCell, Claim
  <2> QED BY <1>1, <2>1, ThreadPlaces, CoreSame
<1>2. ASSUME NEW p \in Thread, Put(p) \/ Store(p) \/ WriteByCaller(p)
      PROVE  /\ pc[p] # "idle" /\ Holding(p) \in Lines /\ line' = line
             /\ number'[p] = number[p] + 1 /\ \A q \in Thread \ {p} : number'[q] = number[q]
             /\ \A q \in Thread \ {p} : pc'[q] = pc[q]
  <2>1. pc[p] \in {"put", "store", "sync"} /\ Returns(p) /\ line' = line
    BY <1>2 DEF Put, Store, WriteByCaller, At
  <2>2. pc[p] # "idle"
    BY <2>1
  <2> QED BY <2>1, <2>2, HoldingIsLine, ReturnsFacts
<1>3. ASSUME NEW p \in Thread, Put(p) PROVE CoreLines'
  <2>1. queue_type = "blocking" /\ queue_type' = queue_type /\ written' = written
    BY <1>3 DEF Put, At, RingInv, HandsAreTrue, TypeOK
  <2>2. Places = deque /\ Places' = Append(Places, Holding(p))
    BY <1>3, <2>1 DEF Put, Places
  <2>3. \A i \in 1..Len(Places) : Places[i] \in Lines
    <3>1. PICK s \in Seq(Lines) : s = Places
      BY <2>2 DEF RingInv, TypeOK
    <3> QED BY <3>1, ElementOfSeq
  <2> QED BY <1>2, <1>3, <2>1, <2>2, <2>3, CorePut
<1>4. ASSUME NEW p \in Thread, Claims(p) PROVE CoreLines'
  <2>1. UNCHANGED <<line, written, number>>
    BY <1>4 DEF Claims, Claim
  <2> QED BY <1>4, <2>1, ClaimPlaces, CoreClaim
<1>5. ASSUME NEW p \in Thread, Store(p) PROVE CoreLines'
  <2>1. PICK m \in DOMAIN Places : Places[m] = p /\ Places' = [Places EXCEPT ![m] = Holding(p)]
    BY <1>5, StorePlaces
  <2>2. queue_type = "mpmc" /\ PlacesTrue
    BY <1>5, StorePlaces, PlacesNow
  <2>3. PICK n \in Nat, d \in Nat, s \in Seq(Thread \cup Lines) :
          /\ n = enqueue_pos - dequeue_pos /\ d = dequeue_pos /\ enqueue_pos = d + n
          /\ s = Places /\ Len(s) = n /\ \A i \in 1..n : s[i] = Place(d + i - 1)
    <3>1. PICK n \in Nat, d \in Nat : n = enqueue_pos - dequeue_pos /\ d = dequeue_pos
                                       /\ enqueue_pos = d + n
      BY RingNumbers
    <3> QED BY <2>2, <3>1 DEF PlacesTrue
  <2>4. DOMAIN s = 1..n
    BY <2>3, LenProperties
  <2>5. ASSUME NEW i \in 1..n, s[i] = p PROVE pos[p] = d + i - 1
    <3>1. PICK j \in d..(d + n - 1) : j = d + i - 1
      OBVIOUS
    <3>2. Place(j) = p /\ p \notin Lines
      BY <2>3, <2>5, <3>1, LogAssumption
    <3> QED BY <2>2, <2>3, <3>1, <3>2 DEF PlacesTrue
  <2>6. \A i \in DOMAIN Places : Places[i] = p => i = m
    <3>1. m \in 1..n /\ s[m] = p
      BY <2>1, <2>3, <2>4
    <3>2. \A i \in 1..n : s[i] = p => d + i - 1 = d + m - 1
      BY <2>5, <3>1
    <3>3. \A i \in 1..n : s[i] = p => i = m
      BY <3>1, <3>2
    <3> QED BY <2>3, <2>4, <3>3, Zenon
  <2>7. written' = written
    BY <1>5 DEF Store
  <2> QED BY <1>2, <1>5, <2>1, <2>6, <2>7, CoreFill
<1>6. ASSUME NEW p \in Thread, WriteByCaller(p) PROVE CoreLines'
  <2>1. WriteSync(Holding(p), p)
    BY <1>6 DEF WriteByCaller
  <2>2. Places' = Places
    BY <1>6, ThreadPlaces
  <2> QED BY <1>2, <1>6, <2>1, <2>2, CoreByCaller
<1>7. ASSUME PopBlocking PROVE CoreLines'
  <2>1. /\ queue_type = "blocking" /\ queue_type' = queue_type /\ wpc = "pop"
        /\ UNCHANGED <<written, number>>
    BY <1>7 DEF PopBlocking
  <2>2. Places = deque /\ Places' = deque'
    BY <2>1 DEF Places
  <2>3. CASE UNCHANGED <<deque, line>>
    BY <2>1, <2>2, <2>3, CoreSame
  <2>4. CASE deque # << >> /\ deque' = Tail(deque) /\ line' = Head(deque)
    <3>1. line = Nobody
      BY <2>1 DEF RingInv, HandsAreTrue
    <3>2. Head(deque) \in Lines
      <4>1. PICK s \in Seq(Lines) : s = deque
        BY DEF RingInv, TypeOK
      <4> QED BY <2>4, <4>1, HeadTailProperties
    <3> QED BY <2>1, <2>2, <2>4, <3>1, <3>2, CoreTake
  <2> QED BY <1>7, <2>3, <2>4 DEF PopBlocking
<1>8. ASSUME Pops PROVE CoreLines'
  <2>1. UNCHANGED <<written, number>>
    BY <1>8 DEF Pops, Pop
  <2> QED BY <1>8, <2>1, PopPlaces, CoreTake
<1>9. ASSUME WriteByWorker PROVE CoreLines'
  <2>1. /\ wpc = "write" /\ line' = Nobody /\ WriteSync(line, "worker")
        /\ UNCHANGED <<queue_type, cells, enqueue_pos, dequeue_pos, pos, pc, deque, number>>
    BY <1>9 DEF WriteByWorker
  <2>2. Places' = Places
    BY <2>1, PlacesFrame
  <2>3. line # Nobody
    BY <2>1 DEF RingInv, HandsAreTrue
  <2> QED BY <2>1, <2>2, <2>3, CoreByWorker
<1>10. ASSUME (Pop /\ ~Pops) \/ FreeCell \/ Rest \/ Start \/ Stop \/ Join \/ FlushAndClose
       PROVE  CoreLines'
  <2>1. UNCHANGED <<line, written, number>>
    BY <1>10 DEF Pop, Pops, Filled, FreeCell, Rest, Start, Stop, Join, FlushAndClose
  <2>2. Places' = Places
    BY <1>10, QuietPlaces
  <2> QED BY <2>1, <2>2, CoreSame
<1> QED BY <1>1, <1>3, <1>4, <1>5, <1>6, <1>7, <1>8, <1>9, <1>10 DEF Next, LogThread

-----------------------------------------------------------------------------
(* Stopping.                                                               *)

LEMMA InitLines == Init => LinesInv
<1> SUFFICES ASSUME Init PROVE LinesInv
  OBVIOUS
<1>1. RingInv /\ Places = << >>
  <2>1. LQ!Init
    BY QueueInit
  <2> QED BY <2>1, InitRing DEF LQ!Init
<1>2. Queued = {} /\ Len(Places) = 0
  <2>1. Len(Places) = 0
    BY <1>1
  <2>2. 1..0 = {}
    OBVIOUS
  <2> QED BY <1>1, <2>1, <2>2, QueuedNow DEF QueuedTrue
<1>3. /\ written = << >> /\ DOMAIN written = {} /\ line = Nobody /\ before = {}
      /\ wpc = "off" /\ mpc = "init" /\ \A p \in Thread : number[p] = 1
  BY DEF Init
<1>4. WrittenLines = {}
  BY <1>3 DEF WrittenLines
<1>5. \A p \in Thread : 1..(number[p] - 1) = {}
  BY <1>3
<1>6. LinesAccounted
  BY <1>2, <1>3, <1>4, <1>5 DEF LinesAccounted
<1>7. LinesAreOld /\ TakenIsOlder
  BY <1>2, <1>3, <1>4 DEF LinesAreOld, TakenIsOlder
<1>8. QueueIsOrdered
  BY <1>2 DEF QueueIsOrdered
<1>9. RestIsBlind /\ BeforeIsOld /\ ClosedIsDone
  BY <1>2, <1>3 DEF RestIsBlind, BeforeIsOld, ClosedIsDone
<1> QED BY <1>6, <1>7, <1>8, <1>9 DEF LinesInv

\* The log thread comes to rest on an empty queue, or on a blind one.
LEMMA RestStep ==
  ASSUME RingInv, RingInv', RestIsBlind, Next
  PROVE  RestIsBlind'
<1> USE DEF mpmcVars, blockingVars, threadVars, workerVars, historyVars
<1>1. ASSUME NEW p \in Thread, ReadRunning(p) \/ LoadPos(p) \/ LookAtCell(p)
                                 \/ (Claim(p) /\ ~Claims(p)) \/ WriteByCaller(p)
      PROVE  RestIsBlind'
  <2>1. UNCHANGED <<Places, wpc, blind>>
    <3>1. UNCHANGED <<wpc, blind>>
      BY <1>1 DEF ReadRunning, LoadPos, LookAtCell, Claim, WriteByCaller
    <3> QED BY <1>1, <3>1, ThreadPlaces
  <2> QED BY <2>1, QueuedSame DEF RestIsBlind
<1>2. ASSUME NEW p \in Thread, Claims(p) PROVE RestIsBlind'
  <2>1. Places' = Append(Places, p) /\ p \notin Lines
    BY <1>2, ClaimPlaces, LogAssumption
  <2>2. Queued' = Queued
    BY <2>1, QueuedAppend
  <2>3. UNCHANGED <<wpc, blind>>
    BY <1>2 DEF Claims, Claim
  <2> QED BY <2>2, <2>3 DEF RestIsBlind
<1>3. ASSUME NEW p \in Thread, Put(p) \/ Store(p) PROVE RestIsBlind'
  <2>1. blind' = blind \cup {Holding(p)} /\ wpc' = wpc
    BY <1>3 DEF Put, Store
  <2>2. Holding(p) \in Lines
    <3>1. pc[p] \in {"put", "store"}
      BY <1>3 DEF Put, Store, At
    <3> QED BY <3>1, HoldingIsLine
  <2>3. Queued' = Queued \cup {Holding(p)}
    <3>1. CASE Store(p)
      <4>1. PICK m \in DOMAIN Places : Places[m] = p /\ Places' = [Places EXCEPT ![m] = Holding(p)]
        BY <3>1, StorePlaces
      <4> QED BY <2>2, <4>1, QueuedFill
    <3>2. CASE Put(p)
      <4>1. queue_type = "blocking" /\ queue_type' = queue_type
        BY <3>2 DEF Put, At, RingInv, HandsAreTrue, TypeOK
      <4>2. Places' = Append(Places, Holding(p))
        BY <3>2, <4>1 DEF Put, Places
      <4> QED BY <2>2, <4>2, QueuedAppend
    <3> QED BY <1>3, <3>1, <3>2
  <2> QED BY <2>1, <2>3 DEF RestIsBlind
<1>4. ASSUME PopBlocking PROVE RestIsBlind'
  <2>1. CASE wpc' = "write"
    BY <2>1 DEF RestIsBlind
  <2>2. CASE deque = << >> /\ deque' = deque
    <3>1. queue_type' = "blocking"
      BY <1>4 DEF PopBlocking
    <3>2. Places' = << >>
      BY <2>2, <3>1 DEF Places
    <3>3. Len(Places') = 0 /\ 1..0 = {}
      BY <3>2
    <3>4. Queued' = {}
      BY <3>3, QueuedThen DEF QueuedTrue
    <3> QED BY <3>4 DEF RestIsBlind
  <2> QED BY <1>4, <2>1, <2>2 DEF PopBlocking
<1>5. ASSUME Pop PROVE RestIsBlind'
  <2>1. CASE wpc' = "free"
    BY <2>1 DEF RestIsBlind
  <2>2. CASE wpc' # "free"
    <3>1. ~Pops
      BY <2>2, PopRing
    <3>2. Queued' = Queued
      BY <1>5, <3>1, QuietPlaces, QueuedSame
    <3>3. CASE enqueue_pos = dequeue_pos
      <4>1. queue_type = "mpmc"
        BY <1>5 DEF Pop
      <4>2. Len(Places) = 0 /\ 1..0 = {}
        BY <3>3, <4>1, PlacesNow, RingNumbers DEF PlacesTrue
      <4>3. Queued = {}
        BY <4>2, QueuedNow DEF QueuedTrue
      <4> QED BY <3>2, <4>3 DEF RestIsBlind
    <3>4. CASE enqueue_pos # dequeue_pos
      <4>1. blind' = Queued
        BY <1>5, <2>2, <3>4 DEF Pop
      <4> QED BY <3>2, <4>1 DEF RestIsBlind
    <3> QED BY <3>3, <3>4
  <2> QED BY <2>1, <2>2
<1>6. ASSUME FreeCell \/ WriteByWorker \/ Start PROVE RestIsBlind'
  BY <1>6 DEF FreeCell, WriteByWorker, Start, RestIsBlind
<1>7. ASSUME Rest \/ Stop \/ Join \/ FlushAndClose PROVE RestIsBlind'
  <2>1. Queued' = Queued
    BY <1>7, QuietPlaces, QueuedSame
  <2>2. wpc' \in {"empty", "done"} => wpc \in {"empty", "done"}
    BY <1>7 DEF Rest, Stop, Join, FlushAndClose
  <2>3. blind' = blind
    BY <1>7 DEF Rest, Stop, Join, FlushAndClose
  <2> QED BY <2>1, <2>2, <2>3 DEF RestIsBlind
<1> QED BY <1>1, <1>2, <1>3, <1>4, <1>5, <1>6, <1>7 DEF Next, LogThread

LEMMA BeforeStep ==
  ASSUME RingInv, BeforeIsOld, Next
  PROVE  BeforeIsOld'
<1> USE DEF mpmcVars, blockingVars, threadVars, workerVars, historyVars
<1>1. /\ before \subseteq Lines
      /\ \A x \in Lines : x[1] \in Thread /\ x[2] \in Nat
      /\ \A p \in Thread : number[p] \in Nat
  BY LogAssumption DEF RingInv, TypeOK, Lines
<1>2. ASSUME NEW p \in Thread, Put(p) \/ Store(p) \/ WriteByCaller(p) PROVE BeforeIsOld'
  <2>1. before' = before /\ Returns(p) /\ pc[p] \in {"put", "store", "sync"}
    BY <1>2 DEF Put, Store, WriteByCaller, At
  <2>2. pc[p] # "idle"
    BY <2>1
  <2>3. number'[p] = number[p] + 1 /\ \A q \in Thread \ {p} : number'[q] = number[q]
    BY <2>1, <2>2, ReturnsFacts
  <2>4. ASSUME NEW x \in before PROVE x[2] < number'[x[1]]
    <3>1. x[1] \in Thread /\ x[2] \in Nat /\ x[2] < number[x[1]]
      BY <1>1 DEF BeforeIsOld
    <3> QED BY <1>1, <2>3, <3>1
  <2> QED BY <2>1, <2>4 DEF BeforeIsOld
<1>3. ASSUME Stop PROVE BeforeIsOld'
  BY <1>3 DEF Stop, BeforeIsOld
<1>4. ASSUME UNCHANGED <<before, number>> PROVE BeforeIsOld'
  BY <1>4 DEF BeforeIsOld
<1>5. ASSUME NEW p \in Thread, ReadRunning(p) \/ LoadPos(p) \/ LookAtCell(p) \/ Claim(p)
      PROVE  UNCHANGED <<before, number>>
  BY <1>5 DEF ReadRunning, LoadPos, LookAtCell, Claim
<1>6. ASSUME LogThread \/ Start \/ Join \/ FlushAndClose PROVE UNCHANGED <<before, number>>
  BY <1>6 DEF LogThread, PopBlocking, Pop, FreeCell, Rest, WriteByWorker, Start, Join,
              FlushAndClose
<1> QED BY <1>2, <1>3, <1>4, <1>5, <1>6 DEF Next

LEMMA ClosedStep ==
  ASSUME RingInv, ClosedIsDone, Next
  PROVE  ClosedIsDone'
<1> USE DEF mpmcVars, blockingVars, threadVars, workerVars, historyVars
<1>1. ASSUME NEW p \in Thread, ReadRunning(p) \/ Put(p) \/ LoadPos(p) \/ LookAtCell(p)
                                 \/ Claim(p) \/ Store(p) \/ WriteByCaller(p)
      PROVE  UNCHANGED <<mpc, wpc>>
  BY <1>1 DEF ReadRunning, Put, LoadPos, LookAtCell, Claim, Store, WriteByCaller
<1>2. ASSUME LogThread PROVE mpc' = mpc /\ wpc # "done"
  BY <1>2 DEF LogThread, PopBlocking, Pop, FreeCell, Rest, WriteByWorker
<1>3. ASSUME Start \/ Stop PROVE mpc' \in {"up", "join"}
  BY <1>3 DEF Start, Stop
<1>4. ASSUME Join \/ FlushAndClose PROVE wpc' = wpc /\ (wpc = "done" \/ mpc = "close")
  BY <1>4 DEF Join, FlushAndClose
<1> QED BY <1>1, <1>2, <1>3, <1>4 DEF Next, ClosedIsDone

LEMMA LinesStep ==
  ASSUME RingInv, RingInv', LinesInv, Next
  PROVE  LinesInv'
<1>1. CoreLines /\ RestIsBlind /\ BeforeIsOld /\ ClosedIsDone
  BY DEF LinesInv, CoreLines
<1>2. CoreLines'
  BY <1>1, CoreStep
<1>3. RestIsBlind' /\ BeforeIsOld' /\ ClosedIsDone'
  BY <1>1, RestStep, BeforeStep, ClosedStep
<1> QED BY <1>2, <1>3 DEF LinesInv, CoreLines

LEMMA LinesStutter ==
  ASSUME RingInv, RingInv', LinesInv, UNCHANGED vars
  PROVE  LinesInv'
<1> USE DEF vars, mpmcVars, blockingVars, threadVars, workerVars, historyVars
<1>1. UNCHANGED <<Places, line, written, number>>
  BY QueueStutter
<1>2. CoreLines'
  BY <1>1, CoreSame DEF LinesInv, CoreLines
<1>3. Queued' = Queued
  BY <1>1, QueuedSame
<1>4. RestIsBlind' /\ BeforeIsOld' /\ ClosedIsDone'
  BY <1>3 DEF LinesInv, RestIsBlind, BeforeIsOld, ClosedIsDone
<1> QED BY <1>2, <1>4 DEF LinesInv, CoreLines

LEMMA LinesHold == Spec => [](RingInv /\ LinesInv)
<1>1. Init => LinesInv
  BY InitLines
<1>2. RingInv /\ RingInv' /\ LinesInv /\ [Next]_vars => LinesInv'
  BY LinesStep, LinesStutter
<1> QED BY <1>1, <1>2, RingHolds, PTL DEF Spec

(* However many threads log, no line is lost, doubled or overtaken by a     *)
(* later line of its thread on the way through the log thread (Append,     *)
(* 259-280; ThreadFunc, 286-306).                                           *)
THEOREM NoLineLost == Spec => []LinesAccounted
<1>1. RingInv /\ LinesInv => LinesAccounted
  BY DEF LinesInv
<1> QED BY <1>1, LinesHold, PTL

(* However many threads log, the only lines logged before ShutdownLogging   *)
(* that its return leaves unwritten are those the log thread's last pop did *)
(* not see (243-256, 293-295).                                              *)
THEOREM StopLosesFew == Spec => []StopLosesOnlyBlind
<1>1. RingInv /\ LinesInv => StopLosesOnlyBlind
  <2> SUFFICES ASSUME RingInv, LinesInv, mpc = "closed", NEW x \in before
               PROVE  x \in WrittenLines \cup blind
    BY DEF StopLosesOnlyBlind
  <2>1. wpc = "done"
    BY DEF LinesInv, ClosedIsDone
  <2>2. line = Nobody
    BY <2>1 DEF RingInv, HandsAreTrue
  <2>3. Queued \subseteq blind
    BY <2>1 DEF LinesInv, RestIsBlind
  <2>4. x \in Lines /\ x[2] < number[x[1]]
    BY DEF LinesInv, BeforeIsOld, RingInv, TypeOK
  <2>5. PICK p \in Thread, n \in 1..MaxLine : x = <<p, n>>
    BY <2>4 DEF Lines
  <2>6. n \in 1..(number[p] - 1)
    BY <2>4, <2>5, LogAssumption DEF RingInv, TypeOK
  <2>7. x \in WrittenLines \cup Queued \cup {line}
    BY <2>5, <2>6 DEF LinesInv, LinesAccounted
  <2> QED BY <2>2, <2>3, <2>4, <2>7, LogAssumption
<1> QED BY <1>1, LinesHold, PTL

=============================================================================
