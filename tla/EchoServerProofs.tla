-------------------------- MODULE EchoServerProofs --------------------------
(***************************************************************************)
(* For any number of loops, connections, descriptors, workers and          *)
(* messages: the tables are true and a stop of the pool drains it.         *)
(***************************************************************************)
EXTENDS EchoServer, FiniteSetTheorems, SequenceTheorems, TLAPS

-----------------------------------------------------------------------------
(* What Append and Tail do to the elements of a sequence.                  *)

Elements(s) == {s[i] : i \in 1..Len(s)}
Injective(s) == \A i, j \in 1..Len(s) : s[i] = s[j] => i = j

LEMMA AppendFacts ==
  ASSUME NEW T, NEW s \in Seq(T), NEW x \in T
  PROVE  /\ Append(s, x) \in Seq(T)
         /\ Elements(Append(s, x)) = Elements(s) \cup {x}
         /\ Injective(s) /\ x \notin Elements(s) => Injective(Append(s, x))
<1>1. /\ Append(s, x) \in Seq(T) /\ Len(Append(s, x)) = Len(s) + 1 /\ Len(s) \in Nat
      /\ \A i \in 1..Len(s) : Append(s, x)[i] = s[i]
      /\ Append(s, x)[Len(s) + 1] = x
  BY AppendProperties, LenProperties
<1>2. PICK a \in Seq(T) : a = Append(s, x)
  BY <1>1
<1>3. Elements(a) = Elements(s) \cup {x}
  <2>1. 1..Len(a) = 1..Len(s) \cup {Len(s) + 1}
    BY <1>1, <1>2
  <2> QED BY <2>1, <1>1, <1>2 DEF Elements
<1>4. Injective(s) /\ x \notin Elements(s) => Injective(a)
  BY <1>1, <1>2 DEF Injective, Elements
<1> QED BY <1>1, <1>2, <1>3, <1>4

LEMMA TailFacts ==
  ASSUME NEW T, NEW s \in Seq(T), s # << >>
  PROVE  /\ Tail(s) \in Seq(T) /\ Head(s) \in T /\ Head(s) \in Elements(s)
         /\ Elements(Tail(s)) \subseteq Elements(s)
         /\ Elements(s) = Elements(Tail(s)) \cup {Head(s)}
         /\ Injective(s) => Injective(Tail(s)) /\ Head(s) \notin Elements(Tail(s))
<1>1. /\ Head(s) \in T /\ Tail(s) \in Seq(T) /\ Len(Tail(s)) = Len(s) - 1
      /\ \A i \in 1..Len(Tail(s)) : Tail(s)[i] = s[i + 1]
      /\ Len(s) \in Nat \ {0} /\ Head(s) = s[1]
  BY HeadTailProperties, EmptySeq
<1>2. PICK a \in Seq(T) : a = Tail(s)
  BY <1>1
<1>3. Elements(s) = Elements(a) \cup {Head(s)}
  <2>1. \A x \in Elements(s) : x \in Elements(a) \cup {Head(s)}
    <3> TAKE x \in Elements(s)
    <3>1. PICK i \in 1..Len(s) : x = s[i]
      BY DEF Elements
    <3>2. CASE i = 1
      BY <1>1, <3>1, <3>2
    <3>3. CASE i # 1
      <4>1. i - 1 \in 1..Len(a) /\ a[i - 1] = s[i]
        BY <1>1, <1>2, <3>3
      <4> QED BY <4>1, <3>1 DEF Elements
    <3> QED BY <3>2, <3>3
  <2>2. \A x \in Elements(a) : x \in Elements(s)
    <3> TAKE x \in Elements(a)
    <3>1. PICK i \in 1..Len(a) : x = a[i]
      BY DEF Elements
    <3>2. i + 1 \in 1..Len(s) /\ a[i] = s[i + 1]
      BY <1>1, <1>2
    <3> QED BY <3>1, <3>2 DEF Elements
  <2>3. Head(s) \in Elements(s)
    BY <1>1 DEF Elements
  <2> QED BY <2>1, <2>2, <2>3
<1>4. Injective(s) => Injective(a)
  BY <1>1, <1>2 DEF Injective
<1>5. Injective(s) => Head(s) \notin Elements(a)
  <2> SUFFICES ASSUME Injective(s), NEW i \in 1..Len(a), Head(s) = a[i] PROVE FALSE
    BY DEF Elements
  <2>1. i + 1 \in 1..Len(s) /\ 1 \in 1..Len(s) /\ s[1] = s[i + 1]
    BY <1>1, <1>2
  <2> QED BY <2>1 DEF Injective
<1> QED BY <1>1, <1>2, <1>3, <1>4, <1>5

-----------------------------------------------------------------------------
LEMMA QueuedIsElements == Queued = Elements(q) /\ Queued' = Elements(q')
BY DEF Queued, Elements

-----------------------------------------------------------------------------
(* The inductive invariant.                                                *)

\* The tasks in the pool: queued or held by a worker.
Pooled == Queued \cup {task[w] : w \in Worker}

\* A worker holds a task exactly while it runs it or keeps its closure.
HoldsWhileBusy ==
  \A w \in Worker : worker[w] \in {"run", "keeping"} <=> task[w] # NoWork

\* No task is in two places.
OnePlace ==
  /\ Injective(q)
  /\ \A w \in Worker : task[w] \notin Queued
  /\ \A v, w \in Worker : task[v] = task[w] /\ task[w] # NoWork => v = w

\* The next message of a connection is a task that was never posted.
NextIsNew ==
  \A c \in Conn, n \in 1..MaxMsg :
    <<c, n>> \in Pooled \cup in_time => n <= reads[c]

\* The application's references are those of the closures in the pool.
LentTo(c) == {n \in 1..MaxMsg : <<c, n>> \in Pooled}
LentIsCounted == \A c \in Conn : lent[c] = Cardinality(LentTo(c))

\* A worker leaves an empty queue, and what is posted later is not in time.
GoneIsDrained ==
  /\ \A w \in Worker : worker[w] = "gone" => stopping /\ in_time \cap Queued = {}
  /\ stop = "joined" => \A w \in Worker : worker[w] = "gone"

PoolInv == /\ HoldsWhileBusy /\ OnePlace /\ NextIsNew
           /\ LentIsCounted /\ GoneIsDrained

\* The server's own tasks on loop l, in a sequence of tasks from place k on,
\* are for connections of l in the right state, one for each at most.
Places(s, k) == {i \in 1..Len(s) : i > k /\ s[i].op # "send"}

OwnTasks(l, s, k) ==
  /\ \A i \in Places(s, k) :
       /\ home[s[i].c] = l
       /\ s[i].op = "new" => state[s[i].c] = "accepted"
       /\ s[i].op = "remove" => state[s[i].c] = "closed"
  /\ \A i, j \in Places(s, k) : s[i].c = s[j].c => i = j

TasksAreTrue ==
  \A l \in Loop :
    /\ OwnTasks(l, pending[l], 0) /\ OwnTasks(l, buffer[l], done[l])
    /\ \A i \in Places(pending[l], 0), j \in Places(buffer[l], done[l]) :
         pending[l][i].c # buffer[l][j].c

\* A descriptor has one owner.
OneOwner ==
  /\ \A c \in Conn : state[c] # "none" => fd[c] \in Fd
  /\ \A c, d \in Conn : UsedBy(c) /\ UsedBy(d) /\ fd[c] = fd[d] => c = d

ServerInv == TableIsTrue /\ TasksAreTrue /\ OneOwner

IInv == TypeOK /\ PoolInv /\ ServerInv

-----------------------------------------------------------------------------
(* Initially.                                                              *)

LEMMA InitIInv == Init => IInv
<1> SUFFICES ASSUME Init PROVE IInv
  OBVIOUS
<1> USE DEF Init, ServerInit, PoolInit
<1>1. TypeOK
  <2>1. ServerTypeOK
    <3>1. reuse_port \in BOOLEAN /\ prepared \in BOOLEAN
      BY Zenon
    <3>2. /\ thread \in [Loop -> {"none", "created", "looping"}]
          /\ listening \subseteq Loop \cup {Base}
          /\ state \in [Conn -> {"none", "accepted", "up", "closed", "removed"}]
          /\ fd \in [Conn -> Fd \cup {NoFd}]
          /\ table \in [Loop -> [Fd -> Conn \cup {NoConn}]]
      OBVIOUS
    <3>3. 1 \in Loop
      BY ServerAssumption DEF Loop
    <3>4. next \in Loop /\ home \in [Conn -> Loop]
      BY <3>3
    <3>5. done \in [Loop -> Nat] /\ lent \in [Conn -> Nat]
      OBVIOUS
    <3> QED BY <3>1, <3>2, <3>4, <3>5 DEF ServerTypeOK
  <2>2. PoolTypeOK
    <3>1. stopping \in BOOLEAN
      BY Zenon
    <3>2. q \in Seq(Work)
      BY EmptySeq
    <3> QED BY <3>1, <3>2 DEF PoolTypeOK
  <2>3. Len(<< >>) = 0
    BY EmptySeq
  <2> QED BY <2>1, <2>2, <2>3, EchoAssumption DEF TypeOK
<1>2. Queued = {} /\ Pooled \subseteq {NoWork}
  BY DEF Pooled, Queued
<1>3. PoolInv
  <2>1. HoldsWhileBusy
    BY DEF HoldsWhileBusy
  <2>2. OnePlace
    BY <1>2 DEF OnePlace, Injective
  <2>3. NextIsNew /\ LentIsCounted
    <3>1. \A c \in Conn, n \in 1..MaxMsg : <<c, n>> \notin Pooled
      BY <1>2, WorkAssumption, EchoAssumption
    <3>2. \A c \in Conn : LentTo(c) = {}
      BY <3>1 DEF LentTo
    <3> QED BY <3>1, <3>2, FS_EmptySet DEF NextIsNew, LentIsCounted
  <2>4. GoneIsDrained
    BY DEF GoneIsDrained
  <2> QED BY <2>1, <2>2, <2>3, <2>4 DEF PoolInv
<1>4. ServerInv
  <2>1. TableIsTrue
    BY ServerAssumption DEF TableIsTrue, Conn
  <2>2. TasksAreTrue
    BY DEF TasksAreTrue, OwnTasks, Places
  <2>3. OneOwner
    BY DEF OneOwner, UsedBy
  <2> QED BY <2>1, <2>2, <2>3 DEF ServerInv
<1> QED BY <1>1, <1>3, <1>4 DEF IInv

-----------------------------------------------------------------------------
(* The steps: of the pool alone, of the server alone, and of both.         *)

PoolStep ==
  \/ \E l \in Loop : Notify(l)
  \/ \E w \in Worker : Sleep(w) \/ SpuriousWakeup(w) \/ Take(w) \/ Leave(w)
  \/ StopSet \/ StopNotify \/ StopJoin

ServerStep ==
  \/ \E l \in Loop : StartLoop(l) \/ ThreadFunc(l)
  \/ PrepareTables \/ ListenInLoop \/ ListenInBase
  \/ \E c \in Conn : AcceptInBase(c)
  \/ \E c \in Conn, l \in Loop : AcceptInLoop(l, c)
  \/ \E c \in Conn : HandleClose(c)
  \/ \E l \in Loop : BeginTasks(l) \/ RunNew(l) \/ RunRemove(l) \/ EndTasks(l)

EchoStep ==
  \/ \E c \in Conn : OnMessagePost(c) \/ OnMessageEcho(c)
  \/ \E w \in Worker : WorkerSend(w) \/ WorkerDrop(w)
  \/ \E l \in Loop : RunSend(l)

LEMMA NextSteps ==
  ASSUME Next
  PROVE  \/ PoolStep /\ UNCHANGED <<serverVars, echoVars>>
         \/ ServerStep /\ UNCHANGED <<poolVars, echoVars>>
         \/ EchoStep
<1>1. CASE Starting
  BY <1>1 DEF Starting, ServerStep
<1>2. CASE Accepting
  BY <1>2 DEF Accepting, ServerStep
<1>3. CASE Closing
  BY <1>3 DEF Closing, ServerStep
<1>4. CASE Stopping
  BY <1>4 DEF Stopping, PoolStep
<1>5. CASE Waking
  BY <1>5 DEF Waking, PoolStep
<1>6. CASE \E c \in Conn : OnMessagePost(c) \/ OnMessageEcho(c)
  BY <1>6 DEF EchoStep
<1>7. CASE \E l \in Loop : LoopTasks(l) \/ FinishPost(l)
  BY <1>7 DEF LoopTasks, FinishPost, ServerStep, PoolStep, EchoStep
<1>8. CASE \E w \in Worker : WorkerStep(w)
  BY <1>8 DEF WorkerStep, PoolStep, EchoStep
<1> QED BY <1>1, <1>2, <1>3, <1>4, <1>5, <1>6, <1>7, <1>8 DEF Next

-----------------------------------------------------------------------------
(* Types.                                                                  *)

LEMMA PoolTypes ==
  ASSUME PoolTypeOK, PoolStep
  PROVE  PoolTypeOK'
<1> USE DEF PoolTypeOK
<1>1. ASSUME NEW l \in Loop, Notify(l) PROVE PoolTypeOK'
  <2>1. worker' \in [Worker -> {"check", "wait", "run", "keeping", "gone"}]
    BY <1>1 DEF Notify, Sleeping
  <2>2. UNCHANGED stopping /\ posting' \subseteq Poster
    BY <1>1 DEF Notify
  <2> QED BY <1>1, <2>1, <2>2 DEF Notify
<1>2. ASSUME NEW w \in Worker, Sleep(w) \/ SpuriousWakeup(w) \/ Leave(w) PROVE PoolTypeOK'
  BY <1>2 DEF Sleep, SpuriousWakeup, Leave
<1>3. ASSUME NEW w \in Worker, Take(w) PROVE PoolTypeOK'
  <2>1. q' \in Seq(Work) /\ Head(q) \in Work
    BY <1>3, TailFacts DEF Take
  <2>2. UNCHANGED <<stopping, posting, stop, in_time>>
    BY <1>3 DEF Take
  <2>3. task' \in [Worker -> Work \cup {NoWork}]
    BY <1>3, <2>1 DEF Take
  <2>4. worker' \in [Worker -> {"check", "wait", "run", "keeping", "gone"}]
    BY <1>3 DEF Take
  <2> QED BY <2>1, <2>2, <2>3, <2>4
<1>4. ASSUME StopSet PROVE PoolTypeOK'
  <2>1. stopping' \in BOOLEAN
    BY <1>4, Zenon DEF StopSet
  <2> QED BY <1>4, <2>1 DEF StopSet
<1>5. ASSUME StopNotify \/ StopJoin PROVE PoolTypeOK'
  <2>1. worker' \in [Worker -> {"check", "wait", "run", "keeping", "gone"}]
    BY <1>5 DEF StopNotify, StopJoin
  <2> QED BY <1>5, <2>1 DEF StopNotify, StopJoin
<1> QED BY <1>1, <1>2, <1>3, <1>4, <1>5 DEF PoolStep

\* The types of the server's part.
ServerTypes ==
  /\ ServerTypeOK
  /\ pending \in [Loop -> Seq(Tasks)] /\ buffer \in [Loop -> Seq(Tasks)]
  /\ \A l \in Loop : done[l] <= Len(buffer[l])

LEMMA QueueTypes ==
  ASSUME ServerTypes, NEW l \in Loop, NEW t \in Tasks, Queue(l, t)
  PROVE  pending' \in [Loop -> Seq(Tasks)]
<1>1. Append(pending[l], t) \in Seq(Tasks)
  BY AppendFacts DEF ServerTypes
<1> QED BY <1>1 DEF ServerTypes, Queue

LEMMA NextLoopTypes == ASSUME next \in Loop, NextLoop PROVE next' \in Loop
BY ServerAssumption DEF NextLoop, Loop

LEMMA RunningFacts ==
  ASSUME ServerTypes, NEW l \in Loop, NEW o, Running(l, o)
  PROVE  /\ done[l] + 1 \in 1..Len(buffer[l]) /\ buffer[l][done[l] + 1] \in Tasks
         /\ buffer[l][done[l] + 1].op = o /\ This(l) \in Conn
<1>1. buffer[l] \in Seq(Tasks) /\ Len(buffer[l]) \in Nat /\ done[l] \in Nat
  BY LenProperties DEF ServerTypes, ServerTypeOK
<1>2. done[l] + 1 \in 1..Len(buffer[l])
  BY <1>1 DEF Running
<1>3. buffer[l][done[l] + 1] \in Tasks
  BY <1>1, <1>2, ElementOfSeq
<1> QED BY <1>2, <1>3 DEF Running, This, Tasks

LEMMA DoneTypes ==
  ASSUME ServerTypes, NEW l \in Loop, NEW o, Running(l, o), Done(l), UNCHANGED buffer
  PROVE  done' \in [Loop -> Nat] /\ \A k \in Loop : done'[k] <= Len(buffer'[k])
<1>1. buffer[l] \in Seq(Tasks) /\ Len(buffer[l]) \in Nat
  BY LenProperties DEF ServerTypes
<1> QED BY <1>1 DEF Running, Done, ServerTypes, ServerTypeOK

LEMMA NewConnectionTypes ==
  ASSUME ServerTypes, NEW l \in Loop, NEW c \in Conn, NEW f \in Fd, NewConnection(l, c, f)
  PROVE  /\ state' \in [Conn -> {"none", "accepted", "up", "closed", "removed"}]
         /\ fd' \in [Conn -> Fd \cup {NoFd}] /\ home' \in [Conn -> Loop]
         /\ pending' \in [Loop -> Seq(Tasks)]
<1>1. ServerTask("new", c) \in Tasks
  BY DEF ServerTask, Tasks
<1>2. pending' \in [Loop -> Seq(Tasks)]
  BY <1>1, QueueTypes DEF NewConnection
<1>3. fd' \in [Conn -> Fd \cup {NoFd}]
  BY DEF NewConnection, ServerTypes, ServerTypeOK
<1>4. home' \in [Conn -> Loop]
  BY DEF NewConnection, ServerTypes, ServerTypeOK
<1>5. state' \in [Conn -> {"none", "accepted", "up", "closed", "removed"}]
  BY DEF NewConnection, ServerTypes, ServerTypeOK
<1> QED BY <1>2, <1>3, <1>4, <1>5

LEMMA ServerStepTypes ==
  ASSUME ServerTypes, ServerStep
  PROVE  ServerTypes'
<1> USE DEF ServerTypes, ServerTypeOK
<1>0. UNCHANGED startVars => /\ reuse_port' \in BOOLEAN /\ prepared' \in BOOLEAN
                             /\ thread' \in [Loop -> {"none", "created", "looping"}]
                             /\ listening' \subseteq Loop \cup {Base}
  BY Zenon DEF startVars
<1>1. ASSUME NEW l \in Loop, StartLoop(l) \/ ThreadFunc(l) PROVE ServerTypes'
  <2>1. reuse_port' \in BOOLEAN /\ prepared' \in BOOLEAN
    BY <1>1, Zenon DEF StartLoop, ThreadFunc
  <2>2. thread' \in [Loop -> {"none", "created", "looping"}]
    BY <1>1 DEF StartLoop, ThreadFunc
  <2>3. UNCHANGED <<listening, next, connVars, taskVars, lent>>
    BY <1>1 DEF StartLoop, ThreadFunc
  <2> QED BY <2>1, <2>2, <2>3 DEF connVars, taskVars
<1>2. ASSUME PrepareTables PROVE ServerTypes'
  <2>1. reuse_port' \in BOOLEAN /\ prepared' \in BOOLEAN
    BY <1>2, Zenon DEF PrepareTables
  <2>2. UNCHANGED <<thread, listening, next, connVars, taskVars, lent>>
    BY <1>2 DEF PrepareTables
  <2> QED BY <2>1, <2>2 DEF connVars, taskVars
<1>3. ASSUME ListenInLoop \/ ListenInBase PROVE ServerTypes'
  <2>1. reuse_port' \in BOOLEAN /\ prepared' \in BOOLEAN
    BY <1>3, Zenon DEF ListenInLoop, ListenInBase
  <2>2. UNCHANGED <<thread, connVars, taskVars, lent>>
    BY <1>3 DEF ListenInLoop, ListenInBase
  <2>3. next' \in Loop /\ listening' \subseteq Loop \cup {Base}
    BY <1>3, NextLoopTypes DEF ListenInLoop, ListenInBase
  <2> QED BY <2>1, <2>2, <2>3 DEF connVars, taskVars
<1>4. ASSUME NEW c \in Conn, AcceptInBase(c) PROVE ServerTypes'
  <2>1. PICK f \in LowestFree : NewConnection(next, c, f)
    BY <1>4 DEF AcceptInBase
  <2>2. f \in Fd
    BY DEF LowestFree, FreeFd
  <2>3. next' \in Loop
    BY <1>4, NextLoopTypes DEF AcceptInBase
  <2>4. UNCHANGED <<startVars, table, buffer, done, lent>>
    BY <1>4 DEF AcceptInBase
  <2> QED BY <1>0, <2>1, <2>2, <2>3, <2>4, NewConnectionTypes
<1>5. ASSUME NEW c \in Conn, NEW l \in Loop, AcceptInLoop(l, c) PROVE ServerTypes'
  <2>1. PICK f \in LowestFree : NewConnection(l, c, f)
    BY <1>5 DEF AcceptInLoop
  <2>2. f \in Fd
    BY DEF LowestFree, FreeFd
  <2>4. UNCHANGED <<startVars, next, table, buffer, done, lent>>
    BY <1>5 DEF AcceptInLoop
  <2> QED BY <1>0, <2>1, <2>2, <2>4, NewConnectionTypes
<1>6. ASSUME NEW c \in Conn, HandleClose(c) PROVE ServerTypes'
  <2>1. ServerTask("remove", c) \in Tasks
    BY DEF ServerTask, Tasks
  <2>2. pending' \in [Loop -> Seq(Tasks)]
    BY <1>6, <2>1, QueueTypes DEF HandleClose, Close
  <2>3. state' \in [Conn -> {"none", "accepted", "up", "closed", "removed"}]
    BY <1>6 DEF HandleClose, Close
  <2>4. UNCHANGED <<startVars, next, fd, home, table, buffer, done, lent>>
    BY <1>6 DEF HandleClose
  <2> QED BY <1>0, <2>2, <2>3, <2>4
<1>7. ASSUME NEW l \in Loop, BeginTasks(l) PROVE ServerTypes'
  <2>1. UNCHANGED <<startVars, next, connVars, done, lent>>
    BY <1>7 DEF BeginTasks
  <2>2. pending' \in [Loop -> Seq(Tasks)] /\ buffer' \in [Loop -> Seq(Tasks)]
    BY <1>7, EmptySeq DEF BeginTasks
  <2>3. ASSUME NEW k \in Loop PROVE done'[k] <= Len(buffer'[k])
    <3>1. Len(<< >>) = 0 /\ Len(pending[l]) \in Nat
      BY LenProperties, EmptySeq
    <3> QED BY <1>7, <2>1, <3>1 DEF BeginTasks, Polling
  <2> QED BY <1>0, <2>1, <2>2, <2>3 DEF connVars
<1>8. ASSUME NEW l \in Loop, RunNew(l) PROVE ServerTypes'
  <2>1. UNCHANGED <<startVars, next, fd, home, pending, buffer, lent>>
    BY <1>8 DEF RunNew
  <2>2. This(l) \in Conn /\ done' \in [Loop -> Nat]
        /\ \A k \in Loop : done'[k] <= Len(buffer'[k])
    BY <1>8, RunningFacts, DoneTypes DEF RunNew
  <2>3. table' \in [Loop -> [Fd -> Conn \cup {NoConn}]]
    BY <1>8, <2>2 DEF RunNew
  <2>4. state' \in [Conn -> {"none", "accepted", "up", "closed", "removed"}]
    BY <1>8, <2>2 DEF RunNew
  <2> QED BY <1>0, <2>1, <2>2, <2>3, <2>4
<1>9. ASSUME NEW l \in Loop, RunRemove(l) PROVE ServerTypes'
  <2>1. UNCHANGED <<startVars, next, fd, home, pending, buffer, lent>>
    BY <1>9 DEF RunRemove
  <2>2. This(l) \in Conn /\ done' \in [Loop -> Nat]
        /\ \A k \in Loop : done'[k] <= Len(buffer'[k])
    BY <1>9, RunningFacts, DoneTypes DEF RunRemove
  <2>3. table' \in [Loop -> [Fd -> Conn \cup {NoConn}]]
    BY <1>9, <2>2 DEF RunRemove
  <2>4. state' \in [Conn -> {"none", "accepted", "up", "closed", "removed"}]
    BY <1>9, <2>2 DEF RunRemove
  <2> QED BY <1>0, <2>1, <2>2, <2>3, <2>4
<1>10. ASSUME NEW l \in Loop, EndTasks(l) PROVE ServerTypes'
  <2>1. UNCHANGED <<startVars, next, connVars, pending, lent>>
    BY <1>10 DEF EndTasks
  <2>2. buffer' \in [Loop -> Seq(Tasks)] /\ done' \in [Loop -> Nat]
    BY <1>10, EmptySeq DEF EndTasks
  <2>3. ASSUME NEW k \in Loop PROVE done'[k] <= Len(buffer'[k])
    <3>1. Len(<< >>) = 0
      BY EmptySeq
    <3> QED BY <1>10, <3>1 DEF EndTasks
  <2> QED BY <1>0, <2>1, <2>2, <2>3 DEF connVars
<1> QED BY <1>1, <1>2, <1>3, <1>4, <1>5, <1>6, <1>7, <1>8, <1>9, <1>10 DEF ServerStep

\* What a busy worker holds.
LEMMA HeldTask ==
  ASSUME TypeOK, PoolInv, NEW w \in Worker, worker[w] \in {"run", "keeping"}
  PROVE  /\ task[w] \in Work /\ task[w][1] \in Conn /\ task[w][2] \in 1..MaxMsg
         /\ task[w] = <<task[w][1], task[w][2]>>
         /\ task[w][2] \in LentTo(task[w][1])
<1>1. task[w] \in Work
  BY DEF TypeOK, PoolTypeOK, PoolInv, HoldsWhileBusy
<1>2. /\ task[w][1] \in Conn /\ task[w][2] \in 1..MaxMsg
      /\ task[w] = <<task[w][1], task[w][2]>>
  BY <1>1, EchoAssumption
<1> QED BY <1>1, <1>2 DEF LentTo, Pooled

LEMMA LentFacts ==
  ASSUME TypeOK, PoolInv, NEW c \in Conn
  PROVE  /\ IsFiniteSet(LentTo(c)) /\ lent[c] = Cardinality(LentTo(c))
         /\ \A n \in LentTo(c) : lent[c] > 0
<1>1. IsFiniteSet(1..MaxMsg)
  BY FS_Interval, EchoAssumption
<1>2. IsFiniteSet(LentTo(c))
  BY <1>1, FS_Subset DEF LentTo
<1>3. lent[c] = Cardinality(LentTo(c)) /\ lent[c] \in Nat
  BY DEF PoolInv, LentIsCounted, TypeOK, ServerTypeOK
<1>4. LentTo(c) # {} => lent[c] # 0
  BY <1>2, <1>3, FS_EmptySet
<1> QED BY <1>2, <1>3, <1>4

LEMMA EchoStepTypes ==
  ASSUME TypeOK, PoolInv, EchoStep
  PROVE  TypeOK'
<1> USE DEF TypeOK
<1>0. ServerTypes /\ (ServerTypes' /\ PoolTypeOK' /\ biz' \in BOOLEAN
        /\ reads' \in [Conn -> 0..MaxMsg] /\ sent' \in [Conn -> SUBSET (1..MaxMsg)]
        => TypeOK')
  BY DEF ServerTypes
<1>1. ASSUME NEW c \in Conn, OnMessagePost(c) PROVE TypeOK'
  <2>1. biz' \in BOOLEAN /\ reuse_port' \in BOOLEAN /\ prepared' \in BOOLEAN
        /\ stopping' \in BOOLEAN
    BY <1>1, Zenon DEF OnMessagePost, startVars, Post, ServerTypeOK, PoolTypeOK
  <2>2. reads[c] + 1 \in 1..MaxMsg /\ home[c] \in Loop
    BY <1>1, EchoAssumption DEF OnMessagePost, ServerTypeOK
  <2>3. <<c, reads[c] + 1>> \in Work
    BY <2>2, EchoAssumption
  <2>4. q' \in Seq(Work)
    BY <1>1, <2>3, AppendFacts DEF OnMessagePost, Post, PoolTypeOK
  <2>5. PoolTypeOK'
    BY <1>1, <2>1, <2>2, <2>3, <2>4, EchoAssumption DEF OnMessagePost, Post, PoolTypeOK
  <2>6. lent' \in [Conn -> Nat]
    BY <1>1 DEF OnMessagePost, ServerTypeOK
  <2>7. UNCHANGED <<thread, listening, next, state, fd, home, table, pending, buffer, done, sent>>
    BY <1>1 DEF OnMessagePost, startVars, connVars, taskVars
  <2>8. ServerTypes'
    BY <1>0, <2>1, <2>6, <2>7 DEF ServerTypes, ServerTypeOK
  <2>9. reads' \in [Conn -> 0..MaxMsg]
    BY <1>1, <2>2 DEF OnMessagePost
  <2> QED BY <1>0, <2>1, <2>5, <2>7, <2>8, <2>9
<1>2. ASSUME NEW c \in Conn, OnMessageEcho(c) PROVE TypeOK'
  <2>1. reads[c] + 1 \in 1..MaxMsg
    BY <1>2, EchoAssumption DEF OnMessageEcho
  <2>2. UNCHANGED <<serverVars, poolVars, biz>>
    BY <1>2 DEF OnMessageEcho
  <2>3. ServerTypes' /\ PoolTypeOK' /\ biz' \in BOOLEAN
    <3>1. UNCHANGED <<reuse_port, prepared, stopping, biz>>
      BY <2>2 DEF serverVars, poolVars
    <3>2. reuse_port' \in BOOLEAN /\ prepared' \in BOOLEAN /\ stopping' \in BOOLEAN
          /\ biz' \in BOOLEAN
      BY <3>1, Zenon DEF ServerTypeOK, PoolTypeOK
    <3> QED BY <1>0, <2>2, <3>2 DEF serverVars, poolVars, ServerTypes, ServerTypeOK, PoolTypeOK
  <2>4. reads' \in [Conn -> 0..MaxMsg] /\ sent' \in [Conn -> SUBSET (1..MaxMsg)]
    BY <1>2, <2>1 DEF OnMessageEcho
  <2> QED BY <1>0, <2>3, <2>4
<1>3. ASSUME NEW w \in Worker, WorkerSend(w) PROVE TypeOK'
  <2>1. /\ worker[w] = "run" /\ worker' = [worker EXCEPT ![w] = "keeping"]
        /\ UNCHANGED <<q, stopping, task, posting, stop, in_time>>
    BY <1>3 DEF WorkerSend, RunTask
  <2>2. PoolTypeOK'
    <3>1. stopping' \in BOOLEAN
      BY <2>1, Zenon DEF PoolTypeOK
    <3> QED BY <2>1, <3>1 DEF PoolTypeOK
  <2>3. task[w][1] \in Conn /\ task[w][2] \in 1..MaxMsg
    BY <2>1, HeldTask
  <2>4. pending' \in [Loop -> Seq(Tasks)]
    <3>1. [op |-> "send", c |-> task[w][1], n |-> task[w][2]] \in Tasks
      BY <2>3 DEF Tasks
    <3>2. home[task[w][1]] \in Loop
      BY <2>3 DEF ServerTypeOK
    <3> QED BY <1>0, <1>3, <3>1, <3>2, QueueTypes DEF WorkerSend
  <2>5. UNCHANGED <<startVars, next, connVars, buffer, done, lent, echoVars>>
    BY <1>3 DEF WorkerSend
  <2>6. ServerTypes' /\ biz' \in BOOLEAN
    <3>1. reuse_port' \in BOOLEAN /\ prepared' \in BOOLEAN /\ biz' \in BOOLEAN
      BY <2>5, Zenon DEF ServerTypeOK, startVars, echoVars
    <3> QED BY <1>0, <2>4, <2>5, <3>1 DEF startVars, connVars, ServerTypes, ServerTypeOK
  <2> QED BY <1>0, <2>2, <2>5, <2>6 DEF echoVars
<1>4. ASSUME NEW w \in Worker, WorkerDrop(w) PROVE TypeOK'
  <2>1. /\ worker[w] = "keeping" /\ worker' = [worker EXCEPT ![w] = "check"]
        /\ task' = [task EXCEPT ![w] = NoWork]
        /\ UNCHANGED <<q, stopping, posting, stop, in_time>>
    BY <1>4 DEF WorkerDrop, DropTask
  <2>2. PoolTypeOK'
    <3>1. stopping' \in BOOLEAN
      BY <2>1, Zenon DEF PoolTypeOK
    <3> QED BY <2>1, <3>1 DEF PoolTypeOK
  <2>3. task[w][1] \in Conn /\ lent[task[w][1]] > 0
    BY <2>1, HeldTask, LentFacts
  <2>4. lent' \in [Conn -> Nat]
    BY <1>4, <2>3 DEF WorkerDrop, ServerTypeOK
  <2>5. UNCHANGED <<startVars, next, connVars, taskVars, echoVars>>
    BY <1>4 DEF WorkerDrop
  <2>6. ServerTypes' /\ biz' \in BOOLEAN
    <3>1. reuse_port' \in BOOLEAN /\ prepared' \in BOOLEAN /\ biz' \in BOOLEAN
      BY <2>5, Zenon DEF ServerTypeOK, startVars, echoVars
    <3> QED BY <1>0, <2>4, <2>5, <3>1 DEF startVars, connVars, taskVars, ServerTypes, ServerTypeOK
  <2> QED BY <1>0, <2>2, <2>5, <2>6 DEF echoVars
<1>5. ASSUME NEW l \in Loop, RunSend(l) PROVE TypeOK'
  <2>1. /\ This(l) \in Conn /\ buffer[l][done[l] + 1] \in Tasks
        /\ buffer[l][done[l] + 1].op = "send"
        /\ done' \in [Loop -> Nat] /\ \A k \in Loop : done'[k] <= Len(buffer'[k])
    BY <1>0, <1>5, RunningFacts, DoneTypes DEF RunSend
  <2>2. UNCHANGED <<startVars, next, connVars, pending, buffer, lent, poolVars, biz, reads>>
    BY <1>5 DEF RunSend
  <2>3. ServerTypes' /\ PoolTypeOK' /\ biz' \in BOOLEAN
    <3>1. UNCHANGED <<reuse_port, prepared, stopping, biz>>
      BY <2>2 DEF startVars, poolVars
    <3>2. reuse_port' \in BOOLEAN /\ prepared' \in BOOLEAN /\ stopping' \in BOOLEAN
          /\ biz' \in BOOLEAN
      BY <3>1, Zenon DEF ServerTypeOK, PoolTypeOK
    <3> QED BY <1>0, <2>1, <2>2, <3>2 DEF startVars, connVars, poolVars, ServerTypes,
                                          ServerTypeOK, PoolTypeOK
  <2>4. buffer[l][done[l] + 1].n \in 1..MaxMsg
    BY <2>1 DEF Tasks
  <2>5. sent' \in [Conn -> SUBSET (1..MaxMsg)]
    BY <1>5, <2>1, <2>4 DEF RunSend, This
  <2> QED BY <1>0, <2>2, <2>3, <2>5
<1> QED BY <1>1, <1>2, <1>3, <1>4, <1>5 DEF EchoStep

LEMMA NextTypes == TypeOK /\ PoolInv /\ [Next]_vars => TypeOK'
<1> SUFFICES ASSUME TypeOK, PoolInv, [Next]_vars PROVE TypeOK'
  OBVIOUS
<1>0. TypeOK <=> /\ ServerTypes /\ PoolTypeOK /\ biz \in BOOLEAN
                 /\ reads \in [Conn -> 0..MaxMsg] /\ sent \in [Conn -> SUBSET (1..MaxMsg)]
  BY DEF TypeOK, ServerTypes
<1>0a. TypeOK' <=> /\ ServerTypes' /\ PoolTypeOK' /\ biz' \in BOOLEAN
                   /\ reads' \in [Conn -> 0..MaxMsg] /\ sent' \in [Conn -> SUBSET (1..MaxMsg)]
  BY DEF TypeOK, ServerTypes
<1>1. ASSUME UNCHANGED serverVars PROVE ServerTypes'
  <2>1. reuse_port' \in BOOLEAN /\ prepared' \in BOOLEAN
    BY <1>0, <1>1, Zenon DEF serverVars, ServerTypes, ServerTypeOK
  <2> QED BY <1>0, <1>1, <2>1 DEF serverVars, ServerTypes, ServerTypeOK
<1>2. ASSUME UNCHANGED poolVars PROVE PoolTypeOK'
  <2>1. stopping' \in BOOLEAN
    BY <1>0, <1>2, Zenon DEF poolVars, PoolTypeOK
  <2> QED BY <1>0, <1>2, <2>1 DEF poolVars, PoolTypeOK
<1>3. ASSUME UNCHANGED echoVars
      PROVE  biz' \in BOOLEAN /\ reads' \in [Conn -> 0..MaxMsg]
             /\ sent' \in [Conn -> SUBSET (1..MaxMsg)]
  <2>1. biz' \in BOOLEAN
    BY <1>0, <1>3, Zenon DEF echoVars
  <2> QED BY <1>0, <1>3, <2>1 DEF echoVars
<1>4. CASE UNCHANGED vars
  BY <1>0a, <1>1, <1>2, <1>3, <1>4 DEF vars
<1>5. CASE Next
  <2>1. CASE PoolStep /\ UNCHANGED <<serverVars, echoVars>>
    BY <1>0, <1>0a, <1>1, <1>3, <2>1, PoolTypes
  <2>2. CASE ServerStep /\ UNCHANGED <<poolVars, echoVars>>
    BY <1>0, <1>0a, <1>2, <1>3, <2>2, ServerStepTypes
  <2>3. CASE EchoStep
    BY <2>3, EchoStepTypes
  <2> QED BY <1>5, <2>1, <2>2, <2>3, NextSteps
<1> QED BY <1>4, <1>5

-----------------------------------------------------------------------------
(* The pool.                                                               *)

\* A step that moves no task.
LEMMA QuietPool ==
  ASSUME PoolInv, UNCHANGED <<q, task, in_time, reads, lent>>,
         HoldsWhileBusy', GoneIsDrained'
  PROVE  PoolInv'
<1>1. Queued' = Queued /\ Pooled' = Pooled
  BY DEF Queued, Pooled
<1>2. \A c \in Conn : LentTo(c)' = LentTo(c)
  BY <1>1 DEF LentTo
<1>3. OnePlace'
  BY <1>1 DEF PoolInv, OnePlace, Injective
<1>4. NextIsNew'
  BY <1>1 DEF PoolInv, NextIsNew
<1>5. LentIsCounted'
  BY <1>2 DEF PoolInv, LentIsCounted
<1> QED BY <1>3, <1>4, <1>5 DEF PoolInv

LEMMA TakeKeeps ==
  ASSUME TypeOK, PoolInv, NEW w \in Worker, Take(w), UNCHANGED <<reads, lent>>
  PROVE  PoolInv'
<1> USE QueuedIsElements
<1>1. /\ worker[w] = "check" /\ q # << >>
      /\ task' = [task EXCEPT ![w] = Head(q)] /\ q' = Tail(q)
      /\ worker' = [worker EXCEPT ![w] = "run"]
      /\ UNCHANGED <<stopping, posting, stop, in_time>>
  BY DEF Take
<1>2. /\ task \in [Worker -> Work \cup {NoWork}] /\ q \in Seq(Work)
      /\ worker \in [Worker -> {"check", "wait", "run", "keeping", "gone"}]
  BY DEF TypeOK, PoolTypeOK
<1>3. task[w] = NoWork
  BY <1>1 DEF PoolInv, HoldsWhileBusy
<1>4. /\ Head(q) \in Work /\ Queued = Queued' \cup {Head(q)}
      /\ Injective(q') /\ Head(q) \notin Queued'
  BY <1>1, <1>2, TailFacts DEF PoolInv, OnePlace
<1>5. HoldsWhileBusy'
  BY <1>1, <1>2, <1>4, WorkAssumption DEF PoolInv, HoldsWhileBusy
<1>6. OnePlace'
  <2>1. \A v \in Worker : task'[v] \notin Queued'
    BY <1>1, <1>2, <1>4 DEF PoolInv, OnePlace
  <2>2. \A u, v \in Worker : task'[u] = task'[v] /\ task'[v] # NoWork => u = v
    <3>1. \A v \in Worker : task[v] # Head(q)
      BY <1>4 DEF PoolInv, OnePlace
    <3> QED BY <1>1, <1>2, <3>1 DEF PoolInv, OnePlace
  <2> QED BY <1>4, <2>1, <2>2 DEF OnePlace
<1>7. \A t \in Work : t \in Pooled' <=> t \in Pooled
  <2>1. \A t \in Work : (\E v \in Worker : t = task'[v])
                          <=> (t = Head(q) \/ \E v \in Worker : t = task[v])
    BY <1>1, <1>2, <1>3, WorkAssumption
  <2> QED BY <1>4, <2>1 DEF Pooled
<1>8. \A c \in Conn, n \in 1..MaxMsg : <<c, n>> \in Pooled' <=> <<c, n>> \in Pooled
  BY <1>7, EchoAssumption
<1>9. NextIsNew'
  BY <1>1, <1>8 DEF PoolInv, NextIsNew
<1>10. LentIsCounted'
  <2>1. \A c \in Conn : LentTo(c)' = LentTo(c)
    BY <1>8 DEF LentTo
  <2> QED BY <2>1 DEF PoolInv, LentIsCounted
<1>11. GoneIsDrained'
  BY <1>1, <1>2, <1>4 DEF PoolInv, GoneIsDrained
<1> QED BY <1>5, <1>6, <1>9, <1>10, <1>11 DEF PoolInv

LEMMA PoolStepKeeps ==
  ASSUME TypeOK, PoolInv, PoolStep, UNCHANGED <<reads, lent>>
  PROVE  PoolInv'
<1>0. /\ worker \in [Worker -> {"check", "wait", "run", "keeping", "gone"}]
      /\ HoldsWhileBusy /\ GoneIsDrained
  BY DEF TypeOK, PoolTypeOK, PoolInv
<1>1. ASSUME NEW l \in Loop, Notify(l) PROVE PoolInv'
  <2>1. /\ UNCHANGED <<q, stopping, task, stop, in_time>>
        /\ \A w \in Worker : worker'[w] = worker[w] \/ (worker[w] = "wait" /\ worker'[w] = "check")
    BY <1>0, <1>1 DEF Notify, Sleeping
  <2>2. HoldsWhileBusy'
    BY <1>0, <2>1 DEF HoldsWhileBusy
  <2>3. GoneIsDrained'
    BY <1>0, <2>1 DEF GoneIsDrained, Queued
  <2> QED BY <2>1, <2>2, <2>3, QuietPool
<1>2. ASSUME NEW w \in Worker, Sleep(w) \/ SpuriousWakeup(w) PROVE PoolInv'
  <2>1. /\ UNCHANGED <<q, stopping, task, stop, in_time>>
        /\ worker[w] \in {"check", "wait"}
        /\ worker' \in {[worker EXCEPT ![w] = "check"], [worker EXCEPT ![w] = "wait"]}
    BY <1>2 DEF Sleep, SpuriousWakeup
  <2>2. HoldsWhileBusy'
    BY <1>0, <2>1 DEF HoldsWhileBusy
  <2>3. GoneIsDrained'
    BY <1>0, <2>1 DEF GoneIsDrained, Queued
  <2> QED BY <2>1, <2>2, <2>3, QuietPool
<1>3. ASSUME NEW w \in Worker, Leave(w) PROVE PoolInv'
  <2>1. /\ UNCHANGED <<q, stopping, task, stop, in_time>>
        /\ worker[w] = "check" /\ stopping /\ q = << >>
        /\ worker' = [worker EXCEPT ![w] = "gone"]
    BY <1>3 DEF Leave
  <2>2. HoldsWhileBusy'
    BY <1>0, <2>1 DEF HoldsWhileBusy
  <2>3. Queued' = {}
    BY <2>1 DEF Queued
  <2>4. GoneIsDrained'
    BY <1>0, <2>1, <2>3 DEF GoneIsDrained
  <2> QED BY <2>1, <2>2, <2>4, QuietPool
<1>4. ASSUME StopSet PROVE PoolInv'
  <2>1. UNCHANGED <<q, worker, task, in_time>> /\ stopping' /\ stop' = "notify"
    BY <1>4 DEF StopSet
  <2>2. HoldsWhileBusy'
    BY <1>0, <2>1 DEF HoldsWhileBusy
  <2>3. GoneIsDrained'
    BY <1>0, <2>1 DEF GoneIsDrained, Queued
  <2> QED BY <2>1, <2>2, <2>3, QuietPool
<1>5. ASSUME StopNotify PROVE PoolInv'
  <2>1. /\ UNCHANGED <<q, stopping, task, in_time>> /\ stop' = "join"
        /\ \A w \in Worker : worker'[w] = worker[w] \/ (worker[w] = "wait" /\ worker'[w] = "check")
    BY <1>0, <1>5 DEF StopNotify, Sleeping
  <2>2. HoldsWhileBusy'
    BY <1>0, <2>1 DEF HoldsWhileBusy
  <2>3. GoneIsDrained'
    BY <1>0, <2>1 DEF GoneIsDrained, Queued
  <2> QED BY <2>1, <2>2, <2>3, QuietPool
<1>6. ASSUME StopJoin PROVE PoolInv'
  <2>1. /\ UNCHANGED <<q, stopping, worker, task, in_time>>
        /\ \A w \in Worker : worker[w] = "gone"
    BY <1>6 DEF StopJoin
  <2>2. HoldsWhileBusy'
    BY <1>0, <2>1 DEF HoldsWhileBusy
  <2>3. GoneIsDrained'
    BY <1>0, <2>1 DEF GoneIsDrained, Queued
  <2> QED BY <2>1, <2>2, <2>3, QuietPool
<1> QED BY <1>1, <1>2, <1>3, <1>4, <1>5, <1>6, TakeKeeps DEF PoolStep

\* A message is posted: a task the pool has not seen.
LEMMA PostKeeps ==
  ASSUME TypeOK, PoolInv, NEW c \in Conn, OnMessagePost(c)
  PROVE  PoolInv'
<1> USE QueuedIsElements
<1> DEFINE n == reads[c] + 1
           t == <<c, n>>
<1>1. /\ reads' = [reads EXCEPT ![c] = n] /\ lent' = [lent EXCEPT ![c] = @ + 1]
      /\ q' = Append(q, t) /\ UNCHANGED <<stopping, worker, task, stop>>
      /\ in_time' = IF stopping THEN in_time ELSE in_time \cup {t}
      /\ reads[c] < MaxMsg
  BY DEF OnMessagePost, Post
<1>2. reads \in [Conn -> 0..MaxMsg] /\ lent \in [Conn -> Nat] /\ q \in Seq(Work)
  BY DEF TypeOK, ServerTypeOK, PoolTypeOK
<1>3. n \in 1..MaxMsg /\ t \in Work
  <2>1. reads[c] \in 0..MaxMsg /\ reads[c] < MaxMsg /\ MaxMsg \in Nat
    BY <1>1, <1>2, EchoAssumption
  <2>2. n \in 1..MaxMsg
    BY <2>1
  <2> QED BY <2>2, EchoAssumption
<1>4. t \notin Pooled /\ t \notin in_time
  <2>1. ~(n <= reads[c])
    BY <1>2, EchoAssumption
  <2> QED BY <1>3, <2>1 DEF PoolInv, NextIsNew
<1> HIDE DEF n, t
<1>5. Queued' = Queued \cup {t} /\ Injective(q')
  BY <1>1, <1>2, <1>3, <1>4, AppendFacts DEF PoolInv, OnePlace, Pooled
<1>6. Pooled' = Pooled \cup {t}
  BY <1>1, <1>5 DEF Pooled
<1>7. HoldsWhileBusy'
  BY <1>1 DEF PoolInv, HoldsWhileBusy
<1>8. OnePlace'
  <2>1. \A w \in Worker : task'[w] # t
    BY <1>1, <1>4 DEF Pooled
  <2> QED BY <1>1, <1>5, <2>1 DEF PoolInv, OnePlace
<1>9. NextIsNew'
  <2> SUFFICES ASSUME NEW d \in Conn, NEW m \in 1..MaxMsg, <<d, m>> \in Pooled' \cup in_time'
               PROVE  m <= reads'[d]
    BY DEF NextIsNew
  <2>1. CASE <<d, m>> = t
    BY <1>1, <1>2, <1>3, <2>1 DEF t
  <2>2. CASE <<d, m>> # t
    <3>1. <<d, m>> \in Pooled \cup in_time
      BY <1>1, <1>6, <2>2
    <3>2. m <= reads[d]
      BY <3>1 DEF PoolInv, NextIsNew
    <3> QED BY <1>1, <1>2, <3>2, EchoAssumption DEF n
  <2> QED BY <2>1, <2>2
<1>10. LentIsCounted'
  <2> SUFFICES ASSUME NEW d \in Conn PROVE lent'[d] = Cardinality(LentTo(d)')
    BY DEF LentIsCounted
  <2>1. IsFiniteSet(LentTo(d)) /\ lent[d] = Cardinality(LentTo(d))
    BY LentFacts
  <2>2. CASE d = c
    <3>1. LentTo(c)' = LentTo(c) \cup {n} /\ n \notin LentTo(c)
      BY <1>3, <1>4, <1>6 DEF LentTo, t
    <3>2. Cardinality(LentTo(c) \cup {n}) = Cardinality(LentTo(c)) + 1
      BY <2>1, <2>2, <3>1, FS_AddElement
    <3> QED BY <1>1, <1>2, <2>1, <2>2, <3>1, <3>2
  <2>3. CASE d # c
    <3>1. LentTo(d)' = LentTo(d)
      BY <1>6, <2>3 DEF LentTo, t
    <3> QED BY <1>1, <1>2, <2>1, <2>3, <3>1
  <2> QED BY <2>2, <2>3
<1>11. GoneIsDrained'
  BY <1>1, <1>4, <1>5 DEF PoolInv, GoneIsDrained
<1> QED BY <1>7, <1>8, <1>9, <1>10, <1>11 DEF PoolInv

\* A closure is destroyed: its task is nowhere any more.
LEMMA DropKeeps ==
  ASSUME TypeOK, PoolInv, NEW w \in Worker, WorkerDrop(w)
  PROVE  PoolInv'
<1>0. worker[w] = "keeping"
  BY DEF WorkerDrop, DropTask
<1>1. PICK c \in Conn, n \in 1..MaxMsg : c = task[w][1] /\ n = task[w][2]
  BY <1>0, HeldTask
<1>2. /\ worker' = [worker EXCEPT ![w] = "check"]
      /\ task' = [task EXCEPT ![w] = NoWork]
      /\ lent' = [lent EXCEPT ![c] = @ - 1]
      /\ UNCHANGED <<q, stopping, stop, in_time, reads>>
  BY <1>1 DEF WorkerDrop, DropTask, echoVars
<1>2a. /\ task \in [Worker -> Work \cup {NoWork}] /\ lent \in [Conn -> Nat]
       /\ worker \in [Worker -> {"check", "wait", "run", "keeping", "gone"}]
  BY DEF TypeOK, PoolTypeOK, ServerTypeOK
<1>3. n \in LentTo(c) /\ task[w] = <<c, n>> /\ task[w] \in Work
  BY <1>0, <1>1, HeldTask
<1>4. Queued' = Queued
  BY <1>2 DEF Queued
<1>5. \A t \in Work : t \in Pooled' <=> t \in Pooled /\ t # task[w]
  <2> SUFFICES ASSUME NEW t \in Work PROVE t \in Pooled' <=> t \in Pooled /\ t # task[w]
    OBVIOUS
  <2>1. (\E v \in Worker : t = task'[v]) <=> \E v \in Worker \ {w} : t = task[v]
    BY <1>0, <1>2, <1>2a, WorkAssumption
  <2>2. (\E v \in Worker \ {w} : t = task[v]) => t # task[w]
    BY WorkAssumption DEF PoolInv, OnePlace
  <2>3. t \in Queued => t # task[w]
    BY DEF PoolInv, OnePlace
  <2> QED BY <1>4, <2>1, <2>2, <2>3 DEF Pooled
<1>6. \A d \in Conn, m \in 1..MaxMsg :
        <<d, m>> \in Pooled' <=> <<d, m>> \in Pooled /\ ~(d = c /\ m = n)
  BY <1>3, <1>5, EchoAssumption
<1>7. HoldsWhileBusy'
  BY <1>0, <1>2, <1>2a DEF PoolInv, HoldsWhileBusy
<1>8. OnePlace'
  <2>1. \A v \in Worker : task'[v] \notin Queued'
    <3>1. NoWork \notin Queued
      BY WorkAssumption, LenProperties, ElementOfSeq DEF TypeOK, PoolTypeOK, Queued
    <3> QED BY <1>0, <1>2, <1>2a, <1>4, <3>1 DEF PoolInv, OnePlace
  <2>2. \A u, v \in Worker : task'[u] = task'[v] /\ task'[v] # NoWork => u = v
    BY <1>0, <1>2, <1>2a DEF PoolInv, OnePlace
  <2>3. Injective(q')
    BY <1>2 DEF PoolInv, OnePlace
  <2> QED BY <2>1, <2>2, <2>3 DEF OnePlace
<1>9. NextIsNew'
  BY <1>2, <1>6 DEF PoolInv, NextIsNew
<1>10. LentIsCounted'
  <2> SUFFICES ASSUME NEW d \in Conn PROVE lent'[d] = Cardinality(LentTo(d)')
    BY DEF LentIsCounted
  <2>1. IsFiniteSet(LentTo(d)) /\ lent[d] = Cardinality(LentTo(d))
    BY LentFacts
  <2>2. CASE d = c
    <3>1. LentTo(c)' = LentTo(c) \ {n}
      BY <1>3, <1>6 DEF LentTo
    <3>2. Cardinality(LentTo(c) \ {n}) = Cardinality(LentTo(c)) - 1
      BY <1>3, <2>1, <2>2, FS_RemoveElement
    <3> QED BY <1>0, <1>2, <1>2a, <2>1, <2>2, <3>1, <3>2
  <2>3. CASE d # c
    <3>1. LentTo(d)' = LentTo(d)
      BY <1>6, <2>3 DEF LentTo
    <3> QED BY <1>0, <1>2, <1>2a, <2>1, <2>3, <3>1
  <2> QED BY <2>2, <2>3
<1>11. GoneIsDrained'
  BY <1>0, <1>2, <1>2a, <1>4 DEF PoolInv, GoneIsDrained
<1> QED BY <1>7, <1>8, <1>9, <1>10, <1>11 DEF PoolInv

LEMMA NextPool == TypeOK /\ PoolInv /\ [Next]_vars => PoolInv'
<1> SUFFICES ASSUME TypeOK, PoolInv, [Next]_vars PROVE PoolInv'
  OBVIOUS
<1>1. ASSUME UNCHANGED <<poolVars, reads, lent>> PROVE PoolInv'
  <2>1. HoldsWhileBusy' /\ GoneIsDrained'
    BY <1>1 DEF poolVars, PoolInv, HoldsWhileBusy, GoneIsDrained, Queued
  <2> QED BY <1>1, <2>1, QuietPool DEF poolVars
<1>2. CASE UNCHANGED vars
  BY <1>1, <1>2 DEF vars, serverVars, echoVars
<1>3. CASE PoolStep /\ UNCHANGED <<serverVars, echoVars>>
  BY <1>3, PoolStepKeeps DEF serverVars, echoVars
<1>4. CASE ServerStep /\ UNCHANGED <<poolVars, echoVars>>
  <2>1. UNCHANGED lent
    BY <1>4 DEF ServerStep, StartLoop, ThreadFunc, PrepareTables, ListenInLoop, ListenInBase,
         AcceptInBase, AcceptInLoop, HandleClose, BeginTasks, RunNew, RunRemove, EndTasks
  <2> QED BY <1>1, <1>4, <2>1 DEF echoVars
<1>5. ASSUME NEW c \in Conn, OnMessageEcho(c) PROVE PoolInv'
  <2>1. UNCHANGED <<q, worker, task, stopping, stop, in_time, lent>>
        /\ reads' = [reads EXCEPT ![c] = @ + 1]
    BY <1>5 DEF OnMessageEcho, serverVars, poolVars
  <2>2. Queued' = Queued /\ Pooled' = Pooled
    BY <2>1 DEF Queued, Pooled
  <2>3. HoldsWhileBusy' /\ GoneIsDrained' /\ OnePlace' /\ LentIsCounted'
    BY <2>1, <2>2 DEF PoolInv, HoldsWhileBusy, GoneIsDrained, OnePlace, LentIsCounted, LentTo, Injective
  <2>4. NextIsNew'
    <3>1. reads \in [Conn -> 0..MaxMsg]
      BY DEF TypeOK
    <3> QED BY <2>1, <2>2, <3>1, EchoAssumption DEF PoolInv, NextIsNew
  <2> QED BY <2>3, <2>4 DEF PoolInv
<1>6. ASSUME NEW w \in Worker, WorkerSend(w) PROVE PoolInv'
  <2>1. /\ worker[w] = "run" /\ worker' = [worker EXCEPT ![w] = "keeping"]
        /\ UNCHANGED <<q, stopping, task, stop, in_time, lent, reads>>
    BY <1>6 DEF WorkerSend, RunTask, echoVars
  <2>2. worker \in [Worker -> {"check", "wait", "run", "keeping", "gone"}]
    BY DEF TypeOK, PoolTypeOK
  <2>3. HoldsWhileBusy' /\ GoneIsDrained'
    BY <2>1, <2>2 DEF PoolInv, HoldsWhileBusy, GoneIsDrained, Queued
  <2> QED BY <2>1, <2>3, QuietPool
<1>7. ASSUME NEW l \in Loop, RunSend(l) PROVE PoolInv'
  BY <1>1, <1>7 DEF RunSend
<1> QED BY <1>2, <1>3, <1>4, <1>5, <1>6, <1>7, NextSteps, PostKeeps, DropKeeps DEF EchoStep

-----------------------------------------------------------------------------
(* The server: what a queued task adds, and what running one takes away.   *)

States == {"none", "accepted", "up", "closed", "removed"}

LEMMA TypeFacts ==
  ASSUME TypeOK
  PROVE  /\ state \in [Conn -> States] /\ fd \in [Conn -> Fd \cup {NoFd}]
         /\ home \in [Conn -> Loop] /\ table \in [Loop -> [Fd -> Conn \cup {NoConn}]]
         /\ pending \in [Loop -> Seq(Tasks)] /\ buffer \in [Loop -> Seq(Tasks)]
         /\ done \in [Loop -> Nat] /\ lent \in [Conn -> Nat]
         /\ \A l \in Loop : Len(pending[l]) \in Nat /\ Len(buffer[l]) \in Nat
         /\ ServerTypes
<1>1. \A l \in Loop : Len(pending[l]) \in Nat /\ Len(buffer[l]) \in Nat
  BY LenProperties DEF TypeOK
<1> QED BY <1>1 DEF TypeOK, ServerTypeOK, ServerTypes, States

LEMMA PlacesAppend ==
  ASSUME NEW s \in Seq(Tasks), NEW x \in Tasks
  PROVE  /\ Append(s, x) \in Seq(Tasks) /\ Len(Append(s, x)) = Len(s) + 1
         /\ \A i \in 1..Len(s) : Append(s, x)[i] = s[i]
         /\ Append(s, x)[Len(s) + 1] = x /\ Len(s) \in Nat
         /\ x.op = "send" => Places(Append(s, x), 0) = Places(s, 0)
         /\ x.op # "send" => Places(Append(s, x), 0) = Places(s, 0) \cup {Len(s) + 1}
<1>1. /\ Append(s, x) \in Seq(Tasks) /\ Len(Append(s, x)) = Len(s) + 1 /\ Len(s) \in Nat
      /\ \A i \in 1..Len(s) : Append(s, x)[i] = s[i]
      /\ Append(s, x)[Len(s) + 1] = x
  BY AppendProperties, LenProperties
<1>2. PICK a \in Seq(Tasks) : a = Append(s, x)
  BY <1>1
<1>3. \A i \in 1..Len(a) : i \in 1..Len(s) \/ i = Len(s) + 1
  BY <1>1, <1>2
<1>4. x.op = "send" => Places(a, 0) = Places(s, 0)
  BY <1>1, <1>2, <1>3 DEF Places
<1>5. x.op # "send" => Places(a, 0) = Places(s, 0) \cup {Len(s) + 1}
  BY <1>1, <1>2, <1>3 DEF Places
<1> QED BY <1>1, <1>2, <1>4, <1>5

\* The connections that tasks of the server are about.
About(l) == {pending[l][i].c : i \in Places(pending[l], 0)}
              \cup {buffer[l][i].c : i \in Places(buffer[l], done[l])}

LEMMA AboutFacts ==
  ASSUME TypeOK, TasksAreTrue, NEW l \in Loop, NEW c \in About(l)
  PROVE  home[c] = l /\ state[c] \in {"accepted", "closed"} /\ c \in Conn
<1>1. ASSUME NEW s \in Seq(Tasks), NEW k, OwnTasks(l, s, k), NEW i \in Places(s, k), s[i].c = c
      PROVE  home[c] = l /\ state[c] \in {"accepted", "closed"} /\ c \in Conn
  <2>1. s[i] \in Tasks
    BY ElementOfSeq DEF Places
  <2>2. s[i].op \in {"new", "remove"} /\ s[i].c \in Conn
    BY <2>1 DEF Tasks, Places
  <2> QED BY <1>1, <2>2 DEF OwnTasks
<1>2. /\ pending[l] \in Seq(Tasks) /\ buffer[l] \in Seq(Tasks)
      /\ OwnTasks(l, pending[l], 0) /\ OwnTasks(l, buffer[l], done[l])
  BY TypeFacts DEF TasksAreTrue
<1> QED BY <1>1, <1>2 DEF About

\* A task for c is queued on its loop, in which no task is about c.
LEMMA QueueOwn ==
  ASSUME TypeOK, TasksAreTrue, NEW l \in Loop, NEW c \in Conn, NEW o \in {"new", "remove"},
         Queue(l, ServerTask(o, c)), UNCHANGED <<buffer, done>>,
         \A k \in Loop : c \notin About(k),
         home'[c] = l, state'[c] = (IF o = "new" THEN "accepted" ELSE "closed"),
         \A d \in Conn \ {c} : state'[d] = state[d] /\ home'[d] = home[d]
  PROVE  TasksAreTrue'
<1> DEFINE x == ServerTask(o, c)
<1>1. x \in Tasks /\ x.op = o /\ x.c = c /\ x.op # "send"
  BY DEF ServerTask, Tasks
<1> HIDE DEF x
<1>2. pending' = [pending EXCEPT ![l] = Append(@, x)]
  BY DEF Queue, x
<1>3. ASSUME NEW k \in Loop
      PROVE  /\ OwnTasks(k, pending[k], 0)' /\ OwnTasks(k, buffer[k], done[k])'
             /\ \A i \in Places(pending[k], 0)', j \in Places(buffer[k], done[k])' :
                  pending'[k][i].c # buffer'[k][j].c
  <2>0. /\ pending[k] \in Seq(Tasks) /\ buffer[k] \in Seq(Tasks)
        /\ OwnTasks(k, pending[k], 0) /\ OwnTasks(k, buffer[k], done[k])
        /\ \A i \in Places(pending[k], 0), j \in Places(buffer[k], done[k]) :
             pending[k][i].c # buffer[k][j].c
        /\ \A i \in Places(pending[k], 0) : pending[k][i].c \in Conn \ {c}
        /\ \A i \in Places(buffer[k], done[k]) : buffer[k][i].c \in Conn \ {c}
    BY TypeFacts, AboutFacts DEF TasksAreTrue, About
  <2>1. OwnTasks(k, buffer[k], done[k])'
    BY <2>0 DEF OwnTasks, Places
  <2>2. CASE k # l
    <3>1. pending'[k] = pending[k]
      BY <1>2, <2>2, TypeFacts
    <3>2. OwnTasks(k, pending[k], 0)'
      BY <2>0, <3>1 DEF OwnTasks, Places
    <3> QED BY <2>0, <2>1, <3>1, <3>2 DEF Places
  <2>3. CASE k = l
    <3>0. PICK a \in Seq(Tasks), n \in Nat :
            /\ a = pending'[k] /\ n = Len(pending[k]) /\ a[n + 1] = x
            /\ \A i \in 1..n : a[i] = pending[k][i]
            /\ Places(a, 0) = Places(pending[k], 0) \cup {n + 1}
      <4>1. pending'[k] = Append(pending[k], x)
        BY <1>2, <2>3, TypeFacts
      <4>2. PICK a \in Seq(Tasks) : a = Append(pending[k], x)
        BY <1>1, <2>0, PlacesAppend
      <4>3. /\ a[Len(pending[k]) + 1] = x /\ Len(pending[k]) \in Nat
            /\ \A i \in 1..Len(pending[k]) : a[i] = pending[k][i]
            /\ Places(a, 0) = Places(pending[k], 0) \cup {Len(pending[k]) + 1}
        BY <1>1, <2>0, <4>2, PlacesAppend
      <4> QED BY <4>1, <4>2, <4>3
    <3>1. \A i \in Places(pending[k], 0) : a[i] = pending[k][i] /\ i # n + 1
      BY <3>0 DEF Places
    <3>2. \A i \in Places(a, 0) : \/ i = n + 1 /\ a[i] = x
                                  \/ i \in Places(pending[k], 0) /\ a[i] = pending[k][i]
      BY <3>0, <3>1
    <3>3. OwnTasks(k, pending[k], 0)'
      <4>1. ASSUME NEW i \in Places(a, 0)
            PROVE  /\ home'[a[i].c] = k
                   /\ a[i].op = "new" => state'[a[i].c] = "accepted"
                   /\ a[i].op = "remove" => state'[a[i].c] = "closed"
        <5>1. CASE a[i] = x
          BY <1>1, <2>3, <5>1
        <5>2. CASE i \in Places(pending[k], 0) /\ a[i] = pending[k][i]
          BY <2>0, <5>2 DEF OwnTasks
        <5> QED BY <3>2, <5>1, <5>2
      <4>2. ASSUME NEW i \in Places(a, 0), NEW j \in Places(a, 0), a[i].c = a[j].c
            PROVE  i = j
        <5>1. CASE i = n + 1 /\ j = n + 1
          BY <5>1
        <5>2. CASE i \in Places(pending[k], 0) /\ j \in Places(pending[k], 0)
          BY <2>0, <3>1, <4>2, <5>2 DEF OwnTasks
        <5>3. CASE \/ i = n + 1 /\ j \in Places(pending[k], 0)
                   \/ j = n + 1 /\ i \in Places(pending[k], 0)
          BY <1>1, <2>0, <3>0, <3>1, <4>2, <5>3
        <5> QED BY <3>2, <5>1, <5>2, <5>3
      <4> QED BY <3>0, <4>1, <4>2 DEF OwnTasks, Places
    <3>4. \A i \in Places(a, 0), j \in Places(buffer[k], done[k]) :
            a[i].c # buffer[k][j].c
      BY <1>1, <2>0, <3>2
    <3> QED BY <2>1, <3>0, <3>3, <3>4 DEF Places
  <2> QED BY <2>2, <2>3
<1> QED BY <1>3 DEF TasksAreTrue

\* The next task of loop l has run; if it was the server's, about c alone.
LEMMA RunOwn ==
  ASSUME TypeOK, TasksAreTrue, NEW l \in Loop, NEW o, Running(l, o), Done(l),
         UNCHANGED <<pending, buffer, home>>,
         \/ UNCHANGED state
         \/ o # "send" /\ \A d \in Conn \ {This(l)} : state'[d] = state[d]
  PROVE  TasksAreTrue'
<1>1. /\ done[l] + 1 \in 1..Len(buffer[l]) /\ buffer[l][done[l] + 1].op = o
      /\ This(l) = buffer[l][done[l] + 1].c /\ done[l] \in Nat
  BY RunningFacts, TypeFacts DEF This
<1>2. done' = [done EXCEPT ![l] = @ + 1] /\ done \in [Loop -> Nat]
  BY TypeFacts DEF Done
<1>3. ASSUME NEW k \in Loop
      PROVE  /\ OwnTasks(k, pending[k], 0)' /\ OwnTasks(k, buffer[k], done[k])'
             /\ \A i \in Places(pending[k], 0)', j \in Places(buffer[k], done[k])' :
                  pending'[k][i].c # buffer'[k][j].c
  <2>0. /\ OwnTasks(k, pending[k], 0) /\ OwnTasks(k, buffer[k], done[k])
        /\ \A i \in Places(pending[k], 0), j \in Places(buffer[k], done[k]) :
             pending[k][i].c # buffer[k][j].c
        /\ \A c \in About(k) : home[c] = k /\ c \in Conn
    BY AboutFacts DEF TasksAreTrue
  <2>1. Places(buffer[k], done'[k]) \subseteq Places(buffer[k], done[k])
    BY <1>2 DEF Places
  <2>2. o # "send" => /\ done[l] + 1 \in Places(buffer[l], done[l])
                      /\ done[l] + 1 \notin Places(buffer[l], done'[l])
    BY <1>1, <1>2 DEF Places
  <2>3. o # "send" => /\ \A i \in Places(pending[k], 0) : pending[k][i].c # This(l)
                      /\ \A i \in Places(buffer[k], done'[k]) : buffer[k][i].c # This(l)
    <3> SUFFICES ASSUME o # "send"
                 PROVE  /\ \A i \in Places(pending[k], 0) : pending[k][i].c # This(l)
                        /\ \A i \in Places(buffer[k], done'[k]) : buffer[k][i].c # This(l)
      OBVIOUS
    <3>1. CASE k = l
      BY <1>1, <2>0, <2>1, <2>2, <3>1 DEF OwnTasks
    <3>2. CASE k # l
      <4>1. home[This(l)] = l
        BY <1>1, <2>2 DEF TasksAreTrue, OwnTasks
      <4> QED BY <2>0, <2>1, <3>2, <4>1 DEF About
    <3> QED BY <3>1, <3>2
  <2>4. /\ \A i \in Places(pending[k], 0) : state'[pending[k][i].c] = state[pending[k][i].c]
        /\ \A i \in Places(buffer[k], done'[k]) : state'[buffer[k][i].c] = state[buffer[k][i].c]
    BY <2>0, <2>1, <2>3 DEF About
  <2>5. OwnTasks(k, pending[k], 0)'
    BY <2>0, <2>4 DEF OwnTasks, Places
  <2>6. OwnTasks(k, buffer[k], done[k])'
    <3>1. \A i \in 1..Len(buffer'[k]) :
            i > done'[k] /\ buffer'[k][i].op # "send"
              => /\ i \in Places(buffer[k], done'[k]) /\ i \in Places(buffer[k], done[k])
                 /\ home'[buffer'[k][i].c] = k
                 /\ buffer'[k][i].op = "new" => state'[buffer'[k][i].c] = "accepted"
                 /\ buffer'[k][i].op = "remove" => state'[buffer'[k][i].c] = "closed"
      <4> SUFFICES ASSUME NEW i \in 1..Len(buffer[k]), i > done'[k], buffer[k][i].op # "send"
                   PROVE  /\ i \in Places(buffer[k], done'[k]) /\ i \in Places(buffer[k], done[k])
                          /\ home[buffer[k][i].c] = k
                          /\ buffer[k][i].op = "new" => state'[buffer[k][i].c] = "accepted"
                          /\ buffer[k][i].op = "remove" => state'[buffer[k][i].c] = "closed"
        OBVIOUS
      <4>1. i \in Places(buffer[k], done'[k]) /\ i \in Places(buffer[k], done[k])
        BY <2>1 DEF Places
      <4> QED BY <4>1, <2>0, <2>4 DEF OwnTasks
    <3>2. \A i, j \in Places(buffer[k], done[k]) : buffer'[k][i].c = buffer'[k][j].c => i = j
      BY <2>0 DEF OwnTasks
    <3> QED BY <3>1, <3>2 DEF OwnTasks, Places
  <2>7. \A i \in Places(pending[k], 0), j \in Places(buffer[k], done'[k]) :
          pending[k][i].c # buffer[k][j].c
    BY <2>0, <2>1
  <2> QED BY <2>5, <2>6, <2>7 DEF Places
<1> QED BY <1>3 DEF TasksAreTrue

-----------------------------------------------------------------------------
(* The server: descriptors and tables.                                     *)

LEMMA Occupant ==
  ASSUME TypeOK, ServerInv, NEW c \in Conn, state[c] \in {"up", "closed"}
  PROVE  fd[c] \in Fd /\ home[c] \in Loop /\ table[home[c]][fd[c]] = c /\ Held(c) /\ UsedBy(c)
<1>1. fd[c] \in Fd /\ home[c] \in Loop
  BY TypeFacts DEF ServerInv, OneOwner
<1>2. table[home[c]][fd[c]] = c
  BY <1>1 DEF ServerInv, TableIsTrue
<1>3. Held(c)
  BY <1>1, <1>2 DEF Held
<1> QED BY <1>1, <1>2, <1>3 DEF UsedBy

LEMMA OwnersKeep ==
  ASSUME OneOwner, UNCHANGED fd,
         \A c \in Conn : UsedBy(c)' => UsedBy(c),
         \A c \in Conn : state'[c] # "none" => state[c] # "none"
  PROVE  OneOwner'
BY DEF OneOwner

\* Nothing but a place in a table, a closure or a loan is a reference.
LEMMA HeldKeeps ==
  ASSUME NEW c \in Conn, Held(c)',
         lent'[c] > 0 => Held(c),
         \A l \in Loop, f \in Fd : table'[l][f] = c => Held(c),
         \A l \in Loop : \A i \in 1..Len(pending'[l]) : Holds(pending'[l][i], c) => Held(c),
         \A l \in Loop : \A i \in 1..Len(buffer'[l]) : Holds(buffer'[l][i], c) => Held(c)
  PROVE  Held(c)
BY DEF Held, Holds

\* A task is queued: its connection is held by it, unless it is new.
LEMMA QueueHolds ==
  ASSUME TypeOK, NEW l \in Loop, NEW t \in Tasks, Queue(l, t), NEW c \in Conn,
         t.c = c /\ t.op # "new" => Held(c)
  PROVE  \A k \in Loop : \A i \in 1..Len(pending'[k]) : Holds(pending'[k][i], c) => Held(c)
<1> SUFFICES ASSUME NEW k \in Loop, NEW i \in 1..Len(pending'[k]), Holds(pending'[k][i], c)
             PROVE  Held(c)
  OBVIOUS
<1>1. pending' = [pending EXCEPT ![l] = Append(@, t)] /\ pending[k] \in Seq(Tasks)
      /\ pending \in [Loop -> Seq(Tasks)]
  BY TypeFacts DEF Queue
<1>2. CASE k # l
  BY <1>1, <1>2 DEF Held, Holds
<1>3. CASE k = l
  <2>1. pending'[k] = Append(pending[k], t)
    BY <1>1, <1>3
  <2>2. PICK a \in Seq(Tasks) : a = Append(pending[k], t)
    BY <1>1, PlacesAppend
  <2>3. /\ Len(a) = Len(pending[k]) + 1 /\ Len(pending[k]) \in Nat
        /\ \A j \in 1..Len(pending[k]) : a[j] = pending[k][j]
        /\ a[Len(pending[k]) + 1] = t
    BY <1>1, <2>2, PlacesAppend
  <2>4. CASE i = Len(pending[k]) + 1
    BY <2>1, <2>2, <2>3, <2>4 DEF Holds
  <2>5. CASE i # Len(pending[k]) + 1
    <3>1. i \in 1..Len(pending[k]) /\ pending'[k][i] = pending[k][i]
      BY <2>1, <2>2, <2>3, <2>5
    <3> QED BY <3>1 DEF Held, Holds
  <2> QED BY <2>4, <2>5
<1> QED BY <1>2, <1>3

LEMMA TableKeeps ==
  ASSUME TableIsTrue, UNCHANGED table,
         \A c \in Conn : /\ state'[c] \in {"up", "closed"} <=> state[c] \in {"up", "closed"}
                         /\ state[c] \in {"up", "closed"} => home'[c] = home[c] /\ fd'[c] = fd[c]
  PROVE  TableIsTrue'
BY DEF TableIsTrue

-----------------------------------------------------------------------------
(* The server: its actions, one by one.                                    *)

LEMMA AcceptKeeps ==
  ASSUME TypeOK, ServerInv, NEW c \in Conn, NEW l \in Loop, NEW f \in LowestFree,
         state[c] = "none", NewConnection(l, c, f), UNCHANGED <<table, buffer, done, lent>>
  PROVE  ServerInv'
<1>1. /\ state' = [state EXCEPT ![c] = "accepted"] /\ fd' = [fd EXCEPT ![c] = f]
      /\ home' = [home EXCEPT ![c] = l] /\ Queue(l, ServerTask("new", c))
      /\ UNCHANGED <<table, buffer, done, lent>>
  BY DEF NewConnection
<1>2. /\ state'[c] = "accepted" /\ fd'[c] = f /\ home'[c] = l
      /\ \A d \in Conn \ {c} : state'[d] = state[d] /\ fd'[d] = fd[d] /\ home'[d] = home[d]
  BY <1>1, TypeFacts
<1>3. ServerTask("new", c) \in Tasks /\ ServerTask("new", c).op = "new"
  BY DEF ServerTask, Tasks
<1>4. f \in Fd /\ \A d \in Conn : UsedBy(d) => fd[d] # f
  BY DEF LowestFree, FreeFd
<1>5. TasksAreTrue'
  <2>1. \A k \in Loop : c \notin About(k)
    BY AboutFacts DEF ServerInv
  <2> QED BY <1>1, <1>2, <2>1, QueueOwn DEF ServerInv
<1>6. TableIsTrue'
  BY <1>1, <1>2, TableKeeps DEF ServerInv
<1>7. ASSUME NEW d \in Conn \ {c}, UsedBy(d)' PROVE UsedBy(d)
  <2>1. ASSUME Held(d)' PROVE Held(d)
    <3>1. lent'[d] > 0 => Held(d)
      BY <1>1 DEF Held
    <3>2. \A k \in Loop, g \in Fd : table'[k][g] = d => Held(d)
      BY <1>1 DEF Held
    <3>3. \A k \in Loop : \A i \in 1..Len(buffer'[k]) : Holds(buffer'[k][i], d) => Held(d)
      BY <1>1 DEF Held
    <3>4. \A k \in Loop : \A i \in 1..Len(pending'[k]) : Holds(pending'[k][i], d) => Held(d)
      BY <1>1, <1>3, QueueHolds
    <3> QED BY <2>1, <3>1, <3>2, <3>3, <3>4, HeldKeeps
  <2> QED BY <1>2, <1>7, <2>1 DEF UsedBy
<1>8. OneOwner'
  <2>1. ASSUME NEW d \in Conn, state'[d] # "none" PROVE fd'[d] \in Fd
    BY <1>2, <1>4, <2>1 DEF ServerInv, OneOwner
  <2>2. ASSUME NEW d \in Conn, NEW e \in Conn, UsedBy(d)', UsedBy(e)', fd'[d] = fd'[e]
        PROVE  d = e
    <3>1. CASE d # c /\ e # c
      BY <1>2, <1>7, <2>2, <3>1 DEF ServerInv, OneOwner
    <3>2. CASE d = c /\ e # c
      BY <1>2, <1>4, <1>7, <2>2, <3>2
    <3>3. CASE d # c /\ e = c
      BY <1>2, <1>4, <1>7, <2>2, <3>3
    <3> QED BY <3>1, <3>2, <3>3
  <2> QED BY <2>1, <2>2 DEF OneOwner
<1> QED BY <1>5, <1>6, <1>8 DEF ServerInv

LEMMA CloseKeeps ==
  ASSUME TypeOK, ServerInv, NEW c \in Conn, HandleClose(c)
  PROVE  ServerInv'
<1>1. /\ state[c] = "up" /\ state' = [state EXCEPT ![c] = "closed"]
      /\ Queue(home[c], ServerTask("remove", c))
      /\ UNCHANGED <<fd, home, table, buffer, done, lent>>
  BY DEF HandleClose, Close
<1>2. /\ state'[c] = "closed" /\ home[c] \in Loop
      /\ \A d \in Conn \ {c} : state'[d] = state[d]
  BY <1>1, TypeFacts
<1>3. ServerTask("remove", c) \in Tasks /\ ServerTask("remove", c).c = c
  BY DEF ServerTask, Tasks
<1>4. TasksAreTrue'
  <2>1. \A k \in Loop : c \notin About(k)
    BY <1>1, AboutFacts DEF ServerInv
  <2> QED BY <1>1, <1>2, <2>1, QueueOwn DEF ServerInv
<1>5. TableIsTrue'
  BY <1>1, <1>2, TableKeeps DEF ServerInv
<1>6. Held(c)
  BY <1>1, Occupant
<1>7. ASSUME NEW d \in Conn, Held(d)' PROVE Held(d)
  <2>1. lent'[d] > 0 => Held(d)
    BY <1>1 DEF Held
  <2>2. \A k \in Loop, g \in Fd : table'[k][g] = d => Held(d)
    BY <1>1 DEF Held
  <2>3. \A k \in Loop : \A i \in 1..Len(buffer'[k]) : Holds(buffer'[k][i], d) => Held(d)
    BY <1>1 DEF Held
  <2>4. \A k \in Loop : \A i \in 1..Len(pending'[k]) : Holds(pending'[k][i], d) => Held(d)
    BY <1>1, <1>2, <1>3, <1>6, QueueHolds
  <2> QED BY <1>7, <2>1, <2>2, <2>3, <2>4, HeldKeeps
<1>8. \A d \in Conn : /\ UsedBy(d)' => UsedBy(d)
                      /\ state'[d] # "none" => state[d] # "none"
  BY <1>1, <1>2, <1>7 DEF UsedBy
<1> QED BY <1>1, <1>4, <1>5, <1>8, OwnersKeep DEF ServerInv

\* Steps that move no connection and no task; a loan is of a held connection.
LEMMA LendKeeps ==
  ASSUME ServerInv, UNCHANGED <<connVars, taskVars>>,
         \A c \in Conn : lent'[c] > 0 => Held(c)
  PROVE  ServerInv'
<1>1. UNCHANGED <<state, fd, home, table, pending, buffer, done>>
  BY DEF connVars, taskVars
<1>2. TableIsTrue'
  BY <1>1, TableKeeps DEF ServerInv
<1>3. TasksAreTrue'
  BY <1>1 DEF ServerInv, TasksAreTrue, OwnTasks, Places
<1>4. ASSUME NEW c \in Conn, Held(c)' PROVE Held(c)
  <2>1. \A k \in Loop, g \in Fd : table'[k][g] = c => Held(c)
    BY <1>1 DEF Held
  <2>2. \A k \in Loop : \A i \in 1..Len(buffer'[k]) : Holds(buffer'[k][i], c) => Held(c)
    BY <1>1 DEF Held
  <2>3. \A k \in Loop : \A i \in 1..Len(pending'[k]) : Holds(pending'[k][i], c) => Held(c)
    BY <1>1 DEF Held
  <2> QED BY <1>4, <2>1, <2>2, <2>3, HeldKeeps
<1>5. \A c \in Conn : UsedBy(c)' => UsedBy(c)
  BY <1>1, <1>4 DEF UsedBy
<1> QED BY <1>1, <1>2, <1>3, <1>5, OwnersKeep DEF ServerInv

LEMMA BeginKeeps ==
  ASSUME TypeOK, ServerInv, NEW l \in Loop, BeginTasks(l)
  PROVE  ServerInv'
<1>1. /\ buffer[l] = << >> /\ UNCHANGED <<state, fd, home, table, done, lent>>
      /\ buffer' = [buffer EXCEPT ![l] = pending[l]]
      /\ pending' = [pending EXCEPT ![l] = << >>]
  BY DEF BeginTasks, Polling, connVars
<1>2. done[l] = 0 /\ Len(<< >>) = 0
  <2>1. done[l] <= Len(buffer[l]) /\ done[l] \in Nat
    BY DEF TypeOK, ServerTypeOK
  <2> QED BY <1>1, <2>1, EmptySeq
<1>3. \A k \in Loop \ {l} : buffer'[k] = buffer[k] /\ pending'[k] = pending[k]
  BY <1>1, TypeFacts
<1>4. buffer'[l] = pending[l] /\ pending'[l] = << >>
  BY <1>1, TypeFacts
<1>5. TableIsTrue'
  BY <1>1, TableKeeps DEF ServerInv
<1>6. ASSUME NEW k \in Loop
      PROVE  /\ OwnTasks(k, pending[k], 0)' /\ OwnTasks(k, buffer[k], done[k])'
             /\ \A i \in Places(pending'[k], 0), j \in Places(buffer'[k], done'[k]) :
                  pending'[k][i].c # buffer'[k][j].c
  <2>0. /\ OwnTasks(k, pending[k], 0) /\ OwnTasks(k, buffer[k], done[k])
        /\ \A i \in Places(pending[k], 0), j \in Places(buffer[k], done[k]) :
             pending[k][i].c # buffer[k][j].c
    BY DEF ServerInv, TasksAreTrue
  <2>1. CASE k # l
    <3>1. pending'[k] = pending[k] /\ buffer'[k] = buffer[k] /\ done'[k] = done[k]
      BY <1>1, <1>3, <2>1
    <3>2. OwnTasks(k, pending[k], 0)' /\ OwnTasks(k, buffer[k], done[k])'
      BY <1>1, <2>0, <3>1 DEF OwnTasks, Places
    <3> QED BY <2>0, <3>1, <3>2
  <2>2. CASE k = l
    <3>1. pending'[k] = << >> /\ buffer'[k] = pending[k] /\ done'[k] = 0
      BY <1>1, <1>2, <1>4, <2>2
    <3>2. OwnTasks(k, buffer[k], done[k])'
      BY <1>1, <2>0, <3>1 DEF OwnTasks, Places
    <3>3. OwnTasks(k, pending[k], 0)' /\ Places(pending'[k], 0) = {}
      BY <1>2, <3>1 DEF OwnTasks, Places
    <3> QED BY <3>2, <3>3
  <2> QED BY <2>1, <2>2
<1>7. TasksAreTrue'
  BY <1>6 DEF TasksAreTrue, Places
<1>8. ASSUME NEW c \in Conn, Held(c)' PROVE Held(c)
  <2>1. /\ lent'[c] > 0 => Held(c)
        /\ \A k \in Loop, g \in Fd : table'[k][g] = c => Held(c)
    BY <1>1 DEF Held
  <2>2. ASSUME NEW k \in Loop, NEW i \in 1..Len(buffer'[k]), Holds(buffer'[k][i], c)
        PROVE  Held(c)
    BY <1>3, <1>4, <2>2 DEF Held, Holds
  <2>3. ASSUME NEW k \in Loop, NEW i \in 1..Len(pending'[k]), Holds(pending'[k][i], c)
        PROVE  Held(c)
    <3>1. k # l
      BY <1>2, <1>4, <2>3
    <3> QED BY <1>3, <2>3, <3>1 DEF Held, Holds
  <2> QED BY <1>8, <2>1, <2>2, <2>3, HeldKeeps
<1>9. \A c \in Conn : UsedBy(c)' => UsedBy(c)
  BY <1>1, <1>8 DEF UsedBy
<1> QED BY <1>1, <1>5, <1>7, <1>9, OwnersKeep DEF ServerInv

LEMMA EndKeeps ==
  ASSUME TypeOK, ServerInv, NEW l \in Loop, EndTasks(l)
  PROVE  ServerInv'
<1>1. /\ UNCHANGED <<state, fd, home, table, pending, lent>>
      /\ buffer' = [buffer EXCEPT ![l] = << >>] /\ done' = [done EXCEPT ![l] = 0]
  BY DEF EndTasks, connVars
<1>2. /\ \A k \in Loop \ {l} : buffer'[k] = buffer[k] /\ done'[k] = done[k]
      /\ buffer'[l] = << >> /\ Len(<< >>) = 0
  BY <1>1, TypeFacts, EmptySeq
<1>3. TableIsTrue'
  BY <1>1, TableKeeps DEF ServerInv
<1>4. ASSUME NEW k \in Loop
      PROVE  /\ OwnTasks(k, pending[k], 0)' /\ OwnTasks(k, buffer[k], done[k])'
             /\ \A i \in Places(pending'[k], 0), j \in Places(buffer'[k], done'[k]) :
                  pending'[k][i].c # buffer'[k][j].c
  <2>0. /\ OwnTasks(k, pending[k], 0) /\ OwnTasks(k, buffer[k], done[k])
        /\ \A i \in Places(pending[k], 0), j \in Places(buffer[k], done[k]) :
             pending[k][i].c # buffer[k][j].c
    BY DEF ServerInv, TasksAreTrue
  <2>1. OwnTasks(k, pending[k], 0)' /\ Places(pending'[k], 0) = Places(pending[k], 0)
    BY <1>1, <2>0 DEF OwnTasks, Places
  <2>2. CASE k # l
    <3>1. buffer'[k] = buffer[k] /\ done'[k] = done[k] /\ pending'[k] = pending[k]
      BY <1>1, <1>2, <2>2
    <3>2. OwnTasks(k, buffer[k], done[k])'
      BY <1>1, <2>0, <3>1 DEF OwnTasks, Places
    <3> QED BY <2>0, <2>1, <3>1, <3>2
  <2>3. CASE k = l
    <3>1. OwnTasks(k, buffer[k], done[k])' /\ Places(buffer'[k], done'[k]) = {}
      BY <1>2, <2>3 DEF OwnTasks, Places
    <3> QED BY <2>1, <3>1
  <2> QED BY <2>2, <2>3
<1>5. TasksAreTrue'
  BY <1>4 DEF TasksAreTrue, Places
<1>6. ASSUME NEW c \in Conn, Held(c)' PROVE Held(c)
  <2>1. /\ lent'[c] > 0 => Held(c)
        /\ \A k \in Loop, g \in Fd : table'[k][g] = c => Held(c)
        /\ \A k \in Loop : \A i \in 1..Len(pending'[k]) : Holds(pending'[k][i], c) => Held(c)
    BY <1>1 DEF Held
  <2>2. ASSUME NEW k \in Loop, NEW i \in 1..Len(buffer'[k]), Holds(buffer'[k][i], c)
        PROVE  Held(c)
    <3>1. k # l
      BY <1>2, <2>2
    <3> QED BY <1>2, <2>2, <3>1 DEF Held, Holds
  <2> QED BY <1>6, <2>1, <2>2, HeldKeeps
<1>7. \A c \in Conn : UsedBy(c)' => UsedBy(c)
  BY <1>1, <1>6 DEF UsedBy
<1> QED BY <1>1, <1>3, <1>5, <1>7, OwnersKeep DEF ServerInv

\* The task about to run, if it is the server's.
LEMMA OwnTask ==
  ASSUME TypeOK, ServerInv, NEW l \in Loop, NEW o \in {"new", "remove"}, Running(l, o)
  PROVE  /\ This(l) \in Conn /\ home[This(l)] = l /\ fd[This(l)] \in Fd
         /\ o = "new" => state[This(l)] = "accepted"
         /\ o = "remove" => state[This(l)] = "closed"
<1>1. /\ done[l] + 1 \in 1..Len(buffer[l]) /\ buffer[l][done[l] + 1].op = o
      /\ This(l) = buffer[l][done[l] + 1].c /\ done[l] \in Nat /\ This(l) \in Conn
  BY RunningFacts, TypeFacts DEF This
<1>2. done[l] + 1 \in Places(buffer[l], done[l])
  BY <1>1 DEF Places
<1>3. /\ home[This(l)] = l
      /\ o = "new" => state[This(l)] = "accepted"
      /\ o = "remove" => state[This(l)] = "closed"
  BY <1>1, <1>2 DEF ServerInv, TasksAreTrue, OwnTasks
<1>4. state[This(l)] # "none"
  BY <1>3
<1> QED BY <1>1, <1>3, <1>4 DEF ServerInv, OneOwner

LEMMA RunNewKeeps ==
  ASSUME TypeOK, ServerInv, NEW l \in Loop, RunNew(l)
  PROVE  ServerInv'
<1>1. PICK c \in Conn : c = This(l) /\ state[c] = "accepted" /\ home[c] = l /\ fd[c] \in Fd
  BY OwnTask DEF RunNew
<1>2. /\ Running(l, "new") /\ Done(l) /\ state' = [state EXCEPT ![c] = "up"]
      /\ table' = IF table[l][fd[c]] = NoConn
                  THEN [table EXCEPT ![l][fd[c]] = c] ELSE table
      /\ UNCHANGED <<fd, home, pending, buffer, lent>>
  BY <1>1 DEF RunNew
<1>3. table[l][fd[c]] = NoConn
  <2> SUFFICES ASSUME table[l][fd[c]] # NoConn PROVE FALSE
    OBVIOUS
  <2>1. PICK d \in Conn : d = table[l][fd[c]]
    BY <1>1, TypeFacts
  <2>2. state[d] \in {"up", "closed"} /\ fd[d] = fd[c]
    BY <1>1, <2>1 DEF ServerInv, TableIsTrue
  <2>3. UsedBy(d) /\ UsedBy(c)
    BY <1>1, <2>2, Occupant DEF UsedBy
  <2>4. c = d
    BY <2>2, <2>3 DEF ServerInv, OneOwner
  <2> QED BY <1>1, <2>2, <2>4
<1>4. /\ state'[c] = "up" /\ \A d \in Conn \ {c} : state'[d] = state[d]
      /\ table'[l][fd[c]] = c
      /\ \A k \in Loop, f \in Fd : k # l \/ f # fd[c] => table'[k][f] = table[k][f]
  BY <1>1, <1>2, <1>3, TypeFacts
<1>5. TableIsTrue'
  <2> SUFFICES ASSUME NEW k \in Loop, NEW f \in Fd, NEW d \in Conn
               PROVE  table'[k][f] = d <=> /\ state'[d] \in {"up", "closed"}
                                           /\ home[d] = k /\ fd[d] = f
    BY <1>2 DEF TableIsTrue
  <2>1. table[k][f] = d <=> state[d] \in {"up", "closed"} /\ home[d] = k /\ fd[d] = f
    BY DEF ServerInv, TableIsTrue
  <2>2. CASE k = l /\ f = fd[c]
    <3>1. table[k][f] # d
      BY <1>3, <2>2, ServerAssumption DEF Conn
    <3>2. CASE d = c
      BY <1>1, <1>4, <2>2, <3>2
    <3>3. CASE d # c
      BY <1>4, <2>1, <2>2, <3>1, <3>3
    <3> QED BY <3>2, <3>3
  <2>3. CASE k # l \/ f # fd[c]
    <3>1. table'[k][f] = table[k][f]
      BY <1>4, <2>3
    <3>2. CASE d = c
      BY <1>1, <2>1, <2>3, <3>1, <3>2
    <3>3. CASE d # c
      BY <1>4, <2>1, <3>1, <3>3
    <3> QED BY <3>2, <3>3
  <2> QED BY <2>2, <2>3
<1>6. TasksAreTrue'
  BY <1>1, <1>2, <1>4, RunOwn DEF ServerInv
<1>7. ASSUME NEW d \in Conn \ {c}, Held(d)' PROVE Held(d)
  <2>1. /\ lent'[d] > 0 => Held(d)
        /\ \A k \in Loop : \A i \in 1..Len(buffer'[k]) : Holds(buffer'[k][i], d) => Held(d)
        /\ \A k \in Loop : \A i \in 1..Len(pending'[k]) : Holds(pending'[k][i], d) => Held(d)
    BY <1>2 DEF Held
  <2>2. ASSUME NEW k \in Loop, NEW f \in Fd, table'[k][f] = d PROVE Held(d)
    <3>1. table[k][f] = d
      BY <1>4, <2>2
    <3> QED BY <3>1 DEF Held
  <2> QED BY <1>7, <2>1, <2>2, HeldKeeps
<1>8. \A d \in Conn : /\ UsedBy(d)' => UsedBy(d)
                      /\ state'[d] # "none" => state[d] # "none"
  BY <1>1, <1>4, <1>7 DEF UsedBy
<1> QED BY <1>2, <1>5, <1>6, <1>8, OwnersKeep DEF ServerInv

LEMMA RunRemoveKeeps ==
  ASSUME TypeOK, ServerInv, NEW l \in Loop, RunRemove(l)
  PROVE  ServerInv'
<1>1. PICK c \in Conn : c = This(l) /\ state[c] = "closed" /\ home[c] = l /\ fd[c] \in Fd
  BY OwnTask DEF RunRemove
<1>2. /\ Running(l, "remove") /\ Done(l) /\ state' = [state EXCEPT ![c] = "removed"]
      /\ table' = [table EXCEPT ![l][fd[c]] = NoConn]
      /\ UNCHANGED <<fd, home, pending, buffer, lent>>
  BY <1>1 DEF RunRemove
<1>3. table[l][fd[c]] = c
  BY <1>1, Occupant
<1>4. /\ state'[c] = "removed" /\ \A d \in Conn \ {c} : state'[d] = state[d]
      /\ table'[l][fd[c]] = NoConn /\ NoConn \notin Conn
      /\ \A k \in Loop, f \in Fd : k # l \/ f # fd[c] => table'[k][f] = table[k][f]
  BY <1>1, <1>2, TypeFacts, ServerAssumption DEF Conn
<1>5. TableIsTrue'
  <2> SUFFICES ASSUME NEW k \in Loop, NEW f \in Fd, NEW d \in Conn
               PROVE  table'[k][f] = d <=> /\ state'[d] \in {"up", "closed"}
                                           /\ home[d] = k /\ fd[d] = f
    BY <1>2 DEF TableIsTrue
  <2>1. table[k][f] = d <=> state[d] \in {"up", "closed"} /\ home[d] = k /\ fd[d] = f
    BY DEF ServerInv, TableIsTrue
  <2>2. CASE k = l /\ f = fd[c]
    <3>1. CASE d = c
      BY <1>4, <2>2, <3>1
    <3>2. CASE d # c
      BY <1>3, <1>4, <2>1, <2>2, <3>2
    <3> QED BY <3>1, <3>2
  <2>3. CASE k # l \/ f # fd[c]
    <3>1. table'[k][f] = table[k][f]
      BY <1>4, <2>3
    <3>2. CASE d = c
      BY <1>1, <1>4, <2>1, <2>3, <3>1, <3>2
    <3>3. CASE d # c
      BY <1>4, <2>1, <3>1, <3>3
    <3> QED BY <3>2, <3>3
  <2> QED BY <2>2, <2>3
<1>6. TasksAreTrue'
  BY <1>1, <1>2, <1>4, RunOwn DEF ServerInv
<1>7. ASSUME NEW d \in Conn, Held(d)' PROVE Held(d)
  <2>1. /\ lent'[d] > 0 => Held(d)
        /\ \A k \in Loop : \A i \in 1..Len(buffer'[k]) : Holds(buffer'[k][i], d) => Held(d)
        /\ \A k \in Loop : \A i \in 1..Len(pending'[k]) : Holds(pending'[k][i], d) => Held(d)
    BY <1>2 DEF Held
  <2>2. ASSUME NEW k \in Loop, NEW f \in Fd, table'[k][f] = d PROVE Held(d)
    <3>1. table[k][f] = d
      BY <1>4, <2>2
    <3> QED BY <3>1 DEF Held
  <2> QED BY <1>7, <2>1, <2>2, HeldKeeps
<1>8. \A d \in Conn : /\ UsedBy(d)' => UsedBy(d)
                      /\ state'[d] # "none" => state[d] # "none"
  BY <1>1, <1>4, <1>7 DEF UsedBy
<1> QED BY <1>2, <1>5, <1>6, <1>8, OwnersKeep DEF ServerInv

LEMMA RunSendKeeps ==
  ASSUME TypeOK, ServerInv, NEW l \in Loop, RunSend(l)
  PROVE  ServerInv'
<1>1. Running(l, "send") /\ Done(l) /\ UNCHANGED <<state, fd, home, table, pending, buffer, lent>>
  BY DEF RunSend, connVars
<1>2. TableIsTrue'
  BY <1>1, TableKeeps DEF ServerInv
<1>3. TasksAreTrue'
  BY <1>1, RunOwn DEF ServerInv
<1>4. \A c \in Conn : UsedBy(c)' => UsedBy(c)
  BY <1>1 DEF UsedBy, Held
<1> QED BY <1>1, <1>2, <1>3, <1>4, OwnersKeep DEF ServerInv

LEMMA WorkerSendKeeps ==
  ASSUME TypeOK, PoolInv, ServerInv, NEW w \in Worker, WorkerSend(w)
  PROVE  ServerInv'
<1>1. PICK c \in Conn, t \in Tasks :
        /\ lent[c] > 0 /\ home[c] \in Loop /\ t.op = "send" /\ t.c = c /\ Queue(home[c], t)
  <2>1. worker[w] = "run"
    BY DEF WorkerSend, RunTask
  <2>2. task[w][1] \in Conn /\ task[w][2] \in 1..MaxMsg /\ lent[task[w][1]] > 0
    BY <2>1, HeldTask, LentFacts
  <2>3. [op |-> "send", c |-> task[w][1], n |-> task[w][2]] \in Tasks
    BY <2>2 DEF Tasks
  <2>4. Queue(home[task[w][1]], [op |-> "send", c |-> task[w][1], n |-> task[w][2]])
    BY DEF WorkerSend
  <2> QED BY <2>2, <2>3, <2>4, TypeFacts
<1>2. UNCHANGED <<state, fd, home, table, buffer, done, lent>>
  BY DEF WorkerSend, connVars
<1>3. TableIsTrue'
  BY <1>2, TableKeeps DEF ServerInv
<1>4. ASSUME NEW k \in Loop
      PROVE  /\ OwnTasks(k, pending[k], 0)' /\ OwnTasks(k, buffer[k], done[k])'
             /\ \A i \in Places(pending'[k], 0), j \in Places(buffer'[k], done'[k]) :
                  pending'[k][i].c # buffer'[k][j].c
  <2>0. /\ OwnTasks(k, pending[k], 0) /\ OwnTasks(k, buffer[k], done[k])
        /\ \A i \in Places(pending[k], 0), j \in Places(buffer[k], done[k]) :
             pending[k][i].c # buffer[k][j].c
    BY DEF ServerInv, TasksAreTrue
  <2>1. OwnTasks(k, buffer[k], done[k])'
        /\ Places(buffer'[k], done'[k]) = Places(buffer[k], done[k])
    BY <1>2, <2>0 DEF OwnTasks, Places
  <2>2. /\ Places(pending'[k], 0) = Places(pending[k], 0)
        /\ \A i \in Places(pending[k], 0) : pending'[k][i] = pending[k][i]
    <3>1. pending' = [pending EXCEPT ![home[c]] = Append(@, t)]
          /\ pending \in [Loop -> Seq(Tasks)]
      BY <1>1, TypeFacts DEF Queue
    <3>2. CASE k # home[c]
      BY <3>1, <3>2
    <3>3. CASE k = home[c]
      <4>1. pending'[k] = Append(pending[k], t)
        BY <1>1, <3>1, <3>3
      <4>2. /\ Places(Append(pending[k], t), 0) = Places(pending[k], 0)
            /\ \A i \in 1..Len(pending[k]) : Append(pending[k], t)[i] = pending[k][i]
        BY <1>1, <3>1, PlacesAppend
      <4>3. Places(pending[k], 0) \subseteq 1..Len(pending[k])
        BY DEF Places
      <4> QED BY <4>1, <4>2, <4>3
    <3> QED BY <3>2, <3>3
  <2>3. OwnTasks(k, pending[k], 0)'
    <3>1. /\ \A i \in Places(pending'[k], 0) :
               /\ home'[pending'[k][i].c] = k
               /\ pending'[k][i].op = "new" => state'[pending'[k][i].c] = "accepted"
               /\ pending'[k][i].op = "remove" => state'[pending'[k][i].c] = "closed"
          /\ \A i, j \in Places(pending'[k], 0) : pending'[k][i].c = pending'[k][j].c => i = j
      BY <1>2, <2>0, <2>2 DEF OwnTasks
    <3> QED BY <3>1 DEF OwnTasks, Places
  <2> QED BY <1>2, <2>0, <2>1, <2>2, <2>3
<1>5. TasksAreTrue'
  BY <1>4 DEF TasksAreTrue, Places
<1>6. ASSUME NEW d \in Conn, Held(d)' PROVE Held(d)
  <2>1. /\ lent'[d] > 0 => Held(d)
        /\ \A k \in Loop, g \in Fd : table'[k][g] = d => Held(d)
        /\ \A k \in Loop : \A i \in 1..Len(buffer'[k]) : Holds(buffer'[k][i], d) => Held(d)
    BY <1>2 DEF Held
  <2>2. \A k \in Loop : \A i \in 1..Len(pending'[k]) : Holds(pending'[k][i], d) => Held(d)
    BY <1>1, QueueHolds DEF Held
  <2> QED BY <1>6, <2>1, <2>2, HeldKeeps
<1>7. \A d \in Conn : UsedBy(d)' => UsedBy(d)
  BY <1>2, <1>6 DEF UsedBy
<1> QED BY <1>2, <1>3, <1>5, <1>7, OwnersKeep DEF ServerInv

LEMMA NextServer == TypeOK /\ PoolInv /\ ServerInv /\ [Next]_vars => ServerInv'
<1> SUFFICES ASSUME TypeOK, PoolInv, ServerInv, [Next]_vars PROVE ServerInv'
  OBVIOUS
<1>1. ASSUME UNCHANGED <<connVars, taskVars, lent>> PROVE ServerInv'
  <2>1. \A c \in Conn : lent'[c] > 0 => Held(c)
    BY <1>1 DEF Held
  <2> QED BY <1>1, <2>1, LendKeeps
<1>2. CASE UNCHANGED vars
  BY <1>1, <1>2 DEF vars, serverVars, connVars, taskVars
<1>3. CASE PoolStep /\ UNCHANGED <<serverVars, echoVars>>
  BY <1>1, <1>3 DEF serverVars, connVars, taskVars
<1>4. CASE ServerStep /\ UNCHANGED <<poolVars, echoVars>>
  <2>1. ASSUME \/ \E l \in Loop : StartLoop(l) \/ ThreadFunc(l)
               \/ PrepareTables \/ ListenInLoop \/ ListenInBase
        PROVE  ServerInv'
    BY <1>1, <2>1 DEF StartLoop, ThreadFunc, PrepareTables, ListenInLoop, ListenInBase
  <2>2. ASSUME NEW c \in Conn, AcceptInBase(c) PROVE ServerInv'
    <3>1. state[c] = "none" /\ next \in Loop /\ UNCHANGED <<table, buffer, done, lent>>
      BY <2>2 DEF AcceptInBase, Fresh, TypeOK, ServerTypeOK
    <3>2. PICK f \in LowestFree : NewConnection(next, c, f)
      BY <2>2 DEF AcceptInBase
    <3> QED BY <3>1, <3>2, AcceptKeeps
  <2>3. ASSUME NEW c \in Conn, NEW l \in Loop, AcceptInLoop(l, c) PROVE ServerInv'
    <3>1. state[c] = "none" /\ UNCHANGED <<table, buffer, done, lent>>
      BY <2>3 DEF AcceptInLoop, Fresh
    <3>2. PICK f \in LowestFree : NewConnection(l, c, f)
      BY <2>3 DEF AcceptInLoop
    <3> QED BY <3>1, <3>2, AcceptKeeps
  <2> QED BY <1>4, <2>1, <2>2, <2>3, CloseKeeps, BeginKeeps, EndKeeps, RunNewKeeps,
             RunRemoveKeeps DEF ServerStep
<1>5. ASSUME NEW c \in Conn, OnMessagePost(c) PROVE ServerInv'
  <2>1. /\ state[c] = "up" /\ lent' = [lent EXCEPT ![c] = @ + 1]
        /\ UNCHANGED <<connVars, taskVars>>
    BY <1>5 DEF OnMessagePost
  <2>2. \A d \in Conn : lent'[d] > 0 => Held(d)
    <3>1. Held(c)
      BY <2>1, Occupant
    <3>2. \A d \in Conn \ {c} : lent'[d] = lent[d]
      BY <2>1, TypeFacts
    <3> QED BY <3>1, <3>2 DEF Held
  <2> QED BY <2>1, <2>2, LendKeeps
<1>6. ASSUME NEW c \in Conn, OnMessageEcho(c) PROVE ServerInv'
  BY <1>1, <1>6 DEF OnMessageEcho, serverVars, connVars, taskVars
<1>7. ASSUME NEW w \in Worker, WorkerDrop(w) PROVE ServerInv'
  <2>1. PICK c \in Conn : c = task[w][1] /\ lent[c] > 0
    BY <1>7, HeldTask, LentFacts DEF WorkerDrop, DropTask
  <2>2. lent' = [lent EXCEPT ![c] = @ - 1] /\ UNCHANGED <<connVars, taskVars>>
    BY <1>7, <2>1 DEF WorkerDrop
  <2>3. \A d \in Conn : lent'[d] > 0 => Held(d)
    BY <2>1, <2>2, TypeFacts DEF Held
  <2> QED BY <2>2, <2>3, LendKeeps
<1> QED BY <1>2, <1>3, <1>4, <1>5, <1>6, <1>7, NextSteps, RunSendKeeps, WorkerSendKeeps
        DEF EchoStep

-----------------------------------------------------------------------------
(* The theorems.                                                           *)

LEMMA Invariance == Spec => []IInv
<1>1. IInv /\ [Next]_vars => IInv'
  BY NextTypes, NextPool, NextServer DEF IInv
<1> QED BY InitIInv, <1>1, PTL DEF Spec

\* Types: among them, the executed part of a batch never passes its end
\* (event_loop.cc DoPendingTasks), and next_ stays inside loops_
\* (io_thread_pool.cc:47-51), whatever the number of loops.
THEOREM TypeCorrect == Spec => []TypeOK
<1>1. IInv => TypeOK
  BY DEF IInv
<1> QED BY <1>1, Invariance, PTL

\* tcp_server.cc:98, 116: for any number of loops, connections, descriptors,
\* messages and workers, the tables hold exactly the connections that are up
\* or waiting for their removal, each at its own descriptor: no emplace meets
\* an old entry and no erase takes another connection's.
THEOREM TablesAreTrue == Spec => []TableIsTrue
<1>1. IInv => TableIsTrue
  BY DEF IInv, ServerInv
<1> QED BY <1>1, Invariance, PTL

\* worker_thread_pool.cc:49-57, 75: for any number of workers, when Stop has
\* returned nothing posted before it is left in the queue or in a worker.
THEOREM StopDrained == Spec => []StopDrains
<1>1. IInv => StopDrains
  <2> SUFFICES ASSUME IInv, stop = "joined"
               PROVE  in_time \cap Queued = {} /\ \A w \in Worker : task[w] = NoWork
    BY DEF StopDrains
  <2>1. \A w \in Worker : worker[w] = "gone"
    BY DEF IInv, PoolInv, GoneIsDrained
  <2>2. in_time \cap Queued = {}
    BY <2>1, WorkAssumption DEF IInv, PoolInv, GoneIsDrained
  <2>3. \A w \in Worker : task[w] = NoWork
    BY <2>1 DEF IInv, PoolInv, HoldsWhileBusy
  <2> QED BY <2>2, <2>3
<1> QED BY <1>1, Invariance, PTL

=============================================================================
