-------------------------- MODULE EventLoopProofs --------------------------
(***************************************************************************)
(* For any sets of threads, tasks and timers: the wakeup protocol of       *)
(* EventLoop loses no wakeup, and its double-buffered queue implements     *)
(* TaskQueue.                                                              *)
(***************************************************************************)
EXTENDS EventLoop, SequenceTheorems, TLAPS

-----------------------------------------------------------------------------
(* Sequences: what the swap of the double buffer needs.                    *)

LEMMA ConcatAppend ==
  ASSUME NEW S, NEW s \in Seq(S), NEW t \in Seq(S), NEW e \in S
  PROVE  s \o Append(t, e) = Append(s \o t, e)
<1>1. Append(t, e) = t \o <<e>> /\ Append(s \o t, e) = (s \o t) \o <<e>>
  BY AppendIsConcat, ConcatProperties
<1>2. <<e>> \in Seq(S)
  OBVIOUS
<1> QED BY <1>1, <1>2, ConcatAssociative

LEMMA HeadTailOfConcat ==
  ASSUME NEW S, NEW s \in Seq(S), NEW t \in Seq(S), s # << >>
  PROVE  /\ s \o t # << >>
         /\ Head(s \o t) = Head(s)
         /\ Tail(s \o t) = Tail(s) \o t
<1>1. Len(s) \in Nat \ {0} /\ Len(t) \in Nat
  BY EmptySeq, LenProperties
<1>2. s \o t \in Seq(S) /\ Len(s \o t) = Len(s) + Len(t)
  BY ConcatProperties
<1>3. s \o t # << >>
  BY <1>1, <1>2, EmptySeq
<1>4. Head(s \o t) = Head(s)
  <2>1. Head(s \o t) = (s \o t)[1] /\ Head(s) = s[1]
    BY <1>1, <1>2
  <2>2. (s \o t)[1] = s[1]
    BY <1>1, ConcatProperties
  <2> QED BY <2>1, <2>2
<1>5. Tail(s \o t) = Tail(s) \o t
  <2>1. /\ Tail(s) \in Seq(S) /\ Len(Tail(s)) = Len(s) - 1
        /\ \A i \in 1 .. Len(Tail(s)) : Tail(s)[i] = s[i + 1]
    BY HeadTailProperties
  <2>2. /\ Tail(s \o t) \in Seq(S) /\ Len(Tail(s \o t)) = Len(s) + Len(t) - 1
        /\ \A i \in 1 .. Len(s) + Len(t) - 1 : Tail(s \o t)[i] = (s \o t)[i + 1]
    BY <1>2, <1>3, HeadTailProperties
  <2>3. /\ Tail(s) \o t \in Seq(S)
        /\ Len(Tail(s) \o t) = Len(s) - 1 + Len(t)
        /\ \A i \in 1 .. Len(s) - 1 + Len(t) : (Tail(s) \o t)[i] =
             IF i <= Len(s) - 1 THEN Tail(s)[i] ELSE t[i - (Len(s) - 1)]
    BY <2>1, ConcatProperties
  <2>4. \A i \in 1 .. Len(s) + Len(t) : (s \o t)[i] =
             IF i <= Len(s) THEN s[i] ELSE t[i - Len(s)]
    BY ConcatProperties
  <2>5. ASSUME NEW i \in 1 .. Len(s) + Len(t) - 1
        PROVE  Tail(s \o t)[i] = (Tail(s) \o t)[i]
    <3>1. CASE i <= Len(s) - 1
      BY <3>1, <1>1, <2>1, <2>2, <2>3, <2>4
    <3>2. CASE i > Len(s) - 1
      BY <3>2, <1>1, <2>1, <2>2, <2>3, <2>4
    <3> QED BY <3>1, <3>2, <1>1
  <2> QED BY <1>1, <2>2, <2>3, <2>5, SeqEqual
<1> QED BY <1>3, <1>4, <1>5

-----------------------------------------------------------------------------
(* The invariant.                                                          *)

LEMMA InitIInv == Init => IInv
<1> SUFFICES ASSUME Init PROVE IInv
  OBVIOUS
<1> USE DEF Init
<1>1. TypeOK
  <2>1. << >> \in Seq(Tasks)
    BY EmptySeq
  <2>2. op \in [Threads -> {"idle", "notify", "write"}]
    OBVIOUS
  <2> QED BY <2>1, <2>2 DEF TypeOK
<1>2. FlagIsBacked /\ LateTaskIsSignalled /\ LateQuitIsSignalled /\ BatchIsClosed
  BY DEF FlagIsBacked, LateTaskIsSignalled, LateQuitIsSignalled, BatchIsClosed
<1> QED BY <1>1, <1>2 DEF IInv

LEMMA NextTypeOK ==
  ASSUME TypeOK, [Next]_vars
  PROVE  TypeOK'
<1> USE DEF TypeOK, taskVars, timerVars, Threads, CanCall, InCallback, At
<1>1. ASSUME NEW p \in Threads, NEW t \in Tasks, QueueInLoop(p, t)
      PROVE  TypeOK'
  BY <1>1 DEF QueueInLoop
<1>2. ASSUME NEW p \in Threads, NEW x \in Timers, RunAfter(p, x)
      PROVE  TypeOK'
  BY <1>2 DEF RunAfter
<1>3. ASSUME NEW p \in Threads, Quit(p)
      PROVE  TypeOK'
  BY <1>3 DEF Quit
<1>4. ASSUME NEW p \in Threads, TryNotify(p)
      PROVE  TypeOK'
  BY <1>4 DEF TryNotify
<1>5. ASSUME NEW p \in Threads, Wakeup(p)
      PROVE  TypeOK'
  BY <1>5 DEF Wakeup
<1>6. ASSUME NEW t \in Tasks, RunInLoop(t)
      PROVE  TypeOK'
  BY <1>6 DEF RunInLoop
<1>7. ASSUME NEW x \in Timers, BecomeDue(x)
      PROVE  TypeOK'
  BY <1>7 DEF BecomeDue
<1>8. ASSUME NEW b \in SUBSET {"wakeup", "io"}, b = {} => timeout # "none",
             PollReturns(b)
      PROVE  TypeOK'
  BY <1>8 DEF PollReturns
<1>9. ASSUME LoopWhile
      PROVE  TypeOK'
  BY <1>9 DEF LoopWhile
<1>10. ASSUME CheckPending
      PROVE  TypeOK'
  BY <1>10 DEF CheckPending
<1>11. ASSUME CheckTimers
      PROVE  TypeOK'
  BY <1>11 DEF CheckTimers
<1>12. ASSUME DrainEventfd
      PROVE  TypeOK'
  BY <1>12 DEF DrainEventfd
<1>13. ASSUME ClearWakeupPending
      PROVE  TypeOK'
  BY <1>13 DEF ClearWakeupPending
<1>14. ASSUME HandleIo
      PROVE  TypeOK'
  BY <1>14 DEF HandleIo
<1>15. ASSUME BatchDone
      PROVE  TypeOK'
  BY <1>15 DEF BatchDone
<1>16. ASSUME NEW x \in Timers, RunTimer(x)
      PROVE  TypeOK'
  BY <1>16 DEF RunTimer
<1>17. ASSUME TimersDone
      PROVE  TypeOK'
  BY <1>17 DEF TimersDone
<1>18. ASSUME SwapPending
      PROVE  TypeOK'
  BY <1>18 DEF SwapPending
<1>19. ASSUME StartTask
      PROVE  TypeOK'
  BY <1>19 DEF StartTask
<1>20. ASSUME EndBatch
      PROVE  TypeOK'
  BY <1>20 DEF EndBatch
<1>21. ASSUME CallbackReturns
      PROVE  TypeOK'
  BY <1>21 DEF CallbackReturns
<1>22. CASE UNCHANGED vars
  BY <1>22 DEF vars
<1> QED
  BY <1>1, <1>2, <1>3, <1>4, <1>5, <1>6, <1>7, <1>8, <1>9, <1>10, <1>11,
     <1>12, <1>13, <1>14, <1>15, <1>16, <1>17, <1>18, <1>19, <1>20, <1>21,
     <1>22
     DEF Next, Call, FinishCall, LoopStep, PollWakeup, PollIo, PollTimeout

LEMMA NextIInv ==
  ASSUME IInv, [Next]_vars
  PROVE  IInv'
<1>0. /\ TypeOK'
      /\ op \in [Threads -> {"idle", "notify", "write"}]
      /\ timeout \in {"zero", "none", "timer"}
  BY NextTypeOK DEF IInv, TypeOK
<1> USE <1>0 DEF IInv, FlagIsBacked, LateTaskIsSignalled, LateQuitIsSignalled,
                 BatchIsClosed, WriteAhead, taskVars, timerVars, CanCall,
                 InCallback, At, Threads
<1>1. ASSUME NEW p \in Threads, NEW t \in Tasks, QueueInLoop(p, t)
      PROVE  IInv'
  BY <1>1 DEF QueueInLoop
<1>2. ASSUME NEW p \in Threads, NEW x \in Timers, RunAfter(p, x)
      PROVE  IInv'
  BY <1>2 DEF RunAfter
<1>3. ASSUME NEW p \in Threads, Quit(p)
      PROVE  IInv'
  BY <1>3 DEF Quit
<1>4. ASSUME NEW p \in Threads, TryNotify(p)
      PROVE  IInv'
  BY <1>4 DEF TryNotify
<1>5. ASSUME NEW p \in Threads, Wakeup(p)
      PROVE  IInv'
  BY <1>5 DEF Wakeup
<1>6. ASSUME NEW t \in Tasks, RunInLoop(t)
      PROVE  IInv'
  BY <1>6 DEF RunInLoop
<1>7. ASSUME NEW x \in Timers, BecomeDue(x)
      PROVE  IInv'
  BY <1>7 DEF BecomeDue
<1>8. ASSUME NEW b \in SUBSET {"wakeup", "io"}, b = {} => timeout # "none",
             PollReturns(b)
      PROVE  IInv'
  BY <1>8 DEF PollReturns
<1>9. ASSUME LoopWhile
      PROVE  IInv'
  BY <1>9 DEF LoopWhile
<1>10. ASSUME CheckPending
      PROVE  IInv'
  BY <1>10 DEF CheckPending
<1>11. ASSUME CheckTimers
      PROVE  IInv'
  BY <1>11 DEF CheckTimers
<1>12. ASSUME DrainEventfd
      PROVE  IInv'
  BY <1>12 DEF DrainEventfd
<1>13. ASSUME ClearWakeupPending
      PROVE  IInv'
  BY <1>13 DEF ClearWakeupPending
<1>14. ASSUME HandleIo
      PROVE  IInv'
  BY <1>14 DEF HandleIo
<1>15. ASSUME BatchDone
      PROVE  IInv'
  BY <1>15 DEF BatchDone
<1>16. ASSUME NEW x \in Timers, RunTimer(x)
      PROVE  IInv'
  BY <1>16 DEF RunTimer
<1>17. ASSUME TimersDone
      PROVE  IInv'
  BY <1>17 DEF TimersDone
<1>18. ASSUME SwapPending
      PROVE  IInv'
  BY <1>18 DEF SwapPending
<1>19. ASSUME StartTask
      PROVE  IInv'
  BY <1>19 DEF StartTask
<1>20. ASSUME EndBatch
      PROVE  IInv'
  BY <1>20 DEF EndBatch
<1>21. ASSUME CallbackReturns
      PROVE  IInv'
  BY <1>21 DEF CallbackReturns
<1>22. CASE UNCHANGED vars
  BY <1>22 DEF vars
<1> QED
  BY <1>1, <1>2, <1>3, <1>4, <1>5, <1>6, <1>7, <1>8, <1>9, <1>10, <1>11,
     <1>12, <1>13, <1>14, <1>15, <1>16, <1>17, <1>18, <1>19, <1>20, <1>21,
     <1>22
     DEF Next, Call, FinishCall, LoopStep, PollWakeup, PollIo, PollTimeout

(* TypeOK: every variable keeps its type whatever the callers do.           *)
THEOREM TypeCorrect == Spec => []TypeOK
<1>1. Init => TypeOK
  BY InitIInv DEF IInv
<1>2. TypeOK /\ [Next]_vars => TypeOK'
  BY NextTypeOK
<1> QED BY <1>1, <1>2, PTL DEF Spec

(* The strengthened invariant of the wakeup protocol.                       *)
THEOREM Invariance == Spec => []IInv
<1>1. IInv /\ [Next]_vars => IInv'
  BY NextIInv
<1> QED BY InitIInv, <1>1, PTL DEF Spec

(* NoLostWakeup: no number of threads can leave a task queued behind a loop *)
(* that sleeps in Poll with a silent eventfd.                               *)
THEOREM NoWakeupIsLost == Spec => []NoLostWakeup
<1>1. IInv => NoLostWakeup
  BY DEF IInv, FlagIsBacked, LateTaskIsSignalled, WriteAhead, NoLostWakeup,
         Sleeping, NobodyCalling
<1> QED BY Invariance, <1>1, PTL

(* QuitIsNoticed: a loop that blocks after Quit has a readable eventfd.     *)
THEOREM QuitWakesTheLoop == Spec => []QuitIsNoticed
<1>1. IInv => QuitIsNoticed
  BY DEF IInv, LateQuitIsSignalled, WriteAhead, QuitIsNoticed, NobodyCalling
<1> QED BY Invariance, <1>1, PTL

-----------------------------------------------------------------------------
(* The refinement.                                                         *)

LEMMA StepRefines ==
  ASSUME TypeOK, BatchIsClosed, [Next]_vars
  PROVE  [Queue!Next]_(Queue!vars)
<1>0. pending_tasks \in Seq(Tasks) /\ pending_buffer \in Seq(Tasks)
  BY DEF TypeOK
<1>1. ASSUME NEW p \in Threads, NEW t \in Tasks, QueueInLoop(p, t)
      PROVE  Queue!Submit(t)
  <2>1. pending_buffer' \o pending_tasks'
          = Append(pending_buffer \o pending_tasks, t)
    BY <1>0, <1>1, ConcatAppend DEF QueueInLoop
  <2> QED BY <1>1, <2>1 DEF QueueInLoop, Queue!Submit
<1>2. ASSUME NEW t \in Tasks, RunInLoop(t)
      PROVE  Queue!RunAtOnce(t)
  BY <1>2 DEF RunInLoop, Queue!RunAtOnce
<1>3. CASE SwapPending
  <2>1. pending_buffer = << >>
    BY <1>3 DEF SwapPending, At, BatchIsClosed
  <2>2. pending_buffer' \o pending_tasks' = pending_buffer \o pending_tasks
    BY <1>0, <1>3, <2>1, ConcatEmptySeq DEF SwapPending
  <2> QED BY <1>3, <2>2 DEF SwapPending, Queue!vars
<1>4. CASE StartTask
  <2>1. /\ pending_buffer \o pending_tasks # << >>
        /\ Head(pending_buffer \o pending_tasks) = Head(pending_buffer)
        /\ Tail(pending_buffer \o pending_tasks)
             = Tail(pending_buffer) \o pending_tasks
    BY <1>0, <1>4, HeadTailOfConcat DEF StartTask
  <2> QED BY <1>4, <2>1 DEF StartTask, Queue!Next, Queue!StartNext
<1>5. ASSUME UNCHANGED taskVars
      PROVE  UNCHANGED Queue!vars
  BY <1>5 DEF taskVars, Queue!vars
<1>6. \/ \E p \in Threads, t \in Tasks : QueueInLoop(p, t)
      \/ \E t \in Tasks : RunInLoop(t)
      \/ SwapPending
      \/ StartTask
      \/ UNCHANGED taskVars
  BY DEF Next, Call, FinishCall, LoopStep, RunAfter, Quit, TryNotify, Wakeup,
         BecomeDue, PollWakeup, PollIo, PollTimeout, PollReturns, LoopWhile,
         CheckPending, CheckTimers, DrainEventfd, ClearWakeupPending,
         HandleIo, BatchDone, RunTimer, TimersDone, EndBatch,
         CallbackReturns, vars, taskVars
<1> QED BY <1>1, <1>2, <1>3, <1>4, <1>5, <1>6 DEF Queue!Next

(* Refinement: the double-buffered, lock-protected vector is a FIFO queue   *)
(* that runs each task at most once.                                        *)
THEOREM ImplementsTaskQueue == Spec => Refinement
<1>1. Init => Queue!Init
  <2>1. << >> \o << >> = << >>
    BY ConcatEmptySeq, EmptySeq
  <2> QED BY <2>1 DEF Init, Queue!Init
<1>2. IInv /\ [Next]_vars => [Queue!Next]_(Queue!vars)
  BY StepRefines DEF IInv
<1> QED BY Invariance, <1>1, <1>2, PTL DEF Spec, Refinement, Queue!Spec
=============================================================================
