----------------------------- MODULE TaskQueue -----------------------------
(***************************************************************************)
(* What EventLoop's task interface promises (include/netx/event_loop.h,    *)
(* lines 45-48): a task handed to QueueInLoop is executed by the loop      *)
(* thread at most once, in the order in which the tasks were queued; a     *)
(* task handed to RunInLoop on the loop thread itself is executed at once  *)
(* and may overtake the queued ones.  Nothing is said about locks, the     *)
(* double buffer, the eventfd or the poller.                               *)
(***************************************************************************)
EXTENDS Sequences

CONSTANT Tasks      \* the tasks callers may hand over, each one once

VARIABLES queue,    \* accepted, not started yet
          ran,      \* started, in order
          fresh     \* not handed over yet

vars == <<queue, ran, fresh>>

Init == /\ queue = << >>
        /\ ran = << >>
        /\ fresh = Tasks

Submit(t) == /\ t \in fresh
             /\ fresh' = fresh \ {t}
             /\ queue' = Append(queue, t)
             /\ ran' = ran

RunAtOnce(t) == /\ t \in fresh
                /\ fresh' = fresh \ {t}
                /\ ran' = Append(ran, t)
                /\ queue' = queue

StartNext == /\ queue # << >>
             /\ ran' = Append(ran, Head(queue))
             /\ queue' = Tail(queue)
             /\ fresh' = fresh

Next == \/ \E t \in Tasks : Submit(t) \/ RunAtOnce(t)
        \/ StartNext

Spec == Init /\ [][Next]_vars
=============================================================================
