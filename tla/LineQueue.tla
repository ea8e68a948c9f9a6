------------------------------ MODULE LineQueue ------------------------------
(***************************************************************************)
(* What the log backend promises of its queue: a first-in first-out queue  *)
(* of log lines between the logging threads and the log thread.  A thread  *)
(* may claim the next place and fill it later; the log thread takes the    *)
(* oldest line, and only once its place is filled.  A claim needs one of   *)
(* Room places (the blocking queue, which has no bound, never claims).     *)
(***************************************************************************)
EXTENDS Naturals, Sequences

CONSTANTS Thread, Line, Room, Nobody

VARIABLES
  queue,   \* places: the claiming thread, or the line
  hand     \* the line the log thread took last and has not written, or Nobody

Init == queue = << >> /\ hand = Nobody

Claim(p) == /\ Len(queue) < Room
            /\ \A i \in DOMAIN queue : queue[i] # p
            /\ queue' = Append(queue, p) /\ UNCHANGED hand

Fill(p, line) ==
  /\ \E i \in DOMAIN queue : queue[i] = p /\ queue' = [queue EXCEPT ![i] = line]
  /\ UNCHANGED hand

Put(line) == queue' = Append(queue, line) /\ UNCHANGED hand

Take == /\ hand = Nobody
        /\ queue # << >> /\ Head(queue) \in Line
        /\ hand' = Head(queue) /\ queue' = Tail(queue)

Write == hand # Nobody /\ hand' = Nobody /\ UNCHANGED queue

Next == \/ \E p \in Thread : Claim(p)
        \/ \E p \in Thread, line \in Line : Fill(p, line)
        \/ \E line \in Line : Put(line)
        \/ Take \/ Write

Spec == Init /\ [][Next]_<<queue, hand>>
=============================================================================
