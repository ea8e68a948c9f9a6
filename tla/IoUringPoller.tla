---------------------------- MODULE IoUringPoller ----------------------------
(***************************************************************************)
(* netx::IoUringPoller (src/iouring_poller.cc): channels are watched with  *)
(* one-shot poll requests on an io_uring.  One loop thread calls Add, Mod, *)
(* Del and Poll; the kernel takes requests and posts completions.          *)
(*                                                                         *)
(* A channel is named by its address, because watchers_ is keyed by the    *)
(* pointer: an address may be freed and used again by the next connection. *)
(* The turn of the loop is `pc`: "dispatch" while handle_event runs for    *)
(* the batch, "tasks" for the queued tasks, then Poll: "submit" and        *)
(* "wait".  A connection leaves the table of its server in a task, but its *)
(* last reference may be a closure in a worker, so it is freed at any time *)
(* after, whether or not its Channel is registered: ~TcpConnection does    *)
(* nothing and a Send after the close registers it again.                  *)
(*                                                                         *)
(* Abstractions.  The interest set is not empty (UpdateChannel calls Del   *)
(* for an empty one) and otherwise irrelevant.  poll_user_data is always   *)
(* that of the last SubmitPollAdd, so it is the watcher's id with its      *)
(* present generation.  The kernel takes requests and posts completions    *)
(* during Poll only: GetSqeOrThrow submits a full ring earlier, and events *)
(* come at any time, but nobody looks at the completions before Poll.      *)
(***************************************************************************)
EXTENDS Naturals, Sequences

CONSTANTS
  Addr,      \* addresses at which a Channel may be allocated
  GenMod,    \* generations that fit in the user data: 2^30
  MaxGen,    \* bound on generations
  MaxId,     \* bound on watcher ids
  MaxReq     \* bound on the requests prepared in one turn of the loop

ASSUME RingAssumption ==
  GenMod \in Nat \ {0} /\ MaxGen \in Nat /\ MaxId \in Nat /\ MaxReq \in Nat

VARIABLES
  chan,      \* connection: "free", "up", "closed" (HandleClose), "gone" (untabled)
  registered,\* addresses whose Channel has registered_
  watched,   \* the keys of watchers_
  deleting,  \* watchers with pending_delete
  armed,     \* watchers with armed
  id,        \* Watcher::id
  gen,       \* Watcher::generation
  next_id,   \* next_id_
  sq,        \* prepared requests the kernel has not taken
  kernel,    \* polls waiting in the kernel
  cq,        \* completions not processed
  ready,     \* ready_events_ not dispatched yet
  pc,        \* "dispatch", "tasks", "submit" or "wait"
  lost,      \* history: channels added while their old watcher was deleting
  orphan,    \* watchers whose fd is that of a connection that has been freed
  late       \* history: closed connections that a Send has registered again

watchVars == <<watched, deleting, armed, id, gen, next_id>>
chanVars == <<chan, registered, late>>
vars == <<chanVars, watchVars, sq, kernel, cq, ready, pc, lost, orphan>>

Init ==
  /\ chan = [a \in Addr |-> "free"] /\ registered = {}
  /\ watched = {} /\ deleting = {} /\ armed = {}
  /\ id = [a \in Addr |-> 0] /\ gen = [a \in Addr |-> 0] /\ next_id = 1
  /\ sq = << >> /\ kernel = {} /\ cq = << >>
  /\ ready = {} /\ pc = "tasks" /\ lost = {} /\ orphan = {} /\ late = {}

-----------------------------------------------------------------------------
(* Requests.  The user data holds the generation modulo GenMod.            *)

Request(op, i, g) == [op |-> op, id |-> i, gen |-> g % GenMod]
Completion(kind, i, g, ok) == [kind |-> kind, id |-> i, gen |-> g, ok |-> ok]

PollOf(a) == Request("poll", id[a], gen[a])
RemoveOf(a) == Request("remove", id[a], gen[a])

\* SubmitPollAdd for a watcher that is not deleting, after the requests s.
SubmitPollAdd(a, s) ==
  /\ gen' = [gen EXCEPT ![a] = @ + 1]
  /\ armed' = armed \cup {a}
  /\ sq' = Append(s, Request("poll", id[a], gen[a] + 1))

\* SubmitPollRemove: the submission ring with the request, if one is due.
SubmitPollRemove(a) == IF a \in armed THEN Append(sq, RemoveOf(a)) ELSE sq

\* Mutant of AddWatcher: the request is built before the generation counts.
AddWithOldGeneration(a) ==
  /\ watched' = watched \cup {a}
  /\ id' = [id EXCEPT ![a] = next_id] /\ next_id' = next_id + 1
  /\ gen' = [gen EXCEPT ![a] = 1]
  /\ armed' = armed \cup {a}
  /\ sq' = Append(sq, Request("poll", next_id, 0))
  /\ lost' = lost \ {a}
  /\ UNCHANGED deleting

\* Add, for an address that has no watcher.
AddWatcher(a) ==
  /\ watched' = watched \cup {a}
  /\ id' = [id EXCEPT ![a] = next_id] /\ next_id' = next_id + 1
  /\ gen' = [gen EXCEPT ![a] = 1]
  /\ armed' = armed \cup {a}
  /\ sq' = Append(sq, Request("poll", next_id, 1))
  /\ lost' = lost \ {a}
  /\ UNCHANGED deleting

\* Mutant of ModWatcher: the old poll is not removed.
ModOnly(a) ==
  /\ IF a \in deleting
     THEN UNCHANGED <<sq, gen, armed>> /\ lost' = lost \cup {a}
     ELSE UNCHANGED <<sq, armed, lost>> /\ gen' = [gen EXCEPT ![a] = @ + 1]
  /\ UNCHANGED <<watched, deleting, id, next_id>>

\* Mod, for an address that has a watcher: replace its poll.  A watcher that
\* is deleting gets no new one.
ModWatcher(a) ==
  /\ IF a \in deleting
     THEN /\ sq' = SubmitPollRemove(a)
          /\ lost' = lost \cup {a}
          /\ UNCHANGED <<gen, armed>>
     ELSE SubmitPollAdd(a, SubmitPollRemove(a)) /\ UNCHANGED lost
  /\ UNCHANGED <<watched, deleting, id, next_id>>

\* Add and Mod end up in each other when the watcher is there or missing.
AddOrMod(a) ==
  IF a \in watched THEN gen[a] < MaxGen /\ ModWatcher(a)
                   ELSE next_id <= MaxId /\ AddWatcher(a)

\* Mutant of Cleanup: the watcher stays in watchers_.
CleanupForgets(a) == UNCHANGED <<watched, deleting>>

\* MaybeCleanup for a watcher that is deleting and not armed.
Cleanup(a) == watched' = watched \ {a} /\ deleting' = deleting \ {a}

-----------------------------------------------------------------------------
(* The loop thread, through UpdateChannel and RemoveChannel.               *)

\* NewConnectionInLoop: a queued task constructs a connection at a.  A
\* watcher left there keeps its fd, which may happen to be the new number.
Register(a) ==
  /\ pc = "tasks" /\ chan[a] = "free"
  /\ chan' = [chan EXCEPT ![a] = "up"]
  /\ registered' = registered \cup {a} /\ late' = late \ {a}
  /\ AddOrMod(a)
  /\ orphan' \in {orphan, orphan \ {a}}
  /\ UNCHANGED <<kernel, cq, ready, pc>>

\* enable_writing or disable_writing; after the close it registers again.
Update(a) ==
  /\ pc \in {"dispatch", "tasks"} /\ Len(sq) < MaxReq
  /\ chan[a] # "free"
  /\ registered' = registered \cup {a}
  /\ late' = IF chan[a] = "up" THEN late ELSE late \cup {a}
  /\ AddOrMod(a)
  /\ UNCHANGED <<chan, kernel, cq, ready, pc, orphan>>

\* Mutant of Del: the watcher is not marked.
DelUnmarked(a) ==
  /\ sq' = SubmitPollRemove(a)
  /\ IF a \in watched /\ a \notin armed THEN Cleanup(a)
     ELSE UNCHANGED <<watched, deleting>>
  /\ UNCHANGED <<armed, id, gen, next_id>>

Del(a) ==
  /\ sq' = IF a \in watched THEN SubmitPollRemove(a) ELSE sq
  /\ IF a \in watched /\ a \notin armed THEN Cleanup(a)
     ELSE /\ deleting' = deleting \cup ({a} \cap watched)
          /\ UNCHANGED watched
  /\ UNCHANGED <<armed, id, gen, next_id>>

\* HandleClose, at most once: RemoveChannel (who is up is registered).
HandleClose(a) ==
  /\ pc = "dispatch" /\ Len(sq) < MaxReq
  /\ chan[a] = "up"
  /\ chan' = [chan EXCEPT ![a] = "closed"]
  /\ registered' = registered \ {a}
  /\ Del(a)
  /\ lost' = lost \ {a} /\ orphan' = orphan \cap watched'
  /\ UNCHANGED <<kernel, cq, ready, pc, late>>

\* The task of RemoveConnection.
Leave(a) ==
  /\ pc = "tasks" /\ chan[a] = "closed"
  /\ chan' = [chan EXCEPT ![a] = "gone"]
  /\ UNCHANGED <<registered, late, watchVars, sq, kernel, cq, ready, pc, lost, orphan>>

\* The last reference goes, with a task or on another thread: the Channel is
\* freed and its descriptor closed.  Nobody tells the poller.
Destroy(a) ==
  /\ chan[a] = "gone"
  /\ chan' = [chan EXCEPT ![a] = "free"]
  /\ registered' = registered \ {a} /\ lost' = lost \ {a}
  /\ orphan' = orphan \cup ({a} \cap watched)
  /\ UNCHANGED <<late, watchVars, sq, kernel, cq, ready, pc>>

\* handle_event of one channel of the batch; what it does are the steps above.
Dispatch(a) ==
  /\ pc = "dispatch" /\ a \in ready
  /\ ready' = ready \ {a}
  /\ UNCHANGED <<chanVars, watchVars, sq, kernel, cq, pc, lost, orphan>>

BatchDone ==
  /\ pc = "dispatch" /\ ready = {}
  /\ pc' = "tasks"
  /\ UNCHANGED <<chanVars, watchVars, sq, kernel, cq, ready, lost, orphan>>

-----------------------------------------------------------------------------
(* Poll.                                                                   *)

\* io_uring_submit: the kernel takes the requests, then Poll waits.
BeginPoll ==
  /\ \/ pc = "tasks" /\ pc' = "submit"
     \/ pc = "submit" /\ sq = << >> /\ pc' = "wait"
  /\ UNCHANGED <<chanVars, watchVars, sq, kernel, cq, ready, lost, orphan>>

\* HandlePollCqe.  A completion of an earlier generation is ignored.
HandlePollCqe(a, c) ==
  IF c.gen # gen[a] THEN UNCHANGED <<watchVars, sq, ready, lost>>
  ELSE IF a \in deleting
  THEN /\ armed' = armed \ {a} /\ Cleanup(a)
       /\ UNCHANGED <<id, gen, next_id, sq, ready, lost>>
  ELSE IF c.ok
  THEN /\ ready' = ready \cup {a}
       /\ SubmitPollAdd(a, sq)
       /\ UNCHANGED <<watched, deleting, id, next_id, lost>>
  ELSE /\ armed' = armed \ {a}
       /\ UNCHANGED <<watched, deleting, id, gen, next_id, sq, ready, lost>>

\* Mutant of HandleRemoveCqe: the watcher goes while a poll of it is armed.
HandleRemoveCqeArmed(a, c) ==
  /\ armed' = IF c.gen = gen[a] THEN armed \ {a} ELSE armed
  /\ IF a \in deleting THEN Cleanup(a) ELSE UNCHANGED <<watched, deleting>>
  /\ UNCHANGED <<id, gen, next_id, sq, ready, lost>>

HandleRemoveCqe(a, c) ==
  LET left == IF c.gen = gen[a] THEN armed \ {a} ELSE armed
  IN /\ armed' = left
     /\ IF a \in deleting /\ a \notin left THEN Cleanup(a)
        ELSE UNCHANGED <<watched, deleting>>
     /\ UNCHANGED <<id, gen, next_id, sq, ready, lost>>

\* ProcessCqe: id_index_ finds the watcher, if it is still there.
ProcessCqe ==
  /\ pc = "wait" /\ cq # << >>
  /\ LET c == Head(cq)
         owners == {a \in watched : id[a] = c.id}
     IN IF owners = {} THEN UNCHANGED <<watchVars, sq, ready, lost>>
        ELSE \E a \in owners : IF c.kind = "poll" THEN HandlePollCqe(a, c)
                               ELSE HandleRemoveCqe(a, c)
  /\ cq' = Tail(cq) /\ orphan' = orphan \cap watched'
  /\ UNCHANGED <<chanVars, kernel, pc>>

\* No completion is left, or none came before the timeout.
EndPoll ==
  /\ pc = "wait" /\ cq = << >>
  /\ pc' = "dispatch"
  /\ UNCHANGED <<chanVars, watchVars, sq, kernel, cq, ready, lost, orphan>>

-----------------------------------------------------------------------------
(* The kernel.                                                             *)

KernelUnchanged == UNCHANGED <<chanVars, watchVars, ready, pc, lost, orphan>>

\* The descriptor of r may have been closed before the kernel looks at it.
MayBeClosed(r) == \A a \in watched : id[a] = r.id => a \in orphan

\* A poll is accepted, or refused with EBADF.  A removed one completes with
\* ECANCELED, the removal with 0 or ENOENT, in either order.
KernelTakes ==
  /\ pc = "submit" /\ sq # << >>
  /\ LET r == Head(sq)
         target == [r EXCEPT !.op = "poll"]
         failed == Completion("poll", r.id, r.gen, FALSE)
         done == Completion("remove", r.id, r.gen, target \in kernel)
     IN IF r.op = "poll"
        THEN \/ kernel' = kernel \cup {r} /\ UNCHANGED cq
             \/ MayBeClosed(r) /\ cq' = Append(cq, failed) /\ UNCHANGED kernel
        ELSE /\ kernel' = kernel \ {target}
             /\ IF target \in kernel
                THEN \/ cq' = cq \o <<failed, done>>
                     \/ cq' = cq \o <<done, failed>>
                ELSE cq' = Append(cq, done)
  /\ sq' = Tail(sq)
  /\ KernelUnchanged

\* A polled descriptor is ready.
Completes(r) ==
  /\ pc \in {"submit", "wait"} /\ r \in kernel
  /\ \A a \in watched : id[a] = r.id => gen[a] < MaxGen
  /\ kernel' = kernel \ {r}
  /\ cq' = Append(cq, Completion("poll", r.id, r.gen, TRUE))
  /\ KernelUnchanged /\ UNCHANGED sq

-----------------------------------------------------------------------------
LoopStep == \/ \E a \in Addr : Dispatch(a)
            \/ BatchDone \/ BeginPoll \/ ProcessCqe \/ EndPoll

Next == \/ \E a \in Addr : \/ Register(a) \/ Update(a)
                           \/ HandleClose(a) \/ Leave(a) \/ Destroy(a)
        \/ LoopStep
        \/ KernelTakes
        \/ \E r \in kernel : Completes(r)

Spec == Init /\ [][Next]_vars

\* The loop goes round, the kernel takes what was submitted, and a descriptor
\* that stays ready has its poll completed (strong, because the model lets
\* completions appear during Poll only).  Nobody owes a registration or close.
Fairness == /\ WF_vars(LoopStep)
            /\ WF_vars(KernelTakes)
            /\ \A i \in 1..MaxId :
                 SF_vars(\E r \in kernel : r.id = i /\ Completes(r))

FairSpec == Spec /\ Fairness

-----------------------------------------------------------------------------
Requests == [op : {"poll", "remove"}, id : Nat, gen : Nat]
Completions == [kind : {"poll", "remove"}, id : Nat, gen : Nat, ok : BOOLEAN]

TypeOK ==
  /\ chan \in [Addr -> {"free", "up", "closed", "gone"}]
  /\ registered \in SUBSET {a \in Addr : chan[a] # "free"}
  /\ watched \in SUBSET Addr /\ deleting \in SUBSET watched
  /\ armed \in SUBSET watched
  /\ id \in [Addr -> Nat] /\ gen \in [Addr -> Nat] /\ next_id \in Nat
  /\ sq \in Seq(Requests) /\ kernel \in SUBSET Requests
  /\ cq \in Seq(Completions)
  /\ ready \in SUBSET Addr /\ pc \in {"dispatch", "tasks", "submit", "wait"}
  /\ lost \in SUBSET Addr /\ late \in SUBSET Addr /\ orphan \in SUBSET watched

Holds(s, x) == \E i \in DOMAIN s : s[i] = x

\* A poll request of the watcher's present generation exists somewhere.
Polled(a) == \/ Holds(sq, PollOf(a))
             \/ PollOf(a) \in kernel
             \/ Holds(cq, Completion("poll", id[a], gen[a], TRUE))

(* A registered channel has a watcher whose poll is prepared, waiting in   *)
(* the kernel or just completed: its events will be seen, as with epoll    *)
(* (iouring_poller.h:25).  There are three exceptions: a channel added     *)
(* while the watcher of its address was deleting (line 157 leads to line   *)
(* 128), one added at the address of a watcher that a freed channel left   *)
(* behind (line 189 keeps the old fd), and a watcher whose generation no   *)
(* longer fits in the user data.                                           *)
RegisteredIsPolled ==
  \A a \in registered \ (lost \cup orphan) :
    /\ a \in watched \ deleting /\ a \in armed
    /\ gen[a] < GenMod => Polled(a)

(* Poll reports channels of open connections only, and no event goes to a  *)
(* Channel after its connection has left the table and may be freed, on    *)
(* whatever thread: completions after Del, and for the earlier owner of    *)
(* the address, are swallowed (lines 231, 249).  The exception is a        *)
(* connection that a Send registered again after its close, which nothing  *)
(* takes back (tcp_connection.cc:94, 181).                                 *)
DispatchedIsAlive ==
  \A a \in ready \ late : /\ chan[a] \in {"up", "closed"}
                         /\ pc = "wait" => chan[a] = "up"

(* A registered channel whose descriptor becomes ready is dispatched, with *)
(* the exceptions of RegisteredIsPolled.                                   *)
EventsDelivered ==
  \A a \in Addr :
    a \in registered ~>
      (a \in ready \/ a \notin registered \/ a \in lost \cup orphan \/ gen[a] >= GenMod)

(* A deleting watcher does not stay for ever: its address can be watched    *)
(* again, unless the generation has outgrown the user data.                 *)
WatchersReclaimed ==
  \A a \in Addr : a \in deleting ~> (a \notin deleting \/ gen[a] >= GenMod)
=============================================================================
