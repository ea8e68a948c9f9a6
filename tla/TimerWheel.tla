----------------------------- MODULE TimerWheel -----------------------------
(***************************************************************************)
(* netx::TimerWheel and netx::Timer (src/timer_wheel.cc, src/timer.cc)     *)
(* driven by EventLoop::Loop: Poll with the timeout GetNextTimeout gives,  *)
(* the callbacks of the batch, Tick, the queued tasks, Poll again.         *)
(*                                                                         *)
(* Time is a bounded natural number of milliseconds.  A slot is a set of   *)
(* timers instead of a list: nothing below depends on the order in which   *)
(* one Tick runs its callbacks.  A Tick is one action, because mu_ is held *)
(* from its first line to its last; callbacks run under mu_, which is not  *)
(* recursive, so they must not call back into the wheel and do not here.   *)
(* Within one Tick every pass over the slots after the first one finds     *)
(* nothing: what is due is gone and what was restarted is due later.       *)
(***************************************************************************)
EXTENDS Naturals

CONSTANTS
  SlotNum, SlotMs,   \* kSlotNum and kSlotMs
  Ids,               \* timers that may be created; an id is used once
  Delays,            \* delays and intervals callers ask for
  MaxTime            \* bound on the clock

ASSUME WheelAssumption ==
  /\ SlotNum \in Nat \ {0} /\ SlotMs \in Nat \ {0} /\ MaxTime \in Nat
  /\ Delays \subseteq Nat

Slots == 0..(SlotNum - 1)

VARIABLES
  slots,          \* slots_
  current_slot,
  current_time,   \* the time of the last Tick
  timer_map,      \* the ids timer_map_ holds
  expire,         \* Timer::expire_, per id
  interval,       \* Timer::interval_, 0 for a one-shot timer
  pc,             \* "poll", "events" or "tasks": where the loop is
  deadline,       \* when the blocked Poll times out; MaxTime + 1 for never
  clock,          \* the steady clock
  unused,         \* ids not created yet
  due,            \* history: when the timer should fire, by the caller's clock
  stale,          \* history: ids added when the clock had moved on since
                  \* the last Tick, and not restarted since
  busy,           \* history: has time passed outside Poll?
  cancelled,      \* history: ids RemoveTimer found and removed
  fired           \* history: ids whose callback the last step, a Tick, ran

wheel == <<slots, current_slot, current_time, timer_map, expire, interval>>
vars == <<wheel, pc, deadline, clock, unused, due, stale, busy,
          cancelled, fired>>

Init ==
  /\ slots = [s \in Slots |-> {}] /\ current_slot = 0 /\ current_time = 0
  /\ timer_map = {}
  /\ expire = [id \in Ids |-> 0] /\ interval = [id \in Ids |-> 0]
  /\ pc = "tasks" /\ deadline = 0 /\ clock = 0
  /\ unused = Ids /\ due = [id \in Ids |-> 0] /\ cancelled = {} /\ fired = {}
  /\ stale = {} /\ busy = FALSE

-----------------------------------------------------------------------------
\* Mutant of SlotOf: relative to slot 0 instead of the current slot.
SlotFromZero(e, slot, time) == ((e - time) \div SlotMs) % SlotNum

\* CalculateSlot(e), with current_slot_ = slot and current_time_ = time.
SlotOf(e, slot, time) == (slot + ((e - time) \div SlotMs)) % SlotNum

Min2(a, b) == IF a < b THEN a ELSE b
Max2(a, b) == IF a > b THEN a ELSE b

\* AddTimer and AddRepeatTimer: the expiry counts from the last Tick.
AddTimer(id, delay, repeat) ==
  LET ms == Max2(1, delay)
      e == current_time + ms
  IN /\ pc # "poll" /\ id \in unused
     /\ expire' = [expire EXCEPT ![id] = e]
     /\ interval' = [interval EXCEPT ![id] = IF repeat THEN ms ELSE 0]
     /\ slots' = [slots EXCEPT ![SlotOf(e, current_slot, current_time)]
                                = @ \cup {id}]
     /\ timer_map' = timer_map \cup {id}
     /\ unused' = unused \ {id}
     /\ due' = [due EXCEPT ![id] = clock + ms]
     /\ stale' = IF clock = current_time THEN stale ELSE stale \cup {id}
     /\ fired' = {}
     /\ UNCHANGED <<current_slot, current_time, pc, deadline, clock, busy,
                    cancelled>>

\* RemoveTimer: the slot is computed anew from the present time and slot.
RemoveTimer(id) ==
  /\ pc # "poll" /\ id \in timer_map
  /\ slots' = [slots EXCEPT ![SlotOf(expire[id], current_slot, current_time)]
                             = @ \ {id}]
  /\ timer_map' = timer_map \ {id}
  /\ cancelled' = cancelled \cup {id}
  /\ fired' = {}
  /\ UNCHANGED <<current_slot, current_time, expire, interval, pc, deadline,
                 clock, unused, due, stale, busy>>

InWheel == UNION {slots[s] : s \in Slots}

\* Mutants of Expired: a timer due now waits; the slot is trusted instead of
\* the expiry.
ExpiredBefore == {id \in InWheel : expire[id] < clock}
ExpiredBySlot == slots[current_slot]

\* What ProcessExpiredTimers(clock) runs: it scans every slot.
Expired == {id \in InWheel : expire[id] <= clock}

\* Mutant of LeftIn: a restarted timer is not erased from its old slot.
LeftWithRestarted(s) == slots[s] \ {id \in Expired : interval[id] = 0}

LeftIn(s) == slots[s] \ Expired

\* Mutant of Turn: the wheel does not wrap.
TurnUnbounded(steps) == current_slot + steps

Turn(steps) == (current_slot + steps) % SlotNum

\* Tick(clock).  The pass that finds the expired timers is the one after the
\* first slot advance, or the final one when the wheel does not advance.
Tick ==
  LET steps == (clock - current_time) \div SlotMs
      slot == IF steps > 0 THEN Turn(1) ELSE current_slot
      time == IF steps > 0 THEN current_time + SlotMs ELSE clock
      again == {id \in Expired : interval[id] > 0}
      next == [id \in Ids |-> clock + interval[id]]
  IN /\ pc = "events"
     /\ expire' = [id \in Ids |-> IF id \in again THEN next[id] ELSE expire[id]]
     /\ slots' = [s \in Slots |-> LeftIn(s) \cup
                        {id \in again : SlotOf(next[id], slot, time) = s}]
     /\ timer_map' = timer_map \ (Expired \ again)
     /\ current_slot' = Turn(steps)
     /\ current_time' = clock
     /\ due' = [id \in Ids |-> IF id \in again THEN next[id] ELSE due[id]]
     /\ stale' = stale \ again
     /\ fired' = Expired
     /\ pc' = "tasks"
     /\ UNCHANGED <<interval, deadline, clock, unused, busy, cancelled>>

\* Mutant of FirstToExpire: the latest expiry is taken.
LastToExpire == {id \in timer_map : \A j \in timer_map : expire[id] >= expire[j]}

FirstToExpire == {id \in timer_map : \A j \in timer_map : expire[id] <= expire[j]}

\* GetNextTimeout and the max(1, ...) of Loop.
NextTimeout(id) ==
  IF expire[id] <= current_time THEN 1 ELSE expire[id] - current_time

BeginPoll ==
  /\ pc = "tasks"
  /\ \/ timer_map = {} /\ deadline' = MaxTime + 1
     \/ \E id \in FirstToExpire :
          deadline' = Min2(MaxTime + 1, clock + NextTimeout(id))
  /\ pc' = "poll"
  /\ fired' = {}
  /\ UNCHANGED <<wheel, clock, unused, due, stale, busy, cancelled>>

\* Poll returns at its deadline, or at any time because of an event or a
\* queued task.
EndPoll ==
  /\ pc = "poll"
  /\ pc' = "events"
  /\ fired' = {}
  /\ UNCHANGED <<wheel, deadline, clock, unused, due, stale, busy, cancelled>>

\* Time passes, during Poll only up to its deadline.
Elapse ==
  /\ clock < MaxTime
  /\ pc = "poll" => clock < deadline
  /\ clock' = clock + 1
  /\ busy' = (busy \/ pc # "poll")
  /\ fired' = {}
  /\ UNCHANGED <<wheel, pc, deadline, unused, due, stale, cancelled>>

Next ==
  \/ \E id \in Ids, d \in Delays, r \in BOOLEAN : AddTimer(id, d, r)
  \/ \E id \in Ids : RemoveTimer(id)
  \/ Tick \/ BeginPoll \/ EndPoll \/ Elapse

Spec == Init /\ [][Next]_vars

-----------------------------------------------------------------------------
TypeOK ==
  /\ slots \in [Slots -> SUBSET Ids] /\ current_slot \in Slots
  /\ clock \in 0..MaxTime /\ current_time \in 0..clock
  /\ timer_map \in SUBSET Ids
  /\ expire \in [Ids -> Nat] /\ interval \in [Ids -> Nat]
  /\ pc \in {"poll", "events", "tasks"} /\ deadline \in Nat
  /\ unused \in SUBSET Ids /\ due \in [Ids -> Nat]
  /\ cancelled \in SUBSET Ids /\ fired \in SUBSET Ids
  /\ stale \in SUBSET Ids /\ busy \in BOOLEAN

(* A timer the map knows sits in exactly one slot: it can fire, and one     *)
(* Tick does not run it twice.                                              *)
OneSlotPerTimer ==
  \A id \in timer_map : \E s \in Slots :
    id \in slots[s] /\ \A r \in Slots \ {s} : id \notin slots[r]

(* The unsigned subtraction of CalculateSlot (timer_wheel.cc:146) never     *)
(* wraps: a timer in the map expires after the last Tick.                   *)
ExpiryIsAhead == \A id \in timer_map : expire[id] > current_time

(* A removed timer never fires (timer_wheel.h:45, timer_test.cc:52-55).     *)
CancelIsFinal == fired \cap cancelled = {}

(* RunAfter(delay) runs the callback no earlier than delay ms after the     *)
(* call (event_loop.h:57), if it was called right after a Tick: rounding to *)
(* slots, turns of the wheel and restarts never make such a timer early.    *)
(* Of the stale ones it is not true: AddTimer counts from current_time_.    *)
PromptNeverEarly == [][\A id \in fired' \ stale : clock >= due[id]]_vars

(* As long as callbacks and tasks take no time, the poll timeout wakes the  *)
(* loop in time for every timer in the map (event_loop.cc:69-82).           *)
NeverLate == ~busy => \A id \in timer_map : clock <= due[id]

(* The inductive strengthening of the invariants.  Every known timer is in  *)
(* the wheel and no timer is in two slots; expiries lie after the last Tick *)
(* and agree with what the caller asked for, up to the staleness of         *)
(* current_time_; and while callbacks take no time, each Poll begins at the *)
(* time of the last Tick and ends no later than the first expiry.           *)
Placed == /\ timer_map \subseteq InWheel
          /\ unused \cap InWheel = {}
          /\ \A id \in Ids, s, r \in Slots :
               id \in slots[s] /\ id \in slots[r] => s = r

ExpiryIsDue ==
  \A id \in Ids \ unused : /\ expire[id] <= due[id]
                           /\ id \notin stale => expire[id] = due[id]

PollIsShort ==
  ~busy => /\ pc = "tasks" => clock = current_time
           /\ pc = "poll" => /\ clock <= deadline
                             /\ \A id \in timer_map : deadline <= expire[id]

IInv == /\ TypeOK
        /\ Placed
        /\ ExpiryIsAhead
        /\ ExpiryIsDue
        /\ PollIsShort
        /\ NeverLate
=============================================================================
