-------------------------- MODULE TimerWheelProofs --------------------------
(***************************************************************************)
(* For a wheel of any number of slots of any length and for any timers and *)
(* delays: where the timers are, and when they fire.                       *)
(***************************************************************************)
EXTENDS TimerWheel, TLAPS

-----------------------------------------------------------------------------
(* Slots.                                                                  *)

LEMMA ModIsSlot == ASSUME NEW a \in Nat PROVE a % SlotNum \in Slots
BY WheelAssumption DEF Slots

LEMMA DivIsNat == ASSUME NEW a \in Nat PROVE a \div SlotMs \in Nat
BY WheelAssumption

LEMMA SlotOfIsSlot ==
  ASSUME NEW slot \in Slots, NEW time \in Nat, NEW e \in Nat, e >= time
  PROVE  SlotOf(e, slot, time) \in Slots
<1>1. (e - time) \div SlotMs \in Nat
  BY DivIsNat
<1> QED BY <1>1, ModIsSlot DEF SlotOf, Slots

LEMMA TurnIsSlot ==
  ASSUME current_slot \in Slots, NEW steps \in Nat
  PROVE  Turn(steps) \in Slots
BY ModIsSlot DEF Turn, Slots

(* What Tick needs to know of the slots it moves timers to: clock +          *)
(* interval lies ahead of any of the times CalculateSlot is called with.     *)
LEMMA RestartSlot ==
  ASSUME TypeOK, NEW id \in Ids, pc = "events",
         NEW steps, steps = (clock - current_time) \div SlotMs,
         NEW slot, slot = IF steps > 0 THEN Turn(1) ELSE current_slot,
         NEW time, time = IF steps > 0 THEN current_time + SlotMs ELSE clock
  PROVE  /\ steps \in Nat
         /\ Turn(steps) \in Slots
         /\ SlotOf(clock + interval[id], slot, time) \in Slots
<1>1. /\ clock \in Nat /\ current_time \in Nat /\ current_time <= clock
      /\ interval[id] \in Nat /\ current_slot \in Slots /\ SlotMs \in Nat \ {0}
  BY WheelAssumption DEF TypeOK
<1>2. steps \in Nat
  BY <1>1, DivIsNat
<1>3. slot \in Slots /\ Turn(steps) \in Slots
  BY <1>1, <1>2, TurnIsSlot
<1>4. steps > 0 => current_time + SlotMs <= clock
  BY <1>1
<1>5. time \in Nat /\ time <= clock + interval[id]
  BY <1>1, <1>4
<1> QED BY <1>1, <1>2, <1>3, <1>5, SlotOfIsSlot

-----------------------------------------------------------------------------
(* The invariant.                                                          *)

LEMMA NextTypeOK ==
  ASSUME TypeOK, [Next]_vars
  PROVE  TypeOK'
<1> USE DEF TypeOK
<1>1. ASSUME NEW id \in Ids, NEW d \in Delays, NEW r \in BOOLEAN,
             AddTimer(id, d, r)
      PROVE  TypeOK'
  <2>1. d \in Nat /\ clock \in Nat /\ current_time \in Nat
    BY WheelAssumption
  <2>2. Max2(1, d) \in Nat
    BY <2>1 DEF Max2
  <2>3. SlotOf(current_time + Max2(1, d), current_slot, current_time) \in Slots
    BY <2>1, <2>2, SlotOfIsSlot
  <2> QED BY <1>1, <2>1, <2>2, <2>3 DEF AddTimer
<1>2. ASSUME NEW id \in Ids, RemoveTimer(id)
      PROVE  TypeOK'
  BY <1>2 DEF RemoveTimer
<1>3. ASSUME Tick
      PROVE  TypeOK'
  <2> DEFINE steps == (clock - current_time) \div SlotMs
             slot == IF steps > 0 THEN Turn(1) ELSE current_slot
             time == IF steps > 0 THEN current_time + SlotMs ELSE clock
             again == {id \in Expired : interval[id] > 0}
             next == [id \in Ids |-> clock + interval[id]]
  <2>1. Turn(steps) \in Slots
    <3>1. CASE Ids = {}
      <4>1. steps \in Nat
        BY DivIsNat
      <4> QED BY <4>1, TurnIsSlot
    <3>2. CASE Ids # {}
      BY <3>2, <1>3, RestartSlot DEF Tick
    <3> QED BY <3>1, <3>2
  <2>2. next \in [Ids -> Nat]
    OBVIOUS
  <2>3. Expired \subseteq Ids
    BY DEF Expired, InWheel
  <2>4. slots' \in [Slots -> SUBSET Ids]
    BY <1>3, <2>3 DEF Tick, LeftIn
  <2>5. /\ expire' \in [Ids -> Nat] /\ due' \in [Ids -> Nat]
        /\ interval' = interval /\ deadline' = deadline /\ clock' = clock
        /\ unused' = unused /\ busy' = busy /\ cancelled' = cancelled
        /\ current_time' = clock /\ current_slot' = Turn(steps)
        /\ pc' = "tasks" /\ fired' = Expired
        /\ timer_map' \subseteq timer_map /\ stale' \subseteq stale
    BY <1>3, <2>2 DEF Tick
  <2> QED BY <2>1, <2>3, <2>4, <2>5
<1>4. ASSUME BeginPoll
      PROVE  TypeOK'
  <2>1. deadline' \in Nat
    <3>1. MaxTime + 1 \in Nat /\ clock \in Nat
      BY WheelAssumption
    <3>2. ASSUME NEW id \in FirstToExpire PROVE NextTimeout(id) \in Nat
      BY DEF NextTimeout, FirstToExpire
    <3> QED BY <1>4, <3>1, <3>2 DEF BeginPoll, Min2
  <2> QED BY <1>4, <2>1 DEF BeginPoll, wheel
<1>5. ASSUME EndPoll
      PROVE  TypeOK'
  BY <1>5 DEF EndPoll, wheel
<1>6. ASSUME Elapse
      PROVE  TypeOK'
  BY <1>6, WheelAssumption DEF Elapse, wheel
<1>7. CASE UNCHANGED vars
  BY <1>7 DEF vars, wheel
<1> QED BY <1>1, <1>2, <1>3, <1>4, <1>5, <1>6, <1>7 DEF Next

LEMMA InitIInv == Init => IInv
<1> SUFFICES ASSUME Init PROVE IInv
  OBVIOUS
<1> USE DEF Init
<1>1. TypeOK
  <2>1. current_slot \in Slots /\ clock \in 0..MaxTime /\ current_time \in 0..clock
    BY WheelAssumption DEF Slots
  <2>2. slots \in [Slots -> SUBSET Ids]
    OBVIOUS
  <2>3. expire \in [Ids -> Nat] /\ interval \in [Ids -> Nat] /\ due \in [Ids -> Nat]
    OBVIOUS
  <2> QED BY <2>1, <2>2, <2>3 DEF TypeOK
<1>2. Placed /\ ExpiryIsAhead /\ ExpiryIsDue /\ PollIsShort /\ NeverLate
  BY DEF Placed, InWheel, ExpiryIsAhead, ExpiryIsDue, PollIsShort, NeverLate
<1> QED BY <1>1, <1>2 DEF IInv

(* One lemma per action that moves timers, one step per conjunct.           *)
LEMMA AddTimerIInv ==
  ASSUME IInv, NEW id \in Ids, NEW d \in Delays, NEW r \in BOOLEAN,
         AddTimer(id, d, r), TypeOK'
  PROVE  IInv'
<1> DEFINE ms == Max2(1, d)
           e == current_time + ms
           at == SlotOf(e, current_slot, current_time)
<1>1. /\ TypeOK /\ Placed /\ ExpiryIsAhead /\ ExpiryIsDue /\ PollIsShort
      /\ NeverLate
  BY DEF IInv
<1>2. /\ ms \in Nat /\ ms >= 1 /\ e \in Nat /\ clock \in Nat
      /\ current_time \in Nat /\ current_time <= clock
  BY <1>1, WheelAssumption DEF TypeOK, Max2
<1>3. at \in Slots
  BY <1>1, <1>2, SlotOfIsSlot DEF TypeOK
<1>4. /\ pc # "poll" /\ id \in unused
      /\ expire' = [expire EXCEPT ![id] = e]
      /\ slots' = [slots EXCEPT ![at] = @ \cup {id}]
      /\ timer_map' = timer_map \cup {id}
      /\ unused' = unused \ {id}
      /\ due' = [due EXCEPT ![id] = clock + ms]
      /\ stale' = IF clock = current_time THEN stale ELSE stale \cup {id}
      /\ UNCHANGED <<current_time, pc, deadline, clock, busy>>
  BY DEF AddTimer
<1> HIDE DEF ms, e, at
<1>5. \A s \in Slots : slots'[s] = IF s = at THEN slots[s] \cup {id} ELSE slots[s]
  BY <1>1, <1>3, <1>4 DEF TypeOK
<1>6. Placed'
  <2>1. timer_map' \subseteq InWheel'
    BY <1>1, <1>3, <1>4, <1>5 DEF Placed, InWheel
  <2>2. unused' \cap InWheel' = {}
    BY <1>1, <1>4, <1>5 DEF Placed, InWheel
  <2>3. ASSUME NEW i \in Ids, NEW s \in Slots, NEW q \in Slots,
               i \in slots'[s], i \in slots'[q]
        PROVE  s = q
    <3>1. i = id => \A z \in Slots : i \notin slots[z]
      BY <1>1, <1>4 DEF Placed, InWheel
    <3> QED BY <1>1, <1>5, <2>3, <3>1 DEF Placed
  <2> QED BY <2>1, <2>2, <2>3 DEF Placed
<1>7. expire'[id] = e /\ due'[id] = clock + ms
  BY <1>1, <1>4 DEF TypeOK
<1>8. \A i \in Ids \ {id} : expire'[i] = expire[i] /\ due'[i] = due[i]
  BY <1>1, <1>4 DEF TypeOK
<1>9. current_time < e /\ e <= clock + ms /\ clock <= clock + ms
      /\ (clock = current_time => e = clock + ms)
  BY <1>2 DEF e
<1>10. timer_map \subseteq Ids
  BY <1>1 DEF TypeOK
<1>11. ExpiryIsAhead'
  BY <1>1, <1>4, <1>7, <1>8, <1>9, <1>10 DEF ExpiryIsAhead
<1>12. ExpiryIsDue'
  <2>1. ASSUME NEW i \in Ids \ unused'
        PROVE  expire'[i] <= due'[i] /\ (i \notin stale' => expire'[i] = due'[i])
    BY <1>1, <1>4, <1>7, <1>8, <1>9 DEF ExpiryIsDue
  <2> QED BY <2>1 DEF ExpiryIsDue
<1>13. PollIsShort'
  BY <1>1, <1>4 DEF PollIsShort
<1>14. NeverLate'
  BY <1>1, <1>4, <1>7, <1>8, <1>9, <1>10 DEF NeverLate
<1> QED BY <1>6, <1>11, <1>12, <1>13, <1>14 DEF IInv

LEMMA RemoveTimerIInv ==
  ASSUME IInv, NEW id \in Ids, RemoveTimer(id), TypeOK'
  PROVE  IInv'
<1>1. /\ TypeOK /\ Placed /\ ExpiryIsAhead /\ ExpiryIsDue /\ PollIsShort
      /\ NeverLate
  BY DEF IInv
<1>2. /\ timer_map' = timer_map \ {id} /\ pc # "poll"
      /\ UNCHANGED <<current_time, expire, pc, deadline, clock, unused, due,
                     stale, busy>>
  BY DEF RemoveTimer
<1>3. \A s \in Slots : /\ slots'[s] \subseteq slots[s]
                       /\ slots[s] \ {id} \subseteq slots'[s]
  BY <1>1 DEF RemoveTimer, TypeOK
<1>4. Placed'
  BY <1>1, <1>2, <1>3 DEF Placed, InWheel
<1>5. ExpiryIsAhead' /\ ExpiryIsDue' /\ PollIsShort' /\ NeverLate'
  BY <1>1, <1>2 DEF ExpiryIsAhead, ExpiryIsDue, PollIsShort, NeverLate
<1> QED BY <1>4, <1>5 DEF IInv

LEMMA TickIInv ==
  ASSUME IInv, Tick, TypeOK'
  PROVE  IInv'
<1> DEFINE steps == (clock - current_time) \div SlotMs
           slot == IF steps > 0 THEN Turn(1) ELSE current_slot
           time == IF steps > 0 THEN current_time + SlotMs ELSE clock
           again == {id \in Expired : interval[id] > 0}
           next == [id \in Ids |-> clock + interval[id]]
           to(id) == SlotOf(next[id], slot, time)
<1>1. /\ TypeOK /\ Placed /\ ExpiryIsAhead /\ ExpiryIsDue /\ PollIsShort
      /\ NeverLate
  BY DEF IInv
<1>2. Expired \subseteq Ids /\ again \subseteq Expired
  BY <1>1 DEF Expired, InWheel, TypeOK
<1>3. \A id \in Ids : to(id) \in Slots
  BY <1>1, RestartSlot DEF Tick
<1>4. /\ pc' = "tasks" /\ current_time' = clock
      /\ timer_map' = timer_map \ (Expired \ again)
      /\ expire' = [id \in Ids |-> IF id \in again THEN next[id] ELSE expire[id]]
      /\ due' = [id \in Ids |-> IF id \in again THEN next[id] ELSE due[id]]
      /\ stale' = stale \ again
      /\ UNCHANGED <<clock, unused, busy>>
  BY DEF Tick
<1>5. \A s \in Slots :
        slots'[s] = (slots[s] \ Expired) \cup {id \in again : to(id) = s}
  BY DEF Tick, LeftIn
<1>6. \A id \in again : next[id] > clock /\ next[id] \in Nat
  BY <1>1, <1>2 DEF TypeOK
<1> HIDE DEF steps, slot, time, again, next, to
<1>7. \A id \in InWheel \ Expired : expire[id] > clock
  BY <1>1 DEF Expired, TypeOK, InWheel
<1>8. Placed'
  <2>1. timer_map' \subseteq InWheel'
    <3> SUFFICES ASSUME NEW id \in timer_map'
                 PROVE  \E s \in Slots : id \in slots'[s]
      BY DEF InWheel
    <3>1. CASE id \in again
      BY <3>1, <1>2, <1>3, <1>5
    <3>2. CASE id \notin again
      <4>1. id \in timer_map /\ id \notin Expired
        BY <3>2, <1>4
      <4> QED BY <4>1, <1>1, <1>5 DEF Placed, InWheel
    <3> QED BY <3>1, <3>2
  <2>2. InWheel' \subseteq InWheel
    BY <1>2, <1>5 DEF InWheel, Expired
  <2>3. ASSUME NEW i \in Ids, NEW s \in Slots, NEW q \in Slots,
               i \in slots'[s], i \in slots'[q]
        PROVE  s = q
    BY <1>1, <1>2, <1>5, <2>3 DEF Placed
  <2> QED BY <1>1, <1>4, <2>1, <2>2, <2>3 DEF Placed
<1>9. ASSUME NEW id \in timer_map'
      PROVE  expire'[id] > clock /\ clock <= due'[id] /\ id \in Ids
  <2>1. id \in Ids \ unused /\ id \in timer_map /\ id \in InWheel
    BY <1>1, <1>4 DEF Placed, TypeOK
  <2>2. CASE id \in again
    BY <2>1, <2>2, <1>1, <1>4, <1>6 DEF TypeOK
  <2>3. CASE id \notin again
    <3>1. /\ expire'[id] = expire[id] /\ due'[id] = due[id]
          /\ expire[id] > clock /\ expire[id] <= due[id]
      BY <2>1, <2>3, <1>1, <1>4, <1>7 DEF ExpiryIsDue
    <3> QED BY <3>1, <2>1, <1>1 DEF TypeOK
  <2> QED BY <2>2, <2>3
<1>10. ExpiryIsAhead' /\ NeverLate'
  BY <1>4, <1>9 DEF ExpiryIsAhead, NeverLate
<1>11. ExpiryIsDue'
  <2>1. ASSUME NEW i \in Ids \ unused
        PROVE  expire'[i] <= due'[i] /\ (i \notin stale' => expire'[i] = due'[i])
    BY <1>1, <1>4, <1>6 DEF ExpiryIsDue
  <2> QED BY <1>4, <2>1 DEF ExpiryIsDue
<1>12. PollIsShort'
  BY <1>4 DEF PollIsShort
<1> QED BY <1>8, <1>10, <1>11, <1>12 DEF IInv

LEMMA NextIInv ==
  ASSUME IInv, [Next]_vars
  PROVE  IInv'
<1>1. /\ TypeOK /\ Placed /\ ExpiryIsAhead /\ ExpiryIsDue /\ PollIsShort
      /\ NeverLate /\ TypeOK'
  BY NextTypeOK DEF IInv
<1> USE DEF IInv
<1>2. ASSUME NEW id \in Ids, NEW d \in Delays, NEW r \in BOOLEAN,
             AddTimer(id, d, r)
      PROVE  IInv'
  BY <1>1, <1>2, AddTimerIInv
<1>3. ASSUME NEW id \in Ids, RemoveTimer(id)
      PROVE  IInv'
  BY <1>1, <1>3, RemoveTimerIInv
<1>4. ASSUME Tick
      PROVE  IInv'
  BY <1>1, <1>4, TickIInv
<1>5. ASSUME UNCHANGED wheel, UNCHANGED <<unused, due, stale>>
      PROVE  Placed' /\ ExpiryIsAhead' /\ ExpiryIsDue'
  BY <1>1, <1>5 DEF wheel, Placed, InWheel, ExpiryIsAhead, ExpiryIsDue
<1>6. ASSUME BeginPoll
      PROVE  IInv'
  <2>1. UNCHANGED wheel /\ UNCHANGED <<clock, unused, due, stale, busy>>
        /\ pc = "tasks" /\ pc' = "poll"
    BY <1>6 DEF BeginPoll
  <2>2. ASSUME ~busy
        PROVE  clock <= deadline' /\ \A id \in timer_map : deadline' <= expire[id]
    <3>1. clock = current_time /\ clock \in Nat /\ clock <= MaxTime
          /\ MaxTime \in Nat
      BY <2>1, <2>2, <1>1, WheelAssumption DEF PollIsShort, TypeOK
    <3>2. CASE timer_map = {} /\ deadline' = MaxTime + 1
      BY <3>1, <3>2
    <3>3. ASSUME NEW id \in FirstToExpire,
                 deadline' = Min2(MaxTime + 1, clock + NextTimeout(id))
          PROVE  clock <= deadline' /\ \A j \in timer_map : deadline' <= expire[j]
      <4>1. /\ id \in timer_map /\ timer_map \subseteq Ids
            /\ \A j \in timer_map : expire[id] <= expire[j]
        BY <1>1 DEF FirstToExpire, TypeOK
      <4>2. \A j \in timer_map : expire[j] \in Nat
        BY <4>1, <1>1 DEF TypeOK
      <4>3. expire[id] > current_time
        BY <4>1, <1>1 DEF ExpiryIsAhead
      <4>4. clock + NextTimeout(id) = expire[id]
        BY <3>1, <4>1, <4>2, <4>3 DEF NextTimeout
      <4>5. clock <= deadline' /\ deadline' <= expire[id] /\ deadline' \in Nat
        BY <3>1, <3>3, <4>1, <4>2, <4>3, <4>4 DEF Min2
      <4> QED BY <4>1, <4>2, <4>5
    <3> QED BY <3>2, <3>3, <1>6 DEF BeginPoll
  <2>3. PollIsShort' /\ NeverLate'
    BY <1>1, <2>1, <2>2 DEF wheel, PollIsShort, NeverLate
  <2> QED BY <1>1, <1>5, <2>1, <2>3
<1>7. ASSUME EndPoll
      PROVE  IInv'
  BY <1>1, <1>5, <1>7 DEF EndPoll, wheel, PollIsShort, NeverLate
<1>8. ASSUME Elapse
      PROVE  IInv'
  <2>1. UNCHANGED wheel /\ UNCHANGED <<unused, due, stale, pc, deadline>>
        /\ clock' = clock + 1 /\ busy' = (busy \/ pc # "poll")
        /\ (pc = "poll" => clock < deadline)
    BY <1>8 DEF Elapse
  <2>2. ASSUME ~busy'
        PROVE  /\ pc = "poll" /\ clock' <= deadline
               /\ \A id \in timer_map : deadline <= expire[id] /\ clock' <= due[id]
    <3>0. ~busy /\ pc = "poll"
      BY <2>1, <2>2, Zenon
    <3>1. /\ pc = "poll" /\ clock < deadline
          /\ clock \in Nat /\ deadline \in Nat
          /\ \A id \in timer_map : deadline <= expire[id]
      BY <1>1, <2>1, <3>0 DEF TypeOK, PollIsShort
    <3>2. \A id \in timer_map : /\ id \in Ids /\ id \notin unused
                                /\ expire[id] <= due[id]
                                /\ expire[id] \in Nat /\ due[id] \in Nat
      BY <1>1 DEF Placed, TypeOK, ExpiryIsDue
    <3> QED BY <2>1, <3>1, <3>2
  <2>3. PollIsShort' /\ NeverLate'
    BY <2>1, <2>2 DEF wheel, PollIsShort, NeverLate
  <2> QED BY <1>1, <1>5, <2>1, <2>3
<1>9. CASE UNCHANGED vars
  BY <1>1, <1>5, <1>9 DEF vars, wheel, PollIsShort, NeverLate
<1> QED BY <1>2, <1>3, <1>4, <1>6, <1>7, <1>8, <1>9 DEF Next

-----------------------------------------------------------------------------
(* TypeOK: whatever callers add and remove, every slot computed is a slot.  *)
THEOREM TypeCorrect == Spec => []TypeOK
<1>1. Init => TypeOK
  BY InitIInv DEF IInv
<1>2. TypeOK /\ [Next]_vars => TypeOK'
  BY NextTypeOK
<1> QED BY <1>1, <1>2, PTL DEF Spec

(* The strengthened invariant: where timers are and when they expire.       *)
THEOREM Invariance == Spec => []IInv
<1>1. IInv /\ [Next]_vars => IInv'
  BY NextIInv
<1> QED BY InitIInv, <1>1, PTL DEF Spec

(* A timer that timer_map_ holds is in exactly one slot: whatever the wheel  *)
(* does to cancelled timers, it neither loses a live one nor runs it twice. *)
THEOREM TimersArePlaced == Spec => []OneSlotPerTimer
<1>1. IInv => OneSlotPerTimer
  BY DEF IInv, TypeOK, Placed, InWheel, OneSlotPerTimer
<1> QED BY Invariance, <1>1, PTL

(* The unsigned subtraction of CalculateSlot (timer_wheel.cc:146) is never   *)
(* asked for an expiry in the past.                                         *)
THEOREM NoWrap == Spec => []ExpiryIsAhead
<1>1. IInv => ExpiryIsAhead
  BY DEF IInv
<1> QED BY Invariance, <1>1, PTL

(* As long as callbacks take no time no timer is late, for any slot length:  *)
(* the poll timeout does not depend on the slots.                           *)
THEOREM TimersAreOnTime == Spec => []NeverLate
<1>1. IInv => NeverLate
  BY DEF IInv
<1> QED BY Invariance, <1>1, PTL

(* A timer added right after a Tick, or restarted, never fires early.       *)
THEOREM PromptTimersAreNotEarly == Spec => PromptNeverEarly
<1>1. ASSUME IInv, [Next]_vars
      PROVE  [\A id \in fired' \ stale : clock >= due[id]]_vars
  <2>1. ASSUME Tick
        PROVE  \A id \in fired' \ stale : clock >= due[id]
    <3>1. fired' = Expired
      BY <2>1 DEF Tick
    <3>2. ASSUME NEW id \in Expired \ stale
          PROVE  clock >= due[id]
      <4>1. id \in InWheel /\ expire[id] <= clock
        BY DEF Expired
      <4>2. id \in Ids \ unused
        BY <4>1, <1>1 DEF IInv, TypeOK, Placed, InWheel
      <4> QED BY <4>1, <4>2, <1>1 DEF IInv, TypeOK, ExpiryIsDue
    <3> QED BY <3>1, <3>2
  <2>2. ASSUME fired' = {}
        PROVE  \A id \in fired' \ stale : clock >= due[id]
    BY <2>2
  <2>3. CASE UNCHANGED vars
    BY <2>3
  <2> QED BY <1>1, <2>1, <2>2, <2>3
          DEF Next, AddTimer, RemoveTimer, BeginPoll, EndPoll, Elapse
<1> QED BY Invariance, <1>1, PTL DEF Spec, PromptNeverEarly
=============================================================================
