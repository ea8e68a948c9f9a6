------------------------ MODULE IoUringPollerProofs ------------------------
(***************************************************************************)
(* For any number of channels, watchers and generations: what is           *)
(* registered stays polled, and what is dispatched is alive.               *)
(***************************************************************************)
EXTENDS IoUringPoller, SequenceTheorems, TLAPS

-----------------------------------------------------------------------------
(* What Append and Tail do to the elements of a sequence.                  *)

Elements(s) == {s[i] : i \in 1..Len(s)}

LEMMA AppendFacts ==
  ASSUME NEW T, NEW s \in Seq(T), NEW x \in T
  PROVE  /\ Append(s, x) \in Seq(T)
         /\ Elements(Append(s, x)) = Elements(s) \cup {x}
<1>1. /\ Append(s, x) \in Seq(T) /\ Len(Append(s, x)) = Len(s) + 1 /\ Len(s) \in Nat
      /\ \A i \in 1..Len(s) : Append(s, x)[i] = s[i]
      /\ Append(s, x)[Len(s) + 1] = x
  BY AppendProperties, LenProperties
<1>2. PICK a \in Seq(T) : a = Append(s, x)
  BY <1>1
<1>3. Elements(a) = Elements(s) \cup {x}
  <2>1. 1..Len(a) = 1..Len(s) \cup {Len(s) + 1}
    BY <1>1, <1>2
  <2> QED BY <2>1, <1>1, <1>2 DEF Elements
<1> QED BY <1>1, <1>2, <1>3

LEMMA TailFacts ==
  ASSUME NEW T, NEW s \in Seq(T), s # << >>
  PROVE  /\ Tail(s) \in Seq(T) /\ Head(s) \in T /\ Head(s) \in Elements(s)
         /\ Elements(Tail(s)) \subseteq Elements(s)
         /\ Elements(s) = Elements(Tail(s)) \cup {Head(s)}
<1>1. /\ Head(s) \in T /\ Tail(s) \in Seq(T) /\ Len(Tail(s)) = Len(s) - 1
      /\ \A i \in 1..Len(Tail(s)) : Tail(s)[i] = s[i + 1]
      /\ Len(s) \in Nat \ {0} /\ Head(s) = s[1]
  BY HeadTailProperties, EmptySeq
<1>2. PICK a \in Seq(T) : a = Tail(s)
  BY <1>1
<1>3. Elements(s) = Elements(a) \cup {Head(s)}
  <2>1. \A x \in Elements(s) : x \in Elements(a) \cup {Head(s)}
    <3> TAKE x \in Elements(s)
    <3>1. PICK i \in 1..Len(s) : x = s[i]
      BY DEF Elements
    <3>2. CASE i = 1
      BY <1>1, <3>1, <3>2
    <3>3. CASE i # 1
      <4>1. i - 1 \in 1..Len(a) /\ a[i - 1] = s[i]
        BY <1>1, <1>2, <3>3
      <4> QED BY <4>1, <3>1 DEF Elements
    <3> QED BY <3>2, <3>3
  <2>2. \A x \in Elements(a) : x \in Elements(s)
    <3> TAKE x \in Elements(a)
    <3>1. PICK i \in 1..Len(a) : x = a[i]
      BY DEF Elements
    <3>2. i + 1 \in 1..Len(s) /\ a[i] = s[i + 1]
      BY <1>1, <1>2
    <3> QED BY <3>1, <3>2 DEF Elements
  <2>3. Head(s) \in Elements(s)
    BY <1>1 DEF Elements
  <2> QED BY <2>1, <2>2, <2>3
<1> QED BY <1>1, <1>2, <1>3

-----------------------------------------------------------------------------
(* The inductive invariant.                                                *)

\* An id names one watcher, and a new one is unknown to the kernel.
IdsAreTrue ==
  /\ \A a \in watched : id[a] < next_id
  /\ \A a, b \in watched : id[a] = id[b] => a = b
  /\ \A r \in Elements(sq) \cup kernel \cup Elements(cq) : r.id < next_id

\* No request or completion is of a generation to come.
GensAreTrue ==
  \A a \in watched : \A x \in Elements(sq) \cup kernel \cup Elements(cq) :
    x.id = id[a] => x.gen <= gen[a]

\* What would disarm a watcher that is not deleting is of an earlier
\* generation, as long as its descriptor is open.
RemovalsAreOld ==
  \A a \in watched \ (deleting \cup orphan) :
    /\ \A r \in Elements(sq) : r.op = "remove" /\ r.id = id[a] => r.gen < gen[a]
    /\ \A c \in Elements(cq) :
         (c.kind = "remove" \/ c.ok = FALSE) /\ c.id = id[a] => c.gen < gen[a]

\* A watcher that is not deleting belongs to an open connection, or to one
\* registered again after its close.
WatchersAreOpen == \A a \in watched \ deleting : a \in late \/ chan[a] = "up"

\* A channel registered while its watcher is deleting counts as lost.
DeletingIsLost == \A a \in registered \cap deleting : a \in lost

\* Connections leave their table between a batch and the next Poll, when
\* none is ready.
ReadyIsDispatched == pc \in {"tasks", "submit"} => ready = {}

IInv == /\ TypeOK /\ IdsAreTrue /\ GensAreTrue /\ RemovalsAreOld /\ WatchersAreOpen
        /\ DeletingIsLost /\ ReadyIsDispatched /\ DispatchedIsAlive /\ RegisteredIsPolled

-----------------------------------------------------------------------------
(* Requests and completions.                                               *)

LEMMA RequestFacts ==
  ASSUME NEW op \in {"poll", "remove"}, NEW i \in Nat, NEW g \in Nat
  PROVE  /\ Request(op, i, g) \in Requests
         /\ Request(op, i, g).op = op /\ Request(op, i, g).id = i
         /\ Request(op, i, g).gen <= g
         /\ g < GenMod => Request(op, i, g).gen = g
<1>1. GenMod \in Nat \ {0}
  BY RingAssumption
<1>2. g % GenMod \in Nat /\ g % GenMod <= g
  BY <1>1
<1>3. g < GenMod => g % GenMod = g
  BY <1>1
<1> QED BY <1>2, <1>3 DEF Request, Requests

LEMMA HoldsIsElement ==
  ASSUME NEW T, NEW s \in Seq(T), NEW x
  PROVE  Holds(s, x) <=> x \in Elements(s)
<1>1. DOMAIN s = 1..Len(s)
  BY LenProperties
<1> QED BY <1>1 DEF Holds, Elements

\* Where a poll of the present generation is.
LEMMA PolledIs ==
  ASSUME TypeOK, NEW a \in Addr
  PROVE  Polled(a) <=> \/ PollOf(a) \in Elements(sq) \cup kernel
                       \/ Completion("poll", id[a], gen[a], TRUE) \in Elements(cq)
<1>1. sq \in Seq(Requests) /\ cq \in Seq(Completions)
  BY DEF TypeOK
<1> QED BY <1>1, HoldsIsElement DEF Polled

LEMMA InitIInv == Init => IInv
<1> SUFFICES ASSUME Init PROVE IInv
  OBVIOUS
<1> USE DEF Init
<1>1. TypeOK
  BY EmptySeq DEF TypeOK
<1>2. Elements(sq) = {} /\ Elements(cq) = {}
  BY EmptySeq DEF Elements
<1>3. IdsAreTrue /\ GensAreTrue /\ RemovalsAreOld /\ WatchersAreOpen /\ DeletingIsLost
  BY <1>2 DEF IdsAreTrue, GensAreTrue, RemovalsAreOld, WatchersAreOpen, DeletingIsLost
<1>4. ReadyIsDispatched /\ DispatchedIsAlive /\ RegisteredIsPolled
  BY DEF ReadyIsDispatched, DispatchedIsAlive, RegisteredIsPolled
<1> QED BY <1>1, <1>3, <1>4 DEF IInv
-----------------------------------------------------------------------------
(* Types.                                                                  *)

LEMMA NumberFacts ==
  ASSUME TypeOK
  PROVE  /\ \A x \in Elements(sq) \cup kernel \cup Elements(cq) : x.id \in Nat /\ x.gen \in Nat
         /\ \A a \in Addr : id[a] \in Nat /\ gen[a] \in Nat
         /\ watched \subseteq Addr /\ deleting \subseteq watched /\ armed \subseteq watched
         /\ orphan \subseteq watched /\ ready \subseteq Addr /\ late \subseteq Addr
         /\ lost \subseteq Addr /\ registered \subseteq Addr
<1>1. Elements(sq) \subseteq Requests /\ Elements(cq) \subseteq Completions
  BY ElementOfSeq DEF TypeOK, Elements
<1>2. kernel \subseteq Requests
  BY DEF TypeOK
<1>3. \A x \in Elements(sq) \cup kernel \cup Elements(cq) : x.id \in Nat /\ x.gen \in Nat
  BY <1>1, <1>2 DEF Requests, Completions
<1> QED BY <1>3 DEF TypeOK

LEMMA RequestNumbers ==
  ASSUME NEW s \in Seq(Requests), NEW x \in Elements(s)
  PROVE  x.id \in Nat /\ x.gen \in Nat
<1>1. x \in Requests
  BY ElementOfSeq DEF Elements
<1> QED BY <1>1 DEF Requests

LEMMA RemoveTypes ==
  ASSUME TypeOK, NEW a \in Addr
  PROVE  /\ SubmitPollRemove(a) \in Seq(Requests)
         /\ Elements(sq) \subseteq Elements(SubmitPollRemove(a))
         /\ \A r \in Elements(SubmitPollRemove(a)) : r \in Elements(sq) \/ r = RemoveOf(a)
         /\ RemoveOf(a) \in Requests /\ RemoveOf(a).id = id[a] /\ RemoveOf(a).gen <= gen[a]
         /\ id[a] \in Nat /\ gen[a] \in Nat
<1>1. id[a] \in Nat /\ gen[a] \in Nat /\ sq \in Seq(Requests)
  BY DEF TypeOK
<1>2. RemoveOf(a) \in Requests /\ RemoveOf(a).id = id[a] /\ RemoveOf(a).gen <= gen[a]
  BY <1>1, RequestFacts DEF RemoveOf
<1>3. /\ Append(sq, RemoveOf(a)) \in Seq(Requests)
      /\ Elements(Append(sq, RemoveOf(a))) = Elements(sq) \cup {RemoveOf(a)}
  BY <1>1, <1>2, AppendFacts
<1> QED BY <1>1, <1>2, <1>3 DEF SubmitPollRemove

\* SubmitPollAdd after the requests s: the poll of the new generation.
LEMMA AddFacts ==
  ASSUME TypeOK, NEW a \in Addr, NEW s \in Seq(Requests), SubmitPollAdd(a, s)
  PROVE  /\ gen' = [gen EXCEPT ![a] = gen[a] + 1] /\ gen' \in [Addr -> Nat]
         /\ gen'[a] = gen[a] + 1 /\ gen[a] \in Nat /\ id[a] \in Nat
         /\ armed' = armed \cup {a}
         /\ sq' \in Seq(Requests)
         /\ Elements(sq') = Elements(s) \cup {Request("poll", id[a], gen[a] + 1)}
         /\ Request("poll", id[a], gen[a] + 1) \in Requests
         /\ Request("poll", id[a], gen[a] + 1).op = "poll"
         /\ Request("poll", id[a], gen[a] + 1).id = id[a]
         /\ Request("poll", id[a], gen[a] + 1).gen <= gen[a] + 1
<1>1. id[a] \in Nat /\ gen[a] \in Nat /\ gen[a] + 1 \in Nat /\ gen \in [Addr -> Nat]
  BY DEF TypeOK
<1>2. /\ Request("poll", id[a], gen[a] + 1) \in Requests
      /\ Request("poll", id[a], gen[a] + 1).op = "poll"
      /\ Request("poll", id[a], gen[a] + 1).id = id[a]
      /\ Request("poll", id[a], gen[a] + 1).gen <= gen[a] + 1
  BY <1>1, RequestFacts
<1>3. PICK r \in Requests : r = Request("poll", id[a], gen[a] + 1)
  BY <1>2
<1>4. sq' = Append(s, r)
  BY <1>3 DEF SubmitPollAdd
<1>5. sq' \in Seq(Requests) /\ Elements(sq') = Elements(s) \cup {r}
  BY <1>4, AppendFacts
<1>6. /\ gen' = [gen EXCEPT ![a] = gen[a] + 1] /\ gen' \in [Addr -> Nat]
      /\ gen'[a] = gen[a] + 1 /\ armed' = armed \cup {a}
  BY <1>1 DEF SubmitPollAdd
<1> QED BY <1>1, <1>2, <1>3, <1>5, <1>6

\* AddWatcher: the same for a watcher with a new id.
LEMMA NewFacts ==
  ASSUME TypeOK, NEW a \in Addr, AddWatcher(a)
  PROVE  /\ watched' = watched \cup {a} /\ UNCHANGED deleting /\ lost' = lost \ {a}
         /\ id' = [id EXCEPT ![a] = next_id] /\ id' \in [Addr -> Nat] /\ id'[a] = next_id
         /\ gen' = [gen EXCEPT ![a] = 1] /\ gen' \in [Addr -> Nat] /\ gen'[a] = 1
         /\ next_id' = next_id + 1 /\ next_id \in Nat
         /\ armed' = armed \cup {a}
         /\ sq' \in Seq(Requests)
         /\ Elements(sq') = Elements(sq) \cup {Request("poll", next_id, 1)}
         /\ Request("poll", next_id, 1) \in Requests
         /\ Request("poll", next_id, 1).op = "poll" /\ Request("poll", next_id, 1).id = next_id
         /\ Request("poll", next_id, 1).gen <= 1
<1>1. /\ id \in [Addr -> Nat] /\ gen \in [Addr -> Nat] /\ next_id \in Nat
      /\ sq \in Seq(Requests)
  BY DEF TypeOK
<1>2. /\ Request("poll", next_id, 1) \in Requests
      /\ Request("poll", next_id, 1).op = "poll" /\ Request("poll", next_id, 1).id = next_id
      /\ Request("poll", next_id, 1).gen <= 1
  BY <1>1, RequestFacts
<1>3. PICK r \in Requests : r = Request("poll", next_id, 1)
  BY <1>2
<1>4. sq' = Append(sq, r)
  BY <1>3 DEF AddWatcher
<1>5. sq' \in Seq(Requests) /\ Elements(sq') = Elements(sq) \cup {r}
  BY <1>1, <1>4, AppendFacts
<1>6. /\ watched' = watched \cup {a} /\ UNCHANGED deleting /\ lost' = lost \ {a}
      /\ id' = [id EXCEPT ![a] = next_id] /\ id' \in [Addr -> Nat] /\ id'[a] = next_id
      /\ gen' = [gen EXCEPT ![a] = 1] /\ gen' \in [Addr -> Nat] /\ gen'[a] = 1
      /\ next_id' = next_id + 1 /\ armed' = armed \cup {a}
  BY <1>1 DEF AddWatcher
<1> QED BY <1>1, <1>2, <1>3, <1>5, <1>6

\* The first completion and the others.
LEMMA HeadFacts ==
  ASSUME NEW T, NEW s \in Seq(T), s # << >>
  PROVE  /\ Head(s) \in T /\ Tail(s) \in Seq(T) /\ Head(s) \in Elements(s)
         /\ Elements(s) = Elements(Tail(s)) \cup {Head(s)}
BY TailFacts

\* A poll of an unchanged watcher is somewhere as long as it is not dropped.
LEMMA PolledKeeps ==
  ASSUME TypeOK, TypeOK', NEW a \in Addr, Polled(a), id'[a] = id[a], gen'[a] = gen[a],
         PollOf(a) \in Elements(sq) \cup kernel
           => \/ PollOf(a) \in Elements(sq') \cup kernel'
              \/ Completion("poll", id[a], gen[a], TRUE) \in Elements(cq'),
         Completion("poll", id[a], gen[a], TRUE) \in Elements(cq)
           => Completion("poll", id[a], gen[a], TRUE) \in Elements(cq')
  PROVE  Polled(a)'
<1>1. \/ PollOf(a) \in Elements(sq') \cup kernel'
      \/ Completion("poll", id[a], gen[a], TRUE) \in Elements(cq')
  BY PolledIs
<1>2. sq' \in Seq(Requests) /\ cq' \in Seq(Completions)
  BY DEF TypeOK
<1>3. \/ Holds(sq', PollOf(a)) \/ PollOf(a) \in kernel'
      \/ Holds(cq', Completion("poll", id[a], gen[a], TRUE))
  BY <1>1, <1>2, HoldsIsElement
<1>4. PollOf(a)' = PollOf(a)
  BY DEF PollOf
<1> QED BY <1>3, <1>4 DEF Polled, Holds

-----------------------------------------------------------------------------
(* Registering.                                                            *)

\* Add or Mod for the channel of a connection that is not freed.
LEMMA AddOrModKeeps ==
  ASSUME IInv, NEW a \in Addr, AddOrMod(a), UNCHANGED <<kernel, cq, ready, pc>>,
         chan' \in [Addr -> {"free", "up", "closed", "gone"}], chan'[a] # "free",
         \A b \in Addr \ {a} : chan'[b] = chan[b] /\ (b \in late' <=> b \in late),
         registered' = registered \cup {a}, late' \subseteq Addr,
         a \in late' \/ chan'[a] = "up",
         orphan' \in {orphan, orphan \ {a}}, DispatchedIsAlive'
  PROVE  IInv'
<1> USE DEF IInv
<1>0. /\ watched \subseteq Addr /\ deleting \subseteq watched /\ armed \subseteq watched
      /\ ready \subseteq Addr /\ orphan \subseteq watched /\ registered \subseteq Addr
      /\ orphan' \subseteq orphan /\ orphan \ {a} \subseteq orphan'
      /\ \A b \in Addr : id[b] \in Nat /\ gen[b] \in Nat
      /\ \A x \in Elements(sq) \cup kernel \cup Elements(cq) : x.id \in Nat /\ x.gen \in Nat
      /\ kernel' = kernel /\ cq' = cq /\ cq \in Seq(Completions)
  <2>1. TypeOK
    OBVIOUS
  <2> QED BY <2>1, NumberFacts DEF TypeOK
<1>1. ReadyIsDispatched'
  BY DEF ReadyIsDispatched
<1>t. registered' \in SUBSET {b \in Addr : chan'[b] # "free"}
  BY DEF TypeOK
<1>2. CASE a \notin watched
  <2>1. AddWatcher(a)
    BY <1>2 DEF AddOrMod
  <2>2. PICK r \in Requests :
          /\ r = Request("poll", next_id, 1) /\ r.op = "poll" /\ r.id = next_id /\ r.gen <= 1
          /\ Elements(sq') = Elements(sq) \cup {r}
    BY <2>1, NewFacts
  <2>4. /\ \A b \in watched : b # a /\ id'[b] = id[b] /\ gen'[b] = gen[b] /\ id[b] \in Nat
        /\ id'[a] = next_id /\ gen'[a] = 1 /\ next_id' = next_id + 1 /\ next_id \in Nat
        /\ watched' = watched \cup {a} /\ deleting' = deleting
        /\ armed' = armed \cup {a} /\ lost' = lost \ {a}
    BY <1>0, <1>2, <2>1, NewFacts DEF TypeOK
  <2>3. TypeOK'
    BY <1>0, <1>t, <2>1, <2>4, NewFacts DEF TypeOK
  <2>9. \A x \in Elements(sq) \cup kernel \cup Elements(cq) : x.id < next_id /\ x.id # next_id
    BY <1>0, <2>4 DEF IdsAreTrue
  <2>5. IdsAreTrue'
    <3>2. \A x \in Elements(sq') \cup kernel' \cup Elements(cq') : x.id < next_id'
      BY <1>0, <2>2, <2>4, <2>9
    <3>3. \A b \in watched' : id'[b] < next_id'
      BY <2>4 DEF IdsAreTrue
    <3>4. \A b, d \in watched' : id'[b] = id'[d] => b = d
      BY <2>4 DEF IdsAreTrue
    <3> QED BY <3>2, <3>3, <3>4 DEF IdsAreTrue
  <2>10. GensAreTrue'
    <3>1. \A b \in watched : \A x \in Elements(sq') \cup kernel' \cup Elements(cq') :
            x.id = id'[b] => x.gen <= gen'[b]
      <4>1. \A b \in watched : id[b] # next_id
        BY <2>4 DEF IdsAreTrue
      <4> QED BY <1>0, <2>2, <2>4, <4>1 DEF GensAreTrue
    <3>2. \A x \in Elements(sq') \cup kernel' \cup Elements(cq') :
            x.id = id'[a] => x.gen <= gen'[a]
      BY <1>0, <2>2, <2>4, <2>9
    <3> QED BY <2>4, <3>1, <3>2 DEF GensAreTrue
  <2>6. RemovalsAreOld'
    <3>2. \A b \in watched \ (deleting \cup orphan) :
            /\ \A x \in Elements(sq') : x.op = "remove" /\ x.id = id'[b] => x.gen < gen'[b]
            /\ \A c \in Elements(cq') :
                 (c.kind = "remove" \/ c.ok = FALSE) /\ c.id = id'[b] => c.gen < gen'[b]
      BY <1>0, <2>2, <2>4 DEF RemovalsAreOld
    <3>3. /\ \A x \in Elements(sq') : x.op = "remove" /\ x.id = id'[a] => x.gen < gen'[a]
          /\ \A c \in Elements(cq') :
               (c.kind = "remove" \/ c.ok = FALSE) /\ c.id = id'[a] => c.gen < gen'[a]
      BY <1>0, <2>2, <2>4, <2>9
    <3>4. \A b \in watched' \ (deleting' \cup orphan') :
            b = a \/ b \in watched \ (deleting \cup orphan)
      BY <1>0, <2>4
    <3> QED BY <3>2, <3>3, <3>4 DEF RemovalsAreOld
  <2>7. WatchersAreOpen' /\ DeletingIsLost'
    BY <1>0, <1>2, <2>4 DEF WatchersAreOpen, DeletingIsLost
  <2>8. RegisteredIsPolled'
    <3> SUFFICES ASSUME NEW b \in registered' \ (lost' \cup orphan')
                 PROVE  /\ b \in watched' \ deleting' /\ b \in armed'
                        /\ gen'[b] < GenMod => Polled(b)'
      BY DEF RegisteredIsPolled
    <3>1. CASE b = a
      <4>1. PollOf(a)' = r
        BY <2>2, <2>4 DEF PollOf
      <4>2. PollOf(a)' \in Elements(sq')
        BY <2>2, <4>1
      <4>3. Holds(sq, PollOf(a))'
        BY <2>3, <4>2, HoldsIsElement DEF TypeOK
      <4> QED BY <1>0, <1>2, <2>4, <3>1, <4>3 DEF Polled
    <3>2. CASE b # a
      <4>1. b \in watched \ deleting /\ b \in armed /\ (gen[b] < GenMod => Polled(b))
        BY <1>0, <2>4, <3>2 DEF RegisteredIsPolled
      <4>2. PollOf(b)' = PollOf(b) /\ id'[b] = id[b] /\ gen'[b] = gen[b]
        BY <2>4, <4>1 DEF PollOf
      <4>3. Holds(sq, PollOf(b)) => Holds(sq', PollOf(b))
        BY <2>2, <2>3, HoldsIsElement DEF TypeOK
      <4>4. Polled(b) => Polled(b)'
        BY <1>0, <2>4, <4>2, <4>3 DEF Polled, Holds
      <4> QED BY <2>4, <4>1, <4>2, <4>4
    <3> QED BY <3>1, <3>2
  <2> QED BY <1>1, <2>3, <2>5, <2>6, <2>7, <2>8, <2>10
<1>3. CASE a \in watched /\ a \in deleting
  <2>1. /\ sq' = SubmitPollRemove(a) /\ lost' = lost \cup {a}
        /\ UNCHANGED <<gen, armed, watched, deleting, id, next_id>>
    BY <1>3 DEF AddOrMod, ModWatcher
  <2>2. /\ sq' \in Seq(Requests) /\ Elements(sq) \subseteq Elements(sq')
        /\ \A r \in Elements(sq') : r \in Elements(sq) \/ (r.id = id[a] /\ r.gen <= gen[a])
    BY <2>1, RemoveTypes
  <2>3. TypeOK'
    BY <1>0, <1>t, <2>1, <2>2 DEF TypeOK
  <2>4. IdsAreTrue'
    BY <1>0, <1>3, <2>1, <2>2 DEF IdsAreTrue
  <2>5. GensAreTrue'
    <3>1. \A b \in watched : id[b] = id[a] => b = a
      BY <1>3 DEF IdsAreTrue
    <3> QED BY <1>0, <1>3, <2>1, <2>2, <3>1 DEF GensAreTrue
  <2>6. RemovalsAreOld'
    <3> SUFFICES ASSUME NEW b \in watched \ (deleting \cup orphan')
                 PROVE  /\ \A r \in Elements(sq') : r.op = "remove" /\ r.id = id[b] => r.gen < gen[b]
                        /\ \A c \in Elements(cq) :
                             (c.kind = "remove" \/ c.ok = FALSE) /\ c.id = id[b] => c.gen < gen[b]
      BY <1>0, <2>1 DEF RemovalsAreOld
    <3>1. b # a /\ b \in watched \ (deleting \cup orphan)
      BY <1>0, <1>3
    <3>2. id[b] # id[a]
      BY <1>3, <3>1 DEF IdsAreTrue
    <3> QED BY <2>2, <3>1, <3>2 DEF RemovalsAreOld
  <2>7. WatchersAreOpen' /\ DeletingIsLost'
    BY <1>0, <1>3, <2>1 DEF WatchersAreOpen, DeletingIsLost
  <2>8. RegisteredIsPolled'
    <3> SUFFICES ASSUME NEW b \in registered' \ (lost' \cup orphan')
                 PROVE  /\ b \in watched' \ deleting' /\ b \in armed'
                        /\ gen'[b] < GenMod => Polled(b)'
      BY DEF RegisteredIsPolled
    <3>1. b \in watched \ deleting /\ b \in armed /\ (gen[b] < GenMod => Polled(b))
      BY <1>0, <2>1 DEF RegisteredIsPolled
    <3>2. Polled(b) => Polled(b)'
      BY <1>0, <2>1, <2>2, <2>3, <3>1, PolledKeeps
    <3> QED BY <2>1, <3>1, <3>2
  <2> QED BY <1>1, <2>3, <2>4, <2>5, <2>6, <2>7, <2>8
<1>4. CASE a \in watched /\ a \notin deleting
  <2>1. PICK s \in Seq(Requests) : s = SubmitPollRemove(a)
    BY RemoveTypes
  <2>2. SubmitPollAdd(a, s) /\ UNCHANGED <<lost, watched, deleting, id, next_id>>
    BY <1>4, <2>1 DEF AddOrMod, ModWatcher
  <2>3. PICK q \in Requests :
          /\ q = Request("poll", id[a], gen[a] + 1) /\ q.op = "poll" /\ q.id = id[a]
          /\ q.gen <= gen[a] + 1 /\ q.gen \in Nat
          /\ Elements(sq') = Elements(s) \cup {q}
    <3>1. \A x \in Requests : x.gen \in Nat
      BY DEF Requests
    <3> QED BY <2>2, <3>1, AddFacts
  <2>4. /\ gen' \in [Addr -> Nat] /\ gen'[a] = gen[a] + 1 /\ gen[a] \in Nat
        /\ \A b \in Addr \ {a} : gen'[b] = gen[b]
        /\ armed' = armed \cup {a} /\ sq' \in Seq(Requests)
    BY <2>2, AddFacts DEF TypeOK
  <2>5. /\ Elements(sq) \subseteq Elements(sq')
        /\ \A r \in Elements(sq') : \/ r \in Elements(sq)
                                    \/ r.id = id[a] /\ r.gen <= gen[a]
                                    \/ r.id = id[a] /\ r.op = "poll" /\ r.gen <= gen[a] + 1
    BY <2>1, <2>3, RemoveTypes
  <2>6. TypeOK'
    BY <1>0, <1>t, <1>4, <2>2, <2>4 DEF TypeOK
  <2>n. \A r \in Elements(sq') : r.gen \in Nat
    BY <2>4, RequestNumbers
  <2>o. \A b \in watched : id[b] = id[a] => b = a
    BY <1>4 DEF IdsAreTrue
  <2>7. IdsAreTrue'
    BY <1>0, <1>4, <2>2, <2>5 DEF IdsAreTrue
  <2>8. GensAreTrue'
    <3> SUFFICES ASSUME NEW b \in watched, NEW x \in Elements(sq') \cup kernel \cup Elements(cq),
                        x.id = id[b]
                 PROVE  x.gen <= gen'[b]
      BY <1>0, <2>2 DEF GensAreTrue
    <3>1. CASE x \in Elements(sq) \cup kernel \cup Elements(cq)
      <4>1. x.gen <= gen[b] /\ x.gen \in Nat /\ gen[b] \in Nat
        BY <1>0, <3>1 DEF GensAreTrue
      <4>2. gen'[b] = gen[b] \/ gen'[b] = gen[b] + 1
        BY <1>0, <2>4
      <4> QED BY <4>1, <4>2
    <3>2. CASE x \notin Elements(sq) \cup kernel \cup Elements(cq)
      <4>1. x \in Elements(sq') /\ x.id = id[a] /\ (x.gen <= gen[a] \/ x.gen <= gen[a] + 1)
        BY <2>5, <3>2
      <4>2. b = a
        BY <2>o, <4>1
      <4> QED BY <2>4, <2>n, <4>1, <4>2
    <3> QED BY <3>1, <3>2
  <2>9. RemovalsAreOld'
    <3> SUFFICES ASSUME NEW b \in watched \ (deleting \cup orphan')
                 PROVE  /\ \A r \in Elements(sq') : r.op = "remove" /\ r.id = id[b] => r.gen < gen'[b]
                        /\ \A c \in Elements(cq) :
                             (c.kind = "remove" \/ c.ok = FALSE) /\ c.id = id[b] => c.gen < gen'[b]
      BY <1>0, <2>2 DEF RemovalsAreOld
    <3>1. CASE b # a
      <4>1. id[b] # id[a] /\ gen'[b] = gen[b] /\ b \in watched \ (deleting \cup orphan)
        BY <1>0, <2>4, <2>o, <3>1
      <4> QED BY <2>5, <4>1 DEF RemovalsAreOld
    <3>2. CASE b = a
      <4>1. \A x \in Elements(sq) \cup Elements(cq) : x.id = id[a] => x.gen <= gen[a]
        BY <1>4 DEF GensAreTrue
      <4>2. \A r \in Elements(sq') : r.op = "remove" /\ r.id = id[a] => r.gen <= gen[a]
        BY <2>5, <4>1
      <4> QED BY <1>0, <2>4, <2>n, <3>2, <4>1, <4>2
    <3> QED BY <3>1, <3>2
  <2>10. WatchersAreOpen' /\ DeletingIsLost'
    BY <1>0, <1>4, <2>2 DEF WatchersAreOpen, DeletingIsLost
  <2>11. RegisteredIsPolled'
    <3> SUFFICES ASSUME NEW b \in registered' \ (lost' \cup orphan')
                 PROVE  /\ b \in watched' \ deleting' /\ b \in armed'
                        /\ gen'[b] < GenMod => Polled(b)'
      BY DEF RegisteredIsPolled
    <3>1. CASE b = a
      <4>1. PollOf(a)' = q
        BY <2>2, <2>3, <2>4 DEF PollOf
      <4>2. Holds(sq, PollOf(a))'
        BY <2>3, <2>4, <4>1, HoldsIsElement
      <4> QED BY <1>4, <2>2, <2>4, <3>1, <4>2 DEF Polled
    <3>2. CASE b # a
      <4>1. b \in watched \ deleting /\ b \in armed /\ (gen[b] < GenMod => Polled(b))
        BY <1>0, <2>2, <3>2 DEF RegisteredIsPolled
      <4>2. Polled(b) => Polled(b)'
        BY <1>0, <2>2, <2>4, <2>5, <2>6, <3>2, <4>1, PolledKeeps
      <4> QED BY <1>0, <2>2, <2>4, <3>2, <4>1, <4>2
    <3> QED BY <3>1, <3>2
  <2> QED BY <1>1, <2>6, <2>7, <2>8, <2>9, <2>10, <2>11
<1> QED BY <1>2, <1>3, <1>4

LEMMA RegisterKeeps ==
  ASSUME IInv, NEW a \in Addr, Register(a) \/ Update(a)
  PROVE  IInv'
<1> USE DEF IInv
<1>0. /\ chan \in [Addr -> {"free", "up", "closed", "gone"}] /\ late \subseteq Addr
      /\ ready \subseteq Addr
  BY DEF TypeOK
<1>1. CASE Register(a)
  <2>1. /\ pc = "tasks" /\ UNCHANGED <<kernel, cq, ready, pc>> /\ AddOrMod(a)
        /\ chan' = [chan EXCEPT ![a] = "up"] /\ registered' = registered \cup {a}
        /\ late' = late \ {a} /\ orphan' \in {orphan, orphan \ {a}}
    BY <1>1 DEF Register
  <2>2. DispatchedIsAlive'
    BY <2>1 DEF DispatchedIsAlive, ReadyIsDispatched
  <2> QED BY <1>0, <2>1, <2>2, AddOrModKeeps
<1>2. CASE Update(a)
  <2>1. /\ UNCHANGED <<chan, kernel, cq, ready, pc, orphan>> /\ AddOrMod(a)
        /\ registered' = registered \cup {a} /\ chan[a] # "free"
        /\ late' = IF chan[a] = "up" THEN late ELSE late \cup {a}
    BY <1>2 DEF Update
  <2>2. DispatchedIsAlive'
    BY <2>1 DEF DispatchedIsAlive
  <2>3. late' \subseteq Addr /\ (a \in late' \/ chan[a] = "up")
    BY <1>0, <2>1
  <2>4. \A b \in Addr \ {a} : b \in late' <=> b \in late
    BY <2>1
  <2> QED BY <1>0, <2>1, <2>2, <2>3, <2>4, AddOrModKeeps
<1> QED BY <1>1, <1>2

-----------------------------------------------------------------------------
(* Closing.                                                                *)

LEMMA HandleCloseKeeps ==
  ASSUME IInv, NEW a \in Addr, HandleClose(a)
  PROVE  IInv'
<1> USE DEF IInv
<1>0. /\ chan \in [Addr -> {"free", "up", "closed", "gone"}]
      /\ chan' \in [Addr -> {"free", "up", "closed", "gone"}]
      /\ chan[a] = "up" /\ chan'[a] = "closed"
      /\ \A b \in Addr \ {a} : chan'[b] = chan[b]
      /\ registered' = registered \ {a}
      /\ registered \in SUBSET {b \in Addr : chan[b] # "free"}
      /\ watched \subseteq Addr /\ deleting \subseteq watched /\ armed \subseteq watched
      /\ orphan \subseteq watched /\ orphan' = orphan \cap watched'
      /\ ready \subseteq Addr /\ pc = "dispatch"
      /\ lost' = lost \ {a} /\ UNCHANGED <<kernel, cq, ready, pc, late>> /\ Del(a)
      /\ UNCHANGED <<armed, id, gen, next_id>>
  BY DEF TypeOK, HandleClose, Del
<1>1. /\ sq' \in Seq(Requests) /\ Elements(sq) \subseteq Elements(sq')
      /\ \A r \in Elements(sq') : \/ r \in Elements(sq)
                                  \/ a \in watched /\ r.id = id[a] /\ r.gen <= gen[a]
  <2>1. CASE a \in watched
    <3>1. sq' = SubmitPollRemove(a)
      BY <1>0, <2>1 DEF Del
    <3> QED BY <2>1, <3>1, RemoveTypes
  <2>2. CASE a \notin watched
    BY <1>0, <2>2 DEF Del, TypeOK
  <2> QED BY <2>1, <2>2
<1>2. /\ watched' \subseteq watched /\ watched \ {a} \subseteq watched'
      /\ deleting' \subseteq watched' /\ deleting \ {a} \subseteq deleting'
      /\ deleting' \subseteq deleting \cup {a} /\ armed \subseteq watched'
      /\ a \notin watched' \ deleting'
  BY <1>0 DEF Del, Cleanup
<1>3. TypeOK'
  BY <1>0, <1>1, <1>2 DEF TypeOK
<1>4. IdsAreTrue'
  <2>1. \A r \in Elements(sq') \cup kernel \cup Elements(cq) : r.id < next_id
    BY <1>1 DEF IdsAreTrue
  <2> QED BY <1>0, <1>2, <2>1 DEF IdsAreTrue
<1>5. GensAreTrue'
  <2>1. \A b \in watched : a \in watched /\ id[b] = id[a] => b = a
    BY DEF IdsAreTrue
  <2> QED BY <1>0, <1>1, <1>2, <2>1 DEF GensAreTrue
<1>6. RemovalsAreOld'
  <2> SUFFICES ASSUME NEW b \in watched' \ (deleting' \cup orphan')
               PROVE  /\ \A r \in Elements(sq') : r.op = "remove" /\ r.id = id[b] => r.gen < gen[b]
                      /\ \A c \in Elements(cq) :
                           (c.kind = "remove" \/ c.ok = FALSE) /\ c.id = id[b] => c.gen < gen[b]
    BY <1>0 DEF RemovalsAreOld
  <2>1. b # a /\ b \in watched \ (deleting \cup orphan)
    BY <1>0, <1>2
  <2>2. a \in watched => id[b] # id[a]
    BY <2>1 DEF IdsAreTrue
  <2> QED BY <1>1, <2>1, <2>2 DEF RemovalsAreOld
<1>7. WatchersAreOpen' /\ DeletingIsLost'
  BY <1>0, <1>2 DEF WatchersAreOpen, DeletingIsLost
<1>8. ReadyIsDispatched' /\ DispatchedIsAlive'
  BY <1>0 DEF ReadyIsDispatched, DispatchedIsAlive
<1>9. RegisteredIsPolled'
  <2> SUFFICES ASSUME NEW b \in registered' \ (lost' \cup orphan')
               PROVE  /\ b \in watched' \ deleting' /\ b \in armed'
                      /\ gen'[b] < GenMod => Polled(b)'
    BY DEF RegisteredIsPolled
  <2>0. b # a /\ b \notin orphan
    BY <1>0, <1>2
  <2>1. b \in watched \ deleting /\ b \in armed /\ (gen[b] < GenMod => Polled(b))
    BY <1>0, <2>0 DEF RegisteredIsPolled
  <2>2. Polled(b) => Polled(b)'
    BY <1>0, <1>1, <1>3, <2>1, PolledKeeps
  <2> QED BY <1>0, <1>2, <2>0, <2>1, <2>2
<1> QED BY <1>3, <1>4, <1>5, <1>6, <1>7, <1>8, <1>9

-----------------------------------------------------------------------------
(* The turn of the loop.                                                   *)

\* Steps that touch no watcher, request or completion.
LEMMA QuietKeeps ==
  ASSUME IInv, UNCHANGED <<watchVars, sq, kernel, cq, late>>,
         chan' \in [Addr -> {"free", "up", "closed", "gone"}],
         \A a \in Addr : chan[a] = "up" => chan'[a] = "up",
         registered' \in SUBSET {a \in registered : chan'[a] # "free"},
         lost' \subseteq lost, lost \cap registered' \subseteq lost',
         orphan \subseteq orphan', orphan' \subseteq watched,
         ready' \subseteq Addr, pc' \in {"dispatch", "tasks", "submit", "wait"},
         ReadyIsDispatched', DispatchedIsAlive'
  PROVE  IInv'
<1> USE DEF IInv
<1>1. UNCHANGED <<watched, deleting, armed, id, gen, next_id, sq, kernel, cq, late>>
  BY DEF watchVars
<1>2. TypeOK'
  BY <1>1 DEF TypeOK
<1>3. IdsAreTrue' /\ GensAreTrue'
  BY <1>1 DEF IdsAreTrue, GensAreTrue
<1>4. RemovalsAreOld'
  BY <1>1 DEF RemovalsAreOld
<1>5. WatchersAreOpen' /\ DeletingIsLost'
  BY <1>1 DEF WatchersAreOpen, DeletingIsLost, TypeOK
<1>6. RegisteredIsPolled'
  <2> SUFFICES ASSUME NEW a \in registered' \ (lost' \cup orphan')
               PROVE  a \in watched \ deleting /\ a \in armed /\ (gen[a] < GenMod => Polled(a)')
    BY <1>1 DEF RegisteredIsPolled
  <2>1. a \in registered \ (lost \cup orphan)
    OBVIOUS
  <2>2. a \in watched \ deleting /\ a \in armed /\ (gen[a] < GenMod => Polled(a))
    BY <2>1 DEF RegisteredIsPolled
  <2>3. Polled(a) => Polled(a)'
    BY <1>1 DEF Polled, PollOf, Holds
  <2> QED BY <2>2, <2>3
<1> QED BY <1>2, <1>3, <1>4, <1>5, <1>6

\* The connection leaves its table and is freed, on whatever thread.
LEMMA LeavingKeeps ==
  ASSUME IInv, NEW a \in Addr, Leave(a) \/ Destroy(a)
  PROVE  IInv'
<1> USE DEF IInv
<1>0. /\ chan \in [Addr -> {"free", "up", "closed", "gone"}] /\ ready \subseteq Addr
      /\ registered \in SUBSET {b \in Addr : chan[b] # "free"} /\ orphan \subseteq watched
      /\ pc \in {"dispatch", "tasks", "submit", "wait"}
  BY DEF TypeOK
<1>1. CASE Leave(a)
  <2>1. /\ UNCHANGED <<ready, pc>> /\ ready = {} /\ chan[a] = "closed"
        /\ chan' = [chan EXCEPT ![a] = "gone"] /\ UNCHANGED <<registered, lost, orphan>>
        /\ UNCHANGED <<watchVars, sq, kernel, cq, late>>
    BY <1>1 DEF Leave, ReadyIsDispatched
  <2>2. /\ chan' \in [Addr -> {"free", "up", "closed", "gone"}]
        /\ \A b \in Addr : /\ chan[b] = "up" => chan'[b] = "up"
                           /\ chan[b] # "free" => chan'[b] # "free"
    BY <1>0, <2>1
  <2>3. ReadyIsDispatched' /\ DispatchedIsAlive'
    BY <2>1 DEF ReadyIsDispatched, DispatchedIsAlive
  <2> QED BY <1>0, <2>1, <2>2, <2>3, QuietKeeps
<1>2. CASE Destroy(a)
  <2>1. /\ chan[a] = "gone" /\ chan' = [chan EXCEPT ![a] = "free"]
        /\ registered' = registered \ {a} /\ lost' = lost \ {a}
        /\ orphan' = orphan \cup ({a} \cap watched)
        /\ UNCHANGED <<ready, pc>> /\ UNCHANGED <<watchVars, sq, kernel, cq, late>>
    BY <1>2 DEF Destroy
  <2>2. /\ chan' \in [Addr -> {"free", "up", "closed", "gone"}]
        /\ \A b \in Addr : chan[b] = "up" => chan'[b] = "up"
        /\ \A b \in Addr \ {a} : chan'[b] = chan[b]
    BY <1>0, <2>1
  <2>3. DispatchedIsAlive'
    BY <1>0, <2>1, <2>2 DEF DispatchedIsAlive
  <2>4. ReadyIsDispatched'
    BY <2>1 DEF ReadyIsDispatched
  <2>5. registered' \in SUBSET {b \in registered : chan'[b] # "free"}
    BY <1>0, <2>1, <2>2
  <2> QED BY <1>0, <2>1, <2>2, <2>3, <2>4, <2>5, QuietKeeps
<1> QED BY <1>1, <1>2

LEMMA TurnKeeps ==
  ASSUME IInv,
         \/ \E a \in Addr : Dispatch(a)
         \/ BatchDone \/ BeginPoll \/ EndPoll \/ UNCHANGED vars
  PROVE  IInv'
<1> USE DEF IInv
<1>0. /\ chan \in [Addr -> {"free", "up", "closed", "gone"}] /\ ready \subseteq Addr
      /\ registered \in SUBSET {a \in registered : chan[a] # "free"} /\ orphan \subseteq watched
      /\ pc \in {"dispatch", "tasks", "submit", "wait"}
  BY DEF TypeOK
<1>1. UNCHANGED <<chan, registered, late, watchVars, sq, kernel, cq, lost, orphan>>
  BY DEF Dispatch, BatchDone, BeginPoll, EndPoll, vars, chanVars, watchVars
<1>2. ready' \subseteq ready /\ pc' \in {"dispatch", "tasks", "submit", "wait"}
  BY <1>0 DEF Dispatch, BatchDone, BeginPoll, EndPoll, vars
<1>3. ReadyIsDispatched'
  BY <1>2 DEF Dispatch, BatchDone, BeginPoll, EndPoll, vars, ReadyIsDispatched
<1>4. DispatchedIsAlive'
  <2>1. pc' = "wait" => ready' = {} \/ pc = "wait"
    BY <1>2 DEF Dispatch, BatchDone, BeginPoll, EndPoll, vars, ReadyIsDispatched
  <2> QED BY <1>1, <1>2, <2>1 DEF DispatchedIsAlive
<1> QED BY <1>0, <1>1, <1>2, <1>3, <1>4, QuietKeeps

-----------------------------------------------------------------------------
(* The kernel.                                                             *)

\* The kernel moves requests and makes completions of them.
LEMMA KernelKeeps ==
  ASSUME IInv, KernelUnchanged, pc \in {"submit", "wait"},
         sq' \in Seq(Requests), kernel' \subseteq Requests, cq' \in Seq(Completions),
         Elements(sq') \subseteq Elements(sq), kernel' \subseteq kernel \cup Elements(sq),
         \A c \in Elements(cq') \ Elements(cq) :
           /\ \E r \in Elements(sq) \cup kernel : r.id = c.id /\ r.gen = c.gen
           /\ c.kind = "remove" \/ c.ok = FALSE
                => \/ \E r \in Elements(sq) : r.op = "remove" /\ r.id = c.id /\ r.gen = c.gen
                   \/ \A a \in watched : id[a] = c.id => a \in orphan,
         \A a \in watched \ (deleting \cup orphan) : gen[a] < GenMod /\ Polled(a) => Polled(a)'
  PROVE  IInv'
<1> USE DEF IInv
<1>1. UNCHANGED <<chan, registered, late, watched, deleting, armed, id, gen, next_id,
                  ready, pc, lost, orphan>>
  BY DEF KernelUnchanged, chanVars, watchVars
<1>2. TypeOK'
  BY <1>1 DEF TypeOK
<1>3. IdsAreTrue'
  BY <1>1 DEF IdsAreTrue
<1>4. GensAreTrue'
  <2> SUFFICES ASSUME NEW a \in watched, NEW x \in Elements(sq') \cup kernel' \cup Elements(cq'),
                      x.id = id[a]
               PROVE  x.gen <= gen[a]
    BY <1>1 DEF GensAreTrue
  <2>1. CASE x \in Elements(sq) \cup kernel \cup Elements(cq)
    BY <2>1 DEF GensAreTrue
  <2>2. CASE x \in Elements(cq') \ Elements(cq)
    <3>1. PICK r \in Elements(sq) \cup kernel : r.id = x.id /\ r.gen = x.gen
      BY <2>2
    <3>2. r.gen <= gen[a]
      BY <3>1 DEF GensAreTrue
    <3> QED BY <3>1, <3>2
  <2> QED BY <2>1, <2>2
<1>5. RemovalsAreOld'
  <2> SUFFICES ASSUME NEW a \in watched \ (deleting \cup orphan)
               PROVE  /\ \A r \in Elements(sq') : r.op = "remove" /\ r.id = id[a] => r.gen < gen[a]
                      /\ \A c \in Elements(cq') :
                           (c.kind = "remove" \/ c.ok = FALSE) /\ c.id = id[a] => c.gen < gen[a]
    BY <1>1 DEF RemovalsAreOld
  <2> QED BY DEF RemovalsAreOld
<1>6. WatchersAreOpen' /\ DeletingIsLost' /\ ReadyIsDispatched' /\ DispatchedIsAlive'
  BY <1>1 DEF WatchersAreOpen, DeletingIsLost, ReadyIsDispatched, DispatchedIsAlive
<1>7. RegisteredIsPolled'
  BY <1>1 DEF RegisteredIsPolled
<1> QED BY <1>2, <1>3, <1>4, <1>5, <1>6, <1>7

LEMMA TakesKeeps ==
  ASSUME IInv, KernelTakes
  PROVE  IInv'
<1> USE DEF IInv
<1>0. /\ sq \in Seq(Requests) /\ cq \in Seq(Completions) /\ kernel \subseteq Requests
      /\ sq # << >> /\ sq' = Tail(sq) /\ pc = "submit" /\ KernelUnchanged
  BY DEF TypeOK, KernelTakes
<1>1. PICK r \in Requests : r = Head(sq)
  BY <1>0, HeadFacts
<1>2. /\ sq' \in Seq(Requests) /\ Elements(sq) = Elements(sq') \cup {r}
  BY <1>0, <1>1, HeadFacts
<1>3. UNCHANGED <<watched, deleting, id, gen>>
  BY <1>0 DEF KernelUnchanged, watchVars
<1>4. \A a \in watched \ deleting : PollOf(a)' = PollOf(a)
  BY <1>3 DEF PollOf
<1>5. CASE r.op = "poll"
  <2>0. r.id \in Nat /\ r.gen \in Nat
    BY DEF Requests
  <2>1. PICK x \in Completions :
          /\ x = Completion("poll", r.id, r.gen, FALSE) /\ x.id = r.id /\ x.gen = r.gen
    <3>1. Completion("poll", r.id, r.gen, FALSE) \in Completions
      BY <2>0 DEF Completion, Completions
    <3> QED BY <3>1 DEF Completion
  <2>2. \/ kernel' = kernel \cup {r} /\ cq' = cq
        \/ MayBeClosed(r) /\ cq' = Append(cq, x) /\ kernel' = kernel
    BY <1>1, <1>5, <2>1 DEF KernelTakes
  <2>3. /\ cq' \in Seq(Completions) /\ Elements(cq) \subseteq Elements(cq')
        /\ \A c \in Elements(cq') \ Elements(cq) : c = x /\ MayBeClosed(r)
    <3>1. CASE cq' = cq
      BY <1>0, <3>1
    <3>2. CASE MayBeClosed(r) /\ cq' = Append(cq, x)
      <4>1. cq' \in Seq(Completions) /\ Elements(cq') = Elements(cq) \cup {x}
        BY <1>0, <3>2, AppendFacts
      <4> QED BY <3>2, <4>1
    <3> QED BY <2>2, <3>1, <3>2
  <2>4. ASSUME NEW a \in watched \ (deleting \cup orphan), Polled(a) PROVE Polled(a)'
    <3>0. a \in Addr
      BY DEF TypeOK
    <3>1. MayBeClosed(r) => PollOf(a) # r
      <4>1. PollOf(a).id = id[a]
        BY <3>0, RequestFacts DEF PollOf, TypeOK
      <4> QED BY <4>1 DEF MayBeClosed
    <3>2. \/ PollOf(a) \in Elements(sq') \cup kernel'
          \/ Completion("poll", id[a], gen[a], TRUE) \in Elements(cq')
      BY <1>2, <2>2, <2>3, <2>4, <3>0, <3>1, PolledIs
    <3>3. \/ Holds(sq', PollOf(a)) \/ PollOf(a) \in kernel'
          \/ Holds(cq', Completion("poll", id[a], gen[a], TRUE))
      BY <1>2, <2>3, <3>2, HoldsIsElement
    <3> QED BY <1>3, <1>4, <3>3 DEF Polled, Holds
  <2>5. /\ kernel' \subseteq Requests /\ kernel' \subseteq kernel \cup Elements(sq)
        /\ Elements(sq') \subseteq Elements(sq)
    BY <1>0, <1>2, <2>2
  <2>6. \A c \in Elements(cq') \ Elements(cq) :
          /\ \E t \in Elements(sq) \cup kernel : t.id = c.id /\ t.gen = c.gen
          /\ \A a \in watched : id[a] = c.id => a \in orphan
    BY <1>2, <2>1, <2>3 DEF MayBeClosed
  <2> QED BY <1>0, <1>2, <2>3, <2>4, <2>5, <2>6, KernelKeeps
<1>6. CASE r.op # "poll"
  <2> DEFINE target == [r EXCEPT !.op = "poll"]
  <2>1. /\ r.op = "remove" /\ target \in Requests /\ target.id = r.id /\ target.gen = r.gen
        /\ r.id \in Nat /\ r.gen \in Nat
    BY <1>6 DEF Requests
  <2>2. PICK x \in Completions, y \in Completions :
          /\ x = Completion("poll", r.id, r.gen, FALSE)
          /\ y = Completion("remove", r.id, r.gen, target \in kernel)
          /\ x.id = r.id /\ x.gen = r.gen /\ y.id = r.id /\ y.gen = r.gen
    <3>1. Completion("poll", r.id, r.gen, FALSE) \in Completions
      BY <2>1 DEF Completion, Completions
    <3>2. Completion("remove", r.id, r.gen, target \in kernel) \in Completions
      <4>1. (target \in kernel) \in BOOLEAN
        OBVIOUS
      <4> QED BY <2>1, <4>1, Zenon DEF Completion, Completions
    <3> QED BY <3>1, <3>2 DEF Completion
  <2>3. /\ kernel' = kernel \ {target}
        /\ IF target \in kernel
           THEN cq' = cq \o <<x, y>> \/ cq' = cq \o <<y, x>>
           ELSE cq' = Append(cq, y)
    BY <1>1, <1>6, <2>2 DEF KernelTakes
  <2>4. /\ cq' \in Seq(Completions)
        /\ Elements(cq) \subseteq Elements(cq')
        /\ Elements(cq') \subseteq Elements(cq) \cup {x, y}
    <3>1. cq \o <<x, y>> = Append(Append(cq, x), y)
      BY <1>0
    <3>2. cq \o <<y, x>> = Append(Append(cq, y), x)
      BY <1>0
    <3>3. PICK s \in Seq(Completions) : s = Append(cq, x) /\ Elements(s) = Elements(cq) \cup {x}
      BY <1>0, AppendFacts
    <3>5. PICK t \in Seq(Completions) : t = Append(cq, y) /\ Elements(t) = Elements(cq) \cup {y}
      <4>1. /\ Append(cq, y) \in Seq(Completions)
            /\ Elements(Append(cq, y)) = Elements(cq) \cup {y}
        BY <1>0, AppendFacts
      <4> QED BY <4>1
    <3>4. /\ Append(s, y) \in Seq(Completions) /\ Append(t, x) \in Seq(Completions)
          /\ Elements(Append(s, y)) = Elements(s) \cup {y}
          /\ Elements(Append(t, x)) = Elements(t) \cup {x}
      BY AppendFacts
    <3> QED BY <2>3, <3>1, <3>2, <3>3, <3>4, <3>5
  <2>5. ASSUME NEW a \in watched \ (deleting \cup orphan), gen[a] < GenMod, Polled(a) PROVE Polled(a)'
    <3>0. a \in Addr /\ id[a] \in Nat /\ gen[a] \in Nat
      BY DEF TypeOK
    <3>1. PollOf(a).op = "poll" /\ PollOf(a).id = id[a] /\ PollOf(a).gen = gen[a]
      BY <2>5, <3>0, RequestFacts DEF PollOf
    <3>2. PollOf(a) # r
      BY <2>1, <3>1
    <3>3. PollOf(a) # target
      <4>1. r.id = id[a] => r.gen < gen[a]
        BY <1>2, <2>1 DEF RemovalsAreOld
      <4>2. ASSUME PollOf(a) = target PROVE FALSE
        <5>1. r.id = id[a]
          BY <2>1, <3>1, <4>2
        <5>2. r.gen = gen[a]
          BY <2>1, <3>1, <4>2
        <5> QED BY <3>0, <4>1, <5>1, <5>2
      <4> QED BY <4>2
    <3>4. \/ PollOf(a) \in Elements(sq') \cup kernel'
          \/ Completion("poll", id[a], gen[a], TRUE) \in Elements(cq')
      BY <1>2, <2>3, <2>4, <2>5, <3>0, <3>2, <3>3, PolledIs
    <3>5. \/ Holds(sq', PollOf(a)) \/ PollOf(a) \in kernel'
          \/ Holds(cq', Completion("poll", id[a], gen[a], TRUE))
      BY <1>2, <2>4, <3>4, HoldsIsElement
    <3> QED BY <1>3, <1>4, <3>5 DEF Polled, Holds
  <2>6. \A c \in Elements(cq') \ Elements(cq) :
          /\ \E t \in Elements(sq) \cup kernel : t.id = c.id /\ t.gen = c.gen
          /\ \E t \in Elements(sq) : t.op = "remove" /\ t.id = c.id /\ t.gen = c.gen
    BY <1>2, <2>1, <2>2, <2>4
  <2>7. kernel' \subseteq Requests /\ kernel' \subseteq kernel \cup Elements(sq)
        /\ Elements(sq') \subseteq Elements(sq)
    BY <1>0, <1>2, <2>3
  <2> QED BY <1>0, <1>2, <2>4, <2>5, <2>6, <2>7, KernelKeeps
<1> QED BY <1>5, <1>6

LEMMA CompletesKeeps ==
  ASSUME IInv, NEW r \in kernel, Completes(r)
  PROVE  IInv'
<1> USE DEF IInv
<1>0. /\ sq \in Seq(Requests) /\ cq \in Seq(Completions) /\ kernel \subseteq Requests
      /\ sq' = sq /\ kernel' = kernel \ {r} /\ pc \in {"submit", "wait"} /\ KernelUnchanged
  BY DEF TypeOK, Completes
<1>1. r \in Requests /\ r.id \in Nat /\ r.gen \in Nat
  BY <1>0 DEF Requests
<1>2. PICK x \in Completions :
        /\ x = Completion("poll", r.id, r.gen, TRUE)
        /\ x.id = r.id /\ x.gen = r.gen /\ x.kind = "poll" /\ x.ok = TRUE
  <2>1. Completion("poll", r.id, r.gen, TRUE) \in Completions
    BY <1>1 DEF Completion, Completions
  <2> QED BY <2>1 DEF Completion
<1>3. cq' = Append(cq, x)
  BY <1>2 DEF Completes
<1>4. cq' \in Seq(Completions) /\ Elements(cq') = Elements(cq) \cup {x}
  BY <1>0, <1>3, AppendFacts
<1>5. UNCHANGED <<watched, deleting, id, gen>>
  BY <1>0 DEF KernelUnchanged, watchVars
<1>6. ASSUME NEW a \in watched \ (deleting \cup orphan), gen[a] < GenMod, Polled(a) PROVE Polled(a)'
  <2>0. a \in Addr /\ id[a] \in Nat /\ gen[a] \in Nat
    BY DEF TypeOK
  <2>1. PollOf(a).id = id[a] /\ PollOf(a).gen = gen[a] /\ PollOf(a)' = PollOf(a)
    BY <1>5, <1>6, <2>0, RequestFacts DEF PollOf
  <2>2. PollOf(a) = r => x = Completion("poll", id[a], gen[a], TRUE)
    BY <1>2, <2>1
  <2>3. \/ PollOf(a) \in Elements(sq') \cup kernel'
        \/ Completion("poll", id[a], gen[a], TRUE) \in Elements(cq')
    BY <1>0, <1>4, <1>6, <2>0, <2>2, PolledIs
  <2>4. \/ Holds(sq', PollOf(a)) \/ PollOf(a) \in kernel'
        \/ Holds(cq', Completion("poll", id[a], gen[a], TRUE))
    BY <1>0, <1>4, <2>3, HoldsIsElement
  <2> QED BY <1>5, <2>1, <2>4 DEF Polled, Holds
<1>7. \A c \in Elements(cq') \ Elements(cq) :
        /\ \E t \in Elements(sq) \cup kernel : t.id = c.id /\ t.gen = c.gen
        /\ ~(c.kind = "remove" \/ c.ok = FALSE)
  BY <1>2, <1>4
<1> QED BY <1>0, <1>4, <1>6, <1>7, KernelKeeps

-----------------------------------------------------------------------------
(* Completions.                                                            *)

\* The completion c goes; its watcher may leave, if it is deleting, or be
\* disarmed, if its descriptor may be closed.
LEMMA CompletionGoes ==
  ASSUME IInv, NEW c \in Completions, pc = "wait",
         cq' \in Seq(Completions), Elements(cq) = Elements(cq') \cup {c},
         UNCHANGED <<chan, registered, late, id, gen, next_id, sq, kernel, ready, pc, lost>>,
         watched' \subseteq watched, orphan' = orphan \cap watched',
         deleting' \subseteq deleting, deleting' \subseteq watched', armed' \subseteq watched',
         watched \ deleting \subseteq watched', watched' \ deleting' \subseteq watched \ deleting,
         \A a \in watched \ (deleting \cup orphan) :
           /\ a \in armed => a \in armed'
           /\ c # Completion("poll", id[a], gen[a], TRUE)
  PROVE  IInv'
<1> USE DEF IInv
<1>1. TypeOK'
  BY DEF TypeOK
<1>2. IdsAreTrue' /\ GensAreTrue'
  BY DEF IdsAreTrue, GensAreTrue
<1>3. RemovalsAreOld'
  <2>1. watched' \ (deleting' \cup orphan') \subseteq watched \ (deleting \cup orphan)
    OBVIOUS
  <2> QED BY <2>1 DEF RemovalsAreOld
<1>4. WatchersAreOpen' /\ DeletingIsLost'
  BY DEF WatchersAreOpen, DeletingIsLost
<1>5. ReadyIsDispatched' /\ DispatchedIsAlive'
  BY DEF ReadyIsDispatched, DispatchedIsAlive
<1>6. RegisteredIsPolled'
  <2> SUFFICES ASSUME NEW a \in registered \ (lost \cup orphan')
               PROVE  /\ a \in watched' \ deleting' /\ a \in armed'
                      /\ gen[a] < GenMod => Polled(a)'
    BY DEF RegisteredIsPolled
  <2>0. a \in Addr /\ orphan \subseteq watched
    BY DEF TypeOK
  <2>1. a \notin orphan
    <3>1. ASSUME a \in orphan PROVE FALSE
      <4>1. a \in deleting
        BY <2>0, <3>1
      <4> QED BY <4>1 DEF DeletingIsLost
    <3> QED BY <3>1
  <2>2. a \in watched \ (deleting \cup orphan) /\ a \in armed /\ (gen[a] < GenMod => Polled(a))
    BY <2>1 DEF RegisteredIsPolled
  <2>3. Polled(a) => Polled(a)'
    BY <1>1, <2>0, <2>2, PolledKeeps
  <2> QED BY <2>2, <2>3
<1> QED BY <1>1, <1>2, <1>3, <1>4, <1>5, <1>6

LEMMA ProcessKeeps ==
  ASSUME IInv, ProcessCqe
  PROVE  IInv'
<1> USE DEF IInv
<1>0. /\ cq \in Seq(Completions) /\ cq # << >> /\ cq' = Tail(cq) /\ pc = "wait"
      /\ UNCHANGED <<chan, registered, late, kernel, pc>> /\ orphan' = orphan \cap watched'
      /\ watched \subseteq Addr /\ deleting \subseteq watched /\ armed \subseteq watched
      /\ orphan \subseteq watched
  BY DEF TypeOK, ProcessCqe, chanVars
<1>1. PICK c \in Completions : c = Head(cq)
  BY <1>0, HeadFacts
<1>2. cq' \in Seq(Completions) /\ Elements(cq) = Elements(cq') \cup {c}
  BY <1>0, <1>1, HeadFacts
<1>3. \A a \in Addr : c = Completion("poll", id[a], gen[a], TRUE)
                        => c.kind = "poll" /\ c.id = id[a] /\ c.gen = gen[a] /\ c.ok = TRUE
  BY DEF Completion
<1>4. CASE {a \in watched : id[a] = c.id} = {}
  <2>1. UNCHANGED <<watched, deleting, armed, id, gen, next_id, sq, ready, lost>>
    BY <1>1, <1>4 DEF ProcessCqe, watchVars
  <2>2. \A a \in watched \ deleting : c # Completion("poll", id[a], gen[a], TRUE)
    BY <1>0, <1>3, <1>4
  <2> QED BY <1>0, <1>2, <2>1, <2>2, CompletionGoes
<1>5. ASSUME NEW a \in watched, id[a] = c.id, c.kind = "poll", HandlePollCqe(a, c)
      PROVE  IInv'
  <2>0. a \in Addr /\ \A b \in watched \ {a} : id[b] # c.id
    BY <1>0, <1>5 DEF IdsAreTrue
  <2>1. CASE c.gen # gen[a]
    <3>1. UNCHANGED <<watched, deleting, armed, id, gen, next_id, sq, ready, lost>>
      BY <1>5, <2>1 DEF HandlePollCqe, watchVars
    <3>2. \A b \in watched \ deleting : c # Completion("poll", id[b], gen[b], TRUE)
      BY <1>0, <1>3, <2>0, <2>1
    <3> QED BY <1>0, <1>2, <3>1, <3>2, CompletionGoes
  <2>2. CASE c.gen = gen[a] /\ a \in deleting
    <3>1. /\ armed' = armed \ {a} /\ watched' = watched \ {a} /\ deleting' = deleting \ {a}
          /\ UNCHANGED <<id, gen, next_id, sq, ready, lost>>
      BY <1>5, <2>2 DEF HandlePollCqe, Cleanup
    <3>2. \A b \in watched \ deleting : c # Completion("poll", id[b], gen[b], TRUE)
      BY <1>0, <1>3, <2>0, <2>2
    <3> QED BY <1>0, <1>2, <2>2, <3>1, <3>2, CompletionGoes
  <2>4. CASE c.gen = gen[a] /\ a \notin deleting /\ c.ok = FALSE
    <3>1. /\ armed' = armed \ {a}
          /\ UNCHANGED <<watched, deleting, id, gen, next_id, sq, ready, lost>>
      BY <1>5, <2>4 DEF HandlePollCqe
    <3>2. gen[a] \in Nat
      BY <2>0 DEF TypeOK
    <3>3. a \in orphan
      BY <1>2, <1>5, <2>4, <3>2 DEF RemovalsAreOld
    <3>4. \A b \in watched : c # Completion("poll", id[b], gen[b], TRUE)
      BY <1>0, <1>3, <2>4
    <3> QED BY <1>0, <1>2, <3>1, <3>3, <3>4, CompletionGoes
  <2>3. CASE c.gen = gen[a] /\ a \notin deleting /\ c.ok = TRUE
    <3>2. /\ ready' = ready \cup {a} /\ SubmitPollAdd(a, sq)
          /\ UNCHANGED <<watched, deleting, id, next_id, lost>>
      BY <1>5, <2>3 DEF HandlePollCqe
    <3>3. PICK r \in Requests :
            /\ r = Request("poll", id[a], gen[a] + 1) /\ r.op = "poll" /\ r.id = id[a]
            /\ r.gen <= gen[a] + 1 /\ Elements(sq') = Elements(sq) \cup {r}
      BY <2>0, <3>2, AddFacts DEF TypeOK
    <3>4. /\ gen' \in [Addr -> Nat] /\ gen'[a] = gen[a] + 1 /\ gen[a] \in Nat
          /\ \A b \in Addr \ {a} : gen'[b] = gen[b]
          /\ armed' = armed \cup {a} /\ sq' \in Seq(Requests)
      BY <2>0, <3>2, AddFacts DEF TypeOK
    <3>5. TypeOK'
      BY <1>0, <1>2, <2>0, <3>2, <3>4 DEF TypeOK
    <3>6. IdsAreTrue'
      BY <1>0, <1>2, <3>2, <3>3 DEF IdsAreTrue
    <3>n. /\ \A x \in Elements(sq') \cup kernel \cup Elements(cq) : x.gen \in Nat
          /\ \A b \in watched : gen[b] \in Nat /\ (gen'[b] = gen[b] \/ gen'[b] = gen[b] + 1)
      <4>1. /\ \A x \in Elements(sq') : x.gen \in Nat
            /\ \A x \in kernel \cup Elements(cq) : x.gen \in Nat
        BY <3>4, RequestNumbers, NumberFacts
      <4> QED BY <1>0, <3>4, <4>1 DEF TypeOK
    <3>d. GensAreTrue'
      <4> SUFFICES ASSUME NEW b \in watched, NEW x \in Elements(sq') \cup kernel \cup Elements(cq'),
                          x.id = id[b]
                   PROVE  x.gen <= gen'[b]
        BY <1>0, <3>2 DEF GensAreTrue
      <4>1. CASE x \in Elements(sq) \cup kernel \cup Elements(cq)
        <5>1. x.gen <= gen[b] /\ x.gen \in Nat
          BY <1>2, <3>n, <4>1 DEF GensAreTrue
        <5> QED BY <3>n, <5>1
      <4>2. CASE x \notin Elements(sq) \cup kernel \cup Elements(cq)
        <5>1. x = r
          BY <1>2, <3>3, <4>2
        <5>2. b = a
          BY <1>5, <2>0, <3>3, <5>1
        <5> QED BY <3>3, <3>4, <5>1, <5>2
      <4> QED BY <4>1, <4>2
    <3>7. RemovalsAreOld'
      <4> SUFFICES ASSUME NEW b \in watched \ (deleting \cup orphan)
                   PROVE  /\ \A x \in Elements(sq') : x.op = "remove" /\ x.id = id[b] => x.gen < gen'[b]
                          /\ \A x \in Elements(cq') :
                               (x.kind = "remove" \/ x.ok = FALSE) /\ x.id = id[b] => x.gen < gen'[b]
        BY <1>0, <3>2 DEF RemovalsAreOld
      <4>1. gen[b] \in Nat /\ (gen'[b] = gen[b] \/ gen'[b] = gen[b] + 1)
        BY <3>n
      <4>2. \A x \in Elements(sq) \cup Elements(cq) : x.gen \in Nat
        BY NumberFacts
      <4>4. \A x \in Elements(sq) : x.op = "remove" /\ x.id = id[b] => x.gen < gen'[b]
        BY <4>1, <4>2 DEF RemovalsAreOld
      <4>5. \A x \in Elements(cq) :
              (x.kind = "remove" \/ x.ok = FALSE) /\ x.id = id[b] => x.gen < gen'[b]
        BY <4>1, <4>2 DEF RemovalsAreOld
      <4> QED BY <1>2, <3>3, <4>4, <4>5
    <3>8. WatchersAreOpen' /\ DeletingIsLost' /\ ReadyIsDispatched' /\ DispatchedIsAlive'
      BY <1>0, <2>0, <2>3, <3>2
      DEF WatchersAreOpen, DeletingIsLost, ReadyIsDispatched, DispatchedIsAlive
    <3>9. RegisteredIsPolled'
      <4> SUFFICES ASSUME NEW b \in registered \ (lost \cup orphan)
                   PROVE  /\ b \in watched \ deleting /\ b \in armed'
                          /\ gen'[b] < GenMod => Polled(b)'
        BY <1>0, <3>2 DEF RegisteredIsPolled
      <4>0. b \in Addr
        BY DEF TypeOK
      <4>1. b \in watched \ deleting /\ b \in armed /\ (gen[b] < GenMod => Polled(b))
        BY DEF RegisteredIsPolled
      <4>2. CASE b = a
        <5>1. PollOf(a)' = r
          BY <3>2, <3>3, <3>4 DEF PollOf
        <5>2. Holds(sq, PollOf(a))'
          BY <3>3, <3>4, <5>1, HoldsIsElement
        <5> QED BY <3>4, <4>1, <4>2, <5>2 DEF Polled
      <4>3. CASE b # a
        <5>1. c # Completion("poll", id[b], gen[b], TRUE)
          BY <1>3, <2>0, <4>0, <4>1, <4>3
        <5>2. Polled(b) => Polled(b)'
          BY <1>0, <1>2, <3>2, <3>3, <3>4, <3>5, <4>0, <4>3, <5>1, PolledKeeps
        <5> QED BY <3>4, <4>0, <4>1, <4>3, <5>2
      <4> QED BY <4>2, <4>3
    <3> QED BY <3>5, <3>6, <3>7, <3>8, <3>9, <3>d
  <2>5. c.ok \in BOOLEAN
    BY Zenon DEF Completions
  <2> QED BY <2>1, <2>2, <2>3, <2>4, <2>5
<1>6. ASSUME NEW a \in watched, id[a] = c.id, c.kind # "poll", HandleRemoveCqe(a, c)
      PROVE  IInv'
  <2>0. a \in Addr /\ c.kind = "remove"
    BY <1>0, <1>6 DEF Completions
  <2>1. a \notin deleting \cup orphan => c.gen # gen[a]
    <3>1. a \notin deleting \cup orphan => c.gen < gen[a]
      BY <1>2, <1>6, <2>0 DEF RemovalsAreOld
    <3>2. gen[a] \in Nat
      BY <2>0 DEF TypeOK
    <3> QED BY <3>1, <3>2
  <2>2. /\ armed' = IF c.gen = gen[a] THEN armed \ {a} ELSE armed
        /\ IF a \in deleting /\ a \notin armed'
           THEN watched' = watched \ {a} /\ deleting' = deleting \ {a}
           ELSE UNCHANGED <<watched, deleting>>
        /\ UNCHANGED <<id, gen, next_id, sq, ready, lost>>
    BY <1>6 DEF HandleRemoveCqe, Cleanup
  <2>3. \A b \in watched \ deleting : c # Completion("poll", id[b], gen[b], TRUE)
    BY <1>0, <1>3, <2>0
  <2> QED BY <1>0, <1>2, <2>1, <2>2, <2>3, CompletionGoes
<1>7. ASSUME {a \in watched : id[a] = c.id} # {}
      PROVE  \E a \in watched : /\ id[a] = c.id
                                /\ IF c.kind = "poll" THEN HandlePollCqe(a, c)
                                   ELSE HandleRemoveCqe(a, c)
  BY <1>1, <1>7 DEF ProcessCqe
<1> QED BY <1>4, <1>5, <1>6, <1>7

-----------------------------------------------------------------------------
(* The theorems.                                                           *)

LEMMA NextIInv == IInv /\ [Next]_vars => IInv'
<1> SUFFICES ASSUME IInv, [Next]_vars PROVE IInv'
  OBVIOUS
<1> QED BY RegisterKeeps, HandleCloseKeeps, LeavingKeeps, TurnKeeps, ProcessKeeps, TakesKeeps,
           CompletesKeeps DEF Next, LoopStep

LEMMA Invariance == Spec => []IInv
BY InitIInv, NextIInv, PTL DEF Spec

\* Types, for any sets of addresses and any width of the user data.
THEOREM TypeCorrect == Spec => []TypeOK
<1>1. IInv => TypeOK
  BY DEF IInv
<1> QED BY <1>1, Invariance, PTL

\* iouring_poller.cc:127-264: through every order of registrations,
\* closes, late registrations, reuses of an address and late completions, a
\* registered channel has a live watcher whose poll is on its way, with the
\* three exceptions that the property names.
THEOREM RegisteredArePolled == Spec => []RegisteredIsPolled
<1>1. IInv => RegisteredIsPolled
  BY DEF IInv
<1> QED BY <1>1, Invariance, PTL

\* iouring_poller.cc:231, 249: whenever and on whatever thread a connection
\* is freed, no late completion reaches a Channel whose connection has left
\* the table, unless a Send registered it again after its close.
THEOREM DispatchedAreAlive == Spec => []DispatchedIsAlive
<1>1. IInv => DispatchedIsAlive
  BY DEF IInv
<1> QED BY <1>1, Invariance, PTL

=============================================================================
