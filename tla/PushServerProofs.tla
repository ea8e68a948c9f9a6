-------------------------- MODULE PushServerProofs --------------------------
(***************************************************************************)
(* For any number of clients, ids, lists and updates: the index is true,   *)
(* and what a client is written makes sense to it.                         *)
(***************************************************************************)
EXTENDS PushServer, FiniteSetTheorems, SequenceTheorems, WellFoundedInduction,
        TLAPS

-----------------------------------------------------------------------------
(* Keep.                                                                   *)

\* Induction, with the property as a set.
LEMMA SetInduction ==
  ASSUME NEW S, 0 \in S, \A n \in Nat : n \in S => n + 1 \in S
  PROVE  \A n \in Nat : n \in S
<1> SUFFICES ASSUME NEW m \in Nat, m \notin S PROVE FALSE
  OBVIOUS
<1> DEFINE R == {n \in Nat : n \notin S}
<1>1. R \subseteq Nat /\ R # {}
  OBVIOUS
<1>2. PICK n \in R : \A k \in R : ~(<<k, n>> \in OpToRel(<, Nat))
  <2> HIDE DEF R
  <2> QED BY <1>1, NatLessThanWellFounded, WFMin
<1>3. n \in Nat /\ n \notin S
  OBVIOUS
<1>4. n # 0 /\ n - 1 \in Nat
  BY <1>3
<1>5. n - 1 \in S
  <2> SUFFICES ASSUME n - 1 \in R PROVE FALSE
    BY <1>4
  <2>1. n - 1 < n
    BY <1>4
  <2> QED BY <2>1, <1>2, <1>3, <1>4 DEF OpToRel
<1> QED BY <1>3, <1>4, <1>5

\* k holds what is kept of the first 0, 1, ..., m elements of s.
Keeps(k, s, T, m) ==
  k = [n \in 0..m |-> IF n = 0 THEN << >>
                      ELSE IF s[n] \in T THEN Append(k[n - 1], s[n]) ELSE k[n - 1]]

LEMMA KeepsAt ==
  ASSUME NEW m \in Nat, NEW k, NEW s, NEW T, Keeps(k, s, T, m)
  PROVE  /\ k[0] = << >>
         /\ \A n \in 1..m : k[n] = IF s[n] \in T THEN Append(k[n - 1], s[n]) ELSE k[n - 1]
<1>1. ASSUME NEW n \in 0..m
      PROVE  k[n] = IF n = 0 THEN << >>
                    ELSE IF s[n] \in T THEN Append(k[n - 1], s[n]) ELSE k[n - 1]
  BY Zenon DEF Keeps
<1>2. 0 \in 0..m /\ \A n \in 1..m : n \in 0..m /\ n # 0
  OBVIOUS
<1> QED BY <1>1, <1>2, Zenon

LEMMA AtKeeps ==
  ASSUME NEW m \in Nat, NEW s, NEW T, NEW k, NEW e, k = [n \in 0..m |-> e[n]],
         e[0] = << >>,
         \A n \in 1..m : e[n] = IF s[n] \in T THEN Append(e[n - 1], s[n]) ELSE e[n - 1]
  PROVE  Keeps(k, s, T, m)
<1>1. ASSUME NEW n \in 0..m
      PROVE  k[n] = IF n = 0 THEN << >>
                    ELSE IF s[n] \in T THEN Append(k[n - 1], s[n]) ELSE k[n - 1]
  <2>1. CASE n = 0
    BY <2>1
  <2>2. CASE n # 0
    <3>1. n \in 1..m /\ n - 1 \in 0..m
      BY <2>2
    <3>2. k[n] = e[n] /\ k[n - 1] = e[n - 1]
      BY <3>1, Zenon
    <3>3. e[n] = IF s[n] \in T THEN Append(e[n - 1], s[n]) ELSE e[n - 1]
      BY <3>1, Zenon
    <3> QED BY <2>2, <3>2, <3>3, Zenon
  <2> QED BY <2>1, <2>2
<1>2. k = [n \in 0..m |-> k[n]]
  BY Zenon
<1> QED BY <1>1, <1>2, Zenon DEF Keeps

LEMMA KeepsExists ==
  ASSUME NEW s, NEW T
  PROVE  \A m \in Nat : \E k : Keeps(k, s, T, m)
<1> DEFINE S == {m \in Nat : \E k : Keeps(k, s, T, m)}
<1>1. 0 \in S
  <2> DEFINE k == [n \in 0..0 |-> << >>]
  <2>1. Keeps(k, s, T, 0)
    BY DEF Keeps
  <2> QED BY <2>1
<1>2. ASSUME NEW m \in Nat, m \in S PROVE m + 1 \in S
  <2>1. PICK k : Keeps(k, s, T, m)
    BY <1>2
  <2> DEFINE j == [n \in 0..(m + 1) |-> IF n <= m THEN k[n]
                     ELSE IF s[n] \in T THEN Append(k[m], s[n]) ELSE k[m]]
  <2>2. k[0] = << >> /\ \A n \in 1..m : k[n] = IF s[n] \in T THEN Append(k[n - 1], s[n]) ELSE k[n - 1]
    BY <2>1, KeepsAt
  <2>3. j[0] = << >>
    BY <2>2
  <2>4. ASSUME NEW n \in 1..(m + 1)
        PROVE  j[n] = IF s[n] \in T THEN Append(j[n - 1], s[n]) ELSE j[n - 1]
    <3>1. CASE n <= m
      BY <2>2, <3>1
    <3>2. CASE n = m + 1
      BY <3>2
    <3> QED BY <3>1, <3>2
  <2>5. Keeps(j, s, T, m + 1)
    <3>1. j = [n \in 0..(m + 1) |-> j[n]]
      BY Zenon
    <3>2. m + 1 \in Nat
      OBVIOUS
    <3> HIDE DEF j
    <3> QED BY <3>1, <3>2, <2>3, <2>4, AtKeeps
  <2> QED BY <2>5
<1> HIDE DEF S
<1>3. \A m \in Nat : m \in S
  BY <1>1, <1>2, SetInduction
<1> QED BY <1>3 DEF S

\* s and r begin with the same l elements.
Agree(s, r, l) == \A n \in 1..l : s[n] = r[n]

\* The shorter one is the beginning of the longer one.
LEMMA KeepsUnique ==
  ASSUME NEW s, NEW r, NEW T, NEW m \in Nat, NEW l \in 0..m, NEW k, NEW j,
         Keeps(k, s, T, l), Keeps(j, r, T, m), Agree(s, r, l)
  PROVE  \A n \in 0..l : k[n] = j[n]
<1> DEFINE S == {n \in Nat : n <= l => k[n] = j[n]}
<1>0. l \in Nat
  OBVIOUS
<1>1. 0 \in S
  BY <1>0, KeepsAt
<1>2. ASSUME NEW n \in Nat, n \in S PROVE n + 1 \in S
  <2> SUFFICES ASSUME n + 1 <= l PROVE k[n + 1] = j[n + 1]
    OBVIOUS
  <2>1. k[n] = j[n] /\ s[n + 1] = r[n + 1] /\ n + 1 \in 1..l /\ n + 1 \in 1..m /\ (n + 1) - 1 = n
    BY <1>2 DEF Agree
  <2>2. k[n + 1] = IF s[n + 1] \in T THEN Append(k[n], s[n + 1]) ELSE k[n]
    BY <1>0, <2>1, KeepsAt
  <2>3. j[n + 1] = IF r[n + 1] \in T THEN Append(j[n], r[n + 1]) ELSE j[n]
    BY <2>1, KeepsAt
  <2> QED BY <2>1, <2>2, <2>3
<1> HIDE DEF S
<1>3. \A n \in Nat : n \in S
  BY <1>1, <1>2, SetInduction
<1> QED BY <1>3 DEF S

LEMMA KeepIs ==
  ASSUME NEW X, NEW s \in Seq(X), NEW T, NEW k, Keeps(k, s, T, Len(s))
  PROVE  Keep(s, T) = k[Len(s)]
<1> DEFINE j == CHOOSE c : Keeps(c, s, T, Len(s))
<1>1. Keep(s, T) = j[Len(s)]
  BY DEF Keep, Keeps
<1>2. Keeps(j, s, T, Len(s))
  OBVIOUS
<1>3. Len(s) \in Nat /\ Agree(s, s, Len(s))
  BY DEF Agree
<1> HIDE DEF j
<1> QED BY <1>1, <1>2, <1>3, KeepsUnique

LEMMA KeepEmpty ==
  ASSUME NEW T PROVE Keep(<< >>, T) = << >>
<1>1. << >> \in Seq(T) /\ Len(<< >>) = 0
  OBVIOUS
<1>2. PICK k : Keeps(k, << >>, T, 0)
  BY KeepsExists
<1>3. k[0] = << >>
  BY <1>2 DEF Keeps
<1> QED BY <1>1, <1>2, <1>3, KeepIs

LEMMA KeepAppend ==
  ASSUME NEW X, NEW s \in Seq(X), NEW x \in X, NEW T
  PROVE  Keep(Append(s, x), T) = IF x \in T THEN Append(Keep(s, T), x) ELSE Keep(s, T)
<1> DEFINE l == Len(s)
<1>1. /\ Append(s, x) \in Seq(X) /\ Len(Append(s, x)) = l + 1 /\ l \in Nat
      /\ \A i \in 1..l : Append(s, x)[i] = s[i]
      /\ Append(s, x)[l + 1] = x
  BY AppendProperties, LenProperties
<1>2. PICK a \in Seq(X) : a = Append(s, x)
  BY <1>1, Zenon
<1>3. PICK k : Keeps(k, a, T, l + 1)
  <2>1. l + 1 \in Nat
    BY <1>1
  <2> HIDE DEF l
  <2> QED BY <2>1, KeepsExists, Zenon
<1>4. PICK j : Keeps(j, s, T, l)
  BY <1>1, KeepsExists
<1>5. j[l] = k[l]
  <2>1. l + 1 \in Nat /\ l \in 0..(l + 1) /\ l \in 0..l /\ Agree(s, a, l)
    BY <1>1, <1>2 DEF Agree
  <2> HIDE DEF l
  <2>3. PICK m \in Nat : m = l + 1
    BY <2>1
  <2>4. Keeps(k, a, T, m) /\ l \in 0..m
    BY <1>3, <2>1, <2>3
  <2>2. \A n \in 0..l : j[n] = k[n]
    BY <2>1, <1>4, <2>4, KeepsUnique
  <2> QED BY <2>1, <2>2
<1>6. Keep(s, T) = j[l]
  BY <1>4, KeepIs
<1>7. Keep(a, T) = k[l + 1]
  <2>1. Len(a) = l + 1
    BY <1>1, <1>2
  <2> QED BY <2>1, <1>3, KeepIs
<1>8. k[l + 1] = IF a[l + 1] \in T THEN Append(k[l], a[l + 1]) ELSE k[l]
  <2>1. l + 1 \in Nat /\ l + 1 \in 1..(l + 1) /\ (l + 1) - 1 = l
    BY <1>1
  <2> HIDE DEF l
  <2> QED BY <2>1, <1>3, KeepsAt
<1> QED BY <1>1, <1>2, <1>5, <1>6, <1>7, <1>8

\* Induction over sequences, with the property as a set.
LEMMA SequenceInduction ==
  ASSUME NEW X, NEW S, << >> \in S,
         \A s \in Seq(X), x \in X : s \in S => Append(s, x) \in S
  PROVE  \A s \in Seq(X) : s \in S
<1> DEFINE N == {m \in Nat : \A s \in Seq(X) : Len(s) = m => s \in S}
<1>1. 0 \in N
  BY EmptySeq
<1>2. ASSUME NEW m \in Nat, m \in N PROVE m + 1 \in N
  <2> SUFFICES ASSUME NEW s \in Seq(X), Len(s) = m + 1 PROVE s \in S
    OBVIOUS
  <2>1. PICK r : r = [i \in 1..m |-> s[i]]
    OBVIOUS
  <2>2. r \in Seq(X) /\ Len(r) = m /\ s[m + 1] \in X
    BY <2>1
  <2>3. s = Append(r, s[m + 1])
    BY <2>1, <2>2
  <2>4. r \in S
    BY <1>2, <2>2
  <2> QED BY <2>2, <2>3, <2>4
<1> HIDE DEF N
<1>3. \A m \in Nat : m \in N
  BY <1>1, <1>2, SetInduction
<1> QED BY <1>3 DEF N

LEMMA KeepType ==
  ASSUME NEW X, NEW T
  PROVE  \A s \in Seq(X) : Keep(s, T) \in Seq(X \cap T)
<1> DEFINE S == {s \in Seq(X) : Keep(s, T) \in Seq(X \cap T)}
<1>1. << >> \in S
  <2>1. Keep(<< >>, T) = << >>
    BY KeepEmpty
  <2> QED BY <2>1, EmptySeq
<1>2. ASSUME NEW s \in Seq(X), NEW x \in X, s \in S PROVE Append(s, x) \in S
  <2>1. Append(s, x) \in Seq(X) /\ Keep(s, T) \in Seq(X \cap T)
    BY <1>2
  <2>2. Keep(Append(s, x), T) = IF x \in T THEN Append(Keep(s, T), x) ELSE Keep(s, T)
    BY KeepAppend
  <2>3. Keep(Append(s, x), T) \in Seq(X \cap T)
    BY <2>1, <2>2
  <2> QED BY <2>1, <2>3
<1> HIDE DEF S
<1>3. \A s \in Seq(X) : s \in S
  BY <1>1, <1>2, SequenceInduction
<1> QED BY <1>3 DEF S

LEMMA KeepKeep ==
  ASSUME NEW X, NEW T, NEW U
  PROVE  \A s \in Seq(X) : Keep(Keep(s, T), U) = Keep(s, T \cap U)
<1> DEFINE S == {s \in Seq(X) : Keep(Keep(s, T), U) = Keep(s, T \cap U)}
<1>1. << >> \in S
  BY KeepEmpty
<1>2. ASSUME NEW s \in Seq(X), NEW x \in X, s \in S PROVE Append(s, x) \in S
  <2>1. Append(s, x) \in Seq(X) /\ Keep(Keep(s, T), U) = Keep(s, T \cap U)
    BY <1>2
  <2>2. PICK k \in Seq(X) : k = Keep(s, T)
    <3>1. Keep(s, T) \in Seq(X \cap T)
      BY KeepType
    <3> QED BY <3>1
  <2>3. Keep(Append(s, x), T) = IF x \in T THEN Append(k, x) ELSE k
    BY <2>2, KeepAppend
  <2>4. Keep(Append(s, x), T \cap U) = IF x \in T \cap U THEN Append(Keep(s, T \cap U), x)
                                       ELSE Keep(s, T \cap U)
    BY KeepAppend
  <2>5. Keep(Append(k, x), U) = IF x \in U THEN Append(Keep(k, U), x) ELSE Keep(k, U)
    BY KeepAppend
  <2>6. Keep(Keep(Append(s, x), T), U) = Keep(Append(s, x), T \cap U)
    BY <2>1, <2>2, <2>3, <2>4, <2>5
  <2> QED BY <2>1, <2>6
<1> HIDE DEF S
<1>3. \A s \in Seq(X) : s \in S
  BY <1>1, <1>2, SequenceInduction
<1> QED BY <1>3 DEF S

LEMMA KeepNothing ==
  ASSUME NEW X, NEW s \in Seq(X)
  PROVE  Keep(s, {}) = << >>
<1>1. Keep(s, {}) \in Seq({})
  <2>1. Keep(s, {}) \in Seq(X \cap {}) /\ X \cap {} = {}
    BY KeepType
  <2> QED BY <2>1
<1>2. PICK k \in Seq({}) : k = Keep(s, {})
  BY <1>1
<1>3. Len(k) = 0
  BY ElementOfSeq, LenProperties
<1> QED BY <1>2, <1>3, EmptySeq

-----------------------------------------------------------------------------
(* Times.                                                                  *)

LEMMA TimesType ==
  ASSUME NEW X, NEW s \in Seq(X), NEW x
  PROVE  Times(x, s) \in Nat
<1>1. Keep(s, {x}) \in Seq(X \cap {x})
  BY KeepType
<1> QED BY <1>1, LenProperties DEF Times

LEMMA TimesEmpty ==
  ASSUME NEW x PROVE Times(x, << >>) = 0
BY KeepEmpty DEF Times

LEMMA TimesAppend ==
  ASSUME NEW X, NEW s \in Seq(X), NEW x, NEW y \in X
  PROVE  Times(x, Append(s, y)) = Times(x, s) + (IF x = y THEN 1 ELSE 0)
<1>1. Keep(Append(s, y), {x}) = IF x = y THEN Append(Keep(s, {x}), y) ELSE Keep(s, {x})
  BY KeepAppend
<1>2. Keep(s, {x}) \in Seq(X \cap {x})
  BY KeepType
<1>3. CASE x = y
  <2>1. y \in X \cap {x}
    BY <1>3
  <2>2. Len(Append(Keep(s, {x}), y)) = Len(Keep(s, {x})) + 1
    BY <1>2, <2>1, AppendProperties
  <2> QED BY <1>1, <1>3, <2>2 DEF Times
<1>4. CASE x # y
  <2>1. Times(x, s) \in Nat
    BY TimesType
  <2> QED BY <1>1, <1>4, <2>1 DEF Times
<1> QED BY <1>3, <1>4

LEMMA TimesKeep ==
  ASSUME NEW X, NEW s \in Seq(X), NEW x, NEW T
  PROVE  Times(x, Keep(s, T)) = IF x \in T THEN Times(x, s) ELSE 0
<1>1. Keep(Keep(s, T), {x}) = Keep(s, T \cap {x})
  BY KeepKeep
<1>2. CASE x \in T
  <2>1. T \cap {x} = {x}
    BY <1>2
  <2> QED BY <1>1, <1>2, <2>1 DEF Times
<1>3. CASE x \notin T
  <2>1. T \cap {x} = {}
    BY <1>3
  <2>2. Keep(Keep(s, T), {x}) = << >> /\ Len(<< >>) = 0
    BY <1>1, <2>1, KeepNothing
  <2> QED BY <1>3, <2>2 DEF Times
<1> QED BY <1>2, <1>3

\* m more entries of c.
LEMMA TimesRepeat ==
  ASSUME NEW X, NEW s \in Seq(X), NEW c \in X
  PROVE  \A m \in Nat : /\ s \o [k \in 1..m |-> c] \in Seq(X)
                        /\ \A x : Times(x, s \o [k \in 1..m |-> c])
                                    = Times(x, s) + (IF x = c THEN m ELSE 0)
<1> DEFINE More(m) == s \o [k \in 1..m |-> c]
           S == {m \in Nat : /\ More(m) \in Seq(X)
                             /\ \A x : Times(x, More(m)) = Times(x, s) + (IF x = c THEN m ELSE 0)}
<1>1. 0 \in S
  <2>1. More(0) = s
    OBVIOUS
  <2>2. \A x : Times(x, s) \in Nat
    BY TimesType
  <2> QED BY <2>1, <2>2
<1>2. ASSUME NEW m \in Nat, m \in S PROVE m + 1 \in S
  <2>1. More(m) \in Seq(X) /\ \A x : Times(x, More(m)) = Times(x, s) + (IF x = c THEN m ELSE 0)
    BY <1>2
  <2>2. More(m + 1) = Append(More(m), c)
    OBVIOUS
  <2>3. More(m + 1) \in Seq(X)
    BY <2>1, <2>2
  <2>4. ASSUME NEW x PROVE Times(x, More(m + 1)) = Times(x, s) + (IF x = c THEN m + 1 ELSE 0)
    <3>1. PICK r \in Seq(X) : r = More(m)
      BY <2>1
    <3>2. Times(x, Append(r, c)) = Times(x, r) + (IF x = c THEN 1 ELSE 0)
      BY TimesAppend
    <3>3. Times(x, r) = Times(x, s) + (IF x = c THEN m ELSE 0)
      BY <2>1, <3>1
    <3>4. Times(x, s) \in Nat
      BY TimesType
    <3>5. Append(r, c) = More(m + 1)
      BY <2>2, <3>1
    <3>6. Times(x, Append(r, c)) = Times(x, s) + (IF x = c THEN m + 1 ELSE 0)
      BY <3>2, <3>3, <3>4
    <3> QED BY <3>5, <3>6, Zenon
  <2> HIDE DEF More
  <2> QED BY <2>3, <2>4
<1> HIDE DEF S
<1>3. \A m \in Nat : m \in S
  BY <1>1, <1>2, SetInduction
<1> QED BY <1>3 DEF S

\* What is in a list is in it once at least.
LEMMA TimesMember ==
  ASSUME NEW X
  PROVE  \A s \in Seq(X) : \A i \in 1..Len(s) : Times(s[i], s) >= 1
<1> DEFINE S == {s \in Seq(X) : \A i \in 1..Len(s) : Times(s[i], s) >= 1}
<1>1. << >> \in S
  OBVIOUS
<1>2. ASSUME NEW s \in Seq(X), NEW x \in X, s \in S PROVE Append(s, x) \in S
  <2>1. /\ Append(s, x) \in Seq(X) /\ Len(Append(s, x)) = Len(s) + 1 /\ Len(s) \in Nat
        /\ \A i \in 1..Len(s) : Append(s, x)[i] = s[i]
        /\ Append(s, x)[Len(s) + 1] = x
    BY AppendProperties, LenProperties
  <2>2. PICK a \in Seq(X) : a = Append(s, x)
    BY <2>1, Zenon
  <2>3. ASSUME NEW i \in 1..Len(a) PROVE Times(a[i], a) >= 1
    <3>1. /\ Times(a[i], s) \in Nat
          /\ Times(a[i], a) = Times(a[i], s) + (IF a[i] = x THEN 1 ELSE 0)
      BY <2>2, TimesAppend, TimesType
    <3>2. CASE i = Len(s) + 1
      BY <3>1, <3>2, <2>1, <2>2
    <3>3. CASE i # Len(s) + 1
      <4>1. i \in 1..Len(s) /\ a[i] = s[i]
        BY <3>3, <2>1, <2>2
      <4>2. Times(s[i], s) >= 1
        BY <4>1, <1>2
      <4> QED BY <3>1, <4>1, <4>2
    <3> QED BY <3>2, <3>3
  <2> QED BY <2>1, <2>2, <2>3
<1> HIDE DEF S
<1>3. \A s \in Seq(X) : s \in S
  BY <1>1, <1>2, SequenceInduction
<1> QED BY <1>3 DEF S

-----------------------------------------------------------------------------
(* The inductive invariant.                                                *)

ItemType == [kind : {"other", "ack", "update"}, ids : SUBSET Nat, n : Nat]
TaskType == [op : {"send", "remove"}, c : Client, item : ItemType]

LinkTypes ==
  /\ link \in [Client -> {"none", "up", "closed", "gone"}]
  /\ heard \in [Client -> Seq(ItemType)]
  /\ tasks \in [Thread -> Seq(TaskType)]
  /\ busy \in [Thread -> Client \cup {NoConn}]

WebTypes ==
  /\ session \in [Web -> {"handshaking", "open", "closing"}]
  /\ subscribed \in [Web -> SUBSET Nat]
  /\ ws_subs \in [Id -> Seq(Web)]
  /\ unacked \subseteq Web

TcpTypes ==
  /\ app \in {"stock", "traffic"}
  /\ subs \in [Id -> Seq(Tcp)]
  /\ listed \in [Tcp -> Seq(Nat)] /\ wanted \in [Tcp -> Seq(Nat)]

BaseTypes ==
  /\ next \in Id /\ made \in Nat
  /\ queue \in Seq([id : Id, n : Nat])
  /\ base \in {"idle", "batch", "publish", "send", "check"}
  /\ targets \in Seq(Web)

\* A loop is inside OnMessage only of a connection of its own that has not been
\* removed, its tasks are about its own connections, and what is removed has
\* been closed.
Loops ==
  /\ \A t \in Thread : busy[t] # NoConn => LoopOf(busy[t]) = t /\ link[busy[t]] \in {"up", "closed"}
  /\ \A t \in Thread : \A k \in 1..Len(tasks[t]) :
       /\ LoopOf(tasks[t][k].c) = t
       /\ tasks[t][k].op = "remove" => link[tasks[t][k].c] \in {"closed", "gone"}

\* The index of the TCP side, and what keeps it true: the session's list of
\* the traffic server is what the client last asked for.
TcpIndex ==
  /\ \A c \in Tcp, i \in Id :
       /\ Times(c, subs[i]) <= Times(i, wanted[c])
       /\ IsConnected(c) => Times(c, subs[i]) = Times(i, wanted[c])
       /\ link[c] = "gone" => Times(c, subs[i]) = 0
  /\ \A c \in Tcp : link[c] = "none" => wanted[c] = << >>
  /\ app = "traffic" => listed = wanted

WebIndex ==
  /\ WsIndexIsTrue
  /\ \A c \in Web : link[c] = "none" => subscribed[c] = {}

\* An acknowledgement is owed only inside OnMessage.
OwedInside ==
  \A c \in unacked : busy["ws"] = c /\ session[c] = "open"

\* The updates handed over are the last ones made, in order.
Batch ==
  /\ Len(queue) <= made
  /\ \A k \in 1..Len(queue) : queue[k].n = made - Len(queue) + k
  /\ base \in {"publish", "send"} => queue # << >>
  /\ base # "send" => targets = << >>

\* The number of the update that the base loop is at.
Now == made - Len(queue) + 1

IsSend(t, k) == tasks[t][k].op = "send"

\* What has been written, what is still queued for the loop and what the
\* base loop is at come in this order.
TasksInOrder ==
  \A t \in Thread : \A k \in 1..Len(tasks[t]) : IsSend(t, k) =>
    /\ \E x \in Id, n \in Nat : tasks[t][k].item = Update(x, n)
    /\ tasks[t][k].item.n <= Now
    /\ \A l \in 1..(k - 1) : IsSend(t, l) => tasks[t][l].item.n <= tasks[t][k].item.n

HeardInOrder ==
  \A c \in Client : \A i \in 1..Len(heard[c]) :
    /\ heard[c][i].n <= Now
    /\ \A k \in 1..Len(tasks[LoopOf(c)]) :
         IsSend(LoopOf(c), k) => heard[c][i].n <= tasks[LoopOf(c)][k].item.n
    /\ heard[c][i].kind = "update" => \A l \in 1..(i - 1) : heard[c][l].n <= heard[c][i].n

\* An update of x may be written to c: c hears nothing more, or has the
\* acknowledgement, or will have it before its loop runs another task.
Covers(down, said_to, owed, index, c, x) ==
  \/ c \in down
  \/ \E i \in 1..Len(said_to[c]) : said_to[c][i].kind = "ack" /\ x \in said_to[c][i].ids
  \/ c \in owed /\ x \in index[c]

\* What is written to these is lost.
Ended == {"closed", "gone"}
Deaf == shut \cup {c \in Client : link[c] \in Ended}

Covered(c, x) == Covers(Deaf, heard, unacked, subscribed, c, x)

ToldIndex == \A c \in Web : \A x \in subscribed[c] : Covered(c, x)
ToldTasks ==
  \A k \in 1..Len(tasks["ws"]) :
    IsSend("ws", k) => \A x \in tasks["ws"][k].item.ids : Covered(tasks["ws"][k].c, x)
ToldTargets == \A k \in 1..Len(targets) : Covered(targets[k], Head(queue).id)
ToldHeard ==
  \A c \in Web : \A j \in 1..Len(heard[c]) : heard[c][j].kind = "update" =>
    \E i \in 1..(j - 1) : heard[c][i].kind = "ack" /\ heard[c][j].ids \subseteq heard[c][i].ids

InOrder == TasksInOrder /\ HeardInOrder
Told == ToldIndex /\ ToldTasks /\ ToldTargets /\ ToldHeard

LinkInv == LinkTypes /\ Loops
TcpInv == TcpTypes /\ TcpIndex
WebInv == WebTypes /\ WebIndex
BatchInv == BaseTypes /\ Batch

IInv == LinkInv /\ TcpInv /\ WebInv /\ OwedInside /\ BatchInv /\ InOrder /\ Told

-----------------------------------------------------------------------------
(* What the steps of PushLink do to the tasks and to what is written.      *)

LEMMA ItemTypes ==
  /\ Other \in ItemType
  /\ \A x \in Id, n \in Nat : Update(x, n) \in ItemType /\ Update(x, n) # Other
                              /\ Update(x, n).n = n /\ Update(x, n).ids = {x}
                              /\ Update(x, n).kind = "update"
  /\ \A ids \in SUBSET Nat : Ack(ids) \in ItemType /\ Ack(ids) # Other
                             /\ Ack(ids).n = 0 /\ Ack(ids).ids = ids /\ Ack(ids).kind = "ack"
BY IdAssumption DEF Other, Update, Ack, Item, ItemType

LEMMA LoopFacts ==
  /\ \A c \in Client : LoopOf(c) \in Thread
  /\ \A c \in Client : LoopOf(c) = "io" <=> c \in Tcp
  /\ \A c \in Client : LoopOf(c) = "ws" <=> c \in Web
  /\ Thread = {"io", "ws"} /\ NoConn \notin Client
BY ClientAssumption DEF LoopOf, Thread, Client

\* The first task of t goes.
LEMMA TailStep ==
  ASSUME LinkTypes, NEW t \in Thread, tasks[t] # << >>,
         tasks' = [tasks EXCEPT ![t] = Tail(@)]
  PROVE  /\ tasks' \in [Thread -> Seq(TaskType)]
         /\ 1 \in 1..Len(tasks[t]) /\ Head(tasks[t]) = tasks[t][1] /\ tasks[t][1] \in TaskType
         /\ \A u \in Thread : u # t => tasks'[u] = tasks[u]
         /\ \A k \in 1..Len(tasks'[t]) :
              k + 1 \in 1..Len(tasks[t]) /\ tasks'[t][k] = tasks[t][k + 1]
<1>1. PICK s \in Seq(TaskType) : s = tasks[t]
  BY DEF LinkTypes
<1>2. /\ Head(s) \in TaskType /\ Tail(s) \in Seq(TaskType) /\ Len(Tail(s)) = Len(s) - 1
      /\ \A i \in 1..Len(Tail(s)) : Tail(s)[i] = s[i + 1]
      /\ Len(s) \in Nat \ {0} /\ Head(s) = s[1]
  <2>1. s # << >>
    BY <1>1
  <2> QED BY <2>1, HeadTailProperties, EmptySeq
<1>3. tasks'[t] = Tail(s) /\ \A u \in Thread : u # t => tasks'[u] = tasks[u]
  BY <1>1 DEF LinkTypes
<1>4. tasks' \in [Thread -> Seq(TaskType)]
  BY <1>1, <1>2 DEF LinkTypes
<1>5. PICK r \in Seq(TaskType) : r = Tail(s)
  BY <1>2
<1>6. \A k \in 1..Len(r) : k + 1 \in 1..Len(s) /\ r[k] = s[k + 1]
  BY <1>2, <1>5
<1> QED BY <1>1, <1>2, <1>3, <1>4, <1>5, <1>6

\* The tasks in s are put behind those of t.
LEMMA GrowStep ==
  ASSUME LinkTypes, NEW t \in Thread, NEW s \in Seq(TaskType),
         tasks' = [tasks EXCEPT ![t] = @ \o s]
  PROVE  /\ tasks' \in [Thread -> Seq(TaskType)]
         /\ \A u \in Thread : u # t => tasks'[u] = tasks[u]
         /\ Len(tasks[t]) \in Nat /\ Len(s) \in Nat
         /\ Len(tasks'[t]) = Len(tasks[t]) + Len(s)
         /\ \A k \in 1..Len(tasks[t]) : tasks'[t][k] = tasks[t][k]
         /\ \A k \in 1..Len(s) : tasks'[t][Len(tasks[t]) + k] = s[k]
<1>1. PICK r \in Seq(TaskType) : r = tasks[t]
  BY DEF LinkTypes
<1>2. PICK a \in Seq(TaskType) : a = r \o s
  BY ConcatProperties
<1>3. /\ Len(r) \in Nat /\ Len(s) \in Nat /\ Len(a) = Len(r) + Len(s)
      /\ \A i \in 1..(Len(r) + Len(s)) : a[i] = IF i <= Len(r) THEN r[i] ELSE s[i - Len(r)]
  BY <1>2, ConcatProperties, LenProperties
<1>4. tasks'[t] = a /\ \A u \in Thread : u # t => tasks'[u] = tasks[u]
  BY <1>1, <1>2 DEF LinkTypes
<1>5. tasks' \in [Thread -> Seq(TaskType)]
  BY <1>1, <1>2 DEF LinkTypes
<1>6. \A k \in 1..Len(r) : a[k] = r[k]
  BY <1>3
<1>7. ASSUME NEW k \in 1..Len(s) PROVE a[Len(r) + k] = s[k]
  <2>1. Len(r) + k \in 1..(Len(r) + Len(s)) /\ ~(Len(r) + k <= Len(r)) /\ (Len(r) + k) - Len(r) = k
    BY <1>3
  <2> QED BY <1>3, <2>1
<1> QED BY <1>1, <1>3, <1>4, <1>5, <1>6, <1>7

\* Sends to the members of cs, all of the loop t.
LEMMA SendsStep ==
  ASSUME LinkTypes, NEW t \in Thread, NEW cs \in Seq(Client), NEW item \in ItemType,
         QueueSends(t, cs, item)
  PROVE  /\ tasks' \in [Thread -> Seq(TaskType)]
         /\ \A u \in Thread : u # t => tasks'[u] = tasks[u]
         /\ Len(tasks[t]) \in Nat /\ Len(cs) \in Nat
         /\ Len(tasks'[t]) = Len(tasks[t]) + Len(cs)
         /\ \A k \in 1..Len(tasks[t]) : tasks'[t][k] = tasks[t][k]
         /\ \A k \in 1..Len(cs) : /\ cs[k] \in Client
                                  /\ tasks'[t][Len(tasks[t]) + k] = Task("send", cs[k], item)
<1>0. Len(cs) \in Nat /\ \A k \in 1..Len(cs) : cs[k] \in Client
  BY LenProperties, ElementOfSeq
<1>1. \A k \in 1..Len(cs) : Task("send", cs[k], item) \in TaskType
  BY <1>0 DEF Task, TaskType
<1>2. PICK s \in Seq(TaskType) : s = [k \in 1..Len(cs) |-> Task("send", cs[k], item)]
  <2>1. PICK r : r = [k \in 1..Len(cs) |-> Task("send", cs[k], item)]
    OBVIOUS
  <2>2. r \in Seq(TaskType)
    BY <2>1, <1>0, <1>1
  <2> QED BY <2>1, <2>2
<1>3. Len(s) = Len(cs)
  BY <1>0, <1>1, <1>2
<1>4. tasks' = [tasks EXCEPT ![t] = @ \o s]
  BY <1>2 DEF QueueSends
<1>5. \A k \in 1..Len(s) : s[k] = Task("send", cs[k], item)
  BY <1>2, <1>3
<1>6. /\ tasks' \in [Thread -> Seq(TaskType)]
      /\ \A u \in Thread : u # t => tasks'[u] = tasks[u]
      /\ Len(tasks[t]) \in Nat /\ Len(s) \in Nat
      /\ Len(tasks'[t]) = Len(tasks[t]) + Len(s)
      /\ \A k \in 1..Len(tasks[t]) : tasks'[t][k] = tasks[t][k]
      /\ \A k \in 1..Len(s) : tasks'[t][Len(tasks[t]) + k] = s[k]
  BY <1>4, GrowStep
<1> QED BY <1>0, <1>3, <1>5, <1>6

LEMMA OneSend ==
  ASSUME LinkTypes, NEW c \in Client, NEW item \in ItemType, QueueSend(c, item)
  PROVE  QueueSends(LoopOf(c), <<c>>, item) /\ <<c>> \in Seq(Client) /\ Len(<<c>>) = 1
<1>1. PICK t \in Thread : t = LoopOf(c)
  BY LoopFacts
<1>2. PICK s \in Seq(TaskType) : s = tasks[t]
  BY DEF LinkTypes
<1>3. Task("send", c, item) \in TaskType
  BY DEF Task, TaskType
<1>4. [i \in 1..Len(<<c>>) |-> Task("send", <<c>>[i], item)] = <<Task("send", c, item)>>
  OBVIOUS
<1>5. Append(s, Task("send", c, item)) = s \o <<Task("send", c, item)>>
  BY <1>2, <1>3
<1>6. tasks' = [tasks EXCEPT ![t] = @ \o [i \in 1..Len(<<c>>) |-> Task("send", <<c>>[i], item)]]
  <2>1. tasks' = [tasks EXCEPT ![t] = Append(s, Task("send", c, item))]
    BY <1>1, <1>2 DEF QueueSend
  <2> QED BY <2>1, <1>2, <1>4, <1>5
<1>7. <<c>> \in Seq(Client) /\ Len(<<c>>) = 1
  OBVIOUS
<1> QED BY <1>1, <1>6, <1>7 DEF QueueSend, QueueSends

\* What is written to c.
LEMMA WriteStep ==
  ASSUME LinkTypes, NEW c \in Client, NEW item \in ItemType, item # Other, Write(c, item)
  PROVE  /\ heard' \in [Client -> Seq(ItemType)]
         /\ \A d \in Client : d # c => heard'[d] = heard[d]
         /\ ~Writable(c) => heard' = heard
         /\ Writable(c) =>
              /\ Len(heard[c]) \in Nat /\ Len(heard'[c]) = Len(heard[c]) + 1
              /\ \A i \in 1..Len(heard[c]) : heard'[c][i] = heard[c][i]
              /\ heard'[c][Len(heard[c]) + 1] = item
<1>1. PICK s \in Seq(ItemType) : s = heard[c]
  BY DEF LinkTypes
<1>2. PICK a \in Seq(ItemType) : a = Append(s, item)
  BY AppendProperties
<1>3. /\ Len(s) \in Nat /\ Len(a) = Len(s) + 1 /\ a[Len(s) + 1] = item
      /\ \A i \in 1..Len(s) : a[i] = s[i]
  BY <1>2, AppendProperties, LenProperties
<1>4. CASE Writable(c)
  <2>1. heard' = [heard EXCEPT ![c] = a]
    BY <1>1, <1>2, <1>4 DEF Write
  <2>2. heard' \in [Client -> Seq(ItemType)] /\ heard'[c] = a
        /\ \A d \in Client : d # c => heard'[d] = heard[d]
    BY <2>1 DEF LinkTypes
  <2> QED BY <1>1, <1>3, <1>4, <2>2
<1>5. CASE ~Writable(c)
  BY <1>5 DEF Write, LinkTypes
<1> QED BY <1>4, <1>5

LEMMA WriteOther == \A c : Write(c, Other) => heard' = heard
BY DEF Write

-----------------------------------------------------------------------------
(* Links.                                                                  *)

LEMMA LinksFrame ==
  ASSUME LinkInv, UNCHANGED <<link, heard, tasks, busy>>
  PROVE  LinkInv'
BY DEF LinkInv, LinkTypes, Loops

LEMMA TaskClients ==
  ASSUME NEW q \in [Thread -> Seq(TaskType)]
  PROVE  \A t \in Thread : \A k \in 1..Len(q[t]) : q[t][k] \in TaskType /\ q[t][k].c \in Client
<1> TAKE t \in Thread
<1> TAKE k \in 1..Len(q[t])
<1>1. PICK s \in Seq(TaskType) : s = q[t]
  OBVIOUS
<1>2. s[k] \in TaskType
  BY <1>1, ElementOfSeq
<1> QED BY <1>1, <1>2 DEF TaskType

LEMMA ConnectLinks ==
  ASSUME LinkInv, NEW c \in Client, Connect(c)
  PROVE  LinkInv'
<1>1. LinkTypes'
  BY DEF LinkInv, LinkTypes, Connect
<1>2. \A d \in Client : link'[d] = IF d = c THEN "up" ELSE link[d]
  BY DEF LinkInv, LinkTypes, Connect
<1>3. link[c] = "none" /\ tasks' = tasks /\ busy' = busy
  BY DEF Connect
<1>4. \A t \in Thread : busy[t] # NoConn => busy[t] \in Client
  BY DEF LinkInv, LinkTypes
<1>5. \A t \in Thread : \A k \in 1..Len(tasks[t]) : tasks[t][k].c \in Client
  BY TaskClients DEF LinkInv, LinkTypes
<1>6. Loops'
  BY <1>2, <1>3, <1>4, <1>5 DEF LinkInv, Loops
<1> QED BY <1>1, <1>6 DEF LinkInv

LEMMA BeginLinks ==
  ASSUME LinkInv, NEW c \in Client, BeginMessage(c)
  PROVE  LinkInv'
<1>1. PICK t \in Thread : t = LoopOf(c)
  BY LoopFacts
<1>2. busy' = [busy EXCEPT ![t] = c] /\ UNCHANGED <<link, heard, tasks>> /\ link[c] = "up"
  BY <1>1 DEF BeginMessage, IsConnected
<1>3. LinkTypes'
  BY <1>2 DEF LinkInv, LinkTypes
<1>4. Loops'
  BY <1>1, <1>2 DEF LinkInv, LinkTypes, Loops
<1> QED BY <1>3, <1>4 DEF LinkInv

LEMMA EndLinks ==
  ASSUME LinkInv, NEW t \in Thread, busy' = [busy EXCEPT ![t] = NoConn],
         UNCHANGED <<link, heard, tasks>>
  PROVE  LinkInv'
<1>1. LinkTypes'
  BY DEF LinkInv, LinkTypes
<1>2. Loops'
  BY DEF LinkInv, LinkTypes, Loops
<1> QED BY <1>1, <1>2 DEF LinkInv

\* What HandleClose puts behind the tasks.
LEMMA CloseGrows ==
  ASSUME LinkTypes, NEW c \in Client, Close(c)
  PROVE  /\ tasks' \in [Thread -> Seq(TaskType)]
         /\ \A u \in Thread : u # LoopOf(c) => tasks'[u] = tasks[u]
         /\ LoopOf(c) \in Thread /\ Len(tasks[LoopOf(c)]) \in Nat
         /\ Len(tasks'[LoopOf(c)]) = Len(tasks[LoopOf(c)]) + 1
         /\ \A k \in 1..Len(tasks[LoopOf(c)]) : tasks'[LoopOf(c)][k] = tasks[LoopOf(c)][k]
         /\ tasks'[LoopOf(c)][Len(tasks[LoopOf(c)]) + 1] = Task("remove", c, Other)
<1>1. PICK t \in Thread : t = LoopOf(c)
  BY LoopFacts
<1>2. PICK s \in Seq(TaskType) : s = tasks[t]
  BY DEF LinkTypes
<1>3. Task("remove", c, Other) \in TaskType
  BY ItemTypes DEF Task, TaskType
<1>4. PICK r \in Seq(TaskType) : r = <<Task("remove", c, Other)>>
  <2>1. PICK x \in TaskType : x = Task("remove", c, Other)
    BY <1>3
  <2>2. <<x>> \in Seq(TaskType)
    OBVIOUS
  <2> QED BY <2>1, <2>2
<1>5. Len(r) = 1 /\ r[1] = Task("remove", c, Other)
  BY <1>4
<1>6. tasks' = [tasks EXCEPT ![t] = Append(s, Task("remove", c, Other))]
  BY <1>1, <1>2 DEF Close
<1>7. Append(s, Task("remove", c, Other)) = s \o r
  BY <1>3, <1>4
<1>8. tasks' = [tasks EXCEPT ![t] = @ \o r]
  BY <1>2, <1>6, <1>7
<1>9. /\ tasks' \in [Thread -> Seq(TaskType)]
      /\ \A u \in Thread : u # t => tasks'[u] = tasks[u]
      /\ Len(tasks[t]) \in Nat
      /\ Len(tasks'[t]) = Len(tasks[t]) + Len(r)
      /\ \A k \in 1..Len(tasks[t]) : tasks'[t][k] = tasks[t][k]
      /\ \A k \in 1..Len(r) : tasks'[t][Len(tasks[t]) + k] = r[k]
  BY <1>8, GrowStep
<1>10. 1 \in 1..Len(r)
  BY <1>5
<1> QED BY <1>1, <1>5, <1>9, <1>10

LEMMA CloseLinks ==
  ASSUME LinkInv, NEW c \in Client, HandleClose(c) \/ CloseThenRead(c)
  PROVE  LinkInv'
<1>1. PICK t \in Thread : t = LoopOf(c)
  BY LoopFacts
<1>2. /\ link' = [link EXCEPT ![c] = "closed"] /\ UNCHANGED heard /\ Close(c)
      /\ busy[t] = NoConn /\ link[c] = "up"
      /\ busy' = busy \/ busy' = [busy EXCEPT ![t] = c]
  BY <1>1 DEF HandleClose, CloseThenRead, Close, Polling, IsConnected
<1>3. /\ tasks' \in [Thread -> Seq(TaskType)]
      /\ \A u \in Thread : u # t => tasks'[u] = tasks[u]
      /\ Len(tasks[t]) \in Nat /\ Len(tasks'[t]) = Len(tasks[t]) + 1
      /\ \A k \in 1..Len(tasks[t]) : tasks'[t][k] = tasks[t][k]
      /\ tasks'[t][Len(tasks[t]) + 1] = Task("remove", c, Other)
  BY <1>1, <1>2, CloseGrows DEF LinkInv
<1>4. LinkTypes'
  BY <1>2, <1>3 DEF LinkInv, LinkTypes
<1>5. \A d \in Client : link'[d] = IF d = c THEN "closed" ELSE link[d]
  BY <1>2 DEF LinkInv, LinkTypes
<1>6. \A u \in Thread : busy[u] # NoConn => busy[u] \in Client
  BY DEF LinkInv, LinkTypes
<1>7. ASSUME NEW u \in Thread, busy'[u] # NoConn
      PROVE  LoopOf(busy'[u]) = u /\ link'[busy'[u]] \in {"up", "closed"}
  <2>1. CASE busy'[u] = c /\ u = t
    BY <2>1, <1>1, <1>5
  <2>2. CASE ~(busy'[u] = c /\ u = t)
    <3>1. busy'[u] = busy[u]
      BY <2>2, <1>2, <1>7 DEF LinkInv, LinkTypes
    <3>2. LoopOf(busy[u]) = u /\ link[busy[u]] \in {"up", "closed"}
      BY <3>1, <1>7 DEF LinkInv, Loops
    <3> QED BY <3>1, <3>2, <1>5, <1>6, <1>7
  <2> QED BY <2>1, <2>2
<1>8. \A u \in Thread : \A k \in 1..Len(tasks[u]) :
        /\ tasks[u][k].c \in Client
        /\ LoopOf(tasks[u][k].c) = u
        /\ tasks[u][k].op = "remove" => link'[tasks[u][k].c] \in {"closed", "gone"}
  <2>1. \A u \in Thread : \A k \in 1..Len(tasks[u]) : tasks[u][k].c \in Client
    BY TaskClients DEF LinkInv, LinkTypes
  <2> QED BY <2>1, <1>5 DEF LinkInv, Loops
<1>9. ASSUME NEW u \in Thread, NEW k \in 1..Len(tasks'[u])
      PROVE  /\ LoopOf(tasks'[u][k].c) = u
             /\ tasks'[u][k].op = "remove" => link'[tasks'[u][k].c] \in {"closed", "gone"}
  <2>1. CASE u # t
    BY <2>1, <1>3, <1>8
  <2>2. CASE u = t /\ k = Len(tasks[t]) + 1
    <3>1. tasks'[u][k].c = c
      BY <2>2, <1>3 DEF Task
    <3> QED BY <3>1, <2>2, <1>1, <1>5
  <2>3. CASE u = t /\ k # Len(tasks[t]) + 1
    <3>1. k \in 1..Len(tasks[t])
      BY <2>3, <1>3
    <3> QED BY <3>1, <2>3, <1>3, <1>8
  <2> QED BY <2>1, <2>2, <2>3
<1>10. Loops'
  BY <1>7, <1>9 DEF Loops
<1> QED BY <1>4, <1>10 DEF LinkInv

LEMMA SendsLinks ==
  ASSUME LinkInv, NEW t \in Thread, NEW cs \in Seq(Client), NEW item \in ItemType,
         \A k \in 1..Len(cs) : LoopOf(cs[k]) = t,
         QueueSends(t, cs, item), UNCHANGED <<link, busy>>
  PROVE  LinkInv'
<1>1. /\ tasks' \in [Thread -> Seq(TaskType)]
      /\ \A u \in Thread : u # t => tasks'[u] = tasks[u]
      /\ Len(tasks[t]) \in Nat /\ Len(cs) \in Nat
      /\ Len(tasks'[t]) = Len(tasks[t]) + Len(cs)
      /\ \A k \in 1..Len(tasks[t]) : tasks'[t][k] = tasks[t][k]
      /\ \A k \in 1..Len(cs) : /\ cs[k] \in Client
                               /\ tasks'[t][Len(tasks[t]) + k] = Task("send", cs[k], item)
  BY SendsStep DEF LinkInv
<1>2. UNCHANGED heard
  BY DEF QueueSends
<1>3. LinkTypes'
  BY <1>1, <1>2 DEF LinkInv, LinkTypes
<1>4. ASSUME NEW u \in Thread, NEW k \in 1..Len(tasks'[u])
      PROVE  /\ LoopOf(tasks'[u][k].c) = u
             /\ tasks'[u][k].op = "remove" => link[tasks'[u][k].c] \in {"closed", "gone"}
  <2>1. CASE u # t
    BY <2>1, <1>1 DEF LinkInv, Loops
  <2>2. CASE u = t /\ k > Len(tasks[t])
    <3>1. k - Len(tasks[t]) \in 1..Len(cs) /\ k = Len(tasks[t]) + (k - Len(tasks[t]))
      BY <2>2, <1>1
    <3>2. tasks'[t][k] = Task("send", cs[k - Len(tasks[t])], item)
      BY <3>1, <1>1
    <3> QED BY <3>1, <3>2, <2>2 DEF Task
  <2>3. CASE u = t /\ ~(k > Len(tasks[t]))
    <3>1. k \in 1..Len(tasks[t])
      BY <2>3, <1>1
    <3> QED BY <3>1, <2>3, <1>1 DEF LinkInv, Loops
  <2> QED BY <2>1, <2>2, <2>3
<1>5. Loops'
  BY <1>4 DEF LinkInv, Loops
<1> QED BY <1>3, <1>5 DEF LinkInv

\* The first task of t is one of its own.
LEMMA FirstTask ==
  ASSUME LinkInv, NEW t \in Thread, tasks[t] # << >>
  PROVE  /\ Head(tasks[t]) = tasks[t][1] /\ Head(tasks[t]) \in TaskType
         /\ 1 \in 1..Len(tasks[t])
         /\ Head(tasks[t]).c \in Client /\ Head(tasks[t]).item \in ItemType
         /\ LoopOf(Head(tasks[t]).c) = t
<1>1. PICK s \in Seq(TaskType) : s = tasks[t]
  BY DEF LinkInv, LinkTypes
<1>2. Head(s) \in TaskType /\ Head(s) = s[1] /\ 1 \in 1..Len(s)
  <2>1. s # << >>
    BY <1>1
  <2> QED BY <2>1, HeadTailProperties, EmptySeq
<1>3. LoopOf(tasks[t][1].c) = t
  BY <1>1, <1>2 DEF LinkInv, Loops
<1> QED BY <1>1, <1>2, <1>3 DEF TaskType

\* Without its first task, for the other half of RunSend and RunRemove.
LEMMA TailLoops ==
  ASSUME LinkInv, NEW t \in Thread, tasks[t] # << >>,
         tasks' = [tasks EXCEPT ![t] = Tail(@)]
  PROVE  \A u \in Thread : \A k \in 1..Len(tasks'[u]) :
           /\ LoopOf(tasks'[u][k].c) = u /\ tasks'[u][k].c \in Client
           /\ tasks'[u][k].op = "remove" => link[tasks'[u][k].c] \in {"closed", "gone"}
<1>1. /\ tasks' \in [Thread -> Seq(TaskType)]
      /\ \A u \in Thread : u # t => tasks'[u] = tasks[u]
      /\ \A k \in 1..Len(tasks'[t]) :
           k + 1 \in 1..Len(tasks[t]) /\ tasks'[t][k] = tasks[t][k + 1]
  BY TailStep DEF LinkInv
<1>2. \A u \in Thread : \A k \in 1..Len(tasks'[u]) : tasks'[u][k].c \in Client
  BY <1>1, TaskClients
<1>3. \A u \in Thread : \A k \in 1..Len(tasks[u]) :
        /\ LoopOf(tasks[u][k].c) = u
        /\ tasks[u][k].op = "remove" => link[tasks[u][k].c] \in {"closed", "gone"}
  BY DEF LinkInv, Loops
<1>4. ASSUME NEW u \in Thread, NEW k \in 1..Len(tasks'[u])
      PROVE  /\ LoopOf(tasks'[u][k].c) = u
             /\ tasks'[u][k].op = "remove" => link[tasks'[u][k].c] \in {"closed", "gone"}
  <2>1. CASE u # t
    BY <2>1, <1>1, <1>3
  <2>2. CASE u = t
    BY <2>2, <1>1, <1>3
  <2> QED BY <2>1, <2>2
<1> QED BY <1>2, <1>4

LEMMA RunSendLinks ==
  ASSUME LinkInv, NEW t \in Thread, RunSend(t)
  PROVE  LinkInv'
<1>1. /\ tasks[t] # << >> /\ tasks' = [tasks EXCEPT ![t] = Tail(@)]
      /\ UNCHANGED <<link, busy>> /\ Write(Head(tasks[t]).c, Head(tasks[t]).item)
  BY DEF RunSend, NextTask
<1>2. tasks' \in [Thread -> Seq(TaskType)]
  BY <1>1, TailStep DEF LinkInv
<1>3. heard' \in [Client -> Seq(ItemType)]
  <2>1. PICK c \in Client : c = Head(tasks[t]).c
    BY <1>1, FirstTask
  <2>2. PICK item \in ItemType : item = Head(tasks[t]).item
    BY <1>1, FirstTask
  <2>3. Write(c, item)
    BY <1>1, <2>1, <2>2
  <2>4. CASE item = Other
    BY <2>3, <2>4, WriteOther DEF LinkInv, LinkTypes
  <2>5. CASE item # Other
    BY <2>3, <2>5, WriteStep DEF LinkInv
  <2> QED BY <2>4, <2>5
<1>4. LinkTypes'
  BY <1>1, <1>2, <1>3 DEF LinkInv, LinkTypes
<1>5. Loops'
  BY <1>1, TailLoops DEF LinkInv, Loops
<1> QED BY <1>4, <1>5 DEF LinkInv

LEMMA RunRemoveLinks ==
  ASSUME LinkInv, NEW t \in Thread, RunRemove(t)
  PROVE  LinkInv'
<1>1. /\ tasks[t] # << >> /\ tasks' = [tasks EXCEPT ![t] = Tail(@)] /\ busy[t] = NoConn
      /\ UNCHANGED <<heard, busy>> /\ link' = [link EXCEPT ![Head(tasks[t]).c] = "gone"]
  BY DEF RunRemove, NextTask
<1>2. PICK c \in Client : c = Head(tasks[t]).c /\ LoopOf(c) = t
  BY <1>1, FirstTask
<1>3. tasks' \in [Thread -> Seq(TaskType)]
  BY <1>1, TailStep DEF LinkInv
<1>4. \A d \in Client : link'[d] = IF d = c THEN "gone" ELSE link[d]
  BY <1>1, <1>2 DEF LinkInv, LinkTypes
<1>5. LinkTypes'
  BY <1>1, <1>2, <1>3 DEF LinkInv, LinkTypes
<1>6. \A u \in Thread : busy[u] # NoConn => busy[u] \in Client
  BY DEF LinkInv, LinkTypes
<1>7. ASSUME NEW u \in Thread, busy[u] # NoConn
      PROVE  LoopOf(busy[u]) = u /\ link'[busy[u]] \in {"up", "closed"}
  <2>1. LoopOf(busy[u]) = u /\ link[busy[u]] \in {"up", "closed"}
    BY <1>7 DEF LinkInv, Loops
  <2>2. busy[u] # c
    BY <1>1, <1>2, <1>7, <2>1
  <2> QED BY <2>1, <2>2, <1>4, <1>6, <1>7
<1>8. \A u \in Thread : \A k \in 1..Len(tasks'[u]) :
        /\ LoopOf(tasks'[u][k].c) = u /\ tasks'[u][k].c \in Client
        /\ tasks'[u][k].op = "remove" => link[tasks'[u][k].c] \in {"closed", "gone"}
  BY <1>1, TailLoops
<1>9. ASSUME NEW u \in Thread, NEW k \in 1..Len(tasks'[u]), tasks'[u][k].op = "remove"
      PROVE  link'[tasks'[u][k].c] \in {"closed", "gone"}
  BY <1>4, <1>8, <1>9
<1>10. busy' = busy
  BY <1>1
<1>11. Loops'
  BY <1>7, <1>8, <1>9, <1>10 DEF Loops
<1> QED BY <1>5, <1>11 DEF LinkInv

LEMMA AckLinks ==
  ASSUME LinkInv, NEW c \in Client, NEW item \in ItemType, item # Other, Write(c, item),
         UNCHANGED <<link, tasks, busy>>
  PROVE  LinkInv'
<1>1. heard' \in [Client -> Seq(ItemType)]
  BY WriteStep DEF LinkInv
<1> QED BY <1>1 DEF LinkInv, LinkTypes, Loops

-----------------------------------------------------------------------------
(* The index of the TCP side.                                              *)

LEMMA WithoutFacts ==
  ASSUME NEW X, NEW s \in Seq(X), X \subseteq Client, NEW c \in Client
  PROVE  /\ Without(s, c) \in Seq(X)
         /\ Times(c, Without(s, c)) = 0
         /\ \A d \in Client : d # c => Times(d, Without(s, c)) = Times(d, s)
<1>1. Keep(s, Client \ {c}) \in Seq(X)
  <2>1. Keep(s, Client \ {c}) \in Seq(X \cap (Client \ {c}))
    BY KeepType
  <2> QED BY <2>1, SeqMonotonic
<1>2. \A x : Times(x, Keep(s, Client \ {c})) = IF x \in Client \ {c} THEN Times(x, s) ELSE 0
  BY TimesKeep
<1> QED BY <1>1, <1>2 DEF Without

LEMMA ConnectedFacts ==
  ASSUME NEW X, NEW s \in Seq(X), X \subseteq Client
  PROVE  /\ Connected(s) \in Seq(X)
         /\ \A c \in Client : Times(c, Connected(s)) = IF link[c] = "up" THEN Times(c, s) ELSE 0
         /\ \A k \in 1..Len(Connected(s)) :
              Connected(s)[k] \in X /\ link[Connected(s)[k]] = "up" /\ Times(Connected(s)[k], s) >= 1
<1> DEFINE T == {c \in Client : IsConnected(c)}
<1>1. Keep(s, T) \in Seq(X \cap T)
  BY KeepType
<1>2. Keep(s, T) \in Seq(X)
  BY <1>1, SeqMonotonic
<1>3. \A x : Times(x, Keep(s, T)) = IF x \in T THEN Times(x, s) ELSE 0
  BY TimesKeep
<1>4. \A c \in Client : c \in T <=> link[c] = "up"
  BY DEF IsConnected
<1>5. ASSUME NEW k \in 1..Len(Keep(s, T))
      PROVE  /\ Keep(s, T)[k] \in X /\ Keep(s, T)[k] \in T
             /\ Times(Keep(s, T)[k], s) >= 1
  <2>1. PICK a \in Seq(X \cap T) : a = Keep(s, T)
    BY <1>1
  <2>2. a[k] \in X \cap T
    BY <2>1, ElementOfSeq
  <2>3. Times(a[k], a) >= 1
    BY <2>1, TimesMember
  <2> QED BY <2>1, <2>2, <2>3, <1>3
<1>6. Connected(s) = Keep(s, T)
  BY DEF Connected
<1> HIDE DEF T
<1> QED BY <1>2, <1>3, <1>4, <1>5, <1>6

\* How often c is in a list of the index.
LEMMA IndexNumbers ==
  ASSUME TcpTypes
  PROVE  \A c, i : /\ c \in Tcp => Times(i, wanted[c]) \in Nat /\ Times(i, listed[c]) \in Nat
                   /\ i \in Id => Times(c, subs[i]) \in Nat
<1>1. ASSUME NEW i \in Id, NEW c PROVE Times(c, subs[i]) \in Nat
  <2>1. PICK s \in Seq(Tcp) : s = subs[i]
    BY DEF TcpTypes
  <2> QED BY <2>1, TimesType
<1>2. ASSUME NEW c \in Tcp, NEW i PROVE Times(i, wanted[c]) \in Nat /\ Times(i, listed[c]) \in Nat
  <2>1. PICK s \in Seq(Nat) : s = wanted[c]
    BY DEF TcpTypes
  <2>2. PICK r \in Seq(Nat) : r = listed[c]
    BY DEF TcpTypes
  <2> QED BY <2>1, <2>2, TimesType
<1> QED BY <1>1, <1>2

\* A connection comes up or is closed, or nothing happens to the index.
LEMMA TcpLinkStep ==
  ASSUME TcpInv, UNCHANGED <<app, subs, listed, wanted>>,
         \A d \in Tcp : \/ link'[d] = link[d]
                        \/ link[d] = "none" /\ link'[d] = "up"
                        \/ link[d] = "up" /\ link'[d] = "closed"
  PROVE  TcpInv'
<1>1. TcpTypes'
  BY DEF TcpInv, TcpTypes
<1>2. ASSUME NEW c \in Tcp, NEW i \in Id
      PROVE  /\ Times(c, subs[i]) <= Times(i, wanted[c])
             /\ link'[c] = "up" => Times(c, subs[i]) = Times(i, wanted[c])
             /\ link'[c] = "gone" => Times(c, subs[i]) = 0
  <2>1. /\ Times(c, subs[i]) <= Times(i, wanted[c])
        /\ link[c] = "up" => Times(c, subs[i]) = Times(i, wanted[c])
        /\ link[c] = "gone" => Times(c, subs[i]) = 0
        /\ link[c] = "none" => wanted[c] = << >>
    BY DEF TcpInv, TcpIndex, IsConnected
  <2>2. Times(c, subs[i]) \in Nat
    BY IndexNumbers DEF TcpInv
  <2>3. CASE link[c] = "none" /\ link'[c] = "up"
    <3>1. Times(i, wanted[c]) = 0
      BY <2>1, <2>3, TimesEmpty
    <3> QED BY <3>1, <2>1, <2>2, <2>3
  <2>4. CASE ~(link[c] = "none" /\ link'[c] = "up")
    BY <2>1, <2>4
  <2> QED BY <2>3, <2>4
<1>3. \A c \in Tcp : link'[c] = "none" => wanted[c] = << >>
  BY DEF TcpInv, TcpIndex
<1>4. TcpIndex'
  BY <1>2, <1>3 DEF TcpInv, TcpIndex, IsConnected
<1> QED BY <1>1, <1>4 DEF TcpInv

\* What is left of the index when c is taken out.
LEMMA TcpCleared ==
  ASSUME TcpInv, NEW c \in Tcp, NEW i \in Id
  PROVE  /\ app = "stock" =>
              /\ StockWithout(c)[i] \in Seq(Tcp)
              /\ Times(c, StockWithout(c)[i]) = 0
              /\ \A d \in Tcp : d # c => Times(d, StockWithout(c)[i]) = Times(d, subs[i])
         /\ app = "traffic" =>
              /\ TrafficWithout(c)[i] \in Seq(Tcp)
              /\ Times(c, TrafficWithout(c)[i]) = 0
              /\ \A d \in Tcp : d # c => Times(d, TrafficWithout(c)[i]) = Times(d, subs[i])
<1>1. PICK s \in Seq(Tcp) : s = subs[i]
  BY DEF TcpInv, TcpTypes
<1>2. Tcp \subseteq Client /\ c \in Client
  BY DEF Client
<1>3. /\ Without(s, c) \in Seq(Tcp) /\ Times(c, Without(s, c)) = 0
      /\ \A d \in Client : d # c => Times(d, Without(s, c)) = Times(d, s)
  BY <1>2, WithoutFacts
<1>4. StockWithout(c)[i] = Without(s, c)
  BY <1>1 DEF StockWithout
<1>5. TrafficWithout(c)[i] = IF Times(i, listed[c]) > 0 THEN Without(s, c) ELSE s
  BY <1>1 DEF TrafficWithout
<1>6. app = "traffic" /\ ~(Times(i, listed[c]) > 0) => Times(c, s) = 0
  <2> SUFFICES ASSUME app = "traffic", ~(Times(i, listed[c]) > 0) PROVE Times(c, s) = 0
    OBVIOUS
  <2>1. listed[c] = wanted[c] /\ Times(c, s) <= Times(i, wanted[c])
    BY <1>1 DEF TcpInv, TcpIndex
  <2>2. Times(c, s) \in Nat /\ Times(i, wanted[c]) \in Nat
    BY <1>1, IndexNumbers DEF TcpInv
  <2> QED BY <2>1, <2>2
<1> QED BY <1>1, <1>2, <1>3, <1>4, <1>5, <1>6

\* RemoveConnection, after the close or by CheckHeartbeats.
LEMMA TcpRemoveStep ==
  ASSUME TcpInv, NEW c \in Tcp, StockRemoveConnection(c) \/ TrafficRemoveConnection(c),
         wanted' = [wanted EXCEPT ![c] = << >>], UNCHANGED app,
         \A d \in Tcp : d # c => link'[d] = link[d]
  PROVE  TcpInv'
<1>1. \A i \in Id : /\ subs'[i] \in Seq(Tcp) /\ Times(c, subs'[i]) = 0
                    /\ \A d \in Tcp : d # c => Times(d, subs'[i]) = Times(d, subs[i])
  <2> TAKE i \in Id
  <2>1. CASE StockRemoveConnection(c)
    <3>1. app = "stock" /\ subs' = StockWithout(c)
      BY <2>1 DEF StockRemoveConnection
    <3> QED BY <3>1, TcpCleared
  <2>2. CASE TrafficRemoveConnection(c)
    <3>1. app = "traffic" /\ subs' = TrafficWithout(c)
      BY <2>2 DEF TrafficRemoveConnection
    <3> QED BY <3>1, TcpCleared
  <2> QED BY <2>1, <2>2
<1>2. subs' = [i \in Id |-> subs'[i]]
  BY DEF StockRemoveConnection, TrafficRemoveConnection, StockWithout, TrafficWithout
<1>3. subs' \in [Id -> Seq(Tcp)]
  BY <1>1, <1>2
<1>4. wanted' \in [Tcp -> Seq(Nat)] /\ wanted'[c] = << >>
      /\ \A d \in Tcp : d # c => wanted'[d] = wanted[d]
  BY EmptySeq DEF TcpInv, TcpTypes
<1>5. listed' \in [Tcp -> Seq(Nat)] /\ (app = "traffic" => listed' = wanted')
  <2>1. CASE StockRemoveConnection(c)
    BY <2>1 DEF StockRemoveConnection, TcpInv, TcpTypes
  <2>2. CASE TrafficRemoveConnection(c)
    <3>1. listed' = [listed EXCEPT ![c] = << >>] /\ listed = wanted
      BY <2>2 DEF TrafficRemoveConnection, TcpInv, TcpIndex
    <3> QED BY <3>1, <1>4
  <2> QED BY <2>1, <2>2
<1>6. TcpTypes'
  BY <1>3, <1>4, <1>5 DEF TcpInv, TcpTypes
<1>7. ASSUME NEW d \in Tcp, NEW i \in Id
      PROVE  /\ Times(d, subs'[i]) <= Times(i, wanted'[d])
             /\ link'[d] = "up" => Times(d, subs'[i]) = Times(i, wanted'[d])
             /\ link'[d] = "gone" => Times(d, subs'[i]) = 0
  <2>1. CASE d = c
    <3>1. Times(d, subs'[i]) = 0 /\ Times(i, wanted'[d]) = 0
      BY <2>1, <1>1, <1>4, TimesEmpty
    <3> QED BY <3>1
  <2>2. CASE d # c
    BY <2>2, <1>1, <1>4 DEF TcpInv, TcpIndex, IsConnected
  <2> QED BY <2>1, <2>2
<1>8. \A d \in Tcp : link'[d] = "none" => wanted'[d] = << >>
  BY <1>4 DEF TcpInv, TcpIndex
<1>9. TcpIndex'
  BY <1>5, <1>7, <1>8 DEF TcpIndex, IsConnected
<1> QED BY <1>6, <1>9 DEF TcpInv

\* What the index becomes when c has asked for list.
LEMMA TcpAdded ==
  ASSUME NEW index \in [Id -> Seq(Tcp)], NEW c \in Tcp, NEW list \in Seq(Nat), NEW i \in Id,
         Times(c, index[i]) = 0
  PROVE  /\ With(index, c, list)[i] \in Seq(Tcp)
         /\ Times(c, With(index, c, list)[i]) = Times(i, list)
         /\ \A d \in Tcp : d # c => Times(d, With(index, c, list)[i]) = Times(d, index[i])
<1>1. PICK s \in Seq(Tcp) : s = index[i]
  OBVIOUS
<1>2. PICK m \in Nat : m = Times(i, list)
  BY TimesType
<1>3. With(index, c, list)[i] = s \o [k \in 1..m |-> c]
  BY <1>1, <1>2 DEF With
<1>4. /\ s \o [k \in 1..m |-> c] \in Seq(Tcp)
      /\ \A x : Times(x, s \o [k \in 1..m |-> c]) = Times(x, s) + (IF x = c THEN m ELSE 0)
  BY TimesRepeat
<1>5. \A x : Times(x, s) \in Nat
  BY TimesType
<1>6. PICK r : r = s \o [k \in 1..m |-> c]
  OBVIOUS
<1>7. r \in Seq(Tcp) /\ \A x : Times(x, r) = Times(x, s) + (IF x = c THEN m ELSE 0)
  BY <1>4, <1>6, Zenon
<1>8. With(index, c, list)[i] = r
  BY <1>3, <1>6, Zenon
<1>9. Times(c, r) = m /\ \A d \in Tcp : d # c => Times(d, r) = Times(d, s)
  BY <1>1, <1>5, <1>7
<1> QED BY <1>1, <1>2, <1>7, <1>8, <1>9, Zenon

LEMMA TcpSubscribeStep ==
  ASSUME TcpInv, NEW c \in Tcp, NEW list \in Seq(Nat),
         StockUpdateSubscriptions(c, list) \/ TrafficUpdateSubscriptions(c, list),
         wanted' = [wanted EXCEPT ![c] = list], UNCHANGED <<app, link>>,
         link[c] \in {"up", "closed"}
  PROVE  TcpInv'
<1>1. PICK index \in [Id -> Seq(Tcp)] :
        /\ subs' = With(index, c, list)
        /\ \A i \in Id : /\ Times(c, index[i]) = 0
                         /\ \A d \in Tcp : d # c => Times(d, index[i]) = Times(d, subs[i])
  <2>1. CASE StockUpdateSubscriptions(c, list)
    <3>1. app = "stock" /\ subs' = With(StockWithout(c), c, list)
      BY <2>1 DEF StockUpdateSubscriptions
    <3>2. StockWithout(c) = [i \in Id |-> StockWithout(c)[i]]
      BY DEF StockWithout
    <3>3. StockWithout(c) \in [Id -> Seq(Tcp)]
      BY <3>1, <3>2, TcpCleared
    <3> QED BY <3>1, <3>3, TcpCleared
  <2>2. CASE TrafficUpdateSubscriptions(c, list)
    <3>1. app = "traffic" /\ subs' = With(TrafficWithout(c), c, list)
      BY <2>2 DEF TrafficUpdateSubscriptions
    <3>2. TrafficWithout(c) = [i \in Id |-> TrafficWithout(c)[i]]
      BY DEF TrafficWithout
    <3>3. TrafficWithout(c) \in [Id -> Seq(Tcp)]
      BY <3>1, <3>2, TcpCleared
    <3> QED BY <3>1, <3>3, TcpCleared
  <2> QED BY <2>1, <2>2
<1>2. \A i \in Id : /\ subs'[i] \in Seq(Tcp) /\ Times(c, subs'[i]) = Times(i, list)
                    /\ \A d \in Tcp : d # c => Times(d, subs'[i]) = Times(d, subs[i])
  BY <1>1, TcpAdded
<1>3. subs' = [i \in Id |-> subs'[i]]
  BY <1>1 DEF With
<1>4. subs' \in [Id -> Seq(Tcp)]
  BY <1>2, <1>3
<1>5. wanted' \in [Tcp -> Seq(Nat)] /\ wanted'[c] = list
      /\ \A d \in Tcp : d # c => wanted'[d] = wanted[d]
  BY DEF TcpInv, TcpTypes
<1>6. listed' \in [Tcp -> Seq(Nat)] /\ (app = "traffic" => listed' = wanted')
  <2>1. CASE StockUpdateSubscriptions(c, list)
    BY <2>1 DEF StockUpdateSubscriptions, TcpInv, TcpTypes
  <2>2. CASE TrafficUpdateSubscriptions(c, list)
    <3>1. listed' = [listed EXCEPT ![c] = list] /\ listed = wanted
      BY <2>2 DEF TrafficUpdateSubscriptions, TcpInv, TcpIndex
    <3> QED BY <3>1, <1>5
  <2> QED BY <2>1, <2>2
<1>7. TcpTypes'
  BY <1>4, <1>5, <1>6 DEF TcpInv, TcpTypes
<1>9. ASSUME NEW d \in Tcp, NEW i \in Id
      PROVE  /\ Times(d, subs'[i]) <= Times(i, wanted'[d])
             /\ link[d] = "up" => Times(d, subs'[i]) = Times(i, wanted'[d])
             /\ link[d] = "gone" => Times(d, subs'[i]) = 0
  <2>1. CASE d = c
    <3>1. Times(i, list) \in Nat
      BY TimesType
    <3> QED BY <2>1, <3>1, <1>2, <1>5
  <2>2. CASE d # c
    BY <2>2, <1>2, <1>5 DEF TcpInv, TcpIndex, IsConnected
  <2> QED BY <2>1, <2>2
<1>10. \A d \in Tcp : link[d] = "none" => wanted'[d] = << >>
  BY <1>5 DEF TcpInv, TcpIndex
<1>11. TcpIndex'
  BY <1>6, <1>9, <1>10 DEF TcpIndex, IsConnected
<1> QED BY <1>7, <1>11 DEF TcpInv

\* ForEachSubscriber drops who is not connected.
LEMMA TcpPruneStep ==
  ASSUME TcpInv, NEW x, subs' = [subs EXCEPT ![x] = Connected(@)],
         UNCHANGED <<app, link, listed, wanted>>
  PROVE  TcpInv'
<1>1. ASSUME NEW i \in Id
      PROVE  /\ subs'[i] \in Seq(Tcp)
             /\ \A d \in Tcp : Times(d, subs'[i]) = IF i = x /\ link[d] # "up" THEN 0
                                                    ELSE Times(d, subs[i])
  <2>1. PICK s \in Seq(Tcp) : s = subs[i]
    BY DEF TcpInv, TcpTypes
  <2>2. subs'[i] = IF i = x THEN Connected(s) ELSE s
    BY <2>1 DEF TcpInv, TcpTypes
  <2>3. Tcp \subseteq Client
    BY DEF Client
  <2>4. /\ Connected(s) \in Seq(Tcp)
        /\ \A c \in Client : Times(c, Connected(s)) = IF link[c] = "up" THEN Times(c, s) ELSE 0
    BY <2>3, ConnectedFacts
  <2> QED BY <2>1, <2>2, <2>3, <2>4
<1>2. subs' = [i \in Id |-> subs'[i]]
  BY DEF TcpInv, TcpTypes
<1>3. subs' \in [Id -> Seq(Tcp)]
  BY <1>1, <1>2
<1>4. TcpTypes'
  BY <1>3 DEF TcpInv, TcpTypes
<1>5. ASSUME NEW d \in Tcp, NEW i \in Id
      PROVE  /\ Times(d, subs'[i]) <= Times(i, wanted[d])
             /\ link[d] = "up" => Times(d, subs'[i]) = Times(i, wanted[d])
             /\ link[d] = "gone" => Times(d, subs'[i]) = 0
  <2>1. /\ Times(d, subs[i]) <= Times(i, wanted[d])
        /\ link[d] = "up" => Times(d, subs[i]) = Times(i, wanted[d])
        /\ link[d] = "gone" => Times(d, subs[i]) = 0
    BY DEF TcpInv, TcpIndex, IsConnected
  <2>2. Times(i, wanted[d]) \in Nat
    BY IndexNumbers DEF TcpInv
  <2>3. Times(d, subs'[i]) = IF i = x /\ link[d] # "up" THEN 0 ELSE Times(d, subs[i])
    BY <1>1
  <2>4. CASE i = x /\ link[d] # "up"
    BY <2>2, <2>3, <2>4
  <2>5. CASE ~(i = x /\ link[d] # "up")
    BY <2>1, <2>3, <2>5
  <2> QED BY <2>4, <2>5
<1>6. TcpIndex'
  BY <1>5 DEF TcpInv, TcpIndex, IsConnected
<1> QED BY <1>4, <1>6 DEF TcpInv

-----------------------------------------------------------------------------
(* The index of the web side.                                              *)

SessionTypes == session \in [Web -> {"handshaking", "open", "closing"}] /\ unacked \subseteq Web

LEMMA WebNumbers ==
  ASSUME WebTypes
  PROVE  \A c, i : i \in Id => Times(c, ws_subs[i]) \in Nat
<1> SUFFICES ASSUME NEW i \in Id, NEW c PROVE Times(c, ws_subs[i]) \in Nat
  OBVIOUS
<1>1. PICK s \in Seq(Web) : s = ws_subs[i]
  BY DEF WebTypes
<1> QED BY <1>1, TimesType

LEMMA WebLinkStep ==
  ASSUME WebInv, SessionTypes', UNCHANGED <<subscribed, ws_subs>>,
         \A d \in Web : \/ link'[d] = link[d]
                        \/ link[d] = "none" /\ link'[d] = "up"
                        \/ link[d] = "up" /\ link'[d] = "closed"
  PROVE  WebInv'
<1>1. WebTypes'
  BY DEF WebInv, WebTypes, SessionTypes
<1>2. ASSUME NEW c \in Web, NEW i \in Id
      PROVE  /\ Times(c, ws_subs[i]) <= (IF i \in subscribed[c] THEN 1 ELSE 0)
             /\ link'[c] = "up" /\ i \in subscribed[c] => Times(c, ws_subs[i]) = 1
             /\ link'[c] = "gone" => Times(c, ws_subs[i]) = 0
  <2>1. /\ Times(c, ws_subs[i]) <= (IF i \in subscribed[c] THEN 1 ELSE 0)
        /\ link[c] = "up" /\ i \in subscribed[c] => Times(c, ws_subs[i]) = 1
        /\ link[c] = "gone" => Times(c, ws_subs[i]) = 0
        /\ link[c] = "none" => subscribed[c] = {}
    BY DEF WebInv, WebIndex, WsIndexIsTrue, IsConnected
  <2> QED BY <2>1
<1>3. \A c \in Web : link'[c] = "none" => subscribed[c] = {}
  BY DEF WebInv, WebIndex
<1>4. WebIndex'
  BY <1>2, <1>3 DEF WebIndex, WsIndexIsTrue, IsConnected
<1> QED BY <1>1, <1>4 DEF WebInv

LEMMA WebCleared ==
  ASSUME WebInv, NEW c \in Web, NEW i \in Id
  PROVE  /\ Unsubscribed(c)[i] \in Seq(Web)
         /\ Times(c, Unsubscribed(c)[i]) = 0
         /\ \A d \in Web : d # c => Times(d, Unsubscribed(c)[i]) = Times(d, ws_subs[i])
<1>1. PICK s \in Seq(Web) : s = ws_subs[i]
  BY DEF WebInv, WebTypes
<1>2. Web \subseteq Client /\ c \in Client
  BY DEF Client
<1>3. /\ Without(s, c) \in Seq(Web) /\ Times(c, Without(s, c)) = 0
      /\ \A d \in Client : d # c => Times(d, Without(s, c)) = Times(d, s)
  BY <1>2, WithoutFacts
<1>4. Unsubscribed(c)[i] = IF i \in subscribed[c] THEN Without(s, c) ELSE s
  BY <1>1 DEF Unsubscribed
<1>5. i \notin subscribed[c] => Times(c, s) = 0
  <2>1. Times(c, s) <= (IF i \in subscribed[c] THEN 1 ELSE 0)
    BY <1>1 DEF WebInv, WebIndex, WsIndexIsTrue
  <2>2. Times(c, s) \in Nat
    BY TimesType
  <2> QED BY <2>1, <2>2
<1> QED BY <1>1, <1>2, <1>3, <1>4, <1>5

LEMMA WebRemoveStep ==
  ASSUME WebInv, NEW c \in Web, WsRemove(c), SessionTypes',
         \A d \in Web : d # c => link'[d] = link[d]
  PROVE  WebInv'
<1>1. /\ ws_subs' = Unsubscribed(c) /\ Unsubscribed(c) = [i \in Id |-> Unsubscribed(c)[i]]
      /\ subscribed' = [subscribed EXCEPT ![c] = {}]
  BY DEF WsRemove, Unsubscribed
<1>2. ws_subs' \in [Id -> Seq(Web)]
  BY <1>1, WebCleared
<1>3. subscribed' \in [Web -> SUBSET Nat] /\ subscribed'[c] = {}
      /\ \A d \in Web : d # c => subscribed'[d] = subscribed[d]
  BY <1>1 DEF WebInv, WebTypes
<1>4. WebTypes'
  BY <1>2, <1>3 DEF WebTypes, SessionTypes
<1>5. ASSUME NEW d \in Web, NEW i \in Id
      PROVE  /\ Times(d, ws_subs'[i]) <= (IF i \in subscribed'[d] THEN 1 ELSE 0)
             /\ link'[d] = "up" /\ i \in subscribed'[d] => Times(d, ws_subs'[i]) = 1
             /\ link'[d] = "gone" => Times(d, ws_subs'[i]) = 0
  <2>1. CASE d = c
    <3>1. Times(d, ws_subs'[i]) = 0
      BY <2>1, <1>1, WebCleared
    <3> QED BY <3>1, <2>1, <1>3
  <2>2. CASE d # c
    <3>1. Times(d, ws_subs'[i]) = Times(d, ws_subs[i])
      BY <2>2, <1>1, WebCleared
    <3> QED BY <3>1, <2>2, <1>3 DEF WebInv, WebIndex, WsIndexIsTrue, IsConnected
  <2> QED BY <2>1, <2>2
<1>6. \A d \in Web : link'[d] = "none" => subscribed'[d] = {}
  BY <1>3 DEF WebInv, WebIndex
<1>7. WebIndex'
  BY <1>5, <1>6 DEF WebIndex, WsIndexIsTrue, IsConnected
<1> QED BY <1>4, <1>7 DEF WebInv

LEMMA WebSubscribeStep ==
  ASSUME WebInv, NEW c \in Web, NEW list \in Seq(Nat), Subscribe(c, list),
         link[c] \in {"up", "closed"}
  PROVE  WebInv'
<1> DEFINE normalized == {list[i] : i \in 1..Len(list)} \ {0}
<1>1. normalized \subseteq Nat
  BY ElementOfSeq
<1>2. /\ ws_subs' = [i \in Id |-> IF i \in normalized THEN Append(Unsubscribed(c)[i], c)
                                  ELSE Unsubscribed(c)[i]]
      /\ subscribed' = [subscribed EXCEPT ![c] = normalized]
      /\ UNCHANGED <<link, session>> /\ unacked' = {c}
  BY DEF Subscribe, linkVars
<1> HIDE DEF normalized
<1>3. ASSUME NEW i \in Id
      PROVE  /\ ws_subs'[i] \in Seq(Web)
             /\ Times(c, ws_subs'[i]) = (IF i \in normalized THEN 1 ELSE 0)
             /\ \A d \in Web : d # c => Times(d, ws_subs'[i]) = Times(d, ws_subs[i])
  <2>1. PICK s \in Seq(Web) : s = Unsubscribed(c)[i]
    BY WebCleared
  <2>2. Times(c, s) = 0 /\ \A d \in Web : d # c => Times(d, s) = Times(d, ws_subs[i])
    BY <2>1, WebCleared
  <2>3. ws_subs'[i] = IF i \in normalized THEN Append(s, c) ELSE s
    BY <2>1, <1>2
  <2>4. /\ Append(s, c) \in Seq(Web)
        /\ \A x : Times(x, Append(s, c)) = Times(x, s) + (IF x = c THEN 1 ELSE 0)
    BY TimesAppend, AppendProperties
  <2>5. \A x : Times(x, s) \in Nat
    BY TimesType
  <2>6. PICK r \in Seq(Web) : r = Append(s, c)
    BY <2>4
  <2>7. Times(c, r) = 1 /\ \A d \in Web : d # c => Times(d, r) = Times(d, s)
    BY <2>2, <2>4, <2>5, <2>6
  <2> QED BY <2>2, <2>3, <2>6, <2>7
<1>4. ws_subs' \in [Id -> Seq(Web)]
  BY <1>2, <1>3
<1>5. subscribed' \in [Web -> SUBSET Nat] /\ subscribed'[c] = normalized
      /\ \A d \in Web : d # c => subscribed'[d] = subscribed[d]
  BY <1>1, <1>2 DEF WebInv, WebTypes
<1>6. WebTypes'
  BY <1>2, <1>4, <1>5 DEF WebInv, WebTypes
<1>7. ASSUME NEW d \in Web, NEW i \in Id
      PROVE  /\ Times(d, ws_subs'[i]) <= (IF i \in subscribed'[d] THEN 1 ELSE 0)
             /\ link'[d] = "up" /\ i \in subscribed'[d] => Times(d, ws_subs'[i]) = 1
             /\ link'[d] = "gone" => Times(d, ws_subs'[i]) = 0
  <2>1. CASE d = c
    BY <2>1, <1>2, <1>3, <1>5
  <2>2. CASE d # c
    BY <2>2, <1>2, <1>3, <1>5 DEF WebInv, WebIndex, WsIndexIsTrue, IsConnected
  <2> QED BY <2>1, <2>2
<1>8. \A d \in Web : link'[d] = "none" => subscribed'[d] = {}
  BY <1>2, <1>5 DEF WebInv, WebIndex
<1>9. WebIndex'
  BY <1>7, <1>8 DEF WebIndex, WsIndexIsTrue, IsConnected
<1> QED BY <1>6, <1>9 DEF WebInv

LEMMA WebCollectStep ==
  ASSUME WebInv, NEW x, Collect(x), UNCHANGED <<link, session, subscribed, unacked>>
  PROVE  WebInv'
<1>1. ASSUME NEW i \in Id
      PROVE  /\ ws_subs'[i] \in Seq(Web)
             /\ \A d \in Web : Times(d, ws_subs'[i]) = IF i = x /\ link[d] # "up" THEN 0
                                                       ELSE Times(d, ws_subs[i])
  <2>1. PICK s \in Seq(Web) : s = ws_subs[i]
    BY DEF WebInv, WebTypes
  <2>2. ws_subs'[i] = IF i = x THEN Connected(s) ELSE s
    BY <2>1 DEF WebInv, WebTypes, Collect
  <2>3. Web \subseteq Client
    BY DEF Client
  <2>4. /\ Connected(s) \in Seq(Web)
        /\ \A c \in Client : Times(c, Connected(s)) = IF link[c] = "up" THEN Times(c, s) ELSE 0
    BY <2>3, ConnectedFacts
  <2> QED BY <2>1, <2>2, <2>3, <2>4
<1>2. ws_subs' = [i \in Id |-> ws_subs'[i]]
  BY DEF WebInv, WebTypes, Collect
<1>3. ws_subs' \in [Id -> Seq(Web)]
  BY <1>1, <1>2
<1>4. WebTypes'
  BY <1>3 DEF WebInv, WebTypes
<1>5. ASSUME NEW d \in Web, NEW i \in Id
      PROVE  /\ Times(d, ws_subs'[i]) <= (IF i \in subscribed[d] THEN 1 ELSE 0)
             /\ link[d] = "up" /\ i \in subscribed[d] => Times(d, ws_subs'[i]) = 1
             /\ link[d] = "gone" => Times(d, ws_subs'[i]) = 0
  <2>1. /\ Times(d, ws_subs[i]) <= (IF i \in subscribed[d] THEN 1 ELSE 0)
        /\ link[d] = "up" /\ i \in subscribed[d] => Times(d, ws_subs[i]) = 1
        /\ link[d] = "gone" => Times(d, ws_subs[i]) = 0
    BY DEF WebInv, WebIndex, WsIndexIsTrue, IsConnected
  <2>2. Times(d, ws_subs'[i]) = IF i = x /\ link[d] # "up" THEN 0 ELSE Times(d, ws_subs[i])
    BY <1>1
  <2> QED BY <2>1, <2>2
<1>6. WebIndex'
  BY <1>5 DEF WebInv, WebIndex, WsIndexIsTrue, IsConnected
<1> QED BY <1>4, <1>6 DEF WebInv

-----------------------------------------------------------------------------
(* The updates handed to the base loop.                                    *)

UpdateType == [id : Id, n : Nat]

LEMMA Numbers ==
  NumIds \in Nat \ {0} /\ Id = 1..NumIds /\ Count \in Nat \ {0}
<1>1. NumIds \in Nat /\ Id = 1..NumIds
  BY PushAssumption, FS_CardinalityType DEF NumIds
<1>2. NumIds # 0
  <2> SUFFICES ASSUME NumIds = 0 PROVE FALSE
    OBVIOUS
  <2>1. Id = {}
    BY <1>1
  <2> QED BY <2>1, PushAssumption
<1> QED BY <1>1, <1>2, PushAssumption DEF Count, Smaller

LEMMA NowType ==
  ASSUME BatchInv
  PROVE  Now \in Nat /\ Len(queue) \in Nat /\ made \in Nat
<1>1. PICK q \in Seq(UpdateType) : q = queue
  BY DEF BatchInv, BaseTypes, UpdateType
<1> QED BY <1>1, LenProperties DEF BatchInv, BaseTypes, Batch, Now

\* The update that the base loop is at.
LEMMA HeadUpdate ==
  ASSUME BatchInv, queue # << >>
  PROVE  Head(queue).id \in Id /\ Head(queue).n = Now
<1>1. PICK q \in Seq(UpdateType) : q = queue
  BY DEF BatchInv, BaseTypes, UpdateType
<1>2. Head(q) \in UpdateType /\ Head(q) = q[1] /\ 1 \in 1..Len(q) /\ Len(q) \in Nat
  <2>1. q # << >>
    BY <1>1
  <2> QED BY <2>1, HeadTailProperties, EmptySeq
<1>3. q[1].n = made - Len(q) + 1
  BY <1>1, <1>2 DEF BatchInv, Batch
<1> QED BY <1>1, <1>2, <1>3 DEF UpdateType, Now

\* Outside a publication there is nobody to send to.
LEMMA BatchMode ==
  ASSUME BatchInv, UNCHANGED <<next, made, queue, targets>>,
         \/ base' = base
         \/ base # "send" /\ base' \in {"idle", "check"}
         \/ base # "send" /\ base' = "publish" /\ queue # << >>
  PROVE  BatchInv' /\ Now' = Now
<1>1. BaseTypes' /\ Now' = Now
  BY DEF BatchInv, BaseTypes, Now
<1>2. Batch'
  BY DEF BatchInv, Batch
<1> QED BY <1>1, <1>2 DEF BatchInv

LEMMA BatchTargets ==
  ASSUME BatchInv, UNCHANGED <<next, made, queue>>, queue # << >>,
         base' = "send", targets' \in Seq(Web)
  PROVE  BatchInv' /\ Now' = Now
<1>1. BaseTypes' /\ Now' = Now
  BY DEF BatchInv, BaseTypes, Now
<1>2. Batch'
  BY DEF BatchInv, Batch
<1> QED BY <1>1, <1>2 DEF BatchInv

LEMMA BatchEnd ==
  ASSUME BatchInv, PublishEnd
  PROVE  BatchInv' /\ Now' = Now + 1
<1>1. /\ base = "send" /\ targets = << >> /\ queue' = Tail(queue)
      /\ base' \in {"idle", "batch"} /\ UNCHANGED <<next, made, targets>>
  BY DEF PublishEnd
<1>2. PICK q \in Seq(UpdateType) : q = queue
  BY DEF BatchInv, BaseTypes, UpdateType
<1>3. /\ Tail(q) \in Seq(UpdateType) /\ Len(Tail(q)) = Len(q) - 1
      /\ \A i \in 1..Len(Tail(q)) : Tail(q)[i] = q[i + 1]
      /\ Len(q) \in Nat \ {0}
  <2>1. q # << >>
    BY <1>1, <1>2 DEF BatchInv, Batch
  <2> QED BY <2>1, HeadTailProperties, EmptySeq
<1>4. PICK r \in Seq(UpdateType) : r = Tail(q)
  BY <1>3
<1>5. BaseTypes'
  BY <1>1, <1>2, <1>4 DEF BatchInv, BaseTypes, UpdateType
<1>6. made \in Nat /\ Len(q) <= made /\ \A k \in 1..Len(q) : q[k].n = made - Len(q) + k
  BY <1>2 DEF BatchInv, BaseTypes, Batch
<1>7. Len(r) <= made /\ \A k \in 1..Len(r) : r[k].n = made - Len(r) + k
  BY <1>3, <1>4, <1>6
<1>8. Batch'
  BY <1>1, <1>2, <1>4, <1>7 DEF Batch
<1>9. Now' = Now + 1
  BY <1>1, <1>2, <1>3, <1>6 DEF Now
<1> QED BY <1>5, <1>8, <1>9 DEF BatchInv

LEMMA BatchSimulate ==
  ASSUME BatchInv, Simulate
  PROVE  BatchInv' /\ Now' = Now /\ (queue # << >> => Head(queue') = Head(queue))
<1>1. PICK s : s = [k \in 1..Count |-> [id |-> ((next + k - 2) % NumIds) + 1, n |-> made + k]]
  OBVIOUS
<1>2. /\ queue' = queue \o s /\ made' = made + Count
      /\ next' = ((next + Count - 1) % NumIds) + 1 /\ UNCHANGED <<base, targets>>
  BY <1>1 DEF Simulate, baseVars
<1>3. PICK q \in Seq(UpdateType) : q = queue
  BY DEF BatchInv, BaseTypes, UpdateType
<1>4. next \in 1..NumIds /\ made \in Nat
  BY Numbers DEF BatchInv, BaseTypes
<1>5. \A m \in Nat : (m % NumIds) + 1 \in 1..NumIds
  BY Numbers
<1>6. ASSUME NEW k \in 1..Count
      PROVE  s[k] \in UpdateType /\ s[k].n = made + k
  <2>1. next + k - 2 \in Nat /\ made + k \in Nat
    BY <1>4, Numbers
  <2>2. PICK x \in Id : x = ((next + k - 2) % NumIds) + 1
    BY <2>1, <1>5, Numbers
  <2>3. s[k] = [id |-> x, n |-> made + k]
    BY <1>1, <2>2
  <2> QED BY <2>1, <2>3 DEF UpdateType
<1>7. s \in Seq(UpdateType) /\ Len(s) = Count
  BY <1>1, <1>6, Numbers
<1>8. next' \in Id
  <2>1. next + Count - 1 \in Nat
    BY <1>4, Numbers
  <2> QED BY <2>1, <1>2, <1>5, Numbers
<1>9. /\ q \o s \in Seq(UpdateType) /\ Len(q \o s) = Len(q) + Count /\ Len(q) \in Nat
      /\ \A i \in 1..(Len(q) + Count) : (q \o s)[i] = IF i <= Len(q) THEN q[i] ELSE s[i - Len(q)]
  BY <1>7, ConcatProperties, LenProperties
<1>10. PICK r \in Seq(UpdateType) : r = q \o s
  BY <1>9
<1>11. /\ Len(r) = Len(q) + Count
       /\ \A i \in 1..Len(r) : r[i] = IF i <= Len(q) THEN q[i] ELSE s[i - Len(q)]
  BY <1>9, <1>10
<1>12. Len(q) <= made /\ \A k \in 1..Len(q) : q[k].n = made - Len(q) + k
  BY <1>3 DEF BatchInv, Batch
<1>13. PICK more \in Nat \ {0} : more = Count
  BY Numbers
<1>14. ASSUME NEW i \in 1..Len(r) PROVE r[i].n = made' - Len(r) + i
  <2>1. made' = made + more /\ Len(r) = Len(q) + more
    BY <1>2, <1>11, <1>13
  <2>2. CASE i <= Len(q)
    <3>1. i \in 1..Len(q) /\ r[i] = q[i]
      BY <2>2, <1>9, <1>11
    <3> QED BY <3>1, <2>1, <1>4, <1>9, <1>12
  <2>3. CASE ~(i <= Len(q))
    <3>1. i - Len(q) \in 1..more /\ r[i] = s[i - Len(q)]
      BY <2>1, <2>3, <1>9, <1>11
    <3>2. r[i].n = made + (i - Len(q))
      BY <3>1, <1>6, <1>13
    <3> QED BY <3>1, <3>2, <2>1, <1>4, <1>9
  <2> QED BY <2>2, <2>3
<1>15. queue' = r /\ made' \in Nat /\ Len(r) <= made' /\ Len(r) \in Nat \ {0}
  BY <1>2, <1>3, <1>4, <1>9, <1>10, <1>11, <1>12, <1>13
<1>16. BaseTypes'
  BY <1>2, <1>8, <1>15 DEF BatchInv, BaseTypes, UpdateType
<1>17. queue' # << >>
  <2>1. r # << >>
    BY <1>15
  <2> QED BY <2>1, <1>15
<1>18. Batch'
  BY <1>2, <1>14, <1>15, <1>17 DEF BatchInv, Batch
<1>19. Now' = Now
  BY <1>2, <1>3, <1>4, <1>9, <1>11, <1>13, <1>15 DEF Now
<1>20. queue # << >> => Head(queue') = Head(queue)
  <2> SUFFICES ASSUME queue # << >> PROVE Head(queue') = Head(queue)
    OBVIOUS
  <2>1. q # << >> /\ r # << >>
    BY <1>3, <1>15, <1>17
  <2>2. Head(q) = q[1] /\ Head(r) = r[1] /\ Len(q) \in Nat \ {0}
    BY <2>1, HeadTailProperties, EmptySeq
  <2>3. r[1] = q[1]
    BY <2>2, <1>11, <1>15
  <2> QED BY <2>2, <2>3, <1>3, <1>15
<1> QED BY <1>16, <1>18, <1>19, <1>20 DEF BatchInv

-----------------------------------------------------------------------------
(* The order in which updates reach a client.                              *)

\* Numbers of what is queued and of what has been written.
LEMMA ItemNumbers ==
  ASSUME LinkTypes
  PROVE  /\ \A t \in Thread : \A k \in 1..Len(tasks[t]) : tasks[t][k].item.n \in Nat
         /\ \A c \in Client : \A i \in 1..Len(heard[c]) : heard[c][i].n \in Nat
         /\ \A t \in Thread : Len(tasks[t]) \in Nat
         /\ \A c \in Client : Len(heard[c]) \in Nat
<1>1. \A t \in Thread : \A k \in 1..Len(tasks[t]) : tasks[t][k] \in TaskType
  BY TaskClients DEF LinkTypes
<1>2. \A c \in Client : \A i \in 1..Len(heard[c]) : heard[c][i] \in ItemType
  <2> TAKE c \in Client
  <2> TAKE i \in 1..Len(heard[c])
  <2>1. PICK s \in Seq(ItemType) : s = heard[c]
    BY DEF LinkTypes
  <2> QED BY <2>1, ElementOfSeq
<1>3. \A t \in Thread : Len(tasks[t]) \in Nat
  BY LenProperties DEF LinkTypes
<1>4. \A c \in Client : Len(heard[c]) \in Nat
  BY LenProperties DEF LinkTypes
<1> QED BY <1>1, <1>2, <1>3, <1>4 DEF TaskType, ItemType

\* The base loop goes on, or nothing happens to the updates.
LEMMA OrderFrame ==
  ASSUME LinkTypes, InOrder, UNCHANGED <<heard, tasks>>,
         Now \in Nat, Now' \in {Now, Now + 1}
  PROVE  InOrder'
<1>1. TasksInOrder'
  <2> SUFFICES ASSUME NEW t \in Thread, NEW k \in 1..Len(tasks[t]), tasks[t][k].op = "send"
               PROVE  /\ \E x \in Id, n \in Nat : tasks[t][k].item = Update(x, n)
                      /\ tasks[t][k].item.n <= Now'
                      /\ \A l \in 1..(k - 1) : tasks[t][l].op = "send" =>
                           tasks[t][l].item.n <= tasks[t][k].item.n
    BY DEF TasksInOrder, IsSend
  <2>1. tasks[t][k].item.n \in Nat
    BY ItemNumbers
  <2>2. /\ \E x \in Id, n \in Nat : tasks[t][k].item = Update(x, n)
        /\ tasks[t][k].item.n <= Now
        /\ \A l \in 1..(k - 1) : tasks[t][l].op = "send" =>
             tasks[t][l].item.n <= tasks[t][k].item.n
    BY DEF InOrder, TasksInOrder, IsSend
  <2>3. tasks[t][k].item.n <= Now'
    BY <2>1, <2>2
  <2> QED BY <2>2, <2>3
<1>2. HeardInOrder'
  <2> SUFFICES ASSUME NEW c \in Client, NEW i \in 1..Len(heard[c])
               PROVE  /\ heard[c][i].n <= Now'
                      /\ \A k \in 1..Len(tasks[LoopOf(c)]) : tasks[LoopOf(c)][k].op = "send" =>
                           heard[c][i].n <= tasks[LoopOf(c)][k].item.n
                      /\ heard[c][i].kind = "update" =>
                           \A l \in 1..(i - 1) : heard[c][l].n <= heard[c][i].n
    BY DEF HeardInOrder, IsSend
  <2>1. heard[c][i].n \in Nat
    BY ItemNumbers
  <2>2. /\ heard[c][i].n <= Now
        /\ \A k \in 1..Len(tasks[LoopOf(c)]) : tasks[LoopOf(c)][k].op = "send" =>
             heard[c][i].n <= tasks[LoopOf(c)][k].item.n
        /\ heard[c][i].kind = "update" =>
             \A l \in 1..(i - 1) : heard[c][l].n <= heard[c][i].n
    BY DEF InOrder, HeardInOrder, IsSend
  <2>3. heard[c][i].n <= Now'
    BY <2>1, <2>2
  <2> QED BY <2>2, <2>3
<1> QED BY <1>1, <1>2 DEF InOrder

\* New tasks at the end of one loop's are sends of the update that the base
\* loop is at, or no sends.
LEMMA OrderGrow ==
  ASSUME LinkTypes, InOrder, UNCHANGED heard, Now \in Nat, Now' = Now, NEW t \in Thread,
         \A u \in Thread : u # t => tasks'[u] = tasks[u],
         Len(tasks'[t]) \in Nat,
         \A k \in 1..Len(tasks[t]) : tasks'[t][k] = tasks[t][k],
         \A k \in 1..Len(tasks'[t]) : k > Len(tasks[t]) /\ tasks'[t][k].op = "send" =>
           \E x \in Id : tasks'[t][k].item = Update(x, Now)
  PROVE  InOrder'
<1>1. Len(tasks[t]) \in Nat
  BY ItemNumbers
<1>2. ASSUME NEW k \in 1..Len(tasks'[t]), k > Len(tasks[t]), tasks'[t][k].op = "send"
      PROVE  /\ \E x \in Id, n \in Nat : tasks'[t][k].item = Update(x, n)
             /\ tasks'[t][k].item.n = Now
  BY <1>2, ItemTypes
<1>3. ASSUME NEW k \in 1..Len(tasks'[t]), tasks'[t][k].op = "send"
      PROVE  /\ \E x \in Id, n \in Nat : tasks'[t][k].item = Update(x, n)
             /\ tasks'[t][k].item.n <= Now
             /\ \A l \in 1..(k - 1) : tasks'[t][l].op = "send" =>
                  tasks'[t][l].item.n <= tasks'[t][k].item.n
  <2>1. CASE k > Len(tasks[t])
    <3>1. ASSUME NEW l \in 1..(k - 1), tasks'[t][l].op = "send"
          PROVE  tasks'[t][l].item.n <= tasks'[t][k].item.n
      <4>1. CASE l > Len(tasks[t])
        <5>1. l \in 1..Len(tasks'[t])
          OBVIOUS
        <5>2. tasks'[t][l].item.n = Now /\ tasks'[t][k].item.n = Now
          BY <5>1, <4>1, <3>1, <2>1, <1>2, <1>3
        <5> QED BY <5>2
      <4>2. CASE ~(l > Len(tasks[t]))
        <5>1. l \in 1..Len(tasks[t])
          BY <4>2, <1>1
        <5>2. tasks'[t][l] = tasks[t][l] /\ tasks[t][l].item.n <= Now
          BY <5>1, <3>1 DEF InOrder, TasksInOrder, IsSend
        <5>3. tasks'[t][k].item.n = Now
          BY <2>1, <1>2, <1>3
        <5> QED BY <5>2, <5>3
      <4> QED BY <4>1, <4>2
    <3>2. tasks'[t][k].item.n <= Now
      BY <2>1, <1>2, <1>3
    <3> QED BY <3>1, <3>2, <2>1, <1>2, <1>3
  <2>2. CASE ~(k > Len(tasks[t]))
    <3>1. k \in 1..Len(tasks[t])
      BY <2>2, <1>1
    <3>2. tasks'[t][k] = tasks[t][k] /\ \A l \in 1..(k - 1) : tasks'[t][l] = tasks[t][l]
      BY <3>1, <1>1
    <3>3. /\ \E x \in Id, n \in Nat : tasks[t][k].item = Update(x, n)
          /\ tasks[t][k].item.n <= Now
          /\ \A l \in 1..(k - 1) : tasks[t][l].op = "send" =>
               tasks[t][l].item.n <= tasks[t][k].item.n
      BY <3>1, <3>2, <1>3 DEF InOrder, TasksInOrder, IsSend
    <3> QED BY <3>2, <3>3
  <2> QED BY <2>1, <2>2
<1>4. TasksInOrder'
  <2> SUFFICES ASSUME NEW u \in Thread, NEW k \in 1..Len(tasks'[u]), tasks'[u][k].op = "send"
               PROVE  /\ \E x \in Id, n \in Nat : tasks'[u][k].item = Update(x, n)
                      /\ tasks'[u][k].item.n <= Now'
                      /\ \A l \in 1..(k - 1) : tasks'[u][l].op = "send" =>
                           tasks'[u][l].item.n <= tasks'[u][k].item.n
    BY DEF TasksInOrder, IsSend
  <2>1. CASE u = t
    BY <2>1, <1>3
  <2>2. CASE u # t
    <3>1. tasks'[u] = tasks[u]
      BY <2>2
    <3>2. /\ \E x \in Id, n \in Nat : tasks[u][k].item = Update(x, n)
          /\ tasks[u][k].item.n <= Now
          /\ \A l \in 1..(k - 1) : tasks[u][l].op = "send" =>
               tasks[u][l].item.n <= tasks[u][k].item.n
      BY <3>1 DEF InOrder, TasksInOrder, IsSend
    <3> QED BY <3>1, <3>2
  <2> QED BY <2>1, <2>2
<1>5. HeardInOrder'
  <2> SUFFICES ASSUME NEW c \in Client, NEW i \in 1..Len(heard[c])
               PROVE  /\ heard[c][i].n <= Now'
                      /\ \A k \in 1..Len(tasks'[LoopOf(c)]) : tasks'[LoopOf(c)][k].op = "send" =>
                           heard[c][i].n <= tasks'[LoopOf(c)][k].item.n
                      /\ heard[c][i].kind = "update" =>
                           \A l \in 1..(i - 1) : heard[c][l].n <= heard[c][i].n
    BY DEF HeardInOrder, IsSend
  <2>1. PICK u \in Thread : u = LoopOf(c)
    BY LoopFacts
  <2>2. /\ heard[c][i].n <= Now
        /\ \A k \in 1..Len(tasks[u]) : tasks[u][k].op = "send" =>
             heard[c][i].n <= tasks[u][k].item.n
        /\ heard[c][i].kind = "update" =>
             \A l \in 1..(i - 1) : heard[c][l].n <= heard[c][i].n
    BY <2>1 DEF InOrder, HeardInOrder, IsSend
  <2>3. ASSUME NEW k \in 1..Len(tasks'[u]), tasks'[u][k].op = "send"
        PROVE  heard[c][i].n <= tasks'[u][k].item.n
    <3>1. CASE u = t /\ k > Len(tasks[t])
      <4>1. tasks'[u][k].item.n = Now
        BY <3>1, <2>3, <1>2
      <4> QED BY <4>1, <2>2
    <3>2. CASE ~(u = t /\ k > Len(tasks[t]))
      <4>1. k \in 1..Len(tasks[u]) /\ tasks'[u][k] = tasks[u][k]
        BY <3>2, <1>1
      <4> QED BY <4>1, <2>2, <2>3
    <3> QED BY <3>1, <3>2
  <2> QED BY <2>1, <2>2, <2>3
<1> QED BY <1>4, <1>5 DEF InOrder

\* What the first task of t writes to c, if it does.
OrderTailHyp(t, c, item) ==
  \/ heard' = heard
  \/ /\ tasks[t][1].op = "send" /\ tasks[t][1].item = item /\ LoopOf(c) = t
     /\ \A d \in Client : d # c => heard'[d] = heard[d]
     /\ Len(heard'[c]) = Len(heard[c]) + 1
     /\ \A i \in 1..Len(heard[c]) : heard'[c][i] = heard[c][i]
     /\ heard'[c][Len(heard[c]) + 1] = item

LEMMA OrderTail ==
  ASSUME LinkTypes, InOrder, Now \in Nat, Now' = Now, NEW t \in Thread, tasks[t] # << >>,
         tasks' = [tasks EXCEPT ![t] = Tail(@)],
         NEW c \in Client, NEW item \in ItemType, OrderTailHyp(t, c, item)
  PROVE  InOrder'
<1>1. /\ 1 \in 1..Len(tasks[t])
      /\ \A u \in Thread : u # t => tasks'[u] = tasks[u]
      /\ \A k \in 1..Len(tasks'[t]) :
           k + 1 \in 1..Len(tasks[t]) /\ tasks'[t][k] = tasks[t][k + 1]
  BY TailStep
<1>2. \A u \in Thread : \A k \in 1..Len(tasks'[u]) : \E l \in 1..Len(tasks[u]) :
        tasks'[u][k] = tasks[u][l] /\ (u = t => l = k + 1)
  BY <1>1
<1>3. TasksInOrder'
  <2> SUFFICES ASSUME NEW u \in Thread, NEW k \in 1..Len(tasks'[u]), tasks'[u][k].op = "send"
               PROVE  /\ \E x \in Id, n \in Nat : tasks'[u][k].item = Update(x, n)
                      /\ tasks'[u][k].item.n <= Now'
                      /\ \A l \in 1..(k - 1) : tasks'[u][l].op = "send" =>
                           tasks'[u][l].item.n <= tasks'[u][k].item.n
    BY DEF TasksInOrder, IsSend
  <2>1. CASE u = t
    <3>1. k + 1 \in 1..Len(tasks[t]) /\ tasks'[t][k] = tasks[t][k + 1]
      BY <2>1, <1>1
    <3>2. /\ \E x \in Id, n \in Nat : tasks[t][k + 1].item = Update(x, n)
          /\ tasks[t][k + 1].item.n <= Now
          /\ \A l \in 1..((k + 1) - 1) : tasks[t][l].op = "send" =>
               tasks[t][l].item.n <= tasks[t][k + 1].item.n
      BY <2>1, <3>1 DEF InOrder, TasksInOrder, IsSend
    <3>3. ASSUME NEW l \in 1..(k - 1), tasks'[t][l].op = "send"
          PROVE  tasks'[t][l].item.n <= tasks'[t][k].item.n
      <4>1. l \in 1..Len(tasks'[t]) /\ l + 1 \in 1..((k + 1) - 1)
        BY <2>1
      <4>2. tasks'[t][l] = tasks[t][l + 1]
        BY <4>1, <1>1
      <4> QED BY <4>1, <4>2, <3>1, <3>2, <3>3
    <3> QED BY <2>1, <3>1, <3>2, <3>3
  <2>2. CASE u # t
    <3>1. tasks'[u] = tasks[u]
      BY <2>2, <1>1
    <3>2. /\ \E x \in Id, n \in Nat : tasks[u][k].item = Update(x, n)
          /\ tasks[u][k].item.n <= Now
          /\ \A l \in 1..(k - 1) : tasks[u][l].op = "send" =>
               tasks[u][l].item.n <= tasks[u][k].item.n
      BY <3>1 DEF InOrder, TasksInOrder, IsSend
    <3> QED BY <3>1, <3>2
  <2> QED BY <2>1, <2>2
<1>4. ASSUME NEW d \in Client, NEW i \in 1..Len(heard[d])
      PROVE  /\ heard[d][i].n <= Now
             /\ \A k \in 1..Len(tasks'[LoopOf(d)]) : tasks'[LoopOf(d)][k].op = "send" =>
                  heard[d][i].n <= tasks'[LoopOf(d)][k].item.n
             /\ heard[d][i].kind = "update" =>
                  \A l \in 1..(i - 1) : heard[d][l].n <= heard[d][i].n
  <2>1. PICK u \in Thread : u = LoopOf(d)
    BY LoopFacts
  <2>2. /\ heard[d][i].n <= Now
        /\ \A k \in 1..Len(tasks[u]) : tasks[u][k].op = "send" =>
             heard[d][i].n <= tasks[u][k].item.n
        /\ heard[d][i].kind = "update" =>
             \A l \in 1..(i - 1) : heard[d][l].n <= heard[d][i].n
    BY <2>1 DEF InOrder, HeardInOrder, IsSend
  <2>3. \A k \in 1..Len(tasks'[u]) : tasks'[u][k].op = "send" =>
          heard[d][i].n <= tasks'[u][k].item.n
    BY <2>2, <1>2
  <2> QED BY <2>1, <2>2, <2>3
<1>5. ASSUME tasks[t][1].op = "send", tasks[t][1].item = item, LoopOf(c) = t
      PROVE  /\ item.n <= Now
             /\ \A i \in 1..Len(heard[c]) : heard[c][i].n <= item.n
             /\ \A k \in 1..Len(tasks'[t]) : tasks'[t][k].op = "send" =>
                  item.n <= tasks'[t][k].item.n
  <2>1. item.n <= Now
    BY <1>1, <1>5 DEF InOrder, TasksInOrder, IsSend
  <2>2. \A i \in 1..Len(heard[c]) : heard[c][i].n <= item.n
    BY <1>1, <1>5 DEF InOrder, HeardInOrder, IsSend
  <2>3. ASSUME NEW k \in 1..Len(tasks'[t]), tasks'[t][k].op = "send"
        PROVE  item.n <= tasks'[t][k].item.n
    <3>1. k + 1 \in 1..Len(tasks[t]) /\ tasks'[t][k] = tasks[t][k + 1] /\ 1 \in 1..((k + 1) - 1)
      BY <1>1
    <3> QED BY <3>1, <2>3, <1>5 DEF InOrder, TasksInOrder, IsSend
  <2> QED BY <2>1, <2>2, <2>3
<1>6. HeardInOrder'
  <2> SUFFICES ASSUME NEW d \in Client, NEW i \in 1..Len(heard'[d])
               PROVE  /\ heard'[d][i].n <= Now
                      /\ \A k \in 1..Len(tasks'[LoopOf(d)]) : tasks'[LoopOf(d)][k].op = "send" =>
                           heard'[d][i].n <= tasks'[LoopOf(d)][k].item.n
                      /\ heard'[d][i].kind = "update" =>
                           \A l \in 1..(i - 1) : heard'[d][l].n <= heard'[d][i].n
    BY DEF HeardInOrder, IsSend
  <2>1. CASE heard' = heard
    BY <2>1, <1>4
  <2>2. CASE heard' # heard
    <3>1. /\ tasks[t][1].op = "send" /\ tasks[t][1].item = item /\ LoopOf(c) = t
          /\ \A e \in Client : e # c => heard'[e] = heard[e]
          /\ Len(heard'[c]) = Len(heard[c]) + 1
          /\ \A j \in 1..Len(heard[c]) : heard'[c][j] = heard[c][j]
          /\ heard'[c][Len(heard[c]) + 1] = item
      BY <2>2 DEF OrderTailHyp
    <3>2. Len(heard[c]) \in Nat
      BY ItemNumbers
    <3>3. CASE d # c
      <4>1. heard'[d] = heard[d]
        BY <3>1, <3>3
      <4> QED BY <4>1, <1>4
    <3>4. CASE d = c /\ i # Len(heard[c]) + 1
      <4>1. /\ i \in 1..Len(heard[c]) /\ heard'[c][i] = heard[c][i]
            /\ \A l \in 1..(i - 1) : heard'[c][l] = heard[c][l]
        BY <3>1, <3>2, <3>4
      <4> QED BY <4>1, <3>4, <1>4
    <3>5. CASE d = c /\ i = Len(heard[c]) + 1
      <4>1. heard'[d][i] = item
        BY <3>1, <3>5
      <4>2. \A l \in 1..(i - 1) : heard'[c][l].n <= item.n
        <5>1. \A l \in 1..(i - 1) : l \in 1..Len(heard[c])
          BY <3>2, <3>5
        <5> QED BY <5>1, <3>1, <1>5
      <4> QED BY <4>1, <4>2, <3>1, <3>5, <1>5
    <3> QED BY <3>3, <3>4, <3>5
  <2> QED BY <2>1, <2>2
<1> QED BY <1>3, <1>6 DEF InOrder

\* An acknowledgement has no number.
LEMMA OrderAck ==
  ASSUME LinkTypes, InOrder, UNCHANGED tasks, Now \in Nat, Now' = Now,
         NEW c \in Client, NEW ids \in SUBSET Nat, Write(c, Ack(ids))
  PROVE  InOrder'
<1>1. PICK item \in ItemType : /\ item = Ack(ids) /\ item # Other
                               /\ item.n = 0 /\ item.kind = "ack"
  BY ItemTypes
<1>2. /\ \A d \in Client : d # c => heard'[d] = heard[d]
      /\ \/ heard' = heard
         \/ /\ Len(heard[c]) \in Nat /\ Len(heard'[c]) = Len(heard[c]) + 1
            /\ \A i \in 1..Len(heard[c]) : heard'[c][i] = heard[c][i]
            /\ heard'[c][Len(heard[c]) + 1] = item
  <2>1. Write(c, item)
    BY <1>1
  <2> QED BY <2>1, <1>1, WriteStep
<1>3. TasksInOrder'
  BY DEF InOrder, TasksInOrder, IsSend
<1>4. ASSUME NEW d \in Client, NEW i \in 1..Len(heard[d])
      PROVE  /\ heard[d][i].n <= Now
             /\ \A k \in 1..Len(tasks[LoopOf(d)]) : tasks[LoopOf(d)][k].op = "send" =>
                  heard[d][i].n <= tasks[LoopOf(d)][k].item.n
             /\ heard[d][i].kind = "update" =>
                  \A l \in 1..(i - 1) : heard[d][l].n <= heard[d][i].n
  BY DEF InOrder, HeardInOrder, IsSend
<1>5. HeardInOrder'
  <2> SUFFICES ASSUME NEW d \in Client, NEW i \in 1..Len(heard'[d])
               PROVE  /\ heard'[d][i].n <= Now
                      /\ \A k \in 1..Len(tasks[LoopOf(d)]) : tasks[LoopOf(d)][k].op = "send" =>
                           heard'[d][i].n <= tasks[LoopOf(d)][k].item.n
                      /\ heard'[d][i].kind = "update" =>
                           \A l \in 1..(i - 1) : heard'[d][l].n <= heard'[d][i].n
    BY DEF HeardInOrder, IsSend
  <2>1. CASE d # c \/ heard' = heard
    <3>1. heard'[d] = heard[d]
      BY <2>1, <1>2
    <3> QED BY <3>1, <1>4
  <2>2. CASE d = c /\ heard' # heard /\ i # Len(heard[c]) + 1
    <3>1. /\ i \in 1..Len(heard[c]) /\ heard'[c][i] = heard[c][i]
          /\ \A l \in 1..(i - 1) : heard'[c][l] = heard[c][l]
      BY <1>2, <2>2
    <3> QED BY <3>1, <2>2, <1>4
  <2>3. CASE d = c /\ heard' # heard /\ i = Len(heard[c]) + 1
    <3>1. heard'[d][i] = item
      BY <1>2, <2>3
    <3>2. \A k \in 1..Len(tasks[LoopOf(d)]) : tasks[LoopOf(d)][k].item.n \in Nat
      BY ItemNumbers, LoopFacts
    <3> QED BY <3>1, <3>2, <1>1
  <2> QED BY <2>1, <2>2, <2>3
<1> QED BY <1>3, <1>5 DEF InOrder

-----------------------------------------------------------------------------
(* What a web client has been told.                                        *)

CoversAfter(c, x) == Covers(Deaf', heard', unacked', subscribed', c, x)

\* Told', spelt out.
LEMMA ToldNext ==
  Told' <=>
    /\ \A c \in Web : \A x \in subscribed'[c] : CoversAfter(c, x)
    /\ \A k \in 1..Len(tasks'["ws"]) : tasks'["ws"][k].op = "send" =>
         \A x \in tasks'["ws"][k].item.ids : CoversAfter(tasks'["ws"][k].c, x)
    /\ \A k \in 1..Len(targets') : CoversAfter(targets'[k], Head(queue').id)
    /\ \A c \in Web : \A j \in 1..Len(heard'[c]) : heard'[c][j].kind = "update" =>
         \E i \in 1..(j - 1) :
           heard'[c][i].kind = "ack" /\ heard'[c][j].ids \subseteq heard'[c][i].ids
BY DEF Told, ToldIndex, ToldTasks, ToldTargets, ToldHeard, Covered, CoversAfter, IsSend

LEMMA ToldNow ==
  ASSUME Told
  PROVE  /\ \A c \in Web : \A x \in subscribed[c] : Covered(c, x)
         /\ \A k \in 1..Len(tasks["ws"]) : tasks["ws"][k].op = "send" =>
              \A x \in tasks["ws"][k].item.ids : Covered(tasks["ws"][k].c, x)
         /\ \A k \in 1..Len(targets) : Covered(targets[k], Head(queue).id)
         /\ \A c \in Web : \A j \in 1..Len(heard[c]) : heard[c][j].kind = "update" =>
              \E i \in 1..(j - 1) :
                heard[c][i].kind = "ack" /\ heard[c][j].ids \subseteq heard[c][i].ids
BY DEF Told, ToldIndex, ToldTasks, ToldTargets, ToldHeard, IsSend

LEMMA WebTasks ==
  ASSUME LinkInv
  PROVE  \A k \in 1..Len(tasks["ws"]) : tasks["ws"][k].c \in Web
<1> TAKE k \in 1..Len(tasks["ws"])
<1>1. "ws" \in Thread
  BY LoopFacts
<1>2. tasks["ws"][k].c \in Client /\ LoopOf(tasks["ws"][k].c) = "ws"
  BY <1>1, TaskClients DEF LinkInv, LinkTypes, Loops
<1> QED BY <1>2, LoopFacts

LEMMA WebTargets ==
  ASSUME BatchInv
  PROVE  \A k \in 1..Len(targets) : targets[k] \in Web
BY ElementOfSeq DEF BatchInv, BaseTypes

\* Nothing is written to web clients, no send is queued for them, and the
\* index at most shrinks.
LEMMA ToldFrame ==
  ASSUME LinkInv, BatchInv, Told, \A c \in Web : heard'[c] = heard[c],
         shut \subseteq shut', \A c \in Client : link[c] \in Ended => link'[c] \in Ended,
         unacked' = unacked, targets' = targets,
         subscribed' = subscribed \/ unacked = {},
         \A c \in Web : subscribed'[c] \subseteq subscribed[c],
         \A k \in 1..Len(tasks'["ws"]) : tasks'["ws"][k].op = "send" =>
           \E l \in 1..Len(tasks["ws"]) : tasks'["ws"][k] = tasks["ws"][l],
         targets = << >> \/ Head(queue') = Head(queue)
  PROVE  Told'
<1>0. Deaf \subseteq Deaf'
  BY DEF Deaf
<1>1. ASSUME NEW c \in Web, NEW x, Covered(c, x) PROVE CoversAfter(c, x)
  BY <1>0, <1>1 DEF Covered, CoversAfter, Covers
<1>2. \A c \in Web : \A x \in subscribed'[c] : CoversAfter(c, x)
  BY <1>1, ToldNow
<1>3. ASSUME NEW k \in 1..Len(tasks'["ws"]), tasks'["ws"][k].op = "send",
             NEW x \in tasks'["ws"][k].item.ids
      PROVE  CoversAfter(tasks'["ws"][k].c, x)
  <2>1. PICK l \in 1..Len(tasks["ws"]) : tasks'["ws"][k] = tasks["ws"][l]
    BY <1>3
  <2>2. tasks["ws"][l].c \in Web /\ Covered(tasks["ws"][l].c, x)
    BY <2>1, <1>3, ToldNow, WebTasks
  <2> QED BY <2>1, <2>2, <1>1
<1>4. ASSUME NEW k \in 1..Len(targets) PROVE CoversAfter(targets[k], Head(queue').id)
  <2>1. targets # << >>
    BY <1>4
  <2>2. targets[k] \in Web /\ Covered(targets[k], Head(queue).id)
    BY ToldNow, WebTargets
  <2> QED BY <2>1, <2>2, <1>1
<1>5. \A c \in Web : \A j \in 1..Len(heard'[c]) : heard'[c][j].kind = "update" =>
        \E i \in 1..(j - 1) :
          heard'[c][i].kind = "ack" /\ heard'[c][j].ids \subseteq heard'[c][i].ids
  BY ToldNow
<1> QED BY <1>2, <1>3, <1>4, <1>5, ToldNext

LEMMA ToldSubscribe ==
  ASSUME LinkInv, WebInv, BatchInv, Told, NEW c \in Web, NEW list \in Seq(Nat),
         Subscribe(c, list), UNCHANGED <<queue, targets>>
  PROVE  Told'
<1>1. /\ unacked = {} /\ unacked' = {c} /\ UNCHANGED <<heard, tasks>> /\ Deaf' = Deaf
      /\ subscribed' = [subscribed EXCEPT ![c] = {list[i] : i \in 1..Len(list)} \ {0}]
  BY DEF Subscribe, Frames, linkVars, Deaf
<1>2. \A d \in Web : d # c => subscribed'[d] = subscribed[d]
  BY <1>1 DEF WebInv, WebTypes
<1>3. ASSUME NEW d \in Web, NEW x, Covered(d, x) PROVE CoversAfter(d, x)
  BY <1>1, <1>3 DEF Covered, CoversAfter, Covers
<1>4. ASSUME NEW d \in Web, NEW x \in subscribed'[d] PROVE CoversAfter(d, x)
  <2>1. CASE d = c
    BY <2>1, <1>1 DEF CoversAfter, Covers
  <2>2. CASE d # c
    BY <2>2, <1>2, <1>3, ToldNow
  <2> QED BY <2>1, <2>2
<1>5. \A k \in 1..Len(tasks["ws"]) : tasks["ws"][k].op = "send" =>
        \A x \in tasks["ws"][k].item.ids : CoversAfter(tasks["ws"][k].c, x)
  BY <1>3, ToldNow, WebTasks
<1>6. \A k \in 1..Len(targets) : CoversAfter(targets[k], Head(queue).id)
  BY <1>3, ToldNow, WebTargets
<1>7. \A d \in Web : \A j \in 1..Len(heard[d]) : heard[d][j].kind = "update" =>
        \E i \in 1..(j - 1) : heard[d][i].kind = "ack" /\ heard[d][j].ids \subseteq heard[d][i].ids
  BY ToldNow
<1> QED BY <1>1, <1>4, <1>5, <1>6, <1>7, ToldNext

LEMMA ToldAck ==
  ASSUME LinkInv, WebInv, OwedInside, BatchInv, Told, NEW c \in Web, Acknowledge(c),
         UNCHANGED <<queue, targets>>
  PROVE  Told'
<1>1. /\ c \in unacked /\ unacked' = {} /\ Write(c, Ack(subscribed[c]))
      /\ UNCHANGED <<link, shut, tasks, busy, subscribed>> /\ busy[LoopOf(c)] = c
      /\ Deaf' = Deaf
  BY DEF Acknowledge, Handling, Deaf
<1>2. c \in Client /\ LoopOf(c) = "ws" /\ "ws" \in Thread
  BY LoopFacts DEF Client
<1>3. busy["ws"] = c /\ link[c] \in {"up", "closed"} /\ \A d \in unacked : d = c
  BY <1>1, <1>2, LoopFacts DEF LinkInv, Loops, OwedInside
<1>4. PICK item \in ItemType : /\ item = Ack(subscribed[c]) /\ item # Other
                               /\ item.ids = subscribed[c] /\ item.kind = "ack"
  <2>1. subscribed[c] \in SUBSET Nat
    BY DEF WebInv, WebTypes
  <2> QED BY <2>1, ItemTypes
<1>5. /\ \A d \in Client : d # c => heard'[d] = heard[d]
      /\ ~Writable(c) => heard' = heard
      /\ Writable(c) =>
           /\ Len(heard[c]) \in Nat /\ Len(heard'[c]) = Len(heard[c]) + 1
           /\ \A i \in 1..Len(heard[c]) : heard'[c][i] = heard[c][i]
           /\ heard'[c][Len(heard[c]) + 1] = item
  <2>1. Write(c, item)
    BY <1>1, <1>4
  <2> QED BY <2>1, <1>2, <1>4, WriteStep DEF LinkInv
<1>6. ASSUME NEW d \in Web, NEW x, Covered(d, x) PROVE CoversAfter(d, x)
  <2>0. d \in Client
    BY DEF Client
  <2>1. CASE d # c
    <3>1. heard'[d] = heard[d] /\ d \notin unacked
      BY <2>0, <2>1, <1>3, <1>5
    <3> QED BY <3>1, <1>1, <1>6 DEF Covered, CoversAfter, Covers
  <2>2. CASE d = c /\ c \in Deaf
    BY <2>2, <1>1 DEF CoversAfter, Covers
  <2>3. CASE d = c /\ c \notin Deaf
    <3>1. Writable(c)
      BY <2>3, <1>2, <1>3 DEF Writable, IsConnected, Deaf, Ended
    <3>2. /\ \A i \in 1..Len(heard[c]) : i \in 1..Len(heard'[c]) /\ heard'[c][i] = heard[c][i]
          /\ Len(heard[c]) + 1 \in 1..Len(heard'[c])
          /\ heard'[c][Len(heard[c]) + 1] = item
      BY <3>1, <1>5
    <3>3. CASE \E i \in 1..Len(heard[c]) : heard[c][i].kind = "ack" /\ x \in heard[c][i].ids
      BY <2>3, <3>2, <3>3 DEF CoversAfter, Covers
    <3>4. CASE x \in subscribed[c]
      BY <2>3, <3>2, <3>4, <1>4 DEF CoversAfter, Covers
    <3> QED BY <2>3, <3>3, <3>4, <1>6 DEF Covered, Covers
  <2> QED BY <2>1, <2>2, <2>3
<1>7. \A d \in Web : \A x \in subscribed[d] : CoversAfter(d, x)
  BY <1>6, ToldNow
<1>8. \A k \in 1..Len(tasks["ws"]) : tasks["ws"][k].op = "send" =>
        \A x \in tasks["ws"][k].item.ids : CoversAfter(tasks["ws"][k].c, x)
  BY <1>6, ToldNow, WebTasks
<1>9. \A k \in 1..Len(targets) : CoversAfter(targets[k], Head(queue).id)
  BY <1>6, ToldNow, WebTargets
<1>10. ASSUME NEW d \in Web, NEW j \in 1..Len(heard'[d]), heard'[d][j].kind = "update"
       PROVE  \E i \in 1..(j - 1) :
                heard'[d][i].kind = "ack" /\ heard'[d][j].ids \subseteq heard'[d][i].ids
  <2>0. d \in Client
    BY DEF Client
  <2>1. CASE d # c \/ ~Writable(c)
    <3>1. heard'[d] = heard[d]
      BY <2>0, <2>1, <1>5
    <3> QED BY <3>1, <1>10, ToldNow
  <2>2. CASE d = c /\ Writable(c)
    <3>1. j # Len(heard[c]) + 1
      BY <2>2, <1>4, <1>5, <1>10
    <3>2. /\ j \in 1..Len(heard[c]) /\ heard'[c][j] = heard[c][j]
          /\ \A i \in 1..(j - 1) : heard'[c][i] = heard[c][i]
      BY <3>1, <2>2, <1>5
    <3>3. heard[c][j].kind = "update"
      BY <3>2, <2>2, <1>10
    <3>4. PICK i \in 1..(j - 1) :
            heard[c][i].kind = "ack" /\ heard[c][j].ids \subseteq heard[c][i].ids
      BY <3>2, <3>3, ToldNow
    <3> QED BY <3>2, <3>4, <2>2
  <2> QED BY <2>1, <2>2
<1> QED BY <1>1, <1>7, <1>8, <1>9, <1>10, ToldNext

LEMMA ToldRunSend ==
  ASSUME LinkInv, WebInv, OwedInside, BatchInv, InOrder, Told, RunSend("ws"),
         UNCHANGED <<subscribed, unacked, queue, targets>>
  PROVE  Told'
<1>1. /\ tasks["ws"] # << >> /\ tasks' = [tasks EXCEPT !["ws"] = Tail(@)]
      /\ UNCHANGED <<link, shut, busy>> /\ busy["ws"] = NoConn /\ Deaf' = Deaf
      /\ Head(tasks["ws"]).op = "send"
      /\ Write(Head(tasks["ws"]).c, Head(tasks["ws"]).item)
  BY DEF RunSend, NextTask, Deaf
<1>2. "ws" \in Thread
  BY LoopFacts
<1>3. /\ 1 \in 1..Len(tasks["ws"]) /\ Head(tasks["ws"]) = tasks["ws"][1]
      /\ \A k \in 1..Len(tasks'["ws"]) :
           k + 1 \in 1..Len(tasks["ws"]) /\ tasks'["ws"][k] = tasks["ws"][k + 1]
  BY <1>1, <1>2, TailStep DEF LinkInv
<1>4. PICK c \in Web : c = tasks["ws"][1].c
  BY <1>3, WebTasks
<1>5. unacked = {}
  <2> SUFFICES ASSUME NEW d \in unacked PROVE FALSE
    OBVIOUS
  <2> QED BY <1>1, LoopFacts DEF OwedInside, WebInv, WebTypes, Client
<1>6. PICK x \in Id, n \in Nat : tasks["ws"][1].item = Update(x, n)
  BY <1>1, <1>2, <1>3 DEF InOrder, TasksInOrder, IsSend
<1>7. PICK item \in ItemType : /\ item = Update(x, n) /\ item # Other
                               /\ item.ids = {x} /\ item.kind = "update"
  BY ItemTypes
<1>8. /\ \A d \in Client : d # c => heard'[d] = heard[d]
      /\ ~Writable(c) => heard' = heard
      /\ Writable(c) =>
           /\ Len(heard[c]) \in Nat /\ Len(heard'[c]) = Len(heard[c]) + 1
           /\ \A i \in 1..Len(heard[c]) : heard'[c][i] = heard[c][i]
           /\ heard'[c][Len(heard[c]) + 1] = item
  <2>1. Write(c, item) /\ c \in Client
    BY <1>1, <1>3, <1>4, <1>6, <1>7 DEF Client
  <2> QED BY <2>1, <1>7, WriteStep DEF LinkInv
<1>9. Covered(c, x)
  BY <1>1, <1>3, <1>4, <1>6, <1>7, ToldNow
<1>10. ASSUME NEW d \in Web, NEW y, Covered(d, y) PROVE CoversAfter(d, y)
  <2>0. d \in Client
    BY DEF Client
  <2>1. \A i \in 1..Len(heard[d]) : i \in 1..Len(heard'[d]) /\ heard'[d][i] = heard[d][i]
    <3>1. CASE d # c \/ ~Writable(c)
      BY <2>0, <3>1, <1>8
    <3>2. CASE d = c /\ Writable(c)
      BY <3>2, <1>8
    <3> QED BY <3>1, <3>2
  <2> QED BY <2>1, <1>1, <1>10 DEF Covered, CoversAfter, Covers
<1>11. \A d \in Web : \A y \in subscribed'[d] : CoversAfter(d, y)
  BY <1>10, ToldNow
<1>12. \A k \in 1..Len(tasks'["ws"]) : tasks'["ws"][k].op = "send" =>
         \A y \in tasks'["ws"][k].item.ids : CoversAfter(tasks'["ws"][k].c, y)
  BY <1>3, <1>10, ToldNow, WebTasks
<1>13. \A k \in 1..Len(targets) : CoversAfter(targets[k], Head(queue).id)
  BY <1>10, ToldNow, WebTargets
<1>14. ASSUME NEW d \in Web, NEW j \in 1..Len(heard'[d]), heard'[d][j].kind = "update"
       PROVE  \E i \in 1..(j - 1) :
                heard'[d][i].kind = "ack" /\ heard'[d][j].ids \subseteq heard'[d][i].ids
  <2>0. d \in Client
    BY DEF Client
  <2>1. CASE d # c \/ ~Writable(c)
    <3>1. heard'[d] = heard[d]
      BY <2>0, <2>1, <1>8
    <3> QED BY <3>1, <1>14, ToldNow
  <2>2. CASE d = c /\ Writable(c) /\ j # Len(heard[c]) + 1
    <3>1. /\ j \in 1..Len(heard[c]) /\ heard'[c][j] = heard[c][j]
          /\ \A i \in 1..(j - 1) : heard'[c][i] = heard[c][i]
      BY <2>2, <1>8
    <3>2. heard[c][j].kind = "update"
      BY <3>1, <2>2, <1>14
    <3>3. PICK i \in 1..(j - 1) :
            heard[c][i].kind = "ack" /\ heard[c][j].ids \subseteq heard[c][i].ids
      BY <3>1, <3>2, ToldNow
    <3> QED BY <3>1, <3>3, <2>2
  <2>3. CASE d = c /\ Writable(c) /\ j = Len(heard[c]) + 1
    <3>1. c \notin Deaf
      BY <2>3 DEF Writable, IsConnected, Deaf, Ended
    <3>2. PICK i \in 1..Len(heard[c]) : heard[c][i].kind = "ack" /\ x \in heard[c][i].ids
      BY <3>1, <1>5, <1>9 DEF Covered, Covers
    <3>3. i \in 1..(j - 1) /\ heard'[c][i] = heard[c][i] /\ heard'[c][j] = item
      BY <2>3, <1>8
    <3> QED BY <3>2, <3>3, <2>3, <1>7
  <2> QED BY <2>1, <2>2, <2>3
<1> QED BY <1>11, <1>12, <1>13, <1>14, ToldNext

LEMMA ToldCollect ==
  ASSUME WebInv, BatchInv, Told, PublishCollect, queue # << >>
  PROVE  Told'
<1>1. /\ UNCHANGED <<heard, tasks, subscribed, unacked, queue>> /\ Deaf' = Deaf
      /\ targets' = Connected(ws_subs[Head(queue).id])
  BY DEF PublishCollect, linkVars, simVars, Deaf
<1>2. PICK x \in Id : x = Head(queue).id
  BY HeadUpdate
<1>3. PICK s \in Seq(Web) : s = ws_subs[x]
  BY DEF WebInv, WebTypes
<1>4. \A k \in 1..Len(Connected(s)) : Connected(s)[k] \in Web /\ Times(Connected(s)[k], s) >= 1
  <2>1. Web \subseteq Client
    BY DEF Client
  <2> QED BY <2>1, ConnectedFacts
<1>5. ASSUME NEW k \in 1..Len(targets') PROVE Covered(targets'[k], x)
  <2>1. PICK c \in Web : c = targets'[k] /\ Times(c, s) >= 1
    BY <1>1, <1>2, <1>3, <1>4
  <2>2. Times(c, s) <= (IF x \in subscribed[c] THEN 1 ELSE 0)
    BY <1>3 DEF WebInv, WebIndex, WsIndexIsTrue
  <2>3. Times(c, s) \in Nat
    BY TimesType
  <2>4. x \in subscribed[c]
    BY <2>1, <2>2, <2>3
  <2>5. Covered(c, x)
    BY <2>4, ToldNow
  <2> QED BY <2>1, <2>5
<1>6. \A k \in 1..Len(targets') : CoversAfter(targets'[k], Head(queue').id)
  BY <1>1, <1>2, <1>5 DEF Covered, CoversAfter
<1>7. /\ \A c \in Web : \A y \in subscribed'[c] : CoversAfter(c, y)
      /\ \A k \in 1..Len(tasks'["ws"]) : tasks'["ws"][k].op = "send" =>
           \A y \in tasks'["ws"][k].item.ids : CoversAfter(tasks'["ws"][k].c, y)
      /\ \A c \in Web : \A j \in 1..Len(heard'[c]) : heard'[c][j].kind = "update" =>
           \E i \in 1..(j - 1) :
             heard'[c][i].kind = "ack" /\ heard'[c][j].ids \subseteq heard'[c][i].ids
  BY <1>1, ToldNow DEF Covered, CoversAfter
<1> QED BY <1>6, <1>7, ToldNext

LEMMA ToldPublish ==
  ASSUME LinkInv, BatchInv, Told, PublishSend, queue # << >>
  PROVE  Told'
<1>1. /\ targets # << >> /\ targets' = Tail(targets)
      /\ QueueSend(Head(targets), Update(Head(queue).id, Head(queue).n))
      /\ UNCHANGED <<heard, subscribed, unacked, queue>> /\ Deaf' = Deaf
  BY DEF PublishSend, QueueSend, wsVars, simVars, Deaf
<1>2. PICK r \in Seq(Web) : r = targets
  BY DEF BatchInv, BaseTypes
<1>3. /\ Head(r) \in Web /\ Head(r) = r[1] /\ 1 \in 1..Len(r)
      /\ \A k \in 1..Len(Tail(r)) : k + 1 \in 1..Len(r) /\ Tail(r)[k] = r[k + 1]
  <2>1. r # << >>
    BY <1>1, <1>2
  <2> QED BY <2>1, HeadTailProperties, EmptySeq
<1>4. PICK c \in Web : c = Head(targets) /\ c = targets[1]
  BY <1>2, <1>3
<1>5. PICK x \in Id, n \in Nat : x = Head(queue).id /\ n = Head(queue).n
  BY HeadUpdate, NowType
<1>6. PICK item \in ItemType : item = Update(x, n) /\ item.ids = {x}
  BY ItemTypes
<1>7. c \in Client /\ LoopOf(c) = "ws" /\ "ws" \in Thread
  BY LoopFacts DEF Client
<1>8. /\ QueueSends("ws", <<c>>, item) /\ <<c>> \in Seq(Client) /\ Len(<<c>>) = 1
  <2>1. QueueSend(c, item)
    BY <1>1, <1>4, <1>5, <1>6
  <2> QED BY <2>1, <1>7, OneSend DEF LinkInv
<1>9. /\ Len(tasks["ws"]) \in Nat
      /\ Len(tasks'["ws"]) = Len(tasks["ws"]) + 1
      /\ \A k \in 1..Len(tasks["ws"]) : tasks'["ws"][k] = tasks["ws"][k]
      /\ tasks'["ws"][Len(tasks["ws"]) + 1] = Task("send", c, item)
  <2>1. PICK cs \in Seq(Client) : cs = <<c>>
    BY <1>8
  <2>2. QueueSends("ws", cs, item) /\ Len(cs) = 1 /\ cs[1] = c /\ 1 \in 1..Len(cs)
    BY <1>8, <2>1
  <2>3. /\ Len(tasks["ws"]) \in Nat
        /\ Len(tasks'["ws"]) = Len(tasks["ws"]) + Len(cs)
        /\ \A k \in 1..Len(tasks["ws"]) : tasks'["ws"][k] = tasks["ws"][k]
        /\ \A k \in 1..Len(cs) : tasks'["ws"][Len(tasks["ws"]) + k] = Task("send", cs[k], item)
    BY <1>7, <2>2, SendsStep DEF LinkInv
  <2> QED BY <2>2, <2>3
<1>10. \A d, y : Covered(d, y) <=> CoversAfter(d, y)
  BY <1>1 DEF Covered, CoversAfter
<1>11. ASSUME NEW k \in 1..Len(tasks'["ws"]), tasks'["ws"][k].op = "send",
              NEW y \in tasks'["ws"][k].item.ids
       PROVE  CoversAfter(tasks'["ws"][k].c, y)
  <2>1. CASE k = Len(tasks["ws"]) + 1
    <3>1. tasks'["ws"][k].c = c /\ tasks'["ws"][k].item = item
      BY <2>1, <1>9 DEF Task
    <3>2. y = x /\ Covered(c, x)
      BY <3>1, <1>2, <1>3, <1>4, <1>5, <1>6, <1>11, ToldNow
    <3> QED BY <3>1, <3>2, <1>10
  <2>2. CASE k # Len(tasks["ws"]) + 1
    <3>1. k \in 1..Len(tasks["ws"]) /\ tasks'["ws"][k] = tasks["ws"][k]
      BY <2>2, <1>9
    <3> QED BY <3>1, <1>10, <1>11, ToldNow
  <2> QED BY <2>1, <2>2
<1>12. ASSUME NEW k \in 1..Len(targets') PROVE CoversAfter(targets'[k], Head(queue').id)
  <2>1. k + 1 \in 1..Len(targets) /\ targets'[k] = targets[k + 1]
    BY <1>1, <1>2, <1>3
  <2>2. Covered(targets[k + 1], Head(queue).id)
    BY <2>1, ToldNow
  <2> QED BY <2>1, <2>2, <1>1, <1>10
<1>13. \A d \in Web : \A y \in subscribed'[d] : CoversAfter(d, y)
  BY <1>1, <1>10, ToldNow
<1>14. \A d \in Web : \A j \in 1..Len(heard'[d]) : heard'[d][j].kind = "update" =>
         \E i \in 1..(j - 1) :
           heard'[d][i].kind = "ack" /\ heard'[d][j].ids \subseteq heard'[d][i].ids
  BY <1>1, ToldNow
<1> QED BY <1>11, <1>12, <1>13, <1>14, ToldNext

-----------------------------------------------------------------------------
(* Every step keeps the invariant.                                         *)

LEMMA NotOwed ==
  ASSUME WebInv, OwedInside, busy["ws"] = NoConn
  PROVE  unacked = {}
BY LoopFacts DEF OwedInside, WebInv, WebTypes, Client

LEMMA OwedFrame ==
  ASSUME OwedInside, UNCHANGED unacked,
         \/ unacked = {}
         \/ /\ busy'["ws"] = busy["ws"]
            /\ \A c \in unacked : session[c] = "open" => session'[c] = "open"
  PROVE  OwedInside'
BY DEF OwedInside

\* Inside OnMessage the connection is there, and it is one of its loop.
LEMMA HandlingThere ==
  ASSUME LinkInv, NEW c \in Client, Handling(c)
  PROVE  link[c] \in {"up", "closed"} /\ LoopOf(c) \in Thread /\ busy[LoopOf(c)] = c
BY LoopFacts DEF LinkInv, Loops, Handling

LEMMA TcpSame ==
  ASSUME TcpInv, UNCHANGED <<app, subs, listed, wanted, link>>
  PROVE  TcpInv'
BY TcpLinkStep

LEMMA WebSame ==
  ASSUME WebInv, SessionTypes', UNCHANGED <<subscribed, ws_subs, link>>
  PROVE  WebInv'
BY WebLinkStep

LEMMA WebQuiet ==
  ASSUME WebInv, UNCHANGED <<session, unacked, subscribed, ws_subs, link>>
  PROVE  WebInv'
BY WebSame DEF WebInv, WebTypes, SessionTypes

\* A step that neither writes nor hands on anything.
LEMMA CalmStep ==
  ASSUME IInv, LinkInv', TcpInv', WebInv', OwedInside',
         UNCHANGED <<heard, tasks, unacked>>, shut \subseteq shut',
         \A c \in Client : link[c] \in Ended => link'[c] \in Ended,
         subscribed' = subscribed \/ unacked = {},
         \A c \in Web : subscribed'[c] \subseteq subscribed[c],
         UNCHANGED <<next, made, queue, targets>>,
         \/ base' = base
         \/ base # "send" /\ base' \in {"idle", "check"}
  PROVE  IInv'
<1>1. BatchInv' /\ Now' = Now
  BY BatchMode DEF IInv
<1>2. Now \in Nat
  BY NowType DEF IInv
<1>3. InOrder'
  BY <1>1, <1>2, OrderFrame DEF IInv, LinkInv
<1>4. Told'
  BY ToldFrame DEF IInv
<1> QED BY <1>1, <1>3, <1>4 DEF IInv

\* A step that only moves the program's own state.
LEMMA QuietStep ==
  ASSUME IInv, UNCHANGED <<link, shut, heard, tasks, busy>>,
         UNCHANGED <<session, subscribed, ws_subs, unacked>>,
         UNCHANGED <<app, subs, listed, wanted>>, UNCHANGED <<next, made, queue, targets>>,
         \/ base' = base
         \/ base # "send" /\ base' \in {"idle", "check"}
  PROVE  IInv'
<1>1. LinkInv'
  BY LinksFrame DEF IInv
<1>2. TcpInv'
  BY TcpSame DEF IInv
<1>3. WebInv'
  BY WebQuiet DEF IInv
<1>4. OwedInside'
  BY OwedFrame DEF IInv
<1> QED BY <1>1, <1>2, <1>3, <1>4, CalmStep

LEMMA SimpleSteps ==
  ASSUME IInv, \/ Start \/ RunLoop \/ Tick \/ CheckBegin \/ CheckEnd
               \/ \E c \in Tcp : HandleLogin(c) \/ HandlePing(c) \/ CheckVisit(c)
               \/ UNCHANGED vars
  PROVE  IInv'
<1>1. CASE Start \/ RunLoop \/ Tick \/ UNCHANGED vars
  BY <1>1, QuietStep DEF Start, RunLoop, Tick, vars, linkVars, wsVars, mode, clientVars,
                         simVars, baseVars
<1>2. CASE CheckBegin \/ CheckEnd \/ \E c \in Tcp : CheckVisit(c)
  BY <1>2, QuietStep DEF CheckBegin, CheckEnd, CheckVisit, linkVars, wsVars, mode,
                         clientVars, simVars, baseVars
<1>3. CASE \E c \in Tcp : HandleLogin(c)
  BY <1>3, QuietStep DEF HandleLogin, linkVars, wsVars, mode, clientVars, simVars, baseVars
<1>4. ASSUME NEW c \in Tcp, HandlePing(c) PROVE IInv'
  BY <1>4, WriteOther, QuietStep DEF HandlePing, wsVars, mode, clientVars, simVars, baseVars
<1> QED BY <1>1, <1>2, <1>3, <1>4

\* A step of a connection and its loop.
LEMMA ConnectSteps ==
  ASSUME IInv, NEW c \in Client, Connect(c), UNCHANGED <<wsVars, app, clientVars, simVars, baseVars>>
  PROVE  IInv'
<1>1. LinkInv'
  BY ConnectLinks DEF IInv
<1>2. \A d \in Client : link'[d] = link[d] \/ (link[d] = "none" /\ link'[d] = "up")
  BY DEF Connect, IInv, LinkInv, LinkTypes
<1>6. \A d \in Client : link[d] \in Ended => link'[d] \in Ended
  BY <1>2 DEF Ended
<1>3. TcpInv'
  BY <1>2, TcpLinkStep DEF IInv, clientVars, Client
<1>4. WebInv'
  BY <1>2, WebLinkStep DEF IInv, wsVars, Client, WebInv, WebTypes, SessionTypes
<1>5. OwedInside'
  BY OwedFrame DEF Connect, IInv, wsVars
<1> QED BY <1>1, <1>3, <1>4, <1>5, <1>6, CalmStep DEF Connect, wsVars, simVars, baseVars

LEMMA BeginSteps ==
  ASSUME IInv, NEW c \in Client, BeginMessage(c),
         UNCHANGED <<wsVars, app, clientVars, simVars, baseVars>>
  PROVE  IInv'
<1>1. LinkInv'
  BY BeginLinks DEF IInv
<1>3. TcpInv'
  BY TcpSame DEF IInv, clientVars, BeginMessage
<1>4. WebInv'
  BY WebQuiet DEF IInv, wsVars, BeginMessage
<1>5. OwedInside'
  <2>1. CASE LoopOf(c) = "ws"
    BY <2>1, NotOwed, OwedFrame DEF BeginMessage, Polling, IInv, wsVars
  <2>2. CASE LoopOf(c) # "ws"
    <3>1. busy'["ws"] = busy["ws"]
      BY <2>2, LoopFacts DEF BeginMessage, IInv, LinkInv, LinkTypes
    <3> QED BY <3>1, OwedFrame DEF IInv, wsVars
  <2> QED BY <2>1, <2>2
<1> QED BY <1>1, <1>3, <1>4, <1>5, CalmStep DEF BeginMessage, wsVars, simVars, baseVars

LEMMA TcpEnd ==
  ASSUME IInv, NEW c \in Tcp, EndMessage(c) \/ BadLength(c),
         UNCHANGED <<wsVars, app, subs, listed, wanted, simVars, baseVars>>
  PROVE  IInv'
<1>1. /\ busy' = [busy EXCEPT !["io"] = NoConn] /\ "io" \in Thread
      /\ UNCHANGED <<link, heard, tasks>> /\ shut \subseteq shut'
  BY LoopFacts DEF EndMessage, BadLength, LoopOf
<1>2. LinkInv'
  BY <1>1, EndLinks DEF IInv
<1>3. TcpInv'
  BY <1>1, TcpSame DEF IInv
<1>4. WebInv'
  BY <1>1, WebQuiet DEF IInv, wsVars
<1>5. OwedInside'
  <2>1. busy'["ws"] = busy["ws"]
    BY <1>1, LoopFacts DEF IInv, LinkInv, LinkTypes
  <2> QED BY <2>1, OwedFrame DEF IInv, wsVars
<1> QED BY <1>1, <1>2, <1>3, <1>4, <1>5, CalmStep DEF wsVars, simVars, baseVars

LEMMA WebEnd ==
  ASSUME IInv, NEW c \in Web, WsEnd(c), UNCHANGED <<app, clientVars, simVars, baseVars>>
  PROVE  IInv'
<1>1. /\ busy' = [busy EXCEPT !["ws"] = NoConn] /\ "ws" \in Thread
      /\ UNCHANGED <<link, heard, tasks, shut>>
      /\ UNCHANGED <<session, subscribed, ws_subs, unacked>> /\ unacked = {}
  <2>1. LoopOf(c) = "ws"
    BY LoopFacts DEF Client
  <2> QED BY <2>1, LoopFacts DEF WsEnd, EndMessage
<1>2. LinkInv'
  BY <1>1, EndLinks DEF IInv
<1>3. TcpInv'
  BY <1>1, TcpSame DEF IInv, clientVars
<1>4. WebInv'
  BY <1>1, WebQuiet DEF IInv
<1>5. OwedInside'
  BY <1>1, OwedFrame DEF IInv
<1> QED BY <1>1, <1>2, <1>3, <1>4, <1>5, CalmStep DEF simVars, baseVars

\* HandleHandshake, and the frames that leave the index alone.
LEMMA HandshakeSteps ==
  ASSUME IInv, NEW c \in Web,
         Handshake(c) \/ RefuseHandshake(c) \/ Reply(c) \/ Unsupported(c),
         UNCHANGED <<app, clientVars, simVars, baseVars>>
  PROVE  IInv'
<1>1. /\ UNCHANGED <<link, tasks, subscribed, ws_subs, unacked>> /\ heard' = heard
      /\ shut \subseteq shut'
  BY WriteOther DEF Handshake, RefuseHandshake, Reply, Unsupported, wsVars
<1>2. \/ busy' = busy
      \/ busy' = [busy EXCEPT !["ws"] = NoConn]
  BY DEF Handshake, RefuseHandshake, Reply, Unsupported, LeaveFrames
<1>3. LinkInv'
  BY <1>1, <1>2, LinksFrame, EndLinks, LoopFacts DEF IInv
<1>4. TcpInv'
  BY <1>1, TcpSame DEF IInv, clientVars
<1>5. SessionTypes'
  BY <1>1 DEF Handshake, RefuseHandshake, Reply, Unsupported, wsVars, IInv, WebInv, WebTypes,
              SessionTypes
<1>6. WebInv'
  BY <1>1, <1>5, WebSame DEF IInv
<1>7. OwedInside'
  <2>1. CASE Handshake(c)
    BY <2>1, OwedFrame DEF Handshake, IInv, WebInv, WebTypes
  <2>2. CASE RefuseHandshake(c)
    <3>1. busy["ws"] = c /\ session[c] = "handshaking"
      BY <2>2, LoopFacts DEF RefuseHandshake, Handling, Client
    <3>2. unacked = {}
      BY <3>1 DEF IInv, OwedInside
    <3> QED BY <1>1, <3>2, OwedFrame DEF IInv
  <2>3. CASE Reply(c) \/ Unsupported(c)
    BY <2>3, <1>1, OwedFrame DEF Reply, Unsupported, Frames, IInv
  <2> QED BY <2>1, <2>2, <2>3
<1> QED BY <1>1, <1>3, <1>4, <1>6, <1>7, CalmStep DEF simVars, baseVars

LEMMA CloseFrameStep ==
  ASSUME IInv, NEW c \in Web, CloseFrame(c), UNCHANGED <<app, clientVars, simVars, baseVars>>
  PROVE  IInv'
<1>1. /\ UNCHANGED <<link, tasks, unacked>> /\ heard' = heard /\ shut \subseteq shut'
      /\ unacked = {} /\ WsRemove(c)
  BY WriteOther DEF CloseFrame, Frames
<1>2. \/ busy' = busy
      \/ busy' = [busy EXCEPT !["ws"] = NoConn]
  BY DEF CloseFrame, LeaveFrames
<1>3. LinkInv'
  BY <1>1, <1>2, LinksFrame, EndLinks, LoopFacts DEF IInv
<1>4. TcpInv'
  BY <1>1, TcpSame DEF IInv, clientVars
<1>5. SessionTypes'
  BY <1>1 DEF CloseFrame, IInv, WebInv, WebTypes, SessionTypes
<1>6. WebInv'
  BY <1>1, <1>5, WebRemoveStep DEF IInv
<1>7. OwedInside'
  BY <1>1, OwedFrame DEF IInv
<1>8. \A d \in Web : subscribed'[d] \subseteq subscribed[d]
  BY <1>1 DEF WsRemove, IInv, WebInv, WebTypes
<1> QED BY <1>1, <1>3, <1>4, <1>6, <1>7, <1>8, CalmStep DEF simVars, baseVars

\* The command "subscribe" and its acknowledgement.
LEMMA WebSubscribeInv ==
  ASSUME IInv, NEW c \in Web, NEW list \in Seq(Nat), Subscribe(c, list),
         UNCHANGED <<app, clientVars, simVars, baseVars>>
  PROVE  IInv'
<1>1. /\ UNCHANGED <<link, shut, heard, tasks, busy, session>> /\ unacked' = {c}
      /\ Handling(c) /\ session[c] = "open" /\ c \in Client
  BY DEF Subscribe, Frames, linkVars, Client
<1>2. link[c] \in {"up", "closed"} /\ busy["ws"] = c
  BY <1>1, HandlingThere, LoopFacts DEF IInv
<1>3. LinkInv'
  BY <1>1, LinksFrame DEF IInv
<1>4. TcpInv'
  BY <1>1, TcpSame DEF IInv, clientVars
<1>5. WebInv'
  BY <1>2, WebSubscribeStep DEF IInv
<1>6. OwedInside'
  BY <1>1, <1>2 DEF OwedInside
<1>7. BatchInv' /\ Now' = Now
  BY BatchMode DEF IInv, simVars, baseVars
<1>8. InOrder'
  BY <1>1, <1>7, OrderFrame, NowType DEF IInv, LinkInv
<1>9. Told'
  BY ToldSubscribe DEF IInv, simVars, baseVars
<1> QED BY <1>3, <1>4, <1>5, <1>6, <1>7, <1>8, <1>9 DEF IInv

LEMMA AcknowledgeInv ==
  ASSUME IInv, NEW c \in Web, Acknowledge(c), UNCHANGED <<app, clientVars, simVars, baseVars>>
  PROVE  IInv'
<1>1. /\ UNCHANGED <<link, shut, tasks, busy, session, subscribed, ws_subs>>
      /\ unacked' = {} /\ Write(c, Ack(subscribed[c])) /\ c \in Client
  BY DEF Acknowledge, Client
<1>2. PICK ids \in SUBSET Nat : ids = subscribed[c]
  BY DEF IInv, WebInv, WebTypes
<1>3. LinkInv'
  BY <1>1, <1>2, AckLinks, ItemTypes DEF IInv
<1>4. TcpInv'
  BY <1>1, TcpSame DEF IInv, clientVars
<1>5. WebInv'
  BY <1>1, WebSame DEF IInv, WebInv, WebTypes, SessionTypes
<1>6. OwedInside'
  BY <1>1 DEF OwedInside
<1>7. BatchInv' /\ Now' = Now
  BY BatchMode DEF IInv, simVars, baseVars
<1>8. InOrder'
  BY <1>1, <1>2, <1>7, OrderAck, NowType DEF IInv, LinkInv
<1>9. Told'
  BY ToldAck DEF IInv, simVars, baseVars
<1> QED BY <1>3, <1>4, <1>5, <1>6, <1>7, <1>8, <1>9 DEF IInv

\* SUBSCRIBE of the binary protocol, and the cut of CheckHeartbeats.
LEMMA TcpIndexSteps ==
  ASSUME IInv, NEW c \in Tcp, CheckCut(c) \/ \E list \in Lists : HandleSubscribe(c, list)
  PROVE  IInv'
<1>1. /\ UNCHANGED <<link, heard, tasks, busy>> /\ shut \subseteq shut'
      /\ UNCHANGED <<wsVars, app, simVars, baseVars>>
  BY DEF CheckCut, HandleSubscribe, linkVars, mode
<1>2. LinkInv'
  BY <1>1, LinksFrame DEF IInv
<1>3. TcpInv'
  <2>1. CASE CheckCut(c)
    BY <2>1, <1>1, TcpRemoveStep DEF CheckCut, IInv
  <2>2. ASSUME NEW list \in Lists, HandleSubscribe(c, list)
        PROVE  TcpInv'
    <3>1. list \in Seq(Nat) /\ c \in Client
      BY PushAssumption DEF Client
    <3>2. link[c] \in {"up", "closed"}
      BY <2>2, <3>1, HandlingThere DEF HandleSubscribe, IInv
    <3> QED BY <2>2, <1>1, <3>1, <3>2, TcpSubscribeStep DEF HandleSubscribe, IInv
  <2> QED BY <2>1, <2>2
<1>4. WebInv'
  BY <1>1, WebQuiet DEF IInv, wsVars
<1>5. OwedInside'
  BY <1>1, OwedFrame DEF IInv, wsVars
<1> QED BY <1>1, <1>2, <1>3, <1>4, <1>5, CalmStep DEF wsVars, simVars, baseVars

\* The peer closes, and what it sent before may still be read.
LEMMA CloseSteps ==
  ASSUME IInv, NEW c \in Client, HandleClose(c) \/ CloseThenRead(c),
         UNCHANGED <<wsVars, app, clientVars, simVars, baseVars>>
  PROVE  IInv'
<1>1. /\ UNCHANGED <<heard, shut>> /\ Close(c)
      /\ \A d \in Client : link'[d] = link[d] \/ (link[d] = "up" /\ link'[d] = "closed")
  BY DEF HandleClose, CloseThenRead, Close, IInv, LinkInv, LinkTypes, IsConnected
<1>2. LinkInv'
  BY CloseLinks DEF IInv
<1>3. TcpInv'
  BY <1>1, TcpLinkStep DEF IInv, clientVars, Client
<1>4. WebInv'
  BY <1>1, WebLinkStep DEF IInv, wsVars, Client, WebInv, WebTypes, SessionTypes
<1>5. OwedInside'
  <2>1. CASE busy'["ws"] = busy["ws"]
    BY <2>1, OwedFrame DEF IInv, wsVars
  <2>2. CASE busy'["ws"] # busy["ws"]
    <3>1. busy["ws"] = NoConn
      <4>1. busy' = [busy EXCEPT ![LoopOf(c)] = c] /\ busy[LoopOf(c)] = NoConn
        BY <2>2 DEF HandleClose, CloseThenRead, Close, Polling
      <4>2. LoopOf(c) = "ws"
        BY <2>2, <4>1 DEF IInv, LinkInv, LinkTypes
      <4> QED BY <4>1, <4>2
    <3> QED BY <3>1, NotOwed, OwedFrame DEF IInv, wsVars
  <2> QED BY <2>1, <2>2
<1>6. BatchInv' /\ Now' = Now /\ Now \in Nat
  BY BatchMode, NowType DEF IInv, simVars, baseVars
<1>7. /\ \A u \in Thread : u # LoopOf(c) => tasks'[u] = tasks[u]
      /\ LoopOf(c) \in Thread /\ Len(tasks[LoopOf(c)]) \in Nat
      /\ Len(tasks'[LoopOf(c)]) = Len(tasks[LoopOf(c)]) + 1
      /\ \A k \in 1..Len(tasks[LoopOf(c)]) : tasks'[LoopOf(c)][k] = tasks[LoopOf(c)][k]
      /\ tasks'[LoopOf(c)][Len(tasks[LoopOf(c)]) + 1].op = "remove"
  <2>1. Task("remove", c, Other).op = "remove"
    BY DEF Task
  <2> QED BY <1>1, <2>1, CloseGrows DEF IInv, LinkInv
<1>8. InOrder'
  <2>1. \A k \in 1..Len(tasks'[LoopOf(c)]) :
          ~(k > Len(tasks[LoopOf(c)]) /\ tasks'[LoopOf(c)][k].op = "send")
    BY <1>7
  <2>2. Len(tasks'[LoopOf(c)]) \in Nat
    BY <1>7
  <2> QED BY <1>1, <1>6, <1>7, <2>1, <2>2, OrderGrow DEF IInv, LinkInv
<1>9. Told'
  <2>1. \A k \in 1..Len(tasks'["ws"]) : tasks'["ws"][k].op = "send" =>
          \E l \in 1..Len(tasks["ws"]) : tasks'["ws"][k] = tasks["ws"][l]
    <3>1. CASE LoopOf(c) # "ws"
      BY <3>1, <1>7, LoopFacts
    <3>2. CASE LoopOf(c) = "ws"
      BY <3>2, <1>7
    <3> QED BY <3>1, <3>2
  <2>2. \A d \in Client : link[d] \in Ended => link'[d] \in Ended
    BY <1>1 DEF Ended
  <2> QED BY <2>1, <2>2, <1>1, ToldFrame DEF IInv, wsVars, simVars, baseVars
<1> QED BY <1>2, <1>3, <1>4, <1>5, <1>6, <1>8, <1>9 DEF IInv

LEMMA TailKeeps ==
  ASSUME LinkTypes, NEW t \in Thread, tasks[t] # << >>,
         tasks' = [tasks EXCEPT ![t] = Tail(@)]
  PROVE  \A k \in 1..Len(tasks'["ws"]) :
           \E l \in 1..Len(tasks["ws"]) : tasks'["ws"][k] = tasks["ws"][l]
<1>1. /\ \A u \in Thread : u # t => tasks'[u] = tasks[u]
      /\ \A k \in 1..Len(tasks'[t]) :
           k + 1 \in 1..Len(tasks[t]) /\ tasks'[t][k] = tasks[t][k + 1]
  BY TailStep
<1>2. CASE t = "ws"
  BY <1>1, <1>2
<1>3. CASE t # "ws"
  BY <1>1, <1>3, LoopFacts
<1> QED BY <1>2, <1>3

\* The task of a send from the base loop.
LEMMA RunSendOrder ==
  ASSUME IInv, NEW t \in Thread, RunSend(t), UNCHANGED <<simVars, baseVars>>
  PROVE  /\ InOrder' /\ BatchInv' /\ LinkInv'
         /\ \A d \in Client : LoopOf(d) # t => heard'[d] = heard[d]
         /\ \A k \in 1..Len(tasks'["ws"]) :
              \E l \in 1..Len(tasks["ws"]) : tasks'["ws"][k] = tasks["ws"][l]
<1>1. /\ tasks[t] # << >> /\ tasks' = [tasks EXCEPT ![t] = Tail(@)]
      /\ Head(tasks[t]).op = "send"
      /\ Write(Head(tasks[t]).c, Head(tasks[t]).item)
  BY DEF RunSend, NextTask
<1>2. /\ Head(tasks[t]) = tasks[t][1] /\ 1 \in 1..Len(tasks[t])
      /\ Head(tasks[t]).c \in Client /\ Head(tasks[t]).item \in ItemType
      /\ LoopOf(Head(tasks[t]).c) = t
  BY <1>1, FirstTask DEF IInv
<1>3. PICK c \in Client : c = Head(tasks[t]).c
  BY <1>2
<1>4. PICK item \in ItemType : item = Head(tasks[t]).item
  BY <1>2
<1>5. item # Other
  BY <1>1, <1>2, <1>4, ItemTypes DEF IInv, InOrder, TasksInOrder, IsSend
<1>6. /\ \A d \in Client : d # c => heard'[d] = heard[d]
      /\ ~Writable(c) => heard' = heard
      /\ Writable(c) =>
           /\ Len(heard[c]) \in Nat /\ Len(heard'[c]) = Len(heard[c]) + 1
           /\ \A i \in 1..Len(heard[c]) : heard'[c][i] = heard[c][i]
           /\ heard'[c][Len(heard[c]) + 1] = item
  BY <1>1, <1>3, <1>4, <1>5, WriteStep DEF IInv, LinkInv
<1>7. BatchInv' /\ Now' = Now /\ Now \in Nat
  BY BatchMode, NowType DEF IInv, simVars, baseVars
<1>8. InOrder'
  <2>1. OrderTailHyp(t, c, item)
    BY <1>1, <1>2, <1>3, <1>4, <1>6 DEF OrderTailHyp
  <2> QED BY <2>1, <1>1, <1>7, OrderTail DEF IInv, LinkInv
<1>9. \A d \in Client : LoopOf(d) # t => heard'[d] = heard[d]
  BY <1>2, <1>3, <1>6
<1>10. LinkInv'
  BY RunSendLinks DEF IInv
<1>11. \A k \in 1..Len(tasks'["ws"]) :
         \E l \in 1..Len(tasks["ws"]) : tasks'["ws"][k] = tasks["ws"][l]
  BY <1>1, TailKeeps DEF IInv, LinkInv
<1> QED BY <1>7, <1>8, <1>9, <1>10, <1>11

LEMMA RunSendInv ==
  ASSUME IInv, NEW t \in Thread, RunSend(t),
         UNCHANGED <<wsVars, app, clientVars, simVars, baseVars>>
  PROVE  IInv'
<1>1. UNCHANGED <<link, shut, busy>>
  BY DEF RunSend
<1>2. /\ InOrder' /\ BatchInv' /\ LinkInv'
      /\ \A d \in Client : LoopOf(d) # t => heard'[d] = heard[d]
      /\ \A k \in 1..Len(tasks'["ws"]) :
           \E l \in 1..Len(tasks["ws"]) : tasks'["ws"][k] = tasks["ws"][l]
  BY RunSendOrder
<1>3. TcpInv'
  BY <1>1, TcpSame DEF IInv, clientVars
<1>4. WebInv'
  BY <1>1, WebQuiet DEF IInv, wsVars
<1>5. OwedInside'
  BY <1>1, OwedFrame DEF IInv, wsVars
<1>6. Told'
  <2>1. CASE t = "ws"
    BY <2>1, ToldRunSend DEF IInv, wsVars, simVars, baseVars
  <2>2. CASE t # "ws"
    <3>1. \A d \in Web : heard'[d] = heard[d]
      BY <2>2, <1>2, LoopFacts DEF Client
    <3> QED BY <3>1, <1>1, <1>2, ToldFrame DEF IInv, wsVars, simVars, baseVars
  <2> QED BY <2>1, <2>2
<1> QED BY <1>2, <1>3, <1>4, <1>5, <1>6 DEF IInv

\* The task that removes a connection calls the connection callback.
LEMMA RunRemoveOrder ==
  ASSUME IInv, NEW t \in Thread, RunRemove(t), UNCHANGED <<unacked, simVars, baseVars>>,
         subscribed' = subscribed \/ unacked = {},
         \A c \in Web : subscribed'[c] \subseteq subscribed[c]
  PROVE  InOrder' /\ BatchInv' /\ LinkInv' /\ Told'
<1>1. /\ tasks[t] # << >> /\ tasks' = [tasks EXCEPT ![t] = Tail(@)]
      /\ UNCHANGED <<heard, shut, busy>>
  BY DEF RunRemove, NextTask
<1>2. LinkInv'
  BY RunRemoveLinks DEF IInv
<1>3. BatchInv' /\ Now' = Now /\ Now \in Nat
  BY BatchMode, NowType DEF IInv, simVars, baseVars
<1>4. InOrder'
  <2>1. Head(tasks[t]).c \in Client
    BY <1>1, FirstTask DEF IInv
  <2>2. OrderTailHyp(t, Head(tasks[t]).c, Other)
    BY <1>1 DEF OrderTailHyp
  <2> QED BY <2>1, <2>2, <1>1, <1>3, ItemTypes, OrderTail DEF IInv, LinkInv
<1>5. \A k \in 1..Len(tasks'["ws"]) :
        \E l \in 1..Len(tasks["ws"]) : tasks'["ws"][k] = tasks["ws"][l]
  BY <1>1, TailKeeps DEF IInv, LinkInv
<1>6. \A c \in Client : link[c] \in Ended => link'[c] \in Ended
  <2>1. PICK d \in Client : d = Head(tasks[t]).c
    BY <1>1, FirstTask DEF IInv
  <2>2. link' = [link EXCEPT ![d] = "gone"]
    BY <2>1 DEF RunRemove
  <2> QED BY <2>2 DEF IInv, LinkInv, LinkTypes, Ended
<1>7. Told'
  BY <1>1, <1>5, <1>6, ToldFrame DEF IInv, simVars, baseVars
<1> QED BY <1>2, <1>3, <1>4, <1>7

LEMMA OnConnectionDownInv ==
  ASSUME IInv, OnConnectionDown
  PROVE  IInv'
<1>1. /\ RunRemove("io") /\ "io" \in Thread /\ UNCHANGED <<wsVars, app, simVars, baseVars>>
      /\ tasks["io"] # << >>
      /\ link' = [link EXCEPT ![Head(tasks["io"]).c] = "gone"] /\ UNCHANGED <<busy, shut, heard>>
  BY LoopFacts DEF OnConnectionDown, RunRemove, NextTask, mode
<1>2. PICK c \in Tcp : c = Head(tasks["io"]).c
  BY <1>1, FirstTask, LoopFacts DEF IInv
<1>3. \A d \in Client : d # c => link'[d] = link[d]
  BY <1>1, <1>2 DEF IInv, LinkInv, LinkTypes
<1>4. TcpInv'
  BY <1>1, <1>2, <1>3, TcpRemoveStep DEF OnConnectionDown, IInv, Client
<1>5. WebInv'
  <2>1. \A d \in Web : link'[d] = link[d]
    BY <1>2, <1>3, ClientAssumption DEF Client
  <2> QED BY <2>1, <1>1, WebLinkStep DEF IInv, wsVars, WebInv, WebTypes, SessionTypes
<1>6. OwedInside'
  BY <1>1, OwedFrame DEF IInv, wsVars
<1>7. InOrder' /\ BatchInv' /\ LinkInv' /\ Told'
  BY <1>1, RunRemoveOrder DEF wsVars
<1> QED BY <1>4, <1>5, <1>6, <1>7 DEF IInv

LEMMA WsRunRemoveInv ==
  ASSUME IInv, WsRunRemove, UNCHANGED <<app, clientVars, simVars, baseVars>>
  PROVE  IInv'
<1>1. /\ RunRemove("ws") /\ "ws" \in Thread /\ UNCHANGED <<session, unacked>>
      /\ tasks["ws"] # << >> /\ busy["ws"] = NoConn
      /\ link' = [link EXCEPT ![Head(tasks["ws"]).c] = "gone"] /\ UNCHANGED <<busy, shut, heard>>
  BY LoopFacts DEF WsRunRemove, RunRemove, NextTask
<1>2. PICK c \in Web : c = Head(tasks["ws"]).c
  BY <1>1, FirstTask, LoopFacts DEF IInv
<1>3. \A d \in Client : d # c => link'[d] = link[d]
  BY <1>1, <1>2 DEF IInv, LinkInv, LinkTypes
<1>4. WsRemove(c) /\ unacked = {}
  BY <1>1, <1>2, NotOwed DEF WsRunRemove, IInv
<1>5. WebInv'
  BY <1>1, <1>3, <1>4, WebRemoveStep DEF IInv, Client, WebInv, WebTypes, SessionTypes
<1>6. TcpInv'
  <2>1. \A d \in Tcp : link'[d] = link[d]
    BY <1>2, <1>3, ClientAssumption DEF Client
  <2> QED BY <2>1, TcpLinkStep DEF IInv, clientVars
<1>7. OwedInside'
  BY <1>1, <1>4, OwedFrame DEF IInv
<1>8. \A d \in Web : subscribed'[d] \subseteq subscribed[d]
  BY <1>4 DEF WsRemove, IInv, WebInv, WebTypes
<1>9. InOrder' /\ BatchInv' /\ LinkInv' /\ Told'
  BY <1>1, <1>4, <1>8, RunRemoveOrder
<1> QED BY <1>5, <1>6, <1>7, <1>9 DEF IInv

\* The simulator hands on the next updates.
LEMMA SimulateInv ==
  ASSUME IInv, Simulate
  PROVE  IInv'
<1>1. /\ UNCHANGED <<linkVars, wsVars, mode, clientVars, baseVars>>
      /\ BatchInv' /\ Now' = Now /\ (queue # << >> => Head(queue') = Head(queue))
  BY BatchSimulate DEF Simulate, IInv
<1>2. /\ UNCHANGED <<link, shut, heard, tasks, busy>>
      /\ UNCHANGED <<session, subscribed, ws_subs, unacked>>
      /\ UNCHANGED <<app, subs, listed, wanted>> /\ UNCHANGED targets
  BY <1>1 DEF linkVars, wsVars, mode, clientVars, baseVars
<1>3. LinkInv' /\ TcpInv' /\ WebInv' /\ OwedInside'
  BY <1>2, LinksFrame, TcpSame, WebQuiet, OwedFrame DEF IInv
<1>4. InOrder'
  BY <1>1, <1>2, OrderFrame, NowType DEF IInv, LinkInv
<1>5. queue # << >> \/ targets = << >>
  BY DEF IInv, BatchInv, Batch
<1>6. Told'
  BY <1>1, <1>2, <1>5, ToldFrame DEF IInv
<1> QED BY <1>1, <1>3, <1>4, <1>6 DEF IInv

\* The base loop takes up an update: it drops from the list of the id who is
\* not connected and queues a send for each of the others.
LEMMA PushToTcpInv ==
  ASSUME IInv, PushToTcp
  PROVE  IInv'
<1>1. /\ queue # << >> /\ base \in {"idle", "batch"} /\ base' = "publish"
      /\ subs' = [subs EXCEPT ![Head(queue).id] = Connected(@)]
      /\ QueueSends("io", Connected(subs[Head(queue).id]),
                    Update(Head(queue).id, Head(queue).n))
      /\ UNCHANGED <<link, shut, busy, wsVars, app, listed, wanted, simVars, targets>>
      /\ UNCHANGED heard /\ "io" \in Thread
  BY LoopFacts DEF PushToTcp, mode, QueueSends
<1>2. PICK x \in Id : x = Head(queue).id /\ Head(queue).n = Now
  BY <1>1, HeadUpdate DEF IInv
<1>3. PICK cs \in Seq(Tcp) : cs = Connected(subs[x])
  <2>1. subs[x] \in Seq(Tcp) /\ Tcp \subseteq Client
    BY DEF IInv, TcpInv, TcpTypes, Client
  <2> QED BY <2>1, ConnectedFacts
<1>4. Now \in Nat
  BY NowType DEF IInv
<1>5. PICK item \in ItemType : item = Update(x, Now)
  BY <1>4, ItemTypes
<1>6. QueueSends("io", cs, item)
  BY <1>1, <1>2, <1>3, <1>5
<1>7. cs \in Seq(Client) /\ \A k \in 1..Len(cs) : LoopOf(cs[k]) = "io"
  BY LoopFacts DEF Client
<1>8. LinkInv'
  BY <1>1, <1>6, <1>7, SendsLinks DEF IInv
<1>9. TcpInv'
  BY <1>1, TcpPruneStep DEF IInv
<1>10. WebInv'
  BY <1>1, WebQuiet DEF IInv, wsVars
<1>11. OwedInside'
  BY <1>1, OwedFrame DEF IInv, wsVars
<1>12. BatchInv' /\ Now' = Now
  BY <1>1, BatchMode DEF IInv, simVars
<1>13. /\ \A u \in Thread : u # "io" => tasks'[u] = tasks[u]
       /\ Len(tasks["io"]) \in Nat /\ Len(cs) \in Nat
       /\ Len(tasks'["io"]) = Len(tasks["io"]) + Len(cs)
       /\ \A k \in 1..Len(tasks["io"]) : tasks'["io"][k] = tasks["io"][k]
       /\ \A k \in 1..Len(cs) : tasks'["io"][Len(tasks["io"]) + k] = Task("send", cs[k], item)
  BY <1>1, <1>6, <1>7, SendsStep DEF IInv, LinkInv
<1>14. InOrder'
  <2>1. ASSUME NEW k \in 1..Len(tasks'["io"]), k > Len(tasks["io"])
        PROVE  tasks'["io"][k].item = Update(x, Now)
    <3>1. k - Len(tasks["io"]) \in 1..Len(cs) /\ k = Len(tasks["io"]) + (k - Len(tasks["io"]))
      BY <1>13, <2>1
    <3>2. tasks'["io"][k] = Task("send", cs[k - Len(tasks["io"])], item)
      BY <1>13, <3>1
    <3> QED BY <3>2, <1>5 DEF Task
  <2>2. Len(tasks'["io"]) \in Nat
    BY <1>13
  <2> QED BY <2>1, <2>2, <1>1, <1>4, <1>12, <1>13, OrderGrow DEF IInv, LinkInv
<1>15. Told'
  <2>1. tasks'["ws"] = tasks["ws"]
    BY <1>13, LoopFacts
  <2> QED BY <2>1, <1>1, ToldFrame DEF IInv, wsVars, simVars
<1> QED BY <1>8, <1>9, <1>10, <1>11, <1>12, <1>14, <1>15 DEF IInv

\* PublishTo collects whom to send it to.
LEMMA PublishCollectInv ==
  ASSUME IInv, PublishCollect
  PROVE  IInv'
<1>1. /\ base = "publish" /\ base' = "send" /\ Collect(Head(queue).id)
      /\ targets' = Connected(ws_subs[Head(queue).id])
      /\ UNCHANGED <<linkVars, session, subscribed, unacked, mode, clientVars, simVars>>
      /\ queue # << >>
  BY DEF PublishCollect, IInv, BatchInv, Batch
<1>2. /\ UNCHANGED <<link, shut, heard, tasks, busy>>
      /\ UNCHANGED <<app, subs, listed, wanted>> /\ UNCHANGED <<next, made, queue>>
  BY <1>1 DEF linkVars, mode, clientVars, simVars
<1>3. LinkInv' /\ TcpInv' /\ OwedInside'
  BY <1>1, <1>2, LinksFrame, TcpSame, OwedFrame DEF IInv
<1>4. WebInv'
  BY <1>1, <1>2, WebCollectStep DEF IInv
<1>5. targets' \in Seq(Web)
  <2>1. Head(queue).id \in Id
    BY <1>1, HeadUpdate DEF IInv
  <2>2. ws_subs[Head(queue).id] \in Seq(Web) /\ Web \subseteq Client
    BY <2>1 DEF IInv, WebInv, WebTypes, Client
  <2> QED BY <2>2, <1>1, ConnectedFacts
<1>6. BatchInv' /\ Now' = Now
  BY <1>1, <1>2, <1>5, BatchTargets DEF IInv
<1>7. InOrder'
  BY <1>2, <1>6, OrderFrame, NowType DEF IInv, LinkInv
<1>8. Told'
  BY <1>1, ToldCollect DEF IInv
<1> QED BY <1>3, <1>4, <1>6, <1>7, <1>8 DEF IInv

\* PublishTo sends it to the next of them.
LEMMA PublishSendInv ==
  ASSUME IInv, PublishSend
  PROVE  IInv'
<1>1. /\ base = "send" /\ targets # << >> /\ targets' = Tail(targets)
      /\ QueueSend(Head(targets), Update(Head(queue).id, Head(queue).n))
      /\ UNCHANGED <<link, shut, busy, wsVars, mode, clientVars, simVars, base>>
      /\ UNCHANGED heard /\ queue # << >>
  BY DEF PublishSend, QueueSend, IInv, BatchInv, Batch
<1>2. PICK x \in Id : x = Head(queue).id /\ Head(queue).n = Now
  BY <1>1, HeadUpdate DEF IInv
<1>3. Now \in Nat
  BY NowType DEF IInv
<1>4. PICK item \in ItemType : item = Update(x, Now)
  BY <1>3, ItemTypes
<1>5. PICK c \in Web : c = Head(targets)
  <2>1. PICK s \in Seq(Web) : s = targets
    BY DEF IInv, BatchInv, BaseTypes
  <2>2. Head(s) \in Web
    BY <2>1, <1>1
  <2> QED BY <2>1, <2>2
<1>6. QueueSends("ws", <<c>>, item) /\ <<c>> \in Seq(Client) /\ Len(<<c>>) = 1
  <2>1. c \in Client /\ LoopOf(c) = "ws"
    BY LoopFacts DEF Client
  <2> QED BY <2>1, <1>1, <1>2, <1>4, <1>5, OneSend DEF IInv, LinkInv
<1>7. "ws" \in Thread /\ \A k \in 1..Len(<<c>>) : LoopOf(<<c>>[k]) = "ws"
  BY <1>6, LoopFacts DEF Client
<1>8. LinkInv'
  BY <1>1, <1>6, <1>7, SendsLinks DEF IInv
<1>9. TcpInv'
  BY <1>1, TcpSame DEF IInv, mode, clientVars
<1>10. WebInv'
  BY <1>1, WebQuiet DEF IInv, wsVars
<1>11. OwedInside'
  BY <1>1, OwedFrame DEF IInv, wsVars
<1>12. BatchInv' /\ Now' = Now
  <2>1. targets' \in Seq(Web)
    <3>1. PICK s \in Seq(Web) : s = targets
      BY DEF IInv, BatchInv, BaseTypes
    <3>2. Tail(s) \in Seq(Web)
      BY <3>1, <1>1
    <3> QED BY <3>1, <3>2, <1>1
  <2> QED BY <2>1, <1>1, BatchTargets DEF IInv, simVars
<1>13. /\ \A u \in Thread : u # "ws" => tasks'[u] = tasks[u]
       /\ Len(tasks["ws"]) \in Nat
       /\ Len(tasks'["ws"]) = Len(tasks["ws"]) + 1
       /\ \A k \in 1..Len(tasks["ws"]) : tasks'["ws"][k] = tasks["ws"][k]
       /\ tasks'["ws"][Len(tasks["ws"]) + 1] = Task("send", c, item)
  <2>1. PICK one \in Seq(Client) : one = <<c>> /\ Len(one) = 1 /\ one[1] = c
    BY <1>6
  <2>2. QueueSends("ws", one, item)
    BY <2>1, <1>6
  <2>3. /\ \A u \in Thread : u # "ws" => tasks'[u] = tasks[u]
        /\ Len(tasks["ws"]) \in Nat
        /\ Len(tasks'["ws"]) = Len(tasks["ws"]) + Len(one)
        /\ \A k \in 1..Len(tasks["ws"]) : tasks'["ws"][k] = tasks["ws"][k]
        /\ \A k \in 1..Len(one) : tasks'["ws"][Len(tasks["ws"]) + k] = Task("send", one[k], item)
    BY <2>2, <1>7, SendsStep DEF IInv, LinkInv
  <2>4. 1 \in 1..Len(one)
    BY <2>1
  <2>5. tasks'["ws"][Len(tasks["ws"]) + 1] = Task("send", one[1], item)
    BY <2>3, <2>4
  <2> QED BY <2>1, <2>3, <2>5
<1>14. InOrder'
  <2>1. ASSUME NEW k \in 1..Len(tasks'["ws"]), k > Len(tasks["ws"])
        PROVE  tasks'["ws"][k].item = Update(x, Now)
    <3>1. k = Len(tasks["ws"]) + 1
      BY <1>13, <2>1
    <3> QED BY <3>1, <1>13, <1>4 DEF Task
  <2>2. Len(tasks'["ws"]) \in Nat
    BY <1>13
  <2> QED BY <2>1, <2>2, <1>1, <1>3, <1>7, <1>12, <1>13, OrderGrow DEF IInv, LinkInv
<1>15. Told'
  BY <1>1, ToldPublish DEF IInv
<1> QED BY <1>8, <1>9, <1>10, <1>11, <1>12, <1>14, <1>15 DEF IInv

\* The update is done.
LEMMA PublishEndInv ==
  ASSUME IInv, PublishEnd
  PROVE  IInv'
<1>1. /\ UNCHANGED <<linkVars, wsVars, mode, clientVars, targets>> /\ targets = << >>
  BY DEF PublishEnd
<1>2. /\ UNCHANGED <<link, shut, heard, tasks, busy>>
      /\ UNCHANGED <<session, subscribed, ws_subs, unacked>>
      /\ UNCHANGED <<app, subs, listed, wanted>>
  BY <1>1 DEF linkVars, wsVars, mode, clientVars
<1>3. LinkInv' /\ TcpInv' /\ WebInv' /\ OwedInside'
  BY <1>2, LinksFrame, TcpSame, WebQuiet, OwedFrame DEF IInv
<1>4. BatchInv' /\ Now' = Now + 1
  BY BatchEnd DEF IInv
<1>5. InOrder'
  BY <1>2, <1>4, OrderFrame, NowType DEF IInv, LinkInv
<1>6. Told'
  BY <1>1, <1>2, ToldFrame DEF IInv
<1> QED BY <1>3, <1>4, <1>5, <1>6 DEF IInv

-----------------------------------------------------------------------------
(* The invariant of the program.                                           *)

LEMMA InitIInv == Init => IInv
<1> SUFFICES ASSUME Init PROVE IInv
  OBVIOUS
<1>1. LinkInv
  BY LoopFacts DEF Init, LinkInit, LinkInv, LinkTypes, Loops
<1>2. TcpInv
  <2>1. TcpTypes
    BY DEF Init, TcpTypes
  <2>2. \A c \in Tcp : link[c] = "none" /\ wanted[c] = << >>
    BY DEF Init, LinkInit, Client
  <2>3. ASSUME NEW c \in Tcp, NEW i \in Id
        PROVE  Times(c, subs[i]) = 0 /\ Times(i, wanted[c]) = 0
    BY <2>2, TimesEmpty DEF Init
  <2>4. listed = wanted
    BY DEF Init
  <2> QED BY <2>1, <2>2, <2>3, <2>4 DEF TcpInv, TcpIndex, IsConnected
<1>3. WebInv
  <2>1. WebTypes
    BY DEF Init, WsInit, WebTypes
  <2>2. \A c \in Web : link[c] = "none" /\ subscribed[c] = {}
    BY DEF Init, LinkInit, WsInit, Client
  <2>3. ASSUME NEW c \in Web, NEW i \in Id
        PROVE  Times(c, ws_subs[i]) = 0
    BY TimesEmpty DEF Init, WsInit
  <2> QED BY <2>1, <2>2, <2>3 DEF WebInv, WebIndex, WsIndexIsTrue, IsConnected
<1>4. OwedInside
  BY DEF Init, WsInit, OwedInside
<1>5. BatchInv
  BY Numbers DEF Init, BatchInv, BaseTypes, Batch
<1>6. InOrder
  <2>1. \A t \in Thread : Len(tasks[t]) = 0
    BY DEF Init, LinkInit
  <2>2. \A c \in Client : Len(heard[c]) = 0
    BY DEF Init, LinkInit
  <2> QED BY <2>1, <2>2 DEF InOrder, TasksInOrder, HeardInOrder
<1>7. Told
  <2>1. "ws" \in Thread /\ Len(tasks["ws"]) = 0 /\ Len(targets) = 0
    BY LoopFacts DEF Init, LinkInit
  <2>2. \A c \in Web : Len(heard[c]) = 0 /\ subscribed[c] = {}
    BY DEF Init, LinkInit, WsInit, Client
  <2> QED BY <2>1, <2>2 DEF Told, ToldIndex, ToldTasks, ToldTargets, ToldHeard
<1> QED BY <1>1, <1>2, <1>3, <1>4, <1>5, <1>6, <1>7 DEF IInv

LEMMA RequestInv ==
  ASSUME IInv, Request
  PROVE  IInv'
<1>1. ASSUME NEW c \in Tcp, BeginMessage(c) \/ CloseThenRead(c),
             UNCHANGED <<wsVars, mode, clientVars, simVars, baseVars, beatVars>>
      PROVE  IInv'
  BY <1>1, BeginSteps, CloseSteps DEF Client, mode
<1>2. ASSUME NEW c \in Tcp, HandleLogin(c) \/ HandlePing(c)
      PROVE  IInv'
  BY <1>2, SimpleSteps
<1>3. ASSUME NEW c \in Tcp, BadLength(c)
      PROVE  IInv'
  BY <1>3, TcpEnd DEF BadLength, mode
<1>4. ASSUME NEW c \in Tcp, NEW list \in Lists, HandleSubscribe(c, list)
      PROVE  IInv'
  BY <1>4, TcpIndexSteps
<1>5. ASSUME NEW c \in Web, WsRequest(c, Lists),
             UNCHANGED <<mode, clientVars, simVars, baseVars, beatVars>>
      PROVE  IInv'
  <2>1. UNCHANGED <<app, clientVars, simVars, baseVars>> /\ c \in Client
    BY <1>5 DEF mode, Client
  <2>2. CASE (BeginMessage(c) \/ CloseThenRead(c)) /\ UNCHANGED wsVars
    BY <2>1, <2>2, BeginSteps, CloseSteps
  <2>3. CASE Handshake(c) \/ RefuseHandshake(c) \/ Reply(c) \/ Unsupported(c)
    BY <2>1, <2>3, HandshakeSteps
  <2>4. ASSUME NEW list \in Lists, Subscribe(c, list)
        PROVE  IInv'
    <3>1. list \in Seq(Nat)
      BY PushAssumption
    <3> QED BY <3>1, <2>1, <2>4, WebSubscribeInv
  <2>5. CASE CloseFrame(c)
    BY <2>1, <2>5, CloseFrameStep
  <2> QED BY <1>5, <2>2, <2>3, <2>4, <2>5 DEF WsRequest
<1> QED BY <1>1, <1>2, <1>3, <1>4, <1>5 DEF Request

LEMMA LoopStepsInv ==
  ASSUME IInv, IoStep \/ WebStep
  PROVE  IInv'
<1>1. ASSUME IoStep PROVE IInv'
  <2>1. UNCHANGED <<wsVars, app, clientVars, simVars, baseVars>>
    BY <1>1 DEF IoStep, mode
  <2>2. ASSUME NEW c \in Tcp, EndMessage(c)
        PROVE  IInv'
    BY <2>1, <2>2, TcpEnd DEF clientVars
  <2>3. ASSUME NEW c \in Tcp, HandleClose(c)
        PROVE  IInv'
    BY <2>1, <2>3, CloseSteps DEF Client
  <2>4. ASSUME RunSend("io")
        PROVE  IInv'
    BY <2>1, <2>4, RunSendInv, LoopFacts
  <2> QED BY <1>1, <2>2, <2>3, <2>4 DEF IoStep
<1>2. ASSUME WebStep PROVE IInv'
  <2>1. WsStep /\ UNCHANGED <<app, clientVars, simVars, baseVars>>
    BY <1>2 DEF WebStep, mode
  <2>2. ASSUME NEW c \in Web, WsEnd(c) PROVE IInv'
    BY <2>1, <2>2, WebEnd
  <2>3. ASSUME NEW c \in Web, Acknowledge(c) PROVE IInv'
    BY <2>1, <2>3, AcknowledgeInv
  <2>4. ASSUME NEW c \in Web, HandleClose(c), UNCHANGED wsVars PROVE IInv'
    BY <2>1, <2>4, CloseSteps DEF Client
  <2>5. ASSUME NEW c \in Web, Connect(c), UNCHANGED wsVars PROVE IInv'
    BY <2>1, <2>5, ConnectSteps DEF Client
  <2>6. ASSUME WsRunRemove PROVE IInv'
    BY <2>1, <2>6, WsRunRemoveInv
  <2>7. ASSUME RunSend("ws"), UNCHANGED wsVars PROVE IInv'
    BY <2>1, <2>7, RunSendInv, LoopFacts
  <2> QED BY <2>1, <2>2, <2>3, <2>4, <2>5, <2>6, <2>7 DEF WsStep
<1> QED BY <1>1, <1>2

LEMMA NextIInv == IInv /\ [Next]_vars => IInv'
<1> SUFFICES ASSUME IInv, [Next]_vars PROVE IInv'
  OBVIOUS
<1>1. CASE Start \/ RunLoop \/ Tick \/ CheckBegin \/ UNCHANGED vars
  BY <1>1, SimpleSteps
<1>2. ASSUME NEW c \in Tcp, OnConnectionUp(c) PROVE IInv'
  BY <1>2, ConnectSteps DEF OnConnectionUp, Client, mode
<1>3. CASE OnConnectionDown
  BY <1>3, OnConnectionDownInv
<1>4. CASE Request
  BY <1>4, RequestInv
<1>5. CASE IoStep \/ WebStep
  BY <1>5, LoopStepsInv
<1>6. CASE Simulate
  BY <1>6, SimulateInv
<1>7. CASE BaseTasks
  BY <1>7, PushToTcpInv, PublishCollectInv, PublishSendInv, PublishEndInv DEF BaseTasks
<1>8. CASE CheckStep
  BY <1>8, SimpleSteps, TcpIndexSteps DEF CheckStep
<1> QED BY <1>1, <1>2, <1>3, <1>4, <1>5, <1>6, <1>7, <1>8 DEF Next

\* In every reachable state the parts of the invariant hold together.
THEOREM Invariance == Spec => []IInv
<1>1. Init => IInv
  BY InitIInv
<1>2. IInv /\ [Next]_vars => IInv'
  BY NextIInv
<1> QED BY <1>1, <1>2, PTL DEF Spec

\* Both indexes are true at every moment, whatever is subscribed, closed, cut
\* or pruned: a connection that is up has in the list of an id one entry for
\* every occurrence of the id in its last SUBSCRIBE, one that has closed at
\* most that, and one whose callback has run none (OnConnection and
\* ForEachSubscriber of both servers, UpdateSubscriptions, RemoveConnection).
THEOREM IndexStaysTrue == Spec => []IndexIsTrue
<1>1. IInv => IndexIsTrue
  BY DEF IInv, TcpInv, TcpIndex, WebInv, WebIndex, IndexIsTrue
<1> QED BY <1>1, Invariance, PTL

\* What a client is written comes in the order in which it was made, through
\* the simulator's tasks, the base loop and the queue of the client's loop,
\* and a web client has the acknowledgement of a subscription before it sees
\* an update of it (PublishTo against HandleSubscribe).
THEOREM StreamsMakeSense == Spec => []StreamMakesSense
<1>1. IInv => StreamMakesSense
  <2> SUFFICES ASSUME IInv, NEW c \in Client, NEW j \in 1..Len(heard[c]),
                      heard[c][j].kind = "update"
               PROVE  /\ \A i \in 1..(j - 1) : heard[c][i].n <= heard[c][j].n
                      /\ c \in Web => \E i \in 1..(j - 1) :
                           heard[c][i].kind = "ack" /\ heard[c][j].ids \subseteq heard[c][i].ids
    BY DEF StreamMakesSense
  <2>1. \A i \in 1..(j - 1) : heard[c][i].n <= heard[c][j].n
    BY DEF IInv, InOrder, HeardInOrder
  <2>2. c \in Web => \E i \in 1..(j - 1) :
                       heard[c][i].kind = "ack" /\ heard[c][j].ids \subseteq heard[c][i].ids
    BY ToldNow DEF IInv
  <2> QED BY <2>1, <2>2
<1> QED BY <1>1, Invariance, PTL

=============================================================================
