-------------------------- MODULE HttpServerProofs --------------------------
(***************************************************************************)
(* For any sizes of the buffer's block, of extrabuf and of the requests,   *)
(* and any segmentation: the buffer holds the unread end of the stream, no *)
(* complete request waits in it for more data, and, as long as no segment  *)
(* ends inside a request, the requests are answered in order.              *)
(***************************************************************************)
EXTENDS HttpServer, SequenceTheorems, WellFoundedInduction, TLAPS

-----------------------------------------------------------------------------
(* The buffer: what each operation does to the readable units.             *)

\* b1 holds the units of b.
Keeps(b1, b) ==
  /\ Readable(b1) = Readable(b)
  /\ \A i \in 0..(Readable(b) - 1) : b1.store[b1.reader + i] = b.store[b.reader + i]

\* b1 holds the units of b and then those of data.
Holding(b1, b, data) ==
  /\ Readable(b1) = Readable(b) + Len(data)
  /\ \A i \in 0..(Readable(b) - 1) : b1.store[b1.reader + i] = b.store[b.reader + i]
  /\ \A i \in 0..(Len(data) - 1) : b1.store[b1.reader + Readable(b) + i] = data[i + 1]

\* The arrays: storing behind w, and moving the n units from r on.
StoredArray(f, k, w, data) ==
  [i \in 0..(k - 1) |-> IF w <= i /\ i < w + Len(data) THEN data[i - w + 1] ELSE f[i]]

MovedArray(f, k, r, n, size) ==
  [i \in 0..(size - 1) |->
     IF Prepend <= i /\ i < Prepend + n THEN f[r + (i - Prepend)]
     ELSE IF i < k THEN f[i] ELSE Blank]

LEMMA StoredArrayFacts ==
  ASSUME NEW U, NEW k \in Nat, NEW w \in Nat, NEW f \in [0..(k - 1) -> U],
         NEW data \in Seq(U), w + Len(data) <= k
  PROVE  /\ StoredArray(f, k, w, data) \in [0..(k - 1) -> U]
         /\ \A i \in 0..(w - 1) : StoredArray(f, k, w, data)[i] = f[i]
         /\ \A i \in 0..(Len(data) - 1) : StoredArray(f, k, w, data)[w + i] = data[i + 1]
<1>1. PICK n \in Nat : n = Len(data)
  BY LenProperties
<1>2. \A i \in 1..n : data[i] \in U
  BY <1>1, ElementOfSeq
<1> DEFINE st == [i \in 0..(k - 1) |-> IF w <= i /\ i < w + n THEN data[i - w + 1] ELSE f[i]]
<1>3. StoredArray(f, k, w, data) = st
  BY <1>1 DEF StoredArray
<1>4. w + n <= k
  BY <1>1
<1>5. ASSUME NEW i \in 0..(k - 1)
      PROVE  (IF w <= i /\ i < w + n THEN data[i - w + 1] ELSE f[i]) \in U
  <2>1. CASE w <= i /\ i < w + n
    <3>1. i - w + 1 \in 1..n
      BY <2>1
    <3>2. data[i - w + 1] \in U
      BY <1>2, <3>1
    <3> QED BY <2>1, <3>2
  <2>2. CASE ~(w <= i /\ i < w + n)
    BY <2>2
  <2> QED BY <2>1, <2>2
<1>6. st \in [0..(k - 1) -> U]
  BY <1>5
<1>7. ASSUME NEW i \in 0..(w - 1) PROVE st[i] = f[i]
  <2>1. i \in 0..(k - 1) /\ ~(w <= i)
    BY <1>4
  <2> QED BY <2>1
<1>8. ASSUME NEW i \in 0..(n - 1) PROVE st[w + i] = data[i + 1]
  <2>1. w + i \in 0..(k - 1) /\ w <= w + i /\ w + i < w + n /\ (w + i) - w + 1 = i + 1
    BY <1>4
  <2>2. st[w + i] = data[(w + i) - w + 1]
    BY <2>1
  <2> QED BY <2>1, <2>2
<1> HIDE DEF st
<1> QED BY <1>1, <1>3, <1>6, <1>7, <1>8

LEMMA MovedArrayFacts ==
  ASSUME NEW U, Blank \in U, NEW k \in Nat, NEW r \in Nat, NEW n \in Nat, NEW size \in Nat,
         NEW f \in [0..(k - 1) -> U], r + n <= k, Prepend + n <= size
  PROVE  /\ MovedArray(f, k, r, n, size) \in [0..(size - 1) -> U]
         /\ \A i \in 0..(n - 1) : MovedArray(f, k, r, n, size)[Prepend + i] = f[r + i]
<1>1. Prepend \in Nat
  BY BufferAssumption
<1>2. ASSUME NEW i \in 0..(size - 1)
      PROVE  (IF Prepend <= i /\ i < Prepend + n THEN f[r + (i - Prepend)]
              ELSE IF i < k THEN f[i] ELSE Blank) \in U
  <2>1. CASE Prepend <= i /\ i < Prepend + n
    <3>1. r + (i - Prepend) \in 0..(k - 1)
      BY <1>1, <2>1
    <3>2. f[r + (i - Prepend)] \in U
      BY <3>1
    <3> QED BY <2>1, <3>2
  <2>2. CASE ~(Prepend <= i /\ i < Prepend + n) /\ i < k
    <3>1. i \in 0..(k - 1)
      BY <2>2
    <3> QED BY <2>2, <3>1
  <2>3. CASE ~(Prepend <= i /\ i < Prepend + n) /\ ~(i < k)
    BY <2>3
  <2> QED BY <2>1, <2>2, <2>3
<1>3. MovedArray(f, k, r, n, size) \in [0..(size - 1) -> U]
  BY <1>2 DEF MovedArray
<1>4. ASSUME NEW i \in 0..(n - 1)
      PROVE  MovedArray(f, k, r, n, size)[Prepend + i] = f[r + i]
  <2>1. /\ Prepend + i \in 0..(size - 1) /\ Prepend <= Prepend + i /\ Prepend + i < Prepend + n
        /\ r + ((Prepend + i) - Prepend) = r + i
    BY <1>1
  <2>2. MovedArray(f, k, r, n, size)[Prepend + i] = f[r + ((Prepend + i) - Prepend)]
    BY <2>1 DEF MovedArray
  <2> QED BY <2>1, <2>2
<1> QED BY <1>3, <1>4

LEMMA BufferTypes ==
  ASSUME NEW U, NEW b, IsBuffer(b, U)
  PROVE  /\ b.cap \in Nat /\ b.reader \in Nat /\ b.writer \in Nat
         /\ b.store \in [0..(b.cap - 1) -> U]
         /\ Prepend \in Nat /\ Prepend <= b.reader
         /\ b.reader <= b.writer /\ b.writer <= b.cap
         /\ Readable(b) \in Nat /\ Readable(b) = b.writer - b.reader
         /\ Writable(b) \in Nat /\ Writable(b) = b.cap - b.writer
BY BufferAssumption DEF IsBuffer, Readable, Writable

LEMMA StoreFields ==
  ASSUME NEW U, NEW b, IsBuffer(b, U), NEW data \in Seq(U)
  PROVE  /\ Store(b, data).store = StoredArray(b.store, b.cap, b.writer, data)
         /\ Store(b, data).cap = b.cap /\ Store(b, data).reader = b.reader
         /\ Store(b, data).writer = b.writer + Len(data)
         /\ Store(b, data) \in [store : {Store(b, data).store}, cap : Nat, reader : Nat,
                                writer : Nat, pooled : BOOLEAN]
<1>1. PICK s : s = StoredArray(b.store, b.cap, b.writer, data)
  OBVIOUS
<1>2. PICK w \in Nat : w = b.writer + Len(data)
  <2>1. b.writer \in Nat /\ Len(data) \in Nat
    BY BufferTypes, LenProperties
  <2> QED BY <2>1
<1>3. DOMAIN b.store = 0..(b.cap - 1)
  BY DEF IsBuffer
<1>4. Store(b, data) = [b EXCEPT !.store = s, !.writer = w]
  BY <1>1, <1>2, <1>3 DEF Store, StoredArray, IsBuffer
<1>5. b \in [store : {b.store}, cap : Nat, reader : Nat, writer : Nat, pooled : BOOLEAN]
  BY DEF IsBuffer
<1>6. PICK c : c = [b EXCEPT !.store = s, !.writer = w]
  OBVIOUS
<1>7. /\ c.store = s /\ c.cap = b.cap /\ c.reader = b.reader /\ c.writer = w
      /\ c \in [store : {c.store}, cap : Nat, reader : Nat, writer : Nat, pooled : BOOLEAN]
  BY <1>5, <1>6
<1> QED BY <1>1, <1>2, <1>4, <1>6, <1>7

LEMMA StoreFacts ==
  ASSUME NEW U, NEW b, IsBuffer(b, U), NEW data \in Seq(U), Len(data) <= Writable(b)
  PROVE  IsBuffer(Store(b, data), U) /\ Holding(Store(b, data), b, data)
<1>1. PICK c : c = Store(b, data)
  OBVIOUS
<1>2. PICK n \in Nat : n = Len(data)
  BY LenProperties
<1>3. PICK k \in Nat, r \in Nat, w \in Nat : k = b.cap /\ r = b.reader /\ w = b.writer
  BY BufferTypes
<1>4. PICK f \in [0..(k - 1) -> U] : f = b.store
  BY <1>3, BufferTypes
<1>5. /\ Prepend \in Nat /\ Prepend <= r /\ r <= w /\ w + n <= k
      /\ Readable(b) = w - r
  BY <1>2, <1>3, BufferTypes DEF Writable
<1>6. PICK st : st = StoredArray(f, k, w, data)
  OBVIOUS
<1>7. /\ st \in [0..(k - 1) -> U]
      /\ \A i \in 0..(w - 1) : st[i] = f[i]
      /\ \A i \in 0..(n - 1) : st[w + i] = data[i + 1]
  <2>1. w + Len(data) <= k
    BY <1>2, <1>5
  <2>2. /\ StoredArray(f, k, w, data) \in [0..(k - 1) -> U]
        /\ \A i \in 0..(w - 1) : StoredArray(f, k, w, data)[i] = f[i]
        /\ \A i \in 0..(Len(data) - 1) : StoredArray(f, k, w, data)[w + i] = data[i + 1]
    BY <2>1, StoredArrayFacts, SMTT(40)
  <2> QED BY <1>2, <1>6, <2>2
<1>8. /\ c.store = st /\ c.cap = k /\ c.reader = r /\ c.writer = w + n
      /\ c \in [store : {c.store}, cap : Nat, reader : Nat, writer : Nat, pooled : BOOLEAN]
  BY <1>1, <1>2, <1>3, <1>4, <1>6, StoreFields
<1>9. IsBuffer(c, U)
  <2>1. r <= w + n
    BY <1>5
  <2>2. c.store \in [0..(c.cap - 1) -> U]
    BY <1>7, <1>8
  <2> QED BY <1>5, <1>8, <2>1, <2>2 DEF IsBuffer
<1>10. Holding(c, b, data)
  <2>1. Readable(c) = Readable(b) + n
    BY <1>5, <1>8 DEF Readable
  <2>2. ASSUME NEW i \in 0..(Readable(b) - 1)
        PROVE  c.store[c.reader + i] = b.store[b.reader + i]
    <3>1. r + i \in 0..(w - 1)
      BY <1>5
    <3> QED BY <1>3, <1>4, <1>7, <1>8, <3>1
  <2>3. ASSUME NEW i \in 0..(n - 1)
        PROVE  c.store[c.reader + Readable(b) + i] = data[i + 1]
    <3>1. r + Readable(b) + i = w + i
      BY <1>5
    <3> QED BY <1>7, <1>8, <3>1
  <2> QED BY <1>2, <2>1, <2>2, <2>3 DEF Holding
<1> QED BY <1>1, <1>9, <1>10

LEMMA MovedFields ==
  ASSUME NEW U, NEW b, IsBuffer(b, U), NEW size \in Nat
  PROVE  /\ Moved(b, size).store = MovedArray(b.store, b.cap, b.reader, Readable(b), size)
         /\ Moved(b, size).cap = size /\ Moved(b, size).reader = Prepend
         /\ Moved(b, size).writer = Prepend + Readable(b)
         /\ Moved(b, size).pooled = b.pooled
         /\ Moved(b, size) \in [store : {Moved(b, size).store}, cap : Nat, reader : Nat,
                                writer : Nat, pooled : BOOLEAN]
<1>1. PICK s : s = MovedArray(b.store, b.cap, b.reader, Readable(b), size)
  OBVIOUS
<1>2. PICK w \in Nat : w = Prepend + Readable(b)
  BY BufferTypes
<1>3. Moved(b, size) = [b EXCEPT !.store = s, !.cap = size, !.reader = Prepend, !.writer = w]
  BY <1>1, <1>2 DEF Moved, MovedArray
<1>4. /\ b \in [store : {b.store}, cap : Nat, reader : Nat, writer : Nat, pooled : BOOLEAN]
      /\ Prepend \in Nat
  BY BufferTypes DEF IsBuffer
<1>5. PICK c : c = [b EXCEPT !.store = s, !.cap = size, !.reader = Prepend, !.writer = w]
  OBVIOUS
<1>6. /\ c.store = s /\ c.cap = size /\ c.reader = Prepend /\ c.writer = w
      /\ c \in [store : {c.store}, cap : Nat, reader : Nat, writer : Nat, pooled : BOOLEAN]
  BY <1>4, <1>5
<1>7. c.pooled = b.pooled
  BY <1>4, <1>5, Zenon
<1> QED BY <1>1, <1>2, <1>3, <1>5, <1>6, <1>7

LEMMA MovedFacts ==
  ASSUME NEW U, NEW b, IsBuffer(b, U), Blank \in U, NEW size \in Nat,
         size >= Prepend + Readable(b)
  PROVE  /\ IsBuffer(Moved(b, size), U) /\ Keeps(Moved(b, size), b)
         /\ Moved(b, size).cap = size /\ Moved(b, size).writer = Prepend + Readable(b)
<1>1. PICK c : c = Moved(b, size)
  OBVIOUS
<1>2. PICK k \in Nat, r \in Nat, w \in Nat, n \in Nat :
        k = b.cap /\ r = b.reader /\ w = b.writer /\ n = Readable(b)
  BY BufferTypes
<1>3. PICK f \in [0..(k - 1) -> U] : f = b.store
  BY <1>2, BufferTypes
<1>4. /\ Prepend \in Nat /\ r + n <= k /\ Prepend + n <= size
  BY <1>2, BufferTypes
<1>5. PICK st : st = MovedArray(f, k, r, n, size)
  OBVIOUS
<1>6. /\ st \in [0..(size - 1) -> U]
      /\ \A i \in 0..(n - 1) : st[Prepend + i] = f[r + i]
  <2> HIDE <1>2, <1>3
  <2>1. r + n <= k /\ Prepend + n <= size
    BY <1>4
  <2>2. MovedArray(f, k, r, n, size) \in [0..(size - 1) -> U]
    BY <2>1, MovedArrayFacts, SMTT(40)
  <2>3. \A i \in 0..(n - 1) : MovedArray(f, k, r, n, size)[Prepend + i] = f[r + i]
    BY <2>1, MovedArrayFacts, SMTT(40)
  <2> QED BY <1>5, <2>2, <2>3
<1>7. /\ c.store = st /\ c.cap = size /\ c.reader = Prepend /\ c.writer = Prepend + n
      /\ c \in [store : {c.store}, cap : Nat, reader : Nat, writer : Nat, pooled : BOOLEAN]
  BY <1>1, <1>2, <1>3, <1>5, MovedFields
<1>8. IsBuffer(c, U)
  <2>1. Prepend <= Prepend + n /\ Prepend <= Prepend
    BY <1>4
  <2>2. c.store \in [0..(c.cap - 1) -> U]
    BY <1>6, <1>7
  <2> QED BY <1>4, <1>7, <2>1, <2>2 DEF IsBuffer
<1>9. Keeps(c, b)
  <2>1. Readable(c) = n
    BY <1>4, <1>7 DEF Readable
  <2> QED BY <1>2, <1>3, <1>6, <1>7, <2>1 DEF Keeps
<1> QED BY <1>1, <1>2, <1>7, <1>8, <1>9

ResizedArray(f, k, size) == [i \in 0..(size - 1) |-> IF i < k THEN f[i] ELSE Blank]

LEMMA ResizedFields ==
  ASSUME NEW U, NEW b, IsBuffer(b, U), NEW size \in Nat
  PROVE  /\ Resized(b, size).store = ResizedArray(b.store, b.cap, size)
         /\ Resized(b, size).cap = size /\ Resized(b, size).reader = b.reader
         /\ Resized(b, size).writer = b.writer
         /\ Resized(b, size) \in [store : {Resized(b, size).store}, cap : Nat, reader : Nat,
                                  writer : Nat, pooled : BOOLEAN]
<1>1. PICK s : s = ResizedArray(b.store, b.cap, size)
  OBVIOUS
<1>2. Resized(b, size) = [b EXCEPT !.store = s, !.cap = size]
  BY <1>1 DEF Resized, ResizedArray
<1>3. b \in [store : {b.store}, cap : Nat, reader : Nat, writer : Nat, pooled : BOOLEAN]
  BY DEF IsBuffer
<1>4. PICK c : c = [b EXCEPT !.store = s, !.cap = size]
  OBVIOUS
<1>5. /\ c.store = s /\ c.cap = size /\ c.reader = b.reader /\ c.writer = b.writer
      /\ c \in [store : {c.store}, cap : Nat, reader : Nat, writer : Nat, pooled : BOOLEAN]
  BY <1>3, <1>4
<1> QED BY <1>1, <1>2, <1>4, <1>5

LEMMA ResizedFacts ==
  ASSUME NEW U, NEW b, IsBuffer(b, U), Blank \in U, NEW size \in Nat, size >= b.writer
  PROVE  /\ IsBuffer(Resized(b, size), U) /\ Keeps(Resized(b, size), b)
         /\ Resized(b, size).cap = size /\ Resized(b, size).writer = b.writer
<1>1. PICK c : c = Resized(b, size)
  OBVIOUS
<1>2. PICK k \in Nat, r \in Nat, w \in Nat : k = b.cap /\ r = b.reader /\ w = b.writer
  BY BufferTypes
<1>3. PICK f \in [0..(k - 1) -> U] : f = b.store
  BY <1>2, BufferTypes
<1>4. /\ Prepend \in Nat /\ Prepend <= r /\ r <= w /\ w <= k /\ w <= size
      /\ Readable(b) = w - r
  BY <1>2, BufferTypes
<1>5. PICK st : st = ResizedArray(f, k, size)
  OBVIOUS
<1>6. st \in [0..(size - 1) -> U]
  <2>1. ASSUME NEW i \in 0..(size - 1) PROVE (IF i < k THEN f[i] ELSE Blank) \in U
    OBVIOUS
  <2> QED BY <1>5, <2>1 DEF ResizedArray
<1>7. ASSUME NEW i \in 0..(w - 1) PROVE st[i] = f[i]
  <2>1. i \in 0..(size - 1) /\ i < k
    BY <1>4
  <2> QED BY <1>5, <2>1 DEF ResizedArray
<1>8. /\ c.store = st /\ c.cap = size /\ c.reader = r /\ c.writer = w
      /\ c \in [store : {c.store}, cap : Nat, reader : Nat, writer : Nat, pooled : BOOLEAN]
  BY <1>1, <1>2, <1>3, <1>5, ResizedFields
<1>9. IsBuffer(c, U)
  <2>1. c.store \in [0..(c.cap - 1) -> U]
    BY <1>6, <1>8
  <2> QED BY <1>4, <1>8, <2>1 DEF IsBuffer
<1>10. Keeps(c, b)
  <2>1. Readable(c) = Readable(b)
    BY <1>4, <1>8 DEF Readable
  <2>2. ASSUME NEW i \in 0..(Readable(b) - 1)
        PROVE  c.store[c.reader + i] = b.store[b.reader + i]
    <3>1. r + i \in 0..(w - 1)
      BY <1>4
    <3> QED BY <1>2, <1>3, <1>7, <1>8, <3>1
  <2> QED BY <2>1, <2>2 DEF Keeps
<1> QED BY <1>1, <1>2, <1>8, <1>9, <1>10

\* Leaving the pool changes nothing else.
LEMMA OffPoolFacts ==
  ASSUME NEW U, NEW b, IsBuffer(b, U)
  PROVE  LET c == [b EXCEPT !.pooled = FALSE]
         IN IsBuffer(c, U) /\ Keeps(c, b) /\ c.cap = b.cap /\ c.writer = b.writer
<1>1. PICK c : c = [b EXCEPT !.pooled = FALSE]
  OBVIOUS
<1>2. b \in [store : {b.store}, cap : Nat, reader : Nat, writer : Nat, pooled : BOOLEAN]
  BY DEF IsBuffer
<1>3. /\ c.store = b.store /\ c.cap = b.cap /\ c.reader = b.reader /\ c.writer = b.writer
      /\ c \in [store : {c.store}, cap : Nat, reader : Nat, writer : Nat, pooled : BOOLEAN]
  BY <1>1, <1>2
<1>4. IsBuffer(c, U)
  BY <1>3 DEF IsBuffer
<1>5. Keeps(c, b)
  BY <1>3, BufferTypes DEF Keeps, Readable
<1> QED BY <1>1, <1>3, <1>4, <1>5

LEMMA EnsureWritableFacts ==
  ASSUME NEW U, NEW b, IsBuffer(b, U), Blank \in U, NEW n \in Nat
  PROVE  /\ IsBuffer(EnsureWritable(b, n), U) /\ Keeps(EnsureWritable(b, n), b)
         /\ n <= Writable(EnsureWritable(b, n))
<1>1. /\ b.cap \in Nat /\ b.reader \in Nat /\ b.writer \in Nat
      /\ Prepend \in Nat /\ Prepend <= b.reader
      /\ b.reader <= b.writer /\ b.writer <= b.cap
      /\ Readable(b) \in Nat /\ Readable(b) = b.writer - b.reader
      /\ Writable(b) \in Nat /\ Writable(b) = b.cap - b.writer
  BY BufferTypes
<1>2. CASE Writable(b) >= n
  <2>1. EnsureWritable(b, n) = b
    BY <1>1, <1>2 DEF EnsureWritable
  <2> QED BY <1>2, <2>1 DEF Keeps
<1>3. CASE Writable(b) < n /\ Writable(b) + b.reader - Prepend >= n
  <2>1. EnsureWritable(b, n) = Moved(b, b.cap)
    BY <1>3 DEF EnsureWritable, MakeSpace
  <2>2. b.cap >= Prepend + Readable(b)
    BY <1>1
  <2>3. PICK c : c = Moved(b, b.cap)
    OBVIOUS
  <2>4. /\ IsBuffer(c, U) /\ Keeps(c, b)
        /\ c.cap = b.cap /\ c.writer = Prepend + Readable(b)
    BY <1>1, <2>2, <2>3, MovedFacts
  <2>5. n <= Writable(c)
    BY <1>1, <1>3, <2>4 DEF Writable
  <2> QED BY <2>1, <2>3, <2>4, <2>5
<1>4. CASE /\ Writable(b) < n /\ ~(Writable(b) + b.reader - Prepend >= n)
           /\ b.pooled
  <2>1. EnsureWritable(b, n) = [Moved(b, Prepend + Readable(b) + n) EXCEPT !.pooled = FALSE]
    BY <1>4 DEF EnsureWritable, MakeSpace
  <2>2. PICK size \in Nat : size = Prepend + Readable(b) + n
    BY <1>1
  <2>3. size >= Prepend + Readable(b)
    BY <1>1, <2>2
  <2>4. PICK c : c = Moved(b, size)
    OBVIOUS
  <2>5. /\ IsBuffer(c, U) /\ Keeps(c, b)
        /\ c.cap = size /\ c.writer = Prepend + Readable(b)
    BY <2>3, <2>4, MovedFacts
  <2>6. PICK d : d = [c EXCEPT !.pooled = FALSE]
    OBVIOUS
  <2>7. IsBuffer(d, U) /\ Keeps(d, c) /\ d.cap = c.cap /\ d.writer = c.writer
    BY <2>5, <2>6, OffPoolFacts
  <2>8. Keeps(d, b)
    BY <2>5, <2>7 DEF Keeps
  <2>9. n <= Writable(d)
    BY <1>1, <2>2, <2>5, <2>7 DEF Writable
  <2> QED BY <2>1, <2>2, <2>4, <2>6, <2>7, <2>8, <2>9
<1>5. CASE /\ Writable(b) < n /\ ~(Writable(b) + b.reader - Prepend >= n)
           /\ ~b.pooled
  <2>1. EnsureWritable(b, n) = Resized(b, b.writer + n)
    BY <1>5 DEF EnsureWritable, MakeSpace
  <2>2. PICK size \in Nat : size = b.writer + n
    BY <1>1
  <2>3. size >= b.writer
    BY <1>1, <2>2
  <2>4. PICK c : c = Resized(b, size)
    OBVIOUS
  <2>5. /\ IsBuffer(c, U) /\ Keeps(c, b) /\ c.cap = size /\ c.writer = b.writer
    BY <2>3, <2>4, ResizedFacts
  <2>6. n <= Writable(c)
    BY <1>1, <2>2, <2>5 DEF Writable
  <2> QED BY <2>1, <2>2, <2>4, <2>5, <2>6
<1>6. Writable(b) >= n \/ Writable(b) < n
  BY <1>1
<1> QED BY <1>2, <1>3, <1>4, <1>5, <1>6

LEMMA AppendDataFacts ==
  ASSUME NEW U, NEW b, IsBuffer(b, U), Blank \in U, NEW data \in Seq(U)
  PROVE  IsBuffer(AppendData(b, data), U) /\ Holding(AppendData(b, data), b, data)
<1>1. PICK n \in Nat : n = Len(data)
  BY LenProperties
<1>2. PICK c : c = EnsureWritable(b, n)
  OBVIOUS
<1>3. IsBuffer(c, U) /\ Keeps(c, b) /\ n <= Writable(c)
  BY <1>2, EnsureWritableFacts
<1>4. PICK d : d = Store(c, data)
  OBVIOUS
<1>5. IsBuffer(d, U) /\ Holding(d, c, data)
  BY <1>1, <1>3, <1>4, StoreFacts
<1>6. Holding(d, b, data)
  <2>1. /\ Readable(c) = Readable(b)
        /\ \A i \in 0..(Readable(b) - 1) : c.store[c.reader + i] = b.store[b.reader + i]
    BY <1>3 DEF Keeps
  <2>2. /\ Readable(d) = Readable(c) + Len(data)
        /\ \A i \in 0..(Readable(c) - 1) : d.store[d.reader + i] = c.store[c.reader + i]
        /\ \A i \in 0..(Len(data) - 1) : d.store[d.reader + Readable(c) + i] = data[i + 1]
    BY <1>5 DEF Holding
  <2> QED BY <2>1, <2>2 DEF Holding
<1> QED BY <1>1, <1>2, <1>4, <1>5, <1>6 DEF AppendData

LEMMA SplitFacts ==
  ASSUME NEW U, NEW data \in Seq(U), NEW w \in 0..Len(data)
  PROVE  /\ SubSeq(data, 1, w) \in Seq(U) /\ Len(SubSeq(data, 1, w)) = w
         /\ \A i \in 1..w : SubSeq(data, 1, w)[i] = data[i]
         /\ SubSeq(data, w + 1, Len(data)) \in Seq(U)
         /\ Len(SubSeq(data, w + 1, Len(data))) = Len(data) - w
         /\ \A i \in 1..(Len(data) - w) : SubSeq(data, w + 1, Len(data))[i] = data[w + i]
<1>1. PICK n \in Nat : n = Len(data)
  BY LenProperties
<1>2. w \in Int /\ n \in Int /\ w + 1 \in Int /\ 1 \in Int /\ w \in 0..n
  BY <1>1
<1>3. \A i \in 1..n : data[i] \in U
  BY <1>1, ElementOfSeq
<1>4. /\ SubSeq(data, 1, w) \in Seq(U)
      /\ Len(SubSeq(data, 1, w)) = IF 1 <= w THEN w - 1 + 1 ELSE 0
      /\ \A i \in 1..(w - 1 + 1) : SubSeq(data, 1, w)[i] = data[1 + i - 1]
  <2>1. \A i \in 1..w : data[i] \in U
    BY <1>2, <1>3
  <2> QED BY <1>2, <2>1, SubSeqProperties
<1>5. /\ SubSeq(data, w + 1, n) \in Seq(U)
      /\ Len(SubSeq(data, w + 1, n)) = IF w + 1 <= n THEN n - (w + 1) + 1 ELSE 0
      /\ \A i \in 1..(n - (w + 1) + 1) : SubSeq(data, w + 1, n)[i] = data[(w + 1) + i - 1]
  <2>1. \A i \in (w + 1)..n : data[i] \in U
    BY <1>2, <1>3
  <2> QED BY <1>2, <2>1, SubSeqProperties
<1>6. Len(SubSeq(data, 1, w)) = w
  BY <1>2, <1>4
<1>7. ASSUME NEW i \in 1..w PROVE SubSeq(data, 1, w)[i] = data[i]
  <2>1. i \in 1..(w - 1 + 1) /\ 1 + i - 1 = i
    BY <1>2
  <2> QED BY <1>4, <2>1
<1>8. Len(SubSeq(data, w + 1, n)) = n - w
  BY <1>2, <1>5
<1>9. ASSUME NEW i \in 1..(n - w) PROVE SubSeq(data, w + 1, n)[i] = data[w + i]
  <2>1. i \in 1..(n - (w + 1) + 1) /\ (w + 1) + i - 1 = w + i
    BY <1>2
  <2> QED BY <1>5, <2>1
<1> QED BY <1>1, <1>4, <1>5, <1>6, <1>7, <1>8, <1>9

LEMMA ReadFdFacts ==
  ASSUME NEW U, NEW b, IsBuffer(b, U), Blank \in U, NEW data \in Seq(U)
  PROVE  IsBuffer(ReadFd(b, data), U) /\ Holding(ReadFd(b, data), b, data)
<1>1. CASE Len(data) <= Writable(b)
  BY <1>1, StoreFacts DEF ReadFd
<1>2. CASE ~(Len(data) <= Writable(b))
  <2>1. PICK n \in Nat, w \in Nat, m \in Nat :
          n = Len(data) /\ w = Writable(b) /\ m = Readable(b)
    BY LenProperties, BufferTypes
  <2>2. w \in 0..n /\ n - w \in Nat
    BY <1>2, <2>1
  <2>parts. /\ SubSeq(data, 1, w) \in Seq(U) /\ Len(SubSeq(data, 1, w)) = w
            /\ \A i \in 1..w : SubSeq(data, 1, w)[i] = data[i]
            /\ SubSeq(data, w + 1, n) \in Seq(U)
            /\ Len(SubSeq(data, w + 1, n)) = n - w
            /\ \A i \in 1..(n - w) : SubSeq(data, w + 1, n)[i] = data[w + i]
    <3>1. w \in 0..Len(data)
      BY <2>1, <2>2
    <3>2. n = Len(data)
      BY <2>1
    <3> QED BY <3>1, <3>2, SplitFacts
  <2>3. PICK d1 \in Seq(U) : /\ d1 = SubSeq(data, 1, w) /\ Len(d1) = w
                             /\ \A i \in 1..w : d1[i] = data[i]
    BY <2>parts, Zenon
  <2>rest. PICK d2 : d2 = SubSeq(data, w + 1, n)
    OBVIOUS
  <2>4. /\ d2 = SubSeq(data, w + 1, n) /\ Len(d2) = n - w /\ d2 \in Seq(U)
        /\ \A i \in 1..(n - w) : d2[i] = data[w + i]
    <3>1. d2 \in Seq(U) /\ Len(d2) = n - w
      BY <2>parts, <2>rest, Zenon
    <3>2. ASSUME NEW i \in 1..(n - w) PROVE d2[i] = data[w + i]
      BY <2>parts, <2>rest, Zenon
    <3> QED BY <2>rest, <3>1, <3>2, Zenon
  <2>5. PICK c : c = Store(b, d1)
    OBVIOUS
  <2>6. IsBuffer(c, U) /\ Holding(c, b, d1)
    <3>1. Len(d1) <= Writable(b)
      BY <2>1, <2>3
    <3> QED BY <2>5, <3>1, StoreFacts
  <2>7. PICK d : d = AppendData(c, d2)
    OBVIOUS
  <2>8. IsBuffer(d, U) /\ Holding(d, c, d2)
    <3>1. d2 \in Seq(U)
      BY <2>4
    <3> QED BY <2>6, <2>7, <3>1, AppendDataFacts
  <2>9. ReadFd(b, data) = d
    BY <1>2, <2>1, <2>3, <2>4, <2>5, <2>7 DEF ReadFd
  <2>10. PICK rc \in Nat, rd \in Nat : rc = c.reader /\ rd = d.reader
    BY <2>6, <2>8, BufferTypes
  <2>11. /\ Readable(c) = m + w
         /\ \A i \in 0..(m - 1) : c.store[rc + i] = b.store[b.reader + i]
         /\ \A i \in 0..(w - 1) : c.store[rc + m + i] = d1[i + 1]
    BY <2>1, <2>3, <2>6, <2>10 DEF Holding
  <2>12. /\ Readable(d) = m + w + (n - w)
         /\ \A i \in 0..(m + w - 1) : d.store[rd + i] = c.store[rc + i]
         /\ \A i \in 0..((n - w) - 1) : d.store[rd + (m + w) + i] = d2[i + 1]
    <3>1. /\ Readable(d) = Readable(c) + Len(d2)
          /\ \A i \in 0..(Readable(c) - 1) : d.store[d.reader + i] = c.store[c.reader + i]
          /\ \A i \in 0..(Len(d2) - 1) : d.store[d.reader + Readable(c) + i] = d2[i + 1]
      BY <2>8 DEF Holding
    <3>2. Readable(c) = m + w /\ Len(d2) = n - w /\ d.reader = rd /\ c.reader = rc
      BY <2>4, <2>10, <2>11
    <3> HIDE <2>1
    <3> QED BY <3>1, <3>2
  <2>13. Readable(d) = m + n
    BY <2>2, <2>12
  <2>14. ASSUME NEW i \in 0..(m - 1) PROVE d.store[rd + i] = b.store[b.reader + i]
    <3>1. i \in 0..(m + w - 1)
      OBVIOUS
    <3> QED BY <2>11, <2>12, <3>1
  <2>15. ASSUME NEW i \in 0..(n - 1) PROVE d.store[rd + m + i] = data[i + 1]
    <3>1. CASE i < w
      <4>1. m + i \in 0..(m + w - 1) /\ i \in 0..(w - 1) /\ i + 1 \in 1..w
            /\ rd + (m + i) = rd + m + i /\ rc + (m + i) = rc + m + i
        BY <3>1
      <4>2. d.store[rd + (m + i)] = c.store[rc + (m + i)]
        BY <2>12, <4>1
      <4>3. c.store[rc + m + i] = d1[i + 1]
        BY <2>11, <4>1
      <4>4. d1[i + 1] = data[i + 1]
        BY <2>3, <4>1
      <4> QED BY <4>1, <4>2, <4>3, <4>4
    <3>2. CASE i >= w
      <4>1. PICK j \in Nat : j = i - w
        BY <3>2
      <4>2. /\ j \in 0..((n - w) - 1) /\ j + 1 \in 1..(n - w)
            /\ rd + (m + w) + j = rd + m + i /\ w + (j + 1) = i + 1
        BY <2>2, <4>1
      <4>3. d.store[rd + (m + w) + j] = d2[j + 1]
        BY <2>12, <4>2
      <4>4. d2[j + 1] = data[w + (j + 1)]
        BY <2>4, <4>2
      <4> QED BY <4>2, <4>3, <4>4
    <3> QED BY <3>1, <3>2
  <2>16. Holding(d, b, data)
    BY <2>1, <2>10, <2>13, <2>14, <2>15 DEF Holding
  <2> QED BY <2>8, <2>9, <2>16
<1> QED BY <1>1, <1>2

\* retrieve: a suffix of the units is left.
Suffix(b1, b) ==
  /\ Readable(b1) <= Readable(b)
  /\ \A i \in 0..(Readable(b1) - 1) :
       b1.store[b1.reader + i] = b.store[b.reader + (Readable(b) - Readable(b1)) + i]

LEMMA RetrieveFacts ==
  ASSUME NEW U, NEW b, IsBuffer(b, U), NEW n \in Nat
  PROVE  IsBuffer(Retrieve(b, n), U) /\ Suffix(Retrieve(b, n), b)
<1>1. /\ b.cap \in Nat /\ b.reader \in Nat /\ b.writer \in Nat
      /\ b.store \in [0..(b.cap - 1) -> U]
      /\ Prepend \in Nat /\ Prepend <= b.reader
      /\ b.reader <= b.writer /\ b.writer <= b.cap
      /\ Readable(b) \in Nat /\ Readable(b) = b.writer - b.reader
  BY BufferTypes
<1>2. b \in [store : {b.store}, cap : Nat, reader : Nat, writer : Nat, pooled : BOOLEAN]
  BY DEF IsBuffer
<1>3. CASE n < Readable(b)
  <2>1. PICK r \in Nat : r = b.reader + n
    BY <1>1
  <2>2. PICK c : c = [b EXCEPT !.reader = r]
    OBVIOUS
  <2>3. Retrieve(b, n) = c
    BY <1>3, <2>1, <2>2 DEF Retrieve
  <2>4. /\ c.store = b.store /\ c.cap = b.cap /\ c.reader = r /\ c.writer = b.writer
        /\ c \in [store : {c.store}, cap : Nat, reader : Nat, writer : Nat, pooled : BOOLEAN]
    BY <1>2, <2>2
  <2>5. Prepend <= r /\ r <= b.writer
    BY <1>1, <1>3, <2>1
  <2>6. IsBuffer(c, U)
    BY <1>1, <2>4, <2>5 DEF IsBuffer
  <2>7. Readable(c) = Readable(b) - n
    BY <1>1, <2>1, <2>4 DEF Readable
  <2>8. ASSUME NEW i \in 0..(Readable(c) - 1)
        PROVE  c.store[c.reader + i] = b.store[b.reader + (Readable(b) - Readable(c)) + i]
    <3>1. r + i = b.reader + (Readable(b) - Readable(c)) + i
      BY <1>1, <2>1, <2>7
    <3> QED BY <2>4, <3>1
  <2>9. Suffix(c, b)
    <3>1. Readable(c) <= Readable(b)
      BY <1>1, <2>7
    <3> QED BY <2>8, <3>1, Zenon DEF Suffix
  <2> QED BY <2>3, <2>6, <2>9
<1>4. CASE ~(n < Readable(b))
  <2>1. PICK c : c = [b EXCEPT !.reader = Prepend, !.writer = Prepend]
    OBVIOUS
  <2>2. Retrieve(b, n) = c
    BY <1>4, <2>1 DEF Retrieve, RetrieveAll
  <2>3. /\ c.store = b.store /\ c.cap = b.cap /\ c.reader = Prepend /\ c.writer = Prepend
        /\ c \in [store : {c.store}, cap : Nat, reader : Nat, writer : Nat, pooled : BOOLEAN]
    BY <1>1, <1>2, <2>1
  <2>4. Prepend <= Prepend /\ Prepend <= b.cap
    BY <1>1
  <2>5. IsBuffer(c, U)
    BY <1>1, <2>3, <2>4 DEF IsBuffer
  <2>6. Readable(c) = 0
    BY <1>1, <2>3 DEF Readable
  <2>7. Suffix(c, b)
    <3>1. Readable(c) <= Readable(b)
      BY <1>1, <2>6
    <3>2. ASSUME NEW i \in 0..(Readable(c) - 1)
          PROVE  c.store[c.reader + i] = b.store[b.reader + (Readable(b) - Readable(c)) + i]
      BY <2>6
    <3> QED BY <3>1, <3>2, Zenon DEF Suffix
  <2> QED BY <2>2, <2>5, <2>7
<1> QED BY <1>3, <1>4

LEMMA NewBufferFacts ==
  ASSUME NEW U, Blank \in U, NEW initial \in Nat
  PROVE  IsBuffer(NewBuffer(initial), U) /\ Readable(NewBuffer(initial)) = 0
<1>1. PICK size \in Nat : size = Prepend + (IF initial <= Block THEN Block ELSE initial)
  BY BufferAssumption
<1>2. Prepend \in Nat /\ Prepend <= size
  BY <1>1, BufferAssumption
<1>3. PICK st \in [0..(size - 1) -> U] : st = [i \in 0..(size - 1) |-> Blank]
  OBVIOUS
<1>4. PICK p \in BOOLEAN : p = (initial <= Block)
  <2>1. (initial <= Block) \in BOOLEAN
    OBVIOUS
  <2> QED BY <2>1, Zenon
<1>5. PICK c : c = [store |-> st, cap |-> size, reader |-> Prepend,
                    writer |-> Prepend, pooled |-> p]
  OBVIOUS
<1>6. NewBuffer(initial) = c
  BY <1>1, <1>3, <1>4, <1>5 DEF NewBuffer
<1>7. IsBuffer(c, U)
  BY <1>2, <1>5 DEF IsBuffer
<1>8. Readable(c) = 0
  BY <1>2, <1>5 DEF Readable
<1> QED BY <1>6, <1>7, <1>8

-----------------------------------------------------------------------------
(* The parser: what it consumes, and from which requests.                  *)

LEMMA FirstFacts ==
  ASSUME NEW S, S \subseteq Nat, S # {}
  PROVE  First(S) \in S /\ \A j \in S : First(S) <= j
<1>1. PICK m \in S : \A j \in S : ~(<<j, m>> \in OpToRel(<, Nat))
  BY NatLessThanWellFounded, WFMin
<1>2. ASSUME NEW j \in S PROVE m <= j
  <2>1. ~(j < m)
    BY <1>1 DEF OpToRel
  <2> QED BY <2>1
<1> QED BY <1>2 DEF First

LEMMA LastExists ==
  ASSUME NEW n \in Nat, NEW S, S \subseteq 1..n, S # {}
  PROVE  \E i \in S : \A j \in S : j <= i
<1> DEFINE T == {n - i : i \in S}
<1>1. T \subseteq Nat /\ T # {}
  OBVIOUS
<1>2. PICK m \in T : \A j \in T : m <= j
  <2> HIDE DEF T
  <2> QED BY <1>1, FirstFacts
<1>3. PICK i \in S : m = n - i
  OBVIOUS
<1>4. ASSUME NEW j \in S PROVE j <= i
  <2>1. n - i <= n - j
    BY <1>2, <1>3
  <2> QED BY <2>1
<1> QED BY <1>4

\* Units of requests the client has sent.
Sent(c) == c \in Seq(UnitType) /\ \A i \in 1..Len(c) : c[i].req \in 1..Len(requests)

LEMMA ParseFacts ==
  ASSUME NEW c, Sent(c), requests \in Seq(Request)
  PROVE  LET p == Parse(c)
         IN /\ p.outcome \in {"more", "done"} => p.taken \in Nat
            /\ p.outcome = "done" => /\ p.req \in 1..Len(requests)
                                     /\ p.body \in Seq(UnitType)
<1>1. PICK n \in Nat : n = Len(c)
  BY LenProperties DEF Sent
<1>2. PICK L \in SUBSET (1..n) : L = LineEnds(c)
  <2>1. DOMAIN c = 1..n
    BY <1>1, LenProperties DEF Sent
  <2> QED BY <2>1 DEF LineEnds
<1>3. PICK B \in SUBSET (1..n) : B = BlankLines(c) /\ B \subseteq L
  BY <1>2 DEF BlankLines
<1>4. L # {} => First(L) \in 1..n
  <2>1. L \subseteq Nat
    OBVIOUS
  <2> QED BY <2>1, FirstFacts
<1>5. B # {} => First(B) \in 1..n
  <2>1. B \subseteq Nat
    OBVIOUS
  <2> QED BY <2>1, FirstFacts
<1>6. Lines(c) \in Nat
  <2> DEFINE S == {k \in 0..n : \A i \in DOMAIN c : i > k => ~LineEnd(c, i)}
  <2>1. S \subseteq Nat
    OBVIOUS
  <2>2. n \in S
    <3>1. DOMAIN c = 1..n
      BY <1>1, LenProperties DEF Sent
    <3> QED BY <3>1
  <2>3. Lines(c) = First(S)
    BY <1>1 DEF Lines
  <2> HIDE DEF S
  <2> QED BY <2>1, <2>2, <2>3, FirstFacts
<1>7. ContentLength(c) \in Nat
  <2>1. PICK H \in SUBSET (1..n) : H = Headers(c, "length")
    BY <1>2 DEF Headers
  <2>2. CASE H = {}
    BY <2>1, <2>2 DEF ContentLength
  <2>3. CASE H # {}
    <3>1. \E i \in H : \A j \in H : j <= i
      BY <2>3, LastExists
    <3>2. PICK k : k = CHOOSE i \in H : \A j \in H : j <= i
      OBVIOUS
    <3>3. k \in 1..n
      BY <3>1, <3>2
    <3>4. ContentLength(c) = requests[c[k].req].body
      BY <2>1, <2>3, <3>2 DEF ContentLength
    <3>5. PICK q \in 1..Len(requests) : q = c[k].req
      BY <1>1, <3>3 DEF Sent
    <3>6. requests[q] \in Request
      BY ElementOfSeq
    <3>7. requests[q].body \in Nat
      BY <3>6, HttpAssumption
    <3> QED BY <3>4, <3>5, <3>7
  <2> QED BY <2>2, <2>3
<1>8. PICK m \in Nat : m = ContentLength(c)
  BY <1>7
<1>9. CASE L = {}
  BY <1>2, <1>9 DEF Parse, More
<1>10. CASE L # {} /\ c[First(L)].kind # "line"
  BY <1>2, <1>10 DEF Parse
<1>11. CASE L # {} /\ c[First(L)].kind = "line" /\ B = {}
  BY <1>2, <1>3, <1>6, <1>11 DEF Parse, More
<1>12. CASE /\ L # {} /\ c[First(L)].kind = "line" /\ B # {}
            /\ n - First(B) < m
  <2>1. Parse(c) = More(First(B))
    BY <1>1, <1>2, <1>3, <1>8, <1>12 DEF Parse
  <2> QED BY <1>5, <1>12, <2>1 DEF More
<1>13. CASE /\ L # {} /\ c[First(L)].kind = "line" /\ B # {}
            /\ ~(n - First(B) < m)
  <2>1. PICK h \in 1..n : h = First(B)
    BY <1>5, <1>13
  <2>2. PICK g : g = (First(L) > 1)
    OBVIOUS
  <2>3. PICK k : k = (Headers(c, "close") = {})
    OBVIOUS
  <2>4. PICK d : d = SubSeq(c, h + 1, h + m)
    OBVIOUS
  <2>5. PICK r : r = c[First(L)].req
    OBVIOUS
  <2>6. Parse(c) = [outcome |-> "done", taken |-> h, req |-> r, garbled |-> g,
                    keep |-> k, body |-> d]
    BY <1>1, <1>2, <1>3, <1>8, <1>13, <2>1, <2>2, <2>3, <2>4, <2>5 DEF Parse
  <2>7. r \in 1..Len(requests)
    BY <1>1, <1>4, <1>13, <2>5 DEF Sent
  <2>8. d \in Seq(UnitType)
    <3>1. h + 1 \in Int /\ h + m \in Int /\ h + m <= n /\ h >= 1
      BY <1>13, <2>1
    <3>2. \A i \in (h + 1)..(h + m) : c[i] \in UnitType
      <4>1. \A i \in 1..n : c[i] \in UnitType
        BY <1>1, ElementOfSeq DEF Sent
      <4> QED BY <3>1, <4>1
    <3> QED BY <2>4, <3>1, <3>2, SubSeqProperties
  <2> QED BY <2>6, <2>7, <2>8
<1> QED BY <1>9, <1>10, <1>11, <1>12, <1>13

-----------------------------------------------------------------------------
(* The inductive invariant.                                                *)

\* The stream holds units of requests that were sent.
StreamIsSent == \A i \in 1..Len(stream) : stream[i].req \in 1..Len(requests)

IInv == TypeOK /\ HoldsStream /\ StreamIsSent

Stored == UnitType \cup {Blank}

LEMMA InitIInv == Init => IInv
<1> SUFFICES ASSUME Init PROVE IInv
  OBVIOUS
<1>1. IsBuffer(buf, Stored) /\ Readable(buf) = 0
  BY HttpAssumption, NewBufferFacts DEF Init, Stored
<1>2. TypeOK
  <2>1. /\ requests \in Seq(Request) /\ stream \in Seq(UnitType)
        /\ received \in 0..Len(stream)
        /\ responses \in Seq([req : Nat, kind : {"static", "echo", "route", "missing"},
                              body : Seq(UnitType)])
        /\ pc \in {"read", "parse", "thrown", "killed"}
    BY EmptySeq DEF Init
  <2>2. fin \in BOOLEAN /\ split \in BOOLEAN /\ left \in BOOLEAN
    BY Zenon DEF Init
  <2> QED BY <1>1, <2>1, <2>2, Zenon DEF TypeOK, Stored
<1>3. HoldsStream
  <2>1. Readable(buf) <= received
    BY <1>1 DEF Init
  <2>2. ASSUME NEW i \in 0..(Readable(buf) - 1)
        PROVE  buf.store[buf.reader + i] = stream[received - Readable(buf) + i + 1]
    BY <1>1
  <2> QED BY <2>1, <2>2, Zenon DEF HoldsStream
<1>4. StreamIsSent
  <2>1. Len(stream) = 0
    BY EmptySeq DEF Init
  <2>2. ASSUME NEW i \in 1..Len(stream) PROVE stream[i].req \in 1..Len(requests)
    BY <2>1
  <2> QED BY <2>2, Zenon DEF StreamIsSent
<1> QED BY <1>2, <1>3, <1>4 DEF IInv

LEMMA ContentFacts ==
  ASSUME IInv
  PROVE  Sent(Content(buf))
<1>1. PICK n \in Nat, r \in Nat, k \in Nat :
        n = Readable(buf) /\ r = received /\ k = Len(stream)
  <2>1. IsBuffer(buf, Stored) /\ Len(stream) \in Nat /\ received \in 0..Len(stream)
    BY LenProperties DEF IInv, TypeOK, Stored
  <2>2. Readable(buf) \in Nat /\ received \in Nat
    BY <2>1, BufferTypes
  <2> QED BY <2>1, <2>2
<1>2. n <= r /\ r <= k
  BY <1>1 DEF IInv, TypeOK, HoldsStream
<1>3. PICK c : c = Content(buf)
  OBVIOUS
<1>4. PICK b \in Nat : b = buf.reader
  BY BufferTypes DEF IInv, TypeOK
<1>5. c = [i \in 1..n |-> buf.store[b + i - 1]]
  BY <1>1, <1>3, <1>4 DEF Content
<1>6. ASSUME NEW i \in 1..n
      PROVE  c[i] \in UnitType /\ c[i].req \in 1..Len(requests)
  <2>1. i - 1 \in 0..(n - 1) /\ b + i - 1 = b + (i - 1) /\ r - n + (i - 1) + 1 \in 1..k
    BY <1>2
  <2>2. buf.store[b + (i - 1)] = stream[r - n + (i - 1) + 1]
    BY <1>1, <1>4, <2>1 DEF IInv, HoldsStream
  <2>3. PICK j \in 1..k : j = r - n + (i - 1) + 1
    BY <2>1
  <2>4. c[i] = stream[j]
    BY <1>5, <2>1, <2>2, <2>3
  <2>5. stream[j] \in UnitType /\ stream[j].req \in 1..Len(requests)
    BY <1>1, ElementOfSeq DEF IInv, TypeOK, StreamIsSent
  <2> QED BY <2>4, <2>5
<1>7. c \in [1..n -> UnitType]
  BY <1>5, <1>6
<1>8. c \in Seq(UnitType) /\ Len(c) = n
  BY <1>7
<1> QED BY <1>3, <1>6, <1>8 DEF Sent

LEMMA UnitsFacts ==
  ASSUME NEW r \in Request, NEW i \in Nat
  PROVE  Units(r, i) \in Seq([kind : {"line", "length", "close", "blank", "body"}, req : {i}])
<1> DEFINE T == [kind : {"line", "length", "close", "blank", "body"}, req : {i}]
<1>1. PICK n \in Nat : n = r.body
  BY HttpAssumption
<1>unit. \A k \in {"line", "length", "close", "blank", "body"} : Unit(k, i) \in T
  BY DEF Unit
<1> HIDE DEF T
<1>each. PICK x1 \in T, x2 \in T, x3 \in T, x4 \in T, x5 \in T :
         /\ x1 = Unit("line", i) /\ x2 = Unit("length", i) /\ x3 = Unit("close", i)
         /\ x4 = Unit("blank", i) /\ x5 = Unit("body", i)
  BY <1>unit
<1>2. PICK u1 \in Seq(T) : u1 = <<Unit("line", i)>>
  <2>1. <<x1>> \in Seq(T)
    OBVIOUS
  <2> QED BY <1>each, <2>1
<1>3. PICK u2 \in Seq(T) : u2 = IF r.body > 0 THEN <<Unit("length", i)>> ELSE << >>
  <2>1. <<x2>> \in Seq(T) /\ << >> \in Seq(T)
    OBVIOUS
  <2> QED BY <1>each, <2>1
<1>4. PICK u3 \in Seq(T) : u3 = IF r.keep THEN << >> ELSE <<Unit("close", i)>>
  <2>1. <<x3>> \in Seq(T) /\ << >> \in Seq(T)
    OBVIOUS
  <2> QED BY <1>each, <2>1
<1>5. PICK u4 \in Seq(T) : u4 = <<Unit("blank", i)>>
  <2>1. <<x4>> \in Seq(T)
    OBVIOUS
  <2> QED BY <1>each, <2>1
<1>6. PICK u5 \in Seq(T) : u5 = [j \in 1..r.body |-> Unit("body", i)]
  <2>1. [j \in 1..n |-> x5] \in [1..n -> T]
    OBVIOUS
  <2>2. [j \in 1..n |-> x5] \in Seq(T)
    BY <2>1
  <2> QED BY <1>1, <1>each, <2>2
<1>7. Units(r, i) = u1 \o u2 \o u3 \o u4 \o u5
  BY <1>2, <1>3, <1>4, <1>5, <1>6 DEF Units
<1>8. PICK v1 \in Seq(T) : v1 = u1 \o u2
  BY ConcatProperties
<1>9. PICK v2 \in Seq(T) : v2 = v1 \o u3
  BY ConcatProperties
<1>10. PICK v3 \in Seq(T) : v3 = v2 \o u4
  BY ConcatProperties
<1>11. v3 \o u5 \in Seq(T)
  BY ConcatProperties
<1> QED BY <1>7, <1>8, <1>9, <1>10, <1>11 DEF T

\* What consuming from the buffer leaves is still the end of the stream.
LEMMA ConsumeFacts ==
  ASSUME IInv, IsBuffer(buf', Stored), Suffix(buf', buf), UNCHANGED <<stream, received>>
  PROVE  HoldsStream'
<1>1. IsBuffer(buf, Stored)
  BY DEF IInv, TypeOK, Stored
<1>2. PICK n \in Nat, m \in Nat, r \in Nat :
        n = Readable(buf) /\ m = Readable(buf') /\ r = received
  <2>1. received \in Nat
    BY LenProperties DEF IInv, TypeOK
  <2> QED BY <1>1, <2>1, BufferTypes
<1>3. m <= n /\ n <= r
  BY <1>2 DEF Suffix, IInv, HoldsStream
<1>4. PICK b \in Nat, b1 \in Nat : b = buf.reader /\ b1 = buf'.reader
  BY <1>1, BufferTypes
<1>5. ASSUME NEW i \in 0..(m - 1)
      PROVE  buf'.store[b1 + i] = stream[r - m + i + 1]
  <2>1. PICK j \in 0..(n - 1) : j = (n - m) + i
    BY <1>3
  <2>2. b + (n - m) + i = b + j /\ r - n + j + 1 = r - m + i + 1
    BY <2>1
  <2>3. buf'.store[b1 + i] = buf.store[b + (n - m) + i]
    BY <1>2, <1>4 DEF Suffix
  <2>4. buf.store[b + j] = stream[r - n + j + 1]
    BY <1>2, <1>4 DEF IInv, HoldsStream
  <2> QED BY <2>2, <2>3, <2>4
<1> QED BY <1>2, <1>3, <1>4, <1>5 DEF HoldsStream, Readable

-----------------------------------------------------------------------------
(* Every action preserves the invariant.                                   *)

LEMMA SendRequestStep ==
  ASSUME IInv, NEW r \in Request, SendRequest(r)
  PROVE  IInv'
<1>1. PICK q \in Nat : q = Len(requests)
  BY LenProperties DEF IInv, TypeOK
<1>2. PICK T : T = [kind : {"line", "length", "close", "blank", "body"}, req : {q + 1}]
  OBVIOUS
<1>3. PICK u \in Seq(T) : u = Units(r, q + 1)
  BY <1>2, UnitsFacts
<1>4. \A i \in 1..Len(u) : u[i] \in UnitType /\ u[i].req = q + 1
  <2>1. \A x \in T : x \in UnitType /\ x.req = q + 1
    BY <1>2 DEF UnitType
  <2> QED BY <2>1, ElementOfSeq
<1>5. PICK s \in Seq(UnitType) : s = stream
  BY DEF IInv, TypeOK
<1>6. PICK k \in Nat, m \in Nat : k = Len(s) /\ m = Len(u)
  BY LenProperties
<1>7. u \in Seq(UnitType)
  <2>1. T \subseteq UnitType
    BY <1>2 DEF UnitType
  <2> QED BY <2>1, SeqMonotonic
<1>8. PICK s1 : s1 = s \o u
  OBVIOUS
<1>9. /\ s1 \in Seq(UnitType) /\ Len(s1) = k + m
      /\ \A i \in 1..(k + m) : s1[i] = IF i <= k THEN s[i] ELSE u[i - k]
  BY <1>6, <1>7, <1>8, ConcatProperties
<1>10. stream' = s1
  BY <1>1, <1>3, <1>5, <1>8 DEF SendRequest
<1>11. PICK t \in Seq(Request) : t = requests
  BY DEF IInv, TypeOK
<1>12. requests' \in Seq(Request) /\ Len(requests') = q + 1
  BY <1>1, <1>11, AppendProperties DEF SendRequest
<1>13. UNCHANGED <<received, buf, pc, fin, responses, split, left>>
  BY DEF SendRequest
<1>14. TypeOK'
  <2>1. received' \in 0..Len(stream')
    BY <1>5, <1>6, <1>9, <1>10, <1>13 DEF IInv, TypeOK
  <2> QED BY <1>9, <1>10, <1>12, <1>13, <2>1 DEF IInv, TypeOK
<1>15. HoldsStream'
  <2>1. PICK n \in Nat, d \in Nat : n = Readable(buf) /\ d = received
    <3>1. received \in Nat
      BY LenProperties DEF IInv, TypeOK
    <3> QED BY <3>1, BufferTypes DEF IInv, TypeOK
  <2>2. n <= d /\ d <= k
    BY <1>5, <1>6, <2>1 DEF IInv, TypeOK, HoldsStream
  <2>3. ASSUME NEW i \in 0..(n - 1)
        PROVE  buf.store[buf.reader + i] = s1[d - n + i + 1]
    <3>1. d - n + i + 1 \in 1..k
      BY <2>2
    <3>2. buf.store[buf.reader + i] = s[d - n + i + 1]
      BY <1>5, <2>1 DEF IInv, HoldsStream
    <3>3. PICK j \in 1..k : j = d - n + i + 1
      BY <3>1
    <3>4. s1[j] = s[j]
      BY <1>9
    <3> QED BY <3>2, <3>3, <3>4
  <2> QED BY <1>10, <1>13, <2>1, <2>2, <2>3 DEF HoldsStream, Readable
<1>16. StreamIsSent'
  <2>1. ASSUME NEW i \in 1..(k + m) PROVE s1[i].req \in 1..(q + 1)
    <3>1. CASE i <= k
      <4>1. s1[i] = s[i] /\ i \in 1..k
        BY <1>9, <3>1
      <4>2. s[i].req \in 1..q
        BY <1>1, <1>5, <1>6, <4>1 DEF IInv, StreamIsSent
      <4> QED BY <4>1, <4>2
    <3>2. CASE ~(i <= k)
      <4>1. s1[i] = u[i - k] /\ i - k \in 1..m
        BY <1>9, <3>2
      <4>2. u[i - k].req = q + 1
        BY <1>4, <1>6, <4>1
      <4> QED BY <4>1, <4>2
    <3> QED BY <3>1, <3>2
  <2> QED BY <1>9, <1>10, <1>12, <2>1 DEF StreamIsSent
<1> QED BY <1>14, <1>15, <1>16 DEF IInv

LEMMA HandleReadStep ==
  ASSUME IInv, NEW n \in 1..Len(stream), HandleRead(n)
  PROVE  IInv' /\ Readable(buf') = Readable(buf) + n
<1>1. PICK s \in Seq(UnitType) : s = stream
  BY DEF IInv, TypeOK
<1>2. PICK k \in Nat, d \in Nat, a \in Nat : k = Len(s) /\ d = received /\ a = n
  BY <1>1, LenProperties DEF IInv, TypeOK
<1>3. d + a <= k
  BY <1>1, <1>2 DEF HandleRead
<1>4. PICK data : data = SubSeq(s, d + 1, d + a)
  OBVIOUS
<1>5. /\ data \in Seq(UnitType) /\ Len(data) = a
      /\ \A i \in 1..a : data[i] = s[d + i]
  <2>1. \A i \in (d + 1)..(d + a) : s[i] \in UnitType
    <3>1. \A i \in 1..k : s[i] \in UnitType
      BY <1>2, ElementOfSeq
    <3> QED BY <1>3, <3>1
  <2>2. d + 1 \in Int /\ d + a \in Int
    OBVIOUS
  <2>3. /\ data \in Seq(UnitType)
        /\ Len(data) = IF d + 1 <= d + a THEN (d + a) - (d + 1) + 1 ELSE 0
        /\ \A i \in 1..((d + a) - (d + 1) + 1) : data[i] = s[(d + 1) + i - 1]
    BY <1>4, <2>1, <2>2, SubSeqProperties
  <2>4. Len(data) = a
    BY <2>3
  <2>5. ASSUME NEW i \in 1..a PROVE data[i] = s[d + i]
    <3>1. i \in 1..((d + a) - (d + 1) + 1) /\ (d + 1) + i - 1 = d + i
      OBVIOUS
    <3> QED BY <2>3, <3>1
  <2> QED BY <2>3, <2>4, <2>5
<1>6. PICK c : c = ReadFd(buf, data)
  OBVIOUS
<1>7. data \in Seq(Stored)
  <2>1. UnitType \subseteq Stored
    BY DEF Stored
  <2> QED BY <1>5, <2>1, SeqMonotonic
<1>8. IsBuffer(c, Stored) /\ Holding(c, buf, data)
  <2>1. IsBuffer(buf, Stored) /\ Blank \in Stored
    BY DEF IInv, TypeOK, Stored
  <2> QED BY <1>6, <1>7, <2>1, ReadFdFacts
<1>9. /\ buf' = c /\ received' = d + a /\ pc' = "parse" /\ left' = FALSE
      /\ UNCHANGED <<requests, stream, fin, responses, split>>
  BY <1>1, <1>2, <1>4, <1>6 DEF HandleRead
<1>10. TypeOK'
  <2>1. received' \in 0..Len(stream')
    BY <1>1, <1>2, <1>3, <1>9
  <2>2. left' \in BOOLEAN
    BY <1>9, Zenon
  <2>3. IsBuffer(buf', UnitType \cup {Blank})
    BY <1>8, <1>9 DEF Stored
  <2>4. requests' \in Seq(Request) /\ stream' \in Seq(UnitType)
    BY <1>9 DEF IInv, TypeOK
  <2>5. fin' \in BOOLEAN /\ split' \in BOOLEAN
    BY <1>9, Zenon DEF IInv, TypeOK
  <2>6. responses' \in Seq([req : Nat, kind : {"static", "echo", "route", "missing"},
                            body : Seq(UnitType)])
    BY <1>9, Zenon DEF IInv, TypeOK
  <2>7. pc' \in {"read", "parse", "thrown", "killed"}
    BY <1>9
  <2> QED BY <2>1, <2>2, <2>3, <2>4, <2>5, <2>6, <2>7, Zenon DEF TypeOK, UnitType
<1>11. HoldsStream'
  <2>1. PICK m \in Nat, b \in Nat, b1 \in Nat :
          m = Readable(buf) /\ b = buf.reader /\ b1 = c.reader
    BY <1>8, BufferTypes DEF IInv, TypeOK
  <2>2. m <= d
    BY <1>2, <2>1 DEF IInv, HoldsStream
  <2>3. /\ Readable(c) = m + a
        /\ \A i \in 0..(m - 1) : c.store[b1 + i] = buf.store[b + i]
        /\ \A i \in 0..(a - 1) : c.store[b1 + m + i] = data[i + 1]
    BY <1>5, <1>8, <2>1 DEF Holding
  <2>4. ASSUME NEW i \in 0..((m + a) - 1)
        PROVE  c.store[b1 + i] = s[(d + a) - (m + a) + i + 1]
    <3>1. (d + a) - (m + a) + i + 1 = d - m + i + 1
      OBVIOUS
    <3>2. CASE i < m
      <4>1. i \in 0..(m - 1)
        BY <3>2
      <4>2. buf.store[b + i] = s[d - m + i + 1]
        BY <1>1, <1>2, <2>1, <4>1 DEF IInv, HoldsStream
      <4> QED BY <2>3, <3>1, <4>1, <4>2
    <3>3. CASE i >= m
      <4>1. PICK j \in 0..(a - 1) : j = i - m
        BY <3>3
      <4>2. b1 + m + j = b1 + i /\ j + 1 \in 1..a /\ d + (j + 1) = d - m + i + 1
        BY <4>1
      <4>3. c.store[b1 + m + j] = data[j + 1]
        BY <2>3
      <4>4. data[j + 1] = s[d + (j + 1)]
        BY <1>5, <4>2
      <4> QED BY <3>1, <4>2, <4>3, <4>4
    <3> QED BY <3>2, <3>3
  <2>5. m + a <= d + a
    BY <2>2
  <2> QED BY <1>1, <1>9, <2>1, <2>3, <2>4, <2>5 DEF HoldsStream, Readable
<1>12. StreamIsSent'
  BY <1>9 DEF IInv, StreamIsSent
<1>13. Readable(buf') = Readable(buf) + n
  BY <1>2, <1>5, <1>8, <1>9 DEF Holding
<1> QED BY <1>10, <1>11, <1>12, <1>13 DEF IInv

Responses == [req : Nat, kind : {"static", "echo", "route", "missing"}, body : Seq(UnitType)]

LEMMA ConsumedStep ==
  ASSUME IInv, IsBuffer(buf', Stored), Suffix(buf', buf),
         UNCHANGED <<requests, stream, received>>,
         pc' \in {"read", "parse", "thrown", "killed"}, fin' \in BOOLEAN,
         responses' \in Seq(Responses), split' \in BOOLEAN, left' \in BOOLEAN
  PROVE  IInv'
<1>1. TypeOK'
  <2>1. /\ requests' \in Seq(Request) /\ stream' \in Seq(UnitType)
        /\ received' \in 0..Len(stream')
    BY DEF IInv, TypeOK
  <2>2. IsBuffer(buf', UnitType \cup {Blank})
    BY DEF Stored
  <2> QED BY <2>1, <2>2, Zenon DEF TypeOK, Responses, UnitType
<1>2. HoldsStream'
  BY ConsumeFacts
<1>3. StreamIsSent'
  BY DEF IInv, StreamIsSent
<1> QED BY <1>1, <1>2, <1>3 DEF IInv

LEMMA SuffixTransitive ==
  ASSUME NEW b, NEW b1, NEW b2, IsBuffer(b, Stored), IsBuffer(b1, Stored),
         IsBuffer(b2, Stored), Suffix(b2, b1), Suffix(b1, b)
  PROVE  Suffix(b2, b)
<1>1. PICK n \in Nat, n1 \in Nat, n2 \in Nat :
        n = Readable(b) /\ n1 = Readable(b1) /\ n2 = Readable(b2)
  BY BufferTypes
<1>2. PICK r \in Nat, r1 \in Nat, r2 \in Nat :
        r = b.reader /\ r1 = b1.reader /\ r2 = b2.reader
  BY BufferTypes
<1>3. /\ n2 <= n1 /\ n1 <= n
      /\ \A i \in 0..(n2 - 1) : b2.store[r2 + i] = b1.store[r1 + (n1 - n2) + i]
      /\ \A i \in 0..(n1 - 1) : b1.store[r1 + i] = b.store[r + (n - n1) + i]
  BY <1>1, <1>2 DEF Suffix
<1>4. ASSUME NEW i \in 0..(n2 - 1)
      PROVE  b2.store[r2 + i] = b.store[r + (n - n2) + i]
  <2>1. PICK j \in 0..(n1 - 1) : j = (n1 - n2) + i
    BY <1>3
  <2>2. r1 + (n1 - n2) + i = r1 + j /\ r + (n - n1) + j = r + (n - n2) + i
    BY <2>1
  <2>3. b2.store[r2 + i] = b1.store[r1 + (n1 - n2) + i]
    BY <1>3
  <2>4. b1.store[r1 + j] = b.store[r + (n - n1) + j]
    BY <1>3
  <2> QED BY <2>2, <2>3, <2>4
<1>5. n2 <= n
  BY <1>3
<1> QED BY <1>1, <1>2, <1>4, <1>5 DEF Suffix

LEMMA RetrieveTwice ==
  ASSUME NEW b, IsBuffer(b, Stored), NEW n \in Nat, NEW m \in Nat
  PROVE  LET c == Retrieve(Retrieve(b, n), m)
         IN IsBuffer(c, Stored) /\ Suffix(c, b)
<1>1. PICK b1 : b1 = Retrieve(b, n)
  OBVIOUS
<1>2. IsBuffer(b1, Stored) /\ Suffix(b1, b)
  BY <1>1, RetrieveFacts
<1>3. PICK b2 : b2 = Retrieve(b1, m)
  OBVIOUS
<1>4. IsBuffer(b2, Stored) /\ Suffix(b2, b1)
  BY <1>2, <1>3, RetrieveFacts
<1>5. Suffix(b2, b)
  BY <1>2, <1>4, SuffixTransitive
<1> QED BY <1>1, <1>3, <1>4, <1>5

LEMMA RespondFacts ==
  ASSUME IInv, NEW p, p.req \in Nat, NEW kind \in {"static", "echo", "route", "missing"},
         NEW body \in Seq(UnitType), NEW next \in {"read", "parse"},
         Respond(p, kind, body, next)
  PROVE  /\ pc' \in {"read", "parse", "thrown", "killed"} /\ fin' \in BOOLEAN
         /\ responses' \in Seq(Responses)
<1>1. PICK rs \in Seq(Responses) : rs = responses
  BY DEF IInv, TypeOK, Responses
<1>2. pc' \in {"read", "parse", "thrown", "killed"}
  BY DEF Respond
<1>3. fin' \in BOOLEAN
  BY Zenon DEF Respond, IInv, TypeOK
<1>4. responses' \in Seq(Responses)
  <2>1. CASE fin
    BY <1>1, <2>1 DEF Respond
  <2>2. CASE ~fin
    <3>1. PICK x \in Responses : x = [req |-> p.req, kind |-> kind, body |-> body]
      BY DEF Responses
    <3>2. responses' = Append(rs, x)
      BY <1>1, <2>2, <3>1 DEF Respond
    <3> QED BY <3>2, AppendProperties
  <2> QED BY <2>1, <2>2
<1> QED BY <1>2, <1>3, <1>4

\* What the actions after Parse know of its result.
LEMMA ParsedFacts ==
  ASSUME IInv, NEW p, p = Parse(Content(buf))
  PROVE  /\ p.outcome \in {"more", "done"} => p.taken \in Nat
         /\ p.outcome = "done" =>
              /\ p.req \in Nat /\ p.body \in Seq(UnitType) /\ Len(p.body) \in Nat
              /\ RouteOf(p) \in {"static", "echo", "route", "missing"}
<1>1. PICK c : c = Content(buf)
  OBVIOUS
<1>2. PICK t \in Seq(Request) : t = requests
  BY DEF IInv, TypeOK
<1>3. /\ p.outcome \in {"more", "done"} => p.taken \in Nat
      /\ p.outcome = "done" => p.req \in 1..Len(t) /\ p.body \in Seq(UnitType)
  BY <1>1, <1>2, ContentFacts, ParseFacts
<1>4. ASSUME p.outcome = "done" PROVE RouteOf(p) \in {"static", "echo", "route", "missing"}
  <2>1. PICK q \in 1..Len(t) : q = p.req
    BY <1>3, <1>4
  <2>2. t[q] \in Request
    BY ElementOfSeq
  <2>3. t[q].kind \in {"static", "echo", "route", "missing"}
    BY <2>2, HttpAssumption
  <2> QED BY <1>2, <2>1, <2>3 DEF RouteOf
<1>5. ASSUME p.outcome = "done" PROVE p.req \in Nat /\ Len(p.body) \in Nat
  BY <1>2, <1>3, <1>5, LenProperties
<1> QED BY <1>3, <1>4, <1>5

LEMMA ReturnForMoreStep ==
  ASSUME IInv, ReturnForMore
  PROVE  IInv'
<1>1. PICK p : p = Parse(Content(buf))
  OBVIOUS
<1>2. p.outcome = "more" /\ buf' = Retrieve(buf, p.taken) /\ pc' = "read"
  BY <1>1 DEF ReturnForMore
<1>3. PICK n \in Nat : n = p.taken
  BY <1>1, <1>2, ParsedFacts
<1>4. IsBuffer(buf', Stored) /\ Suffix(buf', buf)
  BY <1>2, <1>3, RetrieveFacts DEF IInv, TypeOK, Stored
<1>5. UNCHANGED <<requests, stream, received, fin, responses, left>>
  BY DEF ReturnForMore
<1>6. split' \in BOOLEAN /\ fin' \in BOOLEAN /\ left' \in BOOLEAN
  <2>1. fin' \in BOOLEAN /\ left' \in BOOLEAN
    BY <1>5, Zenon DEF IInv, TypeOK
  <2>2. split' = (split \/ Parse(Content(buf)).taken > 0)
    BY DEF ReturnForMore
  <2>3. split' \in BOOLEAN
    BY <2>2, Zenon
  <2> QED BY <2>1, <2>3
<1>7. responses' \in Seq(Responses)
  BY <1>5 DEF IInv, TypeOK, Responses
<1>8. pc' \in {"read", "parse", "thrown", "killed"}
  BY <1>2
<1> QED BY <1>4, <1>5, <1>6, <1>7, <1>8, ConsumedStep

LEMMA ThrowStep ==
  ASSUME IInv, Throw
  PROVE  IInv'
<1>1. /\ UNCHANGED <<requests, stream, received, buf, fin, responses, split, left>>
      /\ pc' \in {"read", "parse", "thrown", "killed"}
  BY DEF Throw
<1>2. TypeOK'
  BY <1>1 DEF IInv, TypeOK
<1>3. HoldsStream' /\ StreamIsSent'
  BY <1>1 DEF IInv, HoldsStream, StreamIsSent, Readable
<1> QED BY <1>2, <1>3 DEF IInv

LEMMA ServeStaticStep ==
  ASSUME IInv, ServeStatic
  PROVE  IInv'
<1>1. PICK p : p = Parse(Content(buf))
  OBVIOUS
<1>2. /\ p.outcome = "done" /\ buf' = Retrieve(buf, p.taken)
      /\ Respond(p, "static", << >>, "read") /\ left' = TRUE
      /\ UNCHANGED <<requests, stream, received, split>>
  BY <1>1 DEF ServeStatic
<1>3. PICK n \in Nat : n = p.taken
  BY <1>1, <1>2, ParsedFacts
<1>4. IsBuffer(buf', Stored) /\ Suffix(buf', buf)
  BY <1>2, <1>3, RetrieveFacts DEF IInv, TypeOK, Stored
<1>5. /\ pc' \in {"read", "parse", "thrown", "killed"} /\ fin' \in BOOLEAN
      /\ responses' \in Seq(Responses)
  <2>1. p.req \in Nat
    BY <1>1, <1>2, ParsedFacts
  <2>2. << >> \in Seq(UnitType)
    BY EmptySeq
  <2> QED BY <1>2, <2>1, <2>2, RespondFacts
<1>6. split' \in BOOLEAN /\ left' \in BOOLEAN
  BY <1>2, Zenon DEF IInv, TypeOK
<1> QED BY <1>2, <1>4, <1>5, <1>6, ConsumedStep

LEMMA ServeStep ==
  ASSUME IInv, ServeEcho \/ ServeRoute
  PROVE  IInv'
<1>1. PICK p : p = Parse(Content(buf))
  OBVIOUS
<1>2. /\ p.outcome = "done" /\ buf' = Retrieve(Retrieve(buf, p.taken), Len(p.body))
      /\ \/ Respond(p, "echo", p.body, "parse")
         \/ Respond(p, RouteOf(p), << >>, "parse")
      /\ UNCHANGED <<requests, stream, received, split, left>>
  BY <1>1 DEF ServeEcho, ServeRoute
<1>3. /\ p.req \in Nat /\ p.body \in Seq(UnitType)
      /\ RouteOf(p) \in {"static", "echo", "route", "missing"}
  BY <1>1, <1>2, ParsedFacts
<1>4. PICK n \in Nat, m \in Nat : n = p.taken /\ m = Len(p.body)
  BY <1>1, <1>2, ParsedFacts
<1>5. IsBuffer(buf', Stored) /\ Suffix(buf', buf)
  BY <1>2, <1>4, RetrieveTwice DEF IInv, TypeOK, Stored
<1>6. /\ pc' \in {"read", "parse", "thrown", "killed"} /\ fin' \in BOOLEAN
      /\ responses' \in Seq(Responses)
  <2>1. << >> \in Seq(UnitType)
    BY EmptySeq
  <2> QED BY <1>2, <1>3, <2>1, RespondFacts
<1>7. split' \in BOOLEAN /\ left' \in BOOLEAN
  BY <1>2, Zenon DEF IInv, TypeOK
<1> QED BY <1>2, <1>5, <1>6, <1>7, ConsumedStep

LEMMA StutterStep ==
  ASSUME IInv, UNCHANGED httpVars
  PROVE  IInv'
<1>1. UNCHANGED <<requests, stream, received, buf, pc, fin, responses, split, left>>
  BY DEF httpVars
<1> QED BY <1>1 DEF IInv, TypeOK, HoldsStream, StreamIsSent, Readable

LEMMA NextIInv == IInv /\ [Next]_httpVars => IInv'
<1> SUFFICES ASSUME IInv, [Next]_httpVars PROVE IInv'
  OBVIOUS
<1>1. ASSUME NEW r \in Request, SendRequest(r) PROVE IInv'
  BY <1>1, SendRequestStep
<1>2. ASSUME NEW n \in 1..Len(stream), HandleRead(n) PROVE IInv'
  BY <1>2, HandleReadStep
<1>3. CASE ReturnForMore
  BY <1>3, ReturnForMoreStep
<1>4. CASE Throw
  BY <1>4, ThrowStep
<1>5. CASE ServeStatic
  BY <1>5, ServeStaticStep
<1>6. CASE ServeEcho \/ ServeRoute
  BY <1>6, ServeStep
<1>7. CASE UNCHANGED httpVars
  BY <1>7, StutterStep
<1> QED BY <1>1, <1>2, <1>3, <1>4, <1>5, <1>6, <1>7 DEF Next

LEMMA Invariance == Spec => []IInv
BY InitIInv, NextIInv, PTL DEF Spec

-----------------------------------------------------------------------------
\* Types, and the indices of the buffer inside its storage (buffer.cc), for
\* any sizes of the blocks, of extrabuf and of the requests.
THEOREM TypeCorrect == Spec => []TypeOK
<1>1. IInv => TypeOK
  BY DEF IInv
<1> QED BY <1>1, Invariance, PTL

\* buffer.cc:91-177: whatever the segments and the requests, the readable part
\* of the buffer is the end of what was received, through every compaction,
\* move to the heap and growth.
THEOREM BufferHoldsStream == Spec => []HoldsStream
<1>1. IInv => HoldsStream
  BY DEF IInv
<1> QED BY <1>1, Invariance, PTL

-----------------------------------------------------------------------------
(* The stream as a row of requests.                                        *)

HeadSize(r) == 2 + (IF r.body > 0 THEN 1 ELSE 0) + (IF r.keep THEN 0 ELSE 1)
Size(r) == HeadSize(r) + r.body

KindAt(r, j) ==
  IF j = 1 THEN "line"
  ELSE IF j > HeadSize(r) THEN "body"
  ELSE IF j = HeadSize(r) THEN "blank"
  ELSE IF j = 2 /\ r.body > 0 THEN "length" ELSE "close"

LEMMA SizeFacts ==
  ASSUME NEW r \in Request
  PROVE  /\ r.body \in Nat /\ r.keep \in BOOLEAN
         /\ r.kind \in {"static", "echo", "route", "missing"}
         /\ HeadSize(r) \in 2..4 /\ Size(r) \in Nat /\ Size(r) = HeadSize(r) + r.body
         /\ r.body > 0 => HeadSize(r) \in 3..4
         /\ ~r.keep => HeadSize(r) \in 3..4
BY HttpAssumption DEF HeadSize, Size

LEMMA ConcatAt ==
  ASSUME NEW T, NEW a \in Seq(T), NEW b \in Seq(T), NEW c, c = a \o b
  PROVE  /\ c \in Seq(T) /\ Len(c) = Len(a) + Len(b)
         /\ \A j \in 1..Len(a) : c[j] = a[j]
         /\ \A j \in 1..Len(b) : c[Len(a) + j] = b[j]
<1>1. /\ c \in Seq(T) /\ Len(c) = Len(a) + Len(b)
      /\ \A j \in 1..(Len(a) + Len(b)) : c[j] = IF j <= Len(a) THEN a[j] ELSE b[j - Len(a)]
  BY ConcatProperties
<1>2. ASSUME NEW j \in 1..Len(b) PROVE c[Len(a) + j] = b[j]
  <2>1. /\ Len(a) + j \in 1..(Len(a) + Len(b)) /\ ~(Len(a) + j <= Len(a))
        /\ (Len(a) + j) - Len(a) = j
    OBVIOUS
  <2> QED BY <2>1, <1>1
<1> QED BY <1>1, <1>2

LEMMA UnitAt ==
  ASSUME NEW r \in Request, NEW i \in Nat
  PROVE  /\ Len(Units(r, i)) = Size(r)
         /\ \A j \in 1..Size(r) : Units(r, i)[j] = Unit(KindAt(r, j), i)
<1>1. /\ r.body \in Nat /\ r.keep \in BOOLEAN /\ HeadSize(r) \in 2..4
      /\ Size(r) = HeadSize(r) + r.body
  BY SizeFacts
<1>2. PICK p \in {0, 1}, q \in {0, 1} : (p = 1 <=> r.body > 0) /\ (q = 1 <=> ~r.keep)
  BY <1>1
<1>3. HeadSize(r) = p + q + 2
  BY <1>1, <1>2 DEF HeadSize
<1>6. PICK u : /\ u = Units(r, i) /\ Len(u) = p + q + 2 + r.body
               /\ u[1] = Unit("line", i) /\ (p = 1 => u[2] = Unit("length", i))
               /\ (q = 1 => u[p + 2] = Unit("close", i))
               /\ u[p + q + 2] = Unit("blank", i)
               /\ \A j \in 1..r.body : u[p + q + 2 + j] = Unit("body", i)
  <2>x. PICK x1, x2, x3, x4, x5 :
          /\ x1 = Unit("line", i) /\ x2 = Unit("length", i) /\ x3 = Unit("close", i)
          /\ x4 = Unit("blank", i) /\ x5 = Unit("body", i)
    OBVIOUS
  <2>n. PICK n \in Nat : n = r.body
    BY <1>1
  <2>0. PICK T : T = {x1, x2, x3, x4, x5}
    OBVIOUS
  <2>t. x1 \in T /\ x2 \in T /\ x3 \in T /\ x4 \in T /\ x5 \in T
    BY <2>0
  <2>1. PICK u1 : u1 = <<x1>>
    OBVIOUS
  <2>a. u1 \in Seq(T) /\ Len(u1) = 1 /\ u1[1] = x1
    BY <2>1, <2>t
  <2>2. PICK u2 : u2 = IF p = 1 THEN <<x2>> ELSE << >>
    OBVIOUS
  <2>b. u2 \in Seq(T) /\ Len(u2) = p /\ (p = 1 => u2[1] = x2)
    <3>1. CASE p = 1
      BY <3>1, <2>2, <2>t
    <3>2. CASE p = 0
      BY <3>2, <2>2, <2>t
    <3> QED BY <3>1, <3>2
  <2>3. PICK u3 : u3 = IF q = 1 THEN <<x3>> ELSE << >>
    OBVIOUS
  <2>c. u3 \in Seq(T) /\ Len(u3) = q /\ (q = 1 => u3[1] = x3)
    <3>1. CASE q = 1
      BY <3>1, <2>3, <2>t
    <3>2. CASE q = 0
      BY <3>2, <2>3, <2>t
    <3> QED BY <3>1, <3>2
  <2>4. PICK u4 : u4 = <<x4>>
    OBVIOUS
  <2>d. u4 \in Seq(T) /\ Len(u4) = 1 /\ u4[1] = x4
    BY <2>4, <2>t
  <2>5. PICK u5 : u5 = [j \in 1..n |-> x5]
    OBVIOUS
  <2>e. u5 \in Seq(T) /\ Len(u5) = n
    BY <2>5, <2>t
  <2>o. \A j \in 1..n : u5[j] = x5
    BY <2>5
  <2>6. PICK v1 : v1 = u1 \o u2
    OBVIOUS
  <2>f. PICK m1 \in Nat : m1 = 1 + p
    OBVIOUS
  <2>g. /\ v1 \in Seq(T) /\ Len(v1) = m1
        /\ \A j \in 1..1 : v1[j] = u1[j]
        /\ \A j \in 1..p : v1[1 + j] = u2[j]
    <3>2. u1 \in Seq(T) /\ u2 \in Seq(T)
      BY <2>a, <2>b
    <3>1. /\ v1 \in Seq(T) /\ Len(v1) = Len(u1) + Len(u2)
          /\ \A j \in 1..Len(u1) : v1[j] = u1[j]
          /\ \A j \in 1..Len(u2) : v1[Len(u1) + j] = u2[j]
      BY <3>2, <2>6, ConcatAt
    <3> QED BY <3>1, <2>a, <2>b, <2>f
  <2>7. PICK v2 : v2 = v1 \o u3
    OBVIOUS
  <2>h. PICK m2 \in Nat : m2 = m1 + q
    OBVIOUS
  <2>i. /\ v2 \in Seq(T) /\ Len(v2) = m2
        /\ \A j \in 1..m1 : v2[j] = v1[j]
        /\ \A j \in 1..q : v2[m1 + j] = u3[j]
    <3>2. v1 \in Seq(T) /\ u3 \in Seq(T)
      BY <2>c, <2>g
    <3>1. /\ v2 \in Seq(T) /\ Len(v2) = Len(v1) + Len(u3)
          /\ \A j \in 1..Len(v1) : v2[j] = v1[j]
          /\ \A j \in 1..Len(u3) : v2[Len(v1) + j] = u3[j]
      BY <3>2, <2>7, ConcatAt
    <3> QED BY <3>1, <2>c, <2>g, <2>h
  <2>8. PICK v3 : v3 = v2 \o u4
    OBVIOUS
  <2>j. PICK m3 \in Nat : m3 = m2 + 1
    OBVIOUS
  <2>k. /\ v3 \in Seq(T) /\ Len(v3) = m3
        /\ \A j \in 1..m2 : v3[j] = v2[j]
        /\ \A j \in 1..1 : v3[m2 + j] = u4[j]
    <3>2. v2 \in Seq(T) /\ u4 \in Seq(T)
      BY <2>d, <2>i
    <3>1. /\ v3 \in Seq(T) /\ Len(v3) = Len(v2) + Len(u4)
          /\ \A j \in 1..Len(v2) : v3[j] = v2[j]
          /\ \A j \in 1..Len(u4) : v3[Len(v2) + j] = u4[j]
      BY <3>2, <2>8, ConcatAt
    <3> QED BY <3>1, <2>d, <2>i, <2>j
  <2>9. PICK v4 : v4 = v3 \o u5
    OBVIOUS
  <2>l. /\ v4 \in Seq(T) /\ Len(v4) = m3 + n
        /\ \A j \in 1..m3 : v4[j] = v3[j]
        /\ \A j \in 1..n : v4[m3 + j] = u5[j]
    <3>2. v3 \in Seq(T) /\ u5 \in Seq(T)
      BY <2>e, <2>k
    <3>1. /\ v4 \in Seq(T) /\ Len(v4) = Len(v3) + Len(u5)
          /\ \A j \in 1..Len(v3) : v4[j] = v3[j]
          /\ \A j \in 1..Len(u5) : v4[Len(v3) + j] = u5[j]
      BY <3>2, <2>9, ConcatAt
    <3> QED BY <3>1, <2>e, <2>k
  <2>m. m1 = 1 + p /\ m2 = 1 + p + q /\ m3 = p + q + 2
    BY <2>f, <2>h, <2>j
  <2>10. v4 = Units(r, i)
    BY <2>1, <2>2, <2>3, <2>4, <2>5, <2>6, <2>7, <2>8, <2>9, <1>1, <1>2, <2>x, <2>n DEF Units
  <2>11. Len(v4) = p + q + 2 + n
    BY <2>l, <2>m
  <2>12. v4[1] = x1
    BY <2>a, <2>g, <2>i, <2>k, <2>l, <2>m
  <2>13. p = 1 => v4[2] = x2
    BY <2>b, <2>g, <2>i, <2>k, <2>l, <2>m
  <2>14. q = 1 => v4[p + 2] = x3
    <3> SUFFICES ASSUME q = 1 PROVE v4[p + 2] = x3
      OBVIOUS
    <3>1. m1 + 1 = p + 2 /\ p + 2 \in 1..m2 /\ p + 2 \in 1..m3
      BY <2>m
    <3>2. v2[m1 + 1] = x3
      BY <2>c, <2>i
    <3> QED BY <3>1, <3>2, <2>k, <2>l
  <2>15. v4[p + q + 2] = x4
    <3>1. m2 + 1 = m3 /\ m3 \in 1..m3 /\ m3 = p + q + 2
      BY <2>m
    <3>2. v3[m2 + 1] = x4
      BY <2>d, <2>k
    <3> QED BY <3>1, <3>2, <2>l
  <2>16. \A j \in 1..n : v4[p + q + 2 + j] = x5
    BY <2>o, <2>l, <2>m
  <2>17. /\ v4 = Units(r, i) /\ Len(v4) = p + q + 2 + n
         /\ v4[1] = x1 /\ (p = 1 => v4[2] = x2) /\ (q = 1 => v4[p + 2] = x3)
         /\ v4[p + q + 2] = x4 /\ \A j \in 1..n : v4[p + q + 2 + j] = x5
    BY <2>10, <2>11, <2>12, <2>13, <2>14, <2>15, <2>16, Zenon
  <2> WITNESS v4
  <2> QED BY <2>17, <2>x, <2>n
<1>7. ASSUME NEW j \in 1..Size(r) PROVE u[j] = Unit(KindAt(r, j), i)
  <2>1. CASE j > p + q + 2
    <3>1. PICK k \in 1..r.body : j = p + q + 2 + k
      BY <2>1, <1>1, <1>3
    <3>2. KindAt(r, j) = "body"
      BY <2>1, <1>3 DEF KindAt
    <3> QED BY <3>1, <3>2, <1>6
  <2>2. CASE j = p + q + 2
    <3>1. KindAt(r, j) = "blank"
      BY <2>2, <1>3 DEF KindAt
    <3> QED BY <2>2, <3>1, <1>6
  <2>3. CASE j = 1
    BY <2>3, <1>6 DEF KindAt
  <2>4. CASE j = 2 /\ p = 1 /\ j < p + q + 2
    <3>1. KindAt(r, j) = "length"
      BY <2>4, <1>2, <1>3 DEF KindAt
    <3> QED BY <2>4, <3>1, <1>6
  <2>5. CASE j = p + 2 /\ q = 1 /\ j < p + q + 2
    <3>1. KindAt(r, j) = "close"
      BY <2>5, <1>2, <1>3 DEF KindAt
    <3> QED BY <2>5, <3>1, <1>6
  <2> QED BY <2>1, <2>2, <2>3, <2>4, <2>5
<1> QED BY <1>1, <1>3, <1>6, <1>7

\* Request k begins behind at[k] units of s.
UnitsStand(q, s, at, k) ==
  \A j \in 1..Size(q[k]) : at[k] + j \in 1..Len(s) /\ s[at[k] + j] = Unit(KindAt(q[k], j), k)
HasPlace(q, at, p) == \E k \in 1..Len(q) : \E j \in 1..Size(q[k]) : p = at[k] + j

Row(q, s, at) ==
  /\ at \in [1..(Len(q) + 1) -> Nat] /\ at[1] = 0 /\ at[Len(q) + 1] = Len(s)
  /\ \A k \in 1..Len(q) : at[k + 1] = at[k] + Size(q[k])
  /\ \A k \in 1..Len(q) : UnitsStand(q, s, at, k)
  /\ \A p \in 1..Len(s) : HasPlace(q, at, p)

LEMMA RowPlace ==
  ASSUME NEW q \in Seq(Request), NEW s, NEW at, Row(q, s, at), NEW p \in 1..Len(s)
  PROVE  \E k \in 1..Len(q) : \E j \in 1..Size(q[k]) :
           p = at[k] + j /\ s[p] = Unit(KindAt(q[k], j), k)
<1>0. PICK k \in 1..Len(q) : \E j \in 1..Size(q[k]) : p = at[k] + j
  BY DEF Row, HasPlace
<1>1. PICK j \in 1..Size(q[k]) : p = at[k] + j
  BY <1>0
<1>2. s[at[k] + j] = Unit(KindAt(q[k], j), k)
  BY <1>1 DEF Row, UnitsStand
<1> QED BY <1>1, <1>2

LEMMA RowGrow ==
  ASSUME NEW q \in Seq(Request), NEW s \in Seq(UnitType), NEW at, Row(q, s, at),
         NEW r \in Request
  PROVE  \E at2 : Row(Append(q, r), s \o Units(r, Len(q) + 1), at2) /\ \A k \in 1..(Len(q) + 1) : at2[k] = at[k]
<1>1. PICK n \in Nat : n = Len(q)
  OBVIOUS
<1>0. PICK q2, s2 : q2 = Append(q, r) /\ s2 = s \o Units(r, Len(q) + 1)
  OBVIOUS
<1>2. /\ q2 \in Seq(Request) /\ Len(q2) = n + 1 /\ q2[n + 1] = r
      /\ \A k \in 1..n : q2[k] = q[k] /\ q[k] \in Request
  BY <1>0, <1>1
<1>3. PICK u : u = Units(r, n + 1)
  OBVIOUS
<1>4. /\ u \in Seq(UnitType) /\ Len(u) = Size(r)
      /\ \A j \in 1..Size(r) : u[j] = Unit(KindAt(r, j), n + 1)
  <2>1. PICK T : T = [kind : {"line", "length", "close", "blank", "body"}, req : {n + 1}]
    OBVIOUS
  <2>2. u \in Seq(T)
    BY <1>3, <2>1, UnitsFacts
  <2>4. T \subseteq UnitType
    BY <2>1 DEF UnitType
  <2>3. u \in Seq(UnitType)
    BY <2>2, <2>4, SeqMonotonic
  <2> QED BY <2>3, <1>3, UnitAt
<1>5. PICK m \in Nat : m = Len(s)
  OBVIOUS
<1>6. PICK z \in Nat : z = Size(r)
  BY SizeFacts
<1>7. /\ s2 \in Seq(UnitType) /\ Len(s2) = m + z
      /\ \A j \in 1..m : s2[j] = s[j]
      /\ \A j \in 1..z : s2[m + j] = u[j]
  <2>1. s2 = s \o u
    BY <1>0, <1>1, <1>3
  <2>3. u \in Seq(UnitType)
    BY <1>4
  <2>2. /\ s2 \in Seq(UnitType) /\ Len(s2) = Len(s) + Len(u)
        /\ \A j \in 1..Len(s) : s2[j] = s[j]
        /\ \A j \in 1..Len(u) : s2[Len(s) + j] = u[j]
    BY <2>1, <2>3, ConcatAt
  <2> QED BY <2>2, <1>4, <1>5, <1>6
<1>8. PICK at2 : at2 = [k \in 1..(n + 2) |-> IF k = n + 2 THEN m + z ELSE at[k]]
  OBVIOUS
<1>9. /\ at \in [1..(n + 1) -> Nat] /\ at[1] = 0 /\ at[n + 1] = m
      /\ \A k \in 1..n : at[k + 1] = at[k] + Size(q[k])
      /\ \A k \in 1..n : UnitsStand(q, s, at, k)
      /\ \A p \in 1..m : HasPlace(q, at, p)
  BY <1>1, <1>5 DEF Row
<1>10. /\ at2 \in [1..(n + 2) -> Nat] /\ at2[n + 2] = m + z
       /\ \A k \in 1..(n + 1) : at2[k] = at[k]
  BY <1>8, <1>9
<1>11. at2 \in [1..(Len(q2) + 1) -> Nat] /\ at2[1] = 0 /\ at2[Len(q2) + 1] = Len(s2)
  BY <1>2, <1>7, <1>9, <1>10
<1>12. ASSUME NEW k \in 1..Len(q2) PROVE at2[k + 1] = at2[k] + Size(q2[k])
  <2>1. CASE k \in 1..n
    BY <2>1, <1>2, <1>9, <1>10
  <2>2. CASE k = n + 1
    BY <2>2, <1>2, <1>6, <1>9, <1>10
  <2> QED BY <2>1, <2>2, <1>2
<1>13. ASSUME NEW k \in 1..Len(q2) PROVE UnitsStand(q2, s2, at2, k)
  <2>1. CASE k \in 1..n
    <3> SUFFICES ASSUME NEW j \in 1..Size(q2[k])
                 PROVE  /\ at2[k] + j \in 1..Len(s2)
                        /\ s2[at2[k] + j] = Unit(KindAt(q2[k], j), k)
      BY DEF UnitsStand
    <3>1. at2[k] = at[k] /\ q2[k] = q[k] /\ at[k] \in Nat
      BY <2>1, <1>2, <1>9, <1>10
    <3>2. at[k] + j \in 1..m /\ s[at[k] + j] = Unit(KindAt(q[k], j), k)
      BY <2>1, <3>1, <1>5, <1>9 DEF UnitsStand
    <3>3. PICK i \in 1..m : i = at[k] + j
      BY <3>2
    <3>4. i \in 1..Len(s2) /\ s2[i] = s[i]
      BY <1>6, <1>7
    <3> QED BY <3>1, <3>2, <3>3, <3>4
  <2>2. CASE k = n + 1
    <3> SUFFICES ASSUME NEW j \in 1..Size(q2[k])
                 PROVE  /\ at2[k] + j \in 1..Len(s2)
                        /\ s2[at2[k] + j] = Unit(KindAt(q2[k], j), k)
      BY DEF UnitsStand
    <3>1. at2[k] = m /\ q2[k] = r /\ j \in 1..z
      BY <2>2, <1>2, <1>6, <1>9, <1>10
    <3>2. s2[m + j] = Unit(KindAt(r, j), n + 1)
      BY <3>1, <1>4, <1>6, <1>7
    <3> QED BY <3>1, <3>2, <2>2, <1>7
  <2> QED BY <2>1, <2>2, <1>2
<1>14. ASSUME NEW p \in 1..Len(s2) PROVE HasPlace(q2, at2, p)
  <2>1. CASE p \in 1..m
    <3>0. PICK k \in 1..n : \E j \in 1..Size(q[k]) : p = at[k] + j
      BY <2>1, <1>1, <1>9 DEF HasPlace
    <3>1. PICK j \in 1..Size(q[k]) : p = at[k] + j
      BY <3>0
    <3>2. at2[k] = at[k] /\ q2[k] = q[k] /\ k \in 1..Len(q2)
      BY <1>2, <1>10
    <3> QED BY <3>1, <3>2 DEF HasPlace
  <2>2. CASE p > m
    <3>0. p \in Nat /\ p <= m + z
      BY <1>5, <1>6, <1>7
    <3>1. PICK j \in 1..z : p = m + j
      BY <2>2, <3>0
    <3>2. at2[n + 1] = m /\ q2[n + 1] = r /\ n + 1 \in 1..Len(q2)
      BY <1>2, <1>9, <1>10
    <3> QED BY <3>1, <3>2, <1>6 DEF HasPlace
  <2> QED BY <2>1, <2>2, <1>5, <1>7
<1>15. Row(q2, s2, at2)
  BY <1>11, <1>12, <1>13, <1>14 DEF Row
<1> QED BY <1>0, <1>1, <1>10, <1>15

LEMMA RowEmpty ==
  ASSUME NEW at, at = [k \in 1..1 |-> 0]
  PROVE  Row(<< >>, << >>, at)
<1>1. PICK q : q = << >>
  OBVIOUS
<1>2. Len(q) = 0 /\ 1..Len(q) = {} /\ 1..(Len(q) + 1) = 1..1
  BY <1>1
<1>3. at \in [1..(Len(q) + 1) -> Nat] /\ at[1] = 0 /\ at[Len(q) + 1] = Len(q)
  BY <1>2
<1>4. Row(q, q, at)
  BY <1>2, <1>3 DEF Row
<1> QED BY <1>1, <1>4

-----------------------------------------------------------------------------
(* What the parser sees of it.                                             *)

\* c is the part of s behind the first `off` units, up to some point.
Window(c, s, off) ==
  /\ off \in Nat /\ c \in Seq(UnitType) /\ off + Len(c) <= Len(s)
  /\ \A i \in 1..Len(c) : c[i] = s[off + i]

LEMMA ContentWindow ==
  ASSUME NEW b, IsBuffer(b, Stored), NEW s \in Seq(UnitType), NEW d \in 0..Len(s),
         Readable(b) <= d,
         \A i \in 0..(Readable(b) - 1) : b.store[b.reader + i] = s[d - Readable(b) + i + 1]
  PROVE  Window(Content(b), s, d - Readable(b)) /\ Len(Content(b)) = Readable(b)
<1>2. b.reader \in Nat /\ Readable(b) \in Nat
  BY BufferTypes
<1>3. PICK n \in Nat : n = Readable(b)
  BY <1>2
<1>4. PICK off \in Nat : off = d - n
  BY <1>3
<1>5. PICK c : c = Content(b)
  OBVIOUS
<1>6. c = [i \in 1..n |-> b.store[b.reader + i - 1]]
  BY <1>3, <1>5 DEF Content
<1>7. ASSUME NEW i \in 1..n PROVE c[i] = s[off + i] /\ s[off + i] \in UnitType
  <2>1. c[i] = b.store[b.reader + i - 1]
    BY <1>6
  <2>2. i - 1 \in 0..(n - 1) /\ b.reader + i - 1 = b.reader + (i - 1)
    BY <1>2
  <2>3. b.store[b.reader + (i - 1)] = s[d - n + (i - 1) + 1]
    BY <2>2, <1>3
  <2>4. d - n + (i - 1) + 1 = off + i /\ off + i \in 1..Len(s)
    BY <1>3, <1>4
  <2> QED BY <2>1, <2>2, <2>3, <2>4
<1>8. c \in Seq(UnitType) /\ Len(c) = n
  <2>1. c = [i \in 1..n |-> c[i]]
    BY <1>6
  <2> QED BY <2>1, <1>7
<1>9. off + n <= Len(s)
  BY <1>3, <1>4
<1> QED BY <1>3, <1>4, <1>5, <1>7, <1>8, <1>9 DEF Window

\* Request k of the row is r, behind the first a units.
Stands(q, at, k, r, a) ==
  k \in 1..Len(q) /\ q[k] = r /\ r \in Request /\ at[k] = a /\ a \in Nat

LEMMA WindowPlace ==
  ASSUME NEW q \in Seq(Request), NEW s, NEW at, Row(q, s, at),
         NEW c, NEW off, Window(c, s, off), NEW i \in 1..Len(c)
  PROVE  \E k, r, a : /\ Stands(q, at, k, r, a)
                      /\ \E j \in 1..Size(r) :
                           /\ off + i = a + j
                           /\ c[i].kind = KindAt(r, j) /\ c[i].req = k
<1>1. PICK p \in 1..Len(s) : p = off + i
  BY LenProperties DEF Window
<1>2. c[i] = s[p]
  BY <1>1 DEF Window
<1>3. PICK k \in 1..Len(q) : \E j \in 1..Size(q[k]) :
        p = at[k] + j /\ s[p] = Unit(KindAt(q[k], j), k)
  BY <1>1, RowPlace
<1>4. PICK j \in 1..Size(q[k]) : p = at[k] + j /\ s[p] = Unit(KindAt(q[k], j), k)
  BY <1>3
<1>5. PICK r \in Request : r = q[k]
  BY <1>3, ElementOfSeq
<1>a. PICK a \in Nat : a = at[k]
  BY <1>3 DEF Row
<1>6. Stands(q, at, k, r, a)
  BY <1>3, <1>5, <1>a DEF Stands
<1>7. /\ j \in 1..Size(r) /\ off + i = a + j
      /\ c[i].kind = KindAt(r, j) /\ c[i].req = k
  BY <1>1, <1>2, <1>4, <1>5, <1>a DEF Unit
<1> QED BY <1>6, <1>7

LEMMA WindowAt ==
  ASSUME NEW q \in Seq(Request), NEW s, NEW at, Row(q, s, at),
         NEW c, NEW off, Window(c, s, off), NEW i \in 1..Len(c),
         NEW k, NEW r, NEW a, Stands(q, at, k, r, a),
         NEW j \in 1..Size(r), off + i = a + j
  PROVE  c[i].kind = KindAt(r, j) /\ c[i].req = k
<1>0. k \in 1..Len(q) /\ q[k] = r /\ at[k] = a
  BY DEF Stands
<1>1. c[i] = s[off + i]
  BY DEF Window
<1>2. \A d \in 1..Size(r) : s[a + d] = Unit(KindAt(r, d), k)
  BY <1>0 DEF Row, UnitsStand
<1>3. s[a + j] = Unit(KindAt(r, j), k)
  BY <1>2
<1> QED BY <1>1, <1>3 DEF Unit

LEMMA KindFacts ==
  ASSUME NEW r \in Request, NEW j \in 1..Size(r)
  PROVE  /\ KindAt(r, j) = "line" <=> j = 1
         /\ KindAt(r, j) = "body" <=> j > HeadSize(r)
         /\ KindAt(r, j) = "blank" <=> j = HeadSize(r)
         /\ KindAt(r, j) = "length" <=> j = 2 /\ r.body > 0
         /\ KindAt(r, j) = "close" <=> ~r.keep /\ j = HeadSize(r) - 1
<1>1. /\ r.body \in Nat /\ r.keep \in BOOLEAN /\ HeadSize(r) \in 2..4
      /\ r.body > 0 => HeadSize(r) \in 3..4
      /\ ~r.keep => HeadSize(r) \in 3..4
  BY SizeFacts
<1>2. /\ r.body > 0 /\ r.keep => HeadSize(r) = 3
      /\ r.body > 0 /\ ~r.keep => HeadSize(r) = 4
      /\ ~(r.body > 0) /\ r.keep => HeadSize(r) = 2
      /\ ~(r.body > 0) /\ ~r.keep => HeadSize(r) = 3
  BY <1>1 DEF HeadSize
<1>3. PICK h \in 2..4 : h = HeadSize(r)
  BY <1>1
<1>j. j \in Nat /\ j >= 1
  BY SizeFacts
<1>4. KindAt(r, j) = IF j = 1 THEN "line" ELSE IF j > h THEN "body"
                     ELSE IF j = h THEN "blank"
                     ELSE IF j = 2 /\ r.body > 0 THEN "length" ELSE "close"
  BY <1>3 DEF KindAt
<1>5. CASE r.body > 0 /\ r.keep
  BY <1>5, <1>2, <1>3, <1>4, <1>j
<1>6. CASE r.body > 0 /\ ~r.keep
  BY <1>6, <1>2, <1>3, <1>4, <1>j
<1>7. CASE ~(r.body > 0) /\ r.keep
  BY <1>7, <1>2, <1>3, <1>4, <1>j
<1>8. CASE ~(r.body > 0) /\ ~r.keep
  BY <1>8, <1>2, <1>3, <1>4, <1>j
<1> QED BY <1>1, <1>5, <1>6, <1>7, <1>8

LEMMA LinesFacts ==
  ASSUME NEW c \in Seq(UnitType)
  PROVE  /\ Lines(c) \in 0..Len(c)
         /\ \A i \in 1..Len(c) : i > Lines(c) => ~LineEnd(c, i)
<1>1. PICK n \in Nat : n = Len(c) /\ DOMAIN c = 1..n
  BY LenProperties
<1>2. PICK S : S = {m \in 0..n : \A i \in 1..n : i > m => ~LineEnd(c, i)}
  OBVIOUS
<1>3. n \in S /\ S \subseteq Nat
  BY <1>2
<1>4. First(S) \in S
  BY <1>3, FirstFacts
<1>5. Lines(c) = First(S)
  BY <1>1, <1>2 DEF Lines
<1> QED BY <1>1, <1>2, <1>4, <1>5

\* The first line that ends in c, and its first blank line.
LEMMA LineEndFacts ==
  ASSUME NEW c \in Seq(UnitType)
  PROVE  /\ LineEnds(c) \subseteq 1..Len(c) /\ BlankLines(c) \subseteq 1..Len(c)
         /\ \A i \in 1..Len(c) : i \in LineEnds(c) <=> c[i].kind # "body"
         /\ LineEnds(c) # {} => /\ First(LineEnds(c)) \in LineEnds(c)
                                /\ \A i \in LineEnds(c) : First(LineEnds(c)) <= i
         /\ BlankLines(c) # {} => /\ First(BlankLines(c)) \in BlankLines(c)
                                  /\ \A i \in BlankLines(c) : First(BlankLines(c)) <= i
<1>1. PICK n \in Nat : n = Len(c) /\ DOMAIN c = 1..n
  BY LenProperties
<1>2. LineEnds(c) \subseteq 1..n /\ \A i \in 1..n : i \in LineEnds(c) <=> c[i].kind # "body"
  BY <1>1 DEF LineEnds, LineEnd
<1>3. BlankLines(c) \subseteq 1..n
  BY <1>2 DEF BlankLines
<1>4. LineEnds(c) \subseteq Nat /\ BlankLines(c) \subseteq Nat
  BY <1>2, <1>3
<1> QED BY <1>1, <1>2, <1>3, <1>4, FirstFacts

\* Unit i of c is unit j of a request r behind a units, in front of its blank
\* line, and a line of a head that has arrived.
InHead(c, off, i, r, a, j) ==
  /\ i \in 1..Len(c) /\ j \in 1..(HeadSize(r) - 1) /\ off + i = a + j
  /\ BlankLines(c) # {} /\ i < First(BlankLines(c)) /\ First(LineEnds(c)) <= i

\* Then the first blank line of c ends the head of this request.
LEMMA HeadEnds ==
  ASSUME NEW q \in Seq(Request), NEW s, NEW at, Row(q, s, at),
         NEW c, NEW off, Window(c, s, off), NEW i, NEW j,
         NEW k, NEW r, NEW a, Stands(q, at, k, r, a), InHead(c, off, i, r, a, j)
  PROVE  First(BlankLines(c)) = i + (HeadSize(r) - j)
<1>0. off \in Nat /\ a \in Nat
  BY DEF Window, Stands
<1>c. c \in Seq(UnitType)
  BY DEF Window
<1>r. r \in Request
  BY DEF Stands
<1>n. PICK n : n = Len(c)
  OBVIOUS
<1>1. n \in Nat
  BY <1>c, <1>n, LenProperties
<1>h. PICK h, z : h = HeadSize(r) /\ z = Size(r)
  OBVIOUS
<1>2. h \in 2..4 /\ z \in Nat /\ h <= z
  BY <1>r, <1>h, SizeFacts
<1>b. PICK b : b = First(BlankLines(c))
  OBVIOUS
<1>3. b \in 1..n
  BY <1>b, <1>n, <1>c, <1>1, LineEndFacts DEF InHead
<1>4. c[b].kind = "blank" /\ \A d \in BlankLines(c) : b <= d
  BY <1>c, <1>b, LineEndFacts DEF BlankLines, InHead
<1>5. i \in 1..n /\ j \in 1..(h - 1) /\ off + i = a + j /\ i < b
  BY <1>n, <1>h, <1>b DEF InHead
<1>6. PICK e \in Nat : e = i + (h - j) /\ off + e = a + h /\ i < e
  BY <1>0, <1>1, <1>2, <1>5
<1>7. b <= e
  <2>1. CASE e \in 1..n
    <3>1. c[e].kind = "blank"
      <4>1. h \in 1..Size(r) /\ e \in 1..Len(c)
        BY <2>1, <1>1, <1>2, <1>n, <1>h
      <4>2. c[e].kind = KindAt(r, h)
        BY <4>1, <1>6, WindowAt
      <4> QED BY <4>1, <4>2, <1>r, <1>h, KindFacts
    <3>2. c[e - 1].kind # "body"
      <4>1. PICK f \in 1..n, g \in 1..z : f = e - 1 /\ g = h - 1 /\ off + f = a + g
        BY <2>1, <1>0, <1>1, <1>2, <1>5, <1>6
      <4>2. f \in 1..Len(c) /\ g \in 1..Size(r)
        BY <4>1, <1>n, <1>h
      <4>3. c[f].kind = KindAt(r, g)
        BY <4>1, <4>2, WindowAt
      <4>4. ~(g > HeadSize(r))
        BY <4>1, <1>2, <1>h
      <4> QED BY <4>1, <4>2, <4>3, <4>4, <1>r, KindFacts
    <3>3. e \in LineEnds(c)
      BY <2>1, <3>1, <1>c, <1>n, LineEndFacts
    <3>4. First(LineEnds(c)) < e
      <4>1. PICK l \in 1..n : l = First(LineEnds(c))
        BY <3>3, <1>c, <1>n, LineEndFacts
      <4>2. l <= i
        BY <4>1 DEF InHead
      <4> QED BY <4>1, <4>2, <1>1, <1>5, <1>6
    <3>5. Clean(c, e)
      BY <3>1, <3>2 DEF Clean, LineEnd
    <3> QED BY <3>1, <3>3, <3>4, <3>5, <1>4 DEF BlankLines
  <2>2. CASE ~(e \in 1..n)
    BY <2>2, <1>1, <1>3, <1>5, <1>6
  <2> QED BY <2>1, <2>2
<1>8. PICK d \in 1..h : d = j + (b - i) /\ off + b = a + d
  BY <1>0, <1>1, <1>2, <1>3, <1>5, <1>6, <1>7
<1>9. d = h
  <2>1. d \in 1..Size(r) /\ b \in 1..Len(c)
    BY <1>1, <1>2, <1>3, <1>8, <1>n, <1>h
  <2>2. c[b].kind = KindAt(r, d)
    BY <2>1, <1>8, WindowAt
  <2> QED BY <2>1, <2>2, <1>r, <1>h, <1>4, KindFacts
<1>10. b = i + (h - j)
  BY <1>1, <1>2, <1>3, <1>5, <1>8, <1>9
<1> QED BY <1>b, <1>h, <1>10

-----------------------------------------------------------------------------
(* A parse that wants more leaves no line end behind what it consumed.     *)

LEMMA ParseMore ==
  ASSUME NEW c \in Seq(UnitType), Parse(c).outcome = "more"
  PROVE  \/ LineEnds(c) = {} /\ Parse(c).taken = 0
         \/ LineEnds(c) # {} /\ BlankLines(c) = {} /\ Parse(c).taken = Lines(c)
         \/ /\ LineEnds(c) # {} /\ BlankLines(c) # {}
            /\ Parse(c).taken = First(BlankLines(c))
            /\ Len(c) - First(BlankLines(c)) < ContentLength(c)
<1>1. CASE LineEnds(c) = {}
  BY <1>1 DEF Parse, More
<1>2. CASE LineEnds(c) # {} /\ c[First(LineEnds(c))].kind # "line"
  BY <1>2 DEF Parse
<1>3. CASE LineEnds(c) # {} /\ c[First(LineEnds(c))].kind = "line" /\ BlankLines(c) = {}
  BY <1>3 DEF Parse, More
<1>4. CASE /\ LineEnds(c) # {} /\ c[First(LineEnds(c))].kind = "line" /\ BlankLines(c) # {}
           /\ Len(c) - First(BlankLines(c)) < ContentLength(c)
  <2>1. Parse(c) = More(First(BlankLines(c)))
    BY <1>4 DEF Parse
  <2> QED BY <1>4, <2>1 DEF More
<1>5. CASE /\ LineEnds(c) # {} /\ c[First(LineEnds(c))].kind = "line" /\ BlankLines(c) # {}
           /\ ~(Len(c) - First(BlankLines(c)) < ContentLength(c))
  <2>1. Parse(c).outcome = "done"
    BY <1>5 DEF Parse
  <2> QED BY <2>1
<1> QED BY <1>1, <1>2, <1>3, <1>4, <1>5

\* Where a body length comes from.
LEMMA LengthFrom ==
  ASSUME NEW c \in Seq(UnitType), Headers(c, "length") # {}
  PROVE  \E i \in Headers(c, "length") : ContentLength(c) = requests[c[i].req].body
<1>1. PICK n \in Nat : n = Len(c)
  BY LenProperties
<1>2. LineEnds(c) \subseteq 1..n
  BY <1>1, LineEndFacts
<1>3. PICK H \in SUBSET (1..n) : H = Headers(c, "length")
  BY <1>2 DEF Headers
<1>4. PICK k : k = CHOOSE i \in H : \A j \in H : j <= i
  OBVIOUS
<1>5. \E i \in H : \A j \in H : j <= i
  BY <1>1, <1>3, LastExists
<1>6. k \in H
  BY <1>4, <1>5
<1>7. ContentLength(c) = requests[c[k].req].body
  BY <1>3, <1>4 DEF ContentLength
<1> QED BY <1>3, <1>6, <1>7

LEMMA RestHasNoLine ==
  ASSUME requests \in Seq(Request), NEW at, Row(requests, stream, at),
         NEW c, NEW off, Window(c, stream, off), Parse(c).outcome = "more"
  PROVE  /\ Parse(c).taken \in 0..Len(c)
         /\ \A i \in 1..Len(c) : i > Parse(c).taken => c[i].kind = "body"
<1>c. c \in Seq(UnitType)
  BY DEF Window
<1>1. CASE LineEnds(c) = {} /\ Parse(c).taken = 0
  BY <1>1, <1>c, LineEndFacts, LenProperties
<1>2. CASE Parse(c).taken = Lines(c)
  BY <1>2, <1>c, LinesFacts DEF LineEnd
<1>3. CASE /\ LineEnds(c) # {} /\ BlankLines(c) # {}
           /\ Parse(c).taken = First(BlankLines(c))
           /\ Len(c) - First(BlankLines(c)) < ContentLength(c)
  <2>n. PICK n : n = Len(c)
    OBVIOUS
  <2>1. n \in Nat
    BY <1>c, <2>n, LenProperties
  <2>b. PICK b : b = First(BlankLines(c))
    OBVIOUS
  <2>2. b \in 1..n
    BY <1>3, <1>c, <2>n, <2>b, LineEndFacts
  <2>3. Headers(c, "length") # {}
    <3> SUFFICES ASSUME Headers(c, "length") = {} PROVE FALSE
      OBVIOUS
    <3>1. ContentLength(c) = 0
      BY DEF ContentLength
    <3>2. n - b < 0
      BY <1>3, <2>n, <2>b, <3>1
    <3> QED BY <3>2, <2>1, <2>2
  <2>4. PICK i : i \in Headers(c, "length") /\ ContentLength(c) = requests[c[i].req].body
    BY <1>c, <2>3, LengthFrom
  <2>5. /\ i \in LineEnds(c) /\ First(LineEnds(c)) < i /\ i < First(BlankLines(c))
        /\ c[i].kind = "length"
    BY <2>4 DEF Headers
  <2>6. i \in 1..n
    BY <2>5, <1>c, <2>n, LineEndFacts
  <2>7. PICK k, r, a : /\ Stands(requests, at, k, r, a)
                       /\ \E j \in 1..Size(r) : /\ off + i = a + j
                                                /\ c[i].kind = KindAt(r, j) /\ c[i].req = k
    BY <2>6, <2>n, WindowPlace
  <2>8. PICK j : /\ j \in 1..Size(r) /\ off + i = a + j
                 /\ c[i].kind = KindAt(r, j) /\ c[i].req = k
    BY <2>7
  <2>9. r \in Request
    BY <2>7 DEF Stands
  <2>10. j = 2 /\ r.body > 0
    BY <2>5, <2>8, <2>9, KindFacts
  <2>h. PICK h, z, m : h = HeadSize(r) /\ z = Size(r) /\ m = r.body
    OBVIOUS
  <2>11. h \in 3..4 /\ m \in Nat /\ z = h + m
    BY <2>9, <2>10, <2>h, SizeFacts
  <2>12. InHead(c, off, i, r, a, 2)
    <3>1. 2 \in 1..(HeadSize(r) - 1)
      BY <2>11, <2>h
    <3>2. First(LineEnds(c)) <= i
      <4>1. PICK l : l = First(LineEnds(c))
        OBVIOUS
      <4>2. l \in 1..n /\ l < i
        BY <4>1, <2>5, <1>3, <1>c, <2>n, LineEndFacts
      <4>3. l <= i
        BY <4>2, <2>1, <2>6
      <4> QED BY <4>1, <4>3
    <3> QED BY <3>1, <3>2, <1>3, <2>5, <2>6, <2>8, <2>10, <2>n DEF InHead
  <2>13. b = i + (h - 2)
    BY <2>7, <2>12, <2>b, <2>h, HeadEnds
  <2>14. ContentLength(c) = m
    BY <2>4, <2>7, <2>8, <2>h DEF Stands
  <2>15. n - b < m
    BY <1>3, <2>14, <2>n, <2>b
  <2>16. off \in Nat /\ a \in Nat /\ off + i = a + 2
    BY <2>7, <2>8, <2>10 DEF Window, Stands
  <2>17. ASSUME NEW e \in 1..n, e > b PROVE c[e].kind = "body"
    <3>1. PICK d \in 1..z : d = h + (e - b) /\ off + e = a + d /\ d > h
      BY <2>17, <2>1, <2>2, <2>6, <2>11, <2>13, <2>15, <2>16
    <3>2. d \in 1..Size(r) /\ e \in 1..Len(c)
      BY <3>1, <2>h, <2>n
    <3>3. c[e].kind = KindAt(r, d)
      BY <3>1, <3>2, <2>7, WindowAt
    <3>4. d > HeadSize(r)
      BY <3>1, <2>h
    <3> QED BY <3>2, <3>3, <3>4, <2>9, KindFacts
  <2>18. b \in 0..n
    BY <2>1, <2>2
  <2> QED BY <2>17, <2>18, <2>n, <2>b, <1>3
<1> QED BY <1>1, <1>2, <1>3, <1>c, ParseMore

LEMMA RetrieveReadable ==
  ASSUME NEW b, IsBuffer(b, Stored), NEW n \in 0..Readable(b)
  PROVE  Readable(Retrieve(b, n)) = Readable(b) - n
<1>0. /\ b.reader \in Nat /\ b.writer \in Nat /\ Prepend \in Nat
      /\ Readable(b) = b.writer - b.reader /\ b.reader <= b.writer
  BY BufferTypes
<1>b. b \in [store : {b.store}, cap : Nat, reader : Nat, writer : Nat, pooled : BOOLEAN]
  BY DEF IsBuffer
<1>1. CASE n < Readable(b)
  <2>1. Retrieve(b, n) = [b EXCEPT !.reader = @ + n]
    BY <1>1 DEF Retrieve
  <2>2. Retrieve(b, n).reader = b.reader + n /\ Retrieve(b, n).writer = b.writer
    BY <2>1, <1>b
  <2> QED BY <2>2, <1>0 DEF Readable
<1>2. CASE ~(n < Readable(b))
  <2>1. Retrieve(b, n) = [b EXCEPT !.reader = Prepend, !.writer = Prepend]
    BY <1>2 DEF Retrieve, RetrieveAll
  <2>2. Retrieve(b, n).reader = Prepend /\ Retrieve(b, n).writer = Prepend
    BY <2>1, <1>b
  <2>3. n = Readable(b)
    BY <1>0, <1>2
  <2> QED BY <2>2, <2>3, <1>0 DEF Readable
<1> QED BY <1>1, <1>2

\* A request sent later does not change what the parser makes of c.
LEMMA ParseStable ==
  ASSUME NEW CONSTANT c, Sent(c), requests \in Seq(Request), NEW CONSTANT r \in Request,
         requests' = Append(requests, r)
  PROVE  Parse(c)' = Parse(c)
<1>1. PICK n \in Nat : n = Len(c)
  BY LenProperties DEF Sent
<1>2. \A i \in 1..Len(requests) : requests'[i] = requests[i]
  BY AppendProperties
<1>3. ContentLength(c)' = ContentLength(c)
  <2>1. LineEnds(c) \subseteq 1..n
    BY <1>1, LineEndFacts DEF Sent
  <2>2. PICK H \in SUBSET (1..n) : H = Headers(c, "length")
    BY <2>1 DEF Headers
  <2>3. CASE H = {}
    BY <2>2, <2>3 DEF ContentLength
  <2>4. CASE H # {}
    <3>1. \E i \in H : \A j \in H : j <= i
      BY <1>1, <2>4, LastExists
    <3>2. PICK k : k = CHOOSE i \in H : \A j \in H : j <= i
      OBVIOUS
    <3>3. k \in 1..n
      BY <3>1, <3>2
    <3>4. c[k].req \in 1..Len(requests)
      BY <1>1, <3>3 DEF Sent
    <3>5. ContentLength(c) = requests[c[k].req].body
      BY <2>2, <2>4, <3>2 DEF ContentLength
    <3>6. ContentLength(c)' = requests'[c[k].req].body
      BY <2>2, <2>4, <3>2 DEF ContentLength
    <3> QED BY <3>4, <3>5, <3>6, <1>2
  <2> QED BY <2>3, <2>4
<1> QED BY <1>3 DEF Parse

-----------------------------------------------------------------------------
(* What waits in the buffer.                                               *)

\* The stream is a row of the requests sent.
Tiled == \E at : Row(requests, stream, at)

WInv == IInv /\ Tiled /\ NothingWaits

LEMMA InitTiled == Init => Tiled
<1> SUFFICES ASSUME Init PROVE Tiled
  OBVIOUS
<1>1. PICK at : at = [k \in 1..1 |-> 0]
  OBVIOUS
<1>2. Row(<< >>, << >>, at)
  BY <1>1, RowEmpty
<1> QED BY <1>2 DEF Init, Tiled

LEMMA SendRequestTiled ==
  ASSUME IInv, Tiled, NEW r \in Request, SendRequest(r)
  PROVE  Tiled'
<1>1. PICK at : Row(requests, stream, at)
  BY DEF Tiled
<1>2. PICK q \in Seq(Request), s \in Seq(UnitType) : q = requests /\ s = stream
  BY DEF IInv, TypeOK
<1>3. \E at2 : Row(Append(q, r), s \o Units(r, Len(q) + 1), at2)
  BY <1>1, <1>2, RowGrow
<1>4. requests' = Append(q, r) /\ stream' = s \o Units(r, Len(q) + 1)
  BY <1>2 DEF SendRequest
<1> QED BY <1>3, <1>4 DEF Tiled

LEMMA NextTiled == IInv /\ Tiled /\ [Next]_httpVars => Tiled'
<1> SUFFICES ASSUME IInv, Tiled, [Next]_httpVars PROVE Tiled'
  OBVIOUS
<1>1. ASSUME NEW r \in Request, SendRequest(r) PROVE Tiled'
  BY <1>1, SendRequestTiled
<1>2. ASSUME UNCHANGED <<requests, stream>> PROVE Tiled'
  BY <1>2 DEF Tiled
<1>3. ASSUME NEW n \in 1..Len(stream), HandleRead(n) PROVE Tiled'
  BY <1>2, <1>3 DEF HandleRead
<1>4. CASE ReturnForMore
  BY <1>2, <1>4 DEF ReturnForMore
<1>5. CASE Throw
  BY <1>2, <1>5 DEF Throw
<1>6. CASE ServeStatic
  BY <1>2, <1>6 DEF ServeStatic
<1>7. CASE ServeEcho
  BY <1>2, <1>7 DEF ServeEcho
<1>8. CASE ServeRoute
  BY <1>2, <1>8 DEF ServeRoute
<1>9. CASE UNCHANGED httpVars
  BY <1>2, <1>9 DEF httpVars
<1> QED BY <1>1, <1>3, <1>4, <1>5, <1>6, <1>7, <1>8, <1>9 DEF Next

LEMMA BufferWindow ==
  ASSUME IInv
  PROVE  /\ Window(Content(buf), stream, received - Readable(buf))
         /\ Len(Content(buf)) = Readable(buf)
<1>1. /\ IsBuffer(buf, Stored) /\ stream \in Seq(UnitType) /\ received \in 0..Len(stream)
      /\ Readable(buf) <= received
      /\ \A i \in 0..(Readable(buf) - 1) :
           buf.store[buf.reader + i] = stream[received - Readable(buf) + i + 1]
  BY DEF IInv, TypeOK, HoldsStream, Stored
<1> QED BY <1>1, ContentWindow

\* What is left of the readable units after n of them are retrieved.
LEMMA RetrievedContent ==
  ASSUME IInv, IInv', UNCHANGED <<stream, received>>,
         NEW CONSTANT n \in 0..Readable(buf), buf' = Retrieve(buf, n)
  PROVE  /\ Readable(buf') = Readable(buf) - n
         /\ Content(buf') \in Seq(UnitType) /\ Len(Content(buf')) = Readable(buf) - n
         /\ \A i \in 1..(Readable(buf) - n) : Content(buf')[i] = Content(buf)[n + i]
<1>1. /\ IsBuffer(buf', Stored) /\ stream \in Seq(UnitType) /\ received \in 0..Len(stream)
      /\ Readable(buf') <= received
      /\ \A i \in 0..(Readable(buf') - 1) :
           buf'.store[buf'.reader + i] = stream[received - Readable(buf') + i + 1]
  BY DEF IInv, TypeOK, HoldsStream, Stored, Readable
<1>2. /\ Window(Content(buf'), stream, received - Readable(buf'))
      /\ Len(Content(buf')) = Readable(buf')
  BY <1>1, ContentWindow
<1>3. Readable(buf') = Readable(buf) - n
  BY RetrieveReadable DEF IInv, TypeOK, Stored
<1>4. PICK m : m = Readable(buf)
  OBVIOUS
<1>5. m \in Nat /\ n \in 0..m
  BY <1>4, BufferTypes DEF IInv, TypeOK, Stored
<1>6. PICK d : d = received
  OBVIOUS
<1>7. d \in Nat /\ m <= d
  BY <1>4, <1>6, LenProperties DEF IInv, TypeOK, HoldsStream
<1>8. PICK c, c2 : c = Content(buf) /\ c2 = Content(buf')
  OBVIOUS
<1>9. Len(c2) = m - n /\ \A i \in 1..(m - n) : c2[i] = stream[(d - (m - n)) + i]
  BY <1>2, <1>3, <1>4, <1>6, <1>8 DEF Window
<1>10. \A i \in 1..m : c[i] = stream[(d - m) + i]
  BY <1>4, <1>6, <1>8, BufferWindow DEF Window
<1>11. ASSUME NEW i \in 1..(m - n) PROVE c2[i] = c[n + i]
  <2>1. n + i \in 1..m /\ (d - (m - n)) + i = (d - m) + (n + i)
    BY <1>5, <1>7
  <2> QED BY <2>1, <1>9, <1>10
<1>12. c2 \in Seq(UnitType)
  BY <1>2, <1>8 DEF Window
<1> QED BY <1>3, <1>4, <1>8, <1>9, <1>11, <1>12

LEMMA ReturnForMoreWaits ==
  ASSUME IInv, Tiled, IInv', ReturnForMore
  PROVE  NothingWaits'
<1>1. PICK at : Row(requests, stream, at)
  BY DEF Tiled
<1>2. PICK c, t : c = Content(buf) /\ t = Parse(Content(buf)).taken
  OBVIOUS
<1>3. PICK m : m = Readable(buf)
  OBVIOUS
<1>4. m \in Nat /\ Len(c) = m
  BY <1>2, <1>3, BufferTypes, BufferWindow DEF IInv, TypeOK, Stored
<1>5. /\ t \in 0..m
      /\ \A i \in 1..m : i > t => c[i].kind = "body"
  <2>1. Parse(c).outcome = "more"
    BY <1>2 DEF ReturnForMore
  <2>2. requests \in Seq(Request)
    BY DEF IInv, TypeOK
  <2>3. PICK off : off = received - Readable(buf)
    OBVIOUS
  <2>4. Window(c, stream, off)
    BY <1>2, <2>3, BufferWindow
  <2>5. /\ Parse(c).taken \in 0..Len(c)
        /\ \A i \in 1..Len(c) : i > Parse(c).taken => c[i].kind = "body"
    BY <1>1, <2>1, <2>2, <2>4, RestHasNoLine
  <2> QED BY <2>5, <1>2, <1>4
<1>6. PICK c2 : c2 = Content(buf')
  OBVIOUS
<1>7. /\ c2 \in Seq(UnitType) /\ Len(c2) = m - t
      /\ \A i \in 1..(m - t) : c2[i] = c[t + i]
  <2>1. buf' = Retrieve(buf, t) /\ UNCHANGED <<stream, received>>
    BY <1>2 DEF ReturnForMore
  <2>2. t \in 0..Readable(buf)
    BY <1>3, <1>5
  <2> QED BY <2>1, <2>2, <1>2, <1>3, <1>6, RetrievedContent
<1>8. LineEnds(c2) = {}
  <2>1. ASSUME NEW i \in 1..(m - t) PROVE c2[i].kind = "body"
    <3>1. t + i \in 1..m /\ t + i > t
      BY <1>4, <1>5
    <3> QED BY <3>1, <1>5, <1>7
  <2> QED BY <2>1, <1>7, LineEndFacts
<1>9. Parse(Content(buf))'.outcome = "more"
  BY <1>6, <1>8 DEF Parse, More
<1> QED BY <1>9 DEF NothingWaits

LEMMA SendRequestWaits ==
  ASSUME IInv, NothingWaits, NEW r \in Request, SendRequest(r)
  PROVE  NothingWaits'
<1>1. PICK c : c = Content(buf)
  OBVIOUS
<1>2. Sent(c) /\ requests \in Seq(Request)
  BY <1>1, ContentFacts DEF IInv, TypeOK
<1>3. requests' = Append(requests, r) /\ UNCHANGED <<buf, pc, left>>
  BY DEF SendRequest
<1>4. Parse(c)' = Parse(c)
  BY <1>2, <1>3, ParseStable
<1>5. c = Content(buf)'
  BY <1>1, <1>3
<1> QED BY <1>1, <1>3, <1>4, <1>5 DEF NothingWaits

LEMMA InitWInv == Init => WInv
<1> SUFFICES ASSUME Init PROVE WInv
  OBVIOUS
<1>1. IInv /\ Tiled
  BY InitIInv, InitTiled
<1>2. NothingWaits
  <2>1. buf = NewBuffer(Initial)
    BY DEF Init
  <2>2. Readable(buf) = 0
    <3>1. Initial \in Nat /\ Blank \in Stored
      BY HttpAssumption DEF Stored
    <3> QED BY <2>1, <3>1, NewBufferFacts
  <2>3. PICK c : c = Content(buf)
    OBVIOUS
  <2>4. c \in Seq(UnitType) /\ Len(c) = 0
    BY <1>1, <2>2, <2>3, BufferWindow DEF Window
  <2>5. LineEnds(c) = {}
    <3>1. LineEnds(c) \subseteq 1..Len(c)
      BY <2>4, LineEndFacts
    <3>2. 1..Len(c) = {}
      BY <2>4
    <3> QED BY <3>1, <3>2
  <2>6. Parse(Content(buf)).outcome = "more"
    BY <2>3, <2>5 DEF Parse, More
  <2> QED BY <2>6 DEF NothingWaits
<1> QED BY <1>1, <1>2 DEF WInv

LEMMA NextWInv == WInv /\ [Next]_httpVars => WInv'
<1> SUFFICES ASSUME WInv, [Next]_httpVars PROVE WInv'
  OBVIOUS
<1>1. IInv /\ Tiled /\ NothingWaits /\ IInv' /\ Tiled'
  BY NextIInv, NextTiled DEF WInv
<1>2. ASSUME NEW r \in Request, SendRequest(r) PROVE NothingWaits'
  BY <1>1, <1>2, SendRequestWaits
<1>3. ASSUME pc' # "read" \/ left' PROVE NothingWaits'
  BY <1>3 DEF NothingWaits
<1>4. ASSUME NEW n \in 1..Len(stream), HandleRead(n) PROVE NothingWaits'
  BY <1>3, <1>4 DEF HandleRead
<1>5. NothingWaits'
  <2>1. CASE ReturnForMore
    BY <1>1, <2>1, ReturnForMoreWaits
  <2>2. CASE Throw
    BY <1>3, <2>2 DEF Throw
  <2>3. CASE ServeStatic
    BY <1>3, <2>3 DEF ServeStatic
  <2>4. CASE ServeEcho
    <3>1. pc' # "read"
      BY <2>4 DEF ServeEcho, Respond
    <3> QED BY <3>1, <1>3
  <2>5. CASE ServeRoute
    <3>1. pc' # "read"
      BY <2>5 DEF ServeRoute, Respond
    <3> QED BY <3>1, <1>3
  <2>6. CASE UNCHANGED httpVars
    <3>1. UNCHANGED <<requests, buf, pc, left>>
      BY <2>6 DEF httpVars
    <3>2. PICK c : c = Content(buf)
      OBVIOUS
    <3>3. Parse(c)' = Parse(c)
      BY <3>1 DEF Parse, ContentLength
    <3>4. c = Content(buf)'
      BY <3>1, <3>2
    <3> QED BY <1>1, <3>1, <3>2, <3>3, <3>4 DEF NothingWaits
  <2> QED BY <1>2, <1>4, <2>1, <2>2, <2>3, <2>4, <2>5, <2>6 DEF Next
<1> QED BY <1>1, <1>5 DEF WInv

\* http_server.cc:32-233: when OnMessage has returned because Parse wanted more
\* data, Parse still finds no complete request in the buffer, for any requests
\* and segments, even after it has lost its place in a request that was split.
\* (Behind a static response a request may wait.)
THEOREM NoRequestWaits == Spec => []NothingWaits
<1>1. Init => WInv
  BY InitWInv
<1>2. WInv /\ [Next]_httpVars => WInv'
  BY NextWInv
<1>3. WInv => NothingWaits
  BY DEF WInv
<1> QED BY <1>1, <1>2, <1>3, PTL DEF Spec

-----------------------------------------------------------------------------
(* What the parser finds at the beginning of a request.                    *)

LEMMA ParseDone ==
  ASSUME NEW c \in Seq(UnitType), NEW p, p = Parse(c), p.outcome = "done"
  PROVE  /\ LineEnds(c) # {} /\ BlankLines(c) # {}
         /\ p.taken = First(BlankLines(c)) /\ p.req = c[First(LineEnds(c))].req
         /\ p.garbled = (First(LineEnds(c)) > 1)
         /\ p.keep = (Headers(c, "close") = {})
         /\ p.body = SubSeq(c, First(BlankLines(c)) + 1, First(BlankLines(c)) + ContentLength(c))
         /\ ~(Len(c) - First(BlankLines(c)) < ContentLength(c))
<1>1. CASE LineEnds(c) = {}
  BY <1>1 DEF Parse, More
<1>2. CASE LineEnds(c) # {} /\ c[First(LineEnds(c))].kind # "line"
  BY <1>2 DEF Parse
<1>3. CASE LineEnds(c) # {} /\ c[First(LineEnds(c))].kind = "line" /\ BlankLines(c) = {}
  BY <1>3 DEF Parse, More
<1>4. CASE /\ LineEnds(c) # {} /\ c[First(LineEnds(c))].kind = "line" /\ BlankLines(c) # {}
           /\ Len(c) - First(BlankLines(c)) < ContentLength(c)
  <2>1. Parse(c) = More(First(BlankLines(c)))
    BY <1>4 DEF Parse
  <2> QED BY <1>4, <2>1 DEF More
<1>5. CASE /\ LineEnds(c) # {} /\ c[First(LineEnds(c))].kind = "line" /\ BlankLines(c) # {}
           /\ ~(Len(c) - First(BlankLines(c)) < ContentLength(c))
  <2>1. PICK l, h, m : l = First(LineEnds(c)) /\ h = First(BlankLines(c)) /\ m = ContentLength(c)
    OBVIOUS
  <2>2. PICK g, k, d, r : /\ g = (l > 1) /\ k = (Headers(c, "close") = {})
                          /\ d = SubSeq(c, h + 1, h + m) /\ r = c[l].req
    OBVIOUS
  <2>3. Parse(c) = [outcome |-> "done", taken |-> h, req |-> r, garbled |-> g,
                    keep |-> k, body |-> d]
    BY <1>5, <2>1, <2>2 DEF Parse
  <2>4. p.taken = h /\ p.req = r /\ p.body = d
    BY <2>3
  <2>5. p.garbled = g
    BY <2>3
  <2>6. p.keep = k
    BY <2>3
  <2> QED BY <1>5, <2>1, <2>2, <2>4, <2>5, <2>6
<1> QED BY <1>1, <1>2, <1>3, <1>4, <1>5

LEMMA ParseThrow ==
  ASSUME NEW c \in Seq(UnitType), Parse(c).outcome = "throw"
  PROVE  LineEnds(c) # {} /\ c[First(LineEnds(c))].kind # "line"
<1>1. CASE LineEnds(c) = {}
  BY <1>1 DEF Parse, More
<1>2. CASE LineEnds(c) # {} /\ c[First(LineEnds(c))].kind # "line"
  BY <1>2
<1>3. CASE LineEnds(c) # {} /\ c[First(LineEnds(c))].kind = "line" /\ BlankLines(c) = {}
  BY <1>3 DEF Parse, More
<1>4. CASE /\ LineEnds(c) # {} /\ c[First(LineEnds(c))].kind = "line" /\ BlankLines(c) # {}
           /\ Len(c) - First(BlankLines(c)) < ContentLength(c)
  <2>1. Parse(c) = More(First(BlankLines(c)))
    BY <1>4 DEF Parse
  <2> QED BY <2>1 DEF More
<1>5. CASE /\ LineEnds(c) # {} /\ c[First(LineEnds(c))].kind = "line" /\ BlankLines(c) # {}
           /\ ~(Len(c) - First(BlankLines(c)) < ContentLength(c))
  <2>1. Parse(c).outcome = "done"
    BY <1>5 DEF Parse
  <2> QED BY <2>1
<1> QED BY <1>1, <1>2, <1>3, <1>4, <1>5

\* c begins with request k, which is r.
Begins(at, c, off, k, r) == Window(c, stream, off) /\ Stands(requests, at, k, r, off)

LEMMA BeginsWithLine ==
  ASSUME requests \in Seq(Request), NEW at, Row(requests, stream, at),
         NEW c, NEW off, NEW k, NEW r, Begins(at, c, off, k, r), 0 < Len(c)
  PROVE  /\ 1 \in LineEnds(c) /\ First(LineEnds(c)) = 1
         /\ c[1].kind = "line" /\ c[1].req = k
<1>c. c \in Seq(UnitType) /\ Window(c, stream, off) /\ Stands(requests, at, k, r, off)
  BY DEF Begins, Window
<1>r. r \in Request /\ off \in Nat
  BY <1>c DEF Stands, Window
<1>n. PICK n : n = Len(c)
  OBVIOUS
<1>1. n \in Nat /\ 1 \in 1..n
  BY <1>c, <1>n, LenProperties
<1>2. 1 \in 1..Size(r)
  BY <1>r, SizeFacts
<1>3. c[1].kind = KindAt(r, 1) /\ c[1].req = k
  BY <1>c, <1>1, <1>2, <1>n, WindowAt
<1>4. c[1].kind = "line"
  BY <1>3 DEF KindAt
<1>5. 1 \in LineEnds(c)
  BY <1>c, <1>1, <1>4, <1>n, LineEndFacts
<1>6. PICK l : l = First(LineEnds(c))
  OBVIOUS
<1>7. l \in 1..n /\ l <= 1
  BY <1>c, <1>5, <1>6, <1>n, LineEndFacts
<1>8. l = 1
  BY <1>1, <1>7
<1> QED BY <1>3, <1>4, <1>5, <1>6, <1>8

\* The head of a request in c ends where it was written to.
LEMMA BeginsWithHead ==
  ASSUME requests \in Seq(Request), NEW at, Row(requests, stream, at),
         NEW c, NEW off, NEW k, NEW r, Begins(at, c, off, k, r), BlankLines(c) # {}
  PROVE  /\ First(BlankLines(c)) = HeadSize(r) /\ HeadSize(r) \in 1..Len(c)
         /\ \A i \in 1..HeadSize(r) : c[i].kind = KindAt(r, i) /\ c[i].req = k
<1>c. c \in Seq(UnitType) /\ Window(c, stream, off) /\ Stands(requests, at, k, r, off)
  BY DEF Begins, Window
<1>r. r \in Request
  BY <1>c DEF Stands
<1>o. off \in Nat
  BY <1>c DEF Window
<1>n. PICK n : n = Len(c)
  OBVIOUS
<1>1. n \in Nat
  BY <1>c, <1>n, LenProperties
<1>b. PICK b : b = First(BlankLines(c))
  OBVIOUS
<1>2. b \in 1..n /\ b > First(LineEnds(c))
  BY <1>c, <1>n, <1>b, LineEndFacts DEF BlankLines
<1>3. 0 < Len(c)
  BY <1>1, <1>2, <1>n
<1>4. First(LineEnds(c)) = 1
  BY <1>3, BeginsWithLine
<1>5. b > 1
  BY <1>2, <1>4
<1>h. PICK h, z : h = HeadSize(r) /\ z = Size(r)
  OBVIOUS
<1>6. h \in 2..4 /\ z \in Nat /\ h <= z
  BY <1>r, <1>h, SizeFacts
<1>7. InHead(c, off, 1, r, off, 1)
  <2>1. 1 \in 1..Len(c) /\ 1 \in 1..(HeadSize(r) - 1)
    BY <1>1, <1>2, <1>5, <1>6, <1>n, <1>h
  <2>2. 1 < First(BlankLines(c)) /\ First(LineEnds(c)) <= 1
    BY <1>1, <1>2, <1>4, <1>5, <1>b
  <2> QED BY <2>1, <2>2 DEF InHead
<1>8. b = 1 + (h - 1)
  BY <1>c, <1>7, <1>b, <1>h, HeadEnds
<1>9. b = h
  BY <1>1, <1>2, <1>6, <1>8
<1>10. ASSUME NEW i \in 1..h PROVE c[i].kind = KindAt(r, i) /\ c[i].req = k
  <2>1. i \in 1..n /\ i \in 1..z
    BY <1>1, <1>2, <1>6, <1>9
  <2> QED BY <2>1, <1>c, <1>n, <1>h, WindowAt
<1>11. h \in 1..n
  BY <1>2, <1>9
<1> QED BY <1>9, <1>10, <1>11, <1>b, <1>h, <1>n

LEMMA HeadersFound ==
  ASSUME requests \in Seq(Request), NEW at, Row(requests, stream, at),
         NEW c, NEW off, NEW k, NEW r, Begins(at, c, off, k, r), BlankLines(c) # {}
  PROVE  /\ Headers(c, "length") = {} <=> ~(r.body > 0)
         /\ Headers(c, "close") = {} <=> r.keep
         /\ \A i \in Headers(c, "length") : c[i].req = k
<1>c. c \in Seq(UnitType)
  BY DEF Begins, Window
<1>r. r \in Request
  BY DEF Begins, Stands
<1>n. PICK n : n = Len(c)
  OBVIOUS
<1>1. n \in Nat
  BY <1>c, <1>n, LenProperties
<1>h. PICK h, z : h = HeadSize(r) /\ z = Size(r)
  OBVIOUS
<1>2. /\ h \in 2..4 /\ z \in Nat /\ h <= z
      /\ r.body > 0 => h >= 3
      /\ ~r.keep => h >= 3
  BY <1>r, <1>h, SizeFacts
<1>3. /\ First(BlankLines(c)) = h /\ h \in 1..n
      /\ \A i \in 1..h : c[i].kind = KindAt(r, i) /\ c[i].req = k
  BY <1>n, <1>h, BeginsWithHead
<1>4. First(LineEnds(c)) = 1
  <2>1. 0 < Len(c)
    BY <1>1, <1>3, <1>n
  <2> QED BY <2>1, BeginsWithLine
<1>5. \A i \in 1..n : i \in LineEnds(c) <=> c[i].kind # "body"
  BY <1>c, <1>n, LineEndFacts
<1>6. ASSUME NEW i \in 1..h PROVE c[i].kind # "body"
  <2>1. i \in 1..Size(r) /\ ~(i > HeadSize(r))
    BY <1>2, <1>h
  <2> QED BY <2>1, <1>3, <1>r, KindFacts
\* The headers of a kind are the units of it that are not the request line.
<1>7. ASSUME NEW t, NEW i, i \in Headers(c, t)
      PROVE  i \in 2..(h - 1) /\ KindAt(r, i) = t /\ c[i].req = k
  <2>1. i \in LineEnds(c) /\ 1 < i /\ i < h /\ c[i].kind = t
    BY <1>3, <1>4, <1>7 DEF Headers
  <2>2. i \in 1..n
    BY <2>1, <1>c, <1>n, LineEndFacts
  <2>3. i \in 2..(h - 1) /\ i \in 1..h
    BY <2>1, <2>2, <1>1, <1>2
  <2> QED BY <2>1, <2>3, <1>3
<1>8. ASSUME NEW t, NEW i \in 2..(h - 1), KindAt(r, i) = t PROVE i \in Headers(c, t)
  <2>1. i \in 1..h /\ i - 1 \in 1..h /\ i \in 1..n /\ 1 < i /\ i < h
    BY <1>1, <1>2, <1>3
  <2>2. c[i].kind = t /\ c[i].kind # "body" /\ c[i - 1].kind # "body"
    BY <2>1, <1>3, <1>6, <1>8
  <2>3. i \in LineEnds(c)
    BY <2>1, <2>2, <1>5
  <2>4. Clean(c, i)
    BY <2>2 DEF Clean, LineEnd
  <2> QED BY <2>1, <2>2, <2>3, <2>4, <1>3, <1>4 DEF Headers
<1>9. Headers(c, "length") = {} <=> ~(r.body > 0)
  <2>1. ASSUME r.body > 0 PROVE 2 \in Headers(c, "length")
    <3>1. 2 \in 2..(h - 1) /\ 2 \in 1..Size(r)
      BY <2>1, <1>2, <1>h
    <3>2. KindAt(r, 2) = "length"
      BY <2>1, <3>1, <1>r, KindFacts
    <3> QED BY <3>1, <3>2, <1>8
  <2>2. ASSUME NEW i \in Headers(c, "length") PROVE r.body > 0
    <3>1. i \in 2..(h - 1) /\ KindAt(r, i) = "length"
      BY <1>7
    <3>2. i \in 1..Size(r)
      BY <3>1, <1>2, <1>h
    <3> QED BY <3>1, <3>2, <1>r, KindFacts
  <2> QED BY <2>1, <2>2
<1>10. Headers(c, "close") = {} <=> r.keep
  <2>1. ASSUME ~r.keep PROVE h - 1 \in Headers(c, "close")
    <3>1. h - 1 \in 2..(h - 1) /\ h - 1 \in 1..Size(r)
      BY <2>1, <1>2, <1>h
    <3>2. KindAt(r, h - 1) = "close"
      BY <2>1, <3>1, <1>r, <1>h, KindFacts
    <3> QED BY <3>1, <3>2, <1>8
  <2>2. ASSUME NEW i \in Headers(c, "close") PROVE ~r.keep
    <3>1. i \in 2..(h - 1) /\ KindAt(r, i) = "close"
      BY <1>7
    <3>2. i \in 1..Size(r)
      BY <3>1, <1>2, <1>h
    <3> QED BY <3>1, <3>2, <1>r, KindFacts
  <2> QED BY <2>1, <2>2
<1> QED BY <1>7, <1>9, <1>10

\* Parsed at the beginning of request r, the result is r.
LEMMA BoundaryParse ==
  ASSUME requests \in Seq(Request), NEW at, Row(requests, stream, at),
         NEW c, NEW off, NEW k, NEW r, Begins(at, c, off, k, r),
         NEW p, p = Parse(c), p.outcome = "done"
  PROVE  /\ p.taken = HeadSize(r) /\ p.req = k /\ ~p.garbled /\ p.keep = r.keep
         /\ p.body = [j \in 1..r.body |-> Unit("body", k)]
         /\ Size(r) <= Len(c)
<1>c. c \in Seq(UnitType) /\ Window(c, stream, off) /\ Stands(requests, at, k, r, off)
  BY DEF Begins, Window
<1>r. r \in Request
  BY <1>c DEF Stands
<1>o. off \in Nat
  BY <1>c DEF Window
<1>d. /\ LineEnds(c) # {} /\ BlankLines(c) # {}
      /\ p.taken = First(BlankLines(c)) /\ p.req = c[First(LineEnds(c))].req
      /\ p.garbled = (First(LineEnds(c)) > 1)
      /\ p.keep = (Headers(c, "close") = {})
      /\ p.body = SubSeq(c, First(BlankLines(c)) + 1, First(BlankLines(c)) + ContentLength(c))
      /\ ~(Len(c) - First(BlankLines(c)) < ContentLength(c))
  BY <1>c, ParseDone
<1>n. PICK n : n = Len(c)
  OBVIOUS
<1>h. PICK h, z, m : h = HeadSize(r) /\ z = Size(r) /\ m = r.body
  OBVIOUS
<1>1. n \in Nat
  BY <1>c, <1>n, LenProperties
<1>2. h \in 2..4 /\ z \in Nat /\ m \in Nat /\ z = h + m
  BY <1>r, <1>h, SizeFacts
<1>3. First(BlankLines(c)) = h /\ h \in 1..n
  BY <1>d, <1>n, <1>h, BeginsWithHead
<1>4. First(LineEnds(c)) = 1 /\ c[1].req = k
  <2>1. 0 < Len(c)
    BY <1>1, <1>3, <1>n
  <2> QED BY <2>1, BeginsWithLine
<1>5. ContentLength(c) = m
  <2>1. CASE m > 0
    <3>1. Headers(c, "length") # {} /\ \A i \in Headers(c, "length") : c[i].req = k
      BY <2>1, <1>d, <1>h, HeadersFound
    <3>2. PICK i : i \in Headers(c, "length") /\ ContentLength(c) = requests[c[i].req].body
      BY <3>1, <1>c, LengthFrom
    <3> QED BY <3>1, <3>2, <1>c, <1>h DEF Stands
  <2>2. CASE ~(m > 0)
    <3>1. Headers(c, "length") = {}
      BY <2>2, <1>d, <1>h, HeadersFound
    <3>2. ContentLength(c) = 0
      BY <3>1 DEF ContentLength
    <3> QED BY <3>2, <2>2, <1>2
  <2> QED BY <2>1, <2>2
<1>6. h + m <= n
  <2>1. ~(n - h < m)
    BY <1>d, <1>n, <1>3, <1>5
  <2> QED BY <2>1, <1>1, <1>2
<1>7. p.keep = r.keep
  <2>1. p.keep = (Headers(c, "close") = {})
    BY <1>d
  <2>2. Headers(c, "close") = {} <=> r.keep
    BY <1>d, HeadersFound
  <2>3. r.keep \in BOOLEAN
    BY <1>r, SizeFacts
  <2> QED BY <2>1, <2>2, <2>3, Zenon
<1>8. p.body = [j \in 1..m |-> Unit("body", k)]
  <2>1. PICK d : d = SubSeq(c, h + 1, h + m)
    OBVIOUS
  <2>2. p.body = d
    BY <2>1, <1>d, <1>3, <1>5
  <2>3. ASSUME NEW i \in (h + 1)..(h + m) PROVE c[i] = Unit("body", k)
    <3>1. i \in 1..n /\ i \in 1..z /\ i > h
      BY <1>1, <1>2, <1>6
    <3>2. i \in 1..Len(c) /\ i \in 1..Size(r) /\ i > HeadSize(r)
      BY <3>1, <1>n, <1>h
    <3>3. c[i].kind = KindAt(r, i) /\ c[i].req = k
      BY <3>2, <1>c, WindowAt
    <3>4. KindAt(r, i) = "body"
      BY <3>2, <1>r, KindFacts
    <3>5. c[i] \in UnitType
      BY <3>2, <1>c, ElementOfSeq
    <3> QED BY <3>3, <3>4, <3>5 DEF Unit, UnitType
  <2>4. /\ Len(d) = m
        /\ \A j \in 1..m : d[j] = c[h + j]
        /\ d \in Seq(UnitType)
    <3>1. h + 1 \in Int /\ h + m \in Int
      BY <1>2
    <3>2. \A i \in (h + 1)..(h + m) : c[i] \in UnitType
      <4>1. \A i \in 1..n : c[i] \in UnitType
        BY <1>c, <1>n, ElementOfSeq
      <4> QED BY <4>1, <1>1, <1>2, <1>6
    <3>3. /\ d \in Seq(UnitType)
          /\ Len(d) = IF h + 1 <= h + m THEN (h + m) - (h + 1) + 1 ELSE 0
          /\ \A j \in 1..((h + m) - (h + 1) + 1) : d[j] = c[(h + 1) + j - 1]
      BY <2>1, <3>1, <3>2, SubSeqProperties
    <3>4. (h + m) - (h + 1) + 1 = m
      BY <1>2
    <3>5. Len(d) = m
      BY <3>3, <1>2
    <3>6. \A j \in 1..m : d[j] = c[h + j]
      BY <3>3, <3>4, <1>2
    <3> QED BY <3>3, <3>5, <3>6
  <2>5. ASSUME NEW j \in 1..m PROVE d[j] = Unit("body", k)
    <3>1. h + j \in (h + 1)..(h + m)
      BY <1>2
    <3> QED BY <3>1, <2>3, <2>4
  <2>6. d = [j \in 1..m |-> d[j]]
    BY <2>4
  <2> QED BY <2>2, <2>5, <2>6
<1>9. p.taken = HeadSize(r) /\ p.req = k
  BY <1>d, <1>3, <1>4, <1>h
<1>10. ~p.garbled
  <2>1. p.garbled = (First(LineEnds(c)) > 1)
    BY <1>d
  <2>2. ~(First(LineEnds(c)) > 1)
    BY <1>4
  <2> QED BY <2>1, <2>2, Zenon
<1>11. Size(r) <= Len(c)
  BY <1>2, <1>6, <1>n, <1>h
<1> QED BY <1>7, <1>8, <1>9, <1>10, <1>11, <1>h

-----------------------------------------------------------------------------
(* Answers in order.                                                       *)

\* The answer to request k, which is r.
AnswerTo(r, k) ==
  [req |-> k, kind |-> r.kind,
   body |-> IF r.kind = "echo" THEN [j \in 1..r.body |-> Unit("body", k)] ELSE << >>]

\* As long as nothing was split: requests are answered one by one, and the
\* buffer begins with the first that is not.
Aligned(at) ==
  /\ Len(responses) <= Len(requests)
  /\ \A k \in 1..Len(responses) : responses[k] = AnswerTo(requests[k], k)
  /\ pc # "thrown" /\ (pc = "killed" => fin)
  /\ pc # "killed" => received - Readable(buf) = at[Len(responses) + 1]
  /\ fin => 0 < Len(responses) /\ ~requests[Len(responses)].keep

OInv == IInv /\ \E at : Row(requests, stream, at) /\ (~split => Aligned(at))

LEMMA AlignedAnswers == OInv => AnswersInOrder
<1> SUFFICES ASSUME OInv, ~split
             PROVE  /\ pc # "thrown"
                    /\ \A k \in DOMAIN responses :
                         responses[k] = [req |-> k, kind |-> requests[k].kind,
                                         body |-> IF requests[k].kind = "echo"
                                                  THEN [j \in 1..requests[k].body |-> Unit("body", k)]
                                                  ELSE << >>]
                    /\ pc = "killed" => ~requests[Len(responses)].keep
  BY Zenon DEF AnswersInOrder
<1>1. PICK at : Aligned(at)
  BY DEF OInv
<1>2. DOMAIN responses = 1..Len(responses)
  BY LenProperties DEF OInv, IInv, TypeOK
<1>3. \A k \in DOMAIN responses : responses[k] = AnswerTo(requests[k], k)
  BY <1>1, <1>2 DEF Aligned
<1>4. pc # "thrown" /\ (pc = "killed" => ~requests[Len(responses)].keep)
  BY <1>1 DEF Aligned
<1> QED BY <1>3, <1>4, Zenon DEF AnswerTo

LEMMA InitOInv == Init => OInv
<1> SUFFICES ASSUME Init PROVE OInv
  OBVIOUS
<1>1. PICK at : at = [k \in 1..1 |-> 0]
  OBVIOUS
<1>2. Row(requests, stream, at)
  BY <1>1, RowEmpty DEF Init
<1>3. IInv
  BY InitIInv
<1>4. Readable(buf) = 0
  <2>1. Initial \in Nat /\ Blank \in Stored
    BY HttpAssumption DEF Stored
  <2> QED BY <2>1, NewBufferFacts DEF Init
<1>5. Aligned(at)
  <2>1. Len(responses) = 0 /\ Len(requests) = 0 /\ 1..Len(responses) = {}
    BY DEF Init
  <2>2. pc = "read" /\ ~fin /\ received = 0
    BY DEF Init
  <2>3. received - Readable(buf) = at[Len(responses) + 1]
    BY <1>1, <1>4, <2>1, <2>2
  <2> QED BY <2>1, <2>2, <2>3 DEF Aligned
<1> QED BY <1>2, <1>3, <1>5 DEF OInv

LEMMA SendRequestAligned ==
  ASSUME OInv, NEW r \in Request, SendRequest(r)
  PROVE  OInv'
<1>0. IInv /\ IInv'
  BY SendRequestStep DEF OInv
<1>1. PICK at : Row(requests, stream, at) /\ (~split => Aligned(at))
  BY DEF OInv
<1>2. PICK q \in Seq(Request), s \in Seq(UnitType) : q = requests /\ s = stream
  BY <1>0 DEF IInv, TypeOK
<1>3. PICK at2 : /\ Row(Append(q, r), s \o Units(r, Len(q) + 1), at2)
                 /\ \A k \in 1..(Len(q) + 1) : at2[k] = at[k]
  BY <1>1, <1>2, RowGrow
<1>4. /\ requests' = Append(q, r) /\ stream' = s \o Units(r, Len(q) + 1)
      /\ UNCHANGED <<received, buf, pc, fin, responses, split>>
  BY <1>2 DEF SendRequest
<1>5. ASSUME ~split' PROVE Aligned(at2)'
  <2>1. Aligned(at)
    BY <1>1, <1>4, <1>5
  <2>2. PICK n, m : n = Len(q) /\ m = Len(responses)
    OBVIOUS
  <2>3. n \in Nat /\ m \in Nat /\ m <= n
    <3>1. n \in Nat /\ m \in Nat
      BY <1>0, <1>2, <2>2, LenProperties DEF IInv, TypeOK
    <3> QED BY <3>1, <1>2, <2>1, <2>2 DEF Aligned
  <2>4. Len(requests') = n + 1 /\ \A k \in 1..n : requests'[k] = q[k]
    BY <1>2, <1>4, <2>2, AppendProperties
  <2>5. Len(responses') <= Len(requests')
    BY <1>4, <2>2, <2>3, <2>4
  <2>6. ASSUME NEW k \in 1..Len(responses') PROVE responses'[k] = AnswerTo(requests'[k], k)
    <3>1. k \in 1..m /\ k \in 1..n
      BY <1>4, <2>2, <2>3
    <3>2. responses[k] = AnswerTo(q[k], k)
      BY <3>1, <1>2, <2>1, <2>2 DEF Aligned
    <3> QED BY <3>1, <3>2, <1>4, <2>4
  <2>7. pc' # "thrown" /\ (pc' = "killed" => fin')
    BY <1>4, <2>1 DEF Aligned
  <2>8. pc' # "killed" => (received - Readable(buf))' = at2[Len(responses') + 1]
    <3>1. m + 1 \in 1..(n + 1)
      BY <2>3
    <3>2. at2[m + 1] = at[m + 1]
      BY <3>1, <1>3, <2>2
    <3> QED BY <3>2, <1>4, <2>1, <2>2 DEF Aligned, Readable
  <2>9. fin' => 0 < Len(responses') /\ ~requests'[Len(responses')].keep
    <3> SUFFICES ASSUME fin PROVE 0 < m /\ ~requests'[m].keep
      BY <1>4, <2>2
    <3>1. 0 < m /\ ~q[m].keep
      BY <1>2, <2>1, <2>2 DEF Aligned
    <3>2. m \in 1..n
      BY <3>1, <2>3
    <3> QED BY <3>1, <3>2, <2>4
  <2> QED BY <2>5, <2>6, <2>7, <2>8, <2>9 DEF Aligned
<1>6. Row(requests', stream', at2)
  BY <1>3, <1>4
<1> QED BY <1>0, <1>5, <1>6 DEF OInv

LEMMA HandleReadAligned ==
  ASSUME OInv, NEW n \in 1..Len(stream), HandleRead(n)
  PROVE  OInv'
<1>0. IInv /\ IInv' /\ Readable(buf') = Readable(buf) + n
  BY HandleReadStep DEF OInv
<1>1. PICK at : Row(requests, stream, at) /\ (~split => Aligned(at))
  BY DEF OInv
<1>2. /\ received' = received + n /\ pc = "read" /\ pc' = "parse"
      /\ UNCHANGED <<requests, stream, fin, responses, split>>
  BY DEF HandleRead
<1>3. received \in Nat /\ Readable(buf) \in Nat /\ n \in Nat
  BY <1>0, LenProperties, BufferTypes DEF IInv, TypeOK
<1>4. received' - Readable(buf') = received - Readable(buf)
  BY <1>0, <1>2, <1>3
<1>5. ASSUME ~split' PROVE Aligned(at)'
  <2>1. Aligned(at)
    BY <1>1, <1>2, <1>5
  <2>2. Len(responses') <= Len(requests')
    BY <1>2, <2>1 DEF Aligned
  <2>3. \A k \in 1..Len(responses') : responses'[k] = AnswerTo(requests'[k], k)
    BY <1>2, <2>1 DEF Aligned
  <2>4. received' - Readable(buf') = at[Len(responses') + 1]
    BY <1>2, <1>4, <2>1 DEF Aligned
  <2>5. fin' => 0 < Len(responses') /\ ~requests'[Len(responses')].keep
    BY <1>2, <2>1 DEF Aligned
  <2> QED BY <1>2, <2>2, <2>3, <2>4, <2>5 DEF Aligned, Readable
<1>6. Row(requests', stream', at)
  BY <1>1, <1>2
<1> QED BY <1>0, <1>5, <1>6 DEF OInv

LEMMA ReturnForMoreAligned ==
  ASSUME OInv, ReturnForMore
  PROVE  OInv'
<1>0. IInv /\ IInv'
  BY ReturnForMoreStep DEF OInv
<1>1. PICK at : Row(requests, stream, at) /\ (~split => Aligned(at))
  BY DEF OInv
<1>2. /\ pc = "parse" /\ pc' = "read" /\ split' = (split \/ Parse(Content(buf)).taken > 0)
      /\ buf' = Retrieve(buf, Parse(Content(buf)).taken)
      /\ UNCHANGED <<requests, stream, received, fin, responses>>
  BY DEF ReturnForMore
<1>3. ASSUME ~split' PROVE Aligned(at)'
  <2>1. Aligned(at)
    BY <1>1, <1>2, <1>3
  <2>2. Parse(Content(buf)).taken = 0
    <3>1. Parse(Content(buf)).taken \in Nat
      BY <1>0, ParsedFacts DEF ReturnForMore
    <3>2. ~(Parse(Content(buf)).taken > 0)
      BY <1>2, <1>3
    <3> QED BY <3>1, <3>2
  <2>3. Readable(buf') = Readable(buf)
    <3>1. IsBuffer(buf, Stored)
      BY <1>0 DEF IInv, TypeOK, Stored
    <3>2. Readable(buf) \in Nat
      BY <3>1, BufferTypes
    <3>3. Readable(Retrieve(buf, 0)) = Readable(buf) - 0
      BY <3>1, <3>2, RetrieveReadable
    <3> QED BY <3>2, <3>3, <1>2, <2>2
  <2>4. /\ Len(responses') <= Len(requests')
        /\ \A k \in 1..Len(responses') : responses'[k] = AnswerTo(requests'[k], k)
    BY <1>2, <2>1 DEF Aligned
  <2>5. received' - Readable(buf') = at[Len(responses') + 1]
    BY <1>2, <2>1, <2>3 DEF Aligned
  <2>6. fin' => 0 < Len(responses') /\ ~requests'[Len(responses')].keep
    BY <1>2, <2>1 DEF Aligned
  <2> QED BY <1>2, <2>4, <2>5, <2>6 DEF Aligned, Readable
<1>4. Row(requests', stream', at)
  BY <1>1, <1>2
<1> QED BY <1>0, <1>3, <1>4 DEF OInv

\* If a line ends in the buffer, the buffer begins with the next request.
LEMMA AtRequest ==
  ASSUME IInv, NEW at, Row(requests, stream, at), Aligned(at), pc = "parse",
         LineEnds(Content(buf)) # {}
  PROVE  /\ 0 < Len(Content(buf)) /\ Len(responses) + 1 \in 1..Len(requests)
         /\ \E r : Begins(at, Content(buf), at[Len(responses) + 1], Len(responses) + 1, r)
<1>1. PICK c : c = Content(buf)
  OBVIOUS
<1>2. PICK off, n, m, l, x : /\ off = received - Readable(buf) /\ n = Len(c)
                             /\ m = Len(responses) /\ l = Len(requests) /\ x = Len(stream)
  OBVIOUS
<1>3. Window(c, stream, off)
  BY <1>1, <1>2, BufferWindow
<1>4. off = at[m + 1] /\ m <= l
  BY <1>2 DEF Aligned
<1>5. m \in Nat /\ l \in Nat
  BY <1>2, LenProperties DEF IInv, TypeOK
<1>6. off \in Nat /\ c \in Seq(UnitType) /\ off + n <= x
  BY <1>2, <1>3 DEF Window
<1>7. n \in Nat /\ 0 < n
  <2>1. n \in Nat
    BY <1>2, <1>6, LenProperties
  <2>2. LineEnds(c) \subseteq 1..n
    BY <1>2, <1>6, LineEndFacts
  <2> QED BY <2>1, <2>2, <1>1
<1>8. m # l
  <2> SUFFICES ASSUME m = l PROVE FALSE
    OBVIOUS
  <2>1. off = x
    BY <1>2, <1>4 DEF Row
  <2> QED BY <2>1, <1>6, <1>7
<1>9. m + 1 \in 1..l
  BY <1>4, <1>5, <1>8
<1>10. PICK r \in Request : r = requests[m + 1]
  BY <1>2, <1>9, ElementOfSeq DEF IInv, TypeOK
<1>11. Stands(requests, at, m + 1, r, off)
  BY <1>2, <1>4, <1>6, <1>9, <1>10 DEF Stands
<1>12. Begins(at, c, off, m + 1, r)
  BY <1>3, <1>11 DEF Begins
<1> QED BY <1>1, <1>2, <1>4, <1>7, <1>9, <1>12

LEMMA ThrowAligned ==
  ASSUME OInv, Throw
  PROVE  OInv'
<1>0. IInv /\ IInv'
  BY ThrowStep DEF OInv
<1>1. PICK at : Row(requests, stream, at) /\ (~split => Aligned(at))
  BY DEF OInv
<1>2. UNCHANGED <<requests, stream, split>> /\ pc = "parse"
  BY DEF Throw
<1>3. ASSUME ~split PROVE FALSE
  <2>1. PICK c : c = Content(buf)
    OBVIOUS
  <2>2. c \in Seq(UnitType)
    BY <1>0, <2>1, BufferWindow DEF Window
  <2>3. LineEnds(c) # {} /\ c[First(LineEnds(c))].kind # "line"
    BY <2>1, <2>2, ParseThrow DEF Throw
  <2>4. Aligned(at)
    BY <1>1, <1>3
  <2>5. PICK r : /\ Begins(at, c, at[Len(responses) + 1], Len(responses) + 1, r)
                 /\ 0 < Len(c)
    BY <1>0, <1>1, <1>2, <2>1, <2>3, <2>4, AtRequest
  <2>6. requests \in Seq(Request)
    BY <1>0 DEF IInv, TypeOK
  <2>7. First(LineEnds(c)) = 1 /\ c[1].kind = "line"
    BY <1>1, <2>5, <2>6, BeginsWithLine
  <2> QED BY <2>3, <2>7
<1>4. Row(requests', stream', at)
  BY <1>1, <1>2
<1> QED BY <1>0, <1>2, <1>3, <1>4 DEF OInv

\* The parser's result is request k, which is r, complete in the buffer.
Finds(p, k, r) ==
  /\ k \in 1..Len(requests) /\ requests[k] = r /\ r \in Request
  /\ p.taken = HeadSize(r) /\ p.req = k /\ p.keep = r.keep /\ RouteOf(p) = r.kind
  /\ p.body = [j \in 1..r.body |-> Unit("body", k)] /\ Size(r) <= Readable(buf)

LEMMA NextRequest ==
  ASSUME IInv, NEW at, Row(requests, stream, at), Aligned(at), pc = "parse",
         NEW p, p = Parse(Content(buf)), p.outcome = "done"
  PROVE  \E r : Finds(p, Len(responses) + 1, r)
<1>1. PICK c, k : c = Content(buf) /\ k = Len(responses) + 1
  OBVIOUS
<1>2. c \in Seq(UnitType) /\ Len(c) = Readable(buf)
  BY <1>1, BufferWindow DEF Window
<1>3. LineEnds(c) # {}
  BY <1>1, <1>2, ParseDone
<1>4. k \in 1..Len(requests) /\ \E r : Begins(at, c, at[k], k, r)
  BY <1>1, <1>3, AtRequest
<1>5. PICK r : Begins(at, c, at[k], k, r)
  BY <1>4
<1>6. requests \in Seq(Request)
  BY DEF IInv, TypeOK
<1>7. /\ p.taken = HeadSize(r) /\ p.req = k /\ ~p.garbled /\ p.keep = r.keep
      /\ p.body = [j \in 1..r.body |-> Unit("body", k)]
      /\ Size(r) <= Len(c)
  BY <1>1, <1>5, <1>6, BoundaryParse
<1>8. requests[k] = r /\ r \in Request
  BY <1>5 DEF Begins, Stands
<1>9. RouteOf(p) = r.kind
  BY <1>7, <1>8 DEF RouteOf
<1>10. Finds(p, k, r)
  BY <1>2, <1>4, <1>7, <1>8, <1>9 DEF Finds
<1> QED BY <1>1, <1>10

LEMMA RespondAligned ==
  ASSUME IInv, NEW at, Row(requests, stream, at), Aligned(at), pc = "parse",
         NEW p, NEW k, NEW r, k = Len(responses) + 1, Finds(p, k, r),
         NEW kind, NEW body, AnswerTo(r, k) = [req |-> k, kind |-> kind, body |-> body],
         NEW next \in {"read", "parse"}, Respond(p, kind, body, next),
         UNCHANGED requests, received' - Readable(buf') = at[k] + Size(r)
  PROVE  Aligned(at)'
<1>1. /\ k \in 1..Len(requests) /\ requests[k] = r /\ r \in Request
      /\ p.req = k /\ p.keep = r.keep
  BY DEF Finds
<1>2. CASE fin
  <2>1. pc' = "killed" /\ UNCHANGED <<fin, responses>>
    BY <1>2 DEF Respond
  <2>2. Len(responses') <= Len(requests')
    BY <2>1 DEF Aligned
  <2>3. \A i \in 1..Len(responses') : responses'[i] = AnswerTo(requests'[i], i)
    BY <2>1 DEF Aligned
  <2>4. fin' => 0 < Len(responses') /\ ~requests'[Len(responses')].keep
    BY <2>1 DEF Aligned
  <2> QED BY <1>2, <2>1, <2>2, <2>3, <2>4 DEF Aligned
<1>3. CASE ~fin
  <2>1. PICK rs \in Seq(Responses) : rs = responses
    BY DEF IInv, TypeOK, Responses
  <2>2. PICK m : m = Len(rs)
    OBVIOUS
  <2>3. m \in Nat /\ k = m + 1
    BY <2>1, <2>2, LenProperties
  <2>4. PICK x : x = AnswerTo(r, k)
    OBVIOUS
  <2>5. responses' = Append(rs, x) /\ pc' = next
    BY <1>1, <1>3, <2>1, <2>4 DEF Respond
  <2>f. fin' = ~p.keep
    BY <1>3 DEF Respond
  <2>6. Len(responses') = m + 1 /\ responses'[m + 1] = x /\ \A i \in 1..m : responses'[i] = rs[i]
    BY <2>2, <2>5, AppendProperties
  <2>7. Len(responses') <= Len(requests')
    <3>1. PICK l : l = Len(requests)
      OBVIOUS
    <3>2. l \in Nat
      BY <3>1, LenProperties DEF IInv, TypeOK
    <3>3. m + 1 <= l
      BY <3>1, <3>2, <2>3, <1>1
    <3> QED BY <3>1, <3>3, <2>6
  <2>8. ASSUME NEW i \in 1..Len(responses') PROVE responses'[i] = AnswerTo(requests'[i], i)
    <3>1. CASE i \in 1..m
      <4>1. responses[i] = AnswerTo(requests[i], i)
        BY <3>1, <2>1, <2>2 DEF Aligned
      <4> QED BY <3>1, <4>1, <2>1, <2>6
    <3>2. CASE i = m + 1
      BY <3>2, <1>1, <2>3, <2>4, <2>6
    <3> QED BY <3>1, <3>2, <2>3, <2>6
  <2>9. received' - Readable(buf') = at[Len(responses') + 1]
    <3>1. at[k + 1] = at[k] + Size(r)
      BY <1>1 DEF Row
    <3> QED BY <3>1, <2>3, <2>6
  <2>10. fin' => 0 < Len(responses') /\ ~requests'[Len(responses')].keep
    <3> SUFFICES ASSUME fin' PROVE 0 < Len(responses') /\ ~requests'[Len(responses')].keep
      OBVIOUS
    <3>1. ~p.keep
      BY <2>f, Zenon
    <3>2. ~r.keep
      BY <3>1, <1>1, Zenon
    <3>3. requests'[m + 1] = r /\ 0 < m + 1
      BY <1>1, <2>3
    <3> QED BY <3>2, <3>3, <2>6
  <2>11. pc' # "thrown" /\ pc' # "killed"
    BY <2>5
  <2> QED BY <2>7, <2>8, <2>9, <2>10, <2>11 DEF Aligned, Readable
<1> QED BY <1>2, <1>3

\* Where the buffer begins when the head, or the whole request, is retrieved.
LEMMA Retrieved ==
  ASSUME IInv, NEW at, Row(requests, stream, at), Aligned(at), pc = "parse",
         NEW p, NEW k, NEW r, k = Len(responses) + 1, Finds(p, k, r), UNCHANGED received
  PROVE  /\ buf' = Retrieve(buf, p.taken) /\ r.body = 0 =>
              received' - Readable(buf') = at[k] + Size(r)
         /\ buf' = Retrieve(Retrieve(buf, p.taken), Len(p.body)) =>
              received' - Readable(buf') = at[k] + Size(r)
<1>1. IsBuffer(buf, Stored)
  BY DEF IInv, TypeOK, Stored
<1>2. PICK d, n, h, m, z : /\ d = received /\ n = Readable(buf) /\ h = HeadSize(r)
                           /\ m = r.body /\ z = Size(r)
  OBVIOUS
<1>3. d \in Nat /\ n \in Nat
  BY <1>1, <1>2, LenProperties, BufferTypes DEF IInv, TypeOK
<1>4. h \in 2..4 /\ m \in Nat /\ z = h + m
  BY <1>2, SizeFacts DEF Finds
<1>5. z <= n
  BY <1>2 DEF Finds
<1>6. d - n = at[k]
  BY <1>2 DEF Aligned
<1>7. p.taken = h /\ Len(p.body) = m
  <2>1. p.taken = h /\ p.body = [j \in 1..m |-> Unit("body", k)]
    BY <1>2 DEF Finds
  <2>2. Len([j \in 1..m |-> Unit("body", k)]) = m
    BY <1>4
  <2> QED BY <2>1, <2>2
<1>8. PICK b : b = Retrieve(buf, h)
  OBVIOUS
<1>9. h \in Nat /\ h \in 0..n
  BY <1>3, <1>4, <1>5
<1>10. IsBuffer(b, Stored)
  BY <1>1, <1>8, <1>9, RetrieveFacts
<1>11. Readable(b) = n - h
  BY <1>1, <1>2, <1>8, <1>9, RetrieveReadable
<1>12. ASSUME buf' = Retrieve(buf, p.taken), m = 0
       PROVE  received' - Readable(buf') = at[k] + Size(r)
  <2>1. Readable(buf') = n - h
    BY <1>7, <1>8, <1>11, <1>12
  <2>2. d - (n - h) = (d - n) + z
    BY <1>3, <1>4, <1>12
  <2> QED BY <2>1, <2>2, <1>2, <1>6
<1>13. ASSUME buf' = Retrieve(Retrieve(buf, p.taken), Len(p.body))
       PROVE  received' - Readable(buf') = at[k] + Size(r)
  <2>1. m \in 0..Readable(b)
    <3>1. m \in 0..(n - h)
      BY <1>3, <1>4, <1>5
    <3> QED BY <3>1, <1>11
  <2>2. Readable(Retrieve(b, m)) = (n - h) - m
    BY <2>1, <1>10, <1>11, RetrieveReadable
  <2>3. Readable(buf') = (n - h) - m
    BY <2>2, <1>7, <1>8, <1>13
  <2>4. d - ((n - h) - m) = (d - n) + z
    BY <1>3, <1>4
  <2> QED BY <2>3, <2>4, <1>2, <1>6
<1> QED BY <1>2, <1>12, <1>13

\* GET requests carry no body.
GetsHaveNoBody == \A r \in Request : r.kind = "static" => r.body = 0

LEMMA ServeStaticAligned ==
  ASSUME GetsHaveNoBody, OInv, ServeStatic
  PROVE  OInv'
<1>0. IInv /\ IInv'
  BY ServeStaticStep DEF OInv
<1>1. PICK at : Row(requests, stream, at) /\ (~split => Aligned(at))
  BY DEF OInv
<1>2. PICK p : p = Parse(Content(buf))
  OBVIOUS
<1>3. /\ pc = "parse" /\ p.outcome = "done" /\ RouteOf(p) = "static"
      /\ buf' = Retrieve(buf, p.taken) /\ Respond(p, "static", << >>, "read")
      /\ UNCHANGED <<requests, stream, received, split>>
  BY <1>2 DEF ServeStatic
<1>4. ASSUME ~split PROVE Aligned(at)'
  <2>1. Aligned(at)
    BY <1>1, <1>4
  <2>2. PICK k : k = Len(responses) + 1
    OBVIOUS
  <2>3. PICK r : Finds(p, k, r)
    BY <1>0, <1>1, <1>2, <1>3, <2>1, <2>2, NextRequest
  <2>4. r.kind = "static" /\ r.body = 0
    BY <1>3, <2>3 DEF Finds, GetsHaveNoBody
  <2>5. received' - Readable(buf') = at[k] + Size(r)
    BY <1>0, <1>1, <1>3, <2>1, <2>2, <2>3, <2>4, Retrieved
  <2>6. AnswerTo(r, k) = [req |-> k, kind |-> "static", body |-> << >>]
    BY <2>4 DEF AnswerTo
  <2> QED BY <1>0, <1>1, <1>3, <2>1, <2>2, <2>3, <2>5, <2>6, RespondAligned
<1>5. Row(requests', stream', at)
  BY <1>1, <1>3
<1> QED BY <1>0, <1>3, <1>4, <1>5 DEF OInv

LEMMA ServeAligned ==
  ASSUME OInv, ServeEcho \/ ServeRoute
  PROVE  OInv'
<1>0. IInv /\ IInv'
  BY ServeStep DEF OInv
<1>1. PICK at : Row(requests, stream, at) /\ (~split => Aligned(at))
  BY DEF OInv
<1>2. PICK p : p = Parse(Content(buf))
  OBVIOUS
<1>3. /\ pc = "parse" /\ p.outcome = "done"
      /\ buf' = Retrieve(Retrieve(buf, p.taken), Len(p.body))
      /\ UNCHANGED <<requests, stream, received, split>>
      /\ \/ RouteOf(p) = "echo" /\ Respond(p, "echo", p.body, "parse")
         \/ RouteOf(p) \in {"route", "missing"} /\ Respond(p, RouteOf(p), << >>, "parse")
  BY <1>2 DEF ServeEcho, ServeRoute
<1>4. ASSUME ~split PROVE Aligned(at)'
  <2>1. Aligned(at)
    BY <1>1, <1>4
  <2>2. PICK k : k = Len(responses) + 1
    OBVIOUS
  <2>3. PICK r : Finds(p, k, r)
    BY <1>0, <1>1, <1>2, <1>3, <2>1, <2>2, NextRequest
  <2>4. received' - Readable(buf') = at[k] + Size(r)
    BY <1>0, <1>1, <1>3, <2>1, <2>2, <2>3, Retrieved
  <2>5. RouteOf(p) = r.kind /\ p.body = [j \in 1..r.body |-> Unit("body", k)]
    BY <2>3 DEF Finds
  <2>6. CASE RouteOf(p) = "echo" /\ Respond(p, "echo", p.body, "parse")
    <3>1. PICK body : body = p.body
      OBVIOUS
    <3>2. AnswerTo(r, k) = [req |-> k, kind |-> "echo", body |-> body]
      BY <2>5, <2>6, <3>1 DEF AnswerTo
    <3>3. Respond(p, "echo", body, "parse")
      BY <2>6, <3>1
    <3> QED BY <1>0, <1>1, <1>3, <2>1, <2>2, <2>3, <2>4, <3>2, <3>3, RespondAligned
  <2>7. CASE RouteOf(p) \in {"route", "missing"} /\ Respond(p, RouteOf(p), << >>, "parse")
    <3>1. PICK kind : kind = RouteOf(p)
      OBVIOUS
    <3>2. AnswerTo(r, k) = [req |-> k, kind |-> kind, body |-> << >>]
      BY <2>5, <2>7, <3>1 DEF AnswerTo
    <3>3. Respond(p, kind, << >>, "parse")
      BY <2>7, <3>1
    <3> QED BY <1>0, <1>1, <1>3, <2>1, <2>2, <2>3, <2>4, <3>2, <3>3, RespondAligned
  <2> QED BY <1>3, <2>6, <2>7
<1>5. Row(requests', stream', at)
  BY <1>1, <1>3
<1> QED BY <1>0, <1>3, <1>4, <1>5 DEF OInv

LEMMA StutterAligned ==
  ASSUME OInv, UNCHANGED httpVars
  PROVE  OInv'
<1>0. IInv /\ IInv'
  BY StutterStep DEF OInv
<1>1. PICK at : Row(requests, stream, at) /\ (~split => Aligned(at))
  BY DEF OInv
<1>2. UNCHANGED <<requests, stream, received, buf, pc, fin, responses, split>>
  BY DEF httpVars
<1>3. ASSUME ~split PROVE Aligned(at)'
  BY <1>1, <1>2, <1>3 DEF Aligned, Readable
<1>4. Row(requests', stream', at)
  BY <1>1, <1>2
<1> QED BY <1>0, <1>2, <1>3, <1>4 DEF OInv

LEMMA NextOInv == GetsHaveNoBody /\ OInv /\ [Next]_httpVars => OInv'
<1> SUFFICES ASSUME GetsHaveNoBody, OInv, [Next]_httpVars PROVE OInv'
  OBVIOUS
<1>1. ASSUME NEW r \in Request, SendRequest(r) PROVE OInv'
  BY <1>1, SendRequestAligned
<1>2. ASSUME NEW n \in 1..Len(stream), HandleRead(n) PROVE OInv'
  BY <1>2, HandleReadAligned
<1>3. CASE ReturnForMore
  BY <1>3, ReturnForMoreAligned
<1>4. CASE Throw
  BY <1>4, ThrowAligned
<1>5. CASE ServeStatic
  BY <1>5, ServeStaticAligned
<1>6. CASE ServeEcho \/ ServeRoute
  BY <1>6, ServeAligned
<1>7. CASE UNCHANGED httpVars
  BY <1>7, StutterAligned
<1> QED BY <1>1, <1>2, <1>3, <1>4, <1>5, <1>6, <1>7 DEF Next

\* http_server.cc:32-233: if GET requests carry no body (the routes of lines 61
\* and 67 consume none), then, for any requests and any segments that do not
\* end inside a request, every request is answered once, in order, by its own
\* route and with its own body, and no exception leaves OnMessage.
THEOREM RequestsAreAnswered == GetsHaveNoBody => (Spec => []AnswersInOrder)
<1>1. Init => OInv
  BY InitOInv
<1>2. GetsHaveNoBody /\ OInv /\ [Next]_httpVars => OInv'
  BY NextOInv
<1>3. OInv => AnswersInOrder
  BY AlignedAnswers
<1> SUFFICES ASSUME GetsHaveNoBody PROVE Spec => []AnswersInOrder
  OBVIOUS
<1>4. OInv /\ [Next]_httpVars => OInv'
  BY <1>2
<1> QED BY <1>1, <1>3, <1>4, PTL DEF Spec

=============================================================================
