------------------------------- MODULE Buffer -------------------------------
(***************************************************************************)
(* netx::Buffer (src/buffer.cc): storage, a reader and a writer index.     *)
(* The storage is a pooled block until it is too small, then on the heap.  *)
(* Operations are functions from a buffer to a buffer; what is stored is a *)
(* sequence of units.                                                      *)
(***************************************************************************)
EXTENDS Naturals, Sequences

CONSTANTS
  Prepend,   \* kPrepend: 8
  Block,     \* block_size_ of the pool: 16 KiB
  Extra,     \* size of extrabuf in read_fd: 64 KiB
  Blank      \* what storage holds before anything is stored

ASSUME BufferAssumption == Prepend \in Nat /\ Block \in Nat /\ Extra \in Nat

\* Buffer(initial): a pooled block if it is large enough.
NewBuffer(initial) ==
  LET size == Prepend + (IF initial <= Block THEN Block ELSE initial)
  IN [store |-> [i \in 0..(size - 1) |-> Blank], cap |-> size,
      reader |-> Prepend, writer |-> Prepend, pooled |-> initial <= Block]

Readable(b) == b.writer - b.reader
Writable(b) == b.cap - b.writer

\* The unread units, from peek() on.
Content(b) == [i \in 1..Readable(b) |-> b.store[b.reader + i - 1]]

RetrieveAll(b) == [b EXCEPT !.reader = Prepend, !.writer = Prepend]

Retrieve(b, n) ==
  IF n < Readable(b) THEN [b EXCEPT !.reader = @ + n] ELSE RetrieveAll(b)

\* The unread units moved to Prepend, in a storage of `size` units.
Moved(b, size) ==
  [b EXCEPT
     !.store = [i \in 0..(size - 1) |->
                  IF Prepend <= i /\ i < Prepend + Readable(b)
                  THEN b.store[b.reader + (i - Prepend)]
                  ELSE IF i < b.cap THEN b.store[i] ELSE Blank],
     !.cap = size, !.reader = Prepend, !.writer = Prepend + Readable(b)]

\* The heap storage resized.
Resized(b, size) ==
  [b EXCEPT !.store = [i \in 0..(size - 1) |-> IF i < b.cap THEN b.store[i] ELSE Blank],
            !.cap = size]

\* Mutant of MakeSpace: the heap vector grows by what is missing from the end
\* of the unread data, not from the writer index.
MakeSpaceShort(b, n) ==
  IF Writable(b) + b.reader - Prepend >= n THEN Moved(b, b.cap)
  ELSE IF b.pooled THEN [Moved(b, Prepend + n) EXCEPT !.pooled = FALSE]
  ELSE Resized(b, b.writer + n)

\* make_space: compact, or leave the pool for the heap, or grow the vector.
MakeSpace(b, n) ==
  IF Writable(b) + b.reader - Prepend >= n THEN Moved(b, b.cap)
  ELSE IF b.pooled THEN [Moved(b, Prepend + Readable(b) + n) EXCEPT !.pooled = FALSE]
  ELSE Resized(b, b.writer + n)

EnsureWritable(b, n) == IF Writable(b) < n THEN MakeSpace(b, n) ELSE b

\* memcpy to begin_write() and advance the writer index.
Store(b, data) ==
  [b EXCEPT
     !.store = [i \in DOMAIN @ |-> IF b.writer <= i /\ i < b.writer + Len(data)
                                   THEN data[i - b.writer + 1] ELSE @[i]],
     !.writer = @ + Len(data)]

AppendData(b, data) == Store(EnsureWritable(b, Len(data)), data)

\* What one readv can take: two areas when the first is small.
ReadLimit(b) == IF Writable(b) < Extra THEN Writable(b) + Extra ELSE Writable(b)

\* Mutant of ReadFd: the writer index stays before extrabuf is appended.
ReadFdDropsFirst(b, data) ==
  IF Len(data) <= Writable(b) THEN Store(b, data)
  ELSE AppendData(b, SubSeq(data, Writable(b) + 1, Len(data)))

\* read_fd: what does not fit is appended from extrabuf.
ReadFd(b, data) ==
  IF Len(data) <= Writable(b) THEN Store(b, data)
  ELSE AppendData(Store(b, SubSeq(data, 1, Writable(b))),
                  SubSeq(data, Writable(b) + 1, Len(data)))

\* The indices are in order and inside the storage.
IsBuffer(b, Unit) ==
  /\ b \in [store : {b.store}, cap : Nat, reader : Nat, writer : Nat,
            pooled : BOOLEAN]
  /\ b.store \in [0..(b.cap - 1) -> Unit]
  /\ Prepend <= b.reader /\ b.reader <= b.writer /\ b.writer <= b.cap
=============================================================================
