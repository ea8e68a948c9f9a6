------------------------ MODULE TcpConnectionProofs ------------------------
(***************************************************************************)
(* For any send buffer, any lengths of sends and any number of bytes: what *)
(* the connection watches, when it closes, and what happens to the bytes.  *)
(***************************************************************************)
EXTENDS TcpConnection, SequenceTheorems, TLAPS

-----------------------------------------------------------------------------
(* Sequences.                                                              *)

LEMMA SeqMonotone ==
  ASSUME NEW S, NEW T, S \subseteq T
  PROVE  Seq(S) \subseteq Seq(T)
OBVIOUS

LEMMA EmptyIffLen ==
  ASSUME NEW T, NEW s \in Seq(T)
  PROVE  Len(s) \in Nat /\ (s = << >> <=> Len(s) = 0)
BY EmptySeq, LenProperties

(* A prefix and what Drop leaves make up the whole sequence.                *)
LEMMA DropFacts ==
  ASSUME NEW T, NEW s \in Seq(T), NEW n \in 0..Len(s)
  PROVE  /\ Drop(s, n) \in Seq(T) /\ SubSeq(s, 1, n) \in Seq(T)
         /\ Len(SubSeq(s, 1, n)) = n
         /\ Drop(s, n) = << >> <=> n = Len(s)
         /\ SubSeq(s, 1, n) \o Drop(s, n) = s
<1>1. Len(s) \in Nat /\ n \in Nat /\ \A i \in 1..Len(s) : s[i] \in T
  BY LenProperties
<1>2. /\ SubSeq(s, n + 1, Len(s)) \in Seq(T)
      /\ Len(SubSeq(s, n + 1, Len(s))) = Len(s) - n
  <2>1. \A i \in n + 1 .. Len(s) : s[i] \in T
    BY <1>1
  <2>2. n + 1 \in Int /\ Len(s) \in Int
    BY <1>1
  <2> QED BY <1>1, <2>1, <2>2, SubSeqProperties
<1>3. SubSeq(s, 1, n) \in Seq(T) /\ Len(SubSeq(s, 1, n)) = n
  <2>1. \A i \in 1 .. n : s[i] \in T
    BY <1>1
  <2> QED BY <1>1, <2>1, SubSeqProperties
<1>4. SubSeq(s, 1, n) \o SubSeq(s, n + 1, Len(s)) = SubSeq(s, 1, Len(s))
  <2>1. /\ 1 \in 1 .. Len(s) + 1
        /\ n \in 1 - 1 .. Len(s)
        /\ Len(s) \in n .. Len(s)
    BY <1>1
  <2> QED BY <2>1, ConcatAdjacentSubSeq
<1>5. SubSeq(s, 1, Len(s)) = s
  BY SubSeqFull
<1>6. Drop(s, n) = << >> <=> n = Len(s)
  <2>1. Drop(s, n) = << >> <=> Len(Drop(s, n)) = 0
    BY <1>2, EmptyIffLen DEF Drop
  <2> QED BY <1>1, <1>2, <2>1 DEF Drop
<1> QED BY <1>2, <1>3, <1>4, <1>5, <1>6 DEF Drop

(* Writing n bytes of s and keeping the rest loses and repeats nothing.     *)
LEMMA WriteAndDrop ==
  ASSUME NEW T, NEW w \in Seq(T), NEW s \in Seq(T), NEW n \in 0..Len(s)
  PROVE  (w \o SubSeq(s, 1, n)) \o Drop(s, n) = w \o s
<1>1. SubSeq(s, 1, n) \in Seq(T) /\ Drop(s, n) \in Seq(T)
  BY DropFacts
<1>2. PICK a \in Seq(T), b \in Seq(T) : a = SubSeq(s, 1, n) /\ b = Drop(s, n)
  BY <1>1
<1>3. (w \o a) \o b = w \o (a \o b)
  BY ConcatAssociative
<1>4. SubSeq(s, 1, n) \o Drop(s, n) = s
  BY DropFacts
<1> QED BY <1>2, <1>3, <1>4

LEMMA NewBytesFacts ==
  ASSUME sent \in Nat, NEW k \in Nat
  PROVE  /\ NewBytes(k) \in Seq(1..(sent + k))
         /\ Len(NewBytes(k)) = k
BY DEF NewBytes

-----------------------------------------------------------------------------
(* Writing.                                                                *)

LEMMA AcceptedFacts ==
  ASSUME TypeOK, NEW T, NEW s \in Seq(T)
  PROVE  /\ Accepted(s) \in 0..Len(s)
         /\ Accepted(s) <= Room \/ Accepted(s) = 0
         /\ Room \in Nat
         /\ Broken => Accepted(s) = 0
<1>1. Len(s) \in Nat /\ Len(wire) \in Nat
  BY LenProperties DEF TypeOK
<1> QED BY <1>1, ConstantsAssumption DEF TypeOK, Accepted, Room

LEMMA WriteFacts ==
  ASSUME TypeOK, NEW T, 1..sent \subseteq T, NEW s \in Seq(T), Write(s)
  PROVE  /\ wire' \in Seq(T)
         /\ taken' \in 0..Len(wire') /\ Len(wire') - taken' <= SndBuf
         /\ killed' \in BOOLEAN /\ sockerr' = FALSE
         /\ UNCHANGED <<taken, fin, peer, inbound, received>>
<1>1. wire \in Seq(T) /\ Len(wire) \in Nat /\ Len(s) \in Nat /\ taken \in Nat
  BY SeqMonotone, LenProperties DEF TypeOK
<1>2. Accepted(s) \in 0..Len(s)
      /\ (Accepted(s) <= Room \/ Accepted(s) = 0)
  BY AcceptedFacts
<1>3. SubSeq(s, 1, Accepted(s)) \in Seq(T)
      /\ Len(SubSeq(s, 1, Accepted(s))) = Accepted(s)
  BY <1>2, DropFacts
<1>4. wire' = wire \o SubSeq(s, 1, Accepted(s)) /\ taken' = taken
  BY DEF Write
<1>5. wire' \in Seq(T) /\ Len(wire') = Len(wire) + Accepted(s)
  BY <1>1, <1>3, <1>4, ConcatProperties
<1>6. taken' \in 0..Len(wire') /\ Len(wire') - taken' <= SndBuf
  BY <1>1, <1>2, <1>4, <1>5, ConstantsAssumption DEF TypeOK, Room
<1>7. killed' \in BOOLEAN
  BY Zenon DEF Write
<1> QED BY <1>5, <1>6, <1>7 DEF Write

(* What the two ways to send do to the bytes.                               *)
LEMMA SendDirectBytes ==
  ASSUME TypeOK, NEW k \in Nat \ {0}, NEW vec \in BOOLEAN, SendDirect(k, vec)
  PROVE  /\ sent' = sent + k /\ output = << >>
         /\ output' \in Seq(1..sent')
         /\ wire' \o output' = wire \o NewBytes(k)
         /\ output' = << >> <=> Accepted(NewBytes(k)) = k
         /\ Accepted(NewBytes(k)) \in 0..k
<1> DEFINE data == NewBytes(k)
           n == Accepted(data)
           T == 1..(sent + k)
<1>1. sent \in Nat /\ sent' = sent + k
  BY DEF SendDirect, Count, TypeOK
<1>2. data \in Seq(T) /\ Len(data) = k
  BY <1>1, NewBytesFacts
<1>3. n \in 0..k
  BY <1>2, AcceptedFacts
<1>4. output' = Drop(data, n) /\ wire' = wire \o SubSeq(data, 1, n)
      /\ output = << >>
  BY DEF SendDirect, Write
<1>5. wire \in Seq(T)
  <2>1. 1..sent \subseteq T
    BY <1>1
  <2> QED BY <2>1, SeqMonotone DEF TypeOK
<1> HIDE DEF data, n, T
<1>6. /\ Drop(data, n) \in Seq(T) /\ SubSeq(data, 1, n) \in Seq(T)
      /\ Drop(data, n) = << >> <=> n = k
      /\ SubSeq(data, 1, n) \o Drop(data, n) = data
  BY <1>2, <1>3, DropFacts
<1>7. wire' \o output' = wire \o data
  <2>1. (wire \o SubSeq(data, 1, n)) \o Drop(data, n) = wire \o data
    BY <1>2, <1>3, <1>5, WriteAndDrop
  <2> QED BY <1>4, <2>1
<1> QED BY <1>1, <1>3, <1>4, <1>6, <1>7 DEF T, data, n

LEMMA SendBehindBytes ==
  ASSUME TypeOK, NEW k \in Nat \ {0}, SendBehindBacklog(k)
  PROVE  /\ sent' = sent + k
         /\ output' \in Seq(1..sent')
         /\ output # << >> => output' # << >>
         /\ output = << >> => wire' \o output' = wire \o NewBytes(k)
         /\ Accepted(output \o NewBytes(k)) < Len(output) + k => output' # << >>
<1> DEFINE data == NewBytes(k)
           old == Len(output)
           n == Accepted(output \o data)
           T == 1..(sent + k)
<1>1. sent \in Nat /\ sent' = sent + k
  BY DEF SendBehindBacklog, Count, TypeOK
<1>2. data \in Seq(T) /\ Len(data) = k
  BY <1>1, NewBytesFacts
<1>3. wire \in Seq(T) /\ output \in Seq(T) /\ old \in Nat
  <2>1. 1..sent \subseteq T
    BY <1>1
  <2> QED BY <2>1, SeqMonotone, LenProperties DEF TypeOK
<1>4. output \o data \in Seq(T) /\ Len(output \o data) = old + k
  BY <1>2, <1>3, ConcatProperties
<1>5. n \in 0..(old + k)
  BY <1>4, AcceptedFacts
<1>6. /\ wire' = wire \o SubSeq(output \o data, 1, n)
      /\ output' = IF n < old THEN Drop(output, n) \o data
                   ELSE output \o Drop(data, n - old)
  BY DEF SendBehindBacklog, Write
<1> HIDE DEF data, old, n, T
<1>7. CASE n < old
  <2>1. n \in 0..old
    BY <1>3, <1>5, <1>7
  <2>2. Drop(output, n) \in Seq(T)
    BY <1>3, <2>1, DropFacts DEF old
  <2>3. /\ output' \in Seq(T)
        /\ Len(output') = Len(Drop(output, n)) + k
    BY <1>2, <1>6, <1>7, <2>2, ConcatProperties
  <2>4. output' # << >>
    BY <2>2, <2>3, EmptyIffLen
  <2>5. output # << >>
    BY <1>3, <1>5, <1>7, EmptyIffLen DEF old
  <2> QED BY <1>1, <2>3, <2>4, <2>5 DEF T
<1>8. CASE n >= old
  <2>1. n - old \in 0..k
    BY <1>3, <1>5, <1>8
  <2>2. /\ Drop(data, n - old) \in Seq(T)
        /\ Drop(data, n - old) = << >> <=> n - old = k
        /\ SubSeq(data, 1, n - old) \in Seq(T)
        /\ SubSeq(data, 1, n - old) \o Drop(data, n - old) = data
    BY <1>2, <2>1, DropFacts
  <2>3. output' = output \o Drop(data, n - old)
    BY <1>3, <1>5, <1>6, <1>8
  <2>4. output' \in Seq(T)
    BY <1>3, <2>2, <2>3, ConcatProperties
  <2>5. output' = << >> <=> output = << >> /\ n - old = k
    BY <1>3, <2>2, <2>3, ConcatEqualIffEmpty
  <2>6. ASSUME output = << >>
        PROVE  wire' \o output' = wire \o data
    <3>1. old = 0 /\ output \o data = data
      BY <2>6, <1>2, ConcatEmptySeq, EmptySeq DEF old
    <3>2. output' = Drop(data, n) /\ wire' = wire \o SubSeq(data, 1, n)
          /\ n - old = n
      BY <2>2, <2>3, <2>6, <3>1, <1>5, <1>6, ConcatEmptySeq
    <3>3. n \in 0..Len(data)
      BY <1>2, <2>1, <3>2
    <3>4. (wire \o SubSeq(data, 1, n)) \o Drop(data, n) = wire \o data
      BY <1>2, <1>3, <3>3, WriteAndDrop
    <3> QED BY <3>2, <3>4
  <2>7. n < old + k => output' # << >>
    BY <1>3, <1>5, <1>1, <2>1, <2>5
  <2> QED BY <1>1, <2>4, <2>5, <2>6, <2>7 DEF T, n, old, data
<1>9. n < old \/ n >= old
  BY <1>3, <1>5
<1> QED BY <1>7, <1>8, <1>9

LEMMA HandleWriteBytes ==
  ASSUME TypeOK, HandleWrite
  PROVE  /\ output' \in Seq(1..sent) /\ sent' = sent
         /\ wire' \o output' = wire \o output
<1> DEFINE n == Accepted(output)
<1>1. output \in Seq(1..sent) /\ wire \in Seq(1..sent)
  BY DEF TypeOK
<1>2. n \in 0..Len(output)
  BY <1>1, AcceptedFacts
<1>3. wire' = wire \o SubSeq(output, 1, n) /\ output' = Drop(output, n)
      /\ sent' = sent
  BY DEF HandleWrite, Write
<1> HIDE DEF n
<1>4. Drop(output, n) \in Seq(1..sent)
  BY <1>1, <1>2, DropFacts
<1>5. (wire \o SubSeq(output, 1, n)) \o Drop(output, n) = wire \o output
  BY <1>1, <1>2, WriteAndDrop
<1> QED BY <1>3, <1>4, <1>5

-----------------------------------------------------------------------------
(* Types.                                                                  *)

LEMMA SendDirectTypeOK ==
  ASSUME TypeOK, NEW k \in Nat \ {0}, NEW vec \in BOOLEAN, SendDirect(k, vec)
  PROVE  TypeOK'
<1>1. /\ sent \in Nat /\ sent' = sent + k /\ output' \in Seq(1..sent')
  BY SendDirectBytes DEF TypeOK
<1>2. 1..sent \subseteq 1..sent' /\ NewBytes(k) \in Seq(1..sent')
  BY <1>1, NewBytesFacts
<1>3. Write(NewBytes(k))
  BY DEF SendDirect
<1>4. /\ wire' \in Seq(1..sent') /\ taken' \in 0..Len(wire')
      /\ Len(wire') - taken' <= SndBuf
      /\ killed' \in BOOLEAN /\ sockerr' = FALSE
      /\ UNCHANGED <<taken, fin, peer, inbound, received>>
  BY <1>2, <1>3, WriteFacts
<1>5. writing' \in BOOLEAN /\ late' \in BOOLEAN
  BY Zenon DEF SendDirect, Count, TypeOK
<1>6. /\ events' \in SUBSET {"in", "out"} /\ registered_events' \in SUBSET events'
      /\ registered' \in BOOLEAN
  BY DEF SendDirect, EnableWriting, DisableWriting, Watch, channelVars, TypeOK
<1>7. UNCHANGED <<state, timer, pc, revents, closes, expired, behind>>
  BY DEF SendDirect
<1>8. sent' \in Nat
  BY <1>1
<1> QED BY <1>8, <1>1, <1>4, <1>5, <1>6, <1>7 DEF TypeOK

LEMMA SendBehindTypeOK ==
  ASSUME TypeOK, NEW k \in Nat \ {0}, SendBehindBacklog(k)
  PROVE  TypeOK'
<1>1. /\ sent \in Nat /\ sent' = sent + k /\ output' \in Seq(1..sent')
  BY SendBehindBytes DEF TypeOK
<1>2. 1..sent \subseteq 1..sent' /\ NewBytes(k) \in Seq(1..sent')
  BY <1>1, NewBytesFacts
<1>3. Write(output \o NewBytes(k)) /\ output \o NewBytes(k) \in Seq(1..sent')
  <2>1. output \in Seq(1..sent')
    BY <1>2, SeqMonotone DEF TypeOK
  <2> QED BY <1>2, <2>1, ConcatProperties DEF SendBehindBacklog
<1>4. /\ wire' \in Seq(1..sent') /\ taken' \in 0..Len(wire')
      /\ Len(wire') - taken' <= SndBuf
      /\ killed' \in BOOLEAN /\ sockerr' = FALSE
      /\ UNCHANGED <<taken, fin, peer, inbound, received>>
  BY <1>2, <1>3, WriteFacts
<1>5. writing' \in BOOLEAN /\ late' \in BOOLEAN /\ behind' \in BOOLEAN
  BY Zenon DEF SendBehindBacklog, Count, TypeOK
<1>6. /\ events' \in SUBSET {"in", "out"} /\ registered_events' \in SUBSET events'
      /\ registered' \in BOOLEAN
  BY DEF SendBehindBacklog, EnableWriting, Watch, channelVars, TypeOK
<1>7. UNCHANGED <<state, timer, pc, revents, closes, expired>>
  BY DEF SendBehindBacklog
<1>8. sent' \in Nat
  BY <1>1
<1> QED BY <1>8, <1>1, <1>4, <1>5, <1>6, <1>7 DEF TypeOK

LEMMA HandleCloseTypes ==
  ASSUME TypeOK, HandleClose
  PROVE  /\ state' \in {"connected", "disconnected"}
         /\ events' \in SUBSET {"in", "out"} /\ registered_events' \in SUBSET events'
         /\ registered' \in BOOLEAN /\ writing' \in BOOLEAN
         /\ timer' \in BOOLEAN /\ closes' \in Nat
<1>1. CASE state = "disconnected"
  BY <1>1 DEF HandleClose, TypeOK, channelVars
<1>2. CASE state # "disconnected"
  <2>1. /\ state' = "disconnected" /\ events' = events
        /\ registered' = FALSE /\ registered_events' = {}
        /\ writing' = FALSE /\ timer' = FALSE /\ closes' = closes + 1
    BY <1>2 DEF HandleClose
  <2>2. events \in SUBSET {"in", "out"} /\ closes \in Nat
    BY DEF TypeOK
  <2>3. registered' \in BOOLEAN /\ writing' \in BOOLEAN /\ timer' \in BOOLEAN
    BY <2>1, Zenon
  <2>4. /\ state' \in {"connected", "disconnected"} /\ closes' \in Nat
        /\ events' \in SUBSET {"in", "out"} /\ registered_events' \in SUBSET events'
    BY <2>1, <2>2
  <2> QED BY <2>3, <2>4
<1> QED BY <1>1, <1>2

LEMMA StayOpenTypes ==
  ASSUME TypeOK, StayOpen
  PROVE  /\ state' \in {"connected", "disconnected"}
         /\ events' \in SUBSET {"in", "out"} /\ registered_events' \in SUBSET events'
         /\ registered' \in BOOLEAN /\ writing' \in BOOLEAN
         /\ timer' \in BOOLEAN /\ closes' \in Nat
BY DEF StayOpen, TypeOK, channelVars

LEMMA HandleWriteTypeOK ==
  ASSUME TypeOK, HandleWrite
  PROVE  TypeOK'
<1>1. output' \in Seq(1..sent) /\ sent' = sent
  BY HandleWriteBytes
<1>2. /\ wire' \in Seq(1..sent) /\ taken' \in 0..Len(wire')
      /\ Len(wire') - taken' <= SndBuf
      /\ killed' \in BOOLEAN /\ sockerr' = FALSE
      /\ UNCHANGED <<taken, fin, peer, inbound, received>>
  BY WriteFacts DEF HandleWrite, TypeOK
<1>3. /\ state' \in {"connected", "disconnected"}
      /\ events' \in SUBSET {"in", "out"} /\ registered_events' \in SUBSET events'
      /\ registered' \in BOOLEAN /\ writing' \in BOOLEAN
      /\ timer' \in BOOLEAN /\ closes' \in Nat
  <2>1. CASE HandleClose
    BY <2>1, HandleCloseTypes
  <2>2. CASE /\ IF output' = << >> THEN writing' = FALSE /\ DisableWriting
                ELSE UNCHANGED <<writing, channelVars>>
             /\ UNCHANGED <<state, timer, closes>>
    BY <2>2 DEF DisableWriting, Watch, channelVars, TypeOK
  <2> QED BY <2>1, <2>2 DEF HandleWrite
<1>4. UNCHANGED <<behind, late, revents, expired>> /\ pc' = "hup"
  BY DEF HandleWrite
<1> QED BY <1>1, <1>2, <1>3, <1>4 DEF TypeOK

LEMMA NextTypeOK ==
  ASSUME TypeOK, [Next]_vars
  PROVE  TypeOK'
<1> USE DEF TypeOK, channelVars, sendVars, socketVars
<1>1. ASSUME NEW k \in Chunks, NEW vec \in BOOLEAN, SendDirect(k, vec)
      PROVE  TypeOK'
  BY <1>1, SendDirectTypeOK, ConstantsAssumption
<1>2. ASSUME NEW k \in Chunks, SendBehindBacklog(k)
      PROVE  TypeOK'
  BY <1>2, SendBehindTypeOK, ConstantsAssumption
<1>3. ASSUME Shutdown
      PROVE  TypeOK'
  BY <1>3 DEF Shutdown
<1>4. ASSUME TimeoutFires
      PROVE  TypeOK'
  BY <1>4 DEF TimeoutFires
<1>5. ASSUME Dispatch
      PROVE  TypeOK'
  BY <1>5 DEF Dispatch, Ready
<1>6. ASSUME HandleError
      PROVE  TypeOK'
  BY <1>6, HandleCloseTypes, StayOpenTypes DEF HandleError
<1>7. ASSUME ReadData
      PROVE  TypeOK'
  BY <1>7 DEF ReadData
<1>8. ASSUME ReadEnd
      PROVE  TypeOK'
  BY <1>8, HandleCloseTypes, StayOpenTypes DEF ReadEnd
<1>9. ASSUME NothingToRead
      PROVE  TypeOK'
  BY <1>9 DEF NothingToRead
<1>10. ASSUME MessageReturns
      PROVE  TypeOK'
  BY <1>10 DEF MessageReturns
<1>11. ASSUME HandleWrite
      PROVE  TypeOK'
  BY <1>11, HandleWriteTypeOK
<1>12. ASSUME NothingToWrite
      PROVE  TypeOK'
  BY <1>12 DEF NothingToWrite
<1>13. ASSUME HandleHup
      PROVE  TypeOK'
  BY <1>13, HandleCloseTypes, StayOpenTypes DEF HandleHup
<1>14. ASSUME PeerTakes
      PROVE  TypeOK'
  <2>1. Len(wire) \in Nat
    BY LenProperties
  <2> QED BY <1>14, <2>1, ConstantsAssumption DEF PeerTakes, PeerUnchanged
<1>15. ASSUME PeerSends
      PROVE  TypeOK'
  BY <1>15 DEF PeerSends, PeerUnchanged
<1>16. ASSUME PeerFinishes
      PROVE  TypeOK'
  BY <1>16 DEF PeerFinishes, PeerUnchanged
<1>17. ASSUME PeerResets
      PROVE  TypeOK'
  BY <1>17 DEF PeerResets, PeerUnchanged
<1>18. CASE UNCHANGED vars
  BY <1>18 DEF vars
<1> QED
  BY <1>1, <1>2, <1>3, <1>4, <1>5, <1>6, <1>7, <1>8, <1>9, <1>10, <1>11,
     <1>12, <1>13, <1>14, <1>15, <1>16, <1>17, <1>18
     DEF Next, Send, LoopStep

-----------------------------------------------------------------------------
(* Control: what is watched, and what a close leaves behind.               *)

Control == BacklogIsWatched /\ ClosedOnce /\ ClosedIsQuiet

LEMMA CloseKeepsControl ==
  ASSUME TypeOK, Control, UNCHANGED late, HandleClose,
         state = "connected" \/ output' = output
  PROVE  Control'
<1> USE DEF Control, BacklogIsWatched, ClosedOnce, ClosedIsQuiet
<1>1. CASE state = "disconnected"
  BY <1>1 DEF HandleClose, channelVars
<1>2. CASE state # "disconnected"
  <2>1. closes = 0
    BY <1>2 DEF TypeOK
  <2>2. /\ state' = "disconnected" /\ ~registered' /\ ~writing' /\ closes' = 1
    BY <1>2, <2>1 DEF HandleClose
  <2> QED BY <2>2
<1> QED BY <1>1, <1>2

LEMMA SendDirectControl ==
  ASSUME TypeOK, Control, NEW k \in Nat \ {0}, NEW vec \in BOOLEAN,
         SendDirect(k, vec)
  PROVE  Control'
<1>1. /\ output = << >> /\ (output' = << >> <=> Accepted(NewBytes(k)) = k)
      /\ Accepted(NewBytes(k)) \in 0..k
  BY SendDirectBytes
<1>2. UNCHANGED <<state, closes>> /\ late' = (late \/ state = "disconnected")
  BY DEF SendDirect, Count
<1>3. ClosedOnce'
  BY <1>2 DEF Control, ClosedOnce
<1>4. ClosedIsQuiet'
  BY <1>2, Zenon DEF ClosedIsQuiet
<1>5. ASSUME state = "connected" PROVE BacklogIsWatched'
  <2>1. registered /\ registered_events = events /\ ~writing
        /\ "out" \notin events
    BY <1>1, <1>5 DEF Control, BacklogIsWatched
  <2>2. CASE Accepted(NewBytes(k)) < k
    <3>1. writing' = TRUE /\ EnableWriting /\ output' # << >>
      BY <1>1, <2>2 DEF SendDirect
    <3> QED BY <3>1 DEF BacklogIsWatched, EnableWriting, Watch
  <2>3. CASE Accepted(NewBytes(k)) = k
    <3>1. writing' = writing /\ (DisableWriting \/ UNCHANGED channelVars)
          /\ output' = << >>
      BY <1>1, <2>3 DEF SendDirect
    <3> QED BY <2>1, <3>1 DEF BacklogIsWatched, DisableWriting, Watch, channelVars
  <2> QED BY <1>1, <2>2, <2>3
<1> QED BY <1>2, <1>3, <1>4, <1>5 DEF Control, BacklogIsWatched

LEMMA SendBehindControl ==
  ASSUME TypeOK, Control, NEW k \in Nat \ {0}, SendBehindBacklog(k)
  PROVE  Control'
<1>1. /\ output # << >> => output' # << >>
      /\ Accepted(output \o NewBytes(k)) < Len(output) + k => output' # << >>
  BY SendBehindBytes
<1>2. UNCHANGED <<state, closes>> /\ late' = (late \/ state = "disconnected")
  BY DEF SendBehindBacklog, Count
<1>3. ClosedOnce'
  BY <1>2 DEF Control, ClosedOnce
<1>4. ClosedIsQuiet'
  BY <1>2, Zenon DEF ClosedIsQuiet
<1>5. ASSUME state = "connected" PROVE BacklogIsWatched'
  <2>1. /\ registered /\ registered_events = events
        /\ writing /\ output # << >> /\ "out" \in events
    BY <1>5 DEF Control, BacklogIsWatched, SendBehindBacklog
  <2>2. output' # << >>
    BY <1>1, <2>1
  <2>3. (writing' = TRUE /\ EnableWriting) \/ UNCHANGED <<writing, channelVars>>
    BY DEF SendBehindBacklog
  <2> QED BY <2>1, <2>2, <2>3
          DEF BacklogIsWatched, EnableWriting, Watch, channelVars
<1> QED BY <1>2, <1>3, <1>4, <1>5 DEF Control, BacklogIsWatched

LEMMA HandleWriteControl ==
  ASSUME TypeOK, Control, HandleWrite
  PROVE  Control'
<1>1. UNCHANGED late /\ writing
  BY DEF HandleWrite
<1>2. CASE Broken
  <2>1. HandleClose
    BY <1>2 DEF HandleWrite
  <2>2. output' = output
    <3>1. output \in Seq(1..sent)
      BY DEF TypeOK
    <3>2. Accepted(output) = 0
      BY <1>2, <3>1, AcceptedFacts
    <3>3. output' = SubSeq(output, 1, Len(output))
      BY <3>2 DEF HandleWrite, Drop
    <3> QED BY <3>1, <3>3, SubSeqFull
  <2> QED BY <1>1, <2>1, <2>2, CloseKeepsControl
<1>3. CASE ~Broken
  <2>1. UNCHANGED <<state, closes>>
        /\ IF output' = << >> THEN writing' = FALSE /\ DisableWriting
           ELSE UNCHANGED <<writing, channelVars>>
    BY <1>3 DEF HandleWrite
  <2>2. ClosedOnce'
    BY <2>1 DEF Control, ClosedOnce
  <2>3. ClosedIsQuiet'
    BY <1>1, <2>1, Zenon DEF Control, ClosedIsQuiet
  <2>4. BacklogIsWatched'
    BY <1>1, <2>1
       DEF Control, BacklogIsWatched, DisableWriting, Watch, channelVars
  <2> QED BY <2>2, <2>3, <2>4 DEF Control
<1> QED BY <1>2, <1>3

LEMMA NextControl ==
  ASSUME TypeOK, Control, [Next]_vars
  PROVE  Control'
<1>1. ASSUME UNCHANGED <<state, output, writing, late, closes>>, UNCHANGED channelVars
      PROVE  Control'
  BY <1>1 DEF Control, BacklogIsWatched, ClosedOnce, ClosedIsQuiet, channelVars
<1>2. ASSUME HandleError \/ ReadEnd \/ HandleHup
      PROVE  Control'
  <2>1. UNCHANGED <<output, late>> /\ (HandleClose \/ StayOpen)
    BY <1>2 DEF HandleError, ReadEnd, HandleHup
  <2> QED BY <1>1, <2>1, CloseKeepsControl DEF StayOpen
<1>3. ASSUME NEW k \in Chunks, NEW vec \in BOOLEAN, SendDirect(k, vec)
      PROVE  Control'
  BY <1>3, SendDirectControl, ConstantsAssumption
<1>4. ASSUME NEW k \in Chunks, SendBehindBacklog(k)
      PROVE  Control'
  BY <1>4, SendBehindControl, ConstantsAssumption
<1>5. ASSUME HandleWrite
      PROVE  Control'
  BY <1>5, HandleWriteControl
<1>6. ASSUME \/ Shutdown \/ TimeoutFires \/ Dispatch \/ ReadData
             \/ NothingToRead \/ MessageReturns \/ NothingToWrite
             \/ PeerTakes \/ PeerSends \/ PeerFinishes \/ PeerResets
             \/ UNCHANGED vars
      PROVE  Control'
  BY <1>1, <1>6
     DEF Shutdown, TimeoutFires, Dispatch, ReadData, NothingToRead,
         MessageReturns, NothingToWrite, PeerTakes, PeerSends, PeerFinishes,
         PeerResets, PeerUnchanged, vars, sendVars
<1> QED BY <1>2, <1>3, <1>4, <1>5, <1>6 DEF Next, Send, LoopStep

-----------------------------------------------------------------------------
(* Bytes: the stream is intact, and nothing is lost.                       *)

Identity(n) == [i \in 1..n |-> i]

LEMMA IdentityGrows ==
  ASSUME sent \in Nat, NEW k \in Nat
  PROVE  Identity(sent) \o NewBytes(k) = Identity(sent + k)
<1>1. Identity(sent) \in Seq(1..(sent + k)) /\ Identity(sent + k) \in Seq(1..(sent + k))
      /\ Len(Identity(sent)) = sent /\ Len(Identity(sent + k)) = sent + k
  BY DEF Identity
<1>2. NewBytes(k) \in Seq(1..(sent + k)) /\ Len(NewBytes(k)) = k
  BY NewBytesFacts
<1>3. /\ Identity(sent) \o NewBytes(k) \in Seq(1..(sent + k))
      /\ Len(Identity(sent) \o NewBytes(k)) = sent + k
      /\ \A i \in 1..(sent + k) : (Identity(sent) \o NewBytes(k))[i] =
            IF i <= sent THEN Identity(sent)[i] ELSE NewBytes(k)[i - sent]
  <2>1. PICK a \in Seq(1..(sent + k)), b \in Seq(1..(sent + k)) :
          a = Identity(sent) /\ b = NewBytes(k)
    BY <1>1, <1>2
  <2>2. /\ a \o b \in Seq(1..(sent + k))
        /\ Len(a \o b) = Len(a) + Len(b)
        /\ \A i \in 1..(Len(a) + Len(b)) : (a \o b)[i] =
              IF i <= Len(a) THEN a[i] ELSE b[i - Len(a)]
    BY ConcatProperties
  <2> QED BY <1>1, <1>2, <2>1, <2>2
<1>4. ASSUME NEW i \in 1..(sent + k)
      PROVE  (Identity(sent) \o NewBytes(k))[i] = Identity(sent + k)[i]
  BY <1>3 DEF Identity, NewBytes
<1> QED BY <1>1, <1>3, <1>4, SeqEqual

LEMMA NextIntact ==
  ASSUME TypeOK, IntactUnlessBehind, [Next]_vars
  PROVE  IntactUnlessBehind'
<1> USE DEF IntactUnlessBehind, StreamIntact
<1>0. /\ sent \in Nat /\ wire \in Seq(1..sent)
      /\ [i \in 1..sent |-> i] = Identity(sent)
      /\ [i \in 1..sent' |-> i] = Identity(sent')
  BY DEF TypeOK, Identity
<1>1. ASSUME output = << >>, ~behind
      PROVE  wire = Identity(sent)
  BY <1>0, <1>1, ConcatEmptySeq
<1>2. ASSUME NEW k \in Chunks, NEW vec \in BOOLEAN, SendDirect(k, vec)
      PROVE  IntactUnlessBehind'
  <2>1. /\ k \in Nat /\ sent' = sent + k /\ output = << >> /\ behind' = behind
        /\ wire' \o output' = wire \o NewBytes(k)
    BY <1>2, SendDirectBytes, ConstantsAssumption DEF SendDirect
  <2>2. ASSUME ~behind
        PROVE  wire' \o output' = Identity(sent')
    BY <1>0, <1>1, <2>1, <2>2, IdentityGrows
  <2> QED BY <1>0, <2>1, <2>2
<1>3. ASSUME NEW k \in Chunks, SendBehindBacklog(k)
      PROVE  IntactUnlessBehind'
  <2>1. /\ k \in Nat /\ sent' = sent + k
        /\ output = << >> => wire' \o output' = wire \o NewBytes(k)
    BY <1>3, SendBehindBytes, ConstantsAssumption
  <2>2. behind' = (behind \/ output # << >>)
    BY <1>3 DEF SendBehindBacklog
  <2>3. ASSUME ~behind, output = << >>
        PROVE  wire' \o output' = Identity(sent')
    BY <1>0, <1>1, <2>1, <2>3, IdentityGrows
  <2> QED BY <1>0, <2>2, <2>3
<1>4. ASSUME HandleWrite
      PROVE  IntactUnlessBehind'
  <2>1. /\ sent' = sent /\ wire' \o output' = wire \o output /\ behind' = behind
    BY <1>4, HandleWriteBytes DEF HandleWrite
  <2> QED BY <2>1
<1>5. ASSUME UNCHANGED <<wire, output, sent, behind>>
      PROVE  IntactUnlessBehind'
  BY <1>5
<1> QED
  BY <1>2, <1>3, <1>4, <1>5
     DEF Next, Send, LoopStep, Shutdown, TimeoutFires, Dispatch, HandleError,
         ReadData, ReadEnd, NothingToRead, MessageReturns, NothingToWrite,
         HandleHup, PeerTakes, PeerSends, PeerFinishes, PeerResets,
         PeerUnchanged, vars, sendVars, socketVars

Has(s, x) == \E i \in DOMAIN s : s[i] = x

LEMMA HasConcat ==
  ASSUME NEW T, NEW s \in Seq(T), NEW t \in Seq(T), NEW x
  PROVE  Has(s \o t, x) <=> Has(s, x) \/ Has(t, x)
<1>1. /\ Len(s) \in Nat /\ Len(t) \in Nat
      /\ DOMAIN s = 1..Len(s) /\ DOMAIN t = 1..Len(t)
  BY LenProperties
<1>2. /\ DOMAIN (s \o t) = 1..(Len(s) + Len(t))
      /\ \A i \in 1..(Len(s) + Len(t)) :
           (s \o t)[i] = IF i <= Len(s) THEN s[i] ELSE t[i - Len(s)]
  BY ConcatProperties, LenProperties
<1>3. ASSUME NEW i \in DOMAIN s, s[i] = x PROVE Has(s \o t, x)
  <2>1. i \in 1..(Len(s) + Len(t)) /\ (s \o t)[i] = x
    BY <1>1, <1>2, <1>3
  <2> QED BY <1>2, <2>1 DEF Has
<1>4. ASSUME NEW i \in DOMAIN t, t[i] = x PROVE Has(s \o t, x)
  <2>1. /\ Len(s) + i \in 1..(Len(s) + Len(t)) /\ (s \o t)[Len(s) + i] = x
    BY <1>1, <1>2, <1>4
  <2> QED BY <1>2, <2>1 DEF Has
<1>5. ASSUME NEW i \in DOMAIN (s \o t), (s \o t)[i] = x
      PROVE  Has(s, x) \/ Has(t, x)
  <2>1. CASE i <= Len(s)
    BY <1>1, <1>2, <1>5, <2>1 DEF Has
  <2>2. CASE i > Len(s)
    <3>1. i - Len(s) \in DOMAIN t /\ t[i - Len(s)] = x
      BY <1>1, <1>2, <1>5, <2>2
    <3> QED BY <3>1 DEF Has
  <2> QED BY <1>1, <1>2, <2>1, <2>2
<1> QED BY <1>3, <1>4, <1>5 DEF Has

LEMMA HasSplit ==
  ASSUME NEW T, NEW s \in Seq(T), NEW n \in 0..Len(s), NEW x
  PROVE  Has(s, x) <=> Has(SubSeq(s, 1, n), x) \/ Has(Drop(s, n), x)
<1>1. PICK a \in Seq(T), b \in Seq(T) : a = SubSeq(s, 1, n) /\ b = Drop(s, n)
  BY DropFacts
<1>2. Has(a \o b, x) <=> Has(a, x) \/ Has(b, x)
  BY HasConcat
<1>3. SubSeq(s, 1, n) \o Drop(s, n) = s
  BY DropFacts
<1> QED BY <1>1, <1>2, <1>3

(* The first n bytes of a concatenation.                                    *)
LEMMA HasPrefix ==
  ASSUME NEW T, NEW s \in Seq(T), NEW t \in Seq(T), NEW x,
         NEW n \in 0..(Len(s) + Len(t))
  PROVE  Has(SubSeq(s \o t, 1, n), x) <=>
           IF n < Len(s) THEN Has(SubSeq(s, 1, n), x)
           ELSE Has(s, x) \/ Has(SubSeq(t, 1, n - Len(s)), x)
<1>1. /\ Len(s) \in Nat /\ Len(t) \in Nat /\ n \in Nat
      /\ s \o t \in Seq(T) /\ Len(s \o t) = Len(s) + Len(t)
      /\ \A i \in 1..(Len(s) + Len(t)) :
           (s \o t)[i] = IF i <= Len(s) THEN s[i] ELSE t[i - Len(s)]
  BY ConcatProperties, LenProperties
<1>2. PICK u \in Seq(T) : u = s \o t
  BY <1>1
<1>3. SubSeq(u, 1, n) = [i \in 1..n |-> u[i]]
  BY <1>1, <1>2
<1>4. Has(SubSeq(u, 1, n), x) <=> \E i \in 1..n : u[i] = x
  BY <1>1, <1>3 DEF Has
<1>5. CASE n < Len(s)
  <2>1. SubSeq(s, 1, n) = [i \in 1..n |-> s[i]]
    BY <1>1, <1>5
  <2>2. Has(SubSeq(s, 1, n), x) <=> \E i \in 1..n : s[i] = x
    BY <1>1, <2>1 DEF Has
  <2>3. \A i \in 1..n : u[i] = s[i]
    BY <1>1, <1>2, <1>5
  <2> QED BY <1>2, <1>4, <1>5, <2>2, <2>3
<1>6. CASE n >= Len(s)
  <2> DEFINE m == n - Len(s)
  <2>1. m \in Nat /\ n = Len(s) + m /\ m <= Len(t)
    BY <1>1, <1>6
  <2> HIDE DEF m
  <2>2. SubSeq(t, 1, m) = [i \in 1..m |-> t[i]]
    BY <1>1, <2>1
  <2>3. Has(SubSeq(t, 1, m), x) <=> \E i \in 1..m : t[i] = x
    BY <2>1, <2>2 DEF Has
  <2>4. Has(s, x) <=> \E i \in 1..Len(s) : s[i] = x
    BY LenProperties DEF Has
  <2>5. ASSUME NEW i \in 1..n, u[i] = x
        PROVE  Has(s, x) \/ Has(SubSeq(t, 1, m), x)
    <3>1. CASE i <= Len(s)
      BY <1>1, <1>2, <2>1, <2>4, <2>5, <3>1
    <3>2. CASE i > Len(s)
      <4>1. i - Len(s) \in 1..m /\ t[i - Len(s)] = x
        BY <1>1, <1>2, <2>1, <2>5, <3>2
      <4> QED BY <2>3, <4>1
    <3> QED BY <1>1, <3>1, <3>2
  <2>6. ASSUME NEW i \in 1..Len(s), s[i] = x
        PROVE  \E j \in 1..n : u[j] = x
    <3>1. i \in 1..n /\ u[i] = x
      BY <1>1, <1>2, <2>1, <2>6
    <3> QED BY <3>1
  <2>7. ASSUME NEW i \in 1..m, t[i] = x
        PROVE  \E j \in 1..n : u[j] = x
    <3>1. Len(s) + i \in 1..n /\ u[Len(s) + i] = x
      BY <1>1, <1>2, <2>1, <2>7
    <3> QED BY <3>1
  <2>8. Has(SubSeq(u, 1, n), x) <=> Has(s, x) \/ Has(SubSeq(t, 1, m), x)
    BY <1>4, <2>3, <2>4, <2>5, <2>6, <2>7
  <2>9. ~(n < Len(s))
    BY <1>1, <1>6
  <2> QED BY <1>2, <2>8, <2>9 DEF m
<1> QED BY <1>1, <1>5, <1>6

LEMMA NewBytesHas ==
  ASSUME sent \in Nat, NEW k \in Nat, NEW x \in (sent + 1)..(sent + k)
  PROVE  Has(NewBytes(k), x)
<1>1. x - sent \in DOMAIN NewBytes(k) /\ NewBytes(k)[x - sent] = x
  BY DEF NewBytes
<1> QED BY <1>1 DEF Has

LEMMA SendBehindKeepsBytes ==
  ASSUME TypeOK, NEW k \in Nat \ {0}, SendBehindBacklog(k), NEW x,
         Has(wire, x) \/ Has(output, x) \/ Has(NewBytes(k), x)
  PROVE  Has(wire', x) \/ Has(output', x)
<1> DEFINE T == 1..(sent + k)
<1>1. /\ wire \in Seq(T) /\ output \in Seq(T) /\ NewBytes(k) \in Seq(T)
      /\ Len(NewBytes(k)) = k /\ Len(output) \in Nat
  <2>1. sent \in Nat /\ 1..sent \subseteq T
    BY DEF TypeOK
  <2> QED BY <2>1, SeqMonotone, NewBytesFacts, LenProperties DEF TypeOK
<1> HIDE DEF T
<1>2. PICK data \in Seq(T), both \in Seq(T), n \in 0..(Len(output) + k) :
        /\ data = NewBytes(k) /\ both = output \o data /\ n = Accepted(both)
  <2>1. /\ output \o NewBytes(k) \in Seq(T)
        /\ Len(output \o NewBytes(k)) = Len(output) + k
    BY <1>1, ConcatProperties
  <2> QED BY <1>1, <2>1, AcceptedFacts
<1>3. /\ wire' = wire \o SubSeq(both, 1, n)
      /\ output' = IF n < Len(output) THEN Drop(output, n) \o data
                   ELSE output \o Drop(data, n - Len(output))
  BY <1>2 DEF SendBehindBacklog, Write
<1>4. PICK w \in Seq(T) : w = SubSeq(both, 1, n)
  <2>1. n \in 0..Len(both)
    BY <1>1, <1>2, ConcatProperties
  <2> QED BY <2>1, DropFacts
<1>5. Has(wire', x) <=> Has(wire, x) \/ Has(w, x)
  <2>1. wire' = wire \o w
    BY <1>3, <1>4
  <2>2. Has(wire \o w, x) <=> Has(wire, x) \/ Has(w, x)
    BY <1>1, HasConcat
  <2> QED BY <2>1, <2>2
<1>6. Has(w, x) <=> IF n < Len(output) THEN Has(SubSeq(output, 1, n), x)
                    ELSE Has(output, x) \/ Has(SubSeq(data, 1, n - Len(output)), x)
  <2>1. n \in 0..(Len(output) + Len(data))
    BY <1>1, <1>2
  <2>2. Has(SubSeq(output \o data, 1, n), x) <=>
          IF n < Len(output) THEN Has(SubSeq(output, 1, n), x)
          ELSE Has(output, x) \/ Has(SubSeq(data, 1, n - Len(output)), x)
    BY <1>1, <2>1, HasPrefix
  <2> QED BY <1>2, <1>4, <2>2
<1>7. CASE n < Len(output)
  <2>1. n \in 0..Len(output)
    BY <1>1, <1>2, <1>7
  <2>2. Has(output, x) <=> Has(SubSeq(output, 1, n), x) \/ Has(Drop(output, n), x)
    BY <1>1, <2>1, HasSplit
  <2>3. PICK rest \in Seq(T) : rest = Drop(output, n)
    BY <1>1, <2>1, DropFacts
  <2>4. Has(output', x) <=> Has(rest, x) \/ Has(data, x)
    BY <1>2, <1>3, <1>7, <2>3, HasConcat
  <2> QED BY <1>2, <1>5, <1>6, <1>7, <2>2, <2>3, <2>4
<1>8. CASE ~(n < Len(output))
  <2>1. n - Len(output) \in 0..Len(data)
    BY <1>1, <1>2, <1>8
  <2>2. Has(data, x) <=> Has(SubSeq(data, 1, n - Len(output)), x)
                         \/ Has(Drop(data, n - Len(output)), x)
    BY <1>2, <2>1, HasSplit
  <2>3. PICK rest \in Seq(T) : rest = Drop(data, n - Len(output))
    BY <1>2, <2>1, DropFacts
  <2>4. Has(output', x) <=> Has(output, x) \/ Has(rest, x)
    BY <1>1, <1>3, <1>8, <2>3, HasConcat
  <2> QED BY <1>2, <1>5, <1>6, <1>8, <2>2, <2>3, <2>4
<1> QED BY <1>7, <1>8

LEMMA NextNothingLost ==
  ASSUME TypeOK, NothingLost, [Next]_vars
  PROVE  NothingLost'
<1>0. /\ NothingLost <=> \A x \in 1..sent : Has(wire, x) \/ Has(output, x)
      /\ NothingLost' <=> \A x \in 1..sent' : Has(wire', x) \/ Has(output', x)
      /\ sent \in Nat /\ wire \in Seq(1..sent) /\ output \in Seq(1..sent)
  BY DEF NothingLost, Has, TypeOK
<1>1. ASSUME NEW k \in Chunks, NEW vec \in BOOLEAN, SendDirect(k, vec)
      PROVE  NothingLost'
  <2>1. /\ k \in Nat \ {0} /\ sent' = sent + k /\ output = << >>
        /\ output' \in Seq(1..sent') /\ wire' \in Seq(1..sent')
        /\ wire' \o output' = wire \o NewBytes(k)
    BY <1>1, SendDirectBytes, SendDirectTypeOK, ConstantsAssumption DEF TypeOK
  <2>2. wire \in Seq(1..sent') /\ NewBytes(k) \in Seq(1..sent')
    <3>1. 1..sent \subseteq 1..sent'
      BY <1>0, <2>1
    <3>2. wire \in Seq(1..sent')
      BY <1>0, <3>1, SeqMonotone
    <3>3. NewBytes(k) \in Seq(1..(sent + k))
      BY <1>0, <2>1, NewBytesFacts
    <3> QED BY <2>1, <3>2, <3>3
  <2>3. SUFFICES ASSUME NEW x \in 1..sent'
                 PROVE  Has(wire', x) \/ Has(output', x)
    BY <1>0
  <2>4. Has(wire, x) \/ Has(NewBytes(k), x)
    <3>1. CASE x \in 1..sent
      BY <1>0, <2>1, <3>1 DEF Has
    <3>2. CASE x \in (sent + 1)..(sent + k)
      BY <1>0, <2>1, <3>2, NewBytesHas
    <3> QED BY <1>0, <2>1, <3>1, <3>2
  <2>5. Has(wire \o NewBytes(k), x)
    BY <2>2, <2>4, HasConcat
  <2>6. Has(wire' \o output', x) <=> Has(wire', x) \/ Has(output', x)
    BY <2>1, HasConcat
  <2> QED BY <2>1, <2>5, <2>6
<1>2. ASSUME NEW k \in Chunks, SendBehindBacklog(k)
      PROVE  NothingLost'
  <2>1. k \in Nat \ {0} /\ sent' = sent + k
    BY <1>2, SendBehindBytes, ConstantsAssumption
  <2>2. SUFFICES ASSUME NEW x \in 1..sent'
                 PROVE  Has(wire', x) \/ Has(output', x)
    BY <1>0
  <2>3. Has(wire, x) \/ Has(output, x) \/ Has(NewBytes(k), x)
    <3>1. CASE x \in 1..sent
      BY <1>0, <3>1
    <3>2. CASE x \in (sent + 1)..(sent + k)
      BY <1>0, <2>1, <3>2, NewBytesHas
    <3> QED BY <1>0, <2>1, <3>1, <3>2
  <2> QED BY <1>2, <2>1, <2>3, SendBehindKeepsBytes
<1>3. ASSUME HandleWrite
      PROVE  NothingLost'
  <2>1. /\ sent' = sent /\ wire' \o output' = wire \o output
        /\ wire' \in Seq(1..sent) /\ output' \in Seq(1..sent)
    BY <1>3, HandleWriteBytes, HandleWriteTypeOK DEF TypeOK
  <2>2. SUFFICES ASSUME NEW x \in 1..sent
                 PROVE  Has(wire', x) \/ Has(output', x)
    BY <1>0, <2>1
  <2>3. Has(wire \o output, x)
    BY <1>0, HasConcat
  <2>4. Has(wire' \o output', x) <=> Has(wire', x) \/ Has(output', x)
    BY <2>1, HasConcat
  <2> QED BY <2>1, <2>3, <2>4
<1>4. ASSUME UNCHANGED <<wire, output, sent>>
      PROVE  NothingLost'
  BY <1>4 DEF NothingLost
<1> QED
  BY <1>1, <1>2, <1>3, <1>4
     DEF Next, Send, LoopStep, Shutdown, TimeoutFires, Dispatch, HandleError,
         ReadData, ReadEnd, NothingToRead, MessageReturns, NothingToWrite,
         HandleHup, PeerTakes, PeerSends, PeerFinishes, PeerResets,
         PeerUnchanged, vars, sendVars, socketVars

-----------------------------------------------------------------------------
(* The theorems.                                                           *)

LEMMA InitIInv == Init => IInv
<1> SUFFICES ASSUME Init PROVE IInv
  OBVIOUS
<1> USE DEF Init
<1>1. << >> \in Seq(1..sent) /\ Len(<< >>) = 0
  BY EmptySeq
<1>2. TypeOK
  <2>1. output \in Seq(1..sent) /\ wire \in Seq(1..sent) /\ Len(wire) = 0
    BY <1>1
  <2>2. taken \in 0..Len(wire) /\ Len(wire) - taken <= SndBuf
    BY <2>1, ConstantsAssumption
  <2>3. /\ writing \in BOOLEAN /\ registered \in BOOLEAN /\ timer \in BOOLEAN
        /\ expired \in BOOLEAN /\ fin \in BOOLEAN /\ sockerr \in BOOLEAN
        /\ killed \in BOOLEAN /\ behind \in BOOLEAN /\ late \in BOOLEAN
    BY Zenon
  <2>4. /\ events \in SUBSET {"in", "out"} /\ registered_events \in SUBSET events
        /\ revents \in SUBSET {"err", "in", "out", "hup"}
    OBVIOUS
  <2>5. /\ state \in {"connected", "disconnected"}
        /\ pc \in {"poll", "err", "in", "message", "out", "hup"}
        /\ peer \in {"open", "fin", "reset"}
    OBVIOUS
  <2>6. sent \in Nat /\ closes \in Nat /\ inbound \in Nat /\ received \in Nat
    OBVIOUS
  <2> HIDE DEF Init
  <2> QED BY <2>1, <2>2, <2>3, <2>4, <2>5, <2>6 DEF TypeOK
<1>3. BacklogIsWatched /\ ClosedOnce /\ ClosedIsQuiet
  BY DEF BacklogIsWatched, ClosedOnce, ClosedIsQuiet
<1>4. IntactUnlessBehind
  <2>1. wire \o output = << >>
    BY <1>1, ConcatEmptySeq
  <2>2. [i \in 1..sent |-> i] = << >>
    <3>1. [i \in 1..sent |-> i] \in Seq(Nat) /\ Len([i \in 1..sent |-> i]) = 0
      OBVIOUS
    <3> QED BY <3>1, EmptyIffLen
  <2> QED BY <2>1, <2>2 DEF IntactUnlessBehind, StreamIntact
<1>5. NothingLost
  BY DEF NothingLost
<1> QED BY <1>2, <1>3, <1>4, <1>5 DEF IInv

(* TypeOK; in particular a partial write never takes more than SndBuf.      *)
THEOREM TypeCorrect == Spec => []TypeOK
<1>1. Init => TypeOK
  BY InitIInv DEF IInv
<1>2. TypeOK /\ [Next]_vars => TypeOK'
  BY NextTypeOK
<1> QED BY <1>1, <1>2, PTL DEF Spec

(* The strengthened invariant of the connection.                            *)
THEOREM Invariance == Spec => []IInv
<1>1. IInv /\ [Next]_vars => IInv'
  BY NextTypeOK, NextControl, NextIntact, NextNothingLost DEF IInv, Control
<1> QED BY InitIInv, <1>1, PTL DEF Spec

(* While connected, EPOLLOUT is watched exactly while output_ holds bytes.  *)
THEOREM BacklogWatched == Spec => []BacklogIsWatched
<1>1. IInv => BacklogIsWatched
  BY DEF IInv
<1> QED BY Invariance, <1>1, PTL

(* The close callback runs at most once.                                    *)
THEOREM ClosesOnce == Spec => []ClosedOnce
<1>1. IInv => ClosedOnce
  BY DEF IInv
<1> QED BY Invariance, <1>1, PTL

(* A closed connection nobody sends on stays out of the poller.             *)
THEOREM ClosedStaysOut == Spec => []ClosedIsUnregistered
<1>1. IInv => ClosedIsUnregistered
  BY DEF IInv, ClosedIsQuiet, ClosedIsUnregistered
<1> QED BY Invariance, <1>1, PTL

(* The byte stream is intact if no Send ever finds bytes in output_.        *)
THEOREM IntactWithoutBacklog == Spec => []IntactUnlessBehind
<1>1. IInv => IntactUnlessBehind
  BY DEF IInv
<1> QED BY Invariance, <1>1, PTL

(* The slow path of Send may repeat bytes, but it never loses one.          *)
THEOREM NoByteIsLost == Spec => []NothingLost
<1>1. IInv => NothingLost
  BY DEF IInv
<1> QED BY Invariance, <1>1, PTL
=============================================================================
