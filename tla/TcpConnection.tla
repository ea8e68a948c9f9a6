--------------------------- MODULE TcpConnection ---------------------------
(***************************************************************************)
(* netx::TcpConnection with its Channel (src/tcp_connection.cc,            *)
(* src/channel.cc, EventLoop::UpdateChannel/RemoveChannel): one connection *)
(* on one loop thread, its socket, its peer, and the threads that send.    *)
(*                                                                         *)
(* `pc` is "poll" while the loop thread is outside this connection's       *)
(* handlers; a batch that contains its descriptor walks through            *)
(* HandleEventGuarded: "err", "in", "out", "hup", with "message" while the *)
(* message callback runs.  SendInLoop runs at "poll" (a queued task, a     *)
(* timer or another connection's callback) or at "message".                *)
(*                                                                         *)
(* Abstractions.  The k-th byte handed to SendInLoop is the number k.  The *)
(* socket accepts as many bytes as fit in SndBuf.  Writing on a socket     *)
(* that was shut down or reset fails with its pending error, if it has one *)
(* that is not EPIPE, and otherwise raises SIGPIPE; nothing in the         *)
(* repository ignores or blocks that signal, so the process is killed.     *)
(***************************************************************************)
EXTENDS Naturals, Sequences

CONSTANTS
  SndBuf,             \* capacity of the socket's send buffer
  MaxBytes,           \* bound on the bytes handed to Send
  Chunks,             \* lengths of one Send
  MaxIn               \* bound on the bytes the peer sends

ASSUME ConstantsAssumption ==
  /\ SndBuf \in Nat \ {0} /\ MaxBytes \in Nat /\ MaxIn \in Nat
  /\ Chunks \subseteq Nat \ {0}

VARIABLES
  state,              \* "connected" or "disconnected"
  output,             \* output_: bytes waiting for EPOLLOUT
  writing,            \* writing_
  events,             \* Channel::events_: subset of {"in", "out"}
  registered,         \* Channel::registered_, what the poller has as well
  registered_events,
  timer,              \* is the idle timer in the wheel?
  pc,
  revents,            \* events of the current batch for this descriptor
  sent,               \* number of bytes handed to SendInLoop
  closes,             \* number of close callbacks
  behind,             \* history: a Send has found bytes in output_
  late,               \* history: a Send has run after HandleClose
  expired,            \* history: the idle timer has fired
  wire,               \* all bytes the socket has accepted
  taken,              \* number of them the peer has taken
  fin,                \* has shutdown(SHUT_WR) been called?
  peer,               \* "open", "fin" or "reset"
  sockerr,            \* an error is pending on the socket
  inbound,            \* bytes from the peer not read yet
  received,           \* number of bytes the peer has sent
  killed              \* SIGPIPE ended the process

channelVars == <<events, registered, registered_events>>
sendVars    == <<output, writing, sent, behind, late>>
socketVars  == <<wire, taken, fin, peer, sockerr, inbound, received, killed>>
vars == <<state, channelVars, sendVars, timer, pc, revents, closes, expired,
          socketVars>>

\* The constructor and NewConnectionInLoop: reading enabled, timeout armed.
Init ==
  /\ state = "connected" /\ output = << >> /\ writing = FALSE
  /\ events = {"in"} /\ registered = TRUE /\ registered_events = {"in"}
  /\ timer = TRUE /\ expired = FALSE
  /\ pc = "poll" /\ revents = {} /\ sent = 0 /\ closes = 0
  /\ behind = FALSE /\ late = FALSE
  /\ wire = << >> /\ taken = 0 /\ fin = FALSE /\ peer = "open"
  /\ sockerr = FALSE /\ inbound = 0 /\ received = 0 /\ killed = FALSE

-----------------------------------------------------------------------------
(* The socket.                                                             *)

Room == SndBuf - (Len(wire) - taken)
Broken == fin \/ peer = "reset"

\* write(2)/writev(2) of the bytes in s: how many it takes (0 for an error).
Accepted(s) == IF Broken THEN 0 ELSE IF Len(s) < Room THEN Len(s) ELSE Room

Write(s) ==
  /\ wire' = wire \o SubSeq(s, 1, Accepted(s))
  /\ killed' \in IF Broken THEN {~sockerr, TRUE} ELSE {FALSE}
  /\ sockerr' = FALSE
  /\ UNCHANGED <<taken, fin, peer, inbound, received>>

\* Mutant of Drop: the index is off by one.
DropOneMore(s, n) == SubSeq(s, n + 2, Len(s))

Drop(s, n) == SubSeq(s, n + 1, Len(s))

-----------------------------------------------------------------------------
(* Channel::update and EventLoop::UpdateChannel, with the interest set e   *)
(* (never empty here: reading is never disabled).                          *)

\* Mutant of Watch: events_ keeps its old value.
WatchUnrecorded(e) == /\ UNCHANGED events
                      /\ registered' = TRUE
                      /\ registered_events' = e

Watch(e) == /\ events' = e
            /\ registered' = TRUE
            /\ registered_events' = e

\* Mutant of EnableWriting: EPOLLOUT is not asked for.
WritingNotEnabled == UNCHANGED channelVars

EnableWriting  == Watch(events \cup {"out"})
DisableWriting == Watch(events \ {"out"})

-----------------------------------------------------------------------------
(* Sending.                                                                *)

MaySend == ~killed /\ pc \in {"poll", "message"}

NewBytes(k) == [i \in 1..k |-> sent + i]

Count(k) == /\ sent' = sent + k
            /\ late' = (late \/ state = "disconnected")

\* Fast path of SendInLoop and SendVecInLoop: nothing is waiting, write at
\* once and keep the rest.  SendVecInLoop also disables writing when all went.
SendDirect(k, vec) ==
  LET data == NewBytes(k)
      n == Accepted(data)
  IN /\ MaySend /\ ~writing /\ output = << >>
     /\ Write(data)
     /\ output' = Drop(data, n)
     /\ IF n < k THEN writing' = TRUE /\ EnableWriting
        ELSE /\ writing' = writing
             /\ IF vec THEN DisableWriting ELSE UNCHANGED channelVars
     /\ Count(k)
     /\ UNCHANGED <<state, timer, pc, revents, closes, expired, behind>>

\* Mutant of SendBehindBacklog: the new data is dropped when the writev did
\* not get past output_.
SendLosesData(k) ==
  LET data == NewBytes(k)
      old == Len(output)
      n == Accepted(output \o data)
  IN /\ MaySend /\ (writing \/ output # << >>)
     /\ Write(output \o data)
     /\ output' = IF n < old THEN Drop(output, n)
                  ELSE output \o Drop(data, n - old)
     /\ IF n < old + k THEN writing' = TRUE /\ EnableWriting
        ELSE UNCHANGED <<writing, channelVars>>
     /\ Count(k) /\ behind' = (behind \/ output # << >>)
     /\ UNCHANGED <<state, timer, pc, revents, closes, expired>>

\* Slow path of SendInLoop (183-214) and of SendVecInLoop (253-296), which
\* differ only in the second splitting the new data in two: one writev of
\* output_ and the new data.  When it takes all of output_ the code appends
\* what is left of the new data but never retrieves the old bytes, so output_
\* is not empty and writing_ stays set.
SendBehindBacklog(k) ==
  LET data == NewBytes(k)
      old == Len(output)
      n == Accepted(output \o data)
  IN /\ MaySend /\ (writing \/ output # << >>)
     /\ Write(output \o data)
     /\ output' = IF n < old THEN Drop(output, n) \o data
                  ELSE output \o Drop(data, n - old)
     /\ IF n < old + k THEN writing' = TRUE /\ EnableWriting
        ELSE UNCHANGED <<writing, channelVars>>
     /\ Count(k) /\ behind' = (behind \/ output # << >>)
     /\ UNCHANGED <<state, timer, pc, revents, closes, expired>>

\* Shutdown, from any thread: FIN at once, whatever output_ holds.
Shutdown ==
  /\ ~killed
  /\ fin' = TRUE
  /\ UNCHANGED <<state, channelVars, sendVars, timer, pc, revents, closes,
                 expired, wire, taken, peer, sockerr, inbound, received,
                 killed>>

\* The idle timer's callback: it only calls Shutdown.
TimeoutFires ==
  /\ ~killed /\ pc = "poll" /\ timer
  /\ timer' = FALSE
  /\ expired' = TRUE
  /\ fin' = TRUE
  /\ UNCHANGED <<state, channelVars, sendVars, pc, revents, closes, wire,
                 taken, peer, sockerr, inbound, received, killed>>

-----------------------------------------------------------------------------
(* HandleEventGuarded.                                                     *)

\* What a level-triggered epoll_wait reports for the descriptor.
Readable == inbound > 0 \/ peer # "open"
Ready == {e \in {"err", "in", "out", "hup"} :
            \/ e = "err" /\ sockerr
            \/ e = "in" /\ Readable
            \/ e = "out" /\ "out" \in registered_events /\ (Room > 0 \/ Broken)
            \/ e = "hup" /\ (peer = "reset" \/ (peer = "fin" /\ fin))}

Dispatch ==
  /\ ~killed /\ pc = "poll"
  /\ registered /\ Ready # {}
  /\ revents' = Ready
  /\ pc' = "err"
  /\ UNCHANGED <<state, channelVars, sendVars, timer, closes, expired,
                 socketVars>>

\* Mutants of HandleClose: no early return; the channel is not removed.
HandleCloseUnguarded ==
  /\ state' = "disconnected"
  /\ registered' = FALSE /\ registered_events' = {} /\ events' = events
  /\ writing' = FALSE /\ timer' = FALSE
  /\ closes' = closes + 1

HandleCloseRegistered ==
  IF state = "disconnected"
  THEN UNCHANGED <<state, channelVars, writing, timer, closes>>
  ELSE /\ state' = "disconnected"
       /\ UNCHANGED channelVars
       /\ writing' = FALSE /\ timer' = FALSE
       /\ closes' = closes + 1

HandleClose ==
  IF state = "disconnected"
  THEN UNCHANGED <<state, channelVars, writing, timer, closes>>
  ELSE /\ state' = "disconnected"
       /\ registered' = FALSE /\ registered_events' = {} /\ events' = events
       /\ writing' = FALSE
       /\ timer' = FALSE
       /\ closes' = closes + 1

StayOpen == UNCHANGED <<state, channelVars, writing, timer, closes>>

HandleError ==
  /\ ~killed /\ pc = "err"
  /\ IF "err" \in revents THEN HandleClose ELSE StayOpen
  /\ pc' = "in"
  /\ UNCHANGED <<output, sent, behind, late, revents, expired, socketVars>>

\* HandleRead, n > 0: ResetTimeout, then the message callback.
ReadData ==
  /\ ~killed /\ pc = "in" /\ "in" \in revents /\ inbound > 0
  /\ inbound' = 0
  /\ timer' = TRUE
  /\ pc' = "message"
  /\ UNCHANGED <<state, channelVars, sendVars, revents, closes, expired, wire,
                 taken, fin, peer, sockerr, received, killed>>

\* HandleRead, n = 0 or an error (which read reports and clears).
ReadEnd ==
  /\ ~killed /\ pc = "in" /\ "in" \in revents /\ inbound = 0
  /\ IF peer # "open" THEN HandleClose ELSE StayOpen
  /\ sockerr' = FALSE
  /\ pc' = "out"
  /\ UNCHANGED <<output, sent, behind, late, revents, expired, wire, taken,
                 fin, peer, inbound, received, killed>>

NothingToRead ==
  /\ ~killed /\ pc = "in" /\ "in" \notin revents
  /\ pc' = "out"
  /\ UNCHANGED <<state, channelVars, sendVars, timer, revents, closes,
                 expired, socketVars>>

MessageReturns ==
  /\ ~killed /\ pc = "message"
  /\ pc' = "out"
  /\ UNCHANGED <<state, channelVars, sendVars, timer, revents, closes,
                 expired, socketVars>>

\* HandleWrite: one write; stop watching when output_ is drained.
HandleWrite ==
  /\ ~killed /\ pc = "out" /\ "out" \in revents /\ writing
  /\ Write(output)
  /\ output' = Drop(output, Accepted(output))
  /\ IF Broken THEN HandleClose
     ELSE /\ IF output' = << >> THEN writing' = FALSE /\ DisableWriting
             ELSE UNCHANGED <<writing, channelVars>>
          /\ UNCHANGED <<state, timer, closes>>
  /\ pc' = "hup"
  /\ UNCHANGED <<sent, behind, late, revents, expired>>

NothingToWrite ==
  /\ ~killed /\ pc = "out" /\ ~("out" \in revents /\ writing)
  /\ pc' = "hup"
  /\ UNCHANGED <<state, channelVars, sendVars, timer, revents, closes,
                 expired, socketVars>>

HandleHup ==
  /\ ~killed /\ pc = "hup"
  /\ IF "hup" \in revents THEN HandleClose ELSE StayOpen
  /\ revents' = {}
  /\ pc' = "poll"
  /\ UNCHANGED <<output, sent, behind, late, expired, socketVars>>

-----------------------------------------------------------------------------
(* The peer.                                                               *)

PeerUnchanged == UNCHANGED <<state, channelVars, sendVars, timer, pc, revents,
                             closes, expired, wire, fin, killed>>

PeerTakes ==
  /\ peer # "reset" /\ taken < Len(wire)
  /\ taken' = taken + 1
  /\ PeerUnchanged /\ UNCHANGED <<peer, sockerr, inbound, received>>

PeerSends ==
  /\ peer = "open" /\ received < MaxIn
  /\ received' = received + 1
  /\ inbound' = inbound + 1
  /\ PeerUnchanged /\ UNCHANGED <<taken, peer, sockerr>>

PeerFinishes ==
  /\ peer = "open"
  /\ peer' = "fin"
  /\ PeerUnchanged /\ UNCHANGED <<taken, sockerr, inbound, received>>

PeerResets ==
  /\ peer # "reset"
  /\ peer' = "reset" /\ sockerr' = TRUE
  /\ PeerUnchanged /\ UNCHANGED <<taken, inbound, received>>

-----------------------------------------------------------------------------
Send == \E k \in Chunks :
          /\ sent + k <= MaxBytes
          /\ \/ \E vec \in BOOLEAN : SendDirect(k, vec)
             \/ SendBehindBacklog(k)

LoopStep == \/ Dispatch \/ HandleError
            \/ ReadData \/ ReadEnd \/ NothingToRead \/ MessageReturns
            \/ HandleWrite \/ NothingToWrite \/ HandleHup

Next == \/ Send \/ Shutdown \/ TimeoutFires
        \/ LoopStep
        \/ PeerTakes \/ PeerSends \/ PeerFinishes \/ PeerResets

Spec == Init /\ [][Next]_vars

\* The loop thread runs and the peer keeps taking what arrives; nobody owes
\* a Send, a Shutdown, a FIN or a timeout.
Fairness == WF_vars(LoopStep) /\ WF_vars(PeerTakes) /\ WF_vars(TimeoutFires)

FairSpec == Spec /\ Fairness

-----------------------------------------------------------------------------
TypeOK ==
  /\ state \in {"connected", "disconnected"}
  /\ output \in Seq(1..sent) /\ wire \in Seq(1..sent)
  /\ writing \in BOOLEAN /\ registered \in BOOLEAN /\ timer \in BOOLEAN
  /\ events \in SUBSET {"in", "out"} /\ registered_events \in SUBSET events
  /\ pc \in {"poll", "err", "in", "message", "out", "hup"}
  /\ revents \in SUBSET {"err", "in", "out", "hup"}
  /\ sent \in Nat /\ closes \in Nat /\ taken \in 0..Len(wire)
  /\ Len(wire) - taken <= SndBuf
  /\ expired \in BOOLEAN /\ fin \in BOOLEAN /\ sockerr \in BOOLEAN
  /\ peer \in {"open", "fin", "reset"} /\ killed \in BOOLEAN
  /\ inbound \in Nat /\ received \in Nat
  /\ behind \in BOOLEAN /\ late \in BOOLEAN

(* While connected, EPOLLOUT is watched exactly as long as output_ holds    *)
(* bytes (tcp_connection.h:152-154): no byte waits for an event nobody asked *)
(* for, and the loop never spins on an empty buffer.                        *)
BacklogIsWatched ==
  state = "connected" =>
    /\ registered /\ registered_events = events
    /\ writing <=> output # << >>
    /\ writing <=> "out" \in registered_events

(* Every byte handed to Send is on the wire or still in output_, whatever   *)
(* the partial writes in between.                                           *)
NothingLost ==
  \A k \in 1..sent : \/ \E i \in DOMAIN wire : wire[i] = k
                     \/ \E i \in DOMAIN output : output[i] = k

(* ERR, IN and HUP of one batch, and a batch after the close, lead to one   *)
(* close callback: RemoveConnection is queued once per connection.          *)
ClosedOnce == closes <= 1 /\ (closes = 1 <=> state = "disconnected")

(* The byte stream: the socket has got, and output_ still holds, exactly    *)
(* the bytes handed to Send, each once and in order (the data path          *)
(* described at tcp_connection.h:121-123).                                  *)
StreamIntact == wire \o output = [i \in 1..sent |-> i]

(* What partial writes, EPOLLOUT and closes leave true of it: the stream is *)
(* intact as long as every caller waits for output_ to drain.               *)
IntactUnlessBehind == ~behind => StreamIntact

(* A closed connection stays out of the poller (tcp_connection.h:118), also *)
(* when the rest of its last batch is still dispatched to it; the exception *)
(* is a Send that runs after the close and registers the channel again.     *)
ClosedIsUnregistered == state = "disconnected" /\ ~late => ~registered

(* What a closed connection that nobody sends on is like: it cannot come    *)
(* back to the poller.  With it the invariants above are inductive.         *)
ClosedIsQuiet == state = "disconnected" /\ ~late => ~registered /\ ~writing

IInv == /\ TypeOK
        /\ BacklogIsWatched
        /\ ClosedOnce
        /\ ClosedIsQuiet
        /\ IntactUnlessBehind
        /\ NothingLost

(* A backlog drains, or the connection ends, as long as the peer reads.     *)
BacklogDrains ==
  output # << >> /\ state = "connected"
    ~> (output = << >> \/ state = "disconnected" \/ killed)

(* The idle timeout closes the connection (tcp_connection.h:100).           *)
TimeoutCloses == expired ~> (state = "disconnected" \/ killed)
=============================================================================
