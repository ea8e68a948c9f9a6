----------------------------- MODULE HttpServer -----------------------------
(***************************************************************************)
(* One connection of netx::HttpServer (src/http_server.cc) with HttpParser *)
(* (src/http_parser.cc) and the connection's input Buffer.  A client sends *)
(* pipelined requests; the kernel cuts their bytes into segments.          *)
(*                                                                         *)
(* A unit of the stream is a line or a unit of a body.  A line that has    *)
(* not arrived completely is one that has not arrived: the parser consumes *)
(* nothing of it.  Body units hold no carriage return, so the parser, when *)
(* it takes them for a line, reads on to the end of the line behind them.  *)
(*                                                                         *)
(* A request line cannot be read off a header ("bad request line" is       *)
(* thrown: no header here has two spaces); body units in front of a        *)
(* request line make its method unknown.                                   *)
(***************************************************************************)
EXTENDS Buffer

CONSTANTS
  Request,   \* requests a client may send: [kind, keep, body]
  Initial,   \* initial size of the input buffer
  MaxReq     \* bound: requests on the connection

ASSUME HttpAssumption ==
  /\ Request \subseteq [kind : {"static", "echo", "route", "missing"},
                        keep : BOOLEAN, body : Nat]
  /\ Initial \in Nat /\ MaxReq \in Nat

VARIABLES
  requests,   \* what the client has sent
  stream,     \* its units
  received,   \* units read so far
  buf,        \* input_
  pc,         \* "read", "parse", or the end: "thrown" or "killed"
  fin,        \* Shutdown was called
  responses,  \* history: responses sent
  split,      \* history: Parse consumed lines and returned false
  left        \* history: OnMessage returned after a static response

httpVars == <<requests, stream, received, buf, pc, fin, responses, split, left>>

-----------------------------------------------------------------------------
(* What the client sends.                                                  *)

Unit(k, i) == [kind |-> k, req |-> i]

\* The units of r, as the i-th request.
Units(r, i) ==
  <<Unit("line", i)>>
  \o (IF r.body > 0 THEN <<Unit("length", i)>> ELSE << >>)
  \o (IF r.keep THEN << >> ELSE <<Unit("close", i)>>)
  \o <<Unit("blank", i)>>
  \o [j \in 1..r.body |-> Unit("body", i)]

-----------------------------------------------------------------------------
(* HttpParser::Parse on the readable units c.                              *)

First(S) == CHOOSE i \in S : \A j \in S : i <= j

\* A line ends at i, and is nothing but that unit.
LineEnd(c, i) == c[i].kind # "body"
Clean(c, i) == LineEnd(c, i) /\ (i > 1 => LineEnd(c, i - 1))

LineEnds(c) == {i \in DOMAIN c : LineEnd(c, i)}
BlankLines(c) == {i \in LineEnds(c) : c[i].kind = "blank" /\ Clean(c, i) /\ i > First(LineEnds(c))}

\* The units up to the last line that has arrived.
Lines(c) == First({n \in 0..Len(c) : \A i \in DOMAIN c : i > n => ~LineEnd(c, i)})

\* The headers of kind k that count: no body units in front of them.
Headers(c, k) ==
  {i \in LineEnds(c) : /\ First(LineEnds(c)) < i /\ i < First(BlankLines(c))
                       /\ c[i].kind = k /\ Clean(c, i)}

ContentLength(c) ==
  LET hs == Headers(c, "length")
  IN IF hs = {} THEN 0
     ELSE requests[c[CHOOSE i \in hs : \A j \in hs : j <= i].req].body

More(n) == [outcome |-> "more", taken |-> n]

\* The request line is consumed, then each header, before the next is looked
\* for; the body stays in the buffer.
Parse(c) ==
  IF LineEnds(c) = {} THEN More(0)
  ELSE IF c[First(LineEnds(c))].kind # "line" THEN [outcome |-> "throw", taken |-> 0]
  ELSE IF BlankLines(c) = {} THEN More(Lines(c))
  ELSE LET head == First(BlankLines(c))
           n == ContentLength(c)
       IN IF Len(c) - head < n THEN More(head)
          ELSE [outcome |-> "done", taken |-> head,
                req |-> c[First(LineEnds(c))].req,
                garbled |-> First(LineEnds(c)) > 1,
                keep |-> Headers(c, "close") = {},
                body |-> SubSeq(c, head + 1, head + n)]

-----------------------------------------------------------------------------
Init ==
  /\ requests = << >> /\ stream = << >>
  /\ received = 0 /\ buf = NewBuffer(Initial)
  /\ pc = "read" /\ fin = FALSE
  /\ responses = << >> /\ split = FALSE /\ left = FALSE

\* The client sends a request, without waiting for answers.
SendRequest(r) ==
  /\ pc \in {"read", "parse"} /\ Len(requests) < MaxReq
  /\ requests' = Append(requests, r)
  /\ stream' = stream \o Units(r, Len(requests) + 1)
  /\ UNCHANGED <<received, buf, pc, fin, responses, split, left>>

\* HandleRead: one readv, then the message callback.
HandleRead(n) ==
  /\ pc = "read"
  /\ n <= Len(stream) - received /\ n <= ReadLimit(buf)
  /\ buf' = ReadFd(buf, SubSeq(stream, received + 1, received + n))
  /\ received' = received + n
  /\ pc' = "parse" /\ left' = FALSE
  /\ UNCHANGED <<requests, stream, fin, responses, split>>

\* Parse returns false: OnMessage returns, what was consumed is forgotten.
ReturnForMore ==
  /\ pc = "parse" /\ Parse(Content(buf)).outcome = "more"
  /\ buf' = Retrieve(buf, Parse(Content(buf)).taken)
  /\ split' = (split \/ Parse(Content(buf)).taken > 0)
  /\ pc' = "read"
  /\ UNCHANGED <<requests, stream, received, fin, responses, left>>

\* "bad request line": nobody catches it.
Throw ==
  /\ pc = "parse" /\ Parse(Content(buf)).outcome = "throw"
  /\ pc' = "thrown"
  /\ UNCHANGED <<requests, stream, received, buf, fin, responses, split, left>>

\* The route of a parsed request; an unknown method has none.
RouteOf(p) == IF p.garbled THEN "missing" ELSE requests[p.req].kind

\* Send or SendVec, then Shutdown for a request that does not keep alive.
\* After Shutdown the write raises SIGPIPE.
Respond(p, kind, body, next) ==
  IF fin THEN pc' = "killed" /\ UNCHANGED <<fin, responses>>
  ELSE /\ responses' = Append(responses, [req |-> p.req, kind |-> kind, body |-> body])
       /\ fin' = ~p.keep /\ pc' = next

\* GET on "/" or a static path: OnMessage returns.  No body is consumed.
ServeStatic ==
  /\ pc = "parse"
  /\ LET p == Parse(Content(buf))
     IN /\ p.outcome = "done" /\ RouteOf(p) = "static"
        /\ buf' = Retrieve(buf, p.taken)
        /\ Respond(p, "static", << >>, "read")
  /\ left' = TRUE
  /\ UNCHANGED <<requests, stream, received, split>>

\* Mutant of ServeEcho: the body is not consumed.
ServeEchoKeepsBody ==
  /\ pc = "parse"
  /\ LET p == Parse(Content(buf))
     IN /\ p.outcome = "done" /\ RouteOf(p) = "echo"
        /\ buf' = Retrieve(buf, p.taken)
        /\ Respond(p, "echo", p.body, "parse")
  /\ UNCHANGED <<requests, stream, received, split, left>>

\* POST /echo: the body goes back, and is consumed; then the next request.
ServeEcho ==
  /\ pc = "parse"
  /\ LET p == Parse(Content(buf))
     IN /\ p.outcome = "done" /\ RouteOf(p) = "echo"
        /\ buf' = Retrieve(Retrieve(buf, p.taken), Len(p.body))
        /\ Respond(p, "echo", p.body, "parse")
  /\ UNCHANGED <<requests, stream, received, split, left>>

\* Mutant of ServeRoute: it returns like the static routes.
ServeRouteOnce ==
  /\ pc = "parse"
  /\ LET p == Parse(Content(buf))
     IN /\ p.outcome = "done" /\ RouteOf(p) \in {"route", "missing"}
        /\ buf' = Retrieve(Retrieve(buf, p.taken), Len(p.body))
        /\ Respond(p, RouteOf(p), << >>, "read")
  /\ UNCHANGED <<requests, stream, received, split, left>>

\* A registered handler, or 404.
ServeRoute ==
  /\ pc = "parse"
  /\ LET p == Parse(Content(buf))
     IN /\ p.outcome = "done" /\ RouteOf(p) \in {"route", "missing"}
        /\ buf' = Retrieve(Retrieve(buf, p.taken), Len(p.body))
        /\ Respond(p, RouteOf(p), << >>, "parse")
  /\ UNCHANGED <<requests, stream, received, split, left>>

Next == \/ \E r \in Request : SendRequest(r)
        \/ \E n \in 1..Len(stream) : HandleRead(n)
        \/ ReturnForMore \/ Throw
        \/ ServeStatic \/ ServeEcho \/ ServeRoute

Spec == Init /\ [][Next]_httpVars

-----------------------------------------------------------------------------
UnitType == [kind : {"line", "length", "close", "blank", "body"}, req : Nat]

TypeOK ==
  /\ requests \in Seq(Request) /\ stream \in Seq(UnitType)
  /\ received \in 0..Len(stream)
  /\ IsBuffer(buf, UnitType \cup {Blank})
  /\ pc \in {"read", "parse", "thrown", "killed"} /\ fin \in BOOLEAN
  /\ responses \in Seq([req : Nat, kind : {"static", "echo", "route", "missing"},
                        body : Seq(UnitType)])
  /\ split \in BOOLEAN /\ left \in BOOLEAN

(* The readable part of the buffer is the unread end of what was received,  *)
(* in order and with nothing lost, however read_fd, retrieve and make_space *)
(* moved it between the pooled block, extrabuf and the heap (buffer.cc      *)
(* 91-177).                                                                *)
HoldsStream ==
  /\ Readable(buf) <= received
  /\ \A i \in 0..(Readable(buf) - 1) :
       buf.store[buf.reader + i] = stream[received - Readable(buf) + i + 1]

(* As long as no segment ended inside the head or the body of a request,    *)
(* requests are answered once each, in order, by their route and with their *)
(* own body, and no exception leaves OnMessage (http_server.cc 32-233).  A  *)
(* request after one that closes kills the process.                        *)
AnswersInOrder ==
  ~split =>
    /\ pc # "thrown"
    /\ \A k \in DOMAIN responses :
         responses[k] = [req |-> k, kind |-> requests[k].kind,
                         body |-> IF requests[k].kind = "echo"
                                  THEN [j \in 1..requests[k].body |-> Unit("body", k)]
                                  ELSE << >>]
    /\ pc = "killed" => ~requests[Len(responses)].keep

(* When the server waits for data, no complete request waits in the buffer, *)
(* except behind a static response, whose route leaves OnMessage (lines 65  *)
(* and 76) until more data comes.                                          *)
NothingWaits ==
  pc = "read" /\ ~left => Parse(Content(buf)).outcome = "more"
=============================================================================
