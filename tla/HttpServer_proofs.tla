-------------------------- MODULE HttpServer_proofs --------------------------
(***************************************************************************)
(* Proofs about HttpServer, for any number of connections, any sizes and   *)
(* any behaviour of clients and application the module describes.          *)
(*                                                                         *)
(* The inductive invariant has two halves.  ConnsInv speaks of each        *)
(* connection by itself; an action changes the entry of one connection in  *)
(* each variable, so ConnsInv is preserved if the new entry is sound       *)
(* (lemma Update).  ProcInv speaks of the process: its frames, and the     *)
(* event it was given.                                                     *)
(***************************************************************************)
EXTENDS HttpServer, TLAPS, FiniteSetTheorems

-----------------------------------------------------------------------------
(* The operators of Kernel and Connection: each one maps sockets to        *)
(* sockets and requests to requests, and the facts about the fields that   *)
(* the invariance proofs need.                                             *)

\* What is left to parse is in a buffer.
Buffered(r) == r.pending # <<>> => HasBuffer(r)

\* Two requests at the same point of the cycle, but for what they read.
Alike(r, q) == /\ r.state = q.state /\ r.timeout = q.timeout
               /\ r.written = q.written

\* The empty sequence holds fragments.
LEMMA EmptySeq == <<>> \in Seq(Fragment)
OBVIOUS

\* Any system call or event maps sockets to sockets.
LEMMA SocketTypes ==
  ASSUME NEW s \in Socket
  PROVE  /\ EpollCtl(s, "in") \in Socket /\ EpollCtl(s, "out") \in Socket
         /\ ArmTimer(s) \in Socket
         /\ HalfClose(s) \in Socket
         /\ Reset(s) \in Socket
         /\ Expired(s) \in Socket
         /\ Drained(s) \in Socket
         /\ \A q \in Seq(Fragment) : Arrival(s, q) \in Socket
<1>1. EpollCtl(s, "in") \in Socket /\ EpollCtl(s, "out") \in Socket
  BY DEF EpollCtl, Reportable, Socket
<1>2. /\ ArmTimer(s) \in Socket
      /\ HalfClose(s) \in Socket
      /\ Reset(s) \in Socket
      /\ Expired(s) \in Socket
  BY DEF ArmTimer, HalfClose, Reset, Expired, Socket
<1>3. Drained(s) \in Socket
  <2>1. SndBuf \in 0 .. SndBuf
    BY SndBufAssumption
  <2> QED
    BY <2>1 DEF Drained, Socket
<1>4. ASSUME NEW q \in Seq(Fragment)
      PROVE  Arrival(s, q) \in Socket
  <2>1. s.rx \o q \in Seq(Fragment)
    BY DEF Socket
  <2> QED
    BY <2>1 DEF Arrival, Socket
<1> QED
  BY <1>1, <1>2, <1>3, <1>4

\* A closed descriptor and the calloc'ed request have their types.
LEMMA InitTypes == NewSocket \in Socket /\ RequestInit \in Request
<1>1. NewSocket \in Socket
  BY SndBufAssumption, EmptySeq DEF NewSocket, Socket
<1>2. 0 \in 0 .. SeqIds - 1
  BY ConnectionAssumption
<1>3. RequestInit \in Request
  BY <1>2, EmptySeq, ConnectionAssumption
  DEF RequestInit, Request, Flag, ParserState
<1> QED
  BY <1>1, <1>3

\* Freeing or initialising the buffer changes the buffer only.
LEMMA BufferTypes ==
  ASSUME NEW r \in Request
  PROVE  /\ BufferFree(r) \in Request /\ Alike(BufferFree(r), r)
         /\ BufferInit(r) \in Request /\ Alike(BufferInit(r), r)
         /\ BufferFree(r).pending = <<>> /\ BufferInit(r).pending = <<>>
<1>1. /\ BufferFree(r) \in Request /\ Alike(BufferFree(r), r)
      /\ BufferFree(r).pending = <<>>
  BY EmptySeq DEF BufferFree, Alike, Request
<1>2. 0 \in 0 .. SeqIds - 1 /\ InitCap \in Nat
  BY ConnectionAssumption
<1>3. /\ BufferInit(r) \in Request /\ Alike(BufferInit(r), r)
      /\ BufferInit(r).pending = <<>>
  BY <1>2, EmptySeq DEF BufferInit, Alike, Request, ParserState
<1> QED
  BY <1>1, <1>3

\* Entering a read puts the request into the READ state with the whole
\* request timeout ahead of it; a request that has a buffer keeps it and the
\* parser's state.
LEMMA EnterReadType ==
  ASSUME NEW r \in Request
  PROVE  /\ EnterRead(r) \in Request
         /\ EnterRead(r).state = "READ"
         /\ EnterRead(r).timeout = REQUEST_TIMEOUT
         /\ EnterRead(r).written = r.written
         /\ Buffered(EnterRead(r))
         /\ HasBuffer(r) => /\ EnterRead(r).pending = r.pending
                            /\ EnterRead(r).pst = r.pst
<1> DEFINE q == [r EXCEPT !.state = "READ", !.timeout = REQUEST_TIMEOUT]
<1>1. /\ q \in Request /\ q.state = "READ" /\ q.timeout = REQUEST_TIMEOUT
      /\ q.pending = r.pending /\ q.pst = r.pst /\ q.cap = r.cap
      /\ q.written = r.written
  BY ConnectionAssumption DEF Request
<1>2. EnterRead(r) = IF HasBuffer(r) THEN q ELSE BufferInit(q)
  BY DEF EnterRead
<1> HIDE DEF q
<1> QED
  BY <1>1, <1>2, BufferTypes DEF Buffered, HasBuffer, Alike

\* Reading keeps the type and all but the buffer.
LEMMA ReadTypes ==
  ASSUME NEW r \in Request
  PROVE  /\ EndRead(r) \in Request /\ Alike(EndRead(r), r)
         /\ Buffered(r) => Buffered(EndRead(r))
         /\ \A q \in Seq(Fragment) : /\ Receive(r, q) \in Request
                                     /\ Alike(Receive(r, q), r)
                                     /\ HasBuffer(r) => Buffered(Receive(r, q))
<1>1. /\ EndRead(r) \in Request /\ Alike(EndRead(r), r)
      /\ Buffered(r) => Buffered(EndRead(r))
  <2>1. (r.gap + 1) % SeqIds \in 0 .. SeqIds - 1
    BY ConnectionAssumption DEF Request
  <2> QED
    BY <2>1 DEF EndRead, Alike, Request, Buffered, HasBuffer
<1>2. ASSUME NEW q \in Seq(Fragment)
      PROVE  /\ Receive(r, q) \in Request
             /\ Alike(Receive(r, q), r)
             /\ HasBuffer(r) => Buffered(Receive(r, q))
  <2> DEFINE t == [r EXCEPT !.len = @ + Len(q), !.pending = @ \o q]
  <2>1. r.pending \o q \in Seq(Fragment) /\ r.len + Len(q) \in Nat
    BY DEF Request
  <2>2. t \in Request /\ Alike(t, r) /\ t.cap = r.cap
    BY <2>1 DEF Request, Alike
  <2>3. Receive(r, q) = GrowBuffer(t)
    BY DEF Receive
  <2> HIDE DEF t
  <2>4. 2 * t.cap \in Nat /\ MaxCap \in Nat \ {0}
    <3>1. t.cap \in Nat
      BY <2>2 DEF Request
    <3>2. \A i \in Nat : 2 * i \in Nat
      OBVIOUS
    <3>3. MaxCap \in Nat \ {0}
      BY ConnectionAssumption
    <3> QED
      BY <3>1, <3>2, <3>3
  <2>5. /\ GrowBuffer(t) \in Request /\ Alike(GrowBuffer(t), t)
        /\ t.cap # 0 => GrowBuffer(t).cap # 0
    <3> DEFINE n == IF 2 * t.cap > MaxCap THEN MaxCap ELSE 2 * t.cap
    <3>1. n \in Nat /\ (t.cap # 0 => n # 0)
      BY <2>2, <2>4 DEF Request
    <3>2. GrowBuffer(t) \in {t, [t EXCEPT !.cap = n]}
      BY DEF GrowBuffer
    <3> HIDE DEF n
    <3> QED
      BY <2>2, <3>1, <3>2 DEF Request, Alike
  <2> QED
    BY <2>2, <2>3, <2>5 DEF Buffered, HasBuffer, Alike
<1> QED
  BY <1>1, <1>2

\* A tick keeps the type as long as there is something to count.
LEMMA CountDownType ==
  ASSUME NEW r \in Request, r.timeout > 0
  PROVE  /\ CountDown(r) \in Request
         /\ CountDown(r).state = r.state
         /\ CountDown(r).written = r.written /\ CountDown(r).len = r.len
         /\ CountDown(r).cap = r.cap /\ CountDown(r).pending = r.pending
         /\ CountDown(r).pst = r.pst
         /\ ~TimedOut(CountDown(r)) => CountDown(r).timeout > 0
<1> DEFINE n == r.timeout - 1
<1>1. n \in Nat /\ (n # 0 => n > 0)
  BY DEF Request
<1>2. CountDown(r) = [r EXCEPT !.timeout = n]
  BY DEF CountDown
<1> HIDE DEF n
<1> QED
  BY <1>1, <1>2 DEF TimedOut, Request

-----------------------------------------------------------------------------
(* The parser.                                                             *)

\* An outcome of the parser for r: a request like r, and a callback.  The
\* last piece of a large body stays in the buffer.
GoodOutcome(r, o) ==
  /\ o.req \in Request /\ Alike(o.req, r) /\ Buffered(o.req)
  /\ o.call = "last" => o.req.pst = "done" /\ o.req.pending # <<>>

\* Whatever the parser state and the rest of the buffer after a token.
LEMMA TokenTypes ==
  ASSUME NEW r \in Request, HasBuffer(r), NEW pst \in ParserState,
         NEW rest \in Seq(Fragment), NEW call
  PROVE  /\ GoodOutcome(r, NoToken(r, pst, rest))
         /\ call # "last" \/ (pst = "done" /\ rest # <<>>) =>
              GoodOutcome(r, Token(r, pst, rest, call))
<1>1. 0 \in 0 .. SeqIds - 1
  BY ConnectionAssumption
<1>2. GoodOutcome(r, NoToken(r, pst, rest))
  BY <1>1 DEF GoodOutcome, Alike, NoToken, Request, Buffered, HasBuffer
<1>3. ASSUME call # "last" \/ (pst = "done" /\ rest # <<>>)
      PROVE  GoodOutcome(r, Token(r, pst, rest, call))
  BY <1>3 DEF GoodOutcome, Alike, Token, Request, Buffered, HasBuffer
<1> QED
  BY <1>2, <1>3

\* Outcomes are the same for requests that are alike.
LEMMA OutcomeTransfer ==
  ASSUME NEW r, NEW q, NEW o, Alike(q, r), GoodOutcome(q, o)
  PROVE  GoodOutcome(r, o)
BY DEF GoodOutcome, Alike

\* The body of a request that fits the buffer.
LEMMA ParseSmallType ==
  ASSUME NEW r \in Request, HasBuffer(r), NEW rest \in Seq(Fragment)
  PROVE  GoodOutcome(r, ParseSmall(r, rest))
BY TokenTypes, EmptySeq DEF ParseSmall, ParserState

\* The beginning of a request.
LEMMA ParseStartType ==
  ASSUME NEW r \in Request, HasBuffer(r),
         NEW f \in Fragment, NEW rest \in Seq(Fragment),
         NEW head \in RequestHead
  PROVE  GoodOutcome(r, ParseStart(r, f, rest, head))
<1> DEFINE q == PushTokens(r, head)
           s == [q EXCEPT !.flags = @ \cup {STREAMED}]
           t == ResizeFor(q, f)
<1>1. q \in Request /\ Alike(q, r) /\ HasBuffer(q)
  <2>1. Append(r.tokens, head) \in Seq(RequestHead)
    BY DEF Request
  <2> QED
    BY <2>1 DEF PushTokens, Request, HasBuffer, Alike
<1>2. ParseStart(r, f, rest, head) =
        CASE f = "get"                 -> Token(s, "nobody", rest, "request")
          [] f = "stream"              -> Token(s, "chunked", rest, "headers")
          [] f = "large"               -> Token(s, "large", rest, "headers")
          [] f \in {"head", "bighead"} -> ParseSmall(t, rest)
          [] OTHER                     -> NoToken(r, "error", rest)
  BY DEF ParseStart
<1> HIDE DEF q
<1>3. s \in Request /\ Alike(s, r) /\ HasBuffer(s)
  <2>1. q.flags \cup {STREAMED} \in SUBSET Flag
    BY <1>1 DEF Request, Flag, STREAMED
  <2> QED
    BY <1>1, <2>1 DEF Request, HasBuffer, Alike
<1>4. t \in Request /\ Alike(t, r) /\ HasBuffer(t)
  <2> DEFINE n == IF f = "bighead" /\ BodyCap > q.cap THEN BodyCap ELSE q.cap
  <2>1. n \in Nat \ {0}
    BY <1>1, ConnectionAssumption DEF Request, HasBuffer
  <2>2. t = [q EXCEPT !.cap = n]
    BY DEF ResizeFor
  <2> HIDE DEF n, t
  <2> QED
    BY <1>1, <2>1, <2>2 DEF Request, HasBuffer, Alike
<1> HIDE DEF s, t
<1>5. \A pst \in ParserState, call \in {"request", "headers"} :
        GoodOutcome(r, Token(s, pst, rest, call))
  BY <1>3, TokenTypes, OutcomeTransfer
<1>6. GoodOutcome(r, ParseSmall(t, rest))
  BY <1>4, ParseSmallType, OutcomeTransfer
<1>7. GoodOutcome(r, NoToken(r, "error", rest))
  BY TokenTypes DEF ParserState
<1> QED
  BY <1>2, <1>5, <1>6, <1>7 DEF ParserState

\* A chunked body.
LEMMA ParseChunkedType ==
  ASSUME NEW r \in Request, HasBuffer(r),
         NEW f \in Fragment, NEW rest \in Seq(Fragment)
  PROVE  GoodOutcome(r, ParseChunked(r, f, rest))
<1>1. \A pst \in ParserState, call \in {"chunk", "end"} :
        GoodOutcome(r, Token(r, pst, rest, call))
  BY TokenTypes
<1>2. GoodOutcome(r, NoToken(r, "error", rest))
  BY TokenTypes DEF ParserState
<1> QED
  BY <1>1, <1>2 DEF ParseChunked, ParserState

\* A large body.
LEMMA ParseLargeType ==
  ASSUME NEW r \in Request, HasBuffer(r), r.pending # <<>>
  PROVE  GoodOutcome(r, ParseLarge(r))
<1> DEFINE q == [r EXCEPT !.len = 1, !.gap = 0]
<1>1. q \in Request /\ Alike(q, r) /\ HasBuffer(q)
  <2>1. 0 \in 0 .. SeqIds - 1
    BY ConnectionAssumption
  <2> QED
    BY <2>1 DEF Request, HasBuffer, Alike
<1>2. r.pending \in Seq(Fragment)
  BY DEF Request
<1>3. GoodOutcome(r, Token(r, "done", r.pending, "last"))
  BY <1>2, TokenTypes DEF ParserState
<1>4. ParseLarge(r) \in {Token(r, "done", r.pending, "last"),
                         Token(q, "large", <<>>, "chunk")}
  BY DEF ParseLarge
<1> HIDE DEF q
<1>5. GoodOutcome(r, Token(q, "large", <<>>, "chunk"))
  BY <1>1, EmptySeq, TokenTypes, OutcomeTransfer DEF ParserState
<1> QED
  BY <1>3, <1>4, <1>5

\* The parser, whatever its state.  A request that was parsed to its end
\* calls nobody again and is left as it is.
LEMMA ParseType ==
  ASSUME NEW r \in Request, Buffered(r), NEW head \in RequestHead
  PROVE  /\ GoodOutcome(r, Parse(r, head))
         /\ r.pst = "done" =>
              Parse(r, head).call = "none" /\ Parse(r, head).req = r
<1>1. CASE r.gap = 0 \/ r.pst = "done"
  <2>1. Parse(r, head) = [req |-> r, call |-> "none"]
    BY <1>1 DEF Parse
  <2> QED
    BY <2>1 DEF GoodOutcome, Alike
<1>2. CASE r.gap # 0 /\ r.pst # "done" /\ r.pending = <<>>
  <2>1. 0 \in 0 .. SeqIds - 1
    BY ConnectionAssumption
  <2> QED
    BY <1>2, <2>1, EmptySeq
    DEF Parse, NoToken, GoodOutcome, Alike, Buffered, Request
<1>3. CASE r.gap # 0 /\ r.pst # "done" /\ r.pending # <<>>
  <2> DEFINE f == Head(r.pending)
             rest == Tail(r.pending)
  <2>1. /\ r.pending \in Seq(Fragment) /\ HasBuffer(r)
        /\ f \in Fragment /\ rest \in Seq(Fragment)
    BY <1>3 DEF Request, Buffered
  <2>2. /\ GoodOutcome(r, ParseStart(r, f, rest, head))
        /\ GoodOutcome(r, ParseSmall(r, r.pending))
        /\ GoodOutcome(r, ParseChunked(r, f, rest))
        /\ GoodOutcome(r, ParseLarge(r))
        /\ GoodOutcome(r, NoToken(r, "error", r.pending))
    BY <1>3, <2>1, ParseStartType, ParseSmallType, ParseChunkedType,
       ParseLargeType, TokenTypes DEF ParserState
  <2>3. Parse(r, head) \in {ParseStart(r, f, rest, head),
                            ParseSmall(r, r.pending),
                            ParseChunked(r, f, rest), ParseLarge(r),
                            NoToken(r, "error", r.pending)}
    BY <1>3 DEF Parse
  <2> QED
    BY <1>3, <2>2, <2>3
<1> QED
  BY <1>1, <1>2, <1>3

-----------------------------------------------------------------------------
(* Responses.                                                              *)

\* Any kind of response: a request in the WRITE state with the same timeout,
\* nothing left to parse and nothing written yet.
LEMMA ResponseTypes ==
  ASSUME NEW r \in Request, NEW n \in Nat
  PROVE  \A q \in {Respond(r, n), RespondChunk(r, n), RespondChunkEnd(r, n)} :
           /\ q \in Request /\ q.timeout = r.timeout
           /\ q.state = "WRITE" /\ q.pending = <<>> /\ q.written = 0
<1>1. ASSUME NEW q \in Request
      PROVE  /\ PerformResponse(q, n) \in Request
             /\ PerformResponse(q, n).timeout = q.timeout
             /\ PerformResponse(q, n).state = "WRITE"
             /\ PerformResponse(q, n).pending = <<>>
             /\ PerformResponse(q, n).written = 0
  <2> DEFINE b == BufferFree(q)
  <2>1. b \in Request /\ b.timeout = q.timeout /\ b.pending = <<>>
    BY BufferTypes DEF Alike
  <2> DEFINE p == [b EXCEPT !.cap = RespCap, !.len = n,
                            !.written = 0, !.state = "WRITE"]
  <2>2. PerformResponse(q, n) = p
    BY DEF PerformResponse
  <2>3. RespCap \in Nat
    BY ConnectionAssumption
  <2> HIDE DEF b
  <2>4. p \in Request
    BY <2>1, <2>3 DEF Request
  <2>5. /\ p.timeout = b.timeout /\ p.state = "WRITE"
        /\ p.pending = b.pending /\ p.written = 0
    BY <2>1 DEF Request
  <2> HIDE DEF p
  <2> QED
    BY <2>1, <2>2, <2>4, <2>5
<1>2. ASSUME NEW q \in Request
      PROVE  /\ SerializeHeaders(q) \in Request
             /\ SerializeHeaders(q).timeout = q.timeout
  BY DEF SerializeHeaders, DetectKeepAlive, Request, Flag
<1>3. ASSUME NEW q \in Request, NEW b \in {"none", "body", "write"},
             NEW fl \in SUBSET Flag
      PROVE  /\ [q EXCEPT !.cb = b] \in Request
             /\ [q EXCEPT !.cb = b].timeout = q.timeout
             /\ [q EXCEPT !.flags = fl] \in Request
             /\ [q EXCEPT !.flags = fl].timeout = q.timeout
  BY DEF Request
<1>4. /\ r.flags \cup {"CHUNKED_RESPONSE"} \in SUBSET Flag
      /\ r.flags \ {"CHUNKED_RESPONSE"} \in SUBSET Flag
  BY DEF Request, Flag
<1>5. /\ Respond(r, n) \in Request /\ Respond(r, n).timeout = r.timeout
      /\ Respond(r, n).state = "WRITE" /\ Respond(r, n).pending = <<>>
      /\ Respond(r, n).written = 0
  BY <1>1, <1>2 DEF Respond
<1>6. /\ RespondChunk(r, n) \in Request
      /\ RespondChunk(r, n).timeout = r.timeout
      /\ RespondChunk(r, n).state = "WRITE"
      /\ RespondChunk(r, n).pending = <<>>
      /\ RespondChunk(r, n).written = 0
  <2> DEFINE f == [r EXCEPT !.flags = @ \cup {"CHUNKED_RESPONSE"}]
             q == IF "CHUNKED_RESPONSE" \in r.flags THEN r
                  ELSE SerializeHeaders(f)
             b == [q EXCEPT !.cb = "write"]
  <2>1. f \in Request /\ f.timeout = r.timeout
    BY <1>3, <1>4
  <2>2. RespondChunk(r, n) = PerformResponse(b, n)
    BY DEF RespondChunk
  <2> HIDE DEF f
  <2>3. q \in Request /\ q.timeout = r.timeout
    BY <1>2, <2>1
  <2> HIDE DEF q
  <2>4. b \in Request /\ b.timeout = r.timeout
    BY <1>3, <2>3
  <2> HIDE DEF b
  <2> QED
    BY <1>1, <2>2, <2>4
<1>7. /\ RespondChunkEnd(r, n) \in Request
      /\ RespondChunkEnd(r, n).timeout = r.timeout
      /\ RespondChunkEnd(r, n).state = "WRITE"
      /\ RespondChunkEnd(r, n).pending = <<>>
      /\ RespondChunkEnd(r, n).written = 0
  <2> DEFINE f == [r EXCEPT !.flags = @ \ {"CHUNKED_RESPONSE"}]
  <2>1. f \in Request /\ f.timeout = r.timeout
    BY <1>3, <1>4
  <2>2. RespondChunkEnd(r, n) = PerformResponse(f, n)
    BY DEF RespondChunkEnd
  <2> HIDE DEF f
  <2> QED
    BY <1>1, <2>1, <2>2
<1> QED
  BY <1>5, <1>6, <1>7

\* Whatever came of a write, there is a timeout ahead; if the response is not
\* complete it is kept as it is.
LEMMA AfterWriteType ==
  ASSUME NEW r \in Request, NEW rc
  PROVE  /\ AfterWrite(r, rc) \in Request /\ AfterWrite(r, rc).timeout > 0
         /\ AfterWrite(r, rc).state = r.state
         /\ AfterWrite(r, rc).written = r.written
         /\ rc = "CONTINUE" => AfterWrite(r, rc).len = r.len
         /\ Buffered(r) => Buffered(AfterWrite(r, rc))
<1> DEFINE q == [r EXCEPT !.timeout = IF rc = "SUCCESS" THEN KEEPALIVE_TIMEOUT
                                                        ELSE REQUEST_TIMEOUT]
<1>1. /\ q \in Request /\ q.timeout > 0 /\ q.state = r.state
      /\ q.cap = r.cap /\ q.pending = r.pending
      /\ q.written = r.written /\ q.len = r.len
  <2> DEFINE t == IF rc = "SUCCESS" THEN KEEPALIVE_TIMEOUT
                                    ELSE REQUEST_TIMEOUT
  <2>1. t \in Nat /\ t > 0
    BY ConnectionAssumption
  <2>2. q = [r EXCEPT !.timeout = t]
    OBVIOUS
  <2> HIDE DEF t, q
  <2> QED
    BY <2>1, <2>2 DEF Request
<1>2. AfterWrite(r, rc) = IF rc = "CONTINUE" THEN q ELSE BufferFree(q)
  BY DEF AfterWrite
<1> HIDE DEF q
<1> QED
  BY <1>1, <1>2, BufferTypes DEF Buffered, HasBuffer, Alike

-----------------------------------------------------------------------------
(* The server.                                                             *)

Lives == {"new", "backlog", "open", "freed"}

\* No more of a response has been written than there is.
Sent(r) == r.state = "WRITE" => r.written <= r.len

\* Only an open connection is registered with epoll; an open one has its
\* timer running and time left; what it has to parse is in a buffer; the
\* application holds the request in no state but NOP.
Sound(l, s, r, a) ==
  /\ s.interest # "none" \/ s.timer => l = "open"
  /\ l = "open" => s.timer /\ r.timeout > 0
  /\ Buffered(r) /\ Sent(r)
  /\ a.held # "none" => l = "freed" \/ (l = "open" /\ r.state = "NOP")

ConnsInv ==
  /\ life \in [Conn -> Lives]
  /\ sock \in [Conn -> Socket]
  /\ req \in [Conn -> Request]
  /\ app \in [Conn -> App]
  /\ client \in [Conn -> Client]
  /\ \A c \in Conn : Sound(life[c], sock[c], req[c], app[c])

\* While the zero-length body is still to be passed on (inject), the process
\* works for that connection, the parser is done and the last piece is still
\* in the buffer: so a read_chunk of the application finds nothing to do, and
\* in particular reads no socket and closes no connection.
InjectFrame ==
  /\ inject # NoConn =>
       /\ cur = inject /\ pc \in {"callback", "parse", "inject"}
       /\ req[inject].pst = "done" /\ req[inject].pending # <<>>
       /\ pc = "callback" => app[inject].held = "body"
  /\ pc = "inject" => inject = cur

\* Handlers run in the state they are for.
StateFrame ==
  /\ pc \in {"read", "parse"} => req[cur].state = "READ"
  /\ pc = "write" => req[cur].state = "WRITE"

ProcInv ==
  /\ memused \in Int /\ errno \in {"EPIPE", "other"}
  /\ pc \in {"loop", "accept", "read", "parse", "callback", "write", "inject"}
  /\ cur \in Conn \cup {NoConn} /\ inject \in Conn \cup {NoConn}
  /\ accepting \in BOOLEAN /\ lready \in BOOLEAN /\ fault \in BOOLEAN
  /\ batch \in SUBSET Event
  /\ pc \notin {"loop", "accept"} => cur \in Open
  /\ pc = "loop" => inject = NoConn /\ accepting = FALSE
  /\ pc # "loop" => batch = {}
  /\ \A d, e \in batch : d = e
  /\ \A e \in batch : e[1] # "listen" => e[2] \in Open
  /\ InjectFrame /\ StateFrame

IInv == ConnsInv /\ ProcInv

\* The two halves give the invariants the runs check.
LEMMA IInvSuffices == IInv => TypeOK /\ NoDanglingRequest /\ TimerRuns
BY DEF IInv, ConnsInv, ProcInv, InjectFrame, StateFrame, TypeOK,
       NoDanglingRequest, TimerRuns, Open, Lives, Sound

-----------------------------------------------------------------------------

\* A step that leaves every entry but that of c alone, and makes that one
\* sound, keeps ConnsInv.
LEMMA Update ==
  ASSUME ConnsInv, NEW c \in Conn,
         life' \in [Conn -> Lives], sock' \in [Conn -> Socket],
         req' \in [Conn -> Request], app' \in [Conn -> App],
         client' \in [Conn -> Client],
         \A d \in Conn \ {c} : /\ life'[d] = life[d] /\ sock'[d] = sock[d]
                               /\ req'[d] = req[d] /\ app'[d] = app[d],
         Sound(life'[c], sock'[c], req'[c], app'[c])
  PROVE  ConnsInv'
<1>1. ASSUME NEW d \in Conn
      PROVE  Sound(life'[d], sock'[d], req'[d], app'[d])
  BY DEF ConnsInv
<1> QED
  BY <1>1 DEF ConnsInv

\* The invariant holds initially.
LEMMA Initially == Init => IInv
<1> SUFFICES ASSUME Init PROVE IInv
  OBVIOUS
<1>1. ConnsInv
  <2>1. NewSocket \in Socket /\ RequestInit \in Request
    BY InitTypes
  <2>2. Sound("new", NewSocket, RequestInit, [held |-> "none", chunks |-> 0])
    BY DEF Sound, Sent, NewSocket, RequestInit, Buffered
  <2>3. [held |-> "none", chunks |-> 0] \in App
    BY ServerAssumption DEF App
  <2>4. client \in [Conn -> Client]
    BY ServerAssumption DEF Init, Client
  <2> QED
    BY <2>1, <2>2, <2>3, <2>4 DEF Init, ConnsInv, Lives
<1>2. ProcInv
  <2>1. InjectFrame /\ StateFrame
    BY DEF Init, InjectFrame, StateFrame
  <2>2. batch = {} /\ batch \in SUBSET Event
    BY DEF Init
  <2>3. pc = "loop" /\ cur = NoConn /\ inject = NoConn
    BY DEF Init
  <2>4. /\ memused \in Int /\ errno \in {"EPIPE", "other"}
        /\ accepting = FALSE /\ lready = FALSE /\ fault = FALSE
    BY DEF Init
  <2> QED
    BY <2>1, <2>2, <2>3, <2>4 DEF ProcInv
<1> QED
  BY <1>1, <1>2 DEF IInv

\* A step that changes no variable keeps it.
LEMMA Stuttering == IInv /\ UNCHANGED vars => IInv'
BY DEF IInv, ConnsInv, ProcInv, InjectFrame, StateFrame, Open, vars, conns,
       server, process, events

-----------------------------------------------------------------------------
(* The parts of the handlers.                                              *)

\* Changing the epoll registration leaves the timer alone.
LEMMA EpollCtlTimer ==
  ASSUME NEW s \in Socket
  PROVE  /\ EpollCtl(s, "in").timer = s.timer
         /\ EpollCtl(s, "out").timer = s.timer
BY DEF EpollCtl, Reportable, Socket

\* What an application that may act finds: its connection is open, no event
\* waits, and the zero-length body is pending only while it holds the last
\* piece.
LEMMA ActingFacts ==
  ASSUME IInv, NEW c \in Conn, Acting(c)
  PROVE  /\ c \in Open /\ batch = {}
         /\ req[c].state = "NOP" /\ pc \in {"callback", "loop"}
         /\ pc = "callback" => cur = c
         /\ inject # NoConn => /\ inject = c /\ app[c].held = "body"
                               /\ req[c].pst = "done"
                               /\ req[c].pending # <<>>
BY DEF IInv, ConnsInv, Sound, Sent, ProcInv, InjectFrame, Acting, Open

\* terminate_connection is reached with no frame that knows the connection
\* and no event in the batch.
LEMMA TerminateStep ==
  ASSUME IInv, NEW c \in Conn, TerminateConnection(c),
         inject = NoConn, batch' = {},
         app' = app, client' = client, lready' = lready, fault' = fault,
         errno' \in {"EPIPE", "other"}
  PROVE  IInv'
<1>1. ConnsInv'
  <2>1. /\ life' = [life EXCEPT ![c] = "freed"]
        /\ sock' = [sock EXCEPT ![c] = NewSocket]
        /\ req' = [req EXCEPT ![c] = RequestInit]
    BY DEF TerminateConnection
  <2>2. \A a \in App : Sound("freed", NewSocket, RequestInit, a)
    BY DEF Sound, Sent, NewSocket, RequestInit, Buffered
  <2> QED
    BY <2>1, <2>2, InitTypes, Update DEF IInv, ConnsInv, Lives
<1>2. memused' \in Int
  BY DEF TerminateConnection, IInv, ConnsInv, ProcInv, Request
<1>3. ProcInv'
  BY <1>2 DEF TerminateConnection, Return, IInv, ProcInv, InjectFrame,
                 StateFrame
<1> QED
  BY <1>1, <1>3 DEF IInv

\* begin_read, for a connection that is (or has just become) open.  When the
\* zero-length body is pending it goes to the parser.
LEMMA BeginReadStep ==
  ASSUME IInv, NEW c \in Conn, NEW r \in Request, NEW s \in Socket,
         NEW mem \in Int, BeginRead(c, r, s, mem),
         s.timer, life' = [life EXCEPT ![c] = "open"], batch' = {},
         inject # NoConn => /\ inject = c /\ HasBuffer(r)
                            /\ r.pst = "done" /\ r.pending # <<>>,
         app' \in [Conn -> App], app'[c].held = "none",
         \A d \in Conn \ {c} : app'[d] = app[d], client' \in [Conn -> Client],
         lready' \in BOOLEAN, fault' \in BOOLEAN,
         errno' \in {"EPIPE", "other"}
  PROVE  IInv'
<1> DEFINE q == EnterRead(r)
<1>1. /\ req' = [req EXCEPT ![c] = q]
      /\ sock' = [sock EXCEPT ![c] = EpollCtl(s, "in")]
      /\ memused' = mem + Charge(r, q)
      /\ Goto(IF RequiresRead(q) THEN "read" ELSE "parse", c)
  BY DEF BeginRead
<1>2. /\ q \in Request /\ q.timeout > 0 /\ Buffered(q)
      /\ q.state = "READ"
      /\ HasBuffer(r) => q.pending = r.pending /\ q.pst = r.pst
  BY EnterReadType, ConnectionAssumption
<1> HIDE DEF q
<1>3. ConnsInv'
  <2>1. Sound("open", EpollCtl(s, "in"), q, app'[c])
    BY <1>2, EpollCtlTimer DEF Sound, Sent
  <2> QED
    BY <1>1, <1>2, <2>1, SocketTypes, Update DEF IInv, ConnsInv, Lives
<1>4. memused' \in Int
  BY <1>1, <1>2 DEF Charge, Request
<1>5. /\ pc' \in {"read", "parse"} /\ cur' = c
      /\ accepting' = accepting /\ inject' = inject
      /\ inject # NoConn => pc' = "parse"
  BY <1>1, <1>2 DEF Goto, RequiresRead
<1>6. c \in Open'
  BY DEF Open, IInv, ConnsInv
<1>7. req'[c] = q
  BY <1>1 DEF IInv, ConnsInv
<1>8. ProcInv'
  BY <1>2, <1>4, <1>5, <1>6, <1>7 DEF IInv, ProcInv, InjectFrame, StateFrame
<1> QED
  BY <1>3, <1>8 DEF IInv

\* begin_write, likewise.
LEMMA BeginWriteStep ==
  ASSUME IInv, NEW c \in Conn, NEW r \in Request, NEW s \in Socket,
         BeginWrite(c, r, s), r.timeout > 0, Buffered(r),
         s.timer, life' = [life EXCEPT ![c] = "open"], batch' = {},
         inject = NoConn, r.state = "WRITE", r.written = 0,
         app' \in [Conn -> App], app'[c].held = "none",
         \A d \in Conn \ {c} : app'[d] = app[d], client' \in [Conn -> Client],
         lready' \in BOOLEAN, fault' \in BOOLEAN,
         errno' \in {"EPIPE", "other"}
  PROVE  IInv'
<1>1. /\ req' = [req EXCEPT ![c] = r]
      /\ sock' = [sock EXCEPT ![c] = EpollCtl(s, "out")]
      /\ memused' = memused + Charge(req[c], r)
      /\ Goto("write", c)
  BY DEF BeginWrite
<1>2. ConnsInv'
  <2>1. Sound("open", EpollCtl(s, "out"), r, app'[c])
    BY EpollCtlTimer DEF Sound, Sent, Request
  <2> QED
    BY <1>1, <2>1, SocketTypes, Update DEF IInv, ConnsInv, Lives
<1>3. memused' \in Int
  BY <1>1 DEF Charge, Request, IInv, ConnsInv, ProcInv
<1>4. c \in Open'
  BY DEF Open, IInv, ConnsInv
<1>5. req'[c] = r
  BY <1>1 DEF IInv, ConnsInv
<1>6. ProcInv'
  BY <1>1, <1>3, <1>4, <1>5 DEF Goto, IInv, ProcInv, InjectFrame, StateFrame
<1> QED
  BY <1>2, <1>6 DEF IInv

\* An open connection that stays open.
LEMMA StaysOpen ==
  ASSUME ConnsInv, NEW c \in Open, UNCHANGED life
  PROVE  life' = [life EXCEPT ![c] = "open"] /\ Open' = Open
BY DEF ConnsInv, Open

\* While the environment moves the process stands still: what it relies on
\* is that no open connection disappears.
LEMMA ProcessStands ==
  ASSUME IInv, UNCHANGED <<server, process, batch, fault, req, app>>,
         Open \subseteq Open', lready' \in BOOLEAN
  PROVE  ProcInv'
BY DEF IInv, ProcInv, InjectFrame, StateFrame, server, process

-----------------------------------------------------------------------------
(* The event loop.                                                         *)

\* There are finitely many events, so that sets of them can be counted.
LEMMA EventFinite == IsFiniteSet(Event)
<1>1. IsFiniteSet({"io", "timer"})
  <2>1. IsFiniteSet({"io"}) /\ IsFiniteSet({"timer"})
    BY FS_Singleton
  <2>2. IsFiniteSet({"io"} \cup {"timer"})
    BY <2>1, FS_Union
  <2>3. {"io", "timer"} = {"io"} \cup {"timer"}
    OBVIOUS
  <2> QED
    BY <2>2, <2>3
<1>2. IsFiniteSet({"io", "timer"} \X Conn)
  BY <1>1, FS_Product, ServerAssumption
<1>3. IsFiniteSet({<<"listen", NoConn>>})
  BY FS_Singleton
<1> QED
  BY <1>2, <1>3, FS_Union DEF Event

\* epoll_wait returns one event at most, and it is one of an open connection
\* or of the listening socket.
LEMMA EpollWaitStep ==
  ASSUME IInv, NEW taken \in SUBSET Event, EpollWait(taken)
  PROVE  IInv'
<1>1. /\ UNCHANGED <<life, req, app, client>>
      /\ sock' = [c \in Conn |-> IF <<"io", c>> \in taken
                                 THEN [sock[c] EXCEPT !.ready = FALSE]
                                 ELSE sock[c]]
  BY DEF EpollWait
<1>2. ASSUME NEW c \in Conn
      PROVE  /\ sock'[c] \in Socket
             /\ Sound(life'[c], sock'[c], req'[c], app'[c])
  <2>1. sock[c] \in Socket /\ Sound(life[c], sock[c], req[c], app[c])
    BY DEF IInv, ConnsInv
  <2> QED
    BY <1>1, <2>1 DEF Socket, Sound
<1>3. ConnsInv'
  BY <1>1, <1>2 DEF IInv, ConnsInv
<1>4. \A d, e \in taken : d = e
  <2>1. IsFiniteSet(taken) /\ Cardinality(taken) <= 1 /\ taken # {}
    BY EventFinite, FS_Subset DEF EpollWait, EvListSize
  <2>2. Cardinality(taken) \in Nat /\ Cardinality(taken) # 0
    BY <2>1, FS_CardinalityType, FS_EmptySet
  <2>3. Cardinality(taken) = 1
    BY <2>1, <2>2
  <2> QED
    BY <2>1, <2>3, FS_Singleton
<1>5. \A e \in taken : e[1] # "listen" => e[2] \in Open
  <2>1. taken \subseteq ReadyEvents
    BY DEF EpollWait
  <2>2. \A e \in ReadyEvents : e[1] # "listen" => e[2] \in Open
    BY DEF ReadyEvents
  <2> QED
    BY <2>1, <2>2
<1>6. batch' \in SUBSET taken /\ lready' \in BOOLEAN
  BY DEF EpollWait, IInv, ProcInv
<1>7. Open' = Open
  BY <1>1 DEF Open
<1>8. pc = "loop" /\ UNCHANGED <<server, process, fault>>
  BY DEF EpollWait
<1>9. ProcInv'
  BY <1>1, <1>4, <1>5, <1>6, <1>7, <1>8
  DEF IInv, ProcInv, InjectFrame, StateFrame, server, process
<1> QED
  BY <1>3, <1>9 DEF IInv

\* An event in the hands of its handler was the only one, found the process
\* with an empty stack, and is that of an open connection.
LEMMA EventTaken ==
  ASSUME IInv, NEW e, TakeFromBatch(e)
  PROVE  /\ pc = "loop" /\ inject = NoConn /\ accepting = FALSE
         /\ batch' = {} /\ lready' = lready
         /\ \A c : e = <<"io", c>> \/ e = <<"timer", c>> => c \in Open
<1>1. e \in batch /\ batch' = batch \ {e} /\ lready' = lready /\ pc = "loop"
  BY DEF TakeFromBatch
<1>2. ASSUME NEW c, e = <<"io", c>> \/ e = <<"timer", c>>
      PROVE  c \in Open
  <2>1. e[1] # "listen" /\ e[2] = c
    BY <1>2
  <2> QED
    BY <1>1, <2>1 DEF IInv, ProcInv
<1> QED
  BY <1>1, <1>2 DEF IInv, ProcInv

\* The handlers that only look at the connection's state, and the frame of
\* the accept loop.
LEMMA DispatchSteps ==
  ASSUME IInv
  PROVE  /\ OnListen => IInv'
         /\ AcceptFails => IInv'
         /\ \A c \in Conn : OnWritable(c) \/ OnIgnored(c) => IInv'
<1>1. ASSUME UNCHANGED conns PROVE ConnsInv' /\ Open' = Open
  BY <1>1 DEF IInv, ConnsInv, conns, Open
<1>3. ASSUME OnListen PROVE IInv'
  <2>1. ProcInv'
    BY <1>1, <1>3, EventTaken
    DEF OnListen, IInv, ProcInv, InjectFrame, StateFrame, server
  <2> QED
    BY <1>1, <1>3, <2>1 DEF OnListen, IInv
<1>4. ASSUME AcceptFails PROVE IInv'
  <2>1. ProcInv'
    BY <1>1, <1>4
    DEF AcceptFails, IInv, ProcInv, InjectFrame, StateFrame, events
  <2> QED
    BY <1>1, <1>4, <2>1 DEF AcceptFails, IInv
<1>5. ASSUME NEW c \in Conn, OnWritable(c) PROVE IInv'
  <2>1. c \in Open
    BY <1>5, EventTaken DEF OnWritable
  <2>2. ProcInv'
    BY <1>1, <1>5, <2>1, EventTaken
    DEF OnWritable, Goto, IInv, ProcInv, InjectFrame, StateFrame, server,
        conns
  <2> QED
    BY <1>1, <1>5, <2>2 DEF OnWritable, IInv
<1>6. ASSUME NEW c \in Conn, OnIgnored(c) PROVE IInv'
  <2>1. ProcInv'
    BY <1>1, <1>6, EventTaken
    DEF OnIgnored, IInv, ProcInv, InjectFrame, StateFrame, server, process
  <2> QED
    BY <1>1, <1>6, <2>1 DEF OnIgnored, IInv
<1> QED
  BY <1>3, <1>4, <1>5, <1>6

\* A readable connection.
LEMMA OnReadableStep ==
  ASSUME IInv, NEW c \in Conn, OnReadable(c)
  PROVE  IInv'
<1> DEFINE q == EnterRead(req[c])
<1>1. /\ req' = [req EXCEPT ![c] = q]
      /\ memused' = memused + Charge(req[c], q)
      /\ Goto(IF RequiresRead(q) THEN "read" ELSE "parse", c)
      /\ UNCHANGED <<life, sock, app, client, errno, fault>>
  BY DEF OnReadable
<1>2. /\ q \in Request /\ q.timeout > 0 /\ Buffered(q)
      /\ q.state = "READ" /\ req[c].state = "READ"
  BY EnterReadType, ConnectionAssumption DEF IInv, ConnsInv, OnReadable
<1> HIDE DEF q
<1>3. /\ inject = NoConn /\ accepting = FALSE
      /\ batch' = {} /\ lready' = lready /\ c \in Open
  BY EventTaken DEF OnReadable
<1>4. ConnsInv'
  <2>1. Sound(life[c], sock[c], q, app[c])
    BY <1>2 DEF Sound, Sent, IInv, ConnsInv
  <2> QED
    BY <1>1, <1>2, <2>1, Update DEF IInv, ConnsInv
<1>5. memused' \in Int
  BY <1>1, <1>2 DEF Charge, Request, IInv, ConnsInv, ProcInv
<1>6. pc' \in {"read", "parse"} /\ cur' = c /\ UNCHANGED <<accepting, inject>>
  BY <1>1 DEF Goto
<1>7. c \in Open'
  BY <1>1, <1>3 DEF Open
<1>8. req'[c].state = "READ"
  BY <1>1, <1>2 DEF IInv, ConnsInv
<1>9. ProcInv'
  BY <1>1, <1>3, <1>5, <1>6, <1>7, <1>8
  DEF IInv, ProcInv, InjectFrame, StateFrame
<1> QED
  BY <1>4, <1>9 DEF IInv

\* A tick of the timer.
LEMMA OnTimerStep ==
  ASSUME IInv, NEW c \in Conn, OnTimer(c)
  PROVE  IInv'
<1>1. /\ inject = NoConn /\ accepting = FALSE /\ pc = "loop"
      /\ batch' = {} /\ lready' = lready /\ c \in Open
  BY EventTaken DEF OnTimer
<1>2. UNCHANGED <<app, client, errno, fault>>
  BY DEF OnTimer
<1>3. CASE TimedOut(CountDown(req[c]))
  BY <1>1, <1>2, <1>3, TerminateStep DEF OnTimer, IInv, ProcInv
<1>4. CASE ~TimedOut(CountDown(req[c]))
  <2> DEFINE q == CountDown(req[c])
             s == [sock[c] EXCEPT !.tick = FALSE]
  <2>1. /\ req' = [req EXCEPT ![c] = q] /\ sock' = [sock EXCEPT ![c] = s]
        /\ UNCHANGED <<life, memused, process>>
    BY <1>4 DEF OnTimer
  <2>2. /\ q \in Request /\ q.timeout > 0 /\ Buffered(q) /\ Sent(q)
        /\ q.state = req[c].state
    <3>1. /\ req[c] \in Request /\ req[c].timeout > 0
          /\ Buffered(req[c]) /\ Sent(req[c])
      BY <1>1 DEF IInv, ConnsInv, Sound, Open
    <3> QED
      BY <1>4, <3>1, CountDownType DEF Buffered, HasBuffer, Sent
  <2>3. /\ s \in Socket
        /\ s.timer = sock[c].timer /\ s.interest = sock[c].interest
    BY DEF Socket, IInv, ConnsInv
  <2> HIDE DEF q, s
  <2>4. Sound(life[c], s, q, app[c])
    BY <2>2, <2>3 DEF Sound, IInv, ConnsInv
  <2>5. ConnsInv'
    BY <1>2, <2>1, <2>2, <2>3, <2>4, Update DEF IInv, ConnsInv
  <2>6. ProcInv'
    BY <1>1, <1>2, <2>1 DEF IInv, ProcInv, InjectFrame, StateFrame, process
  <2> QED
    BY <2>5, <2>6 DEF IInv
<1> QED
  BY <1>3, <1>4

-----------------------------------------------------------------------------
(* The handlers.                                                           *)

\* A connection is accepted, to be read or to be refused.
LEMMA AcceptConnectionStep ==
  ASSUME IInv, NEW c \in Conn, AcceptConnection(c)
  PROVE  IInv'
<1> DEFINE s == EpollCtl(ArmTimer(sock[c]), "in")
<1>1. /\ life' = [life EXCEPT ![c] = "open"]
      /\ UNCHANGED <<app, client, errno, events, fault>> /\ pc = "accept"
  BY DEF AcceptConnection
<1>2. s \in Socket /\ s.timer
  <2>1. sock[c] \in Socket
    BY DEF IInv, ConnsInv
  <2>2. ArmTimer(sock[c]) \in Socket /\ ArmTimer(sock[c]).timer
    BY <2>1, SocketTypes DEF ArmTimer, Socket
  <2> QED
    BY <2>2, SocketTypes, EpollCtlTimer
<1>3. RequestInit \in Request /\ RequestInit.timeout > 0
  BY InitTypes, ConnectionAssumption DEF RequestInit
<1>4. /\ inject = NoConn /\ batch' = {}
      /\ app' \in [Conn -> App] /\ client' \in [Conn -> Client]
      /\ app'[c].held = "none" /\ app' = app
      /\ lready' \in BOOLEAN /\ fault' \in BOOLEAN
      /\ errno' \in {"EPIPE", "other"} /\ memused \in Int
  BY <1>1 DEF events, IInv, ConnsInv, Sound, ProcInv, InjectFrame,
              AcceptConnection, Backlog
<1>5. \/ \E n \in OutLens : BeginWrite(c, Respond(RequestInit, n), s)
      \/ BeginRead(c, RequestInit, s, memused)
  BY DEF AcceptConnection
<1> HIDE DEF s
<1>6. ASSUME NEW n \in OutLens, BeginWrite(c, Respond(RequestInit, n), s)
      PROVE  IInv'
  <2>1. n \in Nat
    BY ServerAssumption
  <2>2. /\ Respond(RequestInit, n) \in Request
        /\ Respond(RequestInit, n).timeout > 0
        /\ Respond(RequestInit, n).state = "WRITE"
        /\ Respond(RequestInit, n).written = 0
        /\ Buffered(Respond(RequestInit, n))
    BY <1>3, <2>1, ResponseTypes DEF Buffered
  <2> QED
    BY <1>1, <1>2, <1>4, <1>6, <2>2, BeginWriteStep
<1>7. ASSUME BeginRead(c, RequestInit, s, memused) PROVE IInv'
  BY <1>1, <1>2, <1>3, <1>4, <1>7, BeginReadStep
<1> QED
  BY <1>5, <1>6, <1>7

\* The smaller of two numbers, when it is positive, bounds both.
LEMMA LeastBounds ==
  ASSUME NEW a \in Int, NEW b \in Nat, Least(a, b) > 0
  PROVE  Least(a, b) \in 1 .. b /\ a > 0 /\ Least(a, b) <= a
  BY DEF Least

\* A read() that delivers something.
LEMMA ReadDataStep ==
  ASSUME IInv, NEW c \in Conn, ReadData(c)
  PROVE  IInv'
<1> DEFINE n == Least(req[c].cap - req[c].len, Len(sock[c].rx))
           f == SubSeq(sock[c].rx, 1, n)
           r == Receive(req[c], f)
           q == IF ReadsOn(n, r) THEN r ELSE EndRead(r)
           s == [sock[c] EXCEPT !.rx = SubSeq(@, n + 1, Len(@))]
<1>1. /\ n > 0 /\ pc = "read" /\ cur = c
      /\ sock' = [sock EXCEPT ![c] = s]
      /\ req' = [req EXCEPT ![c] = q]
      /\ memused' = memused + Charge(req[c], r)
      /\ pc' \in {"read", "parse"} /\ cur' = c
      /\ UNCHANGED <<accepting, inject>>
      /\ UNCHANGED <<life, app, client, errno, events, fault>>
  BY DEF ReadData, Goto
<1>2. sock[c] \in Socket /\ req[c] \in Request
  BY DEF IInv, ConnsInv
<1>3. /\ n \in 1 .. Len(sock[c].rx) /\ HasBuffer(req[c])
      /\ sock[c].rx \in Seq(Fragment)
  <2>1. sock[c].rx \in Seq(Fragment) /\ Len(sock[c].rx) \in Nat
    BY <1>2 DEF Socket
  <2>2. req[c].cap \in Nat /\ req[c].len \in Nat
    BY <1>2 DEF Request
  <2>3. req[c].cap - req[c].len \in Int
    BY <2>2
  <2>4. n > 0
    BY <1>1
  <2>5. n \in 1 .. Len(sock[c].rx) /\ req[c].cap - req[c].len > 0
    BY <2>1, <2>3, <2>4, LeastBounds
  <2>6. req[c].cap # 0
    BY <2>2, <2>5
  <2> QED
    BY <2>1, <2>5, <2>6 DEF HasBuffer
<1>4. /\ f \in Seq(Fragment)
      /\ s \in Socket /\ s.timer = sock[c].timer
      /\ s.interest = sock[c].interest
  <2>1. SubSeq(sock[c].rx, n + 1, Len(sock[c].rx)) \in Seq(Fragment)
    BY <1>3
  <2> HIDE DEF n
  <2>2. f \in Seq(Fragment)
    BY <1>3
  <2> QED
    BY <1>2, <2>1, <2>2 DEF Socket
<1> HIDE DEF n, f, s
<1>5. /\ r \in Request /\ Alike(r, req[c]) /\ Buffered(r)
  BY <1>2, <1>3, <1>4, ReadTypes
<1> HIDE DEF r
<1>6. /\ q \in Request /\ Alike(q, req[c]) /\ Buffered(q)
      /\ req[c].state = "READ"
  BY <1>1, <1>5, ReadTypes DEF Alike, IInv, ProcInv, StateFrame
<1> HIDE DEF q
<1>7. ConnsInv'
  <2>1. Sound(life[c], s, q, app[c])
    BY <1>4, <1>6 DEF Sound, Sent, Alike, IInv, ConnsInv
  <2> QED
    BY <1>1, <1>4, <1>6, <2>1, Update DEF IInv, ConnsInv
<1>8. memused' \in Int
  <2>1. memused \in Int
    BY DEF IInv, ProcInv
  <2>2. req[c].cap \in Int /\ r.cap \in Int
    BY <1>2, <1>5 DEF Request
  <2>3. memused' = memused + (r.cap - req[c].cap)
    BY <1>1 DEF Charge
  <2> QED
    BY <2>1, <2>2, <2>3
<1>9. c \in Open'
  BY <1>1 DEF Open, IInv, ProcInv
<1>10. req'[c].state = "READ"
  BY <1>1, <1>6 DEF Alike, IInv, ConnsInv
<1>11. ProcInv'
  BY <1>1, <1>8, <1>9, <1>10
  DEF IInv, ProcInv, InjectFrame, StateFrame, events
<1> QED
  BY <1>7, <1>11 DEF IInv

\* A read() that delivers nothing.
LEMMA ReadNothingStep ==
  ASSUME IInv, NEW c \in Conn, ReadNothing(c)
  PROVE  IInv'
<1>1. /\ pc = "read" /\ cur = c /\ inject = NoConn /\ batch' = {}
      /\ UNCHANGED <<app, client, events, fault>>
      /\ errno' \in {"EPIPE", "other"}
  BY DEF ReadNothing, IInv, ProcInv, InjectFrame, events
<1>2. CASE TerminateConnection(c)
  BY <1>1, <1>2, TerminateStep DEF events
<1>3. CASE /\ req' = [req EXCEPT ![c] = EndRead(@)]
           /\ Goto("parse", c)
           /\ UNCHANGED <<life, sock, memused>>
  <2> DEFINE q == EndRead(req[c])
  <2>1. /\ q \in Request /\ Alike(q, req[c]) /\ Buffered(q)
        /\ req[c].state = "READ"
    BY <1>1, ReadTypes DEF IInv, ConnsInv, Sound, ProcInv, StateFrame
  <2>2. req' = [req EXCEPT ![c] = q]
    BY <1>3
  <2> HIDE DEF q
  <2>3. Sound(life[c], sock[c], q, app[c])
    BY <2>1 DEF Sound, Sent, Alike, IInv, ConnsInv
  <2>4. ConnsInv'
    BY <1>1, <1>3, <2>1, <2>2, <2>3, Update DEF IInv, ConnsInv
  <2>5. c \in Open'
    BY <1>1, <1>3 DEF Open, IInv, ProcInv
  <2>6. req'[c].state = "READ"
    BY <2>1, <2>2 DEF Alike, IInv, ConnsInv
  <2>7. ProcInv'
    BY <1>1, <1>3, <2>5, <2>6
    DEF Goto, IInv, ProcInv, InjectFrame, StateFrame, events
  <2> QED
    BY <2>4, <2>7 DEF IInv
<1> QED
  BY <1>2, <1>3 DEF ReadNothing

\* The parser and the callback it makes.
LEMMA ParseAndCallStep ==
  ASSUME IInv, NEW c \in Conn, ParseAndCall(c)
  PROVE  IInv'
<1> DEFINE o == Parse(req[c], client[c].head)
<1>1. /\ pc = "parse" /\ cur = c
      /\ UNCHANGED <<life, sock, client, server, events, fault>>
  BY DEF ParseAndCall
<1>2. /\ req[c] \in Request /\ Buffered(req[c])
      /\ client[c].head \in RequestHead
      /\ c \in Open /\ Open' = Open /\ batch' = {}
      /\ req[c].state = "READ"
  <2>1. client[c].head \in RequestHead
    BY ServerAssumption DEF IInv, ConnsInv, Client, Heads, RequestHead
  <2> QED
    BY <1>1, <2>1 DEF IInv, ConnsInv, ProcInv, StateFrame, Sound, Sent, Open,
                      events
<1>3. /\ GoodOutcome(req[c], o)
      /\ req[c].pst = "done" => o.call = "none" /\ o.req = req[c]
  BY <1>2, ParseType
<1>4. inject # NoConn => /\ inject = c /\ req[c].pst = "done"
                         /\ req[c].pending # <<>>
  BY <1>1 DEF IInv, ProcInv, InjectFrame
<1>5. CASE o.call = "none"
  <2>1. req' = [req EXCEPT ![c] = o.req] /\ Return /\ UNCHANGED app
    BY <1>5 DEF ParseAndCall
  <2> HIDE DEF o
  <2>2. Sound(life[c], sock[c], o.req, app[c])
    BY <1>2, <1>3 DEF Sound, Sent, Alike, GoodOutcome, IInv, ConnsInv
  <2>3. ConnsInv'
    BY <1>1, <1>3, <2>1, <2>2, Update DEF GoodOutcome, IInv, ConnsInv
  <2>4. req'[c] = o.req
    BY <2>1 DEF IInv, ConnsInv
  <2>5. /\ UNCHANGED <<accepting, inject>>
        /\ inject # NoConn => pc' = "inject" /\ cur' = inject
        /\ inject = NoConn => /\ pc' = IF accepting THEN "accept" ELSE "loop"
                              /\ cur' = NoConn
    BY <2>1 DEF Return
  <2>6. ProcInv'
    BY <1>1, <1>2, <1>3, <1>4, <2>1, <2>4, <2>5
    DEF IInv, ProcInv, InjectFrame, StateFrame, events, server
  <2> QED
    BY <2>3, <2>6 DEF IInv
<1>6. CASE o.call # "none"
  <2> DEFINE q == ExecCallback(o.req)
             h == CASE o.call = "request" -> "request"
                    [] o.call = "end"     -> "complete"
                    [] OTHER              -> "body"
  <2>1. /\ req' = [req EXCEPT ![c] = q] /\ Call(c, h)
        /\ inject' = IF o.call = "last" THEN c ELSE inject
    BY <1>6 DEF ParseAndCall
  <2>2. inject = NoConn
    BY <1>3, <1>4, <1>6
  <2> HIDE DEF o
  <2>3. /\ q \in Request /\ q.timeout = req[c].timeout /\ Buffered(q)
        /\ q.state = "NOP"
        /\ o.call = "last" => q.pst = "done" /\ q.pending # <<>>
    BY <1>2, <1>3
    DEF GoodOutcome, Alike, ExecCallback, Request, Buffered, HasBuffer
  <2>4. /\ h \in {"request", "complete", "body"}
        /\ o.call = "last" => h = "body"
    OBVIOUS
  <2> HIDE DEF q, h
  <2>5. /\ app' = [app EXCEPT ![c].held = h] /\ pc' = "callback" /\ cur' = c
        /\ accepting' = accepting
    BY <2>1 DEF Call
  <2>6. app' \in [Conn -> App] /\ app'[c].held = h /\ req'[c] = q
    BY <2>1, <2>4, <2>5 DEF IInv, ConnsInv, App
  <2>7. Sound(life[c], sock[c], q, app'[c])
    BY <1>2, <2>3 DEF Sound, Sent, Open, IInv, ConnsInv
  <2>8. ConnsInv'
    BY <1>1, <2>1, <2>3, <2>5, <2>6, <2>7, Update DEF IInv, ConnsInv
  <2>9. ProcInv'
    BY <1>1, <1>2, <2>1, <2>2, <2>3, <2>4, <2>5, <2>6
    DEF IInv, ProcInv, InjectFrame, StateFrame, events, server
  <2> QED
    BY <2>8, <2>9 DEF IInv
<1> QED
  BY <1>5, <1>6

\* The zero-length end of a large body.
LEMMA InjectEndStep ==
  ASSUME IInv, NEW c \in Conn, InjectEnd(c)
  PROVE  IInv'
<1> DEFINE q == ExecCallback(req[c])
<1>1. /\ pc = "inject" /\ cur = c /\ inject' = NoConn
      /\ req' = [req EXCEPT ![c] = q] /\ Call(c, "complete")
      /\ UNCHANGED <<life, sock, client, server, events, fault>>
  BY DEF InjectEnd
<1>2. /\ q \in Request /\ q.timeout = req[c].timeout /\ Buffered(q)
      /\ q.state = "NOP"
  <2>1. req[c] \in Request /\ Buffered(req[c])
    BY DEF IInv, ConnsInv, Sound
  <2> QED
    BY <2>1 DEF ExecCallback, Request, Buffered, HasBuffer
<1> HIDE DEF q
<1>3. Sound(life[c], sock[c], q, app'[c])
  BY <1>1, <1>2 DEF Sound, Sent, Open, IInv, ConnsInv, ProcInv
<1>4. app' \in [Conn -> App]
  BY <1>1 DEF Call, IInv, ConnsInv, App
<1>5. ConnsInv'
  BY <1>1, <1>2, <1>3, <1>4, Update DEF Call, IInv, ConnsInv
<1>6. c \in Open'
  BY <1>1 DEF Open, IInv, ProcInv
<1>7. ProcInv'
  BY <1>1, <1>6
  DEF Call, IInv, ProcInv, InjectFrame, StateFrame, events, server
<1> QED
  BY <1>5, <1>7 DEF IInv

\* A write(), for each code it can end with.
LEMMA WriteSocketStep ==
  ASSUME IInv, NEW c \in Conn, WriteSocket(c)
  PROVE  IInv'
<1>1. /\ pc = "write" /\ cur = c /\ inject = NoConn /\ batch = {}
      /\ req[c].state = "WRITE" /\ c \in Open
      /\ UNCHANGED <<events, fault>>
  BY DEF WriteSocket, IInv, ProcInv, InjectFrame, StateFrame
<1>2. /\ req[c] \in Request /\ sock[c] \in Socket
      /\ req[c].written <= req[c].len /\ Buffered(req[c])
      /\ sock[c].timer /\ app[c].held = "none"
  BY <1>1 DEF IInv, ConnsInv, Sound, Sent, Open
<1>3. PICK w \in WriteCall(c) :
        LET r  == [req[c] EXCEPT !.written = @ + w[1]]
            s  == [sock[c] EXCEPT !.space = @ - w[1]]
            rc == WriteRc(r, w[2])
            q  == AfterWrite(r, rc)
            freed == memused + Charge(r, q)
        IN  /\ errno' = w[2]
            /\ CASE rc = "CONTINUE" ->
                      /\ req' = [req EXCEPT ![c] = q]
                      /\ sock' = [sock EXCEPT ![c] = s]
                      /\ Return
                      /\ UNCHANGED <<life, app, client, memused>>
                 [] rc = "SUCCESS" ->
                      /\ BeginRead(c, q, s, freed)
                      /\ client' = [client EXCEPT ![c] = Answered(@)]
                      /\ UNCHANGED <<life, app>>
                 [] rc = "SUCCESS_CHUNK" ->
                      /\ req' = [req EXCEPT ![c] = ExecCallback(q)]
                      /\ sock' = [sock EXCEPT ![c] = s]
                      /\ memused' = freed
                      /\ Call(c, "notify")
                      /\ UNCHANGED <<life, client, inject>>
                 [] OTHER ->
                      TerminateConnection(c) /\ UNCHANGED <<app, client>>
  BY DEF WriteSocket
<1> DEFINE r  == [req[c] EXCEPT !.written = @ + w[1]]
           s  == [sock[c] EXCEPT !.space = @ - w[1]]
           rc == WriteRc(r, w[2])
           q  == AfterWrite(r, rc)
           freed == memused + Charge(r, q)
<1>4. /\ w[1] \in 0 .. sock[c].space
      /\ req[c].written + w[1] \in 0 .. req[c].len
      /\ w[2] \in {"EPIPE", "other"}
  <2> DEFINE m == Least(Unsent(req[c]), sock[c].space)
  <2>1. w \in {<<0, "EPIPE">>, <<0, "other">>, <<m, errno>>}
    BY DEF WriteCall
  <2>2. /\ req[c].len \in Nat /\ req[c].written \in Nat
        /\ req[c].written <= req[c].len /\ sock[c].space \in Nat
    BY <1>2, SndBufAssumption DEF Request, Socket
  <2>3. /\ m \in 0 .. sock[c].space
        /\ req[c].written + m \in 0 .. req[c].len
    BY <2>2 DEF Least, Unsent
  <2> HIDE DEF m
  <2>4. w[1] \in {0, m} /\ w[2] \in {"EPIPE", "other", errno}
    BY <2>1
  <2> QED
    BY <2>2, <2>3, <2>4 DEF IInv, ProcInv
<1>5. /\ r \in Request /\ r.written <= r.len /\ Buffered(r)
      /\ r.state = "WRITE" /\ r.timeout = req[c].timeout
  <2> DEFINE m == req[c].written + w[1]
  <2>1. m \in Nat /\ m <= req[c].len
    BY <1>2, <1>4 DEF Request
  <2> HIDE DEF m
  <2>2. r = [req[c] EXCEPT !.written = m]
    BY DEF m
  <2>3. [req[c] EXCEPT !.written = m] \in Request
    BY <1>2, <2>1 DEF Request
  <2> QED
    BY <1>1, <1>2, <2>1, <2>2, <2>3 DEF Request, Buffered, HasBuffer
<1>6. /\ s \in Socket /\ s.timer /\ s.interest = sock[c].interest
  <2>1. sock[c].space - w[1] \in 0 .. SndBuf
    BY <1>2, <1>4, SndBufAssumption DEF Socket
  <2> QED
    BY <1>2, <2>1 DEF Socket
<1>7. /\ errno' \in {"EPIPE", "other"}
      /\ \/ /\ rc = "CONTINUE"
            /\ req' = [req EXCEPT ![c] = q]
            /\ sock' = [sock EXCEPT ![c] = s]
            /\ Return
            /\ UNCHANGED <<life, app, client, memused>>
         \/ /\ rc = "SUCCESS"
            /\ BeginRead(c, q, s, freed)
            /\ client' = [client EXCEPT ![c] = Answered(@)]
            /\ UNCHANGED <<life, app>>
         \/ /\ rc = "SUCCESS_CHUNK"
            /\ req' = [req EXCEPT ![c] = ExecCallback(q)]
            /\ sock' = [sock EXCEPT ![c] = s]
            /\ memused' = freed
            /\ Call(c, "notify")
            /\ UNCHANGED <<life, client, inject>>
         \/ TerminateConnection(c) /\ UNCHANGED <<app, client>>
  BY <1>3, <1>4
<1> HIDE DEF r, s, rc
<1>8. /\ q \in Request /\ q.timeout > 0 /\ Buffered(q)
      /\ q.state = "WRITE"
      /\ rc = "CONTINUE" => q.written <= q.len
  BY <1>5, AfterWriteType
<1> HIDE DEF q
<1>9. freed \in Int
  BY <1>5, <1>8 DEF Charge, Request, IInv, ProcInv
<1> HIDE DEF freed
<1>10. CASE /\ rc = "CONTINUE"
            /\ req' = [req EXCEPT ![c] = q]
            /\ sock' = [sock EXCEPT ![c] = s]
            /\ Return
            /\ UNCHANGED <<life, app, client, memused>>
  <2>1. Sound(life[c], s, q, app[c])
    BY <1>1, <1>2, <1>6, <1>8, <1>10 DEF Sound, Sent, Open
  <2>2. ConnsInv'
    BY <1>6, <1>8, <1>10, <2>1, Update DEF IInv, ConnsInv
  <2>3. ProcInv'
    BY <1>1, <1>7, <1>10
    DEF Return, IInv, ProcInv, InjectFrame, StateFrame, events
  <2> QED
    BY <2>2, <2>3 DEF IInv
<1>11. CASE /\ rc = "SUCCESS"
            /\ BeginRead(c, q, s, freed)
            /\ client' = [client EXCEPT ![c] = Answered(@)]
            /\ UNCHANGED <<life, app>>
  <2>1. client' \in [Conn -> Client]
    BY <1>11 DEF IInv, ConnsInv, Client, Answered
  <2>2. life' = [life EXCEPT ![c] = "open"]
    BY <1>1, <1>11, StaysOpen DEF IInv
  <2>3. /\ app' \in [Conn -> App] /\ app'[c].held = "none" /\ batch' = {}
        /\ lready' \in BOOLEAN /\ fault' \in BOOLEAN
    BY <1>1, <1>2, <1>11 DEF events, IInv, ConnsInv, ProcInv
  <2> QED
    BY <1>1, <1>6, <1>7, <1>8, <1>9, <1>11, <2>1, <2>2, <2>3,
       BeginReadStep
<1>12. CASE /\ rc = "SUCCESS_CHUNK"
            /\ req' = [req EXCEPT ![c] = ExecCallback(q)]
            /\ sock' = [sock EXCEPT ![c] = s]
            /\ memused' = freed
            /\ Call(c, "notify")
            /\ UNCHANGED <<life, client, inject>>
  <2>1. /\ ExecCallback(q) \in Request /\ ExecCallback(q).timeout > 0
        /\ Buffered(ExecCallback(q)) /\ ExecCallback(q).state = "NOP"
    BY <1>8, <1>12 DEF ExecCallback, Request, Buffered, HasBuffer
  <2>2. app' \in [Conn -> App] /\ \A d \in Conn \ {c} : app'[d] = app[d]
    BY <1>12 DEF Call, IInv, ConnsInv, App
  <2>3. Sound(life[c], s, ExecCallback(q), app'[c])
    BY <1>1, <1>6, <2>1 DEF Sound, Sent, Open
  <2>4. ConnsInv'
    BY <1>6, <1>12, <2>1, <2>2, <2>3, Update DEF IInv, ConnsInv
  <2>5. c \in Open'
    BY <1>1, <1>12 DEF Open
  <2>6. ProcInv'
    BY <1>1, <1>7, <1>9, <1>12, <2>5
    DEF Call, IInv, ProcInv, InjectFrame, StateFrame, events
  <2> QED
    BY <2>4, <2>6 DEF IInv
<1>13. CASE TerminateConnection(c) /\ UNCHANGED <<app, client>>
  BY <1>1, <1>7, <1>13, TerminateStep DEF events
<1> QED
  BY <1>7, <1>10, <1>11, <1>12, <1>13

-----------------------------------------------------------------------------
(* The application.                                                        *)

\* The application answers: it no longer holds the request, which is written.
LEMMA AnswerStep ==
  ASSUME IInv, NEW c \in Conn, Acting(c), app[c].held # "body",
         NEW n \in OutLens,
         NEW r \in {Respond(req[c], n), RespondChunk(req[c], n),
                    RespondChunkEnd(req[c], n)},
         BeginWrite(c, r, sock[c]), NEW k \in 0 .. MaxChunks,
         app' = [app EXCEPT ![c] = [held |-> "none", chunks |-> k]],
         fault' \in BOOLEAN, UNCHANGED <<life, client, errno, events>>
  PROVE  IInv'
<1>1. c \in Open /\ batch = {} /\ inject = NoConn
  BY ActingFacts
<1>2. /\ req[c] \in Request /\ req[c].timeout > 0
      /\ sock[c] \in Socket /\ sock[c].timer
  BY <1>1 DEF IInv, ConnsInv, Sound, Open
<1>3. /\ r \in Request /\ r.timeout > 0 /\ Buffered(r)
      /\ r.state = "WRITE" /\ r.written = 0
  <2>1. n \in Nat
    BY ServerAssumption
  <2>2. /\ r \in Request /\ r.timeout = req[c].timeout
        /\ r.state = "WRITE" /\ r.pending = <<>> /\ r.written = 0
    BY <1>2, <2>1, ResponseTypes
  <2> QED
    BY <1>2, <2>2 DEF Buffered
<1>4. /\ app' \in [Conn -> App] /\ app'[c].held = "none"
      /\ \A d \in Conn \ {c} : app'[d] = app[d]
  BY DEF App, IInv, ConnsInv
<1>5. /\ client' \in [Conn -> Client] /\ lready' \in BOOLEAN /\ batch' = {}
      /\ errno' \in {"EPIPE", "other"}
  BY <1>1 DEF IInv, ConnsInv, ProcInv, events
<1>6. life' = [life EXCEPT ![c] = "open"]
  BY <1>1, StaysOpen DEF IInv
<1> QED
  BY <1>1, <1>2, <1>3, <1>4, <1>5, <1>6, BeginWriteStep

\* What an application does to a request it goes on holding.
LEMMA AdjustStep ==
  ASSUME IInv, NEW c \in Conn, Acting(c), app[c].held \in Complete,
         NEW r \in Request, r.timeout = req[c].timeout, r.state = "NOP",
         Buffered(r),
         req' = [req EXCEPT ![c] = r], memused' \in Int,
         UNCHANGED <<life, sock, app, client, errno, process, events, fault>>
  PROVE  IInv'
<1>1. /\ c \in Open /\ inject = NoConn /\ pc \in {"callback", "loop"}
  BY ActingFacts DEF Complete
<1>2. Sound(life[c], sock[c], r, app[c])
  BY <1>1 DEF Sound, Sent, Open, IInv, ConnsInv
<1>3. ConnsInv'
  BY <1>2, Update DEF IInv, ConnsInv
<1>4. Open' = Open
  BY DEF Open
<1>5. ProcInv'
  BY <1>1, <1>4
  DEF IInv, ProcInv, InjectFrame, StateFrame, process, events
<1> QED
  BY <1>3, <1>5 DEF IInv

\* Everything the application does.
LEMMA ApplicationStep ==
  ASSUME IInv, NEW c \in Conn, Application(c)
  PROVE  IInv'
<1>1. fault \in BOOLEAN /\ app[c] \in App /\ req[c] \in Request
  BY DEF IInv, ConnsInv, ProcInv
<1>2. CASE AppRespond(c)
  <2>1. /\ Acting(c) /\ app[c].held # "body"
        /\ UNCHANGED <<life, client, errno, events>>
        /\ app' = [app EXCEPT ![c].held = "none"]
        /\ fault' \in BOOLEAN
    BY <1>1, <1>2 DEF AppRespond, Complete
  <2>2. PICK n \in OutLens : BeginWrite(c, Respond(req[c], n), sock[c])
    BY <1>2 DEF AppRespond
  <2>3. /\ app[c].chunks \in 0 .. MaxChunks
        /\ app' = [app EXCEPT ![c] =
                     [held |-> "none", chunks |-> app[c].chunks]]
    <3>1. app' = [app EXCEPT ![c] = [app[c] EXCEPT !.held = "none"]]
      BY <2>1
    <3>2. [app[c] EXCEPT !.held = "none"]
            = [held |-> "none", chunks |-> app[c].chunks]
      BY <1>1 DEF App
    <3> QED
      BY <1>1, <3>1, <3>2 DEF App
  <2> QED
    BY <2>1, <2>2, <2>3, AnswerStep
<1>3. CASE AppRespondChunk(c)
  <2>1. /\ Acting(c) /\ app[c].held # "body"
        /\ UNCHANGED <<life, client, errno, events>>
        /\ app' = [app EXCEPT ![c] =
                     [held |-> "none", chunks |-> app[c].chunks + 1]]
        /\ app[c].chunks < MaxChunks /\ fault' \in BOOLEAN
    BY <1>1, <1>3 DEF AppRespondChunk, Complete
  <2>2. PICK n \in OutLens : BeginWrite(c, RespondChunk(req[c], n), sock[c])
    BY <1>3 DEF AppRespondChunk
  <2>3. app[c].chunks + 1 \in 0 .. MaxChunks
    BY <1>1, <2>1, ServerAssumption DEF App
  <2> QED
    BY <2>1, <2>2, <2>3, AnswerStep
<1>4. CASE AppRespondChunkEnd(c)
  <2>1. /\ Acting(c) /\ app[c].held # "body"
        /\ UNCHANGED <<life, client, errno, events>>
        /\ app' = [app EXCEPT ![c] = [held |-> "none", chunks |-> 0]]
        /\ fault' \in BOOLEAN
    BY <1>1, <1>4 DEF AppRespondChunkEnd
  <2>2. PICK n \in OutLens : BeginWrite(c, RespondChunkEnd(req[c], n), sock[c])
    BY <1>4 DEF AppRespondChunkEnd
  <2>3. 0 \in 0 .. MaxChunks
    BY ServerAssumption
  <2> QED
    BY <2>1, <2>2, <2>3, AnswerStep
<1>5. CASE AppReadChunk(c)
  <2> DEFINE r == [req[c] EXCEPT !.cb = "body"]
  <2>1. /\ Acting(c) /\ app' = [app EXCEPT ![c].held = "none"]
        /\ BeginRead(c, r, sock[c], memused)
        /\ UNCHANGED <<life, client, errno, events, fault>>
    BY <1>5 DEF AppReadChunk
  <2>2. /\ c \in Open /\ batch = {}
        /\ inject # NoConn => /\ inject = c /\ req[c].pst = "done"
                              /\ req[c].pending # <<>>
    BY <2>1, ActingFacts
  <2>3. /\ r \in Request /\ r.pst = req[c].pst
        /\ r.pending = req[c].pending /\ r.cap = req[c].cap
    BY <1>1, <2>2 DEF Request
  <2> HIDE DEF r
  <2>4. Buffered(req[c]) /\ sock[c] \in Socket /\ sock[c].timer
    BY <2>2 DEF IInv, ConnsInv, Sound, Open
  <2>5. /\ app' \in [Conn -> App] /\ app'[c].held = "none"
        /\ \A d \in Conn \ {c} : app'[d] = app[d]
    BY <2>1 DEF App, IInv, ConnsInv
  <2>6. /\ client' \in [Conn -> Client] /\ lready' \in BOOLEAN /\ batch' = {}
        /\ errno' \in {"EPIPE", "other"} /\ fault' \in BOOLEAN
        /\ memused \in Int
    BY <2>1, <2>2 DEF IInv, ConnsInv, ProcInv, events
  <2>7. life' = [life EXCEPT ![c] = "open"]
    BY <2>1, <2>2, StaysOpen DEF IInv
  <2>8. inject # NoConn => /\ inject = c /\ HasBuffer(r)
                           /\ r.pst = "done" /\ r.pending # <<>>
    BY <2>2, <2>3, <2>4 DEF Buffered, HasBuffer
  <2> QED
    BY <2>1, <2>3, <2>4, <2>5, <2>6, <2>7, <2>8, BeginReadStep
<1>6. CASE AppDefer(c)
  <2>1. /\ pc = "callback" /\ cur = c /\ Return /\ batch = {}
        /\ UNCHANGED <<conns, server, events, fault>>
    BY <1>6 DEF AppDefer, IInv, ProcInv
  <2>2. ConnsInv' /\ Open' = Open
    BY <2>1 DEF IInv, ConnsInv, conns, Open
  <2>3. ProcInv'
    BY <2>1, <2>2 DEF Return, IInv, ProcInv, InjectFrame, StateFrame, conns,
                      server, events
  <2> QED
    BY <2>2, <2>3 DEF IInv
<1>7. CASE AppSetConnection(c)
  <2>1. PICK d \in {"keep", "close"} :
          req' = [req EXCEPT ![c] = SetKeepAlive(req[c], d)]
    BY <1>7 DEF AppSetConnection
  <2>2. /\ Acting(c) /\ app[c].held \in Complete
        /\ UNCHANGED <<life, sock, app, client, server, process, events,
                       fault>>
    BY <1>7 DEF AppSetConnection
  <2> DEFINE r == SetKeepAlive(req[c], d)
  <2>3. req[c].state = "NOP" /\ Buffered(req[c])
    BY <2>2, ActingFacts DEF IInv, ConnsInv, Sound
  <2>4. /\ r \in Request /\ r.timeout = req[c].timeout /\ r.state = "NOP"
        /\ Buffered(r)
    BY <1>1, <2>3 DEF SetKeepAlive, Request, Flag, Buffered, HasBuffer
  <2>5. memused' \in Int /\ errno' = errno
    BY <2>2 DEF server, IInv, ProcInv
  <2> HIDE DEF r
  <2> QED
    BY <2>1, <2>2, <2>4, <2>5, AdjustStep DEF r
<1>8. CASE AppFreeBuffer(c)
  <2> DEFINE r == BufferFree(req[c])
  <2>1. /\ Acting(c) /\ app[c].held \in Complete
        /\ req' = [req EXCEPT ![c] = r]
        /\ memused' = memused + Charge(req[c], r)
        /\ UNCHANGED <<life, sock, app, client, errno, process, events,
                       fault>>
    BY <1>8 DEF AppFreeBuffer
  <2>2. req[c].state = "NOP"
    BY <2>1, ActingFacts
  <2>3. /\ r \in Request /\ r.timeout = req[c].timeout /\ r.state = "NOP"
        /\ Buffered(r)
    BY <1>1, <2>2, BufferTypes DEF Buffered, Alike
  <2> HIDE DEF r
  <2>4. memused' \in Int
    BY <1>1, <2>1, <2>3 DEF Charge, Request, IInv, ProcInv
  <2> QED
    BY <2>1, <2>3, <2>4, AdjustStep
<1> QED
  BY <1>2, <1>3, <1>4, <1>5, <1>6, <1>7, <1>8 DEF Application

-----------------------------------------------------------------------------
(* Clients, the network and the clock.                                     *)

\* The environment changes the socket, and the life of a connection only by
\* making it.
LEMMA EnvironmentStep ==
  ASSUME IInv, NEW c \in Conn, Environment(c)
  PROVE  IInv'
<1>1. sock[c] \in Socket /\ client[c] \in Client
  BY DEF IInv, ConnsInv
<1>2. ASSUME NEW s \in Socket, s.timer = sock[c].timer,
             s.interest = sock[c].interest, sock' = [sock EXCEPT ![c] = s],
             client' \in [Conn -> Client],
             UNCHANGED <<life, req, app, server, process, events, fault>>
      PROVE  IInv'
  <2>1. Sound(life[c], s, req[c], app[c])
    BY <1>2 DEF Sound, IInv, ConnsInv
  <2>2. ConnsInv'
    BY <1>2, <2>1, Update DEF IInv, ConnsInv
  <2>3. ProcInv'
    BY <1>2, ProcessStands DEF Open, events, IInv, ProcInv
  <2> QED
    BY <2>2, <2>3 DEF IInv
<1>3. /\ \A q \in Seq(Fragment) : /\ Arrival(sock[c], q).timer = sock[c].timer
                                  /\ Arrival(sock[c], q).interest
                                       = sock[c].interest
      /\ HalfClose(sock[c]).timer = sock[c].timer
      /\ HalfClose(sock[c]).interest = sock[c].interest
      /\ Reset(sock[c]).timer = sock[c].timer
      /\ Reset(sock[c]).interest = sock[c].interest
      /\ Drained(sock[c]).timer = sock[c].timer
      /\ Drained(sock[c]).interest = sock[c].interest
      /\ Expired(sock[c]).timer = sock[c].timer
      /\ Expired(sock[c]).interest = sock[c].interest
  BY <1>1 DEF Arrival, HalfClose, Reset, Drained, Expired, Socket
<1>4. CASE Connect(c)
  <2>1. /\ life[c] = "new" /\ life' = [life EXCEPT ![c] = "backlog"]
        /\ lready' = TRUE
        /\ UNCHANGED <<sock, req, app, client, server, process, batch, fault>>
    BY <1>4 DEF Connect
  <2>2. Sound("backlog", sock[c], req[c], app[c])
    BY <2>1 DEF Sound, IInv, ConnsInv
  <2>3. ConnsInv'
    BY <2>1, <2>2, Update DEF IInv, ConnsInv, Lives
  <2>4. Open \subseteq Open'
    BY <2>1 DEF Open, IInv, ConnsInv
  <2>5. ProcInv'
    BY <2>1, <2>4, ProcessStands
  <2> QED
    BY <2>3, <2>5 DEF IInv
<1>5. ASSUME NEW f \in Fragment, ClientSend(c, f) PROVE IInv'
  <2> DEFINE q == IF f = "zero" /\ "split" \notin Faults
                  THEN <<"zero", "tail">> ELSE <<f>>
  <2>1. PICK h \in Heads :
          client' = [client EXCEPT ![c] =
            [at |-> AfterSend(client[c].at, f), sent |-> client[c].sent + 1,
             head |-> h]]
    BY <1>5 DEF ClientSend
  <2>2. /\ client[c].sent < MaxFragments
        /\ sock' = [sock EXCEPT ![c] = Arrival(sock[c], q)]
        /\ UNCHANGED <<life, req, app, server, process, events, fault>>
    BY <1>5 DEF ClientSend
  <2>3. [at |-> AfterSend(client[c].at, f), sent |-> client[c].sent + 1,
         head |-> h] \in Client
    <3>1. client[c].sent + 1 \in 0 .. MaxFragments
      BY <1>1, <2>2, ServerAssumption DEF Client
    <3>2. AfterSend(client[c].at, f) \in
            {"idle", "small", "chunked", "tail", "late", "large", "await"}
      BY DEF AfterSend, Fragment
    <3> QED
      BY <3>1, <3>2 DEF Client
  <2>4. client' \in [Conn -> Client]
    BY <2>1, <2>3 DEF IInv, ConnsInv
  <2>5. q \in Seq(Fragment)
    <3>1. "zero" \in Fragment /\ "tail" \in Fragment
      BY DEF Fragment
    <3> QED
      BY <3>1
  <2> HIDE DEF q
  <2>6. Arrival(sock[c], q) \in Socket
    BY <1>1, <2>5, SocketTypes
  <2> QED
    BY <1>2, <1>3, <2>2, <2>4, <2>5, <2>6
<1>6. CASE ClientCloses(c)
  <2>1. client' \in [Conn -> Client] /\ HalfClose(sock[c]) \in Socket
    BY <1>1, <1>6, SocketTypes DEF ClientCloses, IInv, ConnsInv
  <2> QED
    BY <1>2, <1>3, <1>6, <2>1 DEF ClientCloses
<1>7. CASE ClientResets(c)
  <2>1. client' \in [Conn -> Client] /\ Reset(sock[c]) \in Socket
    BY <1>1, <1>7, SocketTypes DEF ClientResets, IInv, ConnsInv
  <2> QED
    BY <1>2, <1>3, <1>7, <2>1 DEF ClientResets
<1>8. CASE Drain(c)
  <2>1. client' \in [Conn -> Client] /\ Drained(sock[c]) \in Socket
    BY <1>1, <1>8, SocketTypes DEF Drain, IInv, ConnsInv
  <2> QED
    BY <1>2, <1>3, <1>8, <2>1 DEF Drain
<1>9. CASE TimerExpires(c)
  <2>1. client' \in [Conn -> Client] /\ Expired(sock[c]) \in Socket
    BY <1>1, <1>9, SocketTypes DEF TimerExpires, IInv, ConnsInv
  <2> QED
    BY <1>2, <1>3, <1>9, <2>1 DEF TimerExpires
<1> QED
  BY <1>4, <1>5, <1>6, <1>7, <1>8, <1>9 DEF Environment

-----------------------------------------------------------------------------
(* The theorems.                                                           *)

\* The invariant is inductive.
LEMMA Inductive == IInv /\ [Next]_vars => IInv'
<1> SUFFICES ASSUME IInv, [Next]_vars PROVE IInv'
  OBVIOUS
<1>1. CASE UNCHANGED vars
  BY <1>1, Stuttering
<1>2. CASE Finished
  BY <1>2, Stuttering DEF Finished
<1>3. ASSUME NEW taken \in SUBSET Event, EpollWait(taken) PROVE IInv'
  BY <1>3, EpollWaitStep
<1>4. CASE OnListen \/ AcceptFails
  BY <1>4, DispatchSteps
<1>5. ASSUME NEW c \in Conn, Handler(c) PROVE IInv'
  BY <1>5, DispatchSteps, OnReadableStep, OnTimerStep, AcceptConnectionStep,
     ReadDataStep, ReadNothingStep, ParseAndCallStep, InjectEndStep,
     WriteSocketStep DEF Handler
<1>6. ASSUME NEW c \in Conn, Application(c) PROVE IInv'
  BY <1>6, ApplicationStep
<1>7. ASSUME NEW c \in Conn, Environment(c) PROVE IInv'
  BY <1>7, EnvironmentStep
<1> QED
  BY <1>1, <1>2, <1>3, <1>4, <1>5, <1>6, <1>7 DEF Next

\* The invariant holds of every behaviour.
LEMMA Invariance == Spec => []IInv
BY Initially, Inductive, PTL DEF Spec

\* Every variable of the server keeps its type: in particular no more is
\* ever written of a response than it has, and no timeout counts below zero.
THEOREM TypeCorrect == Spec => []TypeOK
BY Invariance, IInvSuffices, PTL

\* Whatever the clients, the application and the clock do, no handler frame,
\* no pending event and no epoll registration refers to a freed request
\* (io_events.c, connection.c, server.c: one event per epoll_wait).
THEOREM NeverDangling == Spec => []NoDanglingRequest
BY Invariance, IInvSuffices, PTL

\* Every open connection is watched by a running timer with time left.
THEOREM TimersAlwaysRun == Spec => []TimerRuns
BY Invariance, IInvSuffices, PTL
=============================================================================
