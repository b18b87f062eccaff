---------------------------- MODULE Handle_proofs ----------------------------
(***************************************************************************)
(* Proofs about what the application holds of a connection: the request it *)
(* has a handle of exists, chunk_cb is the function it registered, and the *)
(* buffer it looks into is there.  And about the backlog.                  *)
(*                                                                         *)
(* The invariant stands on IInv of HttpServer_proofs, and has the same two *)
(* halves: Kept of each connection, and Working of the process.  Knowing   *)
(* IInv before and after a step, each lemma says of an action only what    *)
(* Kept and Working need.                                                  *)
(***************************************************************************)
EXTENDS HttpServer_proofs

\* The application answers before the timeout does, and the timeout leaves
\* it a second to do so.
Punctual == "overdue" \notin AppCalls /\ REQUEST_TIMEOUT > 1

\* What is held belongs to an open connection, and the next tick does not end
\* it; chunk_cb is of the kind the call was made for; a chunked response is
\* being written or its writing was just reported, through the chunk_cb that
\* came with it; and whoever is reading, or may look into the request, has a
\* buffer.
Kept(l, s, r, a) ==
  /\ a.held # "none" => l = "open" /\ (s.tick => r.timeout > 1)
  /\ a.held = "complete" => r.cb = "body"
  /\ a.held = "notify" => "CHUNKED_RESPONSE" \in r.flags
  /\ "CHUNKED_RESPONSE" \in r.flags =>
       r.cb = "write" /\ (r.state = "WRITE" \/ a.held = "notify")
  /\ r.state = "READ" =>
       HasBuffer(r) /\ (r.pst \in {"chunked", "large"} => r.cb = "body")
  /\ a.held \in Complete /\ "AUTOMATIC" \in r.flags =>
       HasBuffer(r) \/ "free_auto" \in AppCalls

AllKept == \A c \in Conn : Kept(life[c], sock[c], req[c], app[c])

\* Between reading and the end of the callback the timeout is fresh; the
\* zero-length body goes where the pieces went; only a timer that expired
\* is reported.
Working ==
  /\ pc \in {"read", "parse", "callback", "inject"} => req[cur].timeout > 1
  /\ inject # NoConn => req[inject].cb = "body"
  /\ \A c \in Conn : <<"timer", c>> \in batch => sock[c].tick
  /\ fault => "free_auto" \in AppCalls

KInv == AllKept /\ Working

\* It gives the invariants the runs check.
LEMMA KInvSuffices ==
  IInv /\ KInv => HandleLive /\ CallbackRegistered
                  /\ ("free_auto" \notin AppCalls => NoFault)
BY DEF KInv, AllKept, Kept, Working, HandleLive, CallbackRegistered, NoFault,
       Open, IInv, ConnsInv

-----------------------------------------------------------------------------
(* What the operators do to the fields Kept speaks of.                     *)

\* Entering a read leaves flags and chunk_cb alone and sees to a buffer.
LEMMA EnterReadKeeps ==
  ASSUME NEW r \in Request
  PROVE  /\ EnterRead(r).flags = r.flags /\ EnterRead(r).cb = r.cb
         /\ HasBuffer(EnterRead(r))
         /\ ~HasBuffer(r) => EnterRead(r).pst = "start"
<1> DEFINE q == [r EXCEPT !.state = "READ", !.timeout = REQUEST_TIMEOUT]
<1>1. /\ q.flags = r.flags /\ q.cb = r.cb /\ q.cap = r.cap
      /\ q \in Request
  BY ConnectionAssumption DEF Request
<1>2. EnterRead(r) = IF HasBuffer(r) THEN q ELSE BufferInit(q)
  BY DEF EnterRead
<1> HIDE DEF q
<1>3. /\ BufferInit(q).flags = q.flags /\ BufferInit(q).cb = q.cb
      /\ BufferInit(q).cap = InitCap /\ BufferInit(q).pst = "start"
  BY <1>1 DEF BufferInit, Request
<1> QED
  BY <1>1, <1>2, <1>3, ConnectionAssumption DEF HasBuffer

\* So does reading, and it leaves the parser alone.
LEMMA ReadKeeps ==
  ASSUME NEW r \in Request, HasBuffer(r)
  PROVE  \A q \in {EndRead(r)} \cup {Receive(r, f) : f \in Seq(Fragment)} :
           /\ q.flags = r.flags /\ q.cb = r.cb /\ q.pst = r.pst
           /\ HasBuffer(q)
<1>1. /\ EndRead(r).flags = r.flags /\ EndRead(r).cb = r.cb
      /\ EndRead(r).pst = r.pst /\ EndRead(r).cap = r.cap
  BY DEF EndRead, Request
<1>2. ASSUME NEW f \in Seq(Fragment)
      PROVE  /\ Receive(r, f).flags = r.flags /\ Receive(r, f).cb = r.cb
             /\ Receive(r, f).pst = r.pst /\ Receive(r, f).cap # 0
  <2> DEFINE n == IF 2 * r.cap > MaxCap THEN MaxCap ELSE 2 * r.cap
             t == [r EXCEPT !.len = @ + Len(f), !.pending = @ \o f]
  <2>1. n # 0 /\ r.cap # 0
    BY ConnectionAssumption DEF HasBuffer, Request
  <2>2. /\ t.flags = r.flags /\ t.cb = r.cb /\ t.pst = r.pst
        /\ t.cap = r.cap
    BY DEF Request
  <2>3. Receive(r, f) \in {t, [t EXCEPT !.cap = n]}
    BY <2>2 DEF Receive, GrowBuffer
  <2>4. [t EXCEPT !.cap = n].cap = n
    BY DEF Request
  <2>5. /\ [t EXCEPT !.cap = n].flags = t.flags
        /\ [t EXCEPT !.cap = n].cb = t.cb
        /\ [t EXCEPT !.cap = n].pst = t.pst
    BY DEF Request
  <2> HIDE DEF n, t
  <2> QED
    BY <2>1, <2>2, <2>3, <2>4, <2>5
<1> QED
  BY <1>1, <1>2 DEF HasBuffer

\* An outcome of the parser that Kept agrees with: only a body that was being
\* parsed ends, or goes on without a call.
KeptOutcome(r, o) ==
  /\ o.req.cb = r.cb /\ HasBuffer(o.req)
  /\ "CHUNKED_RESPONSE" \in o.req.flags <=> "CHUNKED_RESPONSE" \in r.flags
  /\ o.call \in {"end", "last"} => r.pst \in {"chunked", "large"}
  /\ o.call = "none" /\ o.req.pst \in {"chunked", "large"} =>
       r.pst \in {"chunked", "large"}

\* The ways an outcome is put together.
LEMMA TokenKeeps ==
  ASSUME NEW r \in Request, HasBuffer(r), NEW q \in Request, HasBuffer(q),
         q.cb = r.cb,
         "CHUNKED_RESPONSE" \in q.flags <=> "CHUNKED_RESPONSE" \in r.flags,
         NEW pst, NEW rest, NEW call
  PROVE  /\ call \notin {"none", "end", "last"} =>
              KeptOutcome(r, Token(q, pst, rest, call))
         /\ r.pst \in {"chunked", "large"} /\ call # "none" =>
              KeptOutcome(r, Token(q, pst, rest, call))
         /\ pst \notin {"chunked", "large"} \/ pst = r.pst =>
              KeptOutcome(r, NoToken(q, pst, rest))
BY DEF KeptOutcome, Token, NoToken, HasBuffer, Request

\* The parser, whatever its state.
LEMMA ParseKeeps ==
  ASSUME NEW r \in Request, HasBuffer(r), NEW head \in RequestHead
  PROVE  KeptOutcome(r, Parse(r, head))
<1> DEFINE f    == Head(r.pending)
           rest == Tail(r.pending)
<1>1. KeptOutcome(r, [req |-> r, call |-> "none"])
  BY DEF KeptOutcome
<1>2. ASSUME NEW pst, NEW x, pst = r.pst \/ pst \notin {"chunked", "large"}
      PROVE  KeptOutcome(r, NoToken(r, pst, x))
  BY <1>2, TokenKeeps
<1>3. ASSUME NEW q \in Request, HasBuffer(q), q.cb = r.cb, NEW x,
             "CHUNKED_RESPONSE" \in q.flags
                <=> "CHUNKED_RESPONSE" \in r.flags
      PROVE  KeptOutcome(r, ParseSmall(q, x))
  BY <1>3, TokenKeeps DEF ParseSmall
<1>4. KeptOutcome(r, ParseStart(r, f, rest, head))
  <2> DEFINE q == PushTokens(r, head)
             s == [q EXCEPT !.flags = @ \cup {STREAMED}]
             t == ResizeFor(q, f)
  <2>1. q \in Request /\ q.cap = r.cap /\ q.cb = r.cb /\ q.flags = r.flags
    <3>1. Append(r.tokens, head) \in Seq(RequestHead)
      BY DEF Request
    <3> QED
      BY <3>1 DEF PushTokens, Request
  <2>2. ParseStart(r, f, rest, head) =
          CASE f = "get"                 -> Token(s, "nobody", rest, "request")
            [] f = "stream"              -> Token(s, "chunked", rest, "headers")
            [] f = "large"               -> Token(s, "large", rest, "headers")
            [] f \in {"head", "bighead"} -> ParseSmall(t, rest)
            [] OTHER                     -> NoToken(r, "error", rest)
    BY DEF ParseStart
  <2> HIDE DEF q
  <2>3. /\ s \in Request /\ s.cap = r.cap /\ s.cb = r.cb
        /\ s.flags = r.flags \cup {STREAMED}
    <3>1. q.flags \cup {STREAMED} \in SUBSET Flag
      BY <2>1 DEF Request, Flag, STREAMED
    <3> QED
      BY <2>1, <3>1 DEF Request
  <2>4. t \in Request /\ t.cap # 0 /\ t.cb = r.cb /\ t.flags = r.flags
    <3> DEFINE n == IF f = "bighead" /\ BodyCap > q.cap THEN BodyCap
                                                        ELSE q.cap
    <3>1. n \in Nat \ {0}
      BY <2>1, ConnectionAssumption DEF Request, HasBuffer
    <3>2. t = [q EXCEPT !.cap = n]
      BY DEF ResizeFor
    <3> HIDE DEF n, t
    <3> QED
      BY <2>1, <3>1, <3>2 DEF Request
  <2> HIDE DEF s, t
  <2>5. \A pst, call : call \in {"request", "headers"} =>
          KeptOutcome(r, Token(s, pst, rest, call))
    BY <2>3, TokenKeeps DEF STREAMED, HasBuffer
  <2>6. KeptOutcome(r, ParseSmall(t, rest))
    BY <1>3, <2>4 DEF HasBuffer
  <2>7. KeptOutcome(r, NoToken(r, "error", rest))
    BY <1>2
  <2> QED
    BY <2>2, <2>5, <2>6, <2>7
<1>5. r.pst = "chunked" => KeptOutcome(r, ParseChunked(r, f, rest))
  BY <1>2, TokenKeeps DEF ParseChunked
<1>6. r.pst = "large" => KeptOutcome(r, ParseLarge(r))
  <2> DEFINE q == [r EXCEPT !.len = 1, !.gap = 0]
  <2>1. /\ q \in Request /\ q.cap = r.cap /\ q.cb = r.cb
        /\ q.flags = r.flags
    <3>1. 0 \in 0 .. SeqIds - 1
      BY ConnectionAssumption
    <3> QED
      BY <3>1 DEF Request
  <2>2. ParseLarge(r) \in {Token(r, "done", r.pending, "last"),
                           Token(q, "large", <<>>, "chunk")}
    BY DEF ParseLarge
  <2> HIDE DEF q
  <2> QED
    BY <2>1, <2>2, TokenKeeps DEF HasBuffer
<1>7. \/ Parse(r, head) = [req |-> r, call |-> "none"]
      \/ Parse(r, head) = NoToken(r, r.pst, <<>>)
      \/ Parse(r, head) = ParseStart(r, f, rest, head)
      \/ Parse(r, head) = ParseSmall(r, r.pending)
      \/ r.pst = "chunked" /\ Parse(r, head) = ParseChunked(r, f, rest)
      \/ r.pst = "large" /\ Parse(r, head) = ParseLarge(r)
      \/ Parse(r, head) = NoToken(r, "error", r.pending)
  BY DEF Parse
<1> HIDE DEF f, rest
<1> QED
  BY <1>1, <1>2, <1>3, <1>4, <1>5, <1>6, <1>7

\* A response is chunked from its first chunk to its end.
LEMMA RespondKeeps ==
  ASSUME NEW r \in Request, NEW n \in Nat
  PROVE  /\ Respond(r, n).cb = r.cb /\ RespondChunkEnd(r, n).cb = r.cb
         /\ RespondChunk(r, n).cb = "write"
         /\ "CHUNKED_RESPONSE" \in Respond(r, n).flags =>
              "CHUNKED_RESPONSE" \in r.flags
         /\ "CHUNKED_RESPONSE" \notin RespondChunkEnd(r, n).flags
<1>1. ASSUME NEW q \in Request
      PROVE  /\ PerformResponse(q, n).cb = q.cb
             /\ PerformResponse(q, n).flags = q.flags
  BY <1>1 DEF PerformResponse, BufferFree, Request
<1>2. ASSUME NEW q \in Request
      PROVE  /\ SerializeHeaders(q) \in Request
             /\ SerializeHeaders(q).cb = q.cb
             /\ "CHUNKED_RESPONSE" \in SerializeHeaders(q).flags =>
                  "CHUNKED_RESPONSE" \in q.flags
  BY <1>2 DEF SerializeHeaders, DetectKeepAlive, Request, Flag
<1>3. /\ Respond(r, n).cb = r.cb
      /\ "CHUNKED_RESPONSE" \in Respond(r, n).flags =>
           "CHUNKED_RESPONSE" \in r.flags
  BY <1>1, <1>2 DEF Respond
<1>4. RespondChunk(r, n).cb = "write"
  <2> DEFINE f == [r EXCEPT !.flags = @ \cup {"CHUNKED_RESPONSE"}]
             q == IF "CHUNKED_RESPONSE" \in r.flags THEN r
                  ELSE SerializeHeaders(f)
             b == [q EXCEPT !.cb = "write"]
  <2>1. f \in Request
    BY DEF Request, Flag
  <2>2. RespondChunk(r, n) = PerformResponse(b, n)
    BY DEF RespondChunk
  <2> HIDE DEF f
  <2>3. q \in Request
    BY <1>2, <2>1
  <2> HIDE DEF q
  <2>4. b \in Request /\ b.cb = "write"
    BY <2>3 DEF Request
  <2> HIDE DEF b
  <2> QED
    BY <1>1, <2>2, <2>4
<1>5. /\ RespondChunkEnd(r, n).cb = r.cb
      /\ "CHUNKED_RESPONSE" \notin RespondChunkEnd(r, n).flags
  <2> DEFINE f == [r EXCEPT !.flags = @ \ {"CHUNKED_RESPONSE"}]
  <2>1. /\ f \in Request /\ f.cb = r.cb
        /\ f.flags = r.flags \ {"CHUNKED_RESPONSE"}
    BY DEF Request, Flag
  <2>2. RespondChunkEnd(r, n) = PerformResponse(f, n)
    BY DEF RespondChunkEnd
  <2> HIDE DEF f
  <2> QED
    BY <1>1, <2>1, <2>2
<1> QED
  BY <1>3, <1>4, <1>5

\* A write changes neither; when it was the last one the buffer is freed, and
\* the request timeout starts again unless the connection is kept.
LEMMA AfterWriteKeeps ==
  ASSUME NEW r \in Request, NEW rc
  PROVE  /\ AfterWrite(r, rc).flags = r.flags /\ AfterWrite(r, rc).cb = r.cb
         /\ rc # "CONTINUE" => ~HasBuffer(AfterWrite(r, rc))
         /\ rc # "SUCCESS" => AfterWrite(r, rc).timeout = REQUEST_TIMEOUT
<1> DEFINE t == IF rc = "SUCCESS" THEN KEEPALIVE_TIMEOUT
                                  ELSE REQUEST_TIMEOUT
           q == [r EXCEPT !.timeout = t]
<1>1. q.flags = r.flags /\ q.cb = r.cb /\ q.timeout = t
  BY DEF Request
<1>2. AfterWrite(r, rc) = IF rc = "CONTINUE" THEN q ELSE BufferFree(q)
  BY DEF AfterWrite
<1>3. /\ BufferFree(q).flags = q.flags /\ BufferFree(q).cb = q.cb
      /\ BufferFree(q).timeout = q.timeout /\ BufferFree(q).cap = 0
  BY DEF BufferFree, Request
<1> HIDE DEF q
<1> QED
  BY <1>1, <1>2, <1>3 DEF HasBuffer

-----------------------------------------------------------------------------
(* The parts of the handlers.                                              *)

\* A step that leaves every entry but that of c alone keeps AllKept if it
\* keeps Kept of c.
LEMMA KeptUpdate ==
  ASSUME AllKept, NEW c \in Conn,
         \A d \in Conn \ {c} : /\ life'[d] = life[d] /\ sock'[d] = sock[d]
                               /\ req'[d] = req[d] /\ app'[d] = app[d],
         Kept(life'[c], sock'[c], req'[c], app'[c])
  PROVE  AllKept'
<1>1. ASSUME NEW d \in Conn
      PROVE  Kept(life'[d], sock'[d], req'[d], app'[d])
  BY DEF AllKept
<1> QED
  BY <1>1 DEF AllKept

\* A request that is read or written is not the application's: it is in no
\* chunked response, but for the one being written.
LEMMA Busy ==
  ASSUME IInv, AllKept, NEW c \in Open, req[c].state \in {"READ", "WRITE"}
  PROVE  /\ app[c].held = "none"
         /\ req[c].state = "READ" => "CHUNKED_RESPONSE" \notin req[c].flags
BY DEF IInv, ConnsInv, Sound, AllKept, Kept, Open

\* terminate_connection, for a connection the application does not hold.
LEMMA KeptTerminate ==
  ASSUME IInv, KInv, NEW c \in Conn, TerminateConnection(c),
         app[c].held = "none", inject = NoConn, batch' = {},
         app' = app, fault' = fault
  PROVE  KInv'
<1>1. AllKept'
  <2>1. /\ life' = [life EXCEPT ![c] = "freed"]
        /\ sock' = [sock EXCEPT ![c] = NewSocket]
        /\ req' = [req EXCEPT ![c] = RequestInit]
    BY DEF TerminateConnection
  <2>2. Kept("freed", NewSocket, RequestInit, app[c])
    BY DEF Kept, RequestInit, Complete
  <2> QED
    BY <2>1, <2>2, KeptUpdate DEF IInv, ConnsInv, KInv
<1>2. Working'
  BY DEF TerminateConnection, Return, KInv, Working
<1> QED
  BY <1>1, <1>2 DEF KInv

\* begin_read: the timeout starts again, and the buffer is there.
LEMMA KeptBeginRead ==
  ASSUME IInv, KInv, Punctual, NEW c \in Conn, NEW r \in Request, NEW s,
         NEW mem, BeginRead(c, r, s, mem),
         "CHUNKED_RESPONSE" \notin r.flags,
         HasBuffer(r) /\ r.pst \in {"chunked", "large"} => r.cb = "body",
         inject # NoConn => inject = c /\ r.cb = "body",
         \A d \in Conn \ {c} : life'[d] = life[d] /\ app'[d] = app[d],
         app'[c].held = "none", batch' = {}, fault' = fault
  PROVE  KInv'
<1> DEFINE q == EnterRead(r)
<1>1. /\ req' = [req EXCEPT ![c] = q]
      /\ sock' = [sock EXCEPT ![c] = EpollCtl(s, "in")]
      /\ Goto(IF RequiresRead(q) THEN "read" ELSE "parse", c)
  BY DEF BeginRead
<1>2. /\ q.state = "READ" /\ q.timeout > 1 /\ HasBuffer(q)
      /\ q.flags = r.flags /\ q.cb = r.cb
      /\ q.pst \in {"chunked", "large"} => q.cb = "body"
  BY EnterReadType, EnterReadKeeps DEF Punctual
<1> HIDE DEF q
<1>3. req'[c] = q
  BY <1>1 DEF IInv, ConnsInv
<1>4. AllKept'
  <2>1. Kept(life'[c], sock'[c], q, app'[c])
    BY <1>2 DEF Kept, Complete
  <2> QED
    BY <1>1, <1>3, <2>1, KeptUpdate DEF IInv, ConnsInv, KInv
<1>5. Working'
  BY <1>1, <1>2, <1>3 DEF Goto, KInv, Working
<1> QED
  BY <1>4, <1>5 DEF KInv

\* begin_write: a chunk has brought its chunk_cb with it.
LEMMA KeptBeginWrite ==
  ASSUME IInv, KInv, NEW c \in Conn, NEW r \in Request, NEW s,
         BeginWrite(c, r, s), r.state = "WRITE", inject = NoConn,
         "CHUNKED_RESPONSE" \in r.flags => r.cb = "write",
         \A d \in Conn \ {c} : life'[d] = life[d] /\ app'[d] = app[d],
         app'[c].held = "none", batch' = {},
         fault' => "free_auto" \in AppCalls
  PROVE  KInv'
<1>1. /\ req' = [req EXCEPT ![c] = r]
      /\ sock' = [sock EXCEPT ![c] = EpollCtl(s, "out")]
      /\ Goto("write", c)
  BY DEF BeginWrite
<1>2. AllKept'
  <2>1. Kept(life'[c], sock'[c], r, app'[c])
    BY DEF Kept, Complete
  <2> QED
    BY <1>1, <2>1, KeptUpdate DEF IInv, ConnsInv, KInv
<1>3. Working'
  BY <1>1 DEF Goto, KInv, Working
<1> QED
  BY <1>2, <1>3 DEF KInv

-----------------------------------------------------------------------------
(* The event loop.                                                         *)

\* The invariant holds initially.
LEMMA KeptInitially == Init => KInv
<1> SUFFICES ASSUME Init PROVE KInv
  OBVIOUS
<1>1. Kept("new", NewSocket, RequestInit, [held |-> "none", chunks |-> 0])
  BY DEF Kept, RequestInit, Complete
<1>2. AllKept
  BY <1>1 DEF Init, AllKept
<1>3. Working
  <2>1. /\ pc = "loop" /\ inject = NoConn /\ batch = {} /\ fault = FALSE
    BY DEF Init
  <2> QED
    BY <2>1 DEF Working
<1> QED
  BY <1>2, <1>3 DEF KInv

\* A step that changes no variable keeps it.
LEMMA KeptStuttering == KInv /\ UNCHANGED vars => KInv'
BY DEF KInv, AllKept, Working, vars, conns, server, process, events

\* epoll_wait reports a timer only after it expired.
LEMMA KeptEpollWait ==
  ASSUME IInv, KInv, NEW taken \in SUBSET Event, EpollWait(taken)
  PROVE  KInv'
<1>1. /\ UNCHANGED <<life, req, app, client, server, process, fault>>
      /\ sock' = [c \in Conn |-> IF <<"io", c>> \in taken
                                 THEN [sock[c] EXCEPT !.ready = FALSE]
                                 ELSE sock[c]]
      /\ batch' \subseteq taken /\ taken \subseteq ReadyEvents
  BY DEF EpollWait
<1>2. \A c \in Conn : sock'[c].tick = sock[c].tick
  BY <1>1 DEF IInv, ConnsInv, Socket
<1>3. AllKept'
  BY <1>1, <1>2 DEF KInv, AllKept, Kept
<1>4. ASSUME NEW c \in Conn, <<"timer", c>> \in batch' PROVE sock'[c].tick
  <2>1. <<"timer", c>> \in ReadyEvents
    BY <1>1, <1>4
  <2>2. sock[c].tick
    BY <2>1 DEF ReadyEvents
  <2> QED
    BY <1>2, <2>2
<1>5. Working'
  BY <1>1, <1>4 DEF KInv, Working, process
<1> QED
  BY <1>3, <1>5 DEF KInv

\* The handlers that only look at the connection's state, and the frame of
\* the accept loop.
LEMMA KeptDispatch ==
  ASSUME IInv, KInv
  PROVE  /\ OnListen => KInv'
         /\ AcceptFails => KInv'
         /\ \A c \in Conn : OnWritable(c) \/ OnIgnored(c) => KInv'
<1>1. ASSUME UNCHANGED conns PROVE AllKept'
  BY <1>1 DEF KInv, AllKept, conns
<1>2. ASSUME UNCHANGED <<conns, inject, fault>>, batch' \subseteq batch,
             pc' \in {"loop", "accept", "write"}
      PROVE  Working'
  BY <1>2 DEF KInv, Working, conns
<1>3. ASSUME OnListen PROVE KInv'
  BY <1>1, <1>2, <1>3 DEF OnListen, TakeFromBatch, KInv
<1>4. ASSUME AcceptFails PROVE KInv'
  BY <1>1, <1>2, <1>4 DEF AcceptFails, events, KInv
<1>5. ASSUME NEW c \in Conn, OnWritable(c) PROVE KInv'
  BY <1>1, <1>2, <1>5 DEF OnWritable, TakeFromBatch, Goto, KInv
<1>6. ASSUME NEW c \in Conn, OnIgnored(c) PROVE KInv'
  BY <1>1, <1>2, <1>6 DEF OnIgnored, TakeFromBatch, process, KInv
<1> QED
  BY <1>3, <1>4, <1>5, <1>6

\* A readable connection.
LEMMA KeptOnReadable ==
  ASSUME IInv, KInv, Punctual, NEW c \in Conn, OnReadable(c)
  PROVE  KInv'
<1> DEFINE q == EnterRead(req[c])
<1>1. /\ req' = [req EXCEPT ![c] = q]
      /\ Goto(IF RequiresRead(q) THEN "read" ELSE "parse", c)
      /\ UNCHANGED <<life, sock, app, fault>> /\ req[c].state = "READ"
  BY DEF OnReadable
<1>2. inject = NoConn /\ batch' = {} /\ c \in Open
  BY EventTaken DEF OnReadable
<1>3. /\ app[c].held = "none" /\ req[c] \in Request
      /\ Kept(life[c], sock[c], req[c], app[c])
      /\ "CHUNKED_RESPONSE" \notin req[c].flags
  BY <1>1, <1>2, Busy DEF KInv, AllKept, IInv, ConnsInv
<1>4. /\ q.state = "READ" /\ q.timeout > 1 /\ HasBuffer(q)
      /\ q.flags = req[c].flags /\ q.cb = req[c].cb
      /\ q.pst \in {"chunked", "large"} => q.cb = "body"
  BY <1>1, <1>3, EnterReadType, EnterReadKeeps DEF Punctual, Kept
<1> HIDE DEF q
<1>5. req'[c] = q
  BY <1>1 DEF IInv, ConnsInv
<1>6. AllKept'
  <2>1. Kept(life[c], sock[c], q, app[c])
    BY <1>3, <1>4 DEF Kept, Complete
  <2> QED
    BY <1>1, <2>1, KeptUpdate DEF IInv, ConnsInv, KInv
<1>7. Working'
  BY <1>1, <1>2, <1>4, <1>5 DEF Goto, KInv, Working
<1> QED
  BY <1>6, <1>7 DEF KInv

\* The tick that ends a connection finds one the application does not hold:
\* what it holds has more than one second left when its timer has expired.
LEMMA KeptOnTimer ==
  ASSUME IInv, KInv, NEW c \in Conn, OnTimer(c)
  PROVE  KInv'
<1>1. /\ inject = NoConn /\ batch' = {} /\ c \in Open /\ pc = "loop"
      /\ UNCHANGED <<app, fault>> /\ sock[c].tick
  BY EventTaken DEF OnTimer, TakeFromBatch, KInv, Working
<1>2. /\ req[c] \in Request /\ sock[c] \in Socket
      /\ Kept(life[c], sock[c], req[c], app[c])
  BY DEF KInv, AllKept, IInv, ConnsInv
<1>3. CASE TimedOut(CountDown(req[c]))
  <2>1. req[c].timeout - 1 = 0
    BY <1>2, <1>3 DEF TimedOut, CountDown, Request
  <2>2. req[c].timeout \in Nat
    BY <1>2 DEF Request
  <2>3. app[c].held = "none"
    BY <1>1, <1>2, <2>1, <2>2 DEF Kept
  <2> QED
    BY <1>1, <1>3, <2>3, KeptTerminate DEF OnTimer
<1>4. CASE ~TimedOut(CountDown(req[c]))
  <2> DEFINE q == CountDown(req[c])
             s == [sock[c] EXCEPT !.tick = FALSE]
  <2>1. /\ req' = [req EXCEPT ![c] = q] /\ sock' = [sock EXCEPT ![c] = s]
        /\ UNCHANGED <<life, process>>
    BY <1>4 DEF OnTimer
  <2>2. /\ q.flags = req[c].flags /\ q.cb = req[c].cb /\ q.pst = req[c].pst
        /\ q.cap = req[c].cap /\ q.state = req[c].state
    BY <1>2 DEF CountDown, Request
  <2>3. s.tick = FALSE
    BY <1>2 DEF Socket
  <2> HIDE DEF q, s
  <2>4. Kept(life[c], s, q, app[c])
    BY <1>2, <2>2, <2>3 DEF Kept, HasBuffer
  <2>5. AllKept'
    BY <1>1, <2>1, <2>4, KeptUpdate DEF IInv, ConnsInv, KInv
  <2>6. Working'
    BY <1>1, <2>1 DEF KInv, Working, process
  <2> QED
    BY <2>5, <2>6 DEF KInv
<1> QED
  BY <1>3, <1>4

-----------------------------------------------------------------------------
(* The handlers.                                                           *)

\* A connection is accepted, to be read or to be refused.
LEMMA KeptAcceptConnection ==
  ASSUME IInv, KInv, Punctual, NEW c \in Conn, AcceptConnection(c)
  PROVE  KInv'
<1> DEFINE s == EpollCtl(ArmTimer(sock[c]), "in")
<1>1. /\ life' = [life EXCEPT ![c] = "open"] /\ life[c] = "backlog"
      /\ UNCHANGED <<app, events, fault>> /\ pc = "accept"
      /\ \/ \E n \in OutLens : BeginWrite(c, Respond(RequestInit, n), s)
         \/ BeginRead(c, RequestInit, s, memused)
  BY DEF AcceptConnection, Backlog
<1>2. /\ RequestInit \in Request /\ ~HasBuffer(RequestInit)
      /\ "CHUNKED_RESPONSE" \notin RequestInit.flags
  BY InitTypes DEF RequestInit, HasBuffer
<1>3. /\ inject = NoConn /\ batch' = {} /\ app[c].held = "none"
      /\ fault => "free_auto" \in AppCalls
      /\ \A d \in Conn \ {c} : life'[d] = life[d] /\ app'[d] = app[d]
  BY <1>1 DEF IInv, ConnsInv, ProcInv, InjectFrame, Sound, KInv, Working,
              events
<1> HIDE DEF s
<1>4. ASSUME NEW n \in OutLens, BeginWrite(c, Respond(RequestInit, n), s)
      PROVE  KInv'
  <2>1. n \in Nat
    BY ServerAssumption
  <2>2. /\ Respond(RequestInit, n) \in Request
        /\ Respond(RequestInit, n).state = "WRITE"
        /\ "CHUNKED_RESPONSE" \notin Respond(RequestInit, n).flags
    <3>1. /\ Respond(RequestInit, n) \in Request
          /\ Respond(RequestInit, n).state = "WRITE"
      BY <1>2, <2>1, ResponseTypes
    <3>2. "CHUNKED_RESPONSE" \notin Respond(RequestInit, n).flags
      BY <1>2, <2>1, RespondKeeps
    <3> QED
      BY <3>1, <3>2
  <2> QED
    BY <1>1, <1>3, <1>4, <2>2, KeptBeginWrite
<1>5. ASSUME BeginRead(c, RequestInit, s, memused) PROVE KInv'
  BY <1>1, <1>2, <1>3, <1>5, KeptBeginRead
<1> QED
  BY <1>1, <1>4, <1>5

\* A read() that delivers something.
LEMMA KeptReadData ==
  ASSUME IInv, KInv, NEW c \in Conn, ReadData(c)
  PROVE  KInv'
<1> DEFINE n == Least(req[c].cap - req[c].len, Len(sock[c].rx))
           f == SubSeq(sock[c].rx, 1, n)
           r == Receive(req[c], f)
           q == IF ReadsOn(n, r) THEN r ELSE EndRead(r)
           s == [sock[c] EXCEPT !.rx = SubSeq(@, n + 1, Len(@))]
<1>1. /\ n > 0 /\ pc = "read" /\ cur = c
      /\ sock' = [sock EXCEPT ![c] = s]
      /\ req' = [req EXCEPT ![c] = q]
      /\ pc' \in {"read", "parse"} /\ cur' = c
      /\ UNCHANGED <<accepting, inject, life, app, events, fault>>
  BY DEF ReadData, Goto
<1>2. /\ sock[c] \in Socket /\ req[c] \in Request /\ c \in Open
      /\ req[c].state = "READ" /\ batch = {}
      /\ Kept(life[c], sock[c], req[c], app[c])
  BY <1>1 DEF IInv, ConnsInv, ProcInv, StateFrame, KInv, AllKept
<1>3. f \in Seq(Fragment) /\ s.tick = sock[c].tick
  <2>1. sock[c].rx \in Seq(Fragment) /\ Len(sock[c].rx) \in Nat
    BY <1>2 DEF Socket
  <2>2. req[c].cap - req[c].len \in Int
    BY <1>2 DEF Request
  <2>3. n \in 1 .. Len(sock[c].rx)
    BY <1>1, <2>1, <2>2, LeastBounds
  <2>4. s.tick = sock[c].tick
    BY <1>2 DEF Socket
  <2> HIDE DEF n
  <2> QED
    BY <2>1, <2>3, <2>4
<1> HIDE DEF n, f, s
<1>4. /\ r.flags = req[c].flags /\ r.cb = req[c].cb /\ r.pst = req[c].pst
      /\ HasBuffer(r) /\ r \in Request /\ Alike(r, req[c])
  BY <1>2, <1>3, ReadTypes, ReadKeeps DEF Kept
<1> HIDE DEF r
<1>5. /\ q.flags = req[c].flags /\ q.cb = req[c].cb /\ q.pst = req[c].pst
      /\ HasBuffer(q) /\ Alike(q, req[c])
  BY <1>4, ReadTypes, ReadKeeps DEF Alike
<1> HIDE DEF q
<1>6. req'[c] = q
  BY <1>1 DEF IInv, ConnsInv
<1>7. AllKept'
  <2>1. Kept(life[c], s, q, app[c])
    BY <1>2, <1>3, <1>5 DEF Kept, Alike
  <2> QED
    BY <1>1, <2>1, KeptUpdate DEF IInv, ConnsInv, KInv
<1>8. Working'
  <2>1. q.timeout > 1
    BY <1>1, <1>5 DEF Alike, KInv, Working
  <2>2. inject' # NoConn => FALSE
    BY <1>1 DEF IInv, ProcInv, InjectFrame
  <2> QED
    BY <1>1, <1>2, <1>6, <2>1, <2>2 DEF events, KInv, Working
<1> QED
  BY <1>7, <1>8 DEF KInv

\* A read() that delivers nothing.
LEMMA KeptReadNothing ==
  ASSUME IInv, KInv, NEW c \in Conn, ReadNothing(c)
  PROVE  KInv'
<1>1. /\ pc = "read" /\ cur = c /\ inject = NoConn /\ batch' = {}
      /\ UNCHANGED <<app, events, fault>> /\ c \in Open
      /\ req[c].state = "READ"
  BY DEF ReadNothing, IInv, ProcInv, InjectFrame, StateFrame, events
<1>2. /\ app[c].held = "none" /\ req[c] \in Request
      /\ Kept(life[c], sock[c], req[c], app[c])
  BY <1>1, Busy DEF KInv, AllKept, IInv, ConnsInv
<1>3. CASE TerminateConnection(c)
  BY <1>1, <1>2, <1>3, KeptTerminate
<1>4. CASE /\ req' = [req EXCEPT ![c] = EndRead(@)]
           /\ Goto("parse", c)
           /\ UNCHANGED <<life, sock, memused>>
  <2> DEFINE q == EndRead(req[c])
  <2>1. /\ q.flags = req[c].flags /\ q.cb = req[c].cb
        /\ q.pst = req[c].pst /\ HasBuffer(q) /\ Alike(q, req[c])
    BY <1>1, <1>2, ReadTypes, ReadKeeps DEF Kept
  <2>2. req' = [req EXCEPT ![c] = q] /\ req'[c] = q
    BY <1>4 DEF IInv, ConnsInv
  <2> HIDE DEF q
  <2>3. AllKept'
    <3>1. Kept(life[c], sock[c], q, app[c])
      BY <1>2, <2>1 DEF Kept, Alike
    <3> QED
      BY <1>1, <1>4, <2>2, <3>1, KeptUpdate DEF KInv
  <2>4. Working'
    BY <1>1, <1>4, <2>1, <2>2 DEF Alike, Goto, KInv, Working
  <2> QED
    BY <2>3, <2>4 DEF KInv
<1> QED
  BY <1>3, <1>4 DEF ReadNothing

\* The parser: who is called for the end of a body, or for its last piece,
\* asked for it.
LEMMA KeptParseAndCall ==
  ASSUME IInv, KInv, NEW c \in Conn, ParseAndCall(c)
  PROVE  KInv'
<1> DEFINE o == Parse(req[c], client[c].head)
<1>1. /\ pc = "parse" /\ cur = c
      /\ UNCHANGED <<life, sock, events, fault>>
  BY DEF ParseAndCall
<1>2. /\ req[c] \in Request /\ Buffered(req[c]) /\ batch' = {}
      /\ req[c].state = "READ" /\ c \in Open
      /\ Kept(life[c], sock[c], req[c], app[c]) /\ req[c].timeout > 1
      /\ fault' => "free_auto" \in AppCalls
  BY <1>1 DEF IInv, ConnsInv, ProcInv, StateFrame, Sound, KInv, AllKept,
              Working, events
<1>3. client[c].head \in RequestHead
  BY ServerAssumption DEF IInv, ConnsInv, Client, Heads, RequestHead
<1>4. app[c].held = "none" /\ "CHUNKED_RESPONSE" \notin req[c].flags
  BY <1>2, Busy DEF KInv
<1>5. /\ o.req \in Request /\ Alike(o.req, req[c])
      /\ KeptOutcome(req[c], o)
      /\ req[c].pst = "done" => o.call = "none" /\ o.req = req[c]
  BY <1>2, <1>3, ParseType, ParseKeeps DEF GoodOutcome, Kept
<1>6. inject # NoConn => /\ inject = c /\ req[c].cb = "body"
                         /\ req[c].pst = "done"
  BY <1>1 DEF IInv, ProcInv, InjectFrame, KInv, Working
<1>7. CASE o.call = "none"
  <2>1. req' = [req EXCEPT ![c] = o.req] /\ Return /\ UNCHANGED app
    BY <1>7 DEF ParseAndCall
  <2> HIDE DEF o
  <2>2. req'[c] = o.req
    BY <2>1 DEF IInv, ConnsInv
  <2>3. Kept(life[c], sock[c], o.req, app[c])
    BY <1>2, <1>4, <1>5, <1>7 DEF Kept, KeptOutcome, Alike, Complete
  <2>4. AllKept'
    BY <1>1, <2>1, <2>3, KeptUpdate DEF IInv, ConnsInv, KInv
  <2>5. Working'
    BY <1>1, <1>2, <1>5, <1>6, <2>1, <2>2
    DEF Return, KeptOutcome, Alike, Working
  <2> QED
    BY <2>4, <2>5 DEF KInv
<1>8. CASE o.call # "none"
  <2> DEFINE q == ExecCallback(o.req)
             h == CASE o.call = "request" -> "request"
                    [] o.call = "end"     -> "complete"
                    [] OTHER              -> "body"
  <2>1. /\ req' = [req EXCEPT ![c] = q] /\ Call(c, h)
        /\ inject' = IF o.call = "last" THEN c ELSE inject
    BY <1>8 DEF ParseAndCall
  <2>2. inject = NoConn
    BY <1>5, <1>6, <1>8
  <2> HIDE DEF o
  <2>3. /\ q.state = "NOP" /\ q.timeout = req[c].timeout
        /\ HasBuffer(q) /\ q.cb = req[c].cb
        /\ "CHUNKED_RESPONSE" \notin q.flags
        /\ o.call \in {"end", "last"} => q.cb = "body"
    BY <1>2, <1>4, <1>5
    DEF ExecCallback, KeptOutcome, Alike, Kept, HasBuffer, Request
  <2>4. /\ h \in {"request", "complete", "body"}
        /\ h = "complete" => o.call = "end"
    OBVIOUS
  <2> HIDE DEF q, h
  <2>5. /\ app' = [app EXCEPT ![c].held = h] /\ pc' = "callback" /\ cur' = c
    BY <2>1 DEF Call
  <2>6. app'[c].held = h /\ req'[c] = q
    BY <2>1, <2>5 DEF IInv, ConnsInv, App
  <2>7. Kept(life[c], sock[c], q, app'[c])
    BY <1>2, <2>3, <2>4, <2>6 DEF Kept, Open
  <2>8. AllKept'
    BY <1>1, <2>1, <2>5, <2>6, <2>7, KeptUpdate DEF IInv, ConnsInv, KInv
  <2>9. Working'
    BY <1>1, <1>2, <2>1, <2>2, <2>3, <2>5, <2>6 DEF Working
  <2> QED
    BY <2>8, <2>9 DEF KInv
<1> QED
  BY <1>7, <1>8

\* The zero-length end of a large body goes where its pieces went.
LEMMA KeptInjectEnd ==
  ASSUME IInv, KInv, NEW c \in Conn, InjectEnd(c)
  PROVE  KInv'
<1> DEFINE q == ExecCallback(req[c])
<1>1. /\ pc = "inject" /\ cur = c /\ inject = c /\ inject' = NoConn
      /\ req' = [req EXCEPT ![c] = q] /\ Call(c, "complete")
      /\ UNCHANGED <<life, sock, events, fault>>
  BY DEF InjectEnd, IInv, ProcInv, InjectFrame
<1>2. /\ req[c] \in Request /\ batch' = {} /\ inject # NoConn /\ c \in Open
      /\ Kept(life[c], sock[c], req[c], app[c])
      /\ req[c].timeout > 1 /\ req[c].cb = "body" /\ HasBuffer(req[c])
      /\ fault' => "free_auto" \in AppCalls
  <2>1. inject # NoConn
    BY <1>1, ServerAssumption
  <2>2. req[c].pending # <<>> /\ batch' = {} /\ c \in Open
    BY <1>1, <2>1 DEF IInv, ProcInv, InjectFrame, events
  <2>3. req[c].timeout > 1 /\ req[c].cb = "body"
    BY <1>1, <2>1 DEF KInv, Working
  <2>4. req[c] \in Request /\ Buffered(req[c])
    BY DEF IInv, ConnsInv, Sound
  <2> QED
    BY <1>1, <2>1, <2>2, <2>3, <2>4 DEF KInv, AllKept, Working, Buffered
<1>3. /\ q.state = "NOP" /\ q.timeout = req[c].timeout /\ q.cb = "body"
      /\ q.flags = req[c].flags /\ HasBuffer(q)
  BY <1>2 DEF ExecCallback, Request, HasBuffer
<1> HIDE DEF q
<1>4. app' = [app EXCEPT ![c].held = "complete"] /\ pc' = "callback"
      /\ cur' = c /\ app'[c].held = "complete" /\ req'[c] = q
  BY <1>1 DEF Call, IInv, ConnsInv, App
<1>5. AllKept'
  <2>1. Kept(life[c], sock[c], q, app'[c])
    BY <1>2, <1>3, <1>4 DEF Kept, Open
  <2> QED
    BY <1>1, <1>4, <2>1, KeptUpdate DEF IInv, ConnsInv, KInv
<1>6. Working'
  BY <1>1, <1>2, <1>3, <1>4 DEF Working
<1> QED
  BY <1>5, <1>6 DEF KInv

\* A write(), for each code it can end with.
LEMMA KeptWriteSocket ==
  ASSUME IInv, KInv, Punctual, NEW c \in Conn, WriteSocket(c)
  PROVE  KInv'
<1>1. /\ pc = "write" /\ cur = c /\ inject = NoConn /\ batch' = {}
      /\ req[c].state = "WRITE" /\ c \in Open
      /\ UNCHANGED <<events, fault>>
  BY DEF WriteSocket, IInv, ProcInv, InjectFrame, StateFrame, events
<1>2. /\ req[c] \in Request /\ sock[c] \in Socket
      /\ app[c].held = "none"
      /\ Kept(life[c], sock[c], req[c], app[c])
      /\ fault' => "free_auto" \in AppCalls
  BY <1>1, Busy DEF IInv, ConnsInv, KInv, AllKept, Working
<1>3. PICK w \in WriteCall(c) :
        LET r  == [req[c] EXCEPT !.written = @ + w[1]]
            s  == [sock[c] EXCEPT !.space = @ - w[1]]
            rc == WriteRc(r, w[2])
            q  == AfterWrite(r, rc)
            freed == memused + Charge(r, q)
        IN  /\ errno' = w[2]
            /\ CASE rc = "CONTINUE" ->
                      /\ req' = [req EXCEPT ![c] = q]
                      /\ sock' = [sock EXCEPT ![c] = s]
                      /\ Return
                      /\ UNCHANGED <<life, app, client, memused>>
                 [] rc = "SUCCESS" ->
                      /\ BeginRead(c, q, s, freed)
                      /\ client' = [client EXCEPT ![c] = Answered(@)]
                      /\ UNCHANGED <<life, app>>
                 [] rc = "SUCCESS_CHUNK" ->
                      /\ req' = [req EXCEPT ![c] = ExecCallback(q)]
                      /\ sock' = [sock EXCEPT ![c] = s]
                      /\ memused' = freed
                      /\ Call(c, "notify")
                      /\ UNCHANGED <<life, client, inject>>
                 [] OTHER ->
                      TerminateConnection(c) /\ UNCHANGED <<app, client>>
  BY DEF WriteSocket
<1> DEFINE r  == [req[c] EXCEPT !.written = @ + w[1]]
           s  == [sock[c] EXCEPT !.space = @ - w[1]]
           rc == WriteRc(r, w[2])
           q  == AfterWrite(r, rc)
           freed == memused + Charge(r, q)
<1>4. /\ r.flags = req[c].flags /\ r.cb = req[c].cb
      /\ r.state = "WRITE" /\ s.tick = sock[c].tick
  BY <1>1, <1>2 DEF Request, Socket
<1>5. r \in Request
  <2>1. req[c].written + w[1] \in Nat
    <3> DEFINE m == Least(Unsent(req[c]), sock[c].space)
    <3>1. /\ req[c].len \in Nat /\ req[c].written \in Nat
          /\ req[c].written <= req[c].len /\ sock[c].space \in Nat
      <4>1. req[c].written <= req[c].len
        BY <1>1 DEF IInv, ConnsInv, Sound, Sent
      <4> QED
        BY <1>2, <4>1, SndBufAssumption DEF Request, Socket
    <3>2. m \in Nat
      BY <3>1 DEF Least, Unsent
    <3>3. w \in {<<0, "EPIPE">>, <<0, "other">>, <<m, errno>>}
      BY DEF WriteCall
    <3> HIDE DEF m
    <3>4. w[1] \in Nat
      BY <3>2, <3>3
    <3> QED
      BY <3>1, <3>4
  <2> QED
    BY <1>2, <2>1 DEF Request
<1>6. /\ rc = "SUCCESS" => "CHUNKED_RESPONSE" \notin r.flags
      /\ rc = "SUCCESS_CHUNK" => "CHUNKED_RESPONSE" \in r.flags
  BY DEF WriteRc
<1>7. \/ /\ rc = "CONTINUE"
         /\ req' = [req EXCEPT ![c] = q]
         /\ sock' = [sock EXCEPT ![c] = s]
         /\ Return
         /\ UNCHANGED <<life, app, client, memused>>
      \/ /\ rc = "SUCCESS"
         /\ BeginRead(c, q, s, freed)
         /\ UNCHANGED <<life, app>>
      \/ /\ rc = "SUCCESS_CHUNK"
         /\ req' = [req EXCEPT ![c] = ExecCallback(q)]
         /\ sock' = [sock EXCEPT ![c] = s]
         /\ Call(c, "notify")
         /\ UNCHANGED <<life, client, inject>>
      \/ TerminateConnection(c) /\ UNCHANGED <<app, client>>
  BY <1>3
<1> HIDE DEF r, s, rc
<1>8. /\ q \in Request /\ q.flags = r.flags /\ q.cb = r.cb
      /\ q.state = "WRITE"
      /\ rc # "CONTINUE" => ~HasBuffer(q)
      /\ rc # "SUCCESS" => q.timeout = REQUEST_TIMEOUT
  BY <1>4, <1>5, AfterWriteType, AfterWriteKeeps
<1> HIDE DEF q, freed
<1>9. CASE /\ rc = "CONTINUE"
           /\ req' = [req EXCEPT ![c] = q]
           /\ sock' = [sock EXCEPT ![c] = s]
           /\ Return
           /\ UNCHANGED <<life, app, client, memused>>
  <2>1. Kept(life[c], s, q, app[c])
    BY <1>2, <1>4, <1>8 DEF Kept, Complete
  <2>2. AllKept'
    BY <1>9, <2>1, KeptUpdate DEF IInv, ConnsInv, KInv
  <2>3. Working'
    BY <1>1, <1>2, <1>9 DEF Return, Working
  <2> QED
    BY <2>2, <2>3 DEF KInv
<1>10. CASE /\ rc = "SUCCESS"
            /\ BeginRead(c, q, s, freed)
            /\ UNCHANGED <<life, app>>
  <2>1. "CHUNKED_RESPONSE" \notin q.flags /\ ~HasBuffer(q)
    BY <1>6, <1>8, <1>10
  <2> QED
    BY <1>1, <1>2, <1>8, <1>10, <2>1, KeptBeginRead
<1>11. CASE /\ rc = "SUCCESS_CHUNK"
            /\ req' = [req EXCEPT ![c] = ExecCallback(q)]
            /\ sock' = [sock EXCEPT ![c] = s]
            /\ Call(c, "notify")
            /\ UNCHANGED <<life, client, inject>>
  <2>1. /\ ExecCallback(q).state = "NOP" /\ ExecCallback(q).timeout > 1
        /\ ExecCallback(q).cb = "write"
        /\ "CHUNKED_RESPONSE" \in ExecCallback(q).flags
    BY <1>2, <1>4, <1>6, <1>8, <1>11
    DEF ExecCallback, Request, Kept, Punctual
  <2>2. /\ app' = [app EXCEPT ![c].held = "notify"] /\ app'[c].held = "notify"
        /\ pc' = "callback" /\ cur' = c /\ req'[c] = ExecCallback(q)
    BY <1>11 DEF Call, IInv, ConnsInv, App
  <2>3. Kept(life[c], s, ExecCallback(q), app'[c])
    BY <1>1, <2>1, <2>2 DEF Kept, Complete, Open
  <2>4. AllKept'
    BY <1>11, <2>2, <2>3, KeptUpdate DEF IInv, ConnsInv, KInv
  <2>5. Working'
    BY <1>1, <1>2, <1>11, <2>1, <2>2 DEF Working
  <2> QED
    BY <2>4, <2>5 DEF KInv
<1>12. CASE TerminateConnection(c) /\ UNCHANGED <<app, client>>
  BY <1>1, <1>2, <1>12, KeptTerminate
<1> QED
  BY <1>7, <1>9, <1>10, <1>11, <1>12

-----------------------------------------------------------------------------
(* The application.                                                        *)

\* The application answers: a chunk brings its chunk_cb with it, the other
\* answers leave no chunked response behind.
LEMMA KeptAnswer ==
  ASSUME IInv, KInv, NEW c \in Conn, Acting(c), app[c].held # "body",
         NEW n \in OutLens, NEW r \in Request, r.state = "WRITE",
         BeginWrite(c, r, sock[c]),
         "CHUNKED_RESPONSE" \in r.flags => r.cb = "write",
         app'[c].held = "none", \A d \in Conn \ {c} : app'[d] = app[d],
         fault' => "free_auto" \in AppCalls, UNCHANGED <<life, events>>
  PROVE  KInv'
<1>1. inject = NoConn /\ batch' = {}
  BY ActingFacts DEF events
<1> QED
  BY <1>1, KeptBeginWrite

\* What an application does to a request it goes on holding.
LEMMA KeptAdjust ==
  ASSUME IInv, KInv, NEW c \in Conn, Acting(c), app[c].held \in Complete,
         NEW r, r.timeout = req[c].timeout, r.state = "NOP",
         r.cb = req[c].cb, "CHUNKED_RESPONSE" \notin r.flags,
         "AUTOMATIC" \in r.flags => HasBuffer(r) \/ "free_auto" \in AppCalls,
         req' = [req EXCEPT ![c] = r],
         UNCHANGED <<life, sock, app, process, events, fault>>
  PROVE  KInv'
<1>1. /\ inject = NoConn /\ Kept(life[c], sock[c], req[c], app[c])
      /\ req'[c] = r /\ batch' = {}
  BY ActingFacts DEF Complete, IInv, ConnsInv, KInv, AllKept, events
<1>2. AllKept'
  <2>1. Kept(life[c], sock[c], r, app[c])
    BY <1>1 DEF Kept, Complete
  <2> QED
    BY <2>1, KeptUpdate DEF IInv, ConnsInv, KInv
<1>3. Working'
  <2>1. \A d \in Conn : req'[d].timeout = req[d].timeout
    BY <1>1 DEF IInv, ConnsInv
  <2>2. pc \in {"read", "parse", "callback", "inject"} => cur \in Conn
    BY DEF IInv, ProcInv, Open
  <2> QED
    BY <1>1, <2>1, <2>2 DEF process, KInv, Working
<1> QED
  BY <1>2, <1>3 DEF KInv

\* Everything the application does.
LEMMA KeptApplication ==
  ASSUME IInv, KInv, Punctual, NEW c \in Conn, Application(c)
  PROVE  KInv'
<1>1. /\ app[c] \in App /\ req[c] \in Request
      /\ Kept(life[c], sock[c], req[c], app[c])
      /\ fault => "free_auto" \in AppCalls
      /\ \A n \in OutLens : n \in Nat
  BY ServerAssumption DEF IInv, ConnsInv, KInv, AllKept, Working
<1>2. ASSUME Acting(c), app[c].held # "notify"
      PROVE  "CHUNKED_RESPONSE" \notin req[c].flags
  BY <1>1, <1>2, ActingFacts DEF Kept
<1>3. \A h, k : /\ [app EXCEPT ![c].held = h][c].held = h
                /\ [app EXCEPT ![c] = [held |-> h, chunks |-> k]][c].held = h
  BY DEF IInv, ConnsInv, App
<1>4. CASE AppRespond(c)
  <2>1. PICK n \in OutLens : BeginWrite(c, Respond(req[c], n), sock[c])
    BY <1>4 DEF AppRespond
  <2>2. /\ Acting(c) /\ app[c].held \in Complete
        /\ app' = [app EXCEPT ![c].held = "none"]
        /\ UNCHANGED <<life, events>>
        /\ fault' = (fault \/ (InspectsBuffer(req[c]) /\ ~HasBuffer(req[c])))
    BY <1>4 DEF AppRespond
  <2>3. fault' => "free_auto" \in AppCalls
    BY <1>1, <2>2 DEF InspectsBuffer, Kept
  <2>4. /\ Respond(req[c], n) \in Request
        /\ Respond(req[c], n).state = "WRITE"
    BY <1>1, ResponseTypes
  <2>5. "CHUNKED_RESPONSE" \notin Respond(req[c], n).flags
    BY <1>1, <1>2, <2>2, RespondKeeps DEF Complete
  <2>6. /\ app'[c].held = "none" /\ app[c].held # "body"
        /\ \A d \in Conn \ {c} : app'[d] = app[d]
    BY <1>3, <2>2 DEF Complete, IInv, ConnsInv
  <2> QED
    BY <2>1, <2>2, <2>3, <2>4, <2>5, <2>6, KeptAnswer
<1>5. CASE AppRespondChunk(c)
  <2>1. PICK n \in OutLens : BeginWrite(c, RespondChunk(req[c], n), sock[c])
    BY <1>5 DEF AppRespondChunk
  <2>2. /\ Acting(c) /\ app[c].held \in Complete \cup {"notify"}
        /\ app' = [app EXCEPT ![c] =
                     [held |-> "none", chunks |-> app[c].chunks + 1]]
        /\ UNCHANGED <<life, events>>
        /\ fault' = (fault \/ /\ "CHUNKED_RESPONSE" \notin req[c].flags
                              /\ InspectsBuffer(req[c])
                              /\ ~HasBuffer(req[c]))
    BY <1>5 DEF AppRespondChunk
  <2>3. fault' => "free_auto" \in AppCalls
    BY <1>1, <2>2 DEF InspectsBuffer, Kept
  <2>4. /\ RespondChunk(req[c], n) \in Request
        /\ RespondChunk(req[c], n).state = "WRITE"
    BY <1>1, ResponseTypes
  <2>5. RespondChunk(req[c], n).cb = "write"
    BY <1>1, RespondKeeps
  <2>6. /\ app'[c].held = "none" /\ app[c].held # "body"
        /\ \A d \in Conn \ {c} : app'[d] = app[d]
    BY <1>3, <2>2 DEF Complete, IInv, ConnsInv
  <2> QED
    BY <2>1, <2>2, <2>3, <2>4, <2>5, <2>6, KeptAnswer
<1>6. CASE AppRespondChunkEnd(c)
  <2>1. PICK n \in OutLens : BeginWrite(c, RespondChunkEnd(req[c], n), sock[c])
    BY <1>6 DEF AppRespondChunkEnd
  <2>2. /\ Acting(c) /\ app[c].held = "notify"
        /\ app' = [app EXCEPT ![c] = [held |-> "none", chunks |-> 0]]
        /\ UNCHANGED <<life, events>>
        /\ fault' => "free_auto" \in AppCalls
    BY <1>1, <1>6 DEF AppRespondChunkEnd
  <2>3. /\ RespondChunkEnd(req[c], n) \in Request
        /\ RespondChunkEnd(req[c], n).state = "WRITE"
    BY <1>1, ResponseTypes
  <2>4. "CHUNKED_RESPONSE" \notin RespondChunkEnd(req[c], n).flags
    BY <1>1, RespondKeeps
  <2>5. /\ app'[c].held = "none" /\ app[c].held # "body"
        /\ \A d \in Conn \ {c} : app'[d] = app[d]
    BY <1>3, <2>2 DEF IInv, ConnsInv
  <2> QED
    BY <2>1, <2>2, <2>3, <2>4, <2>5, KeptAnswer
<1>7. CASE AppReadChunk(c)
  <2> DEFINE r == [req[c] EXCEPT !.cb = "body"]
  <2>1. /\ Acting(c) /\ app[c].held = "body"
        /\ app' = [app EXCEPT ![c].held = "none"]
        /\ BeginRead(c, r, sock[c], memused)
        /\ UNCHANGED <<life, events, fault>>
    BY <1>7 DEF AppReadChunk
  <2>2. /\ r \in Request /\ r.cb = "body" /\ r.flags = req[c].flags
    BY <1>1 DEF Request
  <2>3. batch' = {} /\ (inject # NoConn => inject = c)
    BY <2>1, ActingFacts DEF events
  <2>4. "CHUNKED_RESPONSE" \notin r.flags
    BY <1>2, <2>1, <2>2
  <2>5. \A d \in Conn \ {c} : life'[d] = life[d] /\ app'[d] = app[d]
    BY <2>1 DEF IInv, ConnsInv
  <2> HIDE DEF r
  <2> QED
    BY <1>3, <2>1, <2>2, <2>3, <2>4, <2>5, KeptBeginRead
<1>8. CASE AppDefer(c)
  <2>1. /\ pc = "callback" /\ cur = c /\ Return /\ batch' = {}
        /\ UNCHANGED <<conns, fault>>
    BY <1>8 DEF AppDefer, IInv, ProcInv, events
  <2>2. AllKept'
    BY <2>1 DEF conns, KInv, AllKept
  <2>3. Working'
    BY <2>1 DEF Return, conns, IInv, ProcInv, InjectFrame, KInv, Working
  <2> QED
    BY <2>2, <2>3 DEF KInv
<1>9. CASE AppSetConnection(c)
  <2>1. PICK d \in {"keep", "close"} :
          req' = [req EXCEPT ![c] = SetKeepAlive(req[c], d)]
    BY <1>9 DEF AppSetConnection
  <2> DEFINE r == SetKeepAlive(req[c], d)
  <2>2. /\ Acting(c) /\ app[c].held \in Complete
        /\ UNCHANGED <<life, sock, app, process, events, fault>>
    BY <1>9 DEF AppSetConnection
  <2>3. req[c].state = "NOP" /\ "CHUNKED_RESPONSE" \notin req[c].flags
    BY <1>2, <2>2, ActingFacts DEF Complete
  <2>4. /\ r.timeout = req[c].timeout /\ r.state = "NOP"
        /\ r.cb = req[c].cb /\ "CHUNKED_RESPONSE" \notin r.flags
        /\ "AUTOMATIC" \notin r.flags
    BY <1>1, <2>3 DEF SetKeepAlive, Request
  <2> HIDE DEF r
  <2> QED
    BY <2>1, <2>2, <2>4, KeptAdjust DEF r
<1>10. CASE AppFreeBuffer(c)
  <2> DEFINE r == BufferFree(req[c])
  <2>1. /\ Acting(c) /\ app[c].held \in Complete
        /\ "AUTOMATIC" \notin req[c].flags \/ "free_auto" \in AppCalls
        /\ req' = [req EXCEPT ![c] = r]
        /\ UNCHANGED <<life, sock, app, process, events, fault>>
    BY <1>10 DEF AppFreeBuffer
  <2>2. req[c].state = "NOP" /\ "CHUNKED_RESPONSE" \notin req[c].flags
    BY <1>2, <2>1, ActingFacts DEF Complete
  <2>3. /\ r.timeout = req[c].timeout /\ r.state = "NOP"
        /\ r.cb = req[c].cb /\ r.flags = req[c].flags
    BY <1>1, <2>2 DEF BufferFree, Request
  <2> HIDE DEF r
  <2> QED
    BY <2>1, <2>2, <2>3, KeptAdjust
<1> QED
  BY <1>4, <1>5, <1>6, <1>7, <1>8, <1>9, <1>10 DEF Application

-----------------------------------------------------------------------------
(* Clients, the network and the clock.                                     *)

\* The clock leaves an application that is punctual its last second.
LEMMA KeptEnvironment ==
  ASSUME IInv, KInv, Punctual, NEW c \in Conn, Environment(c)
  PROVE  KInv'
<1>1. /\ sock[c] \in Socket /\ Kept(life[c], sock[c], req[c], app[c])
  BY DEF IInv, ConnsInv, KInv, AllKept
<1>2. UNCHANGED <<req, app, server, process, batch, fault>>
  BY DEF Environment, Connect, ClientSend, ClientCloses, ClientResets, Drain,
         TimerExpires, events
<1>3. CASE Connect(c)
  <2>1. life' = [life EXCEPT ![c] = "backlog"] /\ UNCHANGED sock
        /\ life[c] = "new"
    BY <1>3 DEF Connect
  <2>2. Kept("backlog", sock[c], req[c], app[c])
    BY <1>1, <2>1 DEF Kept
  <2>3. AllKept'
    BY <1>2, <2>1, <2>2, KeptUpdate DEF IInv, ConnsInv, KInv
  <2> QED
    BY <1>2, <2>1, <2>3 DEF process, KInv, Working
<1>4. ASSUME NEW s, sock' = [sock EXCEPT ![c] = s], UNCHANGED life,
             s.tick = sock[c].tick \/
               (s.tick /\ (app[c].held # "none" => req[c].timeout > 1))
      PROVE  KInv'
  <2>1. Kept(life[c], s, req[c], app[c])
    BY <1>1, <1>4 DEF Kept
  <2>2. AllKept'
    BY <1>2, <1>4, <2>1, KeptUpdate DEF IInv, ConnsInv, KInv
  <2>3. \A d \in Conn : sock[d].tick => sock'[d].tick
    BY <1>4 DEF IInv, ConnsInv
  <2> QED
    BY <1>2, <2>2, <2>3 DEF process, KInv, Working
<1>5. /\ \A q : Arrival(sock[c], q).tick = sock[c].tick
      /\ HalfClose(sock[c]).tick = sock[c].tick
      /\ Reset(sock[c]).tick = sock[c].tick
      /\ Drained(sock[c]).tick = sock[c].tick
      /\ Expired(sock[c]).tick
  BY <1>1 DEF Arrival, HalfClose, Reset, Drained, Expired, Socket
<1>6. ASSUME NEW f \in Fragment, ClientSend(c, f) PROVE KInv'
  BY <1>4, <1>5, <1>6 DEF ClientSend
<1>7. CASE ClientCloses(c)
  BY <1>4, <1>5, <1>7 DEF ClientCloses
<1>8. CASE ClientResets(c)
  BY <1>4, <1>5, <1>8 DEF ClientResets
<1>9. CASE Drain(c)
  BY <1>4, <1>5, <1>9 DEF Drain
<1>10. CASE TimerExpires(c)
  BY <1>4, <1>5, <1>10 DEF TimerExpires, Punctual
<1> QED
  BY <1>3, <1>6, <1>7, <1>8, <1>9, <1>10 DEF Environment

-----------------------------------------------------------------------------
(* The theorems.                                                           *)

\* The invariant is inductive, relative to IInv.
LEMMA KeptInductive ==
  ASSUME Punctual
  PROVE  IInv /\ KInv /\ [Next]_vars => KInv'
<1> SUFFICES ASSUME IInv, KInv, [Next]_vars PROVE KInv'
  OBVIOUS
<1>1. CASE UNCHANGED vars
  BY <1>1, KeptStuttering
<1>2. CASE Finished
  BY <1>2, KeptStuttering DEF Finished
<1>3. ASSUME NEW taken \in SUBSET Event, EpollWait(taken) PROVE KInv'
  BY <1>3, KeptEpollWait
<1>4. CASE OnListen \/ AcceptFails
  BY <1>4, KeptDispatch
<1>5. ASSUME NEW c \in Conn, Handler(c) PROVE KInv'
  BY <1>5, KeptDispatch, KeptOnReadable, KeptOnTimer, KeptAcceptConnection,
     KeptReadData, KeptReadNothing, KeptParseAndCall, KeptInjectEnd,
     KeptWriteSocket DEF Handler
<1>6. ASSUME NEW c \in Conn, Application(c) PROVE KInv'
  BY <1>6, KeptApplication
<1>7. ASSUME NEW c \in Conn, Environment(c) PROVE KInv'
  BY <1>7, KeptEnvironment
<1> QED
  BY <1>1, <1>2, <1>3, <1>4, <1>5, <1>6, <1>7 DEF Next

\* The invariant holds of every behaviour with a punctual application.
LEMMA KeptInvariance ==
  ASSUME Punctual
  PROVE  Spec => []KInv
<1>1. IInv /\ KInv /\ [Next]_vars => KInv'
  BY KeptInductive
<1> QED
  BY <1>1, KeptInitially, Invariance, PTL DEF Spec

\* What an application still has to answer is a connection that exists: the
\* timer (io_events.c:126-129), the only handler that ends a connection the
\* application holds, leaves it alone if the application is punctual.
THEOREM HandlesLive ==
  ASSUME Punctual
  PROVE  Spec => []HandleLive
BY KeptInvariance, Invariance, KInvSuffices, PTL

\* chunk_cb, set by http_request_read_chunk and by http_respond_chunk, is
\* always the one that was set for the call that is made through it.
THEOREM CallbacksRegistered ==
  ASSUME Punctual
  PROVE  Spec => []CallbackRegistered
BY KeptInvariance, Invariance, KInvSuffices, PTL

\* Keep-alive detection finds a request buffer to look into, if the
\* application frees it only after having decided about the connection.
THEOREM NeverFaults ==
  ASSUME Punctual, "free_auto" \notin AppCalls
  PROVE  Spec => []NoFault
<1>1. IInv /\ KInv => NoFault
  BY KInvSuffices
<1> QED
  BY <1>1, KeptInvariance, Invariance, PTL

-----------------------------------------------------------------------------
(* The backlog.                                                            *)

\* accept() never fails for want of a descriptor.
Roomy == Cardinality(Conn) <= FdLimit

\* A connection in the backlog is known: the listening socket is ready, or
\* its event is on its way, or the accept loop is on the stack.
Noticed ==
  Backlog # {} => \/ lready \/ accepting
                  \/ <<"listen", NoConn>> \in batch

\* accept() fails only when there is nothing to accept: a connection in the
\* backlog leaves a descriptor free.
LEMMA AcceptFailsLast ==
  ASSUME Roomy, NEW c \in Backlog
  PROVE  Cardinality(Open) < FdLimit
<1>1. /\ Open \subseteq Conn \ {c} /\ IsFiniteSet(Conn) /\ c \in Conn
  BY ServerAssumption DEF Open, Backlog
<1>2. Cardinality(Conn \ {c}) = Cardinality(Conn) - 1
  BY <1>1, FS_RemoveElement
<1>3. IsFiniteSet(Conn \ {c})
  BY <1>1, FS_RemoveElement
<1>4. /\ Cardinality(Open) <= Cardinality(Conn \ {c})
      /\ Cardinality(Open) \in Nat
  BY <1>1, <1>3, FS_Subset, FS_CardinalityType
<1>5. Cardinality(Conn) \in Nat /\ FdLimit \in Nat
  BY <1>1, FS_CardinalityType, ServerAssumption
<1> QED
  BY <1>2, <1>4, <1>5 DEF Roomy

\* No handler puts a connection into the backlog, leaves the accept loop or
\* takes the event of the listening socket.
LEMMA NoticedHandler ==
  ASSUME IInv, Noticed, NEW c \in Conn, Handler(c)
  PROVE  Noticed'
<1>1. life \in [Conn -> Lives]
  BY DEF IInv, ConnsInv
<1>2. ASSUME \/ life' = life \/ life' = [life EXCEPT ![c] = "open"]
             \/ life' = [life EXCEPT ![c] = "freed"],
             UNCHANGED <<accepting, lready>>,
             <<"listen", NoConn>> \in batch => <<"listen", NoConn>> \in batch'
      PROVE  Noticed'
  <2>1. Backlog' \subseteq Backlog
    BY <1>1, <1>2 DEF Backlog
  <2> QED
    BY <1>2, <2>1 DEF Noticed
<1>3. ASSUME OnReadable(c) \/ OnWritable(c) \/ OnIgnored(c) \/ OnTimer(c)
      PROVE  Noticed'
  <2>1. /\ \/ life' = life \/ life' = [life EXCEPT ![c] = "freed"]
        /\ UNCHANGED accepting
        /\ TakeFromBatch(<<"io", c>>) \/ TakeFromBatch(<<"timer", c>>)
    BY <1>3 DEF OnReadable, OnWritable, OnIgnored, OnTimer, Goto, conns,
                process, TerminateConnection, Return
  <2>2. <<"listen", NoConn>> # <<"io", c>> /\ <<"listen", NoConn>> # <<"timer", c>>
    OBVIOUS
  <2> QED
    BY <1>2, <2>1, <2>2 DEF TakeFromBatch
<1>4. CASE AcceptConnection(c)
  BY <1>2, <1>4 DEF AcceptConnection, BeginRead, BeginWrite, Goto, events
<1>5. CASE ReadData(c)
  BY <1>2, <1>5 DEF ReadData, Goto, events
<1>6. CASE ReadNothing(c)
  BY <1>2, <1>6 DEF ReadNothing, TerminateConnection, Return, Goto, events
<1>7. CASE ParseAndCall(c)
  BY <1>2, <1>7 DEF ParseAndCall, Call, Return, events
<1>8. CASE InjectEnd(c)
  BY <1>2, <1>8 DEF InjectEnd, Call, events
<1>9. CASE WriteSocket(c)
  <2>1. /\ \/ life' = life \/ life' = [life EXCEPT ![c] = "freed"]
        /\ UNCHANGED accepting
    BY <1>9 DEF WriteSocket, BeginRead, Goto, Return, Call,
                TerminateConnection
  <2> QED
    BY <1>2, <1>9, <2>1 DEF WriteSocket, events
<1> QED
  BY <1>3, <1>4, <1>5, <1>6, <1>7, <1>8, <1>9 DEF Handler

\* Nor does the application.
LEMMA NoticedApplication ==
  ASSUME Noticed, NEW c \in Conn, Application(c)
  PROVE  Noticed'
<1>1. UNCHANGED <<life, lready, batch>>
  BY DEF Application, AppRespond, AppRespondChunk, AppRespondChunkEnd,
         AppReadChunk, AppDefer, AppSetConnection, AppFreeBuffer, conns,
         events
<1>2. UNCHANGED accepting
  BY DEF Application, AppRespond, AppRespondChunk, AppRespondChunkEnd,
         AppReadChunk, AppDefer, AppSetConnection, AppFreeBuffer, process,
         BeginRead, BeginWrite, Goto, Return
<1> QED
  BY <1>1, <1>2 DEF Noticed, Backlog

\* No connection in the backlog is forgotten in a step.
LEMMA NoticedInductive ==
  ASSUME Roomy
  PROVE  IInv /\ Noticed /\ [Next]_vars => Noticed'
<1> SUFFICES ASSUME IInv, Noticed, [Next]_vars PROVE Noticed'
  OBVIOUS
<1>1. ASSUME UNCHANGED vars PROVE Noticed'
  BY <1>1 DEF vars, conns, process, events, Noticed, Backlog
<1>2. CASE Finished
  BY <1>1, <1>2 DEF Finished
<1>3. ASSUME NEW taken \in SUBSET Event, EpollWait(taken) PROVE Noticed'
  <2>1. lready /\ ~lready' => <<"listen", NoConn>> \in batch'
    BY <1>3 DEF EpollWait
  <2>2. batch = {} /\ UNCHANGED <<life, accepting>>
    BY <1>3 DEF EpollWait, process
  <2>3. lready \in BOOLEAN /\ lready' \in BOOLEAN
    BY <1>3 DEF EpollWait, IInv, ProcInv
  <2> QED
    BY <2>1, <2>2, <2>3 DEF Noticed, Backlog
<1>4. CASE OnListen
  BY <1>4 DEF OnListen, Noticed
<1>5. CASE AcceptFails
  <2>1. Backlog = {}
    <3>1. Backlog # {} => ~(Cardinality(Open) >= FdLimit)
      <4>1. Cardinality(Open) \in Nat /\ FdLimit \in Nat
        BY ServerAssumption, FS_Subset, FS_CardinalityType DEF Open
      <4> QED
        BY <4>1, AcceptFailsLast
    <3> QED
      BY <1>5, <3>1 DEF AcceptFails
  <2> QED
    BY <1>5, <2>1 DEF AcceptFails, conns, Noticed, Backlog
<1>6. ASSUME NEW c \in Conn, Handler(c) PROVE Noticed'
  BY <1>6, NoticedHandler
<1>7. ASSUME NEW c \in Conn, Application(c) PROVE Noticed'
  BY <1>7, NoticedApplication
<1>8. ASSUME NEW c \in Conn, Environment(c) PROVE Noticed'
  <2>1. CASE Connect(c)
    BY <2>1 DEF Connect, Noticed
  <2>2. CASE ~Connect(c)
    BY <1>8, <2>2
    DEF Environment, ClientSend, ClientCloses, ClientResets, Drain,
        TimerExpires, process, events, Noticed, Backlog
  <2> QED
    BY <2>1, <2>2
<1> QED
  BY <1>1, <1>2, <1>3, <1>4, <1>5, <1>6, <1>7, <1>8 DEF Next

\* The loop never waits in epoll_wait while a connection is in the backlog
\* and nothing tells it so: the edge-triggered listening socket is read until
\* accept() fails (io_events.c:77-84), which with descriptors for every
\* connection it does only when the backlog is empty.
THEOREM BacklogNeverForgotten ==
  ASSUME Roomy
  PROVE  Spec => []BacklogEmptied
<1>1. Init => Noticed
  BY DEF Init, Noticed, Backlog
<1>2. IInv /\ Noticed /\ [Next]_vars => Noticed'
  BY NoticedInductive
<1>3. IInv /\ Noticed => BacklogEmptied
  BY DEF IInv, ProcInv, Noticed, BacklogEmptied, Idle
<1> QED
  BY <1>1, <1>2, <1>3, Invariance, PTL DEF Spec

-----------------------------------------------------------------------------
(* Responses are whole.                                                    *)

\* No client resets its connection, so that no write() has failed with EPIPE
\* and errno cannot tell a later one that it has (write_socket.c:29).
Calm == errno = "other" /\ \A c \in Conn : sock[c].peer # "rst"

\* Nothing but a reset changes the peer to "rst".
LEMMA SamePeer ==
  ASSUME NEW s \in Socket
  PROVE  /\ \A i \in {"in", "out"} : EpollCtl(s, i).peer = s.peer
         /\ EpollCtl(ArmTimer(s), "in").peer = s.peer
         /\ \A q : Arrival(s, q).peer = s.peer
         /\ HalfClose(s).peer = "fin" /\ Drained(s).peer = s.peer
         /\ Expired(s).peer = s.peer /\ NewSocket.peer = "up"
<1>1. /\ ArmTimer(s) \in Socket /\ ArmTimer(s).peer = s.peer
  BY SocketTypes DEF ArmTimer, Socket
<1>2. ASSUME NEW t \in Socket, NEW i \in {"in", "out"}
      PROVE  EpollCtl(t, i).peer = t.peer
  BY DEF EpollCtl, Socket
<1>3. /\ \A q : Arrival(s, q).peer = s.peer
      /\ HalfClose(s).peer = "fin" /\ Drained(s).peer = s.peer
      /\ Expired(s).peer = s.peer /\ NewSocket.peer = "up"
  BY DEF Arrival, HalfClose, Drained, Expired, NewSocket, Socket
<1> QED
  BY <1>1, <1>2, <1>3

\* What a write() of a calm server takes and leaves in errno.
LEMMA CalmWrite ==
  ASSUME Calm, NEW c \in Conn, NEW w \in WriteCall(c)
  PROVE  /\ w[2] = "other"
         /\ \/ w[1] = 0 /\ sock[c].space = 0
            \/ w[1] = Least(Unsent(req[c]), sock[c].space)
BY DEF Calm, WriteCall

\* No handler disturbs the calm.
LEMMA CalmHandler ==
  ASSUME IInv, Calm, NEW c \in Conn, Handler(c)
  PROVE  Calm'
<1>1. sock[c] \in Socket /\ sock \in [Conn -> Socket]
  BY DEF IInv, ConnsInv
<1>2. ASSUME NEW s, s.peer # "rst", errno' = "other",
             sock' = [sock EXCEPT ![c] = s] \/ sock' = sock
      PROVE  Calm'
  BY <1>1, <1>2 DEF Calm
<1>3. sock[c].peer # "rst" /\ NewSocket.peer # "rst" /\ errno = "other"
  BY <1>1, SamePeer DEF Calm
<1>4. CASE OnReadable(c) \/ OnWritable(c) \/ OnIgnored(c)
  BY <1>2, <1>3, <1>4 DEF OnReadable, OnWritable, OnIgnored, conns, server
<1>5. CASE OnTimer(c)
  <2>1. \/ sock' = [sock EXCEPT ![c] = NewSocket]
        \/ sock' = [sock EXCEPT ![c] = [sock[c] EXCEPT !.tick = FALSE]]
    BY <1>5 DEF OnTimer, TerminateConnection
  <2>2. errno' = "other"
    BY <1>3, <1>5 DEF OnTimer
  <2>3. [sock[c] EXCEPT !.tick = FALSE].peer # "rst"
    BY <1>1, <1>3 DEF Socket
  <2> QED
    BY <1>2, <1>3, <2>1, <2>2, <2>3
<1>6. CASE AcceptConnection(c)
  <2> DEFINE s == EpollCtl(ArmTimer(sock[c]), "in")
  <2>1. s \in Socket /\ s.peer # "rst"
    BY <1>1, <1>3, SamePeer, SocketTypes
  <2>2. \/ sock' = [sock EXCEPT ![c] = EpollCtl(s, "in")]
        \/ sock' = [sock EXCEPT ![c] = EpollCtl(s, "out")]
    BY <1>6 DEF AcceptConnection, BeginRead, BeginWrite
  <2>3. errno' = "other"
    BY <1>3, <1>6 DEF AcceptConnection
  <2> HIDE DEF s
  <2> QED
    BY <1>2, <2>1, <2>2, <2>3, SamePeer
<1>7. CASE ReadData(c)
  <2>1. PICK q : sock' = [sock EXCEPT ![c] = [sock[c] EXCEPT !.rx = q]]
    BY <1>7 DEF ReadData
  <2>2. [sock[c] EXCEPT !.rx = q].peer # "rst"
    BY <1>1, <1>3 DEF Socket
  <2> QED
    BY <1>2, <1>3, <1>7, <2>1, <2>2 DEF ReadData
<1>8. CASE ReadNothing(c)
  <2>1. /\ errno' = "other"
        /\ sock' = sock \/ sock' = [sock EXCEPT ![c] = NewSocket]
    BY <1>3, <1>8 DEF ReadNothing, TerminateConnection
  <2> QED
    BY <1>2, <1>3, <2>1
<1>9. CASE ParseAndCall(c) \/ InjectEnd(c)
  BY <1>2, <1>3, <1>9 DEF ParseAndCall, InjectEnd, server
<1>10. CASE WriteSocket(c)
  <2>1. PICK w \in WriteCall(c) :
          LET s == [sock[c] EXCEPT !.space = @ - w[1]]
          IN  /\ errno' = w[2]
              /\ \/ sock' = [sock EXCEPT ![c] = s]
                 \/ sock' = [sock EXCEPT ![c] = EpollCtl(s, "in")]
                 \/ sock' = [sock EXCEPT ![c] = NewSocket]
    BY <1>10 DEF WriteSocket, BeginRead, TerminateConnection
  <2>2. errno' = "other"
    BY <2>1, CalmWrite
  <2> DEFINE s == [sock[c] EXCEPT !.space = @ - w[1]]
  <2>3. s.peer # "rst" /\ EpollCtl(s, "in").peer = s.peer
    BY <1>1, <1>3, SamePeer DEF EpollCtl, Socket
  <2> HIDE DEF s
  <2> QED
    BY <1>2, <1>3, <2>1, <2>2, <2>3 DEF s
<1> QED
  BY <1>4, <1>5, <1>6, <1>7, <1>8, <1>9, <1>10 DEF Handler

\* Nor does anyone else.
LEMMA CalmInductive ==
  ASSUME "rst" \notin Faults
  PROVE  IInv /\ Calm /\ [Next]_vars => Calm'
<1> SUFFICES ASSUME IInv, Calm, [Next]_vars PROVE Calm'
  OBVIOUS
<1>1. sock \in [Conn -> Socket] /\ errno = "other"
  BY DEF IInv, ConnsInv, Calm
<1>2. ASSUME UNCHANGED <<sock, errno>> PROVE Calm'
  BY <1>2 DEF Calm
<1>3. CASE UNCHANGED vars \/ Finished
  BY <1>2, <1>3 DEF Finished, vars, conns, server
<1>4. ASSUME NEW taken \in SUBSET Event, EpollWait(taken) PROVE Calm'
  <2>1. /\ errno' = errno
        /\ \A c \in Conn : \/ sock'[c] = sock[c]
                           \/ sock'[c] = [sock[c] EXCEPT !.ready = FALSE]
    BY <1>4 DEF EpollWait, server
  <2>2. \A c \in Conn : [sock[c] EXCEPT !.ready = FALSE].peer = sock[c].peer
    BY <1>1 DEF Socket
  <2> QED
    BY <1>1, <2>1, <2>2 DEF Calm
<1>5. CASE OnListen \/ AcceptFails
  BY <1>1, <1>2, <1>5 DEF OnListen, AcceptFails, conns, server
<1>6. ASSUME NEW c \in Conn, Handler(c) PROVE Calm'
  BY <1>6, CalmHandler
<1>7. ASSUME NEW c \in Conn, Application(c) PROVE Calm'
  <2>1. /\ errno' = errno
        /\ \/ sock' = sock
           \/ sock' = [sock EXCEPT ![c] = EpollCtl(sock[c], "in")]
           \/ sock' = [sock EXCEPT ![c] = EpollCtl(sock[c], "out")]
    BY <1>7
    DEF Application, AppRespond, AppRespondChunk, AppRespondChunkEnd,
        AppReadChunk, AppDefer, AppSetConnection, AppFreeBuffer, conns,
        server, BeginRead, BeginWrite
  <2> QED
    BY <1>1, <2>1, SamePeer DEF Calm
<1>8. ASSUME NEW c \in Conn, Environment(c) PROVE Calm'
  <2>1. /\ errno' = errno
        /\ \/ sock' = sock
           \/ \E q : sock' = [sock EXCEPT ![c] = Arrival(sock[c], q)]
           \/ sock' = [sock EXCEPT ![c] = HalfClose(sock[c])]
           \/ sock' = [sock EXCEPT ![c] = Drained(sock[c])]
           \/ sock' = [sock EXCEPT ![c] = Expired(sock[c])]
    BY <1>8
    DEF Environment, Connect, ClientSend, ClientCloses, ClientResets, Drain,
        TimerExpires, server
  <2> QED
    BY <1>1, <2>1, SamePeer DEF Calm
<1> QED
  BY <1>3, <1>4, <1>5, <1>6, <1>7, <1>8 DEF Next

\* A connection with a response to send is closed by the timer, or by the
\* write() that takes all that is left.
LEMMA WholeStep ==
  ASSUME IInv, Calm, [Next]_vars, NEW c \in Conn,
         life[c] = "open", life'[c] = "freed", req[c].state = "WRITE"
  PROVE  req[c].timeout = 1 \/ Unsent(req[c]) <= sock[c].space
<1>1. /\ life \in [Conn -> Lives] /\ req[c] \in Request
      /\ sock[c] \in Socket
  BY DEF IInv, ConnsInv
<1>2. /\ Unsent(req[c]) \in Int /\ sock[c].space \in Int
  BY <1>1, SndBufAssumption DEF Unsent, Request, Socket
<1>3. \E d \in Conn : OnTimer(d) \/ ReadNothing(d) \/ WriteSocket(d)
  <2>1. life' # life
    OBVIOUS
  <2>2. ASSUME NEW d \in Conn, life' = [life EXCEPT ![d] = "open"]
                               \/ life' = [life EXCEPT ![d] = "backlog"]
        PROVE  FALSE
    BY <1>1, <2>2
  <2>3. ~Finished /\ ~OnListen /\ ~AcceptFails /\ ~UNCHANGED vars
    BY <2>1 DEF Finished, OnListen, AcceptFails, vars, conns
  <2>4. \A taken \in SUBSET Event : ~EpollWait(taken)
    BY <2>1 DEF EpollWait
  <2>5. ASSUME NEW d \in Conn
        PROVE  ~Application(d) /\ ~Environment(d)
    BY <2>1, <2>2
    DEF Application, AppRespond, AppRespondChunk, AppRespondChunkEnd,
        AppReadChunk, AppDefer, AppSetConnection, AppFreeBuffer, conns,
        Environment, Connect, ClientSend, ClientCloses, ClientResets, Drain,
        TimerExpires
  <2>6. ASSUME NEW d \in Conn
        PROVE  /\ ~OnReadable(d) /\ ~OnWritable(d) /\ ~OnIgnored(d)
               /\ ~AcceptConnection(d) /\ ~ReadData(d) /\ ~ParseAndCall(d)
               /\ ~InjectEnd(d)
    BY <2>1, <2>2
    DEF OnReadable, OnWritable, OnIgnored, AcceptConnection, ReadData,
        ParseAndCall, InjectEnd, conns
  <2> QED
    BY <2>3, <2>4, <2>5, <2>6 DEF Next, Handler
<1>4. PICK d \in Conn : OnTimer(d) \/ ReadNothing(d) \/ WriteSocket(d)
  BY <1>3
<1>5. life' # life /\ (life' = [life EXCEPT ![d] = "freed"] => d = c)
  BY <1>1
<1>6. CASE OnTimer(d)
  <2>1. TimedOut(CountDown(req[d])) /\ d = c
    BY <1>5, <1>6 DEF OnTimer, TerminateConnection
  <2>2. req[c].timeout \in Nat /\ req[c].timeout - 1 = 0
    BY <1>1, <2>1 DEF TimedOut, CountDown, Request
  <2> QED
    BY <2>2
<1>7. CASE ReadNothing(d)
  <2>1. d = c
    BY <1>5, <1>7 DEF ReadNothing, TerminateConnection
  <2>2. req[c].state = "READ"
    BY <1>7, <2>1 DEF ReadNothing, IInv, ProcInv, StateFrame
  <2> QED
    BY <2>2
<1>8. CASE WriteSocket(d)
  <2>1. PICK w \in WriteCall(d) :
          LET r  == [req[d] EXCEPT !.written = @ + w[1]]
              rc == WriteRc(r, w[2])
          IN  /\ rc \notin {"CONTINUE", "SUCCESS", "SUCCESS_CHUNK"}
              /\ life' = [life EXCEPT ![d] = "freed"]
    BY <1>5, <1>8 DEF WriteSocket, TerminateConnection
  <2>2. d = c
    BY <1>5, <2>1
  <2> DEFINE r == [req[c] EXCEPT !.written = @ + w[1]]
  <2>3. Unsent(r) = 0
    BY <2>1, <2>2, CalmWrite DEF WriteRc
  <2>4. Unsent(r) = req[c].len - (req[c].written + w[1])
    BY <1>1 DEF Unsent, Request
  <2>5. w[1] = Unsent(req[c])
    <3>1. req[c].len \in Nat /\ req[c].written \in Nat /\ w[1] \in Int
      BY <1>1, <1>2, <2>2, CalmWrite DEF Request, Least
    <3> QED
      BY <2>3, <2>4, <3>1 DEF Unsent
  <2> QED
    BY <1>2, <2>2, <2>5, CalmWrite DEF Least
<1> QED
  BY <1>4, <1>6, <1>7, <1>8

\* While no client resets its connection, a response is cut only by the
\* timer: hs_write_socket and its caller (io_events.c:42-69) close the
\* connection after the last byte has gone, however the response was divided.
THEOREM ResponsesWhole ==
  ASSUME "rst" \notin Faults
  PROVE  Spec => ResponseNotCut
<1>1. Init => Calm
  <2>1. NewSocket.peer # "rst"
    BY DEF NewSocket
  <2> QED
    BY <2>1 DEF Init, Calm
<1>2. IInv /\ Calm /\ [Next]_vars => Calm'
  BY CalmInductive
<1>3. IInv /\ Calm /\ [Next]_vars =>
        [\A c \in Conn :
           life[c] = "open" /\ life'[c] = "freed" /\ req[c].state = "WRITE" =>
             \/ sock[c].peer = "rst" \/ req[c].timeout = 1
             \/ Unsent(req[c]) <= sock[c].space]_vars
  BY WholeStep
<1> QED
  BY <1>1, <1>2, <1>3, Invariance, PTL DEF Spec, ResponseNotCut
=============================================================================
