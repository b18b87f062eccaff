--------------------------- MODULE KeepAlive_proofs ---------------------------
(***************************************************************************)
(* The proof that a response keeps the connection alive exactly if the     *)
(* request it answers asked for it, where the requests of one client all   *)
(* have the same head.  The code never empties the token array, so that    *)
(* detection finds the tokens of earlier requests first; here these agree  *)
(* with the latest.                                                        *)
(*                                                                         *)
(* The invariant for it, Honest of each connection, adds to IInv and KInv  *)
(* what the tokens and the flags say of the client's head.                 *)
(***************************************************************************)
EXTENDS Handle_proofs

\* The flag says what the head asks for.
Agreed(r, head) == "KEEP_ALIVE" \in r.flags <=> head.conn # "close"

\* All tokens are of heads like the client's, and what is being answered has
\* the flag that this head asks for.
Honest(r, a, k) ==
  /\ \A i \in 1 .. Len(r.tokens) : r.tokens[i] = k.head
  /\ InspectsBuffer(r) /\ (r.state = "WRITE" \/ a.held = "notify") =>
       Agreed(r, k.head)

AllHonest == \A c \in Conn : Honest(req[c], app[c], client[c])
-----------------------------------------------------------------------------
(* What the operators do to tokens and flags.                              *)

\* Detection among tokens that all say the same.
LEMMA DetectsExactly ==
  ASSUME NEW tokens \in Seq(RequestHead), tokens # <<>>, NEW head,
         \A i \in 1 .. Len(tokens) : tokens[i] = head
  PROVE  DetectsClose(tokens) <=> head.conn = "close"
<1> DEFINE n == Len(tokens)
           I == {i \in 1 .. n : /\ tokens[i].conn # "none"
                                /\ tokens[n].conn # "none"
                                /\ tokens[i].line = tokens[n].line}
           i == ConnectionToken(tokens)
<1>1. n \in Nat /\ n # 0 /\ n \in 1 .. n /\ 1 \in 1 .. n
  OBVIOUS
<1>2. tokens[n] = head /\ tokens[1] = head
  BY <1>1
<1>3. i = IF I # {} THEN CHOOSE x \in I : \A y \in I : x =< y ELSE 0
  BY DEF ConnectionToken, SelectInSeq, Min
<1>4. CASE head.conn = "none"
  <2>1. I = {}
    BY <1>2, <1>4
  <2>2. i = 0
    BY <1>3, <2>1
  <2> QED
    BY <1>2, <1>4, <2>2 DEF DetectsClose
<1>5. CASE head.conn # "none"
  <2>1. 1 \in I /\ \A y \in I : 1 <= y
    BY <1>1, <1>2, <1>5
  <2> HIDE DEF I
  <2>2. i \in I
    BY <1>3, <2>1
  <2>3. i \in 1 .. n /\ i # 0
    BY <2>2 DEF I
  <2>4. tokens[i] = head
    BY <2>3
  <2> QED
    BY <1>2, <2>3, <2>4 DEF DetectsClose
<1> QED
  BY <1>4, <1>5

\* Serializing the headers sets the flag accordingly, if it looks at all.
LEMMA SerializeAgrees ==
  ASSUME NEW r \in Request, NEW head,
         \A i \in 1 .. Len(r.tokens) : r.tokens[i] = head
  PROVE  /\ SerializeHeaders(r) \in Request
         /\ SerializeHeaders(r).tokens = r.tokens
         /\ \A f \in {"AUTOMATIC", "CHUNKED_RESPONSE"} :
              f \in SerializeHeaders(r).flags <=> f \in r.flags
         /\ InspectsBuffer(r) => Agreed(SerializeHeaders(r), head)
<1> DEFINE fl == IF DetectsClose(r.tokens) THEN r.flags \ {"KEEP_ALIVE"}
                                           ELSE r.flags \cup {"KEEP_ALIVE"}
           q == [r EXCEPT !.flags = fl]
<1>1. fl \in SUBSET Flag
  BY DEF Request, Flag
<1>2. q \in Request /\ q.tokens = r.tokens /\ q.flags = fl
  BY <1>1 DEF Request
<1>3. \A f \in {"AUTOMATIC", "CHUNKED_RESPONSE"} : f \in fl <=> f \in r.flags
  OBVIOUS
<1>4. InspectsBuffer(r) => ("KEEP_ALIVE" \in fl <=> head.conn # "close")
  BY DetectsExactly DEF InspectsBuffer, Request
<1>5. SerializeHeaders(r) = IF InspectsBuffer(r) THEN q ELSE r
  BY DEF SerializeHeaders, DetectKeepAlive
<1> HIDE DEF fl, q
<1> QED
  BY <1>2, <1>3, <1>4, <1>5 DEF Agreed

\* _http_perform_response leaves tokens and flags alone.
LEMMA PerformKeeps ==
  ASSUME NEW r \in Request, NEW n \in Nat
  PROVE  /\ PerformResponse(r, n).tokens = r.tokens
         /\ PerformResponse(r, n).flags = r.flags
BY DEF PerformResponse, BufferFree, Request

\* What a request keeps of tokens and flags with q for r.
Kin(q, r) ==
  /\ q.tokens = r.tokens
  /\ \A f \in {"KEEP_ALIVE", "AUTOMATIC"} : f \in q.flags <=> f \in r.flags

\* A response, or the first chunk of one, gets the flag the head asks for;
\* what follows in a chunked response keeps it.
LEMMA RespondAgrees ==
  ASSUME NEW r \in Request, NEW n \in Nat, NEW head,
         \A i \in 1 .. Len(r.tokens) : r.tokens[i] = head
  PROVE  /\ \A q \in {Respond(r, n), RespondChunk(r, n)} :
              q.tokens = r.tokens
         /\ InspectsBuffer(Respond(r, n)) => Agreed(Respond(r, n), head)
         /\ "CHUNKED_RESPONSE" \notin r.flags
              /\ InspectsBuffer(RespondChunk(r, n)) =>
                Agreed(RespondChunk(r, n), head)
         /\ "CHUNKED_RESPONSE" \in r.flags => Kin(RespondChunk(r, n), r)
         /\ Kin(RespondChunkEnd(r, n), r)
<1> DEFINE f == [r EXCEPT !.flags = @ \cup {"CHUNKED_RESPONSE"}]
           g == [r EXCEPT !.flags = @ \ {"CHUNKED_RESPONSE"}]
<1>1. /\ f \in Request /\ f.tokens = r.tokens
      /\ f.flags = r.flags \cup {"CHUNKED_RESPONSE"}
      /\ g \in Request /\ g.tokens = r.tokens
      /\ g.flags = r.flags \ {"CHUNKED_RESPONSE"}
  BY DEF Request, Flag
<1>2. Respond(r, n) = PerformResponse(SerializeHeaders(r), n)
  BY DEF Respond
<1>3. RespondChunk(r, n) =
        IF "CHUNKED_RESPONSE" \in r.flags
        THEN PerformResponse([r EXCEPT !.cb = "write"], n)
        ELSE PerformResponse([SerializeHeaders(f) EXCEPT !.cb = "write"], n)
  BY DEF RespondChunk
<1>4. RespondChunkEnd(r, n) = PerformResponse(g, n)
  BY DEF RespondChunkEnd
<1> HIDE DEF f, g
<1>5. ASSUME NEW q \in Request
      PROVE  /\ [q EXCEPT !.cb = "write"] \in Request
             /\ [q EXCEPT !.cb = "write"].tokens = q.tokens
             /\ [q EXCEPT !.cb = "write"].flags = q.flags
  BY DEF Request
<1>6. /\ Respond(r, n).tokens = r.tokens
      /\ InspectsBuffer(Respond(r, n)) => Agreed(Respond(r, n), head)
  <2> DEFINE q == SerializeHeaders(r)
  <2>1. /\ q \in Request /\ q.tokens = r.tokens
        /\ "AUTOMATIC" \in q.flags <=> "AUTOMATIC" \in r.flags
        /\ InspectsBuffer(r) => Agreed(q, head)
    BY SerializeAgrees
  <2> HIDE DEF q
  <2>2. PerformResponse(q, n).tokens = q.tokens
        /\ PerformResponse(q, n).flags = q.flags
    BY <2>1, PerformKeeps
  <2> QED
    BY <1>2, <2>1, <2>2 DEF q, InspectsBuffer, Agreed
<1>7. CASE "CHUNKED_RESPONSE" \in r.flags
  <2> DEFINE q == [r EXCEPT !.cb = "write"]
  <2>1. q \in Request /\ q.tokens = r.tokens /\ q.flags = r.flags
    BY <1>5
  <2>2. RespondChunk(r, n) = PerformResponse(q, n)
    BY <1>3, <1>7
  <2> HIDE DEF q
  <2>3. PerformResponse(q, n).tokens = q.tokens
        /\ PerformResponse(q, n).flags = q.flags
    BY <2>1, PerformKeeps
  <2>4. Kin(RespondChunk(r, n), r)
    BY <2>1, <2>2, <2>3 DEF Kin
  <2>5. Kin(RespondChunkEnd(r, n), r)
    BY <1>1, <1>4, PerformKeeps DEF Kin
  <2> QED
    BY <1>6, <1>7, <2>4, <2>5 DEF Kin
<1>8. CASE "CHUNKED_RESPONSE" \notin r.flags
  <2> DEFINE q == SerializeHeaders(f)
             p == [q EXCEPT !.cb = "write"]
  <2>1. /\ q \in Request /\ q.tokens = r.tokens
        /\ "AUTOMATIC" \in q.flags <=> "AUTOMATIC" \in f.flags
        /\ InspectsBuffer(f) => Agreed(q, head)
    BY <1>1, SerializeAgrees
  <2>2. RespondChunk(r, n) = PerformResponse(p, n)
    BY <1>3, <1>8
  <2> HIDE DEF q
  <2>3. p \in Request /\ p.tokens = q.tokens /\ p.flags = q.flags
    BY <1>5, <2>1
  <2> HIDE DEF p
  <2>4. PerformResponse(p, n).tokens = p.tokens
        /\ PerformResponse(p, n).flags = p.flags
    BY <2>3, PerformKeeps
  <2>5. /\ RespondChunk(r, n).tokens = r.tokens
        /\ InspectsBuffer(RespondChunk(r, n)) =>
             Agreed(RespondChunk(r, n), head)
    <3>1. /\ RespondChunk(r, n).tokens = r.tokens
          /\ RespondChunk(r, n).flags = q.flags
      BY <2>1, <2>2, <2>3, <2>4
    <3>2. InspectsBuffer(RespondChunk(r, n)) => InspectsBuffer(f)
      BY <1>1, <2>1, <3>1 DEF InspectsBuffer
    <3> QED
      BY <2>1, <3>1, <3>2 DEF Agreed
  <2>6. Kin(RespondChunkEnd(r, n), r)
    BY <1>1, <1>4, PerformKeeps DEF Kin
  <2> QED
    BY <1>6, <1>8, <2>5, <2>6
<1> QED
  BY <1>7, <1>8

\* The steps of reading and writing leave both alone.
LEMMA OthersKin ==
  ASSUME NEW r \in Request, NEW rc, NEW b
  PROVE  /\ Kin(EnterRead(r), r) /\ Kin(EndRead(r), r)
         /\ Kin(CountDown(r), r) /\ Kin(BufferFree(r), r)
         /\ Kin(ExecCallback(r), r) /\ Kin([r EXCEPT !.cb = b], r)
         /\ Kin(AfterWrite(r, rc), r)
         /\ \A f \in Seq(Fragment) : Kin(Receive(r, f), r)
<1>1. /\ Kin(EndRead(r), r) /\ Kin(CountDown(r), r) /\ Kin(BufferFree(r), r)
      /\ Kin(ExecCallback(r), r) /\ Kin([r EXCEPT !.cb = b], r)
  BY DEF Kin, EndRead, CountDown, BufferFree, ExecCallback, Request
<1>2. Kin(EnterRead(r), r)
  <2> DEFINE q == [r EXCEPT !.state = "READ", !.timeout = REQUEST_TIMEOUT]
  <2>1. q \in Request /\ Kin(q, r)
    BY ConnectionAssumption DEF Kin, Request
  <2>2. EnterRead(r) = IF HasBuffer(r) THEN q ELSE BufferInit(q)
    BY DEF EnterRead
  <2> HIDE DEF q
  <2>3. Kin(BufferInit(q), q)
    BY <2>1 DEF Kin, BufferInit, Request
  <2> QED
    BY <2>1, <2>2, <2>3 DEF Kin
<1>3. Kin(AfterWrite(r, rc), r)
  <2> DEFINE t == IF rc = "SUCCESS" THEN KEEPALIVE_TIMEOUT
                                    ELSE REQUEST_TIMEOUT
             q == [r EXCEPT !.timeout = t]
  <2>1. q \in Request /\ Kin(q, r)
    <3>1. t \in Nat
      BY ConnectionAssumption
    <3> HIDE DEF t
    <3> QED
      BY <3>1 DEF Kin, Request
  <2>2. AfterWrite(r, rc) = IF rc = "CONTINUE" THEN q ELSE BufferFree(q)
    BY DEF AfterWrite
  <2> HIDE DEF q
  <2>3. Kin(BufferFree(q), q)
    BY <2>1 DEF Kin, BufferFree, Request
  <2> QED
    BY <2>1, <2>2, <2>3 DEF Kin
<1>4. ASSUME NEW f \in Seq(Fragment) PROVE Kin(Receive(r, f), r)
  <2> DEFINE t == [r EXCEPT !.len = @ + Len(f), !.pending = @ \o f]
  <2>1. /\ t.tokens = r.tokens /\ t.flags = r.flags
        /\ \A m : /\ [t EXCEPT !.cap = m].tokens = r.tokens
                  /\ [t EXCEPT !.cap = m].flags = r.flags
    BY DEF Request
  <2>2. \E m : Receive(r, f) \in {t, [t EXCEPT !.cap = m]}
    BY DEF Receive, GrowBuffer
  <2> HIDE DEF t
  <2> QED
    BY <2>1, <2>2 DEF Kin
<1> QED
  BY <1>1, <1>2, <1>3, <1>4
-----------------------------------------------------------------------------
(* What keeps a connection honest.                                         *)

\* The ways it stays so: nothing was parsed yet; nothing is being answered;
\* what is being answered was before, with the same flags.
LEMMA HonestWays ==
  ASSUME NEW q, NEW b, NEW h
  PROVE  /\ q.tokens = <<>> => Honest(q, b, h)
         /\ (\A i \in 1 .. Len(q.tokens) : q.tokens[i] = h.head)
              /\ q.state # "WRITE" /\ b.held # "notify" => Honest(q, b, h)
         /\ \A r, a, k :
              /\ Honest(r, a, k) /\ Kin(q, r) /\ h.head = k.head
              /\ q.state = "WRITE" \/ b.held = "notify" =>
                   r.state = "WRITE" \/ a.held = "notify"
              => Honest(q, b, h)
<1>1. q.tokens = <<>> => Honest(q, b, h)
  BY DEF Honest, InspectsBuffer
<1>2. (\A i \in 1 .. Len(q.tokens) : q.tokens[i] = h.head)
        /\ q.state # "WRITE" /\ b.held # "notify" => Honest(q, b, h)
  BY DEF Honest
<1>3. ASSUME NEW r, NEW a, NEW k, Honest(r, a, k), Kin(q, r),
             h.head = k.head,
             q.state = "WRITE" \/ b.held = "notify" =>
               r.state = "WRITE" \/ a.held = "notify"
      PROVE  Honest(q, b, h)
  <2>1. InspectsBuffer(q) <=> InspectsBuffer(r)
    BY <1>3 DEF Kin, InspectsBuffer
  <2>2. Agreed(q, h.head) <=> Agreed(r, k.head)
    BY <1>3 DEF Kin, Agreed
  <2>3. \A i \in 1 .. Len(q.tokens) : q.tokens[i] = h.head
    BY <1>3 DEF Kin, Honest
  <2> QED
    BY <1>3, <2>1, <2>2, <2>3 DEF Honest
<1> QED
  BY <1>1, <1>2, <1>3

\* A step that leaves every entry but that of c alone keeps AllHonest if it
\* keeps c honest.
LEMMA HonestUpdate ==
  ASSUME AllHonest, NEW c \in Conn,
         \A d \in Conn \ {c} : /\ req'[d] = req[d] /\ app'[d] = app[d]
                               /\ client'[d] = client[d],
         Honest(req'[c], app'[c], client'[c])
  PROVE  AllHonest'
<1>1. ASSUME NEW d \in Conn
      PROVE  Honest(req'[d], app'[d], client'[d])
  BY DEF AllHonest
<1> QED
  BY <1>1 DEF AllHonest

\* Most steps give connection c the request q and change nothing else that
\* AllHonest speaks of.
LEMMA HonestRequest ==
  ASSUME IInv, AllHonest, NEW c \in Conn, NEW q,
         req' = [req EXCEPT ![c] = q], UNCHANGED client,
         \A d \in Conn \ {c} : app'[d] = app[d],
         Honest(q, app'[c], client[c])
  PROVE  AllHonest'
<1>1. req'[c] = q /\ \A d \in Conn \ {c} : req'[d] = req[d]
  BY DEF IInv, ConnsInv
<1> QED
  BY <1>1, HonestUpdate

\* The parser adds at most the head it was given.
LEMMA ParseTokens ==
  ASSUME NEW r \in Request, NEW head
  PROVE  Parse(r, head).req.tokens \in {r.tokens, Append(r.tokens, head)}
<1> DEFINE f    == Head(r.pending)
           rest == Tail(r.pending)
<1>1. ASSUME NEW q, DOMAIN q = DOMAIN r, NEW pst, NEW x, NEW call
      PROVE  /\ Token(q, pst, x, call).req.tokens = q.tokens
             /\ NoToken(q, pst, x).req.tokens = q.tokens
  BY <1>1 DEF Token, NoToken, Request
<1>2. ASSUME NEW q, DOMAIN q = DOMAIN r, NEW x
      PROVE  ParseSmall(q, x).req.tokens = q.tokens
  BY <1>1, <1>2 DEF ParseSmall
<1>3. ParseStart(r, f, rest, head).req.tokens
        \in {r.tokens, Append(r.tokens, head)}
  <2> DEFINE q == PushTokens(r, head)
             s == [q EXCEPT !.flags = @ \cup {STREAMED}]
             t == ResizeFor(q, f)
  <2>1. DOMAIN q = DOMAIN r /\ q.tokens = Append(r.tokens, head)
    BY DEF PushTokens, Request
  <2>2. ParseStart(r, f, rest, head) =
          CASE f = "get"                 -> Token(s, "nobody", rest, "request")
            [] f = "stream"              -> Token(s, "chunked", rest, "headers")
            [] f = "large"               -> Token(s, "large", rest, "headers")
            [] f \in {"head", "bighead"} -> ParseSmall(t, rest)
            [] OTHER                     -> NoToken(r, "error", rest)
    BY DEF ParseStart
  <2> HIDE DEF q
  <2>3. /\ DOMAIN s = DOMAIN r /\ s.tokens = Append(r.tokens, head)
        /\ DOMAIN t = DOMAIN r /\ t.tokens = Append(r.tokens, head)
    BY <2>1 DEF ResizeFor, Request
  <2> HIDE DEF s, t, f, rest
  <2>4. \A pst, x, call : /\ Token(s, pst, x, call).req.tokens = s.tokens
                          /\ NoToken(r, pst, x).req.tokens = r.tokens
    BY <1>1, <2>3
  <2>5. ParseSmall(t, rest).req.tokens = t.tokens
    BY <1>2, <2>3
  <2> QED
    BY <2>2, <2>3, <2>4, <2>5
<1>4. ParseChunked(r, f, rest).req.tokens = r.tokens
  BY <1>1 DEF ParseChunked
<1>5. ParseLarge(r).req.tokens = r.tokens
  <2> DEFINE q == [r EXCEPT !.len = 1, !.gap = 0]
  <2>1. DOMAIN q = DOMAIN r /\ q.tokens = r.tokens
    BY DEF Request
  <2>2. ParseLarge(r) \in {Token(r, "done", r.pending, "last"),
                           Token(q, "large", <<>>, "chunk")}
    BY DEF ParseLarge
  <2> HIDE DEF q
  <2> QED
    BY <1>1, <2>1, <2>2
<1>6. \/ Parse(r, head) = [req |-> r, call |-> "none"]
      \/ Parse(r, head) = NoToken(r, r.pst, <<>>)
      \/ Parse(r, head) = ParseStart(r, f, rest, head)
      \/ Parse(r, head) = ParseSmall(r, r.pending)
      \/ Parse(r, head) = ParseChunked(r, f, rest)
      \/ Parse(r, head) = ParseLarge(r)
      \/ Parse(r, head) = NoToken(r, "error", r.pending)
  BY DEF Parse
<1> HIDE DEF f, rest
<1>7. \A pst, x : NoToken(r, pst, x).req.tokens = r.tokens
  BY <1>1
<1>8. ParseSmall(r, r.pending).req.tokens = r.tokens
  BY <1>2
<1>9. [req |-> r, call |-> "none"].req.tokens = r.tokens
  OBVIOUS
<1> QED
  BY <1>3, <1>4, <1>5, <1>6, <1>7, <1>8, <1>9
-----------------------------------------------------------------------------
(* The actions.                                                            *)

\* No request has been parsed yet, and no client sent one.
LEMMA HonestInitially == Init => AllHonest
<1> SUFFICES ASSUME Init, NEW c \in Conn
             PROVE  Honest(req[c], app[c], client[c])
  BY DEF AllHonest
<1>1. req[c].tokens = <<>>
  BY DEF Init, RequestInit
<1> QED
  BY <1>1, HonestWays

\* A connection that is ended is as it was in the beginning.
LEMMA HonestTerminate ==
  ASSUME IInv, AllHonest, NEW c \in Conn, TerminateConnection(c),
         UNCHANGED <<app, client>>
  PROVE  AllHonest'
<1>1. req' = [req EXCEPT ![c] = RequestInit] /\ RequestInit.tokens = <<>>
  BY DEF TerminateConnection, RequestInit
<1> QED
  BY <1>1, HonestWays, HonestRequest

\* The handlers that read: nothing is answered, no token is touched.
LEMMA HonestReading ==
  ASSUME IInv, AllHonest, NEW c \in Conn,
         OnReadable(c) \/ OnTimer(c) \/ ReadData(c) \/ ReadNothing(c)
  PROVE  AllHonest'
<1>1. /\ req[c] \in Request /\ Honest(req[c], app[c], client[c])
      /\ UNCHANGED <<app, client>>
  BY DEF OnReadable, OnTimer, ReadData, ReadNothing, IInv, ConnsInv,
         AllHonest
<1>2. ASSUME NEW q, Kin(q, req[c]), req' = [req EXCEPT ![c] = q],
             q.state = "WRITE" => req[c].state = "WRITE"
      PROVE  AllHonest'
  BY <1>1, <1>2, HonestWays, HonestRequest
<1>3. CASE TerminateConnection(c)
  BY <1>1, <1>3, HonestTerminate
<1>4. CASE OnReadable(c)
  <2>1. req' = [req EXCEPT ![c] = EnterRead(req[c])]
    BY <1>4 DEF OnReadable
  <2>2. Kin(EnterRead(req[c]), req[c]) /\ EnterRead(req[c]).state = "READ"
    BY <1>1, OthersKin, EnterReadType
  <2> QED
    BY <1>2, <2>1, <2>2
<1>5. CASE OnTimer(c) /\ ~TerminateConnection(c)
  <2>1. req' = [req EXCEPT ![c] = CountDown(req[c])]
    BY <1>5 DEF OnTimer
  <2>2. Kin(CountDown(req[c]), req[c])
        /\ CountDown(req[c]).state = req[c].state
    BY <1>1, OthersKin DEF CountDown, Request
  <2> QED
    BY <1>2, <2>1, <2>2
<1>6. CASE ReadData(c)
  <2> DEFINE n == Least(req[c].cap - req[c].len, Len(sock[c].rx))
             f == SubSeq(sock[c].rx, 1, n)
             r == Receive(req[c], f)
             q == IF ReadsOn(n, r) THEN r ELSE EndRead(r)
  <2>1. n > 0 /\ req' = [req EXCEPT ![c] = q]
    BY <1>6 DEF ReadData
  <2>2. f \in Seq(Fragment)
    <3>1. sock[c].rx \in Seq(Fragment) /\ Len(sock[c].rx) \in Nat
      BY DEF IInv, ConnsInv, Socket
    <3>2. req[c].cap - req[c].len \in Int
      BY <1>1 DEF Request
    <3>3. n \in 1 .. Len(sock[c].rx)
      BY <2>1, <3>1, <3>2, LeastBounds
    <3> HIDE DEF n
    <3> QED
      BY <3>1, <3>3
  <2> HIDE DEF n, f
  <2>3. r \in Request /\ Kin(r, req[c]) /\ Alike(r, req[c])
    BY <1>1, <2>2, ReadTypes, OthersKin
  <2> HIDE DEF r
  <2>4. Kin(EndRead(r), r) /\ Alike(EndRead(r), r)
    BY <2>3, ReadTypes, OthersKin
  <2>5. Kin(q, req[c]) /\ q.state = req[c].state
    BY <2>3, <2>4 DEF Kin, Alike
  <2> HIDE DEF q
  <2> QED
    BY <1>2, <2>1, <2>5
<1>7. CASE ReadNothing(c) /\ ~TerminateConnection(c)
  <2>1. req' = [req EXCEPT ![c] = EndRead(req[c])]
    BY <1>7 DEF ReadNothing
  <2>2. Kin(EndRead(req[c]), req[c]) /\ Alike(EndRead(req[c]), req[c])
    BY <1>1, OthersKin, ReadTypes
  <2> QED
    BY <1>2, <2>1, <2>2 DEF Alike
<1> QED
  BY <1>3, <1>4, <1>5, <1>6, <1>7

\* A 503 is sent before anything was parsed.
LEMMA HonestAccept ==
  ASSUME IInv, AllHonest, NEW c \in Conn, AcceptConnection(c)
  PROVE  AllHonest'
<1>1. PICK q : /\ req' = [req EXCEPT ![c] = q]
               /\ \/ q = EnterRead(RequestInit)
                  \/ \E n \in OutLens : q = Respond(RequestInit, n)
  BY DEF AcceptConnection, BeginRead, BeginWrite
<1>2. /\ RequestInit \in Request /\ RequestInit.tokens = <<>>
      /\ \A n \in OutLens : n \in Nat
      /\ \A i \in 1 .. Len(RequestInit.tokens) :
           RequestInit.tokens[i] = client[c].head
  BY InitTypes, ServerAssumption DEF RequestInit
<1>3. \A n \in OutLens : Respond(RequestInit, n).tokens = <<>>
  BY <1>2, RespondAgrees
<1>4. EnterRead(RequestInit).tokens = <<>>
  BY <1>2, OthersKin DEF Kin
<1>5. q.tokens = <<>> /\ UNCHANGED <<app, client>>
  BY <1>1, <1>3, <1>4 DEF AcceptConnection
<1> QED
  BY <1>1, <1>5, HonestWays, HonestRequest

\* The parser adds the head of the client's request, and calls the
\* application before it answers.
LEMMA HonestParse ==
  ASSUME IInv, AllHonest, NEW c \in Conn, ParseAndCall(c) \/ InjectEnd(c)
  PROVE  AllHonest'
<1> DEFINE head == client[c].head
           o    == Parse(req[c], head)
<1>1. /\ req[c] \in Request /\ Honest(req[c], app[c], client[c])
      /\ app \in [Conn -> App] /\ UNCHANGED client
      /\ req[c].tokens \in Seq(RequestHead)
  BY DEF ParseAndCall, InjectEnd, IInv, ConnsInv, AllHonest, Request
<1>2. \A i \in 1 .. Len(req[c].tokens) : req[c].tokens[i] = head
  BY <1>1 DEF Honest
<1>3. ASSUME NEW q, req' = [req EXCEPT ![c] = q], q.state # "WRITE",
             \A i \in 1 .. Len(q.tokens) : q.tokens[i] = head,
             NEW h \in {app[c].held, "request", "complete", "body"},
             h # "notify", app' = [app EXCEPT ![c].held = h]
      PROVE  AllHonest'
  <2>1. /\ app'[c].held # "notify"
        /\ \A d \in Conn \ {c} : app'[d] = app[d]
    BY <1>1, <1>3 DEF App
  <2> QED
    BY <1>1, <1>3, <2>1, HonestWays, HonestRequest
<1>4. ParseAndCall(c) => app[c].held # "notify"
  BY DEF ParseAndCall, IInv, ConnsInv, ProcInv, StateFrame, Sound, Open
<1>5. CASE ParseAndCall(c)
  <2>1. head \in RequestHead
    BY ServerAssumption DEF IInv, ConnsInv, Client, Heads, RequestHead
  <2>2. o.req \in Request /\ o.req.state = "READ"
    <3>1. Buffered(req[c]) /\ req[c].state = "READ"
      BY <1>5 DEF ParseAndCall, IInv, ConnsInv, ProcInv, StateFrame, Sound
    <3> QED
      BY <1>1, <2>1, <3>1, ParseType DEF GoodOutcome, Alike
  <2>3. o.req.tokens \in {req[c].tokens, Append(req[c].tokens, head)}
    BY <1>1, ParseTokens
  <2>4. \A i \in 1 .. Len(o.req.tokens) : o.req.tokens[i] = head
    <3> DEFINE t == req[c].tokens
    <3>1. /\ Len(Append(t, head)) = Len(t) + 1
          /\ \A i \in 1 .. Len(t) + 1 :
               Append(t, head)[i] = IF i <= Len(t) THEN t[i] ELSE head
      BY <1>1, <2>1
    <3>2. \A i \in 1 .. Len(Append(t, head)) : Append(t, head)[i] = head
      BY <1>1, <1>2, <3>1
    <3> HIDE DEF o
    <3> QED
      BY <1>2, <2>3, <3>2
  <2>5. CASE o.call = "none"
    <3>1. req' = [req EXCEPT ![c] = o.req] /\ UNCHANGED app
      BY <1>5, <2>5 DEF ParseAndCall
    <3>2. app' = [app EXCEPT ![c].held = app[c].held]
      BY <1>1, <3>1 DEF App
    <3> HIDE DEF o
    <3> QED
      BY <1>3, <1>4, <1>5, <2>2, <2>4, <3>1, <3>2
  <2>6. CASE o.call # "none"
    <3>1. PICK h \in {"request", "complete", "body"} :
            /\ req' = [req EXCEPT ![c] = ExecCallback(o.req)]
            /\ app' = [app EXCEPT ![c].held = h]
      BY <1>5, <2>6 DEF ParseAndCall, Call
    <3> HIDE DEF o
    <3>2. /\ ExecCallback(o.req).state = "NOP"
          /\ ExecCallback(o.req).tokens = o.req.tokens
      BY <2>2 DEF ExecCallback, Request
    <3> QED
      BY <1>3, <2>4, <3>1, <3>2
  <2> QED
    BY <2>5, <2>6
<1>6. CASE InjectEnd(c)
  <2>1. /\ req' = [req EXCEPT ![c] = ExecCallback(req[c])]
        /\ app' = [app EXCEPT ![c].held = "complete"]
    BY <1>6 DEF InjectEnd, Call
  <2>2. /\ ExecCallback(req[c]).state = "NOP"
        /\ ExecCallback(req[c]).tokens = req[c].tokens
    BY <1>1 DEF ExecCallback, Request
  <2> QED
    BY <1>2, <1>3, <2>1, <2>2
<1> QED
  BY <1>5, <1>6
\* A write() keeps what is being answered, or ends it: the chunk that was
\* written is reported with the flags it was written with.
LEMMA HonestWriteSocket ==
  ASSUME IInv, AllHonest, NEW c \in Conn, WriteSocket(c)
  PROVE  AllHonest'
<1>1. /\ req[c] \in Request /\ Honest(req[c], app[c], client[c])
      /\ req[c].state = "WRITE" /\ app[c].held = "none"
      /\ app \in [Conn -> App] /\ client \in [Conn -> Client]
  BY DEF WriteSocket, IInv, ConnsInv, ProcInv, StateFrame, Sound, Open,
         AllHonest
<1>2. PICK w \in WriteCall(c) :
        LET r  == [req[c] EXCEPT !.written = @ + w[1]]
            rc == WriteRc(r, w[2])
            q  == AfterWrite(r, rc)
        IN  \/ /\ req' = [req EXCEPT ![c] = q]
               /\ UNCHANGED <<app, client>>
            \/ /\ req' = [req EXCEPT ![c] = EnterRead(q)]
               /\ client' = [client EXCEPT ![c] = Answered(client[c])]
               /\ UNCHANGED app
            \/ /\ req' = [req EXCEPT ![c] = ExecCallback(q)]
               /\ app' = [app EXCEPT ![c].held = "notify"]
               /\ UNCHANGED client
            \/ TerminateConnection(c) /\ UNCHANGED <<app, client>>
  BY DEF WriteSocket, BeginRead, Call
<1> DEFINE r  == [req[c] EXCEPT !.written = @ + w[1]]
           q  == AfterWrite(r, WriteRc(r, w[2]))
<1>3. r \in Request
  <2> DEFINE m == Least(Unsent(req[c]), sock[c].space)
  <2>1. /\ req[c].len \in Nat /\ req[c].written \in Nat
        /\ req[c].written <= req[c].len /\ sock[c].space \in Nat
    <3>1. req[c].written <= req[c].len /\ sock[c] \in Socket
      BY <1>1 DEF IInv, ConnsInv, Sound, Sent
    <3> QED
      BY <1>1, <3>1, SndBufAssumption DEF Request, Socket
  <2>2. m \in Nat
    BY <2>1 DEF Least, Unsent
  <2>3. w \in {<<0, "EPIPE">>, <<0, "other">>, <<m, errno>>}
    BY DEF WriteCall
  <2> HIDE DEF m
  <2>4. w[1] \in Nat
    BY <2>2, <2>3
  <2>5. req[c].written + w[1] \in Nat
    BY <2>1, <2>4
  <2> QED
    BY <1>1, <2>5 DEF Request
<1>4. q \in Request /\ Kin(q, req[c])
  <2>1. r.tokens = req[c].tokens /\ r.flags = req[c].flags
    BY <1>1 DEF Request
  <2> HIDE DEF r
  <2>2. Kin(q, r) /\ q \in Request
    BY <1>3, OthersKin, AfterWriteType
  <2> QED
    BY <2>1, <2>2 DEF Kin
<1> HIDE DEF r
<1>5. CASE req' = [req EXCEPT ![c] = q] /\ UNCHANGED <<app, client>>
  <2>1. Honest(q, app[c], client[c])
    BY <1>1, <1>4, HonestWays
  <2> QED
    BY <1>5, <2>1, HonestRequest
<1> HIDE DEF q
<1>6. CASE /\ req' = [req EXCEPT ![c] = EnterRead(q)]
           /\ client' = [client EXCEPT ![c] = Answered(client[c])]
           /\ UNCHANGED app
  <2>1. Answered(client[c]).head = client[c].head
    BY <1>1 DEF Answered, Client
  <2>2. EnterRead(q).state = "READ" /\ Kin(EnterRead(q), q)
    BY <1>4, EnterReadType, OthersKin
  <2>3. Honest(EnterRead(q), app[c], Answered(client[c]))
    <3>1. Kin(EnterRead(q), req[c])
      BY <1>4, <2>2 DEF Kin
    <3> QED
      BY <1>1, <2>1, <2>2, <3>1, HonestWays
  <2>4. /\ req'[c] = EnterRead(q) /\ client'[c] = Answered(client[c])
        /\ \A d \in Conn \ {c} : req'[d] = req[d] /\ client'[d] = client[d]
    BY <1>1, <1>6 DEF IInv, ConnsInv
  <2> QED
    BY <1>6, <2>3, <2>4, HonestUpdate
<1>7. CASE /\ req' = [req EXCEPT ![c] = ExecCallback(q)]
           /\ app' = [app EXCEPT ![c].held = "notify"]
           /\ UNCHANGED client
  <2>1. Kin(ExecCallback(q), req[c])
    BY <1>4, OthersKin DEF Kin
  <2>2. Honest(ExecCallback(q), app'[c], client[c])
    BY <1>1, <2>1, HonestWays
  <2>3. \A d \in Conn \ {c} : app'[d] = app[d]
    BY <1>1, <1>7
  <2> QED
    BY <1>7, <2>2, <2>3, HonestRequest
<1>8. CASE TerminateConnection(c) /\ UNCHANGED <<app, client>>
  BY <1>8, HonestTerminate
<1> QED
  BY <1>2, <1>5, <1>6, <1>7, <1>8 DEF q, r

\* The application answers with the flag the head asks for, unless it has
\* decided itself; in the course of a chunked response the flag stays.
LEMMA HonestApplication ==
  ASSUME IInv, KInv, AllHonest, NEW c \in Conn, Application(c)
  PROVE  AllHonest'
<1> DEFINE head == client[c].head
<1>1. /\ req[c] \in Request /\ Honest(req[c], app[c], client[c])
      /\ Kept(life[c], sock[c], req[c], app[c])
      /\ app \in [Conn -> App] /\ UNCHANGED client
      /\ \A n \in OutLens : n \in Nat
  BY ServerAssumption
  DEF Application, AppRespond, AppRespondChunk, AppRespondChunkEnd,
      AppReadChunk, AppDefer, AppSetConnection, AppFreeBuffer, conns,
      IInv, ConnsInv, KInv, AllKept, AllHonest
<1>2. \A i \in 1 .. Len(req[c].tokens) : req[c].tokens[i] = head
  BY <1>1 DEF Honest
<1>3. ASSUME NEW q, req' = [req EXCEPT ![c] = q],
             NEW a, app' = [app EXCEPT ![c] = a] \/ UNCHANGED app,
             Honest(q, app'[c], client[c])
      PROVE  AllHonest'
  BY <1>1, <1>3, HonestRequest
<1>4. CASE AppRespond(c)
  <2>1. PICK n \in OutLens : req' = [req EXCEPT ![c] = Respond(req[c], n)]
    BY <1>4 DEF AppRespond, BeginWrite
  <2>2. /\ Respond(req[c], n).tokens = req[c].tokens
        /\ InspectsBuffer(Respond(req[c], n)) =>
             Agreed(Respond(req[c], n), head)
    BY <1>1, <1>2, RespondAgrees
  <2>3. Honest(Respond(req[c], n), app'[c], client[c])
    BY <1>2, <2>2 DEF Honest
  <2>4. app' = [app EXCEPT ![c] = [app[c] EXCEPT !.held = "none"]]
    BY <1>4 DEF AppRespond
  <2> QED
    BY <1>3, <2>1, <2>3, <2>4
<1>5. CASE AppRespondChunk(c)
  <2>1. PICK n \in OutLens :
          req' = [req EXCEPT ![c] = RespondChunk(req[c], n)]
    BY <1>5 DEF AppRespondChunk, BeginWrite
  <2> DEFINE q == RespondChunk(req[c], n)
  <2>2. /\ Acting(c) /\ app[c].held \in {"request", "complete", "notify"}
        /\ app' = [app EXCEPT ![c] =
                     [held |-> "none", chunks |-> app[c].chunks + 1]]
    BY <1>5 DEF AppRespondChunk, Complete
  <2>3. /\ q.tokens = req[c].tokens
        /\ "CHUNKED_RESPONSE" \notin req[c].flags /\ InspectsBuffer(q) =>
             Agreed(q, head)
        /\ "CHUNKED_RESPONSE" \in req[c].flags => Kin(q, req[c])
    BY <1>1, <1>2, RespondAgrees
  <2> HIDE DEF q
  <2>4. CASE "CHUNKED_RESPONSE" \notin req[c].flags
    <3>1. Honest(q, app'[c], client[c])
      BY <1>2, <2>3, <2>4 DEF Honest
    <3> QED
      BY <1>3, <2>1, <2>2, <3>1 DEF q
  <2>5. CASE "CHUNKED_RESPONSE" \in req[c].flags
    <3>1. app[c].held = "notify"
      BY <1>1, <2>2, <2>5, ActingFacts DEF Kept
    <3>2. Honest(q, app'[c], client[c])
      BY <1>1, <2>3, <2>5, <3>1, HonestWays
    <3> QED
      BY <1>3, <2>1, <2>2, <3>2 DEF q
  <2> QED
    BY <2>4, <2>5
<1>6. CASE AppRespondChunkEnd(c)
  <2>1. PICK n \in OutLens :
          req' = [req EXCEPT ![c] = RespondChunkEnd(req[c], n)]
    BY <1>6 DEF AppRespondChunkEnd, BeginWrite
  <2>2. /\ app[c].held = "notify"
        /\ app' = [app EXCEPT ![c] = [held |-> "none", chunks |-> 0]]
    BY <1>6 DEF AppRespondChunkEnd
  <2>3. Kin(RespondChunkEnd(req[c], n), req[c])
    BY <1>1, <1>2, RespondAgrees
  <2>4. Honest(RespondChunkEnd(req[c], n), app'[c], client[c])
    BY <1>1, <2>2, <2>3, HonestWays
  <2> QED
    BY <1>3, <2>1, <2>2, <2>4
<1>7. CASE AppReadChunk(c)
  <2> DEFINE r == [req[c] EXCEPT !.cb = "body"]
  <2>1. /\ req' = [req EXCEPT ![c] = EnterRead(r)]
        /\ app' = [app EXCEPT ![c] = [app[c] EXCEPT !.held = "none"]]
    BY <1>7 DEF AppReadChunk, BeginRead
  <2>2. r \in Request /\ r.tokens = req[c].tokens
    BY <1>1 DEF Request
  <2> HIDE DEF r
  <2>3. EnterRead(r).tokens = req[c].tokens /\ EnterRead(r).state = "READ"
    BY <2>2, EnterReadType, OthersKin DEF Kin
  <2>4. app'[c].held = "none"
    BY <1>1, <2>1 DEF App
  <2>5. Honest(EnterRead(r), app'[c], client[c])
    BY <1>2, <2>3, <2>4, HonestWays
  <2> QED
    BY <1>3, <2>1, <2>5
<1>8. CASE AppDefer(c)
  BY <1>8 DEF AppDefer, conns, AllHonest
<1>9. ASSUME NEW q, req' = [req EXCEPT ![c] = q], UNCHANGED app,
             q.tokens = req[c].tokens, q.state = req[c].state,
             Acting(c), app[c].held \in {"request", "complete"}
      PROVE  AllHonest'
  <2>1. q.state # "WRITE"
    BY <1>9, ActingFacts
  <2>2. Honest(q, app'[c], client[c])
    BY <1>2, <1>9, <2>1, HonestWays
  <2> QED
    BY <1>3, <1>9, <2>2
<1>10. CASE AppSetConnection(c)
  <2>1. PICK d \in {"keep", "close"} :
          req' = [req EXCEPT ![c] = SetKeepAlive(req[c], d)]
    BY <1>10 DEF AppSetConnection
  <2>2. /\ SetKeepAlive(req[c], d).tokens = req[c].tokens
        /\ SetKeepAlive(req[c], d).state = req[c].state
    BY <1>1 DEF SetKeepAlive, Request
  <2> QED
    BY <1>9, <1>10, <2>1, <2>2 DEF AppSetConnection, Complete
<1>11. CASE AppFreeBuffer(c)
  <2>1. /\ BufferFree(req[c]).tokens = req[c].tokens
        /\ BufferFree(req[c]).state = req[c].state
    BY <1>1 DEF BufferFree, Request
  <2> QED
    BY <1>9, <1>11, <2>1 DEF AppFreeBuffer, Complete
<1> QED
  BY <1>4, <1>5, <1>6, <1>7, <1>8, <1>10, <1>11 DEF Application

\* A client's requests have one head.
LEMMA HonestEnvironment ==
  ASSUME IInv, AllHonest, ~HeadsVary, NEW c \in Conn, Environment(c)
  PROVE  AllHonest'
<1>1. /\ UNCHANGED <<req, app>> /\ client \in [Conn -> Client]
      /\ Honest(req[c], app[c], client[c])
  BY DEF Environment, Connect, ClientSend, ClientCloses, ClientResets, Drain,
         TimerExpires, IInv, ConnsInv, AllHonest
<1>2. CASE UNCHANGED client
  BY <1>1, <1>2 DEF AllHonest
<1>3. ASSUME NEW f \in Fragment, ClientSend(c, f) PROVE AllHonest'
  <2>1. PICK h \in Heads :
          /\ h # client[c].head => client[c].at = "idle" /\ HeadsVary
          /\ client' = [client EXCEPT ![c] =
               [at |-> AfterSend(client[c].at, f),
                sent |-> client[c].sent + 1, head |-> h]]
    BY <1>3 DEF ClientSend
  <2> DEFINE k == [at |-> AfterSend(client[c].at, f),
                   sent |-> client[c].sent + 1, head |-> h]
  <2>2. /\ client'[c] = k /\ k.head = client[c].head
        /\ \A d \in Conn \ {c} : client'[d] = client[d]
    BY <1>1, <2>1
  <2> HIDE DEF k
  <2>3. Honest(req[c], app[c], k)
    BY <1>1, <2>2 DEF Honest
  <2> QED
    BY <1>1, <2>2, <2>3, HonestUpdate
<1> QED
  BY <1>2, <1>3 DEF Environment, Connect, ClientCloses, ClientResets, Drain,
                    TimerExpires

-----------------------------------------------------------------------------
(* The theorem.                                                            *)

\* The invariant is inductive, relative to IInv and KInv.
LEMMA HonestInductive ==
  ASSUME ~HeadsVary
  PROVE  IInv /\ KInv /\ AllHonest /\ [Next]_vars => AllHonest'
<1> SUFFICES ASSUME IInv, KInv, AllHonest, [Next]_vars PROVE AllHonest'
  OBVIOUS
<1>1. ASSUME UNCHANGED <<req, app, client>> PROVE AllHonest'
  BY <1>1 DEF AllHonest
<1>2. CASE UNCHANGED vars \/ Finished
  BY <1>1, <1>2 DEF Finished, vars, conns
<1>3. ASSUME NEW taken \in SUBSET Event, EpollWait(taken) PROVE AllHonest'
  BY <1>1, <1>3 DEF EpollWait
<1>4. CASE OnListen \/ AcceptFails
  BY <1>1, <1>4 DEF OnListen, AcceptFails, conns
<1>5. ASSUME NEW c \in Conn, OnWritable(c) \/ OnIgnored(c) PROVE AllHonest'
  BY <1>1, <1>5 DEF OnWritable, OnIgnored, conns
<1>6. ASSUME NEW c \in Conn, Handler(c) PROVE AllHonest'
  BY <1>5, <1>6, HonestReading, HonestAccept, HonestParse, HonestWriteSocket
  DEF Handler
<1>7. ASSUME NEW c \in Conn, Application(c) PROVE AllHonest'
  BY <1>7, HonestApplication
<1>8. ASSUME NEW c \in Conn, Environment(c) PROVE AllHonest'
  BY <1>8, HonestEnvironment
<1> QED
  BY <1>2, <1>3, <1>4, <1>6, <1>7, <1>8 DEF Next

\* As long as the requests of a client have the same first line and the same
\* Connection header, what http_respond and http_respond_chunk find with
\* hs_request_detect_keep_alive_flag (request_util.c:51-66) in the tokens of
\* earlier requests is what the latest request says; and no later step of the
\* response, whichever way its writes are divided, changes the flag.
THEOREM KeepAliveAlwaysHonoured ==
  ASSUME Punctual, ~HeadsVary
  PROVE  Spec => []KeepAliveHonoured
<1>1. IInv /\ KInv /\ AllHonest /\ [Next]_vars => AllHonest'
  BY HonestInductive
<1>2. AllHonest => KeepAliveHonoured
  BY DEF AllHonest, Honest, Agreed, KeepAliveHonoured, Open
<1> QED
  BY <1>1, <1>2, HonestInitially, Invariance, KeptInvariance, PTL DEF Spec
=============================================================================
