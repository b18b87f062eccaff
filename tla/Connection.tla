----------------------------- MODULE Connection -----------------------------
(***************************************************************************)
(* struct http_request_s: the one heap object a connection has, and what   *)
(* the read, parse, respond and write code does to it.  Every operator     *)
(* maps a request to a request; HttpServer sequences them.                 *)
(*                                                                         *)
(* Abstractions.  The buffer's memory is its capacity, its length and the  *)
(* fragments between index and length (pending); cap = 0 stands for        *)
(* buffer.buf == NULL.  Of the tokens of a request only what keep-alive    *)
(* detection looks up is kept: where the version and the Connection header *)
(* stand in the buffer, and what that header says.                         *)
(***************************************************************************)
EXTENDS Kernel, SequencesExt

CONSTANTS InitCap,           \* HTTP_REQUEST_BUF_SIZE
          MaxCap,            \* HTTP_MAX_REQUEST_BUF_SIZE
          BodyCap,           \* headers plus body of a "bighead" request
          RespCap,           \* HTTP_RESPONSE_BUF_SIZE
          REQUEST_TIMEOUT,   \* HTTP_REQUEST_TIMEOUT
          KEEPALIVE_TIMEOUT, \* HTTP_KEEP_ALIVE_TIMEOUT
          SeqIds             \* 2^8: values of the int8_t sequence ids

ASSUME ConnectionAssumption ==
  /\ InitCap \in Nat \ {0} /\ RespCap \in Nat \ {0}
  /\ MaxCap \in Nat /\ InitCap < MaxCap
  /\ BodyCap \in Nat /\ BodyCap <= MaxCap
  /\ REQUEST_TIMEOUT \in Nat \ {0} /\ KEEPALIVE_TIMEOUT \in Nat \ {0}
  /\ SeqIds \in Nat \ {0}

Flag == {"KEEP_ALIVE", "AUTOMATIC", "CHUNKED_RESPONSE"}

\* HTTP_FLG_STREAMED is defined as 0x1, the bit HTTP_KEEP_ALIVE uses.
STREAMED == "KEEP_ALIVE"

ParserState == {"start", "nobody", "small", "chunked", "large", "done",
                "error"}

\* The head of an HTTP/1.1 request as keep-alive detection sees it: the
\* length of its first line, which decides where all that follows is, and
\* its Connection header.
RequestHead == [line : {"short", "long"}, conn : {"none", "keep", "close"}]

Request == [state   : {"INIT", "READ", "WRITE", "NOP"},
            timeout : Nat,
            cap     : Nat,                       \* 0: no buffer
            len     : Nat,
            pending : Seq(Fragment),             \* index .. length
            written : Nat,                       \* bytes_written
            pst     : ParserState,
            gap     : 0 .. SeqIds - 1,           \* sequence_id difference
            flags   : SUBSET Flag,
            tokens  : Seq(RequestHead),          \* heads in the token array
            cb      : {"none", "body", "write"}] \* chunk_cb

\* (mutant) the timeout is left to begin_read
RequestInit_NoTimeout ==
  [state |-> "INIT", timeout |-> 0, cap |-> 0, len |-> 0,
   pending |-> <<>>, written |-> 0, pst |-> "start", gap |-> 0,
   flags |-> {"AUTOMATIC"}, tokens |-> <<>>, cb |-> "none"]

\* calloc in _hs_request_init
RequestInit ==
  [state |-> "INIT", timeout |-> REQUEST_TIMEOUT, cap |-> 0, len |-> 0,
   pending |-> <<>>, written |-> 0, pst |-> "start", gap |-> 0,
   flags |-> {"AUTOMATIC"}, tokens |-> <<>>, cb |-> "none"]

\* (mutant) only reading is timed
CountDown_Reading(r) ==
  IF r.state = "READ" THEN [r EXCEPT !.timeout = @ - 1] ELSE r

\* A tick of the timer.
CountDown(r) == [r EXCEPT !.timeout = @ - 1]

\* (mutant) one second too early
TimedOut_Early(r) == r.timeout <= 1

TimedOut(r) == r.timeout = 0

-----------------------------------------------------------------------------
(* Buffers and the estimate of the memory they use (server->memused).      *)

HasBuffer(r) == r.cap # 0

\* What the fields say of a freed buffer is not kept: the next allocation
\* sets them all.
BufferFree(r) == [r EXCEPT !.cap = 0, !.len = 0, !.pending = <<>>]

\* (mutant) freeing does not give the memory back
Charge_NoFree(before, after) ==
  IF HasBuffer(after) THEN after.cap - before.cap ELSE 0

\* What allocating, growing or freeing a buffer adds to memused.
Charge(before, after) == after.cap - before.cap

-----------------------------------------------------------------------------
(* Reading.                                                                *)

BufferInit(r) == [r EXCEPT !.cap = InitCap, !.len = 0, !.pending = <<>>,
                           !.gap = 0, !.pst = "start"]

\* Entry of hs_read_request_and_exec_user_cb.
EnterRead(r) ==
  LET q == [r EXCEPT !.state = "READ", !.timeout = REQUEST_TIMEOUT]
  IN  IF HasBuffer(r) THEN q ELSE BufferInit(q)

\* buffer->index >= buffer->length
RequiresRead(r) == r.pending = <<>>

GrowBuffer(r) ==
  IF r.len = r.cap /\ r.cap # MaxCap
  THEN [r EXCEPT !.cap = IF 2 * @ > MaxCap THEN MaxCap ELSE 2 * @]
  ELSE r

\* One iteration of the loop of _hs_read_into_buffer.
Receive(r, frags) ==
  GrowBuffer([r EXCEPT !.len = @ + Len(frags), !.pending = @ \o frags])

\* (mutant) one read() per event
ReadsOn_Once(bytes, r) == FALSE

ReadsOn(bytes, r) == bytes > 0 /\ r.cap < MaxCap

\* buffer->sequence_id++ after the loop.
EndRead(r) == [r EXCEPT !.gap = (@ + 1) % SeqIds]

-----------------------------------------------------------------------------
(* Parsing: hsh_parser_exec is called until a token calls the application  *)
(* or there is none.  call is the callback that runs: request_handler for  *)
(* a whole request or for the headers of a streamed one, chunk_cb for a    *)
(* piece of the body, for its last piece, or for its end.                  *)

Token(r, pst, rest, call) ==
  [req |-> [r EXCEPT !.pst = pst, !.pending = rest], call |-> call]

\* Nothing more until the socket has been read again.
NoToken(r, pst, rest) ==
  [req |-> [r EXCEPT !.pst = pst, !.pending = rest, !.gap = 0],
   call |-> "none"]

\* tokens.size is set to 0 when the connection is made and never again.
PushTokens(r, head) == [r EXCEPT !.tokens = Append(@, head)]

\* done_headers resizes the buffer to hold the full body.
ResizeFor(r, f) ==
  [r EXCEPT !.cap = IF f = "bighead" /\ BodyCap > @ THEN BodyCap ELSE @]

ParseSmall(r, rest) ==
  IF \E i \in DOMAIN rest : rest[i] = "body"
  THEN Token(r, "done", <<>>, "request")
  ELSE NoToken(r, "small", <<>>)

ParseStart(r, f, rest, head) ==
  LET q == PushTokens(r, head)
      s == [q EXCEPT !.flags = @ \cup {STREAMED}]
  IN  CASE f = "get"                 -> Token(s, "nobody", rest, "request")
        [] f = "stream"              -> Token(s, "chunked", rest, "headers")
        [] f = "large"               -> Token(s, "large", rest, "headers")
        [] f \in {"head", "bighead"} -> ParseSmall(ResizeFor(q, f), rest)
        [] OTHER                     -> NoToken(r, "error", rest)

ParseChunked(r, f, rest) ==
  CASE f = "chunk" -> Token(r, "chunked", rest, "chunk")
    [] f = "zero"  -> Token(r, "done", rest, "end")
    [] OTHER       -> NoToken(r, "error", rest)

\* All of the body that is buffered is one piece.  It is cut off the buffer
\* (whose length is then that of the headers) unless it is the last.
ParseLarge(r) ==
  IF \E i \in DOMAIN r.pending : r.pending[i] = "last"
  THEN Token(r, "done", r.pending, "last")
  ELSE Token([r EXCEPT !.len = 1, !.gap = 0], "large", <<>>, "chunk")

Parse(r, head) ==
  LET f    == Head(r.pending)
      rest == Tail(r.pending)
  IN  IF r.gap = 0 \/ r.pst = "done" THEN [req |-> r, call |-> "none"]
      ELSE IF r.pending = <<>> THEN NoToken(r, r.pst, <<>>)
      ELSE CASE r.pst = "start"   -> ParseStart(r, f, rest, head)
             [] r.pst = "small"   -> ParseSmall(r, r.pending)
             [] r.pst = "chunked" -> ParseChunked(r, f, rest)
             [] r.pst = "large"   -> ParseLarge(r)
             [] OTHER             -> NoToken(r, "error", r.pending)

\* (mutant) the connection goes on reading
ExecCallback_StaysReading(r) == r

ExecCallback(r) == [r EXCEPT !.state = "NOP"]

-----------------------------------------------------------------------------
(* Responding.                                                             *)

\* (mutant) detection whatever the application decided
InspectsBuffer_Always(r) == r.tokens # <<>>

\* Detection looks into the request buffer through the tokens.
InspectsBuffer(r) == "AUTOMATIC" \in r.flags /\ r.tokens # <<>>

\* hs_request_header(request, "Connection"): the first token at whose place
\* the buffer, which holds the latest head, has that name.  0: none.
ConnectionToken(tokens) ==
  LET head == tokens[Len(tokens)]
  IN  SelectInSeq(tokens, LAMBDA t : /\ t.conn # "none" /\ head.conn # "none"
                                     /\ t.line = head.line)

\* The version is the first token of its type.  What stands at its place in
\* a head with a longer or shorter first line is taken for HTTP/1.0.
DetectsClose(tokens) ==
  LET head == tokens[Len(tokens)]
      i    == ConnectionToken(tokens)
  IN  IF i = 0 THEN tokens[1].line # head.line
      ELSE tokens[i].conn = "close" /\ head.conn = "close"

\* (mutant) "Connection: close" does not clear the flag
DetectKeepAlive_NeverClears(r) ==
  [r EXCEPT !.flags = IF DetectsClose(r.tokens) THEN @
                                                ELSE @ \cup {"KEEP_ALIVE"}]

DetectKeepAlive(r) ==
  [r EXCEPT !.flags = IF DetectsClose(r.tokens) THEN @ \ {"KEEP_ALIVE"}
                                                ELSE @ \cup {"KEEP_ALIVE"}]

SerializeHeaders(r) == IF InspectsBuffer(r) THEN DetectKeepAlive(r) ELSE r

SetKeepAlive(r, directive) ==
  [r EXCEPT !.flags = IF directive = "keep"
                      THEN (@ \ {"AUTOMATIC"}) \cup {"KEEP_ALIVE"}
                      ELSE @ \ {"AUTOMATIC", "KEEP_ALIVE"}]

\* (mutant) bytes_written is not reset
PerformResponse_KeepsWritten(r, n) ==
  [BufferFree(r) EXCEPT !.cap = RespCap, !.len = n, !.state = "WRITE"]

\* _http_perform_response: the response buffer, n units long, takes the
\* place of the request buffer.
PerformResponse(r, n) ==
  [BufferFree(r) EXCEPT !.cap = RespCap, !.len = n, !.written = 0,
                        !.state = "WRITE"]

Respond(r, n) == PerformResponse(SerializeHeaders(r), n)

\* (mutant) chunk_cb is not replaced
RespondChunk_NoCallback(r, n) ==
  PerformResponse(IF "CHUNKED_RESPONSE" \in r.flags THEN r
                  ELSE SerializeHeaders([r EXCEPT !.flags =
                                           @ \cup {"CHUNKED_RESPONSE"}]), n)

RespondChunk(r, n) ==
  LET q == IF "CHUNKED_RESPONSE" \in r.flags THEN r
           ELSE SerializeHeaders([r EXCEPT !.flags =
                                    @ \cup {"CHUNKED_RESPONSE"}])
  IN  PerformResponse([q EXCEPT !.cb = "write"], n)

RespondChunkEnd(r, n) ==
  PerformResponse([r EXCEPT !.flags = @ \ {"CHUNKED_RESPONSE"}], n)

-----------------------------------------------------------------------------
(* Writing.                                                                *)

Unsent(r) == r.len - r.written

\* (mutant) a short write is taken for a complete one
WriteRc_Short(r, errno) ==
  IF errno = "EPIPE" THEN "SOCKET_ERR"
  ELSE IF "CHUNKED_RESPONSE" \in r.flags THEN "SUCCESS_CHUNK"
  ELSE IF "KEEP_ALIVE" \in r.flags THEN "SUCCESS" ELSE "SUCCESS_CLOSE"

\* hs_write_socket after write(): errno is consulted whether or not this
\* write failed.
WriteRc(r, errno) ==
  IF errno = "EPIPE" THEN "SOCKET_ERR"
  ELSE IF Unsent(r) # 0 THEN "CONTINUE"
  ELSE IF "CHUNKED_RESPONSE" \in r.flags THEN "SUCCESS_CHUNK"
  ELSE IF "KEEP_ALIVE" \in r.flags THEN "SUCCESS" ELSE "SUCCESS_CLOSE"

\* What _hs_write_socket_and_handle_return_code does with the code before it
\* branches on it.
AfterWrite(r, rc) ==
  LET q == [r EXCEPT !.timeout = IF rc = "SUCCESS" THEN KEEPALIVE_TIMEOUT
                                                   ELSE REQUEST_TIMEOUT]
  IN  IF rc = "CONTINUE" THEN q ELSE BufferFree(q)
=============================================================================
