------------------------------ MODULE DataPath ------------------------------
(***************************************************************************)
(* The bytes of one connection: from the segments in which they arrive,    *)
(* through the request buffer, the parser and its tokens, to what the      *)
(* application is given, and from its response to what is sent.            *)
(*                                                                         *)
(* Abstractions.  What HttpServer models is left out or is at its          *)
(* simplest here: there is one connection, its client neither closes nor   *)
(* pipelines, no time passes, the application answers inside the callback, *)
(* and write() takes a whole response.  memused is left out.               *)
(***************************************************************************)
EXTENDS Tokens, ResponseBuffer, FiniteSets

CONSTANTS InitCap,      \* HTTP_REQUEST_BUF_SIZE
          Shapes,       \* the requests a client may send
          Responses,    \* the responses an application may make as a whole,
          Pieces,       \* and as chunks, the last with trailers
          MaxRequests,  \* bound: requests on the connection
          MaxChunks,    \* bound: chunks of one response
          Cut(_, _),    \* may the arrival of a shape pause after k bytes?
          Repeats       \* does the client send the same request again?

ASSUME DataPathAssumption ==
  /\ InitCap \in Nat \ {0} /\ InitCap <= MaxCap
  /\ MaxRequests \in Nat /\ MaxChunks \in Nat /\ Repeats \in BOOLEAN

-----------------------------------------------------------------------------
(* Requests on the wire.  A shape has a method, a target and a version,    *)
(* headers, and chunks: the pieces of a chunked body or, if sized, of one  *)
(* that is sent with its length.                                           *)

Flat(seqs) == FlattenSeq(seqs)

\* The headers of a request, framing included, as pairs of byte sequences.
Decimal(n) == IF n < 10 THEN <<Sizes[n + 1]>>
              ELSE <<Sizes[(n \div 10) + 1], Sizes[(n % 10) + 1]>>
Headers(s) ==
  s.headers \o
    (IF s.chunks = <<>> THEN <<>>
     ELSE IF s.sized
     THEN << << <<"Content-Length">>, Decimal(Len(Flat(s.chunks))) >> >>
     ELSE << << <<"Transfer-Encoding">>, <<"chunked">> >> >>)

HeadOf(s) ==
  <<s.method, "SP">> \o s.target \o <<"SP", s.version, "CR", "LF">>
    \o Flat([i \in DOMAIN Headers(s) |->
               Headers(s)[i][1] \o <<":", "SP">> \o Headers(s)[i][2]
                 \o <<"CR", "LF">>])
    \o <<"CR", "LF">>

ChunkHead(s, i) == (IF i = 1 THEN <<>> ELSE <<"CR", "LF">>)
                     \o <<Sizes[Len(s.chunks[i]) + 1], "CR", "LF">>

\* A request as a sequence of segments: head, then data and what is between.
Segments(s) ==
  <<HeadOf(s)>> \o
    (IF s.chunks = <<>> THEN <<>>
     ELSE IF s.sized THEN <<Flat(s.chunks)>>
     ELSE Flat([i \in DOMAIN s.chunks |-> <<ChunkHead(s, i), s.chunks[i]>>])
            \o << <<"CR", "LF", "0", "CR", "LF">>, <<"CR", "LF">> >>)

Wire == [s \in Shapes |-> Flat(Segments(s))]

ASSUME WireAssumption == \A s \in Shapes : Wire[s] \in Seq(Byte)

-----------------------------------------------------------------------------

VARIABLES
  shape,     \* the request on the wire
  left,      \* what was not read of the requests before it
  sent,      \* bytes of both that arrived at the socket
  taken,     \* bytes of both that were read from there
  edge,      \* epoll has an event for the connection
  state,     \* request->state, and "CLOSED" after termination
  buffer,    \* request->buffer, capacity 0 for NULL
  parser,    \* request->parser
  tokens,    \* request->tokens
  machine,   \* the local variables of hsh_parser_exec
  pc,        \* where the process is
  inject,    \* on the stack: the code after the chunk_cb call that injects
             \* a zero-length body
  held,      \* what the application was called for
  flags,     \* CHUNKED_RESPONSE, KEEP_ALIVE of request->flags
  given,     \* body bytes the application was given for this request
  complete,  \* it was told that there are no more
  wrote,     \* the response or chunk that was sent since the last read(),
  should,    \* and what it should have been
  answered,  \* requests answered
  chunks     \* chunks of the current response

wire    == <<shape, left, sent, taken, edge>>
reading == <<buffer, parser, tokens, machine>>
request == <<given, complete>>
reply   == <<wrote, should>>
output  == <<reply, answered, chunks>>
vars    == <<wire, reading, state, pc, inject, held, flags, request, output>>

NoBuffer  == [capacity |-> 0, length |-> 0, index |-> 0,
              after_headers_index |-> 0, seq |-> 0, mem |-> <<>>]
NoMachine == Enter(NoBuffer, ParserInit)

Init ==
  /\ shape \in Shapes /\ left = <<>> /\ sent = 0 /\ taken = 0 /\ edge = FALSE
  /\ state = "READ" /\ buffer = NoBuffer /\ parser = ParserInit
  /\ tokens = <<>> /\ machine = NoMachine
  /\ pc = "accept" /\ inject = FALSE /\ held = "none" /\ flags = {}
  /\ given = <<>> /\ complete = FALSE
  /\ wrote = <<>> /\ should = <<>> /\ answered = 0 /\ chunks = 0

-----------------------------------------------------------------------------
(* Responses.  An answer is a status, headers in the order in which they   *)
(* are set, and a body.                                                    *)

\* http_response_init, _status, _header and _body
Built(answer) ==
  FoldLeft(LAMBDA r, h : hs_response_set_header(r, h[1], h[2]),
           hs_response_set_body(
             hs_response_set_status(hs_response_init, answer.status),
             answer.body),
           answer.headers)

\* What should be sent, from the request on the wire.  The application's
\* headers come in reverse order, after the server's own.
Lines(headers) == Flat([i \in DOMAIN headers |->
                          << <<headers[i][1], 0>>, <<headers[i][2], 0>>, CRLF >>])

Directive ==
  LET i     == SelectInSeq(shape.headers, LAMBDA h : h[1] = <<"Connection">>)
      close == IF i = 0 THEN shape.version = "HTTP/1.0"
               ELSE shape.headers[i][2] = <<"close">>
  IN  <<"Connection", IF close THEN "close" ELSE "keep-alive">>

ResponseHead(status, headers, length) ==
  StatusLine(status) \o length \o Lines(headers) \o <<CRLF>>

ReplyHead(answer, chunked) ==
  ResponseHead(IF answer.status \in 100 .. 599 THEN answer.status ELSE 500,
       <<Directive>> \o (IF chunked THEN << <<"Transfer-Encoding", "chunked">> >>
                                    ELSE <<>>) \o Reverse(answer.headers),
       IF chunked THEN <<>> ELSE LengthLine(Len(answer.body)))

Reply(answer) == ReplyHead(answer, FALSE) \o answer.body

ReplyChunk(answer) ==
  << <<"size", Len(answer.body)>>, CRLF >> \o answer.body \o <<CRLF>>

\* The trailers, and one line end more than the encoding has.
ReplyEnd(answer) == << <<"size", 0>>, CRLF >> \o Lines(Reverse(answer.headers))
                      \o <<CRLF, CRLF>>

Unavailable == << <<"Service Unavailable", 0>> >>

Refusal == ResponseHead(503, << <<"Connection", "close">>,
                        <<"Content-Type", "text/plain">> >>, LengthLine(1))
             \o Unavailable

-----------------------------------------------------------------------------
(* The client.                                                             *)

Stream == left \o Wire[shape]

\* Bytes arrive.  The process could notice where it waits and before read().
Arrive ==
  /\ pc \in {"accept", "loop", "read"} /\ state = "READ"
  /\ answered < MaxRequests
  /\ \E k \in sent + 1 .. Len(Stream) :
       /\ k = Len(Stream) \/ Cut(shape, k - Len(left))
       /\ sent' = k
  /\ edge' = TRUE
  /\ UNCHANGED <<shape, left, taken, reading, state, pc, inject, held, flags,
                 request, output>>

-----------------------------------------------------------------------------
(* Reading (read_socket.c).                                                *)

\* _hs_buffer_init
BufferInit == [NoBuffer EXCEPT !.capacity = InitCap,
                               !.mem = [i \in 1 .. InitCap |-> "junk"]]

\* hs_read_request_and_exec_user_cb up to read() or the parser, for the
\* buffer b.
ReadRequest(b) ==
  LET c == IF b.capacity = 0 THEN BufferInit ELSE b
  IN  /\ state' = "READ"
      /\ buffer' = c
      /\ parser' = IF b.capacity = 0 THEN ParserInit ELSE parser
      /\ pc' = IF c.index >= c.length THEN "read" ELSE "exec"
      /\ UNCHANGED machine

Terminate == state' = "CLOSED" /\ pc' = "loop"

\* The connection is accepted and read from (what is there already when its
\* socket is registered is reported) or, if memory is short, refused.
Accept ==
  /\ pc = "accept"
  /\ edge' = (taken < sent)
  /\ ReadRequest(buffer)
  /\ UNCHANGED <<shape, left, sent, taken, tokens, inject, held, flags,
                 request, output>>

Refuse ==
  /\ pc = "accept"
  /\ wrote' = Printed(hs_request_respond_error(503, Unavailable))
  /\ should' = Refusal
  /\ Terminate
  /\ UNCHANGED <<wire, reading, inject, held, flags, request, answered,
                 chunks>>

\* A readable event.
OnReadable ==
  /\ pc = "loop" /\ edge /\ state = "READ"
  /\ edge' = FALSE
  /\ ReadRequest(buffer)
  /\ UNCHANGED <<shape, left, sent, taken, tokens, inject, held, flags, request,
                 output>>

\* (mutant) there is room for one byte more
Room_OneMore == buffer.capacity - buffer.length + 1

\* What read() may deliver.
Room == buffer.capacity - buffer.length

\* (mutant) the buffer is not grown
Grow_Not(b) == b

Grow(b) ==
  IF b.length = b.capacity /\ b.capacity # MaxCap
  THEN Resize(b, IF 2 * b.capacity > MaxCap THEN MaxCap ELSE 2 * b.capacity)
  ELSE b

\* (mutant) one read() per event
ReadsOn_Once(bytes, b) == FALSE

ReadsOn(bytes, b) == bytes > 0 /\ b.capacity < MaxCap

\* One read() of _hs_read_into_buffer that delivers something.
ReadData ==
  /\ pc = "read" /\ Room > 0 /\ taken < sent
  /\ LET n == IF Room < sent - taken THEN Room ELSE sent - taken
         b == Grow([Copy(buffer, buffer.length,
                         SubSeq(Stream, taken + 1, taken + n))
                      EXCEPT !.length = @ + n])
     IN  /\ taken' = taken + n
         /\ IF ReadsOn(n, b)
            THEN buffer' = b /\ UNCHANGED pc
            ELSE buffer' = [b EXCEPT !.seq = (@ + 1) % SeqIds] /\ pc' = "exec"
  /\ wrote' = <<>> /\ should' = <<>>
  /\ UNCHANGED <<shape, left, sent, edge, state, parser, tokens, machine, inject,
                 held, flags, request, answered, chunks>>

\* One that delivers nothing: -1 if it would block, 0 if there is no room,
\* which is taken for the end of the stream.
ReadNothing ==
  /\ pc = "read"
  /\ Room = 0 \/ taken = sent
  /\ IF Room = 0 THEN Terminate /\ UNCHANGED buffer
     ELSE /\ buffer' = [buffer EXCEPT !.seq = (@ + 1) % SeqIds]
          /\ pc' = "exec" /\ UNCHANGED state
  /\ wrote' = <<>> /\ should' = <<>>
  /\ UNCHANGED <<wire, parser, tokens, machine, inject, held, flags, request,
                 answered, chunks>>

-----------------------------------------------------------------------------
(* Parsing: _hs_parse_buffer_and_exec_user_cb.                             *)

\* The parse loop is left; what is below it on the stack goes on.
Return(i) == pc' = IF i THEN "inject" ELSE "loop"

ParserEnter ==
  /\ pc = "exec"
  /\ IF NothingNew(buffer, parser)
     THEN Return(inject) /\ UNCHANGED machine
     ELSE machine' = Enter(buffer, parser) /\ pc' = "scan"
  /\ UNCHANGED <<wire, buffer, parser, tokens, state, inject, held, flags,
                 request, output>>

ParserStep ==
  /\ pc = "scan" /\ ~machine.out
  /\ machine' = Step(machine)
  /\ UNCHANGED <<wire, buffer, parser, tokens, state, pc, inject, held, flags,
                 request, output>>

\* _hs_exec_callback
Callback(h) == state' = "NOP" /\ pc' = "callback" /\ held' = h

\* The parser returns: with a token that calls the application, with one
\* that does not, or with none.
ParserLeave ==
  /\ pc = "scan" /\ machine.out
  /\ LET exit  == Leave(machine)
         token == exit.token
         all   == Append(tokens, token)
     IN  /\ buffer' = exit.b /\ parser' = exit.h
         /\ tokens' = IF token.type = "NONE" THEN tokens ELSE all
         /\ CASE token.type = "NONE" ->
                   Return(inject)
                   /\ UNCHANGED <<state, held, inject, flags, request>>
              [] token.type = "HEADERS_DONE" /\ token.flags # {} ->
                   /\ Callback(IF "NO_BODY" \in token.flags
                               THEN "request" ELSE "headers")
                   /\ flags' = flags \cup {"KEEP_ALIVE"}
                   /\ complete' = ("NO_BODY" \in token.flags)
                   /\ UNCHANGED <<inject, given>>
              [] token.type = "BODY" /\ "SMALL_BODY" \in token.flags ->
                   /\ Callback("request")
                   /\ given' = hs_get_token_string(exit.b, all, "BODY")
                   /\ complete' = TRUE
                   /\ UNCHANGED <<inject, flags>>
              [] token.type = "BODY" /\ "SMALL_BODY" \notin token.flags ->
                   /\ Callback(IF token.len = 0 THEN "end" ELSE "piece")
                   /\ given' = given \o hs_request_chunk(exit.b, all)
                   /\ complete' = (token.len = 0)
                   /\ inject' = (inject \/ ("BODY_FINAL" \in token.flags
                                            /\ token.len > 0))
                   /\ UNCHANGED flags
              [] OTHER ->
                   pc' = "exec"
                   /\ UNCHANGED <<state, held, inject, flags, request>>
  /\ machine' = NoMachine
  /\ UNCHANGED <<wire, output>>

\* chunk_cb for the last piece has returned: the zero-length body.
InjectEnd ==
  /\ pc = "inject"
  /\ inject' = FALSE
  /\ tokens' = Append(tokens, [NoToken EXCEPT !.type = "BODY"])
  /\ Callback("end") /\ complete' = TRUE
  /\ UNCHANGED <<wire, buffer, parser, machine, flags, given, output>>

-----------------------------------------------------------------------------
(* The application.                                                        *)

\* http_request_read_chunk: hs_request_begin_read registers for reading,
\* which reports what is there already, and reads at once.
AppReadsChunk ==
  /\ pc = "callback" /\ held \in {"headers", "piece"}
  /\ held' = "none"
  /\ edge' = (edge \/ taken < sent)
  /\ ReadRequest(buffer)
  /\ UNCHANGED <<shape, left, sent, taken, tokens, inject, flags, request,
                 output>>

\* Response keep-alive detection, which a request goes through once.
Detected == hs_request_detect_keep_alive_flag(buffer, tokens, flags)

\* The whole response is written, and the connection is to be kept or not.
\* The client sends its next request after what is left of this one.
Written(keep) ==
  /\ held' = "none" /\ chunks' = 0 /\ answered' = answered + 1
  /\ IF keep
     THEN /\ shape' \in IF Repeats THEN {shape} ELSE Shapes
          /\ left' = SubSeq(Stream, taken + 1, Len(Stream))
          /\ sent' = sent - taken /\ taken' = 0 /\ edge' = (taken < sent)
          /\ ReadRequest(NoBuffer)
          /\ given' = <<>> /\ complete' = FALSE
          /\ UNCHANGED <<tokens, inject>>
     ELSE /\ Terminate
          /\ UNCHANGED <<wire, reading, inject, request>>

\* http_respond
AppResponds ==
  /\ pc = "callback" /\ held \in {"request", "end"}
  /\ LET keep == "KEEP_ALIVE" \in Detected
     IN  /\ \E answer \in Responses :
              /\ wrote' = Printed(hs_request_respond(Built(answer), keep))
              /\ should' = Reply(answer)
         /\ flags' = Detected
         /\ Written(keep)

\* http_respond_chunk; the chunk is written and the application called again.
AppRespondsChunk ==
  /\ pc = "callback" /\ held \in {"request", "end", "notify"}
  /\ chunks < MaxChunks
  /\ LET first == "CHUNKED_RESPONSE" \notin flags
         all   == IF first THEN Detected \cup {"CHUNKED_RESPONSE"} ELSE flags
     IN  /\ \E answer \in Pieces :
              /\ wrote' = Printed(hs_request_respond_chunk(
                                    Built(answer), "KEEP_ALIVE" \in all, first))
              /\ should' = (IF first THEN ReplyHead(answer, TRUE) ELSE <<>>)
                             \o ReplyChunk(answer)
         /\ flags' = all
  /\ buffer' = NoBuffer /\ held' = "notify" /\ chunks' = chunks + 1
  /\ UNCHANGED <<wire, parser, tokens, machine, state, pc, inject, request,
                 answered>>

\* http_respond_chunk_end
AppRespondsChunkEnd ==
  /\ pc = "callback" /\ held = "notify"
  /\ \E answer \in Pieces :
       /\ wrote' = Printed(hs_request_respond_chunk_end(Built(answer)))
       /\ should' = ReplyEnd(answer)
  /\ flags' = flags \ {"CHUNKED_RESPONSE"}
  /\ Written("KEEP_ALIVE" \in flags)

-----------------------------------------------------------------------------

\* The connection is closed, all requests are answered, or nothing is left to
\* arrive.
Finished ==
  /\ pc = "loop"
  /\ \/ state = "CLOSED"
     \/ ~edge /\ (answered = MaxRequests \/ taken = Len(Stream))
  /\ UNCHANGED vars

Next ==
  \/ Arrive
  \/ Accept \/ Refuse \/ OnReadable \/ ReadData \/ ReadNothing
  \/ ParserEnter \/ ParserStep \/ ParserLeave \/ InjectEnd
  \/ AppReadsChunk \/ AppResponds \/ AppRespondsChunk \/ AppRespondsChunkEnd
  \/ Finished

Spec == Init /\ [][Next]_vars

-----------------------------------------------------------------------------
(* Properties.                                                             *)

\* What the server read fits in the buffer, and the buffer in its limit,
\* whatever the parser moves, resizes or leaves: the size read() is asked for,
\* capacity minus length, would otherwise be a huge one (read_socket.c:38).
DataFits ==
  /\ buffer.length <= buffer.capacity /\ buffer.capacity <= MaxCap
  /\ pc = "scan" =>
       /\ machine.b.length <= machine.b.capacity
       /\ machine.b.capacity <= MaxCap
       /\ machine.pe <= machine.b.capacity

\* The machine stops at the end of what was read, whatever its actions do to
\* its position and to the data (parser.rl:108-174), and goes on there.
InBounds ==
  /\ buffer.index <= buffer.length
  /\ pc = "scan" /\ ~machine.out => machine.p < machine.pe

\* The requests the application is called for are those that were sent: the
\* accessors of api.h:213-300 return the method, the target and the headers,
\* in their order, in every callback, also when the body was streamed through
\* the same buffer behind them.
RequestExact ==
  pc = "callback" /\ held # "notify" =>
    LET all  == Headers(shape)
        next[k \in 0 .. Len(all) + 1] ==
          IF k = 0 THEN [iter |-> 0]
          ELSE hs_request_iterate_headers(buffer, tokens, next[k - 1].iter)
    IN  /\ hs_get_token_string(buffer, tokens, "METHOD") = <<shape.method>>
        /\ hs_get_token_string(buffer, tokens, "TARGET") = shape.target
        /\ \A k \in DOMAIN all :
             next[k].found = [more |-> TRUE, key |-> all[k][1],
                              val |-> all[k][2]]
        /\ ~next[Len(all) + 1].found.more

\* When the server waits with no event on its way, it has read and examined
\* all that arrived, and the request is not complete: what is waited for is
\* the client's move.
NoStall ==
  pc = "loop" /\ state = "READ" /\ ~edge =>
    /\ taken = sent
    /\ sent < Len(Stream)

\* The server closes the connection of a client that waits only with a
\* response: it never takes a buffer without room for the end of the stream
\* (read_socket.c:38 and 148).
NotDropped == state = "CLOSED" => wrote # <<>>

\* What is written is the response the application set up, with the framing
\* and the connection directive of the request it answers, whatever it takes
\* for the print buffer to hold it (api.h:60-61: it grows).
ResponseExact == wrote = should

\* Whatever the application was given is the beginning of the body that was
\* sent, and all of it once it was told so (api.h:440-444).
BodyExact ==
  /\ IsPrefix(given, Flat(shape.chunks))
  /\ complete => given = Flat(shape.chunks)

\* The application is given the body that was sent, piece by piece and once
\* (BodyTransfer).
Transfer == INSTANCE BodyTransfer WITH
              Bodies <- {Flat(s.chunks) : s \in Shapes},
              want   <- Flat(shape.chunks)
ImplementsTransfer == Transfer!Spec
=============================================================================
