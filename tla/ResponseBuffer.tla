--------------------------- MODULE ResponseBuffer ---------------------------
(***************************************************************************)
(* The growing buffer a response is printed into (grwprintf_t), and what   *)
(* the functions that serialize a response print.                          *)
(*                                                                         *)
(* Abstractions.  A byte is a symbol <<word, argument>>; a word, a number  *)
(* or a line end is one symbol.                                            *)
(***************************************************************************)
EXTENDS Integers, Sequences, SequencesExt

CONSTANT RespCap     \* HTTP_RESPONSE_BUF_SIZE

ASSUME ResponseAssumption == RespCap \in Nat \ {0}

Junk == <<"junk", 0>>
Nul  == <<"NUL", 0>>
CRLF == <<"CRLF", 0>>

-----------------------------------------------------------------------------
(* grwprintf_t: a buffer of capacity bytes, of which size are used.        *)

grwprintf_init(capacity) ==
  [capacity |-> capacity, size |-> 0,
   mem |-> [i \in 1 .. capacity |-> Junk]]

\* realloc
Realloc(ctx, capacity) ==
  [ctx EXCEPT !.capacity = capacity,
              !.mem = [i \in 1 .. capacity |->
                         IF i <= ctx.capacity THEN ctx.mem[i] ELSE Junk]]

\* bytes are stored from buf + size on.
Store(ctx, bytes) ==
  [ctx EXCEPT !.mem = [i \in DOMAIN @ |-> IF i - ctx.size \in DOMAIN bytes
                                          THEN bytes[i - ctx.size] ELSE @[i]]]

\* (mutant) the new capacity does not count what is already there
grwmemcpy_Short(ctx, src) ==
  LET need == ctx.size + Len(src)
      room == IF need > ctx.capacity
              THEN Realloc(ctx, IF Len(src) > ctx.capacity
                                THEN Len(src) ELSE ctx.capacity) ELSE ctx
  IN  [Store(room, src) EXCEPT !.size = need]

grwmemcpy(ctx, src) ==
  LET need == ctx.size + Len(src)
      room == IF need > ctx.capacity THEN Realloc(ctx, need) ELSE ctx
  IN  [Store(room, src) EXCEPT !.size = need]

\* vsnprintf into the rest of the buffer: at most that much, with a NUL at
\* the end.  A rest that is negative is converted to a huge unsigned size.
vsnprintf(ctx, text) ==
  LET room == ctx.capacity - ctx.size
  IN  IF room = 0 THEN ctx
      ELSE IF room < 0 \/ Len(text) < room THEN Store(ctx, Append(text, Nul))
      ELSE Store(ctx, Append(SubSeq(text, 1, room - 1), Nul))

\* capacity, doubled until need fits.
Doubled(capacity, need) ==
  capacity * 2 ^ (CHOOSE k \in 0 .. need :
                    /\ capacity * 2 ^ k >= need
                    /\ \A j \in 0 .. k - 1 : capacity * 2 ^ j < need)

\* When the text did not fit, it is printed again, and the second result is
\* added to the first.
grwprintf(ctx, text) ==
  LET once  == vsnprintf(ctx, text)
      need  == Len(text) + ctx.size
      twice == vsnprintf(Realloc(once, Doubled(ctx.capacity, need)), text)
  IN  IF need > ctx.capacity
      THEN [twice EXCEPT !.size = @ + 2 * Len(text)]
      ELSE [once EXCEPT !.size = @ + Len(text)]

\* The bytes that are sent: size of them, wherever they are.
Printed(ctx) ==
  [i \in 1 .. ctx.size |-> IF i <= ctx.capacity THEN ctx.mem[i] ELSE Junk]

-----------------------------------------------------------------------------
(* Responses.                                                              *)

\* The status codes hs_status_text, a table of 600 entries, has a text for.
Named == {100, 101} \cup 200 .. 206 \cup 300 .. 305 \cup {307}
           \cup 400 .. 411 \cup {413} \cup 500 .. 504

hs_status_text == [status \in 0 .. 599 |->
                     IF status \in Named THEN << <<"reason", status>> >>
                                         ELSE <<>>]

\* hs_response_init and the setters.  Headers are kept last first.
hs_response_init == [status |-> 200, headers |-> <<>>, body |-> <<>>]

hs_response_set_status(response, status) ==
  [response EXCEPT !.status = IF status > 599 \/ status < 100 THEN 500
                                                              ELSE status]

hs_response_set_header(response, key, value) ==
  [response EXCEPT !.headers = <<[key |-> key, value |-> value]>> \o @]

hs_response_set_body(response, body) == [response EXCEPT !.body = body]

HeaderLine(header) == << <<header.key, 0>>, <<header.value, 0>>, CRLF >>

http_serialize_headers_list(response, ctx) ==
  grwprintf(FoldLeft(LAMBDA c, header : grwprintf(c, HeaderLine(header)),
                     ctx, response.headers), <<CRLF>>)

StatusLine(status) ==
  << <<"HTTP/1.1", status>> >> \o hs_status_text[status]
     \o << CRLF, <<"Date", 0>>, CRLF >>

LengthLine(length) == << <<"Content-Length", length>>, CRLF >>

\* keep and chunked are the flags of the request, after keep-alive detection.
http_serialize_headers(response, keep, chunked, ctx) ==
  LET r == hs_response_set_header(response, "Connection",
                                  IF keep THEN "keep-alive" ELSE "close")
      c == grwprintf(ctx, StatusLine(r.status))
      d == IF chunked THEN c ELSE grwprintf(c, LengthLine(Len(r.body)))
  IN  http_serialize_headers_list(r, d)

hs_request_respond(response, keep) ==
  LET c == http_serialize_headers(response, keep, FALSE,
                                  grwprintf_init(RespCap))
  IN  IF response.body = <<>> THEN c ELSE grwmemcpy(c, response.body)

\* first: the request did not have the flag HTTP_CHUNKED_RESPONSE yet.
hs_request_respond_chunk(response, keep, first) ==
  LET c == IF first
           THEN http_serialize_headers(
                  hs_response_set_header(response, "Transfer-Encoding",
                                         "chunked"),
                  keep, TRUE, grwprintf_init(RespCap))
           ELSE grwprintf_init(RespCap)
      d == grwprintf(c, << <<"size", Len(response.body)>>, CRLF >>)
  IN  grwprintf(grwmemcpy(d, response.body), <<CRLF>>)

hs_request_respond_chunk_end(response) ==
  LET c == grwprintf(grwprintf_init(RespCap), << <<"size", 0>>, CRLF >>)
  IN  grwprintf(http_serialize_headers_list(response, c), <<CRLF>>)

\* hs_request_respond_error, for a request no token of which was read.
hs_request_respond_error(code, message) ==
  LET r == hs_response_set_status(hs_response_init, code)
  IN  hs_request_respond(
        hs_response_set_body(
          hs_response_set_header(r, "Content-Type", "text/plain"), message),
        FALSE)
=============================================================================
