------------------------------- MODULE Tokens -------------------------------
(***************************************************************************)
(* The accessors of a request (request_util.c): look-ups in its array of   *)
(* tokens, which holds those of every request of the connection, with the  *)
(* strings read from the buffer of the latest.                             *)
(***************************************************************************)
EXTENDS Parser

\* http_string_t: the bytes a token stands for.
String(b, token) == [i \in 1 .. token.len |-> At(b, token.index + i - 1)]

\* The first token of a type, or none.
hs_get_token_string(b, tokens, type) ==
  LET i == SelectInSeq(tokens, LAMBDA t : t.type = type)
  IN  IF i = 0 THEN <<>> ELSE String(b, tokens[i])

\* The value after the first key of that name (one symbol long).
hs_request_header(b, tokens, key) ==
  LET i == SelectInSeq(tokens, LAMBDA t : /\ t.type = "HEADER_KEY"
                                          /\ t.len = 1 /\ String(b, t) = <<key>>)
  IN  IF i = 0 THEN <<>> ELSE String(b, tokens[i + 1])

\* The flags of the request after keep-alive detection.
hs_request_detect_keep_alive_flag(b, tokens, flags) ==
  LET version    == hs_get_token_string(b, tokens, "VERSION")
      connection == hs_request_header(b, tokens, "Connection")
  IN  IF \/ connection = <<"close">>
         \/ connection = <<>> /\ version[Len(version)] # "HTTP/1.1"
      THEN flags \ {"KEEP_ALIVE"}
      ELSE flags \cup {"KEEP_ALIVE"}

\* _hs_get_header_key_val for the token at offset i of the array.
GetHeader(b, tokens, i) ==
  IF tokens[i + 1].type = "HEADERS_DONE" THEN [more |-> FALSE]
  ELSE [more |-> TRUE, key |-> String(b, tokens[i + 1]),
        val |-> String(b, tokens[i + 2])]

\* (mutant) the iteration goes on with the next token
hs_request_iterate_headers_ByOne(b, tokens, iter) ==
  LET first == SelectInSeq(tokens, LAMBDA t : t.type = "HEADER_KEY") - 1
      at    == IF iter = 0 THEN first ELSE iter
  IN  IF at < 0 THEN [found |-> [more |-> FALSE], iter |-> Len(tokens)]
      ELSE [found |-> GetHeader(b, tokens, at), iter |-> at + 1]

\* hs_request_iterate_headers: what it returns and the new *iter, which after
\* the first call is the offset of the value that was returned.
hs_request_iterate_headers(b, tokens, iter) ==
  LET first == SelectInSeq(tokens, LAMBDA t : t.type = "HEADER_KEY") - 1
      at    == IF iter = 0 THEN first ELSE iter + 1
  IN  IF at < 0 THEN [found |-> [more |-> FALSE], iter |-> Len(tokens)]
      ELSE [found |-> GetHeader(b, tokens, at), iter |-> at + 1]

\* (mutant) one byte short
hs_request_chunk_Short(b, tokens) ==
  String(b, [Last(tokens) EXCEPT !.len = IF @ > 0 THEN @ - 1 ELSE 0])

\* hs_request_chunk: the latest token, a piece of the body.
hs_request_chunk(b, tokens) == String(b, Last(tokens))
=============================================================================
