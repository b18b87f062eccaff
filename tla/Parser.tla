------------------------------- MODULE Parser -------------------------------
(***************************************************************************)
(* hsh_parser_exec: the state machine ragel generates from parser.rl and   *)
(* the actions it executes, byte by byte, with the machine's positions in  *)
(* the request buffer.  It is translated from the generated code, where    *)
(* what fbreak does to the position shows, and which actions the states    *)
(* share in which the grammar is ambiguous.                                *)
(*                                                                         *)
(* Abstractions.  A byte is a symbol.  What the machine reads letter by    *)
(* letter without acting on it (a method, the version, a header's name,    *)
(* the word "chunked") is one symbol, and counts as one byte.              *)
(***************************************************************************)
EXTENDS Integers, Sequences, SequencesExt

CONSTANTS MaxCap,      \* max_buf_capacity
          SeqIds,      \* 2^8: values of the int8_t sequence ids
          Limit        \* longest token, by type (in symbols)

Sizes    == <<"0", "1", "2", "3", "4", "5", "6", "7", "8", "9",
              "a", "b", "c", "d", "e", "f">>
HexDigit == ToSet(Sizes)
Digit    == ToSet(SubSeq(Sizes, 1, 10))
Value(b) == IF b \in HexDigit THEN (CHOOSE i \in 1 .. 16 : Sizes[i] = b) - 1
                              ELSE 0

Letters   == {"a", "b", "c", "d", "e", "f", "x", "y", "z", "GET", "POST",
              "Host", "Connection", "chunked", "close", "keep-alive"}
Names     == {"Content-Length", "Transfer-Encoding"}
Separator == {"SP", ":", "/t", "HTTP/1.0", "HTTP/1.1"}

\* "junk" is memory that no byte was read into.
Byte == HexDigit \cup Letters \cup Names \cup Separator \cup {"CR", "LF", "junk"}

\* The bytes a header's name may consist of; line ends are among them.
TokenByte == Byte \ Separator

TokenType == {"METHOD", "TARGET", "VERSION", "HEADER_KEY", "HEADER_VALUE",
              "HEADERS_DONE", "BODY", "NONE"}

ASSUME ParserAssumption ==
  /\ MaxCap \in Nat \ {0} /\ SeqIds \in Nat \ {0}
  /\ Limit \in [{"METHOD", "TARGET", "VERSION", "HEADER_KEY",
                 "HEADER_VALUE"} -> Nat]

\* struct hsh_token_s
Token == [type  : TokenType,
          flags : SUBSET {"NO_BODY", "STREAMED_BODY", "BODY_FINAL",
                          "SMALL_BODY"},
          len   : Int,
          index : Int]

NoToken == [type |-> "NONE", flags |-> {}, len |-> 0, index |-> 0]

\* hsh_parser_init
ParserInit == [state |-> "start", content_length |-> 0,
               content_remaining |-> 0, token |-> NoToken,
               limit_count |-> 0, limit_max |-> 0, flags |-> {}, seq |-> 0]

-----------------------------------------------------------------------------
(* The transition tables: in a state, on a byte of a set, the next state   *)
(* and the actions of the transition, in their order.  All that has no     *)
(* transition is an error.                                                 *)

On(bytes, to, do) == [on |-> bytes, to |-> to, do |-> do]

RequestLine(s) ==
  CASE s = "start"   -> {On(Letters, "method", <<"method", "inc_count">>)}
    [] s = "method"  -> {On(Letters, "method", <<"inc_count">>),
                         On({"SP"}, "target0", <<"emit_token">>)}
    [] s = "target0" -> {On(Byte \ {"SP"}, "target", <<"target", "inc_count">>)}
    [] s = "target"  -> {On(Byte \ {"SP"}, "target", <<"inc_count">>),
                         On({"SP"}, "version0", <<"emit_token">>)}
    [] s = "version0" -> {On({"HTTP/1.0", "HTTP/1.1"}, "version",
                             <<"version">>)}
    [] s = "version" -> {On({"CR"}, "line_end", <<"emit_token">>)}
    [] s = "line_end" -> {On({"LF"}, "header0", <<>>)}
    [] OTHER         -> {}

\* The beginning of a header line, do being the actions that enter its key.
KeyStart(do) ==
  {On({"Content-Length"}, "cl_key", do), On({"Transfer-Encoding"}, "te_key", do),
   On(TokenByte \ (Names \cup {"CR"}), "key", do)}

HeaderKey(s) ==
  CASE s = "header0" -> KeyStart(<<"reset_count", "header_key", "inc_count">>)
                          \cup {On({"CR"}, "key", <<"reset_count",
                                              "header_key", "inc_count">>)}
    [] s = "header"  -> KeyStart(<<"header_key", "reset_count", "inc_count">>)
                          \cup {On({"CR"}, "blank", <<"header_key",
                                              "reset_count", "inc_count">>)}
    [] s = "blank"   -> {On({"LF"}, "final", <<"inc_count", "done_headers">>),
                         On(TokenByte \ {"LF"}, "key", <<"inc_count">>),
                         On({":"}, "colon", <<"emit_token">>)}
    [] s \in {"key", "final", "cl_key", "te_key"} ->
         {On(TokenByte, "key", <<"inc_count">>),
          On({":"}, CASE s = "cl_key" -> "cl_colon"
                      [] s = "te_key" -> "te_colon"
                      [] OTHER        -> "colon", <<"emit_token">>)}
    [] OTHER         -> {}

\* The space before a value: each of its bytes enters the value anew.
ValueStart(self, known) ==
  {On({"SP"}, self, <<"header_value", "inc_count">>),
   On({"CR"}, "empty", <<"header_value", "inc_count", "emit_token">>),
   On(Byte \ ({"SP", "CR"} \cup known), "value",
      <<"header_value", "inc_count">>)}

HeaderValue(s) ==
  CASE s = "colon"    -> {On({"SP"}, "ows", <<>>)}
    [] s = "cl_colon" -> {On({"SP"}, "cl_ows", <<>>)}
    [] s = "te_colon" -> {On({"SP"}, "te_ows", <<>>)}
    [] s = "ows"      -> ValueStart("ows", {})
    [] s = "cl_ows"   -> ValueStart("cl_ows", Digit)
         \cup {On(Digit, "cl_digits", <<"content_length_digit",
                                        "header_value", "inc_count">>)}
    [] s = "te_ows"   -> ValueStart("te_ows", {"chunked"})
         \cup {On({"chunked"}, "value", <<"header_value", "inc_count",
                                          "transfer_encoding">>)}
    [] s = "cl_digits" -> {On(Digit, "cl_digits", <<"content_length_digit",
                                                    "inc_count">>),
                           On({"CR"}, "value_end", <<"emit_token">>),
                           On(Byte \ (Digit \cup {"CR", "LF"}), "value",
                              <<"inc_count">>)}
    [] s = "value"    -> {On({"CR"}, "value_end", <<"emit_token">>),
                          On(Byte \ {"CR", "LF"}, "value", <<"inc_count">>)}
    [] s = "empty"    -> {On({"CR"}, "value_end", <<"emit_token">>),
                          On({"LF"}, "header", <<"inc_count">>),
                          On(Byte \ {"CR", "LF"}, "value", <<"inc_count">>)}
    [] s = "value_end" -> {On({"LF"}, "header", <<"inc_count">>)}
    [] OTHER          -> {}

\* chunk_end: every chunk but the first, and the zero chunk after it.
NextChunk(s) ==
  CASE s = "chunk_end"  -> {On({"CR"}, "chunk_lf", <<>>)}
    [] s = "chunk_lf"   -> {On({"LF"}, "chunk_size0", <<>>)}
    [] s = "chunk_size0" -> {On({"0"}, "zero", <<>>),
                             On(Byte \ {"0"}, "chunk_size",
                                <<"chunk_start", "chunk_size">>)}
    [] s = "chunk_size" -> {On(HexDigit, "chunk_size", <<"chunk_size">>),
                            On({"CR"}, "size_lf", <<>>)}
    [] s = "size_lf"    -> {On({"LF"}, "chunk0", <<>>)}
    [] s = "chunk0"     -> {On(Byte, "chunk", <<"body", "chunk_read">>)}
    [] s = "chunk"      -> {On(Byte, "chunk", <<"chunk_read">>)}
    [] s = "zero"       -> {On({"CR"}, "zero_lf", <<>>)}
    [] s = "zero_lf"    -> {On({"LF"}, "done", <<"end_stream">>)}
    [] OTHER            -> {}

\* In "chunk* zero_chunk" the data of a chunk may also be the size of the
\* next one, or the zero chunk: from its second byte on, data executes the
\* actions of both.  enter is <<"body">> where a chunk's data could begin.
Data(cr, lf, enter) ==
  LET all == enter \o <<"chunk_read", "chunk_start", "chunk_size">>
  IN  {On({"0"}, "data_0", <<"chunk_size">> \o enter \o <<"chunk_read">>),
       On(HexDigit \ {"0"}, "data",
          <<"chunk_size">> \o enter \o <<"chunk_read", "chunk_start">>),
       On({"CR"}, cr, all),
       On({"LF"}, lf, IF lf \in {"data_end", "second_end"}
                      THEN Append(all, "end_stream") ELSE all),
       On(Byte \ (HexDigit \cup {"CR", "LF"}), "data", all)}

\* chunked_body: the first chunk.
FirstChunk(s) ==
  CASE s = "chunked_body" -> {On({"0"}, "zero", <<>>),
                              On(Byte \ {"0"}, "first_size",
                                 <<"chunk_start", "chunk_size">>)}
    [] s = "first_size" -> {On(HexDigit, "first_size", <<"chunk_size">>),
                            On({"CR"}, "first_lf", <<>>)}
    [] s = "first_lf"   -> {On({"LF"}, "first0", <<>>)}
    [] s = "first0"     -> {On(Byte, "first", <<"body", "chunk_read">>)}
    [] s = "first"      -> {On({"0"}, "second_0", <<"chunk_read">>),
                            On(Byte \ {"0"}, "data", <<"chunk_read",
                                          "chunk_start", "chunk_size">>)}
    [] s = "second_0"   -> {On({"0"}, "second_0", <<"chunk_read">>),
                            On({"CR"}, "second_cr", <<"chunk_read",
                                          "chunk_start", "chunk_size">>),
                            On(Byte \ {"0", "CR"}, "data", <<"chunk_read",
                                          "chunk_start", "chunk_size">>)}
    [] s \in {"data", "second_end"}     -> Data("data_cr", "data", <<>>)
    [] s = "data_cr"                    -> Data("data_cr", "data_lf", <<>>)
    [] s \in {"data_lf", "data_end"}    -> Data("data_cr", "data", <<"body">>)
    [] s = "data_0"                     -> Data("data_0cr", "data", <<>>)
    [] s = "data_0cr"                   -> Data("data_cr", "data_end", <<>>)
    [] s = "second_cr"                  -> Data("data_cr", "second_end", <<>>)
    [] OTHER            -> {}

PlainBody(s) ==
  CASE s = "small_body" -> {On(Byte, "small", <<"body", "small_body_read">>)}
    [] s = "small"      -> {On(Byte, "small", <<"small_body_read">>)}
    [] s = "large_body" -> {On(Byte, "large", <<"body", "large_body_read">>)}
    [] s = "large"      -> {On(Byte, "large", <<"large_body_read">>)}
    [] OTHER            -> {}

State == {"start", "method", "target0", "target", "version0", "version",
          "line_end", "header0", "header", "blank", "final", "key", "cl_key",
          "te_key", "colon", "cl_colon", "te_colon", "ows", "cl_ows",
          "te_ows", "cl_digits", "value", "empty", "value_end",
          "chunk_end", "chunk_lf", "chunk_size0", "chunk_size", "size_lf",
          "chunk0", "chunk", "zero", "zero_lf", "done",
          "chunked_body", "first_size", "first_lf", "first0", "first",
          "second_0", "second_cr", "second_end", "data", "data_cr", "data_lf",
          "data_0", "data_0cr", "data_end",
          "small_body", "small", "large_body", "large", "error"}

Match(s, b) ==
  LET all  == RequestLine(s) \cup HeaderKey(s) \cup HeaderValue(s)
                \cup NextChunk(s) \cup FirstChunk(s) \cup PlainBody(s)
      some == {e \in all : b \in e.on}
  IN  IF some = {} THEN On({}, "error", <<"error">>)
                   ELSE CHOOSE e \in some : TRUE

Transition == [s \in State |-> [b \in Byte |-> Match(s, b)]]

-----------------------------------------------------------------------------
(* The actions.  A machine is the generated code's local variables cs, p    *)
(* and pe, the buffer b and the parser h it was called with, and whether   *)
(* an action has executed fbreak (out).                                    *)

\* struct hsh_buffer_s; mem is what buf points to.
Buffer == [capacity            : Nat,
           length              : Nat,
           index               : Nat,
           after_headers_index : Nat,
           seq                 : 0 .. SeqIds - 1,
           mem                 : Seq(Byte)]

\* The byte at buf[i]; beyond the allocation there is no telling.
At(b, i) == IF i \in 0 .. b.capacity - 1 THEN b.mem[i + 1] ELSE "junk"

\* realloc
Resize(b, capacity) ==
  [b EXCEPT !.capacity = capacity,
            !.mem = [i \in 1 .. capacity |-> At(b, i - 1)]]

\* What is copied to buf[at], from where.
Copy(b, at, bytes) ==
  [b EXCEPT !.mem = [i \in DOMAIN @ |-> IF i - at \in DOMAIN bytes
                                        THEN bytes[i - at] ELSE @[i]]]

FBreak(m) == [m EXCEPT !.p = @ + 1, !.out = TRUE]

\* HSH_ENTER_TOKEN
EnterToken(m, type) ==
  [m EXCEPT !.h.token = [@ EXCEPT !.type = type, !.index = m.p, !.flags = {}],
            !.h.limit_count = 0, !.h.limit_max = Limit[type]]

body(m) ==
  [m EXCEPT !.h.token = [@ EXCEPT !.type = "BODY", !.index = m.p,
                                  !.flags = {}]]

Ready(m) == [m EXCEPT !.h.flags = @ \cup {"TOKEN_READY"}]

emit_token(m) == FBreak(Ready([m EXCEPT !.h.token.len = m.p - m.h.token.index]))

content_length_digit(m, b) ==
  [m EXCEPT !.h.content_length = 10 * @ + Value(b)]

transfer_encoding(m) == [m EXCEPT !.h.flags = @ \cup {"CHUNKED"}]

reset_count(m) == [m EXCEPT !.h.limit_count = 0,
                            !.h.limit_max = Limit["HEADER_KEY"]]

inc_count(m) ==
  LET n == [m EXCEPT !.h.limit_count = @ + 1]
  IN  IF n.h.limit_count > n.h.limit_max THEN FBreak(n) ELSE n

HeadersDone(m, next, flags) ==
  FBreak(Ready([m EXCEPT !.cs = next,
                         !.h.token = [type |-> "HEADERS_DONE", flags |-> flags,
                                      len |-> 0, index |-> 0]]))

done_headers(m0) ==
  LET after == m0.p + 1
      size  == m0.h.content_length
      m     == [m0 EXCEPT !.b.after_headers_index = after,
                          !.h.content_remaining = size]
  IN  IF "CHUNKED" \in m.h.flags
      THEN HeadersDone(m, "chunked_body", {"STREAMED_BODY"})
      ELSE IF size = 0 THEN HeadersDone(m, m.cs, {"NO_BODY"})
      ELSE IF size > MaxCap - after
           THEN HeadersDone(m, "large_body", {"STREAMED_BODY"})
      ELSE IF size + after > m.b.capacity
           THEN HeadersDone([m EXCEPT !.b = Resize(@, size + after)],
                            "small_body", {})
      ELSE HeadersDone(m, "small_body", {})

chunk_start(m) == [m EXCEPT !.h.content_length = 0]

chunk_size(m, b) ==
  IF b \in HexDigit THEN [m EXCEPT !.h.content_length = 16 * @ + Value(b)]
                    ELSE m

\* (mutant) a chunk counts as complete two bytes before its end
chunk_read_Early(m) ==
  LET size == m.h.content_length
      last == m.h.token.index + size - 1
  IN  IF m.pe >= last - 1
      THEN FBreak(Ready([m EXCEPT !.p = last, !.cs = "chunk_end",
                                  !.h.token.len = size]))
      ELSE m

\* A chunk that is not complete and would not fit is moved down to the end of
\* the headers.  (memcpy with overlapping operands; glibc copies correctly.)
chunk_read(m) ==
  LET size  == m.h.content_length
      last  == m.h.token.index + size - 1
      after == m.b.after_headers_index
      rest  == SubSeq(m.b.mem, m.p + 1, m.pe)
  IN  IF m.pe >= last
      THEN FBreak(Ready([m EXCEPT !.p = last, !.cs = "chunk_end",
                                  !.h.token.len = size]))
      ELSE IF m.p + size > MaxCap
      THEN [m EXCEPT !.b = [Copy(@, after, rest) EXCEPT
                              !.length = after + m.pe - m.p],
                     !.h.token.index = after, !.h.seq = m.b.seq,
                     !.p = after, !.out = TRUE]
      ELSE m

end_stream(m) ==
  FBreak(Ready([m EXCEPT !.h.token = [type |-> "BODY", len |-> 0, index |-> 0,
                                      flags |-> {"BODY_FINAL"}],
                         !.h.flags = @ \cup {"DONE"}]))

small_body_read(m) ==
  LET start == m.b.after_headers_index
      n     == [m EXCEPT !.h.token.index = start,
                         !.h.token.len = m.h.content_length,
                         !.h.token.flags = @ \cup {"SMALL_BODY"}]
  IN  [(IF m.pe >= start + m.h.content_length - 1
        THEN Ready([n EXCEPT !.h.flags = @ \cup {"DONE"}]) ELSE n)
         EXCEPT !.p = m.pe, !.out = TRUE]

large_body_read(m) ==
  LET start == m.b.after_headers_index
      left  == m.h.content_remaining
      n     == Ready([m EXCEPT !.h.token.index = start, !.out = TRUE])
  IN  IF m.pe >= start + left - 1
      THEN [n EXCEPT !.h.token.flags = {"BODY_FINAL"}, !.h.token.len = left,
                     !.h.content_remaining = 0, !.h.flags = @ \cup {"DONE"}]
      ELSE [n EXCEPT !.h.token.len = m.pe - m.p,
                     !.h.content_remaining = left - (m.pe - m.p),
                     !.p = start, !.b.length = start, !.h.seq = m.b.seq]

Execute(m, action, b) ==
  CASE action = "method"       -> EnterToken(m, "METHOD")
    [] action = "target"       -> EnterToken(m, "TARGET")
    [] action = "version"      -> EnterToken(m, "VERSION")
    [] action = "header_key"   -> EnterToken(m, "HEADER_KEY")
    [] action = "header_value" -> EnterToken(m, "HEADER_VALUE")
    [] action = "body"         -> body(m)
    [] action = "emit_token"   -> emit_token(m)
    [] action = "content_length_digit" -> content_length_digit(m, b)
    [] action = "transfer_encoding"    -> transfer_encoding(m)
    [] action = "reset_count"  -> reset_count(m)
    [] action = "inc_count"    -> inc_count(m)
    [] action = "done_headers" -> done_headers(m)
    [] action = "chunk_start"  -> chunk_start(m)
    [] action = "chunk_size"   -> chunk_size(m, b)
    [] action = "chunk_read"   -> chunk_read(m)
    [] action = "end_stream"   -> end_stream(m)
    [] action = "small_body_read" -> small_body_read(m)
    [] action = "large_body_read" -> large_body_read(m)
    [] action = "error"        -> FBreak(m)

-----------------------------------------------------------------------------
(* One call of hsh_parser_exec.                                            *)

\* Returns at once: the request is complete, or nothing was read since the
\* last call that found no token.
NothingNew(b, h) == "DONE" \in h.flags \/ h.seq = b.seq

\* Entry; there is nothing to do at the end of the data or after an error.
Enter(b, h) ==
  [cs |-> h.state, p |-> b.index, pe |-> b.length, b |-> b, h |-> h,
   out |-> b.index = b.length \/ h.state = "error"]

\* One byte.
Step(m) ==
  LET byte == At(m.b, m.p)
      t    == Transition[m.cs][byte]
      n    == FoldLeft(LAMBDA k, action : IF k.out THEN k
                                          ELSE Execute(k, action, byte),
                       [m EXCEPT !.cs = t.to], t.do)
  IN  IF n.out \/ n.cs = "error" THEN [n EXCEPT !.out = TRUE]
      ELSE [n EXCEPT !.p = @ + 1, !.out = n.p + 1 = n.pe]

\* Exit: the token, if there is one, and the buffer and the parser.
Leave(m) ==
  LET found == "TOKEN_READY" \in m.h.flags
      h     == [m.h EXCEPT !.state = m.cs, !.flags = @ \ {"TOKEN_READY"}]
  IN  [token |-> IF found THEN h.token ELSE NoToken,
       b     |-> [m.b EXCEPT !.index = m.p],
       h     |-> IF found THEN h ELSE [h EXCEPT !.seq = m.b.seq]]
=============================================================================
