------------------------------ MODULE Requests ------------------------------
(***************************************************************************)
(* The requests that are read into the buffer as a whole, without a body   *)
(* or with a small one: where the machine stands after each of their bytes *)
(* and which tokens they have.                                             *)
(***************************************************************************)
EXTENDS DataPath

-----------------------------------------------------------------------------
(* The requests and the settings.                                          *)

Bytes(S) == Seq(S) \ {<<>>}

Key(key) ==
  /\ key \in Bytes(TokenByte) /\ key[1] \notin Names \cup {"CR"}
  /\ Len(key) <= Limit["HEADER_KEY"]

HeaderText(text) ==
  /\ text \in Bytes(Byte \ {"CR", "LF"}) /\ text[1] # "SP"
  /\ Len(text) < Limit["HEADER_VALUE"]

Size(s) == Len(Flat(s.chunks))

\* What the machine accepts as one request, no token being too long for it.
WellFormed(s) ==
  /\ s.method \in Letters
  /\ s.target \in Bytes(Byte \ {"SP"}) /\ Len(s.target) <= Limit["TARGET"]
  /\ s.version \in {"HTTP/1.0", "HTTP/1.1"}
  /\ s.headers \in Seq(Seq(Byte) \X Seq(Byte))
  /\ \A i \in DOMAIN s.headers :
       Key(s.headers[i][1]) /\ HeaderText(s.headers[i][2])
  /\ s.chunks \in Seq(Seq(Byte))
  /\ s.headers # <<>> \/ s.chunks # <<>>
  /\ s.chunks # <<>> => s.sized /\ Size(s) < 100

\* The limits leave room for the server's own comparisons: the empty line is
\* counted as a name of two bytes, a line end as the last byte of a value.
LimitsAllow ==
  /\ 1 <= Limit["METHOD"] /\ 2 <= Limit["HEADER_KEY"]
  /\ 3 <= Limit["HEADER_VALUE"]

Settings == 2 <= SeqIds /\ InitCap < MaxCap /\ LimitsAllow

\* A request fits in half of the largest buffer; and its body does not arrive
\* so that all of it but the last byte can be read.
Modest(s) ==
  /\ Settings /\ WellFormed(s)
  /\ 2 * Len(Wire[s]) < MaxCap
  /\ Size(s) > 0 => ~ Cut(s, Len(Wire[s]) - 1)

-----------------------------------------------------------------------------
(* Where things are in a request.                                          *)

HeaderLines(s) ==
  [i \in DOMAIN Headers(s) |->
     Headers(s)[i][1] \o <<":", "SP">> \o Headers(s)[i][2] \o <<"CR", "LF">>]

\* What the first i sequences of ss are together.
UpTo(ss) ==
  LET flatten[i \in 1 .. Len(ss)] ==
        IF i = 1 THEN ss[i] ELSE flatten[i - 1] \o ss[i]
  IN  flatten

\* The number of headers, and for the i-th its first byte, counted from 0, and
\* the lengths of its name and value.
Count(s)      == Len(Headers(s))
KeyLen(s, i)  == Len(Headers(s)[i][1])
TextLen(s, i) == Len(Headers(s)[i][2])
LineAt(s, i)  == 6 + Len(s.target)
                   + (IF i = 1 THEN 0 ELSE Len(UpTo(HeaderLines(s))[i - 1]))
TextAt(s, i)  == LineAt(s, i) + KeyLen(s, i) + 2
BlankAt(s)    == LineAt(s, Count(s) + 1)
HeadLen(s)    == BlankAt(s) + 2

\* Is the i-th header the length of the body?
IsLength(s, i) == s.chunks # <<>> /\ i = Count(s)

-----------------------------------------------------------------------------
(* The tokens of a request.                                                *)

Total(s) == IF Size(s) > 0 THEN 2 * Count(s) + 5 ELSE 2 * Count(s) + 4

Tok(type, index, len, marks) ==
  [type |-> type, flags |-> marks, len |-> len, index |-> index]

\* The k-th token of s is t.
IsToken(s, k, t) ==
  \/ k = 1 /\ t = Tok("METHOD", 0, 1, {})
  \/ k = 2 /\ t = Tok("TARGET", 2, Len(s.target), {})
  \/ k = 3 /\ t = Tok("VERSION", 3 + Len(s.target), 1, {})
  \/ \E i \in 1 .. Count(s) :
       k = 2 * i + 2 /\ t = Tok("HEADER_KEY", LineAt(s, i), KeyLen(s, i), {})
  \/ \E i \in 1 .. Count(s) :
       k = 2 * i + 3 /\ t = Tok("HEADER_VALUE", TextAt(s, i), TextLen(s, i), {})
  \/ /\ k = 2 * Count(s) + 4
     /\ t = Tok("HEADERS_DONE", 0, 0, IF Size(s) > 0 THEN {} ELSE {"NO_BODY"})
  \/ /\ Size(s) > 0 /\ k = 2 * Count(s) + 5
     /\ t = Tok("BODY", HeadLen(s), Size(s), {"SMALL_BODY"})

\* The array begins with the first c tokens of s, or with all of them, and has
\* no others.
Listed(s, all, c) ==
  /\ Len(all) = c \/ Len(all) >= Total(s)
  /\ \A k \in 1 .. Total(s) : k <= Len(all) => IsToken(s, k, all[k])
  /\ \A k \in DOMAIN all : \E j \in 1 .. Total(s) : IsToken(s, j, all[k])

-----------------------------------------------------------------------------
(* The machine behind p bytes of a request, c tokens of which were found.  *)

\* It is in a token that begins at a position, n bytes of which count.
Inside(h, type, at, n) ==
  /\ h.token.type = type /\ h.token.index = at /\ h.token.flags = {}
  /\ h.limit_count = n /\ h.limit_max = Limit[type]

InLine(s, cs, p, h, c) ==
  LET t == Len(s.target)
  IN  \/ cs = "start" /\ p = 0 /\ c = 0
      \/ cs = "method" /\ p = 1 /\ c = 0 /\ Inside(h, "METHOD", 0, 1)
      \/ cs = "target0" /\ p = 2 /\ c = 1
      \/ cs = "target" /\ p \in 3 .. t + 2 /\ c = 1 /\ Inside(h, "TARGET", 2, p - 2)
      \/ cs = "version0" /\ p = t + 3 /\ c = 2
      \/ cs = "version" /\ p = t + 4 /\ c = 2 /\ Inside(h, "VERSION", t + 3, 0)
      \/ cs = "line_end" /\ p = t + 5 /\ c = 3

InHeader(s, i, cs, p, h, c) ==
  LET line == LineAt(s, i)
      text == TextAt(s, i)
      last == TextAt(s, i) + TextLen(s, i)
      of(length, other) == IF IsLength(s, i) THEN length ELSE other
  IN  \/ cs = (IF i = 1 THEN "header0" ELSE "header") /\ p = line /\ c = 2 * i + 1
      \/ /\ cs = of("cl_key", "key") /\ p \in line + 1 .. text - 2 /\ c = 2 * i + 1
         /\ Inside(h, "HEADER_KEY", line, p - line)
      \/ cs = of("cl_colon", "colon") /\ p = text - 1 /\ c = 2 * i + 2
      \/ cs = of("cl_ows", "ows") /\ p = text /\ c = 2 * i + 2
      \/ /\ cs = of("cl_digits", "value") /\ p \in text + 1 .. last /\ c = 2 * i + 2
         /\ Inside(h, "HEADER_VALUE", text, p - text)
      \/ /\ cs = "value_end" /\ p = last + 1 /\ c = 2 * i + 3
         /\ Inside(h, "HEADER_VALUE", text, TextLen(s, i))

InTail(s, cs, p, h, c) ==
  LET n == Count(s)
  IN  \/ cs = "header" /\ p = BlankAt(s) /\ c = 2 * n + 3
      \/ /\ cs = "blank" /\ p = BlankAt(s) + 1 /\ c = 2 * n + 3
         /\ Inside(h, "HEADER_KEY", BlankAt(s), 1)
      \/ cs = "final" /\ Size(s) = 0 /\ p = HeadLen(s) /\ c = 2 * n + 4
      \/ cs = "small_body" /\ Size(s) > 0 /\ p = HeadLen(s) /\ c = 2 * n + 4
      \/ /\ cs = "small" /\ Size(s) > 0 /\ p \in HeadLen(s) + 1 .. Len(Wire[s]) - 1
         /\ c = 2 * n + 4
         /\ h.token.type = "BODY" /\ h.token.flags = {"SMALL_BODY"}
      \/ cs = "small" /\ Size(s) > 0 /\ p = Len(Wire[s]) /\ c = 2 * n + 5

\* The length of the body, as far as its digits were read.
Announced(s, p) ==
  LET text == TextAt(s, Count(s))
  IN  IF s.chunks = <<>> \/ p <= text THEN 0
      ELSE IF p = text + 1 /\ TextLen(s, Count(s)) = 2 THEN Size(s) \div 10
      ELSE Size(s)

Stands(s, cs, p, h, b, c) ==
  /\ \/ InLine(s, cs, p, h, c)
     \/ \E i \in 1 .. Count(s) : InHeader(s, i, cs, p, h, c)
     \/ InTail(s, cs, p, h, c)
  /\ h.content_length = Announced(s, p)
  /\ h.flags \ {"TOKEN_READY"} = (IF c = 2 * Count(s) + 5 THEN {"DONE"} ELSE {})
  /\ p >= HeadLen(s) => b.after_headers_index = HeadLen(s)

-----------------------------------------------------------------------------
(* The invariant, by the place in the program.                             *)

\* b begins with what was read.
Holds(b) ==
  /\ b.capacity > 0 /\ b.capacity < MaxCap /\ b.length = taken
  /\ taken < b.capacity
  /\ \A k \in 1 .. taken : b.mem[k] = Wire[shape][k]

Next_(seq) == (seq + 1) % SeqIds

\* Between calls of the parser.
Between(c) ==
  /\ Holds(buffer) /\ buffer.index <= taken
  /\ buffer.index < Len(Wire[shape])
  /\ Stands(shape, parser.state, buffer.index, parser, buffer, c)
  /\ parser.flags = {}
  /\ c < Total(shape)

Waiting ==
  /\ edge \/ taken = sent
  /\ buffer.index = taken /\ parser.seq = buffer.seq

Scanning(c) ==
  /\ Holds(machine.b) /\ machine.pe = taken /\ machine.p <= taken
  /\ Stands(shape, machine.cs, machine.p, machine.h, machine.b, c)
  /\ machine.b.seq = Next_(machine.h.seq)
  /\ IF "TOKEN_READY" \in machine.h.flags
     THEN machine.out /\ IsToken(shape, c, machine.h.token)
     ELSE /\ machine.out <=> machine.p = taken
          /\ machine.p < Len(Wire[shape])

Reading(c) ==
  /\ pc = "loop" => Between(c) /\ Waiting
  /\ pc = "read" => Between(c) /\ parser.seq = buffer.seq
  /\ pc = "exec" => Between(c) /\ buffer.seq = Next_(parser.seq) /\ taken = sent
  /\ pc = "scan" => Scanning(c) /\ taken = sent

\* What the application has, and the tokens, are what was sent, if tokens of
\* other requests are not in the way.
Knows(c) ==
  Listed(shape, tokens, IF pc = "scan" /\ "TOKEN_READY" \in machine.h.flags
                        THEN c - 1 ELSE c)

\* What was sent of the request.
Wired ==
  /\ left = <<>> /\ ~ inject /\ tokens \in Seq(Token)
  /\ sent <= Len(Wire[shape])
  /\ Size(shape) > 0 => sent # Len(Wire[shape]) - 1

\* Before the first read().
Accepting ==
  /\ pc = "accept" /\ state = "READ" /\ buffer = NoBuffer /\ taken = 0
  /\ held = "none" /\ flags = {} /\ given = <<>> /\ ~ complete
  /\ Repeats => Listed(shape, tokens, 0)

\* Until the request is complete.
Receiving ==
  /\ pc \in {"loop", "read", "exec", "scan"} /\ state = "READ"
  /\ held = "none" /\ "CHUNKED_RESPONSE" \notin flags
  /\ given = <<>> /\ ~ complete
  /\ \E c \in 0 .. Total(shape) : Reading(c) /\ (Repeats => Knows(c))

\* The application has the request, and owes the response ...
Complete ==
  /\ pc = "callback" /\ state = "NOP" /\ complete
  /\ taken = Len(Wire[shape]) /\ taken = sent
  /\ Repeats => /\ Listed(shape, tokens, Total(shape))
                /\ given = Flat(shape.chunks)
Called ==
  /\ Complete /\ held = "request" /\ Holds(buffer)
  /\ "CHUNKED_RESPONSE" \notin flags

\* ... or more of it.
Notified == Complete /\ held = "notify" /\ "CHUNKED_RESPONSE" \in flags

Closed == pc = "loop" /\ state = "CLOSED"

RInv == Wired /\ (Accepting \/ Receiving \/ Called \/ Notified \/ Closed)

\* While the client sends the same modest request again and again, it is
\* received as it was sent: after every byte the machine stands where the
\* grammar says, and no byte is lost, however the buffer grows.
Whole == Repeats /\ Modest(shape) => RInv
=============================================================================
