----------------------------- MODULE MCDataPath -----------------------------
(* Instances of DataPath for TLC: one request of each kind. *)
EXTENDS Requests

Line(method, version, headers, pieces, sized) ==
  [method |-> method, target |-> <<"x", "/t">>, version |-> version,
   headers |-> headers, chunks |-> pieces, sized |-> sized]

Header(key, value) == <<<<key>>, value>>

Host   == Header("Host", <<"x", "y">>)
Close  == Header("Connection", <<"close">>)

Letter(n) == [i \in 1 .. n |-> <<"x", "y", "z">>[(i % 3) + 1]]

Plain    == Line("GET", "HTTP/1.1", <<Host>>, <<>>, TRUE)
Closing  == Line("GET", "HTTP/1.1", <<Host, Close>>, <<>>, TRUE)
Old      == Line("GET", "HTTP/1.0", <<Host>>, <<>>, TRUE)
Small    == Line("POST", "HTTP/1.1", <<>>, <<Letter(7)>>, TRUE)
Large    == Line("POST", "HTTP/1.1", <<>>, <<Letter(32)>>, TRUE)
Chunked  == Line("POST", "HTTP/1.1", <<>>, << <<"x", "0", "y">>, <<"a", "0", "z">> >>,
                 FALSE)

First    == Line("POST", "HTTP/1.1", <<>>, <<Letter(4), <<"a">>>>, FALSE)
Full     == Line("POST", "HTTP/1.1", <<>>, <<Letter(6), Letter(6)>>, FALSE)

OnlySmall == {Small}
OnlyFirst == {First}
OnlyFull  == {Full}
OneOfEach == {Plain, Closing, Old, Small, Large, Chunked}

\* The limits of parser.rl:20-42, with a token's symbols fewer than its bytes.
Limits == [METHOD |-> 8, TARGET |-> 64, VERSION |-> 8, HEADER_KEY |-> 32,
           HEADER_VALUE |-> 32]

Answer(status, headers, text) ==
  [status |-> status, headers |-> headers, body |-> text]

Text(n) == [i \in 1 .. n |-> <<"text", i>>]

\* A short answer, one whose body makes the buffer grow (a status without a
\* text), and one whose status is not a status.
Labels  == << <<"A", "1">>, <<"B", "2">> >>
Answers == {Answer(200, <<>>, Text(1)), Answer(299, Labels, Text(8)),
            Answer(999, <<>>, <<>>)}
Short   == {Answer(200, <<>>, Text(1)), Answer(299, Labels, Text(1))}
Long    == {Answer(200, <<>>, Text(10))}

-----------------------------------------------------------------------------
(* Where the arrival of a request may pause.                               *)

Anywhere(s, k) == TRUE

\* The position after the i-th segment.
EndOf(s, i) == Len(Flat(SubSeq(Segments(s), 1, i)))

\* After the first half of the first chunk.
InFirst(s, k) == k = EndOf(s, 2) + Len(s.chunks[1]) \div 2

\* Before the last byte of the body.
BeforeLast(s, k) == k = Len(Wire[s]) - 1

\* In the middle of the second chunk.
InSecond(s, k) == k = EndOf(s, 4) + Len(s.chunks[2]) \div 2

\* Never so that the last byte of a body or of a chunk is the only one there
\* is to read (a streamed body is read until the buffer is full, at its third
\* or its last capacity); the first chunk at most after its first byte; and
\* the end of the zero chunk as a whole.  To keep the run small, a head pauses
\* after every third byte and before its last, the long body after every
\* sixth.
Apart(s, k) ==
  LET n    == Len(Segments(s))
      head == EndOf(s, 1)
      end  == Len(Wire[s])
  IN  IF k <= head THEN k % 3 = 0 \/ k >= head - 1
      ELSE
        IF s.sized
        THEN /\ s = Large => (k - head) % 6 = 0
             /\ end - 1 - k \notin {0, 4 * InitCap - head, MaxCap - head}
        ELSE /\ \A i \in 2 .. n : i % 2 = 1 => k # EndOf(s, i) - 1
             /\ k \notin EndOf(s, 2) + 2 .. EndOf(s, 3) - 1
             /\ k < EndOf(s, n - 1)
=============================================================================
