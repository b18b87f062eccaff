---------------------------- MODULE Exchange_proofs ----------------------------
(***************************************************************************)
(* The proof that HttpServer implements HttpExchange: the initial states   *)
(* map to the initial state, and every step maps to a step or a stutter.   *)
(*                                                                         *)
(* The invariant for it adds to IInv and KInv what the phases rely on:     *)
(* Settled says which parser state goes with what the application holds,   *)
(* Turn where the zero-length body finds the application, and Wire that a  *)
(* chunk is never followed by anything but a chunk, in the buffer, in the  *)
(* socket and at the client, so that a body that was begun is not taken    *)
(* for a malformed one.                                                    *)
(***************************************************************************)
EXTENDS Handle_proofs

\* The application does not defer the call for the last piece of a large
\* body: it is called for the end of the body as soon as it returns.
Prompt == Punctual /\ "defer_last" \notin AppCalls

InBody == {"chunked", "large", "done"}

\* The request of an application that holds a piece of the body is still in
\* its body; one that is complete, or answered, is not in a chunked body.
Settled(r, a) ==
  /\ a.held = "body" => r.pst \in InBody /\ HasBuffer(r)
  /\ a.held \in Complete \cup {"notify"} \/ r.state = "WRITE" =>
       r.pst # "chunked"

Continued    == {"stream", "chunk"}
Continuation == {"chunk", "zero"}

Chained(q) ==
  \A i \in 1 .. Len(q) - 1 : q[i] \in Continued => q[i + 1] \in Continuation

\* After all that is buffered a chunk, or the zero chunk, is due.
Due(r) == IF r.pending = <<>> THEN r.pst = "chunked"
                              ELSE r.pending[Len(r.pending)] \in Continued

\* Chunks follow each other from the parser to the client.
Wire(s, r, k) ==
  /\ Chained(r.pending) /\ Chained(s.rx)
  /\ r.pst = "chunked" /\ r.pending # <<>> => r.pending[1] \in Continuation
  /\ Due(r) /\ s.rx # <<>> => s.rx[1] \in Continuation
  /\ s.rx = <<>> /\ Due(r) => k.at = "chunked"
  /\ s.rx # <<>> /\ s.rx[Len(s.rx)] \in Continued => k.at = "chunked"

AllWired == \A c \in Conn : /\ Settled(req[c], app[c])
                            /\ Wire(sock[c], req[c], client[c])

\* Before the zero-length body is passed on, the application has asked for
\* more.
Turn == pc = "inject" => app[cur].held = "none" /\ req[cur].state = "READ"

XInv == AllWired /\ Turn

-----------------------------------------------------------------------------
(* What the operators do to the wire.                                      *)

\* Wire sees only what is buffered, where the parser is, what the socket has
\* and where the client is.
LEMMA WireSame ==
  ASSUME NEW s, NEW r, NEW k, Wire(s, r, k),
         NEW t, NEW q, NEW m, t.rx = s.rx, m.at = k.at,
         q.pending = r.pending, q.pst = r.pst
  PROVE  Wire(t, q, m)
BY DEF Wire, Due

\* Forgetting the buffer does no harm outside a chunked body.
LEMMA WireDrop ==
  ASSUME NEW s, NEW r, NEW k, Wire(s, r, k),
         NEW q, q.pending = <<>>, q.pst # "chunked"
  PROVE  Wire(s, q, k)
<1>1. Chained(<<>>)
  BY DEF Chained
<1> QED
  BY <1>1 DEF Wire, Due

\* A closed socket and a new request have nothing on the wire.
LEMMA WireNew ==
  ASSUME NEW k
  PROVE  Wire(NewSocket, RequestInit, k)
<1>1. Chained(<<>>)
  BY DEF Chained
<1> QED
  BY <1>1 DEF Wire, Due, NewSocket, RequestInit

\* A sequence in two parts: the first n elements, and the rest.
LEMMA SplitAt ==
  ASSUME NEW x \in Seq(Fragment), NEW n \in 1 .. Len(x)
  PROVE  /\ SubSeq(x, 1, n) \in Seq(Fragment) /\ Len(SubSeq(x, 1, n)) = n
         /\ \A i \in 1 .. n : SubSeq(x, 1, n)[i] = x[i]
         /\ SubSeq(x, n + 1, Len(x)) \in Seq(Fragment)
         /\ Len(SubSeq(x, n + 1, Len(x))) = Len(x) - n
         /\ \A i \in 1 .. Len(x) - n : SubSeq(x, n + 1, Len(x))[i] = x[i + n]
<1>1. Len(x) \in Nat /\ n \in Nat /\ 1 <= n /\ n <= Len(x)
  OBVIOUS
<1>2. /\ SubSeq(x, 1, n) \in Seq(Fragment) /\ Len(SubSeq(x, 1, n)) = n
      /\ \A i \in 1 .. n : SubSeq(x, 1, n)[i] = x[i]
  BY <1>1
<1>3. /\ SubSeq(x, n + 1, Len(x)) \in Seq(Fragment)
      /\ Len(SubSeq(x, n + 1, Len(x))) = Len(x) - n
  BY <1>1
<1>4. ASSUME NEW i \in 1 .. Len(x) - n
      PROVE  SubSeq(x, n + 1, Len(x))[i] = x[i + n]
  BY <1>1, <1>3
<1> QED
  BY <1>2, <1>3, <1>4

\* What read() takes from the socket it puts behind what is buffered.
LEMMA WireMove ==
  ASSUME NEW s \in Socket, NEW r \in Request, NEW k, Wire(s, r, k),
         NEW n \in 1 .. Len(s.rx), NEW t, NEW q,
         t.rx = SubSeq(s.rx, n + 1, Len(s.rx)), q.pst = r.pst,
         q.pending = r.pending \o SubSeq(s.rx, 1, n)
  PROVE  Wire(t, q, k)
<1> DEFINE p == r.pending
           x == s.rx
           a == SubSeq(x, 1, n)
           b == SubSeq(x, n + 1, Len(x))
<1>1. /\ p \in Seq(Fragment) /\ x \in Seq(Fragment)
      /\ Chained(p) /\ Chained(x)
  BY DEF Request, Socket, Wire
<1>2. Len(p) \in Nat /\ Len(x) \in Nat /\ n \in Nat /\ n >= 1 /\ n <= Len(x)
  BY <1>1
<1>3. /\ a \in Seq(Fragment) /\ Len(a) = n
      /\ \A i \in 1 .. n : a[i] = x[i]
      /\ b \in Seq(Fragment) /\ Len(b) = Len(x) - n
      /\ \A i \in 1 .. Len(x) - n : b[i] = x[i + n]
  <2>1. x \in Seq(Fragment) /\ n \in 1 .. Len(x) /\ Len(x) \in Nat
    BY <1>1, <1>2
  <2> HIDE DEF x
  <2>2. /\ a \in Seq(Fragment) /\ Len(a) = n
        /\ \A i \in 1 .. n : a[i] = x[i]
    BY <2>1, SplitAt
  <2>3. /\ b \in Seq(Fragment) /\ Len(b) = Len(x) - n
        /\ \A i \in 1 .. Len(x) - n : b[i] = x[i + n]
    BY <2>1, SplitAt
  <2> QED
    BY <2>2, <2>3
<1>4. /\ Len(p \o a) = Len(p) + n
      /\ \A i \in 1 .. Len(p) : (p \o a)[i] = p[i]
      /\ \A i \in 1 .. n : (p \o a)[Len(p) + i] = x[i]
  BY <1>1, <1>2, <1>3
<1> HIDE DEF p, x, a, b
<1>5. Due(r) => x[1] \in Continuation
  BY <1>2 DEF Wire, x
<1>6. Due(r) <=> IF Len(p) = 0 THEN r.pst = "chunked"
                               ELSE p[Len(p)] \in Continued
  BY <1>1 DEF Due, p
<1>7. Chained(p \o a)
  <2>1. ASSUME NEW i \in 1 .. (Len(p) + n) - 1, (p \o a)[i] \in Continued
        PROVE  (p \o a)[i + 1] \in Continuation
    <3>1. CASE i < Len(p)
      <4>1. /\ i \in 1 .. Len(p) - 1 /\ i \in 1 .. Len(p)
            /\ i + 1 \in 1 .. Len(p)
        BY <1>2, <3>1
      <4>2. (p \o a)[i] = p[i] /\ (p \o a)[i + 1] = p[i + 1]
        BY <1>4, <4>1
      <4>3. p[i] \in Continued => p[i + 1] \in Continuation
        BY <1>1, <4>1 DEF Chained
      <4> QED
        BY <2>1, <4>2, <4>3
    <3>2. CASE i = Len(p)
      <4>1. p[Len(p)] \in Continued /\ Len(p) # 0
        BY <1>2, <1>4, <2>1, <3>2
      <4>2. (p \o a)[Len(p) + 1] = x[1]
        BY <1>2, <1>4
      <4> QED
        BY <1>5, <1>6, <3>2, <4>1, <4>2
    <3>3. CASE i > Len(p)
      <4> DEFINE j == i - Len(p)
      <4>1. j \in 1 .. n - 1 /\ j \in 1 .. Len(x) - 1 /\ i = Len(p) + j
            /\ i + 1 = Len(p) + (j + 1) /\ j \in 1 .. n /\ j + 1 \in 1 .. n
        BY <1>2, <3>3
      <4> HIDE DEF j
      <4>2. (p \o a)[i] = x[j] /\ (p \o a)[i + 1] = x[j + 1]
        BY <1>4, <4>1
      <4> QED
        BY <1>1, <2>1, <4>1, <4>2 DEF Chained
    <3>4. i \in Int
      OBVIOUS
    <3>5. i < Len(p) \/ i = Len(p) \/ i > Len(p)
      BY <1>2, <3>4
    <3> QED
      BY <3>1, <3>2, <3>3, <3>5
  <2> QED
    BY <1>4, <2>1 DEF Chained
<1>8. Chained(b)
  <2>1. ASSUME NEW i \in 1 .. (Len(x) - n) - 1, b[i] \in Continued
        PROVE  b[i + 1] \in Continuation
    <3>1. /\ i + n \in 1 .. Len(x) - 1 /\ (i + 1) + n = (i + n) + 1
          /\ i \in 1 .. Len(x) - n /\ i + 1 \in 1 .. Len(x) - n
      BY <1>2
    <3>2. b[i] = x[i + n] /\ b[i + 1] = x[(i + n) + 1]
      BY <1>3, <3>1
    <3> QED
      BY <1>1, <2>1, <3>1, <3>2 DEF Chained
  <2> QED
    BY <1>3, <2>1 DEF Chained
<1>9. /\ q.pending = p \o a /\ t.rx = b /\ q.pst = r.pst
      /\ q.pending # <<>> /\ Len(q.pending) = Len(p) + n
  <2>1. q.pending = p \o a /\ t.rx = b
    BY DEF p, a, x, b
  <2>2. Len(p \o a) # 0
    BY <1>2, <1>4
  <2>3. p \o a # <<>>
    BY <2>2
  <2> QED
    BY <1>4, <2>1, <2>3
<1>10. Due(q) <=> x[n] \in Continued
  <2>1. (p \o a)[Len(p) + n] = x[n]
    BY <1>2, <1>4
  <2> QED
    BY <1>9, <2>1 DEF Due
<1>11. q.pst = "chunked" => q.pending[1] \in Continuation
  <2>1. CASE Len(p) = 0
    <3>1. (p \o a)[1] = x[1]
      <4>1. (p \o a)[Len(p) + 1] = x[1]
        BY <1>2, <1>4
      <4>2. Len(p) + 1 = 1
        BY <2>1
      <4> QED
        BY <4>1, <4>2
    <3> QED
      BY <1>5, <1>6, <1>9, <2>1, <3>1
  <2>2. CASE Len(p) # 0
    <3>1. (p \o a)[1] = p[1]
      BY <1>2, <1>4, <2>2
    <3>2. p # <<>>
      BY <2>2
    <3> QED
      BY <1>9, <3>1, <3>2 DEF Wire, p
  <2> QED
    BY <2>1, <2>2
<1>12. /\ Due(q) /\ t.rx # <<>> => t.rx[1] \in Continuation
       /\ t.rx = <<>> /\ Due(q) => k.at = "chunked"
       /\ t.rx # <<>> /\ t.rx[Len(t.rx)] \in Continued => k.at = "chunked"
  <2>1. CASE n = Len(x)
    <3>1. b = <<>>
      BY <1>2, <1>3, <2>1
    <3>2. x[n] \in Continued => k.at = "chunked"
      <4>1. x # <<>>
        BY <1>2
      <4> QED
        BY <2>1, <4>1 DEF Wire, x
    <3> QED
      BY <1>9, <1>10, <3>1, <3>2
  <2>2. CASE n # Len(x)
    <3>1. n \in 1 .. Len(x) - 1 /\ Len(x) - n \in 1 .. Len(x) - n
          /\ 1 \in 1 .. Len(x) - n /\ (Len(x) - n) + n = Len(x)
          /\ 1 + n = n + 1
      BY <1>2, <2>2
    <3>2. b[1] = x[n + 1] /\ b[Len(b)] = x[Len(x)] /\ b # <<>>
      <4>1. b[1] = x[1 + n] /\ b[Len(x) - n] = x[(Len(x) - n) + n]
        BY <1>3, <3>1
      <4>2. Len(b) # 0
        BY <1>3, <3>1
      <4> QED
        BY <1>3, <3>1, <4>1, <4>2
    <3>3. x[n] \in Continued => x[n + 1] \in Continuation
      BY <1>1, <3>1 DEF Chained
    <3>4. x[Len(x)] \in Continued => k.at = "chunked"
      <4>1. x # <<>>
        BY <1>2
      <4> QED
        BY <4>1 DEF Wire, x
    <3> QED
      BY <1>9, <1>10, <3>2, <3>3, <3>4
  <2> QED
    BY <2>1, <2>2
<1> QED
  BY <1>7, <1>8, <1>9, <1>11, <1>12 DEF Wire

\* Taking the first fragment off: a chunked body goes on only behind headers
\* or a chunk.
LEMMA WireTail ==
  ASSUME NEW s, NEW r \in Request, NEW k, Wire(s, r, k), r.pending # <<>>,
         NEW q, q.pending = Tail(r.pending),
         q.pst = "chunked" => Head(r.pending) \in Continued
  PROVE  Wire(s, q, k)
<1> DEFINE p == r.pending
           x == Tail(p)
<1>1. p \in Seq(Fragment) /\ p # <<>> /\ Chained(p)
  BY DEF Request, Wire
<1>2. /\ Len(p) \in Nat /\ Len(p) # 0
      /\ x \in Seq(Fragment) /\ Len(x) = Len(p) - 1
      /\ \A i \in 1 .. Len(p) - 1 : x[i] = p[i + 1]
      /\ Head(p) = p[1]
  BY <1>1
<1>3. q.pending = x /\ r.pending = p /\ Chained(s.rx)
  BY DEF Wire
<1> HIDE DEF p, x
<1>4. Chained(x)
  <2>1. ASSUME NEW i \in 1 .. Len(x) - 1, x[i] \in Continued
        PROVE  x[i + 1] \in Continuation
    <3>1. /\ i \in 1 .. Len(p) - 1 /\ i + 1 \in 1 .. Len(p) - 1
          /\ x[i] = p[i + 1] /\ x[i + 1] = p[(i + 1) + 1]
      BY <1>2
    <3> QED
      BY <1>1, <2>1, <3>1 DEF Chained
  <2> QED
    BY <2>1 DEF Chained
<1>5. /\ x # <<>> => (Due(q) <=> Due(r))
      /\ x = <<>> => (Due(q) => Due(r))
      /\ x # <<>> /\ q.pst = "chunked" => x[1] \in Continuation
  <2>1. CASE x = <<>>
    <3>1. Len(p) = 1
      BY <1>2, <2>1
    <3>2. p[Len(p)] = Head(p)
      BY <1>2, <3>1
    <3>3. Due(r) <=> p[Len(p)] \in Continued
      BY <1>1, <1>3 DEF Due
    <3>4. Due(q) <=> q.pst = "chunked"
      BY <1>3, <2>1 DEF Due
    <3> QED
      BY <1>3, <2>1, <3>2, <3>3, <3>4
  <2>2. CASE x # <<>>
    <3>1. Len(x) # 0
      BY <1>2, <2>2
    <3>2. /\ 1 \in 1 .. Len(p) - 1 /\ Len(x) \in 1 .. Len(p) - 1
          /\ Len(x) + 1 = Len(p)
      BY <1>2, <3>1
    <3>3. x[Len(x)] = p[Len(p)] /\ x[1] = p[1 + 1]
      BY <1>2, <3>2
    <3>4. Due(q) <=> Due(r)
      BY <1>1, <1>3, <2>2, <3>3 DEF Due
    <3>5. q.pst = "chunked" => p[1] \in Continued
      BY <1>2, <1>3
    <3>6. p[1] \in Continued => p[1 + 1] \in Continuation
      BY <1>1, <3>2 DEF Chained
    <3> QED
      BY <2>2, <3>3, <3>4, <3>5, <3>6
  <2> QED
    BY <2>1, <2>2
<1>6. /\ Due(r) /\ s.rx # <<>> => s.rx[1] \in Continuation
      /\ s.rx = <<>> /\ Due(r) => k.at = "chunked"
      /\ s.rx # <<>> /\ s.rx[Len(s.rx)] \in Continued => k.at = "chunked"
  BY DEF Wire
<1>7. Due(q) => Due(r)
  BY <1>5
<1> QED
  BY <1>3, <1>4, <1>5, <1>6, <1>7 DEF Wire

\* Leaving the buffer as it is, outside a chunked body.
LEMMA WireKeep ==
  ASSUME NEW s, NEW r, NEW k, Wire(s, r, k), r.pending # <<>>,
         NEW q, q.pending = r.pending, q.pst # "chunked"
  PROVE  Wire(s, q, k)
<1>1. Due(q) <=> Due(r)
  BY DEF Due
<1> QED
  BY <1>1 DEF Wire

\* A client that has its answer is where it was, if it was in a chunked body.
LEMMA WireAnswered ==
  ASSUME NEW s, NEW r, NEW k \in Client, Wire(s, r, k)
  PROVE  Wire(s, r, Answered(k))
<1>1. k.at = "chunked" => Answered(k).at = "chunked"
  BY DEF Answered, Client
<1> QED
  BY <1>1 DEF Wire

\* What a client sends follows what it sent.
LEMMA WireArrival ==
  ASSUME NEW s \in Socket, NEW r, NEW k \in Client, Wire(s, r, k),
         NEW f \in MaySend(k.at), f \in Fragment,
         NEW a, a = IF f = "zero" /\ "split" \notin Faults
                    THEN <<"zero", "tail">> ELSE <<f>>,
         NEW m, m.at = AfterSend(k.at, f)
  PROVE  Wire(Arrival(s, a), r, m)
<1> DEFINE x == s.rx
           n == Len(a)
<1>0. /\ <<f>> \in Seq(Fragment) /\ Len(<<f>>) = 1 /\ <<f>>[1] = f
      /\ <<"zero", "tail">> \in Seq(Fragment)
      /\ Len(<<"zero", "tail">>) = 2 /\ <<"zero", "tail">>[1] = "zero"
  BY DEF Fragment
<1>1. /\ x \in Seq(Fragment) /\ a \in Seq(Fragment) /\ Chained(x)
      /\ n \in 1 .. 2 /\ a[1] = f
  <2>1. x \in Seq(Fragment) /\ Chained(x)
    BY DEF Socket, Wire
  <2> QED
    BY <1>0, <2>1
<1>2. Arrival(s, a).rx = x \o a
  BY DEF Arrival, Socket
<1>3. Chained(a)
  BY DEF Chained, Continued
<1>4. a[n] \in Continued => m.at = "chunked"
  BY DEF Continued, AfterSend
<1>5. k.at = "chunked" => f \in Continuation
  BY DEF MaySend, Continuation
<1> HIDE DEF n
<1>6. /\ Len(x) \in Nat /\ Len(x \o a) = Len(x) + n
      /\ \A i \in 1 .. Len(x) : (x \o a)[i] = x[i]
      /\ \A i \in 1 .. n : (x \o a)[Len(x) + i] = a[i]
  <2>1. x \in Seq(Fragment) /\ a \in Seq(Fragment)
    BY <1>1
  <2> HIDE DEF x
  <2> QED
    BY <2>1 DEF n
<1>7. x # <<>> /\ x[Len(x)] \in Continued => f \in Continuation
  BY <1>5 DEF Wire
<1>8. /\ Due(r) /\ x = <<>> => f \in Continuation
      /\ Due(r) /\ x # <<>> => x[1] \in Continuation
  BY <1>5 DEF Wire
<1>9. /\ Chained(r.pending)
      /\ r.pst = "chunked" /\ r.pending # <<>> =>
           r.pending[1] \in Continuation
  BY DEF Wire
<1> HIDE DEF x
<1>10. Chained(x \o a)
  <2>1. ASSUME NEW i \in 1 .. (Len(x) + n) - 1, (x \o a)[i] \in Continued
        PROVE  (x \o a)[i + 1] \in Continuation
    <3>1. CASE i < Len(x)
      <4>1. /\ i \in 1 .. Len(x) - 1 /\ i \in 1 .. Len(x)
            /\ i + 1 \in 1 .. Len(x)
        BY <1>6, <3>1
      <4>2. (x \o a)[i] = x[i] /\ (x \o a)[i + 1] = x[i + 1]
        BY <1>6, <4>1
      <4>3. x[i] \in Continued => x[i + 1] \in Continuation
        BY <1>1, <4>1 DEF Chained
      <4> QED
        BY <2>1, <4>2, <4>3
    <3>2. CASE i = Len(x)
      <4>1. Len(x) # 0 /\ i \in 1 .. Len(x) /\ 1 \in 1 .. n
        BY <1>1, <1>6, <3>2
      <4>2. (x \o a)[i] = x[Len(x)] /\ (x \o a)[i + 1] = a[1]
        BY <1>6, <3>2, <4>1
      <4>3. x # <<>>
        BY <4>1
      <4> QED
        BY <1>1, <1>7, <2>1, <4>2, <4>3
    <3>3. CASE i > Len(x)
      <4> DEFINE j == i - Len(x)
      <4>1. /\ j \in 1 .. n - 1 /\ j \in 1 .. n /\ j + 1 \in 1 .. n
            /\ i = Len(x) + j /\ i + 1 = Len(x) + (j + 1)
        BY <1>1, <1>6, <3>3
      <4> HIDE DEF j
      <4>2. (x \o a)[i] = a[j] /\ (x \o a)[i + 1] = a[j + 1]
        BY <1>6, <4>1
      <4>3. a[j] \in Continued => a[j + 1] \in Continuation
        BY <1>3, <4>1 DEF Chained, n
      <4> QED
        BY <2>1, <4>2, <4>3
    <3>4. i \in Int
      OBVIOUS
    <3>5. i < Len(x) \/ i = Len(x) \/ i > Len(x)
      BY <1>6, <3>4
    <3> QED
      BY <3>1, <3>2, <3>3, <3>5
  <2> QED
    BY <1>6, <2>1 DEF Chained
<1>11. /\ x \o a # <<>> /\ (x \o a)[Len(x \o a)] = a[n]
       /\ x = <<>> => (x \o a)[1] = f
       /\ x # <<>> => (x \o a)[1] = x[1]
  <2>1. n \in 1 .. n /\ 1 \in 1 .. n /\ n # 0
    BY <1>1
  <2>2. (x \o a)[Len(x) + n] = a[n] /\ (x \o a)[Len(x) + 1] = a[1]
    BY <1>6, <2>1
  <2>3. Len(x \o a) # 0
    BY <1>1, <1>6
  <2>4. x = <<>> => Len(x) + 1 = 1
    BY <1>6
  <2>5. x # <<>> => 1 \in 1 .. Len(x)
    BY <1>1, <1>6
  <2>6. x # <<>> => (x \o a)[1] = x[1]
    BY <1>6, <2>5
  <2>7. x \o a # <<>>
    BY <2>3
  <2> QED
    BY <1>1, <1>6, <2>2, <2>4, <2>6, <2>7
<1>12. Due(r) => (x \o a)[1] \in Continuation
  BY <1>8, <1>11
<1> QED
  BY <1>2, <1>4, <1>9, <1>10, <1>11, <1>12 DEF Wire
-----------------------------------------------------------------------------
(* What the parser does to the phase and to the wire.                      *)

\* An outcome agrees with the phases: a request is called for outside a
\* body and a piece inside one; whoever has a piece stays inside the body,
\* and whoever has it all is out of a chunked one.
Flow(r, o) ==
  /\ o.call \in {"none", "request", "headers", "chunk", "last", "end"}
  /\ o.call \in {"request", "headers"} => r.pst \notin InBody
  /\ o.call \in {"chunk", "last", "end"} => r.pst \in InBody
  /\ o.call \in {"headers", "chunk", "last"} => o.req.pst \in InBody
  /\ o.call \in {"request", "end"} => o.req.pst # "chunked"
  /\ o.call = "none" => (o.req.pst \in InBody <=> r.pst \in InBody)

\* What the outcomes are made of: the parser's state and what is left.
LEMMA OutcomeFields ==
  ASSUME NEW q \in Request, NEW pst, NEW rest, NEW call
  PROVE  /\ Token(q, pst, rest, call).call = call
         /\ Token(q, pst, rest, call).req.pst = pst
         /\ Token(q, pst, rest, call).req.pending = rest
         /\ NoToken(q, pst, rest).call = "none"
         /\ NoToken(q, pst, rest).req.pst = pst
         /\ NoToken(q, pst, rest).req.pending = rest
BY DEF Token, NoToken, Request

\* The body of a request that fits the buffer.
LEMMA SmallFlow ==
  ASSUME NEW s, NEW r \in Request, NEW k, Wire(s, r, k),
         r.pst \notin InBody, NEW q \in Request, NEW x
  PROVE  Flow(r, ParseSmall(q, x)) /\ Wire(s, ParseSmall(q, x).req, k)
<1>1. /\ Flow(r, Token(q, "done", <<>>, "request"))
      /\ Wire(s, Token(q, "done", <<>>, "request").req, k)
  BY OutcomeFields, WireDrop DEF Flow
<1>2. /\ Flow(r, NoToken(q, "small", <<>>))
      /\ Wire(s, NoToken(q, "small", <<>>).req, k)
  BY OutcomeFields, WireDrop DEF Flow, InBody
<1> QED
  BY <1>1, <1>2 DEF ParseSmall

\* The beginning of a request.
LEMMA StartFlow ==
  ASSUME NEW s, NEW r \in Request, NEW k, Wire(s, r, k),
         r.pst \notin InBody, r.pending # <<>>, HasBuffer(r),
         NEW f, f = Head(r.pending), NEW rest, rest = Tail(r.pending),
         NEW head \in RequestHead
  PROVE  /\ Flow(r, ParseStart(r, f, rest, head))
         /\ Wire(s, ParseStart(r, f, rest, head).req, k)
<1> DEFINE q == PushTokens(r, head)
           t == [q EXCEPT !.flags = @ \cup {STREAMED}]
           u == ResizeFor(q, f)
<1>1. q \in Request /\ q.cap = r.cap
  <2>1. Append(r.tokens, head) \in Seq(RequestHead)
    BY DEF Request
  <2> QED
    BY <2>1 DEF PushTokens, Request
<1>2. ParseStart(r, f, rest, head) =
        CASE f = "get"                 -> Token(t, "nobody", rest, "request")
          [] f = "stream"              -> Token(t, "chunked", rest, "headers")
          [] f = "large"               -> Token(t, "large", rest, "headers")
          [] f \in {"head", "bighead"} -> ParseSmall(u, rest)
          [] OTHER                     -> NoToken(r, "error", rest)
  BY DEF ParseStart
<1> HIDE DEF q
<1>3. t \in Request
  <2>1. q.flags \cup {STREAMED} \in SUBSET Flag
    BY <1>1 DEF Request, Flag, STREAMED
  <2> QED
    BY <1>1, <2>1 DEF Request
<1>4. u \in Request
  <2> DEFINE n == IF f = "bighead" /\ BodyCap > q.cap THEN BodyCap ELSE q.cap
  <2>1. n \in Nat
    BY <1>1, ConnectionAssumption DEF Request
  <2>2. u = [q EXCEPT !.cap = n]
    BY DEF ResizeFor
  <2> HIDE DEF n, u
  <2> QED
    BY <1>1, <2>1, <2>2 DEF Request
<1> HIDE DEF t, u
<1>5. CASE f = "get"
  <2>1. ParseStart(r, f, rest, head) = Token(t, "nobody", rest, "request")
    BY <1>2, <1>5
  <2>2. Flow(r, Token(t, "nobody", rest, "request"))
    BY <1>3, OutcomeFields DEF Flow
  <2>3. Wire(s, Token(t, "nobody", rest, "request").req, k)
    BY <1>3, OutcomeFields, WireTail
  <2> QED
    BY <2>1, <2>2, <2>3
<1>6. CASE f = "stream"
  <2>1. ParseStart(r, f, rest, head) = Token(t, "chunked", rest, "headers")
    BY <1>2, <1>6
  <2>2. Flow(r, Token(t, "chunked", rest, "headers"))
    BY <1>3, OutcomeFields DEF Flow, InBody
  <2>3. Wire(s, Token(t, "chunked", rest, "headers").req, k)
    BY <1>3, <1>6, OutcomeFields, WireTail DEF Continued
  <2> QED
    BY <2>1, <2>2, <2>3
<1>7. CASE f = "large"
  <2>1. ParseStart(r, f, rest, head) = Token(t, "large", rest, "headers")
    BY <1>2, <1>7
  <2>2. Flow(r, Token(t, "large", rest, "headers"))
    BY <1>3, OutcomeFields DEF Flow, InBody
  <2>3. Wire(s, Token(t, "large", rest, "headers").req, k)
    BY <1>3, OutcomeFields, WireTail
  <2> QED
    BY <2>1, <2>2, <2>3
<1>8. CASE f \in {"head", "bighead"}
  <2>1. ParseStart(r, f, rest, head) = ParseSmall(u, rest)
    BY <1>2, <1>8
  <2> QED
    BY <1>4, <2>1, SmallFlow
<1>9. CASE f \notin {"get", "stream", "large", "head", "bighead"}
  <2>1. ParseStart(r, f, rest, head) = NoToken(r, "error", rest)
    BY <1>2, <1>9
  <2>2. Flow(r, NoToken(r, "error", rest))
    BY OutcomeFields DEF Flow, InBody
  <2>3. Wire(s, NoToken(r, "error", rest).req, k)
    BY OutcomeFields, WireTail
  <2> QED
    BY <2>1, <2>2, <2>3
<1> QED
  BY <1>5, <1>6, <1>7, <1>8, <1>9

\* The parser, whatever its state.  In a chunked body it finds a chunk, as
\* the wire holds nothing else.
LEMMA ParseFlow ==
  ASSUME NEW s, NEW r \in Request, NEW k, Wire(s, r, k), HasBuffer(r),
         NEW head \in RequestHead
  PROVE  Flow(r, Parse(r, head)) /\ Wire(s, Parse(r, head).req, k)
<1> DEFINE f    == Head(r.pending)
           rest == Tail(r.pending)
<1>1. CASE r.gap = 0 \/ r.pst = "done"
  <2>1. Parse(r, head) = [req |-> r, call |-> "none"]
    BY <1>1 DEF Parse
  <2> QED
    BY <2>1 DEF Flow
<1>2. CASE r.gap # 0 /\ r.pst # "done" /\ r.pending = <<>>
  <2>1. Parse(r, head) = NoToken(r, r.pst, <<>>)
    BY <1>2 DEF Parse
  <2>2. Flow(r, NoToken(r, r.pst, <<>>))
    BY OutcomeFields DEF Flow
  <2>3. Wire(s, NoToken(r, r.pst, <<>>).req, k)
    BY <1>2, OutcomeFields, WireSame
  <2> QED
    BY <2>1, <2>2, <2>3
<1>3. CASE r.gap # 0 /\ r.pst # "done" /\ r.pending # <<>>
  <2>1. Parse(r, head) =
          CASE r.pst = "start"   -> ParseStart(r, f, rest, head)
            [] r.pst = "small"   -> ParseSmall(r, r.pending)
            [] r.pst = "chunked" -> ParseChunked(r, f, rest)
            [] r.pst = "large"   -> ParseLarge(r)
            [] OTHER             -> NoToken(r, "error", r.pending)
    BY <1>3 DEF Parse
  <2>2. r.pending \in Seq(Fragment) /\ f = r.pending[1]
    BY <1>3 DEF Request
  <2> HIDE DEF f, rest
  <2>3. CASE r.pst = "start"
    <3>1. Parse(r, head) = ParseStart(r, f, rest, head)
      BY <2>1, <2>3
    <3>2. r.pst \notin InBody
      BY <2>3 DEF InBody
    <3> QED
      BY <1>3, <3>1, <3>2, StartFlow DEF f, rest
  <2>4. CASE r.pst = "small"
    <3>1. Parse(r, head) = ParseSmall(r, r.pending)
      BY <2>1, <2>4
    <3>2. r.pst \notin InBody
      BY <2>4 DEF InBody
    <3> QED
      BY <3>1, <3>2, SmallFlow
  <2>5. CASE r.pst = "chunked"
    <3>1. f \in Continuation
      BY <1>3, <2>2, <2>5 DEF Wire
    <3>2. \/ f = "chunk" /\ Parse(r, head) = Token(r, "chunked", rest, "chunk")
          \/ f = "zero" /\ Parse(r, head) = Token(r, "done", rest, "end")
      BY <2>1, <2>5, <3>1 DEF ParseChunked, Continuation
    <3>3. CASE /\ f = "chunk"
               /\ Parse(r, head) = Token(r, "chunked", rest, "chunk")
      <4>1. Flow(r, Token(r, "chunked", rest, "chunk"))
        BY <2>5, OutcomeFields DEF Flow, InBody
      <4>2. Wire(s, Token(r, "chunked", rest, "chunk").req, k)
        BY <1>3, <3>3, OutcomeFields, WireTail DEF Continued, f, rest
      <4> QED
        BY <3>3, <4>1, <4>2
    <3>4. CASE /\ f = "zero"
               /\ Parse(r, head) = Token(r, "done", rest, "end")
      <4>1. Flow(r, Token(r, "done", rest, "end"))
        BY <2>5, OutcomeFields DEF Flow, InBody
      <4>2. Wire(s, Token(r, "done", rest, "end").req, k)
        BY <1>3, OutcomeFields, WireTail DEF rest
      <4> QED
        BY <3>4, <4>1, <4>2
    <3> QED
      BY <3>2, <3>3, <3>4
  <2>6. CASE r.pst = "large"
    <3> DEFINE q == [r EXCEPT !.len = 1, !.gap = 0]
    <3>1. q \in Request
      <4>1. 0 \in 0 .. SeqIds - 1
        BY ConnectionAssumption
      <4> QED
        BY <4>1 DEF Request
    <3>2. Parse(r, head) \in {Token(r, "done", r.pending, "last"),
                              Token(q, "large", <<>>, "chunk")}
      BY <2>1, <2>6 DEF ParseLarge
    <3> HIDE DEF q
    <3>3. /\ Flow(r, Token(r, "done", r.pending, "last"))
          /\ Wire(s, Token(r, "done", r.pending, "last").req, k)
      BY <1>3, <2>6, OutcomeFields, WireKeep DEF Flow, InBody
    <3>4. /\ Flow(r, Token(q, "large", <<>>, "chunk"))
          /\ Wire(s, Token(q, "large", <<>>, "chunk").req, k)
      BY <2>6, <3>1, OutcomeFields, WireDrop DEF Flow, InBody
    <3> QED
      BY <3>2, <3>3, <3>4
  <2>7. CASE r.pst \notin {"start", "small", "chunked", "large"}
    <3>1. Parse(r, head) = NoToken(r, "error", r.pending)
      BY <2>1, <2>7
    <3>2. /\ Flow(r, NoToken(r, "error", r.pending))
          /\ Wire(s, NoToken(r, "error", r.pending).req, k)
      BY <1>3, <2>7, OutcomeFields, WireKeep DEF Flow, InBody
    <3> QED
      BY <3>1, <3>2
  <2> QED
    BY <2>3, <2>4, <2>5, <2>6, <2>7
<1> QED
  BY <1>1, <1>2, <1>3
-----------------------------------------------------------------------------
(* From one phase to the next.                                             *)

\* The phases x and y of a connection before and after a step.
Allowed(x, y) ==
  \/ x = y
  \/ x = "absent"    /\ y \in {"reading", "sending"}
  \/ x = "reading"   /\ y \in {"handling", "streaming"}
  \/ x = "streaming" /\ y = "fetching"
  \/ x = "fetching"  /\ y \in {"streaming", "handling"}
  \/ x = "handling"  /\ y \in {"sending", "chunking"}
  \/ x = "chunking"  /\ y = "notified"
  \/ x = "notified"  /\ y \in {"chunking", "sending"}
  \/ x = "sending"   /\ y = "reading"
  \/ x \in {"reading", "fetching", "sending", "chunking"} /\ y = "closed"

\* A step of HttpExchange, or none.
Follows == [Exchange!Next]_([c \in Conn |-> Phase(c)])

\* What an action has to say of the one connection whose entries it changes.
LEMMA StepUpdate ==
  ASSUME AllWired, NEW c \in Conn,
         \A d \in Conn \ {c} : /\ life'[d] = life[d] /\ sock'[d] = sock[d]
                               /\ req'[d] = req[d] /\ app'[d] = app[d]
                               /\ client'[d] = client[d],
         Settled(req'[c], app'[c]), Wire(sock'[c], req'[c], client'[c]),
         Allowed(PhaseOf(life[c], req[c], app[c]),
                 PhaseOf(life'[c], req'[c], app'[c]))
  PROVE  AllWired' /\ Follows
<1> DEFINE phase == [d \in Conn |-> Phase(d)]
           x == PhaseOf(life[c], req[c], app[c])
           y == PhaseOf(life'[c], req'[c], app'[c])
<1>1. AllWired'
  <2>1. ASSUME NEW d \in Conn
        PROVE  /\ Settled(req'[d], app'[d])
               /\ Wire(sock'[d], req'[d], client'[d])
    BY DEF AllWired
  <2> QED
    BY <2>1 DEF AllWired
<1>2. /\ phase = [d \in Conn |-> PhaseOf(life[d], req[d], app[d])]
      /\ phase' = [d \in Conn |-> PhaseOf(life'[d], req'[d], app'[d])]
  BY DEF Phase
<1>3. phase[c] = x /\ phase' = [phase EXCEPT ![c] = y]
  <2>1. phase[c] = x
    BY <1>2
  <2>2. ASSUME NEW d \in Conn, d # c
        PROVE  PhaseOf(life'[d], req'[d], app'[d])
                 = PhaseOf(life[d], req[d], app[d])
    BY <2>2
  <2>3. phase' = [d \in Conn |-> IF d = c THEN y
                                  ELSE PhaseOf(life[d], req[d], app[d])]
    BY <1>2, <2>2
  <2> HIDE DEF x, y
  <2>4. phase' = [d \in Conn |-> IF d = c THEN y ELSE phase[d]]
    BY <1>2, <2>3
  <2>5. phase = [d \in Conn |-> phase[d]]
    BY <1>2
  <2> HIDE DEF phase
  <2> QED
    BY <2>1, <2>4, <2>5
<1> HIDE DEF x, y
<1>4. x = y => phase' = phase
  <2>1. phase = [d \in Conn |-> phase[d]]
    BY <1>2
  <2> HIDE DEF phase
  <2> QED
    BY <1>3, <2>1
<1> HIDE DEF phase
<1>5. x # y => Exchange!Step(c)
  BY <1>3
  DEF Allowed, Exchange!Step, Exchange!Move, Exchange!Accept,
      Exchange!Refuse, Exchange!HandleRequest, Exchange!HandleHeaders,
      Exchange!ReadChunk, Exchange!HandleChunk, Exchange!HandleEnd,
      Exchange!Respond, Exchange!RespondChunk, Exchange!ChunkWritten,
      Exchange!RespondChunkEnd, Exchange!NextRequest, Exchange!Close, phase,
      x, y
<1>6. Follows
  BY <1>4, <1>5 DEF Follows, Exchange!Next, phase
<1> QED
  BY <1>1, <1>6

\* A step that changes nothing that is seen of any connection.
LEMMA StepUnseen ==
  ASSUME AllWired, UNCHANGED <<life, req, app, client>>,
         \A c \in Conn : sock'[c].rx = sock[c].rx
  PROVE  AllWired' /\ Follows
<1>1. AllWired'
  BY WireSame DEF AllWired
<1>2. Follows
  BY DEF Follows, Phase
<1> QED
  BY <1>1, <1>2

\* The server leaves what was received alone, but for read().
LEMMA SocketsSame ==
  ASSUME NEW s \in Socket
  PROVE  /\ EpollCtl(s, "in").rx = s.rx /\ EpollCtl(s, "out").rx = s.rx
         /\ ArmTimer(s).rx = s.rx /\ ArmTimer(s) \in Socket
         /\ HalfClose(s).rx = s.rx /\ Reset(s).rx = s.rx
         /\ Drained(s).rx = s.rx /\ Expired(s).rx = s.rx
         /\ \A b : /\ [s EXCEPT !.tick = b].rx = s.rx
                   /\ [s EXCEPT !.ready = b].rx = s.rx
BY DEF EpollCtl, Reportable, ArmTimer, HalfClose, Reset, Drained, Expired,
       Socket

\* Responding leaves the parser alone; a chunk is sent as one.
LEMMA RespondFlow ==
  ASSUME NEW r \in Request, NEW n \in Nat
  PROVE  /\ \A q \in {Respond(r, n), RespondChunk(r, n),
                      RespondChunkEnd(r, n)} : q.pst = r.pst
         /\ "CHUNKED_RESPONSE" \in RespondChunk(r, n).flags
<1>1. ASSUME NEW q \in Request
      PROVE  /\ PerformResponse(q, n).pst = q.pst
             /\ PerformResponse(q, n).flags = q.flags
  BY <1>1 DEF PerformResponse, BufferFree, Request
<1>2. ASSUME NEW q \in Request
      PROVE  /\ SerializeHeaders(q) \in Request
             /\ SerializeHeaders(q).pst = q.pst
             /\ "CHUNKED_RESPONSE" \in q.flags =>
                  "CHUNKED_RESPONSE" \in SerializeHeaders(q).flags
  BY <1>2 DEF SerializeHeaders, DetectKeepAlive, Request, Flag
<1>3. Respond(r, n).pst = r.pst
  BY <1>1, <1>2 DEF Respond
<1>4. /\ RespondChunk(r, n).pst = r.pst
      /\ "CHUNKED_RESPONSE" \in RespondChunk(r, n).flags
  <2> DEFINE f == [r EXCEPT !.flags = @ \cup {"CHUNKED_RESPONSE"}]
             q == IF "CHUNKED_RESPONSE" \in r.flags THEN r
                  ELSE SerializeHeaders(f)
             b == [q EXCEPT !.cb = "write"]
  <2>1. /\ f \in Request /\ f.pst = r.pst
        /\ f.flags = r.flags \cup {"CHUNKED_RESPONSE"}
    BY DEF Request, Flag
  <2>2. RespondChunk(r, n) = PerformResponse(b, n)
    BY DEF RespondChunk
  <2> HIDE DEF f
  <2>3. q \in Request /\ q.pst = r.pst /\ "CHUNKED_RESPONSE" \in q.flags
    BY <1>2, <2>1
  <2> HIDE DEF q
  <2>4. b \in Request /\ b.pst = r.pst /\ "CHUNKED_RESPONSE" \in b.flags
    BY <2>3 DEF Request
  <2> HIDE DEF b
  <2> QED
    BY <1>1, <2>2, <2>4
<1>5. RespondChunkEnd(r, n).pst = r.pst
  <2> DEFINE f == [r EXCEPT !.flags = @ \ {"CHUNKED_RESPONSE"}]
  <2>1. f \in Request /\ f.pst = r.pst
    BY DEF Request, Flag
  <2>2. RespondChunkEnd(r, n) = PerformResponse(f, n)
    BY DEF RespondChunkEnd
  <2> HIDE DEF f
  <2> QED
    BY <1>1, <2>1, <2>2
<1> QED
  BY <1>3, <1>4, <1>5

\* Entering a read: nothing changes for a request with a buffer, one without
\* begins.
LEMMA EnterReadFlow ==
  ASSUME NEW s, NEW r \in Request, NEW k, Wire(s, r, k)
  PROVE  Wire(s, EnterRead(r), k)
<1>1. CASE HasBuffer(r)
  BY <1>1, EnterReadType, WireSame
<1>2. CASE ~HasBuffer(r)
  <2> DEFINE q == [r EXCEPT !.state = "READ", !.timeout = REQUEST_TIMEOUT]
  <2>1. q \in Request /\ EnterRead(r) = BufferInit(q)
    BY <1>2, ConnectionAssumption DEF EnterRead, Request
  <2>2. EnterRead(r).pending = <<>> /\ EnterRead(r).pst = "start"
    BY <1>2, <2>1, BufferTypes, EnterReadKeeps
  <2> QED
    BY <2>2, WireDrop
<1> QED
  BY <1>1, <1>2

\* terminate_connection, for a connection the application does not hold.
LEMMA TerminateFlow ==
  ASSUME IInv, AllWired, NEW c \in Open, TerminateConnection(c),
         app[c].held = "none", UNCHANGED <<app, client>>
  PROVE  AllWired' /\ Follows
<1>1. /\ life' = [life EXCEPT ![c] = "freed"]
      /\ sock' = [sock EXCEPT ![c] = NewSocket]
      /\ req' = [req EXCEPT ![c] = RequestInit]
      /\ c \in Conn /\ life[c] = "open"
  BY DEF TerminateConnection, Open
<1>2. /\ life'[c] = "freed" /\ sock'[c] = NewSocket
      /\ req'[c] = RequestInit /\ app'[c] = app[c]
  BY <1>1 DEF IInv, ConnsInv
<1>3. Settled(req'[c], app'[c]) /\ Wire(sock'[c], req'[c], client'[c])
  <2>1. Settled(RequestInit, app[c])
    BY DEF Settled, RequestInit, Complete
  <2>2. Wire(NewSocket, RequestInit, client'[c])
    BY WireNew
  <2> QED
    BY <1>2, <2>1, <2>2
<1>4. Allowed(PhaseOf(life[c], req[c], app[c]),
              PhaseOf(life'[c], req'[c], app'[c]))
  BY <1>1, <1>2 DEF PhaseOf, Allowed, Complete
<1> QED
  BY <1>1, <1>3, <1>4, StepUpdate DEF IInv, ConnsInv

\* begin_read: where the connection was, and whether it is in a body.
LEMMA BeginReadFlow ==
  ASSUME IInv, AllWired, NEW c \in Conn, NEW r \in Request,
         NEW s \in Socket, NEW mem, BeginRead(c, r, s, mem),
         Wire(s, r, client'[c]), life'[c] = "open", app'[c].held = "none",
         Allowed(PhaseOf(life[c], req[c], app[c]),
                 IF HasBuffer(r) /\ r.pst \in InBody THEN "fetching"
                                                     ELSE "reading"),
         \A d \in Conn \ {c} : /\ life'[d] = life[d] /\ app'[d] = app[d]
                               /\ client'[d] = client[d]
  PROVE  AllWired' /\ Follows
<1> DEFINE q == EnterRead(r)
<1>1. /\ req' = [req EXCEPT ![c] = q]
      /\ sock' = [sock EXCEPT ![c] = EpollCtl(s, "in")]
  BY DEF BeginRead
<1>2. req'[c] = q /\ sock'[c] = EpollCtl(s, "in")
  BY <1>1 DEF IInv, ConnsInv
<1>3. /\ q.state = "READ" /\ Wire(s, q, client'[c])
      /\ HasBuffer(r) => q.pst = r.pst
      /\ ~HasBuffer(r) => q.pst = "start"
  BY EnterReadType, EnterReadKeeps, EnterReadFlow
<1> HIDE DEF q
<1>4. Wire(sock'[c], req'[c], client'[c])
  BY <1>2, <1>3, SocketsSame, WireSame
<1>5. Settled(req'[c], app'[c])
  BY <1>2, <1>3 DEF Settled, Complete
<1>6. PhaseOf(life'[c], req'[c], app'[c]) =
        IF HasBuffer(r) /\ r.pst \in InBody THEN "fetching" ELSE "reading"
  BY <1>2, <1>3 DEF PhaseOf, InBody, Complete
<1>7. \A d \in Conn \ {c} : sock'[d] = sock[d] /\ req'[d] = req[d]
  BY <1>1 DEF IInv, ConnsInv
<1> QED
  BY <1>4, <1>5, <1>6, <1>7, StepUpdate

\* begin_write: the connection sends, a chunk or a response.
LEMMA BeginWriteFlow ==
  ASSUME IInv, AllWired, NEW c \in Conn, NEW r \in Request,
         NEW s \in Socket, BeginWrite(c, r, s),
         s.rx = sock[c].rx, r.pending = <<>>, r.pst # "chunked",
         r.state = "WRITE", life'[c] = "open", app'[c].held = "none",
         Allowed(PhaseOf(life[c], req[c], app[c]),
                 IF "CHUNKED_RESPONSE" \in r.flags THEN "chunking"
                                                   ELSE "sending"),
         \A d \in Conn \ {c} : life'[d] = life[d] /\ app'[d] = app[d],
         UNCHANGED client
  PROVE  AllWired' /\ Follows
<1>1. /\ req' = [req EXCEPT ![c] = r]
      /\ sock' = [sock EXCEPT ![c] = EpollCtl(s, "out")]
  BY DEF BeginWrite
<1>2. req'[c] = r /\ sock'[c] = EpollCtl(s, "out")
  BY <1>1 DEF IInv, ConnsInv
<1>3. Wire(sock'[c], req'[c], client'[c])
  <2>1. Wire(sock[c], r, client[c])
    BY WireDrop DEF AllWired
  <2> QED
    BY <1>2, <2>1, SocketsSame, WireSame
<1>4. Settled(req'[c], app'[c])
  BY <1>2 DEF Settled
<1>5. PhaseOf(life'[c], req'[c], app'[c]) =
        IF "CHUNKED_RESPONSE" \in r.flags THEN "chunking" ELSE "sending"
  BY <1>2 DEF PhaseOf, Complete
<1>6. \A d \in Conn \ {c} : sock'[d] = sock[d] /\ req'[d] = req[d]
  BY <1>1 DEF IInv, ConnsInv
<1> QED
  BY <1>3, <1>4, <1>5, <1>6, StepUpdate
-----------------------------------------------------------------------------
(* The event loop.                                                         *)

\* epoll_wait, the frame of the accept loop, and the handlers that only look
\* at the connection's state.
LEMMA DispatchFlow ==
  ASSUME IInv, AllWired
  PROVE  /\ \A taken \in SUBSET Event : EpollWait(taken) => AllWired' /\ Follows
         /\ OnListen \/ AcceptFails => AllWired' /\ Follows
         /\ \A c \in Conn : OnWritable(c) \/ OnIgnored(c) =>
              AllWired' /\ Follows
<1>1. ASSUME NEW taken \in SUBSET Event, EpollWait(taken)
      PROVE  AllWired' /\ Follows
  <2>1. /\ UNCHANGED <<life, req, app, client>>
        /\ sock' = [c \in Conn |-> IF <<"io", c>> \in taken
                                   THEN [sock[c] EXCEPT !.ready = FALSE]
                                   ELSE sock[c]]
    BY <1>1 DEF EpollWait
  <2>2. \A c \in Conn : sock'[c].rx = sock[c].rx
    BY <2>1, SocketsSame DEF IInv, ConnsInv
  <2> QED
    BY <2>1, <2>2, StepUnseen
<1>2. ASSUME UNCHANGED conns PROVE AllWired' /\ Follows
  BY <1>2, StepUnseen DEF conns
<1>3. OnListen \/ AcceptFails => UNCHANGED conns
  BY DEF OnListen, AcceptFails
<1>4. \A c \in Conn : OnWritable(c) \/ OnIgnored(c) => UNCHANGED conns
  BY DEF OnWritable, OnIgnored
<1> QED
  BY <1>1, <1>2, <1>3, <1>4

\* A readable connection: it has a buffer, so it is where it was.
LEMMA OnReadableFlow ==
  ASSUME IInv, KInv, AllWired, NEW c \in Conn, OnReadable(c)
  PROVE  AllWired' /\ Follows
<1> DEFINE q == EnterRead(req[c])
<1>1. /\ req' = [req EXCEPT ![c] = q]
      /\ UNCHANGED <<life, sock, app, client>> /\ req[c].state = "READ"
  BY DEF OnReadable
<1>2. c \in Open
  BY EventTaken DEF OnReadable
<1>3. /\ app[c].held = "none" /\ req[c] \in Request /\ HasBuffer(req[c])
      /\ Wire(sock[c], req[c], client[c])
  BY <1>1, <1>2, Busy DEF KInv, AllKept, Kept, IInv, ConnsInv, AllWired
<1>4. /\ q.state = "READ" /\ q.pst = req[c].pst
      /\ Wire(sock[c], q, client[c])
  BY <1>3, EnterReadType, EnterReadFlow
<1> HIDE DEF q
<1>5. req'[c] = q
  BY <1>1 DEF IInv, ConnsInv
<1>6. Settled(q, app[c])
  BY <1>3, <1>4 DEF Settled, Complete
<1>7. PhaseOf(life[c], req[c], app[c]) = PhaseOf(life[c], q, app[c])
  BY <1>1, <1>3, <1>4 DEF PhaseOf, Complete
<1> QED
  BY <1>1, <1>4, <1>5, <1>6, <1>7, StepUpdate
  DEF IInv, ConnsInv, Allowed

\* The tick that ends a connection finds one the application does not hold.
LEMMA OnTimerFlow ==
  ASSUME IInv, KInv, AllWired, NEW c \in Conn, OnTimer(c)
  PROVE  AllWired' /\ Follows
<1>1. c \in Open /\ UNCHANGED <<app, client>> /\ sock[c].tick
  BY EventTaken DEF OnTimer, TakeFromBatch, KInv, Working
<1>2. /\ req[c] \in Request /\ sock[c] \in Socket
      /\ Kept(life[c], sock[c], req[c], app[c])
  BY DEF KInv, AllKept, IInv, ConnsInv
<1>3. CASE TimedOut(CountDown(req[c]))
  <2>1. req[c].timeout - 1 = 0 /\ req[c].timeout \in Nat
    BY <1>2, <1>3 DEF TimedOut, CountDown, Request
  <2>2. ~(req[c].timeout > 1)
    BY <2>1
  <2>3. app[c].held = "none"
    BY <1>1, <1>2, <2>2 DEF Kept
  <2> QED
    BY <1>1, <1>3, <2>3, TerminateFlow DEF OnTimer
<1>4. CASE ~TimedOut(CountDown(req[c]))
  <2> DEFINE q == CountDown(req[c])
             s == [sock[c] EXCEPT !.tick = FALSE]
  <2>1. /\ req' = [req EXCEPT ![c] = q] /\ sock' = [sock EXCEPT ![c] = s]
        /\ UNCHANGED life
    BY <1>4 DEF OnTimer
  <2>2. /\ q.flags = req[c].flags /\ q.pst = req[c].pst
        /\ q.pending = req[c].pending /\ q.cap = req[c].cap
        /\ q.state = req[c].state
    BY <1>2 DEF CountDown, Request
  <2>3. s.rx = sock[c].rx
    BY <1>2, SocketsSame
  <2> HIDE DEF q, s
  <2>4. req'[c] = q /\ sock'[c] = s
    BY <2>1 DEF IInv, ConnsInv
  <2>5. Settled(q, app[c]) /\ Wire(s, q, client[c])
    <3>1. Settled(req[c], app[c]) /\ Wire(sock[c], req[c], client[c])
      BY DEF AllWired
    <3>2. Wire(s, q, client[c])
      BY <2>2, <2>3, <3>1, WireSame
    <3> QED
      BY <2>2, <3>1, <3>2 DEF Settled, HasBuffer
  <2>6. PhaseOf(life[c], req[c], app[c]) = PhaseOf(life[c], q, app[c])
    BY <2>2 DEF PhaseOf
  <2> QED
    BY <1>1, <2>1, <2>4, <2>5, <2>6, StepUpdate
    DEF IInv, ConnsInv, Allowed
<1> QED
  BY <1>3, <1>4

-----------------------------------------------------------------------------
(* The handlers.                                                           *)

\* A connection is accepted, or refused with a 503.
LEMMA AcceptConnectionFlow ==
  ASSUME IInv, AllWired, NEW c \in Conn, AcceptConnection(c)
  PROVE  AllWired' /\ Follows
<1> DEFINE s == EpollCtl(ArmTimer(sock[c]), "in")
<1>1. /\ life' = [life EXCEPT ![c] = "open"] /\ life[c] = "backlog"
      /\ UNCHANGED <<app, client>>
      /\ \/ \E n \in OutLens : BeginWrite(c, Respond(RequestInit, n), s)
         \/ BeginRead(c, RequestInit, s, memused)
  BY DEF AcceptConnection, Backlog
<1>2. /\ s \in Socket /\ s.rx = sock[c].rx
  <2>1. ArmTimer(sock[c]) \in Socket /\ ArmTimer(sock[c]).rx = sock[c].rx
    BY SocketsSame DEF IInv, ConnsInv
  <2> QED
    BY <2>1, SocketsSame, SocketTypes
<1>3. /\ RequestInit \in Request /\ ~HasBuffer(RequestInit)
      /\ RequestInit.pending = <<>> /\ RequestInit.pst = "start"
      /\ "CHUNKED_RESPONSE" \notin RequestInit.flags
  BY InitTypes DEF RequestInit, HasBuffer
<1>4. /\ life'[c] = "open" /\ app'[c].held = "none"
      /\ PhaseOf(life[c], req[c], app[c]) = "absent"
      /\ Wire(sock[c], req[c], client[c])
      /\ \A d \in Conn \ {c} : /\ life'[d] = life[d] /\ app'[d] = app[d]
                               /\ client'[d] = client[d]
  BY <1>1 DEF IInv, ConnsInv, Sound, PhaseOf, AllWired
<1> HIDE DEF s
<1>5. ASSUME NEW n \in OutLens, BeginWrite(c, Respond(RequestInit, n), s)
      PROVE  AllWired' /\ Follows
  <2>1. n \in Nat
    BY ServerAssumption
  <2> DEFINE q == Respond(RequestInit, n)
  <2>2. q \in Request /\ q.state = "WRITE" /\ q.pending = <<>>
    BY <1>3, <2>1, ResponseTypes
  <2>3. q.pst # "chunked" /\ "CHUNKED_RESPONSE" \notin q.flags
    BY <1>3, <2>1, RespondFlow, RespondKeeps
  <2>4. BeginWrite(c, q, s)
    BY <1>5
  <2> HIDE DEF q
  <2>5. Allowed("absent", "sending")
    BY DEF Allowed
  <2> QED
    BY <1>1, <1>2, <1>4, <2>2, <2>3, <2>4, <2>5, BeginWriteFlow
<1>6. ASSUME BeginRead(c, RequestInit, s, memused)
      PROVE  AllWired' /\ Follows
  <2>1. Wire(s, RequestInit, client'[c])
    <3>1. Wire(sock[c], RequestInit, client[c])
      BY <1>3, <1>4, WireDrop
    <3> QED
      BY <1>1, <1>2, <3>1, WireSame
  <2>2. Allowed("absent", "reading")
    BY DEF Allowed
  <2> QED
    BY <1>2, <1>3, <1>4, <1>6, <2>1, <2>2, BeginReadFlow
<1> QED
  BY <1>1, <1>5, <1>6

\* A request that is being read stays where it is as long as the parser does.
LEMMA ReadingFlow ==
  ASSUME IInv, AllWired, NEW c \in Open, app[c].held = "none",
         req[c].state = "READ",
         NEW q, q.state = "READ", q.pst \in InBody <=> req[c].pst \in InBody,
         NEW s, Wire(s, q, client[c]),
         req' = [req EXCEPT ![c] = q], sock' = [sock EXCEPT ![c] = s],
         UNCHANGED <<life, app, client>>
  PROVE  AllWired' /\ Follows
<1>1. c \in Conn /\ req'[c] = q /\ sock'[c] = s
  BY DEF Open, IInv, ConnsInv
<1>2. Settled(q, app[c])
  BY DEF Settled, Complete
<1>3. PhaseOf(life[c], req[c], app[c]) = PhaseOf(life[c], q, app[c])
  BY DEF PhaseOf, Complete, InBody
<1> QED
  BY <1>1, <1>2, <1>3, StepUpdate DEF IInv, ConnsInv, Allowed

\* A read() that delivers something.
LEMMA ReadDataFlow ==
  ASSUME IInv, KInv, AllWired, NEW c \in Conn, ReadData(c)
  PROVE  AllWired' /\ Follows
<1> DEFINE n == Least(req[c].cap - req[c].len, Len(sock[c].rx))
           f == SubSeq(sock[c].rx, 1, n)
           r == Receive(req[c], f)
           q == IF ReadsOn(n, r) THEN r ELSE EndRead(r)
           s == [sock[c] EXCEPT !.rx = SubSeq(@, n + 1, Len(@))]
<1>1. /\ n > 0 /\ pc = "read" /\ cur = c
      /\ sock' = [sock EXCEPT ![c] = s]
      /\ req' = [req EXCEPT ![c] = q]
      /\ UNCHANGED <<life, app, client>>
  BY DEF ReadData
<1>2. /\ sock[c] \in Socket /\ req[c] \in Request /\ c \in Open
      /\ req[c].state = "READ" /\ HasBuffer(req[c])
      /\ Wire(sock[c], req[c], client[c])
  BY <1>1 DEF IInv, ConnsInv, ProcInv, StateFrame, KInv, AllKept, Kept,
              AllWired
<1>3. app[c].held = "none"
  BY <1>2, Busy DEF KInv
<1>4. /\ n \in 1 .. Len(sock[c].rx) /\ f \in Seq(Fragment)
      /\ s.rx = SubSeq(sock[c].rx, n + 1, Len(sock[c].rx))
  <2>1. sock[c].rx \in Seq(Fragment) /\ Len(sock[c].rx) \in Nat
    BY <1>2 DEF Socket
  <2>2. req[c].cap - req[c].len \in Int
    BY <1>2 DEF Request
  <2>3. n \in 1 .. Len(sock[c].rx)
    BY <1>1, <2>1, <2>2, LeastBounds
  <2>4. s.rx = SubSeq(sock[c].rx, n + 1, Len(sock[c].rx))
    BY <1>2 DEF Socket
  <2> HIDE DEF n
  <2>5. f \in Seq(Fragment)
    BY <2>1, <2>3
  <2> HIDE DEF f, s
  <2> QED
    BY <2>3, <2>4, <2>5
<1>5. f = SubSeq(sock[c].rx, 1, n)
  OBVIOUS
<1> HIDE DEF n, f, s
<1>6. /\ r \in Request /\ r.pst = req[c].pst /\ r.state = "READ"
      /\ r.pending = req[c].pending \o f
  <2>1. r \in Request /\ r.state = "READ" /\ r.pst = req[c].pst
    BY <1>2, <1>4, ReadTypes, ReadKeeps DEF Alike
  <2> DEFINE t == [req[c] EXCEPT !.len = @ + Len(f), !.pending = @ \o f]
  <2>2. t.pending = req[c].pending \o f
    BY <1>2 DEF Request
  <2>3. \A m : [t EXCEPT !.cap = m].pending = t.pending
    BY <1>2 DEF Request
  <2>4. r.pending = t.pending
    BY <2>3 DEF Receive, GrowBuffer
  <2> HIDE DEF r, t
  <2> QED
    BY <2>1, <2>2, <2>4
<1> HIDE DEF r
<1>7. /\ q.pst = r.pst /\ q.state = "READ" /\ q.pending = r.pending
  BY <1>6 DEF EndRead, Request
<1> HIDE DEF q
<1>8. Wire(s, q, client[c])
  BY <1>2, <1>4, <1>5, <1>6, <1>7, WireMove
<1> QED
  BY <1>1, <1>2, <1>3, <1>6, <1>7, <1>8, ReadingFlow

\* A read() that delivers nothing.
LEMMA ReadNothingFlow ==
  ASSUME IInv, KInv, AllWired, NEW c \in Conn, ReadNothing(c)
  PROVE  AllWired' /\ Follows
<1>1. /\ pc = "read" /\ cur = c /\ c \in Open /\ req[c].state = "READ"
      /\ UNCHANGED <<app, client>>
  BY DEF ReadNothing, IInv, ProcInv, StateFrame
<1>2. app[c].held = "none" /\ req[c] \in Request
      /\ Wire(sock[c], req[c], client[c])
  BY <1>1, Busy DEF KInv, IInv, ConnsInv, AllWired
<1>3. CASE TerminateConnection(c)
  BY <1>1, <1>2, <1>3, TerminateFlow
<1>4. CASE /\ req' = [req EXCEPT ![c] = EndRead(@)]
           /\ UNCHANGED <<life, sock>>
  <2> DEFINE q == EndRead(req[c])
  <2>1. /\ q.pst = req[c].pst /\ q.state = "READ"
        /\ q.pending = req[c].pending
    BY <1>1, <1>2 DEF EndRead, Request
  <2>2. req' = [req EXCEPT ![c] = q] /\ sock' = [sock EXCEPT ![c] = sock[c]]
    BY <1>4 DEF IInv, ConnsInv
  <2> HIDE DEF q
  <2>3. Wire(sock[c], q, client[c])
    BY <1>2, <2>1, WireSame
  <2>4. /\ c \in Open /\ app[c].held = "none" /\ req[c].state = "READ"
        /\ UNCHANGED <<life, app, client>>
    BY <1>1, <1>2, <1>4
  <2>5. q.state = "READ" /\ (q.pst \in InBody <=> req[c].pst \in InBody)
    BY <2>1
  <2> QED
    BY <2>2, <2>3, <2>4, <2>5, ReadingFlow
<1> QED
  BY <1>3, <1>4 DEF ReadNothing

\* The parser: the callback is the one that the phase allows.
LEMMA ParseAndCallFlow ==
  ASSUME IInv, KInv, AllWired, NEW c \in Conn, ParseAndCall(c)
  PROVE  AllWired' /\ Follows
<1> DEFINE o == Parse(req[c], client[c].head)
<1>1. /\ pc = "parse" /\ cur = c /\ UNCHANGED <<life, sock, client>>
  BY DEF ParseAndCall
<1>2. /\ req[c] \in Request /\ req[c].state = "READ" /\ c \in Open
      /\ HasBuffer(req[c]) /\ Wire(sock[c], req[c], client[c])
      /\ Buffered(req[c])
  BY <1>1 DEF IInv, ConnsInv, ProcInv, StateFrame, Sound, KInv, AllKept,
              Kept, AllWired
<1>3. client[c].head \in RequestHead
  BY ServerAssumption DEF IInv, ConnsInv, Client, Heads, RequestHead
<1>4. app[c].held = "none" /\ life[c] = "open"
  BY <1>2, Busy DEF KInv, Open
<1>5. /\ o.req \in Request /\ Alike(o.req, req[c]) /\ HasBuffer(o.req)
      /\ Flow(req[c], o) /\ Wire(sock[c], o.req, client[c])
  BY <1>2, <1>3, ParseType, ParseKeeps, ParseFlow DEF GoodOutcome, KeptOutcome
<1>6. CASE o.call = "none"
  <2>1. /\ req' = [req EXCEPT ![c] = o.req]
        /\ UNCHANGED app /\ sock' = [sock EXCEPT ![c] = sock[c]]
    BY <1>1, <1>6 DEF ParseAndCall, IInv, ConnsInv
  <2> HIDE DEF o
  <2>2. o.req.state = "READ" /\ (o.req.pst \in InBody <=> req[c].pst \in InBody)
    BY <1>2, <1>5, <1>6 DEF Alike, Flow
  <2> QED
    BY <1>1, <1>2, <1>4, <1>5, <2>1, <2>2, ReadingFlow
<1>7. CASE o.call # "none"
  <2> DEFINE q == ExecCallback(o.req)
             h == CASE o.call = "request" -> "request"
                    [] o.call = "end"     -> "complete"
                    [] OTHER              -> "body"
  <2>1. /\ req' = [req EXCEPT ![c] = q]
        /\ app' = [app EXCEPT ![c].held = h]
    BY <1>7 DEF ParseAndCall, Call
  <2> HIDE DEF o
  <2>2. /\ q.pst = o.req.pst /\ q.state = "NOP" /\ q.pending = o.req.pending
        /\ q.cap = o.req.cap
    BY <1>5 DEF ExecCallback, Request
  <2>3. /\ h \in {"request", "complete", "body"}
        /\ h = "request" => o.call = "request"
        /\ h = "complete" => o.call = "end"
        /\ h = "body" => o.call \in {"headers", "chunk", "last"}
    BY <1>5, <1>7 DEF Flow
  <2> HIDE DEF q, h
  <2>4. app'[c].held = h /\ req'[c] = q
    BY <2>1 DEF IInv, ConnsInv, App
  <2>5. Wire(sock[c], q, client[c])
    BY <1>5, <2>2, WireSame
  <2>6. Settled(q, app'[c])
    BY <1>5, <2>2, <2>3, <2>4 DEF Settled, Flow, Complete, HasBuffer
  <2>7. Allowed(PhaseOf(life[c], req[c], app[c]),
                PhaseOf(life[c], q, app'[c]))
    <3>1. PhaseOf(life[c], req[c], app[c]) =
            IF req[c].pst \in InBody THEN "fetching" ELSE "reading"
      BY <1>2, <1>4 DEF PhaseOf, InBody, Complete
    <3>2. PhaseOf(life[c], q, app'[c]) =
            IF h = "body" THEN "streaming" ELSE "handling"
      BY <1>4, <2>3, <2>4 DEF PhaseOf, Complete
    <3> QED
      BY <1>5, <2>3, <3>1, <3>2 DEF Flow, Allowed
  <2>8. \A d \in Conn \ {c} : req'[d] = req[d] /\ app'[d] = app[d]
    BY <2>1 DEF IInv, ConnsInv
  <2> QED
    BY <1>1, <2>4, <2>5, <2>6, <2>7, <2>8, StepUpdate
<1> QED
  BY <1>6, <1>7

\* The zero-length body comes after the application asked for more.
LEMMA InjectEndFlow ==
  ASSUME IInv, AllWired, Turn, NEW c \in Conn, InjectEnd(c)
  PROVE  AllWired' /\ Follows
<1> DEFINE q == ExecCallback(req[c])
<1>1. /\ pc = "inject" /\ cur = c /\ inject = c
      /\ req' = [req EXCEPT ![c] = q]
      /\ app' = [app EXCEPT ![c].held = "complete"]
      /\ UNCHANGED <<life, sock, client>>
  BY DEF InjectEnd, Call, IInv, ProcInv, InjectFrame
<1>2. /\ req[c] \in Request /\ life[c] = "open" /\ req[c].pst = "done"
      /\ app[c].held = "none" /\ req[c].state = "READ"
      /\ Wire(sock[c], req[c], client[c])
  BY <1>1, ServerAssumption
  DEF IInv, ConnsInv, ProcInv, InjectFrame, Open, Turn, AllWired
<1>3. q.pst = "done" /\ q.state = "NOP" /\ q.pending = req[c].pending
  BY <1>2 DEF ExecCallback, Request
<1> HIDE DEF q
<1>4. req'[c] = q /\ app'[c].held = "complete"
  BY <1>1 DEF IInv, ConnsInv, App
<1>5. Settled(q, app'[c])
  BY <1>3, <1>4 DEF Settled
<1>6. Wire(sock[c], q, client[c])
  BY <1>2, <1>3, WireSame
<1>7. Allowed(PhaseOf(life[c], req[c], app[c]),
              PhaseOf(life[c], q, app'[c]))
  BY <1>2, <1>4 DEF PhaseOf, Allowed, Complete
<1>8. \A d \in Conn \ {c} : req'[d] = req[d] /\ app'[d] = app[d]
  BY <1>1 DEF IInv, ConnsInv
<1> QED
  BY <1>1, <1>4, <1>5, <1>6, <1>7, <1>8, StepUpdate

\* A write(), for each code it can end with.
LEMMA WriteSocketFlow ==
  ASSUME IInv, KInv, AllWired, NEW c \in Conn, WriteSocket(c)
  PROVE  AllWired' /\ Follows
<1>1. /\ pc = "write" /\ cur = c /\ req[c].state = "WRITE" /\ c \in Open
  BY DEF WriteSocket, IInv, ProcInv, StateFrame
<1>2. /\ req[c] \in Request /\ sock[c] \in Socket /\ client[c] \in Client
      /\ app[c].held = "none" /\ req[c].pst # "chunked" /\ life[c] = "open"
      /\ Wire(sock[c], req[c], client[c])
  BY <1>1, Busy DEF IInv, ConnsInv, KInv, AllWired, Settled, Open
<1>3. PICK w \in WriteCall(c) :
        LET r  == [req[c] EXCEPT !.written = @ + w[1]]
            s  == [sock[c] EXCEPT !.space = @ - w[1]]
            rc == WriteRc(r, w[2])
            q  == AfterWrite(r, rc)
            freed == memused + Charge(r, q)
        IN  /\ errno' = w[2]
            /\ CASE rc = "CONTINUE" ->
                      /\ req' = [req EXCEPT ![c] = q]
                      /\ sock' = [sock EXCEPT ![c] = s]
                      /\ Return
                      /\ UNCHANGED <<life, app, client, memused>>
                 [] rc = "SUCCESS" ->
                      /\ BeginRead(c, q, s, freed)
                      /\ client' = [client EXCEPT ![c] = Answered(@)]
                      /\ UNCHANGED <<life, app>>
                 [] rc = "SUCCESS_CHUNK" ->
                      /\ req' = [req EXCEPT ![c] = ExecCallback(q)]
                      /\ sock' = [sock EXCEPT ![c] = s]
                      /\ memused' = freed
                      /\ Call(c, "notify")
                      /\ UNCHANGED <<life, client, inject>>
                 [] OTHER ->
                      TerminateConnection(c) /\ UNCHANGED <<app, client>>
  BY DEF WriteSocket
<1> DEFINE r  == [req[c] EXCEPT !.written = @ + w[1]]
           s  == [sock[c] EXCEPT !.space = @ - w[1]]
           rc == WriteRc(r, w[2])
           q  == AfterWrite(r, rc)
           freed == memused + Charge(r, q)
<1>4. /\ r.flags = req[c].flags /\ r.pst = req[c].pst
      /\ r.pending = req[c].pending /\ s.rx = sock[c].rx
  BY <1>2 DEF Request, Socket
<1>5. r \in Request /\ s \in Socket
  <2> DEFINE m == Least(Unsent(req[c]), sock[c].space)
  <2>1. /\ req[c].len \in Nat /\ req[c].written \in Nat
        /\ req[c].written <= req[c].len
        /\ sock[c].space \in Nat /\ SndBuf \in Nat /\ sock[c].space <= SndBuf
    <3>1. req[c].written <= req[c].len
      BY <1>1 DEF IInv, ConnsInv, Sound, Sent
    <3> QED
      BY <1>2, <3>1, SndBufAssumption DEF Request, Socket
  <2>2. m \in Nat /\ m <= sock[c].space
    BY <2>1 DEF Least, Unsent
  <2>3. w \in {<<0, "EPIPE">>, <<0, "other">>, <<m, errno>>}
    BY DEF WriteCall
  <2> HIDE DEF m
  <2>4. w[1] \in Nat /\ w[1] <= sock[c].space
    BY <2>1, <2>2, <2>3
  <2>5. /\ req[c].written + w[1] \in Nat
        /\ sock[c].space - w[1] \in 0 .. SndBuf
    BY <2>1, <2>4
  <2> QED
    BY <1>2, <2>5 DEF Request, Socket
<1>6. /\ rc = "SUCCESS" => "CHUNKED_RESPONSE" \notin r.flags
      /\ rc = "SUCCESS_CHUNK" => "CHUNKED_RESPONSE" \in r.flags
  BY DEF WriteRc
<1>7. \/ /\ rc = "CONTINUE"
         /\ req' = [req EXCEPT ![c] = q]
         /\ sock' = [sock EXCEPT ![c] = s]
         /\ UNCHANGED <<life, app, client>>
      \/ /\ rc = "SUCCESS"
         /\ BeginRead(c, q, s, freed)
         /\ client' = [client EXCEPT ![c] = Answered(@)]
         /\ UNCHANGED <<life, app>>
      \/ /\ rc = "SUCCESS_CHUNK"
         /\ req' = [req EXCEPT ![c] = ExecCallback(q)]
         /\ sock' = [sock EXCEPT ![c] = s]
         /\ Call(c, "notify")
         /\ UNCHANGED <<life, client>>
      \/ TerminateConnection(c) /\ UNCHANGED <<app, client>>
  BY <1>3
<1> HIDE DEF r, s, rc
<1>8. /\ q \in Request /\ q.flags = r.flags /\ q.state = r.state
      /\ rc # "CONTINUE" => ~HasBuffer(q)
  BY <1>5, AfterWriteType, AfterWriteKeeps
<1>9. /\ q.pst = r.pst
      /\ q.pending = IF rc = "CONTINUE" THEN r.pending ELSE <<>>
  <2> DEFINE t == [r EXCEPT !.timeout = IF rc = "SUCCESS"
                                        THEN KEEPALIVE_TIMEOUT
                                        ELSE REQUEST_TIMEOUT]
  <2>1. t.pst = r.pst /\ t.pending = r.pending
    BY <1>5 DEF Request
  <2>2. /\ BufferFree(t).pst = t.pst /\ BufferFree(t).pending = <<>>
    BY <1>5 DEF BufferFree, Request
  <2>3. q = IF rc = "CONTINUE" THEN t ELSE BufferFree(t)
    BY DEF AfterWrite
  <2> HIDE DEF t, q
  <2> QED
    BY <2>1, <2>2, <2>3
<1>10. r.state = "WRITE"
  BY <1>1, <1>2 DEF r, Request
<1> HIDE DEF q, freed
<1>11. Wire(s, q, client[c])
  <2>1. CASE rc = "CONTINUE"
    BY <1>2, <1>4, <1>9, <2>1, WireSame
  <2>2. CASE rc # "CONTINUE"
    <3>1. Wire(sock[c], q, client[c])
      BY <1>2, <1>4, <1>9, <2>2, WireDrop
    <3> QED
      BY <1>4, <3>1, WireSame
  <2> QED
    BY <2>1, <2>2
<1>12. PhaseOf(life[c], req[c], app[c]) =
         IF "CHUNKED_RESPONSE" \in r.flags THEN "chunking" ELSE "sending"
  BY <1>1, <1>2, <1>4 DEF PhaseOf, Complete
<1>13. CASE /\ rc = "CONTINUE"
            /\ req' = [req EXCEPT ![c] = q]
            /\ sock' = [sock EXCEPT ![c] = s]
            /\ UNCHANGED <<life, app, client>>
  <2>1. /\ req'[c] = q /\ sock'[c] = s
        /\ \A d \in Conn \ {c} : req'[d] = req[d] /\ sock'[d] = sock[d]
    BY <1>13 DEF IInv, ConnsInv
  <2>2. Settled(q, app[c])
    BY <1>2, <1>4, <1>9 DEF Settled
  <2>3. PhaseOf(life[c], q, app[c]) = PhaseOf(life[c], req[c], app[c])
    BY <1>2, <1>8, <1>10, <1>12 DEF PhaseOf, Complete
  <2> QED
    BY <1>11, <1>13, <2>1, <2>2, <2>3, StepUpdate DEF Allowed
<1>14. CASE /\ rc = "SUCCESS"
            /\ BeginRead(c, q, s, freed)
            /\ client' = [client EXCEPT ![c] = Answered(@)]
            /\ UNCHANGED <<life, app>>
  <2>1. /\ client'[c] = Answered(client[c])
        /\ \A d \in Conn \ {c} : client'[d] = client[d]
    BY <1>14 DEF IInv, ConnsInv
  <2>2. Wire(s, q, client'[c])
    BY <1>2, <1>11, <2>1, WireAnswered
  <2>3. Allowed("sending", "reading")
    BY DEF Allowed
  <2>4. ~HasBuffer(q) /\ PhaseOf(life[c], req[c], app[c]) = "sending"
    BY <1>6, <1>8, <1>12, <1>14
  <2> QED
    BY <1>2, <1>5, <1>8, <1>14, <2>1, <2>2, <2>3, <2>4, BeginReadFlow
<1>15. CASE /\ rc = "SUCCESS_CHUNK"
            /\ req' = [req EXCEPT ![c] = ExecCallback(q)]
            /\ sock' = [sock EXCEPT ![c] = s]
            /\ Call(c, "notify")
            /\ UNCHANGED <<life, client>>
  <2> DEFINE x == ExecCallback(q)
  <2>1. x.pst = q.pst /\ x.pending = q.pending
    BY <1>8 DEF ExecCallback, Request
  <2> HIDE DEF x
  <2>2. /\ req'[c] = x /\ sock'[c] = s /\ app'[c].held = "notify"
        /\ \A d \in Conn \ {c} : /\ req'[d] = req[d] /\ sock'[d] = sock[d]
                                 /\ app'[d] = app[d]
    BY <1>15 DEF x, Call, IInv, ConnsInv, App
  <2>3. Settled(x, app'[c])
    BY <1>2, <1>4, <1>9, <2>1, <2>2 DEF Settled
  <2>4. Wire(s, x, client[c])
    BY <1>11, <2>1, WireSame
  <2>5. Allowed(PhaseOf(life[c], req[c], app[c]),
                PhaseOf(life[c], x, app'[c]))
    BY <1>2, <1>6, <1>12, <1>15, <2>2 DEF PhaseOf, Allowed, Complete
  <2> QED
    BY <1>15, <2>2, <2>3, <2>4, <2>5, StepUpdate
<1>16. CASE TerminateConnection(c) /\ UNCHANGED <<app, client>>
  BY <1>1, <1>2, <1>16, TerminateFlow
<1> QED
  BY <1>7, <1>13, <1>14, <1>15, <1>16
-----------------------------------------------------------------------------
(* The application.                                                        *)

\* An answer: it is sent, and the request that it answers was complete.
LEMMA AnswerFlow ==
  ASSUME IInv, AllWired, NEW c \in Conn, Acting(c),
         app[c].held \in Complete \cup {"notify"},
         NEW r \in Request, r.state = "WRITE", r.pending = <<>>,
         r.pst = req[c].pst, BeginWrite(c, r, sock[c]),
         app'[c].held = "none", \A d \in Conn \ {c} : app'[d] = app[d],
         UNCHANGED <<life, client>>
  PROVE  AllWired' /\ Follows
<1>1. life[c] = "open" /\ sock[c] \in Socket
  BY DEF Acting, IInv, ConnsInv
<1>2. r.pst # "chunked"
  BY DEF AllWired, Settled
<1>3. Allowed(PhaseOf(life[c], req[c], app[c]),
              IF "CHUNKED_RESPONSE" \in r.flags THEN "chunking"
                                                ELSE "sending")
  BY <1>1 DEF PhaseOf, Allowed, Complete
<1> QED
  BY <1>1, <1>2, <1>3, BeginWriteFlow

\* What an application does to a request it goes on holding.
LEMMA AdjustFlow ==
  ASSUME IInv, AllWired, NEW c \in Conn, Acting(c),
         app[c].held \in Complete, NEW r, r.pst = req[c].pst,
         r.pending = req[c].pending \/ r.pending = <<>>,
         req' = [req EXCEPT ![c] = r],
         UNCHANGED <<life, sock, app, client>>
  PROVE  AllWired' /\ Follows
<1>1. /\ life[c] = "open" /\ Wire(sock[c], req[c], client[c])
      /\ req[c].pst # "chunked" /\ req'[c] = r
      /\ \A d \in Conn \ {c} : req'[d] = req[d]
  BY DEF Acting, AllWired, Settled, IInv, ConnsInv
<1>2. Wire(sock[c], r, client[c])
  BY <1>1, WireSame, WireDrop
<1>3. Settled(r, app[c])
  BY <1>1 DEF Settled, Complete
<1>4. PhaseOf(life[c], req[c], app[c]) = PhaseOf(life[c], r, app[c])
  BY <1>1 DEF PhaseOf, Complete
<1> QED
  BY <1>1, <1>2, <1>3, <1>4, StepUpdate DEF Allowed

\* Everything the application does.
LEMMA ApplicationFlow ==
  ASSUME IInv, AllWired, NEW c \in Conn, Application(c)
  PROVE  AllWired' /\ Follows
<1>1. app[c] \in App /\ req[c] \in Request /\ sock[c] \in Socket
  BY DEF IInv, ConnsInv
<1>2. \A n \in OutLens : n \in Nat
  BY ServerAssumption
<1>3. \A h, k : /\ [app EXCEPT ![c].held = h][c].held = h
                /\ [app EXCEPT ![c] = [held |-> h, chunks |-> k]][c].held = h
  BY DEF IInv, ConnsInv, App
<1>4. \A h, k : \A d \in Conn \ {c} :
        /\ [app EXCEPT ![c].held = h][d] = app[d]
        /\ [app EXCEPT ![c] = [held |-> h, chunks |-> k]][d] = app[d]
  BY DEF IInv, ConnsInv
<1>5. CASE AppRespond(c)
  <2>1. PICK n \in OutLens : BeginWrite(c, Respond(req[c], n), sock[c])
    BY <1>5 DEF AppRespond
  <2> DEFINE q == Respond(req[c], n)
  <2>2. q \in Request /\ q.state = "WRITE" /\ q.pending = <<>>
    BY <1>1, <1>2, ResponseTypes
  <2>3. q.pst = req[c].pst
    BY <1>1, <1>2, RespondFlow
  <2>4. BeginWrite(c, q, sock[c])
    BY <2>1
  <2> HIDE DEF q
  <2>5. /\ Acting(c) /\ app[c].held \in Complete
        /\ app' = [app EXCEPT ![c].held = "none"]
        /\ UNCHANGED <<life, client>>
    BY <1>5 DEF AppRespond
  <2> QED
    BY <1>3, <1>4, <2>2, <2>3, <2>4, <2>5, AnswerFlow
<1>6. CASE AppRespondChunk(c)
  <2>1. PICK n \in OutLens : BeginWrite(c, RespondChunk(req[c], n), sock[c])
    BY <1>6 DEF AppRespondChunk
  <2> DEFINE q == RespondChunk(req[c], n)
  <2>2. q \in Request /\ q.state = "WRITE" /\ q.pending = <<>>
    BY <1>1, <1>2, ResponseTypes
  <2>3. q.pst = req[c].pst
    BY <1>1, <1>2, RespondFlow
  <2>4. BeginWrite(c, q, sock[c])
    BY <2>1
  <2> HIDE DEF q
  <2>5. /\ Acting(c) /\ app[c].held \in Complete \cup {"notify"}
        /\ app' = [app EXCEPT ![c] =
                     [held |-> "none", chunks |-> app[c].chunks + 1]]
        /\ UNCHANGED <<life, client>>
    BY <1>6 DEF AppRespondChunk
  <2>6. app'[c].held = "none" /\ \A d \in Conn \ {c} : app'[d] = app[d]
    BY <1>3, <1>4, <2>5
  <2> QED
    BY <2>2, <2>3, <2>4, <2>5, <2>6, AnswerFlow
<1>7. CASE AppRespondChunkEnd(c)
  <2>1. PICK n \in OutLens : BeginWrite(c, RespondChunkEnd(req[c], n), sock[c])
    BY <1>7 DEF AppRespondChunkEnd
  <2> DEFINE q == RespondChunkEnd(req[c], n)
  <2>2. q \in Request /\ q.state = "WRITE" /\ q.pending = <<>>
    BY <1>1, <1>2, ResponseTypes
  <2>3. q.pst = req[c].pst
    BY <1>1, <1>2, RespondFlow
  <2>4. BeginWrite(c, q, sock[c])
    BY <2>1
  <2> HIDE DEF q
  <2>5. /\ Acting(c) /\ app[c].held = "notify"
        /\ app' = [app EXCEPT ![c] = [held |-> "none", chunks |-> 0]]
        /\ UNCHANGED <<life, client>>
    BY <1>7 DEF AppRespondChunkEnd
  <2>6. app'[c].held = "none" /\ \A d \in Conn \ {c} : app'[d] = app[d]
    BY <1>3, <1>4, <2>5
  <2> QED
    BY <2>2, <2>3, <2>4, <2>5, <2>6, AnswerFlow
<1>8. CASE AppReadChunk(c)
  <2> DEFINE r == [req[c] EXCEPT !.cb = "body"]
  <2>1. /\ Acting(c) /\ app[c].held = "body"
        /\ app' = [app EXCEPT ![c].held = "none"]
        /\ BeginRead(c, r, sock[c], memused)
        /\ UNCHANGED <<life, client>>
    BY <1>8 DEF AppReadChunk
  <2>2. /\ r \in Request /\ r.pst = req[c].pst /\ r.cap = req[c].cap
        /\ r.pending = req[c].pending
    BY <1>1 DEF Request
  <2> HIDE DEF r
  <2>3. HasBuffer(r) /\ r.pst \in InBody /\ Wire(sock[c], r, client[c])
    <3>1. HasBuffer(req[c]) /\ req[c].pst \in InBody
      BY <2>1 DEF AllWired, Settled
    <3>2. Wire(sock[c], r, client[c])
      BY <2>2, WireSame DEF AllWired
    <3> QED
      BY <2>2, <3>1, <3>2 DEF HasBuffer
  <2>4. /\ life[c] = "open"
        /\ Allowed(PhaseOf(life[c], req[c], app[c]), "fetching")
    BY <2>1 DEF Acting, PhaseOf, Allowed, Complete
  <2> QED
    BY <1>1, <1>3, <1>4, <2>1, <2>2, <2>3, <2>4, BeginReadFlow
<1>9. CASE AppDefer(c)
  BY <1>9, StepUnseen DEF AppDefer, conns
<1>10. CASE AppSetConnection(c)
  <2>1. PICK d \in {"keep", "close"} :
          req' = [req EXCEPT ![c] = SetKeepAlive(req[c], d)]
    BY <1>10 DEF AppSetConnection
  <2> DEFINE r == SetKeepAlive(req[c], d)
  <2>2. r.pst = req[c].pst /\ r.pending = req[c].pending
    BY <1>1 DEF SetKeepAlive, Request
  <2>3. req' = [req EXCEPT ![c] = r]
    BY <2>1
  <2> HIDE DEF r
  <2>4. /\ Acting(c) /\ app[c].held \in Complete
        /\ UNCHANGED <<life, sock, app, client>>
    BY <1>10 DEF AppSetConnection
  <2> QED
    BY <2>2, <2>3, <2>4, AdjustFlow
<1>11. CASE AppFreeBuffer(c)
  <2> DEFINE r == BufferFree(req[c])
  <2>1. r.pst = req[c].pst /\ r.pending = <<>>
    BY <1>1 DEF BufferFree, Request
  <2>2. /\ Acting(c) /\ app[c].held \in Complete
        /\ req' = [req EXCEPT ![c] = r]
        /\ UNCHANGED <<life, sock, app, client>>
    BY <1>11 DEF AppFreeBuffer
  <2> HIDE DEF r
  <2> QED
    BY <2>1, <2>2, AdjustFlow
<1> QED
  BY <1>5, <1>6, <1>7, <1>8, <1>9, <1>10, <1>11 DEF Application

-----------------------------------------------------------------------------
(* Clients, the network and the clock.                                     *)

\* They do not move the phases.
LEMMA EnvironmentFlow ==
  ASSUME IInv, AllWired, NEW c \in Conn, Environment(c)
  PROVE  AllWired' /\ Follows
<1>1. sock[c] \in Socket /\ client[c] \in Client
  BY DEF IInv, ConnsInv
<1>2. CASE Connect(c)
  <2>1. /\ life' = [life EXCEPT ![c] = "backlog"] /\ life[c] = "new"
        /\ UNCHANGED <<sock, req, app, client>>
    BY <1>2 DEF Connect
  <2>2. /\ life'[c] = "backlog" /\ \A d \in Conn \ {c} : life'[d] = life[d]
    BY <2>1 DEF IInv, ConnsInv
  <2>3. PhaseOf(life[c], req[c], app[c]) = PhaseOf(life'[c], req[c], app[c])
    BY <2>1, <2>2 DEF PhaseOf
  <2>4. Settled(req'[c], app'[c]) /\ Wire(sock'[c], req'[c], client'[c])
    BY <2>1 DEF AllWired
  <2> QED
    BY <2>1, <2>2, <2>3, <2>4, StepUpdate DEF Allowed
<1>3. ASSUME NEW s, sock' = [sock EXCEPT ![c] = s], s.rx = sock[c].rx,
             UNCHANGED <<life, req, app, client>>
      PROVE  AllWired' /\ Follows
  <2>1. \A d \in Conn : sock'[d].rx = sock[d].rx
    BY <1>3 DEF IInv, ConnsInv
  <2> QED
    BY <1>3, <2>1, StepUnseen
<1>4. ASSUME NEW f \in Fragment, ClientSend(c, f)
      PROVE  AllWired' /\ Follows
  <2> DEFINE a == IF f = "zero" /\ "split" \notin Faults
                  THEN <<"zero", "tail">> ELSE <<f>>
             s == Arrival(sock[c], a)
  <2>1. PICK h \in Heads :
          client' = [client EXCEPT ![c] =
            [at |-> AfterSend(client[c].at, f),
             sent |-> client[c].sent + 1, head |-> h]]
    BY <1>4 DEF ClientSend
  <2>2. /\ f \in MaySend(client[c].at)
        /\ sock' = [sock EXCEPT ![c] = s]
        /\ UNCHANGED <<life, req, app>>
    BY <1>4 DEF ClientSend
  <2>3. client'[c].at = AfterSend(client[c].at, f)
    BY <2>1 DEF IInv, ConnsInv
  <2>4. Wire(sock[c], req[c], client[c]) /\ Settled(req[c], app[c])
    BY DEF AllWired
  <2>5. Wire(s, req[c], client'[c])
    BY <1>1, <2>2, <2>3, <2>4, WireArrival
  <2> HIDE DEF a, s
  <2>6. /\ sock'[c] = s
        /\ \A d \in Conn \ {c} : sock'[d] = sock[d] /\ client'[d] = client[d]
    BY <2>1, <2>2 DEF IInv, ConnsInv
  <2> QED
    BY <2>2, <2>4, <2>5, <2>6, StepUpdate DEF Allowed
<1>5. CASE ClientCloses(c)
  BY <1>1, <1>3, <1>5, SocketsSame DEF ClientCloses
<1>6. CASE ClientResets(c)
  BY <1>1, <1>3, <1>6, SocketsSame DEF ClientResets
<1>7. CASE Drain(c)
  BY <1>1, <1>3, <1>7, SocketsSame DEF Drain
<1>8. CASE TimerExpires(c)
  BY <1>1, <1>3, <1>8, SocketsSame DEF TimerExpires
<1> QED
  BY <1>2, <1>4, <1>5, <1>6, <1>7, <1>8 DEF Environment
-----------------------------------------------------------------------------
(* The theorem.                                                            *)

\* The invariant holds initially, and no connection is there.
LEMMA FlowInitially == Init => XInv /\ Exchange!Init
<1> SUFFICES ASSUME Init PROVE XInv /\ Exchange!Init
  OBVIOUS
<1> DEFINE a == [held |-> "none", chunks |-> 0]
<1>1. /\ life = [c \in Conn |-> "new"] /\ sock = [c \in Conn |-> NewSocket]
      /\ req = [c \in Conn |-> RequestInit]
      /\ app = [c \in Conn |-> a] /\ pc = "loop"
  BY DEF Init
<1>2. Settled(RequestInit, a)
  BY DEF Settled, RequestInit, Complete
<1> HIDE DEF a
<1>3. AllWired
  BY <1>1, <1>2, WireNew DEF AllWired
<1>4. \A c \in Conn : Phase(c) = "absent"
  BY <1>1 DEF Phase, PhaseOf
<1> QED
  BY <1>1, <1>3, <1>4 DEF XInv, Turn, Exchange!Init

\* The process comes to the zero-length body from the parser, which found
\* nothing: the application did not return before it asked for more.
LEMMA TurnKept ==
  ASSUME IInv, KInv, XInv, Prompt, Next
  PROVE  Turn'
<1>1. CASE Finished
  BY <1>1 DEF Finished, Idle, Turn, vars, process
<1>2. ASSUME NEW taken \in SUBSET Event, EpollWait(taken) PROVE Turn'
  BY <1>2 DEF EpollWait, process, Turn
<1>3. CASE OnListen \/ AcceptFails
  BY <1>3 DEF OnListen, AcceptFails, Turn
<1>4. ASSUME inject = NoConn, Return PROVE Turn'
  BY <1>4 DEF Return, Turn
<1>5. ASSUME NEW c \in Conn, Handler(c) PROVE Turn'
  <2>1. CASE OnReadable(c) \/ OnWritable(c)
    BY <2>1 DEF OnReadable, OnWritable, Goto, Turn
  <2>2. CASE OnIgnored(c)
    BY <2>2 DEF OnIgnored, TakeFromBatch, process, Turn
  <2>3. CASE OnTimer(c)
    <3>1. inject = NoConn /\ pc = "loop"
      BY <2>3, EventTaken DEF OnTimer
    <3> QED
      BY <1>4, <2>3, <3>1 DEF OnTimer, TerminateConnection, process, Turn
  <2>4. CASE AcceptConnection(c)
    BY <2>4 DEF AcceptConnection, BeginRead, BeginWrite, Goto, Turn
  <2>5. CASE ReadData(c)
    BY <2>5 DEF ReadData, Goto, Turn
  <2>6. CASE ReadNothing(c)
    <3>1. inject = NoConn
      BY <2>6 DEF ReadNothing, IInv, ProcInv, InjectFrame
    <3> QED
      BY <1>4, <2>6, <3>1 DEF ReadNothing, TerminateConnection, Goto, Turn
  <2>7. CASE ParseAndCall(c)
    <3> DEFINE o == Parse(req[c], client[c].head)
    <3>1. /\ pc = "parse" /\ cur = c /\ c \in Open
          /\ req[c].state = "READ" /\ req[c] \in Request
          /\ Buffered(req[c]) /\ client[c].head \in RequestHead
          /\ inject # NoConn => inject = c
      BY <2>7, ServerAssumption
      DEF ParseAndCall, IInv, ConnsInv, ProcInv, InjectFrame, StateFrame,
          Sound, Client, Heads, RequestHead
    <3>2. app[c].held = "none" /\ o.req.state = "READ"
      BY <3>1, Busy, ParseType DEF KInv, GoodOutcome, Alike
    <3>3. CASE o.call = "none"
      <4>1. req' = [req EXCEPT ![c] = o.req] /\ Return /\ UNCHANGED app
        BY <2>7, <3>3 DEF ParseAndCall
      <4> HIDE DEF o
      <4>2. req'[c] = o.req
        BY <4>1 DEF IInv, ConnsInv
      <4> QED
        BY <3>1, <3>2, <4>1, <4>2 DEF Return, Turn
    <3>4. CASE o.call # "none"
      <4>1. pc' = "callback"
        BY <2>7, <3>4 DEF ParseAndCall, Call
      <4> QED
        BY <4>1 DEF Turn
    <3> QED
      BY <3>3, <3>4
  <2>8. CASE InjectEnd(c)
    BY <2>8 DEF InjectEnd, Call, Turn
  <2>9. CASE WriteSocket(c)
    <3>1. inject = NoConn
      BY <2>9 DEF WriteSocket, IInv, ProcInv, InjectFrame
    <3>2. \/ Return \/ pc' \in {"read", "parse", "callback"}
      BY <2>9
      DEF WriteSocket, BeginRead, Goto, Call, TerminateConnection
    <3> QED
      BY <1>4, <3>1, <3>2 DEF Turn
  <2> QED
    BY <1>5, <2>1, <2>2, <2>3, <2>4, <2>5, <2>6, <2>7, <2>8, <2>9
    DEF Handler
<1>6. ASSUME NEW c \in Conn, Application(c) PROVE Turn'
  <2>1. CASE AppAnswers(c)
    BY <2>1 DEF AppAnswers, AppRespond, AppRespondChunk, AppRespondChunkEnd,
                AppReadChunk, BeginRead, BeginWrite, Goto, Turn
  <2>2. CASE AppDefer(c)
    <3>1. inject = NoConn
      BY <2>2 DEF AppDefer, Prompt, IInv, ProcInv, InjectFrame
    <3> QED
      BY <1>4, <2>2, <3>1 DEF AppDefer
  <2>3. CASE AppSetConnection(c) \/ AppFreeBuffer(c)
    <3>1. Acting(c) /\ UNCHANGED process
      BY <2>3 DEF AppSetConnection, AppFreeBuffer
    <3> QED
      BY <3>1 DEF Acting, process, Turn
  <2> QED
    BY <1>6, <2>1, <2>2, <2>3 DEF Application, AppAnswers
<1>7. ASSUME NEW c \in Conn, Environment(c) PROVE Turn'
  <2>1. UNCHANGED <<req, app, process>>
    BY <1>7 DEF Environment, Connect, ClientSend, ClientCloses, ClientResets,
                Drain, TimerExpires
  <2> QED
    BY <2>1 DEF process, XInv, Turn
<1> QED
  BY <1>1, <1>2, <1>3, <1>5, <1>6, <1>7 DEF Next

\* Every step keeps the invariant, and is a step of HttpExchange or none.
LEMMA FlowInductive ==
  ASSUME Prompt
  PROVE  IInv /\ KInv /\ XInv /\ [Next]_vars => XInv' /\ Follows
<1> SUFFICES ASSUME IInv, KInv, XInv, [Next]_vars PROVE XInv' /\ Follows
  OBVIOUS
<1>1. AllWired /\ Turn
  BY DEF XInv
<1>2. CASE UNCHANGED vars
  <2>1. UNCHANGED <<life, sock, req, app, client, pc, cur>>
    BY <1>2 DEF vars, conns, process
  <2>2. AllWired' /\ Follows
    BY <1>1, <2>1, StepUnseen
  <2> QED
    BY <1>1, <2>1, <2>2 DEF Turn, XInv
<1>3. CASE Next
  <2>1. AllWired' /\ Follows
    <3>1. CASE Finished
      BY <1>1, <3>1, StepUnseen DEF Finished, vars, conns
    <3>2. ASSUME NEW taken \in SUBSET Event, EpollWait(taken)
          PROVE  AllWired' /\ Follows
      BY <1>1, <3>2, DispatchFlow
    <3>3. CASE OnListen \/ AcceptFails
      BY <1>1, <3>3, DispatchFlow
    <3>4. ASSUME NEW c \in Conn, Handler(c) PROVE AllWired' /\ Follows
      BY <1>1, <3>4, DispatchFlow, OnReadableFlow, OnTimerFlow,
         AcceptConnectionFlow, ReadDataFlow, ReadNothingFlow,
         ParseAndCallFlow, InjectEndFlow, WriteSocketFlow DEF Handler
    <3>5. ASSUME NEW c \in Conn, Application(c) PROVE AllWired' /\ Follows
      BY <1>1, <3>5, ApplicationFlow
    <3>6. ASSUME NEW c \in Conn, Environment(c) PROVE AllWired' /\ Follows
      BY <1>1, <3>6, EnvironmentFlow
    <3> QED
      BY <1>3, <3>1, <3>2, <3>3, <3>4, <3>5, <3>6 DEF Next
  <2>2. Turn'
    BY <1>3, TurnKept
  <2> QED
    BY <2>1, <2>2 DEF XInv
<1> QED
  BY <1>2, <1>3

\* The server implements HttpExchange: for every connection, the callbacks
\* and responses (read_socket.c:90-138, io_events.c:42-69, api.c) come in the
\* order the API promises, whatever the sizes and however reads and writes
\* divide what is sent.
THEOREM ServerImplementsExchange ==
  ASSUME Prompt
  PROVE  Spec => ImplementsExchange
<1>1. Init => XInv /\ Exchange!Init
  BY FlowInitially
<1>2. IInv /\ KInv /\ XInv /\ [Next]_vars => XInv' /\ Follows
  BY FlowInductive
<1>3. Spec => []IInv
  BY Invariance
<1>4. Spec => []KInv
  BY KeptInvariance DEF Prompt
<1> QED
  BY <1>1, <1>2, <1>3, <1>4, PTL
  DEF Spec, ImplementsExchange, Exchange!Spec, Follows
=============================================================================
