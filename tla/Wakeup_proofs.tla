---------------------------- MODULE Wakeup_proofs ----------------------------
(***************************************************************************)
(* The proof that no wake-up is lost: whenever the process waits and no    *)
(* event is on its way, it has read and parsed all that a client has sent, *)
(* and the next move is not the server's.                                  *)
(*                                                                         *)
(* An edge is reported once.  So the invariant has to say where what it    *)
(* announced is, at every point of the program: still on the ready list,   *)
(* in the batch, in the hands of the process, or seen to.  And it has to   *)
(* say that the parser cannot come to rest on a whole request, which takes *)
(* what clients send in one piece from the socket to the parser            *)
(* (Carried).                                                              *)
(***************************************************************************)
EXTENDS Handle_proofs

Seqs == INSTANCE SequenceTheorems

\* Requests are well-formed and the end of a chunked body comes in one
\* segment.  What a client sends in the whole life of its connection is less
\* than a quarter of the largest buffer, so that none reaches its maximum
\* capacity, and comes in fewer reads than there are sequence ids, so that
\* they do not wrap around.
Fluent == /\ "bad" \notin Requests /\ "split" \notin Faults
          /\ BodyCap < MaxCap /\ 4 * MaxFragments < MaxCap
          /\ 2 * MaxFragments + 1 < SeqIds

Starts == {"get", "head", "bighead", "stream", "large"}
Ends   == {"get", "body", "tail", "last"}

\* The parser state in which more of the request that f belongs to is due.
Family(f) == CASE f = "get"                                -> "nobody"
               [] f \in {"head", "bighead", "part", "body"} -> "small"
               [] f \in {"stream", "chunk", "zero", "tail"} -> "chunked"
               [] f \in {"large", "piece", "last"}          -> "large"
               [] OTHER                                     -> "error"

\* q is what is on its way from a client that is at k to a parser in state
\* pst: the rest of one request, in order, or all of it, and nothing after.
InTransit(q, pst, at) ==
  /\ pst \in {"start", "small", "chunked", "large"}
  /\ at = IF q = <<>> THEN (IF pst = "start" THEN "idle" ELSE pst)
          ELSE IF q[Len(q)] \in Ends THEN "await" ELSE Family(q[Len(q)])
  /\ \A i \in 1 .. Len(q) :
       /\ q[i] \in Starts <=> i = 1 /\ pst = "start"
       /\ q[i] \in Ends => i = Len(q)
       /\ q[i] = "zero" => i + 1 = Len(q) /\ q[i + 1] = "tail"
       /\ q[i] = "tail" => i > 1 /\ q[i - 1] = "zero"
       /\ Family(q[i]) # "error"
       /\ Family(q[i]) = IF pst = "start" THEN Family(q[1]) ELSE pst

Parsed == {"done", "nobody"}

\* A request that was parsed was all there is; of another, the buffer and the
\* socket have the rest.
Carried(s, r, k) ==
  IF r.pst \in Parsed THEN s.rx = <<>> /\ k.at = "await"
                      ELSE InTransit(r.pending \o s.rx, r.pst, k.at)

\* A client's segment has two fragments at most.
Budget(k) == 2 * k.sent

\* A read() that delivered nothing has counted as well.
Extra(p) == IF p = "parse" THEN 1 ELSE 0

\* There is room for all a client sends, and there are ids for all reads.
Within(s, r, k, p) ==
  /\ Len(r.pending) + Len(s.rx) <= Budget(k)
  /\ r.pst # "done" => r.gap + Len(r.pending) + Len(s.rx)
                         <= Budget(k) + Extra(p)
  /\ r.state # "WRITE" => r.cap < MaxCap /\ r.len + Len(s.rx) <= Budget(k)

\* What the state of an open connection says of its request; j: the frame
\* with the zero-length body, if it has that.
Placed(r, a, j) ==
  /\ r.state \in {"READ", "WRITE", "NOP"}
  /\ r.state = "NOP" => a.held # "none"
  /\ r.state = "READ" => HasBuffer(r) /\ r.pst # "nobody"
  /\ a.held = "body" => /\ HasBuffer(r)
                        /\ r.pst \in {"chunked", "large", "done"}
                        /\ r.pst # "done" /\ r.pending # <<>> => r.gap # 0
  /\ a.held = "body" \/ r.state = "READ" => (r.pst = "done" => j = "inject")
  /\ a.held \in Complete \cup {"notify"} => r.pst \in Parsed
  /\ r.state = "WRITE" /\ r.pst \notin Parsed =>
       "KEEP_ALIVE" \notin r.flags /\ "CHUNKED_RESPONSE" \notin r.flags

\* Where the process is for connection c; whether its event is in the batch;
\* whether its frame is on the stack.
Place(c)  == IF cur = c /\ pc \notin {"loop", "accept"} THEN pc ELSE "away"
Report(c) == IF <<"io", c>> \in batch THEN "taken" ELSE "none"
Frame(c)  == IF inject = c THEN "inject" ELSE "none"

\* What is left for the process to do is in its hands, p, or it has the event
\* or will be told, b.
Told(s, r, p, b, j) ==
  /\ r.state = "READ" => s.interest = "in"
  /\ r.state = "WRITE" => s.interest = "out"
  /\ r.state = "READ" /\ p = "away" => r.pending = <<>>
  /\ p = "parse" /\ j = "none" => r.gap # 0
  /\ p = "callback" => r.state = "NOP"
  /\ p = "inject" => r.state # "WRITE"
  /\ p # "read" /\ r.pending # <<>> => r.pending[Len(r.pending)] # "zero"
  /\ s.peer = "up" /\ ~s.ready /\ b = "none" =>
       /\ r.state = "READ" /\ p # "read" => s.rx = <<>>
       /\ r.state = "WRITE" /\ p # "write" => s.space = 0

Attended(l, s, r, a, k, p, b, j) ==
  /\ Within(s, r, k, p)
  /\ l \in {"new", "backlog"} => r = RequestInit
  /\ l # "freed" => Carried(s, r, k)
  /\ l = "open" => Placed(r, a, j) /\ Told(s, r, p, b, j)

AllAttended ==
  \A c \in Conn : Attended(life[c], sock[c], req[c], app[c], client[c],
                           Place(c), Report(c), Frame(c))

-----------------------------------------------------------------------------
(* Requests on their way.                                                  *)

\* What the end of a request implies, and where it can stand.
LEMMA TransitEnds ==
  ASSUME NEW q \in Seq(Fragment), NEW pst, NEW at, InTransit(q, pst, at),
         NEW i \in 1 .. Len(q)
  PROVE  /\ q[i] \in Ends => i = Len(q) /\ at = "await"
         /\ q[i] = "zero" => i + 1 = Len(q) /\ at = "await"
BY DEF InTransit, Ends

\* A client sends what may come next.
LEMMA TransitGrows ==
  ASSUME Fluent, NEW q \in Seq(Fragment), NEW pst, NEW at,
         InTransit(q, pst, at), NEW f \in MaySend(at)
  PROVE  LET x == IF f = "zero" /\ "split" \notin Faults
                  THEN <<"zero", "tail">> ELSE <<f>>
         IN  InTransit(q \o x, pst, AfterSend(at, f)) /\ x \in Seq(Fragment)
<1> DEFINE n == Len(q)
<1>1. n \in Nat /\ \A i \in 1 .. n : q[i] \in Fragment
  OBVIOUS
<1>2. ASSUME NEW g \in Fragment
      PROVE  /\ Len(q \o <<g>>) = n + 1
             /\ \A i \in 1 .. n : (q \o <<g>>)[i] = q[i]
             /\ (q \o <<g>>)[n + 1] = g
             /\ q \o <<g>> # <<>>
  BY <1>1
<1>3. \A i \in 1 .. n : q[i] \notin Ends /\ q[i] \notin {"zero", "tail"}
  <2>1. at # "await"
    BY DEF MaySend
  <2>2. \A i \in 1 .. n : q[i] \notin Ends /\ q[i] # "zero"
    BY <2>1, TransitEnds
  <2> QED
    BY <2>2 DEF Ends
<1>4. CASE at = "idle"
  <2>1. q = <<>> /\ pst = "start"
    BY <1>4 DEF InTransit, Family
  <2>2. f \in {"get", "head", "bighead", "stream", "large"} /\ f # "zero"
    BY <1>4, ServerAssumption DEF MaySend, Fluent
  <2>3. InTransit(<<f>>, pst, AfterSend(at, f))
    <3>1. AfterSend(at, f) = IF f \in Ends THEN "await" ELSE Family(f)
      BY <1>4, <2>2 DEF AfterSend, Ends, Family
    <3>2. Len(<<f>>) = 1 /\ <<f>>[1] = f /\ <<f>> # <<>>
      OBVIOUS
    <3>3. Family(f) # "error"
      BY <2>2 DEF Family
    <3> QED
      BY <2>1, <2>2, <3>1, <3>2, <3>3 DEF InTransit, Starts
  <2>4. q \o <<f>> = <<f>> /\ <<f>> \in Seq(Fragment)
    BY <2>1, <2>2 DEF Fragment
  <2> QED
    BY <2>2, <2>3, <2>4
<1>5. CASE at # "idle"
  <2>1. /\ f \in Fragment /\ f # "bad" /\ f \notin Starts
        /\ f \in {"part", "body", "chunk", "zero", "piece", "last"}
        /\ at = Family(f) /\ at \in {"small", "chunked", "large"}
    <3>1. at \notin {"tail", "late"}
      BY DEF InTransit, Family
    <3> QED
      BY <1>5, <3>1 DEF MaySend, Family, Fragment, Starts
  <2>2. /\ n = 0 => pst = at
        /\ n # 0 => at = IF pst = "start" THEN Family(q[1]) ELSE pst
        /\ pst \in {"start", "small", "chunked", "large"}
    <3>1. n = 0 => pst = at
      BY <2>1, <1>1 DEF InTransit
    <3>2. n # 0 => at = Family(q[n]) /\ n \in 1 .. n
      BY <1>1, <1>3 DEF InTransit
    <3> QED
      BY <3>1, <3>2 DEF InTransit
  <2>3. \A i \in 1 .. n :
          /\ q[i] \in Starts <=> i = 1 /\ pst = "start"
          /\ Family(q[i]) # "error"
          /\ Family(q[i]) = IF pst = "start" THEN Family(q[1]) ELSE pst
    BY DEF InTransit
  <2>4. n # 0 \/ pst # "start"
    BY <2>1, <2>2
  <2>5. CASE f # "zero"
    <3> DEFINE t == q \o <<f>>
    <3>1. /\ Len(t) = n + 1 /\ \A i \in 1 .. n : t[i] = q[i]
          /\ t[n + 1] = f /\ t # <<>>
      BY <1>2, <2>1
    <3> HIDE DEF t
    <3>2. AfterSend(at, f) = IF f \in Ends THEN "await" ELSE Family(f)
      BY <2>1, <2>5 DEF AfterSend, Ends, Family
    <3>3. /\ Family(f) # "error"
          /\ Family(f) = IF pst = "start" THEN Family(t[1]) ELSE pst
      BY <1>1, <2>1, <2>2, <2>4, <3>1
    <3>4. ASSUME NEW i \in 1 .. Len(t)
          PROVE  /\ t[i] \in Starts <=> i = 1 /\ pst = "start"
                 /\ t[i] \in Ends => i = Len(t)
                 /\ t[i] = "zero" => i + 1 = Len(t) /\ t[i + 1] = "tail"
                 /\ t[i] = "tail" => i > 1 /\ t[i - 1] = "zero"
                 /\ Family(t[i]) # "error"
                 /\ Family(t[i]) = IF pst = "start" THEN Family(t[1]) ELSE pst
      <4>1. CASE i \in 1 .. n
        BY <1>1, <1>3, <2>3, <3>1, <4>1
      <4>2. CASE i = n + 1
        BY <1>1, <2>1, <2>4, <2>5, <3>1, <3>3, <4>2 DEF Starts
      <4> QED
        BY <1>1, <3>1, <4>1, <4>2
    <3>5. InTransit(t, pst, AfterSend(at, f))
      BY <1>1, <2>2, <3>1, <3>2, <3>4 DEF InTransit
    <3>6. <<f>> \in Seq(Fragment)
      BY <2>1
    <3> QED
      BY <2>5, <3>5, <3>6 DEF t
  <2>6. CASE f = "zero"
    <3> DEFINE x == <<"zero", "tail">>
               t == q \o x
    <3>1. x \in Seq(Fragment) /\ Len(x) = 2 /\ x[1] = "zero" /\ x[2] = "tail"
      BY DEF Fragment
    <3>2. /\ Len(t) = n + 2 /\ \A i \in 1 .. n : t[i] = q[i]
          /\ t[n + 1] = "zero" /\ t[n + 2] = "tail" /\ t # <<>>
      BY <1>1, <3>1
    <3> HIDE DEF t
    <3>3. AfterSend(at, f) = "await" /\ at = "chunked"
      BY <2>1, <2>6 DEF AfterSend, Fluent, Family
    <3>4. "chunked" = IF pst = "start" THEN Family(t[1]) ELSE pst
      BY <1>1, <2>2, <2>4, <3>2, <3>3
    <3>5. ASSUME NEW i \in 1 .. Len(t)
          PROVE  /\ t[i] \in Starts <=> i = 1 /\ pst = "start"
                 /\ t[i] \in Ends => i = Len(t)
                 /\ t[i] = "zero" => i + 1 = Len(t) /\ t[i + 1] = "tail"
                 /\ t[i] = "tail" => i > 1 /\ t[i - 1] = "zero"
                 /\ Family(t[i]) # "error"
                 /\ Family(t[i]) = IF pst = "start" THEN Family(t[1]) ELSE pst
      <4>1. CASE i \in 1 .. n
        BY <1>1, <1>3, <2>3, <3>2, <4>1
      <4>2. CASE i = n + 1
        BY <1>1, <2>4, <3>2, <3>4, <4>2 DEF Starts, Ends, Family
      <4>3. CASE i = n + 2
        BY <1>1, <2>4, <3>2, <3>4, <4>3 DEF Starts, Ends, Family
      <4> QED
        BY <1>1, <3>2, <4>1, <4>2, <4>3
    <3>6. InTransit(t, pst, "await")
      BY <1>1, <2>2, <3>2, <3>5 DEF InTransit, Ends
    <3> QED
      BY <2>6, <3>1, <3>3, <3>6 DEF t, Fluent
  <2> QED
    BY <2>5, <2>6
<1> QED
  BY <1>4, <1>5

\* The parser uses what is not the end of a request, and the rest is in
\* transit to the state for such requests.
LEMMA TransitShrinks ==
  ASSUME NEW q \in Seq(Fragment), NEW pst, NEW at, InTransit(q, pst, at),
         NEW j \in 1 .. Len(q), q[j] \notin Ends \cup {"zero"},
         NEW t \in Seq(Fragment), Len(t) = Len(q) - j,
         \A i \in 1 .. Len(t) : t[i] = q[i + j]
  PROVE  InTransit(t, Family(q[j]), at)
<1> DEFINE fam == Family(q[j])
<1>1. Len(q) \in Nat /\ j \in Nat /\ j >= 1 /\ j <= Len(q) /\ Len(t) \in Nat
  OBVIOUS
<1>2. fam \in {"small", "chunked", "large"}
  BY DEF InTransit, Family, Ends
<1>3. \A i \in 1 .. Len(q) : Family(q[i]) = fam /\ fam # "error"
  BY DEF InTransit
<1>4. at = IF t = <<>> THEN fam
           ELSE IF t[Len(t)] \in Ends THEN "await" ELSE Family(t[Len(t)])
  <2>1. at = IF q[Len(q)] \in Ends THEN "await" ELSE Family(q[Len(q)])
    BY <1>1 DEF InTransit
  <2>2. t = <<>> => j = Len(q)
    BY <1>1
  <2>3. t # <<>> => Len(t) \in 1 .. Len(t) /\ Len(t) + j = Len(q)
    BY <1>1
  <2> QED
    BY <2>1, <2>2, <2>3
<1>5. ASSUME NEW i \in 1 .. Len(t)
      PROVE  /\ t[i] \notin Starts
             /\ t[i] \in Ends => i = Len(t)
             /\ t[i] = "zero" => i + 1 = Len(t) /\ t[i + 1] = "tail"
             /\ t[i] = "tail" => i > 1 /\ t[i - 1] = "zero"
             /\ Family(t[i]) = fam
  <2>1. /\ i + j \in 1 .. Len(q) /\ i + j > 1 /\ t[i] = q[i + j]
        /\ i + 1 \in 1 .. Len(t) => t[i + 1] = q[i + j + 1]
        /\ i - 1 \in 1 .. Len(t) => t[i - 1] = q[i + j - 1]
    <3>1. \A m \in 1 .. Len(t) : t[m] = q[m + j]
      OBVIOUS
    <3>2. /\ i \in Nat /\ i >= 1 /\ i <= Len(t) /\ Len(t) = Len(q) - j
          /\ Len(q) \in Nat /\ j \in Nat /\ j >= 1 /\ Len(t) \in Nat
      BY <1>1
    <3>3. i + j \in 1 .. Len(q) /\ i + j > 1
      BY <3>2
    <3>4. (i + 1) + j = i + j + 1 /\ (i - 1) + j = i + j - 1
      BY <3>2
    <3>5. t[i] = q[i + j]
      BY <3>1
    <3>6. i + 1 \in 1 .. Len(t) => t[i + 1] = q[(i + 1) + j]
      BY <3>1
    <3>7. i - 1 \in 1 .. Len(t) => t[i - 1] = q[(i - 1) + j]
      BY <3>1
    <3> QED
      BY <3>3, <3>4, <3>5, <3>6, <3>7
  <2>2. /\ q[i + j] \notin Starts
        /\ q[i + j] \in Ends => i + j = Len(q)
        /\ q[i + j] = "zero" => i + j + 1 = Len(q) /\ q[i + j + 1] = "tail"
        /\ q[i + j] = "tail" => q[i + j - 1] = "zero"
    BY <1>1, <2>1 DEF InTransit
  <2>3. t[i] = "tail" => i > 1
    <3>1. CASE i = 1
      <4>1. i + j - 1 = j
        BY <1>1, <3>1
      <4>2. q[i + j - 1] = q[j]
        BY <4>1
      <4>3. q[j] # "zero"
        OBVIOUS
      <4> QED
        BY <2>1, <2>2, <4>2, <4>3
    <3>2. CASE i # 1
      BY <3>2
    <3> QED
      BY <3>1, <3>2
  <2> QED
    BY <1>1, <1>3, <2>1, <2>2, <2>3
<1> HIDE DEF fam
<1> QED
  BY <1>2, <1>3, <1>4, <1>5 DEF InTransit, fam

\* The parts of what is in the buffer and in the socket.
LEMMA Joined ==
  ASSUME NEW p \in Seq(Fragment), NEW x \in Seq(Fragment)
  PROVE  /\ p \o x \in Seq(Fragment) /\ Len(p \o x) = Len(p) + Len(x)
         /\ \A i \in 1 .. Len(p) : (p \o x)[i] = p[i]
         /\ \A i \in 1 .. Len(x) : (p \o x)[Len(p) + i] = x[i]
         /\ p = <<>> => p \o x = x
         /\ x = <<>> => p \o x = p
OBVIOUS
\* Once the parser has used the first j fragments of the buffer p, the rest
\* is still in transit.
LEMMA TransitUsed ==
  ASSUME NEW p \in Seq(Fragment), NEW x \in Seq(Fragment), NEW pst, NEW at,
         InTransit(p \o x, pst, at),
         NEW j \in 1 .. Len(p), p[j] \notin Ends \cup {"zero"},
         NEW rest \in Seq(Fragment), Len(rest) = Len(p) - j,
         \A i \in 1 .. Len(rest) : rest[i] = p[i + j]
  PROVE  InTransit(rest \o x, Family(p[j]), at)
<1> DEFINE q == p \o x
           t == rest \o x
<1>1. /\ q \in Seq(Fragment) /\ Len(q) = Len(p) + Len(x)
      /\ \A i \in 1 .. Len(p) : q[i] = p[i]
      /\ \A i \in 1 .. Len(x) : q[Len(p) + i] = x[i]
  BY Joined
<1>2. /\ t \in Seq(Fragment) /\ Len(t) = Len(rest) + Len(x)
      /\ \A i \in 1 .. Len(rest) : t[i] = rest[i]
      /\ \A i \in 1 .. Len(x) : t[Len(rest) + i] = x[i]
  BY Joined
<1>3. InTransit(q, pst, at)
  OBVIOUS
<1> HIDE DEF q, t
<1>4. /\ Len(p) \in Nat /\ Len(x) \in Nat /\ Len(rest) \in Nat
      /\ j \in 1 .. Len(q) /\ q[j] = p[j] /\ Len(t) = Len(q) - j
  BY <1>1, <1>2
<1>5. ASSUME NEW i \in 1 .. Len(t) PROVE t[i] = q[i + j]
  <2>1. CASE i \in 1 .. Len(rest)
    <3>1. i + j \in 1 .. Len(p)
      BY <1>4, <2>1
    <3> QED
      BY <1>1, <1>2, <2>1, <3>1
  <2>2. CASE i \notin 1 .. Len(rest)
    <3>1. PICK m \in 1 .. Len(x) : i = Len(rest) + m
      <4>1. i - Len(rest) \in 1 .. Len(x) /\ i = Len(rest) + (i - Len(rest))
        BY <1>2, <1>4, <2>2
      <4> QED
        BY <4>1
    <3>2. i + j = Len(p) + m
      BY <1>4, <3>1
    <3> QED
      BY <1>1, <1>2, <3>1, <3>2
  <2> QED
    BY <2>1, <2>2
<1>6. InTransit(t, Family(q[j]), at)
  BY <1>1, <1>2, <1>3, <1>4, <1>5, TransitShrinks
<1> QED
  BY <1>4, <1>6 DEF t

\* All of the buffer.
LEMMA TransitUsedUp ==
  ASSUME NEW p \in Seq(Fragment), NEW x \in Seq(Fragment), NEW pst, NEW at,
         InTransit(p \o x, pst, at), p # <<>>,
         p[Len(p)] \notin Ends \cup {"zero"}
  PROVE  InTransit(x, Family(p[Len(p)]), at)
<1>1. \A e \in Seq(Fragment) :
        Len(e) = Len(p) - Len(p) => InTransit(e \o x, Family(p[Len(p)]), at)
  <2>1. Len(p) \in 1 .. Len(p)
    OBVIOUS
  <2> TAKE e \in Seq(Fragment)
  <2> HAVE Len(e) = Len(p) - Len(p)
  <2>2. \A i \in 1 .. Len(e) : e[i] = p[i + Len(p)]
    OBVIOUS
  <2> QED
    BY <2>1, <2>2, TransitUsed
<1>2. <<>> \in Seq(Fragment) /\ Len(<<>>) = Len(p) - Len(p) /\ <<>> \o x = x
  OBVIOUS
<1> QED
  BY <1>1, <1>2

\* If the buffer holds the end of a request, it is the last thing in it and
\* the socket has nothing.
LEMMA TransitWhole ==
  ASSUME NEW p \in Seq(Fragment), NEW x \in Seq(Fragment), NEW pst, NEW at,
         InTransit(p \o x, pst, at), NEW i \in 1 .. Len(p)
  PROVE  /\ p[i] \in Ends => i = Len(p) /\ x = <<>> /\ at = "await"
         /\ p[i] = "zero" /\ i # Len(p) =>
              /\ i + 1 = Len(p) /\ p[i + 1] = "tail"
              /\ x = <<>> /\ at = "await"
<1> DEFINE q == p \o x
<1>1. /\ q \in Seq(Fragment) /\ Len(q) = Len(p) + Len(x)
      /\ \A k \in 1 .. Len(p) : q[k] = p[k]
      /\ Len(p) \in Nat /\ Len(x) \in Nat /\ (Len(x) = 0 => x = <<>>)
  BY Joined
<1>2. InTransit(q, pst, at)
  OBVIOUS
<1> HIDE DEF q
<1>3. i \in 1 .. Len(q) /\ q[i] = p[i]
  BY <1>1
<1>4. /\ q[i] \in Ends => i = Len(q) /\ at = "await"
      /\ q[i] = "zero" => i + 1 = Len(q) /\ at = "await"
                          /\ q[i + 1] = "tail"
  <2>1. q[i] = "zero" => q[i + 1] = "tail"
    BY <1>2, <1>3 DEF InTransit
  <2>2. /\ q[i] \in Ends => i = Len(q) /\ at = "await"
        /\ q[i] = "zero" => i + 1 = Len(q) /\ at = "await"
    BY <1>1, <1>2, <1>3, TransitEnds
  <2> QED
    BY <2>1, <2>2
<1>5. p[i] \in Ends => i = Len(p) /\ x = <<>> /\ at = "await"
  BY <1>1, <1>3, <1>4
<1>6. ASSUME p[i] = "zero", i # Len(p)
      PROVE  /\ i + 1 = Len(p) /\ p[i + 1] = "tail"
             /\ x = <<>> /\ at = "await"
  <2>1. i + 1 \in 1 .. Len(p) /\ i + 1 = Len(q)
    BY <1>1, <1>3, <1>4, <1>6
  <2> QED
    BY <1>1, <1>3, <1>4, <1>6, <2>1
<1> QED
  BY <1>5, <1>6

\* What the outcomes of the parser are made of.
LEMMA TokenParts ==
  ASSUME NEW q \in Request, NEW pst, NEW rest, NEW call
  PROVE  /\ LET o == Token(q, pst, rest, call)
            IN  /\ o.call = call /\ o.req.pst = pst /\ o.req.pending = rest
                /\ o.req.gap = q.gap /\ o.req.cap = q.cap
                /\ o.req.len = q.len
         /\ LET o == NoToken(q, pst, rest)
            IN  /\ o.call = "none" /\ o.req.pst = pst
                /\ o.req.pending = rest /\ o.req.gap = 0
                /\ o.req.cap = q.cap /\ o.req.len = q.len
BY DEF Token, NoToken, Request
\* What a call of the parser does with r when the socket has x: it uses all
\* that is buffered, or calls the application and leaves what it can go on
\* with; whom it calls for the end of a request has all of it.
Advanced(x, r, at, o) ==
  /\ o.call \in {"none", "request", "headers", "chunk", "last", "end"}
  /\ o.req.cap < MaxCap
  /\ o.req.len = r.len \/ (o.req.len = 1 /\ r.pending # <<>>)
  /\ Len(o.req.pending) <= Len(r.pending)
  /\ o.req.pst # "done" => o.req.gap + Len(o.req.pending)
                             < r.gap + Len(r.pending)
  /\ o.req.pending # <<>> => o.req.pending[Len(o.req.pending)] # "zero"
  /\ o.call = "none" => o.req.pending = <<>> /\ InTransit(x, o.req.pst, at)
  /\ o.call \in {"headers", "chunk"} =>
       /\ o.req.pst \in {"chunked", "large"}
       /\ InTransit(o.req.pending \o x, o.req.pst, at)
       /\ o.req.pending # <<>> => o.req.gap # 0
  /\ o.call \in {"request", "last", "end"} =>
       o.req.pst \in Parsed /\ x = <<>> /\ at = "await"

\* The parser has something to go on with.
Advancing(x, r, at) ==
  /\ r \in Request /\ HasBuffer(r) /\ x \in Seq(Fragment)
  /\ InTransit(r.pending \o x, r.pst, at)
  /\ r.gap # 0 /\ r.cap < MaxCap
  /\ r.pending # <<>> => r.pending[Len(r.pending)] # "zero"

\* What is left after the first fragment.
LEMMA TailParts ==
  ASSUME NEW p \in Seq(Fragment), p # <<>>
  PROVE  /\ Head(p) = p[1] /\ Tail(p) \in Seq(Fragment)
         /\ Len(p) \in Nat \ {0} /\ Len(Tail(p)) = Len(p) - 1
         /\ 1 \in 1 .. Len(p) /\ Len(p) \in 1 .. Len(p)
         /\ \A i \in 1 .. Len(Tail(p)) : Tail(p)[i] = p[i + 1]
         /\ Tail(p) # <<>> => Tail(p)[Len(Tail(p))] = p[Len(p)]
OBVIOUS

\* The body of a request that fits the buffer: q is r or what it has become
\* with the headers, the first j fragments of the buffer.
LEMMA SmallAdvances ==
  ASSUME NEW x, NEW r, NEW at, Advancing(x, r, at), r.pending # <<>>,
         r.pst \in {"start", "small"},
         r.pst = "start" => r.pending[1] \in {"head", "bighead"},
         NEW q \in Request, q.len = r.len, q.cap < MaxCap,
         NEW z, z = IF r.pst = "start" THEN Tail(r.pending) ELSE r.pending
  PROVE  Advanced(x, r, at, ParseSmall(q, z))
<1> DEFINE p == r.pending
           n == Len(p)
<1>1. /\ p \in Seq(Fragment) /\ n \in Nat \ {0} /\ n \in 1 .. n
      /\ r.gap \in Nat \ {0} /\ x \in Seq(Fragment) /\ Len(<<>>) = 0
      /\ InTransit(p \o x, r.pst, at)
  <2>1. r.pending \in Seq(Fragment) /\ r.gap \in Nat
    BY ConnectionAssumption DEF Advancing, Request
  <2>2. /\ r.gap # 0 /\ x \in Seq(Fragment)
        /\ InTransit(p \o x, r.pst, at)
    BY DEF Advancing
  <2>3. n \in Nat \ {0} /\ n \in 1 .. n
    BY <2>1, TailParts
  <2>4. Len(<<>>) = 0
    OBVIOUS
  <2> QED
    BY <2>1, <2>2, <2>3, <2>4
<1>2. \A i \in DOMAIN z : \E m \in 1 .. n : z[i] = p[m]
  <2>1. \A i \in 1 .. Len(Tail(p)) : i + 1 \in 1 .. n
    BY <1>1, TailParts
  <2>2. Tail(p) \in Seq(Fragment)
        /\ \A i \in 1 .. Len(Tail(p)) : Tail(p)[i] = p[i + 1]
    BY <1>1, TailParts
  <2>3. DOMAIN p = 1 .. n /\ DOMAIN Tail(p) = 1 .. Len(Tail(p))
    BY <1>1, <2>2
  <2> QED
    BY <2>1, <2>2, <2>3
<1>3. CASE \E i \in DOMAIN z : z[i] = "body"
  <2>1. ParseSmall(q, z) = Token(q, "done", <<>>, "request")
    BY <1>3 DEF ParseSmall
  <2>2. PICK m \in 1 .. n : p[m] = "body"
    BY <1>2, <1>3
  <2>3. x = <<>> /\ at = "await"
    BY <1>1, <2>2, TransitWhole DEF Ends
  <2> QED
    BY <1>1, <2>1, <2>3, TokenParts DEF Advanced, Parsed
<1>4. CASE ~ \E i \in DOMAIN z : z[i] = "body"
  <2>1. ParseSmall(q, z) = NoToken(q, "small", <<>>)
    BY <1>4 DEF ParseSmall
  <2>2. /\ Family(p[n]) = "small" /\ p[n] \notin Ends \cup {"zero"}
    <3>1. Family(p[n]) = "small"
      <4> DEFINE t == p \o x
      <4>1. /\ t[1] = p[1] /\ t[n] = p[n] /\ n \in 1 .. Len(t)
        BY <1>1, Joined
      <4>2. Family(t[n]) = IF r.pst = "start" THEN Family(t[1]) ELSE r.pst
        BY <1>1, <4>1 DEF InTransit
      <4> QED
        BY <4>1, <4>2 DEF Family
    <3>2. p[n] # "body"
      <4>1. r.pst = "small" => n \in DOMAIN z /\ z[n] = p[n]
        BY <1>1
      <4>2. CASE r.pst = "start" /\ n # 1
        <5>1. /\ z = Tail(p) /\ Len(z) = n - 1 /\ z \in Seq(Fragment)
              /\ \A i \in 1 .. Len(z) : z[i] = p[i + 1]
          BY <1>1, <4>2, TailParts
        <5>2. n - 1 \in 1 .. Len(z) /\ (n - 1) + 1 = n
          <6>1. \A m \in Nat \ {0, 1} : m - 1 \in 1 .. m - 1 /\ (m - 1) + 1 = m
            OBVIOUS
          <6>2. n \in Nat \ {0, 1}
            BY <1>1, <4>2
          <6> HIDE DEF n
          <6> QED
            BY <5>1, <6>1, <6>2
        <5>3. z[n - 1] = p[n]
          <6>1. z[n - 1] = p[(n - 1) + 1]
            BY <5>1, <5>2
          <6> QED
            BY <5>2, <6>1
        <5>4. n - 1 \in DOMAIN z
          <6>1. DOMAIN z = 1 .. Len(z)
            BY <5>1
          <6> QED
            BY <5>2, <6>1
        <5> QED
          BY <1>4, <5>3, <5>4
      <4>3. r.pst = "start" /\ n = 1 => p[n] # "body"
        OBVIOUS
      <4> QED
        BY <1>4, <4>1, <4>2, <4>3
    <3> QED
      BY <3>1, <3>2 DEF Family, Ends
  <2>3. InTransit(x, "small", at)
    BY <1>1, <2>2, TransitUsedUp
  <2>4. 0 < r.gap + n
    BY <1>1
  <2>5. ASSUME NEW o, o = NoToken(q, "small", <<>>)
        PROVE  Advanced(x, r, at, o)
    <3>1. /\ o.call = "none" /\ o.req.pst = "small" /\ o.req.pending = <<>>
          /\ o.req.gap = 0 /\ o.req.cap < MaxCap /\ o.req.len = r.len
      BY <2>5, TokenParts
    <3> QED
      BY <1>1, <2>3, <2>4, <3>1 DEF Advanced
  <2> QED
    BY <2>1, <2>5
<1> QED
  BY <1>3, <1>4

\* What the first fragment of the buffer is.
LEMMA FirstInTransit ==
  ASSUME NEW x, NEW r, NEW at, Advancing(x, r, at), r.pending # <<>>
  PROVE  /\ r.pending[1] \in Starts <=> r.pst = "start"
         /\ r.pst # "start" => Family(r.pending[1]) = r.pst
         /\ r.pending[1] # "tail"
         /\ r.pst \in {"start", "small", "chunked", "large"}
<1> DEFINE t == r.pending \o x
<1>1. /\ r.pending \in Seq(Fragment) /\ x \in Seq(Fragment)
      /\ InTransit(t, r.pst, at) /\ Len(r.pending) \in Nat \ {0}
  BY DEF Advancing, Request
<1>2. 1 \in 1 .. Len(t) /\ t[1] = r.pending[1]
  BY <1>1, Joined
<1> HIDE DEF t
<1> QED
  BY <1>1, <1>2 DEF InTransit

\* The tail of the buffer, if its first fragment ends no request.
LEMMA TailInTransit ==
  ASSUME NEW x, NEW r, NEW at, Advancing(x, r, at), r.pending # <<>>,
         r.pending[1] \notin Ends \cup {"zero"}
  PROVE  /\ InTransit(Tail(r.pending) \o x, Family(r.pending[1]), at)
         /\ Tail(r.pending) # <<>> =>
              Tail(r.pending)[Len(Tail(r.pending))] # "zero"
<1>1. /\ r.pending \in Seq(Fragment) /\ x \in Seq(Fragment)
      /\ InTransit(r.pending \o x, r.pst, at)
      /\ r.pending[Len(r.pending)] # "zero"
  BY DEF Advancing, Request
<1> QED
  BY <1>1, TailParts, TransitUsed

\* The beginning of a request.
LEMMA StartAdvances ==
  ASSUME Fluent, NEW x, NEW r, NEW at, Advancing(x, r, at),
         r.pending # <<>>, r.pst = "start", NEW head \in RequestHead
  PROVE  Advanced(x, r, at, ParseStart(r, Head(r.pending),
                                       Tail(r.pending), head))
<1> DEFINE p == r.pending
           f == Head(p)
           z == Tail(p)
           q == PushTokens(r, head)
           s == [q EXCEPT !.flags = @ \cup {STREAMED}]
           u == ResizeFor(q, f)
<1>1. /\ r \in Request /\ r.cap < MaxCap /\ r.cap # 0
      /\ p \in Seq(Fragment) /\ r.gap \in Nat \ {0} /\ x \in Seq(Fragment)
      /\ InTransit(p \o x, "start", at)
      /\ p[Len(p)] # "zero"
  BY ConnectionAssumption DEF Advancing, HasBuffer, Request
<1>2. /\ f = p[1] /\ z \in Seq(Fragment) /\ Len(p) \in Nat \ {0}
      /\ Len(z) = Len(p) - 1 /\ 1 \in 1 .. Len(p)
      /\ z # <<>> => z[Len(z)] = p[Len(p)]
  BY <1>1, TailParts
<1>3. f \in {"get", "head", "bighead", "stream", "large"}
  BY <1>2, FirstInTransit DEF Starts
<1>4. /\ q \in Request /\ q.cap = r.cap /\ q.len = r.len /\ q.gap = r.gap
      /\ s \in Request /\ s.cap = r.cap /\ s.len = r.len /\ s.gap = r.gap
  <2>1. q \in Request /\ q.cap = r.cap /\ q.len = r.len /\ q.gap = r.gap
    <3>1. Append(r.tokens, head) \in Seq(RequestHead)
      BY <1>1 DEF Request
    <3> QED
      BY <1>1, <3>1 DEF PushTokens, Request
  <2> HIDE DEF q
  <2>2. s \in Request /\ s.cap = q.cap /\ s.len = q.len /\ s.gap = q.gap
    <3>1. q.flags \cup {STREAMED} \in SUBSET Flag
      BY <2>1 DEF Request, Flag, STREAMED
    <3> QED
      BY <2>1, <3>1 DEF Request
  <2> QED
    BY <2>1, <2>2
<1>5. u \in Request /\ u.cap < MaxCap /\ u.len = r.len
  <2> DEFINE n == IF f = "bighead" /\ BodyCap > q.cap THEN BodyCap ELSE q.cap
  <2> HIDE DEF q, f
  <2>1. n \in Nat /\ n < MaxCap
    BY <1>1, <1>4, ConnectionAssumption DEF Request, Fluent
  <2>2. u = [q EXCEPT !.cap = n]
    BY DEF ResizeFor
  <2> HIDE DEF n, u
  <2> QED
    BY <1>4, <2>1, <2>2 DEF Request
<1>6. ParseStart(r, f, z, head) =
        CASE f = "get"                 -> Token(s, "nobody", z, "request")
          [] f = "stream"              -> Token(s, "chunked", z, "headers")
          [] f = "large"               -> Token(s, "large", z, "headers")
          [] f \in {"head", "bighead"} -> ParseSmall(u, z)
          [] OTHER                     -> NoToken(r, "error", z)
  BY DEF ParseStart
<1> SUFFICES Advanced(x, r, at, ParseStart(r, f, z, head))
  OBVIOUS
<1> HIDE DEF f, z, q, s, u
<1>7. CASE f = "get"
  <2>1. x = <<>> /\ at = "await" /\ Len(p) = 1
    <3>1. p[1] \in Ends
      BY <1>2, <1>7 DEF Ends
    <3> HIDE DEF p
    <3> QED
      BY <1>1, <1>2, <3>1, TransitWhole
  <2>2. z = <<>> /\ Len(z) = 0 /\ r.gap + 0 < r.gap + Len(p)
    BY <1>1, <1>2, <2>1
  <2>3. ASSUME NEW o, o = Token(s, "nobody", z, "request")
        PROVE  Advanced(x, r, at, o)
    <3>1. /\ o.call = "request" /\ o.req.pst = "nobody" /\ o.req.pending = z
          /\ o.req.gap = r.gap /\ o.req.cap < MaxCap /\ o.req.len = r.len
      BY <1>1, <1>4, <2>3, TokenParts
    <3> QED
      BY <1>2, <2>1, <2>2, <3>1 DEF Advanced, Parsed
  <2> QED
    BY <1>6, <1>7, <2>3
<1>8. ASSUME NEW pst \in {"chunked", "large"}, Family(f) = pst,
             f \in {"stream", "large"}
      PROVE  Advanced(x, r, at, Token(s, pst, z, "headers"))
  <2>1. InTransit(z \o x, pst, at) /\ (z # <<>> => z[Len(z)] # "zero")
    BY <1>2, <1>8, TailInTransit DEF Ends, z
  <2>2. r.gap + Len(z) < r.gap + Len(p) /\ Len(z) <= Len(p)
    BY <1>1, <1>2
  <2>3. ASSUME NEW o, o = Token(s, pst, z, "headers")
        PROVE  Advanced(x, r, at, o)
    <3>1. /\ o.call = "headers" /\ o.req.pst = pst /\ o.req.pending = z
          /\ o.req.gap = r.gap /\ o.req.cap < MaxCap /\ o.req.len = r.len
      BY <1>1, <1>4, <2>3, TokenParts
    <3> QED
      BY <1>1, <2>1, <2>2, <3>1 DEF Advanced
  <2> QED
    BY <2>3
<1>9. CASE f = "stream"
  <2>1. Family(f) = "chunked"
    BY <1>9 DEF Family
  <2> QED
    BY <1>6, <1>8, <1>9, <2>1
<1>10. CASE f = "large"
  <2>1. Family(f) = "large"
    BY <1>10 DEF Family
  <2> QED
    BY <1>6, <1>8, <1>10, <2>1
<1>11. CASE f \in {"head", "bighead"}
  <2>1. ParseStart(r, f, z, head) = ParseSmall(u, z)
    BY <1>6, <1>11
  <2>2. Advanced(x, r, at, ParseSmall(u, z))
    BY <1>2, <1>5, <1>11, SmallAdvances DEF z
  <2> QED
    BY <2>1, <2>2
<1> QED
  BY <1>3, <1>7, <1>9, <1>10, <1>11

\* A chunk, or the zero chunk, with which the whole request has come.
LEMMA ChunkedAdvances ==
  ASSUME NEW x, NEW r, NEW at, Advancing(x, r, at),
         r.pending # <<>>, r.pst = "chunked"
  PROVE  Advanced(x, r, at, ParseChunked(r, Head(r.pending),
                                         Tail(r.pending)))
<1> DEFINE p == r.pending
           f == Head(p)
           z == Tail(p)
<1>1. /\ r \in Request /\ r.cap < MaxCap
      /\ p \in Seq(Fragment) /\ r.gap \in Nat \ {0} /\ x \in Seq(Fragment)
      /\ InTransit(p \o x, "chunked", at)
      /\ p[Len(p)] # "zero"
  BY ConnectionAssumption DEF Advancing, Request
<1>2. /\ f = p[1] /\ z \in Seq(Fragment) /\ Len(p) \in Nat \ {0}
      /\ Len(z) = Len(p) - 1 /\ 1 \in 1 .. Len(p)
      /\ z # <<>> => z[Len(z)] = p[Len(p)]
  BY <1>1, TailParts
<1>3. f \in {"chunk", "zero"}
  <2>1. f \notin Starts /\ Family(f) = "chunked" /\ f # "tail"
    BY <1>2, FirstInTransit
  <2> QED
    BY <2>1 DEF Family, Starts
<1>4. r.gap + Len(z) < r.gap + Len(p) /\ Len(z) <= Len(p)
  BY <1>1, <1>2
<1> SUFFICES Advanced(x, r, at, ParseChunked(r, f, z))
  OBVIOUS
<1> HIDE DEF f, z
<1>5. CASE f = "chunk"
  <2>1. /\ InTransit(z \o x, "chunked", at)
        /\ z # <<>> => z[Len(z)] # "zero"
    <3>1. p[1] \notin Ends \cup {"zero"} /\ Family(p[1]) = "chunked"
      BY <1>2, <1>5 DEF Ends, Family
    <3> QED
      BY <3>1, TailInTransit DEF z
  <2>2. ASSUME NEW o, o = Token(r, "chunked", z, "chunk")
        PROVE  Advanced(x, r, at, o)
    <3>1. /\ o.call = "chunk" /\ o.req.pst = "chunked" /\ o.req.pending = z
          /\ o.req.gap = r.gap /\ o.req.cap < MaxCap /\ o.req.len = r.len
      BY <1>1, <2>2, TokenParts
    <3> QED
      BY <1>1, <1>4, <2>1, <3>1 DEF Advanced
  <2>3. ParseChunked(r, f, z) = Token(r, "chunked", z, "chunk")
    BY <1>5 DEF ParseChunked
  <2> QED
    BY <2>2, <2>3
<1>6. CASE f = "zero"
  <2>1. x = <<>> /\ at = "await"
    <3>1. p[1] = "zero" /\ 1 # Len(p)
      BY <1>1, <1>2, <1>6
    <3> HIDE DEF p
    <3> QED
      BY <1>1, <1>2, <3>1, TransitWhole
  <2>2. z # <<>> => z[Len(z)] # "zero"
    BY <1>1, <1>2
  <2>3. ASSUME NEW o, o = Token(r, "done", z, "end")
        PROVE  Advanced(x, r, at, o)
    <3>1. /\ o.call = "end" /\ o.req.pst = "done" /\ o.req.pending = z
          /\ o.req.gap = r.gap /\ o.req.cap < MaxCap /\ o.req.len = r.len
      BY <1>1, <2>3, TokenParts
    <3> QED
      BY <1>4, <2>1, <2>2, <3>1 DEF Advanced, Parsed
  <2>4. ParseChunked(r, f, z) = Token(r, "done", z, "end")
    BY <1>6 DEF ParseChunked
  <2> QED
    BY <2>3, <2>4
<1> QED
  BY <1>3, <1>5, <1>6

\* A piece of the body of a large request, or its last piece.
LEMMA LargeAdvances ==
  ASSUME NEW x, NEW r, NEW at, Advancing(x, r, at),
         r.pending # <<>>, r.pst = "large"
  PROVE  Advanced(x, r, at, ParseLarge(r))
<1> DEFINE p == r.pending
           n == Len(p)
           q == [r EXCEPT !.len = 1, !.gap = 0]
<1>1. /\ r \in Request /\ r.cap < MaxCap
      /\ p \in Seq(Fragment) /\ r.gap \in Nat \ {0} /\ x \in Seq(Fragment)
      /\ InTransit(p \o x, "large", at)
      /\ p[n] # "zero" /\ n \in Nat \ {0} /\ n \in 1 .. n
      /\ DOMAIN p = 1 .. n
  BY ConnectionAssumption DEF Advancing, Request
<1>2. q \in Request /\ q.cap = r.cap /\ q.len = 1 /\ q.gap = 0
  <2>1. 0 \in 0 .. SeqIds - 1
    BY ConnectionAssumption
  <2> QED
    BY <1>1, <2>1 DEF Request
<1>3. ParseLarge(r) = IF \E i \in DOMAIN p : p[i] = "last"
                      THEN Token(r, "done", p, "last")
                      ELSE Token(q, "large", <<>>, "chunk")
  BY DEF ParseLarge
<1> HIDE DEF q
<1>4. CASE \E i \in DOMAIN p : p[i] = "last"
  <2>1. x = <<>> /\ at = "await"
    <3>1. PICK i \in 1 .. n : p[i] \in Ends
      BY <1>1, <1>4 DEF Ends
    <3> QED
      BY <1>1, <3>1, TransitWhole
  <2>2. ASSUME NEW o, o = Token(r, "done", p, "last")
        PROVE  Advanced(x, r, at, o)
    <3>1. /\ o.call = "last" /\ o.req.pst = "done" /\ o.req.pending = p
          /\ o.req.gap = r.gap /\ o.req.cap < MaxCap /\ o.req.len = r.len
      BY <1>1, <2>2, TokenParts
    <3> QED
      BY <1>1, <2>1, <3>1 DEF Advanced, Parsed
  <2> QED
    BY <1>3, <1>4, <2>2
<1>5. CASE ~ \E i \in DOMAIN p : p[i] = "last"
  <2>1. Family(p[n]) = "large" /\ p[n] \notin Ends \cup {"zero"}
    <3> DEFINE t == p \o x
    <3>1. t[n] = p[n] /\ n \in 1 .. Len(t)
      BY <1>1, Joined
    <3>2. Family(t[n]) = "large"
      BY <1>1, <3>1 DEF InTransit
    <3>3. p[n] # "last"
      BY <1>1, <1>5
    <3> QED
      BY <3>1, <3>2, <3>3 DEF Family, Ends
  <2>2. InTransit(x, "large", at) /\ <<>> \o x = x
    BY <1>1, <2>1, TransitUsedUp
  <2>3. ASSUME NEW o, o = Token(q, "large", <<>>, "chunk")
        PROVE  Advanced(x, r, at, o)
    <3>1. /\ o.call = "chunk" /\ o.req.pst = "large" /\ o.req.pending = <<>>
          /\ o.req.gap = 0 /\ o.req.cap < MaxCap /\ o.req.len = 1
      BY <1>1, <1>2, <2>3, TokenParts
    <3>2. 0 + Len(<<>>) < r.gap + n /\ Len(<<>>) <= n
      BY <1>1
    <3> QED
      BY <1>1, <2>2, <3>1, <3>2 DEF Advanced
  <2> QED
    BY <1>3, <1>5, <2>3
<1> QED
  BY <1>4, <1>5

\* The parser, whatever its state.
LEMMA ParseAdvances ==
  ASSUME Fluent, NEW x, NEW r, NEW at, Advancing(x, r, at),
         NEW head \in RequestHead
  PROVE  Advanced(x, r, at, Parse(r, head))
<1>1. /\ r \in Request /\ r.gap \in Nat \ {0} /\ r.cap < MaxCap
      /\ r.pst # "done"
  BY ConnectionAssumption DEF Advancing, Request, InTransit
<1>2. CASE r.pending = <<>>
  <2>1. Parse(r, head) = NoToken(r, r.pst, <<>>)
    BY <1>1, <1>2 DEF Parse
  <2>2. InTransit(x, r.pst, at)
    <3>1. <<>> \o x = x
      BY DEF Advancing
    <3> QED
      BY <1>2, <3>1 DEF Advancing
  <2>3. ASSUME NEW o, o = NoToken(r, r.pst, <<>>)
        PROVE  Advanced(x, r, at, o)
    <3>1. /\ o.call = "none" /\ o.req.pst = r.pst /\ o.req.pending = <<>>
          /\ o.req.gap = 0 /\ o.req.cap < MaxCap /\ o.req.len = r.len
      BY <1>1, <2>3, TokenParts
    <3>2. 0 + Len(<<>>) < r.gap + Len(<<>>) /\ Len(<<>>) <= Len(<<>>)
      BY <1>1
    <3> QED
      BY <1>2, <2>2, <3>1, <3>2 DEF Advanced
  <2> QED
    BY <2>1, <2>3
<1>3. CASE r.pending # <<>>
  <2>1. Parse(r, head) =
          CASE r.pst = "start"   -> ParseStart(r, Head(r.pending),
                                               Tail(r.pending), head)
            [] r.pst = "small"   -> ParseSmall(r, r.pending)
            [] r.pst = "chunked" -> ParseChunked(r, Head(r.pending),
                                                 Tail(r.pending))
            [] r.pst = "large"   -> ParseLarge(r)
            [] OTHER             -> NoToken(r, "error", r.pending)
    BY <1>1, <1>3 DEF Parse
  <2>2. r.pst = "start" => Advanced(x, r, at, ParseStart(r,
                             Head(r.pending), Tail(r.pending), head))
    BY <1>3, StartAdvances
  <2>3. r.pst = "small" => Advanced(x, r, at, ParseSmall(r, r.pending))
    BY <1>1, <1>3, SmallAdvances
  <2>4. r.pst = "chunked" => Advanced(x, r, at, ParseChunked(r,
                               Head(r.pending), Tail(r.pending)))
    BY <1>3, ChunkedAdvances
  <2>5. r.pst = "large" => Advanced(x, r, at, ParseLarge(r))
    BY <1>3, LargeAdvances
  <2>6. r.pst \in {"start", "small", "chunked", "large"}
    BY <1>3, FirstInTransit
  <2> QED
    BY <2>1, <2>2, <2>3, <2>4, <2>5, <2>6
<1> QED
  BY <1>2, <1>3

-----------------------------------------------------------------------------
(* What keeps a connection attended.                                       *)

\* A step of the process for connection c, or of its client, keeps
\* AllAttended if it keeps c attended.
LEMMA AttendedStep ==
  ASSUME IInv, IInv', AllAttended, NEW c \in Conn,
         cur = c \/ pc \in {"loop", "accept"},
         cur' = c \/ pc' \in {"loop", "accept"},
         \A d \in Conn \ {c} :
           /\ life'[d] = life[d] /\ sock'[d] = sock[d]
           /\ req'[d] = req[d] /\ app'[d] = app[d]
           /\ client'[d] = client[d]
           /\ <<"io", d>> \in batch' <=> <<"io", d>> \in batch,
         Attended(life'[c], sock'[c], req'[c], app'[c], client'[c],
                  Place(c)', Report(c)', Frame(c)')
  PROVE  AllAttended'
<1>1. ASSUME NEW d \in Conn \ {c}
      PROVE  /\ Place(d)' = Place(d) /\ Report(d)' = Report(d)
             /\ Frame(d)' = Frame(d)
  <2>1. inject # d
    BY ServerAssumption DEF IInv, ProcInv, InjectFrame
  <2>2. inject' # d
    BY ServerAssumption DEF IInv, ProcInv, InjectFrame
  <2>3. Place(d) = "away" /\ Place(d)' = "away"
    BY DEF Place
  <2> QED
    BY <2>1, <2>2, <2>3 DEF Report, Frame
<1>2. ASSUME NEW d \in Conn
      PROVE  Attended(life'[d], sock'[d], req'[d], app'[d], client'[d],
                      Place(d)', Report(d)', Frame(d)')
  <2>1. CASE d = c
    BY <2>1
  <2>2. CASE d # c
    BY <1>1, <2>2 DEF AllAttended
  <2> QED
    BY <2>1, <2>2
<1> QED
  BY <1>2 DEF AllAttended

\* A step of a client or of the clock moves no frame and takes no event.
LEMMA AttendedOutside ==
  ASSUME IInv, AllAttended, NEW c \in Conn, UNCHANGED <<process, batch>>,
         \A d \in Conn \ {c} :
           /\ life'[d] = life[d] /\ sock'[d] = sock[d]
           /\ req'[d] = req[d] /\ app'[d] = app[d]
           /\ client'[d] = client[d],
         Attended(life'[c], sock'[c], req'[c], app'[c], client'[c],
                  Place(c), Report(c), Frame(c))
  PROVE  AllAttended'
<1>1. \A d \in Conn : /\ Place(d)' = Place(d) /\ Report(d)' = Report(d)
                      /\ Frame(d)' = Frame(d)
  BY DEF Place, Report, Frame, process
<1>2. ASSUME NEW d \in Conn
      PROVE  Attended(life'[d], sock'[d], req'[d], app'[d], client'[d],
                      Place(d)', Report(d)', Frame(d)')
  <2>1. CASE d = c
    BY <1>1, <2>1
  <2>2. CASE d # c
    BY <1>1, <2>2 DEF AllAttended
  <2> QED
    BY <2>1, <2>2
<1> QED
  BY <1>2 DEF AllAttended

\* Where the process is after it went on, called, or returned; and before.
LEMMA Places ==
  ASSUME IInv, NEW c \in Conn
  PROVE  /\ \A p : Goto(p, c) /\ p \notin {"loop", "accept"} =>
              /\ Place(c)' = p /\ Frame(c)' = Frame(c) /\ cur' = c
         /\ \A h : Call(c, h) => Place(c)' = "callback" /\ cur' = c
         /\ Return => \/ /\ inject = NoConn /\ Frame(c) = "none"
                         /\ Frame(c)' = "none" /\ Place(c)' = "away"
                         /\ pc' \in {"loop", "accept"}
                      \/ /\ inject = cur /\ cur' = cur /\ cur \in Conn
                         /\ (cur = c => /\ Place(c)' = "inject"
                                        /\ Frame(c) = "inject"
                                        /\ Frame(c)' = "inject")
         /\ pc \in {"loop", "accept"} => /\ Place(c) = "away"
                                         /\ Frame(c) = "none"
         /\ pc \notin {"loop", "accept"} /\ cur = c => Place(c) = pc
         /\ pc # "loop" => Report(c) = "none"
         /\ pc \in {"read", "write"} => Frame(c) = "none"
<1>1. \A p : Goto(p, c) /\ p \notin {"loop", "accept"} =>
        Place(c)' = p /\ Frame(c)' = Frame(c) /\ cur' = c
  BY DEF Goto, Place, Frame
<1>2. \A h : Call(c, h) => Place(c)' = "callback" /\ cur' = c
  BY DEF Call, Place
<1>3. /\ pc \in {"loop", "accept"} => Place(c) = "away" /\ Frame(c) = "none"
      /\ pc \notin {"loop", "accept"} /\ cur = c => Place(c) = pc
      /\ pc # "loop" => Report(c) = "none"
      /\ pc \in {"read", "write"} => Frame(c) = "none"
  BY ServerAssumption DEF Place, Frame, Report, IInv, ProcInv, InjectFrame
<1>4. ASSUME Return
      PROVE  \/ /\ inject = NoConn /\ Frame(c) = "none"
                /\ Frame(c)' = "none" /\ Place(c)' = "away"
                /\ pc' \in {"loop", "accept"}
             \/ /\ inject = cur /\ cur' = cur /\ cur \in Conn
                /\ (cur = c => /\ Place(c)' = "inject"
                               /\ Frame(c) = "inject"
                               /\ Frame(c)' = "inject")
  <2>1. inject' = inject /\ accepting' = accepting
    BY <1>4 DEF Return
  <2>2. CASE inject = NoConn
    <3>1. pc' \in {"loop", "accept"} /\ Frame(c) = "none"
          /\ Frame(c)' = "none"
      BY <1>4, <2>1, <2>2, ServerAssumption DEF Return, Frame
    <3> QED
      BY <2>2, <3>1 DEF Place
  <2>3. CASE inject # NoConn
    <3>1. inject = cur /\ cur \in Conn /\ pc' = "inject" /\ cur' = inject
      BY <1>4, <2>3 DEF Return, IInv, ProcInv, InjectFrame
    <3> QED
      BY <2>1, <3>1 DEF Place, Frame
  <2> QED
    BY <2>2, <2>3
<1> QED
  BY <1>1, <1>2, <1>3, <1>4

\* Entering a read keeps what there is, or starts with an empty buffer.
LEMMA EnterReadParts ==
  ASSUME NEW r \in Request
  PROVE  LET q == EnterRead(r)
         IN  /\ q.state = "READ" /\ HasBuffer(q) /\ q \in Request
             /\ HasBuffer(r) => /\ q.cap = r.cap /\ q.len = r.len
                                /\ q.pending = r.pending
                                /\ q.pst = r.pst /\ q.gap = r.gap
             /\ ~HasBuffer(r) => /\ q.cap = InitCap /\ q.len = 0
                                 /\ q.pending = <<>>
                                 /\ q.pst = "start" /\ q.gap = 0
<1> DEFINE q == [r EXCEPT !.state = "READ", !.timeout = REQUEST_TIMEOUT]
<1>1. /\ q \in Request /\ q.cap = r.cap /\ q.len = r.len
      /\ q.pending = r.pending /\ q.pst = r.pst /\ q.gap = r.gap
  BY ConnectionAssumption DEF Request
<1>2. EnterRead(r) = IF HasBuffer(r) THEN q ELSE BufferInit(q)
  BY DEF EnterRead
<1> HIDE DEF q
<1>3. LET b == BufferInit(q)
      IN  /\ b.cap = InitCap /\ b.len = 0 /\ b.pending = <<>>
          /\ b.pst = "start" /\ b.gap = 0
  BY <1>1 DEF BufferInit, Request
<1>4. /\ EnterRead(r).state = "READ" /\ HasBuffer(EnterRead(r))
      /\ EnterRead(r) \in Request
  BY EnterReadType, EnterReadKeeps
<1> QED
  BY <1>1, <1>2, <1>3, <1>4

\* The numbers Within speaks of; and how it is established.
LEMMA WithinGives ==
  ASSUME NEW r \in Request, NEW s \in Socket, NEW k \in Client, NEW p,
         Within(s, r, k, p)
  PROVE  /\ Budget(k) \in Nat /\ Len(s.rx) \in Nat /\ Len(r.pending) \in Nat
         /\ r.gap \in Nat /\ r.len \in Nat /\ r.cap \in Nat
         /\ Len(s.rx) <= Budget(k)
         /\ Len(r.pending) + Len(s.rx) <= Budget(k)
         /\ r.pst # "done" /\ p # "parse" =>
              r.gap + Len(r.pending) + Len(s.rx) <= Budget(k)
<1>1. /\ Budget(k) \in Nat /\ Len(s.rx) \in Nat /\ Len(r.pending) \in Nat
      /\ r.gap \in Nat /\ r.len \in Nat /\ r.cap \in Nat
  BY ConnectionAssumption, ServerAssumption DEF Socket, Client, Request, Budget
<1>2. p # "parse" => Extra(p) = 0
  BY DEF Extra
<1>3. Len(r.pending) + Len(s.rx) <= Budget(k)
  BY <1>1 DEF Within
<1>4. r.pst # "done" /\ p # "parse" =>
        r.gap + Len(r.pending) + Len(s.rx) <= Budget(k)
  BY <1>1, <1>2 DEF Within
<1>5. \A m, n, b \in Nat : m + n <= b => n <= b
  OBVIOUS
<1> QED
  BY <1>1, <1>3, <1>4, <1>5

LEMMA WithinFrom ==
  ASSUME NEW s, NEW r, NEW k \in Client, NEW p,
         s.rx \in Seq(Fragment), r.pending \in Seq(Fragment),
         r.pst # "done" => r.gap \in Nat,
         Len(r.pending) + Len(s.rx) <= Budget(k),
         r.pst # "done" => r.gap + Len(r.pending) + Len(s.rx) <= Budget(k),
         r.state # "WRITE" => r.cap < MaxCap /\ r.len + Len(s.rx) <= Budget(k)
  PROVE  Within(s, r, k, p)
<1>1. Extra(p) \in Nat
  BY DEF Extra
<1>2. Budget(k) \in Nat /\ Len(s.rx) \in Nat /\ Len(r.pending) \in Nat
  BY ServerAssumption DEF Client, Budget
<1>3. \A m, b, e \in Nat : m <= b => m <= b + e
  OBVIOUS
<1>4. r.pst # "done" => r.gap + Len(r.pending) + Len(s.rx)
                          <= Budget(k) + Extra(p)
  <2> SUFFICES ASSUME r.pst # "done"
               PROVE  r.gap + Len(r.pending) + Len(s.rx)
                        <= Budget(k) + Extra(p)
    OBVIOUS
  <2>1. r.gap + Len(r.pending) + Len(s.rx) \in Nat
    BY <1>2
  <2> QED
    BY <1>1, <1>2, <1>3, <2>1
<1> QED
  BY <1>4 DEF Within

\* What a read begins with: what the buffer has, or an empty buffer for the
\* next request.
Begins(s, r, k, j) ==
  /\ Len(s.rx) <= Budget(k)
  /\ HasBuffer(r) =>
       /\ r.cap < MaxCap /\ r.len + Len(s.rx) <= Budget(k)
       /\ Len(r.pending) + Len(s.rx) <= Budget(k)
       /\ r.pst # "done" => r.gap + Len(r.pending) + Len(s.rx) <= Budget(k)
       /\ r.pst # "nobody" /\ (r.pst = "done" => j = "inject")
       /\ Carried(s, r, k)
       /\ r.pending # <<>> =>
            /\ j = "none" => r.gap # 0
            /\ r.pending[Len(r.pending)] # "zero"
  /\ ~HasBuffer(r) => InTransit(s.rx, "start", k.at)

\* A read begins: the socket is asked first, or the parser; in the second
\* case epoll reports what the socket has.
LEMMA ReadBegun ==
  ASSUME NEW r \in Request, NEW s \in Socket, NEW a, a.held = "none",
         NEW k \in Client, NEW b, NEW j, Begins(s, r, k, j),
         NEW t, t.rx = s.rx, t.peer = s.peer, t.interest = "in",
         NEW q, q = EnterRead(r),
         NEW p, p = IF RequiresRead(q) THEN "read" ELSE "parse",
         p = "read" \/ t.ready \/ s.rx = <<>>
  PROVE  Attended("open", t, q, a, k, p, b, j)
<1>1. /\ q.state = "READ" /\ HasBuffer(q)
      /\ HasBuffer(r) => /\ q.cap = r.cap /\ q.len = r.len
                         /\ q.pending = r.pending
                         /\ q.pst = r.pst /\ q.gap = r.gap
      /\ ~HasBuffer(r) => /\ q.cap = InitCap /\ q.len = 0
                          /\ q.pending = <<>>
                          /\ q.pst = "start" /\ q.gap = 0
  BY EnterReadParts
<1>2. /\ s.rx \in Seq(Fragment) /\ Len(s.rx) \in Nat /\ Budget(k) \in Nat
      /\ Len(<<>>) = 0 /\ InitCap < MaxCap
      /\ r.gap \in Nat /\ Len(r.pending) \in Nat
  BY ConnectionAssumption, ServerAssumption DEF Socket, Client, Request, Budget
<1>3. p = IF q.pending = <<>> THEN "read" ELSE "parse"
  BY DEF RequiresRead
<1>4. Within(t, q, k, p)
  <2>1. CASE HasBuffer(r)
    <3>1. /\ q.cap < MaxCap /\ q.len + Len(t.rx) <= Budget(k)
          /\ Len(q.pending) + Len(t.rx) <= Budget(k)
          /\ q.pst # "done" =>
               q.gap + Len(q.pending) + Len(t.rx) <= Budget(k)
      BY <1>1, <2>1 DEF Begins
    <3>2. q.gap \in Nat /\ q.pending \in Seq(Fragment) /\ t.rx \in Seq(Fragment)
      BY <1>1, <1>2, <2>1 DEF Request
    <3> QED
      BY <3>1, <3>2, WithinFrom
  <2>2. CASE ~HasBuffer(r)
    <3>1. /\ q.cap < MaxCap /\ q.len = 0 /\ q.gap = 0 /\ q.pending = <<>>
          /\ Len(t.rx) <= Budget(k) /\ t.rx \in Seq(Fragment)
      BY <1>1, <1>2, <2>2 DEF Begins
    <3>2. /\ q.len + Len(t.rx) <= Budget(k)
          /\ Len(q.pending) + Len(t.rx) <= Budget(k)
          /\ q.gap + Len(q.pending) + Len(t.rx) <= Budget(k)
      BY <1>2, <3>1
    <3>3. q.gap \in Nat /\ q.pending \in Seq(Fragment)
      BY <3>1, EmptySeq
    <3> QED
      BY <3>1, <3>2, <3>3, WithinFrom
  <2> QED
    BY <2>1, <2>2
<1>5. Carried(t, q, k)
  <2>1. CASE HasBuffer(r)
    BY <1>1, <2>1 DEF Begins, Carried
  <2>2. CASE ~HasBuffer(r)
    <3>1. <<>> \o s.rx = s.rx
      BY <1>2
    <3> QED
      BY <1>1, <2>2, <3>1 DEF Begins, Carried, Parsed
  <2> QED
    BY <2>1, <2>2
<1>6. Placed(q, a, j)
  BY <1>1 DEF Placed, Begins, Complete
<1>7. Told(t, q, p, b, j)
  BY <1>1, <1>3 DEF Told, Begins
<1> QED
  BY <1>4, <1>5, <1>6, <1>7 DEF Attended

\* A write begins: what was sent of the request stays where it is.
LEMMA WriteBegun ==
  ASSUME NEW r \in Request, NEW s \in Socket, NEW a, a.held = "none",
         NEW k \in Client, NEW b, NEW j, NEW p,
         p # "parse", Within(s, r, k, p), Carried(s, r, k),
         NEW q, q.state = "WRITE", q.pending = <<>>, q.pst = r.pst,
         q.gap = r.gap,
         r.pst \in Parsed \/ /\ r.pending = <<>>
                             /\ "KEEP_ALIVE" \notin q.flags
                             /\ "CHUNKED_RESPONSE" \notin q.flags,
         NEW t, t.rx = s.rx, t.interest = "out"
  PROVE  Attended("open", t, q, a, k, "write", b, j)
<1>1. /\ s.rx \in Seq(Fragment) /\ Len(s.rx) \in Nat /\ Budget(k) \in Nat
      /\ Len(<<>>) = 0 /\ r.gap \in Nat /\ Len(r.pending) \in Nat
  BY ConnectionAssumption, ServerAssumption DEF Socket, Client, Request, Budget
<1>2. Within(t, q, k, "write")
  <2>1. /\ Budget(k) \in Nat /\ Len(s.rx) \in Nat /\ Len(r.pending) \in Nat
        /\ r.gap \in Nat /\ Len(s.rx) <= Budget(k)
        /\ r.pst # "done" => r.gap + Len(r.pending) + Len(s.rx) <= Budget(k)
    BY WithinGives
  <2>2. r.pst # "done" => r.gap + Len(<<>>) + Len(s.rx) <= Budget(k)
    BY <1>1, <2>1
  <2>3. Len(<<>>) + Len(s.rx) <= Budget(k)
    BY <1>1, <2>1
  <2> QED
    BY <1>1, <2>1, <2>2, <2>3, WithinFrom, EmptySeq
<1>3. Carried(t, q, k)
  BY DEF Carried
<1>4. Placed(q, a, j)
  BY DEF Placed, Complete
<1>5. Told(t, q, "write", b, j)
  BY DEF Told
<1> QED
  BY <1>2, <1>3, <1>4, <1>5 DEF Attended

\* A connection that is ended.
LEMMA FreedAttended ==
  ASSUME NEW a, NEW k \in Client, NEW p, NEW b, NEW j
  PROVE  Attended("freed", NewSocket, RequestInit, a, k, p, b, j)
<1>1. /\ NewSocket.rx = <<>> /\ RequestInit.pending = <<>>
      /\ RequestInit.gap = 0 /\ RequestInit.cap = 0 /\ RequestInit.len = 0
      /\ Len(<<>>) = 0 /\ Budget(k) \in Nat /\ 0 < MaxCap
  BY ConnectionAssumption, ServerAssumption
  DEF NewSocket, RequestInit, Client, Budget
<1>2. Extra(p) \in {0, 1}
  BY DEF Extra
<1>3. Within(NewSocket, RequestInit, k, p)
  BY <1>1, <1>2 DEF Within
<1> QED
  BY <1>3 DEF Attended

\* EPOLL_CTL_MOD reports what is there already.
LEMMA EpollCtlParts ==
  ASSUME NEW s \in Socket, NEW i \in {"in", "out"}
  PROVE  LET t == EpollCtl(s, i)
         IN  /\ t \in Socket /\ t.rx = s.rx /\ t.peer = s.peer
             /\ t.interest = i
             /\ i = "in" => t.ready \/ s.rx = <<>>
<1> DEFINE u == [s EXCEPT !.interest = i]
<1>1. u \in Socket /\ u.rx = s.rx /\ u.peer = s.peer /\ u.interest = i
  BY DEF Socket
<1>2. EpollCtl(s, i) = [u EXCEPT !.ready = s.ready \/ Reportable(u)]
  BY DEF EpollCtl
<1>3. i = "in" /\ s.rx # <<>> => Reportable(u)
  BY <1>1 DEF Reportable
<1> HIDE DEF u
<1>4. ASSUME NEW z \in BOOLEAN
      PROVE  LET t == [u EXCEPT !.ready = z]
             IN  /\ t.rx = u.rx /\ t.peer = u.peer
                 /\ t.interest = u.interest /\ t.ready = z
  BY <1>1 DEF Socket
<1>5. EpollCtl(s, i) \in Socket
  BY SocketTypes
<1>6. (s.ready \/ Reportable(u)) \in BOOLEAN
  OBVIOUS
<1> QED
  BY <1>1, <1>2, <1>3, <1>4, <1>5, <1>6

\* The steps of the process for c that AttendedStep is about, but for what
\* they do to c.
Stepping(c) ==
  /\ cur = c \/ pc \in {"loop", "accept"}
  /\ \A d \in Conn \ {c} :
       /\ life'[d] = life[d] /\ app'[d] = app[d] /\ client'[d] = client[d]
       /\ <<"io", d>> \in batch' <=> <<"io", d>> \in batch

\* begin_read, up to the first read() or the parser.
LEMMA AttendedBeginRead ==
  ASSUME IInv, IInv', AllAttended, NEW c \in Conn, Stepping(c),
         NEW r \in Request, NEW s \in Socket, NEW mem,
         BeginRead(c, r, s, mem), life'[c] = "open", app'[c].held = "none",
         Begins(s, r, client'[c], Frame(c))
  PROVE  AllAttended'
<1> DEFINE q == EnterRead(r)
           t == EpollCtl(s, "in")
           p == IF RequiresRead(q) THEN "read" ELSE "parse"
<1>1. /\ req' = [req EXCEPT ![c] = q] /\ sock' = [sock EXCEPT ![c] = t]
      /\ Goto(p, c)
  BY DEF BeginRead
<1>2. /\ req'[c] = q /\ sock'[c] = t
      /\ \A d \in Conn \ {c} : req'[d] = req[d] /\ sock'[d] = sock[d]
  BY <1>1 DEF IInv, ConnsInv
<1>3. Place(c)' = p /\ Frame(c)' = Frame(c) /\ cur' = c
  BY <1>1, Places
<1>4. t.rx = s.rx /\ t.peer = s.peer /\ t.interest = "in"
      /\ (t.ready \/ s.rx = <<>>)
  BY EpollCtlParts
<1>5. client'[c] \in Client
  BY DEF IInv, ConnsInv
<1> HIDE DEF q, t, p
<1>6. \A b : Attended("open", t, q, app'[c], client'[c], p, b, Frame(c))
  BY <1>4, <1>5, ReadBegun DEF q, p
<1>7. Attended(life'[c], sock'[c], req'[c], app'[c], client'[c],
               Place(c)', Report(c)', Frame(c)')
  BY <1>2, <1>3, <1>6
<1> QED
  BY <1>2, <1>3, <1>7, AttendedStep DEF Stepping

\* begin_write, up to write().
LEMMA AttendedBeginWrite ==
  ASSUME IInv, IInv', AllAttended, NEW c \in Conn, Stepping(c),
         NEW r \in Request, NEW s \in Socket, NEW p, p # "parse",
         Within(s, r, client'[c], p), Carried(s, r, client'[c]),
         NEW q, q.state = "WRITE", q.pending = <<>>, q.pst = r.pst,
         q.gap = r.gap,
         r.pst \in Parsed \/ /\ r.pending = <<>>
                             /\ "KEEP_ALIVE" \notin q.flags
                             /\ "CHUNKED_RESPONSE" \notin q.flags,
         BeginWrite(c, q, s), life'[c] = "open", app'[c].held = "none"
  PROVE  AllAttended'
<1> DEFINE t == EpollCtl(s, "out")
<1>1. /\ req' = [req EXCEPT ![c] = q] /\ sock' = [sock EXCEPT ![c] = t]
      /\ Goto("write", c)
  BY DEF BeginWrite
<1>2. /\ req'[c] = q /\ sock'[c] = t
      /\ \A d \in Conn \ {c} : req'[d] = req[d] /\ sock'[d] = sock[d]
  BY <1>1 DEF IInv, ConnsInv
<1>3. Place(c)' = "write" /\ Frame(c)' = Frame(c) /\ cur' = c
  BY <1>1, Places
<1>4. t.rx = s.rx /\ t.interest = "out"
  BY EpollCtlParts
<1>5. client'[c] \in Client
  BY DEF IInv, ConnsInv
<1> HIDE DEF t
<1>6. \A b, j : Attended("open", t, q, app'[c], client'[c], "write", b, j)
  BY <1>4, <1>5, WriteBegun
<1>7. Attended(life'[c], sock'[c], req'[c], app'[c], client'[c],
               Place(c)', Report(c)', Frame(c)')
  BY <1>2, <1>3, <1>6
<1> QED
  BY <1>2, <1>3, <1>7, AttendedStep DEF Stepping

\* terminate_connection.
LEMMA AttendedTerminate ==
  ASSUME IInv, IInv', AllAttended, NEW c \in Conn, TerminateConnection(c),
         cur = c \/ pc \in {"loop", "accept"},
         \A d \in Conn \ {c} :
           <<"io", d>> \in batch' <=> <<"io", d>> \in batch,
         UNCHANGED <<app, client>>
  PROVE  AllAttended'
<1>1. /\ life' = [life EXCEPT ![c] = "freed"]
      /\ sock' = [sock EXCEPT ![c] = NewSocket]
      /\ req' = [req EXCEPT ![c] = RequestInit] /\ Return
  BY DEF TerminateConnection
<1>2. /\ life'[c] = "freed" /\ req'[c] = RequestInit /\ sock'[c] = NewSocket
      /\ \A d \in Conn \ {c} : /\ life'[d] = life[d] /\ req'[d] = req[d]
                               /\ sock'[d] = sock[d]
  BY <1>1 DEF IInv, ConnsInv
<1>3. cur' = c \/ pc' \in {"loop", "accept"}
  <2>1. pc \in {"loop", "accept"} => inject = NoConn
    BY DEF IInv, ProcInv, InjectFrame
  <2> QED
    BY <1>1, <2>1, Places, ServerAssumption
<1>4. client'[c] \in Client
  BY DEF IInv, ConnsInv
<1>5. Attended(life'[c], sock'[c], req'[c], app'[c], client'[c],
               Place(c)', Report(c)', Frame(c)')
  BY <1>2, <1>4, FreedAttended
<1> QED
  BY <1>2, <1>3, <1>5, AttendedStep

-----------------------------------------------------------------------------
(* The event loop.                                                         *)

\* Nothing is asked of a connection no request was sent on.
LEMMA AttendedInitially == Init => AllAttended
<1> SUFFICES ASSUME Init, NEW c \in Conn
             PROVE  Attended(life[c], sock[c], req[c], app[c], client[c],
                             Place(c), Report(c), Frame(c))
  BY DEF AllAttended
<1>1. /\ life[c] = "new" /\ sock[c] = NewSocket /\ req[c] = RequestInit
      /\ client[c].at = "idle" /\ client[c] \in Client
  BY Initially DEF Init, IInv, ConnsInv
<1>2. Attended("freed", sock[c], req[c], app[c], client[c],
               Place(c), Report(c), Frame(c))
  BY <1>1, FreedAttended
<1>3. Carried(sock[c], req[c], client[c])
  <2>1. <<>> \o <<>> = <<>> /\ Len(<<>>) = 0
    OBVIOUS
  <2> QED
    BY <1>1, <2>1 DEF Carried, NewSocket, RequestInit, Parsed, InTransit
<1> QED
  BY <1>1, <1>2, <1>3 DEF Attended

\* A step that changes nothing.
LEMMA AttendedStuttering == AllAttended /\ UNCHANGED vars => AllAttended'
BY DEF AllAttended, Place, Report, Frame, vars, conns, server, process, events

\* epoll_wait: what it takes off the ready list is in the batch, unless there
\* is nothing more to report.
LEMMA AttendedEpollWait ==
  ASSUME IInv, AllAttended, NEW taken \in SUBSET Event, EpollWait(taken)
  PROVE  AllAttended'
<1>1. /\ UNCHANGED <<life, req, app, client, process>>
      /\ pc = "loop" /\ batch = {}
      /\ batch' = {e \in taken : e[1] = "io" => Reportable(sock[e[2]])}
      /\ sock' = [c \in Conn |-> IF <<"io", c>> \in taken
                                 THEN [sock[c] EXCEPT !.ready = FALSE]
                                 ELSE sock[c]]
  BY DEF EpollWait
<1>2. ASSUME NEW c \in Conn
      PROVE  Attended(life'[c], sock'[c], req'[c], app'[c], client'[c],
                      Place(c)', Report(c)', Frame(c)')
  <2> DEFINE s == sock'[c]
  <2>1. /\ Place(c)' = "away" /\ Place(c) = "away" /\ Frame(c)' = Frame(c)
        /\ Report(c) = "none" /\ sock[c] \in Socket
    BY <1>1 DEF Place, Frame, Report, process, IInv, ConnsInv
  <2>2. Attended(life[c], sock[c], req[c], app[c], client[c],
                 "away", "none", Frame(c))
    BY <2>1 DEF AllAttended
  <2>3. s \in {sock[c], [sock[c] EXCEPT !.ready = FALSE]}
    BY <1>1
  <2>4. /\ s.rx = sock[c].rx /\ s.interest = sock[c].interest
        /\ s.peer = sock[c].peer /\ s.space = sock[c].space
    BY <2>1, <2>3 DEF Socket
  <2>5. /\ <<"io", c>> \notin taken => s = sock[c]
        /\ <<"io", c>> \in taken /\ Report(c)' = "none" =>
             ~Reportable(sock[c])
    BY <1>1 DEF Report
  <2> HIDE DEF s
  <2>6. /\ Within(s, req[c], client[c], "away")
        /\ life[c] # "freed" => Carried(s, req[c], client[c])
    BY <2>2, <2>4 DEF Attended, Within, Carried
  <2>7. ASSUME life[c] = "open"
        PROVE  Told(s, req[c], "away", Report(c)', Frame(c))
    <3>1. Told(sock[c], req[c], "away", "none", Frame(c))
      BY <2>2, <2>7 DEF Attended
    <3>2. ASSUME s.peer = "up", ~s.ready, Report(c)' = "none"
          PROVE  /\ req[c].state = "READ" => s.rx = <<>>
                 /\ req[c].state = "WRITE" => s.space = 0
      <4>1. CASE <<"io", c>> \in taken
        <5>1. ~Reportable(sock[c]) /\ sock[c].space \in Nat
          BY <2>1, <2>5, <3>2, <4>1, SndBufAssumption DEF Socket
        <5> QED
          BY <2>4, <3>1, <5>1 DEF Told, Reportable
      <4>2. CASE <<"io", c>> \notin taken
        BY <2>5, <3>1, <3>2, <4>2 DEF Told
      <4> QED
        BY <4>1, <4>2
    <3> QED
      BY <2>4, <3>1, <3>2 DEF Told
  <2> QED
    BY <1>1, <2>1, <2>2, <2>6, <2>7 DEF Attended, s
<1> QED
  BY <1>2 DEF AllAttended

\* The frame of the accept loop comes and goes between connections.
LEMMA AttendedListening ==
  ASSUME IInv, AllAttended, OnListen \/ AcceptFails
  PROVE  AllAttended'
<1>1. UNCHANGED conns /\ inject' = inject /\ pc \in {"loop", "accept"}
      /\ pc' \in {"loop", "accept"}
  BY DEF OnListen, TakeFromBatch, AcceptFails, conns
<1>2. ASSUME NEW c \in Conn
      PROVE  /\ Place(c)' = Place(c) /\ Report(c)' = Report(c)
             /\ Frame(c)' = Frame(c)
  <2>1. <<"io", c>> \in batch' <=> <<"io", c>> \in batch
    BY DEF OnListen, TakeFromBatch, AcceptFails, events
  <2> QED
    BY <1>1, <2>1 DEF Place, Report, Frame
<1> QED
  BY <1>1, <1>2 DEF AllAttended, conns

\* A request that is being read and has nothing left, or that the
\* application reads on with, has what a read begins with.
LEMMA ReadsOnFrom ==
  ASSUME NEW s \in Socket, NEW r \in Request, NEW a, NEW k \in Client,
         NEW p, p \notin {"parse", "read"}, NEW b, NEW j,
         Attended("open", s, r, a, k, p, b, j),
         \/ r.state = "READ" /\ r.pending = <<>>
         \/ r.state # "WRITE" /\ a.held = "body"
  PROVE  Begins(s, r, k, j) /\ HasBuffer(r)
<1>1. Within(s, r, k, p) /\ Carried(s, r, k) /\ Placed(r, a, j)
      /\ Told(s, r, p, b, j)
  BY DEF Attended
<1>2. /\ Len(s.rx) <= Budget(k)
      /\ Len(r.pending) + Len(s.rx) <= Budget(k)
      /\ r.pst # "done" => r.gap + Len(r.pending) + Len(s.rx) <= Budget(k)
  BY <1>1, WithinGives
<1>3. r.cap < MaxCap /\ r.len + Len(s.rx) <= Budget(k)
  BY <1>1 DEF Within
<1>4. /\ HasBuffer(r) /\ r.pst # "nobody" /\ (r.pst = "done" => j = "inject")
      /\ r.pending # <<>> => /\ j = "none" => r.gap # 0
                             /\ r.pending[Len(r.pending)] # "zero"
  BY <1>1 DEF Placed, Told
<1> QED
  BY <1>1, <1>2, <1>3, <1>4 DEF Begins

\* An event in its handler's hands was the only one.
LEMMA HandedOver ==
  ASSUME IInv, NEW c \in Conn, NEW kind \in {"io", "timer"},
         TakeFromBatch(<<kind, c>>)
  PROVE  /\ pc = "loop" /\ Place(c) = "away" /\ Frame(c) = "none"
         /\ life[c] = "open"
         /\ \A d \in Conn \ {c} :
              <<"io", d>> \in batch' <=> <<"io", d>> \in batch
<1>1. /\ pc = "loop" /\ batch' = batch \ {<<kind, c>>}
      /\ c \in Open
  BY EventTaken DEF TakeFromBatch
<1> QED
  BY <1>1, Places DEF Open

\* A readable connection: the socket is read.
LEMMA AttendedOnReadable ==
  ASSUME IInv, IInv', AllAttended, NEW c \in Conn, OnReadable(c)
  PROVE  AllAttended'
<1> DEFINE q == EnterRead(req[c])
           p == IF RequiresRead(q) THEN "read" ELSE "parse"
<1>1. /\ req' = [req EXCEPT ![c] = q] /\ Goto(p, c)
      /\ UNCHANGED <<life, sock, app, client>> /\ req[c].state = "READ"
  BY DEF OnReadable
<1>2. /\ pc = "loop" /\ Place(c) = "away" /\ Frame(c) = "none"
      /\ life[c] = "open"
      /\ \A d \in Conn \ {c} :
           <<"io", d>> \in batch' <=> <<"io", d>> \in batch
  BY HandedOver DEF OnReadable
<1>3. /\ req[c] \in Request /\ sock[c] \in Socket /\ client[c] \in Client
      /\ app[c].held = "none"
  BY <1>1, <1>2 DEF IInv, ConnsInv, Sound
<1>4. Attended("open", sock[c], req[c], app[c], client[c], "away",
               Report(c), Frame(c))
  BY <1>2 DEF AllAttended
<1>5. req[c].pending = <<>> /\ sock[c].interest = "in"
  BY <1>1, <1>4 DEF Attended, Told
<1>6. Begins(sock[c], req[c], client[c], Frame(c)) /\ HasBuffer(req[c])
  BY <1>1, <1>3, <1>4, <1>5, ReadsOnFrom
<1>7. p = "read"
  BY <1>3, <1>5, <1>6, EnterReadParts DEF RequiresRead
<1> HIDE DEF q
<1>8. \A b : Attended("open", sock[c], q, app[c], client[c], p, b, Frame(c))
  BY <1>3, <1>5, <1>6, <1>7, ReadBegun DEF q
<1> HIDE DEF p
<1>9. Place(c)' = p /\ Frame(c)' = Frame(c) /\ cur' = c
  BY <1>1, <1>7, Places
<1>10. req'[c] = q /\ \A d \in Conn \ {c} : req'[d] = req[d]
  BY <1>1 DEF IInv, ConnsInv
<1>11. Attended(life'[c], sock'[c], req'[c], app'[c], client'[c],
                Place(c)', Report(c)', Frame(c)')
  BY <1>1, <1>2, <1>8, <1>9, <1>10
<1> QED
  BY <1>1, <1>2, <1>9, <1>10, <1>11, AttendedStep

\* A writable connection, or one that is neither read nor written.
LEMMA AttendedDispatched ==
  ASSUME IInv, IInv', AllAttended, NEW c \in Conn,
         OnWritable(c) \/ OnIgnored(c)
  PROVE  AllAttended'
<1>1. UNCHANGED <<life, sock, req, app, client>>
  BY DEF OnWritable, OnIgnored, conns
<1>2. /\ pc = "loop" /\ Place(c) = "away" /\ Frame(c) = "none"
      /\ life[c] = "open"
      /\ \A d \in Conn \ {c} :
           <<"io", d>> \in batch' <=> <<"io", d>> \in batch
  BY HandedOver DEF OnWritable, OnIgnored
<1>3. Attended("open", sock[c], req[c], app[c], client[c], "away",
               Report(c), Frame(c))
  BY <1>2 DEF AllAttended
<1>4. \/ /\ req[c].state = "WRITE" /\ Place(c)' = "write" /\ cur' = c
         /\ Frame(c)' = Frame(c)
      \/ /\ req[c].state \notin {"READ", "WRITE"} /\ Place(c)' = "away"
         /\ pc' = pc /\ Frame(c)' = Frame(c)
  <2>1. CASE OnWritable(c)
    BY <2>1, Places DEF OnWritable
  <2>2. CASE OnIgnored(c)
    BY <1>2, <2>2 DEF OnIgnored, Place, Frame, process
  <2> QED
    BY <2>1, <2>2
<1>5. Within(sock[c], req[c], client[c], Place(c)')
  BY <1>3, <1>4 DEF Attended, Within, Extra
<1>6. \A b : Told(sock[c], req[c], Place(c)', b, Frame(c))
  BY <1>3, <1>4 DEF Attended, Told
<1>7. Attended(life'[c], sock'[c], req'[c], app'[c], client'[c],
               Place(c)', Report(c)', Frame(c)')
  BY <1>1, <1>2, <1>3, <1>4, <1>5, <1>6 DEF Attended
<1> QED
  BY <1>1, <1>2, <1>4, <1>7, AttendedStep

\* A tick: the connection is ended or nothing that matters here changes.
LEMMA AttendedOnTimer ==
  ASSUME IInv, IInv', AllAttended, NEW c \in Conn, OnTimer(c)
  PROVE  AllAttended'
<1>1. /\ pc = "loop" /\ Place(c) = "away" /\ Frame(c) = "none"
      /\ life[c] = "open" /\ UNCHANGED <<app, client>>
      /\ \A d \in Conn \ {c} :
           <<"io", d>> \in batch' <=> <<"io", d>> \in batch
      /\ <<"io", c>> \in batch' <=> <<"io", c>> \in batch
  BY HandedOver DEF OnTimer, TakeFromBatch
<1>2. CASE TerminateConnection(c)
  BY <1>1, <1>2, AttendedTerminate
<1>3. CASE ~TerminateConnection(c)
  <2> DEFINE q == CountDown(req[c])
             s == [sock[c] EXCEPT !.tick = FALSE]
  <2>1. /\ req' = [req EXCEPT ![c] = q] /\ sock' = [sock EXCEPT ![c] = s]
        /\ UNCHANGED <<life, process>>
    BY <1>3 DEF OnTimer
  <2>2. req[c] \in Request /\ sock[c] \in Socket
    BY DEF IInv, ConnsInv
  <2>3. /\ q.state = req[c].state /\ q.pending = req[c].pending
        /\ q.gap = req[c].gap /\ q.pst = req[c].pst /\ q.cap = req[c].cap
        /\ q.len = req[c].len /\ q.flags = req[c].flags
    BY <2>2 DEF CountDown, Request
  <2>4. /\ s.rx = sock[c].rx /\ s.peer = sock[c].peer
        /\ s.space = sock[c].space /\ s.interest = sock[c].interest
        /\ s.ready = sock[c].ready
    BY <2>2 DEF Socket
  <2> HIDE DEF q, s
  <2>5. Attended("open", s, q, app[c], client[c], "away", Report(c),
                 Frame(c))
    <3>1. Attended("open", sock[c], req[c], app[c], client[c], "away",
                   Report(c), Frame(c))
      BY <1>1 DEF AllAttended
    <3> QED
      BY <2>3, <2>4, <3>1
      DEF Attended, Within, Carried, Placed, Told, HasBuffer
  <2>6. Place(c)' = "away" /\ Report(c)' = Report(c)
        /\ Frame(c)' = Frame(c)
    BY <1>1, <2>1 DEF Place, Report, Frame, process
  <2>7. /\ req'[c] = q /\ sock'[c] = s
        /\ \A d \in Conn \ {c} : req'[d] = req[d] /\ sock'[d] = sock[d]
    BY <2>1 DEF IInv, ConnsInv
  <2>8. Attended(life'[c], sock'[c], req'[c], app'[c], client'[c],
                 Place(c)', Report(c)', Frame(c)')
    BY <1>1, <2>1, <2>5, <2>6, <2>7
  <2>9. pc' = "loop"
    BY <1>1, <2>1 DEF process
  <2> QED
    BY <1>1, <2>1, <2>7, <2>8, <2>9, AttendedStep
<1> QED
  BY <1>2, <1>3

-----------------------------------------------------------------------------
(* The handlers.                                                           *)

\* A response leaves the parser as it is.
LEMMA RespondLeaves ==
  ASSUME NEW r \in Request, NEW n \in Nat
  PROVE  /\ \A q \in {Respond(r, n), RespondChunk(r, n),
                      RespondChunkEnd(r, n)} :
              /\ q.pst = r.pst /\ q.gap = r.gap
              /\ q.state = "WRITE" /\ q.pending = <<>>
         /\ r.tokens = <<>> => Respond(r, n).flags = r.flags
<1>1. ASSUME NEW q \in Request
      PROVE  LET t == PerformResponse(q, n)
             IN  t.pst = q.pst /\ t.gap = q.gap /\ t.flags = q.flags
  BY <1>1 DEF PerformResponse, BufferFree, Request
<1>2. ASSUME NEW q \in Request
      PROVE  LET t == SerializeHeaders(q)
             IN  /\ t \in Request /\ t.pst = q.pst /\ t.gap = q.gap
                 /\ q.tokens = <<>> => t.flags = q.flags
  BY <1>2 DEF SerializeHeaders, DetectKeepAlive, InspectsBuffer, Request,
              Flag
<1>3. /\ Respond(r, n).pst = r.pst /\ Respond(r, n).gap = r.gap
      /\ r.tokens = <<>> => Respond(r, n).flags = r.flags
  BY <1>1, <1>2 DEF Respond
<1>4. RespondChunk(r, n).pst = r.pst /\ RespondChunk(r, n).gap = r.gap
  <2> DEFINE f == [r EXCEPT !.flags = @ \cup {"CHUNKED_RESPONSE"}]
             q == IF "CHUNKED_RESPONSE" \in r.flags THEN r
                  ELSE SerializeHeaders(f)
             b == [q EXCEPT !.cb = "write"]
  <2>1. f \in Request /\ f.pst = r.pst /\ f.gap = r.gap
    BY DEF Request, Flag
  <2>2. RespondChunk(r, n) = PerformResponse(b, n)
    BY DEF RespondChunk
  <2> HIDE DEF f
  <2>3. q \in Request /\ q.pst = r.pst /\ q.gap = r.gap
    BY <1>2, <2>1
  <2> HIDE DEF q
  <2>4. b \in Request /\ b.pst = q.pst /\ b.gap = q.gap
    BY <2>3 DEF Request
  <2> HIDE DEF b
  <2> QED
    BY <1>1, <2>2, <2>3, <2>4
<1>5. RespondChunkEnd(r, n).pst = r.pst /\ RespondChunkEnd(r, n).gap = r.gap
  <2> DEFINE f == [r EXCEPT !.flags = @ \ {"CHUNKED_RESPONSE"}]
  <2>1. f \in Request /\ f.pst = r.pst /\ f.gap = r.gap
    BY DEF Request, Flag
  <2>2. RespondChunkEnd(r, n) = PerformResponse(f, n)
    BY DEF RespondChunkEnd
  <2> HIDE DEF f
  <2> QED
    BY <1>1, <2>1, <2>2
<1> QED
  BY <1>3, <1>4, <1>5, ResponseTypes

\* A connection is accepted: what its client has sent meanwhile is reported,
\* or read at once.
LEMMA AttendedAcceptConnection ==
  ASSUME IInv, IInv', AllAttended, NEW c \in Conn, AcceptConnection(c)
  PROVE  AllAttended'
<1> DEFINE s == EpollCtl(ArmTimer(sock[c]), "in")
           k == client[c]
<1>1. /\ life' = [life EXCEPT ![c] = "open"] /\ life[c] = "backlog"
      /\ UNCHANGED <<app, client, events>> /\ pc = "accept"
      /\ \/ \E n \in OutLens : BeginWrite(c, Respond(RequestInit, n), s)
         \/ BeginRead(c, RequestInit, s, memused)
  BY DEF AcceptConnection, Backlog
<1>2. /\ life'[c] = "open" /\ app'[c].held = "none" /\ Stepping(c)
      /\ sock[c] \in Socket /\ k \in Client /\ client'[c] = k
  BY <1>1 DEF Stepping, events, IInv, ConnsInv, Sound
<1>3. s \in Socket /\ s.rx = sock[c].rx
  <2>1. ArmTimer(sock[c]) \in Socket /\ ArmTimer(sock[c]).rx = sock[c].rx
    BY <1>2, SocketTypes DEF ArmTimer, Socket
  <2> QED
    BY <2>1, EpollCtlParts
<1>4. /\ RequestInit \in Request /\ RequestInit.pending = <<>>
      /\ RequestInit.pst = "start" /\ ~HasBuffer(RequestInit)
      /\ RequestInit.tokens = <<>> /\ RequestInit.flags = {"AUTOMATIC"}
  BY InitTypes DEF RequestInit, HasBuffer
<1> HIDE DEF s
<1>5. /\ Within(s, RequestInit, k, "away") /\ Carried(s, RequestInit, k)
  <2>1. Attended(life[c], sock[c], req[c], app[c], k, Place(c), Report(c),
                 Frame(c))
    BY DEF AllAttended
  <2>2. req[c] = RequestInit /\ Place(c) = "away"
    BY <1>1, <2>1, Places DEF Attended
  <2> QED
    BY <1>1, <1>3, <2>1, <2>2 DEF Attended, Within, Carried
<1>6. ASSUME NEW n \in OutLens, BeginWrite(c, Respond(RequestInit, n), s)
      PROVE  AllAttended'
  <2> DEFINE q == Respond(RequestInit, n)
  <2>1. n \in Nat
    BY ServerAssumption
  <2>2. /\ q.state = "WRITE" /\ q.pending = <<>>
        /\ q.pst = RequestInit.pst /\ q.gap = RequestInit.gap
        /\ "KEEP_ALIVE" \notin q.flags /\ "CHUNKED_RESPONSE" \notin q.flags
    BY <1>4, <2>1, RespondLeaves
  <2>3. BeginWrite(c, q, s)
    BY <1>6
  <2> HIDE DEF q
  <2> QED
    BY <1>2, <1>3, <1>4, <1>5, <2>2, <2>3, AttendedBeginWrite
<1>7. ASSUME BeginRead(c, RequestInit, s, memused)
      PROVE  AllAttended'
  <2>1. Len(s.rx) <= Budget(k)
    BY <1>2, <1>3, <1>4, <1>5, WithinGives
  <2>2. InTransit(s.rx, "start", k.at)
    <3>1. <<>> \o s.rx = s.rx
      BY <1>3 DEF Socket
    <3> QED
      BY <1>4, <1>5, <3>1 DEF Carried, Parsed
  <2>3. Begins(s, RequestInit, k, Frame(c))
    BY <1>4, <2>1, <2>2 DEF Begins
  <2> QED
    BY <1>2, <1>3, <1>4, <1>7, <2>3, AttendedBeginRead
<1> QED
  BY <1>1, <1>6, <1>7

\* What a client sends next comes after all the rest.
LEMMA Associative ==
  ASSUME NEW p \in Seq(Fragment), NEW x \in Seq(Fragment),
         NEW y \in Seq(Fragment)
  PROVE  (p \o x) \o y = p \o (x \o y)
BY Seqs!ConcatAssociative

\* What a read() takes is split off the front.
LEMMA Moved ==
  ASSUME NEW p \in Seq(Fragment), NEW x \in Seq(Fragment),
         NEW n \in 1 .. Len(x), NEW f, f = SubSeq(x, 1, n),
         NEW y, y = SubSeq(x, n + 1, Len(x))
  PROVE  /\ f \in Seq(Fragment) /\ Len(f) = n
         /\ y \in Seq(Fragment) /\ Len(y) = Len(x) - n
         /\ p \o f \in Seq(Fragment) /\ Len(p \o f) = Len(p) + n
         /\ f \o y = x
<1>1. f \in Seq(Fragment) /\ Len(f) = n
  OBVIOUS
<1>2. y \in Seq(Fragment) /\ Len(y) = Len(x) - n
  OBVIOUS
<1>3. f \o y = x
  <2>1. /\ 1 \in 1 .. Len(x) + 1 /\ n \in 1 - 1 .. Len(x)
        /\ Len(x) \in n .. Len(x)
    OBVIOUS
  <2>2. f \o y = SubSeq(x, 1, Len(x))
    BY <2>1, Seqs!ConcatAdjacentSubSeq
  <2> QED
    BY <2>2, Seqs!SubSeqFull
<1>4. p \o f \in Seq(Fragment) /\ Len(p \o f) = Len(p) + n
  BY <1>1, Joined
<1> QED
  BY <1>1, <1>2, <1>3, <1>4

\* One iteration of the read loop.
LEMMA ReceiveParts ==
  ASSUME NEW r \in Request, NEW f \in Seq(Fragment)
  PROVE  LET t == Receive(r, f)
         IN  /\ t.len = r.len + Len(f) /\ t.pending = r.pending \o f
             /\ t.pst = r.pst /\ t.gap = r.gap /\ t.state = r.state
             /\ t.flags = r.flags
             /\ \/ t.cap = r.cap
                \/ /\ r.cap = t.len
                   /\ t.cap = IF 2 * r.cap > MaxCap THEN MaxCap ELSE 2 * r.cap
<1> DEFINE n == r.len + Len(f)
           g == r.pending \o f
           t == [r EXCEPT !.len = n, !.pending = g]
           m == IF 2 * r.cap > MaxCap THEN MaxCap ELSE 2 * r.cap
<1>1. n \in Nat /\ g \in Seq(Fragment)
  BY DEF Request
<1>2. Receive(r, f) = GrowBuffer(t)
  BY DEF Receive
<1> HIDE DEF n, g
<1>3. /\ t.len = n /\ t.pending = g /\ t.pst = r.pst /\ t.gap = r.gap
      /\ t.state = r.state /\ t.flags = r.flags /\ t.cap = r.cap
      /\ t \in Request
  BY <1>1 DEF Request
<1>4. GrowBuffer(t) = IF t.len = t.cap /\ t.cap # MaxCap
                      THEN [t EXCEPT !.cap = IF 2 * t.cap > MaxCap THEN MaxCap
                                             ELSE 2 * t.cap]
                      ELSE t
  BY DEF GrowBuffer
<1> HIDE DEF t
<1>5. \/ Receive(r, f) = t
      \/ Receive(r, f) = [t EXCEPT !.cap = m] /\ r.cap = t.len
  BY <1>2, <1>3, <1>4
<1> HIDE DEF m
<1>6. LET z == [t EXCEPT !.cap = m]
      IN  /\ z.len = t.len /\ z.pending = t.pending /\ z.pst = t.pst
          /\ z.gap = t.gap /\ z.state = t.state /\ z.flags = t.flags
          /\ z.cap = m
  BY <1>3 DEF Request
<1>7. /\ t.len = r.len + Len(f) /\ t.pending = r.pending \o f
  BY <1>3 DEF n, g
<1> QED
  BY <1>3, <1>5, <1>6, <1>7 DEF m

\* A read() that delivers something: no buffer reaches its maximum, so the
\* next read() follows.
LEMMA AttendedReadData ==
  ASSUME Fluent, IInv, IInv', AllAttended, NEW c \in Conn, ReadData(c)
  PROVE  AllAttended'
<1> DEFINE x == sock[c].rx
           k == client[c]
           n == Least(req[c].cap - req[c].len, Len(x))
           f == SubSeq(x, 1, n)
           y == SubSeq(x, n + 1, Len(x))
           r == Receive(req[c], f)
           s == [sock[c] EXCEPT !.rx = y]
<1>1. /\ n > 0 /\ pc = "read" /\ cur = c
      /\ sock' = [sock EXCEPT ![c] = s]
      /\ req' = [req EXCEPT ![c] = IF ReadsOn(n, r) THEN r ELSE EndRead(r)]
      /\ Goto(IF ReadsOn(n, r) THEN "read" ELSE "parse", c)
      /\ UNCHANGED <<life, app, client, events>>
  BY DEF ReadData
<1>2. /\ req[c] \in Request /\ sock[c] \in Socket /\ k \in Client
      /\ life[c] = "open" /\ req[c].state = "READ" /\ batch = {}
      /\ app[c].held = "none" /\ x \in Seq(Fragment)
  BY <1>1 DEF IInv, ConnsInv, ProcInv, StateFrame, Open, Sound, Socket
<1>3. Place(c) = "read" /\ Frame(c) = "none" /\ Report(c) = "none"
  BY <1>1, Places
<1>4. /\ Within(sock[c], req[c], k, "read") /\ Carried(sock[c], req[c], k)
      /\ Placed(req[c], app[c], "none")
      /\ Told(sock[c], req[c], "read", "none", "none")
  BY <1>2, <1>3 DEF AllAttended, Attended
<1>5. n \in 1 .. Len(x)
  <2>1. Len(x) \in Nat /\ req[c].cap - req[c].len \in Int
    BY <1>2 DEF Request
  <2>2. n > 0
    BY <1>1
  <2> QED
    BY <2>1, <2>2, LeastBounds
<1> HIDE DEF n, x
<1>6. /\ f \in Seq(Fragment) /\ Len(f) = n
      /\ y \in Seq(Fragment) /\ Len(y) = Len(x) - n
      /\ Len(req[c].pending \o f) = Len(req[c].pending) + n
      /\ (req[c].pending \o f) \o y = req[c].pending \o x
  <2> DEFINE p == req[c].pending
  <2>1. p \in Seq(Fragment)
    BY <1>2 DEF Request
  <2>2. f = SubSeq(x, 1, n) /\ y = SubSeq(x, n + 1, Len(x))
    OBVIOUS
  <2> HIDE DEF p, f, y
  <2>3. /\ f \in Seq(Fragment) /\ Len(f) = n
        /\ y \in Seq(Fragment) /\ Len(y) = Len(x) - n
        /\ Len(p \o f) = Len(p) + n /\ (p \o f) \o y = p \o x
    <3>1. x \in Seq(Fragment)
      BY <1>2
    <3>2. f \in Seq(Fragment) /\ Len(f) = n
      BY <1>5, <2>1, <2>2, <3>1, Moved
    <3>3. y \in Seq(Fragment) /\ Len(y) = Len(x) - n
      BY <1>5, <2>1, <2>2, <3>1, Moved
    <3>4. Len(p \o f) = Len(p) + n
      BY <1>5, <2>1, <2>2, <3>1, Moved
    <3>5. (p \o f) \o y = p \o x
      <4>1. f \o y = x
        BY <1>5, <2>2, <3>1, Moved
      <4>2. (p \o f) \o y = p \o (f \o y)
        BY <2>1, <3>2, <3>3, Associative
      <4> QED
        BY <4>1, <4>2
    <3> QED
      BY <3>2, <3>3, <3>4, <3>5
  <2> QED
    BY <2>3 DEF p
<1> HIDE DEF f, y
<1>7. /\ s.rx = y /\ s.peer = sock[c].peer /\ s.space = sock[c].space
      /\ s.interest = sock[c].interest /\ s.ready = sock[c].ready
  BY <1>2, <1>6 DEF Socket
<1>8. /\ r.len = req[c].len + n /\ r.pending = req[c].pending \o f
      /\ r.pst = req[c].pst /\ r.gap = req[c].gap /\ r.state = "READ"
      /\ r.flags = req[c].flags /\ r \in Request
      /\ \/ r.cap = req[c].cap
         \/ /\ req[c].cap = r.len
            /\ r.cap = IF 2 * req[c].cap > MaxCap THEN MaxCap
                                                  ELSE 2 * req[c].cap
  BY <1>2, <1>6, ReceiveParts, ReadTypes
<1>9. HasBuffer(r)
  BY <1>2, <1>4, <1>6, ReadKeeps DEF Placed
<1> HIDE DEF r, s
<1>10. /\ Budget(k) \in Nat /\ Budget(k) <= 2 * MaxFragments
       /\ Len(x) \in Nat /\ Len(req[c].pending) \in Nat
       /\ req[c].gap \in Nat /\ req[c].len \in Nat /\ req[c].cap \in Nat
       /\ Len(req[c].pending) + Len(x) <= Budget(k)
       /\ req[c].pst # "done" =>
            req[c].gap + Len(req[c].pending) + Len(x) <= Budget(k)
       /\ req[c].cap < MaxCap /\ req[c].len + Len(x) <= Budget(k)
  <2>1. Budget(k) <= 2 * MaxFragments
    BY <1>2, ServerAssumption DEF Budget, Client
  <2>2. req[c].cap < MaxCap /\ req[c].len + Len(sock[c].rx) <= Budget(k)
    BY <1>2, <1>4 DEF Within
  <2>3. /\ Budget(k) \in Nat /\ Len(x) \in Nat
        /\ Len(req[c].pending) \in Nat /\ req[c].gap \in Nat
        /\ req[c].len \in Nat /\ req[c].cap \in Nat
        /\ Len(req[c].pending) + Len(x) <= Budget(k)
        /\ req[c].pst # "done" =>
             req[c].gap + Len(req[c].pending) + Len(x) <= Budget(k)
    <3> DEFINE q == req[c]
               t == sock[c]
               w == "read"
    <3>1. /\ q \in Request /\ t \in Socket /\ k \in Client
          /\ Within(t, q, k, w) /\ w # "parse"
      BY <1>2, <1>4
    <3> HIDE DEF q, t, k, w
    <3>2. /\ Budget(k) \in Nat /\ Len(t.rx) \in Nat
          /\ Len(q.pending) \in Nat
          /\ q.gap \in Nat /\ q.len \in Nat /\ q.cap \in Nat
          /\ Len(q.pending) + Len(t.rx) <= Budget(k)
          /\ q.pst # "done" => q.gap + Len(q.pending) + Len(t.rx) <= Budget(k)
      BY <3>1, WithinGives
    <3> QED
      BY <3>2 DEF q, t, x
  <2> QED
    BY <2>1, <2>2, <2>3 DEF x
<1>11. r.len <= Budget(k) /\ r.len + Len(y) <= Budget(k)
  <2> DEFINE u  == r.len
             v  == req[c].len
             lx == Len(x)
             ly == Len(y)
             B  == Budget(k)
  <2>1. /\ v \in Nat /\ lx \in Nat /\ B \in Nat /\ v + lx <= B
    BY <1>10
  <2>2. n \in Nat /\ n <= lx
    BY <1>5, <1>10 DEF x
  <2>3. u = v + n
    BY <1>6, <1>8
  <2>4. ly = lx - n
    BY <1>6
  <2> HIDE DEF u, v, lx, ly, B
  <2>5. u <= B /\ u + ly <= B
    BY <2>1, <2>2, <2>3, <2>4
  <2> QED
    BY <2>5 DEF u, ly, B
<1>12. r.cap < MaxCap
  <2>1. CASE r.cap = req[c].cap
    BY <1>10, <2>1
  <2>2. CASE req[c].cap = r.len
    <3>1. 2 * req[c].cap <= 4 * MaxFragments
      BY <1>10, <1>11, <2>2, ServerAssumption
    <3>2. 2 * req[c].cap < MaxCap
      BY <1>10, <3>1, ConnectionAssumption, ServerAssumption DEF Fluent
    <3>3. ~(2 * req[c].cap > MaxCap)
      BY <1>10, <3>2, ConnectionAssumption
    <3> QED
      BY <1>8, <1>10, <3>2, <3>3
  <2> QED
    BY <1>8, <2>1, <2>2
<1>13. ReadsOn(n, r)
  BY <1>1, <1>12 DEF ReadsOn
<1>14. /\ req'[c] = r /\ sock'[c] = s
       /\ \A d \in Conn \ {c} : req'[d] = req[d] /\ sock'[d] = sock[d]
  BY <1>1, <1>13 DEF IInv, ConnsInv
<1>15. Place(c)' = "read" /\ Frame(c)' = "none" /\ cur' = c
       /\ Report(c)' = "none"
  BY <1>1, <1>2, <1>3, <1>13, Places DEF Report, events
<1>16. Within(s, r, k, "read")
  <2> DEFINE pr == Len(r.pending)
             pc0 == Len(req[c].pending)
             g  == r.gap
             lx == Len(x)
             ly == Len(y)
             B  == Budget(k)
  <2>4. /\ pc0 \in Nat /\ lx \in Nat /\ B \in Nat /\ g \in Nat
        /\ pc0 + lx <= B /\ (r.pst # "done" => g + pc0 + lx <= B)
    BY <1>8, <1>10
  <2>5. n \in Nat /\ n <= lx
    BY <1>5, <1>10 DEF x
  <2>6. pr = pc0 + n
    BY <1>6, <1>8
  <2>7. ly = lx - n
    BY <1>6
  <2>1. Len(r.pending) + Len(y) <= Budget(k)
    <3> HIDE DEF pr, pc0, g, lx, ly, B
    <3>1. pr + ly <= B
      BY <2>4, <2>5, <2>6, <2>7
    <3> QED
      BY <3>1 DEF pr, ly, B
  <2>2. r.pst # "done" => r.gap + Len(r.pending) + Len(y) <= Budget(k)
    <3> SUFFICES ASSUME r.pst # "done"
                 PROVE  r.gap + Len(r.pending) + Len(y) <= Budget(k)
      OBVIOUS
    <3>1. g + pc0 + lx <= B
      BY <2>4
    <3> HIDE DEF pr, pc0, g, lx, ly, B
    <3>2. g + pr + ly <= B
      BY <2>4, <2>5, <2>6, <2>7, <3>1
    <3> QED
      BY <3>2 DEF pr, g, ly, B
  <2>3. r.pending \in Seq(Fragment) /\ r.gap \in Nat
    BY <1>8, <1>10 DEF Request
  <2> QED
    BY <1>2, <1>6, <1>7, <1>11, <1>12, <2>1, <2>2, <2>3, WithinFrom
<1>17. Carried(s, r, k)
  <2>1. req[c].pst \notin Parsed
    <3>1. CASE req[c].pst \in Parsed
      <4>1. x = <<>>
        BY <1>4, <3>1 DEF Carried, x
      <4> QED
        BY <1>5, <4>1
    <3> QED
      BY <3>1
  <2> QED
    BY <1>4, <1>6, <1>7, <1>8, <2>1 DEF Carried, x
<1>18. Placed(r, app[c], "none")
  BY <1>2, <1>4, <1>8, <1>9 DEF Placed, Complete
<1>19. Told(s, r, "read", "none", "none")
  BY <1>4, <1>7, <1>8, <1>2 DEF Told
<1>20. Attended("open", s, r, app[c], k, "read", "none", "none")
  BY <1>16, <1>17, <1>18, <1>19 DEF Attended
<1>21. Attended(life'[c], sock'[c], req'[c], app'[c], client'[c],
                Place(c)', Report(c)', Frame(c)')
  BY <1>1, <1>2, <1>14, <1>15, <1>20
<1> QED
  BY <1>1, <1>14, <1>15, <1>21, AttendedStep DEF events

\* A read() that delivers nothing: the socket is empty, so that the parser
\* gets all there is; it does not end within the end of a chunked body.
LEMMA AttendedReadNothing ==
  ASSUME Fluent, IInv, IInv', AllAttended, NEW c \in Conn, ReadNothing(c)
  PROVE  AllAttended'
<1> DEFINE p == req[c].pending
           k == client[c]
           q == EndRead(req[c])
<1>1. pc = "read" /\ cur = c /\ UNCHANGED <<app, client, events>>
  BY DEF ReadNothing
<1>2. CASE TerminateConnection(c)
  BY <1>1, <1>2, AttendedTerminate DEF events
<1>3. CASE ~TerminateConnection(c)
  <2>1. /\ req' = [req EXCEPT ![c] = q] /\ Goto("parse", c)
        /\ UNCHANGED <<life, sock>> /\ sock[c].rx = <<>>
    BY <1>3 DEF ReadNothing, EmptyRead
  <2>2. /\ req[c] \in Request /\ sock[c] \in Socket /\ k \in Client
        /\ life[c] = "open" /\ req[c].state = "READ" /\ batch = {}
        /\ app[c].held = "none"
    BY <1>1 DEF IInv, ConnsInv, ProcInv, StateFrame, Open, Sound
  <2>3. Place(c) = "read" /\ Frame(c) = "none" /\ Report(c) = "none"
    BY <1>1, Places
  <2>4. /\ Within(sock[c], req[c], k, "read") /\ Carried(sock[c], req[c], k)
        /\ Placed(req[c], app[c], "none")
        /\ Told(sock[c], req[c], "read", "none", "none")
    BY <2>2, <2>3 DEF AllAttended, Attended
  <2>5. p \in Seq(Fragment) /\ Len(p) \in Nat /\ req[c].gap \in Nat
        /\ Budget(k) \in Nat /\ Budget(k) <= 2 * MaxFragments
    <3>1. p \in Seq(Fragment) /\ req[c].gap \in Nat
      BY <2>2, ConnectionAssumption DEF Request
    <3>2. Len(p) \in Nat
      <4> HIDE DEF p
      <4> QED
        BY <3>1
    <3>3. Budget(k) \in Nat /\ Budget(k) <= 2 * MaxFragments
      <4>1. k.sent \in 0 .. MaxFragments
        BY <2>2 DEF Client
      <4> QED
        BY <4>1, ServerAssumption DEF Budget
    <3> QED
      BY <3>1, <3>2, <3>3
  <2>6. req[c].pst \notin Parsed
    BY <2>2, <2>4 DEF Placed, Parsed
  <2>7. InTransit(p, req[c].pst, k.at)
    <3>1. p \o <<>> = p
      BY <2>5
    <3> QED
      BY <2>1, <2>4, <2>6, <3>1 DEF Carried
  <2>8. p # <<>> => p[Len(p)] # "zero"
    <3>1. p # <<>> => Len(p) \in 1 .. Len(p) /\ Len(p) + 1 # Len(p)
      BY <2>5
    <3> HIDE DEF p, k
    <3> QED
      BY <2>5, <2>7, <3>1, TransitEnds
  <2>9. req[c].gap <= Budget(k)
    <3>1. req[c].gap + Len(p) + Len(sock[c].rx) <= Budget(k)
      <4>1. Extra("read") = 0 /\ req[c].pst # "done"
        BY <2>6 DEF Extra, Parsed
      <4> QED
        BY <2>4, <2>5, <4>1 DEF Within
    <3> QED
      BY <2>1, <2>5, <3>1
  <2>10. (req[c].gap + 1) % SeqIds = req[c].gap + 1
    <3>1. req[c].gap + 1 \in 0 .. SeqIds - 1
      BY <2>5, <2>9, ConnectionAssumption, ServerAssumption DEF Fluent
    <3> QED
      BY <3>1, ConnectionAssumption
  <2>11. /\ q.gap = req[c].gap + 1 /\ q.pending = p /\ q.pst = req[c].pst
         /\ q.state = req[c].state /\ q.cap = req[c].cap
         /\ q.len = req[c].len /\ q.flags = req[c].flags
    <3> DEFINE g == (req[c].gap + 1) % SeqIds
    <3>1. q = [req[c] EXCEPT !.gap = g]
      BY DEF EndRead
    <3> HIDE DEF g, q
    <3>2. /\ q.gap = g /\ q.pending = p /\ q.pst = req[c].pst
          /\ q.state = req[c].state /\ q.cap = req[c].cap
          /\ q.len = req[c].len /\ q.flags = req[c].flags
      BY <2>2, <3>1 DEF Request
    <3> QED
      BY <2>10, <3>2 DEF g
  <2> HIDE DEF q
  <2>12. Within(sock[c], q, k, "parse")
    <3>1. /\ Len(q.pending) + Len(sock[c].rx) <= Budget(k)
          /\ q.state # "WRITE" => /\ q.cap < MaxCap
                                  /\ q.len + Len(sock[c].rx) <= Budget(k)
      BY <2>4, <2>11 DEF Within
    <3>2. q.gap + Len(q.pending) + Len(sock[c].rx)
            <= Budget(k) + Extra("parse")
      <4>1. req[c].gap + Len(p) + Len(sock[c].rx) <= Budget(k)
        <5>1. Extra("read") = 0 /\ req[c].pst # "done"
          BY <2>6 DEF Extra, Parsed
        <5> QED
          BY <2>4, <2>5, <5>1 DEF Within
      <4>2. Extra("parse") = 1 /\ Len(sock[c].rx) = 0
        BY <2>1 DEF Extra
      <4> HIDE DEF p, k
      <4> QED
        BY <2>5, <2>11, <4>1, <4>2
    <3> QED
      BY <3>1, <3>2 DEF Within
  <2>13. Carried(sock[c], q, k)
    BY <2>4, <2>11 DEF Carried
  <2>14. Placed(q, app[c], "none")
    BY <2>2, <2>4, <2>11 DEF Placed, Complete, HasBuffer
  <2>15. Told(sock[c], q, "parse", "none", "none")
    BY <2>1, <2>2, <2>4, <2>5, <2>8, <2>11 DEF Told
  <2>16. /\ req'[c] = q /\ \A d \in Conn \ {c} : req'[d] = req[d]
    BY <2>1 DEF IInv, ConnsInv
  <2>17. /\ Place(c)' = "parse" /\ Frame(c)' = "none" /\ cur' = c
         /\ Report(c)' = "none"
    BY <1>1, <2>1, <2>2, <2>3, Places DEF Report, events
  <2>18. Attended(life'[c], sock'[c], req'[c], app'[c], client'[c],
                  Place(c)', Report(c)', Frame(c)')
    BY <1>1, <2>1, <2>2, <2>12, <2>13, <2>14, <2>15, <2>16, <2>17
    DEF Attended
  <2> QED
    BY <1>1, <2>1, <2>16, <2>17, <2>18, AttendedStep DEF events
<1> QED
  BY <1>2, <1>3

\* The zero-length end of a large body, all of which has come.
LEMMA AttendedInjectEnd ==
  ASSUME IInv, IInv', AllAttended, NEW c \in Conn, InjectEnd(c)
  PROVE  AllAttended'
<1> DEFINE q == ExecCallback(req[c])
           a == app'[c]
<1>1. /\ pc = "inject" /\ cur = c /\ inject' = NoConn
      /\ req' = [req EXCEPT ![c] = q] /\ Call(c, "complete")
      /\ UNCHANGED <<life, sock, client, events>>
  BY DEF InjectEnd
<1>2. /\ req[c] \in Request /\ life[c] = "open" /\ client[c] \in Client
      /\ inject = c /\ req[c].pst = "done" /\ sock[c] \in Socket
  BY <1>1, ServerAssumption DEF IInv, ConnsInv, ProcInv, InjectFrame, Open
<1>3. /\ q.state = "NOP" /\ q.pst = "done" /\ q.pending = req[c].pending
      /\ q.gap = req[c].gap /\ q.cap = req[c].cap /\ q.len = req[c].len
  BY <1>2 DEF ExecCallback, Request
<1> HIDE DEF q
<1>4. /\ Place(c)' = "callback" /\ cur' = c /\ Frame(c)' = "none"
      /\ Report(c)' = "none" /\ Report(c) = "none" /\ Place(c) = "inject"
  BY <1>1, <1>2, Places, ServerAssumption DEF Frame, Report, events
<1>5. Attended("open", sock[c], req[c], app[c], client[c], "inject", "none",
               Frame(c))
  BY <1>2, <1>4 DEF AllAttended
<1>6. a.held = "complete"
  BY <1>1 DEF Call, IInv, ConnsInv, App
<1> HIDE DEF a
<1>8. Within(sock[c], q, client[c], "callback")
  <2>1. Within(sock[c], req[c], client[c], "inject")
    BY <1>5 DEF Attended
  <2>2. req[c].state # "WRITE"
    BY <1>5 DEF Attended, Told
  <2> QED
    BY <1>2, <1>3, <2>1, <2>2 DEF Within
<1>9. Carried(sock[c], q, client[c])
  BY <1>2, <1>3, <1>5 DEF Attended, Carried, Parsed
<1>10. Placed(q, a, "none")
  BY <1>3, <1>6 DEF Placed, Complete, Parsed
<1>11. Told(sock[c], q, "callback", "none", "none")
  BY <1>3, <1>5 DEF Attended, Told
<1>12. /\ req'[c] = q
       /\ \A d \in Conn \ {c} : req'[d] = req[d] /\ app'[d] = app[d]
  BY <1>1 DEF IInv, ConnsInv, Call
<1>13. Attended(life'[c], sock'[c], req'[c], app'[c], client'[c],
                Place(c)', Report(c)', Frame(c)')
  BY <1>1, <1>2, <1>4, <1>8, <1>9, <1>10, <1>11, <1>12 DEF Attended, a
<1> QED
  BY <1>1, <1>4, <1>12, <1>13, AttendedStep DEF events

\* What the parser leaves is less than there was.
LEMMA AdvancedWithin ==
  ASSUME NEW r \in Request, NEW s \in Socket, NEW k \in Client,
         Within(s, r, k, "parse"), r.state = "READ", r.pst # "done",
         NEW o, o.req \in Request, Advanced(s.rx, r, k.at, o),
         NEW q, q.pst = o.req.pst, q.pending = o.req.pending,
         q.gap = o.req.gap, q.cap = o.req.cap, q.len = o.req.len, NEW p
  PROVE  Within(s, q, k, p)
<1> DEFINE x  == s.rx
           B  == Budget(k)
           n  == Len(r.pending)
           nq == Len(q.pending)
           l  == Len(x)
<1>1. /\ B \in Nat /\ n \in Nat /\ nq \in Nat /\ l \in Nat /\ r.gap \in Nat
      /\ r.len \in Nat /\ q.gap \in Nat /\ q.len \in Nat
      /\ x \in Seq(Fragment) /\ q.pending \in Seq(Fragment)
  <2>1. r.pending \in Seq(Fragment) /\ x \in Seq(Fragment)
        /\ o.req.pending \in Seq(Fragment)
    BY DEF Request, Socket
  <2>2. r.gap \in Nat /\ r.len \in Nat /\ o.req.gap \in Nat
        /\ o.req.len \in Nat
    BY ConnectionAssumption DEF Request
  <2>3. B \in Nat
    BY ServerAssumption DEF Client, Budget
  <2> HIDE DEF x, B
  <2> QED
    BY <2>1, <2>2, <2>3
<1>2. Extra("parse") = 1
  BY DEF Extra
<1>3. /\ n + l <= B /\ r.gap + n + l <= B + 1
      /\ r.len + l <= B
  BY <1>2 DEF Within
<1>4. /\ q.cap < MaxCap /\ nq <= n
      /\ q.len = r.len \/ (q.len = 1 /\ r.pending # <<>>)
      /\ q.pst # "done" => q.gap + nq < r.gap + n
  BY DEF Advanced
<1>5. r.pending # <<>> => n >= 1
  BY <1>1 DEF Request
<1> HIDE DEF x, B, n, nq, l
<1>6. nq + l <= B /\ q.len + l <= B
  <2> DEFINE u == q.len
             v == r.len
  <2>1. nq + l <= B
    <3>1. nq \in Nat /\ n \in Nat /\ l \in Nat /\ B \in Nat
      BY <1>1
    <3>2. nq <= n /\ n + l <= B
      BY <1>3, <1>4
    <3> QED
      BY <3>1, <3>2
  <2>2. /\ u \in Nat /\ v \in Nat /\ l \in Nat /\ B \in Nat /\ n \in Nat
        /\ v + l <= B /\ n + l <= B /\ (u = v \/ (u = 1 /\ n >= 1))
    BY <1>1, <1>3, <1>4, <1>5
  <2> HIDE DEF u, v
  <2>3. u + l <= B
    BY <2>2
  <2> QED
    BY <2>1, <2>3 DEF u
<1>7. q.pst # "done" => q.gap + nq + l <= B
  <2> DEFINE g == q.gap
             h == r.gap
  <2>1. /\ g \in Nat /\ h \in Nat /\ n \in Nat /\ nq \in Nat /\ l \in Nat
        /\ B \in Nat /\ h + n + l <= B + 1
        /\ q.pst # "done" => g + nq < h + n
    BY <1>1, <1>3, <1>4
  <2> HIDE DEF g, h
  <2>2. q.pst # "done" => g + nq + l <= B
    BY <2>1
  <2> QED
    BY <2>2 DEF g
<1> QED
  BY <1>1, <1>4, <1>6, <1>7, WithinFrom DEF x, B, nq, l

\* The parser runs and calls the application, or waits for more.
LEMMA AttendedParseAndCall ==
  ASSUME Fluent, IInv, IInv', AllAttended, NEW c \in Conn, ParseAndCall(c)
  PROVE  AllAttended'
<1> DEFINE r == req[c]
           s == sock[c]
           k == client[c]
           o == Parse(r, k.head)
           j == Frame(c)
<1>1. /\ pc = "parse" /\ cur = c
      /\ UNCHANGED <<life, sock, client, events>>
  BY DEF ParseAndCall
<1>2. /\ r \in Request /\ s \in Socket /\ k \in Client
      /\ life[c] = "open" /\ r.state = "READ" /\ batch = {}
      /\ app[c].held = "none" /\ Buffered(r) /\ k.head \in RequestHead
  <2>1. k.head \in RequestHead
    BY ServerAssumption DEF IInv, ConnsInv, Client, Heads, RequestHead
  <2> QED
    BY <1>1, <2>1 DEF IInv, ConnsInv, ProcInv, StateFrame, Open, Sound
<1>3. Place(c) = "parse" /\ Report(c) = "none" /\ Report(c)' = "none"
  BY <1>1, <1>2, Places DEF Report, events
<1>4. /\ Within(s, r, k, "parse") /\ Carried(s, r, k)
      /\ Placed(r, app[c], j) /\ Told(s, r, "parse", "none", j)
  BY <1>2, <1>3 DEF AllAttended, Attended
<1>5. /\ GoodOutcome(r, o)
      /\ r.pst = "done" => o.call = "none" /\ o.req = r
  BY <1>2, ParseType
<1>6. HasBuffer(r) /\ s.interest = "in"
  BY <1>2, <1>4 DEF Placed, Told
<1>7. KeptOutcome(r, o)
  BY <1>2, <1>6, ParseKeeps
<1>8. /\ o.call = "none" => /\ req' = [req EXCEPT ![c] = o.req] /\ Return
                            /\ UNCHANGED app
      /\ o.call # "none" =>
           /\ req' = [req EXCEPT ![c] = ExecCallback(o.req)]
           /\ Call(c, CASE o.call = "request" -> "request"
                        [] o.call = "end"     -> "complete"
                        [] OTHER              -> "body")
           /\ inject' = IF o.call = "last" THEN c ELSE inject
  BY DEF ParseAndCall
<1>9. ASSUME NEW q, NEW p \in {"away", "callback", "inject"}, NEW i,
             req' = [req EXCEPT ![c] = q],
             \A d \in Conn \ {c} : app'[d] = app[d],
             Place(c)' = p, Frame(c)' = i,
             cur' = c \/ pc' \in {"loop", "accept"},
             Attended("open", s, q, app'[c], k, p, "none", i)
      PROVE  AllAttended'
  <2>1. req'[c] = q /\ \A d \in Conn \ {c} : req'[d] = req[d]
    BY <1>9 DEF IInv, ConnsInv
  <2>2. Attended(life'[c], sock'[c], req'[c], app'[c], client'[c],
                 Place(c)', Report(c)', Frame(c)')
    BY <1>1, <1>2, <1>3, <1>9, <2>1
  <2> QED
    BY <1>1, <1>9, <2>1, <2>2, AttendedStep DEF events
<1>10. CASE inject # NoConn
  <2>1. r.pst = "done" /\ inject = c /\ j = "inject"
    BY <1>1, <1>10 DEF IInv, ProcInv, InjectFrame, Frame
  <2>2. req' = [req EXCEPT ![c] = r] /\ Return /\ UNCHANGED app
    BY <1>5, <1>8, <2>1
  <2>3. Place(c)' = "inject" /\ Frame(c)' = "inject" /\ cur' = c
    BY <1>1, <1>10, <2>2, Places
  <2> HIDE DEF r, s, k, o, j
  <2>4. Within(s, r, k, "inject")
    BY <1>4, <2>1 DEF Within
  <2>5. Told(s, r, "inject", "none", "inject")
    BY <1>2, <1>4 DEF Told
  <2>6. Attended("open", s, r, app[c], k, "inject", "none", "inject")
    BY <1>4, <2>1, <2>4, <2>5 DEF Attended
  <2> QED
    BY <1>9, <2>2, <2>3, <2>6
<1>11. CASE inject = NoConn
  <2>1. j = "none"
    BY <1>11, ServerAssumption DEF Frame
  <2>2. r.pst \notin Parsed /\ r.gap # 0
    BY <1>2, <1>4, <2>1 DEF Placed, Parsed, Told
  <2>3. Advancing(s.rx, r, k.at)
    <3>1. s.rx \in Seq(Fragment)
      BY <1>2 DEF Socket
    <3>2. /\ InTransit(r.pending \o s.rx, r.pst, k.at) /\ r.cap < MaxCap
          /\ r.pending # <<>> => r.pending[Len(r.pending)] # "zero"
      BY <1>2, <1>4, <2>2 DEF Carried, Within, Told
    <3> QED
      BY <1>2, <1>6, <2>2, <3>1, <3>2 DEF Advancing
  <2>4. Advanced(s.rx, r, k.at, o)
    BY <1>2, <2>3, ParseAdvances
  <2> HIDE DEF r, s, k, o, j
  <2>5. o.req \in Request /\ o.req.state = "READ" /\ r.pst # "done"
    BY <1>2, <1>5, <2>2 DEF GoodOutcome, Alike, Parsed
  <2>6. s.rx \in Seq(Fragment)
    BY <1>2 DEF Socket
  <2>7. CASE o.call = "none"
    <3> DEFINE q == o.req
    <3>1. Place(c)' = "away" /\ Frame(c)' = "none"
          /\ pc' \in {"loop", "accept"}
      <4>1. Return
        BY <1>8, <2>7
      <4> QED
        BY <1>1, <1>11, <4>1, Places, ServerAssumption
    <3>2. Within(s, q, k, "away")
      BY <1>2, <1>4, <2>4, <2>5, AdvancedWithin
    <3>3. q.pending = <<>> /\ InTransit(s.rx, q.pst, k.at)
      BY <2>4, <2>7 DEF Advanced
    <3>4. q.pst \notin Parsed
      BY <3>3 DEF InTransit, Parsed
    <3>5. Carried(s, q, k)
      <4>1. <<>> \o s.rx = s.rx
        BY <2>6
      <4> QED
        BY <3>3, <3>4, <4>1 DEF Carried
    <3>6. Placed(q, app[c], "none")
      BY <1>2, <1>7, <2>5, <3>4 DEF Placed, KeptOutcome, Parsed, Complete
    <3>7. Told(s, q, "away", "none", "none")
      BY <1>2, <1>4, <1>6, <2>5, <3>3 DEF Told
    <3>8. Attended("open", s, q, app[c], k, "away", "none", "none")
      BY <3>2, <3>5, <3>6, <3>7 DEF Attended
    <3>9. req' = [req EXCEPT ![c] = q] /\ UNCHANGED app
      BY <1>8, <2>7
    <3> HIDE DEF q
    <3> QED
      BY <1>9, <3>1, <3>8, <3>9
  <2>8. CASE o.call # "none"
    <3> DEFINE q == ExecCallback(o.req)
               h == CASE o.call = "request" -> "request"
                      [] o.call = "end"     -> "complete"
                      [] OTHER              -> "body"
               i == IF o.call = "last" THEN "inject" ELSE "none"
    <3>1. /\ req' = [req EXCEPT ![c] = q] /\ Call(c, h)
          /\ inject' = IF o.call = "last" THEN c ELSE inject
      BY <1>8, <2>8
    <3>2. Place(c)' = "callback" /\ Frame(c)' = i /\ cur' = c
      BY <1>11, <3>1, Places, ServerAssumption DEF Frame
    <3>3. /\ app'[c].held = h
          /\ \A d \in Conn \ {c} : app'[d] = app[d]
      BY <3>1 DEF Call, IInv, ConnsInv, App
    <3>4. /\ q.state = "NOP" /\ q.pst = o.req.pst
          /\ q.pending = o.req.pending /\ q.gap = o.req.gap
          /\ q.cap = o.req.cap /\ q.len = o.req.len
      BY <2>5 DEF ExecCallback, Request
    <3> HIDE DEF q
    <3>5. Within(s, q, k, "callback")
      BY <1>2, <1>4, <2>4, <2>5, <3>4, AdvancedWithin
    <3>6. \/ o.call \in {"headers", "chunk"} /\ h = "body" /\ i = "none"
          \/ o.call = "last" /\ h = "body" /\ i = "inject"
          \/ o.call \in {"request", "end"} /\ h \in Complete /\ i = "none"
      BY <2>4, <2>8 DEF Advanced, Complete
    <3>7. Carried(s, q, k)
      <4>1. CASE o.call \in {"headers", "chunk"}
        BY <2>4, <3>4, <4>1 DEF Advanced, Carried, Parsed
      <4>2. CASE o.call \in {"request", "last", "end"}
        BY <2>4, <3>4, <4>2 DEF Advanced, Carried
      <4> QED
        BY <3>6, <4>1, <4>2
    <3>8. HasBuffer(q)
      BY <1>7, <3>4 DEF KeptOutcome, HasBuffer
    <3> HIDE DEF h, i
    <3>9. Placed(q, app'[c], i)
      <4>1. CASE o.call \in {"headers", "chunk"}
        <5>1. /\ h = "body" /\ q.pst \in {"chunked", "large"}
              /\ q.pending # <<>> => q.gap # 0
          BY <2>4, <3>4, <3>6, <4>1 DEF Advanced
        <5> QED
          BY <3>3, <3>4, <3>8, <5>1 DEF Placed, Complete
      <4>2. CASE o.call = "last"
        <5>1. h = "body" /\ i = "inject" /\ q.pst = "done"
          BY <1>5, <3>4, <3>6, <4>2 DEF GoodOutcome
        <5> QED
          BY <3>3, <3>4, <3>8, <5>1 DEF Placed, Complete
      <4>3. CASE o.call \in {"request", "end"}
        <5>1. h \in Complete /\ q.pst \in Parsed
          BY <2>4, <3>4, <3>6, <4>3 DEF Advanced
        <5> QED
          BY <3>3, <3>4, <5>1 DEF Placed, Complete
      <4> QED
        BY <3>6, <4>1, <4>2, <4>3
    <3>10. Told(s, q, "callback", "none", i)
      <4>1. q.pending # <<>> => q.pending[Len(q.pending)] # "zero"
        BY <2>4, <3>4 DEF Advanced
      <4> QED
        BY <3>4, <4>1 DEF Told
    <3>11. Attended("open", s, q, app'[c], k, "callback", "none", i)
      BY <3>5, <3>7, <3>9, <3>10 DEF Attended
    <3> QED
      BY <1>9, <3>1, <3>2, <3>3, <3>11
  <2> QED
    BY <2>7, <2>8
<1> QED
  BY <1>10, <1>11

\* What is left of a request after a write().
LEMMA AfterWriteParts ==
  ASSUME NEW r \in Request, NEW rc
  PROVE  LET q == AfterWrite(r, rc)
         IN  /\ q.pst = r.pst /\ q.gap = r.gap
             /\ rc = "CONTINUE" => /\ q.pending = r.pending
                                   /\ q.cap = r.cap /\ q.len = r.len
             /\ rc # "CONTINUE" => /\ q.pending = <<>>
                                   /\ q.cap = 0 /\ q.len = 0
<1> DEFINE t == IF rc = "SUCCESS" THEN KEEPALIVE_TIMEOUT ELSE REQUEST_TIMEOUT
           q == [r EXCEPT !.timeout = t]
<1>1. AfterWrite(r, rc) = IF rc = "CONTINUE" THEN q ELSE BufferFree(q)
  BY DEF AfterWrite
<1>2. t \in Nat
  BY ConnectionAssumption
<1> HIDE DEF t
<1>3. /\ q \in Request /\ q.pst = r.pst /\ q.gap = r.gap
      /\ q.pending = r.pending /\ q.cap = r.cap /\ q.len = r.len
  BY <1>2 DEF Request
<1> HIDE DEF q
<1>4. /\ BufferFree(q).pst = q.pst /\ BufferFree(q).gap = q.gap
      /\ BufferFree(q).pending = <<>> /\ BufferFree(q).cap = 0
      /\ BufferFree(q).len = 0
  BY <1>3 DEF BufferFree, Request
<1> QED
  BY <1>1, <1>3, <1>4

\* A write(): it waits only for room in the socket; with the last of a
\* response the client goes on to its next request.
LEMMA AttendedWriteSocket ==
  ASSUME IInv, IInv', AllAttended, NEW c \in Conn, WriteSocket(c)
  PROVE  AllAttended'
<1> DEFINE k == client[c]
<1>1. /\ pc = "write" /\ cur = c /\ inject = NoConn /\ batch = {}
      /\ req[c].state = "WRITE" /\ life[c] = "open"
      /\ UNCHANGED events
  BY DEF WriteSocket, IInv, ProcInv, InjectFrame, StateFrame, Open
<1>2. /\ req[c] \in Request /\ sock[c] \in Socket /\ k \in Client
      /\ app[c].held = "none"
      /\ req[c].written <= req[c].len
  BY <1>1 DEF IInv, ConnsInv, Sound, Sent
<1>3. /\ Place(c) = "write" /\ Frame(c) = "none" /\ Report(c) = "none"
      /\ Report(c)' = "none"
  BY <1>1, Places DEF Report, events
<1>4. /\ Within(sock[c], req[c], k, "write") /\ Carried(sock[c], req[c], k)
      /\ Placed(req[c], app[c], "none")
      /\ Told(sock[c], req[c], "write", "none", "none")
  BY <1>1, <1>3 DEF AllAttended, Attended
<1>5. PICK w \in WriteCall(c) :
        LET r  == [req[c] EXCEPT !.written = @ + w[1]]
            s  == [sock[c] EXCEPT !.space = @ - w[1]]
            rc == WriteRc(r, w[2])
            q  == AfterWrite(r, rc)
            freed == memused + Charge(r, q)
        IN  /\ errno' = w[2]
            /\ CASE rc = "CONTINUE" ->
                      /\ req' = [req EXCEPT ![c] = q]
                      /\ sock' = [sock EXCEPT ![c] = s]
                      /\ Return
                      /\ UNCHANGED <<life, app, client, memused>>
                 [] rc = "SUCCESS" ->
                      /\ BeginRead(c, q, s, freed)
                      /\ client' = [client EXCEPT ![c] = Answered(@)]
                      /\ UNCHANGED <<life, app>>
                 [] rc = "SUCCESS_CHUNK" ->
                      /\ req' = [req EXCEPT ![c] = ExecCallback(q)]
                      /\ sock' = [sock EXCEPT ![c] = s]
                      /\ memused' = freed
                      /\ Call(c, "notify")
                      /\ UNCHANGED <<life, client, inject>>
                 [] OTHER ->
                      TerminateConnection(c) /\ UNCHANGED <<app, client>>
  BY DEF WriteSocket
<1> DEFINE r  == [req[c] EXCEPT !.written = @ + w[1]]
           s  == [sock[c] EXCEPT !.space = @ - w[1]]
           rc == WriteRc(r, w[2])
           q  == AfterWrite(r, rc)
           freed == memused + Charge(r, q)
<1>6. /\ w[1] \in 0 .. sock[c].space /\ req[c].written + w[1] \in Nat
      /\ sock[c].peer = "up" =>
           w[1] \in {sock[c].space, req[c].len - req[c].written}
  <2> DEFINE m == Least(Unsent(req[c]), sock[c].space)
  <2>1. /\ req[c].len \in Nat /\ req[c].written \in Nat
        /\ req[c].written <= req[c].len /\ sock[c].space \in Nat
    BY <1>2, SndBufAssumption DEF Request, Socket
  <2>2. /\ m \in 0 .. sock[c].space /\ req[c].written + m \in Nat
        /\ m \in {sock[c].space, req[c].len - req[c].written}
    BY <2>1 DEF Least, Unsent
  <2>3. /\ w \in {<<0, "EPIPE">>, <<0, "other">>, <<m, errno>>}
        /\ sock[c].peer = "up" => w[1] \in {sock[c].space, m}
    BY DEF WriteCall
  <2> HIDE DEF m
  <2>4. w[1] \in {0, m}
    BY <2>3
  <2> QED
    BY <2>1, <2>2, <2>3, <2>4
<1>7. /\ r \in Request /\ r.flags = req[c].flags /\ r.pst = req[c].pst
      /\ r.gap = req[c].gap /\ r.pending = req[c].pending
      /\ r.cap = req[c].cap /\ r.len = req[c].len /\ r.state = "WRITE"
      /\ Unsent(r) = req[c].len - (req[c].written + w[1])
  <2> DEFINE n == req[c].written + w[1]
  <2>1. n \in Nat /\ r = [req[c] EXCEPT !.written = n]
    BY <1>6
  <2> HIDE DEF n, r
  <2>2. /\ r \in Request /\ r.flags = req[c].flags /\ r.pst = req[c].pst
        /\ r.gap = req[c].gap /\ r.pending = req[c].pending
        /\ r.cap = req[c].cap /\ r.len = req[c].len /\ r.state = "WRITE"
        /\ r.written = n
    BY <1>1, <1>2, <2>1 DEF Request
  <2> QED
    BY <2>2 DEF Unsent, n
<1>8. /\ s \in Socket /\ s.rx = sock[c].rx /\ s.peer = sock[c].peer
      /\ s.interest = sock[c].interest /\ s.ready = sock[c].ready
      /\ s.space = sock[c].space - w[1]
  <2>1. sock[c].space - w[1] \in 0 .. SndBuf
    BY <1>2, <1>6, SndBufAssumption DEF Socket
  <2> QED
    BY <1>2, <2>1 DEF Socket
<1>9. /\ rc = "CONTINUE" => Unsent(r) # 0
      /\ rc = "SUCCESS" => "KEEP_ALIVE" \in r.flags
      /\ rc = "SUCCESS_CHUNK" => "CHUNKED_RESPONSE" \in r.flags
  BY DEF WriteRc
<1>10. \/ /\ rc = "CONTINUE"
          /\ req' = [req EXCEPT ![c] = q]
          /\ sock' = [sock EXCEPT ![c] = s]
          /\ Return
          /\ UNCHANGED <<life, app, client, memused>>
       \/ /\ rc = "SUCCESS"
          /\ BeginRead(c, q, s, freed)
          /\ client' = [client EXCEPT ![c] = Answered(@)]
          /\ UNCHANGED <<life, app>>
       \/ /\ rc = "SUCCESS_CHUNK"
          /\ req' = [req EXCEPT ![c] = ExecCallback(q)]
          /\ sock' = [sock EXCEPT ![c] = s]
          /\ Call(c, "notify")
          /\ UNCHANGED <<life, client, inject>>
       \/ TerminateConnection(c) /\ UNCHANGED <<app, client>>
  BY <1>5
<1> HIDE DEF r, s, rc
<1>11. /\ q \in Request /\ q.flags = r.flags /\ q.state = "WRITE"
       /\ q.pst = req[c].pst /\ q.gap = req[c].gap
       /\ rc = "CONTINUE" => /\ q.pending = req[c].pending
                             /\ q.cap = req[c].cap /\ q.len = req[c].len
       /\ rc # "CONTINUE" => q.pending = <<>> /\ q.cap = 0 /\ q.len = 0
  BY <1>7, AfterWriteType, AfterWriteKeeps, AfterWriteParts
<1> HIDE DEF q, freed, k
<1>12. CASE /\ rc = "CONTINUE"
            /\ req' = [req EXCEPT ![c] = q]
            /\ sock' = [sock EXCEPT ![c] = s]
            /\ Return
            /\ UNCHANGED <<life, app, client, memused>>
  <2>1. Place(c)' = "away" /\ Frame(c)' = "none"
        /\ pc' \in {"loop", "accept"}
    BY <1>1, <1>12, Places, ServerAssumption
  <2>2. s.peer = "up" => s.space = 0
    <3>1. /\ sock[c].space \in Nat /\ req[c].len \in Nat
          /\ req[c].written \in Nat
      BY <1>2, SndBufAssumption DEF Socket, Request
    <3> QED
      BY <1>6, <1>7, <1>8, <1>9, <1>12, <3>1
  <2>3. Within(s, q, k, "away")
    <3>1. Extra("away") = Extra("write")
      BY DEF Extra
    <3> QED
      BY <1>1, <1>4, <1>8, <1>11, <1>12, <3>1 DEF Within
  <2>4. Carried(s, q, k)
    BY <1>4, <1>8, <1>11, <1>12 DEF Carried
  <2>5. Placed(q, app[c], "none")
    BY <1>1, <1>2, <1>4, <1>7, <1>11, <1>12 DEF Placed, Complete
  <2>6. Told(s, q, "away", "none", "none")
    BY <1>1, <1>4, <1>8, <1>11, <1>12, <2>2 DEF Told
  <2>7. Attended("open", s, q, app[c], k, "away", "none", "none")
    BY <2>3, <2>4, <2>5, <2>6 DEF Attended
  <2>8. /\ req'[c] = q /\ sock'[c] = s
        /\ \A d \in Conn \ {c} : req'[d] = req[d] /\ sock'[d] = sock[d]
    BY <1>12 DEF IInv, ConnsInv
  <2>9. Attended(life'[c], sock'[c], req'[c], app'[c], client'[c],
                 Place(c)', Report(c)', Frame(c)')
    BY <1>1, <1>3, <1>12, <2>1, <2>7, <2>8 DEF k
  <2> QED
    BY <1>1, <1>12, <2>1, <2>8, <2>9, AttendedStep DEF events
<1>13. CASE /\ rc = "SUCCESS"
            /\ BeginRead(c, q, s, freed)
            /\ client' = [client EXCEPT ![c] = Answered(@)]
            /\ UNCHANGED <<life, app>>
  <2>1. req[c].pst \in Parsed
    BY <1>1, <1>4, <1>7, <1>9, <1>13 DEF Placed
  <2>2. s.rx = <<>> /\ k.at = "await"
    BY <1>4, <1>8, <2>1 DEF Carried
  <2>3. /\ client'[c] = Answered(k) /\ client'[c] \in Client
        /\ \A d \in Conn \ {c} : client'[d] = client[d]
    BY <1>13 DEF IInv, ConnsInv, k
  <2>4. client'[c].at = "idle"
    BY <1>2, <2>2, <2>3 DEF Answered, Client
  <2>5. InTransit(s.rx, "start", client'[c].at)
    BY <2>2, <2>4 DEF InTransit
  <2>6. Len(s.rx) <= Budget(client'[c])
    BY <2>2, <2>3, ServerAssumption DEF Budget, Client
  <2>7. ~HasBuffer(q)
    BY <1>11, <1>13 DEF HasBuffer
  <2>8. Begins(s, q, client'[c], Frame(c))
    BY <2>5, <2>6, <2>7 DEF Begins
  <2>9. Stepping(c) /\ life'[c] = "open" /\ app'[c].held = "none"
    BY <1>1, <1>2, <1>13, <2>3 DEF Stepping, events
  <2> QED
    BY <1>8, <1>11, <1>13, <2>8, <2>9, AttendedBeginRead
<1>14. CASE /\ rc = "SUCCESS_CHUNK"
            /\ req' = [req EXCEPT ![c] = ExecCallback(q)]
            /\ sock' = [sock EXCEPT ![c] = s]
            /\ Call(c, "notify")
            /\ UNCHANGED <<life, client, inject>>
  <2> DEFINE u == ExecCallback(q)
             a == app'[c]
  <2>1. req[c].pst \in Parsed
    BY <1>1, <1>4, <1>7, <1>9, <1>14 DEF Placed
  <2>2. s.rx = <<>> /\ k.at = "await"
    BY <1>4, <1>8, <2>1 DEF Carried
  <2>3. /\ u.state = "NOP" /\ u.pst = req[c].pst /\ u.gap = req[c].gap
        /\ u.pending = <<>> /\ u.cap = 0 /\ u.len = 0
    BY <1>11, <1>14 DEF ExecCallback, Request
  <2>4. /\ Place(c)' = "callback" /\ cur' = c /\ Frame(c)' = "none"
    BY <1>1, <1>14, Places, ServerAssumption DEF Frame
  <2>5. a.held = "notify" /\ \A d \in Conn \ {c} : app'[d] = app[d]
    BY <1>14 DEF Call, IInv, ConnsInv, App
  <2>6. /\ req'[c] = u /\ sock'[c] = s
        /\ \A d \in Conn \ {c} : req'[d] = req[d] /\ sock'[d] = sock[d]
    BY <1>14 DEF IInv, ConnsInv
  <2> HIDE DEF u, a
  <2>7. Within(s, u, k, "callback")
    <3>1. /\ Budget(k) \in Nat /\ req[c].gap \in Nat
          /\ Len(req[c].pending) \in Nat /\ Len(sock[c].rx) \in Nat
          /\ req[c].pst # "done" => req[c].gap + Len(req[c].pending)
                                      + Len(sock[c].rx) <= Budget(k)
      <4> DEFINE t == sock[c]
                 v == req[c]
                 z == "write"
      <4>1. /\ t \in Socket /\ v \in Request /\ Within(t, v, k, z)
            /\ z # "parse"
        BY <1>2, <1>4
      <4> HIDE DEF t, v, z
      <4>2. /\ Budget(k) \in Nat /\ v.gap \in Nat /\ Len(v.pending) \in Nat
            /\ Len(t.rx) \in Nat
            /\ v.pst # "done" =>
                 v.gap + Len(v.pending) + Len(t.rx) <= Budget(k)
        BY <1>2, <4>1, WithinGives
      <4> QED
        BY <4>2 DEF t, v
    <3>2. /\ Len(u.pending) = 0 /\ Len(s.rx) = 0 /\ 0 < MaxCap
      BY <2>2, <2>3, ConnectionAssumption
    <3>3. u.pst # "done" => u.gap + Len(u.pending) + Len(s.rx) <= Budget(k)
      BY <2>3, <3>1, <3>2
    <3>4. /\ s.rx \in Seq(Fragment) /\ u.pending \in Seq(Fragment)
          /\ u.gap \in Nat
      BY <2>2, <2>3, <3>1, EmptySeq
    <3>5. Len(u.pending) + Len(s.rx) <= Budget(k)
      BY <3>1, <3>2
    <3>6. u.state # "WRITE" =>
            u.cap < MaxCap /\ u.len + Len(s.rx) <= Budget(k)
      BY <2>3, <3>1, <3>2
    <3> QED
      BY <1>2, <2>3, <3>1, <3>2, <3>3, <3>4, <3>5, <3>6, WithinFrom
  <2>8. Carried(s, u, k)
    BY <2>1, <2>2, <2>3 DEF Carried
  <2>9. Placed(u, a, "none")
    BY <2>1, <2>3, <2>5 DEF Placed, Complete
  <2>10. Told(s, u, "callback", "none", "none")
    BY <2>3 DEF Told
  <2>11. Attended("open", s, u, a, k, "callback", "none", "none")
    BY <2>7, <2>8, <2>9, <2>10 DEF Attended
  <2>12. Attended(life'[c], sock'[c], req'[c], app'[c], client'[c],
                  Place(c)', Report(c)', Frame(c)')
    BY <1>1, <1>3, <1>14, <2>4, <2>6, <2>11 DEF k, a
  <2> QED
    BY <1>1, <1>14, <2>4, <2>5, <2>6, <2>12, AttendedStep DEF events
<1>15. CASE TerminateConnection(c) /\ UNCHANGED <<app, client>>
  BY <1>1, <1>15, AttendedTerminate DEF events
<1> QED
  BY <1>10, <1>12, <1>13, <1>14, <1>15
-----------------------------------------------------------------------------
(* The application.                                                        *)

\* Whoever acts holds a request whose callback runs or was deferred.
LEMMA ActingAttended ==
  ASSUME IInv, AllAttended, NEW c \in Conn, Acting(c)
  PROVE  /\ life[c] = "open" /\ req[c].state = "NOP"
         /\ cur = c \/ pc \in {"loop", "accept"}
         /\ Place(c) \in {"callback", "away"} /\ batch = {}
         /\ app[c].held # "body" => Frame(c) = "none"
         /\ req[c] \in Request /\ sock[c] \in Socket /\ client[c] \in Client
         /\ Attended("open", sock[c], req[c], app[c], client[c],
                     Place(c), Report(c), Frame(c))
<1>1. /\ c \in Open /\ batch = {} /\ req[c].state = "NOP"
      /\ pc \in {"callback", "loop"} /\ (pc = "callback" => cur = c)
      /\ inject # NoConn => inject = c /\ app[c].held = "body"
  BY ActingFacts
<1>2. Place(c) \in {"callback", "away"}
  BY <1>1 DEF Place
<1>3. app[c].held # "body" => Frame(c) = "none"
  BY <1>1, ServerAssumption DEF Frame
<1> QED
  BY <1>1, <1>2, <1>3 DEF Open, AllAttended, IInv, ConnsInv

\* It answers, or sends the next chunk or the end of an answer.
LEMMA AttendedAnswer ==
  ASSUME IInv, IInv', AllAttended, NEW c \in Conn, Acting(c),
         app[c].held \in Complete \cup {"notify"}, NEW n \in Nat,
         NEW q \in {Respond(req[c], n), RespondChunk(req[c], n),
                    RespondChunkEnd(req[c], n)},
         BeginWrite(c, q, sock[c]), app'[c].held = "none",
         \A d \in Conn \ {c} : app'[d] = app[d],
         UNCHANGED <<life, client, events>>
  PROVE  AllAttended'
<1> DEFINE p == Place(c)
           k == client'[c]
           r == req[c]
           s == sock[c]
<1>1. /\ r \in Request /\ s \in Socket /\ life[c] = "open"
      /\ cur = c \/ pc \in {"loop", "accept"}
      /\ p # "parse" /\ k = client[c]
      /\ Attended("open", s, r, app[c], k, p, Report(c), Frame(c))
  BY ActingAttended
<1>2. Within(s, r, k, p) /\ Carried(s, r, k) /\ r.pst \in Parsed
  BY <1>1 DEF Attended, Placed
<1>3. q.state = "WRITE" /\ q.pending = <<>> /\ q.pst = r.pst /\ q.gap = r.gap
  BY <1>1, RespondLeaves
<1>4. Stepping(c) /\ life'[c] = "open"
  BY <1>1 DEF Stepping, events
<1> HIDE DEF p, r, s, k
<1> QED
  BY <1>1, <1>2, <1>3, <1>4, AttendedBeginWrite DEF k, r, s

\* It asks for the next piece of the body.
LEMMA AttendedReadChunk ==
  ASSUME IInv, IInv', AllAttended, NEW c \in Conn, AppReadChunk(c)
  PROVE  AllAttended'
<1> DEFINE r == [req[c] EXCEPT !.cb = "body"]
           p == Place(c)
<1>1. /\ Acting(c) /\ app[c].held = "body"
      /\ app' = [app EXCEPT ![c].held = "none"]
      /\ BeginRead(c, r, sock[c], memused)
      /\ UNCHANGED <<life, client, events>>
  BY DEF AppReadChunk
<1>2. /\ req[c] \in Request /\ sock[c] \in Socket /\ life[c] = "open"
      /\ client[c] \in Client /\ req[c].state = "NOP"
      /\ cur = c \/ pc \in {"loop", "accept"}
      /\ p \in {"callback", "away"}
      /\ Attended("open", sock[c], req[c], app[c], client[c], p,
                  Report(c), Frame(c))
  BY <1>1, ActingAttended
<1> HIDE DEF p
<1>3. Begins(sock[c], req[c], client[c], Frame(c))
  BY <1>1, <1>2, ReadsOnFrom
<1>4. /\ r \in Request /\ r.cap = req[c].cap /\ r.len = req[c].len
      /\ r.pending = req[c].pending /\ r.pst = req[c].pst
      /\ r.gap = req[c].gap
  BY <1>2 DEF Request
<1> HIDE DEF r
<1>5. Begins(sock[c], r, client'[c], Frame(c))
  BY <1>1, <1>3, <1>4 DEF Begins, HasBuffer, Carried
<1>6. /\ app'[c].held = "none" /\ \A d \in Conn \ {c} : app'[d] = app[d]
  BY <1>1 DEF IInv, ConnsInv, App
<1>7. Stepping(c) /\ life'[c] = "open"
  BY <1>1, <1>2, <1>6 DEF Stepping, events
<1> QED
  BY <1>1, <1>2, <1>4, <1>5, <1>6, <1>7, AttendedBeginRead

\* Its callback returns without having answered.
LEMMA AttendedDefer ==
  ASSUME IInv, IInv', AllAttended, NEW c \in Conn, AppDefer(c)
  PROVE  AllAttended'
<1>1. /\ pc = "callback" /\ cur = c /\ Return
      /\ UNCHANGED <<conns, server, events, fault>>
  BY DEF AppDefer
<1>2. /\ Place(c) = "callback" /\ c \in Open /\ batch = {}
  BY <1>1, Places DEF IInv, ProcInv
<1>3. Attended("open", sock[c], req[c], app[c], client[c], "callback",
               Report(c), Frame(c))
  BY <1>2 DEF Open, AllAttended
<1>4. \/ Place(c)' = "away" /\ pc' \in {"loop", "accept"}
      \/ Place(c)' = "inject" /\ cur' = c
  BY <1>1, Places
<1>5. Frame(c)' = Frame(c) /\ Report(c)' = Report(c)
  BY <1>1 DEF Return, Frame, Report, events
<1>6. Within(sock[c], req[c], client[c], Place(c)')
  BY <1>3, <1>4 DEF Attended, Within, Extra
<1>7. Told(sock[c], req[c], Place(c)', Report(c), Frame(c))
  BY <1>3, <1>4 DEF Attended, Told
<1>8. Attended(life'[c], sock'[c], req'[c], app'[c], client'[c],
               Place(c)', Report(c)', Frame(c)')
  BY <1>1, <1>2, <1>3, <1>5, <1>6, <1>7 DEF Attended, Open, conns
<1> QED
  BY <1>1, <1>4, <1>8, AttendedStep DEF conns, events

\* It decides about the connection, or frees the buffer.
LEMMA AttendedAdjust ==
  ASSUME IInv, AllAttended, NEW c \in Conn,
         AppSetConnection(c) \/ AppFreeBuffer(c)
  PROVE  AllAttended'
<1>1. /\ Acting(c) /\ app[c].held \in Complete
      /\ UNCHANGED <<life, sock, app, client, process, events>>
  BY DEF AppSetConnection, AppFreeBuffer
<1>2. /\ req[c] \in Request /\ life[c] = "open" /\ req[c].state = "NOP"
      /\ sock[c] \in Socket /\ client[c] \in Client
      /\ Place(c) \in {"callback", "away"}
      /\ Attended("open", sock[c], req[c], app[c], client[c], Place(c),
                  Report(c), Frame(c))
  BY <1>1, ActingAttended
<1>3. PICK q : /\ req' = [req EXCEPT ![c] = q]
               /\ q.state = "NOP" /\ q.pst = req[c].pst /\ q.gap = req[c].gap
               /\ \/ /\ q.pending = req[c].pending /\ q.cap = req[c].cap
                     /\ q.len = req[c].len
                  \/ q.pending = <<>> /\ q.cap = 0 /\ q.len = 0
  <2>1. CASE AppSetConnection(c)
    <3>1. PICK d \in {"keep", "close"} :
            req' = [req EXCEPT ![c] = SetKeepAlive(req[c], d)]
      BY <2>1 DEF AppSetConnection
    <3> DEFINE q == SetKeepAlive(req[c], d)
    <3>2. /\ q.state = "NOP" /\ q.pst = req[c].pst /\ q.gap = req[c].gap
          /\ q.pending = req[c].pending /\ q.cap = req[c].cap
          /\ q.len = req[c].len
      BY <1>2 DEF SetKeepAlive, Request
    <3> HIDE DEF q
    <3> QED
      BY <3>1, <3>2 DEF q
  <2>2. CASE AppFreeBuffer(c)
    <3>1. req' = [req EXCEPT ![c] = BufferFree(req[c])]
      BY <2>2 DEF AppFreeBuffer
    <3> DEFINE q == BufferFree(req[c])
    <3>2. /\ q.state = "NOP" /\ q.pst = req[c].pst /\ q.gap = req[c].gap
          /\ q.pending = <<>> /\ q.cap = 0 /\ q.len = 0
      BY <1>2 DEF BufferFree, Request
    <3> HIDE DEF q
    <3> QED
      BY <3>1, <3>2 DEF q
  <2> QED
    BY <1>1, <2>1, <2>2 DEF AppSetConnection, AppFreeBuffer
<1> DEFINE s == sock[c]
           r == req[c]
           k == client[c]
           p == Place(c)
<1>4. /\ Within(s, r, k, p) /\ Carried(s, r, k) /\ r.pst \in Parsed
      /\ Placed(r, app[c], Frame(c)) /\ Told(s, r, p, Report(c), Frame(c))
  BY <1>1, <1>2 DEF Attended, Placed
<1>5. s.rx = <<>>
  BY <1>4 DEF Carried
<1>6. /\ r \in Request /\ s \in Socket /\ k \in Client /\ r.state = "NOP"
      /\ p \in {"callback", "away"}
  BY <1>2
<1> HIDE DEF s, r, k, p
<1>7. Within(s, q, k, p)
  <2>1. /\ Budget(k) \in Nat /\ r.gap \in Nat /\ Len(r.pending) \in Nat
        /\ Len(s.rx) \in Nat /\ Len(r.pending) + Len(s.rx) <= Budget(k)
        /\ r.pst # "done" =>
             r.gap + Len(r.pending) + Len(s.rx) <= Budget(k)
    BY <1>4, <1>6, WithinGives
  <2>2. CASE q.pending = r.pending /\ q.cap = r.cap /\ q.len = r.len
    BY <1>3, <1>4, <1>6, <2>2 DEF Within, r
  <2>3. CASE q.pending = <<>> /\ q.cap = 0 /\ q.len = 0
    <3>1. Len(q.pending) = 0 /\ Len(s.rx) = 0 /\ 0 < MaxCap /\ q.gap = r.gap
          /\ q.pst = r.pst
      BY <1>3, <1>5, <2>3, ConnectionAssumption DEF r
    <3>2. /\ Len(q.pending) + Len(s.rx) <= Budget(k)
          /\ q.pst # "done" =>
               q.gap + Len(q.pending) + Len(s.rx) <= Budget(k)
          /\ q.cap < MaxCap /\ q.len + Len(s.rx) <= Budget(k)
      BY <2>1, <2>3, <3>1
    <3>3. /\ s.rx \in Seq(Fragment) /\ q.pending \in Seq(Fragment)
          /\ q.gap \in Nat
      BY <1>5, <2>1, <2>3, <3>1, EmptySeq
    <3> QED
      BY <1>6, <3>2, <3>3, WithinFrom
  <2> QED
    BY <1>3, <2>2, <2>3 DEF r
<1>8. Carried(s, q, k)
  BY <1>3, <1>4 DEF Carried, r
<1>9. Placed(q, app[c], Frame(c))
  BY <1>1, <1>3, <1>4 DEF Placed, Complete, r
<1>10. Told(s, q, p, Report(c), Frame(c))
  <2>1. q.pending = <<>> \/ q.pending = r.pending
    BY <1>3 DEF r
  <2> QED
    BY <1>3, <1>4, <1>6, <2>1 DEF Told
<1>11. Attended("open", s, q, app[c], k, p, Report(c), Frame(c))
  BY <1>7, <1>8, <1>9, <1>10 DEF Attended
<1>12. req'[c] = q /\ \A d \in Conn \ {c} : req'[d] = req[d]
  BY <1>3 DEF IInv, ConnsInv
<1> QED
  BY <1>1, <1>2, <1>11, <1>12, AttendedOutside DEF events, s, k, p

\* Everything the application does.
LEMMA AttendedApplication ==
  ASSUME IInv, IInv', AllAttended, NEW c \in Conn, Application(c)
  PROVE  AllAttended'
<1>1. app \in [Conn -> App] /\ \A n \in OutLens : n \in Nat
  BY ServerAssumption DEF IInv, ConnsInv
<1>2. \A h, x : /\ [app EXCEPT ![c].held = h][c].held = h
                /\ [app EXCEPT ![c] = [held |-> h, chunks |-> x]][c].held = h
  BY <1>1 DEF App
<1>3. CASE AppRespond(c)
  <2>1. PICK n \in OutLens : BeginWrite(c, Respond(req[c], n), sock[c])
    BY <1>3 DEF AppRespond
  <2>2. /\ Acting(c) /\ app[c].held \in Complete \cup {"notify"}
        /\ app' = [app EXCEPT ![c].held = "none"]
        /\ UNCHANGED <<life, client, events>>
    BY <1>3 DEF AppRespond
  <2>3. app'[c].held = "none" /\ \A d \in Conn \ {c} : app'[d] = app[d]
    BY <1>1, <1>2, <2>2
  <2> QED
    BY <1>1, <2>1, <2>2, <2>3, AttendedAnswer
<1>4. CASE AppRespondChunk(c)
  <2>1. PICK n \in OutLens : BeginWrite(c, RespondChunk(req[c], n), sock[c])
    BY <1>4 DEF AppRespondChunk
  <2>2. /\ Acting(c) /\ app[c].held \in Complete \cup {"notify"}
        /\ app' = [app EXCEPT ![c] =
                     [held |-> "none", chunks |-> app[c].chunks + 1]]
        /\ UNCHANGED <<life, client, events>>
    BY <1>4 DEF AppRespondChunk
  <2>3. app'[c].held = "none" /\ \A d \in Conn \ {c} : app'[d] = app[d]
    BY <1>1, <1>2, <2>2
  <2> QED
    BY <1>1, <2>1, <2>2, <2>3, AttendedAnswer
<1>5. CASE AppRespondChunkEnd(c)
  <2>1. PICK n \in OutLens : BeginWrite(c, RespondChunkEnd(req[c], n), sock[c])
    BY <1>5 DEF AppRespondChunkEnd
  <2>2. /\ Acting(c) /\ app[c].held \in Complete \cup {"notify"}
        /\ app' = [app EXCEPT ![c] = [held |-> "none", chunks |-> 0]]
        /\ UNCHANGED <<life, client, events>>
    BY <1>5 DEF AppRespondChunkEnd
  <2>3. app'[c].held = "none" /\ \A d \in Conn \ {c} : app'[d] = app[d]
    BY <1>1, <1>2, <2>2
  <2> QED
    BY <1>1, <2>1, <2>2, <2>3, AttendedAnswer
<1> QED
  BY <1>3, <1>4, <1>5, AttendedReadChunk, AttendedDefer, AttendedAdjust
  DEF Application
-----------------------------------------------------------------------------
(* Clients, the network and the clock.                                     *)

\* What is sent to the other end of a socket waits there, or it is new to
\* the connection and reported.
LEMMA SentCarried ==
  ASSUME Fluent, NEW r \in Request, NEW s \in Socket, NEW k \in Client,
         Carried(s, r, k), NEW f \in MaySend(k.at),
         NEW x, x = IF f = "zero" /\ "split" \notin Faults
                    THEN <<"zero", "tail">> ELSE <<f>>,
         NEW t, t.rx = s.rx \o x, NEW m, m.at = AfterSend(k.at, f)
  PROVE  /\ Carried(t, r, m) /\ r.pst \notin Parsed
         /\ x \in Seq(Fragment) /\ Len(x) \in Nat /\ Len(x) <= 2
<1>1. r.pst \notin Parsed
  BY DEF Carried, MaySend
<1>2. /\ r.pending \in Seq(Fragment) /\ s.rx \in Seq(Fragment)
      /\ r.pending \o s.rx \in Seq(Fragment)
      /\ InTransit(r.pending \o s.rx, r.pst, k.at)
  BY <1>1, Joined DEF Carried, Request, Socket
<1>3. /\ InTransit((r.pending \o s.rx) \o x, r.pst, m.at)
      /\ x \in Seq(Fragment)
  BY <1>2, TransitGrows
<1>4. (r.pending \o s.rx) \o x = r.pending \o (s.rx \o x)
  <2> DEFINE p == r.pending
             y == s.rx
  <2>1. p \in Seq(Fragment) /\ y \in Seq(Fragment) /\ x \in Seq(Fragment)
    BY <1>2, <1>3
  <2> HIDE DEF p, y
  <2>2. (p \o y) \o x = p \o (y \o x)
    BY <2>1, Associative, Zenon
  <2> QED
    BY <2>2 DEF p, y
<1>5. Len(x) \in Nat /\ Len(x) <= 2
  BY <1>3
<1> QED
  BY <1>1, <1>3, <1>4, <1>5 DEF Carried

\* A client sends the next segment of its request.
LEMMA AttendedClientSend ==
  ASSUME Fluent, IInv, AllAttended, NEW c \in Conn, NEW f \in Fragment,
         ClientSend(c, f)
  PROVE  AllAttended'
<1> DEFINE x == IF f = "zero" /\ "split" \notin Faults
                THEN <<"zero", "tail">> ELSE <<f>>
           t == Arrival(sock[c], x)
           m == client'[c]
           k == client[c]
           s == sock[c]
           r == req[c]
           p == Place(c)
<1>1. /\ life[c] # "freed" /\ f \in MaySend(k.at) /\ k.sent < MaxFragments
      /\ sock' = [sock EXCEPT ![c] = t]
      /\ UNCHANGED <<life, req, app, process, events>>
  BY DEF ClientSend, Connected
<1>2. /\ k \in Client /\ s \in Socket /\ r \in Request
      /\ Attended(life[c], s, r, app[c], k, p, Report(c), Frame(c))
  BY DEF IInv, ConnsInv, AllAttended
<1>3. /\ m.at = AfterSend(k.at, f) /\ m.sent = k.sent + 1
      /\ \A d \in Conn \ {c} : client'[d] = client[d]
  BY DEF ClientSend, IInv, ConnsInv
<1>4. /\ t.rx = s.rx \o x /\ t.peer = s.peer /\ t.space = s.space
      /\ t.interest = s.interest
      /\ t.ready = (s.ready \/ s.interest = "in")
  BY <1>2 DEF Arrival, Socket
<1>5. /\ sock'[c] = t /\ \A d \in Conn \ {c} : sock'[d] = sock[d]
  BY <1>1 DEF IInv, ConnsInv
<1> HIDE DEF t, m, k, s, r, p
<1>6. Carried(s, r, k)
  BY <1>1, <1>2 DEF Attended
<1>7. /\ Carried(t, r, m) /\ r.pst \notin Parsed
      /\ x \in Seq(Fragment) /\ Len(x) \in Nat /\ Len(x) <= 2
  <2>1. x = IF f = "zero" /\ "split" \notin Faults
            THEN <<"zero", "tail">> ELSE <<f>>
    OBVIOUS
  <2> HIDE DEF x
  <2>2. /\ r \in Request /\ s \in Socket /\ k \in Client
        /\ f \in MaySend(k.at)
    BY <1>1, <1>2
  <2>3. t.rx = s.rx \o x /\ m.at = AfterSend(k.at, f)
    BY <1>3, <1>4
  <2> QED
    BY <1>6, <2>1, <2>2, <2>3, SentCarried
<1> HIDE DEF x
<1>8. Within(t, r, m, p)
  <2>1. /\ Len(t.rx) = Len(s.rx) + Len(x) /\ Len(s.rx) \in Nat
        /\ Len(x) \in Nat /\ Len(x) <= 2 /\ Len(r.pending) \in Nat
        /\ r.gap \in Nat /\ r.len \in Nat /\ Extra(p) \in Nat
    <3>1. s.rx \in Seq(Fragment)
      BY <1>2 DEF Socket
    <3>2. Len(t.rx) = Len(s.rx) + Len(x)
      BY <1>4, <1>7, <3>1, Joined
    <3>3. r.pending \in Seq(Fragment) /\ r.gap \in Nat /\ r.len \in Nat
      BY <1>2, ConnectionAssumption DEF Request
    <3>4. Extra(p) \in Nat
      BY DEF Extra
    <3>5. \A y \in Seq(Fragment) : Len(y) \in Nat
      OBVIOUS
    <3>6. Len(x) \in Nat /\ Len(x) <= 2
      BY <1>7
    <3>7. Len(s.rx) \in Nat /\ Len(r.pending) \in Nat
      BY <3>1, <3>3, <3>5
    <3> QED
      BY <3>2, <3>3, <3>4, <3>6, <3>7
  <2>2. Budget(k) \in Nat /\ Budget(m) = Budget(k) + 2
    BY <1>2, <1>3, ServerAssumption DEF Budget, Client
  <2>3. Within(s, r, k, p)
    BY <1>2 DEF Attended
  <2> DEFINE lp == Len(r.pending)
             ls == Len(s.rx)
             lt == Len(t.rx)
             lx == Len(x)
             g  == r.gap
             u  == r.len
             e  == Extra(p)
             B  == Budget(k)
             C  == Budget(m)
  <2>4. /\ lp + ls <= B
        /\ r.pst # "done" => g + lp + ls <= B + e
        /\ r.state # "WRITE" => u + ls <= B
    BY <2>3 DEF Within
  <2>8. /\ lp \in Nat /\ ls \in Nat /\ lx \in Nat /\ g \in Nat /\ u \in Nat
        /\ e \in Nat /\ B \in Nat /\ lt = ls + lx /\ lx <= 2 /\ C = B + 2
    BY <2>1, <2>2
  <2>9. /\ lp + lt <= C
        /\ r.pst # "done" => g + lp + lt <= C + e
        /\ r.state # "WRITE" => u + lt <= C
    <3> HIDE DEF lp, ls, lt, lx, g, u, e, B, C
    <3>1. lp + lt <= C
      BY <2>4, <2>8
    <3>2. r.pst # "done" => g + lp + lt <= C + e
      BY <2>4, <2>8
    <3>3. r.state # "WRITE" => u + lt <= C
      BY <2>4, <2>8
    <3> QED
      BY <3>1, <3>2, <3>3
  <2>5. Len(r.pending) + Len(t.rx) <= Budget(m)
    BY <2>9
  <2>6. r.pst # "done" =>
          r.gap + Len(r.pending) + Len(t.rx) <= Budget(m) + Extra(p)
    BY <2>9
  <2>7. r.state # "WRITE" => r.len + Len(t.rx) <= Budget(m)
    BY <2>9
  <2> QED
    BY <2>3, <2>5, <2>6, <2>7 DEF Within
<1>9. ASSUME life[c] = "open"
      PROVE  Placed(r, app[c], Frame(c))
             /\ Told(t, r, p, Report(c), Frame(c))
  <2>1. /\ Placed(r, app[c], Frame(c))
        /\ Told(s, r, p, Report(c), Frame(c))
    BY <1>2, <1>9 DEF Attended
  <2> QED
    BY <1>4, <2>1 DEF Told
<1>10. life[c] \in {"new", "backlog"} => r = RequestInit
  BY <1>2 DEF Attended
<1>11. Attended(life[c], t, r, app[c], m, p, Report(c), Frame(c))
  BY <1>7, <1>8, <1>9, <1>10 DEF Attended
<1> QED
  BY <1>1, <1>3, <1>5, <1>11, AttendedOutside DEF events, m, r, p

\* What only concerns the socket, and loses nothing of what it would tell.
LEMMA AttendedSocket ==
  ASSUME IInv, AllAttended, NEW c \in Conn, NEW t,
         sock' = [sock EXCEPT ![c] = t], t.rx = sock[c].rx,
         t.interest = sock[c].interest,
         t.ready \/ t.ready = sock[c].ready,
         t.peer = "up" => sock[c].peer = "up",
         t.ready \/ t.space = sock[c].space \/ sock[c].interest # "out"
           \/ sock[c].space # 0,
         UNCHANGED <<life, req, app, client, process, batch>>
  PROVE  AllAttended'
<1>1. /\ sock'[c] = t /\ \A d \in Conn \ {c} : sock'[d] = sock[d]
  BY DEF IInv, ConnsInv
<1>2. Attended(life[c], sock[c], req[c], app[c], client[c],
               Place(c), Report(c), Frame(c))
  BY DEF AllAttended
<1>3. sock[c].ready \in BOOLEAN
  BY DEF IInv, ConnsInv, Socket
<1>4. Within(t, req[c], client[c], Place(c))
  BY <1>2 DEF Attended, Within
<1>5. life[c] # "freed" => Carried(t, req[c], client[c])
  BY <1>2 DEF Attended, Carried
<1>6. ASSUME life[c] = "open"
      PROVE  Told(t, req[c], Place(c), Report(c), Frame(c))
  <2>1. Told(sock[c], req[c], Place(c), Report(c), Frame(c))
    BY <1>2, <1>6 DEF Attended
  <2> QED
    BY <1>3, <2>1 DEF Told
<1>7. Attended(life[c], t, req[c], app[c], client[c],
               Place(c), Report(c), Frame(c))
  BY <1>2, <1>4, <1>5, <1>6 DEF Attended
<1> QED
  BY <1>1, <1>7, AttendedOutside

\* Everything clients, the network and the clock do.
LEMMA AttendedEnvironment ==
  ASSUME Fluent, IInv, AllAttended, NEW c \in Conn, Environment(c)
  PROVE  AllAttended'
<1>1. sock[c] \in Socket
  BY DEF IInv, ConnsInv
<1>2. CASE Connect(c)
  <2>1. /\ life[c] = "new" /\ life' = [life EXCEPT ![c] = "backlog"]
        /\ UNCHANGED <<sock, req, app, client, process, batch>>
    BY <1>2 DEF Connect
  <2>2. /\ life'[c] = "backlog" /\ \A d \in Conn \ {c} : life'[d] = life[d]
    BY <2>1 DEF IInv, ConnsInv
  <2>3. Attended("new", sock[c], req[c], app[c], client[c],
                 Place(c), Report(c), Frame(c))
    BY <2>1 DEF AllAttended
  <2>4. Attended("backlog", sock[c], req[c], app[c], client[c],
                 Place(c), Report(c), Frame(c))
    BY <2>3 DEF Attended
  <2> QED
    BY <2>1, <2>2, <2>4, AttendedOutside
<1>3. ASSUME NEW f \in Fragment, ClientSend(c, f) PROVE AllAttended'
  BY <1>3, AttendedClientSend
<1>4. CASE ClientCloses(c)
  <2> DEFINE t == HalfClose(sock[c])
  <2>1. /\ t.rx = sock[c].rx /\ t.interest = sock[c].interest
        /\ t.ready \/ t.ready = sock[c].ready
        /\ t.peer = "fin" /\ t.space = sock[c].space
    BY <1>1 DEF HalfClose, Socket
  <2>2. /\ sock' = [sock EXCEPT ![c] = t]
        /\ UNCHANGED <<life, req, app, client, process, batch>>
    BY <1>4 DEF ClientCloses, events
  <2> HIDE DEF t
  <2> QED
    BY <2>1, <2>2, AttendedSocket
<1>5. CASE ClientResets(c)
  <2> DEFINE t == Reset(sock[c])
  <2>1. /\ t.rx = sock[c].rx /\ t.interest = sock[c].interest
        /\ t.ready \/ t.ready = sock[c].ready
        /\ t.peer = "rst" /\ t.space = sock[c].space
    BY <1>1 DEF Reset, Socket
  <2>2. /\ sock' = [sock EXCEPT ![c] = t]
        /\ UNCHANGED <<life, req, app, client, process, batch>>
    BY <1>5 DEF ClientResets, events
  <2> HIDE DEF t
  <2> QED
    BY <2>1, <2>2, AttendedSocket
<1>6. CASE Drain(c)
  <2> DEFINE t == Drained(sock[c])
  <2>1. /\ t.rx = sock[c].rx /\ t.interest = sock[c].interest
        /\ t.ready \/ t.ready = sock[c].ready
        /\ t.peer = sock[c].peer
        /\ t.ready \/ sock[c].interest # "out" \/ sock[c].space # 0
    BY <1>1 DEF Drained, Socket
  <2>2. /\ sock' = [sock EXCEPT ![c] = t]
        /\ UNCHANGED <<life, req, app, client, process, batch>>
    BY <1>6 DEF Drain, events
  <2> HIDE DEF t
  <2> QED
    BY <2>1, <2>2, AttendedSocket
<1>7. CASE TimerExpires(c)
  <2> DEFINE t == Expired(sock[c])
  <2>1. /\ t.rx = sock[c].rx /\ t.interest = sock[c].interest
        /\ t.ready = sock[c].ready
        /\ t.peer = sock[c].peer /\ t.space = sock[c].space
    BY <1>1 DEF Expired, Socket
  <2>2. /\ sock' = [sock EXCEPT ![c] = t]
        /\ UNCHANGED <<life, req, app, client, process, batch>>
    BY <1>7 DEF TimerExpires, events
  <2> HIDE DEF t
  <2> QED
    BY <2>1, <2>2, AttendedSocket
<1> QED
  BY <1>2, <1>3, <1>4, <1>5, <1>6, <1>7 DEF Environment

-----------------------------------------------------------------------------
(* The theorem.                                                            *)

\* The invariant gives the property.  A process that waits has nothing in its
\* hands, and no event; so what it reads is empty, and then the client has
\* not sent all of its request.
LEMMA AttendedSuffices ==
  ASSUME IInv, AllAttended
  PROVE  NoLostWakeup
<1> SUFFICES ASSUME Idle, NEW c \in Open, ~sock[c].ready, sock[c].peer = "up"
             PROVE  CASE req[c].state = "NOP"   -> app[c].held # "none"
                      [] req[c].state = "WRITE" -> sock[c].space = 0
                      [] OTHER                  -> client[c].at # "await"
  BY DEF NoLostWakeup
<1>1. /\ c \in Conn /\ life[c] = "open" /\ inject = NoConn
  BY DEF Open, Idle, IInv, ProcInv
<1>2. Place(c) = "away" /\ Report(c) = "none" /\ Frame(c) = "none"
  BY <1>1, ServerAssumption DEF Idle, Place, Report, Frame
<1>3. /\ Carried(sock[c], req[c], client[c])
      /\ Placed(req[c], app[c], "none")
      /\ Told(sock[c], req[c], "away", "none", "none")
  BY <1>1, <1>2 DEF AllAttended, Attended
<1>4. CASE req[c].state = "READ"
  <2>1. /\ req[c].pending = <<>> /\ sock[c].rx = <<>>
        /\ req[c].pst \notin Parsed
    BY <1>3, <1>4 DEF Told, Placed, Parsed
  <2>2. InTransit(<<>>, req[c].pst, client[c].at)
    <3>1. <<>> \o <<>> = <<>>
      BY EmptySeq
    <3> QED
      BY <1>3, <2>1, <3>1 DEF Carried
  <2>3. client[c].at # "await"
    BY <2>2 DEF InTransit
  <2> QED
    BY <1>4, <2>3
<1>5. CASE req[c].state = "WRITE"
  BY <1>3, <1>5 DEF Told
<1>6. CASE req[c].state = "NOP"
  BY <1>3, <1>6 DEF Placed
<1> QED
  BY <1>3, <1>4, <1>5, <1>6 DEF Placed

\* The invariant is inductive, relative to IInv.
LEMMA AttendedInductive ==
  ASSUME Fluent
  PROVE  IInv /\ AllAttended /\ [Next]_vars => AllAttended'
<1> SUFFICES ASSUME IInv, AllAttended, [Next]_vars PROVE AllAttended'
  OBVIOUS
<1>0. IInv'
  BY Inductive
<1>1. CASE UNCHANGED vars
  BY <1>1, AttendedStuttering
<1>2. CASE Finished
  BY <1>2, AttendedStuttering DEF Finished
<1>3. ASSUME NEW taken \in SUBSET Event, EpollWait(taken) PROVE AllAttended'
  BY <1>3, AttendedEpollWait
<1>4. CASE OnListen \/ AcceptFails
  BY <1>4, AttendedListening
<1>5. ASSUME NEW c \in Conn, Handler(c) PROVE AllAttended'
  BY <1>0, <1>5, AttendedOnReadable, AttendedDispatched, AttendedOnTimer,
     AttendedAcceptConnection, AttendedReadData, AttendedReadNothing,
     AttendedParseAndCall, AttendedInjectEnd, AttendedWriteSocket
  DEF Handler
<1>6. ASSUME NEW c \in Conn, Application(c) PROVE AllAttended'
  BY <1>0, <1>6, AttendedApplication
<1>7. ASSUME NEW c \in Conn, Environment(c) PROVE AllAttended'
  BY <1>7, AttendedEnvironment
<1> QED
  BY <1>1, <1>2, <1>3, <1>4, <1>5, <1>6, <1>7 DEF Next

\* Whenever the process waits in epoll_wait with no event on its way for a
\* connection (edge-triggered, EPOLL_CTL_MOD in hs_add_read_event and
\* hs_add_write_event), the next move is the application's or the client's:
\* read_socket.c and write_socket.c leave nothing undone that no edge will
\* announce.  For well-formed requests that fit the buffer.
THEOREM WakeupsNeverLost ==
  ASSUME Fluent
  PROVE  Spec => []NoLostWakeup
<1>1. IInv /\ AllAttended /\ [Next]_vars => AllAttended'
  BY AttendedInductive
<1>2. IInv /\ AllAttended => NoLostWakeup
  BY AttendedSuffices
<1> QED
  BY <1>1, <1>2, AttendedInitially, Invariance, PTL DEF Spec
=============================================================================
