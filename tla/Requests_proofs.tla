-------------------------- MODULE Requests_proofs --------------------------
(***************************************************************************)
(* Proofs about requests that are read as a whole, for any set of them,    *)
(* any sizes of buffers and any way in which the bytes arrive: Modest says *)
(* which.                                                                  *)
(*                                                                         *)
(* First, where each byte of a request is (Layout).  Then, action by       *)
(* action and byte by byte, that the machine steps from one place of the   *)
(* request to the next, and finds its tokens there (PlaceStep).  Then that *)
(* every step of the program keeps RInv, and what follows from that.  Last,*)
(* what the application is told of a request and what is sent in answer.   *)
(***************************************************************************)
EXTENDS Requests, DataPath_proofs


\* Induction over the natural numbers, for a set of them.
LEMMA AllNumbers ==
  ASSUME NEW good, 0 \in good,
         \A n \in Nat : n \in good => n + 1 \in good
  PROVE  \A n \in Nat : n \in good
<1>1. ASSUME NEW k \in Nat, k \notin good
      PROVE  FALSE
  <2> DEFINE bad == {s \in SUBSET (1 .. k) : \E n \in 0 .. k : s = 1 .. n
                                                        /\ n \notin good}
  <2>1. bad \subseteq SUBSET (1 .. k)
    OBVIOUS
  <2>2. IsFiniteSet(1 .. k)
    BY FS_Interval
  <2>3. 1 .. k \in bad
    BY <1>1
  <2>4. PICK s : Smallest(s, bad, 1 .. k)
    <3> HIDE DEF bad
    <3> QED  BY <2>1, <2>2, <2>3, SmallestFailure
  <2>5. /\ s \in bad
        /\ \A t \in SUBSET (1 .. k) : t \subseteq s /\ t # s => t \notin bad
    <3> HIDE DEF bad
    <3> QED  BY <2>4 DEF Smallest
  <2>6. PICK n \in 0 .. k : s = 1 .. n /\ n \notin good
    BY <2>5
  <2>7. n # 0 /\ n - 1 \in Nat /\ n - 1 \in 0 .. k /\ (n - 1) + 1 = n
    BY <2>6
  <2>8. n - 1 \notin good
    BY <2>6, <2>7
  <2>9. /\ 1 .. (n - 1) \in SUBSET (1 .. k) /\ 1 .. (n - 1) \subseteq s
        /\ n \in s /\ n \notin 1 .. (n - 1)
    BY <2>6, <2>7
  <2>10. 1 .. (n - 1) \in bad
    BY <2>7, <2>8, <2>9
  <2> QED
    BY <2>5, <2>9, <2>10
<1> QED
  BY <1>1

-----------------------------------------------------------------------------
(* Sequences of bytes one after the other.                                 *)

\* f has what the first i sequences of ss are together, for i up to n.
Flattens(f, ss, n) ==
  f = [i \in 1 .. n |-> IF i = 1 THEN ss[i] ELSE f[i - 1] \o ss[i]]

\* There is such a function.
LEMMA FlattensExist ==
  ASSUME NEW ss, NEW n \in Nat
  PROVE  \E f : Flattens(f, ss, n)
<1> DEFINE good == {k \in Nat : \E f : Flattens(f, ss, k)}
<1>1. 0 \in good
  <2> DEFINE f == [i \in 1 .. 0 |-> 0]
  <2>1. f = [i \in 1 .. 0 |-> IF i = 1 THEN ss[i] ELSE f[i - 1] \o ss[i]]
    OBVIOUS
  <2> HIDE DEF f
  <2>2. Flattens(f, ss, 0)
    BY <2>1 DEF Flattens
  <2> QED
    BY <2>2
<1>2. ASSUME NEW k \in Nat, k \in good
      PROVE  k + 1 \in good
  <2>1. PICK g : Flattens(g, ss, k)
    BY <1>2
  <2>2. /\ DOMAIN g = 1 .. k
        /\ \A i \in 1 .. k : g[i] = IF i = 1 THEN ss[i] ELSE g[i - 1] \o ss[i]
    BY <2>1 DEF Flattens
  <2> DEFINE f == [i \in 1 .. (k + 1) |->
                     IF i \in 1 .. k THEN g[i]
                     ELSE IF i = 1 THEN ss[i] ELSE g[i - 1] \o ss[i]]
  <2>3. \A i \in 1 .. k : f[i] = g[i]
    OBVIOUS
  <2>4. ASSUME NEW i \in 1 .. (k + 1)
        PROVE  f[i] = IF i = 1 THEN ss[i] ELSE f[i - 1] \o ss[i]
    <3>1. i = 1 \/ i - 1 \in 1 .. k
      OBVIOUS
    <3>2. CASE i \in 1 .. k
      BY <2>2, <2>3, <3>1, <3>2
    <3>3. CASE i \notin 1 .. k
      <4>1. f[i] = IF i = 1 THEN ss[i] ELSE g[i - 1] \o ss[i]
        BY <3>3
      <4> HIDE DEF f
      <4> QED
        BY <2>3, <3>1, <4>1
    <3> QED
      BY <3>2, <3>3
  <2>5. f = [i \in 1 .. (k + 1) |-> f[i]]
    OBVIOUS
  <2> HIDE DEF f
  <2>6. Flattens(f, ss, k + 1)
    BY <2>4, <2>5 DEF Flattens
  <2> QED
    BY <2>6
<1>3. n \in good
  <2> HIDE DEF good
  <2> QED  BY <1>1, <1>2, AllNumbers
<1> QED
  BY <1>3

\* What UpTo has, and that Flat has the same.
LEMMA UpToIs ==
  ASSUME NEW S, NEW ss \in Seq(Seq(S))
  PROVE  /\ DOMAIN UpTo(ss) = 1 .. Len(ss)
         /\ \A i \in 1 .. Len(ss) :
              /\ UpTo(ss)[i] = IF i = 1 THEN ss[i] ELSE UpTo(ss)[i - 1] \o ss[i]
              /\ UpTo(ss)[i] \in Seq(S)
         /\ Flat(ss) = IF ss = <<>> THEN <<>> ELSE UpTo(ss)[Len(ss)]
<1> DEFINE u == UpTo(ss)
           n == Len(ss)
<1>1. n \in Nat /\ \A i \in 1 .. n : ss[i] \in Seq(S)
  OBVIOUS
<1>2. u = CHOOSE f : Flattens(f, ss, n)
  BY DEF UpTo, Flattens
<1>3. Flattens(u, ss, n)
  <2>1. \E f : Flattens(f, ss, n)
    BY <1>1, FlattensExist
  <2> HIDE DEF u, n
  <2> QED  BY <1>2, <2>1
<1> HIDE DEF u
<1>4. /\ DOMAIN u = 1 .. n
      /\ \A i \in 1 .. n : u[i] = IF i = 1 THEN ss[i] ELSE u[i - 1] \o ss[i]
  BY <1>3 DEF Flattens
<1>5. \A i \in 1 .. n : u[i] \in Seq(S)
  <2> DEFINE good == {k \in Nat : k \in 1 .. n => u[k] \in Seq(S)}
  <2>1. 0 \in good
    OBVIOUS
  <2>2. ASSUME NEW k \in Nat, k \in good
        PROVE  k + 1 \in good
    <3>1. SUFFICES ASSUME k + 1 \in 1 .. n
                   PROVE  u[k + 1] \in Seq(S)
      OBVIOUS
    <3>2. ss[k + 1] \in Seq(S)
      BY <1>1, <3>1
    <3>3. CASE k = 0
      <4>1. k + 1 = 1 /\ 1 \in 1 .. n
        BY <3>1, <3>3
      <4>2. u[1] = ss[1]
        BY <1>4, <4>1
      <4> QED
        BY <3>2, <4>1, <4>2
    <3>4. CASE k # 0
      <4>1. k \in 1 .. n /\ (k + 1) - 1 = k /\ k + 1 # 1
        BY <1>1, <3>1, <3>4
      <4>2. u[k] \in Seq(S)
        BY <2>2, <4>1
      <4>3. u[k + 1] = u[k] \o ss[k + 1]
        BY <1>4, <3>1, <4>1
      <4> QED
        BY <3>2, <4>2, <4>3
    <3> QED
      BY <3>3, <3>4
  <2>3. \A k \in Nat : k \in good
    <3> HIDE DEF good
    <3> QED  BY <2>1, <2>2, AllNumbers
  <2> QED
    BY <1>1, <2>3
<1>6. Flat(ss) = IF ss = <<>> THEN <<>> ELSE u[n]
  <2>1. Flat(ss) = IF Len(ss) = 0 THEN ss ELSE UpTo(ss)[Len(ss)]
    BY DEF Flat, FlattenSeq, UpTo
  <2>2. ss = <<>> <=> Len(ss) = 0
    OBVIOUS
  <2> QED
    BY <2>1, <2>2 DEF u, n
<1> QED
  BY <1>4, <1>5, <1>6 DEF u

\* Each of them is a beginning of those after it.
LEMMA UpToGrows ==
  ASSUME NEW S, NEW ss \in Seq(Seq(S)), NEW i \in 1 .. Len(ss),
         NEW j \in i .. Len(ss)
  PROVE  /\ Len(UpTo(ss)[i]) <= Len(UpTo(ss)[j])
         /\ \A k \in 1 .. Len(UpTo(ss)[i]) : UpTo(ss)[j][k] = UpTo(ss)[i][k]
<1> DEFINE u == UpTo(ss)
           n == Len(ss)
           ok(m) == /\ Len(u[i]) <= Len(u[m])
                    /\ \A k \in 1 .. Len(u[i]) : u[m][k] = u[i][k]
           good == {d \in Nat : i + d <= n => ok(i + d)}
<1>1. /\ n \in Nat /\ i \in Nat /\ 1 <= i /\ i <= n /\ j \in Nat
      /\ \A m \in 1 .. n : ss[m] \in Seq(S)
  OBVIOUS
<1>2. \A m \in 1 .. n : u[m] \in Seq(S) /\ Len(u[m]) \in Nat
  <2>1. \A m \in 1 .. n : u[m] \in Seq(S)
    BY UpToIs
  <2> QED
    BY <2>1
<1>3. 0 \in good
  BY <1>1, <1>2
<1>4. ASSUME NEW d \in Nat, d \in good
      PROVE  d + 1 \in good
  <2>1. SUFFICES ASSUME i + (d + 1) <= n
                 PROVE  ok(i + (d + 1))
    OBVIOUS
  <2> DEFINE m == i + d
  <2>2. m \in 1 .. n /\ m + 1 \in 1 .. n /\ m + 1 # 1 /\ (m + 1) - 1 = m
        /\ i + (d + 1) = m + 1
    BY <1>1, <2>1
  <2>3. ok(m)
    BY <1>4, <2>2
  <2> HIDE DEF m
  <2>4. u[m + 1] = u[m] \o ss[m + 1]
    BY <2>2, UpToIs
  <2> HIDE DEF u
  <2>5. /\ Len(u[m + 1]) = Len(u[m]) + Len(ss[m + 1])
        /\ \A k \in 1 .. Len(u[m]) : u[m + 1][k] = u[m][k]
    <3>1. u[m] \in Seq(S) /\ ss[m + 1] \in Seq(S)
      BY <1>1, <1>2, <2>2
    <3> DEFINE x == u[m]
               y == ss[m + 1]
    <3>2. /\ Len(x \o y) = Len(x) + Len(y)
          /\ \A k \in 1 .. Len(x) : (x \o y)[k] = x[k]
      <4> HIDE DEF x, y
      <4>1. x \in Seq(S) /\ y \in Seq(S)
        BY <3>1 DEF x, y
      <4> QED
        BY <4>1
    <3> QED
      BY <2>4, <3>2
  <2>6. Len(ss[m + 1]) \in Nat /\ Len(u[m]) \in Nat /\ Len(u[i]) \in Nat
    BY <1>1, <1>2, <2>2
  <2>7. ok(m + 1)
    <3>1. Len(u[i]) <= Len(u[m + 1])
      <4>1. \A a, b, c \in Nat : a <= b => a <= b + c
        OBVIOUS
      <4> QED
        BY <2>3, <2>5, <2>6, <4>1, Zenon
    <3>2. \A k \in 1 .. Len(u[i]) : k \in 1 .. Len(u[m])
      BY <2>3, <2>6
    <3> QED
      BY <2>3, <2>5, <3>1, <3>2
  <2> QED
    BY <2>2, <2>7
<1>5. \A d \in Nat : d \in good
  <2> HIDE DEF good
  <2> QED  BY <1>3, <1>4, AllNumbers
<1>6. j - i \in Nat /\ i + (j - i) = j /\ j <= n
  BY <1>1
<1>7. ok(i + (j - i))
  BY <1>1, <1>5, <1>6
<1> QED
  BY <1>6, <1>7


-----------------------------------------------------------------------------
(* The bytes of a request.                                                 *)

LEMMA DigitIs == Digit = {Sizes[i] : i \in 1 .. 10}
<1> DEFINE f == SubSeq(Sizes, 1, 10)
<1>1. Len(Sizes) = 16
  BY DEF Sizes
<1>2. f = [i \in 1 .. 10 |-> Sizes[i]]
  BY <1>1 DEF Sizes
<1> HIDE DEF f
<1>3. Digit = {f[i] : i \in DOMAIN f}
  BY DEF Digit, ToSet, f
<1> QED
  BY <1>2, <1>3

\* What the ten digits stand for.
LEMMA DigitValue ==
  \A n \in 0 .. 9 : /\ Sizes[n + 1] \in Digit /\ Sizes[n + 1] \in Byte
                    /\ Value(Sizes[n + 1]) = n
<1>1. HexDigit = {Sizes[i] : i \in 1 .. 16}
  BY DEF HexDigit, ToSet, Sizes
<1>2. ASSUME NEW n \in 0 .. 9
      PROVE  /\ Sizes[n + 1] \in Digit /\ Sizes[n + 1] \in Byte
             /\ Value(Sizes[n + 1]) = n
  <2>1. n + 1 \in 1 .. 10 /\ n + 1 \in 1 .. 16
    OBVIOUS
  <2>2. Sizes[n + 1] \in Digit /\ Sizes[n + 1] \in HexDigit
    BY <1>1, <2>1, DigitIs
  <2>3. \A i, j \in 1 .. 16 : Sizes[i] = Sizes[j] => i = j
    BY DEF Sizes
  <2>4. (CHOOSE i \in 1 .. 16 : Sizes[i] = Sizes[n + 1]) = n + 1
    <3> DEFINE c == CHOOSE i \in 1 .. 16 : Sizes[i] = Sizes[n + 1]
    <3>1. c \in 1 .. 16 /\ Sizes[c] = Sizes[n + 1]
      BY <2>1
    <3> HIDE DEF c
    <3>2. c = n + 1
      BY <2>1, <2>3, <3>1
    <3> QED
      BY <3>2 DEF c
  <2>5. Value(Sizes[n + 1]) = (n + 1) - 1
    BY <2>2, <2>4 DEF Value
  <2> QED
    BY <2>2, <2>5 DEF Byte
<1> QED
  BY <1>2

\* A length below a hundred in decimal.
LEMMA DecimalIs ==
  ASSUME NEW n \in 0 .. 99
  PROVE  /\ Decimal(n) \in Seq(Digit) /\ Decimal(n) \in Seq(Byte)
         /\ Len(Decimal(n)) = (IF n < 10 THEN 1 ELSE 2)
         /\ n < 10 => Value(Decimal(n)[1]) = n
         /\ n >= 10 => /\ Value(Decimal(n)[1]) = n \div 10
                       /\ 10 * (n \div 10) + Value(Decimal(n)[2]) = n
<1>1. CASE n < 10
  <2>1. Decimal(n) = <<Sizes[n + 1]>>
    BY <1>1 DEF Decimal
  <2>2. /\ Sizes[n + 1] \in Digit /\ Sizes[n + 1] \in Byte
        /\ Value(Sizes[n + 1]) = n
    BY <1>1, DigitValue
  <2> QED
    BY <1>1, <2>1, <2>2
<1>2. CASE ~(n < 10)
  <2> DEFINE q == n \div 10
             r == n % 10
  <2>1. q \in 0 .. 9 /\ r \in 0 .. 9 /\ 10 * q + r = n
    BY <1>2
  <2>2. Decimal(n) = <<Sizes[q + 1], Sizes[r + 1]>>
    BY <1>2 DEF Decimal
  <2> HIDE DEF q, r
  <2>3. /\ Sizes[q + 1] \in Digit /\ Sizes[q + 1] \in Byte
        /\ Value(Sizes[q + 1]) = q
        /\ Sizes[r + 1] \in Digit /\ Sizes[r + 1] \in Byte
        /\ Value(Sizes[r + 1]) = r
    BY <2>1, DigitValue
  <2> DEFINE x == Sizes[q + 1]
             y == Sizes[r + 1]
  <2> HIDE DEF x, y
  <2>4. /\ <<x, y>> \in Seq(Digit) /\ <<x, y>> \in Seq(Byte)
        /\ Len(<<x, y>>) = 2 /\ <<x, y>>[1] = x /\ <<x, y>>[2] = y
    BY <2>3 DEF x, y
  <2>5. 10 * q + Value(y) = n /\ Value(x) = q
    BY <2>1, <2>3 DEF x, y
  <2>6. Decimal(n) = <<x, y>>
    BY <2>2 DEF x, y
  <2> QED
    BY <1>2, <2>4, <2>5, <2>6 DEF q
<1> QED
  BY <1>1, <1>2

\* The sets of bytes the transitions distinguish.
LEMMA ByteKinds ==
  /\ {"SP", ":", "CR", "LF"} \subseteq Byte /\ Letters \subseteq Byte
  /\ Digit \subseteq Byte /\ {"HTTP/1.0", "HTTP/1.1"} \subseteq Byte
  /\ TokenByte \subseteq Byte /\ {"SP", ":"} \cap TokenByte = {}
  /\ "Content-Length" \in TokenByte
  /\ "SP" \notin Digit /\ "CR" \notin Digit /\ "LF" \notin Digit
  /\ "SP" \notin Letters
<1>1. Digit \subseteq HexDigit
  BY DigitIs DEF HexDigit, ToSet, Sizes
<1>2. "SP" \notin Digit /\ "CR" \notin Digit /\ "LF" \notin Digit
  BY DigitIs DEF Sizes
<1>3. "Content-Length" \in TokenByte
  BY DEF TokenByte, Byte, Names, Separator
<1>4. {"SP", ":", "CR", "LF"} \subseteq Byte
      /\ {"HTTP/1.0", "HTTP/1.1"} \subseteq Byte
      /\ Letters \subseteq Byte
  BY DEF Byte, Separator
<1>5. TokenByte \subseteq Byte /\ {"SP", ":"} \cap TokenByte = {}
  BY DEF TokenByte, Separator
<1>6. "SP" \notin Letters
  BY DEF Letters
<1>7. Digit \subseteq Byte
  BY <1>1 DEF Byte
<1> QED
  BY <1>2, <1>3, <1>4, <1>5, <1>6, <1>7

\* The headers of a request, the length included.
LEMMA HeadersAre ==
  ASSUME NEW s, WellFormed(s)
  PROVE  /\ Headers(s) \in Seq(Seq(Byte) \X Seq(Byte))
         /\ Count(s) \in Nat \ {0} /\ DOMAIN Headers(s) = 1 .. Count(s)
         /\ s.headers \in Seq(Seq(Byte) \X Seq(Byte))
         /\ Count(s) = Len(s.headers) + (IF s.chunks = <<>> THEN 0 ELSE 1)
         /\ Size(s) \in 0 .. 99 /\ Flat(s.chunks) \in Seq(Byte)
         /\ (s.chunks = <<>> => Size(s) = 0)
         /\ \A i \in 1 .. Count(s) :
              /\ IsLength(s, i) =>
                   Headers(s)[i] = << <<"Content-Length">>, Decimal(Size(s)) >>
              /\ ~ IsLength(s, i) =>
                   i \in 1 .. Len(s.headers) /\ Headers(s)[i] = s.headers[i]
<1> DEFINE P == Seq(Byte) \X Seq(Byte)
           a == s.headers
           z == << <<"Content-Length">>, Decimal(Size(s)) >>
<1>1. /\ a \in Seq(P) /\ s.chunks \in Seq(Seq(Byte))
      /\ s.headers # <<>> \/ s.chunks # <<>>
      /\ s.chunks # <<>> => s.sized /\ Size(s) < 100
  BY DEF WellFormed
<1>2. /\ Flat(s.chunks) \in Seq(Byte)
      /\ s.chunks = <<>> => Flat(s.chunks) = <<>>
  <2> DEFINE c == s.chunks
             S == Byte
  <2>1. c \in Seq(Seq(S))
    BY <1>1
  <2> HIDE DEF c, S
  <2>2. /\ Flat(c) = IF c = <<>> THEN <<>> ELSE UpTo(c)[Len(c)]
        /\ \A i \in 1 .. Len(c) : UpTo(c)[i] \in Seq(S)
    BY <2>1, UpToIs
  <2>3. c # <<>> => Len(c) \in 1 .. Len(c)
    BY <2>1
  <2>4. Flat(c) \in Seq(S)
    BY <2>2, <2>3
  <2> QED
    BY <2>2, <2>4 DEF c, S
<1>3. /\ Size(s) \in Nat
      /\ s.chunks = <<>> => Size(s) = 0
  BY <1>2 DEF Size
<1>4. Size(s) \in 0 .. 99
  <2>1. s.chunks # <<>> => Size(s) < 100
    BY <1>1, Zenon
  <2>2. Size(s) < 100 \/ Size(s) = 0
    BY <1>3, <2>1, Zenon
  <2>3. \A n \in Nat : n < 100 \/ n = 0 => n \in 0 .. 99
    OBVIOUS
  <2> QED
    BY <1>3, <2>2, <2>3, Zenon
<1>5. z \in P
  <2>1. "Content-Length" \in Byte
    BY ByteKinds
  <2>2. <<"Content-Length">> \in Seq(Byte)
    BY <2>1
  <2>3. Decimal(Size(s)) \in Seq(Byte)
    BY <1>4, DecimalIs
  <2> QED
    BY <2>2, <2>3
<1> HIDE DEF P, z
<1>6. CASE s.chunks = <<>>
  <2>1. Headers(s) = a \o <<>>
    BY <1>6 DEF Headers
  <2>2. Headers(s) = a
    BY <1>1, <2>1
  <2>3. Count(s) = Len(a) /\ Len(a) \in Nat \ {0} /\ DOMAIN a = 1 .. Len(a)
    BY <1>1, <1>6, <2>2 DEF Count
  <2>4. \A i \in 1 .. Count(s) : ~ IsLength(s, i)
    BY <1>6 DEF IsLength
  <2> QED
    BY <1>1, <1>2, <1>3, <1>4, <1>6, <2>2, <2>3, <2>4 DEF P
<1>7. CASE s.chunks # <<>>
  <2>1. Headers(s) = a \o <<z>>
    BY <1>1, <1>7 DEF Headers, z, Size
  <2> HIDE DEF a
  <2>2. Headers(s) = Append(a, z)
    BY <1>1, <1>5, <2>1
  <2>3. /\ Headers(s) \in Seq(P) /\ Len(Headers(s)) = Len(a) + 1
        /\ \A i \in 1 .. Len(a) : Headers(s)[i] = a[i]
        /\ Headers(s)[Len(a) + 1] = z /\ Len(a) \in Nat
    BY <1>1, <1>5, <2>2
  <2>4. DOMAIN Headers(s) = 1 .. Len(Headers(s))
    BY <2>3
  <2>5. Count(s) = Len(a) + 1
    BY <2>3 DEF Count
  <2>6. ASSUME NEW i \in 1 .. Count(s)
        PROVE  /\ IsLength(s, i) => Headers(s)[i] = z
               /\ ~ IsLength(s, i) => /\ i \in 1 .. Len(a)
                                      /\ Headers(s)[i] = a[i]
    <3>1. IsLength(s, i) <=> i = Len(a) + 1
      BY <1>7, <2>5 DEF IsLength
    <3>2. ~ IsLength(s, i) => i \in 1 .. Len(a)
      BY <2>3, <2>5, <3>1
    <3> QED
      BY <2>3, <3>1, <3>2
  <2>7. Count(s) \in Nat \ {0} /\ DOMAIN Headers(s) = 1 .. Count(s)
    BY <2>3, <2>4, <2>5
  <2> QED
    BY <1>1, <1>2, <1>4, <1>7, <2>3, <2>5, <2>6, <2>7 DEF P, a, z
<1> QED
  BY <1>6, <1>7


\* One of them.
LEMMA HeaderIs ==
  ASSUME NEW s, WellFormed(s), LimitsAllow, NEW i \in 1 .. Count(s)
  PROVE  LET key  == Headers(s)[i][1]
             text == Headers(s)[i][2]
         IN  /\ key \in Seq(Byte) /\ text \in Seq(Byte)
             /\ KeyLen(s, i) = Len(key) /\ TextLen(s, i) = Len(text)
             /\ KeyLen(s, i) \in Nat \ {0} /\ TextLen(s, i) \in Nat \ {0}
             /\ KeyLen(s, i) <= Limit["HEADER_KEY"]
             /\ TextLen(s, i) < Limit["HEADER_VALUE"]
             /\ \A j \in 1 .. Len(key) : key[j] \in TokenByte
             /\ IsLength(s, i) =>
                  /\ KeyLen(s, i) = 1 /\ key[1] = "Content-Length"
                  /\ \A j \in 1 .. Len(text) : text[j] \in Digit
                  /\ text = Decimal(Size(s))
             /\ ~ IsLength(s, i) =>
                  /\ key[1] \notin Names \cup {"CR"} /\ text[1] # "SP"
                  /\ \A j \in 1 .. Len(text) : text[j] \notin {"CR", "LF"}
<1> DEFINE key  == Headers(s)[i][1]
           text == Headers(s)[i][2]
<1>1. KeyLen(s, i) = Len(key) /\ TextLen(s, i) = Len(text)
  BY DEF KeyLen, TextLen
<1>2. CASE IsLength(s, i)
  <2>1. Headers(s)[i] = << <<"Content-Length">>, Decimal(Size(s)) >>
    BY <1>2, HeadersAre
  <2> DEFINE d == Decimal(Size(s))
  <2>2. /\ d \in Seq(Digit) /\ d \in Seq(Byte) /\ Len(d) \in {1, 2}
    BY HeadersAre, DecimalIs
  <2>3. key = <<"Content-Length">> /\ text = d
    BY <2>1
  <2> HIDE DEF key, text, d
  <2>4. "Content-Length" \in TokenByte /\ "Content-Length" \in Byte
    BY ByteKinds
  <2>5. /\ key \in Seq(Byte) /\ Len(key) = 1 /\ key[1] = "Content-Length"
        /\ \A j \in 1 .. Len(key) : key[j] \in TokenByte
    BY <2>3, <2>4
  <2>6. \A j \in 1 .. Len(text) : text[j] \in Digit
    <3> DEFINE S == Digit
    <3> HIDE DEF S
    <3>1. d \in Seq(S)
      BY <2>2 DEF S
    <3>2. \A j \in 1 .. Len(d) : d[j] \in S
      BY <3>1
    <3> QED
      BY <2>3, <3>2 DEF S
  <2>7. /\ 1 <= Limit["HEADER_KEY"] /\ 2 < Limit["HEADER_VALUE"]
    BY ParserAssumption DEF LimitsAllow
  <2>8. /\ KeyLen(s, i) \in Nat \ {0} /\ TextLen(s, i) \in Nat \ {0}
        /\ KeyLen(s, i) <= Limit["HEADER_KEY"]
        /\ TextLen(s, i) < Limit["HEADER_VALUE"]
    <3>1. Len(text) = 1 \/ Len(text) = 2
      BY <2>2, <2>3
    <3>2. Limit["HEADER_VALUE"] \in Nat /\ Limit["HEADER_KEY"] \in Nat
      BY ParserAssumption
    <3> QED
      BY <1>1, <2>5, <2>7, <3>1, <3>2
  <2> QED
    BY <1>1, <1>2, <2>2, <2>3, <2>5, <2>6, <2>8 DEF key, text, d
<1>3. CASE ~ IsLength(s, i)
  <2>1. i \in 1 .. Len(s.headers) /\ Headers(s)[i] = s.headers[i]
    BY <1>3, HeadersAre
  <2>2. Key(key) /\ HeaderText(text)
    <3>1. s.headers \in Seq(Seq(Byte) \X Seq(Byte))
      BY DEF WellFormed
    <3>2. i \in DOMAIN s.headers
      BY <2>1, <3>1
    <3> QED
      BY <2>1, <3>2 DEF WellFormed
  <2> HIDE DEF key, text
  <2> DEFINE T == TokenByte
             V == Byte \ {"CR", "LF"}
             B == Byte
  <2>3. /\ key \in Seq(T) /\ key # <<>> /\ key[1] \notin Names \cup {"CR"}
        /\ Len(key) <= Limit["HEADER_KEY"]
        /\ text \in Seq(V) /\ text # <<>> /\ text[1] # "SP"
        /\ Len(text) < Limit["HEADER_VALUE"]
    BY <2>2 DEF Key, HeaderText, Bytes
  <2>4. T \subseteq B /\ V \subseteq B
    BY ByteKinds
  <2>5. \A v \in V : v \notin {"CR", "LF"}
    OBVIOUS
  <2> HIDE DEF T, V, B
  <2>6. key \in Seq(B) /\ text \in Seq(B)
    BY <2>3, <2>4
  <2>7. Len(key) \in Nat \ {0} /\ Len(text) \in Nat \ {0}
    BY <2>3
  <2>8. /\ \A j \in 1 .. Len(key) : key[j] \in T
        /\ \A j \in 1 .. Len(text) : text[j] \in V
    BY <2>3
  <2> QED
    BY <1>1, <1>3, <2>3, <2>5, <2>6, <2>7, <2>8 DEF T, B, key, text
<1> QED
  BY <1>2, <1>3

\* Two and three sequences one after the other.
LEMMA Joined2 ==
  ASSUME NEW S, NEW x \in Seq(S), NEW y \in Seq(S)
  PROVE  /\ x \o y \in Seq(S) /\ Len(x \o y) = Len(x) + Len(y)
         /\ \A j \in 1 .. Len(x) : (x \o y)[j] = x[j]
         /\ \A j \in 1 .. Len(y) : (x \o y)[Len(x) + j] = y[j]
OBVIOUS

\* From its (n + 1)-st element on, f has the elements of x.
Part(f, n, x) == \A j \in 1 .. Len(x) : f[n + j] = x[j]

LEMMA JoinedBytes ==
  \A x, y \in Seq(Byte) :
    /\ x \o y \in Seq(Byte) /\ Len(x \o y) = Len(x) + Len(y)
    /\ Len(x) \in Nat /\ Len(y) \in Nat
    /\ Part(x \o y, 0, x) /\ Part(x \o y, Len(x), y)
<1> DEFINE S == Byte
<1> HIDE DEF S
<1>1. ASSUME NEW x \in Seq(S), NEW y \in Seq(S)
      PROVE  /\ x \o y \in Seq(S) /\ Len(x \o y) = Len(x) + Len(y)
             /\ Len(x) \in Nat /\ Len(y) \in Nat
             /\ Part(x \o y, 0, x) /\ Part(x \o y, Len(x), y)
  <2>1. /\ x \o y \in Seq(S) /\ Len(x \o y) = Len(x) + Len(y)
        /\ \A j \in 1 .. Len(x) : (x \o y)[j] = x[j]
        /\ \A j \in 1 .. Len(y) : (x \o y)[Len(x) + j] = y[j]
    BY Joined2
  <2>2. \A j \in 1 .. Len(x) : 0 + j = j
    OBVIOUS
  <2>3. Part(x \o y, 0, x)
    BY <2>1, <2>2, Zenon DEF Part
  <2>4. Part(x \o y, Len(x), y)
    BY <2>1, Zenon DEF Part
  <2> QED
    BY <2>1, <2>3, <2>4
<1> QED
  BY <1>1 DEF S

\* A part of a part.
LEMMA PartOf ==
  ASSUME NEW f, NEW x, NEW z, NEW n \in Int, NEW m \in Nat,
         Part(f, n, x), Part(x, m, z),
         Len(x) \in Nat, Len(z) \in Nat, m + Len(z) <= Len(x),
         NEW q, q = n + m
  PROVE  Part(f, q, z)
<1>1. ASSUME NEW j \in 1 .. Len(z)
      PROVE  f[q + j] = z[j]
  <2>1. m + j \in 1 .. Len(x) /\ n + (m + j) = q + j
    OBVIOUS
  <2>2. f[n + (m + j)] = x[m + j]
    BY <2>1 DEF Part
  <2>3. x[m + j] = z[j]
    BY DEF Part
  <2> QED
    BY <2>1, <2>2, <2>3
<1> QED
  BY <1>1 DEF Part

\* A header with what is between and behind its two parts.
Framed(h) == h[1] \o <<":", "SP">> \o h[2] \o <<"CR", "LF">>

LEMMA FramedIs ==
  ASSUME NEW h, h[1] \in Seq(Byte), h[2] \in Seq(Byte)
  PROVE  LET f == Framed(h)
             k == Len(h[1])
             v == Len(h[2])
         IN  /\ f \in Seq(Byte) /\ k \in Nat /\ v \in Nat
             /\ Len(f) = k + v + 4
             /\ Part(f, 0, h[1]) /\ Part(f, k + 2, h[2])
             /\ f[k + 1] = ":" /\ f[k + 2] = "SP"
             /\ f[k + v + 3] = "CR" /\ f[k + v + 4] = "LF"
<1> DEFINE x == h[1]
           y == h[2]
           p == <<":", "SP">>
           e == <<"CR", "LF">>
           xp == x \o p
           xpy == xp \o y
           f == xpy \o e
           k == Len(x)
           v == Len(y)
<1>1. Framed(h) = f
  BY DEF Framed
<1>2. /\ p \in Seq(Byte) /\ e \in Seq(Byte)
  BY ByteKinds
<1>3. /\ Len(p) = 2 /\ Len(e) = 2
      /\ p[1] = ":" /\ p[2] = "SP" /\ e[1] = "CR" /\ e[2] = "LF"
  OBVIOUS
<1> HIDE DEF p, e
<1>4. /\ xp \in Seq(Byte) /\ Len(xp) = k + 2 /\ k \in Nat
      /\ Part(xp, 0, x) /\ Part(xp, k, p)
  BY <1>2, <1>3, JoinedBytes
<1> HIDE DEF xp
<1>5. /\ xpy \in Seq(Byte) /\ Len(xpy) = (k + 2) + v /\ v \in Nat
      /\ Part(xpy, 0, xp) /\ Part(xpy, k + 2, y)
  BY <1>4, JoinedBytes
<1> HIDE DEF xpy
<1>6. /\ f \in Seq(Byte) /\ Len(f) = ((k + 2) + v) + 2
      /\ Part(f, 0, xpy) /\ Part(f, (k + 2) + v, e)
  <2>1. /\ f \in Seq(Byte) /\ Len(f) = Len(xpy) + Len(e)
        /\ Part(f, 0, xpy) /\ Part(f, Len(xpy), e)
    BY <1>2, <1>5, JoinedBytes
  <2> QED
    BY <1>3, <1>5, <2>1
<1>14. Len(x) = k /\ Len(y) = v
  OBVIOUS
<1> HIDE DEF f, x, y, k, v
<1>7. Part(f, 0, xp)
  BY <1>3, <1>4, <1>5, <1>6, PartOf
<1>8. Part(f, 0, x)
  BY <1>4, <1>7, <1>14, PartOf
<1>9. Part(f, k, p)
  <2>1. 0 \in Int /\ k = 0 + k /\ k + Len(p) <= Len(xp)
        /\ Len(xp) \in Nat /\ Len(p) \in Nat
    BY <1>3, <1>4
  <2> QED
    BY <1>4, <1>7, <2>1, PartOf, Zenon
<1>10. Part(f, k + 2, y)
  <2>1. 0 \in Int /\ k + 2 \in Nat /\ k + 2 = 0 + (k + 2)
        /\ (k + 2) + Len(y) <= Len(xpy)
        /\ Len(xpy) \in Nat /\ Len(y) \in Nat
    BY <1>4, <1>5, <1>14
  <2> QED
    BY <1>5, <1>6, <2>1, PartOf, Zenon
<1>11. f[k + 1] = ":" /\ f[k + 2] = "SP"
  BY <1>3, <1>9 DEF Part
<1>12. f[k + v + 3] = "CR" /\ f[k + v + 4] = "LF"
  <2>1. /\ f[((k + 2) + v) + 1] = e[1] /\ f[((k + 2) + v) + 2] = e[2]
    BY <1>3, <1>6 DEF Part
  <2>2. ((k + 2) + v) + 1 = k + v + 3 /\ ((k + 2) + v) + 2 = k + v + 4
    BY <1>4, <1>5
  <2> QED
    BY <1>3, <2>1, <2>2
<1>13. Len(f) = k + v + 4
  BY <1>4, <1>5, <1>6
<1> QED
  BY <1>1, <1>4, <1>5, <1>6, <1>8, <1>10, <1>11, <1>12, <1>13 DEF x, y, k, v


\* The header lines of a request, and where they begin and end.
LEMMA LinesAre ==
  ASSUME NEW s, WellFormed(s), LimitsAllow
  PROVE  LET all == Flat(HeaderLines(s))
             n   == Count(s)
             t   == Len(s.target)
         IN  /\ all \in Seq(Byte) /\ Len(all) \in Nat
             /\ t \in Nat \ {0} /\ t <= Limit["TARGET"]
             /\ LineAt(s, 1) = 6 + t /\ BlankAt(s) = (6 + t) + Len(all)
             /\ \A i \in 1 .. n :
                  /\ LineAt(s, i) \in Nat /\ 6 + t <= LineAt(s, i)
                  /\ LineAt(s, i + 1)
                       = LineAt(s, i) + KeyLen(s, i) + TextLen(s, i) + 4
                  /\ LineAt(s, i + 1) <= BlankAt(s)
                  /\ Part(all, LineAt(s, i) - (6 + t), Framed(Headers(s)[i]))
<1> DEFINE ss == HeaderLines(s)
           u  == UpTo(ss)
           n  == Count(s)
           t  == Len(s.target)
           S  == Byte
           before(i) == IF i = 1 THEN 0 ELSE Len(u[i - 1])
<1>1. t \in Nat \ {0} /\ t <= Limit["TARGET"]
  <2> DEFINE x == s.target
             T == Byte \ {"SP"}
  <2>1. x \in Seq(T) /\ x # <<>> /\ Len(x) <= Limit["TARGET"]
    BY DEF WellFormed, Bytes
  <2> HIDE DEF x, T
  <2>2. Len(x) \in Nat \ {0}
    BY <2>1
  <2> QED
    BY <2>1, <2>2 DEF x
<1>2. n \in Nat \ {0} /\ DOMAIN Headers(s) = 1 .. n
  BY HeadersAre
<1>3. \A i \in 1 .. n : /\ ss[i] = Framed(Headers(s)[i]) /\ ss[i] \in Seq(S)
                        /\ Len(ss[i]) = KeyLen(s, i) + TextLen(s, i) + 4
                        /\ KeyLen(s, i) \in Nat /\ TextLen(s, i) \in Nat
  <2>1. ASSUME NEW i \in 1 .. n
        PROVE  /\ ss[i] = Framed(Headers(s)[i]) /\ ss[i] \in Seq(S)
               /\ Len(ss[i]) = KeyLen(s, i) + TextLen(s, i) + 4
               /\ KeyLen(s, i) \in Nat /\ TextLen(s, i) \in Nat
    <3>1. ss[i] = Framed(Headers(s)[i])
      BY <1>2, <2>1 DEF HeaderLines, Framed
    <3> HIDE DEF ss
    <3> DEFINE h == Headers(s)[i]
    <3>2. /\ h[1] \in Seq(Byte) /\ h[2] \in Seq(Byte)
          /\ KeyLen(s, i) = Len(h[1]) /\ TextLen(s, i) = Len(h[2])
      BY <2>1, HeaderIs
    <3> HIDE DEF h
    <3>3. /\ Framed(h) \in Seq(Byte) /\ Len(h[1]) \in Nat /\ Len(h[2]) \in Nat
          /\ Len(Framed(h)) = Len(h[1]) + Len(h[2]) + 4
      BY <3>2, FramedIs
    <3> QED
      BY <3>1, <3>2, <3>3 DEF h
  <2> QED
    BY <2>1
<1>4. ss \in Seq(Seq(S)) /\ Len(ss) = n
  <2>1. ss = [i \in 1 .. n |-> ss[i]]
    BY <1>2 DEF HeaderLines
  <2> HIDE DEF ss, n, S
  <2>2. ss \in [1 .. n -> Seq(S)]
    BY <1>3, <2>1
  <2> QED
    BY <1>2, <2>2, SeqDef, LenProperties
<1>5. n \in 1 .. n
  <2> HIDE DEF n
  <2> QED  BY <1>2
<1>6. \A i \in 1 .. n :
        /\ u[i] = IF i = 1 THEN ss[i] ELSE u[i - 1] \o ss[i]
        /\ u[i] \in Seq(S) /\ Len(u[i]) \in Nat
  <2>1. \A i \in 1 .. Len(ss) :
          /\ UpTo(ss)[i] = IF i = 1 THEN ss[i] ELSE UpTo(ss)[i - 1] \o ss[i]
          /\ UpTo(ss)[i] \in Seq(S)
    <3> HIDE DEF ss, S
    <3> QED  BY <1>4, UpToIs
  <2> HIDE DEF ss, n, S, u
  <2>2. \A x \in Seq(S) : Len(x) \in Nat
    OBVIOUS
  <2> QED
    BY <1>4, <2>1, <2>2 DEF u
<1>7. Flat(ss) = u[n]
  <2>1. Flat(ss) = IF ss = <<>> THEN <<>> ELSE UpTo(ss)[Len(ss)]
    <3> HIDE DEF ss, S
    <3> QED  BY <1>4, UpToIs
  <2> HIDE DEF ss, n, S
  <2>2. ss # <<>>
    BY <1>2, <1>4
  <2> QED
    BY <1>4, <2>1, <2>2
<1>8. /\ \A i \in 1 .. n : LineAt(s, i) = (6 + t) + before(i)
      /\ LineAt(s, 1) = 6 + t
      /\ \A i \in 1 .. n : LineAt(s, i + 1) = (6 + t) + Len(u[i])
  <2>1. \A i \in 1 .. n : LineAt(s, i) = (6 + t) + before(i)
    BY DEF LineAt
  <2>2. LineAt(s, 1) = 6 + t
    <3>1. LineAt(s, 1) = (6 + t) + 0
      BY DEF LineAt
    <3> HIDE DEF t
    <3> QED  BY <1>1, <3>1
  <2>3. \A i \in 1 .. n : LineAt(s, i + 1) = (6 + t) + Len(u[i])
    <3>1. \A i \in 1 .. n : i + 1 # 1 /\ (i + 1) - 1 = i
      <4> HIDE DEF n
      <4> QED  BY <1>2
    <3> QED
      BY <3>1 DEF LineAt
  <2> QED
    BY <2>1, <2>2, <2>3
<1> HIDE DEF ss, u, n, t, S
<1>9. ASSUME NEW i \in 1 .. n
      PROVE  /\ before(i) \in Nat
             /\ Len(u[i]) = before(i) + Len(ss[i])
             /\ Part(u[i], before(i), ss[i])
  <2>1. Len(ss[i]) \in Nat /\ ss[i] \in Seq(S)
    <3>1. ss[i] \in Seq(S)
      BY <1>3
    <3> QED  BY <3>1
  <2>2. CASE i = 1
    <3>1. u[i] = ss[i] /\ before(i) = 0
      BY <1>6, <2>2
    <3>2. Part(ss[i], 0, ss[i])
      <4>1. \A j \in 1 .. Len(ss[i]) : 0 + j = j
        BY <2>1
      <4> QED  BY <4>1, Zenon DEF Part
    <3>3. Len(ss[i]) = 0 + Len(ss[i]) /\ 0 \in Nat
      BY <2>1
    <3> HIDE DEF before
    <3> QED
      BY <3>1, <3>2, <3>3, Zenon
  <2>3. CASE i # 1
    <3>1. i - 1 \in 1 .. n
      BY <1>2, <2>3
    <3>2. u[i] = u[i - 1] \o ss[i] /\ before(i) = Len(u[i - 1])
      BY <1>6, <2>3
    <3>3. u[i - 1] \in Seq(Byte) /\ ss[i] \in Seq(Byte)
      BY <1>6, <2>1, <3>1 DEF S
    <3> DEFINE x == u[i - 1]
               y == ss[i]
    <3>4. /\ Len(x \o y) = Len(x) + Len(y) /\ Len(x) \in Nat
          /\ Part(x \o y, Len(x), y)
      <4> HIDE DEF x, y
      <4>1. x \in Seq(Byte) /\ y \in Seq(Byte)
        BY <3>3 DEF x, y
      <4> QED  BY <4>1, JoinedBytes
    <3> QED
      BY <3>2, <3>4
  <2> QED
    BY <2>2, <2>3
<1>10. ASSUME NEW i \in 1 .. n
       PROVE  /\ Len(u[i]) <= Len(u[n]) /\ Part(u[n], 0, u[i])
  <2>1. n \in i .. Len(ss) /\ i \in 1 .. Len(ss)
    BY <1>2, <1>4
  <2>2. /\ Len(u[i]) <= Len(u[n])
        /\ \A k \in 1 .. Len(u[i]) : u[n][k] = u[i][k]
    BY <1>4, <2>1, UpToGrows DEF u
  <2>3. \A k \in 1 .. Len(u[i]) : 0 + k = k
    BY <1>6
  <2> QED
    BY <2>2, <2>3, Zenon DEF Part
<1>11. ASSUME NEW i \in 1 .. n
       PROVE  /\ LineAt(s, i) \in Nat /\ 6 + t <= LineAt(s, i)
              /\ LineAt(s, i + 1)
                   = LineAt(s, i) + KeyLen(s, i) + TextLen(s, i) + 4
              /\ LineAt(s, i + 1) <= (6 + t) + Len(u[n])
              /\ Part(u[n], LineAt(s, i) - (6 + t), Framed(Headers(s)[i]))
  <2> DEFINE b == before(i)
             z == ss[i]
  <2>1. /\ b \in Nat /\ Len(u[i]) = b + Len(z) /\ Part(u[i], b, z)
        /\ Len(u[i]) <= Len(u[n]) /\ Part(u[n], 0, u[i])
        /\ LineAt(s, i) = (6 + t) + b /\ LineAt(s, i + 1) = (6 + t) + Len(u[i])
    BY <1>8, <1>9, <1>10
  <2>2. /\ z = Framed(Headers(s)[i])
        /\ Len(z) = KeyLen(s, i) + TextLen(s, i) + 4
        /\ KeyLen(s, i) \in Nat /\ TextLen(s, i) \in Nat
    BY <1>3
  <2>3. Len(u[i]) \in Nat /\ Len(u[n]) \in Nat
    BY <1>5, <1>6
  <2> HIDE DEF b, z
  <2>4. Part(u[n], b, z)
    <3>1. /\ 0 \in Int /\ b = 0 + b /\ b + Len(z) <= Len(u[i])
          /\ Len(z) \in Nat
      BY <2>1, <2>2
    <3> QED
      BY <2>1, <2>3, <3>1, PartOf, Zenon
  <2>5. LineAt(s, i) - (6 + t) = b
    BY <1>1, <2>1
  <2>6. Part(u[n], LineAt(s, i) - (6 + t), Framed(Headers(s)[i]))
    BY <2>2, <2>4, <2>5, Zenon
  <2>7. /\ LineAt(s, i) \in Nat /\ 6 + t <= LineAt(s, i)
        /\ LineAt(s, i + 1)
             = LineAt(s, i) + KeyLen(s, i) + TextLen(s, i) + 4
        /\ LineAt(s, i + 1) <= (6 + t) + Len(u[n])
    <3> DEFINE x == Len(u[i])
               y == Len(u[n])
               k == KeyLen(s, i)
               v == TextLen(s, i)
    <3>1. /\ x = b + (k + v + 4) /\ x <= y /\ x \in Nat /\ y \in Nat
          /\ LineAt(s, i) = (6 + t) + b /\ LineAt(s, i + 1) = (6 + t) + x
          /\ k \in Nat /\ v \in Nat /\ b \in Nat /\ t \in Nat
      BY <1>1, <2>1, <2>2, <2>3
    <3> HIDE DEF x, y, k, v
    <3>2. /\ LineAt(s, i) \in Nat /\ 6 + t <= LineAt(s, i)
          /\ LineAt(s, i + 1) = LineAt(s, i) + k + v + 4
          /\ LineAt(s, i + 1) <= (6 + t) + y
      BY <3>1
    <3> QED
      BY <3>2 DEF y, k, v
  <2> QED
    BY <2>6, <2>7
<1>12. u[n] \in Seq(Byte) /\ Len(u[n]) \in Nat
  BY <1>5, <1>6 DEF S
<1>13. BlankAt(s) = (6 + t) + Len(u[n])
  BY <1>5, <1>8 DEF BlankAt, n
<1> QED
  BY <1>1, <1>7, <1>8, <1>11, <1>12, <1>13 DEF ss, n, t


\* A request is its head and its body.
LEMMA WireIs ==
  ASSUME NEW s \in Shapes, WellFormed(s), HeadOf(s) \in Seq(Byte)
  PROVE  LET h == HeadOf(s)
             b == Flat(s.chunks)
         IN  /\ Wire[s] \in Seq(Byte) /\ Len(Wire[s]) = Len(h) + Len(b)
             /\ b \in Seq(Byte) /\ Len(h) \in Nat /\ Len(b) \in Nat
             /\ Part(Wire[s], 0, h) /\ Part(Wire[s], Len(h), b)
<1> DEFINE h == HeadOf(s)
           b == Flat(s.chunks)
           S == Byte
<1>1. b \in Seq(Byte)
  BY HeadersAre
<1>2. s.chunks = <<>> => b = <<>>
  BY DEF Flat, FlattenSeq
<1>3. s.chunks # <<>> => s.sized
  BY DEF WellFormed
<1>4. Wire[s] = Flat(Segments(s))
  BY DEF Wire
<1>5. \A x \in Seq(S) : Flat(<<x>>) = x
  <2>1. ASSUME NEW x \in Seq(S)
        PROVE  Flat(<<x>>) = x
    <3> DEFINE ss == <<x>>
    <3> HIDE DEF S
    <3>1. ss \in Seq(Seq(S)) /\ Len(ss) = 1 /\ ss # <<>> /\ ss[1] = x
      BY <2>1
    <3> HIDE DEF ss
    <3>2. /\ UpTo(ss)[1] = ss[1]
          /\ Flat(ss) = UpTo(ss)[Len(ss)]
      BY <3>1, UpToIs
    <3>3. Flat(ss) = x
      BY <3>1, <3>2
    <3> QED
      BY <3>3 DEF ss
  <2> QED
    BY <2>1
<1>6. ASSUME NEW ss \in Seq(Seq(S)), Len(ss) = 2
      PROVE  Flat(ss) = ss[1] \o ss[2]
  <2> HIDE DEF S
  <2>1. ss # <<>>
    <3>1. Len(<<>>) = 0
      OBVIOUS
    <3>2. 2 # 0
      OBVIOUS
    <3> QED  BY <1>6, <3>1, <3>2, Zenon
  <2>2. /\ \A i \in 1 .. Len(ss) :
             UpTo(ss)[i] = IF i = 1 THEN ss[i] ELSE UpTo(ss)[i - 1] \o ss[i]
        /\ Flat(ss) = UpTo(ss)[Len(ss)]
    BY <2>1, UpToIs
  <2>3. UpTo(ss)[1] = ss[1]
    BY <1>6, <2>2
  <2>4. UpTo(ss)[2] = UpTo(ss)[2 - 1] \o ss[2]
    BY <1>6, <2>2
  <2>5. 2 - 1 = 1
    OBVIOUS
  <2> QED
    BY <1>6, <2>2, <2>3, <2>4, <2>5
<1>7. Wire[s] = h \o b
  <2>1. CASE s.chunks = <<>>
    <3>1. Segments(s) = <<h>> \o <<>>
      BY <2>1 DEF Segments
    <3> HIDE DEF h
    <3>2. Segments(s) = <<h>>
      BY <3>1
    <3> HIDE DEF b
    <3>3. Flat(<<h>>) = h
      BY <1>5 DEF h
    <3>4. h \o <<>> = h
      BY DEF h
    <3> QED
      BY <1>2, <1>4, <2>1, <3>2, <3>3, <3>4
  <2>2. CASE s.chunks # <<>>
    <3>1. Segments(s) = <<h>> \o <<b>>
      BY <1>3, <2>2 DEF Segments
    <3> HIDE DEF h, b
    <3> DEFINE v == <<h>>
               w == <<b>>
               ss == v \o w
               T == Seq(S)
    <3>2. /\ v \in Seq(T) /\ w \in Seq(T) /\ Len(v) = 1 /\ Len(w) = 1
          /\ v[1] = h /\ w[1] = b
      BY <1>1 DEF h
    <3> HIDE DEF v, w, T
    <3>3. /\ ss \in Seq(T) /\ Len(ss) = Len(v) + Len(w)
          /\ \A j \in 1 .. Len(v) : ss[j] = v[j]
          /\ \A j \in 1 .. Len(w) : ss[Len(v) + j] = w[j]
      BY <3>2, Joined2
    <3> HIDE DEF ss
    <3>4. Len(ss) = 2 /\ ss[1] = h /\ ss[2] = b
      BY <3>2, <3>3
    <3>5. Flat(ss) = ss[1] \o ss[2]
      BY <1>6, <3>3, <3>4 DEF T
    <3> QED
      BY <1>4, <3>1, <3>4, <3>5 DEF ss, v, w
  <2> QED
    BY <2>1, <2>2
<1> HIDE DEF h, b
<1>8. h \in Seq(Byte)
  BY DEF h
<1>9. /\ h \o b \in Seq(Byte) /\ Len(h \o b) = Len(h) + Len(b)
      /\ Len(h) \in Nat /\ Len(b) \in Nat
      /\ Part(h \o b, 0, h) /\ Part(h \o b, Len(h), b)
  BY <1>1, <1>8, JoinedBytes
<1> QED
  BY <1>1, <1>7, <1>9 DEF h, b

\* The head of a request, byte by byte.
LEMMA HeadIs ==
  ASSUME NEW s, WellFormed(s), LimitsAllow
  PROVE  LET h == HeadOf(s)
             t == Len(s.target)
         IN  /\ h \in Seq(Byte) /\ Len(h) = HeadLen(s) /\ Len(h) \in Nat
             /\ h[1] = s.method /\ h[2] = "SP" /\ Part(h, 2, s.target)
             /\ h[t + 3] = "SP" /\ h[t + 4] = s.version
             /\ h[t + 5] = "CR" /\ h[t + 6] = "LF"
             /\ Part(h, t + 6, Flat(HeaderLines(s)))
             /\ h[BlankAt(s) + 1] = "CR" /\ h[BlankAt(s) + 2] = "LF"
<1> DEFINE a == <<s.method, "SP">>
           x == s.target
           c == <<"SP", s.version, "CR", "LF">>
           d == Flat(HeaderLines(s))
           e == <<"CR", "LF">>
           t == Len(x)
           ax == a \o x
           axc == ax \o c
           axcd == axc \o d
           h == axcd \o e
<1>1. HeadOf(s) = h
  BY DEF HeadOf, HeaderLines
<1>2. /\ a \in Seq(Byte) /\ x \in Seq(Byte) /\ c \in Seq(Byte)
      /\ d \in Seq(Byte) /\ e \in Seq(Byte)
  <2>1. /\ s.method \in Letters /\ s.version \in {"HTTP/1.0", "HTTP/1.1"}
        /\ s.target \in Seq(Byte \ {"SP"})
    BY DEF WellFormed, Bytes
  <2>2. s.method \in Byte /\ s.version \in Byte
    BY <2>1, ByteKinds
  <2>3. x \in Seq(Byte)
    <3> DEFINE T == Byte \ {"SP"}
               B == Byte
    <3>1. T \subseteq B
      OBVIOUS
    <3> HIDE DEF T, B, x
    <3>2. x \in Seq(T)
      BY <2>1 DEF T, x
    <3>3. x \in Seq(B)
      BY <3>1, <3>2
    <3> QED
      BY <3>3 DEF B
  <2>4. d \in Seq(Byte)
    BY LinesAre
  <2>5. \A v, w \in Byte : <<v, w>> \in Seq(Byte)
    OBVIOUS
  <2>6. \A v, w, y, z \in Byte : <<v, w, y, z>> \in Seq(Byte)
    OBVIOUS
  <2>7. "SP" \in Byte /\ "CR" \in Byte /\ "LF" \in Byte
    BY ByteKinds
  <2> QED
    BY <2>2, <2>3, <2>4, <2>5, <2>6, <2>7
<1>3. /\ Len(a) = 2 /\ Len(c) = 4 /\ Len(e) = 2
      /\ a[1] = s.method /\ a[2] = "SP"
      /\ c[1] = "SP" /\ c[2] = s.version /\ c[3] = "CR" /\ c[4] = "LF"
      /\ e[1] = "CR" /\ e[2] = "LF"
  OBVIOUS
<1>4. t \in Nat /\ Len(d) \in Nat /\ BlankAt(s) = (6 + t) + Len(d)
  BY LinesAre
<1>5. Len(x) = t
  OBVIOUS
<1> DEFINE l == Len(d)
<1> HIDE DEF a, c, d, e, x, t
<1>6. /\ ax \in Seq(Byte) /\ Len(ax) = t + 2
      /\ Part(ax, 0, a) /\ Part(ax, 2, x)
  <2>1. /\ ax \in Seq(Byte) /\ Len(ax) = Len(a) + Len(x)
        /\ Part(ax, 0, a) /\ Part(ax, Len(a), x)
    BY <1>2, JoinedBytes
  <2> QED
    BY <1>3, <1>4, <1>5, <2>1
<1> HIDE DEF ax
<1>7. /\ axc \in Seq(Byte) /\ Len(axc) = t + 6
      /\ Part(axc, 0, ax) /\ Part(axc, t + 2, c)
  <2>1. /\ axc \in Seq(Byte) /\ Len(axc) = Len(ax) + Len(c)
        /\ Part(axc, 0, ax) /\ Part(axc, Len(ax), c)
    BY <1>2, <1>6, JoinedBytes
  <2> QED
    BY <1>3, <1>4, <1>6, <2>1
<1> HIDE DEF axc
<1>8. /\ axcd \in Seq(Byte) /\ Len(axcd) = (t + 6) + l
      /\ Part(axcd, 0, axc) /\ Part(axcd, t + 6, d)
  <2>1. /\ axcd \in Seq(Byte) /\ Len(axcd) = Len(axc) + Len(d)
        /\ Part(axcd, 0, axc) /\ Part(axcd, Len(axc), d)
    BY <1>2, <1>7, JoinedBytes
  <2> QED
    BY <1>4, <1>7, <2>1
<1> HIDE DEF axcd
<1>9. /\ h \in Seq(Byte) /\ Len(h) = ((t + 6) + l) + 2
      /\ Part(h, 0, axcd) /\ Part(h, (t + 6) + l, e)
  <2>1. /\ h \in Seq(Byte) /\ Len(h) = Len(axcd) + Len(e)
        /\ Part(h, 0, axcd) /\ Part(h, Len(axcd), e)
    BY <1>2, <1>8, JoinedBytes
  <2> QED
    BY <1>3, <1>4, <1>8, <2>1
<1>10. Len(d) = l /\ l \in Nat
  BY <1>4
<1> HIDE DEF h, l
<1>11. Part(h, 0, axc)
  <2>1. /\ 0 \in Int /\ 0 \in Nat /\ 0 = 0 + 0 /\ 0 + Len(axc) <= Len(axcd)
        /\ Len(axc) \in Nat /\ Len(axcd) \in Nat
    BY <1>4, <1>7, <1>8, <1>10
  <2> QED
    BY <1>8, <1>9, <2>1, PartOf, Zenon
<1>12. Part(h, 0, ax)
  <2>1. /\ 0 \in Int /\ 0 \in Nat /\ 0 = 0 + 0 /\ 0 + Len(ax) <= Len(axc)
        /\ Len(axc) \in Nat /\ Len(ax) \in Nat
    BY <1>4, <1>6, <1>7
  <2> QED
    BY <1>7, <1>11, <2>1, PartOf, Zenon
<1>13. Part(h, 0, a)
  <2>1. /\ 0 \in Int /\ 0 \in Nat /\ 0 = 0 + 0 /\ 0 + Len(a) <= Len(ax)
        /\ Len(a) \in Nat /\ Len(ax) \in Nat
    BY <1>3, <1>4, <1>6
  <2> QED
    BY <1>6, <1>12, <2>1, PartOf, Zenon
<1>14. Part(h, 2, x)
  <2>1. /\ 0 \in Int /\ 2 \in Nat /\ 2 = 0 + 2 /\ 2 + Len(x) <= Len(ax)
        /\ Len(x) \in Nat /\ Len(ax) \in Nat
    BY <1>4, <1>5, <1>6
  <2> QED
    BY <1>6, <1>12, <2>1, PartOf, Zenon
<1>15. Part(h, t + 2, c)
  <2>1. /\ 0 \in Int /\ t + 2 \in Nat /\ t + 2 = 0 + (t + 2)
        /\ (t + 2) + Len(c) <= Len(axc)
        /\ Len(c) \in Nat /\ Len(axc) \in Nat
    BY <1>3, <1>4, <1>7
  <2> QED
    BY <1>7, <1>11, <2>1, PartOf, Zenon
<1>16. Part(h, t + 6, d)
  <2>1. /\ 0 \in Int /\ t + 6 \in Nat /\ t + 6 = 0 + (t + 6)
        /\ (t + 6) + Len(d) <= Len(axcd)
        /\ Len(d) \in Nat /\ Len(axcd) \in Nat
    BY <1>4, <1>8, <1>10
  <2> QED
    BY <1>8, <1>9, <2>1, PartOf, Zenon
<1>17. h[1] = s.method /\ h[2] = "SP"
  BY <1>3, <1>13 DEF Part
<1>18. h[t + 3] = "SP" /\ h[t + 4] = s.version /\ h[t + 5] = "CR"
       /\ h[t + 6] = "LF"
  <2>1. \A j \in 1 .. 4 : h[(t + 2) + j] = c[j]
    BY <1>3, <1>15 DEF Part
  <2>2. /\ (t + 2) + 1 = t + 3 /\ (t + 2) + 2 = t + 4
        /\ (t + 2) + 3 = t + 5 /\ (t + 2) + 4 = t + 6
    BY <1>4
  <2>3. /\ h[(t + 2) + 1] = c[1] /\ h[(t + 2) + 2] = c[2]
        /\ h[(t + 2) + 3] = c[3] /\ h[(t + 2) + 4] = c[4]
    BY <2>1
  <2> QED
    BY <1>3, <2>2, <2>3
<1>19. h[BlankAt(s) + 1] = "CR" /\ h[BlankAt(s) + 2] = "LF"
  <2>1. h[((t + 6) + l) + 1] = e[1] /\ h[((t + 6) + l) + 2] = e[2]
    BY <1>3, <1>9 DEF Part
  <2>2. (t + 6) + l = BlankAt(s)
    BY <1>4, <1>10
  <2> QED
    BY <1>3, <2>1, <2>2
<1>20. Len(h) = HeadLen(s) /\ Len(h) \in Nat
  BY <1>4, <1>9, <1>10 DEF HeadLen
<1> QED
  BY <1>1, <1>9, <1>14, <1>16, <1>17, <1>18, <1>19, <1>20 DEF d, x, t


\* A request, byte by byte.
LEMMA Layout ==
  ASSUME NEW s \in Shapes, WellFormed(s), LimitsAllow
  PROVE  LET W == Wire[s]
             t == Len(s.target)
             n == Count(s)
         IN  /\ W \in Seq(Byte) /\ HeadLen(s) \in Nat /\ Size(s) \in Nat
             /\ Len(W) = HeadLen(s) + Size(s)
             /\ n \in Nat \ {0} /\ t \in Nat \ {0}
             /\ W[1] = s.method /\ W[2] = "SP"
             /\ \A j \in 1 .. t : W[2 + j] = s.target[j]
             /\ W[t + 3] = "SP" /\ W[t + 4] = s.version
             /\ W[t + 5] = "CR" /\ W[t + 6] = "LF"
             /\ LineAt(s, 1) = t + 6
             /\ \A i \in 1 .. n :
                  LET line == LineAt(s, i)
                      k    == KeyLen(s, i)
                      v    == TextLen(s, i)
                  IN  /\ line \in Nat /\ t + 6 <= line
                      /\ k \in Nat \ {0} /\ v \in Nat \ {0}
                      /\ LineAt(s, i + 1) = line + k + v + 4
                      /\ LineAt(s, i + 1) <= BlankAt(s)
                      /\ \A j \in 1 .. k : W[line + j] = Headers(s)[i][1][j]
                      /\ W[line + k + 1] = ":" /\ W[line + k + 2] = "SP"
                      /\ \A j \in 1 .. v :
                           W[(line + k + 2) + j] = Headers(s)[i][2][j]
                      /\ W[line + k + v + 3] = "CR"
                      /\ W[line + k + v + 4] = "LF"
             /\ BlankAt(s) \in Nat /\ HeadLen(s) = BlankAt(s) + 2
             /\ W[BlankAt(s) + 1] = "CR" /\ W[BlankAt(s) + 2] = "LF"
             /\ \A j \in 1 .. Size(s) : W[HeadLen(s) + j] = Flat(s.chunks)[j]
<1> DEFINE W == Wire[s]
           h == HeadOf(s)
           b == Flat(s.chunks)
           t == Len(s.target)
           n == Count(s)
           d == Flat(HeaderLines(s))
           y == BlankAt(s)
           z == HeadLen(s)
<1>1. /\ h \in Seq(Byte) /\ Len(h) = z /\ Len(h) \in Nat
      /\ h[1] = s.method /\ h[2] = "SP" /\ Part(h, 2, s.target)
      /\ h[t + 3] = "SP" /\ h[t + 4] = s.version
      /\ h[t + 5] = "CR" /\ h[t + 6] = "LF"
      /\ Part(h, t + 6, d)
      /\ h[y + 1] = "CR" /\ h[y + 2] = "LF"
  BY HeadIs
<1>2. /\ W \in Seq(Byte) /\ Len(W) = Len(h) + Len(b)
      /\ b \in Seq(Byte) /\ Len(h) \in Nat /\ Len(b) \in Nat
      /\ Part(W, 0, h) /\ Part(W, Len(h), b)
  BY <1>1, WireIs
<1>3. /\ d \in Seq(Byte) /\ Len(d) \in Nat
      /\ t \in Nat \ {0} /\ LineAt(s, 1) = 6 + t /\ y = (6 + t) + Len(d)
      /\ \A i \in 1 .. n :
           /\ LineAt(s, i) \in Nat /\ 6 + t <= LineAt(s, i)
           /\ LineAt(s, i + 1)
                = LineAt(s, i) + KeyLen(s, i) + TextLen(s, i) + 4
           /\ LineAt(s, i + 1) <= y
           /\ Part(d, LineAt(s, i) - (6 + t), Framed(Headers(s)[i]))
  BY LinesAre
<1>4. n \in Nat \ {0} /\ Size(s) = Len(b)
  BY HeadersAre DEF Size
<1>5. z = y + 2
  BY DEF HeadLen
<1> DEFINE l == Len(d)
<1>6. /\ l \in Nat /\ y = (6 + t) + l /\ t \in Nat \ {0} /\ y \in Nat
      /\ z \in Nat
  BY <1>3, <1>5
<1> HIDE DEF W, h, b, t, n, d, y, z, l
<1>7. \A j \in 1 .. z : W[j] = h[j]
  <2>1. \A j \in 1 .. Len(h) : W[0 + j] = h[j]
    BY <1>2 DEF Part
  <2>2. \A j \in 1 .. z : 0 + j = j
    BY <1>6
  <2> QED
    BY <1>1, <2>1, <2>2
<1>8. /\ W[1] = s.method /\ W[2] = "SP"
      /\ W[t + 3] = "SP" /\ W[t + 4] = s.version
      /\ W[t + 5] = "CR" /\ W[t + 6] = "LF"
      /\ W[y + 1] = "CR" /\ W[y + 2] = "LF"
  <2>1. /\ 1 \in 1 .. z /\ 2 \in 1 .. z /\ t + 3 \in 1 .. z /\ t + 4 \in 1 .. z
        /\ t + 5 \in 1 .. z /\ t + 6 \in 1 .. z
        /\ y + 1 \in 1 .. z /\ y + 2 \in 1 .. z
    BY <1>5, <1>6
  <2> QED
    BY <1>1, <1>7, <2>1
<1>9. \A j \in 1 .. t : W[2 + j] = s.target[j]
  <2>1. \A j \in 1 .. t : 2 + j \in 1 .. z
    BY <1>5, <1>6
  <2>2. \A j \in 1 .. t : h[2 + j] = s.target[j]
    BY <1>1 DEF Part, t
  <2> QED
    BY <1>7, <2>1, <2>2
<1>10. \A j \in 1 .. Size(s) : W[z + j] = b[j]
  BY <1>1, <1>2, <1>4 DEF Part
<1>11. ASSUME NEW i \in 1 .. n
       PROVE  LET line == LineAt(s, i)
                  k    == KeyLen(s, i)
                  v    == TextLen(s, i)
              IN  /\ line \in Nat /\ t + 6 <= line
                  /\ k \in Nat \ {0} /\ v \in Nat \ {0}
                  /\ LineAt(s, i + 1) = line + k + v + 4
                  /\ LineAt(s, i + 1) <= y
                  /\ \A j \in 1 .. k : W[line + j] = Headers(s)[i][1][j]
                  /\ W[line + k + 1] = ":" /\ W[line + k + 2] = "SP"
                  /\ \A j \in 1 .. v :
                       W[(line + k + 2) + j] = Headers(s)[i][2][j]
                  /\ W[line + k + v + 3] = "CR"
                  /\ W[line + k + v + 4] = "LF"
  <2> DEFINE line == LineAt(s, i)
             next == LineAt(s, i + 1)
             k    == KeyLen(s, i)
             v    == TextLen(s, i)
             p    == Headers(s)[i]
             f    == Framed(p)
  <2>1. /\ line \in Nat /\ 6 + t <= line /\ next = line + k + v + 4
        /\ next <= y /\ Part(d, line - (6 + t), f)
    BY <1>3
  <2>2. /\ p[1] \in Seq(Byte) /\ p[2] \in Seq(Byte)
        /\ k = Len(p[1]) /\ v = Len(p[2]) /\ k \in Nat \ {0} /\ v \in Nat \ {0}
    BY HeaderIs DEF n
  <2>3. /\ f \in Seq(Byte) /\ Len(f) = k + v + 4
        /\ Part(f, 0, p[1]) /\ Part(f, k + 2, p[2])
        /\ f[k + 1] = ":" /\ f[k + 2] = "SP"
        /\ f[k + v + 3] = "CR" /\ f[k + v + 4] = "LF"
    BY <2>2, FramedIs
  <2> HIDE DEF line, next, k, v, p, f
  <2>10. /\ line \in Nat /\ 6 + t <= line /\ next = line + k + v + 4
         /\ next <= y /\ k \in Nat \ {0} /\ v \in Nat \ {0}
    BY <2>1, <2>2
  <2>4. Part(h, line, f)
    <3>1. /\ t + 6 \in Int /\ line - (6 + t) \in Nat
          /\ line = (t + 6) + (line - (6 + t))
          /\ (line - (6 + t)) + Len(f) <= Len(d)
          /\ Len(f) \in Nat /\ Len(d) \in Nat
      <4>1. Len(d) = l /\ Len(f) = k + v + 4
        BY <2>3 DEF l
      <4> QED
        BY <1>6, <2>10, <4>1
    <3> QED
      BY <1>1, <2>1, <3>1, PartOf, Zenon
  <2>5. \A j \in 1 .. (k + v + 4) : W[line + j] = f[j]
    <3>1. \A j \in 1 .. (k + v + 4) : line + j \in 1 .. z
      BY <1>5, <1>6, <2>10
    <3>2. \A j \in 1 .. (k + v + 4) : h[line + j] = f[j]
      BY <2>3, <2>4 DEF Part
    <3> QED
      BY <1>7, <3>1, <3>2
  <2>6. ASSUME NEW j \in 1 .. k
        PROVE  W[line + j] = p[1][j]
    <3>1. j \in 1 .. (k + v + 4) /\ 0 + j = j
      BY <2>10
    <3>2. f[0 + j] = p[1][j]
      BY <2>2, <2>3 DEF Part
    <3> QED
      BY <2>5, <3>1, <3>2
  <2>7. ASSUME NEW j \in 1 .. v
        PROVE  W[(line + k + 2) + j] = p[2][j]
    <3>1. /\ (k + 2) + j \in 1 .. (k + v + 4)
          /\ line + ((k + 2) + j) = (line + k + 2) + j
      BY <2>10
    <3>2. f[(k + 2) + j] = p[2][j]
      BY <2>2, <2>3 DEF Part
    <3>3. W[line + ((k + 2) + j)] = f[(k + 2) + j]
      BY <2>5, <3>1
    <3> QED
      BY <3>1, <3>2, <3>3
  <2>8. /\ W[line + k + 1] = ":" /\ W[line + k + 2] = "SP"
        /\ W[line + k + v + 3] = "CR" /\ W[line + k + v + 4] = "LF"
    <3>1. /\ k + 1 \in 1 .. (k + v + 4) /\ k + 2 \in 1 .. (k + v + 4)
          /\ k + v + 3 \in 1 .. (k + v + 4) /\ k + v + 4 \in 1 .. (k + v + 4)
          /\ line + (k + 1) = line + k + 1 /\ line + (k + 2) = line + k + 2
          /\ line + (k + v + 3) = line + k + v + 3
          /\ line + (k + v + 4) = line + k + v + 4
      BY <2>10
    <3>2. /\ W[line + (k + 1)] = f[k + 1] /\ W[line + (k + 2)] = f[k + 2]
          /\ W[line + (k + v + 3)] = f[k + v + 3]
          /\ W[line + (k + v + 4)] = f[k + v + 4]
      BY <2>5, <3>1
    <3> QED
      BY <2>3, <3>1, <3>2
  <2>9. t + 6 <= line
    BY <1>6, <2>1
  <2> QED
    BY <2>1, <2>2, <2>6, <2>7, <2>8, <2>9 DEF line, next, k, v, p
<1>12. LineAt(s, 1) = t + 6
  BY <1>3, <1>6
<1>13. Len(W) = z + Size(s) /\ Size(s) \in Nat
  BY <1>1, <1>2, <1>4
<1> QED
  BY <1>2, <1>4, <1>5, <1>6, <1>8, <1>9, <1>10, <1>11, <1>12, <1>13
  DEF W, b, t, n, y, z


-----------------------------------------------------------------------------
(* The transitions of the states a request goes through.                   *)

All(cs) == RequestLine(cs) \cup HeaderKey(cs) \cup HeaderValue(cs)
             \cup NextChunk(cs) \cup FirstChunk(cs) \cup PlainBody(cs)

\* In a state a byte leads to a state, by some actions.
Goes(cs, b, to, do) ==
  Transition[cs][b].to = to /\ Transition[cs][b].do = do

\* All entries of a state's table for a byte being alike, that is what it does.
LEMMA GoesIf ==
  ASSUME NEW cs \in State, NEW b \in Byte, NEW to, NEW do,
         \E e \in All(cs) : b \in e.on,
         \A e \in All(cs) : b \in e.on => e.to = to /\ e.do = do
  PROVE  Goes(cs, b, to, do)
<1> DEFINE some == {e \in All(cs) : b \in e.on}
<1>1. Transition[cs][b] = Match(cs, b)
  BY DEF Transition
<1>2. Match(cs, b) = IF some = {} THEN On({}, "error", <<"error">>)
                     ELSE CHOOSE e \in some : TRUE
  BY DEF Match, All
<1>3. some # {}
  OBVIOUS
<1>4. Transition[cs][b] \in some
  <2> HIDE DEF some
  <2>1. (CHOOSE e \in some : TRUE) \in some
    BY <1>3
  <2> QED
    BY <1>1, <1>2, <1>3, <2>1
<1> QED
  BY <1>4 DEF Goes

\* The tables of those states.
LEMMA Tables ==
  /\ All("start") =
       {On(Letters, "method", <<"method", "inc_count">>)}
  /\ All("method") =
       {On(Letters, "method", <<"inc_count">>),
         On({"SP"}, "target0", <<"emit_token">>)}
  /\ All("target0") =
       {On(Byte \ {"SP"}, "target", <<"target", "inc_count">>)}
  /\ All("target") =
       {On(Byte \ {"SP"}, "target", <<"inc_count">>),
         On({"SP"}, "version0", <<"emit_token">>)}
  /\ All("version0") =
       {On({"HTTP/1.0", "HTTP/1.1"}, "version", <<"version">>)}
  /\ All("version") =
       {On({"CR"}, "line_end", <<"emit_token">>)}
  /\ All("line_end") =
       {On({"LF"}, "header0", <<>>)}
  /\ All("header0") =
       KeyStart(<<"reset_count", "header_key", "inc_count">>)
         \cup {On({"CR"}, "key",
                  <<"reset_count", "header_key", "inc_count">>)}
  /\ All("header") =
       KeyStart(<<"header_key", "reset_count", "inc_count">>)
         \cup {On({"CR"}, "blank",
                  <<"header_key", "reset_count", "inc_count">>)}
  /\ All("blank") =
       {On({"LF"}, "final", <<"inc_count", "done_headers">>),
         On(TokenByte \ {"LF"}, "key", <<"inc_count">>),
         On({":"}, "colon", <<"emit_token">>)}
  /\ All("key") =
       {On(TokenByte, "key", <<"inc_count">>),
         On({":"}, "colon", <<"emit_token">>)}
  /\ All("cl_key") =
       {On(TokenByte, "key", <<"inc_count">>),
         On({":"}, "cl_colon", <<"emit_token">>)}
  /\ All("colon") =
       {On({"SP"}, "ows", <<>>)}
  /\ All("cl_colon") =
       {On({"SP"}, "cl_ows", <<>>)}
  /\ All("ows") =
       ValueStart("ows", {})
  /\ All("cl_ows") =
       ValueStart("cl_ows", Digit)
         \cup {On(Digit, "cl_digits", <<"content_length_digit",
                                       "header_value", "inc_count">>)}
  /\ All("cl_digits") =
       {On(Digit, "cl_digits", <<"content_length_digit", "inc_count">>),
         On({"CR"}, "value_end", <<"emit_token">>),
         On(Byte \ (Digit \cup {"CR", "LF"}), "value", <<"inc_count">>)}
  /\ All("value") =
       {On({"CR"}, "value_end", <<"emit_token">>),
         On(Byte \ {"CR", "LF"}, "value", <<"inc_count">>)}
  /\ All("value_end") =
       {On({"LF"}, "header", <<"inc_count">>)}
  /\ All("small_body") =
       {On(Byte, "small", <<"body", "small_body_read">>)}
  /\ All("small") =
       {On(Byte, "small", <<"small_body_read">>)}
<1>1. All("start") =
       {On(Letters, "method", <<"method", "inc_count">>)}
  <2>1. RequestLine("start") =
          {On(Letters, "method", <<"method", "inc_count">>)}
    BY DEF RequestLine
  <2>2. /\ HeaderKey("start") = {}
        /\ HeaderValue("start") = {}
        /\ NextChunk("start") = {}
        /\ FirstChunk("start") = {}
        /\ PlainBody("start") = {}
    BY DEF HeaderKey, HeaderValue, NextChunk, FirstChunk,
           PlainBody
  <2> QED
    BY <2>1, <2>2 DEF All
<1>2. All("method") =
       {On(Letters, "method", <<"inc_count">>),
         On({"SP"}, "target0", <<"emit_token">>)}
  <2>1. RequestLine("method") =
          {On(Letters, "method", <<"inc_count">>),
            On({"SP"}, "target0", <<"emit_token">>)}
    BY DEF RequestLine
  <2>2. /\ HeaderKey("method") = {}
        /\ HeaderValue("method") = {}
        /\ NextChunk("method") = {}
        /\ FirstChunk("method") = {}
        /\ PlainBody("method") = {}
    BY DEF HeaderKey, HeaderValue, NextChunk, FirstChunk,
           PlainBody
  <2> QED
    BY <2>1, <2>2 DEF All
<1>3. All("target0") =
       {On(Byte \ {"SP"}, "target", <<"target", "inc_count">>)}
  <2>1. RequestLine("target0") =
          {On(Byte \ {"SP"}, "target", <<"target", "inc_count">>)}
    BY DEF RequestLine
  <2>2. /\ HeaderKey("target0") = {}
        /\ HeaderValue("target0") = {}
        /\ NextChunk("target0") = {}
        /\ FirstChunk("target0") = {}
        /\ PlainBody("target0") = {}
    BY DEF HeaderKey, HeaderValue, NextChunk, FirstChunk,
           PlainBody
  <2> QED
    BY <2>1, <2>2 DEF All
<1>4. All("target") =
       {On(Byte \ {"SP"}, "target", <<"inc_count">>),
         On({"SP"}, "version0", <<"emit_token">>)}
  <2>1. RequestLine("target") =
          {On(Byte \ {"SP"}, "target", <<"inc_count">>),
            On({"SP"}, "version0", <<"emit_token">>)}
    BY DEF RequestLine
  <2>2. /\ HeaderKey("target") = {}
        /\ HeaderValue("target") = {}
        /\ NextChunk("target") = {}
        /\ FirstChunk("target") = {}
        /\ PlainBody("target") = {}
    BY DEF HeaderKey, HeaderValue, NextChunk, FirstChunk,
           PlainBody
  <2> QED
    BY <2>1, <2>2 DEF All
<1>5. All("version0") =
       {On({"HTTP/1.0", "HTTP/1.1"}, "version", <<"version">>)}
  <2>1. RequestLine("version0") =
          {On({"HTTP/1.0", "HTTP/1.1"}, "version", <<"version">>)}
    BY DEF RequestLine
  <2>2. /\ HeaderKey("version0") = {}
        /\ HeaderValue("version0") = {}
        /\ NextChunk("version0") = {}
        /\ FirstChunk("version0") = {}
        /\ PlainBody("version0") = {}
    BY DEF HeaderKey, HeaderValue, NextChunk, FirstChunk,
           PlainBody
  <2> QED
    BY <2>1, <2>2 DEF All
<1>6. All("version") =
       {On({"CR"}, "line_end", <<"emit_token">>)}
  <2>1. RequestLine("version") =
          {On({"CR"}, "line_end", <<"emit_token">>)}
    BY DEF RequestLine
  <2>2. /\ HeaderKey("version") = {}
        /\ HeaderValue("version") = {}
        /\ NextChunk("version") = {}
        /\ FirstChunk("version") = {}
        /\ PlainBody("version") = {}
    BY DEF HeaderKey, HeaderValue, NextChunk, FirstChunk,
           PlainBody
  <2> QED
    BY <2>1, <2>2 DEF All
<1>7. All("line_end") =
       {On({"LF"}, "header0", <<>>)}
  <2>1. RequestLine("line_end") =
          {On({"LF"}, "header0", <<>>)}
    BY DEF RequestLine
  <2>2. /\ HeaderKey("line_end") = {}
        /\ HeaderValue("line_end") = {}
        /\ NextChunk("line_end") = {}
        /\ FirstChunk("line_end") = {}
        /\ PlainBody("line_end") = {}
    BY DEF HeaderKey, HeaderValue, NextChunk, FirstChunk,
           PlainBody
  <2> QED
    BY <2>1, <2>2 DEF All
<1>8. All("header0") =
       KeyStart(<<"reset_count", "header_key", "inc_count">>)
         \cup {On({"CR"}, "key",
                  <<"reset_count", "header_key", "inc_count">>)}
  <2>1. HeaderKey("header0") =
          KeyStart(<<"reset_count", "header_key", "inc_count">>)
            \cup {On({"CR"}, "key",
                     <<"reset_count", "header_key", "inc_count">>)}
    BY DEF HeaderKey
  <2>2. /\ RequestLine("header0") = {}
        /\ HeaderValue("header0") = {}
        /\ NextChunk("header0") = {}
        /\ FirstChunk("header0") = {}
        /\ PlainBody("header0") = {}
    BY DEF RequestLine, HeaderValue, NextChunk, FirstChunk,
           PlainBody
  <2> QED
    BY <2>1, <2>2 DEF All
<1>9. All("header") =
       KeyStart(<<"header_key", "reset_count", "inc_count">>)
         \cup {On({"CR"}, "blank",
                  <<"header_key", "reset_count", "inc_count">>)}
  <2>1. HeaderKey("header") =
          KeyStart(<<"header_key", "reset_count", "inc_count">>)
            \cup {On({"CR"}, "blank",
                     <<"header_key", "reset_count", "inc_count">>)}
    BY DEF HeaderKey
  <2>2. /\ RequestLine("header") = {}
        /\ HeaderValue("header") = {}
        /\ NextChunk("header") = {}
        /\ FirstChunk("header") = {}
        /\ PlainBody("header") = {}
    BY DEF RequestLine, HeaderValue, NextChunk, FirstChunk,
           PlainBody
  <2> QED
    BY <2>1, <2>2 DEF All
<1>10. All("blank") =
       {On({"LF"}, "final", <<"inc_count", "done_headers">>),
         On(TokenByte \ {"LF"}, "key", <<"inc_count">>),
         On({":"}, "colon", <<"emit_token">>)}
  <2>1. HeaderKey("blank") =
          {On({"LF"}, "final", <<"inc_count", "done_headers">>),
            On(TokenByte \ {"LF"}, "key", <<"inc_count">>),
            On({":"}, "colon", <<"emit_token">>)}
    BY DEF HeaderKey
  <2>2. /\ RequestLine("blank") = {}
        /\ HeaderValue("blank") = {}
        /\ NextChunk("blank") = {}
        /\ FirstChunk("blank") = {}
        /\ PlainBody("blank") = {}
    BY DEF RequestLine, HeaderValue, NextChunk, FirstChunk,
           PlainBody
  <2> QED
    BY <2>1, <2>2 DEF All
<1>11. All("key") =
       {On(TokenByte, "key", <<"inc_count">>),
         On({":"}, "colon", <<"emit_token">>)}
  <2>1. HeaderKey("key") =
          {On(TokenByte, "key", <<"inc_count">>),
            On({":"}, "colon", <<"emit_token">>)}
    BY DEF HeaderKey
  <2>2. /\ RequestLine("key") = {}
        /\ HeaderValue("key") = {}
        /\ NextChunk("key") = {}
        /\ FirstChunk("key") = {}
        /\ PlainBody("key") = {}
    BY DEF RequestLine, HeaderValue, NextChunk, FirstChunk,
           PlainBody
  <2> QED
    BY <2>1, <2>2 DEF All
<1>12. All("cl_key") =
       {On(TokenByte, "key", <<"inc_count">>),
         On({":"}, "cl_colon", <<"emit_token">>)}
  <2>1. HeaderKey("cl_key") =
          {On(TokenByte, "key", <<"inc_count">>),
            On({":"}, "cl_colon", <<"emit_token">>)}
    BY DEF HeaderKey
  <2>2. /\ RequestLine("cl_key") = {}
        /\ HeaderValue("cl_key") = {}
        /\ NextChunk("cl_key") = {}
        /\ FirstChunk("cl_key") = {}
        /\ PlainBody("cl_key") = {}
    BY DEF RequestLine, HeaderValue, NextChunk, FirstChunk,
           PlainBody
  <2> QED
    BY <2>1, <2>2 DEF All
<1>13. All("colon") =
       {On({"SP"}, "ows", <<>>)}
  <2>1. HeaderValue("colon") =
          {On({"SP"}, "ows", <<>>)}
    BY DEF HeaderValue
  <2>2. /\ RequestLine("colon") = {}
        /\ HeaderKey("colon") = {}
        /\ NextChunk("colon") = {}
        /\ FirstChunk("colon") = {}
        /\ PlainBody("colon") = {}
    BY DEF RequestLine, HeaderKey, NextChunk, FirstChunk,
           PlainBody
  <2> QED
    BY <2>1, <2>2 DEF All
<1>14. All("cl_colon") =
       {On({"SP"}, "cl_ows", <<>>)}
  <2>1. HeaderValue("cl_colon") =
          {On({"SP"}, "cl_ows", <<>>)}
    BY DEF HeaderValue
  <2>2. /\ RequestLine("cl_colon") = {}
        /\ HeaderKey("cl_colon") = {}
        /\ NextChunk("cl_colon") = {}
        /\ FirstChunk("cl_colon") = {}
        /\ PlainBody("cl_colon") = {}
    BY DEF RequestLine, HeaderKey, NextChunk, FirstChunk,
           PlainBody
  <2> QED
    BY <2>1, <2>2 DEF All
<1>15. All("ows") =
       ValueStart("ows", {})
  <2>1. HeaderValue("ows") =
          ValueStart("ows", {})
    BY DEF HeaderValue
  <2>2. /\ RequestLine("ows") = {}
        /\ HeaderKey("ows") = {}
        /\ NextChunk("ows") = {}
        /\ FirstChunk("ows") = {}
        /\ PlainBody("ows") = {}
    BY DEF RequestLine, HeaderKey, NextChunk, FirstChunk,
           PlainBody
  <2> QED
    BY <2>1, <2>2 DEF All
<1>16. All("cl_ows") =
       ValueStart("cl_ows", Digit)
         \cup {On(Digit, "cl_digits", <<"content_length_digit",
                                       "header_value", "inc_count">>)}
  <2>1. HeaderValue("cl_ows") =
          ValueStart("cl_ows", Digit)
            \cup {On(Digit, "cl_digits", <<"content_length_digit",
                                          "header_value", "inc_count">>)}
    BY DEF HeaderValue
  <2>2. /\ RequestLine("cl_ows") = {}
        /\ HeaderKey("cl_ows") = {}
        /\ NextChunk("cl_ows") = {}
        /\ FirstChunk("cl_ows") = {}
        /\ PlainBody("cl_ows") = {}
    BY DEF RequestLine, HeaderKey, NextChunk, FirstChunk,
           PlainBody
  <2> QED
    BY <2>1, <2>2 DEF All
<1>17. All("cl_digits") =
       {On(Digit, "cl_digits", <<"content_length_digit", "inc_count">>),
         On({"CR"}, "value_end", <<"emit_token">>),
         On(Byte \ (Digit \cup {"CR", "LF"}), "value", <<"inc_count">>)}
  <2>1. HeaderValue("cl_digits") =
          {On(Digit, "cl_digits", <<"content_length_digit", "inc_count">>),
            On({"CR"}, "value_end", <<"emit_token">>),
            On(Byte \ (Digit \cup {"CR", "LF"}), "value", <<"inc_count">>)}
    BY DEF HeaderValue
  <2>2. /\ RequestLine("cl_digits") = {}
        /\ HeaderKey("cl_digits") = {}
        /\ NextChunk("cl_digits") = {}
        /\ FirstChunk("cl_digits") = {}
        /\ PlainBody("cl_digits") = {}
    BY DEF RequestLine, HeaderKey, NextChunk, FirstChunk,
           PlainBody
  <2> QED
    BY <2>1, <2>2 DEF All
<1>18. All("value") =
       {On({"CR"}, "value_end", <<"emit_token">>),
         On(Byte \ {"CR", "LF"}, "value", <<"inc_count">>)}
  <2>1. HeaderValue("value") =
          {On({"CR"}, "value_end", <<"emit_token">>),
            On(Byte \ {"CR", "LF"}, "value", <<"inc_count">>)}
    BY DEF HeaderValue
  <2>2. /\ RequestLine("value") = {}
        /\ HeaderKey("value") = {}
        /\ NextChunk("value") = {}
        /\ FirstChunk("value") = {}
        /\ PlainBody("value") = {}
    BY DEF RequestLine, HeaderKey, NextChunk, FirstChunk,
           PlainBody
  <2> QED
    BY <2>1, <2>2 DEF All
<1>19. All("value_end") =
       {On({"LF"}, "header", <<"inc_count">>)}
  <2>1. HeaderValue("value_end") =
          {On({"LF"}, "header", <<"inc_count">>)}
    BY DEF HeaderValue
  <2>2. /\ RequestLine("value_end") = {}
        /\ HeaderKey("value_end") = {}
        /\ NextChunk("value_end") = {}
        /\ FirstChunk("value_end") = {}
        /\ PlainBody("value_end") = {}
    BY DEF RequestLine, HeaderKey, NextChunk, FirstChunk,
           PlainBody
  <2> QED
    BY <2>1, <2>2 DEF All
<1>20. All("small_body") =
       {On(Byte, "small", <<"body", "small_body_read">>)}
  <2>1. PlainBody("small_body") =
          {On(Byte, "small", <<"body", "small_body_read">>)}
    BY DEF PlainBody
  <2>2. /\ RequestLine("small_body") = {}
        /\ HeaderKey("small_body") = {}
        /\ HeaderValue("small_body") = {}
        /\ NextChunk("small_body") = {}
        /\ FirstChunk("small_body") = {}
    BY DEF RequestLine, HeaderKey, HeaderValue, NextChunk,
           FirstChunk
  <2> QED
    BY <2>1, <2>2 DEF All
<1>21. All("small") =
       {On(Byte, "small", <<"small_body_read">>)}
  <2>1. PlainBody("small") =
          {On(Byte, "small", <<"small_body_read">>)}
    BY DEF PlainBody
  <2>2. /\ RequestLine("small") = {}
        /\ HeaderKey("small") = {}
        /\ HeaderValue("small") = {}
        /\ NextChunk("small") = {}
        /\ FirstChunk("small") = {}
    BY DEF RequestLine, HeaderKey, HeaderValue, NextChunk,
           FirstChunk
  <2> QED
    BY <2>1, <2>2 DEF All
<1> QED
  BY <1>1, <1>2, <1>3, <1>4, <1>5, <1>6, <1>7, <1>8, <1>9, <1>10, <1>11,
     <1>12, <1>13, <1>14, <1>15, <1>16, <1>17, <1>18, <1>19, <1>20, <1>21


LEMMA OnIs ==
  \A bytes, to, do : /\ On(bytes, to, do).on = bytes
                     /\ On(bytes, to, do).to = to
                     /\ On(bytes, to, do).do = do
BY DEF On

\* What they do on the bytes of a request.
LEMMA Transitions ==
  /\ \A b \in Letters :
       Goes("start", b, "method", <<"method", "inc_count">>)
  /\ \A b \in {"SP"} :
       Goes("method", b, "target0", <<"emit_token">>)
  /\ \A b \in Byte \ {"SP"} :
       Goes("target0", b, "target", <<"target", "inc_count">>)
  /\ \A b \in Byte \ {"SP"} :
       Goes("target", b, "target", <<"inc_count">>)
  /\ \A b \in {"SP"} :
       Goes("target", b, "version0", <<"emit_token">>)
  /\ \A b \in {"HTTP/1.0", "HTTP/1.1"} :
       Goes("version0", b, "version", <<"version">>)
  /\ \A b \in {"CR"} :
       Goes("version", b, "line_end", <<"emit_token">>)
  /\ \A b \in {"LF"} :
       Goes("line_end", b, "header0", <<>>)
  /\ \A b \in TokenByte \ (Names \cup {"CR"}) :
       Goes("header0", b, "key", <<"reset_count", "header_key", "inc_count">>)
  /\ \A b \in {"Content-Length"} :
       Goes("header0", b, "cl_key",
            <<"reset_count", "header_key", "inc_count">>)
  /\ \A b \in TokenByte \ (Names \cup {"CR"}) :
       Goes("header", b, "key", <<"header_key", "reset_count", "inc_count">>)
  /\ \A b \in {"Content-Length"} :
       Goes("header", b, "cl_key",
            <<"header_key", "reset_count", "inc_count">>)
  /\ \A b \in {"CR"} :
       Goes("header", b, "blank",
            <<"header_key", "reset_count", "inc_count">>)
  /\ \A b \in {"LF"} :
       Goes("blank", b, "final", <<"inc_count", "done_headers">>)
  /\ \A b \in TokenByte :
       Goes("key", b, "key", <<"inc_count">>)
  /\ \A b \in {":"} :
       Goes("key", b, "colon", <<"emit_token">>)
  /\ \A b \in {":"} :
       Goes("cl_key", b, "cl_colon", <<"emit_token">>)
  /\ \A b \in {"SP"} :
       Goes("colon", b, "ows", <<>>)
  /\ \A b \in {"SP"} :
       Goes("cl_colon", b, "cl_ows", <<>>)
  /\ \A b \in Byte \ {"SP", "CR"} :
       Goes("ows", b, "value", <<"header_value", "inc_count">>)
  /\ \A b \in Digit :
       Goes("cl_ows", b, "cl_digits",
            <<"content_length_digit", "header_value", "inc_count">>)
  /\ \A b \in Digit :
       Goes("cl_digits", b, "cl_digits",
            <<"content_length_digit", "inc_count">>)
  /\ \A b \in {"CR"} :
       Goes("cl_digits", b, "value_end", <<"emit_token">>)
  /\ \A b \in Byte \ {"CR", "LF"} :
       Goes("value", b, "value", <<"inc_count">>)
  /\ \A b \in {"CR"} :
       Goes("value", b, "value_end", <<"emit_token">>)
  /\ \A b \in {"LF"} :
       Goes("value_end", b, "header", <<"inc_count">>)
  /\ \A b \in Byte :
       Goes("small_body", b, "small", <<"body", "small_body_read">>)
  /\ \A b \in Byte :
       Goes("small", b, "small", <<"small_body_read">>)
<1>1. \A b \in Letters :
        Goes("start", b, "method", <<"method", "inc_count">>)
  <2> SUFFICES ASSUME NEW b \in Letters
               PROVE  Goes("start", b, "method",
                      <<"method", "inc_count">>)
      OBVIOUS
  <2>1. b \in Byte /\ "start" \in State
    BY ByteKinds DEF State
  <2>2. All("start") =
          {On(Letters, "method", <<"method", "inc_count">>)}
    BY Tables
  <2>3. /\ \E e \in All("start") : b \in e.on
        /\ \A e \in All("start") : b \in e.on =>
             /\ e.to = "method"
             /\ e.do = <<"method", "inc_count">>
    BY <2>2, ByteKinds, OnIs
  <2> QED
    BY <2>1, <2>3, GoesIf
<1>2. \A b \in {"SP"} :
        Goes("method", b, "target0", <<"emit_token">>)
  <2> SUFFICES ASSUME NEW b \in {"SP"}
               PROVE  Goes("method", b, "target0",
                      <<"emit_token">>)
      OBVIOUS
  <2>1. b \in Byte /\ "method" \in State
    BY ByteKinds DEF State
  <2>2. All("method") =
          {On(Letters, "method", <<"inc_count">>),
            On({"SP"}, "target0", <<"emit_token">>)}
    BY Tables
  <2>3. /\ \E e \in All("method") : b \in e.on
        /\ \A e \in All("method") : b \in e.on =>
             /\ e.to = "target0"
             /\ e.do = <<"emit_token">>
    BY <2>2, ByteKinds, OnIs
  <2> QED
    BY <2>1, <2>3, GoesIf
<1>3. \A b \in Byte \ {"SP"} :
        Goes("target0", b, "target", <<"target", "inc_count">>)
  <2> SUFFICES ASSUME NEW b \in Byte \ {"SP"}
               PROVE  Goes("target0", b, "target",
                      <<"target", "inc_count">>)
      OBVIOUS
  <2>1. b \in Byte /\ "target0" \in State
    BY ByteKinds DEF State
  <2>2. All("target0") =
          {On(Byte \ {"SP"}, "target", <<"target", "inc_count">>)}
    BY Tables
  <2>3. /\ \E e \in All("target0") : b \in e.on
        /\ \A e \in All("target0") : b \in e.on =>
             /\ e.to = "target"
             /\ e.do = <<"target", "inc_count">>
    BY <2>2, ByteKinds, OnIs
  <2> QED
    BY <2>1, <2>3, GoesIf
<1>4. \A b \in Byte \ {"SP"} :
        Goes("target", b, "target", <<"inc_count">>)
  <2> SUFFICES ASSUME NEW b \in Byte \ {"SP"}
               PROVE  Goes("target", b, "target",
                      <<"inc_count">>)
      OBVIOUS
  <2>1. b \in Byte /\ "target" \in State
    BY ByteKinds DEF State
  <2>2. All("target") =
          {On(Byte \ {"SP"}, "target", <<"inc_count">>),
            On({"SP"}, "version0", <<"emit_token">>)}
    BY Tables
  <2>3. /\ \E e \in All("target") : b \in e.on
        /\ \A e \in All("target") : b \in e.on =>
             /\ e.to = "target"
             /\ e.do = <<"inc_count">>
    BY <2>2, ByteKinds, OnIs
  <2> QED
    BY <2>1, <2>3, GoesIf
<1>5. \A b \in {"SP"} :
        Goes("target", b, "version0", <<"emit_token">>)
  <2> SUFFICES ASSUME NEW b \in {"SP"}
               PROVE  Goes("target", b, "version0",
                      <<"emit_token">>)
      OBVIOUS
  <2>1. b \in Byte /\ "target" \in State
    BY ByteKinds DEF State
  <2>2. All("target") =
          {On(Byte \ {"SP"}, "target", <<"inc_count">>),
            On({"SP"}, "version0", <<"emit_token">>)}
    BY Tables
  <2>3. /\ \E e \in All("target") : b \in e.on
        /\ \A e \in All("target") : b \in e.on =>
             /\ e.to = "version0"
             /\ e.do = <<"emit_token">>
    BY <2>2, ByteKinds, OnIs
  <2> QED
    BY <2>1, <2>3, GoesIf
<1>6. \A b \in {"HTTP/1.0", "HTTP/1.1"} :
        Goes("version0", b, "version", <<"version">>)
  <2> SUFFICES ASSUME NEW b \in {"HTTP/1.0", "HTTP/1.1"}
               PROVE  Goes("version0", b, "version",
                      <<"version">>)
      OBVIOUS
  <2>1. b \in Byte /\ "version0" \in State
    BY ByteKinds DEF State
  <2>2. All("version0") =
          {On({"HTTP/1.0", "HTTP/1.1"}, "version", <<"version">>)}
    BY Tables
  <2>3. /\ \E e \in All("version0") : b \in e.on
        /\ \A e \in All("version0") : b \in e.on =>
             /\ e.to = "version"
             /\ e.do = <<"version">>
    BY <2>2, ByteKinds, OnIs
  <2> QED
    BY <2>1, <2>3, GoesIf
<1>7. \A b \in {"CR"} :
        Goes("version", b, "line_end", <<"emit_token">>)
  <2> SUFFICES ASSUME NEW b \in {"CR"}
               PROVE  Goes("version", b, "line_end",
                      <<"emit_token">>)
      OBVIOUS
  <2>1. b \in Byte /\ "version" \in State
    BY ByteKinds DEF State
  <2>2. All("version") =
          {On({"CR"}, "line_end", <<"emit_token">>)}
    BY Tables
  <2>3. /\ \E e \in All("version") : b \in e.on
        /\ \A e \in All("version") : b \in e.on =>
             /\ e.to = "line_end"
             /\ e.do = <<"emit_token">>
    BY <2>2, ByteKinds, OnIs
  <2> QED
    BY <2>1, <2>3, GoesIf
<1>8. \A b \in {"LF"} :
        Goes("line_end", b, "header0", <<>>)
  <2> SUFFICES ASSUME NEW b \in {"LF"}
               PROVE  Goes("line_end", b, "header0",
                      <<>>)
      OBVIOUS
  <2>1. b \in Byte /\ "line_end" \in State
    BY ByteKinds DEF State
  <2>2. All("line_end") =
          {On({"LF"}, "header0", <<>>)}
    BY Tables
  <2>3. /\ \E e \in All("line_end") : b \in e.on
        /\ \A e \in All("line_end") : b \in e.on =>
             /\ e.to = "header0"
             /\ e.do = <<>>
    BY <2>2, ByteKinds, OnIs
  <2> QED
    BY <2>1, <2>3, GoesIf
<1>9. \A b \in TokenByte \ (Names \cup {"CR"}) :
        Goes("header0", b, "key",
             <<"reset_count", "header_key", "inc_count">>)
  <2> SUFFICES ASSUME NEW b \in TokenByte \ (Names \cup {"CR"})
               PROVE  Goes("header0", b, "key",
                      <<"reset_count", "header_key", "inc_count">>)
      OBVIOUS
  <2>1. b \in Byte /\ "header0" \in State
    BY ByteKinds DEF State
  <2>2. All("header0") =
          KeyStart(<<"reset_count", "header_key", "inc_count">>)
            \cup {On({"CR"}, "key",
                     <<"reset_count", "header_key", "inc_count">>)}
    BY Tables
  <2>3. /\ \E e \in All("header0") : b \in e.on
        /\ \A e \in All("header0") : b \in e.on =>
             /\ e.to = "key"
             /\ e.do = <<"reset_count", "header_key", "inc_count">>
    BY <2>2, ByteKinds, OnIs DEF KeyStart, Names
  <2> QED
    BY <2>1, <2>3, GoesIf
<1>10. \A b \in {"Content-Length"} :
         Goes("header0", b, "cl_key",
              <<"reset_count", "header_key", "inc_count">>)
  <2> SUFFICES ASSUME NEW b \in {"Content-Length"}
               PROVE  Goes("header0", b, "cl_key",
                      <<"reset_count", "header_key", "inc_count">>)
      OBVIOUS
  <2>1. b \in Byte /\ "header0" \in State
    BY ByteKinds DEF State
  <2>2. All("header0") =
          KeyStart(<<"reset_count", "header_key", "inc_count">>)
            \cup {On({"CR"}, "key",
                     <<"reset_count", "header_key", "inc_count">>)}
    BY Tables
  <2>3. /\ \E e \in All("header0") : b \in e.on
        /\ \A e \in All("header0") : b \in e.on =>
             /\ e.to = "cl_key"
             /\ e.do = <<"reset_count", "header_key", "inc_count">>
    BY <2>2, ByteKinds, OnIs DEF KeyStart, Names
  <2> QED
    BY <2>1, <2>3, GoesIf
<1>11. \A b \in TokenByte \ (Names \cup {"CR"}) :
         Goes("header", b, "key",
              <<"header_key", "reset_count", "inc_count">>)
  <2> SUFFICES ASSUME NEW b \in TokenByte \ (Names \cup {"CR"})
               PROVE  Goes("header", b, "key",
                      <<"header_key", "reset_count", "inc_count">>)
      OBVIOUS
  <2>1. b \in Byte /\ "header" \in State
    BY ByteKinds DEF State
  <2>2. All("header") =
          KeyStart(<<"header_key", "reset_count", "inc_count">>)
            \cup {On({"CR"}, "blank",
                     <<"header_key", "reset_count", "inc_count">>)}
    BY Tables
  <2>3. /\ \E e \in All("header") : b \in e.on
        /\ \A e \in All("header") : b \in e.on =>
             /\ e.to = "key"
             /\ e.do = <<"header_key", "reset_count", "inc_count">>
    BY <2>2, ByteKinds, OnIs DEF KeyStart, Names
  <2> QED
    BY <2>1, <2>3, GoesIf
<1>12. \A b \in {"Content-Length"} :
         Goes("header", b, "cl_key",
              <<"header_key", "reset_count", "inc_count">>)
  <2> SUFFICES ASSUME NEW b \in {"Content-Length"}
               PROVE  Goes("header", b, "cl_key",
                      <<"header_key", "reset_count", "inc_count">>)
      OBVIOUS
  <2>1. b \in Byte /\ "header" \in State
    BY ByteKinds DEF State
  <2>2. All("header") =
          KeyStart(<<"header_key", "reset_count", "inc_count">>)
            \cup {On({"CR"}, "blank",
                     <<"header_key", "reset_count", "inc_count">>)}
    BY Tables
  <2>3. /\ \E e \in All("header") : b \in e.on
        /\ \A e \in All("header") : b \in e.on =>
             /\ e.to = "cl_key"
             /\ e.do = <<"header_key", "reset_count", "inc_count">>
    BY <2>2, ByteKinds, OnIs DEF KeyStart, Names
  <2> QED
    BY <2>1, <2>3, GoesIf
<1>13. \A b \in {"CR"} :
         Goes("header", b, "blank",
              <<"header_key", "reset_count", "inc_count">>)
  <2> SUFFICES ASSUME NEW b \in {"CR"}
               PROVE  Goes("header", b, "blank",
                      <<"header_key", "reset_count", "inc_count">>)
      OBVIOUS
  <2>1. b \in Byte /\ "header" \in State
    BY ByteKinds DEF State
  <2>2. All("header") =
          KeyStart(<<"header_key", "reset_count", "inc_count">>)
            \cup {On({"CR"}, "blank",
                     <<"header_key", "reset_count", "inc_count">>)}
    BY Tables
  <2>3. /\ \E e \in All("header") : b \in e.on
        /\ \A e \in All("header") : b \in e.on =>
             /\ e.to = "blank"
             /\ e.do = <<"header_key", "reset_count", "inc_count">>
    BY <2>2, ByteKinds, OnIs DEF KeyStart, Names
  <2> QED
    BY <2>1, <2>3, GoesIf
<1>14. \A b \in {"LF"} :
         Goes("blank", b, "final", <<"inc_count", "done_headers">>)
  <2> SUFFICES ASSUME NEW b \in {"LF"}
               PROVE  Goes("blank", b, "final",
                      <<"inc_count", "done_headers">>)
      OBVIOUS
  <2>1. b \in Byte /\ "blank" \in State
    BY ByteKinds DEF State
  <2>2. All("blank") =
          {On({"LF"}, "final", <<"inc_count", "done_headers">>),
            On(TokenByte \ {"LF"}, "key", <<"inc_count">>),
            On({":"}, "colon", <<"emit_token">>)}
    BY Tables
  <2>3. /\ \E e \in All("blank") : b \in e.on
        /\ \A e \in All("blank") : b \in e.on =>
             /\ e.to = "final"
             /\ e.do = <<"inc_count", "done_headers">>
    BY <2>2, ByteKinds, OnIs
  <2> QED
    BY <2>1, <2>3, GoesIf
<1>15. \A b \in TokenByte :
         Goes("key", b, "key", <<"inc_count">>)
  <2> SUFFICES ASSUME NEW b \in TokenByte
               PROVE  Goes("key", b, "key",
                      <<"inc_count">>)
      OBVIOUS
  <2>1. b \in Byte /\ "key" \in State
    BY ByteKinds DEF State
  <2>2. All("key") =
          {On(TokenByte, "key", <<"inc_count">>),
            On({":"}, "colon", <<"emit_token">>)}
    BY Tables
  <2>3. /\ \E e \in All("key") : b \in e.on
        /\ \A e \in All("key") : b \in e.on =>
             /\ e.to = "key"
             /\ e.do = <<"inc_count">>
    BY <2>2, ByteKinds, OnIs
  <2> QED
    BY <2>1, <2>3, GoesIf
<1>16. \A b \in {":"} :
         Goes("key", b, "colon", <<"emit_token">>)
  <2> SUFFICES ASSUME NEW b \in {":"}
               PROVE  Goes("key", b, "colon",
                      <<"emit_token">>)
      OBVIOUS
  <2>1. b \in Byte /\ "key" \in State
    BY ByteKinds DEF State
  <2>2. All("key") =
          {On(TokenByte, "key", <<"inc_count">>),
            On({":"}, "colon", <<"emit_token">>)}
    BY Tables
  <2>3. /\ \E e \in All("key") : b \in e.on
        /\ \A e \in All("key") : b \in e.on =>
             /\ e.to = "colon"
             /\ e.do = <<"emit_token">>
    BY <2>2, ByteKinds, OnIs
  <2> QED
    BY <2>1, <2>3, GoesIf
<1>17. \A b \in {":"} :
         Goes("cl_key", b, "cl_colon", <<"emit_token">>)
  <2> SUFFICES ASSUME NEW b \in {":"}
               PROVE  Goes("cl_key", b, "cl_colon",
                      <<"emit_token">>)
      OBVIOUS
  <2>1. b \in Byte /\ "cl_key" \in State
    BY ByteKinds DEF State
  <2>2. All("cl_key") =
          {On(TokenByte, "key", <<"inc_count">>),
            On({":"}, "cl_colon", <<"emit_token">>)}
    BY Tables
  <2>3. /\ \E e \in All("cl_key") : b \in e.on
        /\ \A e \in All("cl_key") : b \in e.on =>
             /\ e.to = "cl_colon"
             /\ e.do = <<"emit_token">>
    BY <2>2, ByteKinds, OnIs
  <2> QED
    BY <2>1, <2>3, GoesIf
<1>18. \A b \in {"SP"} :
         Goes("colon", b, "ows", <<>>)
  <2> SUFFICES ASSUME NEW b \in {"SP"}
               PROVE  Goes("colon", b, "ows",
                      <<>>)
      OBVIOUS
  <2>1. b \in Byte /\ "colon" \in State
    BY ByteKinds DEF State
  <2>2. All("colon") =
          {On({"SP"}, "ows", <<>>)}
    BY Tables
  <2>3. /\ \E e \in All("colon") : b \in e.on
        /\ \A e \in All("colon") : b \in e.on =>
             /\ e.to = "ows"
             /\ e.do = <<>>
    BY <2>2, ByteKinds, OnIs
  <2> QED
    BY <2>1, <2>3, GoesIf
<1>19. \A b \in {"SP"} :
         Goes("cl_colon", b, "cl_ows", <<>>)
  <2> SUFFICES ASSUME NEW b \in {"SP"}
               PROVE  Goes("cl_colon", b, "cl_ows",
                      <<>>)
      OBVIOUS
  <2>1. b \in Byte /\ "cl_colon" \in State
    BY ByteKinds DEF State
  <2>2. All("cl_colon") =
          {On({"SP"}, "cl_ows", <<>>)}
    BY Tables
  <2>3. /\ \E e \in All("cl_colon") : b \in e.on
        /\ \A e \in All("cl_colon") : b \in e.on =>
             /\ e.to = "cl_ows"
             /\ e.do = <<>>
    BY <2>2, ByteKinds, OnIs
  <2> QED
    BY <2>1, <2>3, GoesIf
<1>20. \A b \in Byte \ {"SP", "CR"} :
         Goes("ows", b, "value", <<"header_value", "inc_count">>)
  <2> SUFFICES ASSUME NEW b \in Byte \ {"SP", "CR"}
               PROVE  Goes("ows", b, "value",
                      <<"header_value", "inc_count">>)
      OBVIOUS
  <2>1. b \in Byte /\ "ows" \in State
    BY ByteKinds DEF State
  <2>2. All("ows") =
          ValueStart("ows", {})
    BY Tables
  <2>3. /\ \E e \in All("ows") : b \in e.on
        /\ \A e \in All("ows") : b \in e.on =>
             /\ e.to = "value"
             /\ e.do = <<"header_value", "inc_count">>
    BY <2>2, ByteKinds, OnIs DEF ValueStart
  <2> QED
    BY <2>1, <2>3, GoesIf
<1>21. \A b \in Digit :
         Goes("cl_ows", b, "cl_digits",
              <<"content_length_digit", "header_value", "inc_count">>)
  <2> SUFFICES ASSUME NEW b \in Digit
               PROVE  Goes("cl_ows", b, "cl_digits",
                      <<"content_length_digit", "header_value", "inc_count">>)
      OBVIOUS
  <2>1. b \in Byte /\ "cl_ows" \in State
    BY ByteKinds DEF State
  <2>2. All("cl_ows") =
          ValueStart("cl_ows", Digit)
            \cup {On(Digit, "cl_digits", <<"content_length_digit",
                                          "header_value", "inc_count">>)}
    BY Tables
  <2>3. /\ \E e \in All("cl_ows") : b \in e.on
        /\ \A e \in All("cl_ows") : b \in e.on =>
             /\ e.to = "cl_digits"
             /\ e.do = <<"content_length_digit", "header_value", "inc_count">>
    BY <2>2, ByteKinds, OnIs DEF ValueStart
  <2> QED
    BY <2>1, <2>3, GoesIf
<1>22. \A b \in Digit :
         Goes("cl_digits", b, "cl_digits",
              <<"content_length_digit", "inc_count">>)
  <2> SUFFICES ASSUME NEW b \in Digit
               PROVE  Goes("cl_digits", b, "cl_digits",
                      <<"content_length_digit", "inc_count">>)
      OBVIOUS
  <2>1. b \in Byte /\ "cl_digits" \in State
    BY ByteKinds DEF State
  <2>2. All("cl_digits") =
          {On(Digit, "cl_digits", <<"content_length_digit", "inc_count">>),
            On({"CR"}, "value_end", <<"emit_token">>),
            On(Byte \ (Digit \cup {"CR", "LF"}), "value", <<"inc_count">>)}
    BY Tables
  <2>3. /\ \E e \in All("cl_digits") : b \in e.on
        /\ \A e \in All("cl_digits") : b \in e.on =>
             /\ e.to = "cl_digits"
             /\ e.do = <<"content_length_digit", "inc_count">>
    BY <2>2, ByteKinds, OnIs
  <2> QED
    BY <2>1, <2>3, GoesIf
<1>23. \A b \in {"CR"} :
         Goes("cl_digits", b, "value_end", <<"emit_token">>)
  <2> SUFFICES ASSUME NEW b \in {"CR"}
               PROVE  Goes("cl_digits", b, "value_end",
                      <<"emit_token">>)
      OBVIOUS
  <2>1. b \in Byte /\ "cl_digits" \in State
    BY ByteKinds DEF State
  <2>2. All("cl_digits") =
          {On(Digit, "cl_digits", <<"content_length_digit", "inc_count">>),
            On({"CR"}, "value_end", <<"emit_token">>),
            On(Byte \ (Digit \cup {"CR", "LF"}), "value", <<"inc_count">>)}
    BY Tables
  <2>3. /\ \E e \in All("cl_digits") : b \in e.on
        /\ \A e \in All("cl_digits") : b \in e.on =>
             /\ e.to = "value_end"
             /\ e.do = <<"emit_token">>
    BY <2>2, ByteKinds, OnIs
  <2> QED
    BY <2>1, <2>3, GoesIf
<1>24. \A b \in Byte \ {"CR", "LF"} :
         Goes("value", b, "value", <<"inc_count">>)
  <2> SUFFICES ASSUME NEW b \in Byte \ {"CR", "LF"}
               PROVE  Goes("value", b, "value",
                      <<"inc_count">>)
      OBVIOUS
  <2>1. b \in Byte /\ "value" \in State
    BY ByteKinds DEF State
  <2>2. All("value") =
          {On({"CR"}, "value_end", <<"emit_token">>),
            On(Byte \ {"CR", "LF"}, "value", <<"inc_count">>)}
    BY Tables
  <2>3. /\ \E e \in All("value") : b \in e.on
        /\ \A e \in All("value") : b \in e.on =>
             /\ e.to = "value"
             /\ e.do = <<"inc_count">>
    BY <2>2, ByteKinds, OnIs
  <2> QED
    BY <2>1, <2>3, GoesIf
<1>25. \A b \in {"CR"} :
         Goes("value", b, "value_end", <<"emit_token">>)
  <2> SUFFICES ASSUME NEW b \in {"CR"}
               PROVE  Goes("value", b, "value_end",
                      <<"emit_token">>)
      OBVIOUS
  <2>1. b \in Byte /\ "value" \in State
    BY ByteKinds DEF State
  <2>2. All("value") =
          {On({"CR"}, "value_end", <<"emit_token">>),
            On(Byte \ {"CR", "LF"}, "value", <<"inc_count">>)}
    BY Tables
  <2>3. /\ \E e \in All("value") : b \in e.on
        /\ \A e \in All("value") : b \in e.on =>
             /\ e.to = "value_end"
             /\ e.do = <<"emit_token">>
    BY <2>2, ByteKinds, OnIs
  <2> QED
    BY <2>1, <2>3, GoesIf
<1>26. \A b \in {"LF"} :
         Goes("value_end", b, "header", <<"inc_count">>)
  <2> SUFFICES ASSUME NEW b \in {"LF"}
               PROVE  Goes("value_end", b, "header",
                      <<"inc_count">>)
      OBVIOUS
  <2>1. b \in Byte /\ "value_end" \in State
    BY ByteKinds DEF State
  <2>2. All("value_end") =
          {On({"LF"}, "header", <<"inc_count">>)}
    BY Tables
  <2>3. /\ \E e \in All("value_end") : b \in e.on
        /\ \A e \in All("value_end") : b \in e.on =>
             /\ e.to = "header"
             /\ e.do = <<"inc_count">>
    BY <2>2, ByteKinds, OnIs
  <2> QED
    BY <2>1, <2>3, GoesIf
<1>27. \A b \in Byte :
         Goes("small_body", b, "small", <<"body", "small_body_read">>)
  <2> SUFFICES ASSUME NEW b \in Byte
               PROVE  Goes("small_body", b, "small",
                      <<"body", "small_body_read">>)
      OBVIOUS
  <2>1. b \in Byte /\ "small_body" \in State
    BY ByteKinds DEF State
  <2>2. All("small_body") =
          {On(Byte, "small", <<"body", "small_body_read">>)}
    BY Tables
  <2>3. /\ \E e \in All("small_body") : b \in e.on
        /\ \A e \in All("small_body") : b \in e.on =>
             /\ e.to = "small"
             /\ e.do = <<"body", "small_body_read">>
    BY <2>2, ByteKinds, OnIs
  <2> QED
    BY <2>1, <2>3, GoesIf
<1>28. \A b \in Byte :
         Goes("small", b, "small", <<"small_body_read">>)
  <2> SUFFICES ASSUME NEW b \in Byte
               PROVE  Goes("small", b, "small",
                      <<"small_body_read">>)
      OBVIOUS
  <2>1. b \in Byte /\ "small" \in State
    BY ByteKinds DEF State
  <2>2. All("small") =
          {On(Byte, "small", <<"small_body_read">>)}
    BY Tables
  <2>3. /\ \E e \in All("small") : b \in e.on
        /\ \A e \in All("small") : b \in e.on =>
             /\ e.to = "small"
             /\ e.do = <<"small_body_read">>
    BY <2>2, ByteKinds, OnIs
  <2> QED
    BY <2>1, <2>3, GoesIf
<1> QED
  BY <1>1, <1>2, <1>3, <1>4, <1>5, <1>6, <1>7, <1>8, <1>9, <1>10,
     <1>11, <1>12, <1>13, <1>14, <1>15, <1>16, <1>17, <1>18, <1>19, <1>20,
     <1>21, <1>22, <1>23, <1>24, <1>25, <1>26, <1>27, <1>28


-----------------------------------------------------------------------------
(* Folds, step by step.                                                    *)

\* What the fold has after the first i elements, for i up to n.
Firsts(g, m, do, how, n) ==
  /\ g[1 .. 0] = m
  /\ \A i \in 1 .. n : g[1 .. i] = Fold(g[1 .. (i - 1)], do[i], how)

LEMMA RunFirst ==
  ASSUME NEW g, NEW m, NEW do, NEW how, NEW n \in Nat,
         Runs(g, m, do, how, 1 .. n)
  PROVE  Firsts(g, m, do, how, n)
<1> DEFINE D == 1 .. n
<1>1. /\ g[{}] = m
      /\ \A s \in SUBSET D :
           s # {} => g[s] = Fold(g[s \ {Max(s)}], do[Max(s)], how)
  <2> HIDE DEF D
  <2>1. Runs(g, m, do, how, D)
    BY DEF D
  <2> QED
    BY <2>1, RunAt
<1>2. 1 .. 0 = {}
  OBVIOUS
<1>3. ASSUME NEW i \in 1 .. n
      PROVE  g[1 .. i] = Fold(g[1 .. (i - 1)], do[i], how)
  <2> DEFINE s == 1 .. i
  <2>1. s \in SUBSET (1 .. n) /\ s # {} /\ i \in s
    OBVIOUS
  <2>2. Max(s) = i
    <3>1. i \in Nat
      OBVIOUS
    <3>2. Indices(s)
      BY <3>1 DEF Indices
    <3>3. \A y \in s : y <= i /\ y \in Int
      OBVIOUS
    <3>4. i \in s
      BY <2>1
    <3> HIDE DEF s
    <3>5. Max(s) \in s /\ Max(s) >= i
      BY <2>1, <3>2, <3>4, MaxOf
    <3> QED
      BY <3>1, <3>3, <3>5
  <2>3. s \ {i} = 1 .. (i - 1)
    OBVIOUS
  <2> HIDE DEF s
  <2>4. g[s] = Fold(g[s \ {i}], do[i], how)
    BY <1>1, <2>1, <2>2
  <2> QED
    BY <2>3, <2>4 DEF s
<1> QED
  BY <1>1, <1>2, <1>3 DEF Firsts

\* What a step is whose transition has none, one, two or three actions, k
\* being the machine before them.
Steps(m, k, do, byte) ==
  /\ do = <<>> => Step(m) = Ended(k)
  /\ \A a : do = <<a>> => Step(m) = Ended(Execute(k, a, byte))
  /\ \A a, b : do = <<a, b>> =>
       Step(m) = Ended(Act(Execute(k, a, byte), b, byte))
  /\ \A a, b, c : do = <<a, b, c>> =>
       Step(m) = Ended(Act(Act(Execute(k, a, byte), b, byte), c, byte))

LEMMA StepIs ==
  ASSUME NEW m \in Machines, ~ m.out, NEW byte, byte = At(m.b, m.p),
         NEW to, NEW do, Goes(m.cs, byte, to, do),
         NEW k, k = [m EXCEPT !.cs = to]
  PROVE  Steps(m, k, do, byte)
<1> DEFINE t == Transition[m.cs][byte]
<1>1. t.to = to /\ t.do = do
  BY DEF Goes
<1>2. ~ k.out
  BY DEF Machines
<1>3. \A n \in Nat : DOMAIN do = 1 .. n =>
        \E g : Firsts(g, k, do, OnByte(byte), n) /\ Step(m) = Ended(g[1 .. n])
  <2>1. ASSUME NEW n \in Nat, DOMAIN do = 1 .. n
        PROVE  \E g : /\ Firsts(g, k, do, OnByte(byte), n)
                     /\ Step(m) = Ended(g[1 .. n])
    <3>1. \E g : /\ Runs(g, k, do, OnByte(byte), 1 .. n)
                /\ Step(m) = Ended(g[1 .. n])
      BY <1>1, <2>1, StepRuns
    <3> QED
      BY <3>1, RunFirst
  <2> QED
    BY <2>1
<1>4. \A a : Act(k, a, byte) = Execute(k, a, byte)
  BY <1>2 DEF Act
<1>5. do = <<>> => Step(m) = Ended(k)
  <2>1. SUFFICES ASSUME do = <<>>
                 PROVE  Step(m) = Ended(k)
    OBVIOUS
  <2>2. DOMAIN do = 1 .. 0
    BY <2>1
  <2>3. PICK g : Firsts(g, k, do, OnByte(byte), 0) /\ Step(m) = Ended(g[1 .. 0])
    BY <1>3, <2>2
  <2> QED
    BY <2>3, FoldIs DEF Firsts
<1>6. ASSUME NEW a, do = <<a>>
      PROVE  Step(m) = Ended(Execute(k, a, byte))
  <2>1. DOMAIN do = 1 .. 1 /\ do[1] = a
    BY <1>6
  <2>2. PICK g : Firsts(g, k, do, OnByte(byte), 1) /\ Step(m) = Ended(g[1 .. 1])
    BY <1>3, <2>1
  <2>3. g[1 .. 1] = Act(g[1 .. 0], do[1], byte) /\ g[1 .. 0] = k
    BY <2>2, FoldIs DEF Firsts
  <2> QED
    BY <1>4, <2>1, <2>2, <2>3
<1>7. ASSUME NEW a, NEW b, do = <<a, b>>
      PROVE  Step(m) = Ended(Act(Execute(k, a, byte), b, byte))
  <2>1. DOMAIN do = 1 .. 2 /\ do[1] = a /\ do[2] = b
    BY <1>7
  <2>2. PICK g : Firsts(g, k, do, OnByte(byte), 2) /\ Step(m) = Ended(g[1 .. 2])
    BY <1>3, <2>1
  <2>3. /\ g[1 .. 1] = Act(g[1 .. 0], do[1], byte) /\ g[1 .. 0] = k
        /\ g[1 .. 2] = Act(g[1 .. 1], do[2], byte)
    BY <2>2, FoldIs DEF Firsts
  <2> QED
    BY <1>4, <2>1, <2>2, <2>3
<1>8. ASSUME NEW a, NEW b, NEW c, do = <<a, b, c>>
      PROVE  Step(m) = Ended(Act(Act(Execute(k, a, byte), b, byte), c, byte))
  <2>1. DOMAIN do = 1 .. 3 /\ do[1] = a /\ do[2] = b /\ do[3] = c
    BY <1>8
  <2>2. PICK g : Firsts(g, k, do, OnByte(byte), 3) /\ Step(m) = Ended(g[1 .. 3])
    BY <1>3, <2>1
  <2>3. /\ g[1 .. 1] = Act(g[1 .. 0], do[1], byte) /\ g[1 .. 0] = k
        /\ g[1 .. 2] = Act(g[1 .. 1], do[2], byte)
        /\ g[1 .. 3] = Act(g[1 .. 2], do[3], byte)
    BY <2>2, FoldIs DEF Firsts
  <2> QED
    BY <1>4, <2>1, <2>2, <2>3
<1> QED
  BY <1>5, <1>6, <1>7, <1>8 DEF Steps


-----------------------------------------------------------------------------
(* What the actions do to a machine.                                       *)

\* Nothing but what concerns the token is different.
Same(m, n) ==
  /\ n \in Machines
  /\ n.cs = m.cs /\ n.p = m.p /\ n.pe = m.pe /\ n.b = m.b /\ n.out = m.out
  /\ n.h.seq = m.h.seq /\ n.h.flags = m.h.flags

\* A token was entered.
Entered(m, n, type) ==
  /\ Same(m, n) /\ n.h.content_length = m.h.content_length
  /\ n.h.token.type = type /\ n.h.token.index = m.p /\ n.h.token.flags = {}
  /\ n.h.limit_count = 0 /\ n.h.limit_max = Limit[type]

LEMMA EnterTokenIs ==
  ASSUME NEW m \in Machines,
         NEW type \in {"METHOD", "TARGET", "VERSION", "HEADER_KEY",
                       "HEADER_VALUE"},
         NEW n, n = EnterToken(m, type)
  PROVE  Entered(m, n, type)
<1>1. Limit[type] \in Nat /\ type \in TokenType
  BY ParserAssumption DEF TokenType
<1>2. m.h.token \in Token /\ m.p \in Int /\ m.h \in Parsers
  BY DEF Machines, Parsers
<1> DEFINE k == [m.h.token EXCEPT !.type = type, !.index = m.p, !.flags = {}]
<1>3. /\ k \in Token /\ k.type = type /\ k.index = m.p /\ k.flags = {}
  BY <1>1, <1>2 DEF Token
<1> DEFINE h1 == [m.h EXCEPT !.token = k]
           h2 == [h1 EXCEPT !.limit_count = 0]
           h3 == [h2 EXCEPT !.limit_max = Limit[type]]
<1>4. n = [m EXCEPT !.h = h3]
  BY DEF EnterToken, Machines, Parsers
<1> HIDE DEF k
<1>5. /\ h3 \in Parsers /\ h3.token = k /\ h3.limit_count = 0
      /\ h3.limit_max = Limit[type] /\ h3.seq = m.h.seq
      /\ h3.flags = m.h.flags /\ h3.content_length = m.h.content_length
  BY <1>1, <1>2, <1>3 DEF Parsers
<1> HIDE DEF h3
<1>6. /\ n \in Machines /\ n.h = h3 /\ n.cs = m.cs /\ n.p = m.p /\ n.pe = m.pe
      /\ n.b = m.b /\ n.out = m.out
  BY <1>4, <1>5 DEF Machines
<1> QED
  BY <1>3, <1>5, <1>6 DEF Entered, Same

\* A byte was counted.
Counted(m, n) ==
  /\ Same(m, n) /\ n.h.content_length = m.h.content_length
  /\ n.h.token = m.h.token
  /\ n.h.limit_count = m.h.limit_count + 1 /\ n.h.limit_max = m.h.limit_max

LEMMA IncCountIs ==
  ASSUME NEW m \in Machines, m.h.limit_count + 1 <= m.h.limit_max,
         NEW n, n = inc_count(m)
  PROVE  Counted(m, n)
<1> DEFINE c == m.h.limit_count + 1
           h == [m.h EXCEPT !.limit_count = c]
           k == [m EXCEPT !.h = h]
<1>1. m.h \in Parsers /\ c \in Nat /\ m.h.limit_max \in Nat
  BY DEF Machines, Parsers
<1>2. /\ h \in Parsers /\ h.limit_count = c /\ h.limit_max = m.h.limit_max
      /\ h.seq = m.h.seq /\ h.flags = m.h.flags /\ h.token = m.h.token
      /\ h.content_length = m.h.content_length
  BY <1>1 DEF Parsers
<1>3. k = [m EXCEPT !.h.limit_count = @ + 1]
  BY DEF Machines, Parsers
<1>4. /\ k \in Machines /\ k.h = h /\ k.cs = m.cs /\ k.p = m.p /\ k.pe = m.pe
      /\ k.b = m.b /\ k.out = m.out
  <2> HIDE DEF h
  <2> QED  BY <1>2 DEF Machines
<1>5. n = k
  <2>1. ~(k.h.limit_count > k.h.limit_max)
    <3>1. c <= m.h.limit_max
      OBVIOUS
    <3> HIDE DEF h, k, c
    <3> QED  BY <1>1, <1>2, <1>4, <3>1
  <2> QED
    BY <1>3, <2>1 DEF inc_count
<1> HIDE DEF h, k
<1> QED
  BY <1>2, <1>4, <1>5 DEF Counted, Same

\* Counting begins anew, for a header's name.
Restarted(m, n) ==
  /\ Same(m, n) /\ n.h.content_length = m.h.content_length
  /\ n.h.token = m.h.token
  /\ n.h.limit_count = 0 /\ n.h.limit_max = Limit["HEADER_KEY"]

LEMMA ResetCountIs ==
  ASSUME NEW m \in Machines, NEW n, n = reset_count(m)
  PROVE  Restarted(m, n)
<1> DEFINE h1 == [m.h EXCEPT !.limit_count = 0]
           h == [h1 EXCEPT !.limit_max = Limit["HEADER_KEY"]]
<1>1. m.h \in Parsers /\ Limit["HEADER_KEY"] \in Nat
  BY ParserAssumption DEF Machines
<1>2. /\ h \in Parsers /\ h.limit_count = 0 /\ h.limit_max = Limit["HEADER_KEY"]
      /\ h.seq = m.h.seq /\ h.flags = m.h.flags /\ h.token = m.h.token
      /\ h.content_length = m.h.content_length
  BY <1>1 DEF Parsers
<1>3. n = [m EXCEPT !.h = h]
  BY DEF reset_count, Machines, Parsers
<1> HIDE DEF h
<1>4. /\ n \in Machines /\ n.h = h /\ n.cs = m.cs /\ n.p = m.p /\ n.pe = m.pe
      /\ n.b = m.b /\ n.out = m.out
  BY <1>2, <1>3 DEF Machines
<1> QED
  BY <1>2, <1>4 DEF Restarted, Same

\* A digit of the length was read.
Summed(m, n, byte) ==
  /\ Same(m, n) /\ n.h.content_length = 10 * m.h.content_length + Value(byte)
  /\ n.h.token = m.h.token
  /\ n.h.limit_count = m.h.limit_count /\ n.h.limit_max = m.h.limit_max

LEMMA LengthDigitIs ==
  ASSUME NEW m \in Machines, NEW byte,
         NEW n, n = content_length_digit(m, byte)
  PROVE  Summed(m, n, byte)
<1> DEFINE c == 10 * m.h.content_length + Value(byte)
           h == [m.h EXCEPT !.content_length = c]
<1>1. m.h \in Parsers
  BY DEF Machines
<1>2. c \in Nat
  BY <1>1, ValueType DEF Parsers
<1>3. /\ n = [m EXCEPT !.h = h]
  BY DEF content_length_digit, Machines, Parsers
<1> HIDE DEF c
<1>4. /\ h \in Parsers /\ h.limit_count = m.h.limit_count
      /\ h.limit_max = m.h.limit_max /\ h.seq = m.h.seq
      /\ h.flags = m.h.flags /\ h.token = m.h.token /\ h.content_length = c
  BY <1>1, <1>2 DEF Parsers
<1> HIDE DEF h
<1>5. /\ n \in Machines /\ n.h = h /\ n.cs = m.cs /\ n.p = m.p /\ n.pe = m.pe
      /\ n.b = m.b /\ n.out = m.out
  BY <1>3, <1>4 DEF Machines
<1> QED
  BY <1>4, <1>5 DEF Summed, Same, c

\* A token was completed, and the machine is to be left.
Emitted(m, n, to) ==
  /\ n.cs = to /\ n.p = m.p + 1 /\ n.out /\ n.pe = m.pe /\ n.b = m.b
  /\ n.h.seq = m.h.seq /\ n.h.flags = m.h.flags \cup {"TOKEN_READY"}
  /\ n.h.content_length = m.h.content_length
  /\ n.h.limit_count = m.h.limit_count /\ n.h.limit_max = m.h.limit_max
  /\ n.h.token = Tok(m.h.token.type, m.h.token.index,
                     m.p - m.h.token.index, m.h.token.flags)

LEMMA EmitTokenIs ==
  ASSUME NEW m \in Machines, NEW n, n = emit_token(m)
  PROVE  n \in Machines /\ Emitted(m, n, m.cs)
<1> DEFINE l == m.p - m.h.token.index
           t == [m.h.token EXCEPT !.len = l]
           h == [m.h EXCEPT !.token = t]
           k == [m EXCEPT !.h = h]
           r == Ready(k)
<1>1. m.h \in Parsers /\ m.h.token \in Token /\ m.p \in Int
  BY DEF Machines, Parsers
<1>2. l \in Int
  BY <1>1 DEF Token
<1> HIDE DEF l
<1>3. /\ t \in Token
      /\ t = Tok(m.h.token.type, m.h.token.index, l, m.h.token.flags)
  BY <1>1, <1>2 DEF Token, Tok
<1>4. n = FBreak(r)
  BY DEF emit_token, Machines, Parsers, l
<1> HIDE DEF t
<1>5. /\ h \in Parsers /\ h.limit_count = m.h.limit_count
      /\ h.limit_max = m.h.limit_max /\ h.seq = m.h.seq
      /\ h.flags = m.h.flags /\ h.token = t
      /\ h.content_length = m.h.content_length
  BY <1>1, <1>3 DEF Parsers
<1> HIDE DEF h
<1>6. /\ k \in Machines /\ k.h = h /\ k.cs = m.cs /\ k.p = m.p /\ k.pe = m.pe
      /\ k.b = m.b /\ k.out = m.out
  BY <1>5 DEF Machines
<1> HIDE DEF k
<1>7. /\ r \in Machines
      /\ r.cs = k.cs /\ r.p = k.p /\ r.pe = k.pe /\ r.b = k.b
      /\ r.h = [h EXCEPT !.flags = @ \cup {"TOKEN_READY"}]
  BY <1>6, ReadyType
<1>8. /\ r.h.limit_count = m.h.limit_count
      /\ r.h.limit_max = m.h.limit_max /\ r.h.seq = m.h.seq
      /\ r.h.flags = m.h.flags \cup {"TOKEN_READY"} /\ r.h.token = t
      /\ r.h.content_length = m.h.content_length
  BY <1>5, <1>7 DEF Parsers
<1> HIDE DEF r
<1>9. /\ n \in Machines
      /\ n.cs = r.cs /\ n.p = r.p + 1 /\ n.pe = r.pe /\ n.b = r.b
      /\ n.h = r.h /\ n.out
  BY <1>4, <1>7, FBreakType
<1> QED
  BY <1>3, <1>6, <1>7, <1>8, <1>9 DEF Emitted, l

-----------------------------------------------------------------------------
(* The end of a step.                                                      *)

LEMMA EndedIs ==
  ASSUME NEW k \in Machines, NEW n, n = Ended(k)
  PROVE  /\ n \in Machines
         /\ n.cs = k.cs /\ n.pe = k.pe /\ n.b = k.b /\ n.h = k.h
         /\ k.out => n.p = k.p /\ n.out
         /\ ~ k.out /\ k.cs # "error" =>
              n.p = k.p + 1 /\ n.out = (k.p + 1 = k.pe)
<1>1. CASE k.out \/ k.cs = "error"
  <2>1. n = [k EXCEPT !.out = TRUE]
    BY <1>1 DEF Ended
  <2> QED
    BY <1>1, <2>1 DEF Machines
<1>2. CASE ~(k.out \/ k.cs = "error")
  <2> DEFINE q == k.p + 1
             o == (q = k.pe)
  <2>1. n = [k EXCEPT !.p = q, !.out = o]
    BY <1>2 DEF Ended, Machines
  <2>2. q \in Int /\ o \in BOOLEAN
    BY DEF Machines
  <2> HIDE DEF q, o
  <2>3. /\ n \in Machines
        /\ n.cs = k.cs /\ n.pe = k.pe /\ n.b = k.b /\ n.h = k.h
        /\ n.p = q /\ n.out = o
    BY <2>1, <2>2 DEF Machines
  <2> QED
    BY <1>2, <2>3 DEF q, o
<1> QED
  BY <1>1, <1>2

LEMMA StateSet ==
  ASSUME NEW m \in Machines, NEW to \in State,
         NEW k, k = [m EXCEPT !.cs = to]
  PROVE  /\ k \in Machines /\ k.cs = to /\ k.p = m.p /\ k.pe = m.pe
         /\ k.b = m.b /\ k.h = m.h /\ k.out = m.out
BY DEF Machines

\* The machine has read a byte, and goes on if there is another.
Moved(m, n, to) ==
  /\ n.cs = to /\ n.p = m.p + 1 /\ n.out = (m.p + 1 = m.pe)
  /\ n.pe = m.pe /\ n.b = m.b
  /\ n.h.seq = m.h.seq /\ n.h.flags = m.h.flags

LEMMA MovedIs ==
  ASSUME NEW m \in Machines, ~ m.out, NEW to \in State, to # "error",
         NEW k, k = [m EXCEPT !.cs = to],
         NEW a, Same(k, a), NEW n, n = Ended(a)
  PROVE  Moved(m, n, to) /\ n.h = a.h
<1>1. /\ k.cs = to /\ k.p = m.p /\ k.pe = m.pe /\ k.b = m.b /\ k.h = m.h
      /\ k.out = m.out
  BY StateSet
<1>2. /\ a \in Machines
      /\ a.cs = k.cs /\ a.p = k.p /\ a.pe = k.pe /\ a.b = k.b
      /\ a.out = k.out /\ a.h.seq = k.h.seq /\ a.h.flags = k.h.flags
  BY DEF Same
<1>3. /\ n.cs = a.cs /\ n.pe = a.pe /\ n.b = a.b /\ n.h = a.h
      /\ n.p = a.p + 1 /\ n.out = (a.p + 1 = a.pe)
  BY <1>1, <1>2, EndedIs
<1> QED
  BY <1>1, <1>2, <1>3 DEF Moved


\* The actions by their names.
LEMMA ExecuteIs ==
  \A m, byte :
    /\ Execute(m, "method", byte) = EnterToken(m, "METHOD")
    /\ Execute(m, "target", byte) = EnterToken(m, "TARGET")
    /\ Execute(m, "version", byte) = EnterToken(m, "VERSION")
    /\ Execute(m, "header_key", byte) = EnterToken(m, "HEADER_KEY")
    /\ Execute(m, "header_value", byte) = EnterToken(m, "HEADER_VALUE")
    /\ Execute(m, "body", byte) = body(m)
    /\ Execute(m, "emit_token", byte) = emit_token(m)
    /\ Execute(m, "content_length_digit", byte) = content_length_digit(m, byte)
    /\ Execute(m, "reset_count", byte) = reset_count(m)
    /\ Execute(m, "inc_count", byte) = inc_count(m)
    /\ Execute(m, "done_headers", byte) = done_headers(m)
    /\ Execute(m, "small_body_read", byte) = small_body_read(m)
BY DEF Execute

\* The action enters a token of that type.
Enters(action, type) ==
  \/ action = "method" /\ type = "METHOD"
  \/ action = "target" /\ type = "TARGET"
  \/ action = "version" /\ type = "VERSION"
  \/ action = "header_key" /\ type = "HEADER_KEY"
  \/ action = "header_value" /\ type = "HEADER_VALUE"

LEMMA EntersIs ==
  ASSUME NEW m \in Machines, NEW byte, NEW action, NEW type,
         Enters(action, type)
  PROVE  Entered(m, Execute(m, action, byte), type)
<1>1. /\ type \in {"METHOD", "TARGET", "VERSION", "HEADER_KEY", "HEADER_VALUE"}
      /\ Execute(m, action, byte) = EnterToken(m, type)
  BY ExecuteIs DEF Enters
<1> QED
  BY <1>1, EnterTokenIs

\* The machine reads that byte, which leads it to a state by some actions.
Reads(m, byte, to, do) ==
  /\ m \in Machines /\ ~ m.out /\ byte = At(m.b, m.p)
  /\ to \in State /\ to # "error" /\ Goes(m.cs, byte, to, do)

\* Steps of one, two or three actions.
LEMMA StepOf0 ==
  ASSUME NEW m, NEW byte, NEW to, Reads(m, byte, to, <<>>)
  PROVE  Step(m) = Ended([m EXCEPT !.cs = to])
<1> DEFINE k == [m EXCEPT !.cs = to]
           do == <<>>
<1>1. do = <<>>
  OBVIOUS
<1> HIDE DEF k, do
<1>2. Steps(m, k, do, byte)
  BY <1>1, StepIs DEF Reads, k
<1> QED
  BY <1>1, <1>2 DEF Steps, k

LEMMA StepOf1 ==
  ASSUME NEW m, NEW byte, NEW to, NEW a, Reads(m, byte, to, <<a>>)
  PROVE  Step(m) = Ended(Execute([m EXCEPT !.cs = to], a, byte))
<1> DEFINE k == [m EXCEPT !.cs = to]
           do == <<a>>
<1>1. do = <<a>>
  OBVIOUS
<1> HIDE DEF k, do
<1>2. Steps(m, k, do, byte)
  BY <1>1, StepIs DEF Reads, k
<1> QED
  BY <1>1, <1>2 DEF Steps, k

LEMMA StepOf2 ==
  ASSUME NEW m, NEW byte, NEW to, NEW a, NEW b, Reads(m, byte, to, <<a, b>>)
  PROVE  Step(m) = Ended(Act(Execute([m EXCEPT !.cs = to], a, byte), b, byte))
<1> DEFINE k == [m EXCEPT !.cs = to]
           do == <<a, b>>
<1>1. do = <<a, b>>
  OBVIOUS
<1> HIDE DEF k, do
<1>2. Steps(m, k, do, byte)
  BY <1>1, StepIs DEF Reads, k
<1> QED
  BY <1>1, <1>2 DEF Steps, k

LEMMA StepOf3 ==
  ASSUME NEW m, NEW byte, NEW to, NEW a, NEW b, NEW c,
         Reads(m, byte, to, <<a, b, c>>)
  PROVE  Step(m) = Ended(Act(Act(Execute([m EXCEPT !.cs = to], a, byte),
                                 b, byte), c, byte))
<1> DEFINE k == [m EXCEPT !.cs = to]
           do == <<a, b, c>>
<1>1. do = <<a, b, c>>
  OBVIOUS
<1> HIDE DEF k, do
<1>2. Steps(m, k, do, byte)
  BY <1>1, StepIs DEF Reads, k
<1> QED
  BY <1>1, <1>2 DEF Steps, k

-----------------------------------------------------------------------------
(* The steps of a head.                                                    *)

\* A byte that is passed over.
LEMMA StepPasses ==
  ASSUME NEW m, NEW byte, NEW to, Reads(m, byte, to, <<>>)
  PROVE  Moved(m, Step(m), to) /\ Step(m).h = m.h
<1> DEFINE k == [m EXCEPT !.cs = to]
<1>1. m \in Machines /\ ~ m.out /\ to \in State /\ to # "error"
  BY DEF Reads
<1>2. Step(m) = Ended(k)
  BY StepOf0
<1>3. k \in Machines /\ k.h = m.h
  BY <1>1, StateSet
<1>4. k = [m EXCEPT !.cs = to]
  OBVIOUS
<1> HIDE DEF k
<1>5. Moved(m, Step(m), to) /\ Step(m).h = k.h
  <2>1. PICK a : a = k
    OBVIOUS
  <2>2. Same(k, a)
    BY <1>3, <2>1 DEF Same
  <2>3. Step(m) = Ended(a)
    BY <1>2, <2>1
  <2>4. Moved(m, Step(m), to) /\ Step(m).h = a.h
    BY <1>1, <1>4, <2>2, <2>3, MovedIs
  <2> QED
    BY <2>1, <2>4
<1> QED
  BY <1>3, <1>5

\* The byte after a token.
LEMMA StepEmits ==
  ASSUME NEW m, NEW byte, NEW to, Reads(m, byte, to, <<"emit_token">>)
  PROVE  Emitted(m, Step(m), to)
<1> DEFINE k == [m EXCEPT !.cs = to]
           e == emit_token(k)
<1>1. m \in Machines /\ ~ m.out /\ to \in State /\ to # "error"
  BY DEF Reads
<1>2. Step(m) = Ended(e)
  BY StepOf1, ExecuteIs
<1>3. /\ k \in Machines /\ k.cs = to /\ k.p = m.p /\ k.pe = m.pe
      /\ k.b = m.b /\ k.h = m.h /\ k.out = m.out
  BY <1>1, StateSet
<1> HIDE DEF k
<1>4. e \in Machines /\ Emitted(k, e, k.cs)
  BY <1>3, EmitTokenIs
<1> HIDE DEF e
<1>5. /\ Step(m).cs = e.cs /\ Step(m).pe = e.pe /\ Step(m).b = e.b
      /\ Step(m).h = e.h /\ Step(m).p = e.p /\ Step(m).out
  BY <1>2, <1>4, EndedIs DEF Emitted
<1> QED
  BY <1>3, <1>4, <1>5 DEF Emitted

\* A byte that counts.
LEMMA StepCounts ==
  ASSUME NEW m, NEW byte, NEW to, Reads(m, byte, to, <<"inc_count">>),
         m.h.limit_count + 1 <= m.h.limit_max
  PROVE  /\ Moved(m, Step(m), to)
         /\ Step(m).h.token = m.h.token
         /\ Step(m).h.content_length = m.h.content_length
         /\ Step(m).h.limit_max = m.h.limit_max
         /\ Step(m).h.limit_count = m.h.limit_count + 1
<1> DEFINE k == [m EXCEPT !.cs = to]
           c == inc_count(k)
<1>1. m \in Machines /\ ~ m.out /\ to \in State /\ to # "error"
  BY DEF Reads
<1>2. Step(m) = Ended(c)
  BY StepOf1, ExecuteIs
<1>3. k \in Machines /\ k.h = m.h
  BY <1>1, StateSet
<1> HIDE DEF k
<1>4. Counted(k, c)
  BY <1>3, IncCountIs
<1> HIDE DEF c
<1>5. Same(k, c)
  BY <1>4 DEF Counted
<1>6. Moved(m, Step(m), to) /\ Step(m).h = c.h
  BY <1>1, <1>2, <1>5, MovedIs DEF k
<1> QED
  BY <1>3, <1>4, <1>6 DEF Counted

\* The first byte of a token that does not count, ...
LEMMA StepEnters ==
  ASSUME NEW m, NEW byte, NEW to, NEW a, NEW type, Enters(a, type),
         Reads(m, byte, to, <<a>>)
  PROVE  /\ Moved(m, Step(m), to)
         /\ Inside(Step(m).h, type, m.p, 0)
         /\ Step(m).h.content_length = m.h.content_length
<1> DEFINE k == [m EXCEPT !.cs = to]
           e == Execute(k, a, byte)
<1>1. m \in Machines /\ ~ m.out /\ to \in State /\ to # "error"
  BY DEF Reads
<1>2. Step(m) = Ended(e)
  BY StepOf1
<1>3. k \in Machines /\ k.h = m.h /\ k.p = m.p
  BY <1>1, StateSet
<1> HIDE DEF k
<1>4. Entered(k, e, type)
  BY <1>3, EntersIs
<1> HIDE DEF e
<1>5. Same(k, e)
  BY <1>4 DEF Entered
<1>6. Moved(m, Step(m), to) /\ Step(m).h = e.h
  BY <1>1, <1>2, <1>5, MovedIs DEF k
<1> QED
  BY <1>3, <1>4, <1>6 DEF Entered, Inside

\* ... and one that does.
LEMMA StepEntersCounting ==
  ASSUME NEW m, NEW byte, NEW to, NEW a, NEW type, Enters(a, type),
         Reads(m, byte, to, <<a, "inc_count">>), 1 <= Limit[type]
  PROVE  /\ Moved(m, Step(m), to)
         /\ Inside(Step(m).h, type, m.p, 1)
         /\ Step(m).h.content_length = m.h.content_length
<1> DEFINE k == [m EXCEPT !.cs = to]
           e == Execute(k, a, byte)
           c == inc_count(e)
<1>1. m \in Machines /\ ~ m.out /\ to \in State /\ to # "error"
  BY DEF Reads
<1>2. Step(m) = Ended(Act(e, "inc_count", byte))
  BY StepOf2
<1>3. k \in Machines /\ k.h = m.h /\ k.p = m.p /\ k.out = m.out
  BY <1>1, StateSet
<1> HIDE DEF k
<1>4. Entered(k, e, type)
  BY <1>3, EntersIs
<1> HIDE DEF e
<1>5. /\ e \in Machines /\ ~ e.out /\ e.h.limit_count = 0
      /\ e.h.limit_max = Limit[type]
  BY <1>1, <1>3, <1>4 DEF Entered, Same
<1>6. Act(e, "inc_count", byte) = c
  BY <1>5, ExecuteIs DEF Act
<1>7. Counted(e, c)
  <2>1. e.h.limit_count + 1 <= e.h.limit_max
    BY <1>5
  <2> QED
    BY <1>5, <2>1, IncCountIs
<1> HIDE DEF c
<1>8. Same(k, c)
  BY <1>4, <1>7 DEF Counted, Entered, Same
<1>9. Moved(m, Step(m), to) /\ Step(m).h = c.h
  BY <1>1, <1>2, <1>6, <1>8, MovedIs DEF k
<1>10. c.h.limit_count = 1
  BY <1>5, <1>7 DEF Counted
<1> QED
  BY <1>3, <1>4, <1>7, <1>9, <1>10 DEF Counted, Entered, Inside

\* The first byte of a header's name, before or after which counting begins
\* anew.
LEMMA StepKey ==
  ASSUME NEW m, NEW byte, NEW to, 1 <= Limit["HEADER_KEY"],
         \/ Reads(m, byte, to, <<"reset_count", "header_key", "inc_count">>)
         \/ Reads(m, byte, to, <<"header_key", "reset_count", "inc_count">>)
  PROVE  /\ Moved(m, Step(m), to)
         /\ Inside(Step(m).h, "HEADER_KEY", m.p, 1)
         /\ Step(m).h.content_length = m.h.content_length
<1> DEFINE k == [m EXCEPT !.cs = to]
<1>1. m \in Machines /\ ~ m.out /\ to \in State /\ to # "error"
  BY DEF Reads
<1>2. k \in Machines /\ k.h = m.h /\ k.p = m.p /\ k.out = m.out
  BY <1>1, StateSet
<1>3. \E e : /\ Step(m) = Ended(Act(e, "inc_count", byte))
             /\ Same(k, e) /\ e.h.content_length = m.h.content_length
             /\ Inside(e.h, "HEADER_KEY", m.p, 0)
  <2>1. CASE Reads(m, byte, to, <<"reset_count", "header_key", "inc_count">>)
    <3> DEFINE r == reset_count(k)
               e == EnterToken(r, "HEADER_KEY")
    <3>1. Step(m) = Ended(Act(Act(r, "header_key", byte), "inc_count", byte))
      BY <2>1, StepOf3, ExecuteIs
    <3> HIDE DEF k
    <3>2. Restarted(k, r)
      BY <1>2, ResetCountIs
    <3> HIDE DEF r
    <3>3. r \in Machines /\ ~ r.out /\ r.p = m.p
      BY <1>1, <1>2, <3>2 DEF Restarted, Same
    <3>4. Entered(r, e, "HEADER_KEY")
      BY <3>3, EnterTokenIs
    <3>5. Act(r, "header_key", byte) = e
      BY <3>3, ExecuteIs DEF Act
    <3> HIDE DEF e
    <3>6. Same(k, e) /\ e.h.content_length = m.h.content_length
      BY <1>2, <3>2, <3>4 DEF Entered, Restarted, Same
    <3>7. Inside(e.h, "HEADER_KEY", m.p, 0)
      BY <3>3, <3>4 DEF Entered, Inside
    <3> QED
      BY <3>1, <3>5, <3>6, <3>7
  <2>2. CASE Reads(m, byte, to, <<"header_key", "reset_count", "inc_count">>)
    <3> DEFINE r == EnterToken(k, "HEADER_KEY")
               e == reset_count(r)
    <3>1. Step(m) = Ended(Act(Act(r, "reset_count", byte), "inc_count", byte))
      BY <2>2, StepOf3, ExecuteIs
    <3> HIDE DEF k
    <3>2. Entered(k, r, "HEADER_KEY")
      BY <1>2, EnterTokenIs
    <3> HIDE DEF r
    <3>3. r \in Machines /\ ~ r.out
      BY <1>1, <1>2, <3>2 DEF Entered, Same
    <3>4. Restarted(r, e)
      BY <3>3, ResetCountIs
    <3>5. Act(r, "reset_count", byte) = e
      BY <3>3, ExecuteIs DEF Act
    <3> HIDE DEF e
    <3>6. Same(k, e) /\ e.h.content_length = m.h.content_length
      BY <1>2, <3>2, <3>4 DEF Entered, Restarted, Same
    <3>7. Inside(e.h, "HEADER_KEY", m.p, 0)
      BY <1>2, <3>2, <3>4 DEF Entered, Restarted, Inside
    <3> QED
      BY <3>1, <3>5, <3>6, <3>7
  <2> QED
    BY <2>1, <2>2
<1> HIDE DEF k
<1>4. PICK e : /\ Step(m) = Ended(Act(e, "inc_count", byte))
               /\ Same(k, e) /\ e.h.content_length = m.h.content_length
               /\ Inside(e.h, "HEADER_KEY", m.p, 0)
  BY <1>3
<1> DEFINE c == inc_count(e)
<1>5. /\ e \in Machines /\ ~ e.out /\ e.h.limit_count = 0
      /\ e.h.limit_max = Limit["HEADER_KEY"]
  BY <1>1, <1>2, <1>4 DEF Same, Inside
<1>6. Act(e, "inc_count", byte) = c
  BY <1>5, ExecuteIs DEF Act
<1>7. Counted(e, c)
  <2>1. e.h.limit_count + 1 <= e.h.limit_max
    BY <1>5
  <2> QED
    BY <1>5, <2>1, IncCountIs
<1> HIDE DEF c
<1>8. Same(k, c)
  BY <1>4, <1>7 DEF Counted, Same
<1>9. Moved(m, Step(m), to) /\ Step(m).h = c.h
  BY <1>1, <1>4, <1>6, <1>8, MovedIs DEF k
<1>10. c.h.limit_count = 1
  BY <1>5, <1>7 DEF Counted
<1> QED
  BY <1>4, <1>7, <1>9, <1>10 DEF Counted, Inside


\* The digits of the length, the first of which enters the header's value.
LEMMA StepDigit ==
  ASSUME NEW m, NEW byte, NEW to,
         Reads(m, byte, to, <<"content_length_digit", "inc_count">>),
         m.h.limit_count + 1 <= m.h.limit_max
  PROVE  /\ Moved(m, Step(m), to)
         /\ Step(m).h.token = m.h.token
         /\ Step(m).h.content_length = 10 * m.h.content_length + Value(byte)
         /\ Step(m).h.limit_max = m.h.limit_max
         /\ Step(m).h.limit_count = m.h.limit_count + 1
<1> DEFINE k == [m EXCEPT !.cs = to]
           e == content_length_digit(k, byte)
           c == inc_count(e)
<1>1. m \in Machines /\ ~ m.out /\ to \in State /\ to # "error"
  BY DEF Reads
<1>2. Step(m) = Ended(Act(e, "inc_count", byte))
  BY StepOf2, ExecuteIs
<1>3. k \in Machines /\ k.h = m.h /\ k.out = m.out
  BY <1>1, StateSet
<1> HIDE DEF k
<1>4. Summed(k, e, byte)
  BY <1>3, LengthDigitIs
<1> HIDE DEF e
<1>5. /\ e \in Machines /\ ~ e.out /\ e.h.limit_count = m.h.limit_count
      /\ e.h.limit_max = m.h.limit_max
  BY <1>1, <1>3, <1>4 DEF Summed, Same
<1>6. Act(e, "inc_count", byte) = c
  BY <1>5, ExecuteIs DEF Act
<1>7. Counted(e, c)
  BY <1>5, IncCountIs
<1> HIDE DEF c
<1>8. Same(k, c)
  BY <1>4, <1>7 DEF Counted, Summed, Same
<1>9. Moved(m, Step(m), to) /\ Step(m).h = c.h
  BY <1>1, <1>2, <1>6, <1>8, MovedIs DEF k
<1> QED
  BY <1>3, <1>4, <1>5, <1>7, <1>9 DEF Counted, Summed

LEMMA StepFirstDigit ==
  ASSUME NEW m, NEW byte, NEW to, 1 <= Limit["HEADER_VALUE"],
         Reads(m, byte, to,
               <<"content_length_digit", "header_value", "inc_count">>)
  PROVE  /\ Moved(m, Step(m), to)
         /\ Inside(Step(m).h, "HEADER_VALUE", m.p, 1)
         /\ Step(m).h.content_length = 10 * m.h.content_length + Value(byte)
<1> DEFINE k == [m EXCEPT !.cs = to]
           d == content_length_digit(k, byte)
           e == EnterToken(d, "HEADER_VALUE")
           c == inc_count(e)
<1>1. m \in Machines /\ ~ m.out /\ to \in State /\ to # "error"
  BY DEF Reads
<1>2. Step(m) = Ended(Act(Act(d, "header_value", byte), "inc_count", byte))
  BY StepOf3, ExecuteIs
<1>3. k \in Machines /\ k.h = m.h /\ k.out = m.out /\ k.p = m.p
  BY <1>1, StateSet
<1> HIDE DEF k
<1>4. Summed(k, d, byte)
  BY <1>3, LengthDigitIs
<1> HIDE DEF d
<1>5. d \in Machines /\ ~ d.out /\ d.p = m.p
  BY <1>1, <1>3, <1>4 DEF Summed, Same
<1>6. Act(d, "header_value", byte) = e
  BY <1>5, ExecuteIs DEF Act
<1>7. Entered(d, e, "HEADER_VALUE")
  BY <1>5, EnterTokenIs
<1> HIDE DEF e
<1>8. /\ e \in Machines /\ ~ e.out /\ e.h.limit_count = 0
      /\ e.h.limit_max = Limit["HEADER_VALUE"]
  BY <1>5, <1>7 DEF Entered, Same
<1>9. Act(e, "inc_count", byte) = c
  BY <1>8, ExecuteIs DEF Act
<1>10. Counted(e, c)
  <2>1. e.h.limit_count + 1 <= e.h.limit_max
    BY <1>8
  <2> QED
    BY <1>8, <2>1, IncCountIs
<1> HIDE DEF c
<1>11. Same(k, c)
  BY <1>4, <1>7, <1>10 DEF Counted, Entered, Summed, Same
<1>12. Moved(m, Step(m), to) /\ Step(m).h = c.h
  BY <1>1, <1>2, <1>6, <1>9, <1>11, MovedIs DEF k
<1>13. c.h.limit_count = 1
  BY <1>8, <1>10 DEF Counted
<1> QED
  BY <1>3, <1>4, <1>5, <1>7, <1>10, <1>12, <1>13
  DEF Counted, Entered, Summed, Inside

\* The buffer knows where the headers end, and may have grown for a body of
\* that size.
Grown(b, c, after, size) ==
  /\ c.after_headers_index = after /\ c.length = b.length /\ c.seq = b.seq
  /\ c.capacity \in {b.capacity, size + after} /\ b.capacity <= c.capacity
  /\ \A k \in 1 .. b.capacity : c.mem[k] = b.mem[k]

\* The end of the headers was announced.
EndsHead(m, n, next, marks) ==
  /\ n \in Machines /\ n.cs = next /\ n.p = m.p + 1 /\ n.out
  /\ n.pe = m.pe /\ n.b = m.b /\ n.h.seq = m.h.seq
  /\ n.h.content_length = m.h.content_length
  /\ n.h.flags = m.h.flags \cup {"TOKEN_READY"}
  /\ n.h.token = Tok("HEADERS_DONE", 0, 0, marks)

LEMMA HeadersDoneIs ==
  ASSUME NEW m \in Machines, NEW next \in State,
         NEW marks \in {{"NO_BODY"}, {}},
         NEW n, n = HeadersDone(m, next, marks)
  PROVE  EndsHead(m, n, next, marks)
<1> DEFINE t == Tok("HEADERS_DONE", 0, 0, marks)
           h == [m.h EXCEPT !.token = t]
           k1 == [m EXCEPT !.cs = next]
           k == [k1 EXCEPT !.h = h]
           r == Ready(k)
<1>1. m.h \in Parsers /\ t \in Token
  BY DEF Machines, Token, Tok, TokenType
<1>2. n = FBreak(r)
  BY DEF HeadersDone, Machines, Parsers, Tok
<1> HIDE DEF t
<1>3. /\ h \in Parsers /\ h.seq = m.h.seq /\ h.flags = m.h.flags
      /\ h.token = t /\ h.content_length = m.h.content_length
  BY <1>1 DEF Parsers
<1> HIDE DEF h
<1>4. /\ k \in Machines /\ k.h = h /\ k.cs = next /\ k.p = m.p
      /\ k.pe = m.pe /\ k.b = m.b
  BY <1>3 DEF Machines
<1> HIDE DEF k
<1>5. /\ r \in Machines
      /\ r.cs = k.cs /\ r.p = k.p /\ r.pe = k.pe /\ r.b = k.b
      /\ r.h = [h EXCEPT !.flags = @ \cup {"TOKEN_READY"}]
  BY <1>4, ReadyType
<1>6. /\ r.h.seq = m.h.seq
      /\ r.h.flags = m.h.flags \cup {"TOKEN_READY"} /\ r.h.token = t
      /\ r.h.content_length = m.h.content_length
  BY <1>3, <1>5 DEF Parsers
<1> HIDE DEF r
<1>7. /\ n \in Machines
      /\ n.cs = r.cs /\ n.p = r.p + 1 /\ n.pe = r.pe /\ n.b = r.b
      /\ n.h = r.h /\ n.out
  BY <1>2, <1>5, FBreakType
<1> QED
  BY <1>4, <1>5, <1>6, <1>7 DEF EndsHead, t

\* The empty line after the headers, if the whole request fits in the buffer.
LEMMA DoneHeadersIs ==
  ASSUME NEW m \in Machines, "CHUNKED" \notin m.h.flags,
         0 <= m.p, m.p + 1 <= m.b.capacity,
         NEW size, size = m.h.content_length, (m.p + 1) + size <= MaxCap,
         m.cs \in State, NEW n, n = done_headers(m)
  PROVE  /\ n \in Machines
         /\ n.cs = (IF size = 0 THEN m.cs ELSE "small_body")
         /\ n.p = m.p + 1 /\ n.out /\ n.pe = m.pe /\ n.h.seq = m.h.seq
         /\ n.h.content_length = size
         /\ n.h.flags = m.h.flags \cup {"TOKEN_READY"}
         /\ n.h.token = Tok("HEADERS_DONE", 0, 0,
                            IF size = 0 THEN {"NO_BODY"} ELSE {})
         /\ Grown(m.b, n.b, m.p + 1, size)
<1> DEFINE after == m.p + 1
           b == [m.b EXCEPT !.after_headers_index = after]
           h == [m.h EXCEPT !.content_remaining = size]
           i == [m EXCEPT !.b = b]
           j == [i EXCEPT !.h = h]
<1>1. /\ after \in Nat /\ after <= m.b.capacity /\ m.b \in ReadBuffers
      /\ m.h \in Parsers /\ size \in Nat /\ MaxCap \in Nat
      /\ after + size <= MaxCap /\ m.b.capacity \in Nat
      /\ m.b.capacity <= MaxCap
  <2>1. m.p \in Int /\ m.b \in ReadBuffers /\ m.h \in Parsers
    BY DEF Machines
  <2>2. size \in Nat /\ MaxCap \in Nat
    BY <2>1, ParserAssumption DEF Parsers
  <2>3. m.b.capacity \in Nat /\ m.b.capacity <= MaxCap
    BY <2>1 DEF ReadBuffers
  <2> QED
    BY <2>1, <2>2, <2>3
<1>2. j = [m EXCEPT !.b.after_headers_index = after,
                    !.h.content_remaining = size]
  BY DEF Machines, Parsers, ReadBuffers
<1>3. n = IF size = 0 THEN HeadersDone(j, j.cs, {"NO_BODY"})
          ELSE IF size + after > j.b.capacity
               THEN HeadersDone([j EXCEPT !.b = Resize(@, size + after)],
                                "small_body", {})
               ELSE HeadersDone(j, "small_body", {})
  <2>1. "CHUNKED" \notin j.h.flags
    BY DEF Machines, Parsers
  <2>2. ~(size > MaxCap - after)
    BY <1>1
  <2> HIDE DEF j, after
  <2> QED
    BY <1>2, <2>1, <2>2 DEF done_headers, after
<1> HIDE DEF after
<1>4. /\ b \in ReadBuffers /\ b.after_headers_index = after
      /\ b.length = m.b.length /\ b.seq = m.b.seq
      /\ b.capacity = m.b.capacity /\ b.mem = m.b.mem
  BY <1>1 DEF ReadBuffers
<1>5. /\ h \in Parsers /\ h.seq = m.h.seq /\ h.flags = m.h.flags
      /\ h.content_length = size
  BY <1>1 DEF Parsers
<1> HIDE DEF b, h
<1>6. /\ j \in Machines /\ j.h = h /\ j.cs = m.cs /\ j.p = m.p
      /\ j.pe = m.pe /\ j.b = b
  BY <1>4, <1>5 DEF Machines
<1> HIDE DEF j
<1>7. "small_body" \in State
  BY DEF State
<1>8. size # 0 => Tok("HEADERS_DONE", 0, 0, {})
        = Tok("HEADERS_DONE", 0, 0, IF size = 0 THEN {"NO_BODY"} ELSE {})
  OBVIOUS
<1>9. Grown(m.b, b, after, size)
  BY <1>1, <1>4 DEF Grown
<1>10. CASE size = 0
  <2>1. n = HeadersDone(j, j.cs, {"NO_BODY"})
    BY <1>3, <1>10
  <2>2. EndsHead(j, n, j.cs, {"NO_BODY"})
    BY <1>6, <2>1, HeadersDoneIs
  <2> QED
    BY <1>5, <1>6, <1>9, <1>10, <2>2 DEF EndsHead, after
<1>11. CASE size # 0 /\ ~(size + after > j.b.capacity)
  <2>1. n = HeadersDone(j, "small_body", {})
    BY <1>3, <1>11
  <2>2. EndsHead(j, n, "small_body", {})
    BY <1>6, <1>7, <2>1, HeadersDoneIs
  <2> QED
    BY <1>5, <1>6, <1>8, <1>9, <1>11, <2>2 DEF EndsHead, after
<1>12. CASE size # 0 /\ size + after > j.b.capacity
  <2> DEFINE c == size + after
             r == Resize(b, c)
             k == [j EXCEPT !.b = r]
  <2>1. c \in Nat /\ c <= MaxCap /\ m.b.capacity <= c /\ after <= c
        /\ b.length <= c
    BY <1>1, <1>4, <1>6, <1>12 DEF ReadBuffers
  <2>2. /\ r \in ReadBuffers /\ r.capacity = c /\ r.length = b.length
        /\ r.after_headers_index = after /\ r.seq = b.seq
    <3> HIDE DEF c
    <3> QED  BY <1>4, <2>1, ResizeType
  <2>3. \A x \in 1 .. m.b.capacity : r.mem[x] = m.b.mem[x]
    <3> DEFINE mem == [x \in 1 .. c |-> At(b, x - 1)]
    <3>1. r = [b EXCEPT !.capacity = c, !.mem = mem]
      BY DEF Resize
    <3> HIDE DEF mem
    <3>2. r.mem = mem
      BY <1>4, <3>1 DEF ReadBuffers
    <3>3. ASSUME NEW x \in 1 .. m.b.capacity
          PROVE  mem[x] = m.b.mem[x]
      <4>1. x \in 1 .. c /\ x - 1 \in 0 .. b.capacity - 1 /\ (x - 1) + 1 = x
        BY <1>1, <1>4, <2>1
      <4>2. mem[x] = At(b, x - 1)
        BY <4>1 DEF mem
      <4> QED
        BY <1>4, <4>1, <4>2 DEF At
    <3> QED
      BY <3>2, <3>3
  <2>4. n = HeadersDone(k, "small_body", {})
    BY <1>3, <1>6, <1>12
  <2> HIDE DEF r, c
  <2>5. /\ k \in Machines /\ k.h = h /\ k.p = m.p /\ k.pe = m.pe /\ k.b = r
    BY <1>6, <2>2 DEF Machines
  <2> HIDE DEF k
  <2>6. EndsHead(k, n, "small_body", {})
    BY <1>7, <2>4, <2>5, HeadersDoneIs
  <2>7. Grown(m.b, r, after, size)
    BY <1>4, <2>1, <2>2, <2>3 DEF Grown, c
  <2> QED
    BY <1>5, <1>8, <1>12, <2>5, <2>6, <2>7 DEF EndsHead, after
<1> QED
  BY <1>10, <1>11, <1>12


\* The line end after the empty line.
LEMMA StepBlank ==
  ASSUME NEW m, NEW byte, NEW size, size = m.h.content_length,
         Reads(m, byte, "final", <<"inc_count", "done_headers">>),
         m.h.limit_count + 1 <= m.h.limit_max,
         "CHUNKED" \notin m.h.flags,
         0 <= m.p, m.p + 1 <= m.b.capacity, (m.p + 1) + size <= MaxCap
  PROVE  LET n == Step(m)
         IN  /\ n.cs = (IF size = 0 THEN "final" ELSE "small_body")
             /\ n.p = m.p + 1 /\ n.out /\ n.pe = m.pe /\ n.h.seq = m.h.seq
             /\ n.h.content_length = size
             /\ n.h.flags = m.h.flags \cup {"TOKEN_READY"}
             /\ n.h.token = Tok("HEADERS_DONE", 0, 0,
                                IF size = 0 THEN {"NO_BODY"} ELSE {})
             /\ Grown(m.b, n.b, m.p + 1, size)
<1> DEFINE k == [m EXCEPT !.cs = "final"]
           c == inc_count(k)
           d == done_headers(c)
           to == "final"
<1>1. m \in Machines /\ ~ m.out /\ to \in State /\ to # "error"
  BY DEF Reads
<1>2. Step(m) = Ended(Act(c, "done_headers", byte))
  BY StepOf2, ExecuteIs
<1>3. /\ k \in Machines /\ k.cs = to /\ k.p = m.p /\ k.pe = m.pe
      /\ k.b = m.b /\ k.h = m.h /\ k.out = m.out
  BY <1>1, StateSet
<1> HIDE DEF k
<1>4. Counted(k, c)
  BY <1>3, IncCountIs
<1> HIDE DEF c
<1>5. /\ c \in Machines /\ ~ c.out /\ c.cs = to /\ c.p = m.p /\ c.pe = m.pe
      /\ c.b = m.b /\ c.h.seq = m.h.seq /\ c.h.flags = m.h.flags
      /\ c.h.content_length = size
  BY <1>1, <1>3, <1>4 DEF Counted, Same
<1>6. Act(c, "done_headers", byte) = d
  BY <1>5, ExecuteIs DEF Act
<1> HIDE DEF d
<1>7. /\ "CHUNKED" \notin c.h.flags /\ 0 <= c.p /\ c.p + 1 <= c.b.capacity
      /\ size = c.h.content_length /\ (c.p + 1) + size <= MaxCap
      /\ c.cs \in State
  BY <1>1, <1>5
<1>8. /\ d \in Machines
      /\ d.cs = (IF size = 0 THEN c.cs ELSE "small_body")
      /\ d.p = c.p + 1 /\ d.out /\ d.pe = c.pe /\ d.h.seq = c.h.seq
      /\ d.h.content_length = size
      /\ d.h.flags = c.h.flags \cup {"TOKEN_READY"}
      /\ d.h.token = Tok("HEADERS_DONE", 0, 0,
                         IF size = 0 THEN {"NO_BODY"} ELSE {})
      /\ Grown(c.b, d.b, c.p + 1, size)
  BY <1>5, <1>7, DoneHeadersIs DEF d
<1>9. /\ Step(m).cs = d.cs /\ Step(m).pe = d.pe /\ Step(m).b = d.b
      /\ Step(m).h = d.h /\ Step(m).p = d.p /\ Step(m).out
  BY <1>2, <1>6, <1>8, EndedIs
<1> QED
  BY <1>5, <1>8, <1>9 DEF to

-----------------------------------------------------------------------------
(* The step of a small body.                                               *)

\* The data was looked at: the body is complete or not.
Fetched(m, n) ==
  LET after == m.b.after_headers_index
      size  == m.h.content_length
  IN  /\ n \in Machines /\ n.cs = m.cs /\ n.p = m.pe /\ n.out /\ n.pe = m.pe
      /\ n.b = m.b /\ n.h.seq = m.h.seq /\ n.h.content_length = size
      /\ n.h.token = Tok(m.h.token.type, after, size,
                         m.h.token.flags \cup {"SMALL_BODY"})
      /\ n.h.flags = m.h.flags \cup (IF m.pe >= after + size - 1
                                     THEN {"DONE", "TOKEN_READY"} ELSE {})

LEMMA SmallBodyIs ==
  ASSUME NEW m \in Machines, NEW n, n = small_body_read(m)
  PROVE  Fetched(m, n)
<1> DEFINE after == m.b.after_headers_index
           size  == m.h.content_length
           marks == m.h.token.flags \cup {"SMALL_BODY"}
           t == Tok(m.h.token.type, after, size, marks)
           h == [m.h EXCEPT !.token = t]
           k == [m EXCEPT !.h = h]
           hd == [h EXCEPT !.flags = h.flags \cup {"DONE"}]
           kd == [k EXCEPT !.h = hd]
           r == Ready(kd)
           ended == m.pe >= after + size - 1
<1>1. /\ m.h \in Parsers /\ m.h.token \in Token /\ m.b \in ReadBuffers
      /\ m.pe \in Int
  BY DEF Machines, Parsers
<1>2. after \in Nat /\ size \in Nat
  BY <1>1 DEF ReadBuffers, Parsers
<1>3. t \in Token
  BY <1>1, <1>2 DEF Token, Tok
<1>4. n = [(IF ended THEN r ELSE k) EXCEPT !.p = m.pe, !.out = TRUE]
  <2>1. k = [m EXCEPT !.h.token.index = after, !.h.token.len = size,
                      !.h.token.flags = @ \cup {"SMALL_BODY"}]
    BY <1>1, <1>2 DEF Machines, Parsers, Token, Tok
  <2>2. kd = [k EXCEPT !.h.flags = @ \cup {"DONE"}]
    BY DEF Machines, Parsers
  <2> HIDE DEF k, kd
  <2> QED
    BY <2>1, <2>2 DEF small_body_read
<1> HIDE DEF t, ended
<1>5. /\ h \in Parsers /\ h.seq = m.h.seq /\ h.flags = m.h.flags
      /\ h.token = t /\ h.content_length = size
  BY <1>1, <1>3 DEF Parsers
<1> HIDE DEF h
<1>6. /\ k \in Machines /\ k.h = h /\ k.cs = m.cs /\ k.p = m.p
      /\ k.pe = m.pe /\ k.b = m.b
  BY <1>5 DEF Machines
<1>7. /\ hd \in Parsers /\ hd.seq = h.seq
      /\ hd.flags = m.h.flags \cup {"DONE"}
      /\ hd.token = t /\ hd.content_length = size
  BY <1>5 DEF Parsers
<1> HIDE DEF k, hd
<1>8. /\ kd \in Machines /\ kd.h = hd /\ kd.cs = m.cs
      /\ kd.pe = m.pe /\ kd.b = m.b
  BY <1>6, <1>7 DEF Machines
<1> HIDE DEF kd
<1>9. /\ r \in Machines
      /\ r.cs = kd.cs /\ r.pe = kd.pe /\ r.b = kd.b
      /\ r.h = [hd EXCEPT !.flags = @ \cup {"TOKEN_READY"}]
  BY <1>8, ReadyType
<1>10. /\ r.h.seq = m.h.seq
       /\ r.h.flags = m.h.flags \cup {"DONE", "TOKEN_READY"}
       /\ r.h.token = t /\ r.h.content_length = size
  BY <1>5, <1>7, <1>9 DEF Parsers
<1> HIDE DEF r
<1>11. CASE ended
  <2>1. n = [r EXCEPT !.p = m.pe, !.out = TRUE]
    BY <1>4, <1>11
  <2>2. /\ n \in Machines /\ n.cs = r.cs /\ n.p = m.pe /\ n.out
        /\ n.pe = r.pe /\ n.b = r.b /\ n.h = r.h
    BY <1>1, <1>9, <2>1 DEF Machines
  <2> QED
    BY <1>8, <1>9, <1>10, <1>11, <2>2 DEF Fetched, ended, t
<1>12. CASE ~ ended
  <2>1. n = [k EXCEPT !.p = m.pe, !.out = TRUE]
    BY <1>4, <1>12
  <2>2. /\ n \in Machines /\ n.cs = k.cs /\ n.p = m.pe /\ n.out
        /\ n.pe = k.pe /\ n.b = k.b /\ n.h = k.h
    BY <1>1, <1>6, <2>1 DEF Machines
  <2> QED
    BY <1>5, <1>6, <1>12, <2>2 DEF Fetched, ended, t
<1> QED
  BY <1>11, <1>12

\* body(m)
LEMMA BodyIs ==
  ASSUME NEW m \in Machines, NEW n, n = body(m)
  PROVE  /\ n \in Machines /\ n.cs = m.cs /\ n.p = m.p /\ n.pe = m.pe
         /\ n.b = m.b /\ n.out = m.out /\ n.h.seq = m.h.seq
         /\ n.h.flags = m.h.flags /\ n.h.content_length = m.h.content_length
         /\ n.h.token.type = "BODY" /\ n.h.token.flags = {}
<1> DEFINE t == [m.h.token EXCEPT !.type = "BODY", !.index = m.p, !.flags = {}]
           h == [m.h EXCEPT !.token = t]
<1>1. m.h \in Parsers /\ m.h.token \in Token /\ m.p \in Int
  BY DEF Machines, Parsers
<1>2. t \in Token /\ t.type = "BODY" /\ t.flags = {}
  BY <1>1 DEF Token, TokenType
<1>3. n = [m EXCEPT !.h = h]
  BY DEF body, Machines, Parsers
<1> HIDE DEF t
<1>4. /\ h \in Parsers /\ h.seq = m.h.seq /\ h.flags = m.h.flags
      /\ h.token = t /\ h.content_length = m.h.content_length
  BY <1>1, <1>2 DEF Parsers
<1> HIDE DEF h
<1>5. /\ n \in Machines /\ n.h = h /\ n.cs = m.cs /\ n.p = m.p /\ n.pe = m.pe
      /\ n.b = m.b /\ n.out = m.out
  BY <1>3, <1>4 DEF Machines
<1> QED
  BY <1>2, <1>4, <1>5

LEMMA StepBody ==
  ASSUME NEW m, NEW byte,
         \/ Reads(m, byte, "small", <<"body", "small_body_read">>)
         \/ /\ Reads(m, byte, "small", <<"small_body_read">>)
            /\ m.h.token.type = "BODY" /\ m.h.token.flags = {"SMALL_BODY"}
  PROVE  LET n     == Step(m)
             start == m.b.after_headers_index
             size  == m.h.content_length
         IN  /\ n.cs = "small" /\ n.p = m.pe /\ n.out /\ n.pe = m.pe
             /\ n.b = m.b /\ n.h.seq = m.h.seq /\ n.h.content_length = size
             /\ n.h.token = Tok("BODY", start, size, {"SMALL_BODY"})
             /\ n.h.flags = m.h.flags \cup (IF m.pe >= start + size - 1
                                            THEN {"DONE", "TOKEN_READY"}
                                            ELSE {})
<1> DEFINE k == [m EXCEPT !.cs = "small"]
           to == "small"
<1>1. m \in Machines /\ ~ m.out /\ to \in State /\ to # "error"
  BY DEF Reads
<1>2. /\ k \in Machines /\ k.cs = to /\ k.p = m.p /\ k.pe = m.pe
      /\ k.b = m.b /\ k.h = m.h /\ k.out = m.out
  BY <1>1, StateSet
<1>3. \E e : /\ e \in Machines /\ e.cs = to /\ e.pe = m.pe /\ e.b = m.b
             /\ e.h.seq = m.h.seq /\ e.h.flags = m.h.flags
             /\ e.h.content_length = m.h.content_length
             /\ e.h.token.type = "BODY"
             /\ e.h.token.flags \cup {"SMALL_BODY"} = {"SMALL_BODY"}
             /\ Step(m) = Ended(small_body_read(e))
  <2>1. CASE Reads(m, byte, "small", <<"body", "small_body_read">>)
    <3> DEFINE e == body(k)
    <3>1. Step(m) = Ended(Act(e, "small_body_read", byte))
      BY <2>1, StepOf2, ExecuteIs
    <3> HIDE DEF k
    <3>2. /\ e \in Machines /\ e.cs = k.cs /\ e.p = k.p /\ e.pe = k.pe
          /\ e.b = k.b /\ e.out = k.out /\ e.h.seq = k.h.seq
          /\ e.h.flags = k.h.flags /\ e.h.content_length = k.h.content_length
          /\ e.h.token.type = "BODY" /\ e.h.token.flags = {}
      BY <1>2, BodyIs
    <3> HIDE DEF e
    <3>3. Act(e, "small_body_read", byte) = small_body_read(e)
      BY <1>1, <1>2, <3>2, ExecuteIs DEF Act
    <3> QED
      BY <1>2, <3>1, <3>2, <3>3
  <2>2. CASE /\ Reads(m, byte, "small", <<"small_body_read">>)
             /\ m.h.token.type = "BODY" /\ m.h.token.flags = {"SMALL_BODY"}
    <3>1. Step(m) = Ended(small_body_read(k))
      BY <2>2, StepOf1, ExecuteIs
    <3> HIDE DEF k
    <3>2. k.h.token.flags \cup {"SMALL_BODY"} = {"SMALL_BODY"}
      BY <1>2, <2>2
    <3> QED
      BY <1>2, <2>2, <3>1, <3>2
  <2> QED
    BY <2>1, <2>2
<1> HIDE DEF k
<1>4. PICK e : /\ e \in Machines /\ e.cs = to /\ e.pe = m.pe /\ e.b = m.b
               /\ e.h.seq = m.h.seq /\ e.h.flags = m.h.flags
               /\ e.h.content_length = m.h.content_length
               /\ e.h.token.type = "BODY"
               /\ e.h.token.flags \cup {"SMALL_BODY"} = {"SMALL_BODY"}
               /\ Step(m) = Ended(small_body_read(e))
  BY <1>3
<1> DEFINE f == small_body_read(e)
<1>5. Fetched(e, f)
  BY <1>4, SmallBodyIs
<1> HIDE DEF f
<1>6. /\ Step(m).cs = f.cs /\ Step(m).pe = f.pe /\ Step(m).b = f.b
      /\ Step(m).h = f.h /\ Step(m).p = f.p /\ Step(m).out
  BY <1>4, <1>5, EndedIs DEF Fetched, f
<1> QED
  BY <1>4, <1>5, <1>6 DEF Fetched


-----------------------------------------------------------------------------
(* What is where in a request the settings allow.                          *)

\* The headers are in their order.
LEMMA LinesOrder ==
  ASSUME NEW s, WellFormed(s), LimitsAllow, NEW i \in 1 .. Count(s),
         i # Count(s)
  PROVE  LineAt(s, i + 1) <= LineAt(s, Count(s))
<1> DEFINE n == Count(s)
           L(j) == LineAt(s, j)
           good == {d \in Nat : \A j \in 1 .. n :
                                  j + d <= n => L(j) <= L(j + d)}
<1>1. n \in Nat \ {0}
  BY HeadersAre
<1>2. \A j \in 1 .. n : L(j) \in Nat /\ L(j) <= L(j + 1)
  <2> TAKE j \in 1 .. n
  <2>1. L(j) \in Nat /\ L(j + 1) = L(j) + KeyLen(s, j) + TextLen(s, j) + 4
    BY LinesAre
  <2>2. KeyLen(s, j) \in Nat \ {0} /\ TextLen(s, j) \in Nat \ {0}
    BY HeaderIs
  <2> HIDE DEF L
  <2> QED
    BY <2>1, <2>2
<1> HIDE DEF n, L
<1>3. 0 \in good
  <2>1. \A j \in 1 .. n : L(j + 0) = L(j) /\ L(j) \in Int
    BY <1>1, <1>2
  <2> QED
    BY <2>1
<1>4. ASSUME NEW d \in Nat, d \in good PROVE d + 1 \in good
  <2>1. SUFFICES ASSUME NEW j \in 1 .. n, j + (d + 1) <= n
                 PROVE  L(j) <= L(j + (d + 1))
    OBVIOUS
  <2>2. j + d \in 1 .. n /\ j + d <= n /\ (j + d) + 1 = j + (d + 1)
        /\ j + (d + 1) \in 1 .. n
    BY <1>1, <2>1
  <2>3. L(j) <= L(j + d)
    BY <1>4, <2>2
  <2>4. L(j + d) <= L((j + d) + 1)
    BY <1>2, <2>2
  <2>5. L(j) \in Nat /\ L(j + d) \in Nat /\ L(j + (d + 1)) \in Nat
    BY <1>2, <2>2
  <2>6. L((j + d) + 1) = L(j + (d + 1))
    BY <2>2
  <2> QED
    BY <2>3, <2>4, <2>5, <2>6
<1>5. \A d \in Nat : d \in good
  <2> HIDE DEF good
  <2>1. \A d \in Nat : d \in good => d + 1 \in good
    BY <1>4
  <2> QED
    BY <1>3, <2>1, AllNumbers, Zenon
<1>6. i + 1 \in 1 .. n /\ n - (i + 1) \in Nat /\ (i + 1) + (n - (i + 1)) = n
  BY <1>1 DEF n
<1>7. L(i + 1) <= L((i + 1) + (n - (i + 1)))
  BY <1>1, <1>5, <1>6
<1> QED
  BY <1>6, <1>7 DEF n, L

\* A request the server reads as a whole.
Allowed(s) ==
  s \in Shapes /\ WellFormed(s) /\ LimitsAllow /\ Len(Wire[s]) <= MaxCap

\* Its first line.
LEMMA LineFacts ==
  ASSUME NEW s, Allowed(s)
  PROVE  LET W == Wire[s]
             t == Len(s.target)
         IN  /\ t \in Nat \ {0} /\ t <= Limit["TARGET"]
             /\ W[1] \in Letters /\ W[2] = "SP"
             /\ \A j \in 1 .. t : W[2 + j] \in Byte \ {"SP"}
             /\ W[t + 3] = "SP" /\ W[t + 4] \in {"HTTP/1.0", "HTTP/1.1"}
             /\ W[t + 5] = "CR" /\ W[t + 6] = "LF"
             /\ LineAt(s, 1) = t + 6
             /\ HeadLen(s) \in Nat /\ t + 8 <= HeadLen(s)
             /\ Count(s) \in Nat \ {0}
             /\ TextAt(s, Count(s)) \in Nat /\ t + 6 < TextAt(s, Count(s))
             /\ 1 <= Limit["METHOD"]
<1> DEFINE W == Wire[s]
           t == Len(s.target)
           n == Count(s)
           y == BlankAt(s)
<1>1. s \in Shapes /\ WellFormed(s) /\ LimitsAllow
  BY DEF Allowed
<1>2. /\ n \in Nat \ {0} /\ t \in Nat \ {0}
      /\ W[1] = s.method /\ W[2] = "SP"
      /\ \A j \in 1 .. t : W[2 + j] = s.target[j]
      /\ W[t + 3] = "SP" /\ W[t + 4] = s.version
      /\ W[t + 5] = "CR" /\ W[t + 6] = "LF"
      /\ LineAt(s, 1) = t + 6
      /\ \A i \in 1 .. n :
           /\ LineAt(s, i) \in Nat /\ t + 6 <= LineAt(s, i)
           /\ KeyLen(s, i) \in Nat \ {0}
           /\ LineAt(s, i + 1) <= y
      /\ y \in Nat /\ HeadLen(s) = y + 2
  BY <1>1, Layout
<1>3. /\ s.method \in Letters /\ s.version \in {"HTTP/1.0", "HTTP/1.1"}
      /\ s.target \in Seq(Byte \ {"SP"}) /\ t <= Limit["TARGET"]
  BY <1>1 DEF WellFormed, Bytes
<1>4. \A j \in 1 .. t : s.target[j] \in Byte \ {"SP"}
  BY <1>3, ElementOfSeq
<1>5. 1 <= Limit["METHOD"]
  BY <1>1 DEF LimitsAllow
<1>6. /\ n \in 1 .. n /\ LineAt(s, n) \in Nat /\ t + 6 <= LineAt(s, n)
      /\ KeyLen(s, n) \in Nat \ {0}
      /\ TextAt(s, n) = LineAt(s, n) + KeyLen(s, n) + 2
  <2>1. n \in 1 .. n
    BY <1>2
  <2> QED
    BY <1>2, <2>1 DEF TextAt
<1>7. LineAt(s, n + 1) = y
  BY DEF BlankAt
<1>8. t + 6 <= y
  <2>1. 1 \in 1 .. n /\ t + 6 <= LineAt(s, n) /\ n \in 1 .. n
    BY <1>2, <1>6
  <2>2. LineAt(s, n) <= LineAt(s, n + 1)
    <3>1. LineAt(s, n + 1) = LineAt(s, n) + KeyLen(s, n) + TextLen(s, n) + 4
      BY <1>1, <2>1, LinesAre
    <3>2. TextLen(s, n) \in Nat \ {0}
      BY <1>1, <2>1, HeaderIs
    <3> HIDE DEF n
    <3> QED
      BY <1>6, <3>1, <3>2
  <2> HIDE DEF n
  <2> QED
    BY <1>2, <1>6, <1>7, <2>2
<1> HIDE DEF W, t, n, y
<1>9. /\ HeadLen(s) \in Nat /\ t + 8 <= HeadLen(s)
      /\ TextAt(s, n) \in Nat /\ t + 6 < TextAt(s, n)
  BY <1>2, <1>6, <1>8
<1>10. /\ t \in Nat \ {0} /\ t <= Limit["TARGET"]
       /\ W[1] \in Letters /\ W[2] = "SP"
       /\ \A j \in 1 .. t : W[2 + j] \in Byte \ {"SP"}
       /\ W[t + 3] = "SP" /\ W[t + 4] \in {"HTTP/1.0", "HTTP/1.1"}
       /\ W[t + 5] = "CR" /\ W[t + 6] = "LF" /\ LineAt(s, 1) = t + 6
       /\ n \in Nat \ {0}
  <2>1. t \in Nat \ {0} /\ t <= Limit["TARGET"]
    BY <1>2, <1>3
  <2>2. \A j \in 1 .. t : W[2 + j] \in Byte \ {"SP"}
    BY <1>2, <1>4
  <2> QED
    BY <1>2, <1>3, <2>1, <2>2
<1> QED
  BY <1>5, <1>9, <1>10 DEF W, t, n


\* A header line, as the machine sees it.
LEMMA HeaderFacts ==
  ASSUME NEW s, Allowed(s), NEW i \in 1 .. Count(s)
  PROVE  LET W    == Wire[s]
             line == LineAt(s, i)
             text == TextAt(s, i)
             k    == KeyLen(s, i)
             v    == TextLen(s, i)
         IN  /\ line \in Nat /\ k \in Nat \ {0} /\ v \in Nat \ {0}
             /\ text = line + k + 2 /\ LineAt(s, i + 1) = text + v + 2
             /\ LineAt(s, i + 1) <= BlankAt(s) /\ BlankAt(s) \in Nat
             /\ HeadLen(s) = BlankAt(s) + 2
             /\ i # Count(s) => LineAt(s, i + 1) < TextAt(s, Count(s))
             /\ TextAt(s, Count(s)) \in Nat
             /\ k <= Limit["HEADER_KEY"] /\ v < Limit["HEADER_VALUE"]
             /\ \A j \in 1 .. k : W[line + j] \in TokenByte
             /\ W[line + k + 1] = ":" /\ W[line + k + 2] = "SP"
             /\ \A j \in 1 .. v : W[text + j] = Headers(s)[i][2][j]
             /\ W[text + v + 1] = "CR" /\ W[text + v + 2] = "LF"
<1> DEFINE W    == Wire[s]
           line == LineAt(s, i)
           text == TextAt(s, i)
           k    == KeyLen(s, i)
           v    == TextLen(s, i)
           n    == Count(s)
           y    == BlankAt(s)
           next == LineAt(s, i + 1)
           key  == Headers(s)[i][1]
           end  == LineAt(s, n)
<1>1. s \in Shapes /\ WellFormed(s) /\ LimitsAllow
  BY DEF Allowed
<1>2. /\ n \in Nat \ {0}
      /\ line \in Nat /\ k \in Nat \ {0} /\ v \in Nat \ {0}
      /\ next = line + k + v + 4 /\ next <= y
      /\ \A j \in 1 .. k : W[line + j] = key[j]
      /\ W[line + k + 1] = ":" /\ W[line + k + 2] = "SP"
      /\ \A j \in 1 .. v : W[(line + k + 2) + j] = Headers(s)[i][2][j]
      /\ W[line + k + v + 3] = "CR"
      /\ W[line + k + v + 4] = "LF"
      /\ y \in Nat /\ HeadLen(s) = y + 2
  BY <1>1, Layout
<1>3. /\ k = Len(key) /\ k <= Limit["HEADER_KEY"] /\ v < Limit["HEADER_VALUE"]
      /\ \A j \in 1 .. Len(key) : key[j] \in TokenByte
  BY <1>1, HeaderIs
<1>4. text = line + k + 2
  BY DEF TextAt
<1>5. /\ end \in Nat /\ KeyLen(s, n) \in Nat \ {0}
      /\ TextAt(s, n) = end + KeyLen(s, n) + 2
  <2>1. n \in 1 .. n
    BY <1>2
  <2> QED
    BY <1>1, <2>1, Layout DEF TextAt
<1>6. i # n => next <= end
  BY <1>1, LinesOrder
<1> HIDE DEF W, line, text, k, v, n, y, next, key, end
<1>7. /\ text \in Nat /\ text + v + 1 = line + k + v + 3
      /\ text + v + 2 = line + k + v + 4
  BY <1>2, <1>4
<1>8. next = text + v + 2
  BY <1>2, <1>7
<1>9. TextAt(s, n) \in Nat /\ (i # n => next < TextAt(s, n))
  <2>1. next \in Nat
    BY <1>2, <1>7, <1>8
  <2> QED
    BY <1>5, <1>6, <2>1
<1>10. W[text + v + 1] = "CR" /\ W[text + v + 2] = "LF"
  BY <1>2, <1>7
<1>11. \A j \in 1 .. k : W[line + j] \in TokenByte
  BY <1>2, <1>3
<1>12. \A j \in 1 .. v : W[text + j] = Headers(s)[i][2][j]
  BY <1>2, <1>4
<1> QED
  BY <1>2, <1>3, <1>4, <1>8, <1>9, <1>10, <1>11, <1>12
  DEF W, line, text, k, v, n, y, next

\* One the client set, ...
LEMMA OtherFacts ==
  ASSUME NEW s, Allowed(s), NEW i \in 1 .. Count(s), ~ IsLength(s, i)
  PROVE  LET W == Wire[s]
         IN  /\ W[LineAt(s, i) + 1] \in TokenByte \ (Names \cup {"CR"})
             /\ W[TextAt(s, i) + 1] # "SP"
             /\ \A j \in 1 .. TextLen(s, i) :
                  W[TextAt(s, i) + j] \in Byte \ {"CR", "LF"}
<1> DEFINE W    == Wire[s]
           line == LineAt(s, i)
           text == TextAt(s, i)
           k    == KeyLen(s, i)
           v    == TextLen(s, i)
           key  == Headers(s)[i][1]
           val  == Headers(s)[i][2]
<1>1. s \in Shapes /\ WellFormed(s) /\ LimitsAllow
  BY DEF Allowed
<1>2. /\ k \in Nat \ {0} /\ v \in Nat \ {0}
      /\ \A j \in 1 .. v : W[text + j] = val[j]
      /\ \A j \in 1 .. k : W[line + j] \in TokenByte
  BY HeaderFacts
<1>3. /\ v = Len(val) /\ val \in Seq(Byte)
      /\ key[1] \notin Names \cup {"CR"} /\ val[1] # "SP"
      /\ \A j \in 1 .. Len(val) : val[j] \notin {"CR", "LF"}
  BY <1>1, HeaderIs
<1>4. \A j \in 1 .. k : W[line + j] = key[j]
  BY <1>1, Layout
<1>5. \A j \in 1 .. v : val[j] \in Byte
  BY <1>3, ElementOfSeq
<1> HIDE DEF W, line, text, k, v, key, val
<1>6. 1 \in 1 .. k /\ 1 \in 1 .. v
  BY <1>2
<1>7. \A j \in 1 .. v : W[text + j] \in Byte \ {"CR", "LF"}
  BY <1>2, <1>3, <1>5
<1>8. W[line + 1] \in TokenByte \ (Names \cup {"CR"}) /\ W[text + 1] # "SP"
  BY <1>2, <1>3, <1>4, <1>6
<1> QED
  BY <1>7, <1>8 DEF W, line, text, v

\* ... and the length of the body.
LEMMA LengthFacts ==
  ASSUME NEW s, Allowed(s), NEW i \in 1 .. Count(s), IsLength(s, i)
  PROVE  LET W    == Wire[s]
             text == TextAt(s, i)
             v    == TextLen(s, i)
             size == Size(s)
         IN  /\ i = Count(s) /\ s.chunks # <<>> /\ KeyLen(s, i) = 1
             /\ W[LineAt(s, i) + 1] = "Content-Length"
             /\ \A j \in 1 .. v : W[text + j] \in Digit
             /\ size \in 0 .. 99 /\ v = (IF size < 10 THEN 1 ELSE 2)
             /\ size < 10 => Value(W[text + 1]) = size
             /\ size >= 10 =>
                  /\ Value(W[text + 1]) = size \div 10
                  /\ 10 * (size \div 10) + Value(W[text + 2]) = size
<1> DEFINE W    == Wire[s]
           line == LineAt(s, i)
           text == TextAt(s, i)
           k    == KeyLen(s, i)
           v    == TextLen(s, i)
           key  == Headers(s)[i][1]
           val  == Headers(s)[i][2]
           size == Size(s)
<1>1. s \in Shapes /\ WellFormed(s) /\ LimitsAllow
  BY DEF Allowed
<1>2. /\ k \in Nat \ {0} /\ v \in Nat \ {0}
      /\ \A j \in 1 .. v : W[text + j] = val[j]
  BY HeaderFacts
<1>3. /\ v = Len(val) /\ k = 1 /\ key[1] = "Content-Length"
      /\ \A j \in 1 .. Len(val) : val[j] \in Digit
      /\ val = Decimal(size)
  BY <1>1, HeaderIs
<1>4. \A j \in 1 .. k : W[line + j] = key[j]
  BY <1>1, Layout
<1>5. size \in 0 .. 99
  BY <1>1, HeadersAre
<1>6. i = Count(s) /\ s.chunks # <<>>
  BY DEF IsLength
<1> HIDE DEF W, line, text, k, v, key, val, size
<1>7. /\ v = (IF size < 10 THEN 1 ELSE 2)
      /\ size < 10 => Value(val[1]) = size
      /\ size >= 10 => /\ Value(val[1]) = size \div 10
                       /\ 10 * (size \div 10) + Value(val[2]) = size
  BY <1>3, <1>5, DecimalIs
<1>8. 1 \in 1 .. k /\ 1 \in 1 .. v /\ (size >= 10 => 2 \in 1 .. v)
  BY <1>2, <1>5, <1>7
<1>9. W[line + 1] = "Content-Length"
  BY <1>3, <1>4, <1>8
<1>10. \A j \in 1 .. v : W[text + j] \in Digit
  BY <1>2, <1>3
<1>11. W[text + 1] = val[1] /\ (size >= 10 => W[text + 2] = val[2])
  BY <1>2, <1>8
<1> QED
  BY <1>3, <1>5, <1>6, <1>7, <1>9, <1>10, <1>11 DEF W, line, text, k, v, size

\* What follows the headers.
LEMMA TailFacts ==
  ASSUME NEW s, Allowed(s)
  PROVE  LET W    == Wire[s]
             n    == Count(s)
             y    == BlankAt(s)
             size == Size(s)
             text == TextAt(s, n)
         IN  /\ n \in Nat \ {0} /\ y \in Nat /\ size \in 0 .. 99
             /\ s.chunks = <<>> => size = 0
             /\ HeadLen(s) = y + 2 /\ Len(W) = (y + 2) + size
             /\ Len(W) <= MaxCap
             /\ W[y + 1] = "CR" /\ W[y + 2] = "LF"
             /\ \A k \in 1 .. Len(W) : W[k] \in Byte
             /\ text \in Nat /\ (text + TextLen(s, n)) + 2 = y
             /\ TextLen(s, n) \in Nat \ {0}
             /\ 2 <= Limit["HEADER_KEY"] /\ 3 <= Limit["HEADER_VALUE"]
<1> DEFINE W    == Wire[s]
           n    == Count(s)
           y    == BlankAt(s)
           size == Size(s)
           text == TextAt(s, n)
           v    == TextLen(s, n)
<1>1. s \in Shapes /\ WellFormed(s) /\ LimitsAllow /\ Len(W) <= MaxCap
  BY DEF Allowed
<1>2. /\ W \in Seq(Byte) /\ Len(W) = HeadLen(s) + size
      /\ n \in Nat \ {0} /\ y \in Nat /\ HeadLen(s) = y + 2
      /\ W[y + 1] = "CR" /\ W[y + 2] = "LF"
  BY <1>1, Layout
<1>3. size \in 0 .. 99 /\ (s.chunks = <<>> => size = 0)
  BY <1>1, HeadersAre
<1>4. \A k \in 1 .. Len(W) : W[k] \in Byte
  BY <1>2, ElementOfSeq
<1>5. 2 <= Limit["HEADER_KEY"] /\ 3 <= Limit["HEADER_VALUE"]
  BY <1>1 DEF LimitsAllow
<1>6. /\ text \in Nat /\ LineAt(s, n + 1) = text + v + 2
      /\ v \in Nat \ {0}
  <2>1. n \in 1 .. n
    BY <1>2
  <2>2. /\ LineAt(s, n) \in Nat /\ KeyLen(s, n) \in Nat \ {0}
        /\ v \in Nat \ {0}
        /\ text = LineAt(s, n) + KeyLen(s, n) + 2
        /\ LineAt(s, n + 1) = text + v + 2
    BY <2>1, HeaderFacts
  <2> HIDE DEF text, v, n
  <2> QED
    BY <2>2
<1>7. LineAt(s, n + 1) = y
  BY DEF BlankAt
<1> HIDE DEF W, n, y, size, text, v
<1>8. (text + v) + 2 = y /\ Len(W) = (y + 2) + size
  BY <1>2, <1>6, <1>7
<1> QED
  BY <1>1, <1>2, <1>3, <1>4, <1>5, <1>6, <1>8 DEF W, n, y, size, text, v


-----------------------------------------------------------------------------
(* One step of the machine within a request.                               *)

\* Where it is, and how many tokens it found.
Spot(s, cs, p, h, c) ==
  \/ InLine(s, cs, p, h, c)
  \/ \E i \in 1 .. Count(s) : InHeader(s, i, cs, p, h, c)
  \/ InTail(s, cs, p, h, c)

\* It is there with the bytes of s, of which there are more.
Place(s, m, c) ==
  /\ Allowed(s)
  /\ m \in Machines /\ ~ m.out /\ m.p \in Nat /\ m.p < m.pe
  /\ m.pe <= m.b.capacity /\ m.pe <= Len(Wire[s])
  /\ Size(s) > 0 => m.pe # Len(Wire[s]) - 1
  /\ \A k \in 1 .. m.pe : m.b.mem[k] = Wire[s][k]
  /\ Stands(s, m.cs, m.p, m.h, m.b, c) /\ m.h.flags = {} /\ c \in Nat

\* It took one or more of them, and found a token or not.
Took(s, m, n, c) ==
  /\ n.pe = m.pe /\ n.h.seq = m.h.seq
  /\ n.b = m.b \/ Grown(m.b, n.b, HeadLen(s), Size(s))
  /\ m.p < n.p /\ n.p <= m.pe
  /\ \/ /\ "TOKEN_READY" \in n.h.flags /\ n.out
        /\ Stands(s, n.cs, n.p, n.h, n.b, c + 1)
        /\ IsToken(s, c + 1, n.h.token)
     \/ /\ "TOKEN_READY" \notin n.h.flags /\ (n.out <=> n.p = m.pe)
        /\ Stands(s, n.cs, n.p, n.h, n.b, c) /\ n.p < Len(Wire[s])

\* It reads a byte of s.
LEMMA ReadsByte ==
  ASSUME NEW s, NEW m, NEW c, Place(s, m, c),
         NEW byte, byte = Wire[s][m.p + 1],
         NEW to \in State, to # "error", NEW do, Goes(m.cs, byte, to, do)
  PROVE  Reads(m, byte, to, do)
<1>1. /\ m \in Machines /\ ~ m.out /\ m.p \in Nat /\ m.p < m.pe
      /\ m.pe <= m.b.capacity /\ m.pe \in Int /\ m.b.capacity \in Nat
      /\ \A k \in 1 .. m.pe : m.b.mem[k] = Wire[s][k]
  BY DEF Place, Machines, ReadBuffers
<1>2. m.p + 1 \in 1 .. m.pe /\ m.p \in 0 .. m.b.capacity - 1
  BY <1>1
<1>3. At(m.b, m.p) = byte
  BY <1>1, <1>2 DEF At
<1> QED
  BY <1>1, <1>3 DEF Reads

\* What is known of the body's length.
LEMMA AnnouncedIs ==
  ASSUME NEW s, Allowed(s), NEW p \in Nat
  PROVE  LET text == TextAt(s, Count(s))
             v    == TextLen(s, Count(s))
         IN  /\ p <= text => Announced(s, p) = 0
             /\ s.chunks = <<>> => Announced(s, p) = 0
             /\ text + v <= p => Announced(s, p) = Size(s)
<1> DEFINE text == TextAt(s, Count(s))
           v    == TextLen(s, Count(s))
<1>1. /\ text \in Nat /\ v \in Nat \ {0}
      /\ s.chunks = <<>> => Size(s) = 0
  BY TailFacts
<1>2. Announced(s, p) =
        IF s.chunks = <<>> \/ p <= text THEN 0
        ELSE IF p = text + 1 /\ v = 2 THEN Size(s) \div 10 ELSE Size(s)
  BY DEF Announced
<1> HIDE DEF text, v
<1>3. p <= text => Announced(s, p) = 0
  BY <1>2
<1>4. s.chunks = <<>> => Announced(s, p) = 0
  BY <1>2
<1>5. text + v <= p => Announced(s, p) = Size(s)
  <2>1. text + v <= p => ~ (p <= text) /\ ~ (p = text + 1 /\ v = 2)
    BY <1>1
  <2> QED
    BY <1>1, <1>2, <2>1
<1> QED
  BY <1>3, <1>4, <1>5 DEF text, v

\* It passed a byte of the head.
LEMMA Passed ==
  ASSUME NEW s, NEW m, NEW c, Place(s, m, c), NEW n, NEW to,
         Moved(m, n, to), Spot(s, to, m.p + 1, n.h, c),
         n.h.content_length = Announced(s, m.p + 1),
         c # 2 * Count(s) + 5, m.p + 1 < HeadLen(s)
  PROVE  Took(s, m, n, c)
<1>1. /\ Allowed(s) /\ m.p \in Nat /\ m.p < m.pe /\ m.pe \in Int
      /\ m.h.flags = {}
  BY DEF Place, Machines
<1>2. /\ n.cs = to /\ n.p = m.p + 1 /\ n.out = (m.p + 1 = m.pe)
      /\ n.pe = m.pe /\ n.b = m.b
      /\ n.h.seq = m.h.seq /\ n.h.flags = m.h.flags
  BY DEF Moved
<1>3. /\ HeadLen(s) \in Nat /\ Len(Wire[s]) \in Nat
      /\ HeadLen(s) <= Len(Wire[s])
  <2> DEFINE y    == BlankAt(s)
             size == Size(s)
  <2>1. /\ y \in Nat /\ size \in 0 .. 99 /\ HeadLen(s) = y + 2
        /\ Len(Wire[s]) = (y + 2) + size
    BY <1>1, TailFacts
  <2> HIDE DEF y, size
  <2> QED
    BY <2>1
<1>4. ~ (m.p + 1 >= HeadLen(s)) /\ m.p + 1 < Len(Wire[s])
      /\ m.p < m.p + 1 /\ m.p + 1 <= m.pe
  BY <1>1, <1>3
<1>5. \/ InLine(s, n.cs, n.p, n.h, c)
      \/ \E i \in 1 .. Count(s) : InHeader(s, i, n.cs, n.p, n.h, c)
      \/ InTail(s, n.cs, n.p, n.h, c)
  BY <1>2, Zenon DEF Spot
<1>6. n.h.flags \ {"TOKEN_READY"}
        = (IF c = 2 * Count(s) + 5 THEN {"DONE"} ELSE {})
  <2>1. n.h.flags = {}
    BY <1>1, <1>2
  <2> QED
    BY <2>1
<1>7. ~ (n.p >= HeadLen(s)) /\ n.h.content_length = Announced(s, n.p)
  BY <1>2, <1>4
<1>8. Stands(s, n.cs, n.p, n.h, n.b, c)
  BY <1>5, <1>6, <1>7, Zenon DEF Stands
<1>9. "TOKEN_READY" \notin n.h.flags
  BY <1>1, <1>2
<1> QED
  BY <1>2, <1>4, <1>8, <1>9 DEF Took

\* It found a token of the head.
LEMMA Found ==
  ASSUME NEW s, NEW m, NEW c, Place(s, m, c), NEW n, NEW to,
         Emitted(m, n, to), Spot(s, to, m.p + 1, n.h, c + 1),
         m.h.content_length = Announced(s, m.p + 1),
         c + 1 # 2 * Count(s) + 5, m.p + 1 < HeadLen(s),
         IsToken(s, c + 1, Tok(m.h.token.type, m.h.token.index,
                               m.p - m.h.token.index, m.h.token.flags))
  PROVE  Took(s, m, n, c)
<1>1. /\ Allowed(s) /\ m.p \in Nat /\ m.p < m.pe /\ m.pe \in Int
      /\ m.h.flags = {}
  BY DEF Place, Machines
<1>2. /\ n.cs = to /\ n.p = m.p + 1 /\ n.out /\ n.pe = m.pe /\ n.b = m.b
      /\ n.h.seq = m.h.seq /\ n.h.flags = m.h.flags \cup {"TOKEN_READY"}
      /\ n.h.content_length = m.h.content_length
      /\ n.h.token = Tok(m.h.token.type, m.h.token.index,
                         m.p - m.h.token.index, m.h.token.flags)
  BY DEF Emitted
<1>3. HeadLen(s) \in Nat
  BY <1>1, TailFacts
<1>4. ~ (m.p + 1 >= HeadLen(s)) /\ m.p < m.p + 1 /\ m.p + 1 <= m.pe
  BY <1>1, <1>3
<1>5. \/ InLine(s, n.cs, n.p, n.h, c + 1)
      \/ \E i \in 1 .. Count(s) : InHeader(s, i, n.cs, n.p, n.h, c + 1)
      \/ InTail(s, n.cs, n.p, n.h, c + 1)
  BY <1>2, Zenon DEF Spot
<1>6. n.h.flags \ {"TOKEN_READY"}
        = (IF c + 1 = 2 * Count(s) + 5 THEN {"DONE"} ELSE {})
  <2>1. n.h.flags = {"TOKEN_READY"}
    BY <1>1, <1>2
  <2>2. n.h.flags \ {"TOKEN_READY"} = {}
    BY <2>1
  <2> QED
    BY <2>2
<1>7. ~ (n.p >= HeadLen(s)) /\ n.h.content_length = Announced(s, n.p)
  BY <1>2, <1>4
<1>8. Stands(s, n.cs, n.p, n.h, n.b, c + 1)
  BY <1>5, <1>6, <1>7, Zenon DEF Stands
<1>9. "TOKEN_READY" \in n.h.flags /\ IsToken(s, c + 1, n.h.token)
  BY <1>2
<1> QED
  BY <1>2, <1>4, <1>8, <1>9 DEF Took


\* A step in the first line.
LEMMA LineStep ==
  ASSUME NEW s, NEW m, NEW c, Place(s, m, c), InLine(s, m.cs, m.p, m.h, c)
  PROVE  Took(s, m, Step(m), c)
<1> DEFINE W == Wire[s]
           t == Len(s.target)
           p == m.p
           h == m.h
           n == Step(m)
           z == HeadLen(s)
           e == 2 * Count(s) + 5
           byte == W[p + 1]
<1>1. /\ Allowed(s) /\ p \in Nat /\ h.content_length = Announced(s, p)
      /\ c \in Nat
  BY DEF Place, Stands
<1>2. /\ t \in Nat \ {0} /\ t <= Limit["TARGET"]
      /\ W[1] \in Letters /\ W[2] = "SP"
      /\ \A j \in 1 .. t : W[2 + j] \in Byte \ {"SP"}
      /\ W[t + 3] = "SP" /\ W[t + 4] \in {"HTTP/1.0", "HTTP/1.1"}
      /\ W[t + 5] = "CR" /\ W[t + 6] = "LF"
      /\ LineAt(s, 1) = t + 6
      /\ z \in Nat /\ t + 8 <= z /\ Count(s) \in Nat \ {0}
      /\ TextAt(s, Count(s)) \in Nat /\ t + 6 < TextAt(s, Count(s))
      /\ 1 <= Limit["METHOD"]
  BY <1>1, LineFacts
<1>3. \A q \in Nat : q <= t + 6 => Announced(s, q) = 0
  <2> TAKE q \in Nat
  <2>1. q <= TextAt(s, Count(s)) => Announced(s, q) = 0
    BY <1>1, AnnouncedIs
  <2> HIDE DEF t
  <2> QED
    BY <1>2, <2>1
<1>4. /\ e \in Nat /\ 7 <= e /\ 1 \in 1 .. Count(s)
  BY <1>2
<1>5. \A cs, q, g, d : InLine(s, cs, q, g, d) => Spot(s, cs, q, g, d)
  BY DEF Spot
<1>6. {"method", "target0", "target", "version0", "version", "line_end",
       "header0"} \subseteq State \ {"error"}
  BY DEF State
<1>7. \A to \in State \ {"error"} : \A do :
        Goes(m.cs, byte, to, do) => Reads(m, byte, to, do)
  BY ReadsByte
<1>8. \/ m.cs = "start" /\ p = 0 /\ c = 0
      \/ m.cs = "method" /\ p = 1 /\ c = 0 /\ Inside(h, "METHOD", 0, 1)
      \/ m.cs = "target0" /\ p = 2 /\ c = 1
      \/ /\ m.cs = "target" /\ p \in 3 .. t + 2 /\ c = 1
         /\ Inside(h, "TARGET", 2, p - 2)
      \/ m.cs = "version0" /\ p = t + 3 /\ c = 2
      \/ /\ m.cs = "version" /\ p = t + 4 /\ c = 2
         /\ Inside(h, "VERSION", t + 3, 0)
      \/ m.cs = "line_end" /\ p = t + 5 /\ c = 3
  BY DEF InLine
<1>9. /\ p + 1 \in Nat /\ p + 1 <= t + 6 /\ p + 1 < z
      /\ c # e /\ (c # 3 => c + 1 # e)
  <2> HIDE DEF t, p, z, e
  <2>1. \/ p \in {0, 1, 2} /\ c \in {0, 1}
        \/ p \in 3 .. t + 2 /\ c = 1
        \/ p = t + 3 /\ c = 2
        \/ p = t + 4 /\ c = 2
        \/ p = t + 5 /\ c = 3
    BY <1>8
  <2> QED
    BY <1>1, <1>2, <1>4, <2>1
<1>10. Announced(s, p) = 0 /\ Announced(s, p + 1) = 0 /\ h.content_length = 0
  <2>1. p <= t + 6
    BY <1>1, <1>2, <1>9
  <2> QED
    BY <1>1, <1>3, <1>9, <2>1
<1>11. \A to : /\ Moved(m, n, to) /\ Spot(s, to, p + 1, n.h, c)
               /\ n.h.content_length = h.content_length
               => Took(s, m, n, c)
  BY <1>9, <1>10, Passed
<1>12. \A to : /\ Emitted(m, n, to) /\ Spot(s, to, p + 1, n.h, c + 1)
               /\ c # 3
               /\ IsToken(s, c + 1, Tok(h.token.type, h.token.index,
                                        p - h.token.index, h.token.flags))
               => Took(s, m, n, c)
  BY <1>9, <1>10, Found
<1> HIDE DEF W, t, p, h, n, z, e, byte
<1>13. CASE m.cs = "start" /\ p = 0 /\ c = 0
  <2>1. byte \in Letters /\ p + 1 = 1
    BY <1>2, <1>13 DEF byte
  <2>2. Reads(m, byte, "method", <<"method", "inc_count">>)
    BY <1>6, <1>7, <1>13, <2>1, Transitions
  <2>3. /\ Moved(m, n, "method") /\ Inside(n.h, "METHOD", p, 1)
        /\ n.h.content_length = h.content_length
    BY <1>2, <2>2, StepEntersCounting DEF n, p, h, Enters
  <2>4. Spot(s, "method", p + 1, n.h, c)
    BY <1>5, <1>13, <2>1, <2>3 DEF InLine
  <2> QED
    BY <1>11, <2>3, <2>4 DEF n
<1>14. CASE m.cs = "method" /\ p = 1 /\ c = 0 /\ Inside(h, "METHOD", 0, 1)
  <2>1. byte = "SP" /\ p + 1 = 2
    BY <1>2, <1>14 DEF byte
  <2>2. Reads(m, byte, "target0", <<"emit_token">>)
    BY <1>6, <1>7, <1>14, <2>1, Transitions
  <2>3. Emitted(m, n, "target0")
    BY <2>2, StepEmits DEF n
  <2>4. Spot(s, "target0", p + 1, n.h, c + 1)
    BY <1>5, <1>14, <2>1 DEF InLine
  <2>5. IsToken(s, c + 1, Tok(h.token.type, h.token.index,
                              p - h.token.index, h.token.flags))
    BY <1>14 DEF IsToken, Inside
  <2>6. c # 3
    BY <1>14
  <2> QED
    BY <1>12, <2>3, <2>4, <2>5, <2>6 DEF n
<1>15. CASE m.cs = "target0" /\ p = 2 /\ c = 1
  <2>1. byte \in Byte \ {"SP"} /\ p + 1 = 3
    <3>1. 1 \in 1 .. t /\ W[2 + 1] = W[p + 1]
      BY <1>2, <1>15
    <3> QED
      BY <1>2, <1>15, <3>1 DEF byte
  <2>2. Reads(m, byte, "target", <<"target", "inc_count">>)
    BY <1>6, <1>7, <1>15, <2>1, Transitions
  <2>3. 1 <= Limit["TARGET"]
    <3>1. Limit["TARGET"] \in Nat
      BY ParserAssumption
    <3> QED
      BY <1>2, <3>1
  <2>4. /\ Moved(m, n, "target") /\ Inside(n.h, "TARGET", p, 1)
        /\ n.h.content_length = h.content_length
    BY <2>2, <2>3, StepEntersCounting DEF n, p, h, Enters
  <2>5. 3 \in 3 .. t + 2 /\ 3 - 2 = 1
    BY <1>2
  <2>6. Spot(s, "target", p + 1, n.h, c)
    BY <1>5, <1>15, <2>1, <2>4, <2>5 DEF InLine, t
  <2> QED
    BY <1>11, <2>4, <2>6 DEF n
<1>16. CASE /\ m.cs = "target" /\ p \in 3 .. t + 2 /\ c = 1
            /\ Inside(h, "TARGET", 2, p - 2)
  <2>1. CASE p # t + 2
    <3>1. /\ p - 1 \in 1 .. t /\ 2 + (p - 1) = p + 1 /\ p + 1 \in 3 .. t + 2
          /\ (p + 1) - 2 = (p - 2) + 1 /\ (p - 2) + 1 <= t /\ p - 2 \in Nat
      BY <1>2, <1>16, <2>1
    <3>2. byte \in Byte \ {"SP"}
      BY <1>2, <3>1 DEF byte
    <3>3. Reads(m, byte, "target", <<"inc_count">>)
      BY <1>6, <1>7, <1>16, <3>2, Transitions
    <3>4. h.limit_count + 1 <= h.limit_max
      <4>1. Limit["TARGET"] \in Nat
        BY ParserAssumption
      <4>2. (p - 2) + 1 <= Limit["TARGET"]
        BY <1>2, <3>1, <4>1
      <4> QED
        BY <1>16, <4>2 DEF Inside
    <3>5. /\ Moved(m, n, "target") /\ n.h.token = h.token
          /\ n.h.content_length = h.content_length
          /\ n.h.limit_max = h.limit_max
          /\ n.h.limit_count = h.limit_count + 1
      BY <3>3, <3>4, StepCounts DEF n, h
    <3>6. Inside(n.h, "TARGET", 2, (p + 1) - 2)
      BY <1>16, <3>1, <3>5 DEF Inside
    <3>7. Spot(s, "target", p + 1, n.h, c)
      BY <1>5, <1>16, <3>1, <3>6 DEF InLine, t
    <3> QED
      BY <1>11, <3>5, <3>7 DEF n
  <2>2. CASE p = t + 2
    <3>1. p + 1 = t + 3 /\ p - 2 = t
      BY <1>2, <2>2
    <3>2. byte = "SP"
      BY <1>2, <3>1 DEF byte
    <3>3. Reads(m, byte, "version0", <<"emit_token">>)
      BY <1>6, <1>7, <1>16, <3>2, Transitions
    <3>4. Emitted(m, n, "version0")
      BY <3>3, StepEmits DEF n
    <3>5. Spot(s, "version0", p + 1, n.h, c + 1)
      BY <1>5, <1>16, <3>1 DEF InLine, t
    <3>6. IsToken(s, c + 1, Tok(h.token.type, h.token.index,
                                p - h.token.index, h.token.flags))
      BY <1>16, <3>1 DEF IsToken, Inside, t
    <3>7. c # 3
      BY <1>16
    <3> QED
      BY <1>12, <3>4, <3>5, <3>6, <3>7 DEF n
  <2> QED
    BY <2>1, <2>2
<1>17. CASE m.cs = "version0" /\ p = t + 3 /\ c = 2
  <2>1. p + 1 = t + 4
    BY <1>2, <1>17
  <2>2. byte \in {"HTTP/1.0", "HTTP/1.1"}
    BY <1>2, <2>1 DEF byte
  <2>3. Reads(m, byte, "version", <<"version">>)
    BY <1>6, <1>7, <1>17, <2>2, Transitions
  <2>4. /\ Moved(m, n, "version") /\ Inside(n.h, "VERSION", p, 0)
        /\ n.h.content_length = h.content_length
    BY <2>3, StepEnters DEF n, p, h, Enters
  <2>5. Spot(s, "version", p + 1, n.h, c)
    BY <1>5, <1>17, <2>1, <2>4 DEF InLine, t
  <2> QED
    BY <1>11, <2>4, <2>5 DEF n
<1>18. CASE /\ m.cs = "version" /\ p = t + 4 /\ c = 2
            /\ Inside(h, "VERSION", t + 3, 0)
  <2>1. p + 1 = t + 5 /\ p - (t + 3) = 1 /\ 3 + t = t + 3
    BY <1>2, <1>18
  <2>2. byte = "CR"
    BY <1>2, <2>1 DEF byte
  <2>3. Reads(m, byte, "line_end", <<"emit_token">>)
    BY <1>6, <1>7, <1>18, <2>2, Transitions
  <2>4. Emitted(m, n, "line_end")
    BY <2>3, StepEmits DEF n
  <2>5. Spot(s, "line_end", p + 1, n.h, c + 1)
    BY <1>5, <1>18, <2>1 DEF InLine, t
  <2>6. IsToken(s, c + 1, Tok(h.token.type, h.token.index,
                              p - h.token.index, h.token.flags))
    BY <1>18, <2>1 DEF IsToken, Inside, t
  <2>7. c # 3
    BY <1>18
  <2> QED
    BY <1>12, <2>4, <2>5, <2>6, <2>7 DEF n
<1>19. CASE m.cs = "line_end" /\ p = t + 5 /\ c = 3
  <2>1. p + 1 = LineAt(s, 1)
    BY <1>2, <1>19
  <2>2. byte = "LF"
    BY <1>2, <2>1 DEF byte
  <2>3. Reads(m, byte, "header0", <<>>)
    BY <1>6, <1>7, <1>19, <2>2, Transitions
  <2>4. Moved(m, n, "header0") /\ n.h.content_length = h.content_length
    BY <2>3, StepPasses DEF n, h
  <2>5. InHeader(s, 1, "header0", p + 1, n.h, c)
    <3>1. c = 2 * 1 + 1
      BY <1>19
    <3> QED
      BY <2>1, <3>1 DEF InHeader
  <2>6. Spot(s, "header0", p + 1, n.h, c)
    BY <1>4, <2>5 DEF Spot
  <2> QED
    BY <1>11, <2>4, <2>6 DEF n
<1> QED
  BY <1>8, <1>13, <1>14, <1>15, <1>16, <1>17, <1>18, <1>19 DEF n


\* In a header line.
LEMMA HeaderPlaces ==
  ASSUME NEW s, NEW m, NEW c, Place(s, m, c), NEW i \in 1 .. Count(s),
         m.p < LineAt(s, i + 1), c \in 2 * i + 1 .. 2 * i + 3
  PROVE  /\ Allowed(s) /\ m.p \in Nat /\ m.p + 1 \in Nat
         /\ m.h.content_length = Announced(s, m.p)
         /\ m.p + 1 < HeadLen(s)
         /\ c # 2 * Count(s) + 5 /\ c + 1 # 2 * Count(s) + 5
         /\ ~ IsLength(s, i) =>
              Announced(s, m.p) = 0 /\ Announced(s, m.p + 1) = 0
<1> DEFINE p == m.p
           z == HeadLen(s)
           y == BlankAt(s)
           a == Count(s)
           last == TextAt(s, a)
           next == LineAt(s, i + 1)
<1>1. /\ Allowed(s) /\ p \in Nat /\ m.h.content_length = Announced(s, p)
      /\ c \in Nat
  BY DEF Place, Stands
<1>2. /\ next <= y /\ y \in Nat /\ z = y + 2
      /\ i # a => next < last
      /\ last \in Nat /\ next \in Nat
  <2>1. /\ next = TextAt(s, i) + TextLen(s, i) + 2
        /\ TextAt(s, i) = LineAt(s, i) + KeyLen(s, i) + 2
        /\ LineAt(s, i) \in Nat /\ KeyLen(s, i) \in Nat \ {0}
        /\ TextLen(s, i) \in Nat \ {0}
    BY <1>1, HeaderFacts
  <2> HIDE DEF next
  <2>2. next \in Nat
    BY <2>1
  <2> QED
    BY <1>1, <2>2, HeaderFacts DEF next
<1>3. a \in Nat \ {0}
  BY <1>1, TailFacts
<1>4. i # a \/ IsLength(s, i) \/ s.chunks = <<>>
  BY DEF IsLength
<1>5. \A q \in Nat : /\ q <= last => Announced(s, q) = 0
                     /\ s.chunks = <<>> => Announced(s, q) = 0
  BY <1>1, AnnouncedIs
<1> HIDE DEF p, z, y, a, last, next
<1>6. p + 1 \in Nat /\ p + 1 < z /\ c # 2 * a + 5 /\ c + 1 # 2 * a + 5
  <2>1. p < next /\ i \in 1 .. a
    BY DEF p, next, a
  <2> QED
    BY <1>1, <1>2, <1>3, <2>1
<1>7. i # a => p <= last /\ p + 1 <= last
  <2>1. p < next
    BY DEF p, next
  <2> QED
    BY <1>1, <1>2, <2>1
<1>8. ~ IsLength(s, i) => Announced(s, p) = 0 /\ Announced(s, p + 1) = 0
  BY <1>1, <1>4, <1>5, <1>6, <1>7
<1> QED
  BY <1>1, <1>6, <1>8 DEF p, z, a

\* The end of one.
LEMMA HeaderEndStep ==
  ASSUME NEW s, NEW m, NEW c, Place(s, m, c), NEW i \in 1 .. Count(s),
         m.cs = "value_end", m.p = TextAt(s, i) + TextLen(s, i) + 1,
         c = 2 * i + 3,
         Inside(m.h, "HEADER_VALUE", TextAt(s, i), TextLen(s, i))
  PROVE  Took(s, m, Step(m), c)
<1> DEFINE W == Wire[s]
           p == m.p
           h == m.h
           n == Step(m)
           a == Count(s)
           text == TextAt(s, i)
           v == TextLen(s, i)
           next == LineAt(s, i + 1)
           byte == W[p + 1]
<1>1. Allowed(s)
  BY DEF Place
<1>2. /\ LineAt(s, i) \in Nat /\ KeyLen(s, i) \in Nat \ {0} /\ v \in Nat \ {0}
      /\ text = LineAt(s, i) + KeyLen(s, i) + 2 /\ next = text + v + 2
      /\ v < Limit["HEADER_VALUE"] /\ W[text + v + 2] = "LF"
  BY <1>1, HeaderFacts
<1>3. a \in Nat \ {0} /\ i \in Nat
  BY <1>1, TailFacts
<1>4. Limit["HEADER_VALUE"] \in Nat
  BY ParserAssumption
<1>5. \A q \in Nat : TextAt(s, a) + TextLen(s, a) <= q =>
        Announced(s, q) = Size(s)
  BY <1>1, AnnouncedIs
<1>6. i = a => TextAt(s, a) = text /\ TextLen(s, a) = v /\ next = BlankAt(s)
  BY DEF BlankAt
<1>7. IsLength(s, i) => i = a
  BY DEF IsLength
<1>8. p = text + v + 1
  OBVIOUS
<1> HIDE DEF text, v, next, a, p
<1>9. /\ text \in Nat /\ p + 1 = next /\ p < next /\ text + v <= p
      /\ text + v <= p + 1 /\ p + 1 = text + v + 2
      /\ v + 1 <= Limit["HEADER_VALUE"]
      /\ c \in 2 * i + 1 .. 2 * i + 3 /\ p \in Nat /\ p + 1 \in Nat
  BY <1>2, <1>3, <1>4, <1>8
<1>10. /\ h.content_length = Announced(s, p) /\ p + 1 < HeadLen(s)
       /\ c # 2 * a + 5
       /\ ~ IsLength(s, i) => Announced(s, p) = 0 /\ Announced(s, p + 1) = 0
  BY <1>9, HeaderPlaces DEF p, next, a
<1>11. Announced(s, p) = Announced(s, p + 1)
  BY <1>5, <1>6, <1>7, <1>9, <1>10
<1>12. byte = "LF"
  BY <1>2, <1>9
<1> HIDE DEF W, h, n, byte
<1>13. Goes(m.cs, byte, "header", <<"inc_count">>)
  BY <1>12, Transitions
<1>14. Reads(m, byte, "header", <<"inc_count">>)
  <2>1. "header" \in State /\ "header" # "error"
    BY DEF State
  <2> QED
    BY <1>13, <2>1, ReadsByte DEF byte, W, p
<1>15. h.limit_count + 1 <= h.limit_max
  BY <1>9 DEF Inside, h, v
<1>16. Moved(m, n, "header") /\ n.h.content_length = h.content_length
  BY <1>14, <1>15, StepCounts DEF n, h
<1>17. Spot(s, "header", p + 1, n.h, c)
  <2>1. CASE i = a
    <3>1. InTail(s, "header", p + 1, n.h, c)
      BY <1>6, <1>9, <2>1 DEF InTail, a
    <3> QED
      BY <3>1 DEF Spot
  <2>2. CASE i # a
    <3>1. i + 1 \in 1 .. a /\ i + 1 # 1 /\ c = 2 * (i + 1) + 1
      <4>1. i \in 1 .. a
        BY DEF a
      <4> QED
        BY <1>3, <2>2, <4>1
    <3>2. InHeader(s, i + 1, "header", p + 1, n.h, c)
      BY <1>9, <3>1 DEF InHeader, next
    <3> QED
      BY <3>1, <3>2 DEF Spot, a
  <2> QED
    BY <2>1, <2>2
<1> QED
  BY <1>10, <1>11, <1>16, <1>17, Passed DEF n, p, h, a


\* A step in a header the client set.
LEMMA OtherStep ==
  ASSUME NEW s, NEW m, NEW c, Place(s, m, c), NEW i \in 1 .. Count(s),
         InHeader(s, i, m.cs, m.p, m.h, c), ~ IsLength(s, i)
  PROVE  Took(s, m, Step(m), c)
<1> DEFINE W == Wire[s]
           p == m.p
           h == m.h
           n == Step(m)
           line == LineAt(s, i)
           text == TextAt(s, i)
           k == KeyLen(s, i)
           v == TextLen(s, i)
           next == LineAt(s, i + 1)
           last == text + v
           first == IF i = 1 THEN "header0" ELSE "header"
           byte == W[p + 1]
<1>1. Allowed(s) /\ p \in Nat
  BY DEF Place
<1>2. /\ line \in Nat /\ k \in Nat \ {0} /\ v \in Nat \ {0}
      /\ text = line + k + 2 /\ next = text + v + 2
      /\ k <= Limit["HEADER_KEY"] /\ v < Limit["HEADER_VALUE"]
      /\ \A j \in 1 .. k : W[line + j] \in TokenByte
      /\ W[line + k + 1] = ":" /\ W[line + k + 2] = "SP"
      /\ W[text + v + 1] = "CR"
  BY <1>1, HeaderFacts
<1>3. /\ W[line + 1] \in TokenByte \ (Names \cup {"CR"})
      /\ W[text + 1] # "SP"
      /\ \A j \in 1 .. v : W[text + j] \in Byte \ {"CR", "LF"}
  BY <1>1, OtherFacts
<1>4. Limit["HEADER_VALUE"] \in Nat /\ Limit["HEADER_KEY"] \in Nat
  BY ParserAssumption
<1>5. \/ m.cs = first /\ p = line /\ c = 2 * i + 1
      \/ /\ m.cs = "key" /\ p \in line + 1 .. text - 2 /\ c = 2 * i + 1
         /\ Inside(h, "HEADER_KEY", line, p - line)
      \/ m.cs = "colon" /\ p = text - 1 /\ c = 2 * i + 2
      \/ m.cs = "ows" /\ p = text /\ c = 2 * i + 2
      \/ /\ m.cs = "value" /\ p \in text + 1 .. last /\ c = 2 * i + 2
         /\ Inside(h, "HEADER_VALUE", text, p - text)
      \/ /\ m.cs = "value_end" /\ p = last + 1 /\ c = 2 * i + 3
         /\ Inside(h, "HEADER_VALUE", text, v)
  BY DEF InHeader
<1>6. \A cs, q, g, d : InHeader(s, i, cs, q, g, d) => Spot(s, cs, q, g, d)
  BY DEF Spot
<1>7. \A q, g, d :
        /\ /\ q \in line + 1 .. text - 2 /\ d = 2 * i + 1
           /\ Inside(g, "HEADER_KEY", line, q - line)
           => Spot(s, "key", q, g, d)
        /\ q = text - 1 /\ d = 2 * i + 2 => Spot(s, "colon", q, g, d)
        /\ q = text /\ d = 2 * i + 2 => Spot(s, "ows", q, g, d)
        /\ /\ q \in text + 1 .. last /\ d = 2 * i + 2
           /\ Inside(g, "HEADER_VALUE", text, q - text)
           => Spot(s, "value", q, g, d)
        /\ /\ q = last + 1 /\ d = 2 * i + 3
           /\ Inside(g, "HEADER_VALUE", text, v)
           => Spot(s, "value_end", q, g, d)
  BY <1>6 DEF InHeader
<1>8. \A to \in State \ {"error"} : \A do :
        Goes(m.cs, byte, to, do) => Reads(m, byte, to, do)
  BY ReadsByte
<1>9. {"key", "colon", "ows", "value", "value_end"} \subseteq State \ {"error"}
  BY DEF State
<1>10. \A d, t : \/ d = 2 * i + 2 /\ t = Tok("HEADER_KEY", line, k, {})
                 \/ d = 2 * i + 3 /\ t = Tok("HEADER_VALUE", text, v, {})
                 => IsToken(s, d, t)
  BY DEF IsToken
<1> HIDE DEF W, p, h, n, line, text, k, v, next, first, byte
<1>11. p < next /\ c \in 2 * i + 1 .. 2 * i + 3 /\ i \in Nat
  <2>1. i \in Nat
    OBVIOUS
  <2>2. \/ p = line /\ c = 2 * i + 1
        \/ p \in line + 1 .. text - 2 /\ c = 2 * i + 1
        \/ p = text - 1 /\ c = 2 * i + 2
        \/ p = text /\ c = 2 * i + 2
        \/ p \in text + 1 .. last /\ c = 2 * i + 2
        \/ p = last + 1 /\ c = 2 * i + 3
    BY <1>5, Zenon
  <2> QED
    BY <1>1, <1>2, <2>1, <2>2
<1>12. /\ h.content_length = 0 /\ Announced(s, p + 1) = 0
       /\ p + 1 < HeadLen(s) /\ c # 2 * Count(s) + 5
       /\ c + 1 # 2 * Count(s) + 5
  <2>1. m.p < LineAt(s, i + 1)
    BY <1>11 DEF p, next
  <2> QED
    BY <1>11, <2>1, HeaderPlaces DEF p, h
<1>13. \A to : /\ Moved(m, n, to) /\ Spot(s, to, p + 1, n.h, c)
               /\ n.h.content_length = h.content_length
               => Took(s, m, n, c)
  BY <1>12, Passed DEF n, p, h
<1>14. \A to : /\ Emitted(m, n, to) /\ Spot(s, to, p + 1, n.h, c + 1)
               /\ IsToken(s, c + 1, Tok(h.token.type, h.token.index,
                                        p - h.token.index, h.token.flags))
               => Took(s, m, n, c)
  BY <1>12, Found DEF n, p, h
<1>15. CASE m.cs = first /\ p = line /\ c = 2 * i + 1
  <2>1. /\ p + 1 = line + 1 /\ line + 1 \in line + 1 .. text - 2
        /\ (p + 1) - line = 1 /\ 1 <= Limit["HEADER_KEY"]
    BY <1>2, <1>4, <1>15
  <2>2. byte \in TokenByte \ (Names \cup {"CR"})
    BY <1>3, <2>1 DEF byte
  <2>3. \/ Goes(m.cs, byte, "key",
                <<"reset_count", "header_key", "inc_count">>)
        \/ Goes(m.cs, byte, "key",
                <<"header_key", "reset_count", "inc_count">>)
    <3>1. m.cs \in {"header0", "header"}
      BY <1>15 DEF first
    <3> QED
      BY <2>2, <3>1, Transitions
  <2>4. \/ Reads(m, byte, "key", <<"reset_count", "header_key", "inc_count">>)
        \/ Reads(m, byte, "key", <<"header_key", "reset_count", "inc_count">>)
    BY <1>8, <1>9, <2>3
  <2>5. /\ Moved(m, n, "key") /\ Inside(n.h, "HEADER_KEY", p, 1)
        /\ n.h.content_length = h.content_length
    BY <2>1, <2>4, StepKey DEF n, p, h
  <2>6. Spot(s, "key", p + 1, n.h, c)
    BY <1>7, <1>15, <2>1, <2>5
  <2> QED
    BY <1>13, <2>5, <2>6 DEF n
<1>16. CASE /\ m.cs = "key" /\ p \in line + 1 .. text - 2 /\ c = 2 * i + 1
            /\ Inside(h, "HEADER_KEY", line, p - line)
  <2>1. CASE p # text - 2
    <3>1. /\ (p - line) + 1 \in 1 .. k /\ line + ((p - line) + 1) = p + 1
          /\ p + 1 \in line + 1 .. text - 2 /\ (p - line) + 1 = (p + 1) - line
          /\ (p - line) + 1 <= Limit["HEADER_KEY"]
      BY <1>1, <1>2, <1>4, <1>16, <2>1
    <3>2. byte \in TokenByte
      BY <1>2, <3>1 DEF byte
    <3>3. Reads(m, byte, "key", <<"inc_count">>)
      BY <1>8, <1>9, <1>16, <3>2, Transitions
    <3>4. h.limit_count + 1 <= h.limit_max
      BY <1>16, <3>1 DEF Inside
    <3>5. /\ Moved(m, n, "key") /\ n.h.token = h.token
          /\ n.h.content_length = h.content_length
          /\ n.h.limit_max = h.limit_max
          /\ n.h.limit_count = h.limit_count + 1
      BY <3>3, <3>4, StepCounts DEF n, h
    <3>6. Inside(n.h, "HEADER_KEY", line, (p + 1) - line)
      BY <1>16, <3>1, <3>5 DEF Inside
    <3>7. Spot(s, "key", p + 1, n.h, c)
      BY <1>7, <1>16, <3>1, <3>6
    <3> QED
      BY <1>13, <3>5, <3>7 DEF n
  <2>2. CASE p = text - 2
    <3>1. /\ p + 1 = line + k + 1 /\ p + 1 = text - 1 /\ p - line = k
          /\ c + 1 = 2 * i + 2
      BY <1>2, <1>11, <1>16, <2>2
    <3>2. byte = ":"
      BY <1>2, <3>1 DEF byte
    <3>3. Reads(m, byte, "colon", <<"emit_token">>)
      BY <1>8, <1>9, <1>16, <3>2, Transitions
    <3>4. Emitted(m, n, "colon")
      BY <3>3, StepEmits DEF n
    <3>5. Spot(s, "colon", p + 1, n.h, c + 1)
      BY <1>7, <3>1
    <3>6. IsToken(s, c + 1, Tok(h.token.type, h.token.index,
                                p - h.token.index, h.token.flags))
      BY <1>10, <1>16, <3>1 DEF Inside
    <3> QED
      BY <1>14, <3>4, <3>5, <3>6 DEF n
  <2> QED
    BY <2>1, <2>2
<1>17. CASE m.cs = "colon" /\ p = text - 1 /\ c = 2 * i + 2
  <2>1. p + 1 = line + k + 2 /\ p + 1 = text
    BY <1>2, <1>17
  <2>2. byte = "SP"
    BY <1>2, <2>1 DEF byte
  <2>3. Reads(m, byte, "ows", <<>>)
    BY <1>8, <1>9, <1>17, <2>2, Transitions
  <2>4. Moved(m, n, "ows") /\ n.h.content_length = h.content_length
    BY <2>3, StepPasses DEF n, h
  <2>5. Spot(s, "ows", p + 1, n.h, c)
    BY <1>7, <1>17, <2>1
  <2> QED
    BY <1>13, <2>4, <2>5 DEF n
<1>18. CASE m.cs = "ows" /\ p = text /\ c = 2 * i + 2
  <2>1. /\ p + 1 = text + 1 /\ text + 1 \in text + 1 .. last
        /\ (p + 1) - text = 1 /\ 1 \in 1 .. v /\ 1 <= Limit["HEADER_VALUE"]
    BY <1>2, <1>4, <1>18
  <2>2. byte \in Byte \ {"SP", "CR"}
    BY <1>3, <2>1 DEF byte
  <2>3. Reads(m, byte, "value", <<"header_value", "inc_count">>)
    BY <1>8, <1>9, <1>18, <2>2, Transitions
  <2>4. /\ Moved(m, n, "value") /\ Inside(n.h, "HEADER_VALUE", p, 1)
        /\ n.h.content_length = h.content_length
    BY <2>1, <2>3, StepEntersCounting DEF n, p, h, Enters
  <2>5. Spot(s, "value", p + 1, n.h, c)
    BY <1>7, <1>18, <2>1, <2>4
  <2> QED
    BY <1>13, <2>4, <2>5 DEF n
<1>19. CASE /\ m.cs = "value" /\ p \in text + 1 .. last /\ c = 2 * i + 2
            /\ Inside(h, "HEADER_VALUE", text, p - text)
  <2>1. CASE p # last
    <3>1. /\ (p - text) + 1 \in 1 .. v /\ text + ((p - text) + 1) = p + 1
          /\ p + 1 \in text + 1 .. last /\ (p - text) + 1 = (p + 1) - text
          /\ (p - text) + 1 <= Limit["HEADER_VALUE"]
      BY <1>1, <1>2, <1>4, <1>19, <2>1
    <3>2. byte \in Byte \ {"CR", "LF"}
      BY <1>3, <3>1 DEF byte
    <3>3. Reads(m, byte, "value", <<"inc_count">>)
      BY <1>8, <1>9, <1>19, <3>2, Transitions
    <3>4. h.limit_count + 1 <= h.limit_max
      BY <1>19, <3>1 DEF Inside
    <3>5. /\ Moved(m, n, "value") /\ n.h.token = h.token
          /\ n.h.content_length = h.content_length
          /\ n.h.limit_max = h.limit_max
          /\ n.h.limit_count = h.limit_count + 1
      BY <3>3, <3>4, StepCounts DEF n, h
    <3>6. Inside(n.h, "HEADER_VALUE", text, (p + 1) - text)
      BY <1>19, <3>1, <3>5 DEF Inside
    <3>7. Spot(s, "value", p + 1, n.h, c)
      BY <1>7, <1>19, <3>1, <3>6
    <3> QED
      BY <1>13, <3>5, <3>7 DEF n
  <2>2. CASE p = last
    <3>1. /\ p + 1 = text + v + 1 /\ p + 1 = last + 1 /\ p - text = v
          /\ c + 1 = 2 * i + 3
      BY <1>2, <1>11, <1>19, <2>2
    <3>2. byte = "CR"
      BY <1>2, <3>1 DEF byte
    <3>3. Reads(m, byte, "value_end", <<"emit_token">>)
      BY <1>8, <1>9, <1>19, <3>2, Transitions
    <3>4. Emitted(m, n, "value_end")
      BY <3>3, StepEmits DEF n
    <3>5. Inside(n.h, "HEADER_VALUE", text, v)
      BY <1>19, <3>1, <3>4 DEF Inside, Emitted, Tok, h
    <3>6. Spot(s, "value_end", p + 1, n.h, c + 1)
      BY <1>7, <3>1, <3>5
    <3>7. IsToken(s, c + 1, Tok(h.token.type, h.token.index,
                                p - h.token.index, h.token.flags))
      BY <1>10, <1>19, <3>1 DEF Inside
    <3> QED
      BY <1>14, <3>4, <3>6, <3>7 DEF n
  <2> QED
    BY <2>1, <2>2
<1>20. CASE /\ m.cs = "value_end" /\ p = last + 1 /\ c = 2 * i + 3
            /\ Inside(h, "HEADER_VALUE", text, v)
  BY <1>20, HeaderEndStep DEF p, h, text, v
<1> QED
  BY <1>5, <1>15, <1>16, <1>17, <1>18, <1>19, <1>20 DEF n


\* A step in the header with the length of the body.
LEMMA LengthStep ==
  ASSUME NEW s, NEW m, NEW c, Place(s, m, c), NEW i \in 1 .. Count(s),
         InHeader(s, i, m.cs, m.p, m.h, c), IsLength(s, i)
  PROVE  Took(s, m, Step(m), c)
<1> DEFINE W == Wire[s]
           p == m.p
           h == m.h
           n == Step(m)
           line == LineAt(s, i)
           text == TextAt(s, i)
           k == KeyLen(s, i)
           v == TextLen(s, i)
           size == Size(s)
           next == LineAt(s, i + 1)
           last == text + v
           first == IF i = 1 THEN "header0" ELSE "header"
           byte == W[p + 1]
<1>1. Allowed(s) /\ p \in Nat
  BY DEF Place
<1>2. /\ line \in Nat /\ v \in Nat \ {0}
      /\ text = line + k + 2 /\ next = text + v + 2
      /\ k <= Limit["HEADER_KEY"] /\ v < Limit["HEADER_VALUE"]
      /\ W[line + k + 1] = ":" /\ W[line + k + 2] = "SP"
      /\ W[text + v + 1] = "CR"
  BY <1>1, HeaderFacts
<1>3. /\ i = Count(s) /\ s.chunks # <<>> /\ k = 1
      /\ W[line + 1] = "Content-Length"
      /\ \A j \in 1 .. v : W[text + j] \in Digit
      /\ size \in 0 .. 99 /\ v = (IF size < 10 THEN 1 ELSE 2)
      /\ size < 10 => Value(W[text + 1]) = size
      /\ size >= 10 => /\ Value(W[text + 1]) = size \div 10
                       /\ 10 * (size \div 10) + Value(W[text + 2]) = size
  BY <1>1, LengthFacts
<1>4. Limit["HEADER_VALUE"] \in Nat /\ Limit["HEADER_KEY"] \in Nat
  BY ParserAssumption
<1>5. \/ m.cs = first /\ p = line /\ c = 2 * i + 1
      \/ /\ m.cs = "cl_key" /\ p \in line + 1 .. text - 2 /\ c = 2 * i + 1
         /\ Inside(h, "HEADER_KEY", line, p - line)
      \/ m.cs = "cl_colon" /\ p = text - 1 /\ c = 2 * i + 2
      \/ m.cs = "cl_ows" /\ p = text /\ c = 2 * i + 2
      \/ /\ m.cs = "cl_digits" /\ p \in text + 1 .. last /\ c = 2 * i + 2
         /\ Inside(h, "HEADER_VALUE", text, p - text)
      \/ /\ m.cs = "value_end" /\ p = last + 1 /\ c = 2 * i + 3
         /\ Inside(h, "HEADER_VALUE", text, v)
  BY DEF InHeader
<1>6. \A cs, q, g, d : InHeader(s, i, cs, q, g, d) => Spot(s, cs, q, g, d)
  BY DEF Spot
<1>7. \A q, g, d :
        /\ /\ q \in line + 1 .. text - 2 /\ d = 2 * i + 1
           /\ Inside(g, "HEADER_KEY", line, q - line)
           => Spot(s, "cl_key", q, g, d)
        /\ q = text - 1 /\ d = 2 * i + 2 => Spot(s, "cl_colon", q, g, d)
        /\ q = text /\ d = 2 * i + 2 => Spot(s, "cl_ows", q, g, d)
        /\ /\ q \in text + 1 .. last /\ d = 2 * i + 2
           /\ Inside(g, "HEADER_VALUE", text, q - text)
           => Spot(s, "cl_digits", q, g, d)
        /\ /\ q = last + 1 /\ d = 2 * i + 3
           /\ Inside(g, "HEADER_VALUE", text, v)
           => Spot(s, "value_end", q, g, d)
  BY <1>6 DEF InHeader
<1>8. \A to \in State \ {"error"} : \A do :
        Goes(m.cs, byte, to, do) => Reads(m, byte, to, do)
  BY ReadsByte
<1>9. {"cl_key", "cl_colon", "cl_ows", "cl_digits", "value_end"}
        \subseteq State \ {"error"}
  BY DEF State
<1>10. \A d, t : \/ d = 2 * i + 2 /\ t = Tok("HEADER_KEY", line, k, {})
                 \/ d = 2 * i + 3 /\ t = Tok("HEADER_VALUE", text, v, {})
                 => IsToken(s, d, t)
  BY DEF IsToken
<1>30. \A q \in Nat : /\ q <= text => Announced(s, q) = 0
                      /\ last <= q => Announced(s, q) = size
  BY <1>1, <1>3, AnnouncedIs
<1>31. v = 2 => Announced(s, text + 1) = size \div 10
  <2>1. text \in Nat
    <3> HIDE DEF text, line, k
    <3> QED
      BY <1>2, <1>3
  <2>2. text = TextAt(s, Count(s)) /\ v = TextLen(s, Count(s))
    BY <1>3
  <2> HIDE DEF text, v
  <2>3. ~ (text + 1 <= text)
    BY <2>1
  <2> QED
    BY <1>3, <2>2, <2>3 DEF Announced
<1> HIDE DEF W, p, h, n, line, text, k, v, next, size,
            first, byte
<1>11. p < next /\ c \in 2 * i + 1 .. 2 * i + 3 /\ i \in Nat
  <2>1. i \in Nat
    OBVIOUS
  <2>2. \/ p = line /\ c = 2 * i + 1
        \/ p \in line + 1 .. text - 2 /\ c = 2 * i + 1
        \/ p = text - 1 /\ c = 2 * i + 2
        \/ p = text /\ c = 2 * i + 2
        \/ p \in text + 1 .. last /\ c = 2 * i + 2
        \/ p = last + 1 /\ c = 2 * i + 3
    BY <1>5, Zenon
  <2> QED
    BY <1>1, <1>2, <1>3, <2>1, <2>2
<1>12. /\ h.content_length = Announced(s, p) /\ p + 1 \in Nat
       /\ p + 1 < HeadLen(s) /\ c # 2 * Count(s) + 5
       /\ c + 1 # 2 * Count(s) + 5
  <2>1. m.p < LineAt(s, i + 1)
    BY <1>11 DEF p, next
  <2> QED
    BY <1>11, <2>1, HeaderPlaces DEF p, h
<1>13. \A to : /\ Moved(m, n, to) /\ Spot(s, to, p + 1, n.h, c)
               /\ n.h.content_length = Announced(s, p + 1)
               => Took(s, m, n, c)
  BY <1>12, Passed DEF n, p, h
<1>14. \A to : /\ Emitted(m, n, to) /\ Spot(s, to, p + 1, n.h, c + 1)
               /\ Announced(s, p) = Announced(s, p + 1)
               /\ IsToken(s, c + 1, Tok(h.token.type, h.token.index,
                                        p - h.token.index, h.token.flags))
               => Took(s, m, n, c)
  BY <1>12, Found DEF n, p, h
<1>15. CASE m.cs = first /\ p = line /\ c = 2 * i + 1
  <2>1. /\ p + 1 = line + 1 /\ line + 1 \in line + 1 .. text - 2
        /\ (p + 1) - line = 1 /\ 1 <= Limit["HEADER_KEY"]
        /\ p <= text /\ p + 1 <= text
    BY <1>2, <1>3, <1>4, <1>15
  <2>2. byte = "Content-Length"
    BY <1>3, <2>1 DEF byte
  <2>3. \/ Goes(m.cs, byte, "cl_key",
                <<"reset_count", "header_key", "inc_count">>)
        \/ Goes(m.cs, byte, "cl_key",
                <<"header_key", "reset_count", "inc_count">>)
    <3>1. m.cs \in {"header0", "header"}
      BY <1>15 DEF first
    <3> QED
      BY <2>2, <3>1, Transitions
  <2>4. \/ Reads(m, byte, "cl_key",
                 <<"reset_count", "header_key", "inc_count">>)
        \/ Reads(m, byte, "cl_key",
                 <<"header_key", "reset_count", "inc_count">>)
    BY <1>8, <1>9, <2>3
  <2>5. /\ Moved(m, n, "cl_key") /\ Inside(n.h, "HEADER_KEY", p, 1)
        /\ n.h.content_length = h.content_length
    BY <2>1, <2>4, StepKey DEF n, p, h
  <2>6. Spot(s, "cl_key", p + 1, n.h, c)
    BY <1>7, <1>15, <2>1, <2>5
  <2>7. Announced(s, p) = 0 /\ Announced(s, p + 1) = 0
    BY <1>1, <1>12, <1>30, <2>1
  <2> QED
    BY <1>12, <1>13, <2>5, <2>6, <2>7 DEF n
<1>16. CASE /\ m.cs = "cl_key" /\ p \in line + 1 .. text - 2
            /\ c = 2 * i + 1 /\ Inside(h, "HEADER_KEY", line, p - line)
  <2>1. /\ p + 1 = line + k + 1 /\ p + 1 = text - 1 /\ p - line = k
        /\ c + 1 = 2 * i + 2 /\ p <= text /\ p + 1 <= text
    BY <1>2, <1>3, <1>11, <1>16
  <2>2. byte = ":"
    BY <1>2, <2>1 DEF byte
  <2>3. Reads(m, byte, "cl_colon", <<"emit_token">>)
    BY <1>8, <1>9, <1>16, <2>2, Transitions
  <2>4. Emitted(m, n, "cl_colon")
    BY <2>3, StepEmits DEF n
  <2>5. Spot(s, "cl_colon", p + 1, n.h, c + 1)
    BY <1>7, <2>1
  <2>6. IsToken(s, c + 1, Tok(h.token.type, h.token.index,
                              p - h.token.index, h.token.flags))
    BY <1>10, <1>16, <2>1 DEF Inside
  <2>7. Announced(s, p) = 0 /\ Announced(s, p + 1) = 0
    BY <1>1, <1>12, <1>30, <2>1
  <2> QED
    BY <1>14, <2>4, <2>5, <2>6, <2>7 DEF n
<1>17. CASE m.cs = "cl_colon" /\ p = text - 1 /\ c = 2 * i + 2
  <2>1. /\ p + 1 = line + k + 2 /\ p + 1 = text
        /\ p <= text /\ p + 1 <= text
    BY <1>1, <1>2, <1>3, <1>17
  <2>2. byte = "SP"
    BY <1>2, <2>1 DEF byte
  <2>3. Reads(m, byte, "cl_ows", <<>>)
    BY <1>8, <1>9, <1>17, <2>2, Transitions
  <2>4. Moved(m, n, "cl_ows") /\ n.h.content_length = h.content_length
    BY <2>3, StepPasses DEF n, h
  <2>5. Spot(s, "cl_ows", p + 1, n.h, c)
    BY <1>7, <1>17, <2>1
  <2>6. Announced(s, p) = 0 /\ Announced(s, p + 1) = 0
    BY <1>1, <1>12, <1>30, <2>1
  <2> QED
    BY <1>12, <1>13, <2>4, <2>5, <2>6 DEF n
<1>18. CASE m.cs = "cl_ows" /\ p = text /\ c = 2 * i + 2
  <2>1. /\ p + 1 = text + 1 /\ text + 1 \in text + 1 .. last
        /\ (p + 1) - text = 1 /\ 1 \in 1 .. v /\ 1 <= Limit["HEADER_VALUE"]
        /\ p <= text
    BY <1>1, <1>2, <1>3, <1>4, <1>18
  <2>2. byte \in Digit /\ byte = W[text + 1]
    BY <1>3, <2>1 DEF byte
  <2>3. Reads(m, byte, "cl_digits",
              <<"content_length_digit", "header_value", "inc_count">>)
    BY <1>8, <1>9, <1>18, <2>2, Transitions
  <2>4. /\ Moved(m, n, "cl_digits") /\ Inside(n.h, "HEADER_VALUE", p, 1)
        /\ n.h.content_length = 10 * h.content_length + Value(byte)
    BY <2>1, <2>3, StepFirstDigit DEF n, p, h
  <2>5. Spot(s, "cl_digits", p + 1, n.h, c)
    BY <1>7, <1>18, <2>1, <2>4
  <2>6. Value(byte) \in Nat /\ Announced(s, p + 1) = Value(byte)
    <3>1. CASE size < 10
      <4>1. last <= p + 1
        BY <1>2, <1>3, <2>1, <3>1
      <4>2. Announced(s, p + 1) = size
        BY <1>12, <1>30, <4>1
      <4>3. Value(byte) = size /\ size \in Nat
        BY <1>3, <2>2, <3>1
      <4> QED
        BY <4>2, <4>3
    <3>2. CASE ~ (size < 10)
      <4>0. \A x \in 0 .. 99 : ~ (x < 10) => x >= 10 /\ x \div 10 \in Nat
        OBVIOUS
      <4>1. v = 2 /\ size >= 10 /\ size \div 10 \in Nat
        BY <1>3, <3>2, <4>0
      <4> QED
        BY <1>3, <1>31, <2>1, <2>2, <4>1
    <3> QED
      BY <3>1, <3>2
  <2>7. n.h.content_length = Announced(s, p + 1)
    <3>1. h.content_length = 0
      BY <1>1, <1>12, <1>30, <2>1
    <3> QED
      BY <2>4, <2>6, <3>1
  <2> QED
    BY <1>13, <2>4, <2>5, <2>7 DEF n
<1>19. CASE /\ m.cs = "cl_digits" /\ p \in text + 1 .. last /\ c = 2 * i + 2
            /\ Inside(h, "HEADER_VALUE", text, p - text)
  <2>1. CASE p # last
    <3>1. v = 2 /\ size >= 10
      BY <1>2, <1>3, <1>19, <2>1
    <3>2. /\ p = text + 1 /\ p + 1 = text + 2 /\ 2 \in 1 .. v
          /\ p + 1 \in text + 1 .. last /\ (p + 1) - text = (p - text) + 1
          /\ (p - text) + 1 <= Limit["HEADER_VALUE"] /\ last <= p + 1
      BY <1>2, <1>4, <1>19, <2>1, <3>1
    <3>3. byte \in Digit /\ byte = W[text + 2]
      BY <1>3, <3>2 DEF byte
    <3>4. Reads(m, byte, "cl_digits", <<"content_length_digit", "inc_count">>)
      BY <1>8, <1>9, <1>19, <3>3, Transitions
    <3>5. h.limit_count + 1 <= h.limit_max
      BY <1>19, <3>2 DEF Inside
    <3>6. /\ Moved(m, n, "cl_digits") /\ n.h.token = h.token
          /\ n.h.content_length = 10 * h.content_length + Value(byte)
          /\ n.h.limit_max = h.limit_max
          /\ n.h.limit_count = h.limit_count + 1
      BY <3>4, <3>5, StepDigit DEF n, h
    <3>7. Inside(n.h, "HEADER_VALUE", text, (p + 1) - text)
      BY <1>19, <3>2, <3>6 DEF Inside
    <3>8. Spot(s, "cl_digits", p + 1, n.h, c)
      BY <1>7, <1>19, <3>2, <3>7
    <3>9. n.h.content_length = Announced(s, p + 1)
      <4>1. h.content_length = size \div 10
        BY <1>12, <1>31, <3>1, <3>2
      <4>2. Announced(s, p + 1) = size
        BY <1>12, <1>30, <3>2
      <4> QED
        BY <1>3, <3>1, <3>3, <3>6, <4>1, <4>2
    <3> QED
      BY <1>13, <3>6, <3>8, <3>9 DEF n
  <2>2. CASE p = last
    <3>1. /\ p + 1 = text + v + 1 /\ p + 1 = last + 1 /\ p - text = v
          /\ c + 1 = 2 * i + 3 /\ last <= p /\ last <= p + 1
      BY <1>2, <1>11, <1>19, <2>2
    <3>2. byte = "CR"
      BY <1>2, <3>1 DEF byte
    <3>3. Reads(m, byte, "value_end", <<"emit_token">>)
      BY <1>8, <1>9, <1>19, <3>2, Transitions
    <3>4. Emitted(m, n, "value_end")
      BY <3>3, StepEmits DEF n
    <3>5. Inside(n.h, "HEADER_VALUE", text, v)
      BY <1>19, <3>1, <3>4 DEF Inside, Emitted, Tok, h
    <3>6. Spot(s, "value_end", p + 1, n.h, c + 1)
      BY <1>7, <3>1, <3>5
    <3>7. IsToken(s, c + 1, Tok(h.token.type, h.token.index,
                                p - h.token.index, h.token.flags))
      BY <1>10, <1>19, <3>1 DEF Inside
    <3>8. Announced(s, p) = Announced(s, p + 1)
      BY <1>1, <1>12, <1>30, <3>1
    <3> QED
      BY <1>14, <3>4, <3>6, <3>7, <3>8 DEF n
  <2> QED
    BY <2>1, <2>2
<1>20. CASE /\ m.cs = "value_end" /\ p = last + 1 /\ c = 2 * i + 3
            /\ Inside(h, "HEADER_VALUE", text, v)
  BY <1>20, HeaderEndStep DEF p, h, text, v
<1> QED
  BY <1>5, <1>15, <1>16, <1>17, <1>18, <1>19, <1>20 DEF n


\* A step behind the headers.
LEMMA TailStep ==
  ASSUME NEW s, NEW m, NEW c, Place(s, m, c), InTail(s, m.cs, m.p, m.h, c)
  PROVE  Took(s, m, Step(m), c)
<1> DEFINE W == Wire[s]
           p == m.p
           h == m.h
           pe == m.pe
           n == Step(m)
           a == Count(s)
           y == BlankAt(s)
           z == HeadLen(s)
           size == Size(s)
           l == Len(W)
           end == TextAt(s, a) + TextLen(s, a)
           byte == W[p + 1]
<1>1. /\ Allowed(s) /\ p \in Nat /\ p < pe /\ pe \in Int
      /\ pe <= m.b.capacity /\ m.b.capacity \in Nat /\ pe <= l
      /\ size > 0 => pe # l - 1
      /\ h.content_length = Announced(s, p) /\ h.flags = {}
      /\ p >= z => m.b.after_headers_index = z
  BY DEF Place, Stands, Machines, ReadBuffers
<1>2. /\ a \in Nat \ {0} /\ y \in Nat /\ size \in 0 .. 99
      /\ z = y + 2 /\ l = (y + 2) + size /\ l <= MaxCap
      /\ W[y + 1] = "CR" /\ W[y + 2] = "LF"
      /\ \A j \in 1 .. l : W[j] \in Byte
      /\ end \in Nat /\ end + 2 = y
      /\ 2 <= Limit["HEADER_KEY"]
  <2> DEFINE text == TextAt(s, a)
             v == TextLen(s, a)
  <2>1. /\ a \in Nat \ {0} /\ y \in Nat /\ size \in 0 .. 99
        /\ z = y + 2 /\ l = (y + 2) + size /\ l <= MaxCap
        /\ W[y + 1] = "CR" /\ W[y + 2] = "LF"
        /\ \A j \in 1 .. l : W[j] \in Byte
        /\ text \in Nat /\ (text + v) + 2 = y /\ v \in Nat \ {0}
        /\ 2 <= Limit["HEADER_KEY"]
    BY <1>1, TailFacts
  <2> HIDE DEF text, v, y, a
  <2>2. text + v \in Nat
    BY <2>1
  <2> QED
    BY <2>1, <2>2 DEF text, v
<1>3. \A q \in Nat : end <= q => Announced(s, q) = size
  BY <1>1, AnnouncedIs
<1>4. \/ m.cs = "header" /\ p = y /\ c = 2 * a + 3
      \/ /\ m.cs = "blank" /\ p = y + 1 /\ c = 2 * a + 3
         /\ Inside(h, "HEADER_KEY", y, 1)
      \/ m.cs = "final" /\ size = 0 /\ p = z
      \/ m.cs = "small_body" /\ size > 0 /\ p = z /\ c = 2 * a + 4
      \/ /\ m.cs = "small" /\ size > 0 /\ p \in z + 1 .. l - 1
         /\ c = 2 * a + 4
         /\ h.token.type = "BODY" /\ h.token.flags = {"SMALL_BODY"}
      \/ m.cs = "small" /\ size > 0 /\ p = l
  BY DEF InTail
<1>5. \A cs, q, g, d : InTail(s, cs, q, g, d) => Spot(s, cs, q, g, d)
  BY DEF Spot
<1>6. \A to \in State \ {"error"} : \A do :
        Goes(m.cs, byte, to, do) => Reads(m, byte, to, do)
  BY ReadsByte
<1>7. {"blank", "final", "small"} \subseteq State \ {"error"}
  BY DEF State
<1> HIDE DEF W, p, h, pe, n, a, y, z, size, l, end, byte
<1>8. p >= y => h.content_length = size
  BY <1>1, <1>2, <1>3
<1>9. \A q \in Nat : q >= y => Announced(s, q) = size
  BY <1>2, <1>3
<1>10. CASE m.cs = "header" /\ p = y /\ c = 2 * a + 3
  <2>1. /\ p + 1 = y + 1 /\ 1 <= Limit["HEADER_KEY"] /\ p + 1 \in Nat
        /\ p + 1 < z /\ c # 2 * a + 5 /\ p >= y /\ p + 1 >= y
    <3>1. Limit["HEADER_KEY"] \in Nat
      BY ParserAssumption
    <3> QED
      BY <1>1, <1>2, <1>10, <3>1
  <2>2. byte = "CR"
    BY <1>2, <2>1 DEF byte
  <2>3. Reads(m, byte, "blank",
              <<"header_key", "reset_count", "inc_count">>)
    BY <1>6, <1>7, <1>10, <2>2, Transitions
  <2>4. /\ Moved(m, n, "blank") /\ Inside(n.h, "HEADER_KEY", p, 1)
        /\ n.h.content_length = h.content_length
    BY <2>1, <2>3, StepKey DEF n, p, h
  <2>5. InTail(s, "blank", p + 1, n.h, c)
    BY <1>10, <2>1, <2>4 DEF InTail, y, a
  <2>6. n.h.content_length = Announced(s, p + 1)
    BY <1>8, <1>9, <2>1, <2>4
  <2>7. Spot(s, "blank", p + 1, n.h, c)
    BY <1>5, <2>5
  <2> QED
    BY <2>1, <2>4, <2>6, <2>7, Passed DEF n, p, a, z
<1>11. CASE /\ m.cs = "blank" /\ p = y + 1 /\ c = 2 * a + 3
            /\ Inside(h, "HEADER_KEY", y, 1)
  <2>1. /\ p + 1 = y + 2 /\ p + 1 = z /\ p >= y /\ z >= y /\ z \in Nat
        /\ c + 1 = 2 * a + 4 /\ c + 1 # 2 * a + 5
        /\ 0 <= p /\ p + 1 <= m.b.capacity /\ (p + 1) + size <= MaxCap
        /\ p < z /\ z <= pe
    BY <1>1, <1>2, <1>11
  <2>2. byte = "LF"
    BY <1>2, <2>1 DEF byte
  <2>3. Reads(m, byte, "final", <<"inc_count", "done_headers">>)
    BY <1>6, <1>7, <1>11, <2>2, Transitions
  <2>4. h.limit_count + 1 <= h.limit_max
    BY <1>2, <1>11 DEF Inside
  <2>5. /\ n.cs = (IF size = 0 THEN "final" ELSE "small_body")
        /\ n.p = z /\ n.out /\ n.pe = m.pe /\ n.h.seq = m.h.seq
        /\ n.h.content_length = size
        /\ n.h.flags = h.flags \cup {"TOKEN_READY"}
        /\ n.h.token = Tok("HEADERS_DONE", 0, 0,
                           IF size = 0 THEN {"NO_BODY"} ELSE {})
        /\ Grown(m.b, n.b, z, size)
    <3>1. size = m.h.content_length /\ "CHUNKED" \notin m.h.flags
      BY <1>1, <1>8, <2>1 DEF h
    <3> QED
      BY <2>1, <2>3, <2>4, <3>1, StepBlank DEF n, p, h
  <2>6. InTail(s, n.cs, n.p, n.h, c + 1)
    <3>1. CASE size = 0
      <4>1. n.cs = "final" /\ n.p = z
        BY <2>5, <3>1
      <4> QED
        BY <2>1, <3>1, <4>1 DEF InTail, a, z, size
    <3>2. CASE size # 0
      <4>1. n.cs = "small_body" /\ n.p = z /\ size > 0
        BY <1>2, <2>5, <3>2
      <4> QED
        BY <2>1, <4>1 DEF InTail, a, z, size
    <3> QED
      BY <3>1, <3>2
  <2>7. n.b.after_headers_index = z
    BY <2>5 DEF Grown
  <2>8. n.h.flags = {"TOKEN_READY"} /\ n.h.flags \ {"TOKEN_READY"} = {}
    BY <1>1, <2>5
  <2>9. Stands(s, n.cs, n.p, n.h, n.b, c + 1)
    <3>1. n.h.content_length = Announced(s, n.p)
      BY <1>9, <2>1, <2>5
    <3>2. n.h.flags \ {"TOKEN_READY"}
            = (IF c + 1 = 2 * Count(s) + 5 THEN {"DONE"} ELSE {})
      BY <2>1, <2>8 DEF a
    <3> QED
      BY <2>6, <2>7, <3>1, <3>2 DEF Stands, z
  <2>10. IsToken(s, c + 1, n.h.token)
    <3>1. \/ size = 0 /\ ~ (size > 0)
          \/ size # 0 /\ size > 0
      BY <1>2
    <3> QED
      BY <2>1, <2>5, <3>1 DEF IsToken, a, size
  <2> QED
    BY <1>1, <2>1, <2>5, <2>8, <2>9, <2>10 DEF Took, n, p, pe, z, size
<1>12. CASE /\ size > 0 /\ p \in z .. l - 1 /\ c = 2 * a + 4
            /\ \/ m.cs = "small_body"
               \/ /\ m.cs = "small" /\ h.token.type = "BODY"
                  /\ h.token.flags = {"SMALL_BODY"}
  <2>1. /\ p + 1 \in 1 .. l /\ p >= z /\ p >= y
        /\ pe \in Nat /\ pe >= y /\ z \in Nat /\ pe >= z
        /\ pe >= z + size - 1 <=> pe = l
        /\ pe # l => pe \in z + 1 .. l - 1 /\ pe < l
        /\ c + 1 = 2 * a + 5 /\ c # 2 * a + 5
    BY <1>1, <1>2, <1>12
  <2>2. byte \in Byte
    BY <1>2, <2>1 DEF byte
  <2>3. \/ Reads(m, byte, "small", <<"body", "small_body_read">>)
        \/ /\ Reads(m, byte, "small", <<"small_body_read">>)
           /\ m.h.token.type = "BODY" /\ m.h.token.flags = {"SMALL_BODY"}
    BY <1>6, <1>7, <1>12, <2>2, Transitions DEF h
  <2>4. /\ n.cs = "small" /\ n.p = pe /\ n.out /\ n.pe = pe
        /\ n.b = m.b /\ n.h.seq = m.h.seq /\ n.h.content_length = size
        /\ n.h.token = Tok("BODY", z, size, {"SMALL_BODY"})
        /\ n.h.flags = h.flags \cup (IF pe >= z + size - 1
                                     THEN {"DONE", "TOKEN_READY"} ELSE {})
    <3>1. m.b.after_headers_index = z /\ m.h.content_length = size
      BY <1>1, <1>8, <2>1 DEF h
    <3> QED
      BY <2>3, <3>1, StepBody DEF n, pe, h
  <2>5. /\ n.b.after_headers_index = z
        /\ n.h.content_length = Announced(s, n.p)
    BY <1>1, <1>9, <2>1, <2>4
  <2>6. CASE pe = l
    <3>1. n.h.flags = {"DONE", "TOKEN_READY"}
      BY <1>1, <2>1, <2>4, <2>6
    <3>2. InTail(s, n.cs, n.p, n.h, c + 1)
      BY <1>12, <2>1, <2>4, <2>6 DEF InTail, a, size, l, W
    <3>3. Stands(s, n.cs, n.p, n.h, n.b, c + 1)
      <4>1. n.h.flags \ {"TOKEN_READY"}
              = (IF c + 1 = 2 * Count(s) + 5 THEN {"DONE"} ELSE {})
        BY <2>1, <3>1 DEF a
      <4> QED
        BY <2>5, <3>2, <4>1 DEF Stands, z
    <3>4. IsToken(s, c + 1, n.h.token)
      BY <1>12, <2>1, <2>4 DEF IsToken, a, size, z
    <3> QED
      <4>1. p < n.p /\ n.p <= pe /\ n.pe = pe
        BY <1>1, <2>4
      <4>2. "TOKEN_READY" \in n.h.flags
        BY <3>1
      <4> QED
        BY <2>4, <3>3, <3>4, <4>1, <4>2, Zenon DEF Took, n, p, pe
  <2>7. CASE pe # l
    <3>1. n.h.flags = {}
      BY <1>1, <2>1, <2>4, <2>7
    <3>2. n.h.token.type = "BODY" /\ n.h.token.flags = {"SMALL_BODY"}
      BY <2>4 DEF Tok
    <3>3. InTail(s, n.cs, n.p, n.h, c)
      BY <1>12, <2>1, <2>4, <2>7, <3>2 DEF InTail, a, size, l, W, z
    <3>4. Stands(s, n.cs, n.p, n.h, n.b, c)
      <4>1. n.h.flags \ {"TOKEN_READY"}
              = (IF c = 2 * Count(s) + 5 THEN {"DONE"} ELSE {})
        BY <2>1, <3>1 DEF a
      <4> QED
        BY <2>5, <3>3, <4>1 DEF Stands, z
    <3>5. "TOKEN_READY" \notin n.h.flags
      BY <3>1
    <3> QED
      <4>1. /\ p < n.p /\ n.p <= pe /\ n.pe = pe /\ n.p < l
            /\ (n.out <=> n.p = pe)
        BY <1>1, <2>1, <2>4, <2>7
      <4> QED
        BY <2>4, <3>4, <3>5, <4>1, Zenon DEF Took, n, p, pe, l, W
  <2> QED
    BY <2>6, <2>7
<1>13. \/ m.cs = "header" /\ p = y /\ c = 2 * a + 3
       \/ /\ m.cs = "blank" /\ p = y + 1 /\ c = 2 * a + 3
          /\ Inside(h, "HEADER_KEY", y, 1)
       \/ /\ size > 0 /\ p \in z .. l - 1 /\ c = 2 * a + 4
          /\ \/ m.cs = "small_body"
             \/ /\ m.cs = "small" /\ h.token.type = "BODY"
                /\ h.token.flags = {"SMALL_BODY"}
  <2>1. p < l /\ (size = 0 => p # z) /\ z \in Nat /\ l \in Nat
    BY <1>1, <1>2
  <2>2. /\ p = z => p \in z .. l - 1
        /\ p \in z + 1 .. l - 1 => p \in z .. l - 1
        /\ p # l
    BY <1>1, <2>1
  <2> QED
    BY <1>4, <2>1, <2>2
<1> QED
  BY <1>10, <1>11, <1>12, <1>13 DEF n

\* A step anywhere in a request.
LEMMA PlaceStep ==
  ASSUME NEW s, NEW m, NEW c, Place(s, m, c)
  PROVE  Took(s, m, Step(m), c)
<1>1. \/ InLine(s, m.cs, m.p, m.h, c)
      \/ \E i \in 1 .. Count(s) : InHeader(s, i, m.cs, m.p, m.h, c)
      \/ InTail(s, m.cs, m.p, m.h, c)
  BY Zenon DEF Place, Stands
<1>2. CASE InLine(s, m.cs, m.p, m.h, c)
  BY <1>2, LineStep
<1>3. ASSUME NEW i \in 1 .. Count(s), InHeader(s, i, m.cs, m.p, m.h, c)
      PROVE  Took(s, m, Step(m), c)
  BY <1>3, OtherStep, LengthStep
<1>4. CASE InTail(s, m.cs, m.p, m.h, c)
  BY <1>4, TailStep
<1> QED
  BY <1>1, <1>2, <1>3, <1>4


-----------------------------------------------------------------------------
(* The invariant.                                                          *)

\* The requests and the settings.
LEMMA ModestIs ==
  ASSUME NEW s \in Shapes, Modest(s)
  PROVE  /\ Allowed(s) /\ Len(Wire[s]) \in Nat \ {0}
         /\ MaxCap \in Nat /\ 2 * Len(Wire[s]) < MaxCap
         /\ Len(Wire[s]) <= MaxCap
         /\ Size(s) > 0 => ~ Cut(s, Len(Wire[s]) - 1)
         /\ Size(s) \in 0 .. 99 /\ HeadLen(s) \in Nat
         /\ 0 < HeadLen(s) /\ HeadLen(s) + Size(s) = Len(Wire[s])
         /\ Count(s) \in Nat \ {0} /\ Total(s) \in Nat /\ 0 < Total(s)
<1> DEFINE l == Len(Wire[s])
           y == BlankAt(s)
           z == HeadLen(s)
           a == Count(s)
           size == Size(s)
<1>1. /\ WellFormed(s) /\ LimitsAllow /\ 2 * l < MaxCap
      /\ Size(s) > 0 => ~ Cut(s, l - 1)
  BY DEF Modest, Settings
<1>2. MaxCap \in Nat
  BY ParserAssumption
<1>3. l \in Nat
  <2>1. Wire[s] \in Seq(Byte)
    BY WireAssumption
  <2> QED
    BY <2>1
<1>4. l <= MaxCap
  <2> HIDE DEF l
  <2> QED
    BY <1>1, <1>2, <1>3
<1>5. Allowed(s)
  BY <1>1, <1>4 DEF Allowed
<1>6. /\ a \in Nat \ {0} /\ y \in Nat /\ size \in 0 .. 99
      /\ z = y + 2 /\ l = (y + 2) + size
  BY <1>5, TailFacts
<1>7. Total(s) = IF size > 0 THEN 2 * a + 5 ELSE 2 * a + 4
  BY DEF Total
<1> HIDE DEF l, y, z, a, size
<1>8. /\ l \in Nat \ {0} /\ z \in Nat /\ 0 < z /\ z + size = l
      /\ Total(s) \in Nat /\ 0 < Total(s)
  BY <1>6, <1>7
<1> QED
  BY <1>1, <1>2, <1>4, <1>5, <1>6, <1>8 DEF l, z, a, size

\* A position and the number of tokens found there.
LEMMA Where ==
  ASSUME NEW s, Allowed(s), NEW cs, NEW p, NEW h, NEW b, NEW c,
         Stands(s, cs, p, h, b, c)
  PROVE  /\ p \in Nat /\ p <= Len(Wire[s]) /\ c \in Nat /\ c <= Total(s)
         /\ c = Total(s) <=> p = Len(Wire[s])
         /\ c # Total(s) => c # 2 * Count(s) + 5
         /\ cs # "error" /\ Total(s) \in Nat
<1> DEFINE l == Len(Wire[s])
           y == BlankAt(s)
           z == HeadLen(s)
           a == Count(s)
           t == Len(s.target)
           size == Size(s)
           d == Total(s)
<1>1. /\ a \in Nat \ {0} /\ y \in Nat /\ size \in 0 .. 99
      /\ z = y + 2 /\ l = (y + 2) + size
  BY TailFacts
<1>2. t \in Nat \ {0} /\ t + 8 <= z
  BY LineFacts
<1>3. d = IF size > 0 THEN 2 * a + 5 ELSE 2 * a + 4
  BY DEF Total
<1>4. \/ InLine(s, cs, p, h, c)
      \/ \E i \in 1 .. Count(s) : InHeader(s, i, cs, p, h, c)
      \/ InTail(s, cs, p, h, c)
  BY Zenon DEF Stands
<1>5. CASE InLine(s, cs, p, h, c)
  <2>1. /\ cs # "error" /\ p \in 0 .. t + 5 /\ c \in 0 .. 3
    <3>1. /\ cs # "error" /\ c \in 0 .. 3
          /\ \/ p \in {0, 1, 2} \/ p \in 3 .. t + 2
             \/ p \in {t + 3, t + 4, t + 5}
      BY <1>5 DEF InLine
    <3> HIDE DEF t
    <3> QED
      BY <1>2, <3>1
  <2> HIDE DEF l, y, z, a, t, size, d
  <2> QED
    BY <1>1, <1>2, <1>3, <2>1 DEF l, a, d
<1>6. ASSUME NEW i \in 1 .. Count(s), InHeader(s, i, cs, p, h, c)
      PROVE  /\ cs # "error" /\ p \in 0 .. z - 1
             /\ c \in 2 * i + 1 .. 2 * i + 3
  <2> DEFINE line == LineAt(s, i)
             text == TextAt(s, i)
             k == KeyLen(s, i)
             v == TextLen(s, i)
             last == text + v
  <2>1. /\ line \in Nat /\ k \in Nat \ {0} /\ v \in Nat \ {0}
        /\ text = line + k + 2 /\ LineAt(s, i + 1) = text + v + 2
        /\ LineAt(s, i + 1) <= y
    BY HeaderFacts
  <2>2. /\ cs # "error"
        /\ \/ p = line /\ c = 2 * i + 1
           \/ p \in line + 1 .. text - 2 /\ c = 2 * i + 1
           \/ p = text - 1 /\ c = 2 * i + 2
           \/ p = text /\ c = 2 * i + 2
           \/ p \in text + 1 .. last /\ c = 2 * i + 2
           \/ p = last + 1 /\ c = 2 * i + 3
    BY <1>6 DEF InHeader
  <2>3. i \in Nat
    OBVIOUS
  <2> HIDE DEF line, text, k, v, y, z
  <2> QED
    BY <1>1, <2>1, <2>2, <2>3
<1>7. CASE \E i \in 1 .. Count(s) : InHeader(s, i, cs, p, h, c)
  <2>1. PICK i \in 1 .. Count(s) : InHeader(s, i, cs, p, h, c)
    BY <1>7
  <2>2. i \in 1 .. a /\ cs # "error" /\ p \in 0 .. z - 1
        /\ c \in 2 * i + 1 .. 2 * i + 3
    BY <1>6, <2>1
  <2> HIDE DEF l, y, z, a, t, size, d
  <2> QED
    BY <1>1, <1>3, <2>2 DEF l, a, d
<1>8. CASE InTail(s, cs, p, h, c)
  <2>1. /\ cs # "error"
        /\ \/ p = y /\ c = 2 * a + 3
           \/ p = y + 1 /\ c = 2 * a + 3
           \/ size = 0 /\ p = z /\ c = 2 * a + 4
           \/ size > 0 /\ p = z /\ c = 2 * a + 4
           \/ size > 0 /\ p \in z + 1 .. l - 1 /\ c = 2 * a + 4
           \/ size > 0 /\ p = l /\ c = 2 * a + 5
    BY <1>8 DEF InTail
  <2> HIDE DEF l, y, z, a, t, size, d
  <2> QED
    BY <1>1, <1>3, <2>1 DEF l, a, d
<1> QED
  BY <1>4, <1>5, <1>7, <1>8

\* The sequence number that follows one is another.
LEMMA NextDiffers ==
  ASSUME Modest(shape), NEW x \in Int
  PROVE  Next_(x) # x /\ Next_(x) \in Int
<1>1. SeqIds \in Nat /\ 2 <= SeqIds
  BY ParserAssumption DEF Modest, Settings
<1>2. \A n \in Nat : 2 <= n =>
        /\ (x + 1) % n \in Int
        /\ x + 1 = n * ((x + 1) \div n) + ((x + 1) % n)
        /\ (x + 1) \div n \in Int
  OBVIOUS
<1>3. \A n \in Nat, q \in Int : 2 <= n => n * q # 1
  <2> TAKE n \in Nat, q \in Int
  <2>1. CASE q <= 0
    <3>1. n * q <= 0
      BY <2>1
    <3> QED
      BY <3>1
  <2>2. CASE q >= 1
    <3>1. n * q >= n
      BY <2>2
    <3> QED
      BY <3>1
  <2> QED
    BY <2>1, <2>2
<1>4. \A n \in Nat : 2 <= n => (x + 1) % n # x
  <2> TAKE n \in Nat
  <2> DEFINE q == (x + 1) \div n
             r == (x + 1) % n
             e == n * q
  <2>1. 2 <= n => r \in Int /\ x + 1 = e + r /\ q \in Int
    BY <1>2
  <2>2. 2 <= n => e # 1 /\ e \in Int
    BY <1>3, <2>1
  <2> HIDE DEF q, r, e
  <2>3. 2 <= n => r # x
    BY <2>1, <2>2
  <2> QED
    BY <2>3 DEF r
<1> QED
  BY <1>1, <1>2, <1>4 DEF Next_


-----------------------------------------------------------------------------
(* The steps of the client and of the event loop.                          *)

\* A buffer and a parser that were initialized.
LEMMA Fresh ==
  ASSUME NEW s \in Shapes, Modest(s)
  PROVE  /\ Stands(s, ParserInit.state, BufferInit.index, ParserInit,
                   BufferInit, 0)
         /\ BufferInit.capacity > 0 /\ BufferInit.capacity < MaxCap
         /\ BufferInit.length = 0 /\ BufferInit.index = 0
         /\ BufferInit.seq = 0 /\ ParserInit.seq = 0 /\ ParserInit.flags = {}
         /\ NoBuffer.capacity = 0
<1>1. /\ BufferInit.capacity = InitCap /\ BufferInit.length = 0
      /\ BufferInit.index = 0 /\ BufferInit.seq = 0
      /\ BufferInit.after_headers_index = 0 /\ NoBuffer.capacity = 0
  BY DEF BufferInit, NoBuffer
<1>2. InitCap \in Nat \ {0} /\ InitCap < MaxCap
  BY DataPathAssumption DEF Modest, Settings
<1>3. /\ ParserInit.state = "start" /\ ParserInit.flags = {}
      /\ ParserInit.content_length = 0 /\ ParserInit.seq = 0
  BY DEF ParserInit
<1>4. Allowed(s) /\ HeadLen(s) \in Nat /\ 0 < HeadLen(s)
  BY ModestIs
<1>5. Announced(s, 0) = 0
  <2>1. TextAt(s, Count(s)) \in Nat
    BY <1>4, TailFacts
  <2>2. 0 <= TextAt(s, Count(s)) => Announced(s, 0) = 0
    BY <1>4, AnnouncedIs
  <2> QED
    BY <2>1, <2>2
<1>6. InLine(s, "start", 0, ParserInit, 0)
  BY DEF InLine
<1>7. 0 # 2 * Count(s) + 5 /\ ~ (0 >= HeadLen(s))
  <2>1. Count(s) \in Nat \ {0}
    BY <1>4, TailFacts
  <2> QED
    BY <1>4, <2>1
<1>8. ParserInit.flags \ {"TOKEN_READY"}
        = (IF 0 = 2 * Count(s) + 5 THEN {"DONE"} ELSE {})
  BY <1>3, <1>7
<1> QED
  BY <1>1, <1>2, <1>3, <1>5, <1>6, <1>7, <1>8 DEF Stands

\* Steps that leave alone what is between the calls of the parser.
LEMMA BetweenSame ==
  ASSUME NEW c, Between(c), UNCHANGED <<shape, taken, buffer, parser>>
  PROVE  Between(c)'
BY DEF Between, Holds

\* It is the same place in the program, with the tokens in view.
LEMMA KnowsSame ==
  ASSUME NEW c, Repeats => Knows(c), UNCHANGED <<shape, tokens>>,
         pc # "scan", pc' # "scan"
  PROVE  Repeats => Knows(c)'
BY DEF Knows

\* What was read is a part of what was sent of the request.
LEMMA WireFacts ==
  ASSUME Modest(shape), DInv, Wired
  PROVE  /\ shape \in Shapes /\ taken \in Nat /\ sent \in Nat /\ taken <= sent
         /\ Stream = Wire[shape] /\ Len(Wire[shape]) \in Nat
         /\ sent <= Len(Wire[shape])
<1>1. /\ shape \in Shapes /\ taken \in Nat /\ sent \in Nat /\ taken <= sent
  BY DEF DInv, WireInv
<1>2. Wire[shape] \in Seq(Byte)
  BY <1>1, WireAssumption
<1>3. left \o Wire[shape] = Wire[shape]
  BY <1>2 DEF Wired
<1> QED
  BY <1>1, <1>2, <1>3 DEF Wired, Stream

LEMMA ArriveMeets ==
  ASSUME Modest(shape), DInv, RInv, Arrive
  PROVE  RInv'
<1>1. /\ UNCHANGED <<shape, left, taken, buffer, parser, tokens, machine, state,
                     pc, inject, held, flags, given, complete>>
      /\ edge' /\ pc \in {"accept", "loop", "read"} /\ state = "READ"
      /\ sent' \in sent + 1 .. Len(Stream)
      /\ sent' = Len(Stream) \/ Cut(shape, sent' - Len(left))
  BY DEF Arrive, reading, request
<1>2. /\ shape \in Shapes /\ Stream = Wire[shape] /\ Len(Wire[shape]) \in Nat
      /\ left = <<>> /\ sent \in Nat
  BY WireFacts DEF RInv, Wired
<1>3. Wired'
  <2>1. /\ sent' \in Nat /\ sent' <= Len(Wire[shape])
        /\ sent' = Len(Wire[shape]) \/ Cut(shape, sent')
    <3>1. Len(left) = 0
      BY <1>2
    <3>2. sent' \in Nat /\ sent' <= Len(Wire[shape])
      BY <1>1, <1>2
    <3>3. \A x \in Nat : x - 0 = x
      OBVIOUS
    <3>4. sent' - 0 = sent'
      BY <3>2, <3>3
    <3> QED
      BY <1>1, <1>2, <3>1, <3>2, <3>4
  <2>2. Size(shape) > 0 => sent' # Len(Wire[shape]) - 1
    <3>1. Size(shape) > 0 => ~ Cut(shape, Len(Wire[shape]) - 1)
      BY <1>2, ModestIs
    <3>2. Len(Wire[shape]) # Len(Wire[shape]) - 1
      BY <1>2
    <3> QED
      BY <2>1, <3>1, <3>2
  <2>3. ~ inject /\ tokens \in Seq(Token)
    BY DEF RInv, Wired
  <2> QED
    BY <1>1, <1>2, <2>1, <2>2, <2>3 DEF Wired
<1>4. CASE Accepting
  BY <1>1, <1>3, <1>4 DEF RInv, Accepting
<1>5. CASE Receiving
  <2>1. PICK c \in 0 .. Total(shape) : Reading(c) /\ (Repeats => Knows(c))
    BY <1>5 DEF Receiving
  <2>2. pc # "scan" /\ pc # "exec" /\ Between(c)
    BY <1>1, <1>5, <2>1 DEF Receiving, Reading
  <2>3. Between(c)'
    BY <1>1, <2>2, BetweenSame
  <2>4. Reading(c)'
    BY <1>1, <2>1, <2>2, <2>3 DEF Reading, Waiting
  <2>5. Repeats => Knows(c)'
    BY <1>1, <2>1, <2>2, KnowsSame
  <2>6. Receiving'
    BY <1>1, <1>5, <2>4, <2>5 DEF Receiving
  <2> QED
    BY <1>3, <2>6 DEF RInv
<1>6. ~ Called /\ ~ Notified /\ ~ Closed
  BY <1>1 DEF Called, Notified, Complete, Closed
<1> QED
  BY <1>4, <1>5, <1>6 DEF RInv

\* A request begins, with nothing of it read.
LEMMA Begins ==
  ASSUME shape' \in Shapes, Modest(shape'), taken' = 0,
         ReadRequest(NoBuffer),
         Wired', held' = "none", "CHUNKED_RESPONSE" \notin flags',
         given' = <<>>, ~ complete', Repeats => Listed(shape', tokens', 0)
  PROVE  RInv'
<1>1. /\ Stands(shape', ParserInit.state, BufferInit.index, ParserInit,
                BufferInit, 0)
      /\ BufferInit.capacity > 0 /\ BufferInit.capacity < MaxCap
      /\ BufferInit.length = 0 /\ BufferInit.index = 0
      /\ BufferInit.seq = 0 /\ ParserInit.seq = 0 /\ ParserInit.flags = {}
      /\ NoBuffer.capacity = 0
  BY Fresh
<1>2. /\ state' = "READ" /\ buffer' = BufferInit /\ parser' = ParserInit
      /\ pc' = "read"
  <2>1. BufferInit.index >= BufferInit.length
    BY <1>1
  <2> QED
    BY <1>1, <2>1 DEF ReadRequest
<1>3. /\ Len(Wire[shape']) \in Nat \ {0} /\ Total(shape') \in Nat
      /\ 0 < Total(shape')
  BY ModestIs
<1>4. Holds(buffer)'
  <2>1. 1 .. taken' = {} /\ taken' < BufferInit.capacity
    BY <1>1
  <2> QED
    BY <1>1, <1>2, <2>1 DEF Holds
<1>5. Between(0)'
  <2>1. buffer'.index <= taken' /\ buffer'.index < Len(Wire[shape'])
    BY <1>1, <1>2, <1>3
  <2> QED
    BY <1>1, <1>2, <1>3, <1>4, <2>1 DEF Between
<1>6. Reading(0)'
  BY <1>1, <1>2, <1>5 DEF Reading
<1>7. Repeats => Knows(0)'
  BY <1>2 DEF Knows
<1>8. 0 \in 0 .. Total(shape')
  BY <1>3
<1>9. Receiving'
  BY <1>2, <1>6, <1>7, <1>8 DEF Receiving
<1> QED
  BY <1>9 DEF RInv

LEMMA AcceptMeets ==
  ASSUME Modest(shape), DInv, RInv, Accept
  PROVE  RInv'
<1>1. /\ UNCHANGED <<shape, left, sent, taken, tokens, inject, held, flags,
                     given, complete>>
      /\ pc = "accept" /\ ReadRequest(buffer)
  BY DEF Accept, request
<1>2. Accepting
  BY <1>1 DEF RInv, Receiving, Called, Notified, Complete, Closed
<1>3. Wired'
  BY <1>1 DEF RInv, Wired
<1>4. shape \in Shapes
  BY WireFacts DEF RInv
<1> QED
  BY <1>1, <1>2, <1>3, <1>4, Begins DEF Accepting

LEMMA RefuseMeets ==
  ASSUME RInv, Refuse
  PROVE  RInv'
BY DEF Refuse, Terminate, wire, reading, RInv, Wired, Closed

LEMMA OnReadableMeets ==
  ASSUME Modest(shape), DInv, RInv, OnReadable
  PROVE  RInv'
<1>1. /\ UNCHANGED <<shape, left, sent, taken, tokens, inject, held, flags,
                     given, complete>>
      /\ pc = "loop" /\ state = "READ" /\ ReadRequest(buffer)
  BY DEF OnReadable, request
<1>2. Receiving
  BY <1>1 DEF RInv, Accepting, Called, Notified, Complete, Closed
<1>3. PICK c \in 0 .. Total(shape) : Reading(c) /\ (Repeats => Knows(c))
  BY <1>2 DEF Receiving
<1>4. Between(c) /\ Waiting
  BY <1>1, <1>3 DEF Reading
<1>5. buffer.capacity # 0 /\ buffer.index >= buffer.length
  <2>1. buffer.length = taken /\ buffer.index = taken /\ taken \in Nat
        /\ buffer.capacity > 0
    BY <1>4, WireFacts DEF Between, Holds, Waiting, RInv
  <2> QED
    BY <2>1
<1>6. /\ UNCHANGED <<buffer, parser, machine>> /\ state' = "READ"
      /\ pc' = "read"
  BY <1>1, <1>5 DEF ReadRequest
<1>7. Between(c)'
  BY <1>1, <1>4, <1>6, BetweenSame
<1>8. Reading(c)'
  BY <1>4, <1>6, <1>7 DEF Reading, Waiting
<1>9. Repeats => Knows(c)'
  BY <1>1, <1>3, <1>6, KnowsSame
<1>10. Receiving'
  BY <1>1, <1>2, <1>6, <1>8, <1>9 DEF Receiving
<1>11. Wired'
  BY <1>1 DEF RInv, Wired
<1> QED
  BY <1>10, <1>11 DEF RInv


-----------------------------------------------------------------------------
(* Reading.                                                                *)

\* What a place depends on.
LEMMA StandsSame ==
  ASSUME NEW s, NEW cs, NEW p, NEW c, NEW h, NEW b, NEW k, NEW d,
         Stands(s, cs, p, h, b, c),
         k.token = h.token, k.limit_count = h.limit_count,
         k.limit_max = h.limit_max, k.content_length = h.content_length,
         k.flags \ {"TOKEN_READY"} = h.flags \ {"TOKEN_READY"},
         d.after_headers_index = b.after_headers_index
  PROVE  Stands(s, cs, p, k, d, c)
<1>1. \A type, at, n : Inside(h, type, at, n) => Inside(k, type, at, n)
  BY DEF Inside
<1>2. InLine(s, cs, p, h, c) => InLine(s, cs, p, k, c)
  BY <1>1, Zenon DEF InLine
<1>3. \A i \in 1 .. Count(s) :
        InHeader(s, i, cs, p, h, c) => InHeader(s, i, cs, p, k, c)
  BY <1>1, Zenon DEF InHeader
<1>4. InTail(s, cs, p, h, c) => InTail(s, cs, p, k, c)
  BY <1>1, Zenon DEF InTail
<1>5. \/ InLine(s, cs, p, k, c)
      \/ \E i \in 1 .. Count(s) : InHeader(s, i, cs, p, k, c)
      \/ InTail(s, cs, p, k, c)
  BY <1>2, <1>3, <1>4, Zenon DEF Stands
<1>6. /\ k.content_length = Announced(s, p)
      /\ k.flags \ {"TOKEN_READY"}
           = (IF c = 2 * Count(s) + 5 THEN {"DONE"} ELSE {})
      /\ p >= HeadLen(s) => d.after_headers_index = HeadLen(s)
  BY Zenon DEF Stands
<1> QED
  BY <1>5, <1>6, Zenon DEF Stands

\* A buffer as small as half of the largest doubles when it is full.
LEMMA GrowIs ==
  ASSUME NEW b \in ReadBuffers, 0 < b.capacity,
         b.length = b.capacity => 2 * b.capacity < MaxCap
  PROVE  LET c == Grow(b)
         IN  /\ c.seq = b.seq
             /\ c.capacity = IF b.length = b.capacity THEN 2 * b.capacity
                                                      ELSE b.capacity
             /\ \A k \in 1 .. b.capacity : c.mem[k] = b.mem[k]
<1>1. /\ MaxCap \in Nat /\ b.capacity \in Nat /\ b.capacity <= MaxCap
      /\ b.length \in Int /\ b.length <= b.capacity
      /\ b.after_headers_index \in Nat /\ b.after_headers_index <= b.capacity
  BY ParserAssumption DEF ReadBuffers
<1>2. CASE b.length = b.capacity
  <2> DEFINE cap == 2 * b.capacity
             c == Resize(b, cap)
  <2>1. /\ ~ (cap > MaxCap) /\ b.capacity # MaxCap /\ cap \in Nat
        /\ cap <= MaxCap /\ b.length <= cap /\ b.capacity <= cap
        /\ b.after_headers_index <= cap
    BY <1>1, <1>2
  <2>2. Grow(b) = c
    BY <1>2, <2>1 DEF Grow
  <2>3. c.capacity = cap /\ c.seq = b.seq
    BY <2>1, ResizeType
  <2>4. c.mem = [i \in 1 .. cap |-> At(b, i - 1)]
    BY DEF Resize, ReadBuffers
  <2>5. ASSUME NEW k \in 1 .. b.capacity
        PROVE  c.mem[k] = b.mem[k]
    <3>1. /\ k \in 1 .. cap /\ k - 1 \in 0 .. b.capacity - 1
          /\ (k - 1) + 1 = k
      BY <1>1, <2>1
    <3>2. At(b, k - 1) = b.mem[k]
      BY <3>1 DEF At
    <3> HIDE DEF c, cap
    <3> QED
      BY <2>4, <3>1, <3>2
  <2> HIDE DEF c
  <2> QED
    BY <1>2, <2>2, <2>3, <2>5
<1>3. CASE b.length # b.capacity
  <2>1. Grow(b) = b
    BY <1>3 DEF Grow
  <2> QED
    BY <1>3, <2>1
<1> QED
  BY <1>2, <1>3

LEMMA ReadDataMeets ==
  ASSUME Modest(shape), DInv, RInv, ReadData
  PROVE  RInv'
<1> DEFINE l == Len(Wire[shape])
           n == IF Room < sent - taken THEN Room ELSE sent - taken
           bytes == SubSeq(Stream, taken + 1, taken + n)
           a == Copy(buffer, buffer.length, bytes)
           c == [a EXCEPT !.length = a.length + n]
           b == Grow(c)
<1>1. pc = "read" /\ taken < sent
  BY DEF ReadData
<1>2. Wired /\ Receiving
  BY <1>1 DEF RInv, Accepting, Called, Notified, Complete, Closed
<1>3. PICK j \in 0 .. Total(shape) : Reading(j) /\ (Repeats => Knows(j))
  BY <1>2 DEF Receiving
<1>4. Between(j) /\ parser.seq = buffer.seq
  BY <1>1, <1>3 DEF Reading
<1>5. /\ shape \in Shapes /\ taken \in Nat /\ sent \in Nat
      /\ Stream = Wire[shape] /\ l \in Nat /\ sent <= l
  BY <1>2, WireFacts
<1>6. MaxCap \in Nat /\ 2 * l < MaxCap
  BY <1>5, ModestIs
<1>7. /\ buffer \in ReadBuffers /\ buffer.capacity \in Nat
      /\ DOMAIN buffer.mem = 1 .. buffer.capacity /\ buffer.index \in Nat
  BY DEF DInv, BufferInv, Rest, ReadBuffers
<1>8. /\ buffer.length = taken /\ taken < buffer.capacity
      /\ buffer.capacity < MaxCap /\ buffer.index <= taken
      /\ \A k \in 1 .. taken : buffer.mem[k] = Wire[shape][k]
  BY <1>4 DEF Between, Holds
<1>9. /\ n \in Nat /\ 0 < n /\ taken + n <= sent
      /\ taken + n <= buffer.capacity
  BY <1>1, <1>5, <1>7, <1>8 DEF Room
<1>10. /\ taken' = taken + n
       /\ \/ buffer' = b /\ UNCHANGED pc
          \/ ~ ReadsOn(n, b)
       /\ UNCHANGED <<shape, left, sent, edge, state, parser, tokens, machine,
                      inject, held, flags, given, complete>>
  <2>1. /\ taken' = taken + n
        /\ IF ReadsOn(n, b) THEN buffer' = b /\ UNCHANGED pc
           ELSE buffer' = [b EXCEPT !.seq = (@ + 1) % SeqIds] /\ pc' = "exec"
        /\ UNCHANGED <<shape, left, sent, edge, state, parser, tokens, machine,
                       inject, held, flags, request, answered, chunks>>
    BY DEF ReadData
  <2> HIDE DEF b
  <2> QED
    BY <2>1 DEF request
<1> HIDE DEF n
<1>11. Wire[shape] \in Seq(Byte) /\ Wire[shape] \in Seq(Sent)
  BY <1>5, WireAssumption, WireSent
<1>12. /\ Len(bytes) = n /\ DOMAIN bytes = 1 .. n
       /\ \A i \in 1 .. n : bytes[i] = Wire[shape][taken + i]
       /\ \A i \in DOMAIN bytes : bytes[i] \in Sent
  <2> DEFINE W == Wire[shape]
  <2>1. /\ taken + 1 \in Int /\ taken + n \in Int /\ 1 <= taken + 1
        /\ taken + n <= Len(W) /\ taken <= taken + n
        /\ (taken + n) - (taken + 1) + 1 = n
    BY <1>5, <1>9
  <2>2. bytes = SubSeq(W, taken + 1, taken + n)
    BY <1>5
  <2>3. /\ bytes = [i \in 1 .. n |-> W[taken + i]]
    <3>1. \A i \in 1 .. n : i + (taken + 1) - 1 = taken + i
      BY <1>5
    <3> HIDE DEF W, bytes
    <3> QED
      BY <1>5, <1>9, <2>1, <2>2, <3>1
  <2>4. \A i \in 1 .. n : taken + i \in 1 .. Len(W)
    BY <1>5, <1>9
  <2>5. \A k \in 1 .. Len(W) : W[k] \in Sent
    BY <1>11, LenProperties
  <2> HIDE DEF W, bytes
  <2>6. DOMAIN bytes = 1 .. n /\ \A i \in 1 .. n : bytes[i] = W[taken + i]
    BY <2>3
  <2>7. Len(bytes) = n
    BY <1>9, <2>3
  <2> QED
    BY <2>4, <2>5, <2>6, <2>7 DEF W
<1> HIDE DEF bytes
<1>13. /\ a.length = taken /\ DOMAIN a.mem = DOMAIN buffer.mem
       /\ a.mem = [i \in DOMAIN buffer.mem |->
                     IF i - buffer.length \in DOMAIN bytes
                     THEN bytes[i - buffer.length] ELSE buffer.mem[i]]
  BY <1>7, <1>8 DEF Copy, ReadBuffers
<1>14. \A k \in 1 .. taken + n : a.mem[k] = Wire[shape][k]
  <2> TAKE k \in 1 .. taken + n
  <2>1. k \in DOMAIN buffer.mem
    BY <1>5, <1>7, <1>9
  <2>2. a.mem[k] = IF k - taken \in 1 .. n THEN bytes[k - taken]
                                          ELSE buffer.mem[k]
    <3> HIDE DEF a
    <3> QED
      BY <1>8, <1>12, <1>13, <2>1
  <2>3. CASE k <= taken
    <3>1. k \in 1 .. taken /\ ~ (k - taken \in 1 .. n)
      BY <1>5, <1>9, <2>3
    <3> QED
      BY <1>8, <2>2, <3>1
  <2>4. CASE k > taken
    <3>1. k - taken \in 1 .. n /\ taken + (k - taken) = k
      BY <1>5, <1>9, <2>4
    <3> QED
      BY <1>12, <2>2, <3>1
  <2> QED
    BY <1>5, <2>3, <2>4
<1>15. /\ c \in ReadBuffers /\ c.length = taken + n
       /\ c.capacity = buffer.capacity /\ c.index = buffer.index
       /\ c.after_headers_index = buffer.after_headers_index
       /\ c.seq = buffer.seq
  <2>1. a.length + n \in Int /\ a.length + n <= buffer.capacity
        /\ a.length + n = taken + n
    BY <1>5, <1>9, <1>13
  <2> QED
    BY <1>5, <1>7, <1>8, <1>12, <2>1, CopyType
<1>16. c.mem = a.mem
  OBVIOUS
<1> HIDE DEF a, c
<1>17. /\ 0 < c.capacity
       /\ c.length = c.capacity => 2 * c.capacity < MaxCap
  BY <1>5, <1>6, <1>7, <1>8, <1>9, <1>15
<1>18. /\ b \in ReadBuffers /\ b.length = taken + n /\ b.index = buffer.index
       /\ b.after_headers_index = buffer.after_headers_index
       /\ b.seq = buffer.seq
       /\ b.capacity = IF taken + n = buffer.capacity
                       THEN 2 * buffer.capacity ELSE buffer.capacity
       /\ \A k \in 1 .. buffer.capacity : b.mem[k] = c.mem[k]
  BY <1>15, <1>17, GrowType, GrowIs
<1> HIDE DEF b
<1>19. taken + n < b.capacity /\ b.capacity < MaxCap /\ 0 < b.capacity
  <2> DEFINE x == taken + n
             y == buffer.capacity
             z == b.capacity
  <2>1. x \in Nat /\ 0 < x /\ x <= y /\ x <= l /\ y < MaxCap /\ y \in Nat
    BY <1>5, <1>7, <1>8, <1>9
  <2>2. z = IF x = y THEN 2 * y ELSE y
    BY <1>18
  <2> HIDE DEF l, x, y, z
  <2>3. x < z /\ z < MaxCap /\ 0 < z
    BY <1>5, <1>6, <2>1, <2>2 DEF l
  <2> QED
    BY <2>3 DEF x, z
<1>20. buffer' = b /\ UNCHANGED pc
  BY <1>9, <1>10, <1>19 DEF ReadsOn
<1>21. Holds(buffer)'
  <2>1. \A k \in 1 .. taken + n : b.mem[k] = Wire[shape][k]
    <3>1. \A k \in 1 .. taken + n : k \in 1 .. buffer.capacity
      BY <1>5, <1>7, <1>9
    <3> QED
      BY <1>14, <1>16, <1>18, <3>1
  <2> QED
    BY <1>10, <1>18, <1>19, <1>20, <2>1 DEF Holds
<1>22. Between(j)'
  <2>1. Stands(shape, parser.state, buffer.index, parser, b, j)
    BY <1>4, <1>18, StandsSame DEF Between
  <2>2. buffer.index <= taken + n
    BY <1>5, <1>7, <1>8, <1>9
  <2> QED
    BY <1>4, <1>10, <1>18, <1>20, <1>21, <2>1, <2>2 DEF Between
<1>23. Reading(j)'
  BY <1>1, <1>4, <1>10, <1>18, <1>20, <1>22 DEF Reading
<1>24. Repeats => Knows(j)'
  BY <1>1, <1>3, <1>10, <1>20, KnowsSame
<1>25. Receiving'
  BY <1>2, <1>3, <1>10, <1>20, <1>23, <1>24 DEF Receiving
<1>26. Wired'
  BY <1>2, <1>10 DEF Wired
<1> QED
  BY <1>25, <1>26 DEF RInv

LEMMA ReadNothingMeets ==
  ASSUME Modest(shape), DInv, RInv, ReadNothing
  PROVE  RInv'
<1> DEFINE d == [buffer EXCEPT !.seq = (buffer.seq + 1) % SeqIds]
<1>1. pc = "read" /\ (Room = 0 \/ taken = sent)
  BY DEF ReadNothing
<1>2. Wired /\ Receiving
  BY <1>1 DEF RInv, Accepting, Called, Notified, Complete, Closed
<1>3. PICK j \in 0 .. Total(shape) : Reading(j) /\ (Repeats => Knows(j))
  BY <1>2 DEF Receiving
<1>4. Between(j) /\ parser.seq = buffer.seq
  BY <1>1, <1>3 DEF Reading
<1>5. buffer \in ReadBuffers /\ buffer.capacity \in Nat /\ taken \in Nat
  BY <1>2, WireFacts DEF DInv, BufferInv, Rest, ReadBuffers
<1>6. Room # 0
  <2>1. buffer.length = taken /\ taken < buffer.capacity
    BY <1>4 DEF Between, Holds
  <2> QED
    BY <1>5, <2>1 DEF Room
<1>7. /\ taken = sent /\ buffer' = d /\ pc' = "exec"
      /\ UNCHANGED <<shape, left, sent, taken, edge, state, parser, tokens,
                     machine, inject, held, flags, given, complete>>
  BY <1>1, <1>6 DEF ReadNothing, wire, request
<1>8. /\ d.seq = Next_(buffer.seq) /\ d.capacity = buffer.capacity
      /\ d.length = buffer.length /\ d.index = buffer.index
      /\ d.after_headers_index = buffer.after_headers_index
      /\ d.mem = buffer.mem
  BY <1>5 DEF ReadBuffers, Next_
<1> HIDE DEF d
<1>9. Holds(buffer)'
  BY <1>4, <1>7, <1>8 DEF Between, Holds
<1>10. Between(j)'
  <2>1. Stands(shape, parser.state, buffer.index, parser, d, j)
    BY <1>4, <1>8, StandsSame DEF Between
  <2> QED
    BY <1>4, <1>7, <1>8, <1>9, <2>1 DEF Between
<1>11. Reading(j)'
  BY <1>4, <1>7, <1>8, <1>10 DEF Reading
<1>12. Repeats => Knows(j)'
  BY <1>1, <1>3, <1>7, KnowsSame
<1>13. Receiving'
  BY <1>2, <1>3, <1>7, <1>11, <1>12 DEF Receiving
<1>14. Wired'
  BY <1>2, <1>7 DEF Wired
<1> QED
  BY <1>13, <1>14 DEF RInv


-----------------------------------------------------------------------------
(* Parsing.                                                                *)

LEMMA ParserEnterMeets ==
  ASSUME Modest(shape), DInv, RInv, ParserEnter
  PROVE  RInv'
<1> DEFINE m == Enter(buffer, parser)
<1>1. /\ pc = "exec"
      /\ UNCHANGED <<shape, left, sent, taken, edge, buffer, parser, tokens,
                     state, inject, held, flags, given, complete>>
      /\ ~ NothingNew(buffer, parser) => machine' = m /\ pc' = "scan"
  BY DEF ParserEnter, wire, request
<1>2. Wired /\ Receiving
  BY <1>1 DEF RInv, Accepting, Called, Notified, Complete, Closed
<1>3. PICK c \in 0 .. Total(shape) : Reading(c) /\ (Repeats => Knows(c))
  BY <1>2 DEF Receiving
<1>4. Between(c) /\ buffer.seq = Next_(parser.seq) /\ taken = sent
  BY <1>1, <1>3 DEF Reading
<1>5. parser.seq \in Int
  BY DEF DInv, BufferInv, Rest, Parsers
<1>6. ~ NothingNew(buffer, parser)
  <2>1. parser.flags = {}
    BY <1>4 DEF Between
  <2>2. Next_(parser.seq) # parser.seq
    BY <1>5, NextDiffers
  <2> QED
    BY <1>4, <2>1, <2>2 DEF NothingNew
<1>7. /\ m.cs = parser.state /\ m.p = buffer.index /\ m.pe = buffer.length
      /\ m.b = buffer /\ m.h = parser
      /\ m.out <=> buffer.index = buffer.length \/ parser.state = "error"
  BY DEF Enter
<1> HIDE DEF m
<1>8. shape \in Shapes /\ Allowed(shape)
  BY <1>2, WireFacts, ModestIs
<1>9. /\ Holds(buffer) /\ buffer.index <= taken /\ buffer.length = taken
      /\ buffer.index < Len(Wire[shape])
      /\ Stands(shape, parser.state, buffer.index, parser, buffer, c)
      /\ parser.flags = {}
  BY <1>4 DEF Between, Holds
<1>10. parser.state # "error"
  BY <1>8, <1>9, Where
<1>11. Holds(machine.b)'
  BY <1>1, <1>6, <1>7, <1>9 DEF Holds
<1>12. Scanning(c)'
  <2>1. "TOKEN_READY" \notin m.h.flags
    BY <1>7, <1>9
  <2> QED
    BY <1>1, <1>4, <1>6, <1>7, <1>9, <1>10, <1>11, <2>1 DEF Scanning
<1>13. Reading(c)'
  BY <1>1, <1>4, <1>6, <1>12 DEF Reading
<1>14. Repeats => Knows(c)'
  <2>1. "TOKEN_READY" \notin machine'.h.flags
    BY <1>1, <1>6, <1>7, <1>9
  <2> QED
    BY <1>1, <1>3, <2>1 DEF Knows
<1>15. Receiving'
  BY <1>1, <1>2, <1>3, <1>6, <1>13, <1>14 DEF Receiving
<1>16. Wired'
  BY <1>1, <1>2 DEF Wired
<1> QED
  BY <1>15, <1>16 DEF RInv

LEMMA ParserStepMeets ==
  ASSUME Modest(shape), DInv, RInv, ParserStep
  PROVE  RInv'
<1> DEFINE m == machine
           n == Step(machine)
           W == Wire[shape]
<1>1. /\ pc = "scan" /\ ~ m.out /\ machine' = n
      /\ UNCHANGED <<shape, left, sent, taken, edge, buffer, parser, tokens,
                     state, pc, inject, held, flags, given, complete>>
  BY DEF ParserStep, wire, request
<1>2. Wired /\ Receiving
  BY <1>1 DEF RInv, Accepting, Called, Notified, Complete, Closed
<1>3. PICK c \in 0 .. Total(shape) : Reading(c) /\ (Repeats => Knows(c))
  BY <1>2 DEF Receiving
<1>4. Scanning(c) /\ taken = sent
  BY <1>1, <1>3 DEF Reading
<1>5. shape \in Shapes /\ taken \in Nat /\ Len(W) \in Nat /\ sent <= Len(W)
  BY <1>2, WireFacts
<1>6. /\ Allowed(shape) /\ MaxCap \in Nat /\ 2 * Len(W) < MaxCap
      /\ HeadLen(shape) + Size(shape) = Len(W)
      /\ HeadLen(shape) \in Nat /\ Size(shape) \in 0 .. 99
  BY <1>5, ModestIs
<1>7. m \in Machines /\ m.p \in Int /\ m.pe \in Int /\ m.b \in ReadBuffers
  BY <1>1 DEF DInv, MachineInv, Placed, Near, Machines
<1>8. /\ "TOKEN_READY" \notin m.h.flags /\ (m.out <=> m.p = taken)
      /\ m.p < Len(W)
  BY <1>1, <1>4 DEF Scanning
<1>9. /\ Holds(m.b) /\ m.pe = taken /\ m.p <= taken
      /\ Stands(shape, m.cs, m.p, m.h, m.b, c)
      /\ m.b.seq = Next_(m.h.seq)
  BY <1>4 DEF Scanning
<1>10. /\ m.p \in Nat /\ c \in Nat /\ c # 2 * Count(shape) + 5
       /\ c < Total(shape) /\ Total(shape) \in Nat
  <2>1. /\ m.p \in Nat /\ c \in Nat /\ c <= Total(shape)
        /\ Total(shape) \in Nat
        /\ c = Total(shape) <=> m.p = Len(W)
        /\ c # Total(shape) => c # 2 * Count(shape) + 5
    BY <1>6, <1>9, Where
  <2>2. c # Total(shape)
    BY <1>5, <1>8, <2>1
  <2> QED
    BY <2>1, <2>2
<1>11. m.h.flags = {}
  <2>1. m.h.flags \ {"TOKEN_READY"} = {}
    BY <1>9, <1>10 DEF Stands
  <2> QED
    BY <1>8, <2>1
<1>12. /\ m.b.capacity > 0 /\ m.b.capacity < MaxCap /\ m.b.length = taken
       /\ taken < m.b.capacity /\ m.b.capacity \in Nat
       /\ \A k \in 1 .. taken : m.b.mem[k] = W[k]
  BY <1>7, <1>9 DEF Holds, ReadBuffers
<1>13. Place(shape, m, c)
  <2>1. m.p < taken
    BY <1>1, <1>5, <1>7, <1>8, <1>9
  <2>2. taken <= m.b.capacity /\ taken <= Len(W)
    BY <1>4, <1>5, <1>12
  <2>3. Size(shape) > 0 => taken # Len(W) - 1
    BY <1>2, <1>4 DEF Wired
  <2> QED
    BY <1>1, <1>6, <1>7, <1>9, <1>10, <1>11, <1>12, <2>1, <2>2, <2>3
       DEF Place
<1>14. Took(shape, m, n, c)
  BY <1>13, PlaceStep
<1> HIDE DEF n
<1>15. /\ n.pe = taken /\ n.h.seq = m.h.seq /\ n.p <= taken
       /\ n.b = m.b \/ Grown(m.b, n.b, HeadLen(shape), Size(shape))
       /\ \/ /\ "TOKEN_READY" \in n.h.flags /\ n.out
             /\ Stands(shape, n.cs, n.p, n.h, n.b, c + 1)
             /\ IsToken(shape, c + 1, n.h.token)
          \/ /\ "TOKEN_READY" \notin n.h.flags /\ (n.out <=> n.p = taken)
             /\ Stands(shape, n.cs, n.p, n.h, n.b, c) /\ n.p < Len(W)
  BY <1>9, <1>14, Zenon DEF Took
<1>16. /\ n.b.capacity > 0 /\ n.b.capacity < MaxCap /\ n.b.length = taken
       /\ taken < n.b.capacity /\ n.b.seq = m.b.seq
       /\ \A k \in 1 .. taken : n.b.mem[k] = W[k]
  <2>1. CASE n.b = m.b
    BY <1>12, <2>1
  <2>2. CASE Grown(m.b, n.b, HeadLen(shape), Size(shape))
    <3>1. /\ n.b.length = m.b.length /\ n.b.seq = m.b.seq
          /\ \/ n.b.capacity = m.b.capacity
             \/ n.b.capacity = Size(shape) + HeadLen(shape)
          /\ m.b.capacity <= n.b.capacity
          /\ \A k \in 1 .. m.b.capacity : n.b.mem[k] = m.b.mem[k]
      BY <2>2 DEF Grown
    <3>2. \A k \in 1 .. taken : k \in 1 .. m.b.capacity
      BY <1>5, <1>12
    <3>3. \A k \in 1 .. taken : n.b.mem[k] = W[k]
      BY <1>12, <3>1, <3>2
    <3>4. /\ Size(shape) + HeadLen(shape) < MaxCap
          /\ Size(shape) + HeadLen(shape) \in Nat
      <4> DEFINE x == HeadLen(shape)
                 y == Size(shape)
                 l == Len(W)
      <4>1. x \in Nat /\ y \in 0 .. 99 /\ x + y = l /\ 2 * l < MaxCap
        BY <1>6
      <4> HIDE DEF x, y, l
      <4>2. y + x < MaxCap /\ y + x \in Nat
        BY <1>6, <4>1
      <4> QED
        BY <4>2 DEF x, y
    <3>5. /\ n.b.capacity < MaxCap /\ 0 < n.b.capacity
          /\ taken < n.b.capacity /\ n.b.capacity \in Nat
      <4>1. n.b.capacity \in Nat
        BY <1>12, <3>1, <3>4
      <4> QED
        BY <1>5, <1>12, <3>1, <3>4, <4>1
    <3> QED
      BY <1>12, <3>1, <3>3, <3>5
  <2> QED
    BY <1>15, <2>1, <2>2
<1>17. Holds(machine.b)'
  BY <1>1, <1>16 DEF Holds
<1>18. CASE "TOKEN_READY" \in n.h.flags
  <2>1. Scanning(c + 1)'
    BY <1>1, <1>9, <1>15, <1>16, <1>17, <1>18 DEF Scanning
  <2>2. Reading(c + 1)'
    BY <1>1, <1>4, <2>1 DEF Reading
  <2>3. Repeats => Knows(c + 1)'
    <3>1. (c + 1) - 1 = c
      BY <1>10
    <3>2. "TOKEN_READY" \in machine'.h.flags
      BY <1>1, <1>18
    <3>3. Repeats => Listed(shape, tokens, c)
      BY <1>3, <1>8 DEF Knows
    <3> QED
      BY <1>1, <3>1, <3>2, <3>3 DEF Knows
  <2>4. c + 1 \in 0 .. Total(shape)
    BY <1>10
  <2> QED
    BY <1>1, <1>2, <2>2, <2>3, <2>4 DEF RInv, Receiving, Wired
<1>19. CASE "TOKEN_READY" \notin n.h.flags
  <2>1. Scanning(c)'
    BY <1>1, <1>9, <1>15, <1>16, <1>17, <1>19 DEF Scanning
  <2>2. Reading(c)'
    BY <1>1, <1>4, <2>1 DEF Reading
  <2>3. Repeats => Knows(c)'
    <3>1. "TOKEN_READY" \notin machine'.h.flags
      BY <1>1, <1>19
    <3>2. Repeats => Listed(shape, tokens, c)
      BY <1>3, <1>8 DEF Knows
    <3> QED
      BY <1>1, <3>1, <3>2 DEF Knows
  <2> QED
    BY <1>1, <1>2, <1>3, <2>2, <2>3 DEF RInv, Receiving, Wired
<1> QED
  BY <1>18, <1>19


-----------------------------------------------------------------------------
(* Tokens and what the accessors make of them.                             *)

\* Which tokens complete the request.
LEMMA TokenKinds ==
  ASSUME NEW s, Allowed(s), NEW k \in Nat, NEW t, IsToken(s, k, t)
  PROVE  /\ k \in 1 .. Total(s) /\ t.type # "NONE"
         /\ \/ /\ k < Total(s) /\ t.type # "BODY"
               /\ t.type = "HEADERS_DONE" => t.flags = {}
            \/ /\ k = Total(s) /\ Size(s) = 0
               /\ t = Tok("HEADERS_DONE", 0, 0, {"NO_BODY"})
            \/ /\ k = Total(s) /\ Size(s) > 0
               /\ t = Tok("BODY", HeadLen(s), Size(s), {"SMALL_BODY"})
<1> DEFINE n == Count(s)
           size == Size(s)
           d == Total(s)
<1>1. n \in Nat \ {0} /\ size \in 0 .. 99
  BY TailFacts
<1>2. d = IF size > 0 THEN 2 * n + 5 ELSE 2 * n + 4
  BY DEF Total
<1> HIDE DEF n, size, d
<1>3. \A type, index, len, marks :
        /\ Tok(type, index, len, marks).type = type
        /\ Tok(type, index, len, marks).flags = marks
  BY DEF Tok
<1>4. CASE k \in {1, 2, 3} /\ t.type \in {"METHOD", "TARGET", "VERSION"}
  <2>1. k \in 1 .. d /\ k < d
    BY <1>1, <1>2, <1>4
  <2> QED
    BY <1>4, <2>1 DEF d
<1>5. ASSUME NEW i \in 1 .. n, k = 2 * i + 2 \/ k = 2 * i + 3,
             t.type \in {"HEADER_KEY", "HEADER_VALUE"}
      PROVE  k \in 1 .. d /\ k < d /\ t.type \notin {"NONE", "BODY", "HEADERS_DONE"}
  BY <1>1, <1>2, <1>5
<1>6. CASE k = 2 * n + 4
  <2>1. k \in 1 .. d /\ (size > 0 => k < d) /\ (size = 0 => k = d)
    BY <1>1, <1>2, <1>6
  <2>2. CASE t = Tok("HEADERS_DONE", 0, 0,
                     IF size > 0 THEN {} ELSE {"NO_BODY"})
    <3>1. CASE size > 0
      BY <1>3, <2>1, <2>2, <3>1 DEF d
    <3>2. CASE size = 0
      <4>1. ~ (size > 0)
        BY <3>2
      <4>2. t = Tok("HEADERS_DONE", 0, 0, {"NO_BODY"})
        BY <2>2, <4>1
      <4> QED
        BY <1>3, <2>1, <3>2, <4>2 DEF d, size
    <3> QED
      BY <1>1, <3>1, <3>2
  <2>3. CASE t # Tok("HEADERS_DONE", 0, 0,
                     IF size > 0 THEN {} ELSE {"NO_BODY"})
    <3>1. \/ k \in {1, 2, 3}
          \/ \E i \in 1 .. n : k = 2 * i + 2 \/ k = 2 * i + 3
          \/ k = 2 * n + 5
      BY <2>3 DEF IsToken, n, size
    <3> QED
      BY <1>1, <1>6, <3>1
  <2> QED
    BY <2>2, <2>3
<1>7. CASE size > 0 /\ k = 2 * n + 5
           /\ t = Tok("BODY", HeadLen(s), size, {"SMALL_BODY"})
  <2>1. k \in 1 .. d /\ k = d
    BY <1>1, <1>2, <1>7
  <2> QED
    BY <1>3, <1>7, <2>1 DEF d, size
<1>8. \/ k \in {1, 2, 3} /\ t.type \in {"METHOD", "TARGET", "VERSION"}
      \/ \E i \in 1 .. n : /\ k = 2 * i + 2 \/ k = 2 * i + 3
                           /\ t.type \in {"HEADER_KEY", "HEADER_VALUE"}
      \/ k = 2 * n + 4
      \/ size > 0 /\ k = 2 * n + 5
           /\ t = Tok("BODY", HeadLen(s), size, {"SMALL_BODY"})
  BY <1>3 DEF IsToken, n, size
<1> QED
  BY <1>4, <1>5, <1>6, <1>7, <1>8 DEF d

\* The next token of the request is stored.
LEMMA ListedOn ==
  ASSUME NEW s, NEW d \in Nat, d = Total(s), NEW c \in 1 .. d,
         NEW all \in Seq(Token),
         NEW t \in Token, Listed(s, all, c - 1), IsToken(s, c, t)
  PROVE  Append(all, t) \in Seq(Token) /\ Listed(s, Append(all, t), c)
<1> DEFINE more == Append(all, t)
<1>1. /\ more \in Seq(Token) /\ Len(all) \in Nat /\ Len(more) = Len(all) + 1
      /\ \A k \in 1 .. Len(all) : more[k] = all[k]
      /\ more[Len(all) + 1] = t
  BY AppendProperties, LenProperties
<1>2. /\ Len(all) = c - 1 \/ Len(all) >= d
      /\ \A k \in 1 .. d : k <= Len(all) => IsToken(s, k, all[k])
  BY Zenon DEF Listed
<1> HIDE DEF more
<1>3. Len(more) = c \/ Len(more) >= d
  BY <1>1, <1>2
<1>4. ASSUME NEW k \in 1 .. d, k <= Len(more)
      PROVE  IsToken(s, k, more[k])
  <2>1. CASE k <= Len(all)
    <3>1. k \in 1 .. Len(all)
      BY <1>1, <2>1
    <3> QED
      BY <1>1, <1>2, <2>1, <3>1
  <2>2. CASE k > Len(all)
    <3>1. k = Len(all) + 1 /\ k = c
      BY <1>1, <1>2, <1>4, <2>2
    <3> QED
      BY <1>1, <3>1
  <2> QED
    BY <1>1, <2>1, <2>2
<1>5. \A k \in DOMAIN all : \E j \in 1 .. d : IsToken(s, j, all[k])
  BY Zenon DEF Listed
<1>6. ASSUME NEW k \in DOMAIN more
      PROVE  \E j \in 1 .. d : IsToken(s, j, more[k])
  <2>1. k \in 1 .. Len(all) + 1 /\ DOMAIN all = 1 .. Len(all)
    BY <1>1
  <2>2. CASE k \in 1 .. Len(all)
    BY <1>1, <1>5, <2>1, <2>2
  <2>3. CASE k = Len(all) + 1
    BY <1>1, <2>3
  <2> QED
    BY <1>1, <2>1, <2>2, <2>3
<1> QED
  BY <1>1, <1>3, <1>4, <1>6 DEF Listed, more

\* The first token of a type is found, ...
LEMMA FirstOf ==
  ASSUME NEW all \in Seq(Token), NEW type, NEW k \in 1 .. Len(all),
         all[k].type = type, \A j \in 1 .. k - 1 : all[j].type # type
  PROVE  SelectInSeq(all, LAMBDA t : t.type = type) = k
<1> DEFINE I == {i \in 1 .. Len(all) : all[i].type = type}
<1>1. k \in I /\ \A j \in I : k <= j
  <2>1. \A j \in 1 .. Len(all) : j < k => j \in 1 .. k - 1
    OBVIOUS
  <2> QED
    BY <2>1
<1>2. I \subseteq Int
  OBVIOUS
<1> HIDE DEF I
<1>3. Min(I) = k
  <2>1. \A x \in I : (\A y \in I : x <= y) => x = k
    BY <1>1, <1>2
  <2> QED
    BY <1>1, <2>1 DEF Min
<1>4. I # {}
  BY <1>1
<1> QED
  BY <1>3, <1>4 DEF SelectInSeq, I

\* ... and is what was sent.
LEMMA StringIs ==
  ASSUME NEW b, b.capacity \in Nat, NEW t, t.index \in Nat, t.len \in Nat,
         t.index + t.len <= b.capacity, NEW v \in Seq(Byte), Len(v) = t.len,
         \A i \in 1 .. Len(v) : v[i] = b.mem[t.index + i]
  PROVE  String(b, t) = v
<1>1. ASSUME NEW i \in 1 .. t.len
      PROVE  At(b, t.index + i - 1) = v[i]
  <2>1. /\ t.index + i - 1 \in 0 .. b.capacity - 1
        /\ (t.index + i - 1) + 1 = t.index + i
    OBVIOUS
  <2>2. At(b, t.index + i - 1) = b.mem[t.index + i]
    BY <2>1 DEF At
  <2> QED
    BY <2>1, <2>2
<1>2. v = [i \in 1 .. t.len |-> v[i]]
  OBVIOUS
<1> QED
  BY <1>1, <1>2 DEF String

\* The body is what was sent.
LEMMA BodyGiven ==
  ASSUME NEW s \in Shapes, Allowed(s), Size(s) > 0, NEW b,
         b.capacity \in Nat, Len(Wire[s]) <= b.capacity,
         \A k \in 1 .. Len(Wire[s]) : b.mem[k] = Wire[s][k],
         NEW all \in Seq(Token), Listed(s, all, Total(s))
  PROVE  hs_get_token_string(b, all, "BODY") = Flat(s.chunks)
<1> DEFINE d == Total(s)
           size == Size(s)
           z == HeadLen(s)
           l == Len(Wire[s])
           body_ == Flat(s.chunks)
           W == Wire[s]
<1>1. /\ Count(s) \in Nat \ {0} /\ size \in 0 .. 99 /\ z \in Nat
      /\ l = z + size /\ d = 2 * Count(s) + 5
  <2>1. /\ Count(s) \in Nat \ {0} /\ size \in 0 .. 99
        /\ BlankAt(s) \in Nat /\ z = BlankAt(s) + 2
        /\ l = (BlankAt(s) + 2) + size
    BY TailFacts
  <2>2. z \in Nat
    BY <2>1
  <2>3. d = 2 * Count(s) + 5
    BY DEF Total
  <2> HIDE DEF z, l, size, d
  <2> QED
    BY <2>1, <2>2, <2>3
<1>2. d \in Nat /\ Len(all) \in Nat /\ Len(all) >= d
  <2>1. d \in Nat
    BY <1>1
  <2> HIDE DEF d
  <2>2. Len(all) = d \/ Len(all) >= d
    BY DEF Listed, d
  <2> QED
    BY <2>1, <2>2
<1>3. \A k \in 1 .. d : IsToken(s, k, all[k])
  <2>1. \A k \in 1 .. d : k <= Len(all) => IsToken(s, k, all[k])
    BY Zenon DEF Listed
  <2> HIDE DEF d
  <2>2. \A k \in 1 .. d : k <= Len(all)
    BY <1>2
  <2> QED
    BY <2>1, <2>2
<1>4. \A k \in 1 .. d - 1 : all[k].type # "BODY"
  <2> TAKE k \in 1 .. d - 1
  <2>1. k \in Nat /\ k \in 1 .. d /\ k # d
    BY <1>2
  <2>2. IsToken(s, k, all[k])
    BY <1>3, <2>1
  <2> QED
    BY <2>1, <2>2, TokenKinds
<1>5. all[d] = Tok("BODY", z, size, {"SMALL_BODY"})
  <2>1. d \in 1 .. d
    BY <1>1
  <2>2. IsToken(s, d, all[d])
    BY <1>3, <2>1
  <2>3. ~ (Size(s) = 0) /\ ~ (d < Total(s))
    BY <1>2
  <2> QED
    BY <1>2, <2>2, <2>3, TokenKinds
<1>6. all[d].type = "BODY" /\ all[d].index = z /\ all[d].len = size
  BY <1>5 DEF Tok
<1>7. SelectInSeq(all, LAMBDA t : t.type = "BODY") = d
  <2>1. d \in 1 .. Len(all)
    <3>1. 1 <= d
      BY <1>1
    <3> HIDE DEF d
    <3> QED
      BY <1>2, <3>1
  <2> HIDE DEF d
  <2> QED
    BY <1>4, <1>6, <2>1, FirstOf
<1>8. d # 0
  BY <1>1
<1>9. hs_get_token_string(b, all, "BODY") = String(b, all[d])
  <2> HIDE DEF d
  <2> QED
    BY <1>7, <1>8 DEF hs_get_token_string
<1>10. WellFormed(s) /\ LimitsAllow
  BY DEF Allowed
<1>11. body_ \in Seq(Byte)
  BY <1>10, HeadersAre
<1>12. \A i \in 1 .. size : W[z + i] = body_[i]
  BY <1>10, Layout
<1>13. Len(body_) = size
  BY DEF Size
<1>14. String(b, all[d]) = body_
  <2> HIDE DEF d, size, z, l, body_, W
  <2>1. /\ all[d].index \in Nat /\ all[d].len \in Nat
        /\ all[d].index + all[d].len <= l /\ Len(body_) = all[d].len
        /\ \A i \in 1 .. Len(body_) : body_[i] = W[all[d].index + i]
        /\ l \in Nat
    BY <1>1, <1>6, <1>12, <1>13
  <2>2. l <= b.capacity /\ \A k \in 1 .. l : b.mem[k] = W[k]
    BY DEF l, W
  <2>3. PICK t : t = all[d]
    OBVIOUS
  <2>4. /\ t.index \in Nat /\ t.len \in Nat /\ t.index + t.len <= b.capacity
        /\ Len(body_) = t.len
    BY <2>1, <2>2, <2>3
  <2>5. ASSUME NEW i \in 1 .. Len(body_)
        PROVE  body_[i] = b.mem[t.index + i]
    <3>1. t.index + i \in 1 .. l
      BY <2>1, <2>3
    <3> QED
      BY <2>1, <2>2, <2>3, <3>1
  <2>6. String(b, t) = body_
    BY <1>11, <2>4, <2>5, StringIs
  <2> QED
    BY <2>3, <2>6
<1> QED
  BY <1>9, <1>14


\* The parser returns with a buffer and a parser at the machine's place.
LEMMA LeaveIs ==
  ASSUME NEW m \in Machines
  PROVE  LET e == Leave(m)
             found == "TOKEN_READY" \in m.h.flags
         IN  /\ e.b.capacity = m.b.capacity /\ e.b.length = m.b.length
             /\ e.b.index = m.p /\ e.b.mem = m.b.mem /\ e.b.seq = m.b.seq
             /\ e.b.after_headers_index = m.b.after_headers_index
             /\ e.h.state = m.cs /\ e.h.token = m.h.token
             /\ e.h.limit_count = m.h.limit_count
             /\ e.h.limit_max = m.h.limit_max
             /\ e.h.content_length = m.h.content_length
             /\ e.h.flags = m.h.flags \ {"TOKEN_READY"}
             /\ e.h.seq = IF found THEN m.h.seq ELSE m.b.seq
             /\ e.token = IF found THEN m.h.token ELSE NoToken
<1> DEFINE b == [m.b EXCEPT !.index = m.p]
           g == [m.h EXCEPT !.state = m.cs]
           h == [g EXCEPT !.flags = g.flags \ {"TOKEN_READY"}]
           k == [h EXCEPT !.seq = m.b.seq]
           found == "TOKEN_READY" \in m.h.flags
<1>1. m.b \in ReadBuffers /\ m.h \in Parsers
  BY DEF Machines
<1>2. /\ b.capacity = m.b.capacity /\ b.length = m.b.length
      /\ b.index = m.p /\ b.mem = m.b.mem /\ b.seq = m.b.seq
      /\ b.after_headers_index = m.b.after_headers_index
  BY <1>1 DEF ReadBuffers
<1>3. /\ g.state = m.cs /\ g.token = m.h.token
      /\ g.limit_count = m.h.limit_count /\ g.limit_max = m.h.limit_max
      /\ g.content_length = m.h.content_length /\ g.flags = m.h.flags
      /\ g.seq = m.h.seq
      /\ DOMAIN g = DOMAIN m.h
  BY <1>1 DEF Parsers
<1>4. DOMAIN m.h = {"state", "content_length", "content_remaining", "token",
                    "limit_count", "limit_max", "flags", "seq"}
  BY <1>1 DEF Parsers
<1>5. h = [m.h EXCEPT !.state = m.cs, !.flags = @ \ {"TOKEN_READY"}]
  BY <1>1 DEF Parsers
<1> HIDE DEF g
<1>6. /\ h.state = m.cs /\ h.token = m.h.token
      /\ h.limit_count = m.h.limit_count /\ h.limit_max = m.h.limit_max
      /\ h.content_length = m.h.content_length
      /\ h.flags = m.h.flags \ {"TOKEN_READY"}
      /\ h.seq = m.h.seq /\ DOMAIN h = DOMAIN m.h
  BY <1>3, <1>4
<1> HIDE DEF h
<1>7. /\ k.state = m.cs /\ k.token = m.h.token
      /\ k.limit_count = m.h.limit_count /\ k.limit_max = m.h.limit_max
      /\ k.content_length = m.h.content_length
      /\ k.flags = m.h.flags \ {"TOKEN_READY"}
      /\ k.seq = m.b.seq
  BY <1>4, <1>6
<1>8. /\ Leave(m).b = b /\ Leave(m).h = IF found THEN h ELSE k
      /\ Leave(m).token = IF found THEN h.token ELSE NoToken
  <2> HIDE DEF b
  <2> QED
    BY <1>5 DEF Leave, b
<1> HIDE DEF b, k
<1> QED
  BY <1>2, <1>6, <1>7, <1>8

\* What the application has been called for.
LEMMA Completes ==
  ASSUME Modest(shape), DInv, Receiving, Wired, pc = "scan",
         NEW c, Scanning(c), taken = sent, c = Total(shape)
  PROVE  taken = Len(Wire[shape]) /\ machine.p = taken
<1>1. /\ shape \in Shapes /\ taken \in Nat /\ Len(Wire[shape]) \in Nat
      /\ sent <= Len(Wire[shape])
  BY WireFacts
<1>2. Allowed(shape)
  BY <1>1, ModestIs
<1>3. /\ machine.p <= taken
      /\ Stands(shape, machine.cs, machine.p, machine.h, machine.b, c)
  BY DEF Scanning
<1>4. machine.p = Len(Wire[shape])
  BY <1>2, <1>3, Where
<1> QED
  BY <1>1, <1>3, <1>4

LEMMA ParserLeaveMeets ==
  ASSUME Modest(shape), DInv, RInv, ParserLeave
  PROVE  RInv'
<1> DEFINE m == machine
           e == Leave(m)
           b == e.b
           h == e.h
           token == e.token
           all == Append(tokens, token)
           found == "TOKEN_READY" \in m.h.flags
           W == Wire[shape]
           d == Total(shape)
<1>1. /\ pc = "scan" /\ m.out /\ buffer' = b /\ parser' = h
      /\ tokens' = IF token.type = "NONE" THEN tokens ELSE all
      /\ CASE token.type = "NONE" ->
                Return(inject)
                /\ UNCHANGED <<state, held, inject, flags, request>>
           [] token.type = "HEADERS_DONE" /\ token.flags # {} ->
                /\ Callback(IF "NO_BODY" \in token.flags
                            THEN "request" ELSE "headers")
                /\ flags' = flags \cup {"KEEP_ALIVE"}
                /\ complete' = ("NO_BODY" \in token.flags)
                /\ UNCHANGED <<inject, given>>
           [] token.type = "BODY" /\ "SMALL_BODY" \in token.flags ->
                /\ Callback("request")
                /\ given' = hs_get_token_string(b, all, "BODY")
                /\ complete' = TRUE
                /\ UNCHANGED <<inject, flags>>
           [] token.type = "BODY" /\ "SMALL_BODY" \notin token.flags ->
                /\ Callback(IF token.len = 0 THEN "end" ELSE "piece")
                /\ given' = given \o hs_request_chunk(b, all)
                /\ complete' = (token.len = 0)
                /\ inject' = (inject \/ ("BODY_FINAL" \in token.flags
                                         /\ token.len > 0))
                /\ UNCHANGED flags
           [] OTHER ->
                pc' = "exec"
                /\ UNCHANGED <<state, held, inject, flags, request>>
      /\ UNCHANGED <<shape, left, sent, taken, edge>>
  BY DEF ParserLeave, wire
<1> HIDE DEF e
<1>2. Wired /\ Receiving
  BY <1>1 DEF RInv, Accepting, Called, Notified, Complete, Closed
<1>3. PICK c \in 0 .. Total(shape) : Reading(c) /\ (Repeats => Knows(c))
  BY <1>2 DEF Receiving
<1>4. Scanning(c) /\ taken = sent
  BY <1>1, <1>3 DEF Reading
<1>5. shape \in Shapes /\ taken \in Nat /\ Len(W) \in Nat /\ sent <= Len(W)
  BY <1>2, WireFacts
<1>6. Allowed(shape) /\ d \in Nat /\ 0 < d
  BY <1>5, ModestIs
<1>7. m \in Machines /\ m.h.token \in Token /\ m.b.capacity \in Nat
  BY <1>1 DEF DInv, MachineInv, Placed, Near, Machines, Parsers, ReadBuffers
<1>8. /\ b.capacity = m.b.capacity /\ b.length = m.b.length
      /\ b.index = m.p /\ b.mem = m.b.mem /\ b.seq = m.b.seq
      /\ b.after_headers_index = m.b.after_headers_index
      /\ h.state = m.cs /\ h.token = m.h.token
      /\ h.limit_count = m.h.limit_count
      /\ h.limit_max = m.h.limit_max
      /\ h.content_length = m.h.content_length
      /\ h.flags = m.h.flags \ {"TOKEN_READY"}
      /\ h.seq = IF found THEN m.h.seq ELSE m.b.seq
      /\ token = IF found THEN m.h.token ELSE NoToken
  BY <1>7, LeaveIs DEF e
<1> HIDE DEF b, h, token
<1>9. /\ Holds(m.b) /\ m.pe = taken /\ m.p <= taken
      /\ Stands(shape, m.cs, m.p, m.h, m.b, c)
      /\ m.b.seq = Next_(m.h.seq)
  BY <1>4 DEF Scanning
<1>10. /\ m.p \in Nat /\ c \in Nat /\ c <= d /\ m.p <= Len(W)
       /\ c = d <=> m.p = Len(W)
       /\ c # d => c # 2 * Count(shape) + 5
  BY <1>6, <1>9, Where
<1>11. Holds(buffer)'
  BY <1>1, <1>8, <1>9 DEF Holds
\* The parser goes on behind c tokens.
<1>12. c # d => Between(c)'
  <2> HAVE c # d
  <2>1. Stands(shape, h.state, b.index, h, b, c)
    <3>1. h.flags \ {"TOKEN_READY"} = m.h.flags \ {"TOKEN_READY"}
      BY <1>8
    <3>2. Stands(shape, m.cs, m.p, h, b, c)
      BY <1>8, <1>9, <3>1, StandsSame
    <3> QED
      BY <1>8, <3>2
  <2>2. h.flags = {}
    <3>1. m.h.flags \ {"TOKEN_READY"} = {}
      BY <1>9, <1>10 DEF Stands
    <3> QED
      BY <1>8, <3>1
  <2>3. b.index < Len(W) /\ c < d
    BY <1>5, <1>6, <1>8, <1>10
  <2> QED
    BY <1>1, <1>8, <1>9, <1>11, <2>1, <2>2, <2>3 DEF Between
<1>13. CASE ~ found
  <2>1. m.p = taken /\ m.p < Len(W)
    BY <1>1, <1>4, <1>13 DEF Scanning
  <2>2. c # d
    BY <1>5, <1>10, <2>1
  <2>3. token.type = "NONE"
    BY <1>8, <1>13 DEF NoToken
  <2>4. /\ pc' = "loop" /\ tokens' = tokens
        /\ UNCHANGED <<state, held, inject, flags, given, complete>>
    BY <1>1, <1>2, <2>3 DEF Return, request, Wired
  <2>5. Waiting'
    BY <1>1, <1>4, <1>8, <1>13, <2>1 DEF Waiting
  <2>6. Reading(c)'
    BY <1>12, <2>2, <2>4, <2>5 DEF Reading
  <2>7. Repeats => Knows(c)'
    BY <1>1, <1>3, <1>13, <2>4 DEF Knows
  <2> QED
    BY <1>1, <1>2, <1>3, <2>4, <2>6, <2>7 DEF RInv, Receiving, Wired
<1>14. CASE found
  <2>1. token = m.h.token /\ token \in Token /\ IsToken(shape, c, token)
    BY <1>4, <1>7, <1>8, <1>14 DEF Scanning
  <2>2. /\ c \in 1 .. d /\ token.type # "NONE"
        /\ \/ /\ c < d /\ token.type # "BODY"
              /\ token.type = "HEADERS_DONE" => token.flags = {}
           \/ /\ c = d /\ Size(shape) = 0
              /\ token = Tok("HEADERS_DONE", 0, 0, {"NO_BODY"})
           \/ /\ c = d /\ Size(shape) > 0
              /\ token = Tok("BODY", HeadLen(shape), Size(shape), {"SMALL_BODY"})
    BY <1>6, <1>10, <2>1, TokenKinds
  <2>3. tokens' = all
    BY <1>1, <2>2
  <2>4. tokens \in Seq(Token) /\ all \in Seq(Token)
    BY <1>2, <2>1, AppendProperties DEF Wired
  <2>5. Wired'
    BY <1>1, <1>2, <2>2, <2>3, <2>4 DEF Wired, Tok
  <2>6. Repeats => Listed(shape, all, c)
    <3>1. Repeats => Listed(shape, tokens, c - 1)
      BY <1>1, <1>3, <1>14 DEF Knows
    <3> QED
      BY <1>6, <2>1, <2>2, <2>4, <3>1, ListedOn
  <2>7. CASE /\ c < d /\ token.type # "BODY"
             /\ token.type = "HEADERS_DONE" => token.flags = {}
    <3>1. pc' = "exec" /\ UNCHANGED <<state, held, flags, given, complete>>
      BY <1>1, <2>2, <2>7 DEF request
    <3>2. c # d
      BY <1>6, <1>10, <2>7
    <3>3. buffer'.seq = Next_(parser'.seq)
      BY <1>1, <1>8, <1>9, <1>14
    <3>4. Reading(c)'
      BY <1>1, <1>4, <1>12, <3>1, <3>2, <3>3 DEF Reading
    <3>5. Repeats => Knows(c)'
      BY <1>1, <2>3, <2>6, <3>1 DEF Knows
    <3> QED
      BY <1>1, <1>2, <1>3, <2>5, <3>1, <3>4, <3>5 DEF RInv, Receiving
  <2>8. ASSUME c = d, pc' = "callback", state' = "NOP", held' = "request",
               complete', flags' \in {flags, flags \cup {"KEEP_ALIVE"}},
               Repeats => given' = Flat(shape.chunks)
        PROVE  RInv'
    <3>1. taken = Len(W)
      BY <1>1, <1>2, <1>4, <2>8, Completes
    <3>2. "CHUNKED_RESPONSE" \notin flags'
      BY <1>2, <2>8 DEF Receiving
    <3>3. Complete'
      BY <1>1, <1>4, <2>3, <2>6, <2>8, <3>1 DEF Complete
    <3> QED
      BY <1>11, <2>5, <2>8, <3>2, <3>3 DEF RInv, Called
  <2>9. CASE /\ c = d /\ Size(shape) = 0
             /\ token = Tok("HEADERS_DONE", 0, 0, {"NO_BODY"})
    <3>1. token.type = "HEADERS_DONE" /\ token.flags = {"NO_BODY"}
      BY <2>9 DEF Tok
    <3>2. /\ pc' = "callback" /\ state' = "NOP" /\ held' = "request"
          /\ complete' /\ flags' = flags \cup {"KEEP_ALIVE"} /\ given' = given
      BY <1>1, <3>1 DEF Callback
    <3>3. Flat(shape.chunks) = <<>>
      <4>1. Flat(shape.chunks) \in Seq(Byte)
        BY <1>6, HeadersAre DEF Allowed
      <4> QED
        BY <2>9, <4>1 DEF Size
    <3>4. given = <<>>
      BY <1>2 DEF Receiving
    <3> QED
      BY <2>8, <2>9, <3>2, <3>3, <3>4
  <2>10. CASE /\ c = d /\ Size(shape) > 0
              /\ token = Tok("BODY", HeadLen(shape), Size(shape), {"SMALL_BODY"})
    <3>1. token.type = "BODY" /\ "SMALL_BODY" \in token.flags
      BY <2>10 DEF Tok
    <3>2. /\ pc' = "callback" /\ state' = "NOP" /\ held' = "request"
          /\ complete' /\ flags' = flags
          /\ given' = hs_get_token_string(b, all, "BODY")
      BY <1>1, <3>1 DEF Callback
    <3>3. Repeats => hs_get_token_string(b, all, "BODY") = Flat(shape.chunks)
      <4>1. taken = Len(W)
        BY <1>1, <1>2, <1>4, <2>10, Completes
      <4>2. /\ b.capacity \in Nat /\ Len(W) <= b.capacity
            /\ \A k \in 1 .. Len(W) : b.mem[k] = W[k]
        BY <1>5, <1>7, <1>8, <1>9, <4>1 DEF Holds
      <4>3. Repeats => Listed(shape, all, Total(shape))
        BY <2>6, <2>10
      <4> QED
        BY <1>5, <1>6, <2>4, <2>10, <4>2, <4>3, BodyGiven
    <3> QED
      BY <2>8, <2>10, <3>2, <3>3
  <2> QED
    BY <2>2, <2>7, <2>9, <2>10
<1> QED
  BY <1>13, <1>14


-----------------------------------------------------------------------------
(* The application, and all steps.                                         *)

\* Nothing of a request is not all of it but a byte.
LEMMA NotTheLast ==
  ASSUME NEW s \in Shapes, Modest(s)
  PROVE  0 <= Len(Wire[s]) /\ (Size(s) > 0 => 0 # Len(Wire[s]) - 1)
<1> DEFINE l == Len(Wire[s])
           z == HeadLen(s)
           size == Size(s)
<1>1. l \in Nat \ {0} /\ z \in Nat /\ 0 < z /\ size \in 0 .. 99 /\ z + size = l
  BY ModestIs
<1> HIDE DEF l, z, size
<1>2. 0 <= l /\ (size > 0 => 0 # l - 1)
  BY <1>1
<1> QED
  BY <1>2 DEF l, size

\* After its response the next request begins, or the connection is closed.
LEMMA WrittenMeets ==
  ASSUME Modest(shape), Modest(shape'), DInv, Wired, Complete,
         NEW keep, Written(keep), "CHUNKED_RESPONSE" \notin flags'
  PROVE  RInv'
<1>1. /\ shape \in Shapes /\ taken \in Nat /\ sent \in Nat
      /\ Stream = Wire[shape] /\ Len(Wire[shape]) \in Nat
  BY WireFacts
<1>2. taken = Len(Wire[shape]) /\ taken = sent
  BY DEF Complete
<1>3. held' = "none"
  BY DEF Written
<1>4. CASE keep
  <2>1. /\ shape' \in IF Repeats THEN {shape} ELSE Shapes
        /\ left' = SubSeq(Stream, taken + 1, Len(Stream))
        /\ sent' = sent - taken /\ taken' = 0
        /\ ReadRequest(NoBuffer) /\ given' = <<>> /\ complete' = FALSE
        /\ UNCHANGED <<tokens, inject>>
    BY <1>4 DEF Written
  <2>2. shape' \in Shapes
    BY <1>1, <2>1
  <2>3. left' = <<>> /\ sent' = 0
    <3>1. Wire[shape] \in Seq(Byte)
      BY <1>1, WireAssumption
    <3>2. taken + 1 > Len(Wire[shape])
      BY <1>1, <1>2
    <3>3. SubSeq(Wire[shape], taken + 1, Len(Wire[shape])) = <<>>
      BY <1>1, <3>1, <3>2
    <3>4. \A x \in Nat : x - x = 0
      OBVIOUS
    <3> QED
      BY <1>1, <1>2, <2>1, <3>3, <3>4
  <2>4. Wired'
    <3>1. /\ 0 <= Len(Wire[shape'])
          /\ Size(shape') > 0 => 0 # Len(Wire[shape']) - 1
      BY <2>2, NotTheLast
    <3> QED
      BY <2>1, <2>3, <3>1 DEF Wired
  <2>5. Repeats => Listed(shape', tokens', 0)
    <3> HAVE Repeats
    <3>1. shape' = shape /\ Listed(shape, tokens, Total(shape))
      BY <2>1 DEF Complete
    <3>2. Len(tokens) >= Total(shape)
      <4>1. Total(shape) \in Nat
        BY <1>1, ModestIs
      <4>2. Len(tokens) = Total(shape) \/ Len(tokens) >= Total(shape)
        BY <3>1 DEF Listed
      <4> QED
        BY <4>1, <4>2
    <3> QED
      BY <2>1, <3>1, <3>2 DEF Listed
  <2> QED
    BY <1>3, <2>1, <2>2, <2>4, <2>5, Begins
<1>5. CASE ~ keep
  <2>1. /\ Terminate
        /\ UNCHANGED <<wire, reading, inject, request>>
    BY <1>5 DEF Written
  <2>2. Wired' /\ Closed'
    BY <2>1 DEF Terminate, wire, reading, Wired, Closed
  <2> QED
    BY <2>2 DEF RInv
<1> QED
  BY <1>4, <1>5

LEMMA AppRespondsMeets ==
  ASSUME Modest(shape), Modest(shape'), DInv, RInv, AppResponds
  PROVE  RInv'
<1>1. /\ pc = "callback" /\ held \in {"request", "end"} /\ flags' = Detected
      /\ Written("KEEP_ALIVE" \in Detected)
  BY DEF AppResponds
<1>2. Wired /\ Called
  BY <1>1 DEF RInv, Accepting, Receiving, Notified, Closed
<1>3. "CHUNKED_RESPONSE" \notin flags'
  BY <1>1, <1>2 DEF Called, Detected, hs_request_detect_keep_alive_flag
<1> QED
  BY <1>1, <1>2, <1>3, WrittenMeets DEF Called

LEMMA AppRespondsChunkMeets ==
  ASSUME RInv, AppRespondsChunk
  PROVE  RInv'
<1>1. /\ pc = "callback" /\ held' = "notify"
      /\ "CHUNKED_RESPONSE" \in flags'
      /\ UNCHANGED <<shape, left, sent, taken, edge, parser, tokens, machine,
                     state, pc, inject, given, complete>>
  BY DEF AppRespondsChunk, wire, request
<1>2. Wired /\ Complete
  BY <1>1 DEF RInv, Accepting, Receiving, Called, Notified, Closed
<1>3. Wired' /\ Complete'
  BY <1>1, <1>2 DEF Wired, Complete
<1> QED
  BY <1>1, <1>3 DEF RInv, Notified

LEMMA AppRespondsChunkEndMeets ==
  ASSUME Modest(shape), Modest(shape'), DInv, RInv, AppRespondsChunkEnd
  PROVE  RInv'
<1>1. /\ pc = "callback" /\ held = "notify"
      /\ flags' = flags \ {"CHUNKED_RESPONSE"}
      /\ Written("KEEP_ALIVE" \in flags)
  BY DEF AppRespondsChunkEnd
<1>2. Wired /\ Complete
  BY <1>1 DEF RInv, Accepting, Receiving, Called, Notified, Closed
<1> QED
  BY <1>1, <1>2, WrittenMeets

\* What does not happen to these requests: streaming a body.
LEMMA NoStream ==
  ASSUME RInv
  PROVE  ~ InjectEnd /\ ~ AppReadsChunk
BY DEF RInv, Accepting, Receiving, Called, Notified, Complete, Closed,
       InjectEnd, AppReadsChunk

LEMMA RInvSame ==
  ASSUME RInv, UNCHANGED vars
  PROVE  RInv'
<1>1. UNCHANGED <<shape, left, sent, taken, edge, buffer, parser, tokens,
                  machine, state, pc, inject, held, flags, given, complete>>
  BY DEF vars, wire, reading, request
<1>2. Wired' /\ (Accepting => Accepting') /\ (Closed => Closed')
  BY <1>1 DEF RInv, Wired, Accepting, Closed
<1>3. (Called => Called') /\ (Notified => Notified')
  BY <1>1 DEF Called, Notified, Complete, Holds
<1>4. ASSUME NEW c \in 0 .. Total(shape), Reading(c)
      PROVE  Reading(c)'
  <2>1. pc = "scan" /\ Scanning(c) => Scanning(c)'
    BY <1>1 DEF Scanning, Holds
  <2>2. Between(c) => Between(c)'
    BY <1>1, BetweenSame
  <2> QED
    BY <1>1, <1>4, <2>1, <2>2 DEF Reading, Waiting
<1>5. \A c \in 0 .. Total(shape) : Knows(c) => Knows(c)'
  BY <1>1 DEF Knows
<1>6. Receiving => Receiving'
  <2> HAVE Receiving
  <2>1. PICK c \in 0 .. Total(shape) : Reading(c) /\ (Repeats => Knows(c))
    BY DEF Receiving
  <2>2. Reading(c)' /\ (Repeats => Knows(c)')
    BY <1>4, <1>5, <2>1
  <2> QED
    BY <1>1, <2>2 DEF Receiving
<1> QED
  BY <1>2, <1>3, <1>6 DEF RInv

LEMMA RInvInit ==
  ASSUME Modest(shape), Init
  PROVE  RInv
<1>1. /\ shape \in Shapes /\ left = <<>> /\ sent = 0 /\ taken = 0
      /\ state = "READ" /\ buffer = NoBuffer /\ tokens = <<>> /\ ~ inject
      /\ pc = "accept" /\ held = "none" /\ flags = {} /\ given = <<>>
      /\ ~ complete
  BY DEF Init
<1>2. Wired
  <2>1. 0 <= Len(Wire[shape]) /\ (Size(shape) > 0 => 0 # Len(Wire[shape]) - 1)
    BY <1>1, NotTheLast
  <2>2. <<>> \in Seq(Token)
    OBVIOUS
  <2> QED
    BY <1>1, <2>1, <2>2 DEF Wired
<1>3. Listed(shape, tokens, 0)
  <2>1. Total(shape) \in Nat
    BY <1>1, ModestIs
  <2>2. Len(tokens) = 0
    BY <1>1
  <2>3. \A k \in 1 .. Total(shape) : ~ (k <= 0)
    BY <2>1
  <2> QED
    BY <1>1, <2>2, <2>3 DEF Listed
<1> QED
  BY <1>1, <1>2, <1>3 DEF RInv, Accepting

LEMMA RInvNext ==
  ASSUME Modest(shape), Modest(shape'), DInv, RInv, [Next]_vars
  PROVE  RInv'
<1>1. ~ InjectEnd /\ ~ AppReadsChunk
  BY NoStream
<1>2. CASE Arrive
  BY <1>2, ArriveMeets
<1>3. CASE Accept
  BY <1>3, AcceptMeets
<1>4. CASE Refuse
  BY <1>4, RefuseMeets
<1>5. CASE OnReadable
  BY <1>5, OnReadableMeets
<1>6. CASE ReadData
  BY <1>6, ReadDataMeets
<1>7. CASE ReadNothing
  BY <1>7, ReadNothingMeets
<1>8. CASE ParserEnter
  BY <1>8, ParserEnterMeets
<1>9. CASE ParserStep
  BY <1>9, ParserStepMeets
<1>10. CASE ParserLeave
  BY <1>10, ParserLeaveMeets
<1>11. CASE AppResponds
  BY <1>11, AppRespondsMeets
<1>12. CASE AppRespondsChunk
  BY <1>12, AppRespondsChunkMeets
<1>13. CASE AppRespondsChunkEnd
  BY <1>13, AppRespondsChunkEndMeets
<1>14. CASE UNCHANGED vars
  BY <1>14, RInvSame
<1> QED
  BY <1>1, <1>2, <1>3, <1>4, <1>5, <1>6, <1>7, <1>8, <1>9, <1>10, <1>11,
     <1>12, <1>13, <1>14 DEF Next, Finished

\* The client does not change what it sends.
LEMMA RepeatsSame ==
  ASSUME Repeats, [Next]_vars
  PROVE  shape' = shape
BY DEF Next, vars, wire, Arrive, Accept, Refuse, OnReadable, ReadData,
       ReadNothing, ParserEnter, ParserStep, ParserLeave, InjectEnd,
       AppReadsChunk, AppResponds, AppRespondsChunk, AppRespondsChunkEnd,
       Written, Finished

LEMMA ShapeIn ==
  ASSUME DInv
  PROVE  shape \in Shapes
BY DEF DInv, WireInv

\* While a connection has the same modest request again and again, the
\* invariant holds, whatever the others are like: run `bytes' checks this.
THEOREM RequestInvariant == Spec => []Whole
<1>1. Init => Whole
  BY RInvInit DEF Whole
<1>2. DInv /\ Whole /\ [Next]_vars => Whole'
  <2> SUFFICES ASSUME DInv, Whole, [Next]_vars, Repeats, Modest(shape')
               PROVE  RInv'
    BY DEF Whole
  <2>1. shape' = shape
    BY RepeatsSame
  <2>2. Modest(shape) /\ RInv
    BY <2>1 DEF Whole
  <2> QED
    BY <2>2, RInvNext
<1>3. Spec => []DInv
  BY DataPathInvariant
<1> QED
  BY <1>1, <1>2, <1>3, PTL DEF Spec

\* If all requests are modest, it holds of any sequence of them.
THEOREM ModestInvariant ==
  ASSUME \A s \in Shapes : Modest(s)
  PROVE  Spec => []RInv
<1>1. Init => RInv
  BY RInvInit DEF Init
<1>2. DInv /\ DInv' /\ RInv /\ [Next]_vars => RInv'
  <2> SUFFICES ASSUME DInv, DInv', RInv, [Next]_vars
               PROVE  RInv'
    OBVIOUS
  <2>1. shape \in Shapes /\ shape' \in Shapes
    BY DEF DInv, WireInv
  <2> QED
    BY <2>1, RInvNext
<1>3. Spec => []DInv
  BY DataPathInvariant
<1> QED
  BY <1>1, <1>2, <1>3, PTL DEF Spec

\* When the server waits with no event on its way, it has read and examined
\* all that arrived, and the rest of the request is still to come.
THEOREM NeverStalls ==
  ASSUME \A s \in Shapes : Modest(s)
  PROVE  Spec => []NoStall
<1>1. RInv /\ DInv => NoStall
  <2> SUFFICES ASSUME RInv, DInv, pc = "loop", state = "READ", ~ edge
               PROVE  taken = sent /\ sent < Len(Stream)
    BY DEF NoStall
  <2>1. Wired /\ Receiving
    BY DEF RInv, Accepting, Called, Notified, Complete, Closed
  <2>2. PICK c \in 0 .. Total(shape) : Between(c) /\ Waiting
    BY <2>1 DEF Receiving, Reading
  <2>3. /\ taken = sent /\ buffer.index = taken
        /\ buffer.index < Len(Wire[shape])
    BY <2>2 DEF Between, Waiting
  <2>4. Stream = Wire[shape]
    BY <2>1, ShapeIn, WireFacts
  <2> QED
    BY <2>3, <2>4
<1>2. Spec => [](RInv /\ DInv)
  BY ModestInvariant, DataPathInvariant, PTL
<1> QED
  BY <1>1, <1>2, PTL


-----------------------------------------------------------------------------
(* The refinement.                                                         *)

\* (of the type of a flag)
Told == complete \in BOOLEAN

LEMMA CompleteNext ==
  ASSUME Told, [Next]_vars
  PROVE  Told'
<1>1. CASE ParserLeave
  <2> DEFINE token == Leave(machine).token
  <2>1. \/ complete' = complete
        \/ complete' = ("NO_BODY" \in token.flags)
        \/ complete' = TRUE
        \/ complete' = (token.len = 0)
    BY <1>1 DEF ParserLeave, request
  <2>2. /\ ("NO_BODY" \in token.flags) \in BOOLEAN
        /\ (token.len = 0) \in BOOLEAN
    OBVIOUS
  <2> HIDE DEF token
  <2> QED
    BY <2>1, <2>2, Zenon DEF Told
<1>2. CASE \E keep : Written(keep)
  BY <1>2 DEF Written, request, Told
<1>3. CASE InjectEnd
  BY <1>3 DEF InjectEnd, Told
<1>4. CASE UNCHANGED complete
  BY <1>4 DEF Told
<1> QED
  BY <1>1, <1>2, <1>3, <1>4 DEF Next, vars, request, Arrive, Accept, Refuse,
     OnReadable, ReadData, ReadNothing, ParserEnter, ParserStep,
     AppReadsChunk, AppResponds, AppRespondsChunk, AppRespondsChunkEnd,
     Finished

\* Only the end of a request and the next one change what the application has.
LEMMA OthersStutter ==
  ASSUME RInv, [Next]_vars
  PROVE  \/ ParserLeave \/ AppResponds \/ AppRespondsChunkEnd
         \/ UNCHANGED <<shape, given, complete>>
BY NoStream DEF Next, vars, wire, request, Arrive, Accept, Refuse, OnReadable,
   ReadData, ReadNothing, ParserEnter, ParserStep, AppRespondsChunk, Finished

LEMMA WrittenTransfers ==
  ASSUME Told, shape \in Shapes, Complete,
         NEW keep, Written(keep)
  PROVE  Transfer!NextRequest \/ UNCHANGED <<shape, given, complete>>
<1>1. CASE keep
  <2>1. given' = <<>> /\ complete' = FALSE /\ shape' \in Shapes
    BY <1>1 DEF Written
  <2> QED
    BY <2>1 DEF Transfer!NextRequest, Complete
<1>2. CASE ~ keep
  BY <1>2 DEF Written, wire, request
<1> QED
  BY <1>1, <1>2

LEMMA ParserLeaveTransfers ==
  ASSUME Repeats, RInv, RInv', Told, Told',
         ParserLeave
  PROVE  Transfer!Whole \/ UNCHANGED <<shape, given, complete>>
<1>1. pc = "scan" /\ shape' = shape
  BY DEF ParserLeave, wire
<1>2. Receiving
  BY <1>1 DEF RInv, Accepting, Called, Notified, Complete, Closed
<1>3. ~ Closed' /\ ~ Accepting'
  <2>1. state' \in {state, "NOP"} /\ pc' # "accept"
    BY DEF ParserLeave, Return, Callback
  <2>2. state = "READ"
    BY <1>2 DEF Receiving
  <2> QED
    BY <2>1, <2>2 DEF Closed, Accepting
<1>4. ~ complete /\ given = <<>>
  BY <1>2 DEF Receiving
<1>5. CASE Receiving'
  BY <1>1, <1>4, <1>5 DEF Receiving, Told
<1>6. CASE Complete'
  <2>1. complete' /\ given' = Flat(shape.chunks)
    BY <1>1, <1>6 DEF Complete
  <2> QED
    BY <1>1, <1>4, <2>1 DEF Transfer!Whole, Told
<1> QED
  BY <1>3, <1>5, <1>6 DEF RInv, Called, Notified

\* An application is given the body that was sent as a whole, and once, and
\* learns that it has it when the request is complete.
THEOREM TransferImplemented ==
  ASSUME Repeats, \A s \in Shapes : Modest(s)
  PROVE  Spec => ImplementsTransfer
<1>1. Init => Transfer!Init
  BY DEF Init, Transfer!Init
<1>2. ASSUME RInv, RInv', DInv, Told, Told',
             [Next]_vars
      PROVE  Transfer!Next \/ UNCHANGED <<Flat(shape.chunks), given, complete>>
  <2>1. CASE ParserLeave
    BY <1>2, <2>1, ParserLeaveTransfers DEF Transfer!Next
  <2>2. CASE AppResponds
    <3>1. /\ pc = "callback" /\ held \in {"request", "end"}
          /\ Written("KEEP_ALIVE" \in Detected)
      BY <2>2 DEF AppResponds
    <3>2. Complete
      BY <1>2, <3>1 DEF RInv, Accepting, Receiving, Called, Notified, Closed
    <3> QED
      BY <1>2, <3>1, <3>2, ShapeIn, WrittenTransfers DEF Transfer!Next
  <2>3. CASE AppRespondsChunkEnd
    <3>1. /\ pc = "callback" /\ Written("KEEP_ALIVE" \in flags)
      BY <2>3 DEF AppRespondsChunkEnd
    <3>2. Complete
      BY <1>2, <3>1 DEF RInv, Accepting, Receiving, Called, Notified, Closed
    <3> QED
      BY <1>2, <3>1, <3>2, ShapeIn, WrittenTransfers DEF Transfer!Next
  <2> QED
    BY <1>2, <2>1, <2>2, <2>3, OthersStutter
<1>3. Told /\ [Next]_vars => Told'
  BY CompleteNext
<1>4. Init => Told
  BY DEF Init, Told
<1>5. Spec => [](RInv /\ DInv)
  BY ModestInvariant, DataPathInvariant, PTL
<1>6. Spec => []Told
  BY <1>3, <1>4, PTL DEF Spec
<1>7. RInv /\ RInv' /\ DInv /\ Told /\ Told' /\ [Next]_vars
      => [Transfer!Next]_<<Flat(shape.chunks), given, complete>>
  BY <1>2
<1> QED
  BY <1>1, <1>5, <1>6, <1>7, PTL DEF Spec, ImplementsTransfer, Transfer!Spec


-----------------------------------------------------------------------------
(* The folds of the responses.                                             *)

\* What is printed before the empty line, header by header.
LEMMA HeadersFold ==
  ASSUME NEW ctx, NEW response, NEW n \in Nat,
         DOMAIN response.headers = 1 .. n
  PROVE  \E g : /\ Firsts(g, ctx, response.headers, Printing, n)
                /\ http_serialize_headers_list(response, ctx)
                     = grwprintf(g[1 .. n], <<CRLF>>)
<1> DEFINE all == response.headers
           D == DOMAIN all
           F(k, s) == Fold(k[s \ {Max(s)}], all[Max(s)], Printing)
           A(k, s) == grwprintf(k[s \ {Max(s)}], HeaderLine(all[Max(s)]))
           g == CHOOSE h :
                  h = [s \in SUBSET D |-> IF s = {} THEN ctx ELSE A(h, s)]
<1>1. http_serialize_headers_list(response, ctx) = grwprintf(g[D], <<CRLF>>)
  BY DEF http_serialize_headers_list, FoldLeft, MapThenFoldSet
<1>2. Indices(1 .. n)
  BY DEF Indices
<1>3. PICK h : Runs(h, ctx, all, Printing, 1 .. n)
  BY <1>2, RunsExist
<1>4. \A k, s : F(k, s) = A(k, s)
  BY FoldIs
<1>5. h = [s \in SUBSET D |-> IF s = {} THEN ctx ELSE F(h, s)]
  BY <1>3 DEF Runs
<1>6. h = [s \in SUBSET D |-> IF s = {} THEN ctx ELSE A(h, s)]
  <2> HIDE DEF F, A
  <2> QED
    BY <1>4, <1>5
<1>7. g = [s \in SUBSET D |-> IF s = {} THEN ctx ELSE A(g, s)]
  BY <1>6
<1> HIDE DEF g
<1>8. g = [s \in SUBSET D |-> IF s = {} THEN ctx ELSE F(g, s)]
  <2> HIDE DEF F, A
  <2> QED
    BY <1>4, <1>7
<1>9. Runs(g, ctx, all, Printing, 1 .. n)
  BY <1>8 DEF Runs
<1>10. Firsts(g, ctx, all, Printing, n)
  <2> HIDE DEF all
  <2> QED
    BY <1>9, RunFirst
<1> QED
  BY <1>1, <1>10

\* A response before its headers are set.
Blank(answer) ==
  hs_response_set_body(hs_response_set_status(hs_response_init, answer.status),
                       answer.body)

\* How an application sets the headers of an answer, one after the other.
LEMMA BuiltFold ==
  ASSUME NEW answer, NEW n \in Nat, DOMAIN answer.headers = 1 .. n
  PROVE  \E g : /\ Firsts(g, Blank(answer), answer.headers, Setting, n)
                /\ Built(answer) = g[1 .. n]
<1> DEFINE all == answer.headers
           ctx == Blank(answer)
           D == DOMAIN all
           F(k, s) == Fold(k[s \ {Max(s)}], all[Max(s)], Setting)
           A(k, s) == hs_response_set_header(k[s \ {Max(s)}], all[Max(s)][1],
                                             all[Max(s)][2])
           g == CHOOSE h :
                  h = [s \in SUBSET D |-> IF s = {} THEN ctx ELSE A(h, s)]
<1>1. Built(answer) = g[D]
  BY DEF Built, Blank, FoldLeft, MapThenFoldSet
<1> HIDE DEF ctx
<1>2. Indices(1 .. n)
  BY DEF Indices
<1>3. PICK h : Runs(h, ctx, all, Setting, 1 .. n)
  BY <1>2, RunsExist
<1>4. \A k, s : F(k, s) = A(k, s)
  BY FoldIs
<1>5. h = [s \in SUBSET D |-> IF s = {} THEN ctx ELSE F(h, s)]
  BY <1>3 DEF Runs
<1>6. h = [s \in SUBSET D |-> IF s = {} THEN ctx ELSE A(h, s)]
  <2> HIDE DEF F, A
  <2> QED
    BY <1>4, <1>5
<1>7. g = [s \in SUBSET D |-> IF s = {} THEN ctx ELSE A(g, s)]
  BY <1>6
<1> HIDE DEF g
<1>8. g = [s \in SUBSET D |-> IF s = {} THEN ctx ELSE F(g, s)]
  <2> HIDE DEF F, A
  <2> QED
    BY <1>4, <1>7
<1>9. Runs(g, ctx, all, Setting, 1 .. n)
  BY <1>8 DEF Runs
<1>10. Firsts(g, ctx, all, Setting, n)
  <2> HIDE DEF all
  <2> QED
    BY <1>9, RunFirst
<1> QED
  BY <1>1, <1>10 DEF ctx


-----------------------------------------------------------------------------
(* Something is printed, whatever the buffer makes of it.                  *)

\* A buffer so far as its size is concerned.
Sized(c) == DOMAIN c = {"capacity", "size", "mem"} /\ c.size \in Nat

LEMMA StoreSized ==
  ASSUME NEW c, Sized(c), NEW bytes, NEW capacity
  PROVE  /\ Sized(Store(c, bytes)) /\ Store(c, bytes).size = c.size
         /\ Sized(Realloc(c, capacity)) /\ Realloc(c, capacity).size = c.size
<1>1. /\ DOMAIN Store(c, bytes) = DOMAIN c
      /\ Store(c, bytes)["size"] = c["size"]
  BY DEF Store, Sized
<1>2. /\ DOMAIN Realloc(c, capacity) = DOMAIN c
      /\ Realloc(c, capacity)["size"] = c["size"]
  BY DEF Realloc, Sized
<1> QED
  BY <1>1, <1>2 DEF Sized

LEMMA PrintfSized ==
  ASSUME NEW c, Sized(c), NEW text, Len(text) \in Nat
  PROVE  /\ Sized(grwprintf(c, text))
         /\ grwprintf(c, text).size >= c.size + Len(text)
<1> DEFINE once == vsnprintf(c, text)
           need == Len(text) + c.size
           more == Realloc(once, Doubled(c.capacity, need))
           twice == vsnprintf(more, text)
<1>1. ASSUME NEW d, Sized(d)
      PROVE  Sized(vsnprintf(d, text)) /\ vsnprintf(d, text).size = d.size
  <2>1. \/ vsnprintf(d, text) = d
        \/ \E bytes : vsnprintf(d, text) = Store(d, bytes)
    BY DEF vsnprintf
  <2> QED
    BY <1>1, <2>1, StoreSized
<1>2. Sized(once) /\ once.size = c.size
  BY <1>1
<1> HIDE DEF once
<1>3. Sized(more) /\ more.size = c.size
  BY <1>2, StoreSized
<1> HIDE DEF more
<1>4. Sized(twice) /\ twice.size = c.size
  BY <1>1, <1>3
<1> HIDE DEF twice
<1>5. grwprintf(c, text) = IF need > c.capacity
                           THEN [twice EXCEPT !.size = @ + 2 * Len(text)]
                           ELSE [once EXCEPT !.size = @ + Len(text)]
  BY DEF grwprintf, twice, more, once
<1>6. ASSUME NEW d, Sized(d), d.size = c.size, NEW k \in {Len(text), 2 * Len(text)}
      PROVE  LET e == [d EXCEPT !.size = @ + k]
             IN  Sized(e) /\ e.size >= c.size + Len(text)
  <2> DEFINE e == [d EXCEPT !.size = @ + k]
  <2>1. DOMAIN e = DOMAIN d /\ e.size = d.size + k
    BY <1>6 DEF Sized
  <2>2. c.size \in Nat
    BY DEF Sized
  <2>3. d.size + k \in Nat /\ d.size + k >= c.size + Len(text)
    BY <1>6, <2>2
  <2> HIDE DEF e
  <2>4. Sized(e) /\ e.size >= c.size + Len(text)
    BY <1>6, <2>1, <2>3 DEF Sized
  <2> QED
    BY <2>4 DEF e
<1>7. CASE need > c.capacity
  BY <1>4, <1>5, <1>6, <1>7
<1>8. CASE ~ (need > c.capacity)
  BY <1>2, <1>5, <1>6, <1>8
<1> QED
  BY <1>7, <1>8

LEMMA MemcpySized ==
  ASSUME NEW c, Sized(c), NEW text, Len(text) \in Nat
  PROVE  /\ Sized(grwmemcpy(c, text))
         /\ grwmemcpy(c, text).size = c.size + Len(text)
<1> DEFINE need == c.size + Len(text)
           room == IF need > c.capacity THEN Realloc(c, need) ELSE c
           d    == Store(room, text)
<1>1. Sized(room) /\ room.size = c.size
  BY StoreSized
<1>2. grwmemcpy(c, text) = [d EXCEPT !.size = need]
  BY DEF grwmemcpy
<1> HIDE DEF room
<1>3. Sized(d) /\ d.size = c.size
  BY <1>1, StoreSized
<1> HIDE DEF d
<1>4. c.size \in Nat
  BY DEF Sized
<1>5. need \in Nat
  BY <1>4
<1> HIDE DEF need
<1>6. /\ DOMAIN [d EXCEPT !.size = need] = DOMAIN d
      /\ [d EXCEPT !.size = need].size = need
  BY <1>3 DEF Sized
<1>7. Sized(grwmemcpy(c, text)) /\ grwmemcpy(c, text).size = need
  BY <1>2, <1>3, <1>5, <1>6 DEF Sized
<1> QED
  BY <1>7 DEF need

LEMMA InitSized ==
  /\ Sized(grwprintf_init(RespCap)) /\ grwprintf_init(RespCap).size = 0
BY DEF Sized, grwprintf_init

LEMMA ListSized ==
  ASSUME NEW ctx, Sized(ctx), NEW response, NEW n \in Nat,
         DOMAIN response.headers = 1 .. n
  PROVE  /\ Sized(http_serialize_headers_list(response, ctx))
         /\ http_serialize_headers_list(response, ctx).size > 0
<1>1. PICK g : /\ Firsts(g, ctx, response.headers, Printing, n)
               /\ http_serialize_headers_list(response, ctx)
                    = grwprintf(g[1 .. n], <<CRLF>>)
  BY HeadersFold
<1> DEFINE good == {i \in Nat : i <= n => Sized(g[1 .. i])}
<1>2. 0 \in good
  BY <1>1 DEF Firsts
<1>3. ASSUME NEW i \in Nat, i \in good
      PROVE  i + 1 \in good
  <2> SUFFICES ASSUME i + 1 <= n
               PROVE  Sized(g[1 .. (i + 1)])
    OBVIOUS
  <2>1. Sized(g[1 .. i])
    BY <1>3
  <2>2. \A j \in 1 .. n : g[1 .. j] = grwprintf(g[1 .. (j - 1)],
                                                HeaderLine(response.headers[j]))
    BY <1>1, FoldIs DEF Firsts
  <2>3. i + 1 \in 1 .. n /\ (i + 1) - 1 = i
    OBVIOUS
  <2>4. g[1 .. (i + 1)] = grwprintf(g[1 .. i], HeaderLine(response.headers[i + 1]))
    BY <2>2, <2>3
  <2>5. Len(HeaderLine(response.headers[i + 1])) \in Nat
    BY DEF HeaderLine
  <2> QED
    BY <2>1, <2>4, <2>5, PrintfSized
<1> HIDE DEF good
<1>4. n \in good
  BY <1>2, <1>3, AllNumbers
<1>5. Sized(g[1 .. n])
  BY <1>4 DEF good
<1>6. Len(<<CRLF>>) = 1
  OBVIOUS
<1>7. /\ Sized(grwprintf(g[1 .. n], <<CRLF>>))
      /\ grwprintf(g[1 .. n], <<CRLF>>).size >= g[1 .. n].size + 1
  BY <1>5, <1>6, PrintfSized
<1>8. g[1 .. n].size \in Nat
  BY <1>5 DEF Sized
<1> HIDE <1>1
<1>9. grwprintf(g[1 .. n], <<CRLF>>).size \in Nat
  BY <1>7 DEF Sized
<1> QED
  BY <1>1, <1>7, <1>8, <1>9

LEMMA PrintedSomething ==
  ASSUME NEW c, Sized(c), c.size > 0
  PROVE  Printed(c) # <<>>
<1>1. c.size \in Nat /\ 1 \in 1 .. c.size
  BY DEF Sized
<1>2. DOMAIN Printed(c) = 1 .. c.size
  BY DEF Printed
<1> QED
  BY <1>1, <1>2


-----------------------------------------------------------------------------
(* What the application is told of the request.                            *)

\* Which token stands where.
LEMMA TokenAt ==
  ASSUME NEW s, Allowed(s), NEW k \in Nat, NEW t, IsToken(s, k, t)
  PROVE  /\ k = 1 => t = Tok("METHOD", 0, 1, {})
         /\ k = 2 => t = Tok("TARGET", 2, Len(s.target), {})
         /\ k = 3 => t = Tok("VERSION", 3 + Len(s.target), 1, {})
         /\ \A i \in 1 .. Count(s) :
              /\ k = 2 * i + 2 =>
                   t = Tok("HEADER_KEY", LineAt(s, i), KeyLen(s, i), {})
              /\ k = 2 * i + 3 =>
                   t = Tok("HEADER_VALUE", TextAt(s, i), TextLen(s, i), {})
         /\ k = 2 * Count(s) + 4 => t.type = "HEADERS_DONE"
<1> DEFINE n == Count(s)
           K(i) == Tok("HEADER_KEY", LineAt(s, i), KeyLen(s, i), {})
           V(i) == Tok("HEADER_VALUE", TextAt(s, i), TextLen(s, i), {})
           done == t.type = "HEADERS_DONE"
           body_ == Size(s) > 0 /\ k = 2 * n + 5
           method == t = Tok("METHOD", 0, 1, {})
           target == t = Tok("TARGET", 2, Len(s.target), {})
           version == t = Tok("VERSION", 3 + Len(s.target), 1, {})
<1>1. n \in Nat \ {0}
  BY TailFacts
<1>2. \/ k = 1 /\ method
      \/ k = 2 /\ target
      \/ k = 3 /\ version
      \/ \E i \in 1 .. n : k = 2 * i + 2 /\ t = K(i)
      \/ \E i \in 1 .. n : k = 2 * i + 3 /\ t = V(i)
      \/ k = 2 * n + 4 /\ done
      \/ body_
  BY DEF IsToken, Tok
<1> SUFFICES /\ k = 1 => method
             /\ k = 2 => target
             /\ k = 3 => version
             /\ \A i \in 1 .. n : /\ k = 2 * i + 2 => t = K(i)
                                  /\ k = 2 * i + 3 => t = V(i)
             /\ k = 2 * n + 4 => done
  OBVIOUS
<1> HIDE DEF n, K, V, done, method, target, version
<1>3. \A i, j \in 1 .. n : /\ 2 * i + 2 = 2 * j + 2 => i = j
                           /\ 2 * i + 3 = 2 * j + 3 => i = j
                           /\ 2 * i + 2 # 2 * j + 3
                           /\ 2 * i + 2 \notin {1, 2, 3} /\ 2 * i + 3 \notin {1, 2, 3}
                           /\ 2 * i + 2 \notin {2 * n + 4, 2 * n + 5}
                           /\ 2 * i + 3 \notin {2 * n + 4, 2 * n + 5}
  BY <1>1
<1>4. /\ 2 * n + 4 \notin {1, 2, 3} /\ 2 * n + 5 \notin {1, 2, 3}
      /\ 2 * n + 4 # 2 * n + 5
  BY <1>1
<1> QED
  BY <1>2, <1>3, <1>4

\* The buffer has the request, and the array its tokens.
Kept(s, b, all) ==
  /\ b.capacity \in Nat /\ Len(Wire[s]) <= b.capacity
  /\ \A k \in 1 .. Len(Wire[s]) : b.mem[k] = Wire[s][k]
  /\ all \in Seq(Token) /\ Listed(s, all, Total(s))

\* The request has v behind its first p bytes.
HasAt(s, p, v) ==
  /\ p \in Nat /\ v \in Seq(Byte) /\ p + Len(v) <= Len(Wire[s])
  /\ \A j \in 1 .. Len(v) : Wire[s][p + j] = v[j]

\* A string the machine found is the part of the request that it stands for.
LEMMA PartGiven ==
  ASSUME NEW s \in Shapes, NEW b, NEW all, Kept(s, b, all),
         NEW type, NEW p, NEW marks, NEW v, HasAt(s, p, v)
  PROVE  String(b, Tok(type, p, Len(v), marks)) = v
<1> DEFINE t == Tok(type, p, Len(v), marks)
           l == Len(Wire[s])
           W == Wire[s]
<1>1. t.index = p /\ t.len = Len(v)
  BY DEF Tok
<1>2. l \in Nat /\ p \in Nat /\ Len(v) \in Nat /\ v \in Seq(Byte)
  BY WireAssumption DEF HasAt
<1>3. /\ l <= b.capacity /\ (\A k \in 1 .. l : b.mem[k] = W[k])
      /\ b.capacity \in Nat
  BY DEF Kept
<1>4. p + Len(v) <= l /\ \A j \in 1 .. Len(v) : W[p + j] = v[j]
  BY DEF HasAt
<1> HIDE DEF t, l, W
<1>5. ASSUME NEW i \in 1 .. Len(v)
      PROVE  v[i] = b.mem[t.index + i]
  <2>1. p + i \in 1 .. l
    BY <1>2, <1>4
  <2> QED
    BY <1>1, <1>3, <1>4, <2>1
<1>6. t.index + t.len <= b.capacity
  BY <1>1, <1>2, <1>3, <1>4
<1>7. String(b, t) = v
  BY <1>1, <1>2, <1>3, <1>5, <1>6, StringIs
<1> QED
  BY <1>7 DEF t

\* The tokens of a request that is complete.
LEMMA AllListed ==
  ASSUME NEW s, Allowed(s), NEW all \in Seq(Token), Listed(s, all, Total(s))
  PROVE  /\ Total(s) \in Nat /\ Total(s) >= 2 * Count(s) + 4
         /\ Len(all) \in Nat /\ Len(all) >= Total(s)
         /\ \A k \in 1 .. Total(s) : IsToken(s, k, all[k])
<1> DEFINE d == Total(s)
<1>1. Count(s) \in Nat \ {0} /\ Size(s) \in 0 .. 99
  BY TailFacts
<1>2. d \in Nat /\ d >= 2 * Count(s) + 4
  <2>1. d = IF Size(s) > 0 THEN 2 * Count(s) + 5 ELSE 2 * Count(s) + 4
    BY DEF Total
  <2> HIDE DEF d
  <2> QED
    BY <1>1, <2>1
<1>3. Len(all) \in Nat /\ Len(all) >= d
  <2> HIDE DEF d
  <2>1. Len(all) = d \/ Len(all) >= d
    BY DEF Listed, d
  <2> QED
    BY <1>2, <2>1
<1>4. \A k \in 1 .. d : IsToken(s, k, all[k])
  <2>1. \A k \in 1 .. d : k <= Len(all) => IsToken(s, k, all[k])
    BY Zenon DEF Listed
  <2> HIDE DEF d
  <2>2. \A k \in 1 .. d : k <= Len(all)
    BY <1>2, <1>3
  <2> QED
    BY <2>1, <2>2
<1> QED
  BY <1>2, <1>3, <1>4


\* The method and the target, and the place of the first header.
LEMMA LineGiven ==
  ASSUME NEW s \in Shapes, Allowed(s), NEW b, NEW all, Kept(s, b, all)
  PROVE  /\ hs_get_token_string(b, all, "METHOD") = <<s.method>>
         /\ hs_get_token_string(b, all, "TARGET") = s.target
         /\ SelectInSeq(all, LAMBDA t : t.type = "HEADER_KEY") = 4
<1> DEFINE d == Total(s)
           n == Count(s)
           l == Len(Wire[s])
<1>1. /\ d \in Nat /\ d >= 2 * n + 4 /\ Len(all) \in Nat /\ Len(all) >= d
      /\ \A k \in 1 .. d : IsToken(s, k, all[k])
  BY AllListed DEF Kept
<1>2. n \in Nat \ {0}
  BY TailFacts
<1>3. /\ s.method \in Byte /\ s.target \in Seq(Byte)
      /\ Wire[s][1] = s.method /\ HeadLen(s) \in Nat /\ Size(s) \in Nat
      /\ l = HeadLen(s) + Size(s)
      /\ \A j \in 1 .. Len(s.target) : Wire[s][2 + j] = s.target[j]
  <2>1. WellFormed(s) /\ LimitsAllow
    BY DEF Allowed
  <2>2. s.method \in Letters /\ s.target \in Bytes(Byte \ {"SP"})
    BY <2>1 DEF WellFormed
  <2>3. s.method \in Byte
    BY <2>2, ByteKinds
  <2>4. s.target \in Seq(Byte)
    BY <2>2 DEF Bytes
  <2> QED
    BY <2>1, <2>3, <2>4, Layout
<1>4. Len(s.target) \in Nat /\ Len(s.target) + 8 <= HeadLen(s)
  BY LineFacts
<1> HIDE DEF d, n, l
<1>5. /\ 1 \in 1 .. d /\ 2 \in 1 .. d /\ 3 \in 1 .. d /\ 4 \in 1 .. d
      /\ 4 = 2 * 1 + 2 /\ 1 \in 1 .. n
      /\ 1 \in 1 .. Len(all) /\ 2 \in 1 .. Len(all) /\ 4 \in 1 .. Len(all)
      /\ 1 .. 1 - 1 = {} /\ 1 .. 2 - 1 = {1} /\ 1 .. 4 - 1 = {1, 2, 3}
  BY <1>1, <1>2
<1>6. all[1] = Tok("METHOD", 0, 1, {})
  BY <1>1, <1>5, TokenAt
<1>7. all[2] = Tok("TARGET", 2, Len(s.target), {})
  BY <1>1, <1>5, TokenAt
<1>8. all[3].type = "VERSION"
  <2>1. all[3] = Tok("VERSION", 3 + Len(s.target), 1, {})
    BY <1>1, <1>5, TokenAt
  <2> QED
    BY <2>1 DEF Tok
<1>9. all[4] = Tok("HEADER_KEY", LineAt(s, 1), KeyLen(s, 1), {})
  <2>1. \A i \in 1 .. n : 4 = 2 * i + 2 =>
          all[4] = Tok("HEADER_KEY", LineAt(s, i), KeyLen(s, i), {})
    BY <1>1, <1>5, TokenAt DEF n
  <2> QED
    BY <1>5, <2>1
<1>10. /\ all[1].type = "METHOD" /\ all[2].type = "TARGET"
       /\ all[4].type = "HEADER_KEY"
  BY <1>6, <1>7, <1>9 DEF Tok
<1>11. all \in Seq(Token)
  BY DEF Kept
<1>12. SelectInSeq(all, LAMBDA t : t.type = "METHOD") = 1
  BY <1>5, <1>10, <1>11, FirstOf
<1>13. SelectInSeq(all, LAMBDA t : t.type = "TARGET") = 2
  BY <1>5, <1>10, <1>11, FirstOf
<1>14. SelectInSeq(all, LAMBDA t : t.type = "HEADER_KEY") = 4
  BY <1>5, <1>8, <1>10, <1>11, FirstOf
<1>15. String(b, Tok("METHOD", 0, 1, {})) = <<s.method>>
  <2> DEFINE v == <<s.method>>
  <2>1. v \in Seq(Byte) /\ Len(v) = 1 /\ v[1] = s.method
    BY <1>3
  <2>2. 0 + 1 <= l
    BY <1>3, <1>4
  <2> HIDE DEF v
  <2>3. \A j \in 1 .. 1 : Wire[s][0 + j] = v[j]
    BY <1>3, <2>1
  <2>4. HasAt(s, 0, v)
    BY <2>1, <2>2, <2>3 DEF HasAt, l
  <2>5. String(b, Tok("METHOD", 0, Len(v), {})) = v
    BY <2>4, PartGiven
  <2> QED
    BY <2>1, <2>5 DEF v
<1>16. String(b, Tok("TARGET", 2, Len(s.target), {})) = s.target
  <2>1. 2 + Len(s.target) <= l
    BY <1>3, <1>4
  <2>2. HasAt(s, 2, s.target)
    BY <1>3, <2>1 DEF HasAt, l
  <2> QED
    BY <2>2, PartGiven
<1> QED
  BY <1>6, <1>7, <1>12, <1>13, <1>14, <1>15, <1>16 DEF hs_get_token_string

\* The i-th header is found behind the tokens of the line and of the headers
\* before, and the end of the headers behind the last one.
LEMMA HeaderGiven ==
  ASSUME NEW s \in Shapes, Allowed(s), NEW b, NEW all, Kept(s, b, all)
  PROVE  /\ \A i \in 1 .. Count(s) :
              GetHeader(b, all, 2 * i + 1)
                = [more |-> TRUE, key |-> Headers(s)[i][1],
                   val |-> Headers(s)[i][2]]
         /\ GetHeader(b, all, 2 * Count(s) + 3) = [more |-> FALSE]
<1> DEFINE d == Total(s)
           n == Count(s)
           l == Len(Wire[s])
<1>1. /\ d \in Nat /\ d >= 2 * n + 4 /\ Len(all) \in Nat /\ Len(all) >= d
      /\ \A k \in 1 .. d : IsToken(s, k, all[k])
  BY AllListed DEF Kept
<1>2. n \in Nat \ {0} /\ BlankAt(s) \in Nat
      /\ Size(s) \in 0 .. 99 /\ l = (BlankAt(s) + 2) + Size(s)
  BY TailFacts
<1> HIDE DEF d, l
<1>3. GetHeader(b, all, 2 * n + 3) = [more |-> FALSE]
  <2> HIDE DEF n
  <2>1. 2 * n + 4 \in 1 .. d /\ (2 * n + 3) + 1 = 2 * n + 4
    BY <1>1, <1>2
  <2>2. all[2 * n + 4].type = "HEADERS_DONE"
    BY <1>1, <2>1, TokenAt DEF n
  <2> QED
    BY <2>1, <2>2 DEF GetHeader
<1>4. ASSUME NEW i \in 1 .. n
      PROVE  GetHeader(b, all, 2 * i + 1)
               = [more |-> TRUE, key |-> Headers(s)[i][1],
                  val |-> Headers(s)[i][2]]
  <2> DEFINE line == LineAt(s, i)
             text == TextAt(s, i)
             k    == KeyLen(s, i)
             v    == TextLen(s, i)
             key_ == Headers(s)[i][1]
             val_ == Headers(s)[i][2]
  <2>1. /\ line \in Nat /\ k \in Nat \ {0} /\ v \in Nat \ {0}
        /\ text = line + k + 2 /\ LineAt(s, i + 1) = text + v + 2
        /\ LineAt(s, i + 1) <= BlankAt(s)
        /\ \A j \in 1 .. v : Wire[s][text + j] = val_[j]
    BY HeaderFacts
  <2>2. \A j \in 1 .. k : Wire[s][line + j] = key_[j]
    BY Layout DEF Allowed
  <2>3. /\ key_ \in Seq(Byte) /\ val_ \in Seq(Byte) /\ Len(key_) = k
        /\ Len(val_) = v
    <3>1. Headers(s)[i] \in Seq(Byte) \X Seq(Byte)
      <4>1. WellFormed(s)
        BY DEF Allowed
      <4>2. Headers(s) \in Seq(Seq(Byte) \X Seq(Byte)) /\ i \in DOMAIN Headers(s)
        BY <4>1, HeadersAre
      <4> QED
        BY <4>2
    <3> QED
      BY <3>1 DEF KeyLen, TextLen
  <2>4. /\ 2 * i + 2 \in 1 .. d /\ 2 * i + 3 \in 1 .. d
        /\ (2 * i + 1) + 1 = 2 * i + 2 /\ (2 * i + 1) + 2 = 2 * i + 3
    <3> HIDE DEF n
    <3> QED
      BY <1>1, <1>2
  <2>5. all[2 * i + 2] = Tok("HEADER_KEY", line, k, {})
    BY <1>1, <2>4, TokenAt
  <2>6. all[2 * i + 3] = Tok("HEADER_VALUE", text, v, {})
    BY <1>1, <2>4, TokenAt
  <2> HIDE DEF line, text, k, v, key_, val_, n
  <2>7. text \in Nat /\ text + v <= l /\ line + k <= l
    <3>1. LineAt(s, i + 1) = text + v + 2 /\ LineAt(s, i + 1) <= BlankAt(s)
      BY <2>1
    <3>2. PICK y : y = LineAt(s, i + 1)
      OBVIOUS
    <3> QED
      BY <1>2, <2>1, <3>1, <3>2
  <2>8. String(b, Tok("HEADER_KEY", line, k, {})) = key_
    <3>1. HasAt(s, line, key_)
      BY <2>1, <2>2, <2>3, <2>7 DEF HasAt, l
    <3> QED
      BY <2>3, <3>1, PartGiven
  <2>9. String(b, Tok("HEADER_VALUE", text, v, {})) = val_
    <3>1. HasAt(s, text, val_)
      BY <2>1, <2>3, <2>7 DEF HasAt, l
    <3> QED
      BY <2>3, <3>1, PartGiven
  <2>10. all[2 * i + 2].type # "HEADERS_DONE"
    BY <2>5 DEF Tok
  <2> QED
    BY <2>4, <2>5, <2>6, <2>8, <2>9, <2>10 DEF GetHeader, key_, val_
<1> QED
  BY <1>3, <1>4

\* What the look-up of the next header returns, when it is called for the
\* i-th time.
LEMMA IterateIs ==
  ASSUME NEW b, NEW all,
         SelectInSeq(all, LAMBDA t : t.type = "HEADER_KEY") = 4,
         NEW i \in Nat \ {0}, NEW iter,
         iter = IF i = 1 THEN 0 ELSE 2 * i
  PROVE  hs_request_iterate_headers(b, all, iter)
           = [found |-> GetHeader(b, all, 2 * i + 1), iter |-> 2 * i + 2]
<1> DEFINE at == IF iter = 0 THEN 4 - 1 ELSE iter + 1
<1>1. at = 2 * i + 1
  <2>1. CASE i = 1
    BY <2>1
  <2>2. CASE i # 1
    BY <2>2
  <2> QED
    BY <2>1, <2>2
<1>2. hs_request_iterate_headers(b, all, iter)
        = IF at < 0 THEN [found |-> [more |-> FALSE], iter |-> Len(all)]
          ELSE [found |-> GetHeader(b, all, at), iter |-> at + 1]
  BY DEF hs_request_iterate_headers
<1>3. ~ (2 * i + 1 < 0) /\ (2 * i + 1) + 1 = 2 * i + 2
  OBVIOUS
<1> HIDE DEF at
<1> QED
  BY <1>1, <1>2, <1>3


\* What the look-ups return one after the other.
LEMMA Iterated ==
  ASSUME NEW b, NEW all,
         SelectInSeq(all, LAMBDA t : t.type = "HEADER_KEY") = 4,
         NEW n \in Nat, NEW next,
         next = CHOOSE f : f =
                  [k \in 0 .. n + 1 |->
                     IF k = 0 THEN [iter |-> 0]
                     ELSE hs_request_iterate_headers(b, all, f[k - 1].iter)]
  PROVE  \A k \in 1 .. n + 1 : next[k].found = GetHeader(b, all, 2 * k + 1)
<1> DEFINE I(iter) == hs_request_iterate_headers(b, all, iter)
           G(k)  == GetHeader(b, all, 2 * k + 1)
           F(k)  == IF k = 0 THEN [iter |-> 0]
                    ELSE [found |-> G(k), iter |-> 2 * k + 2]
           first == [iter |-> 0]
           Is(f) == f = [k \in 0 .. n + 1 |->
                           IF k = 0 THEN first ELSE I(f[k - 1].iter)]
<1>1. ASSUME NEW k \in Nat \ {0}
      PROVE  I(F(k - 1).iter) = F(k)
  <2>1. F(k - 1).iter = IF k = 1 THEN 0 ELSE 2 * k
    <3>1. CASE k = 1
      BY <3>1
    <3>2. CASE k # 1
      <4>1. k - 1 # 0 /\ 2 * (k - 1) + 2 = 2 * k
        BY <3>2
      <4> HIDE DEF G
      <4>2. F(k - 1) = [found |-> G(k - 1), iter |-> 2 * (k - 1) + 2]
        BY <4>1
      <4> QED
        BY <3>2, <4>1, <4>2
    <3> QED
      BY <3>1, <3>2
  <2>2. F(k) = [found |-> G(k), iter |-> 2 * k + 2]
    OBVIOUS
  <2> HIDE DEF F
  <2>3. PICK i : i = F(k - 1).iter
    OBVIOUS
  <2>4. I(i) = [found |-> G(k), iter |-> 2 * k + 2]
    BY <2>1, <2>3, IterateIs
  <2> QED
    BY <2>2, <2>3, <2>4
<1>2. next = CHOOSE f : Is(f)
  OBVIOUS
<1>3. F(0) = first
  OBVIOUS
<1>4. \A k \in Nat \ {0} : F(k).found = G(k)
  OBVIOUS
<1> HIDE DEF I, F, first, G
<1>5. \E f : Is(f)
  <2> DEFINE f == [k \in 0 .. n + 1 |-> F(k)]
             R(k) == IF k = 0 THEN first ELSE I(f[k - 1].iter)
  <2>1. ASSUME NEW k \in 0 .. n + 1
        PROVE  F(k) = R(k)
    <3>1. CASE k = 0
      BY <1>3, <3>1
    <3>2. CASE k # 0
      <4>1. k \in Nat \ {0} /\ k - 1 \in 0 .. n + 1
        BY <3>2
      <4>2. f[k - 1] = F(k - 1)
        BY <4>1
      <4> HIDE DEF f
      <4>3. R(k) = I(F(k - 1).iter)
        BY <3>2, <4>2
      <4> QED
        BY <1>1, <4>1, <4>3
    <3> QED
      BY <3>1, <3>2
  <2> HIDE DEF R
  <2>2. f = [k \in 0 .. n + 1 |-> R(k)]
    BY <2>1
  <2> USE DEF R
  <2> HIDE DEF f
  <2>3. Is(f)
    BY <2>2
  <2> QED
    BY <2>3
<1>6. Is(next)
  <2> HIDE DEF Is
  <2> QED
    BY <1>2, <1>5
<1>7. /\ next[0] = first
      /\ \A k \in 1 .. n + 1 : next[k] = I(next[k - 1].iter)
  <2>1. \A k \in 0 .. n + 1 : next[k] = IF k = 0 THEN first ELSE I(next[k - 1].iter)
    BY <1>6
  <2>2. 0 \in 0 .. n + 1 /\ \A k \in 1 .. n + 1 : k \in 0 .. n + 1 /\ k # 0
    OBVIOUS
  <2> QED
    BY <2>1, <2>2
<1> DEFINE good == {k \in Nat : k <= n + 1 => next[k] = F(k)}
<1>8. 0 \in good
  BY <1>3, <1>7
<1>9. ASSUME NEW k \in Nat, k \in good
      PROVE  k + 1 \in good
  <2> SUFFICES ASSUME k + 1 <= n + 1
               PROVE  next[k + 1] = F(k + 1)
    OBVIOUS
  <2>1. next[k] = F(k)
    BY <1>9
  <2>2. k + 1 \in 1 .. n + 1 /\ (k + 1) - 1 = k /\ k + 1 \in Nat \ {0}
    OBVIOUS
  <2>3. next[k + 1] = I(next[k].iter)
    BY <1>7, <2>2
  <2>4. I(F(k).iter) = F(k + 1)
    BY <1>1, <2>2
  <2> QED
    BY <2>1, <2>3, <2>4
<1>10. \A k \in Nat : k \in good
  <2> HIDE DEF good
  <2>1. \A k \in Nat : k \in good => k + 1 \in good
    BY <1>9
  <2> QED
    BY <1>8, <2>1, AllNumbers, Zenon
<1>11. ASSUME NEW k \in 1 .. n + 1
       PROVE  next[k].found = G(k)
  <2>1. k \in Nat /\ k # 0 /\ k <= n + 1
    OBVIOUS
  <2>2. next[k] = F(k)
    BY <1>10, <2>1
  <2> QED
    BY <1>4, <2>1, <2>2
<1> QED
  BY <1>11 DEF G

\* In every callback the accessors return what was sent.
LEMMA ShownExactly ==
  ASSUME Repeats, Modest(shape), DInv, RInv
  PROVE  RequestExact
<1> SUFFICES ASSUME pc = "callback", held # "notify"
             PROVE  LET all  == Headers(shape)
                        next == CHOOSE f : f =
                          [k \in 0 .. Len(all) + 1 |->
                             IF k = 0 THEN [iter |-> 0]
                             ELSE hs_request_iterate_headers(buffer, tokens,
                                                             f[k - 1].iter)]
                    IN  /\ hs_get_token_string(buffer, tokens, "METHOD")
                             = <<shape.method>>
                        /\ hs_get_token_string(buffer, tokens, "TARGET")
                             = shape.target
                        /\ \A k \in DOMAIN all :
                             next[k].found = [more |-> TRUE, key |-> all[k][1],
                                              val |-> all[k][2]]
                        /\ ~ next[Len(all) + 1].found.more
  BY DEF RequestExact
<1> DEFINE all  == Headers(shape)
           n    == Len(all)
           next == CHOOSE f : f =
                     [k \in 0 .. n + 1 |->
                        IF k = 0 THEN [iter |-> 0]
                        ELSE hs_request_iterate_headers(buffer, tokens,
                                                        f[k - 1].iter)]
<1>1. Wired /\ Called
  BY DEF RInv, Accepting, Receiving, Notified, Complete, Closed
<1>2. shape \in Shapes /\ Allowed(shape) /\ Len(Wire[shape]) \in Nat
  BY ShapeIn, ModestIs
<1>3. Kept(shape, buffer, tokens)
  <2>1. /\ Holds(buffer) /\ taken = Len(Wire[shape]) /\ tokens \in Seq(Token)
        /\ Listed(shape, tokens, Total(shape))
    BY <1>1 DEF Wired, Called, Complete
  <2>2. buffer.capacity \in Nat
    BY DEF DInv, BufferInv, Rest, ReadBuffers
  <2> QED
    BY <1>2, <2>1, <2>2 DEF Kept, Holds
<1>4. n \in Nat /\ n = Count(shape) /\ DOMAIN all = 1 .. n
  <2>1. WellFormed(shape)
    BY <1>2 DEF Allowed
  <2> QED
    BY <2>1, HeadersAre DEF Count
<1>5. /\ hs_get_token_string(buffer, tokens, "METHOD") = <<shape.method>>
      /\ hs_get_token_string(buffer, tokens, "TARGET") = shape.target
      /\ SelectInSeq(tokens, LAMBDA t : t.type = "HEADER_KEY") = 4
  BY <1>2, <1>3, LineGiven
<1>6. /\ \A i \in 1 .. n :
           GetHeader(buffer, tokens, 2 * i + 1)
             = [more |-> TRUE, key |-> all[i][1], val |-> all[i][2]]
      /\ GetHeader(buffer, tokens, 2 * n + 3) = [more |-> FALSE]
  BY <1>2, <1>3, <1>4, HeaderGiven
<1>7. PICK f : f = next
  OBVIOUS
<1> HIDE DEF all, n
<1>8. \A k \in 1 .. n + 1 :
        f[k].found = GetHeader(buffer, tokens, 2 * k + 1)
  BY <1>4, <1>5, <1>7, Iterated
<1> HIDE DEF next
<1>9. \A k \in 1 .. n :
        f[k].found = [more |-> TRUE, key |-> all[k][1], val |-> all[k][2]]
  <2>1. \A k \in 1 .. n : k \in 1 .. n + 1
    BY <1>4
  <2> QED
    BY <1>6, <1>8, <2>1
<1>10. f[n + 1].found = [more |-> FALSE]
  <2>1. n + 1 \in 1 .. n + 1 /\ 2 * (n + 1) + 1 = 2 * n + 3
    BY <1>4
  <2>2. f[n + 1].found = GetHeader(buffer, tokens, 2 * (n + 1) + 1)
    BY <1>8, <2>1
  <2> QED
    BY <1>6, <2>1, <2>2
<1>11. ~ f[n + 1].found.more
  BY <1>10
<1>12. /\ \A k \in DOMAIN all :
            next[k].found = [more |-> TRUE, key |-> all[k][1],
                             val |-> all[k][2]]
       /\ ~ next[n + 1].found.more
  BY <1>4, <1>7, <1>9, <1>11
<1> QED
  BY <1>5, <1>12 DEF all, n, next

\* The requests the application is called for are those that were sent, while
\* a client sends the same again and again, whatever others send: otherwise
\* the look-ups find the tokens of the first one.
THEOREM RequestsShown ==
  ASSUME Repeats
  PROVE  Spec => [](Modest(shape) => RequestExact)
<1>1. Whole /\ DInv => (Modest(shape) => RequestExact)
  BY ShownExactly DEF Whole
<1> QED
  BY <1>1, RequestInvariant, DataPathInvariant, PTL


-----------------------------------------------------------------------------
(* The answers of applications.                                            *)

AnswerType == [status : Int, headers : Seq(Word \X Word), body : Seq(Symbol)]

\* The status that is sent.
Shown(status) == IF status \in 100 .. 599 THEN status ELSE 500

\* A response has the headers hs, in this order.
Carries(response, hs) ==
  /\ DOMAIN response = {"status", "headers", "body"}
  /\ hs \in Seq(Word \X Word)
  /\ response.headers = [i \in 1 .. Len(hs) |-> [key |-> hs[i][1],
                                                 value |-> hs[i][2]]]

LEMMA Before ==
  ASSUME NEW S, NEW x \in S, NEW t \in Seq(S)
  PROVE  LET u == <<x>> \o t
         IN  /\ u \in Seq(S) /\ Len(u) = Len(t) + 1 /\ u[1] = x
             /\ \A i \in 2 .. Len(t) + 1 : u[i] = t[i - 1]
             /\ u = [i \in 1 .. Len(t) + 1 |-> u[i]]
<1>1. PICK u : u = <<x>> \o t
  OBVIOUS
<1>2. /\ u \in Seq(S) /\ Len(u) = Len(t) + 1 /\ u[1] = x
      /\ \A i \in 2 .. Len(t) + 1 : u[i] = t[i - 1]
  BY <1>1
<1>3. u = [i \in 1 .. Len(t) + 1 |-> u[i]]
  <2>1. Len(t) \in Nat /\ DOMAIN u = 1 .. Len(t) + 1
    BY <1>2
  <2> QED
    BY <1>2, <2>1
<1> QED
  BY <1>1, <1>2, <1>3

\* A header is set before those that were.
LEMMA SetCarries ==
  ASSUME NEW r, NEW hs, Carries(r, hs), NEW k \in Word, NEW v \in Word
  PROVE  /\ Carries(hs_response_set_header(r, k, v), << <<k, v>> >> \o hs)
         /\ hs_response_set_header(r, k, v).status = r.status
         /\ hs_response_set_header(r, k, v).body = r.body
<1> DEFINE P(x) == [key |-> x[1], value |-> x[2]]
           more == << <<k, v>> >> \o hs
           n == Len(hs)
           q == hs_response_set_header(r, k, v)
           h == r.headers
           one == <<[key |-> k, value |-> v]>>
<1>1. /\ DOMAIN r = {"status", "headers", "body"} /\ hs \in Seq(Word \X Word)
      /\ h = [i \in 1 .. n |-> P(hs[i])] /\ n \in Nat
  BY DEF Carries
<1>2. /\ DOMAIN q = DOMAIN r /\ q["headers"] = one \o h
      /\ q["status"] = r["status"] /\ q["body"] = r["body"]
  BY <1>1 DEF hs_response_set_header
<1>3. /\ more \in Seq(Word \X Word) /\ Len(more) = n + 1
      /\ more[1] = <<k, v>>
      /\ \A i \in 2 .. n + 1 : more[i] = hs[i - 1]
  BY <1>1
<1>4. h \in Seq([key : Word, value : Word]) /\ Len(h) = n
  <2>1. ASSUME NEW i \in 1 .. n
        PROVE  P(hs[i]) \in [key : Word, value : Word]
    BY <1>1
  <2> HIDE DEF P, n
  <2> QED
    BY <1>1, <2>1
<1>5. /\ (one \o h)[1] = one[1]
      /\ \A i \in 2 .. n + 1 : (one \o h)[i] = h[i - 1]
      /\ one \o h = [i \in 1 .. n + 1 |-> (one \o h)[i]]
  <2>1. [key |-> k, value |-> v] \in [key : Word, value : Word]
    OBVIOUS
  <2> HIDE DEF h, n
  <2> QED
    BY <1>4, <2>1, Before
<1>6. ASSUME NEW i \in 1 .. n + 1
      PROVE  (one \o h)[i] = P(more[i])
  <2>1. CASE i = 1
    BY <1>3, <1>5, <2>1
  <2>2. CASE i # 1
    <3>1. i \in 2 .. n + 1 /\ i - 1 \in 1 .. n
      BY <1>1, <2>2
    <3>2. h[i - 1] = P(hs[i - 1])
      BY <1>1, <3>1
    <3> HIDE DEF h, more, P, one
    <3> QED
      BY <1>3, <1>5, <3>1, <3>2
  <2> QED
    BY <2>1, <2>2
<1>7. one \o h = [i \in 1 .. n + 1 |-> P(more[i])]
  <2> HIDE DEF P, more, one, h, n
  <2> QED
    BY <1>5, <1>6
<1>8. q.headers = [i \in 1 .. Len(more) |-> P(more[i])]
  <2> HIDE DEF P, more, one, h, q, n
  <2> QED
    BY <1>2, <1>3, <1>7
<1>9. Carries(q, more)
  <2> HIDE DEF more, q
  <2> QED
    BY <1>1, <1>2, <1>3, <1>8 DEF Carries
<1> QED
  BY <1>2, <1>9

\* A response has what the application set, its last header first.
LEMMA BuiltIs ==
  ASSUME NEW answer \in AnswerType
  PROVE  /\ Carries(Built(answer), Reverse(answer.headers))
         /\ Built(answer).status = Shown(answer.status)
         /\ Built(answer).body = answer.body
<1> DEFINE h == answer.headers
           n == Len(h)
           back(i) == [j \in 1 .. i |-> h[i + 1 - j]]
<1>1. /\ h \in Seq(Word \X Word) /\ n \in Nat /\ DOMAIN h = 1 .. n
      /\ \A j \in 1 .. n : h[j] \in Word \X Word
  BY DEF AnswerType
<1>2. PICK g : /\ Firsts(g, Blank(answer), h, Setting, n)
               /\ Built(answer) = g[1 .. n]
  BY <1>1, BuiltFold
<1>3. /\ g[1 .. 0] = Blank(answer)
      /\ \A i \in 1 .. n : g[1 .. i] = hs_response_set_header(g[1 .. (i - 1)],
                                                              h[i][1], h[i][2])
  BY <1>2, FoldIs DEF Firsts
<1> HIDE <1>2
<1>4. /\ Carries(Blank(answer), <<>>)
      /\ Blank(answer).status = Shown(answer.status)
      /\ Blank(answer).body = answer.body
  <2> DEFINE x == answer.status
             a == hs_response_set_status(hs_response_init, x)
             b == hs_response_set_body(a, answer.body)
  <2>1. x \in Int
    BY DEF AnswerType
  <2>2. /\ DOMAIN a = {"status", "headers", "body"} /\ a["headers"] = <<>>
        /\ a["status"] = IF x > 599 \/ x < 100 THEN 500 ELSE x
    BY DEF hs_response_set_status, hs_response_init
  <2>3. (IF x > 599 \/ x < 100 THEN 500 ELSE x) = Shown(x)
    BY <2>1 DEF Shown
  <2> HIDE DEF a, x
  <2>4. /\ DOMAIN b = DOMAIN a /\ b["headers"] = a["headers"]
        /\ b["status"] = a["status"] /\ b["body"] = answer.body
    BY <2>2 DEF hs_response_set_body
  <2>5. /\ <<>> \in Seq(Word \X Word) /\ Len(<<>>) = 0
        /\ \A f : <<>> = [i \in 1 .. 0 |-> f[i]]
    OBVIOUS
  <2>6. Blank(answer) = b
    BY DEF Blank, a, x
  <2> HIDE DEF b
  <2>7. Carries(b, <<>>)
    BY <2>2, <2>4, <2>5 DEF Carries
  <2> QED
    BY <2>2, <2>3, <2>4, <2>6, <2>7 DEF x
<1> DEFINE ok(i) == /\ Carries(g[1 .. i], back(i))
                    /\ g[1 .. i].status = Shown(answer.status)
                    /\ g[1 .. i].body = answer.body
           good == {i \in Nat : i <= n => ok(i)}
<1>5. 0 \in good
  <2>1. back(0) = <<>>
    OBVIOUS
  <2> HIDE DEF back
  <2> QED
    BY <1>3, <1>4, <2>1
<1>6. ASSUME NEW i \in Nat, i \in good
      PROVE  i + 1 \in good
  <2> SUFFICES ASSUME i + 1 <= n
               PROVE  ok(i + 1)
    <3> HIDE DEF ok
    <3> QED
      OBVIOUS
  <2> DEFINE x == h[i + 1]
             r == g[1 .. i]
  <2>1. ok(i)
    <3>1. n \in Nat
      BY <1>1
    <3> HIDE DEF n, ok
    <3>2. i <= n
      BY <3>1
    <3> QED
      BY <1>6, <3>2
  <2>2. i + 1 \in 1 .. n /\ (i + 1) - 1 = i /\ x \in Word \X Word
    BY <1>1
  <2>3. g[1 .. (i + 1)] = hs_response_set_header(r, x[1], x[2])
    BY <1>3, <2>2
  <2>4. x[1] \in Word /\ x[2] \in Word /\ << <<x[1], x[2]>> >> = <<x>>
    BY <2>2
  <2>5. /\ Carries(g[1 .. (i + 1)], <<x>> \o back(i))
        /\ g[1 .. (i + 1)].status = r.status /\ g[1 .. (i + 1)].body = r.body
    <3> HIDE DEF back, x, r, h, n
    <3>1. Carries(r, back(i))
      BY <2>1 DEF r
    <3>2. /\ Carries(hs_response_set_header(r, x[1], x[2]),
                     << <<x[1], x[2]>> >> \o back(i))
          /\ hs_response_set_header(r, x[1], x[2]).status = r.status
          /\ hs_response_set_header(r, x[1], x[2]).body = r.body
      BY <2>4, <3>1, SetCarries
    <3> QED
      BY <2>3, <2>4, <3>2
  <2>6. <<x>> \o back(i) = back(i + 1)
    <3> DEFINE S == Word \X Word
               t == back(i)
    <3>1. t \in Seq(S) /\ Len(t) = i
      <4>1. ASSUME NEW j \in 1 .. i
            PROVE  h[i + 1 - j] \in S
        <5>1. i + 1 - j \in 1 .. n
          BY <1>1
        <5> QED
          BY <1>1, <5>1
      <4> HIDE DEF S, h, n
      <4>2. t \in [1 .. i -> S]
        BY <4>1
      <4> HIDE DEF t
      <4> QED
        BY <4>2
    <3> DEFINE u == <<x>> \o t
    <3>2. /\ u \in Seq(S) /\ Len(u) = i + 1 /\ u[1] = x
          /\ \A j \in 2 .. i + 1 : u[j] = t[j - 1]
      <4> HIDE DEF t, x, S
      <4>1. x \in S
        BY <2>2 DEF S
      <4> QED
        BY <3>1, <4>1
    <3>3. ASSUME NEW j \in 1 .. i + 1
          PROVE  u[j] = h[(i + 1) + 1 - j]
      <4>1. CASE j = 1
        <5>1. (i + 1) + 1 - j = i + 1
          BY <4>1
        <5> QED
          BY <3>2, <4>1, <5>1
      <4>2. CASE j # 1
        <5>1. /\ j \in 2 .. i + 1 /\ j - 1 \in 1 .. i
              /\ i + 1 - (j - 1) = (i + 1) + 1 - j
          BY <4>2
        <5>2. t[j - 1] = h[i + 1 - (j - 1)]
          BY <5>1
        <5>3. PICK k : k = i + 1 - (j - 1)
          OBVIOUS
        <5>4. k = (i + 1) + 1 - j /\ t[j - 1] = h[k]
          BY <5>1, <5>2, <5>3
        <5>5. u[j] = t[j - 1]
          BY <3>2, <5>1
        <5> QED
          BY <5>4, <5>5
      <4> QED
        BY <4>1, <4>2
    <3> DEFINE w == back(i + 1)
    <3>4. /\ DOMAIN w = 1 .. i + 1 /\ w = [j \in DOMAIN w |-> w[j]]
          /\ \A j \in 1 .. i + 1 : w[j] = h[(i + 1) + 1 - j]
      OBVIOUS
    <3> HIDE DEF u, w, h, x, t
    <3>5. u \in Seq(S) /\ DOMAIN u = 1 .. i + 1
      BY <3>2
    <3> QED
      BY <3>3, <3>4, <3>5 DEF u, w
  <2> HIDE DEF back, x
  <2> QED
    BY <2>1, <2>5, <2>6
<1>7. n \in good
  <2> HIDE DEF good
  <2> QED
    BY <1>1, <1>5, <1>6, AllNumbers
<1>8. ok(n)
  <2> HIDE DEF ok
  <2> QED
    BY <1>1, <1>7
<1>9. back(n) = Reverse(h)
  <2>1. \A j \in 1 .. n : (n - j) + 1 = n + 1 - j
    BY <1>1
  <2> DEFINE A(j) == h[n + 1 - j]
             B(j) == h[(n - j) + 1]
  <2>2. \A j \in 1 .. n : A(j) = B(j)
    BY <2>1
  <2>3. /\ back(n) = [j \in 1 .. n |-> A(j)]
        /\ Reverse(h) = [j \in 1 .. n |-> B(j)]
    BY DEF Reverse
  <2> HIDE DEF A, B
  <2> QED
    BY <2>2, <2>3
<1> HIDE DEF back
<1> QED
  BY <1>2, <1>8, <1>9


-----------------------------------------------------------------------------
(* No response is empty.                                                   *)

LEMMA JoinedSymbols ==
  \A x, y \in Seq(Symbol) :
    /\ x \o y \in Seq(Symbol) /\ Len(x \o y) = Len(x) + Len(y)
    /\ Len(x) \in Nat /\ Len(y) \in Nat
<1> DEFINE S == Symbol
<1> HIDE DEF S
<1>1. ASSUME NEW x \in Seq(S), NEW y \in Seq(S)
      PROVE  /\ x \o y \in Seq(S) /\ Len(x \o y) = Len(x) + Len(y)
             /\ Len(x) \in Nat /\ Len(y) \in Nat
  BY Joined2
<1> QED
  BY <1>1 DEF S

LEMMA SymbolsAssociate ==
  \A x, y, z \in Seq(Symbol) : (x \o y) \o z = x \o (y \o z)
<1> DEFINE S == Symbol
<1> HIDE DEF S
<1>1. ASSUME NEW x \in Seq(S), NEW y \in Seq(S), NEW z \in Seq(S)
      PROVE  (x \o y) \o z = x \o (y \o z)
  BY ConcatAssociative
<1> QED
  BY <1>1 DEF S

LEMMA NoSymbols ==
  \A x \in Seq(Symbol) : x \o <<>> = x /\ <<>> \o x = x
<1> DEFINE S == Symbol
<1> HIDE DEF S
<1>1. ASSUME NEW x \in Seq(S)
      PROVE  x \o <<>> = x /\ <<>> \o x = x
  BY ConcatEmptySeq
<1> QED
  BY <1>1 DEF S

\* A symbol is a word and a number.
LEMMA SymbolIs ==
  /\ \A w \in Word, n \in Nat : <<w, n>> \in Symbol
  /\ {"HTTP/1.1", "reason", "Date", "CRLF", "size", "Content-Length",
      "Connection", "keep-alive", "close", "Transfer-Encoding", "chunked",
      "Content-Type", "text/plain", "Service Unavailable"} \subseteq Word
  /\ CRLF \in Symbol
<1>1. \A w \in Word, n \in Nat : <<w, n>> \in Symbol
  BY DEF Symbol
<1>2. "CRLF" \in Word
  BY DEF Word
<1> QED
  BY <1>1, <1>2 DEF Word, CRLF

\* The status line of what is sent.
LEMMA StatusLineIs ==
  ASSUME NEW status \in 100 .. 599
  PROVE  /\ StatusLine(status) \in Seq(Symbol)
         /\ Len(StatusLine(status)) \in 4 .. 5
<1> DEFINE a == << <<"HTTP/1.1", status>> >>
           b == hs_status_text[status]
           c == << CRLF, <<"Date", 0>>, CRLF >>
<1>1. /\ a \in Seq(Symbol) /\ Len(a) = 1
      /\ c \in Seq(Symbol) /\ Len(c) = 3
  <2>1. status \in Nat /\ 0 \in Nat
    OBVIOUS
  <2>2. "HTTP/1.1" \in Word /\ "Date" \in Word
    BY DEF Word
  <2>3. /\ <<"HTTP/1.1", status>> \in Symbol /\ <<"Date", 0>> \in Symbol
        /\ CRLF \in Symbol
    BY <2>1, <2>2, SymbolIs, Zenon
  <2> QED
    BY <2>3
<1>2. b \in Seq(Symbol) /\ Len(b) \in 0 .. 1
  <2>1. b = IF status \in Named THEN << <<"reason", status>> >> ELSE <<>>
    BY DEF hs_status_text
  <2>2. status \in Nat /\ "reason" \in Word
    BY DEF Word
  <2>3. <<"reason", status>> \in Symbol
    BY <2>2, SymbolIs, Zenon
  <2> QED
    BY <2>1, <2>3
<1>3. StatusLine(status) = (a \o b) \o c
  BY DEF StatusLine
<1> HIDE DEF a, b, c
<1>4. a \o b \in Seq(Symbol) /\ Len(a \o b) = 1 + Len(b)
  BY <1>1, <1>2, JoinedSymbols
<1>5. (a \o b) \o c \in Seq(Symbol) /\ Len((a \o b) \o c) = Len(a \o b) + 3
  BY <1>1, <1>4, JoinedSymbols
<1>6. Len((a \o b) \o c) \in 4 .. 5
  <2>1. PICK k : k = Len(b)
    OBVIOUS
  <2> QED
    BY <1>2, <1>4, <1>5, <2>1
<1> QED
  BY <1>3, <1>5, <1>6

\* The headers of a response, the server's own included.
LEMMA HeadSized ==
  ASSUME NEW c, Sized(c), NEW r, NEW hs, Carries(r, hs),
         r.status \in 100 .. 599, Len(r.body) \in Nat,
         NEW keep, NEW chunked
  PROVE  /\ Sized(http_serialize_headers(r, keep, chunked, c))
         /\ http_serialize_headers(r, keep, chunked, c).size > 0
<1> DEFINE word == IF keep THEN "keep-alive" ELSE "close"
           q == hs_response_set_header(r, "Connection", word)
           d == grwprintf(c, StatusLine(q.status))
           e == IF chunked THEN d ELSE grwprintf(d, LengthLine(Len(q.body)))
           more == << <<"Connection", word>> >> \o hs
<1>1. /\ Carries(q, more) /\ q.status = r.status /\ q.body = r.body
  <2>1. word \in Word /\ "Connection" \in Word
    BY DEF Word
  <2> HIDE DEF word
  <2> QED
    BY <2>1, SetCarries
<1>2. http_serialize_headers(r, keep, chunked, c)
        = http_serialize_headers_list(q, e)
  BY DEF http_serialize_headers
<1> HIDE DEF q
<1>3. Sized(d)
  <2>1. Len(StatusLine(q.status)) \in Nat
    BY <1>1, StatusLineIs
  <2> QED
    BY <2>1, PrintfSized
<1> HIDE DEF d
<1>4. Sized(e)
  <2>1. Len(LengthLine(Len(q.body))) \in Nat
    BY DEF LengthLine
  <2> QED
    BY <1>3, <2>1, PrintfSized
<1>5. Len(more) \in Nat /\ DOMAIN q.headers = 1 .. Len(more)
  <2> HIDE DEF more
  <2> QED
    BY <1>1 DEF Carries
<1> HIDE DEF e, more
<1> QED
  BY <1>2, <1>4, <1>5, ListSized

\* What is sent is something, whatever the print buffer does.
LEMMA RespondPrints ==
  ASSUME NEW r, NEW hs, Carries(r, hs), r.status \in 100 .. 599,
         r.body \in Seq(Symbol), NEW keep
  PROVE  Printed(hs_request_respond(r, keep)) # <<>>
<1> DEFINE c == http_serialize_headers(r, keep, FALSE, grwprintf_init(RespCap))
<1>1. Sized(c) /\ c.size > 0
  <2>1. Len(r.body) \in Nat
    OBVIOUS
  <2> QED
    BY <2>1, InitSized, HeadSized
<1>2. hs_request_respond(r, keep) = IF r.body = <<>> THEN c
                                    ELSE grwmemcpy(c, r.body)
  BY DEF hs_request_respond
<1> HIDE DEF c
<1>3. Sized(grwmemcpy(c, r.body)) /\ grwmemcpy(c, r.body).size > 0
  <2>1. Len(r.body) \in Nat
    OBVIOUS
  <2>2. /\ Sized(grwmemcpy(c, r.body))
        /\ grwmemcpy(c, r.body).size = c.size + Len(r.body)
    BY <1>1, <2>1, MemcpySized
  <2>3. c.size \in Nat
    BY <1>1 DEF Sized
  <2> QED
    BY <1>1, <2>1, <2>2, <2>3
<1> QED
  BY <1>1, <1>2, <1>3, PrintedSomething

LEMMA ChunkEndPrints ==
  ASSUME NEW r, NEW hs, Carries(r, hs)
  PROVE  Printed(hs_request_respond_chunk_end(r)) # <<>>
<1> DEFINE c == grwprintf(grwprintf_init(RespCap), << <<"size", 0>>, CRLF >>)
           d == http_serialize_headers_list(r, c)
<1>1. Sized(c)
  <2>1. Len(<< <<"size", 0>>, CRLF >>) \in Nat
    OBVIOUS
  <2> QED
    BY <2>1, InitSized, PrintfSized
<1>2. hs_request_respond_chunk_end(r) = grwprintf(d, <<CRLF>>)
  BY DEF hs_request_respond_chunk_end
<1> HIDE DEF c
<1>3. Sized(d) /\ d.size > 0
  <2>1. Len(hs) \in Nat /\ DOMAIN r.headers = 1 .. Len(hs)
    BY DEF Carries
  <2> QED
    BY <1>1, <2>1, ListSized
<1> HIDE DEF d
<1>4. Sized(grwprintf(d, <<CRLF>>)) /\ grwprintf(d, <<CRLF>>).size > 0
  <2>1. Len(<<CRLF>>) = 1
    OBVIOUS
  <2>2. /\ Sized(grwprintf(d, <<CRLF>>))
        /\ grwprintf(d, <<CRLF>>).size >= d.size + 1
    BY <1>3, <2>1, PrintfSized
  <2>3. d.size \in Nat /\ grwprintf(d, <<CRLF>>).size \in Nat
    BY <1>3, <2>2 DEF Sized
  <2> QED
    BY <1>3, <2>2, <2>3
<1> QED
  BY <1>2, <1>4, PrintedSomething

\* The response that says that the server has no room for a connection.
Refused ==
  hs_response_set_body(
    hs_response_set_header(hs_response_set_status(hs_response_init, 503),
                           "Content-Type", "text/plain"), Unavailable)

LEMMA RefusedIs ==
  /\ Carries(Refused, << <<"Content-Type", "text/plain">> >>)
  /\ Refused.status = 503 /\ Refused.body = Unavailable
  /\ Unavailable \in Seq(Symbol) /\ Len(Unavailable) = 1
  /\ hs_request_respond_error(503, Unavailable)
       = hs_request_respond(Refused, FALSE)
<1> DEFINE a == hs_response_set_status(hs_response_init, 503)
           b == hs_response_set_header(a, "Content-Type", "text/plain")
           c == hs_response_set_body(b, Unavailable)
           hs == << <<"Content-Type", "text/plain">> >>
<1>1. /\ DOMAIN a = {"status", "headers", "body"} /\ a["headers"] = <<>>
      /\ a["status"] = 503
  BY DEF hs_response_set_status, hs_response_init
<1>2. hs_request_respond_error(503, Unavailable) = hs_request_respond(c, FALSE)
  BY DEF hs_request_respond_error
<1>3. Refused = c
  BY DEF Refused
<1> HIDE DEF a
<1>4. Carries(a, <<>>)
  <2>1. /\ <<>> \in Seq(Word \X Word) /\ Len(<<>>) = 0
        /\ \A f : <<>> = [i \in 1 .. 0 |-> f[i]]
    OBVIOUS
  <2> QED
    BY <1>1, <2>1 DEF Carries
<1>5. Carries(b, hs) /\ b.status = 503
  <2>1. /\ Carries(b, << <<"Content-Type", "text/plain">> >> \o <<>>)
        /\ b.status = a.status
    <3>1. "Content-Type" \in Word /\ "text/plain" \in Word
      BY DEF Word
    <3> QED
      BY <1>4, <3>1, SetCarries
  <2>2. << <<"Content-Type", "text/plain">> >> \o <<>> = hs
    OBVIOUS
  <2> HIDE DEF b, hs
  <2> QED
    BY <1>1, <2>1, <2>2
<1> HIDE DEF b, hs
<1>6. /\ DOMAIN c = DOMAIN b /\ c["headers"] = b["headers"]
      /\ c["status"] = b["status"] /\ c["body"] = Unavailable
  <2>1. DOMAIN b = {"status", "headers", "body"}
    BY <1>5 DEF Carries
  <2> QED
    BY <2>1 DEF hs_response_set_body
<1> HIDE DEF c
<1>7. Carries(c, hs) /\ c.status = 503 /\ c.body = Unavailable
  BY <1>5, <1>6 DEF Carries
<1>8. Unavailable \in Seq(Symbol) /\ Len(Unavailable) = 1
  <2> DEFINE x == <<"Service Unavailable", 0>>
  <2>1. x \in Symbol
    BY SymbolIs
  <2> HIDE DEF x
  <2>2. <<x>> \in Seq(Symbol) /\ Len(<<x>>) = 1
    BY <2>1
  <2> QED
    BY <2>2 DEF Unavailable, x
<1> QED
  BY <1>2, <1>3, <1>7, <1>8 DEF hs


\* An answer is made into a response with a status, headers and a body.
LEMMA AnswerMade ==
  ASSUME NEW answer \in AnswerType
  PROVE  /\ Carries(Built(answer), Reverse(answer.headers))
         /\ Built(answer).status \in 100 .. 599
         /\ Built(answer).body \in Seq(Symbol)
<1>1. answer.status \in Int /\ answer.body \in Seq(Symbol)
  BY DEF AnswerType
<1>2. Shown(answer.status) \in 100 .. 599
  BY <1>1 DEF Shown
<1> QED
  BY <1>1, <1>2, BuiltIs

\* While a request is read there is room for more.
LEMMA ReadsOnlyWithRoom ==
  ASSUME DInv, RInv, ReadNothing
  PROVE  Room # 0
<1>1. pc = "read"
  BY DEF ReadNothing
<1>2. Wired /\ Receiving
  BY <1>1 DEF RInv, Accepting, Called, Notified, Complete, Closed
<1>3. PICK j \in 0 .. Total(shape) : Reading(j)
  BY <1>2 DEF Receiving
<1>4. Between(j)
  BY <1>1, <1>3 DEF Reading
<1>5. buffer.capacity \in Nat /\ taken \in Nat
  BY DEF DInv, BufferInv, Rest, ReadBuffers, WireInv
<1>6. buffer.length = taken /\ taken < buffer.capacity
  BY <1>4 DEF Between, Holds
<1> QED
  BY <1>5, <1>6 DEF Room

LEMMA NotDroppedNext ==
  ASSUME Responses \cup Pieces \subseteq AnswerType,
         Modest(shape), DInv, RInv, NotDropped, [Next]_vars
  PROVE  NotDropped'
<1>1. ~ InjectEnd /\ ~ AppReadsChunk
  BY NoStream
<1>2. CASE Arrive \/ ParserEnter \/ ParserStep
  BY <1>2 DEF Arrive, ParserEnter, ParserStep, NotDropped, output, reply
<1>3. CASE Accept \/ OnReadable
  <2>1. "READ" # "CLOSED"
    OBVIOUS
  <2> QED
    BY <1>3, <2>1 DEF Accept, OnReadable, ReadRequest, NotDropped
<1>4. CASE Refuse
  <2>1. wrote' = Printed(hs_request_respond(Refused, FALSE))
    BY <1>4, RefusedIs DEF Refuse
  <2>2. 503 \in 100 .. 599
    OBVIOUS
  <2>3. wrote' # <<>>
    BY <2>1, <2>2, RefusedIs, RespondPrints
  <2> QED
    BY <2>3 DEF NotDropped
<1>5. CASE ReadData
  <2>1. pc = "read" /\ state' = state
    BY <1>5 DEF ReadData
  <2>2. state = "READ"
    BY <2>1 DEF RInv, Accepting, Receiving, Called, Notified, Complete, Closed
  <2> QED
    BY <2>1, <2>2 DEF NotDropped
<1>6. CASE ReadNothing
  <2>1. pc = "read" /\ state' = state
    BY <1>6, ReadsOnlyWithRoom DEF ReadNothing
  <2>2. state = "READ"
    BY <2>1 DEF RInv, Accepting, Receiving, Called, Notified, Complete, Closed
  <2> QED
    BY <2>1, <2>2 DEF NotDropped
<1>7. CASE ParserLeave
  <2>1. state' \in {state, "NOP"} /\ wrote' = wrote
    BY <1>7 DEF ParserLeave, Callback, output, reply
  <2> QED
    BY <2>1 DEF NotDropped
<1>8. CASE AppResponds
  <2>1. PICK answer \in Responses :
          wrote' = Printed(hs_request_respond(Built(answer),
                                              "KEEP_ALIVE" \in Detected))
    BY <1>8 DEF AppResponds
  <2>2. wrote' # <<>>
    BY <2>1, AnswerMade, RespondPrints
  <2> QED
    BY <2>2 DEF NotDropped
<1>9. CASE AppRespondsChunk
  <2>1. pc = "callback" /\ state' = state
    BY <1>9 DEF AppRespondsChunk
  <2>2. state = "NOP"
    BY <2>1 DEF RInv, Accepting, Receiving, Called, Notified, Complete, Closed
  <2> QED
    BY <2>1, <2>2 DEF NotDropped
<1>10. CASE AppRespondsChunkEnd
  <2>1. PICK answer \in Pieces :
          wrote' = Printed(hs_request_respond_chunk_end(Built(answer)))
    BY <1>10 DEF AppRespondsChunkEnd
  <2>2. wrote' # <<>>
    BY <2>1, AnswerMade, ChunkEndPrints
  <2> QED
    BY <2>2 DEF NotDropped
<1>11. CASE UNCHANGED vars
  BY <1>11 DEF vars, output, reply, NotDropped
<1> QED
  BY <1>1, <1>2, <1>3, <1>4, <1>5, <1>6, <1>7, <1>8, <1>9, <1>10, <1>11
     DEF Next, Finished

\* A connection is closed only with a response, whatever the print buffer makes
\* of it: the buffer for requests is never without room when it is read into.
THEOREM NeverDropped ==
  ASSUME Responses \cup Pieces \subseteq AnswerType, \A s \in Shapes : Modest(s)
  PROVE  Spec => []NotDropped
<1>1. Init => NotDropped
  BY DEF Init, NotDropped
<1>2. RInv /\ DInv /\ NotDropped /\ [Next]_vars => NotDropped'
  BY ShapeIn, NotDroppedNext
<1> QED
  BY <1>1, <1>2, ModestInvariant, DataPathInvariant, PTL DEF Spec


-----------------------------------------------------------------------------
(* A print buffer that is large enough has what is printed.                *)

\* It has not grown.
Holding(c, text) ==
  /\ c \in Buffers /\ c.capacity = RespCap
  /\ text \in Seq(Symbol) /\ Printed(c) = text

LEMMA InitHolds ==
  /\ Holding(grwprintf_init(RespCap), <<>>) /\ RespCap \in Nat
  /\ <<>> \in Seq(Symbol) /\ Len(<<>>) = 0
<1> DEFINE c == grwprintf_init(RespCap)
           m == [i \in 1 .. RespCap |-> Junk]
<1>1. RespCap \in Nat
  BY ResponseAssumption
<1>2. c = [capacity |-> RespCap, size |-> 0, mem |-> m]
  BY DEF grwprintf_init
<1>3. m \in [1 .. RespCap -> Symbol]
  BY Symbols
<1> HIDE DEF c, m
<1>4. c \in Buffers
  <2>1. 0 \in Nat /\ 0 <= RespCap
    BY <1>1
  <2> QED
    BY <1>1, <1>2, <1>3, <2>1, IsBuffer
<1>5. c.capacity = RespCap /\ c.size = 0
  BY <1>2
<1>6. Printed(c) = <<>>
  <2>1. Printed(c) \in Seq(Symbol) /\ Len(Printed(c)) = 0
    BY <1>4, <1>5, PrintedSeq
  <2>2. PICK p \in Seq(Symbol) : p = Printed(c)
    BY <2>1
  <2>3. p = <<>>
    BY <2>1, <2>2
  <2> QED
    BY <2>2, <2>3
<1>7. <<>> \in Seq(Symbol) /\ Len(<<>>) = 0
  OBVIOUS
<1> QED
  BY <1>1, <1>4, <1>5, <1>6, <1>7 DEF Holding, c

LEMMA PrintfHolds ==
  ASSUME NEW c, NEW x, Holding(c, x), NEW y \in Seq(Symbol),
         Len(x) + Len(y) < RespCap
  PROVE  Holding(grwprintf(c, y), x \o y)
<1>1. /\ c \in Buffers /\ c.capacity = RespCap /\ Printed(c) = x
      /\ x \in Seq(Symbol)
  BY DEF Holding
<1>2. c.size = Len(x)
  BY <1>1, PrintedSeq
<1>3. /\ grwprintf(c, y) \in Buffers /\ grwprintf(c, y).capacity = c.capacity
      /\ Appended(c, y, grwprintf(c, y))
  <2>1. c.size + Len(y) < c.capacity
    BY <1>1, <1>2
  <2> QED
    BY <1>1, <2>1, PrintfAppends
<1>4. x \o y \in Seq(Symbol)
  BY <1>1, JoinedSymbols
<1> QED
  BY <1>1, <1>3, <1>4 DEF Holding, Appended

LEMMA MemcpyHolds ==
  ASSUME NEW c, NEW x, Holding(c, x), NEW y \in Seq(Symbol)
  PROVE  /\ Printed(grwmemcpy(c, y)) = x \o y
         /\ Len(x) + Len(y) < RespCap => Holding(grwmemcpy(c, y), x \o y)
<1> DEFINE need == c.size + Len(y)
           d    == Store(c, y)
<1>1. /\ c \in Buffers /\ c.capacity = RespCap /\ Printed(c) = x
      /\ x \in Seq(Symbol)
  BY DEF Holding
<1>2. c.size = Len(x) /\ c.size \in Nat /\ RespCap \in Nat /\ Len(y) \in Nat
  BY <1>1, PrintedSeq, BufferFacts, ResponseAssumption
<1>3. /\ grwmemcpy(c, y) \in Buffers
      /\ Appended(c, y, grwmemcpy(c, y))
  BY <1>1, MemcpyAppends
<1>4. x \o y \in Seq(Symbol)
  BY <1>1, JoinedSymbols
<1>5. ASSUME Len(x) + Len(y) < RespCap
      PROVE  grwmemcpy(c, y).capacity = RespCap
  <2>1. ~ (need > c.capacity) /\ c.size + Len(y) <= c.capacity
    BY <1>1, <1>2, <1>5
  <2>2. grwmemcpy(c, y) = [d EXCEPT !.size = need]
    BY <2>1 DEF grwmemcpy
  <2>3. d \in Buffers /\ d.capacity = c.capacity
    BY <1>1, <2>1, StoreExact
  <2> HIDE DEF d, need
  <2>4. [d EXCEPT !.size = need].capacity = d.capacity
    BY <2>3 DEF Buffers
  <2> QED
    BY <1>1, <2>2, <2>3, <2>4
<1> QED
  BY <1>1, <1>3, <1>4, <1>5 DEF Holding, Appended

\* The line of a header.
LineOf(h) == << <<h[1], 0>>, <<h[2], 0>>, CRLF >>

\* The lines of the first i headers of hs.
Till(hs, i) ==
  IF i = 0 THEN <<>> ELSE UpTo([j \in DOMAIN hs |-> LineOf(hs[j])])[i]

LEMMA LineOfIs ==
  ASSUME NEW h \in Word \X Word
  PROVE  LineOf(h) \in Seq(Symbol) /\ Len(LineOf(h)) = 3
<1> DEFINE a == <<h[1], 0>>
           b == <<h[2], 0>>
<1>1. h[1] \in Word /\ h[2] \in Word /\ 0 \in Nat
  OBVIOUS
<1>2. a \in Symbol /\ b \in Symbol /\ CRLF \in Symbol
  BY <1>1, SymbolIs, Zenon
<1> HIDE DEF a, b
<1>3. << a, b, CRLF >> \in Seq(Symbol) /\ Len(<< a, b, CRLF >>) = 3
  BY <1>2
<1> QED
  BY <1>3 DEF LineOf, a, b

LEMMA TillIs ==
  ASSUME NEW hs \in Seq(Word \X Word)
  PROVE  /\ Till(hs, 0) = <<>> /\ Till(hs, Len(hs)) = Lines(hs)
         /\ \A i \in 1 .. Len(hs) :
              Till(hs, i) = Till(hs, i - 1) \o LineOf(hs[i])
         /\ \A i \in 0 .. Len(hs) : /\ Till(hs, i) \in Seq(Symbol)
                                    /\ Len(Till(hs, i)) = 3 * i
<1> DEFINE ls == [j \in DOMAIN hs |-> LineOf(hs[j])]
           n == Len(hs)
<1>1. /\ n \in Nat /\ DOMAIN hs = 1 .. n
      /\ \A i \in 1 .. n : hs[i] \in Word \X Word
  OBVIOUS
<1>2. \A i \in 1 .. n : LineOf(hs[i]) \in Seq(Symbol) /\ Len(LineOf(hs[i])) = 3
  BY <1>1, LineOfIs
<1>3. /\ ls \in Seq(Seq(Symbol)) /\ Len(ls) = n
      /\ \A i \in 1 .. n : ls[i] = LineOf(hs[i])
  <2> HIDE DEF n
  <2>1. ls \in [1 .. n -> Seq(Symbol)]
    BY <1>1, <1>2
  <2>2. \A i \in 1 .. n : ls[i] = LineOf(hs[i])
    BY <1>1
  <2> HIDE DEF ls
  <2>3. ls \in Seq(Seq(Symbol)) /\ Len(ls) = n
    BY <1>1, <2>1
  <2> QED
    BY <2>2, <2>3
<1>4. Lines(hs) = Flat(ls)
  BY DEF Lines, LineOf
<1> HIDE DEF ls
<1>5. /\ \A i \in 1 .. n :
           /\ UpTo(ls)[i] = IF i = 1 THEN ls[i] ELSE UpTo(ls)[i - 1] \o ls[i]
           /\ UpTo(ls)[i] \in Seq(Symbol)
      /\ Flat(ls) = IF ls = <<>> THEN <<>> ELSE UpTo(ls)[n]
  BY <1>3, UpToIs
<1>6. \A i : Till(hs, i) = IF i = 0 THEN <<>> ELSE UpTo(ls)[i]
  BY DEF Till, ls
<1>7. <<>> \in Seq(Symbol) /\ Len(<<>>) = 0
  OBVIOUS
<1> HIDE DEF n
<1>8. Till(hs, 0) = <<>>
  BY <1>6
<1>9. \A i \in 0 .. n : Till(hs, i) \in Seq(Symbol)
  <2> TAKE i \in 0 .. n
  <2>1. CASE i = 0
    BY <1>7, <1>8, <2>1
  <2>2. CASE i # 0
    <3>1. i \in 1 .. n
      BY <1>1, <2>2
    <3> QED
      BY <1>5, <1>6, <2>2, <3>1
  <2> QED
    BY <2>1, <2>2
<1>10. ASSUME NEW i \in 1 .. n
       PROVE  Till(hs, i) = Till(hs, i - 1) \o LineOf(hs[i])
  <2>1. i # 0 /\ ls[i] = LineOf(hs[i]) /\ ls[i] \in Seq(Symbol)
    BY <1>1, <1>2, <1>3
  <2>2. CASE i = 1
    <3>1. i - 1 = 0
      BY <2>2
    <3>2. Till(hs, i) = ls[i]
      BY <1>5, <1>6, <2>1, <2>2
    <3>3. <<>> \o ls[i] = ls[i]
      BY <2>1, NoSymbols
    <3> QED
      BY <1>8, <2>1, <3>1, <3>2, <3>3
  <2>3. CASE i # 1
    <3>1. i - 1 # 0
      BY <2>3
    <3>2. Till(hs, i) = UpTo(ls)[i - 1] \o ls[i]
      BY <1>5, <1>6, <2>1, <2>3
    <3> QED
      BY <1>6, <2>1, <3>1, <3>2
  <2> QED
    BY <2>2, <2>3
<1>11. Till(hs, n) = Lines(hs)
  <2>1. CASE n = 0
    <3>1. ls = <<>>
      BY <1>3, <2>1
    <3> QED
      BY <1>4, <1>5, <1>6, <2>1, <3>1
  <2>2. CASE n # 0
    <3>1. ls # <<>>
      BY <1>3, <1>7, <2>2
    <3> QED
      BY <1>4, <1>5, <1>6, <2>2, <3>1
  <2> QED
    BY <2>1, <2>2
<1> DEFINE good == {i \in Nat : i <= n => Len(Till(hs, i)) = 3 * i}
<1>12. 0 \in good
  BY <1>7, <1>8
<1>13. ASSUME NEW i \in Nat, i \in good
       PROVE  i + 1 \in good
  <2> SUFFICES ASSUME i + 1 <= n
               PROVE  Len(Till(hs, i + 1)) = 3 * (i + 1)
    OBVIOUS
  <2>1. i + 1 \in 1 .. n /\ (i + 1) - 1 = i /\ i \in 0 .. n /\ i <= n
    BY <1>1
  <2>2. Till(hs, i + 1) = Till(hs, i) \o LineOf(hs[i + 1])
    BY <1>10, <2>1
  <2>3. Len(Till(hs, i)) = 3 * i
    BY <1>13, <2>1
  <2>4. Len(Till(hs, i) \o LineOf(hs[i + 1]))
          = Len(Till(hs, i)) + Len(LineOf(hs[i + 1]))
    BY <1>2, <1>9, <2>1, JoinedSymbols
  <2>5. Len(LineOf(hs[i + 1])) = 3
    BY <1>2, <2>1
  <2>6. 3 * i + 3 = 3 * (i + 1)
    OBVIOUS
  <2> QED
    BY <2>2, <2>3, <2>4, <2>5, <2>6
<1>14. \A i \in Nat : i \in good
  <2> HIDE DEF good
  <2>1. \A i \in Nat : i \in good => i + 1 \in good
    BY <1>13
  <2> QED
    BY <1>12, <2>1, AllNumbers, Zenon
<1>15. \A i \in 0 .. n : Len(Till(hs, i)) = 3 * i
  <2>1. \A i \in 0 .. n : i \in Nat /\ i <= n
    BY <1>1
  <2> QED
    BY <1>14, <2>1
<1> QED
  BY <1>8, <1>9, <1>10, <1>11, <1>15 DEF n


\* The lines of the headers and the empty line are printed one after the other.
LEMMA HoldHeaders ==
  ASSUME NEW c, NEW x, Holding(c, x), NEW r, NEW hs, Carries(r, hs),
         Len(x) + 3 * Len(hs) + 1 < RespCap
  PROVE  Holding(http_serialize_headers_list(r, c),
                 (x \o Lines(hs)) \o <<CRLF>>)
<1> DEFINE n == Len(hs)
           h == r.headers
<1>1. /\ hs \in Seq(Word \X Word) /\ n \in Nat /\ DOMAIN h = 1 .. n
      /\ \A i \in 1 .. n : h[i] = [key |-> hs[i][1], value |-> hs[i][2]]
  BY DEF Carries
<1>2. PICK g : /\ Firsts(g, c, h, Printing, n)
               /\ http_serialize_headers_list(r, c)
                    = grwprintf(g[1 .. n], <<CRLF>>)
  <2> HIDE DEF n
  <2> QED
    BY <1>1, HeadersFold
<1>3. /\ g[1 .. 0] = c
      /\ \A i \in 1 .. n :
           g[1 .. i] = grwprintf(g[1 .. (i - 1)], HeaderLine(h[i]))
  BY <1>2, FoldIs DEF Firsts
<1> HIDE <1>2
<1>4. \A i \in 1 .. n : HeaderLine(h[i]) = LineOf(hs[i])
  <2> TAKE i \in 1 .. n
  <2> DEFINE e == [key |-> hs[i][1], value |-> hs[i][2]]
  <2>1. h[i] = e
    BY <1>1
  <2>2. e.key = hs[i][1] /\ e.value = hs[i][2]
    OBVIOUS
  <2> HIDE DEF h, e
  <2> QED
    BY <2>1, <2>2 DEF HeaderLine, LineOf
<1>5. /\ \A i \in 1 .. n : /\ LineOf(hs[i]) \in Seq(Symbol)
                           /\ Len(LineOf(hs[i])) = 3
  <2>1. \A i \in 1 .. n : hs[i] \in Word \X Word
    BY <1>1
  <2> QED
    BY <2>1, LineOfIs
<1>6. /\ Till(hs, 0) = <<>> /\ Till(hs, n) = Lines(hs)
      /\ \A i \in 1 .. n : Till(hs, i) = Till(hs, i - 1) \o LineOf(hs[i])
      /\ \A i \in 0 .. n : /\ Till(hs, i) \in Seq(Symbol)
                           /\ Len(Till(hs, i)) = 3 * i
  BY <1>1, TillIs
<1>7. /\ x \in Seq(Symbol) /\ Len(x) \in Nat /\ RespCap \in Nat
      /\ Len(x) + 3 * n + 1 < RespCap
  BY ResponseAssumption DEF Holding
<1> DEFINE ok(i) == Holding(g[1 .. i], x \o Till(hs, i))
           good == {i \in Nat : i <= n => ok(i)}
<1> HIDE DEF n, h
<1>8. 0 \in good
  <2>1. x \o Till(hs, 0) = x
    BY <1>6, <1>7, NoSymbols
  <2> QED
    BY <1>3, <2>1
<1>9. ASSUME NEW i \in Nat, i \in good
      PROVE  i + 1 \in good
  <2> SUFFICES ASSUME i + 1 <= n
               PROVE  ok(i + 1)
    <3> HIDE DEF ok
    <3> QED
      OBVIOUS
  <2>1. ok(i)
    <3> HIDE DEF ok
    <3>1. i <= n
      BY <1>1
    <3> QED
      BY <1>9, <3>1
  <2>2. /\ i + 1 \in 1 .. n /\ (i + 1) - 1 = i /\ i \in 0 .. n
        /\ 3 * i + 3 <= 3 * n
    BY <1>1
  <2> DEFINE t == Till(hs, i)
             l == LineOf(hs[i + 1])
  <2>3. /\ g[1 .. (i + 1)] = grwprintf(g[1 .. i], l)
        /\ Till(hs, i + 1) = t \o l
    BY <1>3, <1>4, <1>6, <2>2
  <2>4. /\ t \in Seq(Symbol) /\ Len(t) = 3 * i
        /\ l \in Seq(Symbol) /\ Len(l) = 3
    BY <1>5, <1>6, <2>2
  <2> HIDE DEF t, l
  <2>5. Len(x \o t) = Len(x) + Len(t)
    BY <1>7, <2>4, JoinedSymbols
  <2>6. Len(x \o t) + Len(l) < RespCap
    <3>1. PICK k : k = Len(x)
      OBVIOUS
    <3>2. k + 3 * i + 3 < RespCap
      BY <1>1, <1>7, <2>2, <3>1
    <3> QED
      BY <2>4, <2>5, <3>1, <3>2
  <2>7. Holding(grwprintf(g[1 .. i], l), (x \o t) \o l)
    <3>1. Holding(g[1 .. i], x \o t)
      BY <2>1 DEF t
    <3> QED
      BY <2>4, <2>6, <3>1, PrintfHolds
  <2>8. (x \o t) \o l = x \o (t \o l)
    BY <1>7, <2>4, SymbolsAssociate
  <2> QED
    BY <2>3, <2>7, <2>8
<1>10. ok(n)
  <2> HIDE DEF ok
  <2>1. \A i \in Nat : i \in good => i + 1 \in good
    BY <1>9
  <2> HIDE DEF good
  <2>2. n \in good
    BY <1>1, <1>8, <2>1, AllNumbers
  <2> USE DEF good
  <2> QED
    BY <1>1, <2>2
<1>11. Holding(g[1 .. n], x \o Lines(hs))
  BY <1>6, <1>10
<1>12. <<CRLF>> \in Seq(Symbol) /\ Len(<<CRLF>>) = 1
  <2>1. CRLF \in Symbol
    BY SymbolIs
  <2> QED
    BY <2>1
<1>13. Len(x \o Lines(hs)) + Len(<<CRLF>>) < RespCap
  <2>1. Lines(hs) \in Seq(Symbol) /\ Len(Lines(hs)) = 3 * n
    <3>1. n \in 0 .. n
      BY <1>1
    <3> QED
      BY <1>6, <3>1
  <2>2. Len(x \o Lines(hs)) = Len(x) + 3 * n
    BY <1>7, <2>1, JoinedSymbols
  <2> QED
    BY <1>7, <1>12, <2>2
<1>14. Holding(grwprintf(g[1 .. n], <<CRLF>>), (x \o Lines(hs)) \o <<CRLF>>)
  BY <1>11, <1>12, <1>13, PrintfHolds
<1> QED
  BY <1>2, <1>14

LEMMA LengthLineIs ==
  ASSUME NEW k \in Nat
  PROVE  LengthLine(k) \in Seq(Symbol) /\ Len(LengthLine(k)) = 2
<1> DEFINE a == <<"Content-Length", k>>
<1>1. a \in Symbol /\ CRLF \in Symbol
  <2>1. "Content-Length" \in Word
    BY DEF Word
  <2> QED
    BY <2>1, SymbolIs, Zenon
<1> HIDE DEF a
<1>2. <<a, CRLF>> \in Seq(Symbol) /\ Len(<<a, CRLF>>) = 2
  BY <1>1
<1> QED
  BY <1>2 DEF LengthLine, a

\* What the header that keeps or closes the connection says.
KeepWord(keep) == IF keep THEN "keep-alive" ELSE "close"

\* What http_serialize_headers prints, into an empty buffer.
LEMMA HoldHead ==
  ASSUME NEW r, NEW hs, Carries(r, hs), r.status \in 100 .. 599,
         r.body \in Seq(Symbol), NEW keep, NEW chunked,
         Len(StatusLine(r.status)) + (IF chunked THEN 0 ELSE 2)
           + 3 * (Len(hs) + 1) + 1 < RespCap
  PROVE  Holding(http_serialize_headers(r, keep, chunked,
                                        grwprintf_init(RespCap)),
                 ResponseHead(r.status,
                              << <<"Connection", KeepWord(keep)>> >> \o hs,
                              IF chunked THEN <<>>
                                         ELSE LengthLine(Len(r.body))))
<1> DEFINE word == IF keep THEN "keep-alive" ELSE "close"
           q == hs_response_set_header(r, "Connection", word)
           i == grwprintf_init(RespCap)
           s == StatusLine(r.status)
           l == LengthLine(Len(r.body))
           d == grwprintf(i, StatusLine(q.status))
           e == IF chunked THEN d ELSE grwprintf(d, LengthLine(Len(q.body)))
           x == IF chunked THEN s ELSE s \o l
           more == << <<"Connection", word>> >> \o hs
<1>1. /\ Carries(q, more) /\ q.status = r.status /\ q.body = r.body
  <2>1. word \in Word /\ "Connection" \in Word
    BY DEF Word
  <2> HIDE DEF word
  <2> QED
    BY <2>1, SetCarries
<1>2. http_serialize_headers(r, keep, chunked, i)
        = http_serialize_headers_list(q, e)
  BY DEF http_serialize_headers
<1>3. Len(more) = Len(hs) + 1 /\ Len(hs) \in Nat
  <2>1. word \in Word /\ "Connection" \in Word
    BY DEF Word
  <2>2. <<"Connection", word>> \in Word \X Word /\ hs \in Seq(Word \X Word)
    BY <2>1 DEF Carries
  <2> DEFINE S == Word \X Word
             a == <<"Connection", word>>
  <2>3. a \in S /\ hs \in Seq(S)
    BY <2>2
  <2> HIDE DEF S, a
  <2>4. Len(<<a>> \o hs) = Len(hs) + 1 /\ Len(hs) \in Nat
    BY <2>3
  <2> QED
    BY <2>4 DEF a
<1>4. /\ s \in Seq(Symbol) /\ Len(s) \in 4 .. 5
      /\ l \in Seq(Symbol) /\ Len(l) = 2
  <2>1. Len(r.body) \in Nat
    OBVIOUS
  <2> QED
    BY <2>1, StatusLineIs, LengthLineIs
<1>5. Len(s) + (IF chunked THEN 0 ELSE 2) + 3 * (Len(hs) + 1) + 1 < RespCap
  OBVIOUS
<1>6. d = grwprintf(i, s) /\ e = IF chunked THEN d ELSE grwprintf(d, l)
  BY <1>1
<1> HIDE DEF q, i, d, e, more, s, l, x
<1>7. /\ Holding(i, <<>>) /\ RespCap \in Nat
      /\ <<>> \in Seq(Symbol) /\ Len(<<>>) = 0
  BY InitHolds DEF i
<1>8. Holding(d, s)
  <2>1. Len(<<>>) + Len(s) < RespCap
    <3>1. PICK a : a = Len(s)
      OBVIOUS
    <3>2. PICK k : k = Len(hs)
      OBVIOUS
    <3>3. a \in 4 .. 5 /\ k \in Nat
      BY <1>3, <1>4, <3>1, <3>2
    <3>4. a + (IF chunked THEN 0 ELSE 2) + 3 * (k + 1) + 1 < RespCap
      BY <1>5, <3>1, <3>2
    <3>5. a < RespCap
      BY <1>7, <3>3, <3>4
    <3> QED
      BY <1>4, <1>7, <3>1, <3>5
  <2>2. Holding(grwprintf(i, s), <<>> \o s)
    BY <1>4, <1>7, <2>1, PrintfHolds
  <2>3. <<>> \o s = s
    BY <1>4, NoSymbols
  <2> QED
    BY <1>6, <2>2, <2>3
<1>9. Holding(e, x) /\ Len(x) + 3 * Len(more) + 1 < RespCap
  <2>1. CASE chunked
    <3>1. e = d /\ x = s
      BY <1>6, <2>1 DEF x
    <3> QED
      BY <1>3, <1>4, <1>5, <1>7, <1>8, <2>1, <3>1
  <2>2. CASE ~ chunked
    <3>1. e = grwprintf(d, l) /\ x = s \o l
      BY <1>6, <2>2 DEF x
    <3>2. Len(s) + Len(l) < RespCap
      BY <1>3, <1>4, <1>5, <1>7, <2>2
    <3>3. Holding(e, x)
      BY <1>4, <1>8, <3>1, <3>2, PrintfHolds
    <3>4. Len(x) = Len(s) + Len(l)
      BY <1>4, <3>1, JoinedSymbols
    <3> QED
      BY <1>3, <1>4, <1>5, <1>7, <2>2, <3>3, <3>4
  <2> QED
    BY <2>1, <2>2
<1>10. Holding(http_serialize_headers_list(q, e),
               (x \o Lines(more)) \o <<CRLF>>)
  BY <1>1, <1>9, HoldHeaders
<1>11. x = s \o (IF chunked THEN <<>> ELSE l)
  <2>1. s \o <<>> = s
    BY <1>4, NoSymbols
  <2> QED
    BY <2>1 DEF x
<1>12. ResponseHead(r.status, more, IF chunked THEN <<>> ELSE l)
         = (x \o Lines(more)) \o <<CRLF>>
  BY <1>11 DEF ResponseHead, s
<1>13. more = << <<"Connection", KeepWord(keep)>> >> \o hs
  BY DEF more, KeepWord
<1> QED
  BY <1>2, <1>10, <1>12, <1>13 DEF i, l


-----------------------------------------------------------------------------
(* What is sent, when the print buffer is large enough.                    *)

LEMMA HeadLength ==
  ASSUME NEW status \in 100 .. 599, NEW hs \in Seq(Word \X Word),
         NEW l \in Seq(Symbol)
  PROVE  /\ ResponseHead(status, hs, l) \in Seq(Symbol)
         /\ Len(ResponseHead(status, hs, l))
              = Len(StatusLine(status)) + Len(l) + 3 * Len(hs) + 1
<1> DEFINE s == StatusLine(status)
           m == Lines(hs)
           n == Len(hs)
<1>1. s \in Seq(Symbol) /\ Len(s) \in Nat /\ Len(l) \in Nat /\ n \in Nat
  <2>1. s \in Seq(Symbol)
    BY StatusLineIs
  <2> HIDE DEF s
  <2> QED
    BY <2>1
<1>2. m \in Seq(Symbol) /\ Len(m) = 3 * n
  <2>1. n \in 0 .. n
    BY <1>1
  <2> QED
    BY <2>1, TillIs
<1>3. <<CRLF>> \in Seq(Symbol) /\ Len(<<CRLF>>) = 1
  <2>1. CRLF \in Symbol
    BY SymbolIs
  <2> QED
    BY <2>1
<1>4. ResponseHead(status, hs, l) = ((s \o l) \o m) \o <<CRLF>>
  BY DEF ResponseHead
<1> HIDE DEF s, m, n
<1>5. s \o l \in Seq(Symbol) /\ Len(s \o l) = Len(s) + Len(l)
  BY <1>1, JoinedSymbols
<1>6. /\ (s \o l) \o m \in Seq(Symbol)
      /\ Len((s \o l) \o m) = Len(s \o l) + Len(m)
  BY <1>2, <1>5, JoinedSymbols
<1>7. /\ ((s \o l) \o m) \o <<CRLF>> \in Seq(Symbol)
      /\ Len(((s \o l) \o m) \o <<CRLF>>) = Len((s \o l) \o m) + 1
  BY <1>3, <1>6, JoinedSymbols
<1>8. Len(((s \o l) \o m) \o <<CRLF>>) = Len(s) + Len(l) + 3 * n + 1
  <2>1. PICK a : a = Len(s)
    OBVIOUS
  <2>2. PICK b : b = Len(l)
    OBVIOUS
  <2> QED
    BY <1>1, <1>2, <1>5, <1>6, <1>7, <2>1, <2>2
<1> QED
  BY <1>4, <1>7, <1>8 DEF s, n

\* hs_request_respond
LEMMA RespondExact ==
  ASSUME NEW r, NEW hs, Carries(r, hs), r.status \in 100 .. 599,
         r.body \in Seq(Symbol), NEW keep,
         Len(StatusLine(r.status)) + 2 + 3 * (Len(hs) + 1) + 1 < RespCap
  PROVE  Printed(hs_request_respond(r, keep))
           = ResponseHead(r.status,
                          << <<"Connection", KeepWord(keep)>> >> \o hs,
                          LengthLine(Len(r.body))) \o r.body
<1> DEFINE i == grwprintf_init(RespCap)
           c == http_serialize_headers(r, keep, FALSE, i)
           head == ResponseHead(r.status,
                                << <<"Connection", KeepWord(keep)>> >> \o hs,
                                LengthLine(Len(r.body)))
<1>1. Holding(c, head)
  BY HoldHead
<1>2. hs_request_respond(r, keep) = IF r.body = <<>> THEN c
                                    ELSE grwmemcpy(c, r.body)
  BY DEF hs_request_respond
<1> HIDE DEF c, head
<1>3. Printed(grwmemcpy(c, r.body)) = head \o r.body
  BY <1>1, MemcpyHolds
<1>4. Printed(c) = head /\ head \in Seq(Symbol)
  BY <1>1 DEF Holding
<1>5. head \o <<>> = head
  BY <1>4, NoSymbols
<1> QED
  BY <1>2, <1>3, <1>4, <1>5 DEF head

LEMMA SizeLineIs ==
  ASSUME NEW k \in Nat
  PROVE  /\ << <<"size", k>>, CRLF >> \in Seq(Symbol)
         /\ Len(<< <<"size", k>>, CRLF >>) = 2
         /\ <<CRLF>> \in Seq(Symbol) /\ Len(<<CRLF>>) = 1
<1> DEFINE a == <<"size", k>>
<1>1. a \in Symbol /\ CRLF \in Symbol
  <2>1. "size" \in Word
    BY DEF Word
  <2> QED
    BY <2>1, SymbolIs, Zenon
<1> HIDE DEF a
<1>2. /\ <<a, CRLF>> \in Seq(Symbol) /\ Len(<<a, CRLF>>) = 2
      /\ <<CRLF>> \in Seq(Symbol) /\ Len(<<CRLF>>) = 1
  BY <1>1
<1> QED
  BY <1>2 DEF a

\* A chunk, behind what is in the print buffer.
LEMMA ChunkHolds ==
  ASSUME NEW c, NEW x, Holding(c, x), NEW text \in Seq(Symbol),
         Len(x) + 2 + Len(text) + 1 < RespCap
  PROVE  LET d == grwprintf(c, << <<"size", Len(text)>>, CRLF >>)
         IN  Printed(grwprintf(grwmemcpy(d, text), <<CRLF>>))
               = x \o ((<< <<"size", Len(text)>>, CRLF >> \o text) \o <<CRLF>>)
<1> DEFINE y == << <<"size", Len(text)>>, CRLF >>
           z == <<CRLF>>
           d == grwprintf(c, y)
           e == grwmemcpy(d, text)
<1>1. /\ y \in Seq(Symbol) /\ Len(y) = 2 /\ z \in Seq(Symbol) /\ Len(z) = 1
      /\ Len(text) \in Nat
  <2>1. Len(text) \in Nat
    OBVIOUS
  <2> QED
    BY <2>1, SizeLineIs
<1>2. /\ x \in Seq(Symbol) /\ Len(x) \in Nat /\ RespCap \in Nat
      /\ Len(x) + 2 + Len(text) + 1 < RespCap
  BY ResponseAssumption DEF Holding
<1> HIDE DEF y, z
<1>3. PICK a : a = Len(x)
  OBVIOUS
<1>4. PICK b : b = Len(text)
  OBVIOUS
<1>5. a \in Nat /\ b \in Nat /\ a + 2 + b + 1 < RespCap
  BY <1>1, <1>2, <1>3, <1>4
<1>6. Holding(d, x \o y)
  <2>1. Len(x) + Len(y) < RespCap
    BY <1>1, <1>2, <1>3, <1>5
  <2> QED
    BY <1>1, <2>1, PrintfHolds
<1> HIDE DEF d
<1>7. x \o y \in Seq(Symbol) /\ Len(x \o y) = a + 2
  <2>1. x \o y \in Seq(Symbol) /\ Len(x \o y) = Len(x) + Len(y)
    BY <1>1, <1>2, JoinedSymbols
  <2> QED
    BY <1>1, <1>3, <2>1
<1>8. Holding(e, (x \o y) \o text)
  <2>1. Len(x \o y) + Len(text) < RespCap
    BY <1>2, <1>4, <1>5, <1>7
  <2> QED
    BY <1>6, <2>1, MemcpyHolds
<1> HIDE DEF e
<1>9. Holding(grwprintf(e, z), ((x \o y) \o text) \o z)
  <2>1. Len((x \o y) \o text) = (a + 2) + b
    BY <1>4, <1>7, JoinedSymbols
  <2>2. Len((x \o y) \o text) + Len(z) < RespCap
    BY <1>1, <1>2, <1>5, <2>1
  <2> QED
    BY <1>1, <1>8, <2>2, PrintfHolds
<1>10. ((x \o y) \o text) \o z = x \o ((y \o text) \o z)
  <2>1. y \o text \in Seq(Symbol)
    BY <1>1, JoinedSymbols
  <2>2. (x \o y) \o text = x \o (y \o text)
    BY <1>1, <1>2, SymbolsAssociate
  <2>3. (x \o (y \o text)) \o z = x \o ((y \o text) \o z)
    BY <1>1, <1>2, <2>1, SymbolsAssociate
  <2> QED
    BY <2>2, <2>3
<1>11. Printed(grwprintf(e, z)) = x \o ((y \o text) \o z)
  BY <1>9, <1>10 DEF Holding
<1> QED
  BY <1>11 DEF d, e, y, z

\* hs_request_respond_chunk, for the first chunk ...
LEMMA FirstChunkExact ==
  ASSUME NEW r, NEW hs, Carries(r, hs), r.status \in 100 .. 599,
         r.body \in Seq(Symbol), NEW keep,
         Len(StatusLine(r.status)) + 3 * (Len(hs) + 2) + 1
           + 2 + Len(r.body) + 1 < RespCap
  PROVE  Printed(hs_request_respond_chunk(r, keep, TRUE))
           = ResponseHead(r.status,
                          << <<"Connection", KeepWord(keep)>> >>
                            \o (<< <<"Transfer-Encoding", "chunked">> >> \o hs),
                          <<>>)
             \o ((<< <<"size", Len(r.body)>>, CRLF >> \o r.body) \o <<CRLF>>)
<1> DEFINE q == hs_response_set_header(r, "Transfer-Encoding", "chunked")
           i == grwprintf_init(RespCap)
           c == http_serialize_headers(q, keep, TRUE, i)
           te == << <<"Transfer-Encoding", "chunked">> >>
           con == << <<"Connection", KeepWord(keep)>> >>
           all == con \o (te \o hs)
           head == ResponseHead(r.status, all, <<>>)
           n == Len(hs)
<1>1. /\ Carries(q, te \o hs) /\ q.status = r.status /\ q.body = r.body
  <2>1. "Transfer-Encoding" \in Word /\ "chunked" \in Word
    BY DEF Word
  <2> QED
    BY <2>1, SetCarries
<1> HIDE DEF q
<1>2. /\ all \in Seq(Word \X Word) /\ Len(all) = n + 2 /\ Len(te \o hs) = n + 1
      /\ n \in Nat
  <2> DEFINE S == Word \X Word
             x == <<"Transfer-Encoding", "chunked">>
             y == <<"Connection", KeepWord(keep)>>
  <2>1. x \in S /\ y \in S /\ hs \in Seq(S)
    <3>1. "Transfer-Encoding" \in Word /\ "chunked" \in Word
      BY DEF Word
    <3>2. "Connection" \in Word /\ "keep-alive" \in Word /\ "close" \in Word
      BY DEF Word
    <3> QED
      BY <3>1, <3>2 DEF Carries, KeepWord
  <2> HIDE DEF S, x, y
  <2>2. /\ <<x>> \o hs \in Seq(S) /\ Len(<<x>> \o hs) = n + 1 /\ n \in Nat
    BY <2>1
  <2>3. PICK t : t = <<x>> \o hs
    OBVIOUS
  <2>4. <<y>> \o t \in Seq(S) /\ Len(<<y>> \o t) = (n + 1) + 1
    BY <2>1, <2>2, <2>3
  <2> QED
    BY <2>2, <2>3, <2>4 DEF x, y, S
<1>3. PICK a : a = Len(StatusLine(r.status))
  OBVIOUS
<1>4. PICK b : b = Len(r.body)
  OBVIOUS
<1>5. /\ a \in Nat /\ b \in Nat /\ RespCap \in Nat
      /\ a + 3 * (n + 2) + 1 + 2 + b + 1 < RespCap
  <2>1. a \in Nat
    BY <1>3, StatusLineIs
  <2>2. b \in Nat
    BY <1>4
  <2> QED
    BY <1>3, <1>4, <2>1, <2>2, ResponseAssumption
<1> HIDE DEF n, all
<1>6. Holding(c, head)
  <2>1. Len(StatusLine(q.status)) + (IF TRUE THEN 0 ELSE 2)
          + 3 * (Len(te \o hs) + 1) + 1 < RespCap
    BY <1>1, <1>2, <1>3, <1>5
  <2>2. Holding(c, ResponseHead(q.status, con \o (te \o hs),
                                IF TRUE THEN <<>> ELSE LengthLine(Len(q.body))))
    <3> HIDE DEF te
    <3> QED
      BY <1>1, <2>1, HoldHead
  <2> QED
    BY <1>1, <2>2 DEF all
<1>7. Len(head) = a + 0 + 3 * (n + 2) + 1
  <2>1. <<>> \in Seq(Symbol) /\ Len(<<>>) = 0
    OBVIOUS
  <2>2. PICK st \in 100 .. 599 : st = r.status
    OBVIOUS
  <2>3. Len(ResponseHead(st, all, <<>>))
          = Len(StatusLine(st)) + Len(<<>>) + 3 * Len(all) + 1
    BY <1>2, <2>1, HeadLength
  <2>4. Len(StatusLine(st)) = a
    BY <1>3, <2>2
  <2>5. a + 0 + 3 * (n + 2) + 1
          = Len(StatusLine(st)) + Len(<<>>) + 3 * Len(all) + 1
    BY <1>2, <2>1, <2>4
  <2> QED
    BY <2>2, <2>3, <2>5
<1> HIDE DEF head, c
<1>8. Len(head) + 2 + Len(r.body) + 1 < RespCap
  <2>1. PICK h : h = Len(head)
    OBVIOUS
  <2>2. h = a + 0 + 3 * (n + 2) + 1
    BY <1>7, <2>1
  <2>3. h + 2 + b + 1 < RespCap
    BY <1>2, <1>5, <2>2
  <2> QED
    BY <1>4, <2>1, <2>3
<1>9. hs_request_respond_chunk(r, keep, TRUE)
        = grwprintf(grwmemcpy(grwprintf(c, << <<"size", Len(r.body)>>, CRLF >>),
                              r.body), <<CRLF>>)
  BY DEF hs_request_respond_chunk, c, q, i
<1> QED
  BY <1>6, <1>8, <1>9, ChunkHolds DEF head, all

\* ... and for another one.
LEMMA NextChunkExact ==
  ASSUME NEW r, r.body \in Seq(Symbol), NEW keep,
         2 + Len(r.body) + 1 < RespCap
  PROVE  Printed(hs_request_respond_chunk(r, keep, FALSE))
           = <<>> \o ((<< <<"size", Len(r.body)>>, CRLF >> \o r.body)
                        \o <<CRLF>>)
<1> DEFINE i == grwprintf_init(RespCap)
<1>1. Holding(i, <<>>) /\ Len(<<>>) = 0 /\ Len(r.body) \in Nat
  BY InitHolds
<1>2. Len(<<>>) + 2 + Len(r.body) + 1 < RespCap
  BY <1>1
<1>3. hs_request_respond_chunk(r, keep, FALSE)
        = grwprintf(grwmemcpy(grwprintf(i, << <<"size", Len(r.body)>>, CRLF >>),
                              r.body), <<CRLF>>)
  BY DEF hs_request_respond_chunk
<1> HIDE DEF i
<1> QED
  BY <1>1, <1>2, <1>3, ChunkHolds

\* hs_request_respond_chunk_end
LEMMA EndExact ==
  ASSUME NEW r, NEW hs, Carries(r, hs), 2 + 3 * Len(hs) + 1 + 1 < RespCap
  PROVE  Printed(hs_request_respond_chunk_end(r))
           = (<< <<"size", 0>>, CRLF >> \o Lines(hs)) \o <<CRLF, CRLF>>
<1> DEFINE i == grwprintf_init(RespCap)
           y == << <<"size", 0>>, CRLF >>
           z == <<CRLF>>
           m == Lines(hs)
           c == grwprintf(i, y)
           d == http_serialize_headers_list(r, c)
           n == Len(hs)
<1>1. hs_request_respond_chunk_end(r) = grwprintf(d, z)
  BY DEF hs_request_respond_chunk_end
<1>2. /\ Holding(i, <<>>) /\ Len(<<>>) = 0 /\ RespCap \in Nat
  BY InitHolds
<1>3. y \in Seq(Symbol) /\ Len(y) = 2 /\ z \in Seq(Symbol) /\ Len(z) = 1
  BY SizeLineIs
<1>4. n \in Nat /\ 2 + 3 * n + 1 + 1 < RespCap /\ hs \in Seq(Word \X Word)
  BY DEF Carries
<1>5. m \in Seq(Symbol) /\ Len(m) = 3 * n
  <2>1. n \in 0 .. n
    BY <1>4
  <2> QED
    BY <1>4, <2>1, TillIs
<1>6. z \o z = <<CRLF, CRLF>>
  <2> DEFINE S == Symbol
             e == CRLF
  <2>1. e \in S
    BY SymbolIs
  <2> HIDE DEF S, e
  <2>2. PICK u : u = <<e>> \o <<e>>
    OBVIOUS
  <2>3. u \in Seq(S) /\ Len(u) = 2 /\ u[1] = e /\ u[2] = e
    BY <2>1, <2>2
  <2>4. u = <<e, e>>
    BY <2>1, <2>3
  <2> QED
    BY <2>2, <2>4 DEF e
<1> HIDE DEF i, y, z, m, n
<1>7. Holding(c, y)
  <2>1. Len(<<>>) + Len(y) < RespCap
    BY <1>2, <1>3, <1>4
  <2>2. Holding(c, <<>> \o y)
    BY <1>2, <1>3, <2>1, PrintfHolds
  <2>3. <<>> \o y = y
    BY <1>3, NoSymbols
  <2> QED
    BY <2>2, <2>3
<1> HIDE DEF c
<1>8. Holding(d, (y \o m) \o z)
  <2>1. Len(y) + 3 * Len(hs) + 1 < RespCap
    BY <1>2, <1>3, <1>4 DEF n
  <2> QED
    BY <1>7, <2>1, HoldHeaders DEF m, z
<1> HIDE DEF d
<1>9. y \o m \in Seq(Symbol) /\ Len(y \o m) = 2 + 3 * n
  BY <1>3, <1>5, JoinedSymbols
<1>10. /\ (y \o m) \o z \in Seq(Symbol)
       /\ Len((y \o m) \o z) = (2 + 3 * n) + 1
  BY <1>3, <1>9, JoinedSymbols
<1>11. Holding(grwprintf(d, z), ((y \o m) \o z) \o z)
  <2>1. Len((y \o m) \o z) + Len(z) < RespCap
    BY <1>2, <1>3, <1>4, <1>10
  <2> QED
    BY <1>3, <1>8, <2>1, PrintfHolds
<1>12. ((y \o m) \o z) \o z = (y \o m) \o (z \o z)
  BY <1>3, <1>9, SymbolsAssociate
<1> QED
  BY <1>1, <1>6, <1>11, <1>12 DEF Holding, y, m


-----------------------------------------------------------------------------
(* Whether the connection is kept.                                         *)

\* The version is the one that was sent.
LEMMA VersionGiven ==
  ASSUME NEW s \in Shapes, Allowed(s), NEW b, NEW all, Kept(s, b, all)
  PROVE  hs_get_token_string(b, all, "VERSION") = <<s.version>>
<1> DEFINE d == Total(s)
           l == Len(Wire[s])
           t == Len(s.target)
           v == <<s.version>>
           token == Tok("VERSION", 3 + t, 1, {})
<1>1. /\ d \in Nat /\ d >= 2 * Count(s) + 4 /\ Len(all) \in Nat
      /\ Len(all) >= d
      /\ \A k \in 1 .. d : IsToken(s, k, all[k])
  BY AllListed DEF Kept
<1>2. Count(s) \in Nat \ {0}
  BY TailFacts
<1>3. /\ t \in Nat /\ HeadLen(s) \in Nat /\ t + 8 <= HeadLen(s)
      /\ Wire[s][t + 4] \in {"HTTP/1.0", "HTTP/1.1"}
  BY LineFacts
<1>4. /\ Wire[s][t + 4] = s.version /\ Size(s) \in Nat
      /\ l = HeadLen(s) + Size(s) /\ Wire[s] \in Seq(Byte)
  BY Layout DEF Allowed
<1> HIDE DEF d, l, t, v, token
<1>5. /\ 1 \in 1 .. d /\ 2 \in 1 .. d /\ 3 \in 1 .. d
      /\ 3 \in 1 .. Len(all) /\ 1 .. 3 - 1 = {1, 2}
  BY <1>1, <1>2
<1>6. all[1] = Tok("METHOD", 0, 1, {}) /\ all[2] = Tok("TARGET", 2, t, {})
  BY <1>1, <1>5, TokenAt DEF t
<1>7. all[3] = token
  BY <1>1, <1>5, TokenAt DEF token, t
<1>8. /\ all[1].type = "METHOD" /\ all[2].type = "TARGET"
      /\ all[3].type = "VERSION"
  BY <1>6, <1>7 DEF Tok, token
<1>9. SelectInSeq(all, LAMBDA x : x.type = "VERSION") = 3
  <2>1. all \in Seq(Token)
    BY DEF Kept
  <2> QED
    BY <1>5, <1>8, <2>1, FirstOf
<1>10. String(b, token) = v
  <2>1. s.version \in Byte
    <3>1. l \in Nat /\ t + 4 \in 1 .. l
      BY <1>3, <1>4
    <3> QED
      BY <1>4, <3>1 DEF l
  <2>2. v \in Seq(Byte) /\ Len(v) = 1 /\ v[1] = s.version
    BY <2>1 DEF v
  <2>3. 3 + t \in Nat /\ (3 + t) + 1 = t + 4 /\ (3 + t) + 1 <= l
    BY <1>3, <1>4
  <2>4. \A j \in 1 .. 1 : Wire[s][(3 + t) + j] = v[j]
    BY <1>4, <2>2, <2>3
  <2>5. HasAt(s, 3 + t, v)
    BY <2>2, <2>3, <2>4 DEF HasAt, l
  <2>6. String(b, Tok("VERSION", 3 + t, Len(v), {})) = v
    BY <2>5, PartGiven
  <2> QED
    BY <2>2, <2>6 DEF token
<1> QED
  BY <1>7, <1>9, <1>10 DEF hs_get_token_string, v

\* The names and the values of the headers.
LEMMA KeysAre ==
  ASSUME NEW s \in Shapes, Allowed(s), NEW b, NEW all, Kept(s, b, all)
  PROVE  \A i \in 1 .. Count(s) :
           /\ all[2 * i + 2] = Tok("HEADER_KEY", LineAt(s, i), KeyLen(s, i), {})
           /\ String(b, all[2 * i + 2]) = Headers(s)[i][1]
           /\ String(b, all[2 * i + 3]) = Headers(s)[i][2]
<1> TAKE i \in 1 .. Count(s)
<1> DEFINE d == Total(s)
           n == Count(s)
           key_ == Headers(s)[i][1]
           val_ == Headers(s)[i][2]
           token == Tok("HEADER_KEY", LineAt(s, i), KeyLen(s, i), {})
<1>1. /\ d \in Nat /\ d >= 2 * n + 4
      /\ \A k \in 1 .. d : IsToken(s, k, all[k])
  BY AllListed DEF Kept
<1>2. n \in Nat \ {0} /\ i \in 1 .. n
  BY TailFacts
<1>3. GetHeader(b, all, 2 * i + 1) = [more |-> TRUE, key |-> key_, val |-> val_]
  BY HeaderGiven
<1> HIDE DEF d, n, key_, val_, token
<1>4. /\ 2 * i + 2 \in 1 .. d /\ 2 * i + 2 \in Nat
      /\ (2 * i + 1) + 1 = 2 * i + 2 /\ (2 * i + 1) + 2 = 2 * i + 3
  BY <1>1, <1>2
<1>5. all[2 * i + 2] = token
  BY <1>1, <1>4, TokenAt DEF token
<1>6. all[2 * i + 2].type # "HEADERS_DONE"
  BY <1>5 DEF token, Tok
<1>7. GetHeader(b, all, 2 * i + 1)
        = [more |-> TRUE, key |-> String(b, all[2 * i + 2]),
           val |-> String(b, all[2 * i + 3])]
  BY <1>4, <1>6 DEF GetHeader
<1>8. String(b, all[2 * i + 2]) = key_ /\ String(b, all[2 * i + 3]) = val_
  BY <1>3, <1>7
<1> QED
  BY <1>5, <1>8 DEF token, key_, val_

\* Each key token is that of a header, and the first ones are in their places.
LEMMA OnlyKeys ==
  ASSUME NEW s \in Shapes, Allowed(s), NEW b, NEW all, Kept(s, b, all),
         NEW j \in 1 .. Len(all), all[j].type = "HEADER_KEY"
  PROVE  \E i \in 1 .. Count(s) :
           all[j] = all[2 * i + 2] /\ (j <= Total(s) => j = 2 * i + 2)
<1> DEFINE d == Total(s)
           n == Count(s)
           T(i) == Tok("HEADER_KEY", LineAt(s, i), KeyLen(s, i), {})
<1>1. /\ d \in Nat /\ Len(all) \in Nat
      /\ \A k \in 1 .. d : IsToken(s, k, all[k])
  BY AllListed DEF Kept
<1>2. \A k \in DOMAIN all : \E m \in 1 .. d : IsToken(s, m, all[k])
  BY Zenon DEF Kept, Listed
<1>3. j \in DOMAIN all
  BY DEF Kept
<1>4. \A i \in 1 .. n : all[2 * i + 2] = T(i)
  BY KeysAre
<1> HIDE DEF d, n, T
<1>5. ASSUME NEW k, IsToken(s, k, all[j])
      PROVE  \E i \in 1 .. n : k = 2 * i + 2 /\ all[j] = T(i)
  <2> DEFINE t == all[j]
             V(i) == Tok("HEADER_VALUE", TextAt(s, i), TextLen(s, i), {})
             m == Tok("METHOD", 0, 1, {})
             g == Tok("TARGET", 2, Len(s.target), {})
             v == Tok("VERSION", 3 + Len(s.target), 1, {})
             e == Tok("HEADERS_DONE", 0, 0,
                      IF Size(s) > 0 THEN {} ELSE {"NO_BODY"})
             y == Tok("BODY", HeadLen(s), Size(s), {"SMALL_BODY"})
  <2>1. \/ t \in {m, g, v, e, y}
        \/ \E i \in 1 .. n : k = 2 * i + 2 /\ t = T(i)
        \/ \E i \in 1 .. n : t = V(i)
    BY <1>5 DEF IsToken, T, n
  <2>2. /\ m.type = "METHOD" /\ g.type = "TARGET" /\ v.type = "VERSION"
        /\ e.type = "HEADERS_DONE" /\ y.type = "BODY"
        /\ \A i : V(i).type = "HEADER_VALUE"
    BY DEF Tok
  <2> HIDE DEF V, m, g, v, e, y
  <2> QED
    BY <2>1, <2>2
<1>6. CASE j <= d
  <2>1. IsToken(s, j, all[j])
    BY <1>1, <1>6
  <2>2. PICK i \in 1 .. n : j = 2 * i + 2 /\ all[j] = T(i)
    BY <1>5, <2>1
  <2> QED
    BY <1>4, <2>2 DEF n
<1>7. CASE ~ (j <= d)
  <2>1. PICK m \in 1 .. d : IsToken(s, m, all[j])
    BY <1>2, <1>3
  <2>2. PICK i \in 1 .. n : all[j] = T(i)
    BY <1>5, <2>1
  <2> QED
    BY <1>4, <1>7, <2>2 DEF n, d
<1> QED
  BY <1>6, <1>7

LEMMA LeastOf ==
  ASSUME NEW I, I \subseteq Nat, I # {}
  PROVE  \E i \in I : \A x \in I : i <= x
<1> DEFINE good == {k \in Nat : \A j \in 0 .. k : j \notin I}
<1> SUFFICES ASSUME \A i \in I : \E x \in I : ~ (i <= x)
             PROVE  FALSE
  OBVIOUS
<1>1. 0 \in good
  <2>1. 0 \notin I
    <3>1. SUFFICES ASSUME 0 \in I
                   PROVE  FALSE
      OBVIOUS
    <3>2. PICK x \in I : ~ (0 <= x)
      BY <3>1
    <3> QED
      BY <3>2
  <2> QED
    BY <2>1
<1>2. ASSUME NEW k \in Nat, k \in good
      PROVE  k + 1 \in good
  <2>1. k + 1 \notin I
    <3>1. SUFFICES ASSUME k + 1 \in I
                   PROVE  FALSE
      OBVIOUS
    <3>2. PICK x \in I : ~ (k + 1 <= x)
      BY <3>1
    <3>3. x \in 0 .. k
      BY <3>2
    <3> QED
      BY <1>2, <3>3
  <2> QED
    BY <1>2, <2>1
<1>3. \A k \in Nat : k \in good
  <2> HIDE DEF good
  <2>1. \A k \in Nat : k \in good => k + 1 \in good
    BY <1>2
  <2> QED
    BY <1>1, <2>1, AllNumbers, Zenon
<1>4. \A k \in Nat : k \notin I
  BY <1>3
<1> QED
  BY <1>4

\* The value of the first header of that name, if there is one.
LEMMA ConnectionGiven ==
  ASSUME NEW s \in Shapes, Allowed(s), NEW b, NEW all, Kept(s, b, all)
  PROVE  LET i == SelectInSeq(s.headers, LAMBDA h : h[1] = <<"Connection">>)
         IN  /\ hs_request_header(b, all, "Connection")
                  = IF i = 0 THEN <<>> ELSE s.headers[i][2]
             /\ i # 0 => s.headers[i][2] # <<>>
<1> DEFINE d == Total(s)
           n == Count(s)
           o == Len(s.headers)
           con == <<"Connection">>
           Is(t) == /\ t.type = "HEADER_KEY"
                    /\ t.len = 1 /\ String(b, t) = con
           J == {j \in 1 .. Len(all) : Is(all[j])}
           I == {k \in 1 .. o : s.headers[k][1] = con}
<1>1. /\ d \in Nat /\ d >= 2 * n + 4 /\ Len(all) \in Nat /\ Len(all) >= d
  BY AllListed DEF Kept
<1>2. WellFormed(s)
  BY DEF Allowed
<1>3. /\ n \in Nat \ {0} /\ o \in Nat /\ o <= n
      /\ \A i \in 1 .. n :
           /\ IsLength(s, i) =>
                Headers(s)[i] = << <<"Content-Length">>, Decimal(Size(s)) >>
           /\ ~ IsLength(s, i) =>
                i \in 1 .. o /\ Headers(s)[i] = s.headers[i]
      /\ \A i \in 1 .. o : i \in 1 .. n /\ Headers(s)[i] = s.headers[i]
  <2>1. /\ n \in Nat \ {0} /\ o \in Nat
        /\ n = o + (IF s.chunks = <<>> THEN 0 ELSE 1)
        /\ \A i \in 1 .. n :
             /\ IsLength(s, i) =>
                  Headers(s)[i] = << <<"Content-Length">>, Decimal(Size(s)) >>
             /\ ~ IsLength(s, i) =>
                  i \in 1 .. o /\ Headers(s)[i] = s.headers[i]
    <3>1. s.headers \in Seq(Seq(Byte) \X Seq(Byte))
      BY <1>2, HeadersAre
    <3>2. o \in Nat
      BY <3>1
    <3> QED
      BY <1>2, <3>2, HeadersAre
  <2> HIDE DEF n, o
  <2>2. \A i \in 1 .. o : i \in 1 .. n /\ ~ (s.chunks # <<>> /\ i = n)
    BY <2>1
  <2>3. \A i \in 1 .. o : ~ IsLength(s, i)
    BY <2>2 DEF IsLength, n
  <2> QED
    BY <2>1, <2>2, <2>3
<1>4. ASSUME NEW i \in 1 .. n, Headers(s)[i][1] = con
      PROVE  i \in I
  <2>1. ~ IsLength(s, i)
    <3>1. SUFFICES ASSUME IsLength(s, i)
                   PROVE  FALSE
      OBVIOUS
    <3>2. Headers(s)[i][1] = <<"Content-Length">>
      BY <1>3, <3>1
    <3>3. con[1] = "Connection" /\ <<"Content-Length">>[1] = "Content-Length"
      OBVIOUS
    <3>4. "Connection" # "Content-Length"
      OBVIOUS
    <3> HIDE DEF con
    <3> QED
      BY <1>4, <3>2, <3>3, <3>4
  <2> QED
    BY <1>3, <1>4, <2>1
<1>5. ASSUME NEW i \in I
      PROVE  2 * i + 2 \in J /\ i \in 1 .. n
  <2>1. i \in 1 .. o /\ s.headers[i][1] = con
    OBVIOUS
  <2>2. i \in 1 .. n /\ Headers(s)[i][1] = con
    BY <1>3, <2>1
  <2> DEFINE t == all[2 * i + 2]
  <2>3. /\ t = Tok("HEADER_KEY", LineAt(s, i), KeyLen(s, i), {})
        /\ String(b, t) = con
    BY <2>2, KeysAre
  <2>4. Len(con) = 1
    OBVIOUS
  <2>5. KeyLen(s, i) = 1
    BY <2>2, <2>4 DEF KeyLen
  <2>6. t.type = "HEADER_KEY" /\ t.len = 1
    BY <2>3, <2>5 DEF Tok
  <2>7. 2 * i + 2 \in 1 .. Len(all)
    <3> HIDE DEF d, n
    <3> QED
      BY <1>1, <1>3, <2>2
  <2> HIDE DEF t, con, n
  <2> QED
    BY <2>2, <2>3, <2>6, <2>7 DEF t
<1>6. ASSUME NEW j \in J
      PROVE  \E i \in I : j <= d => j = 2 * i + 2
  <2>1. j \in 1 .. Len(all) /\ Is(all[j])
    OBVIOUS
  <2>2. PICK i \in 1 .. n : /\ all[j] = all[2 * i + 2]
                            /\ j <= d => j = 2 * i + 2
    BY <2>1, OnlyKeys
  <2>3. Headers(s)[i][1] = con
    BY <2>1, <2>2, KeysAre
  <2>4. i \in I
    BY <1>4, <2>3
  <2> QED
    BY <2>2, <2>4
<1>7. I \subseteq Int /\ J \subseteq Int
  OBVIOUS
<1>8. SelectInSeq(s.headers, LAMBDA h : h[1] = <<"Connection">>)
        = IF I # {} THEN Min(I) ELSE 0
  BY DEF SelectInSeq
<1>9. hs_request_header(b, all, "Connection")
        = LET k == IF J # {} THEN Min(J) ELSE 0
          IN  IF k = 0 THEN <<>> ELSE String(b, all[k + 1])
  BY DEF hs_request_header, SelectInSeq
<1>10. CASE I = {}
  <2>1. J = {}
    BY <1>6, <1>10
  <2> HIDE DEF I, J
  <2> QED
    BY <1>8, <1>9, <1>10, <2>1
<1>11. CASE I # {}
  <2>1. PICK i \in I : \A x \in I : i <= x
    <3>1. I \subseteq Nat
      BY <1>3
    <3> HIDE DEF I
    <3> QED
      BY <1>11, <3>1, LeastOf
  <2>2. Min(I) = i
    <3> HIDE DEF I
    <3>1. \A x \in I : (\A y \in I : x <= y) => x = i
      BY <1>7, <2>1
    <3> QED
      BY <2>1, <3>1 DEF Min
  <2>3. 2 * i + 2 \in J /\ i \in 1 .. n
    BY <1>5
  <2>4. \A j \in J : 2 * i + 2 <= j
    <3> TAKE j \in J
    <3>1. PICK x \in I : j <= d => j = 2 * x + 2
      BY <1>6
    <3>2. x \in Int /\ j \in Int /\ i <= x
      BY <1>7, <2>1
    <3> HIDE DEF I, J, d, n
    <3>3. CASE j <= d
      BY <2>3, <3>1, <3>2, <3>3
    <3>4. CASE ~ (j <= d)
      BY <1>1, <1>3, <2>3, <3>2, <3>4
    <3> QED
      BY <3>3, <3>4
  <2>5. Min(J) = 2 * i + 2
    <3> HIDE DEF J, I, n
    <3>1. \A x \in J : (\A y \in J : x <= y) => x = 2 * i + 2
      <4>1. 2 * i + 2 \in Int
        BY <2>3
      <4> QED
        BY <1>7, <2>3, <2>4, <4>1
    <3> QED
      BY <2>3, <2>4, <3>1 DEF Min
  <2>6. String(b, all[2 * i + 3]) = s.headers[i][2]
    <3>1. i \in 1 .. o
      OBVIOUS
    <3>2. Headers(s)[i] = s.headers[i]
      BY <1>3, <3>1
    <3>3. String(b, all[2 * i + 3]) = Headers(s)[i][2]
      BY <2>3, KeysAre
    <3> QED
      BY <3>2, <3>3
  <2>7. s.headers[i][2] # <<>>
    <3>1. i \in DOMAIN s.headers
      BY <1>2 DEF WellFormed
    <3> QED
      BY <1>2, <3>1 DEF WellFormed, HeaderText, Bytes
  <2>8. /\ (2 * i + 2) + 1 = 2 * i + 3 /\ 2 * i + 2 # 0 /\ i # 0
    <3> HIDE DEF n, I, J
    <3> QED
      BY <1>3, <2>3
  <2> HIDE DEF I, J
  <2>9. J # {}
    BY <2>3
  <2>10. hs_request_header(b, all, "Connection") = s.headers[i][2]
    BY <1>9, <2>5, <2>6, <2>8, <2>9
  <2>11. SelectInSeq(s.headers, LAMBDA h : h[1] = <<"Connection">>) = i
    BY <1>8, <1>11, <2>2
  <2> QED
    BY <2>7, <2>8, <2>10, <2>11
<1> QED
  BY <1>10, <1>11


-----------------------------------------------------------------------------
(* Responses that fit in the print buffer.                                 *)

\* The symbols of the head of an answer with k headers of the server's own,
\* its length not included.
HeadSize(a, k) ==
  Len(StatusLine(Shown(a.status))) + 3 * (Len(a.headers) + k) + 1

\* The heads of the answers, and the chunks, fit in the buffer as it is made.
Fitting ==
  /\ 14 < RespCap
  /\ \A a \in Responses : HeadSize(a, 1) + 2 < RespCap
  /\ \A a \in Pieces : HeadSize(a, 2) + 2 + Len(a.body) + 1 < RespCap

LEMMA PairsAssociate ==
  ASSUME NEW a, NEW b, NEW hs \in Seq(Word \X Word),
         a \in Word \X Word, b \in Word \X Word
  PROVE  /\ (<<a>> \o <<>>) \o hs = <<a>> \o hs
         /\ (<<a>> \o <<b>>) \o hs = <<a>> \o (<<b>> \o hs)
<1> DEFINE S == Word \X Word
           x == <<a>>
           y == <<b>>
<1>1. x \in Seq(S) /\ y \in Seq(S)
  OBVIOUS
<1> HIDE DEF x, y, S
<1>2. (x \o y) \o hs = x \o (y \o hs)
  BY <1>1, ConcatAssociative DEF S
<1>3. x \o <<>> = x
  BY <1>1, ConcatEmptySeq
<1> QED
  BY <1>2, <1>3 DEF x, y

LEMMA ReversedLength ==
  ASSUME NEW S, NEW hs \in Seq(S)
  PROVE  Len(Reverse(hs)) = Len(hs) /\ Len(hs) \in Nat
<1> DEFINE n == Len(hs)
<1>1. n \in Nat
  OBVIOUS
<1>2. Reverse(hs) = [i \in 1 .. n |-> hs[(n - i) + 1]]
  BY DEF Reverse
<1> HIDE DEF n
<1>3. Len([i \in 1 .. n |-> hs[(n - i) + 1]]) = n
  BY <1>1
<1> QED
  BY <1>1, <1>2, <1>3 DEF n

\* What an answer is made into.
LEMMA AnswerIs ==
  ASSUME NEW a \in AnswerType
  PROVE  LET r  == Built(a)
             hs == Reverse(a.headers)
         IN  /\ Carries(r, hs) /\ r.status = Shown(a.status)
             /\ r.status \in 100 .. 599 /\ r.body = a.body
             /\ r.body \in Seq(Symbol) /\ Len(r.body) \in Nat
             /\ hs \in Seq(Word \X Word)
             /\ Len(hs) = Len(a.headers) /\ Len(hs) \in Nat
<1>1. a.headers \in Seq(Word \X Word) /\ a.body \in Seq(Symbol)
  BY DEF AnswerType
<1>2. Carries(Built(a), Reverse(a.headers))
  BY BuiltIs
<1>3. Reverse(a.headers) \in Seq(Word \X Word)
  BY <1>2 DEF Carries
<1>4. Len(Reverse(a.headers)) = Len(a.headers) /\ Len(a.headers) \in Nat
  BY <1>1, ReversedLength
<1>5. Len(a.body) \in Nat
  BY <1>1
<1> QED
  BY <1>1, <1>2, <1>3, <1>4, <1>5, BuiltIs, AnswerMade

\* Given the directive, what is printed is what should be sent: for a whole
\* response, ...
LEMMA ReplyIs ==
  ASSUME NEW a \in AnswerType, HeadSize(a, 1) + 2 < RespCap, NEW keep,
         Directive = <<"Connection", KeepWord(keep)>>
  PROVE  Printed(hs_request_respond(Built(a), keep)) = Reply(a)
<1> DEFINE r == Built(a)
           hs == Reverse(a.headers)
           d == <<"Connection", KeepWord(keep)>>
<1>1. /\ Carries(r, hs) /\ r.status = Shown(a.status)
      /\ r.status \in 100 .. 599 /\ r.body = a.body
      /\ r.body \in Seq(Symbol) /\ hs \in Seq(Word \X Word)
      /\ Len(hs) = Len(a.headers) /\ Len(hs) \in Nat
  BY AnswerIs
<1> HIDE DEF r, hs
<1>2. Len(StatusLine(r.status)) + 2 + 3 * (Len(hs) + 1) + 1 < RespCap
  <2>1. PICK k : k = Len(hs)
    OBVIOUS
  <2>2. PICK w : w = Len(StatusLine(r.status))
    OBVIOUS
  <2>3. w \in 4 .. 5 /\ k \in Nat /\ RespCap \in Nat
    BY <1>1, <2>1, <2>2, StatusLineIs, ResponseAssumption
  <2>4. w + 3 * (k + 1) + 1 + 2 < RespCap
    BY <1>1, <2>1, <2>2 DEF HeadSize
  <2>5. w + 2 + 3 * (k + 1) + 1 < RespCap
    BY <2>3, <2>4
  <2> QED
    BY <2>1, <2>2, <2>5
<1>3. Printed(hs_request_respond(r, keep))
        = ResponseHead(r.status, << <<"Connection", KeepWord(keep)>> >> \o hs,
                       LengthLine(Len(r.body))) \o r.body
  BY <1>1, <1>2, RespondExact
<1>4. d \in Word \X Word
  <2>1. "Connection" \in Word /\ "keep-alive" \in Word /\ "close" \in Word
    BY DEF Word
  <2> QED
    BY <2>1 DEF KeepWord
<1> HIDE DEF d
<1>5. (<<d>> \o <<>>) \o hs = <<d>> \o hs
  BY <1>1, <1>4, PairsAssociate
<1>6. ReplyHead(a, FALSE)
        = ResponseHead(Shown(a.status), (<<d>> \o <<>>) \o hs,
                       LengthLine(Len(a.body)))
  BY DEF ReplyHead, Shown, d, hs
<1> QED
  BY <1>1, <1>3, <1>5, <1>6 DEF Reply, r, d

\* ... the first chunk of one, ...
LEMMA ReplyFirstIs ==
  ASSUME NEW a \in AnswerType, HeadSize(a, 2) + 2 + Len(a.body) + 1 < RespCap,
         NEW keep, Directive = <<"Connection", KeepWord(keep)>>
  PROVE  Printed(hs_request_respond_chunk(Built(a), keep, TRUE))
           = ReplyHead(a, TRUE) \o ReplyChunk(a)
<1> DEFINE r == Built(a)
           hs == Reverse(a.headers)
           d == <<"Connection", KeepWord(keep)>>
           t == <<"Transfer-Encoding", "chunked">>
<1>1. /\ Carries(r, hs) /\ r.status = Shown(a.status)
      /\ r.status \in 100 .. 599 /\ r.body = a.body
      /\ r.body \in Seq(Symbol) /\ hs \in Seq(Word \X Word)
      /\ Len(hs) = Len(a.headers) /\ Len(hs) \in Nat /\ Len(r.body) \in Nat
  BY AnswerIs
<1> HIDE DEF r, hs
<1>2. Len(StatusLine(r.status)) + 3 * (Len(hs) + 2) + 1
        + 2 + Len(r.body) + 1 < RespCap
  BY <1>1 DEF HeadSize
<1>3. Printed(hs_request_respond_chunk(r, keep, TRUE))
        = ResponseHead(r.status, <<d>> \o (<<t>> \o hs), <<>>)
          \o ((<< <<"size", Len(r.body)>>, CRLF >> \o r.body) \o <<CRLF>>)
  BY <1>1, <1>2, FirstChunkExact
<1>4. d \in Word \X Word /\ t \in Word \X Word
  <2>1. "Connection" \in Word /\ "keep-alive" \in Word /\ "close" \in Word
    BY DEF Word
  <2>2. "Transfer-Encoding" \in Word /\ "chunked" \in Word
    BY DEF Word
  <2> QED
    BY <2>1, <2>2 DEF KeepWord
<1> HIDE DEF d, t
<1>5. (<<d>> \o <<t>>) \o hs = <<d>> \o (<<t>> \o hs)
  BY <1>1, <1>4, PairsAssociate
<1>6. ReplyHead(a, TRUE)
        = ResponseHead(Shown(a.status), (<<d>> \o <<t>>) \o hs, <<>>)
  BY DEF ReplyHead, Shown, d, t, hs
<1>7. ReplyChunk(a)
        = (<< <<"size", Len(a.body)>>, CRLF >> \o a.body) \o <<CRLF>>
  BY DEF ReplyChunk
<1> QED
  BY <1>1, <1>3, <1>5, <1>6, <1>7 DEF r

\* ... another chunk, and the end.
LEMMA ReplyRestIs ==
  ASSUME NEW a \in AnswerType, HeadSize(a, 2) + 2 + Len(a.body) + 1 < RespCap,
         NEW keep
  PROVE  /\ Printed(hs_request_respond_chunk(Built(a), keep, FALSE))
              = <<>> \o ReplyChunk(a)
         /\ Printed(hs_request_respond_chunk_end(Built(a))) = ReplyEnd(a)
<1> DEFINE r == Built(a)
           hs == Reverse(a.headers)
<1>1. /\ Carries(r, hs) /\ r.status = Shown(a.status)
      /\ r.status \in 100 .. 599 /\ r.body = a.body
      /\ r.body \in Seq(Symbol) /\ hs \in Seq(Word \X Word)
      /\ Len(hs) = Len(a.headers) /\ Len(hs) \in Nat /\ Len(r.body) \in Nat
  BY AnswerIs
<1> HIDE DEF r, hs
<1>2. 2 + Len(r.body) + 1 < RespCap /\ 2 + 3 * Len(hs) + 1 + 1 < RespCap
  <2>1. PICK k : k = Len(hs)
    OBVIOUS
  <2>2. PICK w : w = Len(StatusLine(r.status))
    OBVIOUS
  <2>3. PICK b : b = Len(r.body)
    OBVIOUS
  <2>4. w \in 4 .. 5 /\ k \in Nat /\ b \in Nat /\ RespCap \in Nat
    BY <1>1, <2>1, <2>2, <2>3, StatusLineIs, ResponseAssumption
  <2>5. w + 3 * (k + 2) + 1 + 2 + b + 1 < RespCap
    BY <1>1, <2>1, <2>2, <2>3 DEF HeadSize
  <2>6. 2 + b + 1 < RespCap /\ 2 + 3 * k + 1 + 1 < RespCap
    BY <2>4, <2>5
  <2> QED
    BY <2>1, <2>3, <2>6
<1>3. Printed(hs_request_respond_chunk(r, keep, FALSE))
        = <<>> \o ((<< <<"size", Len(r.body)>>, CRLF >> \o r.body) \o <<CRLF>>)
  BY <1>1, <1>2, NextChunkExact
<1>4. Printed(hs_request_respond_chunk_end(r))
        = (<< <<"size", 0>>, CRLF >> \o Lines(hs)) \o <<CRLF, CRLF>>
  BY <1>1, <1>2, EndExact
<1>5. ReplyChunk(a)
        = (<< <<"size", Len(a.body)>>, CRLF >> \o a.body) \o <<CRLF>>
  BY DEF ReplyChunk
<1>6. ReplyEnd(a) = (<< <<"size", 0>>, CRLF >> \o Lines(hs)) \o <<CRLF, CRLF>>
  BY DEF ReplyEnd, hs
<1> QED
  BY <1>1, <1>3, <1>4, <1>5, <1>6 DEF r

\* The response of a server that has no room.
LEMMA RefusalIs ==
  ASSUME 14 < RespCap
  PROVE  Printed(hs_request_respond_error(503, Unavailable)) = Refusal
<1> DEFINE r == Refused
           t == <<"Content-Type", "text/plain">>
           hs == <<t>>
           d == <<"Connection", KeepWord(FALSE)>>
<1>1. /\ Carries(r, hs) /\ r.status = 503 /\ r.body = Unavailable
      /\ Unavailable \in Seq(Symbol) /\ Len(Unavailable) = 1
      /\ hs_request_respond_error(503, Unavailable)
           = hs_request_respond(r, FALSE)
  BY RefusedIs
<1>2. Len(hs) = 1 /\ d = <<"Connection", "close">>
  BY DEF KeepWord
<1>3. <<d>> \o hs = <<d, t>>
  <2> DEFINE S == Word \X Word
  <2>1. d \in S /\ t \in S
    <3>1. "Connection" \in Word /\ "close" \in Word
      BY DEF Word
    <3>2. "Content-Type" \in Word /\ "text/plain" \in Word
      BY DEF Word
    <3> QED
      BY <3>1, <3>2 DEF KeepWord
  <2> HIDE DEF S, d, t
  <2>2. PICK u : u = <<d>> \o <<t>>
    OBVIOUS
  <2>3. u \in Seq(S) /\ Len(u) = 2 /\ u[1] = d /\ u[2] = t
    <3> DEFINE v == <<t>>
    <3>1. v \in Seq(S) /\ Len(v) = 1 /\ v[1] = t
      BY <2>1
    <3> HIDE DEF v
    <3>2. u = <<d>> \o v
      BY <2>2 DEF v
    <3>3. /\ u \in Seq(S) /\ Len(u) = Len(v) + 1 /\ u[1] = d
          /\ \A i \in 2 .. Len(v) + 1 : u[i] = v[i - 1]
      BY <2>1, <3>1, <3>2, Before
    <3>4. Len(v) + 1 = 2 /\ 2 \in 2 .. Len(v) + 1 /\ 2 - 1 = 1
      BY <3>1
    <3> QED
      BY <3>1, <3>3, <3>4
  <2>4. u = <<d, t>>
    BY <2>1, <2>3
  <2> QED
    BY <2>2, <2>4
<1> HIDE DEF r, d, hs, t
<1>4. 503 \in 100 .. 599 /\ r.body \in Seq(Symbol)
  BY <1>1
<1>5. Len(StatusLine(r.status)) + 2 + 3 * (Len(hs) + 1) + 1 < RespCap
  <2>1. PICK w : w = Len(StatusLine(r.status))
    OBVIOUS
  <2>2. w \in 4 .. 5
    BY <1>1, <1>4, <2>1, StatusLineIs
  <2>3. w + 2 + 3 * (1 + 1) + 1 < RespCap
    BY <2>2, ResponseAssumption
  <2> QED
    BY <1>2, <2>1, <2>3
<1>6. Printed(hs_request_respond(r, FALSE))
        = ResponseHead(r.status, << <<"Connection", KeepWord(FALSE)>> >> \o hs,
                       LengthLine(Len(r.body))) \o r.body
  <2>1. r.status \in 100 .. 599
    BY <1>1, <1>4
  <2>2. \A keep :
          Printed(hs_request_respond(r, keep))
            = ResponseHead(r.status,
                           << <<"Connection", KeepWord(keep)>> >> \o hs,
                           LengthLine(Len(r.body))) \o r.body
    <3>1. Carries(r, hs) /\ r.body \in Seq(Symbol)
      BY <1>1, <1>4
    <3> QED
      BY <1>5, <2>1, <3>1, RespondExact
  <2> QED
    BY <2>2, Zenon
<1>7. Refusal = ResponseHead(503, <<d, t>>, LengthLine(1)) \o Unavailable
  BY <1>2 DEF Refusal, t
<1> QED
  BY <1>1, <1>3, <1>6, <1>7 DEF d


\* Called for a request that was sent again, the application has it.
LEMMA CalledKept ==
  ASSUME Repeats, Modest(shape), DInv, RInv, Called
  PROVE  shape \in Shapes /\ Allowed(shape) /\ Kept(shape, buffer, tokens)
<1>1. shape \in Shapes /\ Allowed(shape) /\ Len(Wire[shape]) \in Nat
  BY ShapeIn, ModestIs
<1>2. /\ Holds(buffer) /\ taken = Len(Wire[shape]) /\ tokens \in Seq(Token)
      /\ Listed(shape, tokens, Total(shape))
  BY DEF RInv, Wired, Called, Complete
<1>3. buffer.capacity \in Nat
  BY DEF DInv, BufferInv, Rest, ReadBuffers
<1> QED
  BY <1>1, <1>2, <1>3 DEF Kept, Holds

\* The connection is kept if the request says so.
LEMMA KeepIs ==
  ASSUME Repeats, Modest(shape), DInv, RInv, Called
  PROVE  Directive = <<"Connection", KeepWord("KEEP_ALIVE" \in Detected)>>
<1> DEFINE i == SelectInSeq(shape.headers, LAMBDA h : h[1] = <<"Connection">>)
           close == IF i = 0 THEN shape.version = "HTTP/1.0"
                    ELSE shape.headers[i][2] = <<"close">>
           version == hs_get_token_string(buffer, tokens, "VERSION")
           connection == hs_request_header(buffer, tokens, "Connection")
           leave == \/ connection = <<"close">>
                    \/ connection = <<>> /\ version[Len(version)] # "HTTP/1.1"
<1>1. shape \in Shapes /\ Allowed(shape) /\ Kept(shape, buffer, tokens)
  BY CalledKept
<1>2. shape.version \in {"HTTP/1.0", "HTTP/1.1"}
  BY <1>1 DEF Allowed, WellFormed
<1>3. version = <<shape.version>>
  BY <1>1, VersionGiven
<1>4. /\ connection = IF i = 0 THEN <<>> ELSE shape.headers[i][2]
      /\ i # 0 => shape.headers[i][2] # <<>>
  BY <1>1, ConnectionGiven
<1>5. Detected = IF leave THEN flags \ {"KEEP_ALIVE"}
                 ELSE flags \cup {"KEEP_ALIVE"}
  BY DEF Detected, hs_request_detect_keep_alive_flag
<1>6. Directive = <<"Connection", IF close THEN "close" ELSE "keep-alive">>
  BY DEF Directive
<1> HIDE DEF i, version, connection
<1>7. version[Len(version)] = shape.version
  <2>1. PICK v : v = shape.version
    OBVIOUS
  <2>2. Len(<<v>>) = 1 /\ <<v>>[1] = v
    OBVIOUS
  <2> QED
    BY <1>3, <2>1, <2>2
<1>8. leave <=> close
  <2>1. <<"close">> # <<>>
    <3>1. Len(<<"close">>) = 1 /\ Len(<<>>) = 0
      OBVIOUS
    <3> QED
      BY <3>1
  <2>2. CASE i = 0
    <3>1. connection = <<>> /\ connection # <<"close">>
      BY <1>4, <2>1, <2>2
    <3>2. shape.version # "HTTP/1.1" <=> shape.version = "HTTP/1.0"
      BY <1>2
    <3> QED
      BY <1>7, <2>2, <3>1, <3>2
  <2>3. CASE i # 0
    <3>1. connection = shape.headers[i][2] /\ connection # <<>>
      BY <1>4, <2>3
    <3> QED
      BY <2>3, <3>1
  <2> QED
    BY <2>2, <2>3
<1> HIDE DEF leave, close
<1>9. ("KEEP_ALIVE" \in Detected) <=> ~ leave
  BY <1>5
<1>10. KeepWord("KEEP_ALIVE" \in Detected)
         = IF close THEN "close" ELSE "keep-alive"
  BY <1>8, <1>9, Zenon DEF KeepWord
<1> QED
  BY <1>6, <1>10

\* The steps that send.
LEMMA RespondStep ==
  ASSUME Responses \cup Pieces \subseteq AnswerType, Fitting, Repeats,
         Modest(shape), DInv, RInv, AppResponds
  PROVE  ResponseExact'
<1>1. pc = "callback" /\ held \in {"request", "end"}
  BY DEF AppResponds
<1>2. Called
  BY <1>1 DEF RInv, Accepting, Receiving, Notified, Complete, Closed
<1>3. PICK answer \in Responses :
        /\ wrote' = Printed(hs_request_respond(Built(answer),
                                               "KEEP_ALIVE" \in Detected))
        /\ should' = Reply(answer)
  BY DEF AppResponds
<1>4. PICK keep : keep = ("KEEP_ALIVE" \in Detected)
  OBVIOUS
<1>5. Directive = <<"Connection", KeepWord(keep)>>
  BY <1>2, <1>4, KeepIs
<1>6. answer \in AnswerType /\ HeadSize(answer, 1) + 2 < RespCap
  BY DEF Fitting
<1>7. Printed(hs_request_respond(Built(answer), keep)) = Reply(answer)
  BY <1>5, <1>6, ReplyIs
<1> QED
  BY <1>3, <1>4, <1>7 DEF ResponseExact

LEMMA ChunkStep ==
  ASSUME Responses \cup Pieces \subseteq AnswerType, Fitting, Repeats,
         Modest(shape), DInv, RInv, AppRespondsChunk
  PROVE  ResponseExact'
<1> DEFINE first == "CHUNKED_RESPONSE" \notin flags
           all == IF first THEN Detected \cup {"CHUNKED_RESPONSE"} ELSE flags
<1>1. PICK answer \in Pieces :
        /\ wrote' = Printed(hs_request_respond_chunk(
                              Built(answer), "KEEP_ALIVE" \in all, first))
        /\ should' = (IF first THEN ReplyHead(answer, TRUE) ELSE <<>>)
                       \o ReplyChunk(answer)
  BY DEF AppRespondsChunk
<1>2. /\ answer \in AnswerType
      /\ HeadSize(answer, 2) + 2 + Len(answer.body) + 1 < RespCap
  BY DEF Fitting
<1>3. PICK keep : keep = ("KEEP_ALIVE" \in all)
  OBVIOUS
<1>4. CASE first
  <2>1. pc = "callback"
    BY DEF AppRespondsChunk
  <2>2. Called
    BY <1>4, <2>1 DEF RInv, Accepting, Receiving, Notified, Complete, Closed
  <2>3. keep = ("KEEP_ALIVE" \in Detected)
    BY <1>3, <1>4
  <2>4. Directive = <<"Connection", KeepWord(keep)>>
    BY <2>2, <2>3, KeepIs
  <2>5. first = TRUE
    BY <1>4
  <2> HIDE DEF first, all
  <2>6. wrote' = Printed(hs_request_respond_chunk(Built(answer), keep, TRUE))
    BY <1>1, <1>3, <2>5
  <2>7. should' = ReplyHead(answer, TRUE) \o ReplyChunk(answer)
    BY <1>1, <2>5
  <2> QED
    BY <1>2, <2>4, <2>6, <2>7, ReplyFirstIs DEF ResponseExact
<1>5. CASE ~ first
  <2>1. first = FALSE
    BY <1>5
  <2> HIDE DEF first, all
  <2>2. wrote' = Printed(hs_request_respond_chunk(Built(answer), keep, FALSE))
    BY <1>1, <1>3, <2>1
  <2>3. should' = <<>> \o ReplyChunk(answer)
    BY <1>1, <2>1
  <2> QED
    BY <1>2, <2>2, <2>3, ReplyRestIs DEF ResponseExact
<1> QED
  BY <1>4, <1>5

LEMMA ExactNext ==
  ASSUME Responses \cup Pieces \subseteq AnswerType, Fitting, Repeats,
         Modest(shape), DInv, RInv, ResponseExact, [Next]_vars
  PROVE  ResponseExact'
<1>1. ~ InjectEnd /\ ~ AppReadsChunk
  BY NoStream
<1>2. CASE \/ Arrive \/ Accept \/ OnReadable
           \/ ParserEnter \/ ParserStep \/ ParserLeave
  BY <1>2 DEF Arrive, Accept, OnReadable, ParserEnter, ParserStep,
              ParserLeave, ResponseExact, output, reply
<1>3. CASE ReadData \/ ReadNothing
  BY <1>3 DEF ReadData, ReadNothing, ResponseExact
<1>4. CASE Refuse
  <2>1. wrote' = Refusal /\ should' = Refusal
    BY <1>4, RefusalIs DEF Refuse, Fitting
  <2> QED
    BY <2>1 DEF ResponseExact
<1>5. CASE AppResponds
  BY <1>5, RespondStep
<1>6. CASE AppRespondsChunk
  BY <1>6, ChunkStep
<1>7. CASE AppRespondsChunkEnd
  <2>1. PICK answer \in Pieces :
          /\ wrote' = Printed(hs_request_respond_chunk_end(Built(answer)))
          /\ should' = ReplyEnd(answer)
    BY <1>7 DEF AppRespondsChunkEnd
  <2>2. /\ answer \in AnswerType
        /\ HeadSize(answer, 2) + 2 + Len(answer.body) + 1 < RespCap
    BY DEF Fitting
  <2> QED
    BY <2>1, <2>2, ReplyRestIs DEF ResponseExact
<1>8. CASE UNCHANGED vars
  BY <1>8 DEF vars, output, reply, ResponseExact
<1> QED
  BY <1>1, <1>2, <1>3, <1>4, <1>5, <1>6, <1>7, <1>8 DEF Next, Finished

\* What is written is the response the application set up, with the framing
\* and the directive of the request it answers, for a client that sends the
\* same modest request again and again and answers that fit in the print
\* buffer.
THEOREM ResponsesExact ==
  ASSUME Responses \cup Pieces \subseteq AnswerType, Fitting, Repeats,
         \A s \in Shapes : Modest(s)
  PROVE  Spec => []ResponseExact
<1>1. Init => ResponseExact
  BY DEF Init, ResponseExact
<1>2. RInv /\ DInv /\ ResponseExact /\ [Next]_vars => ResponseExact'
  BY ShapeIn, ExactNext
<1> QED
  BY <1>1, <1>2, ModestInvariant, DataPathInvariant, PTL DEF Spec

=============================================================================
