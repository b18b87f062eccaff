---------------------------- MODULE Memory_proofs ----------------------------
(***************************************************************************)
(* Proofs about server->memused, the server's own count of the memory its  *)
(* buffers take, for any number of connections and any sizes: it is never  *)
(* more than the capacities of the buffers come to, and exactly that as    *)
(* long as no request makes the parser resize its buffer.                  *)
(*                                                                         *)
(* What the buffers come to is a sum over the connections, which the       *)
(* community modules define by taking chosen elements off the set one      *)
(* after the other.  The first half shows what one entry contributes to    *)
(* it; induction is by a smallest set for which a claim fails.  The second *)
(* half goes through the actions: each changes the buffer of one           *)
(* connection and charges for the difference, but for the parser's resize, *)
(* for which nothing is charged.                                           *)
(***************************************************************************)
EXTENDS HttpServer_proofs, WellFoundedInduction

\* What the buffers come to if r are the requests.
Capacities(r) == MapThenSumSet(LAMBDA c : r[c].cap, Conn)

\* The element a sum begins with.
First(s) == CHOOSE c \in s : TRUE

\* The sizes are numbers; there are no buffers.
Sized(r, D) == \A c \in D : r[c].cap \in Int
Bare(r, D)  == \A c \in D : r[c].cap = 0

\* g has the sum for every set of elements of D.
Sums(g, r, D) ==
  g = [s \in SUBSET D |-> IF s = {} THEN 0
                          ELSE r[First(s)].cap + g[s \ {First(s)}]]

-----------------------------------------------------------------------------
(* Sums.                                                                   *)

\* s is one of the sets in bad, and no smaller one is.
Smallest(s, bad, D) ==
  /\ s \in SUBSET D /\ s \in bad
  /\ \A t \in SUBSET D : t \subseteq s /\ t # s => t \notin bad

\* A claim that fails for some subset of a finite set fails for one and for
\* no smaller one.
LEMMA SmallestFailure ==
  ASSUME NEW D, IsFiniteSet(D), NEW bad, bad \subseteq SUBSET D, bad # {}
  PROVE  \E s : Smallest(s, bad, D)
<1>1. IsWellFoundedOn(StrictSubsetOrdering(D), FiniteSubsetsOf(D))
  BY FS_StrictSubsetOrderingWellFounded
<1>2. bad \subseteq FiniteSubsetsOf(D)
  BY FS_Subset DEF FiniteSubsetsOf
<1>3. PICK s \in bad :
        \A t \in bad : ~(<<t, s>> \in StrictSubsetOrdering(D))
  BY <1>1, <1>2, WFMin
<1>4. ASSUME NEW t \in SUBSET D, t \subseteq s, t # s, t \in bad
      PROVE  FALSE
  <2>1. s \in SUBSET D
    BY <1>3
  <2>2. <<t, s>> \in StrictSubsetOrdering(D)
    BY <1>4, <2>1 DEF StrictSubsetOrdering
  <2> QED
    BY <1>3, <1>4, <2>2
<1>5. s \in SUBSET D /\ s \in bad
  BY <1>3
<1> QED
  BY <1>4, <1>5 DEF Smallest

\* The sum for no connection, and for one set of them.
LEMMA SumNone ==
  ASSUME NEW r, NEW D, NEW g, Sums(g, r, D)
  PROVE  g[{}] = 0
<1>1. {} \in SUBSET D
  OBVIOUS
<1> QED
  BY <1>1 DEF Sums

LEMMA SumAt ==
  ASSUME NEW r, NEW D, NEW g, Sums(g, r, D), NEW s, s \in SUBSET D, s # {}
  PROVE  g[s] = r[First(s)].cap + g[s \ {First(s)}]
BY DEF Sums

\* What is left of a set without the element the sum begins with.
LEMMA WithoutFirst ==
  ASSUME NEW D, NEW s, s \in SUBSET D, s # {}
  PROVE  /\ First(s) \in s /\ First(s) \in D
         /\ s \ {First(s)} \in SUBSET D
         /\ s \ {First(s)} \subseteq s /\ s \ {First(s)} # s
<1>1. First(s) \in s
  BY DEF First
<1> QED
  BY <1>1

\* The sum for a set does not depend on the larger set it is taken from.
LEMMA SumsAgree ==
  ASSUME NEW r, NEW D, NEW E, IsFiniteSet(D), NEW g, Sums(g, r, D),
         NEW h, Sums(h, r, E), NEW u \in SUBSET D, u \in SUBSET E
  PROVE  g[u] = h[u]
<1> DEFINE bad == {s \in SUBSET D : s \in SUBSET E /\ g[s] # h[s]}
<1>0. bad \subseteq SUBSET D
  OBVIOUS
<1>1. ASSUME bad # {} PROVE FALSE
  <2>0. PICK s : Smallest(s, bad, D)
    <3> HIDE DEF bad
    <3> QED
      BY <1>0, <1>1, SmallestFailure
  <2>1. /\ s \in SUBSET D /\ s \in bad
        /\ \A t \in SUBSET D : t \subseteq s /\ t # s => t \notin bad
    <3> HIDE DEF bad
    <3> QED
      BY <2>0 DEF Smallest
  <2>2. s \in SUBSET D /\ s \in SUBSET E /\ g[s] # h[s]
    BY <2>1
  <2> DEFINE t == s \ {First(s)}
  <2>3. s # {}
    <3>1. g[{}] = 0 /\ h[{}] = 0
      BY SumNone
    <3> QED
      BY <2>2, <3>1
  <2>4. /\ t \in SUBSET D /\ t \in SUBSET E /\ t \subseteq s /\ t # s
        /\ g[s] = r[First(s)].cap + g[t] /\ h[s] = r[First(s)].cap + h[t]
    BY <2>2, <2>3, SumAt, WithoutFirst
  <2> HIDE DEF t
  <2>5. t \notin bad
    BY <2>1, <2>4
  <2>6. g[t] = h[t]
    BY <2>4, <2>5
  <2> QED
    BY <2>2, <2>4, <2>6
<1> QED
  BY <1>1

\* Every finite set has its sums.
LEMMA SumsExist ==
  ASSUME NEW r, NEW D, IsFiniteSet(D)
  PROVE  \E g : Sums(g, r, D)
<1> DEFINE bad == {s \in SUBSET D : ~ \E g : Sums(g, r, s)}
           G(s) == CHOOSE g : Sums(g, r, s)
<1>0. bad \subseteq SUBSET D
  OBVIOUS
<1>1. ASSUME bad # {} PROVE FALSE
  <2>0. PICK s : Smallest(s, bad, D)
    <3> HIDE DEF bad
    <3> QED
      BY <1>0, <1>1, SmallestFailure
  <2>1. /\ s \in SUBSET D /\ s \in bad
        /\ \A t \in SUBSET D : t \subseteq s /\ t # s => t \notin bad
    <3> HIDE DEF bad
    <3> QED
      BY <2>0 DEF Smallest
  <2>2. ASSUME NEW t \in SUBSET s, t # s
        PROVE  Sums(G(t), r, t)
    <3>1. t \in SUBSET D /\ t \notin bad
      BY <2>1, <2>2
    <3>2. \E g : Sums(g, r, t)
      BY <3>1
    <3> QED
      BY <3>2
  <2> HIDE DEF G
  <2> DEFINE V(t) == IF t = {} THEN 0
                     ELSE r[First(t)].cap
                            + G(t \ {First(t)})[t \ {First(t)}]
             g == [t \in SUBSET s |-> V(t)]
  <2>3. ASSUME NEW t \in SUBSET s
        PROVE  g[t] = IF t = {} THEN 0
                      ELSE r[First(t)].cap + g[t \ {First(t)}]
    <3>1. CASE t = {}
      BY <3>1
    <3>2. CASE t # {}
      <4> DEFINE v == t \ {First(t)}
                 k == G(v)
      <4>1. First(t) \in t
        BY <3>2 DEF First
      <4>2. v \in SUBSET s /\ v # s
        BY <4>1
      <4>3. g[v] = G(v)[v]
        <5>1. g[v] = V(v)
          BY <4>2
        <5> HIDE DEF v
        <5>2. Sums(k, r, v) /\ v \in SUBSET v
          BY <2>2, <4>2
        <5>3. CASE v = {}
          <6>1. V(v) = 0
            BY <5>3
          <6> HIDE DEF k
          <6>2. k[{}] = 0
            BY <5>2, SumNone
          <6>3. k[v] = 0
            BY <5>3, <6>2
          <6> QED
            BY <5>1, <6>1, <6>3 DEF k
        <5>4. CASE v # {}
          <6> DEFINE w == v \ {First(v)}
                     m == G(w)
          <6>1. V(v) = r[First(v)].cap + m[w]
            BY <5>4
          <6> HIDE DEF k, m, V, g
          <6>2. /\ First(v) \in v /\ w \in SUBSET v
                /\ k[v] = r[First(v)].cap + k[w]
            BY <5>2, <5>4, SumAt, WithoutFirst
          <6>3. w \in SUBSET s /\ w # s /\ w \in SUBSET w
            BY <4>2, <6>2
          <6>4. Sums(m, r, w)
            BY <2>2, <6>3 DEF m
          <6>5. IsFiniteSet(v)
            <7>1. v \in SUBSET D
              BY <2>1, <4>2
            <7> QED
              BY <7>1, FS_Subset
          <6> HIDE DEF w
          <6>6. k[w] = m[w]
            BY <5>2, <6>2, <6>3, <6>4, <6>5, SumsAgree
          <6> QED
            BY <5>1, <6>1, <6>2, <6>6 DEF k
        <5> QED
          BY <5>3, <5>4
      <4>4. g[t] = r[First(t)].cap + G(v)[v]
        BY <3>2
      <4> QED
        BY <3>2, <4>3, <4>4
    <3> QED
      BY <3>1, <3>2
  <2>4. g = [t \in SUBSET s |-> g[t]]
    OBVIOUS
  <2> HIDE DEF g
  <2>5. Sums(g, r, s)
    BY <2>3, <2>4 DEF Sums
  <2> QED
    BY <2>1, <2>5
<1>2. D \in SUBSET D
  OBVIOUS
<1> QED
  BY <1>1, <1>2

\* Capacities is the sum for all connections.
LEMMA CapacitiesSum ==
  ASSUME NEW r
  PROVE  \E g : Sums(g, r, Conn) /\ Capacities(r) = g[Conn]
<1> DEFINE g == CHOOSE h :
             h = [s \in SUBSET Conn |->
                   IF s = {} THEN 0
                   ELSE r[CHOOSE c \in s : TRUE].cap
                          + h[s \ {CHOOSE c \in s : TRUE}]]
<1>1. Capacities(r) = g[Conn]
  BY DEF Capacities, MapThenSumSet, MapThenFoldSet
<1>2. PICK h : Sums(h, r, Conn)
  BY SumsExist, ServerAssumption
<1>3. Sums(g, r, Conn)
  BY <1>2 DEF Sums, First
<1> HIDE DEF g
<1> QED
  BY <1>1, <1>3

\* The sum of numbers is a number.
LEMMA SumType ==
  ASSUME NEW r, NEW D, IsFiniteSet(D), Sized(r, D),
         NEW g, Sums(g, r, D), NEW u \in SUBSET D
  PROVE  g[u] \in Int
<1> DEFINE bad == {s \in SUBSET D : g[s] \notin Int}
<1>0. bad \subseteq SUBSET D
  OBVIOUS
<1>1. ASSUME bad # {} PROVE FALSE
  <2>0. PICK s : Smallest(s, bad, D)
    <3> HIDE DEF bad
    <3> QED
      BY <1>0, <1>1, SmallestFailure
  <2>1. /\ s \in SUBSET D /\ s \in bad
        /\ \A t \in SUBSET D : t \subseteq s /\ t # s => t \notin bad
    <3> HIDE DEF bad
    <3> QED
      BY <2>0 DEF Smallest
  <2>2. s \in SUBSET D /\ g[s] \notin Int
    BY <2>1
  <2> DEFINE t == s \ {First(s)}
  <2>3. s # {}
    <3>1. g[{}] = 0
      BY SumNone
    <3> QED
      BY <2>2, <3>1
  <2>4. /\ t \in SUBSET D /\ t \subseteq s /\ t # s /\ First(s) \in D
        /\ g[s] = r[First(s)].cap + g[t]
    BY <2>2, <2>3, SumAt, WithoutFirst
  <2> HIDE DEF t
  <2>5. g[t] \in Int
    BY <2>1, <2>4
  <2>6. r[First(s)].cap \in Int
    BY <2>4 DEF Sized
  <2>7. g[s] \in Int
    BY <2>4, <2>5, <2>6
  <2> QED
    BY <2>2, <2>7
<1> QED
  BY <1>1

\* Without buffers there is nothing to sum up.
LEMMA SumZero ==
  ASSUME NEW r, NEW D, IsFiniteSet(D), Bare(r, D),
         NEW g, Sums(g, r, D), NEW u \in SUBSET D
  PROVE  g[u] = 0
<1> DEFINE bad == {s \in SUBSET D : g[s] # 0}
<1>0. bad \subseteq SUBSET D
  OBVIOUS
<1>1. ASSUME bad # {} PROVE FALSE
  <2>0. PICK s : Smallest(s, bad, D)
    <3> HIDE DEF bad
    <3> QED
      BY <1>0, <1>1, SmallestFailure
  <2>1. /\ s \in SUBSET D /\ s \in bad
        /\ \A t \in SUBSET D : t \subseteq s /\ t # s => t \notin bad
    <3> HIDE DEF bad
    <3> QED
      BY <2>0 DEF Smallest
  <2>2. s \in SUBSET D /\ g[s] # 0
    BY <2>1
  <2> DEFINE t == s \ {First(s)}
  <2>3. s # {}
    <3>1. g[{}] = 0
      BY SumNone
    <3> QED
      BY <2>2, <3>1
  <2>4. /\ t \in SUBSET D /\ t \subseteq s /\ t # s /\ First(s) \in D
        /\ g[s] = r[First(s)].cap + g[t]
    BY <2>2, <2>3, SumAt, WithoutFirst
  <2> HIDE DEF t
  <2>5. g[t] = 0
    BY <2>1, <2>4
  <2>6. r[First(s)].cap = 0
    BY <2>4 DEF Bare
  <2> QED
    BY <2>2, <2>4, <2>5, <2>6
<1> QED
  BY <1>1

\* Another buffer for c changes the sums with c by the difference, and no
\* other.
LEMMA SumUpdate ==
  ASSUME NEW r, NEW q, NEW D, IsFiniteSet(D), NEW c,
         Sized(r, D), Sized(q, D),
         \A d \in D \ {c} : q[d].cap = r[d].cap,
         NEW g, Sums(g, r, D), NEW h, Sums(h, q, D), NEW u \in SUBSET D
  PROVE  h[u] = IF c \in u THEN g[u] + (q[c].cap - r[c].cap) ELSE g[u]
<1> DEFINE Claim(s) ==
             h[s] = IF c \in s THEN g[s] + (q[c].cap - r[c].cap) ELSE g[s]
           bad == {s \in SUBSET D : ~Claim(s)}
<1>0. bad \subseteq SUBSET D
  OBVIOUS
<1>1. ASSUME bad # {} PROVE FALSE
  <2>0. PICK s : Smallest(s, bad, D)
    <3> HIDE DEF bad
    <3> QED
      BY <1>0, <1>1, SmallestFailure
  <2>1. /\ s \in SUBSET D /\ s \in bad
        /\ \A t \in SUBSET D : t \subseteq s /\ t # s => t \notin bad
    <3> HIDE DEF bad
    <3> QED
      BY <2>0 DEF Smallest
  <2>2. s \in SUBSET D /\ ~Claim(s)
    BY <2>1
  <2> DEFINE e == First(s)
             t == s \ {e}
  <2>3. s # {}
    <3>1. g[{}] = 0 /\ h[{}] = 0
      BY SumNone
    <3> QED
      BY <2>2, <3>1
  <2>4. /\ t \in SUBSET D /\ t \subseteq s /\ t # s /\ e \in s /\ e \in D
        /\ g[s] = r[e].cap + g[t] /\ h[s] = q[e].cap + h[t]
    BY <2>2, <2>3, SumAt, WithoutFirst
  <2>5. (c \in t <=> c \in s /\ c # e) /\ (c = e => c \notin t)
    OBVIOUS
  <2> HIDE DEF e, t
  <2>6. Claim(t)
    BY <2>1, <2>4
  <2>7. /\ r[e].cap \in Int /\ q[e].cap \in Int /\ g[t] \in Int
        /\ h[t] \in Int
    BY <2>4, SumType DEF Sized
  <2>8. CASE c = e
    <3> DEFINE a == r[c].cap
               b == q[c].cap
               x == g[t]
    <3>1. h[t] = x
      BY <2>5, <2>6, <2>8
    <3>2. g[s] = a + x /\ h[s] = b + x
      BY <2>4, <2>8, <3>1
    <3>3. a \in Int /\ b \in Int /\ x \in Int
      BY <2>7, <2>8
    <3> HIDE DEF a, b, x
    <3>4. h[s] = g[s] + (b - a)
      BY <3>2, <3>3
    <3> QED
      BY <2>2, <2>4, <2>8, <3>4 DEF a, b
  <2>9. CASE c # e
    <3>1. q[e].cap = r[e].cap
      BY <2>4, <2>9
    <3>2. CASE c \in s
      <4> DEFINE a == r[c].cap
                 b == q[c].cap
                 x == g[t]
                 y == r[e].cap
      <4>1. h[t] = x + (b - a)
        BY <2>5, <2>6, <2>9, <3>2
      <4>2. g[s] = y + x /\ h[s] = y + (x + (b - a))
        BY <2>4, <3>1, <4>1
      <4>3. a \in Int /\ b \in Int /\ x \in Int /\ y \in Int
        <5>1. c \in D
          BY <2>2, <3>2
        <5> QED
          BY <2>7, <5>1 DEF Sized
      <4> HIDE DEF a, b, x, y
      <4>4. h[s] = g[s] + (b - a)
        BY <4>2, <4>3
      <4> QED
        BY <2>2, <3>2, <4>4 DEF a, b
    <3>3. CASE c \notin s
      <4>1. h[t] = g[t]
        BY <2>5, <2>6, <3>3
      <4> QED
        BY <2>2, <2>4, <3>1, <3>3, <4>1
    <3> QED
      BY <3>2, <3>3
  <2> QED
    BY <2>8, <2>9
<1> QED
  BY <1>1

\* The sum of the buffers is a number, and zero without buffers.
LEMMA CapacitiesType ==
  ASSUME NEW r, Sized(r, Conn)
  PROVE  /\ Capacities(r) \in Int
         /\ Bare(r, Conn) => Capacities(r) = 0
<1>1. PICK g : Sums(g, r, Conn) /\ Capacities(r) = g[Conn]
  BY CapacitiesSum
<1>2. IsFiniteSet(Conn) /\ Conn \in SUBSET Conn
  BY ServerAssumption
<1>3. g[Conn] \in Int
  BY <1>1, <1>2, SumType
<1>4. Bare(r, Conn) => g[Conn] = 0
  BY <1>1, <1>2, SumZero
<1> QED
  BY <1>1, <1>3, <1>4

\* A step that changes the buffer of one connection changes the sum by the
\* difference.
LEMMA CapacitiesUpdate ==
  ASSUME NEW r, NEW q, NEW c \in Conn, Sized(r, Conn), Sized(q, Conn),
         \A d \in Conn \ {c} : q[d].cap = r[d].cap
  PROVE  Capacities(q) = Capacities(r) + (q[c].cap - r[c].cap)
<1>1. PICK g : Sums(g, r, Conn) /\ Capacities(r) = g[Conn]
  BY CapacitiesSum
<1>2. PICK h : Sums(h, q, Conn) /\ Capacities(q) = h[Conn]
  BY CapacitiesSum
<1>3. IsFiniteSet(Conn) /\ Conn \in SUBSET Conn
  BY ServerAssumption
<1>4. h[Conn] = IF c \in Conn THEN g[Conn] + (q[c].cap - r[c].cap)
                              ELSE g[Conn]
  BY <1>1, <1>2, <1>3, SumUpdate
<1> QED
  BY <1>1, <1>2, <1>4

-----------------------------------------------------------------------------
(* The invariant.                                                          *)

\* Nothing on its way to the parser makes it resize the buffer.
Plain == Fragment \ {"bighead"}
Small(s, r) == s.rx \in Seq(Plain) /\ r.pending \in Seq(Plain)

\* No client announces a body for which the buffer is too small.
NoResize == "bighead" \notin Requests

\* A connection that is not open has no buffer; memused is at most what the
\* buffers come to; as long as nobody makes the parser resize one, it is
\* that.
MInv ==
  /\ \A c \in Conn : life[c] # "open" => req[c].cap = 0
  /\ memused <= Capacities(req)
  /\ NoResize => /\ \A c \in Conn : Small(sock[c], req[c])
                 /\ memused = Capacities(req)

\* What an action has to say of the one connection whose buffer it may
\* change: what is charged for it.
Charges(c) ==
  /\ \A d \in Conn \ {c} : /\ life'[d] = life[d] /\ req'[d] = req[d]
                           /\ sock'[d].rx = sock[d].rx
  /\ life'[c] # "open" => req'[c].cap = 0
  /\ memused' <= memused + (req'[c].cap - req[c].cap)
  /\ NoResize /\ Small(sock[c], req[c]) =>
       /\ Small(sock'[c], req'[c])
       /\ memused' = memused + (req'[c].cap - req[c].cap)

\* All the capacities are numbers.
LEMMA AllSized == IInv => Sized(req, Conn)
BY DEF IInv, ConnsInv, Request, Sized

LEMMA AllSizedNext == IInv' => Sized(req', Conn)
BY DEF IInv, ConnsInv, Request, Sized

\* An action that charges for what it changes keeps the books.
LEMMA ChargesKeeps ==
  ASSUME IInv, IInv', MInv, NEW c \in Conn, Charges(c)
  PROVE  MInv'
<1> DEFINE A == Capacities(req)
           B == Capacities(req')
           a == req[c].cap
           b == req'[c].cap
           m == memused
           n == memused'
<1>1. Sized(req, Conn) /\ Sized(req', Conn)
  BY AllSized, AllSizedNext
<1>2. \A d \in Conn \ {c} : req'[d].cap = req[d].cap
  BY DEF Charges
<1>3. B = A + (b - a)
  BY <1>1, <1>2, CapacitiesUpdate
<1>4. A \in Int /\ a \in Int /\ b \in Int /\ m \in Int /\ n \in Int
  <2>1. A \in Int
    BY <1>1, CapacitiesType
  <2>2. a \in Int /\ b \in Int
    BY <1>1 DEF Sized
  <2>3. m \in Int /\ n \in Int
    BY DEF IInv, ProcInv
  <2> QED
    BY <2>1, <2>2, <2>3
<1>5. m <= A /\ n <= m + (b - a)
  BY DEF MInv, Charges
<1>6. NoResize => m = A /\ n = m + (b - a)
  BY DEF MInv, Charges
<1> HIDE DEF A, B, a, b, m, n
<1>7. n <= B
  BY <1>3, <1>4, <1>5
<1>8. NoResize => n = B
  BY <1>3, <1>6
<1>9. ASSUME NEW d \in Conn, life'[d] # "open" PROVE req'[d].cap = 0
  BY <1>9 DEF MInv, Charges
<1>10. ASSUME NEW d \in Conn, NoResize PROVE Small(sock'[d], req'[d])
  <2>1. Small(sock[d], req[d])
    BY <1>10 DEF MInv
  <2>2. CASE d = c
    BY <1>10, <2>1, <2>2 DEF Charges
  <2>3. CASE d # c
    BY <2>1, <2>3 DEF Charges, Small
  <2> QED
    BY <2>2, <2>3
<1> QED
  BY <1>7, <1>8, <1>9, <1>10 DEF MInv, B, n, NoResize

\* A step that touches no buffer keeps them.
LEMMA BooksStand ==
  ASSUME MInv, UNCHANGED <<req, memused>>,
         \A c \in Conn : /\ sock'[c].rx = sock[c].rx
                         /\ life'[c] # "open" => life[c] # "open"
  PROVE  MInv'
BY DEF MInv, Small, NoResize

-----------------------------------------------------------------------------
(* The parts of the handlers.                                              *)

\* What reading, parsing and writing do to what is read.
LEMMA PlainSeqs ==
  /\ <<>> \in Seq(Plain)
  /\ \A p, q \in Seq(Plain) : p \o q \in Seq(Plain)
  /\ \A p \in Seq(Plain) : \A i \in 1 .. Len(p) :
       /\ SubSeq(p, 1, i) \in Seq(Plain)
       /\ SubSeq(p, i + 1, Len(p)) \in Seq(Plain)
  /\ \A p \in Seq(Plain) :
       p # <<>> => Head(p) \in Plain /\ Tail(p) \in Seq(Plain)
OBVIOUS

\* A freed connection has given its buffer back.
LEMMA TerminateCharges ==
  ASSUME IInv, NEW c \in Conn, TerminateConnection(c)
  PROVE  Charges(c)
<1>1. /\ life' = [life EXCEPT ![c] = "freed"]
      /\ sock' = [sock EXCEPT ![c] = NewSocket]
      /\ req' = [req EXCEPT ![c] = RequestInit]
      /\ memused' = memused - req[c].cap
  BY DEF TerminateConnection
<1>2. /\ life'[c] = "freed" /\ sock'[c] = NewSocket
      /\ req'[c] = RequestInit
      /\ \A d \in Conn \ {c} : /\ life'[d] = life[d] /\ req'[d] = req[d]
                               /\ sock'[d] = sock[d]
  BY <1>1 DEF IInv, ConnsInv
<1>3. NewSocket.rx = <<>> /\ RequestInit.pending = <<>> /\ RequestInit.cap = 0
  BY DEF NewSocket, RequestInit
<1>4. memused \in Int /\ req[c].cap \in Int
  BY DEF IInv, ConnsInv, ProcInv, Request
<1>5. memused' = memused + (req'[c].cap - req[c].cap)
  BY <1>1, <1>2, <1>3, <1>4
<1>6. memused' <= memused + (req'[c].cap - req[c].cap)
  <2> DEFINE k == memused + (req'[c].cap - req[c].cap)
  <2>1. k \in Int
    BY <1>2, <1>3, <1>4
  <2> HIDE DEF k
  <2>2. k <= k
    BY <2>1
  <2> QED
    BY <1>5, <2>2 DEF k
<1>7. Small(sock'[c], req'[c])
  BY <1>2, <1>3, PlainSeqs DEF Small
<1> QED
  BY <1>2, <1>3, <1>5, <1>6, <1>7 DEF Charges

\* What is charged when the buffer of c is set and no other.
LEMMA ChargesExactly ==
  ASSUME IInv, NEW c \in Conn,
         \A d \in Conn \ {c} : /\ life'[d] = life[d] /\ req'[d] = req[d]
                               /\ sock'[d].rx = sock[d].rx,
         life'[c] # "open" => req'[c].cap = 0,
         NoResize /\ Small(sock[c], req[c]) => Small(sock'[c], req'[c]),
         req'[c].cap \in Int,
         memused' = memused + (req'[c].cap - req[c].cap)
  PROVE  Charges(c)
<1> DEFINE m == memused
           n == memused'
           a == req[c].cap
           b == req'[c].cap
<1>1. m \in Int /\ a \in Int /\ b \in Int /\ n = m + (b - a)
  BY DEF IInv, ConnsInv, ProcInv, Request
<1> HIDE DEF m, n, a, b
<1>2. n <= m + (b - a)
  BY <1>1
<1> QED
  BY <1>2 DEF Charges, m, n, a, b

\* begin_read charges for a buffer it allocates; what is in one stays there.
LEMMA BeginReadCharges ==
  ASSUME IInv, NEW c \in Conn, NEW r \in Request, NEW s, NEW mem \in Int,
         BeginRead(c, r, s, mem), mem = memused + (r.cap - req[c].cap),
         r.pending = <<>> \/ r.pending = req[c].pending,
         s.rx = sock[c].rx, s \in Socket, life'[c] = "open",
         \A d \in Conn \ {c} : life'[d] = life[d]
  PROVE  Charges(c)
<1> DEFINE q == EnterRead(r)
           t == EpollCtl(s, "in")
<1>1. /\ req' = [req EXCEPT ![c] = q] /\ sock' = [sock EXCEPT ![c] = t]
      /\ memused' = mem + (q.cap - r.cap)
  BY DEF BeginRead, Charge
<1>2. q \in Request /\ (q.pending = <<>> \/ q.pending = r.pending)
  <2>1. q \in Request
    BY EnterReadType
  <2>2. HasBuffer(r) => q.pending = r.pending
    BY EnterReadType
  <2>3. ~HasBuffer(r) => q.pending = <<>>
    BY BufferTypes DEF EnterRead, BufferInit, Request
  <2> QED
    BY <2>1, <2>2, <2>3
<1>3. t.rx = s.rx
  BY DEF EpollCtl, Socket
<1> HIDE DEF q, t
<1>4. /\ req'[c] = q /\ sock'[c] = t
      /\ \A d \in Conn \ {c} : req'[d] = req[d] /\ sock'[d] = sock[d]
  BY <1>1 DEF IInv, ConnsInv
<1>5. Small(sock[c], req[c]) => Small(t, q)
  BY <1>2, <1>3, PlainSeqs DEF Small
<1>6. memused' = memused + (q.cap - req[c].cap)
  <2> DEFINE u == q.cap
             v == r.cap
             w == req[c].cap
             m == memused
  <2>1. u \in Int /\ v \in Int /\ w \in Int /\ m \in Int
    BY <1>2 DEF Request, IInv, ConnsInv, ProcInv
  <2>2. memused' = (m + (v - w)) + (u - v)
    BY <1>1
  <2> HIDE DEF u, v, w, m
  <2>3. memused' = m + (u - w)
    BY <2>1, <2>2
  <2> QED
    BY <2>3 DEF u, w, m
<1>7. q.cap \in Int
  BY <1>2 DEF Request
<1> QED
  BY <1>4, <1>5, <1>6, <1>7, ChargesExactly

\* begin_write charges for the response buffer and credits the request's.
LEMMA BeginWriteCharges ==
  ASSUME IInv, NEW c \in Conn, NEW r \in Request, NEW s \in Socket,
         BeginWrite(c, r, s), r.pending = <<>>,
         s.rx = sock[c].rx, life'[c] = "open",
         \A d \in Conn \ {c} : life'[d] = life[d]
  PROVE  Charges(c)
<1> DEFINE t == EpollCtl(s, "out")
<1>1. /\ req' = [req EXCEPT ![c] = r] /\ sock' = [sock EXCEPT ![c] = t]
      /\ memused' = memused + (r.cap - req[c].cap)
  BY DEF BeginWrite, Charge
<1>2. t.rx = s.rx
  BY DEF EpollCtl, Socket
<1> HIDE DEF t
<1>3. /\ req'[c] = r /\ sock'[c] = t
      /\ \A d \in Conn \ {c} : req'[d] = req[d] /\ sock'[d] = sock[d]
  BY <1>1 DEF IInv, ConnsInv
<1>4. Small(sock[c], req[c]) => Small(t, r)
  BY <1>2, PlainSeqs DEF Small
<1>5. r.cap \in Int
  BY DEF Request
<1> QED
  BY <1>1, <1>3, <1>4, <1>5, ChargesExactly

-----------------------------------------------------------------------------
(* The parser.                                                             *)

\* What the parser makes of a request: its buffer only grows, and keeps its
\* size if there is no fragment that needs a larger one.
Resized(r, o) ==
  /\ o.req.cap \in Nat /\ o.req.cap >= r.cap
  /\ r.pending \in Seq(Plain) => /\ o.req.cap = r.cap
                                 /\ o.req.pending \in Seq(Plain)

\* Tokens leave the buffer alone.
LEMMA TokenResized ==
  ASSUME NEW r \in Request, NEW q \in Request, q.cap = r.cap,
         NEW pst, NEW rest, NEW call,
         r.pending \in Seq(Plain) => rest \in Seq(Plain)
  PROVE  /\ Resized(r, NoToken(q, pst, rest))
         /\ Resized(r, Token(q, pst, rest, call))
<1> DEFINE a == NoToken(q, pst, rest).req
           b == Token(q, pst, rest, call).req
<1>1. /\ a.cap = r.cap /\ a.pending = rest
      /\ b.cap = r.cap /\ b.pending = rest
  BY DEF NoToken, Token, Request
<1>2. r.cap \in Nat /\ r.cap >= r.cap
  BY DEF Request
<1> HIDE DEF a, b
<1>3. Resized(r, NoToken(q, pst, rest))
  BY <1>1, <1>2 DEF Resized, a
<1>4. Resized(r, Token(q, pst, rest, call))
  BY <1>1, <1>2 DEF Resized, b
<1> QED
  BY <1>3, <1>4

\* The beginning of a request is the one place where the buffer grows.
LEMMA StartResized ==
  ASSUME NEW r \in Request, NEW f \in Fragment, NEW rest,
         NEW head \in RequestHead,
         r.pending \in Seq(Plain) => f \in Plain /\ rest \in Seq(Plain)
  PROVE  Resized(r, ParseStart(r, f, rest, head))
<1> DEFINE q == PushTokens(r, head)
           s == [q EXCEPT !.flags = @ \cup {STREAMED}]
           t == ResizeFor(q, f)
<1>1. q \in Request /\ q.cap = r.cap
  <2>1. Append(r.tokens, head) \in Seq(RequestHead)
    BY DEF Request
  <2> QED
    BY <2>1 DEF PushTokens, Request
<1>2. ParseStart(r, f, rest, head) =
        CASE f = "get"                 -> Token(s, "nobody", rest, "request")
          [] f = "stream"              -> Token(s, "chunked", rest, "headers")
          [] f = "large"               -> Token(s, "large", rest, "headers")
          [] f \in {"head", "bighead"} -> ParseSmall(t, rest)
          [] OTHER                     -> NoToken(r, "error", rest)
  BY DEF ParseStart
<1> HIDE DEF q
<1>3. s \in Request /\ s.cap = r.cap
  <2>1. q.flags \cup {STREAMED} \in SUBSET Flag
    BY <1>1 DEF Request, Flag, STREAMED
  <2> QED
    BY <1>1, <2>1 DEF Request
<1>4. t.cap \in Nat /\ t.cap >= r.cap /\ (f \in Plain => t.cap = r.cap)
  <2> DEFINE n == IF f = "bighead" /\ BodyCap > q.cap THEN BodyCap ELSE q.cap
  <2>1. t.cap = n
    BY <1>1 DEF ResizeFor, Request
  <2>2. q.cap = r.cap /\ r.cap \in Nat /\ BodyCap \in Nat
    BY <1>1, ConnectionAssumption DEF Request
  <2>3. n \in Nat /\ n >= r.cap /\ (f # "bighead" => n = r.cap)
    BY <2>2
  <2> HIDE DEF n, t
  <2> QED
    BY <2>1, <2>3 DEF Plain
<1>5. ParseSmall(t, rest).req.cap = t.cap
      /\ ParseSmall(t, rest).req.pending = <<>>
  <2>1. /\ DOMAIN t = DOMAIN q
        /\ "cap" \in DOMAIN q /\ "pending" \in DOMAIN q
    BY <1>1 DEF ResizeFor, Request
  <2> HIDE DEF t
  <2> QED
    BY <2>1, <1>1 DEF ParseSmall, Token, NoToken, Request
<1>6. Resized(r, ParseSmall(t, rest))
  <2> HIDE DEF t
  <2> QED
    BY <1>4, <1>5, PlainSeqs DEF Resized
<1> HIDE DEF s, t
<1>7. \A pst, call : Resized(r, Token(s, pst, rest, call))
  BY <1>3, TokenResized
<1>8. Resized(r, NoToken(r, "error", rest))
  BY TokenResized
<1> QED
  BY <1>2, <1>6, <1>7, <1>8

\* The parser, whatever its state.
LEMMA ParseResized ==
  ASSUME NEW r \in Request, NEW head \in RequestHead
  PROVE  Resized(r, Parse(r, head))
<1>1. r.cap \in Nat /\ r.cap >= r.cap /\ r.pending \in Seq(Fragment)
  BY DEF Request
<1>2. CASE r.gap = 0 \/ r.pst = "done"
  <2>1. Parse(r, head).req = r
    BY <1>2 DEF Parse
  <2> QED
    BY <1>1, <2>1 DEF Resized
<1>3. CASE r.gap # 0 /\ r.pst # "done" /\ r.pending = <<>>
  <2>1. Parse(r, head) = NoToken(r, r.pst, <<>>)
    BY <1>3 DEF Parse
  <2>2. Resized(r, NoToken(r, r.pst, <<>>))
    BY TokenResized, PlainSeqs, Zenon
  <2> QED
    BY <2>1, <2>2
<1>4. CASE r.gap # 0 /\ r.pst # "done" /\ r.pending # <<>>
  <2> DEFINE f == Head(r.pending)
             rest == Tail(r.pending)
             q == [r EXCEPT !.len = 1, !.gap = 0]
  <2>1. Parse(r, head) \in {ParseStart(r, f, rest, head),
                            ParseSmall(r, r.pending),
                            ParseChunked(r, f, rest), ParseLarge(r),
                            NoToken(r, "error", r.pending)}
    BY <1>4 DEF Parse
  <2>2. f \in Fragment
    BY <1>1, <1>4
  <2>3. r.pending \in Seq(Plain) => f \in Plain /\ rest \in Seq(Plain)
    BY <1>4, PlainSeqs
  <2>4. q \in Request /\ q.cap = r.cap
    <3>1. 0 \in 0 .. SeqIds - 1
      BY ConnectionAssumption
    <3> QED
      BY <3>1 DEF Request
  <2>5. ParseLarge(r) \in {Token(r, "done", r.pending, "last"),
                           Token(q, "large", <<>>, "chunk")}
    BY DEF ParseLarge
  <2> HIDE DEF f, rest, q
  <2>6. Resized(r, ParseStart(r, f, rest, head))
    BY <2>2, <2>3, StartResized
  <2>7. Resized(r, ParseSmall(r, r.pending))
    BY TokenResized, PlainSeqs DEF ParseSmall
  <2>8. Resized(r, ParseChunked(r, f, rest))
    <3>1. \A pst, call : /\ Resized(r, Token(r, pst, rest, call))
                         /\ Resized(r, NoToken(r, pst, rest))
      BY <2>3, TokenResized
    <3> QED
      BY <3>1 DEF ParseChunked
  <2>9. Resized(r, ParseLarge(r))
    <3>1. Resized(r, Token(r, "done", r.pending, "last"))
      BY TokenResized
    <3>2. Resized(r, Token(q, "large", <<>>, "chunk"))
      BY <2>4, TokenResized, PlainSeqs
    <3> QED
      BY <2>5, <3>1, <3>2
  <2>10. Resized(r, NoToken(r, "error", r.pending))
    BY TokenResized
  <2> QED
    BY <2>1, <2>6, <2>7, <2>8, <2>9, <2>10
<1> QED
  BY <1>2, <1>3, <1>4

\* The parser may resize the buffer and charges for nothing.
LEMMA ParseAndCallCharges ==
  ASSUME IInv, NEW c \in Conn, ParseAndCall(c)
  PROVE  Charges(c)
<1> DEFINE o == Parse(req[c], client[c].head)
           q == req'[c]
<1>1. /\ UNCHANGED <<life, sock, memused>> /\ pc = "parse" /\ cur = c
      /\ \/ req' = [req EXCEPT ![c] = o.req]
         \/ req' = [req EXCEPT ![c] = ExecCallback(o.req)]
  BY DEF ParseAndCall, server
<1>2. /\ req[c] \in Request /\ client[c].head \in RequestHead
      /\ Buffered(req[c]) /\ life[c] = "open"
  BY <1>1, ServerAssumption
  DEF IInv, ConnsInv, ProcInv, Sound, Open, Client, Heads, RequestHead
<1>3. o.req \in Request /\ Resized(req[c], o)
  BY <1>2, ParseType, ParseResized DEF GoodOutcome
<1> HIDE DEF o
<1>4. \A d \in Conn \ {c} : req'[d] = req[d]
  BY <1>1 DEF IInv, ConnsInv
<1>5. q \in {o.req, ExecCallback(o.req)}
  BY <1>1 DEF IInv, ConnsInv
<1>6. q.cap = o.req.cap /\ q.pending = o.req.pending
  BY <1>3, <1>5 DEF ExecCallback, Request
<1> HIDE DEF q
<1>7. /\ q.cap \in Int /\ q.cap >= req[c].cap /\ req[c].cap \in Int
      /\ memused \in Int
      /\ req[c].pending \in Seq(Plain) => /\ q.cap = req[c].cap
                                          /\ q.pending \in Seq(Plain)
  BY <1>2, <1>3, <1>6 DEF Resized, Request, IInv, ProcInv
<1>8. memused <= memused + (q.cap - req[c].cap)
  <2> DEFINE a == req[c].cap
             b == q.cap
             m == memused
  <2>1. a \in Int /\ b \in Int /\ m \in Int /\ b >= a
    BY <1>7
  <2> HIDE DEF a, b, m
  <2>2. m <= m + (b - a)
    BY <2>1
  <2> QED
    BY <2>2 DEF a, b, m
<1>9. req[c].pending \in Seq(Plain) =>
        memused = memused + (q.cap - req[c].cap)
  BY <1>7
<1> QED
  BY <1>1, <1>2, <1>4, <1>7, <1>8, <1>9 DEF Charges, Small, q

-----------------------------------------------------------------------------
(* The other handlers.                                                     *)

\* What c has to have when nothing but fields that are no matter of memory
\* change.
LEMMA ChargesNothing ==
  ASSUME IInv, NEW c \in Conn, UNCHANGED <<life, memused>>,
         NEW q, q.cap = req[c].cap, q.pending = req[c].pending,
         req' = [req EXCEPT ![c] = q], c \in Open,
         \A d \in Conn : sock'[d].rx = sock[d].rx
  PROVE  Charges(c)
<1>1. /\ req'[c] = q /\ life'[c] = "open"
      /\ \A d \in Conn \ {c} : req'[d] = req[d]
  BY DEF IInv, ConnsInv, Open
<1>2. q.cap \in Int /\ memused \in Int
  BY DEF IInv, ConnsInv, ProcInv, Request
<1>3. memused' = memused + (q.cap - req[c].cap)
  BY <1>2
<1>4. Small(sock[c], req[c]) => Small(sock'[c], q)
  BY DEF Small
<1> QED
  BY <1>1, <1>2, <1>3, <1>4, ChargesExactly

\* An event for a connection that is being read.
LEMMA OnReadableCharges ==
  ASSUME IInv, NEW c \in Conn, OnReadable(c)
  PROVE  Charges(c)
<1> DEFINE q == EnterRead(req[c])
<1>1. /\ req' = [req EXCEPT ![c] = q] /\ UNCHANGED <<life, sock>>
      /\ memused' = memused + (q.cap - req[c].cap)
  BY DEF OnReadable, Charge
<1>2. req[c] \in Request /\ c \in Open
  BY EventTaken DEF OnReadable, IInv, ConnsInv
<1>3. q \in Request /\ (q.pending = <<>> \/ q.pending = req[c].pending)
  <2>1. q \in Request
    BY <1>2, EnterReadType
  <2>2. HasBuffer(req[c]) => q.pending = req[c].pending
    BY <1>2, EnterReadType
  <2>3. ~HasBuffer(req[c]) => q.pending = <<>>
    BY <1>2, BufferTypes DEF EnterRead, BufferInit, Request
  <2> QED
    BY <2>1, <2>2, <2>3
<1> HIDE DEF q
<1>4. /\ req'[c] = q /\ \A d \in Conn \ {c} : req'[d] = req[d]
      /\ life'[c] = "open"
  BY <1>1, <1>2 DEF IInv, ConnsInv, Open
<1>5. Small(sock[c], req[c]) => Small(sock'[c], q)
  BY <1>1, <1>3, PlainSeqs DEF Small
<1>6. q.cap \in Int
  BY <1>3 DEF Request
<1> QED
  BY <1>1, <1>4, <1>5, <1>6, ChargesExactly

\* A tick of the timer.
LEMMA OnTimerCharges ==
  ASSUME IInv, NEW c \in Conn, OnTimer(c)
  PROVE  Charges(c)
<1>1. CASE TimedOut(CountDown(req[c]))
  BY <1>1, TerminateCharges DEF OnTimer
<1>2. CASE ~TimedOut(CountDown(req[c]))
  <2> DEFINE q == CountDown(req[c])
  <2>1. /\ req' = [req EXCEPT ![c] = q]
        /\ sock' = [sock EXCEPT ![c].tick = FALSE]
        /\ UNCHANGED <<life, memused>>
    BY <1>2 DEF OnTimer
  <2>2. c \in Open /\ req[c] \in Request
    BY EventTaken DEF OnTimer, IInv, ConnsInv
  <2>3. q.cap = req[c].cap /\ q.pending = req[c].pending
    BY <2>2 DEF CountDown, Request
  <2>4. \A d \in Conn : sock'[d].rx = sock[d].rx
    BY <2>1 DEF IInv, ConnsInv, Socket
  <2> HIDE DEF q
  <2> QED
    BY <2>1, <2>2, <2>3, <2>4, ChargesNothing
<1> QED
  BY <1>1, <1>2

\* A connection is accepted, to be read or to be refused.
LEMMA AcceptConnectionCharges ==
  ASSUME IInv, MInv, NEW c \in Conn, AcceptConnection(c)
  PROVE  Charges(c)
<1> DEFINE s == EpollCtl(ArmTimer(sock[c]), "in")
<1>1. s \in Socket /\ s.rx = sock[c].rx
  <2>1. sock[c] \in Socket
    BY DEF IInv, ConnsInv
  <2>2. ArmTimer(sock[c]) \in Socket /\ ArmTimer(sock[c]).rx = sock[c].rx
    BY <2>1, SocketTypes DEF ArmTimer, Socket
  <2> HIDE DEF s
  <2>3. EpollCtl(ArmTimer(sock[c]), "in").rx = ArmTimer(sock[c]).rx
    BY <2>2 DEF EpollCtl, Socket
  <2> QED
    BY <2>2, <2>3, SocketTypes DEF s
<1>2. /\ life'[c] = "open" /\ \A d \in Conn \ {c} : life'[d] = life[d]
      /\ life[c] = "backlog"
  BY DEF AcceptConnection, Backlog, IInv, ConnsInv
<1>3. /\ RequestInit \in Request /\ RequestInit.pending = <<>>
      /\ RequestInit.cap = 0 /\ req[c].cap = 0
  BY <1>2, InitTypes DEF RequestInit, MInv
<1>4. \/ \E n \in OutLens : BeginWrite(c, Respond(RequestInit, n), s)
      \/ BeginRead(c, RequestInit, s, memused)
  BY DEF AcceptConnection
<1> HIDE DEF s
<1>5. ASSUME NEW n \in OutLens, BeginWrite(c, Respond(RequestInit, n), s)
      PROVE  Charges(c)
  <2>1. n \in Nat
    BY ServerAssumption
  <2>2. /\ Respond(RequestInit, n) \in Request
        /\ Respond(RequestInit, n).pending = <<>>
    BY <1>3, <2>1, ResponseTypes
  <2> QED
    BY <1>1, <1>2, <1>5, <2>2, BeginWriteCharges
<1>6. CASE BeginRead(c, RequestInit, s, memused)
  <2>1. memused \in Int
    BY DEF IInv, ProcInv
  <2>2. memused = memused + (RequestInit.cap - req[c].cap)
    BY <1>3, <2>1
  <2> QED
    BY <1>1, <1>2, <1>3, <1>6, <2>1, <2>2, BeginReadCharges
<1> QED
  BY <1>4, <1>5, <1>6

\* What arrives in the buffer, and a larger buffer for it, is charged for.
LEMMA ReadDataCharges ==
  ASSUME IInv, NEW c \in Conn, ReadData(c)
  PROVE  Charges(c)
<1> DEFINE n == Least(req[c].cap - req[c].len, Len(sock[c].rx))
           rx == sock[c].rx
           f == SubSeq(rx, 1, n)
           r == Receive(req[c], f)
           q == IF ReadsOn(n, r) THEN r ELSE EndRead(r)
           s == [sock[c] EXCEPT !.rx = SubSeq(@, n + 1, Len(@))]
<1>1. /\ n > 0 /\ pc = "read" /\ cur = c
      /\ sock' = [sock EXCEPT ![c] = s]
      /\ req' = [req EXCEPT ![c] = q]
      /\ memused' = memused + (r.cap - req[c].cap)
      /\ life' = life
  BY DEF ReadData, Charge
<1>2. /\ sock[c] \in Socket /\ req[c] \in Request /\ rx \in Seq(Fragment)
      /\ life[c] = "open"
  BY <1>1 DEF IInv, ConnsInv, ProcInv, Socket, Open
<1>3. n \in 1 .. Len(rx)
  <2>1. Len(rx) \in Nat /\ req[c].cap - req[c].len \in Int
    BY <1>2 DEF Request
  <2> QED
    BY <1>1, <2>1, LeastBounds
<1>4. s.rx = SubSeq(rx, n + 1, Len(rx))
  BY <1>2 DEF Socket
<1> HIDE DEF n, rx
<1>5. f \in Seq(Fragment)
  BY <1>2, <1>3
<1>6. rx \in Seq(Plain) => f \in Seq(Plain) /\ s.rx \in Seq(Plain)
  BY <1>3, <1>4, PlainSeqs
<1> HIDE DEF f, s
<1>7. r \in Request /\ r.pending = req[c].pending \o f
  <2> DEFINE t == [req[c] EXCEPT !.len = req[c].len + Len(f),
                                 !.pending = req[c].pending \o f]
  <2>1. t.pending = req[c].pending \o f /\ "pending" \in DOMAIN t
    BY <1>2 DEF Request
  <2>2. r = GrowBuffer(t)
    BY DEF Receive
  <2> HIDE DEF t
  <2>3. GrowBuffer(t).pending = t.pending
    BY <2>1 DEF GrowBuffer
  <2> QED
    BY <1>2, <1>5, <2>1, <2>2, <2>3, ReadTypes
<1> HIDE DEF r
<1>8. q \in Request /\ q.cap = r.cap /\ q.pending = r.pending
  <2>1. /\ EndRead(r) \in Request /\ EndRead(r).cap = r.cap
        /\ EndRead(r).pending = r.pending
    BY <1>7, ReadTypes DEF EndRead, Request
  <2> QED
    BY <1>7, <2>1
<1> HIDE DEF q
<1>9. /\ req'[c] = q /\ sock'[c] = s
      /\ \A d \in Conn \ {c} : req'[d] = req[d] /\ sock'[d] = sock[d]
  BY <1>1 DEF IInv, ConnsInv
<1>10. Small(sock[c], req[c]) => Small(s, q)
  BY <1>6, <1>7, <1>8, PlainSeqs DEF Small, rx
<1>11. q.cap \in Int
  BY <1>8 DEF Request
<1> QED
  BY <1>1, <1>2, <1>8, <1>9, <1>10, <1>11, ChargesExactly

\* A read that delivers nothing ends the loop, or the connection.
LEMMA ReadNothingCharges ==
  ASSUME IInv, NEW c \in Conn, ReadNothing(c)
  PROVE  Charges(c)
<1>1. CASE TerminateConnection(c)
  BY <1>1, TerminateCharges
<1>2. CASE /\ req' = [req EXCEPT ![c] = EndRead(req[c])]
           /\ UNCHANGED <<life, sock, memused>>
  <2> DEFINE q == EndRead(req[c])
  <2>1. c \in Open /\ req[c] \in Request
    BY DEF ReadNothing, IInv, ConnsInv, ProcInv
  <2>2. q.cap = req[c].cap /\ q.pending = req[c].pending
    BY <2>1 DEF EndRead, Request
  <2> HIDE DEF q
  <2>3. req' = [req EXCEPT ![c] = q]
    BY <1>2 DEF q
  <2> QED
    BY <1>2, <2>1, <2>2, <2>3, ChargesNothing
<1> QED
  BY <1>1, <1>2 DEF ReadNothing

\* The zero-length end of a large body.
LEMMA InjectEndCharges ==
  ASSUME IInv, NEW c \in Conn, InjectEnd(c)
  PROVE  Charges(c)
<1> DEFINE q == ExecCallback(req[c])
<1>1. /\ req' = [req EXCEPT ![c] = q] /\ UNCHANGED <<life, sock, memused>>
  BY DEF InjectEnd, server
<1>2. c \in Open /\ req[c] \in Request
  BY DEF InjectEnd, IInv, ConnsInv, ProcInv
<1>3. q.cap = req[c].cap /\ q.pending = req[c].pending
  BY <1>2 DEF ExecCallback, Request
<1> HIDE DEF q
<1> QED
  BY <1>1, <1>2, <1>3, ChargesNothing

\* A write(), for each code it can end with: the buffer of a response that is
\* sent is credited, and begin_read charges for the next one.
LEMMA WriteSocketCharges ==
  ASSUME IInv, NEW c \in Conn, WriteSocket(c)
  PROVE  Charges(c)
<1>0. /\ c \in Open /\ memused \in Int /\ req[c].state = "WRITE"
  BY DEF WriteSocket, IInv, ProcInv, StateFrame
<1>1. /\ c \in Open /\ memused \in Int /\ req[c] \in Request
      /\ sock[c] \in Socket /\ life[c] = "open"
      /\ req[c].written <= req[c].len
  BY <1>0 DEF IInv, ConnsInv, Sound, Sent, Open
<1>2. PICK w \in WriteCall(c) :
        LET r  == [req[c] EXCEPT !.written = @ + w[1]]
            s  == [sock[c] EXCEPT !.space = @ - w[1]]
            rc == WriteRc(r, w[2])
            q  == AfterWrite(r, rc)
            freed == memused + Charge(r, q)
        IN  /\ errno' = w[2]
            /\ CASE rc = "CONTINUE" ->
                      /\ req' = [req EXCEPT ![c] = q]
                      /\ sock' = [sock EXCEPT ![c] = s]
                      /\ Return
                      /\ UNCHANGED <<life, app, client, memused>>
                 [] rc = "SUCCESS" ->
                      /\ BeginRead(c, q, s, freed)
                      /\ client' = [client EXCEPT ![c] = Answered(@)]
                      /\ UNCHANGED <<life, app>>
                 [] rc = "SUCCESS_CHUNK" ->
                      /\ req' = [req EXCEPT ![c] = ExecCallback(q)]
                      /\ sock' = [sock EXCEPT ![c] = s]
                      /\ memused' = freed
                      /\ Call(c, "notify")
                      /\ UNCHANGED <<life, client, inject>>
                 [] OTHER ->
                      TerminateConnection(c) /\ UNCHANGED <<app, client>>
  BY DEF WriteSocket
<1> DEFINE r  == [req[c] EXCEPT !.written = @ + w[1]]
           s  == [sock[c] EXCEPT !.space = @ - w[1]]
           rc == WriteRc(r, w[2])
           q  == AfterWrite(r, rc)
           freed == memused + Charge(r, q)
<1>3. /\ w[1] \in 0 .. sock[c].space
      /\ req[c].written + w[1] \in 0 .. req[c].len
  <2> DEFINE m == Least(Unsent(req[c]), sock[c].space)
  <2>1. w \in {<<0, "EPIPE">>, <<0, "other">>, <<m, errno>>}
    BY DEF WriteCall
  <2>2. /\ req[c].len \in Nat /\ req[c].written \in Nat
        /\ req[c].written <= req[c].len /\ sock[c].space \in Nat
    BY <1>1, SndBufAssumption DEF Request, Socket
  <2>3. /\ m \in 0 .. sock[c].space
        /\ req[c].written + m \in 0 .. req[c].len
    BY <2>2 DEF Least, Unsent
  <2> HIDE DEF m
  <2>4. w[1] \in {0, m}
    BY <2>1
  <2> QED
    BY <2>2, <2>3, <2>4
<1>4. r \in Request /\ r.cap = req[c].cap /\ r.pending = req[c].pending
  <2> DEFINE m == req[c].written + w[1]
  <2>1. m \in Nat
    BY <1>3
  <2> HIDE DEF m
  <2>2. r = [req[c] EXCEPT !.written = m]
    BY DEF m
  <2> QED
    BY <1>1, <2>1, <2>2 DEF Request
<1>5. s \in Socket /\ s.rx = sock[c].rx
  <2> DEFINE m == sock[c].space - w[1]
  <2>1. m \in 0 .. SndBuf
    BY <1>1, <1>3, SndBufAssumption DEF Socket
  <2> HIDE DEF m
  <2>2. s = [sock[c] EXCEPT !.space = m]
    BY DEF m
  <2> QED
    BY <1>1, <2>1, <2>2 DEF Socket
<1>6. \/ /\ rc = "CONTINUE"
         /\ req' = [req EXCEPT ![c] = q]
         /\ sock' = [sock EXCEPT ![c] = s]
         /\ UNCHANGED <<life, memused>>
      \/ BeginRead(c, q, s, freed) /\ UNCHANGED life
      \/ /\ req' = [req EXCEPT ![c] = ExecCallback(q)]
         /\ sock' = [sock EXCEPT ![c] = s]
         /\ memused' = freed
         /\ UNCHANGED life
      \/ TerminateConnection(c)
  BY <1>2
<1> HIDE DEF r, s, rc
<1>7. /\ q \in Request /\ (q.pending = <<>> \/ q.pending = req[c].pending)
      /\ rc = "CONTINUE" => q.cap = req[c].cap /\ q.pending = req[c].pending
  <2> DEFINE t == [r EXCEPT !.timeout = IF rc = "SUCCESS"
                                        THEN KEEPALIVE_TIMEOUT
                                        ELSE REQUEST_TIMEOUT]
  <2>1. q = IF rc = "CONTINUE" THEN t ELSE BufferFree(t)
    BY DEF AfterWrite
  <2>2. t.pending = r.pending /\ t.cap = r.cap /\ q \in Request
    BY <1>4, AfterWriteType DEF Request
  <2>3. /\ "pending" \in DOMAIN t
    BY <1>4 DEF Request
  <2> HIDE DEF t, q
  <2>4. BufferFree(t).pending = <<>>
    BY <2>3 DEF BufferFree
  <2> QED
    BY <1>4, <2>1, <2>2, <2>4
<1>8. freed = memused + (q.cap - req[c].cap) /\ freed \in Int
  <2>1. q.cap \in Int /\ req[c].cap \in Int
    BY <1>1, <1>7 DEF Request
  <2> HIDE DEF q
  <2>2. freed = memused + (q.cap - req[c].cap)
    BY <1>4 DEF Charge
  <2> HIDE DEF freed
  <2> QED
    BY <1>1, <2>1, <2>2
<1> HIDE DEF q, freed
<1>9. CASE /\ rc = "CONTINUE"
           /\ req' = [req EXCEPT ![c] = q]
           /\ sock' = [sock EXCEPT ![c] = s]
           /\ UNCHANGED <<life, memused>>
  <2>1. \A d \in Conn : sock'[d].rx = sock[d].rx
    BY <1>5, <1>9 DEF IInv, ConnsInv
  <2> QED
    BY <1>1, <1>7, <1>9, <2>1, ChargesNothing
<1>10. CASE BeginRead(c, q, s, freed) /\ UNCHANGED life
  BY <1>1, <1>5, <1>7, <1>8, <1>10, BeginReadCharges
<1>11. CASE /\ req' = [req EXCEPT ![c] = ExecCallback(q)]
            /\ sock' = [sock EXCEPT ![c] = s]
            /\ memused' = freed
            /\ UNCHANGED life
  <2> DEFINE t == ExecCallback(q)
  <2>1. t.cap = q.cap /\ t.pending = q.pending
    BY <1>7 DEF ExecCallback, Request
  <2> HIDE DEF t
  <2>2. /\ req'[c] = t /\ sock'[c] = s
        /\ \A d \in Conn \ {c} : req'[d] = req[d] /\ sock'[d] = sock[d]
    BY <1>11 DEF IInv, ConnsInv, t
  <2>3. Small(sock[c], req[c]) => Small(s, t)
    BY <1>5, <1>7, <2>1, PlainSeqs DEF Small
  <2>4. t.cap \in Int
    BY <1>7, <2>1 DEF Request
  <2> QED
    BY <1>1, <1>8, <1>11, <2>1, <2>2, <2>3, <2>4, ChargesExactly
<1>12. CASE TerminateConnection(c)
  BY <1>12, TerminateCharges
<1> QED
  BY <1>6, <1>9, <1>10, <1>11, <1>12

\* An answer: the response buffer for the request's.
LEMMA AnswerCharges ==
  ASSUME IInv, NEW c \in Conn, Acting(c), NEW n \in OutLens,
         NEW r \in {Respond(req[c], n), RespondChunk(req[c], n),
                    RespondChunkEnd(req[c], n)},
         BeginWrite(c, r, sock[c]), UNCHANGED life
  PROVE  Charges(c)
<1>1. /\ req[c] \in Request /\ sock[c] \in Socket /\ n \in Nat
      /\ life[c] = "open"
  BY ServerAssumption, ActingFacts DEF IInv, ConnsInv, Open
<1>2. r \in Request /\ r.pending = <<>>
  BY <1>1, ResponseTypes
<1> QED
  BY <1>1, <1>2, BeginWriteCharges

\* What the application does and what it charges for.
LEMMA ApplicationCharges ==
  ASSUME IInv, NEW c \in Conn, Application(c), ~AppDefer(c)
  PROVE  Charges(c)
<1>1. ASSUME Acting(c) PROVE c \in Open /\ life[c] = "open"
  BY <1>1, ActingFacts DEF Open
<1>2. CASE AppRespond(c) \/ AppRespondChunk(c) \/ AppRespondChunkEnd(c)
  <2>1. PICK n \in OutLens :
          \/ BeginWrite(c, Respond(req[c], n), sock[c])
          \/ BeginWrite(c, RespondChunk(req[c], n), sock[c])
          \/ BeginWrite(c, RespondChunkEnd(req[c], n), sock[c])
    BY <1>2 DEF AppRespond, AppRespondChunk, AppRespondChunkEnd
  <2>2. Acting(c) /\ UNCHANGED life
    BY <1>2 DEF AppRespond, AppRespondChunk, AppRespondChunkEnd
  <2> QED
    BY <2>1, <2>2, AnswerCharges
<1>3. CASE AppReadChunk(c)
  <2> DEFINE r == [req[c] EXCEPT !.cb = "body"]
  <2>1. Acting(c) /\ BeginRead(c, r, sock[c], memused) /\ UNCHANGED life
    BY <1>3 DEF AppReadChunk
  <2>2. /\ req[c] \in Request /\ sock[c] \in Socket /\ memused \in Int
    BY DEF IInv, ConnsInv, ProcInv
  <2>3. /\ r \in Request /\ r.cap = req[c].cap /\ r.pending = req[c].pending
    BY <2>2 DEF Request
  <2> HIDE DEF r
  <2>4. memused = memused + (r.cap - req[c].cap)
    BY <2>2, <2>3 DEF Request
  <2> QED
    BY <1>1, <2>1, <2>2, <2>3, <2>4, BeginReadCharges
<1>4. CASE AppSetConnection(c)
  <2>1. PICK d \in {"keep", "close"} :
          req' = [req EXCEPT ![c] = SetKeepAlive(req[c], d)]
    BY <1>4 DEF AppSetConnection
  <2>2. Acting(c) /\ UNCHANGED <<life, sock, memused>>
    BY <1>4 DEF AppSetConnection, server
  <2> DEFINE q == SetKeepAlive(req[c], d)
  <2>3. req[c] \in Request
    BY DEF IInv, ConnsInv
  <2>4. q.cap = req[c].cap /\ q.pending = req[c].pending
    BY <2>3 DEF SetKeepAlive, Request
  <2> HIDE DEF q
  <2>5. req' = [req EXCEPT ![c] = q]
    BY <2>1 DEF q
  <2> QED
    BY <1>1, <2>2, <2>4, <2>5, ChargesNothing
<1>5. CASE AppFreeBuffer(c)
  <2> DEFINE q == BufferFree(req[c])
  <2>1. /\ Acting(c) /\ req' = [req EXCEPT ![c] = q]
        /\ memused' = memused + (q.cap - req[c].cap)
        /\ UNCHANGED <<life, sock>>
    BY <1>5 DEF AppFreeBuffer, Charge
  <2>2. req[c] \in Request
    BY DEF IInv, ConnsInv
  <2>3. q \in Request /\ q.pending = <<>>
    BY <2>2, BufferTypes
  <2> HIDE DEF q
  <2>4. /\ req'[c] = q /\ \A d \in Conn \ {c} : req'[d] = req[d]
    BY <2>1 DEF IInv, ConnsInv
  <2>5. Small(sock[c], req[c]) => Small(sock'[c], q)
    BY <2>1, <2>3, PlainSeqs DEF Small
  <2>6. q.cap \in Int
    BY <2>3 DEF Request
  <2> QED
    BY <1>1, <2>1, <2>4, <2>5, <2>6, ChargesExactly
<1> QED
  BY <1>2, <1>3, <1>4, <1>5 DEF Application

\* A client sends what the parser takes without resizing the buffer, unless
\* it announces a body too large for it.
LEMMA ClientSendCharges ==
  ASSUME IInv, MInv, NEW c \in Conn, NEW f \in Fragment, ClientSend(c, f)
  PROVE  Charges(c)
<1> DEFINE p == IF f = "zero" /\ "split" \notin Faults
                THEN <<"zero", "tail">> ELSE <<f>>
           s == Arrival(sock[c], p)
<1>1. /\ sock' = [sock EXCEPT ![c] = s] /\ f \in MaySend(client[c].at)
      /\ UNCHANGED <<life, req, memused>> /\ life[c] \in {"backlog", "open"}
  BY DEF ClientSend, server, Connected
<1>2. NoResize => p \in Seq(Plain)
  <2>1. NoResize => f \in Plain
    BY <1>1 DEF NoResize, MaySend, Plain
  <2>2. "zero" \in Plain /\ "tail" \in Plain
    BY DEF Plain, Fragment
  <2> QED
    BY <2>1, <2>2
<1> HIDE DEF p
<1>3. s.rx = sock[c].rx \o p
  BY DEF Arrival, IInv, ConnsInv, Socket
<1> HIDE DEF s
<1>4. /\ sock'[c] = s /\ \A d \in Conn \ {c} : sock'[d] = sock[d]
  BY <1>1 DEF IInv, ConnsInv
<1>5. NoResize /\ Small(sock[c], req[c]) => Small(s, req[c])
  BY <1>2, <1>3, PlainSeqs DEF Small
<1>6. /\ req[c].cap \in Int /\ memused \in Int
      /\ life[c] # "open" => req[c].cap = 0
  BY DEF IInv, ConnsInv, ProcInv, Request, MInv
<1>7. memused = memused + (req[c].cap - req[c].cap)
  BY <1>6
<1> QED
  BY <1>1, <1>4, <1>5, <1>6, <1>7, ChargesExactly

\* The rest of what clients, the network and the clock do touches no buffer
\* and brings nothing to read.
LEMMA EnvironmentBooks ==
  ASSUME IInv, MInv, NEW c \in Conn, Environment(c),
         \A f \in Fragment : ~ClientSend(c, f)
  PROVE  MInv'
<1>1. CASE Connect(c)
  BY <1>1, BooksStand DEF Connect, server, IInv, ConnsInv
<1>2. ASSUME NEW s, s.rx = sock[c].rx, sock' = [sock EXCEPT ![c] = s],
             UNCHANGED <<life, req, memused>>
      PROVE  MInv'
  <2>1. \A d \in Conn : sock'[d].rx = sock[d].rx
    BY <1>2 DEF IInv, ConnsInv
  <2> QED
    BY <1>2, <2>1, BooksStand
<1>3. /\ HalfClose(sock[c]).rx = sock[c].rx /\ Reset(sock[c]).rx = sock[c].rx
      /\ Drained(sock[c]).rx = sock[c].rx /\ Expired(sock[c]).rx = sock[c].rx
  BY DEF HalfClose, Reset, Drained, Expired, IInv, ConnsInv, Socket
<1>4. CASE ClientCloses(c) \/ ClientResets(c) \/ Drain(c) \/ TimerExpires(c)
  <2>1. UNCHANGED <<life, req, memused>>
    BY <1>4 DEF ClientCloses, ClientResets, Drain, TimerExpires, server
  <2>2. sock' \in {[sock EXCEPT ![c] = HalfClose(sock[c])],
                   [sock EXCEPT ![c] = Reset(sock[c])],
                   [sock EXCEPT ![c] = Drained(sock[c])],
                   [sock EXCEPT ![c] = Expired(sock[c])]}
    BY <1>4 DEF ClientCloses, ClientResets, Drain, TimerExpires
  <2> QED
    BY <1>2, <1>3, <2>1, <2>2
<1> QED
  BY <1>1, <1>4 DEF Environment

-----------------------------------------------------------------------------
(* The theorems.                                                           *)

\* The event loop between two handlers touches no buffer either.
LEMMA LoopBooks ==
  ASSUME IInv, MInv,
         \/ UNCHANGED vars \/ OnListen \/ AcceptFails
         \/ \E taken \in SUBSET Event : EpollWait(taken)
         \/ \E c \in Conn : OnWritable(c) \/ OnIgnored(c) \/ AppDefer(c)
  PROVE  MInv'
<1>1. ASSUME NEW taken, EpollWait(taken) PROVE MInv'
  <2>1. \A c \in Conn : sock'[c].rx = sock[c].rx
    BY <1>1 DEF EpollWait, IInv, ConnsInv, Socket
  <2> QED
    BY <1>1, <2>1, BooksStand DEF EpollWait, server
<1>2. ASSUME UNCHANGED <<life, sock, req, memused>> PROVE MInv'
  BY <1>2, BooksStand
<1>3. CASE UNCHANGED vars
  BY <1>2, <1>3 DEF vars, conns, server
<1>4. CASE OnListen \/ AcceptFails
  BY <1>2, <1>4 DEF OnListen, AcceptFails, conns, server
<1>5. ASSUME NEW c \in Conn, OnWritable(c) \/ OnIgnored(c) \/ AppDefer(c)
      PROVE  MInv'
  BY <1>2, <1>5 DEF OnWritable, OnIgnored, AppDefer, conns, server
<1> QED
  BY <1>1, <1>3, <1>4, <1>5

\* No connection, no memory.
LEMMA MInitially == Init => MInv
<1> SUFFICES ASSUME Init PROVE MInv
  OBVIOUS
<1>1. /\ \A c \in Conn : /\ req[c].cap = 0 /\ req[c].pending = <<>>
                         /\ sock[c].rx = <<>>
      /\ memused = 0
  BY DEF Init, RequestInit, NewSocket
<1>2. Capacities(req) = 0
  BY <1>1, CapacitiesType DEF Sized, Bare
<1>3. memused = Capacities(req) /\ memused <= Capacities(req)
  BY <1>1, <1>2
<1>4. \A c \in Conn : Small(sock[c], req[c])
  BY <1>1, PlainSeqs DEF Small
<1> QED
  BY <1>1, <1>3, <1>4 DEF MInv

\* Every step keeps the books.
LEMMA MInductive == IInv /\ MInv /\ [Next]_vars => MInv'
<1> SUFFICES ASSUME IInv, MInv, [Next]_vars PROVE MInv'
  OBVIOUS
<1>1. IInv'
  BY Inductive
<1>2. CASE \/ UNCHANGED vars \/ OnListen \/ AcceptFails
           \/ \E taken \in SUBSET Event : EpollWait(taken)
           \/ \E c \in Conn : OnWritable(c) \/ OnIgnored(c) \/ AppDefer(c)
  BY <1>2, LoopBooks
<1>3. ASSUME NEW c \in Conn, Handler(c), ~OnWritable(c), ~OnIgnored(c)
      PROVE  MInv'
  <2>1. Charges(c)
    BY <1>3, OnReadableCharges, OnTimerCharges, AcceptConnectionCharges,
       ReadDataCharges, ReadNothingCharges, ParseAndCallCharges,
       InjectEndCharges, WriteSocketCharges DEF Handler
  <2> QED
    BY <1>1, <2>1, ChargesKeeps
<1>4. ASSUME NEW c \in Conn, Application(c), ~AppDefer(c) PROVE MInv'
  BY <1>1, <1>4, ApplicationCharges, ChargesKeeps
<1>5. ASSUME NEW c \in Conn, Environment(c) PROVE MInv'
  <2>1. ASSUME NEW f \in Fragment, ClientSend(c, f) PROVE MInv'
    BY <1>1, <2>1, ClientSendCharges, ChargesKeeps
  <2> QED
    BY <1>5, <2>1, EnvironmentBooks
<1> QED
  BY <1>2, <1>3, <1>4, <1>5 DEF Next, Finished

\* The invariant holds of every behaviour.
LEMMA MInvariance == Spec => []MInv
<1>1. Init /\ IInv => MInv
  BY MInitially
<1> QED
  BY <1>1, Invariance, MInductive, PTL DEF Spec

\* server->memused is never more than the buffers come to, so that no
\* connection is answered 503 for memory nobody has: whatever clients send,
\* _hs_buffer_free and the doubling in _hs_read_into_buffer take off no less
\* than was charged for the buffer, and more only where done_headers has
\* resized it without charging.
THEOREM MemoryNeverOverstated == Spec => []MemoryNotOverstated
<1>1. MInv => MemoryNotOverstated
  BY DEF MInv, MemoryNotOverstated, Capacities
<1> QED
  BY <1>1, MInvariance, PTL

\* As long as no request announces a body for which done_headers resizes the
\* buffer, server->memused is what the buffers come to in every state: each
\* path of the handlers and of the API, the freeing of a connection from
\* anywhere included, charges for exactly what it changes.
THEOREM MemoryAlwaysAccounted ==
  ASSUME NoResize
  PROVE  Spec => []MemoryAccounted
<1>1. MInv => MemoryAccounted
  BY DEF MInv, MemoryAccounted, Capacities
<1> QED
  BY <1>1, MInvariance, PTL
=============================================================================
