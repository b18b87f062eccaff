--------------------------- MODULE DataPath_proofs ---------------------------
(***************************************************************************)
(* The byte-level proofs: what the server read always fits in the request  *)
(* buffer, and the machine stops at its end, for every capacity, every set *)
(* of requests and every cutting of them; and what the operations of the   *)
(* growing response buffer append.                                         *)
(*                                                                         *)
(* The invariant is DInv.  Its parts say where the parser stands between   *)
(* its calls (Rest, Anchored) and within one (Placed).  What the machine   *)
(* may do depends on the class of its state: in those of a head or of a    *)
(* body with a length it stays within what was read; in those of chunks it *)
(* is only known to stay behind the headers, which is what keeps the data  *)
(* in the buffer when chunk_read moves it there.                           *)
(*                                                                         *)
(* A fold over the actions of a transition, and the largest element of a   *)
(* set, have no induction principle that could be cited with an operator;  *)
(* both are done by a smallest counterexample (SmallestFailure).           *)
(***************************************************************************)
EXTENDS DataPath, FiniteSetTheorems, SequenceTheorems,
        WellFoundedInduction, TLAPS

\* s is one of the sets in bad, and no smaller one is.
Smallest(s, bad, D) ==
  /\ s \in SUBSET D /\ s \in bad
  /\ \A t \in SUBSET D : t \subseteq s /\ t # s => t \notin bad

\* A claim that fails for some subset of a finite set fails for one and for
\* no smaller one.
LEMMA SmallestFailure ==
  ASSUME NEW D, IsFiniteSet(D), NEW bad, bad \subseteq SUBSET D, bad # {}
  PROVE  \E s : Smallest(s, bad, D)
<1>1. IsWellFoundedOn(StrictSubsetOrdering(D), FiniteSubsetsOf(D))
  BY FS_StrictSubsetOrderingWellFounded
<1>2. bad \subseteq FiniteSubsetsOf(D)
  BY FS_Subset DEF FiniteSubsetsOf
<1>3. PICK s \in bad :
        \A t \in bad : ~(<<t, s>> \in StrictSubsetOrdering(D))
  BY <1>1, <1>2, WFMin
<1>4. ASSUME NEW t \in SUBSET D, t \subseteq s, t # s, t \in bad
      PROVE  FALSE
  <2>1. s \in SUBSET D
    BY <1>3
  <2>2. <<t, s>> \in StrictSubsetOrdering(D)
    BY <1>4, <2>1 DEF StrictSubsetOrdering
  <2> QED
    BY <1>3, <1>4, <2>2
<1>5. s \in SUBSET D /\ s \in bad
  BY <1>3
<1> QED
  BY <1>4, <1>5 DEF Smallest

\* D are indices of a sequence.
Indices(D) == \E n \in Nat : D \in SUBSET (1 .. n)

\* A set of indices, and its subsets, are finite.
LEMMA SomeIndices ==
  ASSUME NEW D, Indices(D)
  PROVE  /\ IsFiniteSet(D)
         /\ \A s \in SUBSET D : Indices(s)
<1>1. PICK n \in Nat : D \in SUBSET (1 .. n)
  BY DEF Indices
<1>2. IsFiniteSet(1 .. n)
  BY FS_Interval
<1>3. IsFiniteSet(D)
  BY <1>1, <1>2, FS_Subset
<1>4. \A s \in SUBSET D : Indices(s)
  BY <1>1 DEF Indices
<1> QED
  BY <1>3, <1>4

\* A set of indices that is not empty has a largest one.
LEMMA MaxOf ==
  ASSUME NEW s, Indices(s), s # {}
  PROVE  /\ Max(s) \in s
         /\ \A y \in s : Max(s) >= y
<1>1. PICK n \in Nat : s \in SUBSET (1 .. n)
  BY DEF Indices
<1> DEFINE D == 1 .. n
           HasMax(t) == \E x \in t : \A y \in t : x >= y
           bad == {t \in SUBSET D : t # {} /\ ~ HasMax(t)}
<1>2. IsFiniteSet(D)
  BY FS_Interval
<1>3. ASSUME bad # {} PROVE FALSE
  <2>1. bad \subseteq SUBSET D
    OBVIOUS
  <2>2. PICK t : Smallest(t, bad, D)
    <3> HIDE DEF bad, D
    <3> QED  BY <1>2, <1>3, <2>1, SmallestFailure
  <2>3. /\ t \in SUBSET D /\ t \in bad
        /\ \A u \in SUBSET D : u \subseteq t /\ u # t => u \notin bad
    <3> HIDE DEF bad, D
    <3> QED  BY <2>2 DEF Smallest
  <2>4. PICK x \in t : TRUE
    BY <2>3
  <2> DEFINE u == t \ {x}
  <2>5. u \in SUBSET D /\ u \subseteq t /\ u # t /\ u \notin bad
    BY <2>3, <2>4
  <2>6. CASE u = {}
    <3>1. t = {x} /\ x \in D
      BY <2>3, <2>4, <2>6
    <3>2. HasMax(t)
      BY <3>1
    <3> QED  BY <2>3, <3>2
  <2>7. CASE u # {}
    <3>1. PICK z \in u : \A y \in u : z >= y
      BY <2>5, <2>7
    <3>2. x \in Int /\ z \in Int /\ \A y \in t : y \in Int
      BY <2>3, <2>4, <3>1
    <3>3. \A y \in t : y = x \/ y \in u
      OBVIOUS
    <3>4. HasMax(t)
      <4>1. CASE x >= z
        BY <2>4, <3>1, <3>2, <3>3, <4>1
      <4>2. CASE z >= x
        BY <2>4, <3>1, <3>2, <3>3, <4>2
      <4> QED  BY <3>2, <4>1, <4>2
    <3> QED  BY <2>3, <3>4
  <2> QED  BY <2>6, <2>7
<1>4. HasMax(s)
  BY <1>1, <1>3
<1> QED
  BY <1>4 DEF Max

-----------------------------------------------------------------------------
(* The actions of a transition, one after the other.                       *)

Act(m, action, byte) == IF m.out THEN m ELSE Execute(m, action, byte)

\* The next step of a fold, from c on, with x: the actions of a transition on a
\* byte, the headers that are printed, those that are set.
OnByte(byte) == <<"act", byte>>
Printing     == <<"print", "">>
Setting      == <<"set", "">>

Fold(c, x, how) ==
  IF how = Printing THEN grwprintf(c, HeaderLine(x))
  ELSE IF how = Setting THEN hs_response_set_header(c, x[1], x[2])
  ELSE Act(c, x, how[2])

LEMMA FoldIs ==
  /\ \A m, action, byte : Fold(m, action, OnByte(byte)) = Act(m, action, byte)
  /\ \A c, x : Fold(c, x, Printing) = grwprintf(c, HeaderLine(x))
  /\ \A c, x : Fold(c, x, Setting) = hs_response_set_header(c, x[1], x[2])
<1>1. Printing # Setting /\ \A byte : OnByte(byte) \notin {Printing, Setting}
  <2>1. "act" # "print" /\ "act" # "set" /\ "set" # "print"
    OBVIOUS
  <2> QED
    BY <2>1 DEF OnByte, Printing, Setting
<1>2. \A byte : OnByte(byte)[2] = byte
  BY DEF OnByte
<1> QED
  BY <1>1, <1>2 DEF Fold

\* g has, for every set of elements of D, what the fold has after the elements
\* of do at these indices.
Runs(g, m, do, how, D) ==
  g = [s \in SUBSET D |->
         IF s = {} THEN m ELSE Fold(g[s \ {Max(s)}], do[Max(s)], how)]

\* What such a function has at the empty set and at others.
LEMMA RunAt ==
  ASSUME NEW m, NEW do, NEW how, NEW D, NEW g, Runs(g, m, do, how, D)
  PROVE  /\ g[{}] = m
         /\ \A s \in SUBSET D :
              s # {} => g[s] = Fold(g[s \ {Max(s)}], do[Max(s)], how)
<1>1. {} \in SUBSET D
  OBVIOUS
<1>2. g[{}] = m
  BY <1>1 DEF Runs
<1>3. ASSUME NEW s \in SUBSET D, s # {}
      PROVE  g[s] = Fold(g[s \ {Max(s)}], do[Max(s)], how)
  BY <1>3 DEF Runs
<1> QED
  BY <1>2, <1>3

\* What is left of a set without its largest element.
LEMMA WithoutMax ==
  ASSUME NEW D, Indices(D), NEW s, s \in SUBSET D, s # {}
  PROVE  /\ Max(s) \in s /\ Max(s) \in D
         /\ s \ {Max(s)} \in SUBSET D
         /\ s \ {Max(s)} \subseteq s /\ s \ {Max(s)} # s
<1>1. Max(s) \in s
  BY MaxOf, SomeIndices
<1> QED
  BY <1>1

\* The result for a set does not depend on the larger set it is taken from.
LEMMA RunsAgree ==
  ASSUME NEW m, NEW do, NEW how, NEW D, Indices(D), NEW E,
         NEW g, Runs(g, m, do, how, D), NEW h, Runs(h, m, do, how, E),
         NEW u \in SUBSET D, u \in SUBSET E
  PROVE  g[u] = h[u]
<1> DEFINE bad == {s \in SUBSET D : s \in SUBSET E /\ g[s] # h[s]}
<1>1. bad \subseteq SUBSET D
  OBVIOUS
<1>2. IsFiniteSet(D)
  BY SomeIndices
<1>3. /\ g[{}] = m
      /\ \A s \in SUBSET D :
           s # {} => g[s] = Fold(g[s \ {Max(s)}], do[Max(s)], how)
  BY RunAt
<1>4. /\ h[{}] = m
      /\ \A s \in SUBSET E :
           s # {} => h[s] = Fold(h[s \ {Max(s)}], do[Max(s)], how)
  BY RunAt
<1>5. ASSUME bad # {} PROVE FALSE
  <2>1. PICK s : Smallest(s, bad, D)
    <3> HIDE DEF bad
    <3> QED  BY <1>1, <1>2, <1>5, SmallestFailure
  <2>2. /\ s \in SUBSET D /\ s \in bad
        /\ \A t \in SUBSET D : t \subseteq s /\ t # s => t \notin bad
    <3> HIDE DEF bad
    <3> QED  BY <2>1 DEF Smallest
  <2>3. s \in SUBSET D /\ s \in SUBSET E /\ g[s] # h[s]
    BY <2>2
  <2>4. s # {}
    BY <1>3, <1>4, <2>3
  <2> DEFINE t == s \ {Max(s)}
  <2>5. /\ t \in SUBSET D /\ t \subseteq s /\ t # s
    BY <2>3, <2>4, WithoutMax
  <2>6. g[s] = Fold(g[t], do[Max(s)], how) /\ h[s] = Fold(h[t], do[Max(s)], how)
    BY <1>3, <1>4, <2>3, <2>4
  <2> HIDE DEF t
  <2>7. t \in SUBSET E
    BY <2>3, <2>5
  <2>8. g[t] = h[t]
    BY <2>2, <2>5, <2>7
  <2> QED
    BY <2>3, <2>6, <2>8
<1> QED
  BY <1>5

\* There is such a function.
LEMMA RunsExist ==
  ASSUME NEW m, NEW do, NEW how, NEW D, Indices(D)
  PROVE  \E g : Runs(g, m, do, how, D)
<1> DEFINE bad == {s \in SUBSET D : ~ \E g : Runs(g, m, do, how, s)}
           G(s) == CHOOSE g : Runs(g, m, do, how, s)
<1>1. bad \subseteq SUBSET D
  OBVIOUS
<1>2. IsFiniteSet(D)
  BY SomeIndices
<1>3. ASSUME bad # {} PROVE FALSE
  <2>1. PICK s : Smallest(s, bad, D)
    <3> HIDE DEF bad
    <3> QED  BY <1>1, <1>2, <1>3, SmallestFailure
  <2>2. /\ s \in SUBSET D /\ s \in bad
        /\ \A t \in SUBSET D : t \subseteq s /\ t # s => t \notin bad
    <3> HIDE DEF bad
    <3> QED  BY <2>1 DEF Smallest
  <2>3. ASSUME NEW t \in SUBSET s, t # s
        PROVE  Runs(G(t), m, do, how, t)
    <3>1. t \in SUBSET D /\ t \notin bad
      BY <2>2, <2>3
    <3>2. \E g : Runs(g, m, do, how, t)
      BY <3>1
    <3> QED
      BY <3>2
  <2> HIDE DEF G
  <2> DEFINE V(t) == IF t = {} THEN m
                     ELSE Fold(G(t \ {Max(t)})[t \ {Max(t)}], do[Max(t)], how)
             g == [t \in SUBSET s |-> V(t)]
  <2>4. ASSUME NEW t \in SUBSET s
        PROVE  g[t] = IF t = {} THEN m
                      ELSE Fold(g[t \ {Max(t)}], do[Max(t)], how)
    <3>1. CASE t = {}
      BY <3>1
    <3>2. CASE t # {}
      <4> DEFINE v == t \ {Max(t)}
                 k == G(v)
      <4>1. Indices(t)
        BY <2>2, SomeIndices
      <4>2. Max(t) \in t
        BY <3>2, <4>1, MaxOf
      <4>3. v \in SUBSET s /\ v # s
        BY <4>2
      <4>4. g[v] = G(v)[v]
        <5>1. g[v] = V(v)
          BY <4>3
        <5>2. Indices(v)
          BY <4>1, SomeIndices
        <5> HIDE DEF v
        <5>3. Runs(k, m, do, how, v) /\ v \in SUBSET v
          BY <2>3, <4>3
        <5>4. CASE v = {}
          <6>1. V(v) = m
            BY <5>4
          <6> HIDE DEF k
          <6>2. k[{}] = m
            BY <5>3, RunAt
          <6>3. k[v] = m
            BY <5>4, <6>2
          <6> QED
            BY <5>1, <6>1, <6>3 DEF k
        <5>5. CASE v # {}
          <6> DEFINE w == v \ {Max(v)}
                     j == G(w)
          <6>1. V(v) = Fold(j[w], do[Max(v)], how)
            BY <5>5
          <6> HIDE DEF k, j, V, g
          <6>2. k[v] = Fold(k[w], do[Max(v)], how)
            BY <5>3, <5>5, RunAt
          <6>3. Max(v) \in v /\ w \in SUBSET v
            BY <5>2, <5>5, MaxOf
          <6>4. w \in SUBSET s /\ w # s /\ w \in SUBSET w
            BY <4>3, <6>3
          <6>5. Runs(j, m, do, how, w)
            BY <2>3, <6>4 DEF j
          <6> HIDE DEF w
          <6> HIDE DEF bad
          <6>6. k[w] = j[w]
            BY <5>2, <5>3, <6>3, <6>4, <6>5, RunsAgree
          <6> QED
            BY <5>1, <6>1, <6>2, <6>6 DEF k
        <5> QED
          BY <5>4, <5>5
      <4>5. g[t] = Fold(G(v)[v], do[Max(t)], how)
        BY <3>2
      <4> QED
        BY <3>2, <4>4, <4>5
    <3> QED
      BY <3>1, <3>2
  <2>5. g = [t \in SUBSET s |-> g[t]]
    OBVIOUS
  <2> HIDE DEF g
  <2>6. Runs(g, m, do, how, s)
    BY <2>4, <2>5 DEF Runs
  <2> QED
    BY <2>2, <2>6
<1>4. D \in SUBSET D
  OBVIOUS
<1> QED
  BY <1>3, <1>4

\* What Step makes of the machine its actions leave behind.
Ended(k) == IF k.out \/ k.cs = "error" THEN [k EXCEPT !.out = TRUE]
            ELSE [k EXCEPT !.p = @ + 1, !.out = k.p + 1 = k.pe]

\* The machine that Step's fold leaves behind.
LEMMA StepRuns ==
  ASSUME NEW m, NEW n \in Nat
  PROVE  LET byte == At(m.b, m.p)
             t    == Transition[m.cs][byte]
             m0   == [m EXCEPT !.cs = t.to]
         IN  DOMAIN t.do = 1 .. n =>
             \E g : /\ Runs(g, m0, t.do, OnByte(byte), 1 .. n)
                    /\ Step(m) = Ended(g[1 .. n])
<1> DEFINE byte == At(m.b, m.p)
           t    == Transition[m.cs][byte]
           m0   == [m EXCEPT !.cs = t.to]
           D    == DOMAIN t.do
           g == CHOOSE h :
                 h = [s \in SUBSET D |->
                       IF s = {} THEN m0
                       ELSE IF h[s \ {Max(s)}].out THEN h[s \ {Max(s)}]
                            ELSE Execute(h[s \ {Max(s)}], t.do[Max(s)], byte)]
<1>1. Step(m) = Ended(g[D])
  BY DEF Step, Ended, FoldLeft, MapThenFoldSet
<1>2. ASSUME D = 1 .. n
      PROVE  Runs(g, m0, t.do, OnByte(byte), 1 .. n)
  <2>1. Indices(1 .. n)
    BY DEF Indices
  <2>2. PICK h : Runs(h, m0, t.do, OnByte(byte), 1 .. n)
    BY <2>1, RunsExist
  <2> DEFINE F(k, s) == Fold(k[s \ {Max(s)}], t.do[Max(s)], OnByte(byte))
             A(k, s) == IF k[s \ {Max(s)}].out THEN k[s \ {Max(s)}]
                        ELSE Execute(k[s \ {Max(s)}], t.do[Max(s)], byte)
  <2>3. \A k, s : F(k, s) = A(k, s)
    BY FoldIs DEF Act
  <2>4. h = [s \in SUBSET D |-> IF s = {} THEN m0 ELSE F(h, s)]
    BY <1>2, <2>2 DEF Runs
  <2>5. h = [s \in SUBSET D |-> IF s = {} THEN m0 ELSE A(h, s)]
    <3> HIDE DEF F, A, m0, t
    <3> QED
      BY <2>3, <2>4
  <2>6. g = [s \in SUBSET D |-> IF s = {} THEN m0 ELSE A(g, s)]
    BY <2>5
  <2> HIDE DEF g
  <2>7. g = [s \in SUBSET D |-> IF s = {} THEN m0 ELSE F(g, s)]
    <3> HIDE DEF F, A, m0, t
    <3> QED
      BY <2>3, <2>6
  <2> QED
    BY <1>2, <2>7 DEF Runs
<1> HIDE DEF g
<1> QED
  BY <1>1, <1>2

-----------------------------------------------------------------------------
(* The transitions.                                                        *)

\* The states of the machine before the end of the headers, those of them in
\* a header named Transfer-Encoding, and those in a body with a length, ...
HeadState == {"start", "method", "target0", "target", "version0", "version",
              "line_end", "header0", "header", "blank", "final", "key",
              "cl_key", "te_key", "colon", "cl_colon", "te_colon", "ows",
              "cl_ows", "te_ows", "cl_digits", "value", "empty", "value_end"}
NamedState == {"te_key", "te_colon", "te_ows"}
BodyState == {"small_body", "small", "large_body", "large"}

\* ... and in a chunked body: before the data of the first chunk, in what
\* follows, and in the zero chunk.
OpenState == {"chunked_body", "first_size", "first_lf", "first0"}
HeldState == {"chunk_end", "chunk_lf", "chunk_size0", "chunk_size", "size_lf",
              "chunk0", "chunk", "first", "second_0", "second_cr",
              "second_end", "data", "data_cr", "data_lf", "data_0",
              "data_0cr", "data_end"}
ZeroState == {"zero", "zero_lf", "done"}

\* The actions of the transitions in a head and in the bodies.
HeadDo  == {"method", "target", "version", "header_key", "header_value",
            "emit_token", "content_length_digit", "reset_count", "inc_count",
            "done_headers"}
NamedDo == HeadDo \cup {"transfer_encoding"}
ChunkDo == {"body", "chunk_read", "chunk_start", "chunk_size", "end_stream"}
SizeDo  == {"chunk_start", "chunk_size"}
EndDo   == {"end_stream"}
BodyDo  == {"body", "small_body_read", "large_body_read"}

HeadEntry(s, e) ==
  /\ s \in HeadState /\ e.to \in HeadState
  /\ e.do \in Seq(NamedDo)
  /\ s \in NamedState \/ e.do \in Seq(HeadDo)
  /\ e.to \in NamedState => s \in NamedState \/ e.on = {"Transfer-Encoding"}

ChunkEntry(s, e) ==
  \/ s \in OpenState /\ e.to \in OpenState /\ e.do \in Seq(SizeDo)
  \/ s \in OpenState /\ e.to \in HeldState /\ e.do = <<"body", "chunk_read">>
  \/ s \in HeldState /\ e.to \in HeldState /\ e.do \in Seq(ChunkDo)
  \/ /\ s \in OpenState \cup HeldState \cup ZeroState
     /\ e.to \in ZeroState /\ e.do \in Seq(EndDo)

BodyEntry(s, e) ==
  s \in BodyState /\ e.to \in BodyState /\ e.do \in Seq(BodyDo)

\* Sequences of actions.
LEMMA Sequences ==
  ASSUME NEW S
  PROVE  /\ <<>> \in Seq(S)
         /\ \A a \in S : <<a>> \in Seq(S)
         /\ \A a, b \in S : <<a, b>> \in Seq(S)
         /\ \A a, b, c \in S : <<a, b, c>> \in Seq(S)
OBVIOUS

LEMMA Actions ==
  /\ \A a \in {"method", "target", "version", "header_key", "header_value",
               "emit_token", "content_length_digit", "reset_count", "inc_count",
               "done_headers"} : a \in HeadDo /\ a \in NamedDo
  /\ "transfer_encoding" \in NamedDo
  /\ \A a \in {"body", "chunk_read", "chunk_start", "chunk_size",
               "end_stream"} :
       a \in ChunkDo
  /\ "chunk_start" \in SizeDo /\ "chunk_size" \in SizeDo
  /\ "end_stream" \in EndDo
  /\ \A a \in {"body", "small_body_read", "large_body_read"} : a \in BodyDo
BY DEF HeadDo, NamedDo, ChunkDo, SizeDo, EndDo, BodyDo

LEMMA PlainBodyEntries ==
  ASSUME NEW s \in State, NEW e \in PlainBody(s)
  PROVE  BodyEntry(s, e)
<1>1. /\ s \in BodyState /\ e.to \in BodyState
      /\ e.do \in {<<"body", "small_body_read">>, <<"small_body_read">>,
                   <<"body", "large_body_read">>, <<"large_body_read">>}
  BY DEF PlainBody, On, BodyState
<1>2. e.do \in Seq(BodyDo)
  BY <1>1, Sequences, Actions
<1> QED
  BY <1>1, <1>2 DEF BodyEntry

LEMMA RequestLineEntries ==
  ASSUME NEW s \in State, NEW e \in RequestLine(s)
  PROVE  HeadEntry(s, e)
<1>1. /\ s \in {"start", "method", "target0", "target", "version0", "version",
                "line_end"}
      /\ e.to \in {"method", "target0", "target", "version0", "version",
                   "line_end", "header0"}
  BY DEF RequestLine, On
<1>2. e.do \in {<<>>, <<"method", "inc_count">>, <<"inc_count">>,
               <<"emit_token">>, <<"target", "inc_count">>, <<"version">>}
  BY DEF RequestLine, On
<1>3. e.do \in Seq(HeadDo) /\ e.do \in Seq(NamedDo)
  BY <1>2, Sequences, Actions
<1>4. s \in HeadState /\ e.to \in HeadState /\ e.to \notin NamedState
  BY <1>1 DEF HeadState, NamedState
<1> QED
  BY <1>3, <1>4 DEF HeadEntry

LEMMA HeaderKeyEntries ==
  ASSUME NEW s \in State, NEW e \in HeaderKey(s)
  PROVE  HeadEntry(s, e)
<1>1. /\ s \in HeadState /\ e.to \in HeadState
      /\ e.to \in NamedState => s \in NamedState \/ e.on = {"Transfer-Encoding"}
      /\ e.do \in {<<"reset_count", "header_key", "inc_count">>,
                   <<"header_key", "reset_count", "inc_count">>,
                   <<"inc_count", "done_headers">>, <<"inc_count">>,
                   <<"emit_token">>}
  BY DEF HeaderKey, KeyStart, On, HeadState, NamedState
<1>2. ASSUME NEW S, S \in {HeadDo, NamedDo}
      PROVE  e.do \in Seq(S)
  <2>1. \A a \in {"reset_count", "header_key", "inc_count", "done_headers",
                  "emit_token"} : a \in S
    BY <1>2, Actions
  <2>2. /\ <<"reset_count", "header_key", "inc_count">> \in Seq(S)
        /\ <<"header_key", "reset_count", "inc_count">> \in Seq(S)
        /\ <<"inc_count", "done_headers">> \in Seq(S)
        /\ <<"inc_count">> \in Seq(S) /\ <<"emit_token">> \in Seq(S)
    BY <2>1, Sequences
  <2> QED  BY <1>1, <2>2
<1> QED
  BY <1>1, <1>2 DEF HeadEntry

LEMMA HeaderValueEntries ==
  ASSUME NEW s \in State, NEW e \in HeaderValue(s)
  PROVE  HeadEntry(s, e)
<1>1. s \in {"colon", "cl_colon", "te_colon", "ows", "cl_ows", "te_ows",
             "cl_digits", "value", "empty", "value_end"}
  BY DEF HeaderValue
<1>2. /\ e.to \in {"ows", "cl_ows", "te_ows", "empty", "value", "cl_digits",
                   "value_end", "header"}
      /\ e.to = "te_ows" => s \in {"te_colon", "te_ows"}
  BY DEF HeaderValue, ValueStart, On
<1>3. \/ e.do \in {<<>>, <<"header_value", "inc_count">>,
                   <<"header_value", "inc_count", "emit_token">>,
                   <<"content_length_digit", "header_value", "inc_count">>,
                   <<"content_length_digit", "inc_count">>, <<"inc_count">>,
                   <<"emit_token">>}
      \/ /\ s = "te_ows"
         /\ e.do = <<"header_value", "inc_count", "transfer_encoding">>
  <2>1. CASE s \in {"ows", "cl_ows", "te_ows"}
    BY <2>1 DEF HeaderValue, ValueStart, On
  <2>2. CASE s \notin {"ows", "cl_ows", "te_ows"}
    BY <1>1, <2>2 DEF HeaderValue, On
  <2> QED  BY <2>1, <2>2
<1>4. ASSUME NEW S, S \in {HeadDo, NamedDo}
      PROVE  /\ <<>> \in Seq(S) /\ <<"header_value", "inc_count">> \in Seq(S)
             /\ <<"header_value", "inc_count", "emit_token">> \in Seq(S)
             /\ <<"content_length_digit", "header_value", "inc_count">> \in Seq(S)
             /\ <<"content_length_digit", "inc_count">> \in Seq(S)
             /\ <<"inc_count">> \in Seq(S) /\ <<"emit_token">> \in Seq(S)
  <2>1. \A a \in {"header_value", "inc_count", "emit_token",
                  "content_length_digit"} : a \in S
    BY <1>4, Actions
  <2> QED  BY <2>1, Sequences
<1>5. <<"header_value", "inc_count", "transfer_encoding">> \in Seq(NamedDo)
  BY Sequences, Actions
<1>6. e.do \in Seq(NamedDo) /\ (s = "te_ows" \/ e.do \in Seq(HeadDo))
  BY <1>3, <1>4, <1>5
<1>7. s \in HeadState /\ e.to \in HeadState
  BY <1>1, <1>2 DEF HeadState
<1> QED
  BY <1>2, <1>6, <1>7 DEF HeadEntry, NamedState

LEMMA NextChunkEntries ==
  ASSUME NEW s \in State, NEW e \in NextChunk(s)
  PROVE  ChunkEntry(s, e)
<1>1. /\ \/ /\ s \in HeldState /\ e.to \in HeldState
            /\ e.do \in {<<>>, <<"chunk_start", "chunk_size">>, <<"chunk_size">>,
                         <<"body", "chunk_read">>, <<"chunk_read">>}
         \/ /\ s \in HeldState \cup ZeroState /\ e.to \in ZeroState
            /\ e.do \in {<<>>, <<"end_stream">>}
  BY DEF NextChunk, On, HeldState, ZeroState
<1>2. /\ e.to \in HeldState => e.do \in Seq(ChunkDo)
      /\ e.to \in ZeroState => e.do \in Seq(EndDo)
  <2>1. HeldState \cap ZeroState = {}
    BY DEF HeldState, ZeroState
  <2> QED  BY <1>1, <2>1, Sequences, Actions
<1> QED
  BY <1>1, <1>2 DEF ChunkEntry

LEMMA DataEntries ==
  ASSUME NEW cr \in HeldState, NEW lf \in HeldState,
         NEW enter \in {<<>>, <<"body">>}, NEW e \in Data(cr, lf, enter)
  PROVE  e.to \in HeldState /\ e.do \in Seq(ChunkDo)
<1> DEFINE all == enter \o <<"chunk_read", "chunk_start", "chunk_size">>
<1>1. /\ enter \in Seq(ChunkDo)
      /\ <<"chunk_size">> \in Seq(ChunkDo) /\ <<"chunk_read">> \in Seq(ChunkDo)
      /\ <<"chunk_read", "chunk_start">> \in Seq(ChunkDo)
      /\ <<"chunk_read", "chunk_start", "chunk_size">> \in Seq(ChunkDo)
      /\ "end_stream" \in ChunkDo
  BY Sequences, Actions
<1>2. all \in Seq(ChunkDo)
  BY <1>1, ConcatProperties
<1>3. /\ Append(all, "end_stream") \in Seq(ChunkDo)
      /\ <<"chunk_size">> \o enter \o <<"chunk_read">> \in Seq(ChunkDo)
      /\ <<"chunk_size">> \o enter \o <<"chunk_read", "chunk_start">>
           \in Seq(ChunkDo)
  BY <1>1, <1>2, ConcatProperties, AppendProperties
<1>4. /\ e.to \in {"data_0", "data", cr, lf}
      /\ e.do \in {<<"chunk_size">> \o enter \o <<"chunk_read">>,
                   <<"chunk_size">> \o enter \o <<"chunk_read", "chunk_start">>,
                   all, Append(all, "end_stream")}
  BY DEF Data, On
<1> HIDE DEF all
<1> QED
  BY <1>2, <1>3, <1>4 DEF HeldState

LEMMA FirstChunkEntries ==
  ASSUME NEW s \in State, NEW e \in FirstChunk(s)
  PROVE  ChunkEntry(s, e)
<1>1. CASE s \in OpenState
  <2>1. \/ e.to \in ZeroState /\ e.do = <<>>
        \/ e.to \in HeldState /\ e.do = <<"body", "chunk_read">>
        \/ /\ e.to \in OpenState
           /\ e.do \in {<<>>, <<"chunk_start", "chunk_size">>, <<"chunk_size">>}
    BY <1>1 DEF FirstChunk, On, OpenState, HeldState, ZeroState
  <2>2. /\ <<>> \in Seq(SizeDo) /\ <<>> \in Seq(EndDo)
        /\ <<"chunk_start", "chunk_size">> \in Seq(SizeDo)
        /\ <<"chunk_size">> \in Seq(SizeDo)
    BY Sequences, Actions
  <2> QED  BY <1>1, <2>1, <2>2 DEF ChunkEntry
<1>2. CASE s \in {"first", "second_0"}
  <2>1. /\ e.to \in HeldState
        /\ e.do \in {<<"chunk_read">>,
                     <<"chunk_read", "chunk_start", "chunk_size">>}
    BY <1>2 DEF FirstChunk, On, HeldState
  <2>2. e.do \in Seq(ChunkDo)
    BY <2>1, Sequences, Actions
  <2> QED  BY <1>2, <2>1, <2>2 DEF ChunkEntry, HeldState
<1>3. CASE s \in {"data", "second_end", "data_cr", "data_lf", "data_end",
                  "data_0", "data_0cr", "second_cr"}
  <2>1. \E cr, lf \in HeldState, enter \in {<<>>, <<"body">>} :
          e \in Data(cr, lf, enter)
    BY <1>3 DEF FirstChunk, HeldState
  <2>2. e.to \in HeldState /\ e.do \in Seq(ChunkDo)
    BY <2>1, DataEntries
  <2> QED  BY <1>3, <2>2 DEF ChunkEntry, HeldState
<1>4. s \in OpenState \/ s \in {"first", "second_0"}
      \/ s \in {"data", "second_end", "data_cr", "data_lf", "data_end",
                  "data_0", "data_0cr", "second_cr"}
  BY DEF FirstChunk, OpenState
<1> QED
  BY <1>1, <1>2, <1>3, <1>4

\* What Transition says of a state and a byte.
ErrorEntry(e) == e.to = "error" /\ e.do = <<"error">>

\* All transitions of the machine.
LEMMA Entries ==
  ASSUME NEW s \in State, NEW b \in Byte
  PROVE  LET e == Transition[s][b]
         IN  \/ ErrorEntry(e)
             \/ (HeadEntry(s, e) \/ ChunkEntry(s, e) \/ BodyEntry(s, e))
                  /\ b \in e.on
<1> DEFINE all == RequestLine(s) \cup HeaderKey(s) \cup HeaderValue(s)
                    \cup NextChunk(s) \cup FirstChunk(s) \cup PlainBody(s)
           some == {e \in all : b \in e.on}
           e == Transition[s][b]
<1>1. e = Match(s, b)
  BY DEF Transition
<1>2. CASE some = {}
  <2>1. e = On({}, "error", <<"error">>)
    BY <1>1, <1>2 DEF Match
  <2> QED  BY <2>1 DEF On, ErrorEntry
<1>3. CASE some # {}
  <2>1. e \in some
    BY <1>1, <1>3 DEF Match
  <2>2. e \in all /\ b \in e.on
    BY <2>1
  <2> HIDE DEF e
  <2>3. HeadEntry(s, e) \/ ChunkEntry(s, e) \/ BodyEntry(s, e)
    BY <2>2, RequestLineEntries, HeaderKeyEntries, HeaderValueEntries,
       NextChunkEntries, FirstChunkEntries, PlainBodyEntries
  <2> HIDE DEF all
  <2> QED  BY <2>2, <2>3 DEF e
<1> QED  BY <1>2, <1>3

-----------------------------------------------------------------------------
(* What the machine works on.                                              *)

\* The bytes that can be in a buffer.
Sent == {b \in Byte : \/ b = "junk"
                      \/ \E s \in Shapes : \E i \in DOMAIN Wire[s] :
                            Wire[s][i] = b}

\* Some request says that its body is chunked.
Chunky == "Transfer-Encoding" \in Sent

ReadBuffers ==
  {b \in [capacity : Nat, length : Int, index : Nat,
          after_headers_index : Nat, seq : Int, mem : Seq(Sent)] :
     /\ DOMAIN b.mem = 1 .. b.capacity
     /\ b.capacity <= MaxCap
     /\ b.length <= b.capacity /\ b.after_headers_index <= b.capacity}

Parsers ==
  [state : State, content_length : Nat, content_remaining : Int,
   token : Token, limit_count : Nat, limit_max : Nat,
   flags : SUBSET {"CHUNKED", "TOKEN_READY", "DONE"}, seq : Int]

Machines == [cs : State, p : Int, pe : Int, b : ReadBuffers, h : Parsers,
             out : BOOLEAN]

\* The states in which the machine stays in what was read, ...
Plain(cs) == cs \in HeadState \cup BodyState \/ ~ Chunky

\* ... those that follow an announcement of chunks, ...
Chunks(cs) == cs \in NamedState \cup OpenState \cup HeldState \cup ZeroState

Near(m) ==
  /\ m \in Machines
  /\ 0 <= m.p /\ m.pe <= m.b.capacity
  /\ ~ m.out => "DONE" \notin m.h.flags
  /\ Plain(m.cs) => /\ m.p <= m.b.length
                    /\ ~ m.out => m.p < m.pe /\ m.pe = m.b.length
  /\ m.cs \in OpenState \cup HeldState \cup ZeroState
       => m.b.after_headers_index <= m.p
  /\ Chunks(m.cs) \/ "CHUNKED" \in m.h.flags => Chunky

Held(m) ==
  m.cs \in HeldState /\ "DONE" \notin m.h.flags =>
    m.b.after_headers_index <= m.h.token.index

Placed(m) == Near(m) /\ Held(m)

\* The classes have no state in common that would matter.
LEMMA StateClasses ==
  /\ \A s \in HeadState :
        s \in State /\ s \notin OpenState \cup HeldState \cup ZeroState
  /\ \A s \in BodyState : s \in State /\ s \notin HeadState /\ ~ Chunks(s)
  /\ \A s \in OpenState \cup HeldState \cup ZeroState :
        s \in State /\ s \notin HeadState \cup BodyState /\ Chunks(s)
  /\ "error" \in State /\ ~ Chunks("error")
  /\ "error" \notin HeadState \cup BodyState
  /\ "chunked_body" \in OpenState /\ "chunked_body" \notin HeldState
  /\ {"small_body", "large_body"} \subseteq BodyState
  /\ "chunk_end" \in HeldState
  /\ OpenState \cap HeldState = {}
BY DEF State, HeadState, NamedState, BodyState, OpenState, HeldState, ZeroState,
       Chunks

\* The value of a digit.
LEMMA ValueType == \A b : Value(b) \in Nat
<1> SUFFICES ASSUME NEW b PROVE Value(b) \in Nat
  OBVIOUS
<1>1. CASE b \in HexDigit
  <2>1. \E i \in 1 .. 16 : Sizes[i] = b
    BY <1>1 DEF HexDigit, ToSet, Sizes
  <2> QED  BY <1>1, <2>1 DEF Value
<1>2. CASE b \notin HexDigit
  BY <1>2 DEF Value
<1> QED  BY <1>1, <1>2

\* What an action that does not leave the buffer alone says of it.
LEMMA SameBuffer ==
  ASSUME NEW m, Placed(m), NEW n, n \in Machines,
         m.cs \in HeadState \cup BodyState, n.cs = m.cs, n.pe = m.pe, n.b = m.b,
         "CHUNKED" \in n.h.flags => Chunky,
         ~ n.out => "DONE" \notin n.h.flags,
         \/ n.p = m.p /\ n.out = m.out
         \/ ~ m.out /\ n.p = m.p + 1 /\ n.out
  PROVE  Placed(n)
<1>1. m.cs \notin OpenState \cup HeldState \cup ZeroState
  BY StateClasses
<1>2. m.p \in Int /\ m.pe \in Int /\ m.b.length \in Int
  BY DEF Placed, Near, Machines, ReadBuffers
<1> QED
  BY <1>1, <1>2 DEF Placed, Near, Held, Plain

LEMMA EnterTokenKeeps ==
  ASSUME NEW m, Placed(m), ~ m.out, m.cs \in HeadState,
         NEW type \in {"METHOD", "TARGET", "VERSION", "HEADER_KEY",
                       "HEADER_VALUE"},
         NEW n, n = EnterToken(m, type)
  PROVE  Placed(n) /\ ~ n.out /\ n.cs = m.cs
<1>1. Limit[type] \in Nat /\ type \in TokenType
  BY ParserAssumption DEF TokenType
<1>2. n \in Machines
  BY <1>1 DEF Placed, Near, Machines, Parsers, Token, EnterToken
<1>3. /\ n.cs = m.cs /\ n.p = m.p /\ n.pe = m.pe /\ n.b = m.b /\ n.out = m.out
      /\ n.h.flags = m.h.flags
  BY DEF Placed, Near, Machines, Parsers, Token, EnterToken
<1>4. /\ "CHUNKED" \in n.h.flags => Chunky
      /\ ~ n.out => "DONE" \notin n.h.flags
  BY <1>3 DEF Placed, Near
<1> QED  BY <1>2, <1>3, <1>4, SameBuffer

LEMMA FBreakType ==
  ASSUME NEW m \in Machines, NEW n, n = FBreak(m)
  PROVE  /\ n \in Machines
         /\ n.cs = m.cs /\ n.p = m.p + 1 /\ n.pe = m.pe /\ n.b = m.b
         /\ n.h = m.h /\ n.out
<1>1. n = [m EXCEPT !.p = m.p + 1, !.out = TRUE]
  BY DEF FBreak
<1>2. m.p + 1 \in Int
  BY DEF Machines
<1> QED
  BY <1>1, <1>2 DEF Machines

LEMMA ReadyType ==
  ASSUME NEW m \in Machines, NEW n, n = Ready(m)
  PROVE  /\ n \in Machines
         /\ n.cs = m.cs /\ n.p = m.p /\ n.pe = m.pe /\ n.b = m.b
         /\ n.h = [m.h EXCEPT !.flags = @ \cup {"TOKEN_READY"}] /\ n.out = m.out
         /\ n.h.flags = m.h.flags \cup {"TOKEN_READY"} /\ n.h.token = m.h.token
BY DEF Machines, Parsers, Ready

LEMMA EmitTokenKeeps ==
  ASSUME NEW m, Placed(m), ~ m.out, m.cs \in HeadState,
         NEW n, n = emit_token(m)
  PROVE  Placed(n) /\ n.out
<1> DEFINE k == [m EXCEPT !.h.token.len = m.p - m.h.token.index]
           r == Ready(k)
<1>1. /\ k \in Machines
      /\ k.cs = m.cs /\ k.p = m.p /\ k.pe = m.pe /\ k.b = m.b
      /\ k.h.flags = m.h.flags
  BY DEF Placed, Near, Machines, Parsers, Token
<1>2. n = FBreak(r)
  BY DEF emit_token
<1> HIDE DEF k
<1>3. /\ r \in Machines
      /\ r.cs = k.cs /\ r.p = k.p /\ r.pe = k.pe /\ r.b = k.b
      /\ r.h.flags = k.h.flags \cup {"TOKEN_READY"}
  BY <1>1, ReadyType
<1> HIDE DEF r
<1>4. /\ n \in Machines
      /\ n.cs = r.cs /\ n.p = r.p + 1 /\ n.pe = r.pe /\ n.b = r.b
      /\ n.h = r.h /\ n.out
  BY <1>2, <1>3, FBreakType
<1>5. n \in Machines
  BY <1>4
<1>6. /\ n.cs = m.cs /\ n.p = m.p + 1 /\ n.pe = m.pe /\ n.b = m.b /\ n.out
      /\ n.h.flags = m.h.flags \cup {"TOKEN_READY"}
  BY <1>1, <1>3, <1>4
<1>7. /\ "CHUNKED" \in n.h.flags => Chunky
      /\ ~ n.out => "DONE" \notin n.h.flags
  BY <1>6 DEF Placed, Near
<1> QED  BY <1>5, <1>6, <1>7, SameBuffer

LEMMA IncCountKeeps ==
  ASSUME NEW m, Placed(m), ~ m.out, m.cs \in HeadState,
         NEW n, n = inc_count(m)
  PROVE  Placed(n) /\ n.cs = m.cs
<1> DEFINE k == [m EXCEPT !.h.limit_count = @ + 1]
<1>1. /\ k \in Machines
      /\ k.cs = m.cs /\ k.p = m.p /\ k.pe = m.pe /\ k.b = m.b
      /\ k.h.flags = m.h.flags /\ k.out = m.out
  BY DEF Placed, Near, Machines, Parsers
<1>2. n = k \/ n = FBreak(k)
  BY DEF inc_count
<1> HIDE DEF k
<1>3. n \in Machines
  BY <1>1, <1>2, FBreakType
<1>4. /\ n.cs = m.cs /\ n.pe = m.pe /\ n.b = m.b /\ n.h.flags = m.h.flags
      /\ \/ n.p = m.p /\ n.out = m.out
         \/ n.p = m.p + 1 /\ n.out
  BY <1>1, <1>2, FBreakType
<1>5. /\ "CHUNKED" \in n.h.flags => Chunky
      /\ ~ n.out => "DONE" \notin n.h.flags
  BY <1>4 DEF Placed, Near
<1> QED  BY <1>3, <1>4, <1>5, SameBuffer

LEMMA ResetCountKeeps ==
  ASSUME NEW m, Placed(m), ~ m.out, m.cs \in HeadState,
         NEW n, n = reset_count(m)
  PROVE  Placed(n) /\ ~ n.out /\ n.cs = m.cs
<1>1. Limit["HEADER_KEY"] \in Nat
  BY ParserAssumption
<1>2. n \in Machines
  BY <1>1 DEF Placed, Near, Machines, Parsers, reset_count
<1>3. /\ n.cs = m.cs /\ n.p = m.p /\ n.pe = m.pe /\ n.b = m.b /\ n.out = m.out
      /\ n.h.flags = m.h.flags
  BY DEF Placed, Near, Machines, Parsers, reset_count
<1>4. /\ "CHUNKED" \in n.h.flags => Chunky
      /\ ~ n.out => "DONE" \notin n.h.flags
  BY <1>3 DEF Placed, Near
<1> QED  BY <1>2, <1>3, <1>4, SameBuffer

LEMMA LengthDigitKeeps ==
  ASSUME NEW m, Placed(m), ~ m.out, m.cs \in HeadState, NEW b,
         NEW n, n = content_length_digit(m, b)
  PROVE  Placed(n) /\ ~ n.out /\ n.cs = m.cs
<1>1. Value(b) \in Nat
  BY ValueType
<1>2. n \in Machines
  BY <1>1 DEF Placed, Near, Machines, Parsers, content_length_digit
<1>3. /\ n.cs = m.cs /\ n.p = m.p /\ n.pe = m.pe /\ n.b = m.b /\ n.out = m.out
      /\ n.h.flags = m.h.flags
  BY DEF Placed, Near, Machines, Parsers, content_length_digit
<1>4. /\ "CHUNKED" \in n.h.flags => Chunky
      /\ ~ n.out => "DONE" \notin n.h.flags
  BY <1>3 DEF Placed, Near
<1> QED  BY <1>2, <1>3, <1>4, SameBuffer

LEMMA TransferEncodingKeeps ==
  ASSUME NEW m, Placed(m), ~ m.out, m.cs \in HeadState, Chunky,
         NEW n, n = transfer_encoding(m)
  PROVE  Placed(n) /\ ~ n.out /\ n.cs = m.cs
<1>1. n \in Machines
  BY DEF Placed, Near, Machines, Parsers, transfer_encoding
<1>2. /\ n.cs = m.cs /\ n.p = m.p /\ n.pe = m.pe /\ n.b = m.b /\ n.out = m.out
      /\ "DONE" \notin n.h.flags
  BY DEF Placed, Near, Machines, Parsers, transfer_encoding
<1> QED  BY <1>1, <1>2, SameBuffer

\* A buffer that is resized keeps what it has.
LEMMA ResizeType ==
  ASSUME NEW b \in ReadBuffers, NEW c \in Nat, c <= MaxCap,
         b.length <= c, b.after_headers_index <= c
  PROVE  /\ Resize(b, c) \in ReadBuffers
         /\ Resize(b, c).capacity = c
         /\ Resize(b, c).length = b.length
         /\ Resize(b, c).index = b.index
         /\ Resize(b, c).after_headers_index = b.after_headers_index
         /\ Resize(b, c).seq = b.seq
<1> DEFINE mem == [i \in 1 .. c |-> At(b, i - 1)]
<1>1. \A i \in 1 .. c : At(b, i - 1) \in Sent
  <2>1. "junk" \in Sent
    BY DEF Sent, Byte
  <2>2. /\ b.mem \in Seq(Sent) /\ DOMAIN b.mem = 1 .. b.capacity
        /\ b.capacity \in Nat
    BY DEF ReadBuffers
  <2>3. \A i \in 1 .. b.capacity : b.mem[i] \in Sent
    BY <2>2, LenProperties
  <2> QED  BY <2>1, <2>2, <2>3 DEF At
<1>2. mem \in Seq(Sent) /\ DOMAIN mem = 1 .. c
  BY <1>1
<1>3. Resize(b, c) = [b EXCEPT !.capacity = c, !.mem = mem]
  BY DEF Resize
<1> HIDE DEF mem
<1> QED  BY <1>2, <1>3 DEF ReadBuffers

LEMMA HeadersDoneType ==
  ASSUME NEW m \in Machines, NEW next \in State,
         NEW marks \in SUBSET {"NO_BODY", "STREAMED_BODY"},
         NEW n, n = HeadersDone(m, next, marks)
  PROVE  /\ n \in Machines
         /\ n.cs = next /\ n.p = m.p + 1 /\ n.pe = m.pe /\ n.b = m.b /\ n.out
         /\ n.h.flags = m.h.flags \cup {"TOKEN_READY"}
<1> DEFINE token == [type |-> "HEADERS_DONE", flags |-> marks, len |-> 0,
                     index |-> 0]
           k == [m EXCEPT !.cs = next, !.h.token = token]
           r == Ready(k)
<1>1. token \in Token
  BY DEF Token, TokenType
<1>2. n = FBreak(r)
  BY DEF HeadersDone
<1> HIDE DEF token
<1>3. /\ k \in Machines
      /\ k.cs = next /\ k.p = m.p /\ k.pe = m.pe /\ k.b = m.b
      /\ k.h.flags = m.h.flags
  BY <1>1 DEF Machines, Parsers
<1> HIDE DEF k
<1>4. /\ r \in Machines
      /\ r.cs = k.cs /\ r.p = k.p /\ r.pe = k.pe /\ r.b = k.b
      /\ r.h.flags = k.h.flags \cup {"TOKEN_READY"}
  BY <1>3, ReadyType
<1> HIDE DEF r
<1>5. /\ n \in Machines
      /\ n.cs = r.cs /\ n.p = r.p + 1 /\ n.pe = r.pe /\ n.b = r.b
      /\ n.h = r.h /\ n.out
  BY <1>2, <1>4, FBreakType
<1> QED  BY <1>3, <1>4, <1>5

\* The end of the head, which may resize the buffer for the body.
LEMMA DoneHeadersKeeps ==
  ASSUME NEW m, Placed(m), ~ m.out, m.cs \in HeadState,
         NEW n, n = done_headers(m)
  PROVE  Placed(n) /\ n.out
<1> DEFINE after == m.p + 1
           size  == m.h.content_length
           k     == [m EXCEPT !.b.after_headers_index = after,
                              !.h.content_remaining = size]
           grown == [k EXCEPT !.b = Resize(@, size + after)]
<1>1. /\ m \in Machines /\ m.b \in ReadBuffers
      /\ size \in Nat /\ m.p \in Int /\ m.pe \in Int /\ m.b.length \in Int
      /\ m.b.capacity \in Nat /\ MaxCap \in Nat /\ 0 <= m.p
  BY ParserAssumption DEF Placed, Near, Machines, Parsers, ReadBuffers
<1>2. /\ m.p < m.pe /\ m.pe = m.b.length /\ m.pe <= m.b.capacity
      /\ m.b.length <= m.b.capacity /\ m.b.capacity <= MaxCap
      /\ "CHUNKED" \in m.h.flags \/ Chunks(m.cs) => Chunky
  BY DEF Placed, Near, Plain, Machines, ReadBuffers
<1>3. /\ k \in Machines
      /\ k.cs = m.cs /\ k.p = m.p /\ k.pe = m.pe /\ k.b.length = m.b.length
      /\ k.b.capacity = m.b.capacity /\ k.b.after_headers_index = after
      /\ k.h.flags = m.h.flags /\ k.h.content_length = size
  <2>1. [m.b EXCEPT !.after_headers_index = after] \in ReadBuffers
    BY <1>1, <1>2 DEF ReadBuffers
  <2>2. [m.h EXCEPT !.content_remaining = size] \in Parsers
    BY <1>1 DEF Machines, Parsers
  <2>3. k = [[m EXCEPT !.b = [m.b EXCEPT !.after_headers_index = after]]
               EXCEPT !.h = [m.h EXCEPT !.content_remaining = size]]
    BY <1>1 DEF Machines
  <2>4. /\ k \in Machines /\ k.cs = m.cs /\ k.p = m.p /\ k.pe = m.pe
        /\ k.b = [m.b EXCEPT !.after_headers_index = after]
        /\ k.h = [m.h EXCEPT !.content_remaining = size]
    BY <1>1, <2>1, <2>2, <2>3 DEF Machines
  <2> HIDE DEF k
  <2> QED  BY <1>1, <2>4 DEF Machines, ReadBuffers, Parsers
<1>4. \/ n = HeadersDone(k, "chunked_body", {"STREAMED_BODY"})
           /\ "CHUNKED" \in k.h.flags
      \/ n = HeadersDone(k, k.cs, {"NO_BODY"})
      \/ n = HeadersDone(k, "large_body", {"STREAMED_BODY"})
      \/ /\ n = HeadersDone(grown, "small_body", {})
         /\ ~ (size > MaxCap - after) /\ size + after > k.b.capacity
      \/ n = HeadersDone(k, "small_body", {})
  BY DEF done_headers
<1> HIDE DEF k
<1>5. ASSUME NEW q, q \in Machines, NEW next \in State,
             NEW marks \in SUBSET {"NO_BODY", "STREAMED_BODY"},
             n = HeadersDone(q, next, marks),
             q.p = m.p, q.pe = m.pe, q.b.length = m.b.length,
             q.b.capacity >= m.b.capacity, q.b.after_headers_index = after,
             q.h.flags = m.h.flags,
             \/ next \in HeadState /\ next = m.cs
             \/ next \in BodyState
             \/ next = "chunked_body" /\ Chunky
      PROVE  Placed(n) /\ n.out
  <2>1. /\ n \in Machines
        /\ n.cs = next /\ n.p = q.p + 1 /\ n.pe = q.pe /\ n.b = q.b /\ n.out
        /\ n.h.flags = q.h.flags \cup {"TOKEN_READY"}
    BY <1>5, HeadersDoneType
  <2>2. n.pe <= n.b.capacity /\ n.p <= n.b.length
    BY <1>1, <1>2, <1>5, <2>1 DEF Machines, ReadBuffers
  <2>3. n.cs \notin HeldState
    BY <1>5, <2>1, StateClasses
  <2>4. n.b.after_headers_index = n.p
    BY <1>5, <2>1
  <2>5. Chunks(n.cs) \/ "CHUNKED" \in n.h.flags => Chunky
    BY <1>2, <1>5, <2>1, StateClasses
  <2>6. Near(n)
    <3>1. n.p \in Int /\ n.b.after_headers_index <= n.p /\ 0 <= n.p
      BY <1>1, <1>5, <2>1, <2>4
    <3> QED  BY <2>1, <2>2, <2>5, <3>1 DEF Near
  <2> QED  BY <2>1, <2>3, <2>6 DEF Placed, Held
<1>6. /\ {"chunked_body", "large_body", "small_body"} \subseteq State
      /\ m.cs \in State
  BY StateClasses DEF State, Placed, Near, Machines
<1>7. ASSUME size + after > k.b.capacity, ~ (size > MaxCap - after)
      PROVE  /\ grown \in Machines
             /\ grown.p = m.p /\ grown.pe = m.pe /\ grown.b.length = m.b.length
             /\ grown.b.capacity >= m.b.capacity
             /\ grown.b.after_headers_index = after
             /\ grown.h.flags = m.h.flags
  <2> DEFINE b == Resize(k.b, size + after)
  <2>1. k.b \in ReadBuffers
    BY <1>3 DEF Machines
  <2>2. /\ size + after \in Nat /\ size + after <= MaxCap
        /\ k.b.length <= size + after
        /\ k.b.after_headers_index <= size + after
    BY <1>1, <1>2, <1>3, <1>7
  <2>3. /\ b \in ReadBuffers /\ b.capacity = size + after
        /\ b.length = k.b.length
        /\ b.after_headers_index = k.b.after_headers_index
    BY <2>1, <2>2, ResizeType
  <2>4. grown = [k EXCEPT !.b = b]
    OBVIOUS
  <2> HIDE DEF b, grown
  <2> QED  BY <1>1, <1>3, <1>7, <2>3, <2>4 DEF Machines
<1> HIDE DEF grown
<1> QED
  BY <1>1, <1>2, <1>3, <1>4, <1>5, <1>6, <1>7, StateClasses

-----------------------------------------------------------------------------
(* The actions in a body.                                                  *)

ChunkState == OpenState \cup HeldState \cup ZeroState

\* A machine after an assignment to a field of its token or of its parser.
Kin(n, m) ==
  /\ n \in Machines
  /\ n.cs = m.cs /\ n.p = m.p /\ n.pe = m.pe /\ n.b = m.b /\ n.out = m.out

LEMMA ChunkStates ==
  /\ \A s \in ChunkState : s \notin HeadState \cup BodyState /\ Chunks(s)
  /\ HeldState \cap BodyState = {} /\ "error" \notin ChunkState
  /\ \A s \in BodyState : s \notin ChunkState
BY StateClasses DEF ChunkState

\* An action that leaves buffer and position alone.
LEMMA SamePlace ==
  ASSUME NEW m, Near(m), ~ m.out, NEW n, n \in Machines, ~ n.out,
         n.cs = m.cs, n.p = m.p, n.pe = m.pe, n.b = m.b,
         n.h.flags = m.h.flags
  PROVE  Near(n)
BY DEF Near

LEMMA BodyKeeps ==
  ASSUME NEW m, Near(m), ~ m.out, NEW n, n = body(m)
  PROVE  Placed(n) /\ ~ n.out /\ n.cs = m.cs
<1>1. "BODY" \in TokenType
  BY DEF TokenType
<1>2. n \in Machines
  BY <1>1 DEF Near, Machines, Parsers, Token, body
<1>3. /\ n.cs = m.cs /\ n.p = m.p /\ n.pe = m.pe /\ n.b = m.b /\ n.out = m.out
      /\ n.h.flags = m.h.flags /\ n.h.token.index = m.p
  BY DEF Near, Machines, Parsers, Token, body
<1>4. m.cs \in HeldState => m.b.after_headers_index <= m.p
  BY DEF Near
<1> QED  BY <1>2, <1>3, <1>4, SamePlace DEF Placed, Held

LEMMA SizeKeeps ==
  ASSUME NEW m, Placed(m), ~ m.out, NEW b,
         NEW n, n = chunk_start(m) \/ n = chunk_size(m, b)
  PROVE  Placed(n) /\ ~ n.out /\ n.cs = m.cs
<1>1. Value(b) \in Nat
  BY ValueType
<1>2. n \in Machines
  BY <1>1 DEF Placed, Near, Machines, Parsers, chunk_start, chunk_size
<1>3. /\ n.cs = m.cs /\ n.p = m.p /\ n.pe = m.pe /\ n.b = m.b /\ n.out = m.out
      /\ n.h.flags = m.h.flags /\ n.h.token = m.h.token
  BY DEF Placed, Near, Machines, Parsers, chunk_start, chunk_size
<1> QED  BY <1>2, <1>3, SamePlace DEF Placed, Held

\* Bytes copied into a buffer, and a length that fits.
LEMMA CopyType ==
  ASSUME NEW b \in ReadBuffers, NEW at \in Int, NEW bytes,
         \A i \in DOMAIN bytes : bytes[i] \in Sent,
         NEW length \in Int, length <= b.capacity
  PROVE  LET c == [Copy(b, at, bytes) EXCEPT !.length = length]
         IN  /\ c \in ReadBuffers /\ c.length = length
             /\ c.capacity = b.capacity /\ c.index = b.index
             /\ c.after_headers_index = b.after_headers_index /\ c.seq = b.seq
<1> DEFINE mem == [i \in DOMAIN b.mem |-> IF i - at \in DOMAIN bytes
                                          THEN bytes[i - at] ELSE b.mem[i]]
           d == Copy(b, at, bytes)
<1>1. /\ b.mem \in Seq(Sent) /\ DOMAIN b.mem = 1 .. b.capacity
      /\ b.capacity \in Nat
  BY DEF ReadBuffers
<1>2. \A i \in 1 .. b.capacity : b.mem[i] \in Sent
  BY <1>1, LenProperties
<1>3. mem \in Seq(Sent) /\ DOMAIN mem = 1 .. b.capacity
  <2>1. DOMAIN mem = 1 .. b.capacity /\ mem = [i \in 1 .. b.capacity |-> mem[i]]
    BY <1>1
  <2>2. \A i \in 1 .. b.capacity : mem[i] \in Sent
    BY <1>1, <1>2
  <2> HIDE DEF mem
  <2>3. mem \in [1 .. b.capacity -> Sent]
    BY <2>1, <2>2
  <2> QED  BY <1>1, <2>1, <2>3, SeqDef
<1>4. d = [b EXCEPT !.mem = mem]
  BY DEF Copy
<1> HIDE DEF mem
<1>5. /\ d \in ReadBuffers /\ d.length = b.length
      /\ d.capacity = b.capacity /\ d.index = b.index
      /\ d.after_headers_index = b.after_headers_index /\ d.seq = b.seq
  BY <1>3, <1>4 DEF ReadBuffers
<1> HIDE DEF d
<1>6. LET c == [d EXCEPT !.length = length]
      IN  /\ c \in ReadBuffers /\ c.length = length
          /\ c.capacity = d.capacity /\ c.index = d.index
          /\ c.after_headers_index = d.after_headers_index /\ c.seq = d.seq
  BY <1>5 DEF ReadBuffers
<1> QED  BY <1>5, <1>6 DEF d

\* A chunk is complete, is moved down, or is waited for.
LEMMA ChunkReadKeeps ==
  ASSUME NEW m, Placed(m), ~ m.out, m.cs \in HeldState,
         NEW n, n = chunk_read(m)
  PROVE  Placed(n) /\ (~ n.out => n.cs = m.cs)
<1> DEFINE size  == m.h.content_length
           last  == m.h.token.index + size - 1
           after == m.b.after_headers_index
           rest  == SubSeq(m.b.mem, m.p + 1, m.pe)
           done  == [m EXCEPT !.p = last, !.cs = "chunk_end",
                              !.h.token.len = size]
           b     == [Copy(m.b, after, rest) EXCEPT
                       !.length = after + m.pe - m.p]
           moved == [m EXCEPT !.b = b, !.h.token.index = after,
                              !.h.seq = m.b.seq,
                              !.p = after, !.out = TRUE]
<1>1. /\ m \in Machines /\ m.b \in ReadBuffers /\ m.h \in Parsers
      /\ m.p \in Int /\ m.pe \in Int /\ m.b.capacity \in Nat /\ after \in Nat
      /\ m.b.mem \in Seq(Sent) /\ DOMAIN m.b.mem = 1 .. m.b.capacity
      /\ m.b.seq \in Int /\ size \in Nat /\ m.h.token \in Token
      /\ m.h.token.index \in Int
  BY DEF Placed, Near, Machines, Parsers, ReadBuffers, Token
<1>2. /\ 0 <= m.p /\ m.pe <= m.b.capacity /\ after <= m.p
      /\ "DONE" \notin m.h.flags /\ after <= m.h.token.index /\ Chunky
  BY StateClasses DEF Placed, Near, Held
<1>3. \/ n = FBreak(Ready(done)) \/ n = moved \/ n = m
  BY DEF chunk_read
<1>4. CASE n = FBreak(Ready(done))
  <2> DEFINE k1 == [m EXCEPT !.p = last]
             k2 == [k1 EXCEPT !.cs = "chunk_end"]
  <2>1. done = [k2 EXCEPT !.h.token.len = size]
    OBVIOUS
  <2>2. /\ k1 \in Machines /\ k1.p = last /\ k1.pe = m.pe /\ k1.b = m.b
        /\ k1.h = m.h
    BY <1>1 DEF Machines
  <2> HIDE DEF k1, done
  <2>3. /\ k2 \in Machines /\ k2.cs = "chunk_end" /\ k2.p = k1.p
        /\ k2.pe = k1.pe /\ k2.b = k1.b /\ k2.h = k1.h
    BY <1>1, <2>2, StateClasses DEF Machines
  <2> HIDE DEF k2
  <2>4. /\ Kin(done, k2) /\ done.h.flags = k2.h.flags
        /\ done.h.token.index = k2.h.token.index
    <3>1. size \in Int
      BY <1>1
    <3> HIDE DEF size
    <3>2. Kin(done, k2)
      BY <2>1, <2>3, <3>1 DEF Machines, Parsers, Token, Kin
    <3>3. done.h.flags = k2.h.flags /\ done.h.token.index = k2.h.token.index
      BY <2>1, <2>3 DEF Machines, Parsers, Token
    <3> QED  BY <3>2, <3>3
  <2>5. /\ done \in Machines
        /\ done.cs = "chunk_end" /\ done.p = last /\ done.pe = m.pe
        /\ done.b = m.b
        /\ done.h.flags = m.h.flags /\ done.h.token.index = m.h.token.index
    BY <2>2, <2>3, <2>4 DEF Kin
  <2> DEFINE r == Ready(done)
  <2> HIDE DEF done
  <2>6. /\ r \in Machines
        /\ r.cs = done.cs /\ r.p = done.p /\ r.pe = done.pe /\ r.b = done.b
        /\ r.h.flags = done.h.flags \cup {"TOKEN_READY"}
        /\ r.h.token = done.h.token
    BY <2>5, ReadyType
  <2>7. n = FBreak(r)
    BY <1>4
  <2> HIDE DEF r
  <2>8. /\ n \in Machines
        /\ n.cs = r.cs /\ n.p = r.p + 1 /\ n.pe = r.pe /\ n.b = r.b
        /\ n.h = r.h /\ n.out
    BY <2>6, <2>7, FBreakType
  <2>9. /\ n.cs = "chunk_end" /\ n.p = last + 1 /\ n.pe = m.pe /\ n.b = m.b
        /\ n.h.token.index = m.h.token.index
    BY <2>5, <2>6, <2>8
  <2>10. 0 <= n.p /\ after <= n.p
    <3>1. n.p = m.h.token.index + size
      BY <1>1, <2>9
    <3> HIDE DEF size, after
    <3> QED  BY <1>1, <1>2, <3>1
  <2>11. Near(n)
    BY <1>2, <2>8, <2>9, <2>10, StateClasses DEF Near, Plain
  <2>12. Held(n)
    BY <1>2, <2>9 DEF Held
  <2> QED  BY <2>8, <2>11, <2>12 DEF Placed
<1>5. CASE n = moved
  <2>1. \A i \in DOMAIN rest : rest[i] \in Sent
    <3>1. \A i \in m.p + 1 .. m.pe : m.b.mem[i] \in Sent
      <4>1. \A i \in 1 .. m.b.capacity : m.b.mem[i] \in Sent
        BY <1>1, LenProperties
      <4> QED  BY <1>1, <1>2, <4>1
    <3>2. rest \in Seq(Sent)
      BY <1>1, <3>1, SubSeqProperties
    <3> QED  BY <3>2, LenProperties
  <2>2. after + m.pe - m.p \in Int /\ after + m.pe - m.p <= m.b.capacity
    BY <1>1, <1>2
  <2> HIDE DEF rest
  <2>3. /\ b \in ReadBuffers /\ b.length = after + m.pe - m.p
        /\ b.capacity = m.b.capacity /\ b.after_headers_index = after
    BY <1>1, <2>1, <2>2, CopyType
  <2> HIDE DEF b
  <2> DEFINE k1 == [m EXCEPT !.b = b]
             k2 == [k1 EXCEPT !.h.token.index = after]
             k3 == [k2 EXCEPT !.h.seq = m.b.seq]
             k4 == [k3 EXCEPT !.p = after]
  <2>4. n = [k4 EXCEPT !.out = TRUE]
    BY <1>5
  <2>5. /\ k1 \in Machines /\ k1.cs = m.cs /\ k1.p = m.p /\ k1.pe = m.pe
        /\ k1.b = b /\ k1.h = m.h /\ k1.out = m.out
    BY <1>1, <2>3 DEF Machines
  <2> HIDE DEF k1
  <2>6. /\ Kin(k2, k1) /\ k2.h.flags = k1.h.flags /\ k2.h.token.index = after
    <3>1. after \in Int
      BY <1>1
    <3> HIDE DEF after
    <3>2. Kin(k2, k1)
      BY <2>5, <3>1 DEF Machines, Parsers, Token, Kin
    <3>3. k2.h.flags = k1.h.flags /\ k2.h.token.index = after
      BY <2>5 DEF Machines, Parsers, Token
    <3> QED  BY <3>2, <3>3
  <2> HIDE DEF k2
  <2>7. Kin(k3, k2) /\ k3.h.flags = k2.h.flags /\ k3.h.token = k2.h.token
    BY <1>1, <2>6 DEF Kin, Machines, Parsers
  <2> HIDE DEF k3
  <2>8. /\ k4 \in Machines /\ k4.cs = k3.cs /\ k4.p = after /\ k4.pe = k3.pe
        /\ k4.b = k3.b /\ k4.h = k3.h
    BY <1>1, <2>7 DEF Machines, Kin
  <2> HIDE DEF k4
  <2>9. /\ n \in Machines /\ n.cs = k4.cs /\ n.p = k4.p /\ n.pe = k4.pe
        /\ n.b = k4.b /\ n.h = k4.h /\ n.out
    BY <2>4, <2>8 DEF Machines
  <2>10. /\ n \in Machines /\ n.cs = m.cs /\ n.p = after /\ n.pe = m.pe
         /\ n.b = b
        /\ n.h.flags = m.h.flags /\ n.h.token.index = after /\ n.out
    BY <2>5, <2>6, <2>7, <2>8, <2>9 DEF Kin
  <2>11. Near(n)
    BY <1>1, <1>2, <2>3, <2>10, StateClasses DEF Near, Plain
  <2>12. Held(n)
    BY <1>1, <2>3, <2>10 DEF Held
  <2> QED  BY <2>10, <2>11, <2>12 DEF Placed
<1>6. CASE n = m
  BY <1>6
<1> QED  BY <1>3, <1>4, <1>5, <1>6

LEMMA EndStreamKeeps ==
  ASSUME NEW m, Placed(m), ~ m.out, m.cs \in HeldState \cup ZeroState,
         NEW n, n = end_stream(m)
  PROVE  Placed(n) /\ n.out
<1> DEFINE token == [type |-> "BODY", len |-> 0, index |-> 0,
                     flags |-> {"BODY_FINAL"}]
           k == [m EXCEPT !.h.token = token, !.h.flags = @ \cup {"DONE"}]
           r == Ready(k)
<1>1. token \in Token
  BY DEF Token, TokenType
<1>2. n = FBreak(r)
  BY DEF end_stream
<1> HIDE DEF token
<1>3. /\ k \in Machines
      /\ k.cs = m.cs /\ k.p = m.p /\ k.pe = m.pe /\ k.b = m.b
      /\ k.h.flags = m.h.flags \cup {"DONE"}
  BY <1>1 DEF Placed, Near, Machines, Parsers
<1> HIDE DEF k
<1>4. /\ r \in Machines
      /\ r.cs = k.cs /\ r.p = k.p /\ r.pe = k.pe /\ r.b = k.b
      /\ r.h.flags = k.h.flags \cup {"TOKEN_READY"}
  BY <1>3, ReadyType
<1> HIDE DEF r
<1>5. /\ n \in Machines
      /\ n.cs = r.cs /\ n.p = r.p + 1 /\ n.pe = r.pe /\ n.b = r.b
      /\ n.h = r.h /\ n.out
  BY <1>2, <1>4, FBreakType
<1>6. /\ n.cs = m.cs /\ n.p = m.p + 1 /\ n.pe = m.pe /\ n.b = m.b
      /\ "DONE" \in n.h.flags
  BY <1>3, <1>4, <1>5
<1>7. /\ 0 <= m.p /\ m.p \in Int /\ m.pe <= m.b.capacity /\ Chunky
      /\ m.b.after_headers_index <= m.p /\ m.b.after_headers_index \in Int
  BY StateClasses DEF Placed, Near, Machines, ReadBuffers
<1>8. 0 <= n.p /\ n.b.after_headers_index <= n.p
  BY <1>6, <1>7
<1>9. ~ Plain(n.cs)
  BY <1>6, <1>7, StateClasses DEF Plain
<1>10. Near(n)
  BY <1>5, <1>6, <1>7, <1>8, <1>9 DEF Near
<1> QED  BY <1>5, <1>6, <1>10 DEF Placed, Held

\* The body of a request that fits the buffer.
LEMMA SmallBodyKeeps ==
  ASSUME NEW m, Placed(m), ~ m.out, m.cs \in BodyState,
         NEW n, n = small_body_read(m)
  PROVE  Placed(n) /\ n.out
<1> DEFINE start == m.b.after_headers_index
           size  == m.h.content_length
           k1 == [m EXCEPT !.h.token.index = start]
           k2 == [k1 EXCEPT !.h.token.len = size]
           k == [k2 EXCEPT !.h.token.flags =
                   m.h.token.flags \cup {"SMALL_BODY"}]
           e == [k EXCEPT !.h.flags = @ \cup {"DONE"}]
           d == Ready(e)
<1>1. /\ m \in Machines /\ start \in Int /\ size \in Int
      /\ m.p \in Int /\ m.pe \in Int
  BY DEF Placed, Near, Machines, Parsers, ReadBuffers
<1>2. \/ n = [d EXCEPT !.p = m.pe, !.out = TRUE]
      \/ n = [k EXCEPT !.p = m.pe, !.out = TRUE]
  BY DEF small_body_read
<1>3. Kin(k1, m) /\ k1.h.flags = m.h.flags
  BY <1>1 DEF Machines, Parsers, Token, Kin
<1> HIDE DEF k1
<1>4. Kin(k2, k1) /\ k2.h.flags = k1.h.flags
  BY <1>1, <1>3 DEF Kin, Machines, Parsers, Token
<1> HIDE DEF k2
<1>5. Kin(k, k2) /\ k.h.flags = k2.h.flags
  <2>1. m.h.token.flags \in SUBSET {"NO_BODY", "STREAMED_BODY", "BODY_FINAL",
                                   "SMALL_BODY"}
    BY <1>1 DEF Machines, Parsers, Token
  <2> QED  BY <1>4, <2>1 DEF Machines, Parsers, Token, Kin
<1> HIDE DEF k
<1>6. /\ k \in Machines /\ k.cs = m.cs /\ k.p = m.p /\ k.pe = m.pe /\ k.b = m.b
      /\ k.h.flags = m.h.flags
  BY <1>3, <1>4, <1>5 DEF Kin
<1>7. /\ e \in Machines /\ e.cs = m.cs /\ e.p = m.p /\ e.pe = m.pe /\ e.b = m.b
      /\ e.h.flags = m.h.flags \cup {"DONE"}
  BY <1>6 DEF Machines, Parsers
<1> HIDE DEF e
<1>8. /\ d \in Machines /\ d.cs = m.cs /\ d.pe = m.pe /\ d.b = m.b
      /\ d.h.flags = m.h.flags \cup {"DONE", "TOKEN_READY"}
  <2>1. /\ d \in Machines /\ d.cs = e.cs /\ d.pe = e.pe /\ d.b = e.b
        /\ d.h.flags = e.h.flags \cup {"TOKEN_READY"}
    BY <1>7, ReadyType
  <2> HIDE DEF d
  <2> QED  BY <1>7, <2>1
<1> HIDE DEF d
<1>9. /\ n \in Machines /\ n.cs = m.cs /\ n.p = m.pe /\ n.pe = m.pe /\ n.b = m.b
      /\ n.out /\ ("CHUNKED" \in n.h.flags => "CHUNKED" \in m.h.flags)
  <2>1. ASSUME NEW x \in {d, k}, n = [x EXCEPT !.p = m.pe, !.out = TRUE]
        PROVE  /\ n \in Machines /\ n.cs = m.cs /\ n.p = m.pe /\ n.pe = m.pe
               /\ n.b = m.b /\ n.out /\ n.h = x.h
    <3>1. /\ x \in Machines /\ x.cs = m.cs /\ x.pe = m.pe /\ x.b = m.b
      BY <1>6, <1>8, <2>1
    <3> QED  BY <1>1, <2>1, <3>1 DEF Machines
  <2> QED  BY <1>2, <1>6, <1>8, <2>1
<1>10. /\ 0 <= m.p /\ m.p < m.pe /\ m.pe = m.b.length /\ m.pe <= m.b.capacity
      /\ ("CHUNKED" \in m.h.flags => Chunky)
  BY DEF Placed, Near, Plain
<1>11. /\ 0 <= n.p /\ n.p <= n.b.length
  BY <1>1, <1>9, <1>10
<1>12. n.cs \notin ChunkState /\ n.cs \notin HeldState /\ ~ Chunks(n.cs)
  BY <1>9, ChunkStates, StateClasses DEF ChunkState
<1>13. Near(n)
  BY <1>9, <1>10, <1>11, <1>12 DEF Near, ChunkState
<1> QED  BY <1>9, <1>12, <1>13 DEF Placed, Held

\* A piece of a large body; the length is set back behind the headers.
LEMMA LargeBodyKeeps ==
  ASSUME NEW m, Placed(m), ~ m.out, m.cs \in BodyState,
         NEW n, n = large_body_read(m)
  PROVE  Placed(n) /\ n.out
<1> DEFINE start == m.b.after_headers_index
           rest  == m.h.content_remaining
           k == [m EXCEPT !.h.token.index = start, !.out = TRUE]
           r == Ready(k)
           last == [r EXCEPT !.h.token.flags = {"BODY_FINAL"},
                             !.h.token.len = rest,
                             !.h.content_remaining = 0,
                             !.h.flags = @ \cup {"DONE"}]
           some == [r EXCEPT !.h.token.len = m.pe - m.p,
                             !.h.content_remaining = rest - (m.pe - m.p),
                             !.p = start, !.b.length = start, !.h.seq = m.b.seq]
<1>1. /\ m \in Machines /\ m.b \in ReadBuffers
      /\ start \in Int /\ 0 <= start /\ rest \in Int
      /\ m.p \in Int /\ m.pe \in Int /\ m.b.seq \in Int
      /\ start <= m.b.capacity
  BY DEF Placed, Near, Machines, Parsers, ReadBuffers
<1>2. /\ k \in Machines /\ k.cs = m.cs /\ k.p = m.p /\ k.pe = m.pe /\ k.b = m.b
      /\ k.h.flags = m.h.flags /\ k.out
  <2> DEFINE j == [m EXCEPT !.h.token.index = start]
  <2>1. k = [j EXCEPT !.out = TRUE]
    OBVIOUS
  <2>2. Kin(j, m) /\ j.h.flags = m.h.flags
    BY <1>1 DEF Machines, Parsers, Token, Kin
  <2> HIDE DEF j, k
  <2> QED  BY <2>1, <2>2 DEF Machines, Kin
<1>3. n = last \/ n = some
  BY DEF large_body_read
<1> HIDE DEF k
<1>4. /\ r \in Machines /\ r.cs = m.cs /\ r.p = m.p /\ r.pe = m.pe /\ r.b = m.b
      /\ r.h.flags = m.h.flags \cup {"TOKEN_READY"} /\ r.out
  BY <1>2, ReadyType
<1> HIDE DEF r
<1>5. /\ 0 <= m.p /\ m.p < m.pe /\ m.pe = m.b.length /\ m.pe <= m.b.capacity
      /\ ("CHUNKED" \in m.h.flags => Chunky)
  BY DEF Placed, Near, Plain
<1>6. m.cs \notin ChunkState /\ m.cs \notin HeldState /\ ~ Chunks(m.cs)
  BY ChunkStates, StateClasses DEF ChunkState
<1>7. CASE n = last
  <2> DEFINE k1 == [r EXCEPT !.h.token.flags = {"BODY_FINAL"}]
             k2 == [k1 EXCEPT !.h.token.len = rest]
             k3 == [k2 EXCEPT !.h.content_remaining = 0]
  <2>1. n = [k3 EXCEPT !.h.flags = r.h.flags \cup {"DONE"}]
    BY <1>7
  <2>2. Kin(k1, r) /\ k1.h.flags = r.h.flags
    BY <1>4 DEF Machines, Parsers, Token, Kin
  <2> HIDE DEF k1
  <2>3. Kin(k2, k1) /\ k2.h.flags = k1.h.flags
    BY <1>1, <2>2 DEF Kin, Machines, Parsers, Token
  <2> HIDE DEF k2
  <2>4. Kin(k3, k2) /\ k3.h.flags = k2.h.flags
    BY <2>3 DEF Kin, Machines, Parsers
  <2> HIDE DEF k3
  <2>5. Kin(n, k3) /\ n.h.flags = r.h.flags \cup {"DONE"}
    BY <1>4, <2>1, <2>4 DEF Machines, Parsers, Kin
  <2>6. /\ n \in Machines /\ n.cs = m.cs /\ n.p = m.p /\ n.pe = m.pe
        /\ n.b = m.b
        /\ n.out /\ n.h.flags = m.h.flags \cup {"TOKEN_READY", "DONE"}
    BY <1>4, <2>2, <2>3, <2>4, <2>5 DEF Kin
  <2>7. Near(n)
    BY <1>1, <1>5, <1>6, <2>6 DEF Near, ChunkState
  <2> QED  BY <1>6, <2>6, <2>7 DEF Placed, Held, ChunkState
<1>8. CASE n = some
  <2> DEFINE len  == m.pe - m.p
             more == rest - len
             b  == [m.b EXCEPT !.length = start]
             k1 == [r EXCEPT !.h.token.len = len]
             k2 == [k1 EXCEPT !.h.content_remaining = more]
             k3 == [k2 EXCEPT !.p = start]
             k4 == [k3 EXCEPT !.b.length = start]
  <2>1. n = [k4 EXCEPT !.h.seq = m.b.seq]
    BY <1>8
  <2>2. /\ b \in ReadBuffers /\ b.length = start /\ b.capacity = m.b.capacity
    BY <1>1 DEF ReadBuffers
  <2>3. len \in Int /\ more \in Int
    BY <1>1
  <2>4. Kin(k1, r) /\ k1.h.flags = r.h.flags
    BY <1>4, <2>3 DEF Machines, Parsers, Token, Kin
  <2> HIDE DEF k1
  <2>5. Kin(k2, k1) /\ k2.h.flags = k1.h.flags
    BY <2>3, <2>4 DEF Kin, Machines, Parsers
  <2> HIDE DEF k2
  <2>6. /\ k3 \in Machines /\ k3.cs = k2.cs /\ k3.p = start /\ k3.pe = k2.pe
        /\ k3.b = k2.b /\ k3.h = k2.h /\ k3.out = k2.out
    BY <1>1, <2>5 DEF Machines, Kin
  <2>7. k3.b = m.b
    BY <1>4, <2>4, <2>5, <2>6 DEF Kin
  <2> HIDE DEF k3
  <2>8. /\ k4 \in Machines /\ k4.cs = k3.cs /\ k4.p = k3.p /\ k4.pe = k3.pe
        /\ k4.b = b /\ k4.h = k3.h /\ k4.out = k3.out
    <3>1. k4 = [k3 EXCEPT !.b = b]
      BY <2>7
    <3> HIDE DEF b, k4
    <3> QED  BY <2>2, <2>6, <3>1 DEF Machines
  <2> HIDE DEF k4
  <2>9. Kin(n, k4) /\ n.h.flags = k4.h.flags
    BY <1>1, <2>1, <2>8 DEF Machines, Parsers, Kin
  <2>10. /\ n \in Machines /\ n.cs = m.cs /\ n.p = start /\ n.pe = m.pe
         /\ n.b = b
        /\ n.out /\ n.h.flags = m.h.flags \cup {"TOKEN_READY"}
    <3> HIDE DEF b
    <3> QED  BY <1>4, <2>4, <2>5, <2>6, <2>8, <2>9 DEF Kin
  <2>11. Near(n)
    BY <1>1, <1>5, <1>6, <2>2, <2>10 DEF Near, ChunkState
  <2> QED  BY <1>6, <2>10, <2>11 DEF Placed, Held, ChunkState
<1> QED  BY <1>3, <1>7, <1>8

LEMMA ErrorKeeps ==
  ASSUME NEW m, Placed(m), ~ m.out, m.cs = "error", NEW n, n = FBreak(m)
  PROVE  Placed(n) /\ n.out
<1>1. /\ n \in Machines /\ n.cs = m.cs /\ n.p = m.p + 1 /\ n.pe = m.pe
      /\ n.b = m.b /\ n.h = m.h /\ n.out
  BY FBreakType DEF Placed, Near
<1>2. m.p \in Int /\ m.pe \in Int
  BY DEF Placed, Near, Machines
<1>3. m.cs \notin HeadState \cup BodyState \cup OpenState \cup HeldState
                  \cup ZeroState
  BY DEF HeadState, BodyState, OpenState, HeldState, ZeroState
<1> QED  BY <1>1, <1>2, <1>3 DEF Placed, Near, Held, Plain

-----------------------------------------------------------------------------
(* One byte.                                                               *)

\* What every step of a fold keeps, its last one leaves behind.
LEMMA RunsKeep ==
  ASSUME NEW m, NEW do, NEW how, NEW D, Indices(D),
         NEW g, Runs(g, m, do, how, D), NEW Good, m \in Good,
         \A k \in Good : \A i \in D : Fold(k, do[i], how) \in Good
  PROVE  \A s \in SUBSET D : g[s] \in Good
<1> DEFINE bad == {s \in SUBSET D : g[s] \notin Good}
<1>1. bad \subseteq SUBSET D
  OBVIOUS
<1>2. IsFiniteSet(D)
  BY SomeIndices
<1>3. /\ g[{}] = m
      /\ \A s \in SUBSET D :
           s # {} => g[s] = Fold(g[s \ {Max(s)}], do[Max(s)], how)
  BY RunAt
<1>4. ASSUME bad # {} PROVE FALSE
  <2>1. PICK s : Smallest(s, bad, D)
    <3> HIDE DEF bad
    <3> QED  BY <1>1, <1>2, <1>4, SmallestFailure
  <2>2. /\ s \in SUBSET D /\ s \in bad
        /\ \A t \in SUBSET D : t \subseteq s /\ t # s => t \notin bad
    <3> HIDE DEF bad
    <3> QED  BY <2>1 DEF Smallest
  <2>3. s \in SUBSET D /\ g[s] \notin Good
    BY <2>2
  <2>4. s # {}
    BY <1>3, <2>3
  <2> DEFINE t == s \ {Max(s)}
  <2>5. /\ t \in SUBSET D /\ t \subseteq s /\ t # s /\ Max(s) \in D
    BY <2>3, <2>4, WithoutMax
  <2>6. g[s] = Fold(g[t], do[Max(s)], how)
    BY <1>3, <2>3, <2>4
  <2> HIDE DEF t
  <2>7. g[t] \in Good
    BY <2>2, <2>5
  <2> QED
    BY <2>3, <2>5, <2>6, <2>7
<1> QED
  BY <1>4

\* The machines that keep their place, in the state a transition leads to
\* unless an action has left it.
Settled(to) == {k \in Machines : Placed(k) /\ (~ k.out => k.cs = to)}

LEMMA HeadAction ==
  ASSUME NEW to \in HeadState, NEW k \in Settled(to), NEW byte,
         NEW action \in NamedDo, Chunky \/ action \in HeadDo
  PROVE  Act(k, action, byte) \in Settled(to)
<1> DEFINE n == Act(k, action, byte)
<1>1. Placed(k) /\ (~ k.out => k.cs \in HeadState)
  BY DEF Settled
<1>2. CASE k.out
  BY <1>2 DEF Act
<1>3. CASE ~ k.out
  <2>1. n = Execute(k, action, byte)
    BY <1>3 DEF Act
  <2> HIDE DEF n
  <2>2. Placed(n) /\ (n.out \/ n.cs = k.cs)
    <3>1. CASE action \in {"method", "target", "version", "header_key",
                           "header_value"}
      <4>1. \E type \in {"METHOD", "TARGET", "VERSION", "HEADER_KEY",
                         "HEADER_VALUE"} : n = EnterToken(k, type)
        BY <2>1, <3>1 DEF Execute
      <4> QED  BY <1>1, <1>3, <4>1, EnterTokenKeeps
    <3>2. CASE action = "emit_token"
      <4>1. n = emit_token(k)
        BY <2>1, <3>2 DEF Execute
      <4> QED  BY <1>1, <1>3, <4>1, EmitTokenKeeps
    <3>3. CASE action = "content_length_digit"
      <4>1. n = content_length_digit(k, byte)
        BY <2>1, <3>3 DEF Execute
      <4> QED  BY <1>1, <1>3, <4>1, LengthDigitKeeps
    <3>4. CASE action = "reset_count"
      <4>1. n = reset_count(k)
        BY <2>1, <3>4 DEF Execute
      <4> QED  BY <1>1, <1>3, <4>1, ResetCountKeeps
    <3>5. CASE action = "inc_count"
      <4>1. n = inc_count(k)
        BY <2>1, <3>5 DEF Execute
      <4> QED  BY <1>1, <1>3, <4>1, IncCountKeeps
    <3>6. CASE action = "done_headers"
      <4>1. n = done_headers(k)
        BY <2>1, <3>6 DEF Execute
      <4> QED  BY <1>1, <1>3, <4>1, DoneHeadersKeeps
    <3>7. CASE action = "transfer_encoding"
      <4>1. n = transfer_encoding(k)
        BY <2>1, <3>7 DEF Execute
      <4>2. Chunky
        BY <3>7 DEF HeadDo
      <4> QED  BY <1>1, <1>3, <4>1, <4>2, TransferEncodingKeeps
    <3> QED  BY <3>1, <3>2, <3>3, <3>4, <3>5, <3>6, <3>7 DEF NamedDo, HeadDo
  <2>3. n \in Machines
    BY <2>2 DEF Placed, Near
  <2>4. n \in Settled(to)
    BY <1>3, <2>2, <2>3 DEF Settled
  <2> QED  BY <2>4 DEF n
<1> QED  BY <1>2, <1>3

LEMMA BodyAction ==
  ASSUME NEW to \in BodyState, NEW k \in Settled(to), NEW byte,
         NEW action \in BodyDo
  PROVE  Act(k, action, byte) \in Settled(to)
<1> DEFINE n == Act(k, action, byte)
<1>1. Placed(k) /\ Near(k) /\ (~ k.out => k.cs \in BodyState)
  BY DEF Settled, Placed
<1>2. CASE k.out
  BY <1>2 DEF Act
<1>3. CASE ~ k.out
  <2>1. n = Execute(k, action, byte)
    BY <1>3 DEF Act
  <2> HIDE DEF n
  <2>2. Placed(n) /\ (n.out \/ n.cs = k.cs)
    <3>1. CASE action = "body"
      <4>1. n = body(k)
        BY <2>1, <3>1 DEF Execute
      <4> QED  BY <1>1, <1>3, <4>1, BodyKeeps
    <3>2. CASE action = "small_body_read"
      <4>1. n = small_body_read(k)
        BY <2>1, <3>2 DEF Execute
      <4> QED  BY <1>1, <1>3, <4>1, SmallBodyKeeps
    <3>3. CASE action = "large_body_read"
      <4>1. n = large_body_read(k)
        BY <2>1, <3>3 DEF Execute
      <4> QED  BY <1>1, <1>3, <4>1, LargeBodyKeeps
    <3> QED  BY <3>1, <3>2, <3>3 DEF BodyDo
  <2>3. n \in Machines
    BY <2>2 DEF Placed, Near
  <2>4. n \in Settled(to)
    BY <1>3, <2>2, <2>3 DEF Settled
  <2> QED  BY <2>4 DEF n
<1> QED  BY <1>2, <1>3

LEMMA ChunkAction ==
  ASSUME NEW to \in ChunkState, NEW k \in Settled(to), NEW byte,
         NEW action \in ChunkDo,
         \/ to \in HeldState
         \/ to \in OpenState /\ action \in SizeDo
         \/ to \in ZeroState /\ action \in EndDo
  PROVE  Act(k, action, byte) \in Settled(to)
<1> DEFINE n == Act(k, action, byte)
<1>1. Placed(k) /\ Near(k) /\ (~ k.out => k.cs = to)
  BY DEF Settled, Placed
<1>2. CASE k.out
  BY <1>2 DEF Act
<1>3. CASE ~ k.out
  <2>1. n = Execute(k, action, byte)
    BY <1>3 DEF Act
  <2> HIDE DEF n
  <2>2. Placed(n) /\ (n.out \/ n.cs = k.cs)
    <3>1. CASE action = "body"
      <4>1. n = body(k)
        BY <2>1, <3>1 DEF Execute
      <4> QED  BY <1>1, <1>3, <4>1, BodyKeeps
    <3>2. CASE action = "chunk_read"
      <4>1. n = chunk_read(k)
        BY <2>1, <3>2 DEF Execute
      <4>2. k.cs \in HeldState
        BY <1>1, <1>3, <3>2 DEF SizeDo, EndDo
      <4> QED  BY <1>1, <1>3, <4>1, <4>2, ChunkReadKeeps
    <3>3. CASE action = "chunk_start"
      <4>1. n = chunk_start(k)
        BY <2>1, <3>3 DEF Execute
      <4> QED  BY <1>1, <1>3, <4>1, SizeKeeps
    <3>4. CASE action = "chunk_size"
      <4>1. n = chunk_size(k, byte)
        BY <2>1, <3>4 DEF Execute
      <4> QED  BY <1>1, <1>3, <4>1, SizeKeeps
    <3>5. CASE action = "end_stream"
      <4>1. n = end_stream(k)
        BY <2>1, <3>5 DEF Execute
      <4>2. k.cs \in HeldState \cup ZeroState
        BY <1>1, <1>3, <3>5 DEF SizeDo
      <4> QED  BY <1>1, <1>3, <4>1, <4>2, EndStreamKeeps
    <3> QED  BY <3>1, <3>2, <3>3, <3>4, <3>5 DEF ChunkDo
  <2>3. n \in Machines
    BY <2>2 DEF Placed, Near
  <2>4. n \in Settled(to)
    BY <1>3, <2>2, <2>3 DEF Settled
  <2> QED  BY <2>4 DEF n
<1> QED  BY <1>2, <1>3

\* The byte at the machine's position.
LEMMA AtSent ==
  ASSUME NEW b \in ReadBuffers, NEW i \in Int
  PROVE  At(b, i) \in Sent /\ At(b, i) \in Byte
<1>1. "junk" \in Sent
  BY DEF Sent, Byte
<1>2. /\ b.mem \in Seq(Sent) /\ DOMAIN b.mem = 1 .. b.capacity
      /\ b.capacity \in Nat
  BY DEF ReadBuffers
<1>3. \A j \in 1 .. b.capacity : b.mem[j] \in Sent
  BY <1>2, LenProperties
<1>4. At(b, i) \in Sent
  BY <1>1, <1>2, <1>3 DEF At
<1> QED  BY <1>4 DEF Sent

\* The machine in the state that a transition leads to.
LEMMA MovesOn ==
  ASSUME NEW m, Placed(m), ~ m.out, NEW to \in State,
         NEW n, n = [m EXCEPT !.cs = to]
  PROVE  /\ n \in Machines
         /\ n.cs = to /\ n.p = m.p /\ n.pe = m.pe /\ n.b = m.b /\ n.h = m.h
         /\ n.out = m.out
BY DEF Placed, Near, Machines

\* Where a transition leads to, positions are still in place; the data of the
\* first chunk has no token yet.
LEMMA MovesNear ==
  ASSUME NEW m, Placed(m), ~ m.out, NEW to, NEW n, n = [m EXCEPT !.cs = to],
         \/ to = "error"
         \/ /\ m.cs \in HeadState /\ to \in HeadState
            /\ to \in NamedState => Chunky
         \/ m.cs \in BodyState /\ to \in BodyState
         \/ m.cs \in ChunkState /\ to \in ChunkState
  PROVE  /\ Near(n) /\ ~ n.out /\ n.cs = to
         /\ (to \in HeldState => m.cs \in HeldState) => Placed(n)
<1>1. to \in State
  BY StateClasses DEF ChunkState
<1>2. /\ n \in Machines
      /\ n.cs = to /\ n.p = m.p /\ n.pe = m.pe /\ n.b = m.b /\ n.h = m.h
      /\ n.out = m.out
  BY <1>1, MovesOn
<1>3. Plain(to) => Plain(m.cs)
  BY ChunkStates, StateClasses DEF Plain, ChunkState
<1>4. to \in ChunkState => m.cs \in ChunkState
  BY ChunkStates, StateClasses DEF ChunkState
<1>5. Chunks(to) => Chunky
  <2>1. CASE to = "error"
    BY <2>1, StateClasses
  <2>2. CASE to \in HeadState /\ (to \in NamedState => Chunky)
    BY <2>2, StateClasses DEF Chunks
  <2>3. CASE to \in BodyState
    BY <2>3, StateClasses
  <2>4. CASE m.cs \in ChunkState
    BY <2>4, ChunkStates DEF Placed, Near
  <2> QED  BY <2>1, <2>2, <2>3, <2>4
<1>6. Near(n)
  BY <1>2, <1>3, <1>4, <1>5 DEF Placed, Near, ChunkState
<1> QED  BY <1>2, <1>6 DEF Placed, Held

LEMMA EntryActions ==
  ASSUME NEW s, NEW e,
         ErrorEntry(e) \/ HeadEntry(s, e) \/ ChunkEntry(s, e) \/ BodyEntry(s, e)
  PROVE  Len(e.do) \in Nat /\ DOMAIN e.do = 1 .. Len(e.do)
<1>1. \E S : e.do \in Seq(S)
  <2>1. <<"error">> \in Seq({"error"})
        /\ <<"body", "chunk_read">> \in Seq({"body", "chunk_read"})
    OBVIOUS
  <2> QED  BY <2>1 DEF ErrorEntry, HeadEntry, ChunkEntry, BodyEntry
<1> QED  BY <1>1, LenProperties

\* One transition, with all of its actions.
LEMMA TransitionKeeps ==
  ASSUME NEW m, Placed(m), ~ m.out, NEW byte \in Sent, byte \in Byte, NEW e,
         \/ ErrorEntry(e)
         \/ /\ HeadEntry(m.cs, e) \/ ChunkEntry(m.cs, e) \/ BodyEntry(m.cs, e)
            /\ byte \in e.on,
         NEW g,
         Runs(g, [m EXCEPT !.cs = e.to], e.do, OnByte(byte), 1 .. Len(e.do))
  PROVE  Len(e.do) \in Nat /\ DOMAIN e.do = 1 .. Len(e.do)
         /\ Placed(g[1 .. Len(e.do)])
<1> DEFINE to == e.to
           do == e.do
           len == Len(do)
           D  == 1 .. len
           m0 == [m EXCEPT !.cs = to]
<1>1. len \in Nat /\ DOMAIN do = D
  BY EntryActions
<1>2. Indices(D)
  BY <1>1 DEF Indices
<1>3. ASSUME Placed(m0), ~ m0.out, m0.cs = to,
             \A k \in Settled(to) : \A i \in D :
               Act(k, do[i], byte) \in Settled(to)
      PROVE  Placed(g[D])
  <2>1. m0 \in Settled(to)
    BY <1>3 DEF Settled, Placed, Near
  <2>2. D \in SUBSET D
    OBVIOUS
  <2> HIDE DEF D, m0, to, do
  <2>3. g[D] \in Settled(to)
    <3> USE DEF D, m0, to, do
    <3>1. Runs(g, m0, do, OnByte(byte), D)
      OBVIOUS
    <3>2. \A k \in Settled(to) : \A i \in D :
            Fold(k, do[i], OnByte(byte)) \in Settled(to)
      BY <1>3, FoldIs
    <3> HIDE DEF D, m0, to, do
    <3> QED  BY <1>2, <2>1, <2>2, <3>1, <3>2, RunsKeep
  <2> QED  BY <2>3 DEF Settled
<1>4. CASE ErrorEntry(e)
  <2>1. to = "error" /\ do = <<"error">>
    BY <1>4 DEF ErrorEntry
  <2>2. Placed(m0) /\ ~ m0.out /\ m0.cs = to
    BY <2>1, MovesNear, StateClasses DEF ChunkState
  <2>3. ASSUME NEW k \in Settled(to), NEW i \in D
        PROVE  Act(k, do[i], byte) \in Settled(to)
    <3>1. do[i] = "error"
      BY <2>1
    <3>2. CASE k.out
      BY <3>2 DEF Act
    <3>3. CASE ~ k.out
      <4>1. Act(k, do[i], byte) = FBreak(k)
        BY <3>1, <3>3 DEF Act, Execute
      <4>2. Placed(k) /\ k.cs = "error"
        BY <2>1, <3>3 DEF Settled
      <4>3. Placed(FBreak(k)) /\ FBreak(k).out
        BY <3>3, <4>2, ErrorKeeps
      <4> QED  BY <4>1, <4>3 DEF Settled, Placed, Near
    <3> QED  BY <3>2, <3>3
  <2> QED  BY <1>1, <1>3, <2>2, <2>3
<1>5. CASE HeadEntry(m.cs, e) /\ byte \in e.on
  <2>1. /\ m.cs \in HeadState /\ to \in HeadState /\ do \in Seq(NamedDo)
        /\ m.cs \in NamedState \/ do \in Seq(HeadDo)
        /\ to \in NamedState =>
             m.cs \in NamedState \/ e.on = {"Transfer-Encoding"}
    BY <1>5 DEF HeadEntry
  <2>2. m.cs \in NamedState => Chunky
    BY DEF Placed, Near, Chunks
  <2>3. to \in NamedState => Chunky
    BY <1>5, <2>1, <2>2 DEF Chunky
  <2>4. Placed(m0) /\ ~ m0.out /\ m0.cs = to
    <3>1. to \notin HeldState
      BY <2>1, StateClasses
    <3> QED  BY <2>1, <2>3, <3>1, MovesNear
  <2>5. ASSUME NEW k \in Settled(to), NEW i \in D
        PROVE  Act(k, do[i], byte) \in Settled(to)
    <3>1. do[i] \in NamedDo /\ (Chunky \/ do[i] \in HeadDo)
      BY <2>1, <2>2, LenProperties
    <3> QED  BY <2>1, <3>1, HeadAction
  <2> QED  BY <1>1, <1>3, <2>4, <2>5
<1>6. CASE BodyEntry(m.cs, e)
  <2>1. m.cs \in BodyState /\ to \in BodyState /\ do \in Seq(BodyDo)
    BY <1>6 DEF BodyEntry
  <2>2. Placed(m0) /\ ~ m0.out /\ m0.cs = to
    <3>1. to \notin HeldState
      BY <2>1, ChunkStates
    <3> QED  BY <2>1, <3>1, MovesNear
  <2>3. ASSUME NEW k \in Settled(to), NEW i \in D
        PROVE  Act(k, do[i], byte) \in Settled(to)
    <3>1. do[i] \in BodyDo
      BY <2>1, LenProperties
    <3> QED  BY <2>1, <3>1, BodyAction
  <2> QED  BY <1>1, <1>3, <2>2, <2>3
<1>7. CASE ChunkEntry(m.cs, e)
  <2>1. m.cs \in ChunkState /\ to \in ChunkState
    BY <1>7 DEF ChunkEntry, ChunkState
  <2>2. Near(m0) /\ ~ m0.out /\ m0.cs = to
        /\ ((to \in HeldState => m.cs \in HeldState) => Placed(m0))
    BY <2>1, MovesNear
  <2>3. CASE /\ m.cs \in OpenState /\ to \in HeldState
             /\ do = <<"body", "chunk_read">>
    <3>1. len = 2 /\ D = {1, 2} /\ do[1] = "body" /\ do[2] = "chunk_read"
      BY <2>3
    <3>2. Runs(g, m0, do, OnByte(byte), {1, 2})
      BY <3>1
    <3>3. Max({1, 2}) = 2 /\ Max({1}) = 1
      BY DEF Max
    <3>4. {1, 2} \ {2} = {1} /\ {1} \ {1} = {}
      OBVIOUS
    <3> HIDE DEF m0, do, to
    <3>5. /\ g[{}] = m0
          /\ g[{1}] = Act(g[{}], "body", byte)
          /\ g[{1, 2}] = Act(g[{1}], "chunk_read", byte)
      <4>1. /\ g[{}] = m0
            /\ \A s \in SUBSET {1, 2} :
                 s # {} => g[s] = Act(g[s \ {Max(s)}], do[Max(s)], byte)
        <5>1. /\ g[{}] = m0
              /\ \A s \in SUBSET {1, 2} :
                   s # {} => g[s] = Fold(g[s \ {Max(s)}], do[Max(s)],
                                         OnByte(byte))
          BY <3>2, RunAt
        <5> QED  BY <5>1, FoldIs
      <4>2. /\ {1} \in SUBSET {1, 2} /\ {1} # {} /\ {1, 2} \in SUBSET {1, 2}
            /\ {1, 2} # {}
        OBVIOUS
      <4>3. g[{1}] = Act(g[{1} \ {Max({1})}], do[Max({1})], byte)
        BY <4>1, <4>2
      <4>4. g[{1, 2}] = Act(g[{1, 2} \ {Max({1, 2})}], do[Max({1, 2})], byte)
        BY <4>1, <4>2
      <4> QED  BY <3>1, <3>3, <3>4, <4>1, <4>3, <4>4
    <3>6. g[{1}] = body(m0)
      BY <2>2, <3>5 DEF Act, Execute
    <3>7. Placed(g[{1}]) /\ ~ g[{1}].out /\ g[{1}].cs = to
      BY <2>2, <3>6, BodyKeeps
    <3>8. g[{1, 2}] = chunk_read(g[{1}])
      BY <3>5, <3>7 DEF Act, Execute
    <3>9. Placed(g[{1, 2}])
      BY <2>3, <3>7, <3>8, ChunkReadKeeps
    <3> QED  BY <1>1, <3>1, <3>9 DEF do
  <2>4. ASSUME NEW S, do \in Seq(S), S \subseteq ChunkDo,
               to \in HeldState => m.cs \in HeldState,
               \/ to \in HeldState
               \/ to \in OpenState /\ S = SizeDo
               \/ to \in ZeroState /\ S = EndDo
        PROVE  Placed(g[D])
    <3>1. ASSUME NEW k \in Settled(to), NEW i \in D
          PROVE  Act(k, do[i], byte) \in Settled(to)
      <4>1. do[i] \in S
        BY <2>4, LenProperties
      <4> QED  BY <2>1, <2>4, <4>1, ChunkAction
    <3> QED  BY <1>3, <2>2, <2>4, <3>1
  <2>5. SizeDo \subseteq ChunkDo /\ EndDo \subseteq ChunkDo
    BY DEF SizeDo, EndDo, ChunkDo
  <2>6. CASE m.cs \in OpenState /\ to \in OpenState /\ do \in Seq(SizeDo)
    <3>1. to \notin HeldState
      BY <2>6, StateClasses
    <3> QED  BY <1>1, <2>4, <2>5, <2>6, <3>1
  <2>7. CASE m.cs \in HeldState /\ to \in HeldState /\ do \in Seq(ChunkDo)
    BY <1>1, <2>4, <2>7
  <2>8. CASE to \in ZeroState /\ do \in Seq(EndDo)
    <3>1. to \notin HeldState
      BY <2>8 DEF HeldState, ZeroState
    <3> QED  BY <1>1, <2>4, <2>5, <2>8, <3>1
  <2> QED  BY <1>7, <2>3, <2>6, <2>7, <2>8 DEF ChunkEntry
<1> QED  BY <1>4, <1>5, <1>6, <1>7

\* One byte leaves the machine in place.
LEMMA StepKeeps ==
  ASSUME NEW m, Placed(m), ~ m.out
  PROVE  Placed(Step(m))
<1> DEFINE byte == At(m.b, m.p)
           e    == Transition[m.cs][byte]
           len  == Len(e.do)
           m0   == [m EXCEPT !.cs = e.to]
<1>1. m.cs \in State /\ m.b \in ReadBuffers /\ m.p \in Int
  BY DEF Placed, Near, Machines
<1>2. byte \in Sent /\ byte \in Byte
  BY <1>1, AtSent
<1>3. \/ ErrorEntry(e)
      \/ /\ HeadEntry(m.cs, e) \/ ChunkEntry(m.cs, e) \/ BodyEntry(m.cs, e)
         /\ byte \in e.on
  BY <1>1, <1>2, Entries
<1>4. len \in Nat /\ DOMAIN e.do = 1 .. len
  <2> HIDE DEF e
  <2> QED  BY <1>3, EntryActions
<1>5. PICK g : /\ Runs(g, m0, e.do, OnByte(byte), 1 .. len)
               /\ Step(m) = Ended(g[1 .. len])
  BY <1>4, StepRuns
<1> DEFINE k == g[1 .. len]
<1>6. Placed(k)
  <2> HIDE DEF e, byte
  <2> QED  BY <1>2, <1>3, <1>5, TransitionKeeps
<1>7. Step(m) = Ended(k)
  BY <1>5
<1> HIDE DEF k
<1>8. k \in Machines /\ k.p \in Int /\ k.pe \in Int
  BY <1>6 DEF Placed, Near, Machines
<1>9. CASE k.out \/ k.cs = "error"
  <2> DEFINE n == [k EXCEPT !.out = TRUE]
  <2>1. /\ n \in Machines /\ n.cs = k.cs /\ n.p = k.p /\ n.pe = k.pe
        /\ n.b = k.b
        /\ n.h = k.h /\ n.out
    BY <1>8 DEF Machines
  <2> HIDE DEF n
  <2>2. Placed(n)
    BY <1>6, <2>1 DEF Placed, Near, Held
  <2> QED  BY <1>7, <1>9, <2>2 DEF n, Ended
<1>10. CASE ~ (k.out \/ k.cs = "error")
  <2> DEFINE end == k.p + 1 = k.pe
             n == [k EXCEPT !.p = k.p + 1, !.out = end]
  <2>1. Step(m) = n
    BY <1>7, <1>10 DEF Ended
  <2>2. end \in BOOLEAN /\ (~ end => k.p + 1 # k.pe)
    OBVIOUS
  <2> HIDE DEF end
  <2>3. /\ n \in Machines /\ n.cs = k.cs /\ n.p = k.p + 1 /\ n.pe = k.pe
        /\ n.b = k.b /\ n.h = k.h /\ n.out = end
    <3> DEFINE j == [k EXCEPT !.p = k.p + 1]
    <3>1. n = [j EXCEPT !.out = end]
      OBVIOUS
    <3>2. /\ j \in Machines /\ j.cs = k.cs /\ j.p = k.p + 1 /\ j.pe = k.pe
          /\ j.b = k.b /\ j.h = k.h
      BY <1>8 DEF Machines
    <3> HIDE DEF j, n
    <3> QED  BY <2>2, <3>1, <3>2 DEF Machines
  <2>4. k.b.after_headers_index \in Int /\ k.b.length \in Int
    BY <1>8 DEF Machines, ReadBuffers
  <2>5. Near(n)
    <3>1. /\ n \in Machines /\ 0 <= n.p /\ n.pe <= n.b.capacity
          /\ ~ n.out => "DONE" \notin n.h.flags
          /\ n.cs \in OpenState \cup HeldState \cup ZeroState
               => n.b.after_headers_index <= n.p
          /\ Chunks(n.cs) \/ "CHUNKED" \in n.h.flags => Chunky
      BY <1>6, <1>8, <1>10, <2>3, <2>4 DEF Placed, Near
    <3>2. ASSUME Plain(n.cs)
          PROVE  /\ n.p <= n.b.length
                 /\ ~ n.out => n.p < n.pe /\ n.pe = n.b.length
      <4>1. k.p < k.pe /\ k.pe = k.b.length
        BY <1>6, <1>10, <2>3, <3>2 DEF Placed, Near
      <4> QED  BY <1>8, <2>2, <2>3, <2>4, <4>1
    <3> QED  BY <3>1, <3>2 DEF Near
  <2>6. Held(n)
    BY <1>6, <2>3 DEF Placed, Held
  <2> QED  BY <2>1, <2>5, <2>6 DEF Placed
<1> QED  BY <1>9, <1>10

-----------------------------------------------------------------------------
(* One call of the parser.                                                 *)

\* Where the parser goes on, between its calls, ...
Rest(b, h) ==
  /\ b \in ReadBuffers /\ h \in Parsers
  /\ 0 <= b.index
  /\ Plain(h.state) => b.index <= b.length
  /\ h.state \in OpenState \cup HeldState \cup ZeroState
       => b.after_headers_index <= b.index
  /\ Chunks(h.state) \/ "CHUNKED" \in h.flags => Chunky

\* ... and where the token it is in began.
Anchored(b, h) ==
  h.state \in HeldState /\ "DONE" \notin h.flags
    => b.after_headers_index <= h.token.index

\* The parser is called, ...
LEMMA EnterKeeps ==
  ASSUME NEW b, NEW h, Rest(b, h), Anchored(b, h), ~ NothingNew(b, h)
  PROVE  Placed(Enter(b, h))
<1> DEFINE m == Enter(b, h)
           out == b.index = b.length \/ h.state = "error"
<1>1. b \in ReadBuffers /\ h \in Parsers /\ "DONE" \notin h.flags
  BY DEF Rest, NothingNew
<1>2. /\ h.state \in State /\ b.index \in Int /\ b.length \in Int
      /\ b.length <= b.capacity /\ out \in BOOLEAN
  BY <1>1 DEF ReadBuffers, Parsers
<1>3. m = [cs |-> h.state, p |-> b.index, pe |-> b.length, b |-> b, h |-> h,
           out |-> out]
  BY DEF Enter
<1>4. ~ out => b.index # b.length
  OBVIOUS
<1> HIDE DEF m, out
<1>5. m \in Machines
  BY <1>1, <1>2, <1>3 DEF Machines
<1>6. /\ m.cs = h.state /\ m.p = b.index /\ m.pe = b.length /\ m.b = b
      /\ m.h = h
      /\ m.out = out
  BY <1>3
<1>7. Near(m)
  <2>1. ASSUME Plain(m.cs)
        PROVE  m.p <= m.b.length /\ (~ m.out => m.p < m.pe /\ m.pe = m.b.length)
    <3>1. b.index <= b.length
      BY <1>6, <2>1 DEF Rest
    <3> QED  BY <1>2, <1>4, <1>6, <3>1
  <2> QED  BY <1>1, <1>2, <1>5, <1>6, <2>1 DEF Near, Rest
<1>8. Held(m)
  BY <1>6 DEF Held, Anchored
<1> QED  BY <1>7, <1>8 DEF Placed, m

\* ... and returns.
LEMMA LeaveKeeps ==
  ASSUME NEW m, Placed(m)
  PROVE  Rest(Leave(m).b, Leave(m).h) /\ Anchored(Leave(m).b, Leave(m).h)
<1> DEFINE b  == [m.b EXCEPT !.index = m.p]
           h1 == [m.h EXCEPT !.state = m.cs]
           h2 == [h1 EXCEPT !.flags = m.h.flags \ {"TOKEN_READY"}]
           h3 == [h2 EXCEPT !.seq = m.b.seq]
           h  == Leave(m).h
<1>1. /\ m \in Machines /\ m.b \in ReadBuffers /\ m.h \in Parsers
      /\ m.cs \in State
      /\ m.p \in Int /\ 0 <= m.p /\ m.b.seq \in Int
      /\ m.h.flags \in SUBSET {"CHUNKED", "TOKEN_READY", "DONE"}
  BY DEF Placed, Near, Machines, ReadBuffers, Parsers
<1>2. Leave(m).b = b
  BY DEF Leave
<1>3. h = h2 \/ h = h3
  BY DEF Leave
<1> HIDE DEF h
<1>4. /\ b \in ReadBuffers /\ b.index = m.p /\ b.length = m.b.length
      /\ b.after_headers_index = m.b.after_headers_index
  BY <1>1 DEF ReadBuffers
<1> HIDE DEF b
<1>5. /\ h1 \in Parsers /\ h1.state = m.cs /\ h1.flags = m.h.flags
      /\ h1.token = m.h.token
  BY <1>1 DEF Parsers
<1> HIDE DEF h1
<1>6. /\ h2 \in Parsers /\ h2.state = m.cs /\ h2.token = m.h.token
      /\ h2.flags = m.h.flags \ {"TOKEN_READY"}
  BY <1>1, <1>5 DEF Parsers
<1> HIDE DEF h2
<1>7. /\ h3 \in Parsers /\ h3.state = m.cs /\ h3.token = m.h.token
      /\ h3.flags = m.h.flags \ {"TOKEN_READY"}
  BY <1>1, <1>6 DEF Parsers
<1> HIDE DEF h3
<1>8. /\ h \in Parsers /\ h.state = m.cs /\ h.token = m.h.token
      /\ h.flags = m.h.flags \ {"TOKEN_READY"}
  BY <1>3, <1>6, <1>7
<1>9. Rest(b, h)
  BY <1>4, <1>8 DEF Rest, Placed, Near
<1>10. Anchored(b, h)
  BY <1>4, <1>8 DEF Anchored, Placed, Held
<1> QED  BY <1>2, <1>9, <1>10 DEF h

-----------------------------------------------------------------------------
(* The invariant.                                                          *)

\* What was read of what arrived of what is sent.
WireInv ==
  /\ shape \in Shapes /\ left \in Seq(Sent)
  /\ taken \in Nat /\ sent \in Nat /\ taken <= sent /\ sent <= Len(Stream)

\* A buffer that a response has freed leaves the parser behind; it is reset
\* with the next one.
BufferInv ==
  /\ Rest(buffer, parser)
  /\ pc \in {"read", "exec", "scan"} \/ buffer.capacity # 0
       => Anchored(buffer, parser)

MachineInv == pc = "scan" => Placed(machine)

DInv == WireInv /\ BufferInv /\ MachineInv

LEMMA WireSent ==
  ASSUME NEW s \in Shapes
  PROVE  Wire[s] \in Seq(Sent)
<1>1. Wire[s] \in Seq(Byte)
  BY WireAssumption
<1>2. \A i \in 1 .. Len(Wire[s]) : Wire[s][i] \in Sent
  BY <1>1, LenProperties DEF Sent
<1> QED  BY <1>1, <1>2, LenProperties

LEMMA StreamSent ==
  ASSUME WireInv
  PROVE  /\ Stream \in Seq(Sent)
         /\ Len(Stream) = Len(left) + Len(Wire[shape])
         /\ Len(left) \in Nat /\ Len(Wire[shape]) \in Nat
<1>1. left \in Seq(Sent) /\ Wire[shape] \in Seq(Sent)
  BY WireSent DEF WireInv
<1> QED  BY <1>1, ConcatProperties, LenProperties DEF Stream

LEMMA SmallBuffers ==
  /\ NoBuffer \in ReadBuffers /\ BufferInit \in ReadBuffers
  /\ NoBuffer.index = 0 /\ NoBuffer.length = 0
  /\ NoBuffer.after_headers_index = 0
  /\ NoBuffer.capacity = 0
  /\ BufferInit.index = 0 /\ BufferInit.length = 0
  /\ BufferInit.after_headers_index = 0
<1> DEFINE mem == [i \in 1 .. InitCap |-> "junk"]
<1>1. /\ InitCap \in Nat /\ InitCap <= MaxCap /\ 0 <= InitCap /\ 0 <= MaxCap
      /\ MaxCap \in Nat
  BY DataPathAssumption, ParserAssumption
<1>2. "junk" \in Sent
  BY DEF Sent, Byte
<1>3. mem \in Seq(Sent) /\ DOMAIN mem = 1 .. InitCap
  BY <1>1, <1>2
<1>4. <<>> \in Seq(Sent) /\ DOMAIN <<>> = 1 .. 0
  OBVIOUS
<1>5. /\ NoBuffer \in ReadBuffers /\ NoBuffer.capacity = 0
      /\ NoBuffer.index = 0 /\ NoBuffer.length = 0
      /\ NoBuffer.after_headers_index = 0 /\ NoBuffer.seq = 0
  BY <1>1, <1>4 DEF NoBuffer, ReadBuffers
<1>6. BufferInit = [capacity |-> InitCap, length |-> 0, index |-> 0,
                    after_headers_index |-> 0, seq |-> 0, mem |-> mem]
  <2> DEFINE c == [NoBuffer EXCEPT !.capacity = InitCap]
  <2>1. BufferInit = [c EXCEPT !.mem = mem]
    BY DEF BufferInit
  <2>2. c = [capacity |-> InitCap, length |-> 0, index |-> 0,
             after_headers_index |-> 0, seq |-> 0, mem |-> <<>>]
    BY DEF NoBuffer
  <2> HIDE DEF c, mem
  <2> QED  BY <2>1, <2>2
<1> HIDE DEF mem
<1>7. /\ BufferInit \in ReadBuffers /\ BufferInit.index = 0
      /\ BufferInit.length = 0 /\ BufferInit.after_headers_index = 0
  BY <1>1, <1>3, <1>6 DEF ReadBuffers
<1> QED  BY <1>5, <1>7

LEMMA ParserInitType ==
  /\ ParserInit \in Parsers /\ ParserInit.state \in HeadState
  /\ ParserInit.state \notin NamedState /\ ParserInit.flags = {}
<1>1. NoToken \in Token
  BY DEF NoToken, Token, TokenType
<1>2. "start" \in State /\ "start" \in HeadState /\ "start" \notin NamedState
  BY DEF State, HeadState, NamedState
<1> QED  BY <1>1, <1>2 DEF ParserInit, Parsers

LEMMA InitialRest ==
  /\ Rest(BufferInit, ParserInit) /\ Anchored(BufferInit, ParserInit)
  /\ Rest(NoBuffer, ParserInit) /\ Anchored(NoBuffer, ParserInit)
<1>1. /\ ParserInit.state \notin OpenState \cup HeldState \cup ZeroState
      /\ ~ Chunks(ParserInit.state)
  BY ParserInitType, StateClasses DEF Chunks
<1> QED  BY <1>1, ParserInitType, SmallBuffers DEF Rest, Anchored

\* Nothing was read, ...
LEMMA DInvInit == Init => DInv
<1> SUFFICES ASSUME Init PROVE DInv
  OBVIOUS
<1>1. WireInv
  <2>1. shape \in Shapes /\ left \in Seq(Sent) /\ taken = 0 /\ sent = 0
    BY DEF Init
  <2>2. Len(Stream) \in Nat
    BY <2>1, WireSent, ConcatProperties, LenProperties DEF Stream
  <2> QED  BY <2>1, <2>2 DEF WireInv
<1>2. BufferInv
  BY InitialRest DEF Init, BufferInv
<1> QED  BY <1>1, <1>2 DEF Init, DInv, MachineInv

\* Steps that leave the wire, or the buffer and the parser, alone.
LEMMA WireSame ==
  ASSUME WireInv, UNCHANGED <<shape, left, sent, taken>>
  PROVE  WireInv'
BY DEF WireInv, Stream

LEMMA BufferSame ==
  ASSUME BufferInv, UNCHANGED <<buffer, parser>>,
         pc' \in {"read", "exec", "scan"} => pc \in {"read", "exec", "scan"}
  PROVE  BufferInv'
BY DEF BufferInv

\* hs_read_request_and_exec_user_cb up to read() or the parser.
LEMMA ReadRequestKeeps ==
  ASSUME BufferInv, NEW b, b = buffer \/ b = NoBuffer, ReadRequest(b)
  PROVE  BufferInv' /\ MachineInv'
<1>1. CASE b.capacity = 0
  <2>1. buffer' = BufferInit /\ parser' = ParserInit
    BY <1>1 DEF ReadRequest
  <2>2. Rest(buffer', parser') /\ Anchored(buffer', parser')
    BY <2>1, InitialRest
  <2> QED  BY <2>2 DEF BufferInv, MachineInv, ReadRequest
<1>2. CASE b.capacity # 0
  <2>1. b = buffer /\ buffer.capacity # 0
    BY <1>2, SmallBuffers
  <2>2. buffer' = buffer /\ parser' = parser
    BY <2>1 DEF ReadRequest
  <2>3. Rest(buffer', parser') /\ Anchored(buffer', parser')
    BY <2>1, <2>2 DEF BufferInv
  <2> QED  BY <2>3 DEF BufferInv, MachineInv, ReadRequest
<1> QED  BY <1>1, <1>2

-----------------------------------------------------------------------------
(* The actions.                                                            *)

\* The buffer is full, and is doubled up to its limit.
LEMMA GrowType ==
  ASSUME NEW b \in ReadBuffers
  PROVE  LET c == Grow(b)
         IN  /\ c \in ReadBuffers /\ c.length = b.length /\ c.index = b.index
             /\ c.after_headers_index = b.after_headers_index
<1> DEFINE cap == IF 2 * b.capacity > MaxCap THEN MaxCap ELSE 2 * b.capacity
<1>1. /\ MaxCap \in Nat /\ b.capacity \in Nat /\ b.capacity <= MaxCap
      /\ b.length \in Int /\ b.length <= b.capacity
      /\ b.after_headers_index \in Nat /\ b.after_headers_index <= b.capacity
  BY ParserAssumption DEF ReadBuffers
<1>2. /\ cap \in Nat /\ cap <= MaxCap /\ b.length <= cap
      /\ b.after_headers_index <= cap
  BY <1>1
<1>3. Grow(b) = Resize(b, cap) \/ Grow(b) = b
  BY DEF Grow
<1> HIDE DEF cap
<1>4. LET c == Resize(b, cap)
      IN  /\ c \in ReadBuffers /\ c.length = b.length /\ c.index = b.index
          /\ c.after_headers_index = b.after_headers_index
  BY <1>2, ResizeType
<1> QED  BY <1>3, <1>4

\* read() delivers no more than there is room for.
LEMMA ReadDataKeeps ==
  ASSUME DInv, ReadData
  PROVE  DInv'
<1> DEFINE n == IF Room < sent - taken THEN Room ELSE sent - taken
           bytes == SubSeq(Stream, taken + 1, taken + n)
           a == Copy(buffer, buffer.length, bytes)
           c == [a EXCEPT !.length = a.length + n]
           b == Grow(c)
           seq == (b.seq + 1) % SeqIds
           d == [b EXCEPT !.seq = seq]
<1>1. /\ shape \in Shapes /\ left \in Seq(Sent) /\ taken \in Nat /\ sent \in Nat
      /\ taken < sent /\ sent <= Len(Stream) /\ Stream \in Seq(Sent)
      /\ Len(Stream) \in Nat
  <2>1. Stream \in Seq(Sent)
    BY StreamSent DEF DInv
  <2> QED  BY <2>1, LenProperties DEF DInv, WireInv, ReadData
<1>2. /\ buffer \in ReadBuffers /\ buffer.length \in Int
      /\ buffer.capacity \in Nat
      /\ buffer.index \in Int /\ Rest(buffer, parser)
      /\ Anchored(buffer, parser)
      /\ buffer.length < buffer.capacity
  BY DEF DInv, BufferInv, Rest, ReadBuffers, ReadData, Room
<1>3. /\ n \in Nat /\ 0 < n /\ taken + n <= sent
      /\ buffer.length + n \in Int /\ buffer.length + n <= buffer.capacity
  BY <1>1, <1>2 DEF Room
<1>4. taken' = taken + n /\ (buffer' = b \/ buffer' = d) /\ pc' \in {pc, "exec"}
      /\ UNCHANGED <<shape, left, sent, parser>>
  <2>1. UNCHANGED <<shape, left, sent, parser>> /\ taken' = taken + n
    BY DEF ReadData
  <2>2. \/ buffer' = b /\ UNCHANGED pc
        \/ buffer' = d /\ pc' = "exec"
    BY DEF ReadData
  <2> QED  BY <2>1, <2>2
<1> HIDE DEF n
<1>5. \A i \in DOMAIN bytes : bytes[i] \in Sent
  <2>1. \A i \in taken + 1 .. taken + n : Stream[i] \in Sent
    BY <1>1, <1>3, LenProperties
  <2>2. bytes \in Seq(Sent)
    BY <1>1, <1>3, <2>1, SubSeqProperties
  <2> QED  BY <2>2, LenProperties
<1> HIDE DEF bytes
<1>6. a.length = buffer.length
  BY <1>2 DEF Copy, ReadBuffers
<1>7. /\ c \in ReadBuffers /\ c.length = buffer.length + n
      /\ c.index = buffer.index
      /\ c.after_headers_index = buffer.after_headers_index
  <2>1. a.length + n = buffer.length + n
    BY <1>6
  <2> QED  BY <1>2, <1>3, <1>5, <2>1, CopyType
<1> HIDE DEF c
<1>8. /\ b \in ReadBuffers /\ b.length = buffer.length + n
      /\ b.index = buffer.index
      /\ b.after_headers_index = buffer.after_headers_index
  BY <1>7, GrowType
<1> HIDE DEF b
<1>9. /\ d \in ReadBuffers /\ d.length = b.length /\ d.index = b.index
      /\ d.after_headers_index = b.after_headers_index
  <2>1. b.seq \in Int /\ SeqIds \in Nat \ {0}
    BY <1>8, ParserAssumption DEF ReadBuffers
  <2>2. seq \in Int
    BY <2>1
  <2> HIDE DEF seq
  <2> QED  BY <1>8, <2>2 DEF ReadBuffers
<1> HIDE DEF d
<1>10. /\ buffer' \in ReadBuffers /\ buffer'.length = buffer.length + n
      /\ buffer'.index = buffer.index
      /\ buffer'.after_headers_index = buffer.after_headers_index
  BY <1>4, <1>8, <1>9
<1>11. Rest(buffer', parser')
  <2>1. buffer.index <= buffer.length => buffer'.index <= buffer'.length
    BY <1>2, <1>3, <1>10
  <2> QED  BY <1>2, <1>4, <1>10, <2>1 DEF Rest
<1>12. Anchored(buffer', parser')
  BY <1>2, <1>4, <1>10 DEF Anchored
<1>13. WireInv'
  <2>1. Stream' = Stream
    BY <1>4 DEF Stream
  <2> QED  BY <1>1, <1>3, <1>4, <2>1 DEF WireInv
<1>14. MachineInv'
  BY <1>4 DEF MachineInv, ReadData
<1> QED  BY <1>11, <1>12, <1>13, <1>14 DEF DInv, BufferInv

LEMMA ReadNothingKeeps ==
  ASSUME DInv, ReadNothing
  PROVE  DInv'
<1> DEFINE seq == (buffer.seq + 1) % SeqIds
           d   == [buffer EXCEPT !.seq = seq]
<1>1. /\ buffer \in ReadBuffers /\ Rest(buffer, parser)
      /\ Anchored(buffer, parser)
      /\ UNCHANGED <<shape, left, sent, taken, parser>>
      /\ buffer' = d \/ buffer' = buffer
      /\ pc' \in {"loop", "exec"}
  BY DEF DInv, BufferInv, Rest, ReadNothing, wire, Terminate
<1>2. /\ d \in ReadBuffers /\ d.length = buffer.length /\ d.index = buffer.index
      /\ d.after_headers_index = buffer.after_headers_index
  <2>1. buffer.seq \in Int /\ SeqIds \in Nat \ {0}
    BY <1>1, ParserAssumption DEF ReadBuffers
  <2>2. seq \in Int
    BY <2>1
  <2> HIDE DEF seq
  <2> QED  BY <1>1, <2>2 DEF ReadBuffers
<1> HIDE DEF d
<1>3. Rest(buffer', parser') /\ Anchored(buffer', parser')
  BY <1>1, <1>2 DEF Rest, Anchored
<1>4. WireInv'
  BY <1>1, WireSame DEF DInv
<1> QED  BY <1>1, <1>3, <1>4 DEF DInv, BufferInv, MachineInv

LEMMA ParserEnterKeeps ==
  ASSUME DInv, ParserEnter
  PROVE  DInv'
<1>1. /\ UNCHANGED <<shape, left, sent, taken, buffer, parser>> /\ pc = "exec"
      /\ \/ ~ NothingNew(buffer, parser) /\ machine' = Enter(buffer, parser)
         \/ pc' \in {"inject", "loop"}
  BY DEF ParserEnter, wire, Return
<1>2. WireInv' /\ BufferInv'
  BY <1>1, WireSame, BufferSame DEF DInv
<1>3. MachineInv'
  BY <1>1, EnterKeeps DEF DInv, BufferInv, MachineInv
<1> QED  BY <1>2, <1>3 DEF DInv

LEMMA ParserStepKeeps ==
  ASSUME DInv, ParserStep
  PROVE  DInv'
<1>1. /\ UNCHANGED <<shape, left, sent, taken, buffer, parser, pc>>
      /\ pc = "scan" /\ ~ machine.out /\ machine' = Step(machine)
  BY DEF ParserStep, wire
<1>2. WireInv' /\ BufferInv'
  BY <1>1, WireSame, BufferSame DEF DInv
<1>3. MachineInv'
  BY <1>1, StepKeeps DEF DInv, MachineInv
<1> QED  BY <1>2, <1>3 DEF DInv

LEMMA ParserLeaveKeeps ==
  ASSUME DInv, ParserLeave
  PROVE  DInv'
<1>1. /\ UNCHANGED <<shape, left, sent, taken>> /\ Placed(machine)
      /\ buffer' = Leave(machine).b /\ parser' = Leave(machine).h
  BY DEF DInv, MachineInv, ParserLeave, wire
<1>2. pc' \in {"inject", "loop", "callback", "exec"}
  BY DEF ParserLeave, Return, Callback
<1>3. WireInv'
  BY <1>1, WireSame DEF DInv
<1>4. BufferInv'
  BY <1>1, LeaveKeeps DEF BufferInv
<1> QED  BY <1>2, <1>3, <1>4 DEF DInv, MachineInv

\* The end of a response.
LEMMA WrittenKeeps ==
  ASSUME DInv, NEW keep \in BOOLEAN, Written(keep),
         pc \notin {"read", "exec", "scan"}
  PROVE  DInv'
<1>1. CASE ~ keep
  <2>1. UNCHANGED <<shape, left, sent, taken, buffer, parser>> /\ pc' = "loop"
    BY <1>1 DEF Written, wire, reading, Terminate
  <2>2. WireInv' /\ BufferInv'
    BY <2>1, WireSame, BufferSame DEF DInv
  <2> QED  BY <2>1, <2>2 DEF DInv, MachineInv
<1>2. CASE keep
  <2>1. /\ shape \in Shapes /\ taken \in Nat /\ sent \in Nat /\ taken <= sent
        /\ sent <= Len(Stream) /\ Stream \in Seq(Sent) /\ Len(Stream) \in Nat
    <3>1. Stream \in Seq(Sent)
      BY StreamSent DEF DInv
    <3> QED  BY <3>1, LenProperties DEF DInv, WireInv
  <2>2. /\ shape' \in Shapes /\ left' = SubSeq(Stream, taken + 1, Len(Stream))
        /\ sent' = sent - taken /\ taken' = 0 /\ ReadRequest(NoBuffer)
    BY <1>2, <2>1 DEF Written
  <2>3. left' \in Seq(Sent) /\ Len(left') = Len(Stream) - taken
    <3>1. \A i \in taken + 1 .. Len(Stream) : Stream[i] \in Sent
      BY <2>1, LenProperties
    <3> QED  BY <2>1, <2>2, <3>1, SubSeqProperties
  <2>4. Wire[shape'] \in Seq(Sent)
    BY <2>2, WireSent
  <2>5. /\ Len(Stream') = Len(left') + Len(Wire[shape'])
        /\ Len(Wire[shape']) \in Nat
    <3>1. Stream' = left' \o Wire[shape']
      BY DEF Stream, Wire
    <3> QED  BY <2>3, <2>4, <3>1, ConcatProperties, LenProperties
  <2>6. WireInv'
    BY <2>1, <2>2, <2>3, <2>5 DEF WireInv
  <2>7. BufferInv' /\ MachineInv'
    BY <2>2, ReadRequestKeeps DEF DInv
  <2> QED  BY <2>6, <2>7 DEF DInv
<1> QED  BY <1>1, <1>2

LEMMA AppRespondsChunkKeeps ==
  ASSUME DInv, AppRespondsChunk
  PROVE  DInv'
<1>1. /\ UNCHANGED <<shape, left, sent, taken, parser, pc>> /\ pc = "callback"
      /\ buffer' = NoBuffer
  BY DEF AppRespondsChunk, wire
<1>2. Rest(buffer', parser')
  BY <1>1, SmallBuffers DEF DInv, BufferInv, Rest
<1>3. WireInv'
  BY <1>1, WireSame DEF DInv
<1> QED  BY <1>1, <1>2, <1>3, SmallBuffers DEF DInv, BufferInv, MachineInv

\* ... and every step keeps the data in the buffer.
LEMMA DInvNext ==
  ASSUME DInv, [Next]_vars
  PROVE  DInv'
<1>1. CASE Arrive
  <2>1. /\ UNCHANGED <<shape, left, taken, buffer, parser, machine, pc>>
        /\ sent' \in sent + 1 .. Len(Stream)
    BY <1>1 DEF Arrive, reading
  <2>2. WireInv'
    <3>1. Stream' = Stream
      BY <2>1 DEF Stream
    <3>2. Len(Stream) \in Nat
      BY StreamSent, LenProperties DEF DInv
    <3> QED  BY <2>1, <3>1, <3>2 DEF DInv, WireInv
  <2>3. BufferInv'
    BY <2>1, BufferSame DEF DInv
  <2> QED  BY <2>1, <2>2, <2>3 DEF DInv, MachineInv
<1>2. CASE Accept \/ OnReadable \/ AppReadsChunk
  <2>1. UNCHANGED <<shape, left, sent, taken>> /\ ReadRequest(buffer)
    BY <1>2 DEF Accept, OnReadable, AppReadsChunk
  <2>2. BufferInv' /\ MachineInv'
    BY <2>1, ReadRequestKeeps DEF DInv
  <2> QED  BY <2>1, <2>2, WireSame DEF DInv
<1>3. CASE Refuse \/ InjectEnd
  <2>1. /\ UNCHANGED <<shape, left, sent, taken, buffer, parser>>
        /\ pc' \in {"loop", "callback"}
    BY <1>3 DEF Refuse, InjectEnd, wire, reading, Terminate, Callback
  <2>2. WireInv' /\ BufferInv'
    BY <2>1, WireSame, BufferSame DEF DInv
  <2> QED  BY <2>1, <2>2 DEF DInv, MachineInv
<1>4. CASE AppResponds \/ AppRespondsChunkEnd
  <2>1. pc \notin {"read", "exec", "scan"}
    BY <1>4 DEF AppResponds, AppRespondsChunkEnd
  <2>2. CASE AppResponds
    <3> DEFINE keep == "KEEP_ALIVE" \in Detected
    <3>1. Written(keep)
      BY <2>2 DEF AppResponds
    <3>2. keep \in BOOLEAN
      OBVIOUS
    <3> HIDE DEF keep
    <3> QED  BY <2>1, <3>1, <3>2, WrittenKeeps
  <2>3. CASE AppRespondsChunkEnd
    <3> DEFINE keep == "KEEP_ALIVE" \in flags
    <3>1. Written(keep)
      BY <2>3 DEF AppRespondsChunkEnd
    <3>2. keep \in BOOLEAN
      OBVIOUS
    <3> HIDE DEF keep
    <3> QED  BY <2>1, <3>1, <3>2, WrittenKeeps
  <2> QED  BY <1>4, <2>2, <2>3
<1>5. CASE UNCHANGED vars
  <2>1. UNCHANGED <<shape, left, sent, taken, buffer, parser, machine, pc>>
    BY <1>5 DEF vars, wire, reading
  <2>2. WireInv' /\ BufferInv'
    BY <2>1, WireSame, BufferSame DEF DInv
  <2> QED  BY <2>1, <2>2 DEF DInv, MachineInv
<1>6. CASE Finished
  BY <1>5, <1>6 DEF Finished
<1> QED
  BY <1>1, <1>2, <1>3, <1>4, <1>5, <1>6, ReadDataKeeps, ReadNothingKeeps,
     ParserEnterKeeps, ParserStepKeeps, ParserLeaveKeeps, AppRespondsChunkKeeps
  DEF Next

-----------------------------------------------------------------------------
(* The theorems.                                                           *)

\* The invariant holds for every capacity and limit, every set of requests and
\* of responses, and however requests arrive.
THEOREM DataPathInvariant == Spec => []DInv
<1>1. Init => DInv
  BY DInvInit
<1>2. DInv /\ [Next]_vars => DInv'
  BY DInvNext
<1> QED  BY <1>1, <1>2, PTL DEF Spec

\* What the server read always fits in the buffer, and the buffer in its
\* limit.
THEOREM DataAlwaysFits == Spec => []DataFits
<1>1. DInv => DataFits
  BY DEF DInv, BufferInv, MachineInv, Rest, ReadBuffers, Placed, Near, Machines,
         DataFits
<1> QED  BY <1>1, DataPathInvariant, PTL

\* As long as no request is sent in chunks, the machine stays in what was read.
\* (A chunk that is taken for complete one byte early, parser.rl:110, leaves the
\* position one past the data, so that for chunks cut anywhere this is false.)
THEOREM InBoundsWithoutChunks ==
  ASSUME ~ Chunky
  PROVE  Spec => []InBounds
<1>1. DInv => InBounds
  <2>1. \A cs : Plain(cs)
    BY DEF Plain
  <2> QED  BY <2>1 DEF DInv, BufferInv, MachineInv, Rest, Placed, Near, InBounds
<1> QED  BY <1>1, DataPathInvariant, PTL

-----------------------------------------------------------------------------
(* The response buffer: what its operations append, for every capacity,    *)
(* every content and every text.                                           *)

\* The words of a response: any strings, of which the provers have to be told
\* that the server's own are some.
Word == STRING \cup {"HTTP/1.1", "reason", "Date", "CRLF", "size",
                     "Content-Length", "Connection", "keep-alive", "close",
                     "Transfer-Encoding", "chunked", "Content-Type",
                     "text/plain", "Service Unavailable"}

\* What a buffer holds: text, and what is not text.
Symbol == (Word \X Nat) \cup {Junk, Nul}

\* A buffer as grwprintf_init leaves it, and every operation should.
Buffers == {ctx \in [capacity : Nat, size : Nat, mem : Seq(Symbol)] :
              Len(ctx.mem) = ctx.capacity /\ ctx.size <= ctx.capacity}

\* d holds what c holds, and text behind it.
Appended(c, text, d) == Printed(d) = Printed(c) \o text

-----------------------------------------------------------------------------
(* Facts about buffers.                                                    *)

LEMMA Symbols == Junk \in Symbol /\ Nul \in Symbol
BY DEF Symbol

LEMMA BufferFacts ==
  ASSUME NEW ctx \in Buffers
  PROVE  /\ ctx.capacity \in Nat /\ ctx.size \in Nat /\ ctx.size <= ctx.capacity
         /\ ctx.mem \in [1 .. ctx.capacity -> Symbol]
         /\ DOMAIN ctx.mem = 1 .. ctx.capacity
         /\ ctx = [capacity |-> ctx.capacity, size |-> ctx.size,
                   mem |-> ctx.mem]
<1>1. ctx.mem \in Seq(Symbol) /\ Len(ctx.mem) = ctx.capacity
  BY DEF Buffers
<1>2. ctx.mem \in [1 .. ctx.capacity -> Symbol]
      /\ DOMAIN ctx.mem = 1 .. ctx.capacity
  BY <1>1, LenProperties
<1>3. /\ ctx.capacity \in Nat /\ ctx.size \in Nat /\ ctx.size <= ctx.capacity
      /\ ctx = [capacity |-> ctx.capacity, size |-> ctx.size, mem |-> ctx.mem]
  BY DEF Buffers
<1> QED  BY <1>2, <1>3

LEMMA IsBuffer ==
  ASSUME NEW n \in Nat, NEW k \in Nat, k <= n, NEW m \in [1 .. n -> Symbol],
         NEW d, d = [capacity |-> n, size |-> k, mem |-> m]
  PROVE  d \in Buffers
<1>1. m \in Seq(Symbol)
  BY SeqDef
<1>2. Len(m) = n
  BY <1>1, LenProperties
<1> QED  BY <1>1, <1>2 DEF Buffers

LEMMA PrintedSeq ==
  ASSUME NEW ctx \in Buffers
  PROVE  /\ Printed(ctx) \in Seq(Symbol)
         /\ Len(Printed(ctx)) = ctx.size
         /\ \A i \in 1 .. ctx.size : Printed(ctx)[i] = ctx.mem[i]
<1>1. /\ ctx.capacity \in Nat /\ ctx.size \in Nat /\ ctx.size <= ctx.capacity
      /\ ctx.mem \in [1 .. ctx.capacity -> Symbol]
  BY BufferFacts
<1>2. Printed(ctx) \in [1 .. ctx.size -> Symbol]
  BY <1>1 DEF Printed
<1>3. Printed(ctx) \in Seq(Symbol)
  BY <1>1, <1>2, SeqDef
<1>4. Len(Printed(ctx)) = ctx.size
  BY <1>1, <1>2, <1>3, LenProperties
<1>5. \A i \in 1 .. ctx.size : Printed(ctx)[i] = ctx.mem[i]
  BY <1>1 DEF Printed
<1> QED  BY <1>3, <1>4, <1>5

\* realloc keeps what is there, if the buffer does not shrink.
LEMMA ReallocKeeps ==
  ASSUME NEW ctx \in Buffers, NEW n \in Nat, n >= ctx.capacity
  PROVE  /\ Realloc(ctx, n) \in Buffers
         /\ Realloc(ctx, n).size = ctx.size
         /\ Realloc(ctx, n).capacity = n
         /\ \A i \in 1 .. ctx.size : Realloc(ctx, n).mem[i] = ctx.mem[i]
<1> DEFINE m == [i \in 1 .. n |-> IF i <= ctx.capacity THEN ctx.mem[i] ELSE Junk]
<1>0. /\ ctx.capacity \in Nat /\ ctx.size \in Nat /\ ctx.size <= ctx.capacity
      /\ ctx.mem \in [1 .. ctx.capacity -> Symbol]
      /\ ctx = [capacity |-> ctx.capacity, size |-> ctx.size, mem |-> ctx.mem]
  BY BufferFacts
<1>1. m \in [1 .. n -> Symbol]
  BY <1>0, Symbols
<1>2. Realloc(ctx, n) = [ctx EXCEPT !.capacity = n, !.mem = m]
  BY DEF Realloc
<1>3. \A i \in 1 .. ctx.size : m[i] = ctx.mem[i]
  BY <1>0
<1> HIDE DEF m
<1>4. Realloc(ctx, n) = [capacity |-> n, size |-> ctx.size, mem |-> m]
  BY <1>0, <1>2
<1>5. Realloc(ctx, n) \in Buffers
  BY <1>0, <1>1, <1>4, IsBuffer
<1> QED  BY <1>3, <1>4, <1>5

\* What is stored is there, if there is room for it, and nothing else changes.
LEMMA StoreExact ==
  ASSUME NEW ctx \in Buffers, NEW text \in Seq(Symbol),
         ctx.size + Len(text) <= ctx.capacity
  PROVE  /\ Store(ctx, text) \in Buffers
         /\ Store(ctx, text).size = ctx.size
         /\ Store(ctx, text).capacity = ctx.capacity
         /\ \A i \in 1 .. ctx.size : Store(ctx, text).mem[i] = ctx.mem[i]
         /\ \A i \in 1 .. Len(text) :
              Store(ctx, text).mem[ctx.size + i] = text[i]
<1> DEFINE m == [i \in DOMAIN ctx.mem |-> IF i - ctx.size \in DOMAIN text
                                          THEN text[i - ctx.size]
                                          ELSE ctx.mem[i]]
<1>0. /\ ctx.capacity \in Nat /\ ctx.size \in Nat /\ ctx.size <= ctx.capacity
      /\ ctx.mem \in [1 .. ctx.capacity -> Symbol]
      /\ DOMAIN ctx.mem = 1 .. ctx.capacity
      /\ ctx = [capacity |-> ctx.capacity, size |-> ctx.size, mem |-> ctx.mem]
  BY BufferFacts
<1>1. /\ Len(text) \in Nat /\ DOMAIN text = 1 .. Len(text)
      /\ text \in [1 .. Len(text) -> Symbol]
  BY LenProperties
<1>2. m \in [1 .. ctx.capacity -> Symbol]
  BY <1>0, <1>1
<1>3. Store(ctx, text) = [ctx EXCEPT !.mem = m]
  BY DEF Store
<1>4. \A i \in 1 .. ctx.size : m[i] = ctx.mem[i]
  BY <1>0, <1>1
<1>5. \A i \in 1 .. Len(text) : m[ctx.size + i] = text[i]
  <2> SUFFICES ASSUME NEW i \in 1 .. Len(text) PROVE m[ctx.size + i] = text[i]
    OBVIOUS
  <2>1. ctx.size + i \in DOMAIN ctx.mem /\ (ctx.size + i) - ctx.size = i
    BY <1>0, <1>1
  <2> QED  BY <2>1, <1>1
<1> HIDE DEF m
<1>6. Store(ctx, text) = [capacity |-> ctx.capacity, size |-> ctx.size,
                          mem |-> m]
  BY <1>0, <1>3
<1>7. Store(ctx, text) \in Buffers
  BY <1>0, <1>2, <1>6, IsBuffer
<1> QED  BY <1>4, <1>5, <1>6, <1>7

\* If d has the bytes of ctx and those of text behind them, text was appended.
LEMMA AppendedBytes ==
  ASSUME NEW ctx \in Buffers, NEW text \in Seq(Symbol), NEW d \in Buffers,
         d.size = ctx.size + Len(text),
         \A i \in 1 .. ctx.size : d.mem[i] = ctx.mem[i],
         \A i \in 1 .. Len(text) : d.mem[ctx.size + i] = text[i]
  PROVE  Appended(ctx, text, d)
<1>0. ctx.size \in Nat /\ Len(text) \in Nat
  BY BufferFacts, LenProperties
<1>1. /\ Printed(d) \in Seq(Symbol) /\ Len(Printed(d)) = ctx.size + Len(text)
      /\ \A i \in 1 .. ctx.size + Len(text) : Printed(d)[i] = d.mem[i]
  BY PrintedSeq
<1>2. /\ Printed(ctx) \in Seq(Symbol) /\ Len(Printed(ctx)) = ctx.size
      /\ \A i \in 1 .. ctx.size : Printed(ctx)[i] = ctx.mem[i]
  BY PrintedSeq
<1>3. /\ Printed(ctx) \o text \in Seq(Symbol)
      /\ Len(Printed(ctx) \o text) = ctx.size + Len(text)
      /\ \A i \in 1 .. ctx.size + Len(text) :
           (Printed(ctx) \o text)[i] = IF i <= ctx.size THEN Printed(ctx)[i]
                                       ELSE text[i - ctx.size]
  BY <1>2, ConcatProperties
<1>4. ASSUME NEW i \in 1 .. ctx.size + Len(text)
      PROVE  Printed(d)[i] = (Printed(ctx) \o text)[i]
  <2>1. CASE i <= ctx.size
    <3>1. i \in 1 .. ctx.size
      BY <2>1, <1>0
    <3> QED  BY <3>1, <2>1, <1>1, <1>2, <1>3
  <2>2. CASE ~(i <= ctx.size)
    <3>1. i - ctx.size \in 1 .. Len(text) /\ ctx.size + (i - ctx.size) = i
      BY <2>2, <1>0
    <3>2. d.mem[i] = text[i - ctx.size]
      BY <3>1
    <3> QED  BY <3>2, <2>2, <1>1, <1>3
  <2> QED  BY <2>1, <2>2
<1>5. Printed(d) = Printed(ctx) \o text
  BY <1>0, <1>1, <1>3, <1>4, SeqEqual
<1> QED  BY <1>5 DEF Appended

-----------------------------------------------------------------------------

\* Whatever number an application sets, the table of texts has an entry for
\* the status that is printed (respond.c:144 and 230).
THEOREM StatusInTable ==
  ASSUME NEW Header, NEW status \in Int,
         NEW response \in [status : Int, headers : Seq(Header),
                           body : Seq(Symbol)]
  PROVE  hs_response_set_status(response, status).status \in DOMAIN hs_status_text
<1>1. DOMAIN hs_status_text = 0 .. 599
  BY DEF hs_status_text
<1>2. hs_response_set_status(response, status).status =
        IF status > 599 \/ status < 100 THEN 500 ELSE status
  BY DEF hs_response_set_status
<1> QED  BY <1>1, <1>2

\* A body is appended exactly, whether or not the buffer has room for it
\* (respond.c:89-99).
THEOREM MemcpyAppends ==
  ASSUME NEW ctx \in Buffers, NEW src \in Seq(Symbol)
  PROVE  /\ grwmemcpy(ctx, src) \in Buffers
         /\ Appended(ctx, src, grwmemcpy(ctx, src))
<1> DEFINE need == ctx.size + Len(src)
           room == IF need > ctx.capacity THEN Realloc(ctx, need) ELSE ctx
           s    == Store(room, src)
<1>0. need \in Nat /\ ctx.capacity \in Nat /\ ctx.size \in Nat
      /\ Len(src) \in Nat
  BY BufferFacts, LenProperties
<1>1. /\ room \in Buffers /\ room.size = ctx.size /\ need <= room.capacity
      /\ \A i \in 1 .. ctx.size : room.mem[i] = ctx.mem[i]
  <2>1. CASE need > ctx.capacity
    <3>1. need >= ctx.capacity
      BY <2>1, <1>0
    <3>2. /\ Realloc(ctx, need) \in Buffers
          /\ Realloc(ctx, need).size = ctx.size
          /\ Realloc(ctx, need).capacity = need
          /\ \A i \in 1 .. ctx.size : Realloc(ctx, need).mem[i] = ctx.mem[i]
      BY <3>1, <1>0, ReallocKeeps
    <3> HIDE DEF need
    <3> QED  BY <3>2, <2>1, <1>0
  <2>2. CASE ~(need > ctx.capacity)
    BY <2>2, <1>0
  <2> QED  BY <2>1, <2>2
<1>2. grwmemcpy(ctx, src) = [s EXCEPT !.size = need]
  BY DEF grwmemcpy
<1> HIDE DEF room
<1>3. /\ s \in Buffers /\ s.size = ctx.size /\ s.capacity = room.capacity
      /\ \A i \in 1 .. ctx.size : s.mem[i] = room.mem[i]
      /\ \A i \in 1 .. Len(src) : s.mem[ctx.size + i] = src[i]
  BY <1>1, StoreExact
<1> HIDE DEF s
<1>4. /\ s.capacity \in Nat /\ s.mem \in [1 .. s.capacity -> Symbol]
      /\ s = [capacity |-> s.capacity, size |-> s.size, mem |-> s.mem]
  BY <1>3, BufferFacts
<1>5. grwmemcpy(ctx, src) = [capacity |-> s.capacity, size |-> need,
                             mem |-> s.mem]
  BY <1>2, <1>4
<1>6. grwmemcpy(ctx, src) \in Buffers
  <2>1. /\ need \in Nat /\ need <= s.capacity /\ s.capacity \in Nat
        /\ s.mem \in [1 .. s.capacity -> Symbol]
    BY <1>0, <1>1, <1>3, <1>4
  <2> HIDE DEF need
  <2> QED
    BY <2>1, <1>5, IsBuffer
<1>7. \A i \in 1 .. ctx.size : grwmemcpy(ctx, src).mem[i] = ctx.mem[i]
  BY <1>1, <1>3, <1>5
<1>8. \A i \in 1 .. Len(src) : grwmemcpy(ctx, src).mem[ctx.size + i] = src[i]
  BY <1>3, <1>5
<1>9. grwmemcpy(ctx, src).size = ctx.size + Len(src)
  BY <1>5
<1> QED  BY <1>6, <1>7, <1>8, <1>9, AppendedBytes

\* A text for which there is room, and one byte more for the terminator, is
\* appended exactly (respond.c:101-122).
THEOREM PrintfAppends ==
  ASSUME NEW ctx \in Buffers, NEW text \in Seq(Symbol),
         ctx.size + Len(text) < ctx.capacity
  PROVE  /\ grwprintf(ctx, text) \in Buffers
         /\ grwprintf(ctx, text).capacity = ctx.capacity
         /\ Appended(ctx, text, grwprintf(ctx, text))
<1> DEFINE s == Store(ctx, Append(text, Nul))
<1>0. ctx.capacity \in Nat /\ ctx.size \in Nat /\ Len(text) \in Nat
  BY BufferFacts, LenProperties
<1>1. vsnprintf(ctx, text) = s
  BY <1>0 DEF vsnprintf
<1>2. /\ Append(text, Nul) \in Seq(Symbol)
      /\ Len(Append(text, Nul)) = Len(text) + 1
      /\ \A i \in 1 .. Len(text) : Append(text, Nul)[i] = text[i]
  BY Symbols, AppendProperties
<1>3. /\ s \in Buffers /\ s.size = ctx.size /\ s.capacity = ctx.capacity
      /\ \A i \in 1 .. ctx.size : s.mem[i] = ctx.mem[i]
      /\ \A i \in 1 .. Len(Append(text, Nul)) :
           s.mem[ctx.size + i] = Append(text, Nul)[i]
  <2>1. ctx.size + Len(Append(text, Nul)) <= ctx.capacity
    BY <1>0, <1>2
  <2> DEFINE t == Append(text, Nul)
  <2>2. t \in Seq(Symbol) /\ ctx.size + Len(t) <= ctx.capacity
    BY <1>2, <2>1
  <2> HIDE DEF t
  <2>3. /\ Store(ctx, t) \in Buffers
        /\ Store(ctx, t).size = ctx.size
        /\ Store(ctx, t).capacity = ctx.capacity
        /\ \A i \in 1 .. ctx.size : Store(ctx, t).mem[i] = ctx.mem[i]
        /\ \A i \in 1 .. Len(t) : Store(ctx, t).mem[ctx.size + i] = t[i]
    BY <2>2, StoreExact
  <2> QED  BY <2>3 DEF t
<1> HIDE DEF s
<1>4. grwprintf(ctx, text) = [s EXCEPT !.size = s.size + Len(text)]
  BY <1>0, <1>1 DEF grwprintf
<1>5. /\ s.mem \in [1 .. s.capacity -> Symbol]
      /\ s = [capacity |-> s.capacity, size |-> s.size, mem |-> s.mem]
  BY <1>3, BufferFacts
<1>6. grwprintf(ctx, text) = [capacity |-> s.capacity,
                              size |-> ctx.size + Len(text), mem |-> s.mem]
  BY <1>3, <1>4, <1>5
<1>7. ctx.size + Len(text) \in Nat /\ s.capacity \in Nat
      /\ ctx.size + Len(text) <= s.capacity
  BY <1>0, <1>3
<1>8. grwprintf(ctx, text) \in Buffers
  BY <1>5, <1>6, <1>7, IsBuffer
<1>9. \A i \in 1 .. ctx.size : grwprintf(ctx, text).mem[i] = ctx.mem[i]
  BY <1>3, <1>6
<1>10. \A i \in 1 .. Len(text) : grwprintf(ctx, text).mem[ctx.size + i] = text[i]
  BY <1>0, <1>2, <1>3, <1>6
<1>11. /\ grwprintf(ctx, text).size = ctx.size + Len(text)
       /\ grwprintf(ctx, text).capacity = ctx.capacity
  BY <1>3, <1>6
<1> QED  BY <1>8, <1>9, <1>10, <1>11, AppendedBytes

\* Whenever the buffer has to grow for a text, size ends up larger than what
\* was printed, by the length of the text (respond.c:116): what is sent then
\* ends with bytes nobody printed.
THEOREM PrintfOvercounts ==
  ASSUME NEW ctx \in Buffers, NEW text \in Seq(Symbol), text # <<>>,
         ctx.size + Len(text) > ctx.capacity
  PROVE  Len(Printed(grwprintf(ctx, text))) > Len(Printed(ctx) \o text)
<1> DEFINE need  == Len(text) + ctx.size
           once  == vsnprintf(ctx, text)
           grown == Realloc(once, Doubled(ctx.capacity, need))
           twice == vsnprintf(grown, text)
           final == grwprintf(ctx, text)
<1>0. ctx.capacity \in Nat /\ ctx.size \in Nat /\ Len(text) \in Nat \ {0}
  BY BufferFacts, LenProperties, EmptySeq
<1>1. ctx = [capacity |-> ctx.capacity, size |-> ctx.size, mem |-> ctx.mem]
  BY BufferFacts
<1>2. \A c, t : /\ DOMAIN Store(c, t) = DOMAIN c
                /\ "size" \in DOMAIN c => Store(c, t).size = c.size
  BY DEF Store
<1>3. \A c, t : /\ DOMAIN vsnprintf(c, t) = DOMAIN c
                /\ "size" \in DOMAIN c => vsnprintf(c, t).size = c.size
  BY <1>2 DEF vsnprintf
<1>4. DOMAIN once = DOMAIN ctx /\ once.size = ctx.size /\ "size" \in DOMAIN ctx
  BY <1>1, <1>3
<1>5. DOMAIN grown = DOMAIN ctx /\ grown.size = ctx.size
  <2> HIDE DEF once
  <2> QED  BY <1>4 DEF Realloc
<1>6. DOMAIN twice = DOMAIN ctx /\ twice.size = ctx.size
  <2> HIDE DEF grown
  <2> QED  BY <1>3, <1>4, <1>5
<1>7. final = [twice EXCEPT !.size = twice.size + 2 * Len(text)]
  BY <1>0 DEF grwprintf
<1> HIDE DEF twice, final
<1>8. final.size = ctx.size + 2 * Len(text)
  BY <1>4, <1>6, <1>7
<1>9. Len(Printed(final)) = ctx.size + 2 * Len(text)
  <2> DEFINE n == ctx.size + 2 * Len(text)
             f == Printed(final)
             S == {f[i] : i \in 1 .. n}
             g(i) == IF i <= final.capacity THEN final.mem[i] ELSE Junk
  <2>1. f = [i \in 1 .. n |-> g(i)]
    BY <1>8 DEF Printed
  <2>2. n \in Nat
    BY <1>0
  <2> HIDE DEF n, f, g
  <2>3. f \in [1 .. n -> S]
    <3>1. \A i \in 1 .. n : f[i] \in S
      OBVIOUS
    <3> HIDE DEF S
    <3>2. DOMAIN f = 1 .. n /\ f = [i \in 1 .. n |-> f[i]]
      BY <2>1
    <3> QED  BY <3>1, <3>2
  <2>4. f \in Seq(S)
    BY <2>2, <2>3, SeqDef
  <2>5. DOMAIN f = 1 .. Len(f) /\ Len(f) \in Nat
    BY <2>4, LenProperties
  <2>6. 1 .. n = 1 .. Len(f)
    BY <2>1, <2>5
  <2>7. n = Len(f)
    <3> DEFINE k == Len(f)
    <3>1. n \in Nat /\ k \in Nat /\ 1 .. n = 1 .. k
      BY <2>2, <2>5, <2>6
    <3> HIDE DEF k
    <3>2. n > 0 => n \in 1 .. k
      BY <3>1
    <3>3. k > 0 => k \in 1 .. n
      BY <3>1
    <3>4. n = k
      BY <3>1, <3>2, <3>3
    <3> QED  BY <3>4 DEF k
  <2> QED  BY <2>7 DEF n, f
<1>10. Len(Printed(ctx) \o text) = ctx.size + Len(text)
  <2>1. Printed(ctx) \in Seq(Symbol) /\ Len(Printed(ctx)) = ctx.size
    BY PrintedSeq
  <2>2. Len(Printed(ctx) \o text) = Len(Printed(ctx)) + Len(text)
    BY <2>1, ConcatProperties
  <2> QED  BY <2>1, <2>2
<1> QED  BY <1>0, <1>9, <1>10 DEF final
=============================================================================
