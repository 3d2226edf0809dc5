------------------------------ MODULE WireProofs ------------------------------
(***************************************************************************)
(* Proofs about lines: how they are cut and glued on a connection, and     *)
(* what the interpreter reads of a line that was built or typed, for every *)
(* text.                                                                   *)
(***************************************************************************)
EXTENDS Wire, SequenceTheorems, WellFoundedInduction, TLAPS

-----------------------------------------------------------------------------
(* Natural numbers: least elements, induction, recursion.                  *)

(* A set of natural numbers has a least element. *)
LEMMA LeastNatural ==
  ASSUME NEW T \in SUBSET Nat, T # {}
  PROVE  \E n \in T : \A m \in T : n <= m
<1> DEFINE R == OpToRel(<, Nat)
<1>1. IsWellFoundedOn(R, Nat)
  BY NatLessThanWellFounded
<1> HIDE DEF R
<1>2. PICK n \in T : \A m \in T : ~ (<<m, n>> \in R)
  BY <1>1, WFMin
<1>3. \A m \in T : ~(m < n)
  BY <1>2 DEF R, OpToRel
<1> QED BY <1>3

(* A set with zero and every successor has all natural numbers. *)
LEMMA Induction ==
  ASSUME NEW S, 0 \in S, \A n \in Nat : n \in S => n + 1 \in S
  PROVE  \A n \in Nat : n \in S
<1> SUFFICES ASSUME Nat \ S # {} PROVE FALSE
  OBVIOUS
<1>1. PICK n \in Nat \ S : \A m \in Nat \ S : n <= m
  BY LeastNatural
<1> QED BY <1>1

(* h is what n steps of F make of b. *)
Unrolls(S, F, b, n, h) ==
  /\ h \in [0 .. n -> S]
  /\ h[0] = b
  /\ \A i \in Nat : i < n => h[i + 1] = F[i][h[i]]

LEMMA OneMoreStep ==
  ASSUME NEW S, NEW b, NEW F \in [Nat -> [S -> S]], NEW n \in Nat, NEW h, Unrolls(S, F, b, n, h)
  PROVE  \E g : Unrolls(S, F, b, n + 1, g)
<1> DEFINE g == [i \in 0 .. n + 1 |-> IF i = n + 1 THEN F[n][h[n]] ELSE h[i]]
<1>1. h[n] \in S /\ \A i \in 0 .. n : h[i] \in S
  BY DEF Unrolls
<1>2. F[n][h[n]] \in S
  BY <1>1
<1>3. g \in [0 .. n + 1 -> S]
  BY <1>1, <1>2
<1>4. g[0] = b
  BY DEF Unrolls
<1>5. ASSUME NEW i \in Nat, i < n + 1 PROVE g[i + 1] = F[i][g[i]]
  <2>1. CASE i = n
    BY <2>1
  <2>2. CASE i < n
    <3>1. g[i + 1] = h[i + 1] /\ g[i] = h[i]
      BY <2>2
    <3> QED BY <2>2, <3>1 DEF Unrolls
  <2> QED BY <1>5, <2>1, <2>2
<1> HIDE DEF g
<1>6. Unrolls(S, F, b, n + 1, g)
  BY <1>3, <1>4, <1>5 DEF Unrolls
<1> QED BY <1>6

LEMMA UnrollingsAgree ==
  ASSUME NEW S, NEW b, NEW F, NEW n \in Nat, NEW m \in Nat, n <= m,
         NEW g, Unrolls(S, F, b, n, g), NEW h, Unrolls(S, F, b, m, h)
  PROVE  \A i \in Nat : i <= n => g[i] = h[i]
<1> DEFINE U == {i \in Nat : i <= n => g[i] = h[i]}
<1>1. 0 \in U
  BY DEF Unrolls
<1>2. ASSUME NEW i \in Nat, i \in U PROVE i + 1 \in U
  <2> SUFFICES ASSUME i + 1 <= n PROVE g[i + 1] = h[i + 1]
    OBVIOUS
  <2>1. g[i] = h[i] /\ i < n /\ i < m
    BY <1>2
  <2>2. g[i + 1] = F[i][g[i]]
    BY <2>1 DEF Unrolls
  <2>3. h[i + 1] = F[i][h[i]]
    BY <2>1 DEF Unrolls
  <2> QED BY <2>1, <2>2, <2>3
<1> HIDE DEF U
<1>3. \A i \in Nat : i \in U
  BY <1>1, <1>2, Induction
<1> QED BY <1>3 DEF U

(* h is what any number of steps of F make of b. *)
Orbit(S, F, b, h) ==
  h \in [Nat -> S] /\ h[0] = b /\ \A n \in Nat : h[n + 1] = F[n][h[n]]

(* A step function has an orbit. *)
LEMMA Recursion ==
  ASSUME NEW S, NEW b \in S, NEW F \in [Nat -> [S -> S]]
  PROVE  \E h : Orbit(S, F, b, h)
<1> DEFINE T == {n \in Nat : \E h : Unrolls(S, F, b, n, h)}
<1>1. 0 \in T
  <2> DEFINE h == [i \in 0 .. 0 |-> b]
  <2>1. h \in [0 .. 0 -> S] /\ h[0] = b
    OBVIOUS
  <2> HIDE DEF h
  <2>2. Unrolls(S, F, b, 0, h)
    BY <2>1 DEF Unrolls
  <2> QED BY <2>2
<1>2. \A n \in Nat : n \in T => n + 1 \in T
  BY OneMoreStep
<1>3. \A n \in Nat : n \in T
  <2> HIDE DEF T
  <2> QED BY <1>1, <1>2, Induction
<1> DEFINE part == [n \in Nat |-> CHOOSE h : Unrolls(S, F, b, n, h)]
           w    == [n \in Nat |-> part[n][n]]
<1>4. \A n \in Nat : Unrolls(S, F, b, n, part[n])
  BY <1>3
<1> HIDE DEF T, part
<1>5. \A n \in Nat : part[n][n] \in S
  BY <1>4 DEF Unrolls
<1>6. w \in [Nat -> S]
  BY <1>5
<1>7. w[0] = b
  BY <1>4 DEF Unrolls
<1>8. ASSUME NEW n \in Nat PROVE w[n + 1] = F[n][w[n]]
  <2>1. n + 1 \in Nat /\ n <= n + 1 /\ n < n + 1
    OBVIOUS
  <2>2. Unrolls(S, F, b, n, part[n]) /\ Unrolls(S, F, b, n + 1, part[n + 1])
    BY <1>4, <2>1
  <2>3. part[n][n] = part[n + 1][n]
    <3>1. \A g, h : Unrolls(S, F, b, n, g) /\ Unrolls(S, F, b, n + 1, h) => g[n] = h[n]
      BY <2>1, UnrollingsAgree
    <3> QED BY <2>2, <3>1
  <2>4. part[n + 1][n + 1] = F[n][part[n + 1][n]]
    BY <2>1, <2>2 DEF Unrolls
  <2> QED BY <2>1, <2>3, <2>4
<1> HIDE DEF w
<1> QED BY <1>6, <1>7, <1>8 DEF Orbit

-----------------------------------------------------------------------------
(* Sequences of texts.                                                     *)

LEMMA Indices ==
  ASSUME NEW S, NEW s \in Seq(S)
  PROVE  /\ Len(s) \in Nat
         /\ \A i : i \in DOMAIN s <=> i \in Nat /\ 1 <= i /\ i <= Len(s)
         /\ \A i \in DOMAIN s : s[i] \in S /\ i - 1 \in Nat /\ (i - 1) + 1 = i
<1>1. DOMAIN s = 1 .. Len(s) /\ Len(s) \in Nat
  BY LenProperties
<1> QED BY <1>1, ElementOfSeq

(* Concatenation, for facts that the provers should not rewrite. *)
Chain(a, b) == a \o b

LEMMA ChainIsFlat ==
  ASSUME NEW S, NEW a \in Seq(S), NEW b \in Seq(S), NEW c \in Seq(S)
  PROVE  Chain(a, b) \in Seq(S) /\ Chain(Chain(a, b), c) = Chain(a, Chain(b, c))
<1>1. a \o b \in Seq(S)
  BY ConcatProperties
<1>2. (a \o b) \o c = a \o (b \o c)
  OBVIOUS
<1> QED BY <1>1, <1>2 DEF Chain

LEMMA ChainOfFour ==
  ASSUME NEW S, NEW a \in Seq(S), NEW b \in Seq(S), NEW c \in Seq(S), NEW d \in Seq(S)
  PROVE  Chain(Chain(a, b), Chain(c, d)) = Chain(Chain(a, Chain(b, c)), d)
<1>1. Chain(a, b) \in Seq(S)
  BY ChainIsFlat
<1>2. Chain(Chain(a, b), Chain(c, d)) = Chain(Chain(Chain(a, b), c), d)
  BY <1>1, ChainIsFlat
<1>3. Chain(Chain(a, b), c) = Chain(a, Chain(b, c))
  BY ChainIsFlat
<1> QED BY <1>2, <1>3

LEMMA ChainOfWord ==
  ASSUME NEW S, NEW a \in Seq(S), NEW b \in Seq(S), NEW c \in Seq(S), NEW d \in Seq(S)
  PROVE  Chain(Chain(Chain(a, b), c), d) = Chain(a, Chain(Chain(b, c), d))
<1>1. Chain(b, c) \in Seq(S)
  BY ChainIsFlat
<1>2. Chain(Chain(a, b), c) = Chain(a, Chain(b, c))
  BY ChainIsFlat
<1>3. Chain(Chain(a, Chain(b, c)), d) = Chain(a, Chain(Chain(b, c), d))
  BY <1>1, ChainIsFlat
<1> QED BY <1>2, <1>3

(* h collects the texts one by one. *)
Glues(S, ts, h) ==
  /\ h \in [Nat -> Seq(S)]
  /\ h[0] = <<>>
  /\ \A i \in Nat : i + 1 \in DOMAIN ts => h[i + 1] = h[i] \o ts[i + 1]

LEMMA GlueExists ==
  ASSUME NEW S, NEW ts \in Seq(Seq(S))
  PROVE  \E h : Glues(S, ts, h)
<1> DEFINE F == [i \in Nat |-> [t \in Seq(S) |-> IF i + 1 \in DOMAIN ts THEN t \o ts[i + 1] ELSE <<>>]]
<1>1. \A i \in Nat, t \in Seq(S) : i + 1 \in DOMAIN ts => t \o ts[i + 1] \in Seq(S)
  BY Indices, ConcatProperties
<1>2. F \in [Nat -> [Seq(S) -> Seq(S)]]
  BY <1>1, EmptySeq
<1>3. \A i \in Nat, t \in Seq(S) : F[i][t] = IF i + 1 \in DOMAIN ts THEN t \o ts[i + 1] ELSE <<>>
  OBVIOUS
<1> HIDE DEF F
<1>4. PICK h \in [Nat -> Seq(S)] : h[0] = <<>> /\ \A n \in Nat : h[n + 1] = F[n][h[n]]
  <2>1. <<>> \in Seq(S)
    BY EmptySeq
  <2>2. \E h : Orbit(Seq(S), F, <<>>, h)
    BY <1>2, <2>1, Recursion
  <2> QED BY <2>2 DEF Orbit
<1>5. \A i \in Nat : i + 1 \in DOMAIN ts => h[i + 1] = h[i] \o ts[i + 1]
  BY <1>3, <1>4
<1> QED BY <1>4, <1>5 DEF Glues

(* FlattenSeq, of texts that are not none. *)
LEMMA FlattenUnfold ==
  ASSUME NEW S, NEW ts \in Seq(Seq(S)), NEW h, Glues(S, ts, h), Len(ts) # 0,
         NEW f, f = [i \in 1 .. Len(ts) |-> IF i = 1 THEN ts[i] ELSE f[i - 1] \o ts[i]]
  PROVE  f[Len(ts)] = h[Len(ts)]
<1> DEFINE U == {i \in Nat : i + 1 \in DOMAIN ts => f[i + 1] = h[i + 1]}
<1>1. DOMAIN ts = 1 .. Len(ts)
  BY LenProperties
<1>2. 0 \in U
  <2> SUFFICES ASSUME 1 \in DOMAIN ts PROVE f[1] = h[1]
    OBVIOUS
  <2>1. ts[1] \in Seq(S) /\ f[1] = ts[1]
    BY <1>1, Indices
  <2>2. h[1] = <<>> \o ts[1]
    <3>1. 0 + 1 = 1 /\ 0 \in Nat /\ 0 + 1 \in DOMAIN ts
      OBVIOUS
    <3>2. h[0 + 1] = h[0] \o ts[0 + 1] /\ h[0] = <<>>
      BY <3>1 DEF Glues
    <3> QED BY <3>1, <3>2
  <2> QED BY <2>1, <2>2, ConcatEmptySeq
<1>3. ASSUME NEW i \in Nat, i \in U PROVE i + 1 \in U
  <2> SUFFICES ASSUME (i + 1) + 1 \in DOMAIN ts PROVE f[(i + 1) + 1] = h[(i + 1) + 1]
    OBVIOUS
  <2>1. i + 1 \in Nat /\ i + 1 \in DOMAIN ts
    BY Indices
  <2>2. f[i + 1] = h[i + 1]
    BY <1>3, <2>1
  <2>3. (i + 1) + 1 # 1 /\ ((i + 1) + 1) - 1 = i + 1
    OBVIOUS
  <2>4. f[(i + 1) + 1] = f[i + 1] \o ts[(i + 1) + 1]
    BY <1>1, <2>3
  <2>5. h[(i + 1) + 1] = h[i + 1] \o ts[(i + 1) + 1]
    BY <2>1 DEF Glues
  <2> QED BY <2>2, <2>4, <2>5
<1> HIDE DEF U
<1>4. \A i \in Nat : i \in U
  BY <1>2, <1>3, Induction
<1>5. Len(ts) - 1 \in Nat /\ (Len(ts) - 1) + 1 = Len(ts) /\ Len(ts) \in DOMAIN ts
  BY Indices
<1>6. Len(ts) - 1 \in U
  BY <1>4, <1>5
<1> QED BY <1>5, <1>6 DEF U

LEMMA GlueIsFlat ==
  ASSUME NEW S, NEW ts \in Seq(Seq(S)), NEW h, Glues(S, ts, h)
  PROVE  SequenceOps!FlattenSeq(ts) = h[Len(ts)]
<1>1. CASE Len(ts) = 0
  <2>1. ts = <<>>
    BY <1>1, EmptySeq
  <2> QED BY <1>1, <2>1 DEF Glues, SequenceOps!FlattenSeq
<1>2. CASE Len(ts) # 0
  <2> DEFINE g == [i \in 1 .. Len(ts) |-> h[i]]
             f == CHOOSE x : x = [i \in 1 .. Len(ts) |-> IF i = 1 THEN ts[i] ELSE x[i - 1] \o ts[i]]
  <2>1. ASSUME NEW i \in 1 .. Len(ts) PROVE h[i] = IF i = 1 THEN ts[i] ELSE g[i - 1] \o ts[i]
    <3>1. i \in DOMAIN ts /\ i - 1 \in Nat /\ (i - 1) + 1 = i /\ ts[i] \in Seq(S)
      BY Indices
    <3>2. h[i] = h[i - 1] \o ts[i]
      BY <3>1 DEF Glues
    <3>3. CASE i = 1
      <4>1. h[i - 1] = <<>>
        BY <3>3 DEF Glues
      <4> QED BY <3>1, <3>2, <3>3, <4>1, ConcatEmptySeq
    <3>4. CASE i # 1
      <4>1. i - 1 \in 1 .. Len(ts)
        BY <3>1, <3>4, Indices
      <4> QED BY <3>2, <3>4, <4>1
    <3> QED BY <3>3, <3>4
  <2>2. g = [i \in 1 .. Len(ts) |-> IF i = 1 THEN ts[i] ELSE g[i - 1] \o ts[i]]
    <3>1. DOMAIN g = 1 .. Len(ts) /\ g = [i \in 1 .. Len(ts) |-> h[i]]
      OBVIOUS
    <3> HIDE DEF g
    <3> QED BY <2>1, <3>1
  <2>3. f = [i \in 1 .. Len(ts) |-> IF i = 1 THEN ts[i] ELSE f[i - 1] \o ts[i]]
    <3> HIDE DEF g
    <3> QED BY <2>2
  <2>4. SequenceOps!FlattenSeq(ts) = f[Len(ts)]
    BY <1>2 DEF SequenceOps!FlattenSeq
  <2> HIDE DEF f, g
  <2> QED BY <1>2, <2>3, <2>4, FlattenUnfold
<1> QED BY <1>1, <1>2

(* Glued texts are a text; one more is glued to the end. *)
LEMMA FlattenAppend ==
  ASSUME NEW S, NEW ts \in Seq(Seq(S)), NEW t \in Seq(S)
  PROVE  /\ SequenceOps!FlattenSeq(ts) \in Seq(S)
         /\ SequenceOps!FlattenSeq(Append(ts, t)) = SequenceOps!FlattenSeq(ts) \o t
<1> DEFINE us == Append(ts, t)
<1>1. /\ us \in Seq(Seq(S)) /\ Len(us) = Len(ts) + 1 /\ us[Len(ts) + 1] = t
      /\ \A i \in 1 .. Len(ts) : us[i] = ts[i]
  BY AppendProperties
<1> HIDE DEF us
<1>2. /\ DOMAIN us = 1 .. Len(ts) + 1 /\ DOMAIN ts = 1 .. Len(ts) /\ Len(ts) \in Nat
  BY <1>1, LenProperties
<1>3. PICK h : Glues(S, us, h)
  BY <1>1, GlueExists
<1>4. Glues(S, ts, h)
  <2>1. \A i \in DOMAIN ts : i \in DOMAIN us /\ us[i] = ts[i]
    BY <1>1, <1>2
  <2> QED BY <1>3, <2>1 DEF Glues
<1>5. SequenceOps!FlattenSeq(ts) = h[Len(ts)] /\ SequenceOps!FlattenSeq(us) = h[Len(us)]
  BY <1>1, <1>3, <1>4, GlueIsFlat
<1>6. h[Len(us)] = h[Len(ts)] \o t
  <2>1. Len(ts) + 1 \in DOMAIN us
    BY <1>2
  <2> QED BY <1>1, <1>2, <1>3, <2>1 DEF Glues
<1> QED BY <1>2, <1>3, <1>5, <1>6 DEF Glues, us

LEMMA FlattenText ==
  ASSUME NEW S, NEW ts \in Seq(Seq(S))
  PROVE  SequenceOps!FlattenSeq(ts) \in Seq(S)
<1>1. PICK h : Glues(S, ts, h)
  BY GlueExists
<1>2. h[Len(ts)] \in Seq(S)
  BY <1>1, LenProperties DEF Glues
<1> QED BY <1>1, <1>2, GlueIsFlat

LEMMA FlattenEmpty == SequenceOps!FlattenSeq(<<>>) = <<>>
  BY DEF SequenceOps!FlattenSeq


-----------------------------------------------------------------------------
(* The bytes of a line on their way (networking.cpp).                      *)

Bytes == Chars \cup {Nul}

(* Where ch is for the first time; 0 if nowhere. *)
FirstPlace(s, ch) ==
  LET I == {i \in 1 .. Len(s) : s[i] = ch} IN IF I # {} THEN SequenceOps!Min(I) ELSE 0

LEMMA FirstOf ==
  ASSUME NEW S, NEW s \in Seq(S), NEW ch, NEW k \in DOMAIN s, s[k] = ch,
         \A i \in DOMAIN s : i < k => s[i] # ch
  PROVE  FirstPlace(s, ch) = k
<1> DEFINE I == {i \in 1 .. Len(s) : s[i] = ch}
<1>1. k \in I /\ (\A i \in I : k <= i) /\ I \subseteq Nat
  BY Indices
<1>2. FirstPlace(s, ch) = IF I # {} THEN SequenceOps!Min(I) ELSE 0
  BY DEF FirstPlace
<1>3. SequenceOps!Min(I) = k
  <2> HIDE DEF I
  <2>1. \A x \in I : (\A y \in I : x <= y) => x = k
    BY <1>1
  <2> QED BY <1>1, <2>1 DEF SequenceOps!Min
<1> QED BY <1>1, <1>2, <1>3

LEMMA NoneOf ==
  ASSUME NEW S, NEW s \in Seq(S), NEW ch, \A i \in DOMAIN s : s[i] # ch
  PROVE  FirstPlace(s, ch) = 0
<1> DEFINE I == {i \in 1 .. Len(s) : s[i] = ch}
<1>1. I = {}
  BY Indices
<1>2. FirstPlace(s, ch) = IF I # {} THEN SequenceOps!Min(I) ELSE 0
  BY DEF FirstPlace
<1> QED BY <1>1, <1>2

LEMMA CStrCuts ==
  ASSUME NEW s
  PROVE  CStr(s) = IF FirstPlace(s, Nul) = 0 THEN s ELSE SubSeq(s, 1, FirstPlace(s, Nul) - 1)
  BY DEF CStr, SequenceOps!SelectInSeq, FirstPlace

(* Words of one and of two characters. *)
LEMMA ShortTexts ==
  ASSUME NEW S, NEW c \in S, NEW d \in S
  PROVE  <<c>> \in Seq(S) /\ <<c, d>> \in Seq(S)
  OBVIOUS

(* What has been received ends where the empty buffer begins. *)
LEMMA CStrOfShort ==
  ASSUME NEW s \in Seq(Bytes), NEW t \in Text, Len(t) < Len(s),
         \A i \in 1 .. Len(t) : s[i] = t[i], s[Len(t) + 1] = Nul
  PROVE  CStr(s) = t
<1>1. Len(t) \in Nat /\ Len(t) + 1 \in DOMAIN s
  BY Indices DEF Text
<1>2. \A i \in DOMAIN s : i < Len(t) + 1 => s[i] # Nul
  <2> SUFFICES ASSUME NEW i \in DOMAIN s, i < Len(t) + 1 PROVE s[i] # Nul
    OBVIOUS
  <2>1. i \in 1 .. Len(t) /\ i \in DOMAIN t
    BY <1>1, Indices DEF Text
  <2>2. t[i] \in Chars
    BY <2>1, Indices DEF Text
  <2> QED BY <2>1, <2>2, WireConstants
<1>3. FirstPlace(s, Nul) = Len(t) + 1
  BY <1>1, <1>2, FirstOf
<1>4. CStr(s) = SubSeq(s, 1, Len(t))
  <2>1. Len(t) + 1 # 0 /\ (Len(t) + 1) - 1 = Len(t)
    BY <1>1
  <2> QED BY <1>3, <2>1, CStrCuts
<1>5. /\ SubSeq(s, 1, Len(t)) \in Seq(Bytes) /\ Len(SubSeq(s, 1, Len(t))) = Len(t)
      /\ \A i \in 1 .. Len(t) : SubSeq(s, 1, Len(t))[i] = s[i]
  <2>1. \A i \in 1 .. Len(t) : s[i] \in Bytes
    BY <1>1, Indices
  <2>2. Len(t) - 1 + 1 = Len(t) /\ \A i \in 1 .. Len(t) : 1 + i - 1 = i
    BY <1>1
  <2>3. CASE Len(t) = 0
    BY <2>1, <2>3, SubSeqProperties
  <2>4. CASE Len(t) # 0
    BY <1>1, <2>1, <2>2, <2>4, SubSeqProperties
  <2> QED BY <2>3, <2>4
<1>6. t \in Seq(Bytes)
  BY SeqMonotonic DEF Text, Bytes
<1> QED BY <1>4, <1>5, <1>6, SeqEqual

(* A full buffer is read as a whole. *)
LEMMA CStrOfFull ==
  ASSUME NEW s \in Text
  PROVE  CStr(s) = s
<1>1. \A i \in DOMAIN s : s[i] # Nul
  BY Indices, WireConstants DEF Text
<1>2. FirstPlace(s, Nul) = 0
  BY <1>1, NoneOf DEF Text
<1> QED BY <1>2, CStrCuts

LEMMA CStrType ==
  ASSUME NEW s \in Seq(Bytes)
  PROVE  CStr(s) \in Seq(Bytes)
<1> DEFINE I == {i \in 1 .. Len(s) : s[i] = Nul}
           k == FirstPlace(s, Nul)
<1>1. CASE k = 0
  BY <1>1, CStrCuts
<1>2. CASE k # 0
  <2>1. I \in SUBSET Nat /\ I # {} /\ k = SequenceOps!Min(I)
    BY <1>2, Indices DEF FirstPlace
  <2>2. PICK m \in I : \A i \in I : m <= i
    <3> HIDE DEF I
    <3> QED BY <2>1, LeastNatural
  <2>3. k \in I
    <3> HIDE DEF I
    <3> QED BY <2>1, <2>2 DEF SequenceOps!Min
  <2>4. k \in 1 .. Len(s) /\ Len(s) \in Nat /\ \A i \in 1 .. k - 1 : s[i] \in Bytes
    BY <2>3, Indices
  <2> HIDE DEF k
  <2>5. SubSeq(s, 1, k - 1) \in Seq(Bytes)
    BY <2>4, SubSeqProperties
  <2> QED BY <1>2, <2>5, CStrCuts DEF k
<1> QED BY <1>1, <1>2

(* The words of an entity are texts, and so is what is built of them. *)
LEMMA WrappedIsText ==
  ASSUME NEW w \in Text PROVE TryToWrap(w) \in Text
<1>1. <<Opened>> \in Text /\ <<Closed>> \in Text
  BY ShortTexts, WireConstants DEF Text
<1>2. <<Opened>> \o w \in Text
  BY <1>1, ConcatProperties DEF Text
<1>3. <<Opened>> \o w \o <<Closed>> \in Text
  BY <1>1, <1>2, ConcatProperties DEF Text
<1> QED BY <1>3 DEF TryToWrap

LEMMA BuildIsText ==
  ASSUME NEW e \in Entities PROVE Build(e) \in Text
<1> DEFINE options == [i \in DOMAIN e.options |-> <<Space, Dash>> \o TryToWrap(e.options[i])]
           params == [i \in DOMAIN e.params |-> <<Space>> \o TryToWrap(e.params[i])]
<1>1. e.command \in Text /\ e.options \in Seq(Text) /\ e.params \in Seq(Text)
  BY WireConstants
<1>2. <<Space, Dash>> \in Text /\ <<Space>> \in Text
  BY ShortTexts, WireConstants DEF Text
<1>3. options \in Seq(Text)
  <2>1. \A i \in DOMAIN e.options : <<Space, Dash>> \o TryToWrap(e.options[i]) \in Text
    <3>1. \A i \in DOMAIN e.options : TryToWrap(e.options[i]) \in Text
      BY <1>1, Indices, WrappedIsText
    <3> QED BY <1>2, <3>1, ConcatProperties DEF Text
  <2>2. DOMAIN e.options = 1 .. Len(e.options) /\ Len(e.options) \in Nat
    BY <1>1, LenProperties
  <2> QED BY <2>1, <2>2
<1>4. params \in Seq(Text)
  <2>1. \A i \in DOMAIN e.params : <<Space>> \o TryToWrap(e.params[i]) \in Text
    <3>1. \A i \in DOMAIN e.params : TryToWrap(e.params[i]) \in Text
      BY <1>1, Indices, WrappedIsText
    <3> QED BY <1>2, <3>1, ConcatProperties DEF Text
  <2>2. DOMAIN e.params = 1 .. Len(e.params) /\ Len(e.params) \in Nat
    BY <1>1, LenProperties
  <2> QED BY <2>1, <2>2
<1>5. Build(e) = TryToWrap(e.command) \o SequenceOps!FlattenSeq(options) \o SequenceOps!FlattenSeq(params)
  BY DEF Build
<1> HIDE DEF options, params
<1>6. /\ SequenceOps!FlattenSeq(options) \in Text /\ SequenceOps!FlattenSeq(params) \in Text
      /\ TryToWrap(e.command) \in Text
  BY <1>1, <1>3, <1>4, FlattenText, WrappedIsText DEF Text
<1> QED BY <1>5, <1>6, ConcatProperties DEF Text

(* Lines, what has arrived and what was written are texts.  While nothing  *)
(* has filled the buffer, a receiver starts with an empty one and with     *)
(* nothing in its hands: whatever recv brings is the whole message.        *)
Collected ==
  /\ line \in Text /\ written \in Text /\ arrived \in Text
  /\ msg \in Seq(Bytes) /\ pieces \in Seq(Seq(Bytes))
  /\ Receiving => buffer \in [1 .. BufferSize -> Bytes]
  /\ ~filled /\ Receiving => buffer = EmptyBuffer /\ msg = <<>>

(* The inductive invariant of the connection. *)
WInv == ReceptionInv /\ Collected

(* What is still to be sent of the line. *)
Unsent == NextBytes(Len(line) - offset)

LEMMA WireInit == Init => WInv
<1> SUFFICES ASSUME Init PROVE WInv
  OBVIOUS
<1>1. NextBytes(Len(line) - offset) = <<>>
  BY SubSeqEmpty DEF Init, NextBytes
<1>2. <<>> \in Text /\ <<>> \in Seq(Bytes) /\ <<>> \in Seq(Seq(Bytes))
  BY EmptySeq DEF Text
<1>3. <<>> \o <<>> \o <<>> \o <<>> = <<>>
  BY <1>2, ConcatEmptySeq
<1>4. BytesComeInOrder
  BY <1>1, <1>3, FlattenEmpty DEF Init, BytesComeInOrder
<1>5. WireTypeOK
  <2>1. Len(line) = 0 /\ 0 \in 0 .. MaxLines /\ 0 \in 0 .. BufferSize
    BY WireConstants DEF Init
  <2>2. ~Receiving
    BY DEF Init, Receiving
  <2>3. offset \in 0 .. Len(line) /\ lines \in 0 .. MaxLines /\ count \in 0 .. BufferSize
    BY <2>1 DEF Init
  <2>4. closed \in BOOLEAN /\ filled \in BOOLEAN /\ entity \in Entities
    BY DEF Init
  <2>5. msg = <<>> /\ count = 0 /\ buffer = <<>>
    BY DEF Init
  <2> QED BY <2>2, <2>3, <2>4, <2>5 DEF WireTypeOK
<1>6. Collected
  BY <1>2 DEF Init, Collected, Receiving
<1> QED BY <1>4, <1>5, <1>6 DEF WInv, ReceptionInv

(* Texts are sequences of bytes. *)
LEMMA TextIsBytes == Text \subseteq Seq(Bytes)
  BY SeqMonotonic DEF Text, Bytes

LEMMA UnsentIsText ==
  ASSUME WInv PROVE Unsent \in Text /\ Len(line) - offset \in Nat /\ offset \in Nat
<1>1. line \in Seq(Chars) /\ offset \in 0 .. Len(line) /\ Len(line) \in Nat
  BY LenProperties DEF WInv, ReceptionInv, WireTypeOK, Collected, Text
<1>2. \A i \in offset + 1 .. offset + (Len(line) - offset) : line[i] \in Chars
  BY <1>1, ElementOfSeq
<1> QED BY <1>1, <1>2, SubSeqProperties DEF Unsent, NextBytes, Text

(* A new line begins when the last one has been sent. *)
LEMMA SendLineInv == ASSUME WInv, SendLine PROVE WInv'
<1>1. PICK e \in Entities : entity' = e /\ line' = Build(e) /\ written' = written \o Build(e)
  BY WireConstants DEF SendLine, WInv, ReceptionInv, WireTypeOK
<1>2. Build(e) \in Text
  BY BuildIsText
<1>3. offset = Len(line) /\ offset' = 0 /\ lines' = lines + 1 /\ lines < MaxLines
      /\ UNCHANGED <<arrived, closed, buffer, msg, count, pieces, filled>>
  BY DEF SendLine, Sent, receiver
<1>4. Unsent = <<>>
  BY <1>3, UnsentIsText, SubSeqEmpty DEF Unsent, NextBytes
<1>5. Unsent' = Build(e)
  <2>1. Len(Build(e)) - 0 = Len(Build(e)) /\ 0 + Len(Build(e)) = Len(Build(e)) /\ 0 + 1 = 1
    BY <1>2, LenProperties DEF Text
  <2>2. Unsent' = SubSeq(Build(e), 0 + 1, 0 + (Len(Build(e)) - 0))
    BY <1>1, <1>3 DEF Unsent, NextBytes
  <2> QED BY <1>2, <2>1, <2>2, SubSeqFull DEF Text
<1>6. WireTypeOK'
  <2>1. offset' \in 0 .. Len(line') /\ lines' \in 0 .. MaxLines
    BY <1>1, <1>2, <1>3, WireConstants, LenProperties DEF Text, WInv, ReceptionInv, WireTypeOK
  <2> QED BY <1>1, <1>3, <2>1 DEF WInv, ReceptionInv, WireTypeOK, Receiving
<1>7. written' \in Text
  BY <1>1, <1>2, ConcatProperties DEF WInv, Collected, Text
<1>8. Collected'
  BY <1>1, <1>2, <1>3, <1>7 DEF WInv, Collected, Receiving, EmptyBuffer
<1>9. ASSUME ~filled
      PROVE  written' = SequenceOps!FlattenSeq(pieces') \o msg' \o arrived' \o Unsent'
  <2> DEFINE before == SequenceOps!FlattenSeq(pieces) \o msg \o arrived
  <2>1. written = before \o <<>>
    BY <1>4, <1>9 DEF WInv, ReceptionInv, BytesComeInOrder, Unsent
  <2>2. before \in Seq(Bytes)
    BY FlattenText, TextIsBytes, ConcatProperties DEF WInv, Collected
  <2> HIDE DEF before
  <2>3. written' = before \o Build(e)
    BY <1>1, <2>1, <2>2, ConcatEmptySeq
  <2> QED BY <1>3, <1>5, <2>3 DEF before
<1> QED
  BY <1>3, <1>6, <1>8, <1>9 DEF WInv, ReceptionInv, BytesComeInOrder, Unsent

(* The pieces of a line follow each other. *)
LEMMA SendPieceInv == ASSUME WInv, SendPiece PROVE WInv'
<1>1. PICK n \in 1 .. Len(line) - offset :
        arrived' = arrived \o SubSeq(line, offset + 1, offset + n) /\ offset' = offset + n
  BY DEF SendPiece, NextBytes
<1>2. UNCHANGED <<entity, line, written, lines, closed, buffer, msg, count, pieces, filled>>
  BY DEF SendPiece, receiver
<1>3. line \in Seq(Chars) /\ Len(line) \in Nat /\ offset \in Nat /\ Len(line) - offset \in Nat
      /\ offset + n <= Len(line) /\ n \in Nat
  BY UnsentIsText, LenProperties DEF WInv, Collected, Text
<1>4. SubSeq(line, offset + 1, offset + n) \in Text
  <2>1. \A i \in offset + 1 .. offset + n : line[i] \in Chars
    BY <1>3, ElementOfSeq
  <2> QED BY <1>3, <2>1, SubSeqProperties DEF Text
<1>5. arrived' \in Text
  BY <1>1, <1>4, ConcatProperties DEF WInv, Collected, Text
<1>6. WireTypeOK'
  BY <1>1, <1>2, <1>3 DEF WInv, ReceptionInv, WireTypeOK, Receiving
<1>7. Collected'
  BY <1>2, <1>5 DEF WInv, Collected, Receiving, EmptyBuffer
<1>8. Unsent = SubSeq(line, offset + 1, offset + n) \o Unsent'
  <2>1. Unsent' = SubSeq(line, offset + n + 1, Len(line))
    <3>1. offset + n + (Len(line) - (offset + n)) = Len(line)
      BY <1>3
    <3> QED BY <1>1, <1>2, <3>1 DEF Unsent, NextBytes
  <2>2. Unsent = SubSeq(line, offset + 1, Len(line))
    <3>1. offset + (Len(line) - offset) = Len(line)
      BY <1>3
    <3> QED BY <3>1 DEF Unsent, NextBytes
  <2>3. /\ offset + 1 \in 1 .. Len(line) + 1 /\ offset + n \in (offset + 1) - 1 .. Len(line)
        /\ Len(line) \in offset + n .. Len(line)
    BY <1>3
  <2> QED BY <1>3, <2>1, <2>2, <2>3, ConcatAdjacentSubSeq
<1>9. ASSUME ~filled
      PROVE  written' = SequenceOps!FlattenSeq(pieces') \o msg' \o arrived' \o Unsent'
  <2>1. PICK pre \in Seq(Bytes) : pre = SequenceOps!FlattenSeq(pieces) \o msg
    BY FlattenText, ConcatProperties DEF WInv, Collected
  <2>2. PICK new \in Seq(Bytes), rest \in Seq(Bytes), old \in Seq(Bytes) :
          new = SubSeq(line, offset + 1, offset + n) /\ rest = Unsent' /\ old = arrived
    <3>1. Unsent' \in Text
      <4>1. \A i \in (offset + n) + 1 .. Len(line) : line[i] \in Chars
        BY <1>3, ElementOfSeq
      <4>2. Unsent' = SubSeq(line, (offset + n) + 1, Len(line))
        <5>1. offset + n + (Len(line) - (offset + n)) = Len(line)
          BY <1>3
        <5> QED BY <1>1, <1>2, <5>1 DEF Unsent, NextBytes
      <4> QED BY <1>3, <4>1, <4>2, SubSeqProperties DEF Text
    <3> QED BY <1>4, <3>1, TextIsBytes DEF WInv, Collected
  <2>3. written = (pre \o old) \o (new \o rest)
    BY <1>8, <1>9, <2>1, <2>2 DEF WInv, ReceptionInv, BytesComeInOrder, Unsent
  <2>4. (pre \o old) \o (new \o rest) = (pre \o (old \o new)) \o rest
    <3>1. Chain(Chain(pre, old), Chain(new, rest)) = Chain(Chain(pre, Chain(old, new)), rest)
      BY ChainOfFour
    <3> QED BY <3>1 DEF Chain
  <2> QED BY <1>1, <1>2, <2>1, <2>2, <2>3, <2>4
<1> QED
  BY <1>2, <1>6, <1>7, <1>9 DEF WInv, ReceptionInv, BytesComeInOrder, Unsent

(* The empty buffer has null characters. *)
LEMMA EmptyBufferProperties ==
  /\ EmptyBuffer \in [1 .. BufferSize -> Bytes] /\ EmptyBuffer # <<>>
  /\ \A i \in 1 .. BufferSize : EmptyBuffer[i] = Nul
<1>1. DOMAIN EmptyBuffer = 1 .. BufferSize /\ 1 \in 1 .. BufferSize
  BY WireConstants DEF EmptyBuffer
<1>2. EmptyBuffer # <<>>
  <2>1. 1 \notin DOMAIN <<>>
    BY EmptySeq, LenProperties
  <2> QED BY <1>1, <2>1
<1> QED BY <1>2 DEF EmptyBuffer, Bytes

LEMMA ReceiveMessageInv == ASSUME WInv, ReceiveMessage PROVE WInv'
<1>1. /\ ~Receiving /\ buffer' = EmptyBuffer
      /\ UNCHANGED <<entity, line, offset, written, lines, arrived, closed, msg, count, pieces, filled>>
  BY DEF ReceiveMessage, sender
<1>2. msg = <<>> /\ count = 0
  BY <1>1 DEF WInv, ReceptionInv, WireTypeOK
<1>3. WireTypeOK'
  BY <1>1, <1>2, EmptyBufferProperties, WireConstants DEF WInv, ReceptionInv, WireTypeOK, Receiving
<1>4. Collected'
  BY <1>1, <1>2, EmptyBufferProperties DEF WInv, Collected, Receiving, EmptyBuffer
<1>5. BytesComeInOrder'
  BY <1>1 DEF WInv, ReceptionInv, BytesComeInOrder, NextBytes
<1> QED BY <1>3, <1>4, <1>5 DEF WInv, ReceptionInv

LEMMA CloseConnectionInv == ASSUME WInv, CloseConnection PROVE WInv'
<1>1. closed' = TRUE
      /\ UNCHANGED <<entity, line, offset, written, lines, arrived, buffer, msg, count, pieces, filled>>
  BY DEF CloseConnection, sender, receiver
<1>2. WireTypeOK' /\ BytesComeInOrder' /\ Collected'
  BY <1>1 DEF WInv, ReceptionInv, WireTypeOK, Receiving, BytesComeInOrder, NextBytes, Collected, EmptyBuffer
<1> QED BY <1>2 DEF WInv, ReceptionInv

(* recv brings everything that has arrived, or a full buffer. *)
LEMMA RecvInv == ASSUME WInv, Recv PROVE WInv'
<1> DEFINE n == IF Len(arrived) < BufferSize THEN Len(arrived) ELSE BufferSize
           bytes == [i \in 1 .. BufferSize |-> IF i <= n THEN arrived[i] ELSE buffer[i]]
           longer == msg \o CStr(bytes)
<1>1. /\ Receiving /\ arrived # <<>>
      /\ arrived' = SubSeq(arrived, n + 1, Len(arrived))
      /\ filled' = (filled \/ n = BufferSize)
      /\ UNCHANGED <<entity, line, offset, written, lines, closed>>
      /\ IF n = BufferSize
           THEN buffer' = bytes /\ msg' = longer /\ count' = n /\ UNCHANGED pieces
           ELSE pieces' = Append(pieces, longer) /\ buffer' = <<>> /\ msg' = <<>> /\ count' = 0
  BY DEF Recv, sender, Continues, Return
<1>2. arrived \in Seq(Chars) /\ Len(arrived) \in Nat \ {0} /\ \A i \in 1 .. Len(arrived) : arrived[i] \in Chars
  BY <1>1, EmptySeq, LenProperties, ElementOfSeq DEF WInv, Collected, Text
<1>3. BufferSize \in Nat \ {0} /\ n \in 1 .. BufferSize /\ n <= Len(arrived)
  <2>1. BufferSize \in Nat \ {0}
    BY WireConstants
  <2>2. Len(arrived) \in Nat \ {0}
    BY <1>2
  <2>3. CASE Len(arrived) < BufferSize
    BY <2>1, <2>2, <2>3
  <2>4. CASE ~(Len(arrived) < BufferSize)
    BY <2>1, <2>2, <2>4
  <2> QED BY <2>3, <2>4
<1>4. bytes \in Seq(Bytes) /\ Len(bytes) = BufferSize
  <2>1. ASSUME NEW i \in 1 .. BufferSize PROVE bytes[i] \in Bytes
    <3>1. buffer[i] \in Bytes
      BY <1>1 DEF WInv, Collected
    <3>2. i <= n => arrived[i] \in Bytes
      <4> HIDE DEF n
      <4>1. i <= n => i \in 1 .. Len(arrived)
        BY <1>2, <1>3
      <4> QED BY <1>2, <4>1 DEF Bytes
    <3>3. bytes[i] = IF i <= n THEN arrived[i] ELSE buffer[i]
      <4> HIDE DEF n
      <4> QED OBVIOUS
    <3> QED BY <3>1, <3>2, <3>3
  <2> QED BY <1>3, <2>1
<1>5. \A i \in 1 .. n : bytes[i] = arrived[i]
  BY <1>3
<1>6. ~filled => \A i \in 1 .. BufferSize : i > n => bytes[i] = Nul
  BY <1>1, <1>3, EmptyBufferProperties DEF WInv, Collected
<1>7. arrived' \in Text
  <2>1. \A i \in n + 1 .. Len(arrived) : arrived[i] \in Chars
    BY <1>2, <1>3
  <2> QED BY <1>1, <1>2, <1>3, <2>1, SubSeqProperties DEF Text
<1> HIDE DEF bytes, n
<1>8. CStr(bytes) \in Seq(Bytes) /\ (n = BufferSize => CStr(bytes) = bytes)
  <2>1. n = BufferSize => CStr(bytes) = bytes
    <3> SUFFICES ASSUME n = BufferSize PROVE CStr(bytes) = bytes
      OBVIOUS
    <3>1. bytes \in Text
      <4>1. \A i \in 1 .. Len(bytes) : bytes[i] \in Chars
        BY <1>2, <1>3, <1>4, <1>5
      <4> QED BY <1>4, <4>1, LenProperties DEF Text
    <3> QED BY <3>1, CStrOfFull
  <2>2. CStr(bytes) \in Seq(Bytes)
    BY <1>4, CStrType
  <2> QED BY <2>1, <2>2
<1>9. longer \in Seq(Bytes)
  BY <1>8, ConcatProperties DEF WInv, Collected
<1>10. CASE n = BufferSize
  <2>1. bytes # <<>> /\ longer # <<>>
    <3>1. bytes # <<>>
      BY <1>3, <1>4
    <3> QED BY <1>4, <1>8, <1>10, <3>1, ConcatEqualIffEmpty DEF WInv, Collected
  <2>2. buffer' = bytes /\ msg' = longer /\ count' = n /\ UNCHANGED pieces /\ filled' = TRUE
    BY <1>1, <1>10
  <2> HIDE DEF longer
  <2>3. bytes \in [1 .. BufferSize -> Bytes]
    BY <1>4, LenProperties
  <2>4. WireTypeOK'
    BY <1>1, <1>3, <1>10, <2>1, <2>2, <2>3 DEF WInv, ReceptionInv, WireTypeOK, Receiving
  <2>5. Collected'
    BY <1>1, <1>7, <1>9, <2>2, <2>3 DEF WInv, Collected
  <2> QED BY <2>2, <2>4, <2>5 DEF WInv, ReceptionInv, BytesComeInOrder
<1>11. CASE n # BufferSize
  <2>1. /\ pieces' = Append(pieces, longer) /\ buffer' = <<>> /\ msg' = <<>> /\ count' = 0
        /\ filled' = filled
    BY <1>1, <1>11 DEF WInv, ReceptionInv, WireTypeOK
  <2>2. pieces' \in Seq(Seq(Bytes))
    BY <1>9, <2>1, AppendProperties DEF WInv, Collected
  <2>3. WireTypeOK'
    BY <1>1, <1>3, <2>1 DEF WInv, ReceptionInv, WireTypeOK, Receiving
  <2>4. Collected'
    BY <1>1, <1>7, <2>1, <2>2, EmptySeq DEF WInv, Collected, Receiving
  <2>5. ASSUME ~filled
        PROVE  written = SequenceOps!FlattenSeq(pieces') \o <<>> \o arrived' \o Unsent
    <3>1. n = Len(arrived) /\ n < BufferSize
      BY <1>3, <1>11 DEF n
    <3>2. CStr(bytes) = arrived
      <4>1. bytes[Len(arrived) + 1] = Nul
        BY <1>2, <1>3, <1>6, <2>5, <3>1
      <4> QED BY <1>2, <1>4, <1>5, <3>1, <4>1, CStrOfShort DEF Text
    <3>3. msg = <<>>
      BY <1>1, <2>5 DEF WInv, Collected
    <3>4. arrived \in Seq(Bytes) /\ arrived' = <<>> /\ Unsent \in Seq(Bytes)
      BY <1>1, <1>2, <3>1, SubSeqEmpty, TextIsBytes, UnsentIsText DEF Text
    <3>5. longer = arrived
      BY <3>2, <3>3, <3>4, ConcatEmptySeq
    <3>6. PICK flat \in Seq(Bytes) : flat = SequenceOps!FlattenSeq(pieces)
      BY FlattenText DEF WInv, Collected
    <3>7. SequenceOps!FlattenSeq(pieces') = flat \o arrived
      BY <2>1, <3>4, <3>5, <3>6, FlattenAppend DEF WInv, Collected
    <3>8. written = flat \o <<>> \o arrived \o Unsent
      BY <2>5, <3>3, <3>6 DEF WInv, ReceptionInv, BytesComeInOrder, Unsent
    <3>9. flat \o <<>> = flat /\ (flat \o arrived) \o <<>> = flat \o arrived
          /\ flat \o arrived \in Seq(Bytes)
      BY <3>4, ConcatProperties, ConcatEmptySeq
    <3> QED BY <3>4, <3>7, <3>8, <3>9
  <2>6. BytesComeInOrder'
    BY <1>1, <2>1, <2>5 DEF BytesComeInOrder, Unsent, NextBytes
  <2> QED BY <2>3, <2>4, <2>6 DEF WInv, ReceptionInv
<1> QED BY <1>10, <1>11

(* What was collected when the sender closed is the last message. *)
LEMMA RecvClosedInv == ASSUME WInv, RecvClosed PROVE WInv'
<1>1. /\ Receiving /\ pieces' = Append(pieces, msg) /\ buffer' = <<>> /\ msg' = <<>> /\ count' = 0
      /\ UNCHANGED <<entity, line, offset, written, lines, arrived, closed, filled>>
  BY DEF RecvClosed, Return, sender
<1>2. WireTypeOK'
  BY <1>1, WireConstants DEF WInv, ReceptionInv, WireTypeOK, Receiving
<1>3. Collected'
  BY <1>1, AppendProperties, EmptySeq DEF WInv, Collected, Receiving
<1>4. BytesComeInOrder'
  <2> SUFFICES ASSUME ~filled
               PROVE  written = SequenceOps!FlattenSeq(pieces') \o <<>> \o arrived \o Unsent
    BY <1>1 DEF BytesComeInOrder, Unsent, NextBytes
  <2>1. msg = <<>> /\ pieces \in Seq(Seq(Bytes)) /\ <<>> \in Seq(Bytes)
    BY <1>1, EmptySeq DEF WInv, Collected
  <2>2. PICK flat \in Seq(Bytes) : flat = SequenceOps!FlattenSeq(pieces)
    BY <2>1, FlattenText
  <2>3. SequenceOps!FlattenSeq(pieces') = flat \o <<>>
    BY <1>1, <2>1, <2>2, FlattenAppend
  <2>4. flat \o <<>> = flat
    BY ConcatEmptySeq
  <2> QED BY <2>1, <2>2, <2>3, <2>4 DEF WInv, ReceptionInv, BytesComeInOrder, Unsent
<1> QED BY <1>2, <1>3, <1>4 DEF WInv, ReceptionInv

LEMMA WireNext == ASSUME WInv, [Next]_vars PROVE WInv'
<1>1. CASE UNCHANGED vars
  <2>1. WireTypeOK' /\ BytesComeInOrder' /\ Collected'
    BY <1>1 DEF vars, sender, receiver, WInv, ReceptionInv, WireTypeOK, Receiving, BytesComeInOrder,
       NextBytes, Collected, EmptyBuffer
  <2> QED BY <2>1 DEF WInv, ReceptionInv
<1> QED
  BY <1>1, SendLineInv, SendPieceInv, CloseConnectionInv, ReceiveMessageInv, RecvInv, RecvClosedInv
  DEF Next

(* The inductive invariant holds. *)
THEOREM WireInvariant == Spec => []WInv
  BY WireInit, WireNext, PTL DEF Spec

(* networking.cpp: whatever the size of the buffer, of the lines and of    *)
(* the pieces in which they are sent, the receiver gets their bytes in     *)
(* order, as long as no recv has filled the buffer.                        *)
THEOREM ReceptionIsRight == Spec => []ReceptionInv
<1>1. WInv => ReceptionInv
  BY DEF WInv
<1> QED BY <1>1, WireInvariant, PTL

-----------------------------------------------------------------------------
(* Reading a line word by word (protocol_interpreter.cpp).                 *)

Reading == [isWord : BOOLEAN, blank : BOOLEAN, word : Text, depth : Int, args : Seq(Text)]

LEMMA ReadCharType ==
  ASSUME NEW st \in Reading, NEW ch \in Chars
  PROVE  ReadChar(st, ch) \in Reading
<1>1. st.word \in Text /\ st.args \in Seq(Text) /\ st.depth \in Int /\ <<>> \in Text
  BY EmptySeq DEF Reading, Text
<1>2. Append(st.word, ch) \in Text /\ Append(st.args, st.word) \in Seq(Text)
  BY <1>1, AppendProperties DEF Text
<1>3. Depth(st.depth, ch) \in Int
  BY <1>1 DEF Depth
<1> QED BY <1>1, <1>2, <1>3 DEF ReadChar, Reading

(* h holds the states while a text is read from st on. *)
Reads(st, text, h) ==
  /\ h \in [Nat -> Reading]
  /\ h[0] = st
  /\ \A i \in Nat : i + 1 \in DOMAIN text => h[i + 1] = ReadChar(h[i], text[i + 1])

LEMMA ReadsExist ==
  ASSUME NEW st \in Reading, NEW text \in Text
  PROVE  \E h : Reads(st, text, h)
<1> DEFINE F == [i \in Nat |-> [s \in Reading |->
                   IF i + 1 \in DOMAIN text THEN ReadChar(s, text[i + 1]) ELSE s]]
<1>1. \A i \in Nat, s \in Reading : i + 1 \in DOMAIN text => ReadChar(s, text[i + 1]) \in Reading
  BY Indices, ReadCharType DEF Text
<1>2. F \in [Nat -> [Reading -> Reading]]
  BY <1>1
<1>3. \A i \in Nat, s \in Reading : i + 1 \in DOMAIN text => F[i][s] = ReadChar(s, text[i + 1])
  OBVIOUS
<1> HIDE DEF F
<1>4. PICK h : Orbit(Reading, F, st, h)
  BY <1>2, Recursion
<1>5. Reads(st, text, h)
  BY <1>3, <1>4 DEF Orbit, Reads
<1> QED BY <1>5

(* f is the function by which Read is defined. *)
Unfolds(st, text, f) ==
  f = [i \in 0 .. Len(text) |-> IF i = 0 THEN st ELSE ReadChar(f[i - 1], text[i])]

LEMMA ReadUnfold ==
  ASSUME NEW st \in Reading, NEW text \in Text, NEW h, Reads(st, text, h), NEW f, Unfolds(st, text, f)
  PROVE  f[Len(text)] = h[Len(text)]
<1> DEFINE U == {i \in Nat : i <= Len(text) => f[i] = h[i]}
<1>1. Len(text) \in Nat
  BY Indices DEF Text
<1>2. 0 \in U
  BY <1>1 DEF Reads, Unfolds
<1>3. ASSUME NEW i \in Nat, i \in U PROVE i + 1 \in U
  <2> SUFFICES ASSUME i + 1 <= Len(text) PROVE f[i + 1] = h[i + 1]
    OBVIOUS
  <2>1. i + 1 \in DOMAIN text /\ i + 1 \in 0 .. Len(text) /\ i + 1 # 0 /\ (i + 1) - 1 = i
    BY <1>1, Indices DEF Text
  <2>2. f[i + 1] = ReadChar(f[i], text[i + 1])
    BY <2>1 DEF Unfolds
  <2>3. h[i + 1] = ReadChar(h[i], text[i + 1])
    BY <2>1 DEF Reads
  <2>4. f[i] = h[i]
    BY <1>1, <1>3
  <2> QED BY <2>2, <2>3, <2>4
<1> HIDE DEF U
<1>4. Len(text) \in U
  BY <1>1, <1>2, <1>3, Induction
<1> QED BY <1>1, <1>4 DEF U

LEMMA ReadsEnd ==
  ASSUME NEW st \in Reading, NEW text \in Text, NEW h, Reads(st, text, h)
  PROVE  Read(st, text) = h[Len(text)] /\ Read(st, text) \in Reading
<1> DEFINE g == [i \in 0 .. Len(text) |-> h[i]]
           f == CHOOSE x : x = [i \in 0 .. Len(text) |-> IF i = 0 THEN st ELSE ReadChar(x[i - 1], text[i])]
<1>0. Len(text) \in Nat
  BY Indices DEF Text
<1>1. ASSUME NEW i \in 0 .. Len(text) PROVE h[i] = IF i = 0 THEN st ELSE ReadChar(g[i - 1], text[i])
  <2>1. CASE i = 0
    BY <2>1 DEF Reads
  <2>2. CASE i # 0
    <3>1. i - 1 \in Nat /\ (i - 1) + 1 = i /\ i \in DOMAIN text /\ i - 1 \in 0 .. Len(text)
      BY <1>0, <2>2, Indices DEF Text
    <3>2. h[(i - 1) + 1] = ReadChar(h[i - 1], text[(i - 1) + 1])
      BY <3>1 DEF Reads
    <3> QED BY <2>2, <3>1, <3>2
  <2> QED BY <2>1, <2>2
<1>2. g = [i \in 0 .. Len(text) |-> IF i = 0 THEN st ELSE ReadChar(g[i - 1], text[i])]
  <2>1. DOMAIN g = 0 .. Len(text) /\ g = [i \in 0 .. Len(text) |-> h[i]]
    OBVIOUS
  <2> HIDE DEF g
  <2> QED BY <1>1, <2>1
<1>3. Unfolds(st, text, f)
  <2> HIDE DEF g
  <2>1. f = [i \in 0 .. Len(text) |-> IF i = 0 THEN st ELSE ReadChar(f[i - 1], text[i])]
    BY <1>2
  <2> QED BY <2>1 DEF Unfolds
<1>4. Read(st, text) = f[Len(text)]
  BY DEF Read
<1> HIDE DEF f, g
<1>5. f[Len(text)] = h[Len(text)]
  BY <1>3, ReadUnfold
<1> QED BY <1>0, <1>4, <1>5 DEF Reads

LEMMA ReadType ==
  ASSUME NEW st \in Reading, NEW text \in Text
  PROVE  Read(st, text) \in Reading
  BY ReadsExist, ReadsEnd

LEMMA ReadNothing ==
  ASSUME NEW st \in Reading
  PROVE  Read(st, <<>>) = st
<1>1. PICK t \in Text : t = <<>> /\ Len(t) = 0
  BY EmptySeq DEF Text
<1>2. PICK h : Reads(st, t, h)
  BY ReadsExist
<1>3. Read(st, t) = h[0]
  BY <1>1, <1>2, ReadsEnd
<1> QED BY <1>1, <1>2, <1>3 DEF Reads

LEMMA ReadOne ==
  ASSUME NEW st \in Reading, NEW ch \in Chars
  PROVE  Read(st, <<ch>>) = ReadChar(st, ch)
<1> DEFINE t == <<ch>>
<1>1. t \in Text /\ Len(t) = 1 /\ t[1] = ch /\ 1 \in DOMAIN t
  <2>1. t \in Text
    BY ShortTexts DEF Text
  <2>2. Len(t) = 1 /\ t[1] = ch /\ 1 \in DOMAIN t
    OBVIOUS
  <2> QED BY <2>1, <2>2
<1> HIDE DEF t
<1>2. PICK h : Reads(st, t, h)
  BY <1>1, ReadsExist
<1>3. Read(st, t) = h[1]
  BY <1>1, <1>2, ReadsEnd
<1>4. 0 \in Nat /\ 0 + 1 = 1
  OBVIOUS
<1>5. h[0 + 1] = ReadChar(h[0], t[0 + 1])
  BY <1>1, <1>2, <1>4 DEF Reads
<1> QED BY <1>1, <1>2, <1>3, <1>4, <1>5 DEF Reads, t

(* One text after another. *)
LEMMA ReadBoth ==
  ASSUME NEW st \in Reading, NEW a \in Text, NEW b \in Text
  PROVE  Read(st, a \o b) = Read(Read(st, a), b)
<1>1. PICK ab \in Text : ab = a \o b
  BY ConcatProperties DEF Text
<1>2. /\ Len(a) \in Nat /\ Len(b) \in Nat /\ Len(ab) = Len(a) + Len(b)
      /\ \A i \in Nat : i + 1 \in DOMAIN a => i + 1 \in DOMAIN ab /\ ab[i + 1] = a[i + 1]
      /\ \A i \in Nat : i + 1 \in DOMAIN b =>
           (Len(a) + i) + 1 \in DOMAIN ab /\ ab[(Len(a) + i) + 1] = b[i + 1]
  <2>1. /\ Len(a) \in Nat /\ Len(b) \in Nat /\ Len(ab) = Len(a) + Len(b)
        /\ \A i \in 1 .. Len(a) + Len(b) : ab[i] = IF i <= Len(a) THEN a[i] ELSE b[i - Len(a)]
    BY <1>1, ConcatProperties, LenProperties DEF Text
  <2>2. DOMAIN ab = 1 .. Len(a) + Len(b) /\ DOMAIN a = 1 .. Len(a) /\ DOMAIN b = 1 .. Len(b)
    BY <2>1, LenProperties DEF Text
  <2>3. \A i \in Nat : i + 1 \in DOMAIN a => i + 1 \in DOMAIN ab /\ ab[i + 1] = a[i + 1]
    BY <2>1, <2>2
  <2>4. ASSUME NEW i \in Nat, i + 1 \in DOMAIN b
        PROVE  (Len(a) + i) + 1 \in DOMAIN ab /\ ab[(Len(a) + i) + 1] = b[i + 1]
    <3>1. (Len(a) + i) + 1 \in 1 .. Len(a) + Len(b) /\ ~((Len(a) + i) + 1 <= Len(a))
          /\ ((Len(a) + i) + 1) - Len(a) = i + 1
      BY <2>1, <2>2, <2>4
    <3> QED BY <2>1, <2>2, <3>1
  <2> QED BY <2>1, <2>3, <2>4
<1>3. PICK h : Reads(st, ab, h)
  BY ReadsExist
<1>4. Reads(st, a, h)
  BY <1>2, <1>3 DEF Reads
<1> DEFINE g == [i \in Nat |-> h[Len(a) + i]]
<1>5. g \in [Nat -> Reading] /\ g[0] = h[Len(a)]
  BY <1>2, <1>3 DEF Reads
<1>6. ASSUME NEW i \in Nat, i + 1 \in DOMAIN b PROVE g[i + 1] = ReadChar(g[i], b[i + 1])
  <2>1. (Len(a) + i) + 1 = Len(a) + (i + 1) /\ Len(a) + i \in Nat
    BY <1>2
  <2>2. h[(Len(a) + i) + 1] = ReadChar(h[Len(a) + i], ab[(Len(a) + i) + 1])
    BY <1>2, <1>3, <1>6, <2>1 DEF Reads
  <2>3. ab[(Len(a) + i) + 1] = b[i + 1]
    BY <1>2, <1>6
  <2> QED BY <2>1, <2>2, <2>3
<1>7. g[Len(b)] = h[Len(a) + Len(b)]
  BY <1>2
<1> HIDE DEF g
<1>8. Read(st, a) = h[Len(a)] /\ h[Len(a)] \in Reading
  BY <1>4, ReadsEnd
<1>9. Reads(h[Len(a)], b, g)
  BY <1>5, <1>6 DEF Reads
<1>10. Read(h[Len(a)], b) = g[Len(b)]
  BY <1>8, <1>9, ReadsEnd
<1>11. Read(st, ab) = h[Len(ab)]
  BY <1>3, ReadsEnd
<1> QED BY <1>1, <1>2, <1>7, <1>8, <1>10, <1>11

-----------------------------------------------------------------------------
(* Words, one character after the other.                                   *)

(* What holds of no element, and with a sequence of one more, holds of     *)
(* every sequence.                                                         *)
LEMMA SeqInduction ==
  ASSUME NEW S, NEW T, <<>> \in T, \A s \in Seq(S), x \in S : s \in T => Append(s, x) \in T
  PROVE  \A s \in Seq(S) : s \in T
<1> DEFINE U == {n \in Nat : \A s \in Seq(S) : Len(s) = n => s \in T}
<1>1. 0 \in U
  BY EmptySeq
<1>2. ASSUME NEW n \in Nat, n \in U PROVE n + 1 \in U
  <2> SUFFICES ASSUME NEW s \in Seq(S), Len(s) = n + 1 PROVE s \in T
    OBVIOUS
  <2> DEFINE front == SubSeq(s, 1, n)
  <2>1. s[n + 1] \in S /\ \A i \in 1 .. n : s[i] \in S
    BY ElementOfSeq
  <2>2. front \in Seq(S) /\ Len(front) = n
    BY <2>1, SubSeqProperties
  <2>3. s = Append(front, s[n + 1])
    <3>1. Append(front, s[n + 1]) = front \o <<s[n + 1]>>
      BY <2>1, <2>2, AppendIsConcat
    <3>2. SubSeq(s, 1, n + 1) = Append(SubSeq(s, 1, n), s[n + 1])
      BY SubSeqRecursiveSecond
    <3>3. SubSeq(s, 1, n + 1) = s
      BY SubSeqFull
    <3> QED BY <3>2, <3>3
  <2> HIDE DEF front
  <2>4. front \in T
    BY <1>2, <2>2
  <2> QED BY <2>1, <2>2, <2>3, <2>4
<1> HIDE DEF U
<1>3. \A n \in Nat : n \in U
  BY <1>1, <1>2, Induction
<1>4. ASSUME NEW s \in Seq(S) PROVE s \in T
  <2>1. Len(s) \in Nat
    BY LenProperties
  <2> QED BY <1>3, <2>1 DEF U
<1> QED BY <1>4

(* Inside of a word x, between brackets if d is not zero; and in the space *)
(* before a word, of which b says whether it counts as one.                *)
In(x, d, A) == [isWord |-> TRUE, blank |-> FALSE, word |-> x, depth |-> d, args |-> A]
Gap(A, b)   == [isWord |-> b, blank |-> TRUE, word |-> <<>>, depth |-> 0, args |-> A]

LEMMA StatesAreReadings ==
  ASSUME NEW A \in Seq(Text)
  PROVE  /\ \A x \in Text, d \in Int : In(x, d, A) \in Reading
         /\ \A b \in BOOLEAN : Gap(A, b) \in Reading
  BY EmptySeq DEF In, Gap, Reading, Text

LEMMA Characters == Opened # Closed /\ Space # Opened /\ Space # Closed /\ Space # Dash /\ Dash # Opened /\ Dash # Closed
  BY DEF Opened, Closed, Space, Dash

LEMMA ReadCharInside ==
  ASSUME NEW A, NEW x, NEW d \in Int, NEW ch, ch # Space \/ d # 0
  PROVE  ReadChar(In(x, d, A), ch) = In(Append(x, ch), Depth(d, ch), A)
  BY DEF ReadChar, In

LEMMA ReadCharSpace ==
  ASSUME NEW A
  PROVE  /\ \A x : ReadChar(In(x, 0, A), Space) = Gap(Append(A, x), FALSE)
         /\ \A b \in BOOLEAN : ReadChar(Gap(A, b), Space) = Gap(A, TRUE)
<1>1. ASSUME NEW x PROVE ReadChar(In(x, 0, A), Space) = Gap(Append(A, x), FALSE)
  BY DEF ReadChar, In, Gap
<1>2. ASSUME NEW b \in BOOLEAN PROVE ReadChar(Gap(A, b), Space) = Gap(A, TRUE)
  BY DEF ReadChar, Gap
<1> QED BY <1>1, <1>2

LEMMA ReadCharFirst ==
  ASSUME NEW A, NEW b \in BOOLEAN, NEW ch, ch # Space
  PROVE  ReadChar(Gap(A, b), ch) = ReadChar(In(<<>>, 0, A), ch)
<1>1. ReadChar(Gap(A, b), ch) = In(Append(<<>>, ch), Depth(0, ch), A)
  BY DEF ReadChar, In, Gap
<1>2. 0 \in Int
  OBVIOUS
<1> QED BY <1>1, <1>2, ReadCharInside

LEMMA ReadAppend ==
  ASSUME NEW st \in Reading, NEW t \in Text, NEW ch \in Chars
  PROVE  Append(t, ch) \in Text /\ Read(st, Append(t, ch)) = ReadChar(Read(st, t), ch)
<1> DEFINE u == <<ch>>
<1>1. u \in Text /\ Append(t, ch) = t \o u /\ Append(t, ch) \in Text
  BY ShortTexts, AppendIsConcat, AppendProperties DEF Text
<1>2. Read(st, t) \in Reading
  BY ReadType
<1>3. Read(Read(st, t), u) = ReadChar(Read(st, t), ch)
  BY <1>2, ReadOne
<1> HIDE DEF u
<1>4. Read(st, t \o u) = Read(Read(st, t), u)
  BY <1>1, ReadBoth
<1> QED BY <1>1, <1>3, <1>4

(* Texts without brackets. *)
Bare == {w \in Text : ~Has(w, Opened) /\ ~Has(w, Closed)}

LEMMA HasAppend ==
  ASSUME NEW t \in Text, NEW ch \in Chars, NEW c
  PROVE  Has(Append(t, ch), c) <=> Has(t, c) \/ ch = c
<1>1. /\ DOMAIN Append(t, ch) = 1 .. Len(t) + 1 /\ DOMAIN t = 1 .. Len(t) /\ Len(t) \in Nat
      /\ Append(t, ch)[Len(t) + 1] = ch /\ \A i \in 1 .. Len(t) : Append(t, ch)[i] = t[i]
  BY AppendProperties, LenProperties DEF Text
<1>2. Len(t) + 1 \in 1 .. Len(t) + 1 /\ \A i \in 1 .. Len(t) + 1 : i \in 1 .. Len(t) \/ i = Len(t) + 1
  BY <1>1
<1>3. \A i \in 1 .. Len(t) : i \in 1 .. Len(t) + 1
  BY <1>1
<1> DEFINE ta == Append(t, ch)
<1> HIDE DEF ta
<1>4. Has(ta, c) => Has(t, c) \/ ch = c
  BY <1>1, <1>2 DEF Has, ta
<1>5. Has(t, c) \/ ch = c => Has(ta, c)
  BY <1>1, <1>2, <1>3 DEF Has, ta
<1> QED BY <1>4, <1>5 DEF ta

(* Inside of a word a text without brackets is one word, unless there is a *)
(* space outside of brackets.                                              *)
LEMMA ReadInside ==
  ASSUME NEW A \in Seq(Text), NEW x \in Text, NEW d \in Int, NEW t \in Bare, d # 0 \/ ~Has(t, Space)
  PROVE  Read(In(x, d, A), t) = In(x \o t, d, A)
<1> DEFINE T == {s \in Text : s \in Bare /\ (d # 0 \/ ~Has(s, Space)) => Read(In(x, d, A), s) = In(x \o s, d, A)}
<1>0. In(x, d, A) \in Reading
  BY StatesAreReadings
<1>1. <<>> \in T
  <2>1. <<>> \in Text /\ x \o <<>> = x
    BY EmptySeq, ConcatEmptySeq DEF Text
  <2> QED BY <1>0, <2>1, ReadNothing
<1>2. ASSUME NEW s \in Text, NEW ch \in Chars, s \in T PROVE Append(s, ch) \in T
  <2>1. Append(s, ch) \in Text
    BY AppendProperties DEF Text
  <2> SUFFICES ASSUME Append(s, ch) \in Bare, d # 0 \/ ~Has(Append(s, ch), Space)
               PROVE  Read(In(x, d, A), Append(s, ch)) = In(x \o Append(s, ch), d, A)
    BY <2>1
  <2>2. s \in Bare /\ ch # Opened /\ ch # Closed /\ (d # 0 \/ (~Has(s, Space) /\ ch # Space))
    BY HasAppend DEF Bare
  <2>3. Read(In(x, d, A), Append(s, ch)) = ReadChar(In(x \o s, d, A), ch)
    BY <1>0, <1>2, <2>2, ReadAppend
  <2>4. Depth(d, ch) = d
    BY <2>2 DEF Depth
  <2>5. ReadChar(In(x \o s, d, A), ch) = In(Append(x \o s, ch), d, A)
    BY <2>2, <2>4, ReadCharInside
  <2>6. Append(x \o s, ch) = x \o Append(s, ch)
    OBVIOUS
  <2> QED BY <2>3, <2>5, <2>6
<1> HIDE DEF T
<1>3. \A s \in Seq(Chars) : s \in T
  BY <1>1, <1>2, SeqInduction DEF Text
<1>4. t \in T
  BY <1>3 DEF Bare, Text
<1> QED BY <1>4 DEF T, Bare

-----------------------------------------------------------------------------
(* What is read as one word.                                               *)

LEMMA Concatenation ==
  ASSUME NEW S, NEW a \in Seq(S), NEW b \in Seq(S)
  PROVE  /\ a \o b \in Seq(S) /\ Len(a \o b) = Len(a) + Len(b) /\ Len(a) \in Nat /\ Len(b) \in Nat
         /\ \A i \in 1 .. Len(a) + Len(b) : (a \o b)[i] = IF i <= Len(a) THEN a[i] ELSE b[i - Len(a)]
<1>1. Len(a) \in Nat /\ Len(b) \in Nat
  BY LenProperties
<1>2. a \o b \in Seq(S) /\ Len(a \o b) = Len(a) + Len(b)
  BY ConcatProperties
<1>3. \A i \in 1 .. Len(a) + Len(b) : (a \o b)[i] = IF i <= Len(a) THEN a[i] ELSE b[i - Len(a)]
  BY ConcatProperties
<1> QED BY <1>1, <1>2, <1>3

(* l is a, and b behind it. *)
Glued(S, l, a, b) ==
  /\ l \in Seq(S) /\ Len(l) = Len(a) + Len(b) /\ Len(a) \in Nat /\ Len(b) \in Nat
  /\ \A i \in 1 .. Len(a) : l[i] = a[i]
  /\ \A i \in 1 .. Len(b) : l[Len(a) + i] = b[i]

LEMMA ConcatIsGlued ==
  ASSUME NEW S, NEW a \in Seq(S), NEW b \in Seq(S)
  PROVE  Glued(S, a \o b, a, b)
<1> DEFINE ab == a \o b
           m  == Len(a)
           n  == Len(b)
<1>1. /\ m \in Nat /\ n \in Nat /\ \A i \in 1 .. m + n : ab[i] = IF i <= m THEN a[i] ELSE b[i - m]
      /\ ab \in Seq(S) /\ Len(ab) = m + n
  BY Concatenation
<1> HIDE DEF ab, m, n
<1>2. ASSUME NEW i \in 1 .. m PROVE ab[i] = a[i]
  <2>1. i \in 1 .. m + n /\ i <= m
    BY <1>1
  <2> QED BY <1>1, <2>1
<1>3. ASSUME NEW i \in 1 .. n PROVE ab[m + i] = b[i]
  <2>1. m + i \in 1 .. m + n /\ ~(m + i <= m) /\ (m + i) - m = i
    BY <1>1
  <2> QED BY <1>1, <2>1
<1> QED BY <1>1, <1>2, <1>3 DEF ab, m, n, Glued

(* Read as the end of whatever word it is part of. *)
Solid(t) ==
  t \in Text /\ \A A \in Seq(Text), x \in Text : Read(In(x, 0, A), t) = In(x \o t, 0, A)

LEMMA SolidBare ==
  ASSUME NEW w \in Bare, ~Has(w, Space) PROVE Solid(w)
<1>1. 0 \in Int /\ w \in Text
  BY DEF Bare
<1> QED BY <1>1, ReadInside DEF Solid

LEMMA SolidBracketed ==
  ASSUME NEW w \in Bare PROVE Solid(<<Opened>> \o w \o <<Closed>>)
<1>0. w \in Text /\ Opened \in Chars /\ Closed \in Chars
  BY WireConstants DEF Bare
<1> DEFINE o == <<Opened>>
           c == <<Closed>>
<1>1. o \in Text /\ c \in Text
  BY <1>0, ShortTexts DEF Text
<1>2. o \o w \in Text /\ o \o w \o c \in Text
  BY <1>0, <1>1, ConcatProperties DEF Text
<1>3. ASSUME NEW A \in Seq(Text), NEW x \in Text
      PROVE  Read(In(x, 0, A), o \o w \o c) = In(x \o (o \o w \o c), 0, A)
  <2>1. /\ In(x, 0, A) \in Reading /\ x \o o \in Text /\ (x \o o) \o w \in Text
        /\ In(x \o o, 1, A) \in Reading /\ In((x \o o) \o w, 1, A) \in Reading
    <3>1. x \o o \in Text
      BY <1>1, ConcatProperties DEF Text
    <3>2. (x \o o) \o w \in Text
      BY <1>0, <3>1, ConcatProperties DEF Text
    <3>3. 0 \in Int /\ 1 \in Int
      OBVIOUS
    <3> QED BY <3>1, <3>2, <3>3, StatesAreReadings
  <2>2. Read(In(x, 0, A), o) = In(x \o o, 1, A)
    <3>1. Depth(0, Opened) = 1 /\ Opened # Space
      BY Characters DEF Depth
    <3>2. ReadChar(In(x, 0, A), Opened) = In(Append(x, Opened), 1, A)
      BY <3>1, ReadCharInside
    <3>3. Append(x, Opened) = x \o o
      OBVIOUS
    <3> QED BY <1>0, <2>1, <3>2, <3>3, ReadOne
  <2>3. Read(In(x \o o, 1, A), w) = In((x \o o) \o w, 1, A)
    BY <2>1, ReadInside
  <2>4. Read(In((x \o o) \o w, 1, A), c) = In(((x \o o) \o w) \o c, 0, A)
    <3>1. Depth(1, Closed) = 0 /\ Closed # Space
      BY Characters DEF Depth
    <3>2. ReadChar(In((x \o o) \o w, 1, A), Closed) = In(Append((x \o o) \o w, Closed), 0, A)
      BY <3>1, ReadCharInside
    <3>3. Append((x \o o) \o w, Closed) = ((x \o o) \o w) \o c
      BY <2>1 DEF Text
    <3> QED BY <1>0, <2>1, <3>2, <3>3, ReadOne
  <2> HIDE DEF o, c
  <2>5. ((x \o o) \o w) \o c = x \o (o \o w \o c)
    <3>1. Chain(Chain(Chain(x, o), w), c) = Chain(x, Chain(Chain(o, w), c))
      BY <1>0, <1>1, ChainOfWord DEF Text
    <3> QED BY <3>1 DEF Chain
  <2>6. Read(In(x, 0, A), o \o w) = Read(In(x \o o, 1, A), w)
    BY <1>0, <1>1, <2>1, <2>2, ReadBoth
  <2>7. Read(In(x, 0, A), (o \o w) \o c) = Read(Read(In(x, 0, A), o \o w), c)
    BY <1>1, <1>2, <2>1, ReadBoth
  <2> QED BY <2>3, <2>4, <2>5, <2>6, <2>7
<1> QED BY <1>2, <1>3 DEF Solid

LEMMA SolidBoth ==
  ASSUME NEW a, NEW b, Solid(a), Solid(b) PROVE Solid(a \o b)
<1>1. a \in Text /\ b \in Text /\ a \o b \in Text
  BY ConcatProperties DEF Solid, Text
<1>2. ASSUME NEW A \in Seq(Text), NEW x \in Text PROVE Read(In(x, 0, A), a \o b) = In(x \o (a \o b), 0, A)
  <2>1. x \o a \in Text /\ In(x, 0, A) \in Reading
    <3>1. x \o a \in Text
      BY <1>1, ConcatProperties DEF Text
    <3>2. 0 \in Int
      OBVIOUS
    <3> QED BY <3>1, <3>2, StatesAreReadings
  <2>2. Read(In(x, 0, A), a) = In(x \o a, 0, A) /\ Read(In(x \o a, 0, A), b) = In((x \o a) \o b, 0, A)
    BY <2>1 DEF Solid
  <2>3. (x \o a) \o b = x \o (a \o b)
    OBVIOUS
  <2> QED BY <1>1, <2>1, <2>2, <2>3, ReadBoth
<1> QED BY <1>1, <1>2 DEF Solid

(* Solid and visible. *)
Units == {u \in Text : Solid(u) /\ u # <<>> /\ u[1] # Space}

LEMMA UnitStarts ==
  ASSUME NEW u \in Units, NEW A \in Seq(Text), NEW b \in BOOLEAN
  PROVE  Read(Gap(A, b), u) = In(u, 0, A)
<1>1. u \in Text /\ u # <<>> /\ u[1] # Space /\ Solid(u)
  BY DEF Units
<1>2. u[1] \in Chars /\ Tail(u) \in Text
  BY <1>1, HeadTailProperties, EmptySeq DEF Text
<1>3. <<>> \in Text /\ In(<<>>, 0, A) \in Reading /\ Gap(A, b) \in Reading
  <2>1. <<>> \in Text /\ 0 \in Int
    BY EmptySeq DEF Text
  <2> QED BY <2>1, StatesAreReadings
<1> DEFINE f == <<u[1]>>
<1>4. f \in Text /\ u = f \o Tail(u)
  <2>1. f \in Text
    BY <1>2, ShortTexts DEF Text
  <2>2. u = f \o Tail(u)
    BY <1>1 DEF Text
  <2> QED BY <2>1, <2>2
<1>5. Read(Gap(A, b), f) = Read(In(<<>>, 0, A), f)
  <2>1. Read(Gap(A, b), f) = ReadChar(Gap(A, b), u[1])
    BY <1>2, <1>3, ReadOne
  <2>2. Read(In(<<>>, 0, A), f) = ReadChar(In(<<>>, 0, A), u[1])
    BY <1>2, <1>3, ReadOne
  <2> QED BY <1>1, <2>1, <2>2, ReadCharFirst
<1> HIDE DEF f
<1>6. Read(Gap(A, b), f \o Tail(u)) = Read(In(<<>>, 0, A), f \o Tail(u))
  BY <1>2, <1>3, <1>4, <1>5, ReadBoth
<1>7. Read(In(<<>>, 0, A), u) = In(<<>> \o u, 0, A)
  BY <1>1, <1>3 DEF Solid
<1>8. <<>> \o u = u
  BY <1>1, ConcatEmptySeq DEF Text
<1> QED BY <1>4, <1>6, <1>7, <1>8

Wrapped(w) == <<Opened>> \o w \o <<Closed>>

LEMMA WrappedStarts ==
  ASSUME NEW w \in Text
  PROVE  /\ Wrapped(w) \in Text /\ Len(Wrapped(w)) = Len(w) + 2
         /\ Wrapped(w)[1] = Opened /\ Wrapped(w)[Len(w) + 2] = Closed
         /\ \A i \in 1 .. Len(w) : Wrapped(w)[i + 1] = w[i]
<1> DEFINE o == <<Opened>>
           c == <<Closed>>
<1>1. o \in Text /\ c \in Text /\ Len(o) = 1 /\ Len(c) = 1 /\ o[1] = Opened /\ c[1] = Closed
  <2>1. o \in Text /\ c \in Text
    BY ShortTexts, WireConstants DEF Text
  <2>2. Len(o) = 1 /\ Len(c) = 1 /\ o[1] = Opened /\ c[1] = Closed
    OBVIOUS
  <2> QED BY <2>1, <2>2
<1> HIDE DEF o, c
<1>2. /\ o \o w \in Text /\ Len(o \o w) = 1 + Len(w) /\ Len(w) \in Nat
      /\ \A i \in 1 .. 1 + Len(w) : (o \o w)[i] = IF i <= 1 THEN o[i] ELSE w[i - 1]
  <2>1. /\ o \o w \in Text /\ Len(o \o w) = Len(o) + Len(w) /\ Len(w) \in Nat
        /\ \A i \in 1 .. Len(o) + Len(w) : (o \o w)[i] = IF i <= Len(o) THEN o[i] ELSE w[i - Len(o)]
    BY <1>1, Concatenation DEF Text
  <2> QED BY <1>1, <2>1
<1>3. /\ (o \o w) \o c \in Text /\ Len((o \o w) \o c) = 1 + Len(w) + 1
      /\ \A i \in 1 .. 1 + Len(w) + 1 : ((o \o w) \o c)[i] =
           IF i <= 1 + Len(w) THEN (o \o w)[i] ELSE c[i - (1 + Len(w))]
  BY <1>1, <1>2, ConcatProperties DEF Text
<1>4. Wrapped(w) = (o \o w) \o c
  BY DEF Wrapped, o, c
<1> DEFINE ow == o \o w
           owc == ow \o c
<1>5. /\ Len(w) \in Nat /\ Len(owc) = Len(w) + 2
      /\ \A i \in 1 .. Len(w) + 2 : owc[i] = IF i <= 1 + Len(w) THEN ow[i] ELSE c[i - (1 + Len(w))]
      /\ \A i \in 1 .. 1 + Len(w) : ow[i] = IF i <= 1 THEN o[i] ELSE w[i - 1]
      /\ owc \in Text /\ Wrapped(w) = owc
  <2>1. 1 + Len(w) + 1 = Len(w) + 2
    BY <1>2
  <2> QED BY <1>2, <1>3, <1>4, <2>1
<1> HIDE DEF ow, owc
<1>6. owc[1] = Opened
  <2>1. 1 \in 1 .. Len(w) + 2 /\ 1 \in 1 .. 1 + Len(w) /\ 1 <= 1 + Len(w)
    BY <1>5
  <2> QED BY <1>1, <1>5, <2>1
<1>7. owc[Len(w) + 2] = Closed
  <2>1. Len(w) + 2 \in 1 .. Len(w) + 2 /\ ~(Len(w) + 2 <= 1 + Len(w)) /\ (Len(w) + 2) - (1 + Len(w)) = 1
    BY <1>5
  <2> QED BY <1>1, <1>5, <2>1
<1>8. ASSUME NEW i \in 1 .. Len(w) PROVE owc[i + 1] = w[i]
  <2>1. i + 1 \in 1 .. Len(w) + 2 /\ i + 1 \in 1 .. 1 + Len(w) /\ i + 1 <= 1 + Len(w) /\ ~(i + 1 <= 1) /\ (i + 1) - 1 = i
    BY <1>5
  <2> QED BY <1>5, <2>1
<1> QED BY <1>5, <1>6, <1>7, <1>8

LEMMA WrappedIsUnit ==
  ASSUME NEW w \in Bare PROVE Wrapped(w) \in Units /\ ~IsOption(Wrapped(w))
<1>1. w \in Text /\ Len(w) \in Nat
  BY LenProperties DEF Bare, Text
<1>2. Wrapped(w) \in Text /\ Wrapped(w)[1] = Opened /\ Len(Wrapped(w)) # 0
  BY <1>1, WrappedStarts
<1>3. Wrapped(w) # <<>>
  BY <1>2, EmptySeq DEF Text
<1>4. Solid(Wrapped(w))
  BY SolidBracketed DEF Wrapped
<1> QED BY <1>2, <1>3, <1>4, Characters DEF Units, IsOption

LEMMA PlainIsUnit ==
  ASSUME NEW w \in Bare, ~Has(w, Space), w # <<>> PROVE w \in Units
<1>1. w \in Text /\ 1 \in DOMAIN w
  BY EmptySeq, Indices DEF Bare, Text
<1>2. w[1] # Space
  BY <1>1 DEF Has
<1> QED BY <1>1, <1>2, SolidBare DEF Units

(* Behind a dash, everything is an option. *)
LEMMA DashedIsUnit ==
  ASSUME NEW w \in Text, Solid(w)
  PROVE  <<Dash>> \o w \in Units /\ IsOption(<<Dash>> \o w) /\ Tail(<<Dash>> \o w) = w
<1> DEFINE d == <<Dash>>
<1>1. d \in Text /\ Len(d) = 1 /\ d[1] = Dash /\ DOMAIN d = {1}
  <2>1. d \in Text
    BY ShortTexts, WireConstants DEF Text
  <2>2. Len(d) = 1 /\ d[1] = Dash /\ DOMAIN d = {1}
    OBVIOUS
  <2> QED BY <2>1, <2>2
<1>2. Tail(d \o w) = w
  BY DEF Text
<1> HIDE DEF d
<1>3. d \in Bare /\ ~Has(d, Space)
  BY <1>1, Characters DEF Bare, Has
<1>4. Solid(d \o w)
  BY <1>3, SolidBare, SolidBoth
<1>5. d \o w \in Text /\ Len(d \o w) = 1 + Len(w) /\ (d \o w)[1] = Dash /\ Len(w) \in Nat
  <2> DEFINE l == d \o w
  <2>1. Glued(Chars, l, d, w)
    BY <1>1, ConcatIsGlued DEF Text
  <2> HIDE DEF l
  <2>2. 1 \in 1 .. Len(d)
    BY <1>1
  <2>3. l \in Text /\ Len(l) = 1 + Len(w) /\ l[1] = Dash /\ Len(w) \in Nat
    BY <1>1, <2>1, <2>2 DEF Glued, Text
  <2> QED BY <2>3 DEF l
<1>6. d \o w # <<>>
  <2>1. Len(d \o w) # 0
    BY <1>5
  <2> QED BY <1>5, <2>1, EmptySeq DEF Text
<1> QED BY <1>2, <1>4, <1>5, <1>6, Characters DEF Units, IsOption, d

-----------------------------------------------------------------------------
(* Words one after the other.                                              *)

(* Append, which the provers do not look into. *)
Longer(s, x) == Append(s, x)

LEMMA LongerBehind ==
  ASSUME NEW S, NEW a \in Seq(S), NEW b \in Seq(S), NEW x \in S
  PROVE  Longer(a \o b, x) = a \o Longer(b, x)
  BY DEF Longer

LEMMA Twice ==
  ASSUME NEW S, NEW c \in S
  PROVE  <<c>> \o <<c>> = <<c, c>>
<1> DEFINE s == <<c>>
           t == <<c, c>>
<1>1. s \in Seq(S) /\ t \in Seq(S) /\ Len(s) = 1 /\ Len(t) = 2 /\ s[1] = c /\ t[1] = c /\ t[2] = c
  OBVIOUS
<1> HIDE DEF s, t
<1> DEFINE ss == s \o s
<1>2. /\ Len(ss) = 2 /\ ss \in Seq(S)
      /\ \A i \in 1 .. Len(s) + Len(s) : ss[i] = IF i <= Len(s) THEN s[i] ELSE s[i - Len(s)]
  BY <1>1, Concatenation
<1> HIDE DEF ss
<1>3. ss[1] = c /\ ss[2] = c
  <2>1. 1 \in 1 .. Len(s) + Len(s) /\ 1 <= Len(s) /\ 2 \in 1 .. Len(s) + Len(s) /\ ~(2 <= Len(s)) /\ 2 - Len(s) = 1
    BY <1>1
  <2>2. ss[1] = s[1] /\ ss[2] = s[1]
    BY <1>2, <2>1
  <2> QED BY <1>1, <2>2
<1>4. \A i \in 1 .. Len(ss) : ss[i] = t[i]
  BY <1>1, <1>2, <1>3
<1> QED BY <1>1, <1>2, <1>4, SeqEqual DEF s, t, ss

Gaps == {<<Space>>, <<Space, Space>>}

LEMMA GapsAreTexts == Gaps \subseteq Text
<1>1. <<Space>> \in Text /\ <<Space, Space>> \in Text
  BY ShortTexts, WireConstants DEF Text
<1> QED BY <1>1 DEF Gaps

LEMMA ReadGap ==
  ASSUME NEW gap \in Gaps, NEW A \in Seq(Text), NEW x \in Text
  PROVE  \E b \in BOOLEAN : Read(In(x, 0, A), gap) = Gap(Append(A, x), b)
<1>1. /\ In(x, 0, A) \in Reading /\ Append(A, x) \in Seq(Text)
      /\ Gap(Append(A, x), FALSE) \in Reading /\ Space \in Chars
  <2>1. Append(A, x) \in Seq(Text) /\ 0 \in Int
    BY AppendProperties
  <2> QED BY <2>1, StatesAreReadings, WireConstants
<1> DEFINE s == <<Space>>
<1>2. Read(In(x, 0, A), s) = Gap(Append(A, x), FALSE)
  BY <1>1, ReadOne, ReadCharSpace
<1>3. Read(Gap(Append(A, x), FALSE), s) = Gap(Append(A, x), TRUE)
  BY <1>1, ReadOne, ReadCharSpace
<1>4. s \in Text /\ s \o s = <<Space, Space>>
  <2>1. s \in Text
    BY GapsAreTexts DEF Gaps
  <2>2. s \o s = <<Space, Space>>
    BY WireConstants, Twice
  <2> QED BY <2>1, <2>2
<1>5. Read(In(x, 0, A), s \o s) = Read(Read(In(x, 0, A), s), s)
  <2> HIDE DEF s
  <2> QED BY <1>1, <1>4, ReadBoth
<1> HIDE DEF s
<1>6. CASE gap = s
  BY <1>2, <1>6
<1>7. CASE gap = s \o s
  BY <1>2, <1>3, <1>5, <1>7
<1>8. gap = s \/ gap = s \o s
  BY <1>4 DEF Gaps, s
<1> QED BY <1>6, <1>7, <1>8

(* A state in the last of the words ws, with the others read. *)
Done(st, ws) ==
  \E A \in Seq(Text), x \in Text : st = In(x, 0, A) /\ ws = Append(A, x)

LEMMA DoneType ==
  ASSUME NEW st, NEW ws, Done(st, ws)
  PROVE  st \in Reading /\ ws \in Seq(Text) /\ ws # <<>>
<1>1. PICK A \in Seq(Text), x \in Text : st = In(x, 0, A) /\ ws = Append(A, x)
  BY DEF Done
<1>2. Append(A, x) \in Seq(Text) /\ Append(A, x) # <<>> /\ 0 \in Int
  BY AppendProperties
<1> QED BY <1>1, <1>2, StatesAreReadings

LEMMA NextWord ==
  ASSUME NEW st, NEW ws, Done(st, ws), NEW gap \in Gaps, NEW u \in Units
  PROVE  gap \o u \in Text /\ Done(Read(st, gap \o u), Append(ws, u))
<1>1. PICK A \in Seq(Text), x \in Text : st = In(x, 0, A) /\ ws = Append(A, x)
  BY DEF Done
<1>2. u \in Text /\ gap \in Text
  BY GapsAreTexts DEF Units
<1>3. gap \o u \in Text
  BY <1>2, ConcatProperties DEF Text
<1>4. PICK b \in BOOLEAN : Read(st, gap) = Gap(ws, b)
  BY <1>1, ReadGap
<1>5. st \in Reading /\ ws \in Seq(Text)
  BY DoneType
<1>6. Read(st, gap \o u) = Read(Gap(ws, b), u)
  BY <1>2, <1>4, <1>5, ReadBoth
<1>7. Read(st, gap \o u) = In(u, 0, ws)
  BY <1>5, <1>6, UnitStarts
<1> QED BY <1>2, <1>3, <1>5, <1>7 DEF Done

Spaced(gap, us) == [i \in DOMAIN us |-> gap \o us[i]]

LEMMA SpacedAppend ==
  ASSUME NEW gap \in Text, NEW us \in Seq(Text), NEW u \in Text
  PROVE  /\ Spaced(gap, us) \in Seq(Text) /\ gap \o u \in Text
         /\ Spaced(gap, Append(us, u)) = Append(Spaced(gap, us), gap \o u)
<1>1. /\ DOMAIN us = 1 .. Len(us) /\ Len(us) \in Nat /\ DOMAIN Append(us, u) = 1 .. Len(us) + 1
      /\ Append(us, u)[Len(us) + 1] = u /\ \A i \in 1 .. Len(us) : Append(us, u)[i] = us[i]
      /\ \A i \in 1 .. Len(us) : us[i] \in Text
  BY LenProperties, AppendProperties, ElementOfSeq
<1>2. gap \o u \in Text /\ \A i \in 1 .. Len(us) : gap \o us[i] \in Text
  BY <1>1, ConcatProperties DEF Text
<1>3. Spaced(gap, us) \in Seq(Text) /\ Len(Spaced(gap, us)) = Len(us)
  <2>1. Spaced(gap, us) = [i \in 1 .. Len(us) |-> gap \o us[i]]
    BY <1>1 DEF Spaced
  <2>2. Spaced(gap, us) \in [1 .. Len(us) -> Text]
    BY <1>2, <2>1
  <2>3. Spaced(gap, us) \in Seq(Text) /\ DOMAIN Spaced(gap, us) = 1 .. Len(us)
    BY <1>1, <2>2
  <2> QED BY <1>1, <2>3, LenProperties
<1> DEFINE v == Append(us, u)
           l == Spaced(gap, v)
           r == Append(Spaced(gap, us), gap \o u)
<1>4. /\ DOMAIN r = 1 .. Len(us) + 1 /\ r[Len(us) + 1] = gap \o u
      /\ \A i \in 1 .. Len(us) : r[i] = Spaced(gap, us)[i]
  BY <1>2, <1>3, AppendProperties
<1>5. DOMAIN l = 1 .. Len(us) + 1 /\ \A i \in 1 .. Len(us) + 1 : l[i] = gap \o v[i]
  BY <1>1 DEF Spaced
<1>6. \A i \in 1 .. Len(us) : Spaced(gap, us)[i] = gap \o us[i]
  BY <1>1 DEF Spaced
<1>7. \A i \in 1 .. Len(us) + 1 : l[i] = r[i]
  <2> SUFFICES ASSUME NEW i \in 1 .. Len(us) + 1 PROVE l[i] = r[i]
    OBVIOUS
  <2>1. CASE i = Len(us) + 1
    BY <1>1, <1>4, <1>5, <2>1
  <2>2. CASE i # Len(us) + 1
    <3>1. i \in 1 .. Len(us)
      BY <1>1, <2>2
    <3> QED BY <1>1, <1>4, <1>5, <1>6, <3>1
  <2> QED BY <2>1, <2>2
<1>8. l = [i \in DOMAIN l |-> l[i]] /\ r = [i \in DOMAIN r |-> r[i]]
  <2>1. l = [i \in DOMAIN l |-> l[i]]
    BY DEF Spaced
  <2>2. r \in Seq(Text)
    BY <1>2, <1>3, AppendProperties
  <2>3. r = [i \in DOMAIN r |-> r[i]]
    BY <2>2, LenProperties
  <2> QED BY <2>1, <2>3
<1>9. l = r
  <2> HIDE DEF l, r
  <2> QED BY <1>4, <1>5, <1>7, <1>8
<1> QED BY <1>2, <1>3, <1>9

Line(gap, us) == SequenceOps!FlattenSeq(Spaced(gap, us))

LEMMA LineAppend ==
  ASSUME NEW gap \in Text, NEW us \in Seq(Text), NEW u \in Text
  PROVE  Line(gap, us) \in Text /\ Line(gap, Append(us, u)) = Line(gap, us) \o (gap \o u)
<1>1. /\ Spaced(gap, us) \in Seq(Text) /\ gap \o u \in Text
      /\ Spaced(gap, Append(us, u)) = Append(Spaced(gap, us), gap \o u)
  BY SpacedAppend
<1> QED BY <1>1, FlattenAppend DEF Line, Text

LEMMA LineEmpty == ASSUME NEW gap PROVE Line(gap, <<>>) = <<>>
<1>1. Spaced(gap, <<>>) = <<>>
  BY DEF Spaced
<1> QED BY <1>1, FlattenEmpty DEF Line

LEMMA LineIsText ==
  ASSUME NEW gap \in Text, NEW us \in Seq(Text) PROVE Line(gap, us) \in Text
<1>1. PICK u \in Text : TRUE
  BY EmptySeq DEF Text
<1> QED BY LineAppend

LEMMA DoneWords ==
  ASSUME NEW st, NEW ws, Done(st, ws), NEW gap \in Gaps, NEW us \in Seq(Units)
  PROVE  Done(Read(st, Line(gap, us)), ws \o us)
<1> DEFINE T == {vs \in Seq(Units) : Done(Read(st, Line(gap, vs)), ws \o vs)}
<1>0. st \in Reading /\ ws \in Seq(Text) /\ gap \in Text /\ Units \subseteq Text
  BY DoneType, GapsAreTexts DEF Units
<1>1. <<>> \in T
  <2>1. <<>> \in Seq(Units) /\ ws \o <<>> = ws
    BY <1>0, EmptySeq, ConcatEmptySeq
  <2>2. Read(st, Line(gap, <<>>)) = st
    BY <1>0, LineEmpty, ReadNothing
  <2> QED BY <2>1, <2>2
<1>2. ASSUME NEW vs \in Seq(Units), NEW u \in Units, vs \in T PROVE Append(vs, u) \in T
  <2>1. vs \in Seq(Text) /\ u \in Text /\ Append(vs, u) \in Seq(Units)
    BY <1>0, SeqMonotonic, AppendProperties
  <2>2. /\ Line(gap, vs) \in Text /\ gap \o u \in Text
        /\ Line(gap, Append(vs, u)) = Line(gap, vs) \o (gap \o u)
    BY <1>0, <2>1, LineAppend, ConcatProperties DEF Text
  <2>3. Read(st, Line(gap, Append(vs, u))) = Read(Read(st, Line(gap, vs)), gap \o u)
    BY <1>0, <2>2, ReadBoth
  <2>4. Done(Read(Read(st, Line(gap, vs)), gap \o u), Append(ws \o vs, u))
    BY <1>2, NextWord
  <2>5. Append(ws \o vs, u) = ws \o Append(vs, u)
    <3>1. Longer(ws \o vs, u) = ws \o Longer(vs, u)
      BY <1>0, <2>1, LongerBehind
    <3> QED BY <3>1 DEF Longer
  <2> QED BY <2>1, <2>3, <2>4, <2>5
<1> HIDE DEF T
<1>3. us \in T
  BY <1>1, <1>2, SeqInduction
<1> QED BY <1>3 DEF T

LEMMA FirstWord ==
  ASSUME NEW u \in Units PROVE Done(Read(Before, u), <<u>>)
<1>1. Before = Gap(<<>>, FALSE) /\ <<>> \in Seq(Text)
  BY EmptySeq DEF Before, Gap
<1>2. Read(Before, u) = In(u, 0, <<>>)
  BY <1>1, UnitStarts
<1>3. u \in Text /\ Append(<<>>, u) = <<u>>
  BY DEF Units
<1> QED BY <1>1, <1>2, <1>3 DEF Done

LEMMA SplitOfDone ==
  ASSUME NEW text, NEW ws, Done(Read(Before, text), ws) PROVE SplitQuery(text) = ws
<1>1. PICK A \in Seq(Text), x \in Text : Read(Before, text) = In(x, 0, A) /\ ws = Append(A, x)
  BY DEF Done
<1>2. In(x, 0, A).isWord /\ In(x, 0, A).args = A /\ In(x, 0, A).word = x
  BY DEF In
<1>3. SplitQuery(text) = IF Read(Before, text).isWord THEN Append(Read(Before, text).args, Read(Before, text).word)
                         ELSE Read(Before, text).args
  BY DEF SplitQuery
<1> QED BY <1>1, <1>2, <1>3

-----------------------------------------------------------------------------
(* What the words mean.                                                    *)

(* Where ch is for the last time; 0 if nowhere. *)
LastPlace(s, ch) ==
  LET I == {i \in 1 .. Len(s) : s[i] = ch} IN IF I # {} THEN SequenceOps!Max(I) ELSE 0

LEMMA LastOf ==
  ASSUME NEW S, NEW s \in Seq(S), NEW ch, NEW k \in DOMAIN s, s[k] = ch,
         \A i \in DOMAIN s : k < i => s[i] # ch
  PROVE  LastPlace(s, ch) = k
<1> DEFINE I == {i \in 1 .. Len(s) : s[i] = ch}
<1>1. k \in I /\ (\A i \in I : i <= k) /\ I \subseteq Nat
  BY Indices
<1>2. LastPlace(s, ch) = IF I # {} THEN SequenceOps!Max(I) ELSE 0
  BY DEF LastPlace
<1>3. SequenceOps!Max(I) = k
  <2> HIDE DEF I
  <2>1. \A x \in I : (\A y \in I : x >= y) => x = k
    BY <1>1
  <2> QED BY <1>1, <2>1 DEF SequenceOps!Max
<1> QED BY <1>1, <1>2, <1>3

LEMMA FreeCuts ==
  ASSUME NEW s
  PROVE  FreeFromComposite(s) =
           IF FirstPlace(s, Opened) # 0 /\ FirstPlace(s, Opened) < LastPlace(s, Closed)
             THEN SubSeq(s, FirstPlace(s, Opened) + 1, LastPlace(s, Closed) - 1) ELSE s
  BY DEF FreeFromComposite, SequenceOps!SelectInSeq, SequenceOps!SelectLastInSeq, FirstPlace, LastPlace

LEMMA FreeBare == ASSUME NEW w \in Bare PROVE FreeFromComposite(w) = w
<1>1. w \in Text /\ \A i \in DOMAIN w : w[i] # Opened
  BY DEF Bare, Has
<1>2. FirstPlace(w, Opened) = 0
  BY <1>1, NoneOf DEF Text
<1> QED BY <1>2, FreeCuts

LEMMA FreeWrapped == ASSUME NEW w \in Bare PROVE FreeFromComposite(Wrapped(w)) = w
<1> DEFINE s == Wrapped(w)
<1>1. w \in Text /\ Len(w) \in Nat /\ \A i \in 1 .. Len(w) : w[i] \in Chars /\ w[i] # Opened /\ w[i] # Closed
  <2>1. w \in Text /\ Len(w) \in Nat /\ DOMAIN w = 1 .. Len(w)
    BY LenProperties DEF Bare, Text
  <2> QED BY <2>1, Indices DEF Bare, Has, Text
<1>2. /\ s \in Text /\ Len(s) = Len(w) + 2 /\ s[1] = Opened /\ s[Len(w) + 2] = Closed
      /\ \A i \in 1 .. Len(w) : s[i + 1] = w[i]
  BY <1>1, WrappedStarts
<1>3. DOMAIN s = 1 .. Len(w) + 2
  BY <1>2, LenProperties DEF Text
<1> HIDE DEF s
<1>4. FirstPlace(s, Opened) = 1
  <2>1. 1 \in DOMAIN s /\ \A i \in DOMAIN s : ~(i < 1)
    BY <1>1, <1>3
  <2> QED BY <1>2, <2>1, FirstOf DEF Text
<1>5. LastPlace(s, Closed) = Len(w) + 2
  <2>1. Len(w) + 2 \in DOMAIN s /\ \A i \in DOMAIN s : ~(Len(w) + 2 < i)
    BY <1>1, <1>3
  <2> QED BY <1>2, <2>1, LastOf DEF Text
<1>6. FreeFromComposite(s) = SubSeq(s, 2, Len(w) + 1)
  <2>1. 1 # 0 /\ 1 < Len(w) + 2 /\ 1 + 1 = 2 /\ (Len(w) + 2) - 1 = Len(w) + 1
    BY <1>1
  <2> QED BY <1>4, <1>5, <2>1, FreeCuts
<1>7. SubSeq(s, 2, Len(w) + 1) = w
  <2> DEFINE t == SubSeq(s, 2, Len(w) + 1)
  <2>1. \A i \in 2 .. Len(w) + 1 : s[i] \in Chars
    <3>1. \A i \in 2 .. Len(w) + 1 : i - 1 \in 1 .. Len(w) /\ (i - 1) + 1 = i
      BY <1>1
    <3> QED BY <1>1, <1>2, <3>1
  <2>2. t \in Seq(Chars) /\ Len(t) = Len(w) /\ \A i \in 1 .. Len(w) : t[i] = s[i + 1]
    <3>1. 2 \in Int /\ Len(w) + 1 \in Int /\ \A i \in 1 .. Len(w) : 2 + i - 1 = i + 1
      BY <1>1
    <3>2. CASE Len(w) = 0
      <4>1. 2 > Len(w) + 1 /\ 1 .. Len(w) = {}
        BY <3>2
      <4>2. t = <<>>
        BY <2>1, <3>1, <4>1, SubSeqProperties, EmptySeq
      <4> QED BY <3>2, <4>1, <4>2, EmptySeq
    <3>3. CASE Len(w) # 0
      <4>1. 2 <= Len(w) + 1 /\ (Len(w) + 1) - 2 + 1 = Len(w)
        BY <1>1, <3>3
      <4>2. t \in Seq(Chars) /\ Len(t) = Len(w)
        BY <2>1, <3>1, <4>1, SubSeqProperties
      <4>3. \A i \in 1 .. (Len(w) + 1) - 2 + 1 : t[i] = s[2 + i - 1]
        BY <2>1, <3>1, <4>1, SubSeqProperties
      <4> QED BY <3>1, <4>1, <4>2, <4>3
    <3> QED BY <3>2, <3>3
  <2> HIDE DEF t
  <2>3. w \in Seq(Chars) /\ \A i \in 1 .. Len(t) : t[i] = w[i]
    BY <1>1, <1>2, <2>2 DEF Text
  <2>4. t = w
    BY <2>2, <2>3, SeqEqual
  <2> QED BY <2>4 DEF t
<1> QED BY <1>6, <1>7 DEF s

(* The first word behind the command that is no option. *)
FirstParam(args) ==
  LET I == {i \in 2 .. Len(args) : ~IsOption(args[i])} IN IF I # {} THEN SequenceOps!Min(I) ELSE 0

Rest(args) == IF FirstParam(args) = 0 THEN Len(args) + 1 ELSE FirstParam(args)

LEMMA InterpretWords ==
  ASSUME NEW text, NEW args, args = SplitQuery(text), args # <<>>
  PROVE  Interpret(text) = Entity(FreeFromComposite(args[1]),
                                  Freed([i \in 1 .. Rest(args) - 2 |-> Tail(args[i + 1])]),
                                  Freed(SubSeq(args, Rest(args), Len(args))))
  BY DEF Interpret, SequenceOps!SelectInSubSeq, Rest, FirstParam

LEMMA RestBehind ==
  ASSUME NEW args \in Seq(Text), args # <<>>, NEW k \in Nat, 2 <= k, k <= Len(args) + 1,
         \A i \in 2 .. k - 1 : IsOption(args[i])
  PROVE  /\ Rest(args) \in k .. Len(args) + 1
         /\ k = Len(args) + 1 \/ ~IsOption(args[k]) => Rest(args) = k
<1> DEFINE I == {i \in 2 .. Len(args) : ~IsOption(args[i])}
<1>1. Len(args) \in Nat
  BY LenProperties
<1>2. FirstParam(args) = IF I # {} THEN SequenceOps!Min(I) ELSE 0
  BY DEF FirstParam
<1>3. I \in SUBSET Nat /\ \A i \in I : k <= i /\ i <= Len(args)
  <2>1. ASSUME NEW i \in I, i < k PROVE FALSE
    <3>1. i \in 2 .. k - 1
      BY <2>1
    <3> QED BY <3>1
  <2>2. \A i \in I : i \in Nat /\ i <= Len(args)
    BY <1>1
  <2> QED BY <2>1, <2>2
<1>4. CASE I = {}
  <2>1. Rest(args) = Len(args) + 1
    BY <1>2, <1>4 DEF Rest
  <2>2. ASSUME k # Len(args) + 1 PROVE IsOption(args[k])
    <3>1. k \in 2 .. Len(args)
      BY <1>1, <2>2
    <3> QED BY <1>4, <3>1
  <2> QED BY <1>1, <2>1, <2>2
<1>5. CASE I # {}
  <2>0. ASSUME k = Len(args) + 1 PROVE FALSE
    <3>1. \A i \in I : Len(args) + 1 <= i /\ i <= Len(args) /\ i \in Nat
      BY <1>3, <2>0
    <3> HIDE DEF I
    <3> QED BY <1>1, <1>5, <3>1
  <2>1. ~IsOption(args[k]) => k \in I
    <3>1. k \in 2 .. Len(args)
      BY <1>1, <2>0
    <3> QED BY <3>1
  <2> HIDE DEF I
  <2>2. PICK m \in I : \A i \in I : m <= i
    BY <1>3, <1>5, LeastNatural
  <2>3. SequenceOps!Min(I) = m
    <3>1. \A x \in I : (\A y \in I : x <= y) => x = m
      BY <1>3, <2>2
    <3> QED BY <2>2, <3>1 DEF SequenceOps!Min
  <2>4. m \in Nat /\ k <= m /\ m <= Len(args) /\ m # 0
    BY <1>3
  <2>5. Rest(args) = m
    BY <1>2, <1>5, <2>3, <2>4 DEF Rest
  <2>6. k \in I => m <= k
    BY <2>2
  <2> QED BY <1>1, <2>0, <2>1, <2>4, <2>5, <2>6
<1> QED BY <1>4, <1>5

(* The words of an entity, one by one. *)
MeantBy(args, e) ==
  /\ Len(args) = 1 + Len(e.options) + Len(e.params)
  /\ FreeFromComposite(args[1]) = e.command
  /\ \A i \in 1 .. Len(e.options) :
       IsOption(args[i + 1]) /\ FreeFromComposite(Tail(args[i + 1])) = e.options[i]
  /\ \A i \in 1 .. Len(e.params) : FreeFromComposite(args[1 + Len(e.options) + i]) = e.params[i]

LEMMA ReadsAs ==
  ASSUME NEW text, NEW e \in Entities, NEW args \in Seq(Text), args = SplitQuery(text), MeantBy(args, e),
         e.params # <<>> => ~IsOption(args[Len(e.options) + 2])
  PROVE  Interpret(text) = e
<1> DEFINE n == Len(e.options)
           m == Len(e.params)
           r == Rest(args)
<1>1. /\ e = Entity(e.command, e.options, e.params)
      /\ e.options \in Seq(Text) /\ e.params \in Seq(Text) /\ n \in Nat /\ m \in Nat
      /\ e.options = [i \in 1 .. n |-> e.options[i]] /\ e.params = [i \in 1 .. m |-> e.params[i]]
  <2>1. e \in [command : Text, options : Seq(Text), params : Seq(Text)]
    BY WireConstants
  <2>2. e = Entity(e.command, e.options, e.params) /\ e.options \in Seq(Text) /\ e.params \in Seq(Text)
    BY <2>1 DEF Entity
  <2> QED BY <2>2, LenProperties
<1>2. Len(args) = 1 + n + m /\ n \in Nat /\ m \in Nat
  BY <1>1 DEF MeantBy
<1>0. /\ \A i \in 1 .. n : IsOption(args[i + 1]) /\ FreeFromComposite(Tail(args[i + 1])) = e.options[i]
      /\ \A i \in 1 .. m : FreeFromComposite(args[1 + n + i]) = e.params[i]
      /\ FreeFromComposite(args[1]) = e.command
      /\ e.params # <<>> => ~IsOption(args[n + 2])
      /\ m # 0 => e.params # <<>>
  <2>1. m # 0 => e.params # <<>>
    BY <1>1, EmptySeq
  <2> QED BY <2>1 DEF MeantBy
<1> HIDE DEF n, m
<1>7. args # <<>>
  <2>1. Len(args) # 0
    BY <1>2
  <2> QED BY <2>1, EmptySeq
<1>3. r = n + 2
  <2>1. \A i \in 2 .. (n + 2) - 1 : IsOption(args[i])
    <3>1. \A i \in 2 .. (n + 2) - 1 : i - 1 \in 1 .. n /\ (i - 1) + 1 = i
      BY <1>2
    <3> QED BY <1>0, <3>1
  <2>2. n + 2 \in Nat /\ 2 <= n + 2 /\ n + 2 <= Len(args) + 1
    BY <1>2
  <2>3. n + 2 = Len(args) + 1 \/ ~IsOption(args[n + 2])
    <3>1. CASE m = 0
      BY <1>2, <3>1
    <3>2. CASE m # 0
      BY <1>0, <3>2
    <3> QED BY <3>1, <3>2
  <2> QED BY <1>7, <2>1, <2>2, <2>3, RestBehind
<1> HIDE DEF r
<1> DEFINE os == [i \in 1 .. r - 2 |-> Tail(args[i + 1])]
           ps == SubSeq(args, r, Len(args))
<1>4. Freed(os) = e.options
  <2>1. r - 2 = n
    BY <1>2, <1>3
  <2>2. Freed(os) = [i \in 1 .. n |-> FreeFromComposite(Tail(args[i + 1]))]
    BY <2>1 DEF Freed
  <2>3. \A i \in 1 .. n : FreeFromComposite(Tail(args[i + 1])) = e.options[i]
    BY <1>0
  <2> QED BY <1>1, <2>2, <2>3
<1>5. Freed(ps) = e.params
  <2>1. DOMAIN ps = 1 .. m /\ \A i \in 1 .. m : ps[i] = args[1 + n + i]
    <3>1. r \in Int /\ Len(args) \in Int /\ Len(args) - r + 1 = m /\ \A i \in 1 .. m : r + i - 1 = 1 + n + i
      BY <1>2, <1>3
    <3>2. \A i \in r .. Len(args) : args[i] \in Text
      <4>1. \A i \in r .. Len(args) : i \in 1 .. Len(args)
        BY <1>2, <1>3
      <4> QED BY <4>1, ElementOfSeq
    <3>3. CASE m = 0
      <4>1. r > Len(args) /\ 1 .. m = {}
        BY <3>1, <3>3
      <4>2. ps = <<>>
        BY <3>1, <3>2, <4>1, SubSeqProperties, EmptySeq
      <4> QED BY <4>1, <4>2
    <3>4. CASE m # 0
      <4>1. r <= Len(args)
        BY <1>2, <1>3, <3>4
      <4>2. ps \in Seq(Text) /\ Len(ps) = m
        BY <3>1, <3>2, <4>1, SubSeqProperties
      <4>3. \A i \in 1 .. Len(args) - r + 1 : ps[i] = args[r + i - 1]
        BY <3>1, <3>2, <4>1, SubSeqProperties
      <4>4. DOMAIN ps = 1 .. m
        BY <4>2, LenProperties
      <4> QED BY <3>1, <4>3, <4>4
    <3> QED BY <3>3, <3>4
  <2>2. Freed(ps) = [i \in 1 .. m |-> FreeFromComposite(ps[i])]
    BY <2>1 DEF Freed
  <2>3. \A i \in 1 .. m : FreeFromComposite(ps[i]) = e.params[i]
    BY <1>0, <2>1
  <2> HIDE DEF ps
  <2> QED BY <1>1, <2>2, <2>3
<1>6. Interpret(text) = Entity(FreeFromComposite(args[1]), Freed(os), Freed(ps))
  BY <1>7, InterpretWords DEF r
<1> HIDE DEF os, ps
<1> QED BY <1>0, <1>1, <1>4, <1>5, <1>6

-----------------------------------------------------------------------------
(* Lines of entities without brackets.                                     *)

(* A command, the options and the parameters. *)
Joined(S, ws, x, a, b) ==
  /\ ws \in Seq(S) /\ Len(ws) = 1 + Len(a) + Len(b) /\ Len(a) \in Nat /\ Len(b) \in Nat
  /\ ws[1] = x
  /\ \A i \in 1 .. Len(a) : ws[i + 1] = a[i]
  /\ \A i \in 1 .. Len(b) : ws[1 + Len(a) + i] = b[i]

LEMMA ConcatIsJoined ==
  ASSUME NEW S, NEW x \in S, NEW a \in Seq(S), NEW b \in Seq(S)
  PROVE  Joined(S, (<<x>> \o a) \o b, x, a, b)
<1> DEFINE c  == <<x>>
           ca == c \o a
           ws == ca \o b
           m  == Len(a)
           n  == Len(b)
<1>1. c \in Seq(S) /\ Len(c) = 1 /\ c[1] = x
  OBVIOUS
<1> HIDE DEF c
<1>2. Glued(S, ca, c, a)
  BY <1>1, ConcatIsGlued
<1> HIDE DEF ca
<1>3. Glued(S, ws, ca, b)
  <2>1. ca \in Seq(S)
    BY <1>2 DEF Glued
  <2> QED BY <2>1, ConcatIsGlued
<1> HIDE DEF ws
<1>4. m \in Nat /\ Len(ca) = 1 + m /\ ca[1] = x /\ \A i \in 1 .. m : ca[1 + i] = a[i]
  <2>1. 1 \in 1 .. Len(c)
    BY <1>1
  <2> QED BY <1>1, <1>2, <2>1 DEF Glued
<1>5. /\ n \in Nat /\ ws \in Seq(S) /\ Len(ws) = Len(ca) + n
      /\ \A i \in 1 .. Len(ca) : ws[i] = ca[i]
      /\ \A i \in 1 .. n : ws[Len(ca) + i] = b[i]
  BY <1>3 DEF Glued
<1> HIDE DEF m, n
<1>6. ws[1] = x
  <2>1. 1 \in 1 .. Len(ca)
    BY <1>4
  <2> QED BY <1>4, <1>5, <2>1
<1>7. ASSUME NEW i \in 1 .. m PROVE ws[i + 1] = a[i]
  <2>1. i + 1 \in 1 .. Len(ca) /\ i + 1 = 1 + i
    BY <1>4
  <2> QED BY <1>4, <1>5, <2>1
<1>8. Len(ws) = 1 + m + n /\ \A i \in 1 .. n : ws[1 + m + i] = b[i]
  BY <1>4, <1>5
<1>9. Joined(S, ws, x, a, b)
  BY <1>4, <1>5, <1>6, <1>7, <1>8 DEF m, n, Joined
<1> QED BY <1>9 DEF ws, ca, c

LEMMA SeqIn ==
  ASSUME NEW S, NEW R, NEW s \in Seq(S), \A i \in 1 .. Len(s) : s[i] \in R
  PROVE  s \in Seq(R)
<1>1. Len(s) \in Nat /\ s = [i \in 1 .. Len(s) |-> s[i]]
  BY LenProperties
<1> QED BY <1>1, IsASeq

LEMMA PlainWords ==
  ASSUME NEW e \in Entities, PlainText(e)
  PROVE  e.command \in Bare /\ e.options \in Seq(Bare) /\ e.params \in Seq(Bare)
<1> DEFINE ws == WordsOf(e)
           n  == Len(e.options)
           m  == Len(e.params)
<1>1. e.command \in Text /\ e.options \in Seq(Text) /\ e.params \in Seq(Text)
  BY WireConstants
<1>2. /\ ws \in Seq(Text) /\ Len(ws) = 1 + n + m /\ n \in Nat /\ m \in Nat
      /\ ws[1] = e.command
      /\ \A i \in 1 .. n : ws[i + 1] = e.options[i]
      /\ \A i \in 1 .. m : ws[1 + n + i] = e.params[i]
  <2>1. ws = (<<e.command>> \o e.options) \o e.params
    BY DEF WordsOf
  <2>2. Joined(Text, (<<e.command>> \o e.options) \o e.params, e.command, e.options, e.params)
    BY <1>1, ConcatIsJoined
  <2>3. Joined(Text, ws, e.command, e.options, e.params)
    BY <2>1, <2>2
  <2> HIDE DEF ws
  <2> QED BY <2>3 DEF Joined
<1>3. \A i \in DOMAIN ws : ~Has(ws[i], Opened) /\ ~Has(ws[i], Closed)
  BY DEF PlainText
<1> HIDE DEF ws, n, m
<1>4. \A i \in 1 .. 1 + n + m : ws[i] \in Bare
  <2>1. DOMAIN ws = 1 .. 1 + n + m /\ \A i \in 1 .. 1 + n + m : ws[i] \in Text
    BY <1>2, LenProperties, ElementOfSeq
  <2> QED BY <1>3, <2>1 DEF Bare
<1>5. e.command \in Bare
  <2>1. 1 \in 1 .. 1 + n + m
    BY <1>2
  <2> QED BY <1>2, <1>4, <2>1
<1>6. ASSUME NEW i \in 1 .. n PROVE e.options[i] \in Bare
  <2>1. i + 1 \in 1 .. 1 + n + m
    BY <1>2
  <2> QED BY <1>2, <1>4, <2>1
<1>7. ASSUME NEW i \in 1 .. m PROVE e.params[i] \in Bare
  <2>1. 1 + n + i \in 1 .. 1 + n + m
    BY <1>2
  <2> QED BY <1>2, <1>4, <2>1
<1>8. e.options \in Seq(Bare)
  BY <1>1, <1>6, SeqIn DEF n
<1>9. e.params \in Seq(Bare)
  BY <1>1, <1>7, SeqIn DEF m
<1> QED BY <1>5, <1>8, <1>9

(* How a writer wraps the words. *)
Wraps(f) ==
  /\ f \in [Bare -> Text]
  /\ \A w \in Bare :
       /\ Solid(f[w]) /\ FreeFromComposite(f[w]) = w
       /\ w # <<>> => f[w] \in Units
       /\ IsOption(f[w]) <=> IsOption(w) /\ ~Has(w, Space)

Builder == [w \in Bare |-> TryToWrap(w)]
User    == [w \in Bare |-> Bracketed(w)]

LEMMA EmptyIsBare == <<>> \in Bare /\ Solid(<<>>) /\ ~IsOption(<<>>) /\ ~Has(<<>>, Space)
<1>1. <<>> \in Text
  BY EmptySeq DEF Text
<1>2. \A c : ~Has(<<>>, c)
  BY DEF Has
<1>3. <<>> \in Bare
  BY <1>1, <1>2 DEF Bare
<1> QED BY <1>2, <1>3, SolidBare DEF IsOption

LEMMA BuilderWraps == Wraps(Builder) /\ Builder[<<>>] = <<>>
<1>1. ASSUME NEW w \in Bare PROVE TryToWrap(w) = IF Has(w, Space) THEN Wrapped(w) ELSE w
  BY DEF TryToWrap, Wrapped
<1>2. \A w \in Bare : w \in Text /\ TryToWrap(w) \in Text
  BY WrappedIsText DEF Bare
<1>3. \A w \in Bare : Builder[w] = TryToWrap(w)
  BY DEF Builder
<1>4. Builder \in [Bare -> Text]
  BY <1>2 DEF Builder
<1>5. ASSUME NEW w \in Bare
      PROVE  /\ Solid(Builder[w]) /\ FreeFromComposite(Builder[w]) = w
             /\ w # <<>> => Builder[w] \in Units
             /\ IsOption(Builder[w]) <=> IsOption(w) /\ ~Has(w, Space)
  <2>1. CASE Has(w, Space)
    <3>1. Builder[w] = Wrapped(w)
      BY <1>1, <1>3, <2>1
    <3> QED BY <2>1, <3>1, WrappedIsUnit, FreeWrapped DEF Units
  <2>2. CASE ~Has(w, Space)
    <3>1. Builder[w] = w
      BY <1>1, <1>3, <2>2
    <3> QED BY <2>2, <3>1, PlainIsUnit, SolidBare, FreeBare
  <2> QED BY <2>1, <2>2
<1>6. Builder[<<>>] = <<>>
  BY <1>1, <1>3, EmptyIsBare
<1> HIDE DEF Builder
<1> QED BY <1>4, <1>5, <1>6 DEF Wraps

LEMMA UserWraps == Wraps(User) /\ \A w \in Bare : User[w] \in Units
<1>1. ASSUME NEW w \in Bare PROVE Bracketed(w) = IF w = <<>> \/ Has(w, Space) THEN Wrapped(w) ELSE w
  BY DEF Bracketed, Wrapped
<1>2. \A w \in Bare : User[w] = Bracketed(w)
  BY DEF User
<1>3. ASSUME NEW w \in Bare
      PROVE  /\ Solid(User[w]) /\ FreeFromComposite(User[w]) = w /\ User[w] \in Units
             /\ IsOption(User[w]) <=> IsOption(w) /\ ~Has(w, Space)
  <2>1. CASE w = <<>> \/ Has(w, Space)
    <3>1. User[w] = Wrapped(w)
      BY <1>1, <1>2, <2>1
    <3>2. ~(IsOption(w) /\ ~Has(w, Space))
      BY <2>1, EmptyIsBare
    <3> QED BY <3>1, <3>2, WrappedIsUnit, FreeWrapped DEF Units
  <2>2. CASE ~(w = <<>> \/ Has(w, Space))
    <3>1. User[w] = w
      BY <1>1, <1>2, <2>2
    <3> QED BY <2>2, <3>1, PlainIsUnit, SolidBare, FreeBare
  <2> QED BY <2>1, <2>2
<1>4. User \in [Bare -> Text]
  <2>1. \A w \in Bare : Bracketed(w) \in Text
    BY <1>2, <1>3 DEF Solid
  <2> QED BY <2>1 DEF User
<1> HIDE DEF User
<1> QED BY <1>3, <1>4 DEF Wraps

Opts(f, e) == [i \in DOMAIN e.options |-> <<Dash>> \o f[e.options[i]]]
Pars(f, e) == [i \in DOMAIN e.params |-> f[e.params[i]]]

LineOf(f, gap, e) == (f[e.command] \o Line(gap, Opts(f, e))) \o Line(gap, Pars(f, e))

LEMMA DashBehindSpace ==
  ASSUME NEW S, NEW c \in S, NEW d \in S, NEW w \in Seq(S)
  PROVE  <<c, d>> \o w = <<c>> \o (<<d>> \o w)
<1> DEFINE s == <<c>>
           t == <<d>>
           st == <<c, d>>
<1>1. /\ s \in Seq(S) /\ t \in Seq(S) /\ st \in Seq(S)
      /\ Len(s) = 1 /\ Len(t) = 1 /\ Len(st) = 2 /\ s[1] = c /\ t[1] = d /\ st[1] = c /\ st[2] = d
  OBVIOUS
<1> HIDE DEF s, t, st
<1> DEFINE l == s \o t
<1>2. Glued(S, l, s, t)
  BY <1>1, ConcatIsGlued
<1> HIDE DEF l
<1>3. l \in Seq(S) /\ Len(l) = 2 /\ l[1] = c /\ l[2] = d
  <2>1. 1 \in 1 .. Len(s) /\ 1 \in 1 .. Len(t) /\ Len(s) + Len(t) = 2 /\ Len(s) + 1 = 2
    BY <1>1
  <2>2. l[1] = s[1] /\ l[Len(s) + 1] = t[1] /\ Len(l) = Len(s) + Len(t) /\ l \in Seq(S)
    BY <1>2, <2>1 DEF Glued
  <2> QED BY <1>1, <2>1, <2>2
<1>4. \A i \in 1 .. Len(l) : l[i] = st[i]
  BY <1>1, <1>3
<1>5. l = st
  BY <1>1, <1>3, <1>4, SeqEqual
<1>6. (s \o t) \o w = s \o (t \o w)
  OBVIOUS
<1> QED BY <1>5, <1>6 DEF s, t, st, l

LEMMA BuiltLine ==
  ASSUME NEW e \in Entities, PlainText(e)
  PROVE  Build(e) = LineOf(Builder, <<Space>>, e)
<1>1. e.command \in Bare /\ e.options \in Seq(Bare) /\ e.params \in Seq(Bare)
  BY PlainWords
<1>2. /\ \A i \in DOMAIN e.options : e.options[i] \in Bare
      /\ \A i \in DOMAIN e.params : e.params[i] \in Bare
  BY <1>1, Indices
<1>3. \A w \in Bare : Builder[w] = TryToWrap(w) /\ Builder[w] \in Text
  BY WrappedIsText DEF Builder, Bare
<1> HIDE DEF Builder
<1>4. [i \in DOMAIN e.params |-> <<Space>> \o TryToWrap(e.params[i])] = Spaced(<<Space>>, Pars(Builder, e))
  BY <1>2, <1>3 DEF Spaced, Pars
<1>5. ASSUME NEW w \in Text PROVE <<Space, Dash>> \o w = <<Space>> \o (<<Dash>> \o w)
  <2>1. w \in Seq(Chars) /\ Space \in Chars /\ Dash \in Chars
    BY WireConstants DEF Text
  <2> QED BY <2>1, DashBehindSpace
<1>6. [i \in DOMAIN e.options |-> <<Space, Dash>> \o TryToWrap(e.options[i])] = Spaced(<<Space>>, Opts(Builder, e))
  <2>1. \A i \in DOMAIN e.options :
          <<Space, Dash>> \o TryToWrap(e.options[i]) = <<Space>> \o Opts(Builder, e)[i]
    BY <1>2, <1>3, <1>5 DEF Opts
  <2>2. DOMAIN Opts(Builder, e) = DOMAIN e.options
    BY DEF Opts
  <2> HIDE DEF Opts
  <2> QED BY <2>1, <2>2 DEF Spaced
<1> QED BY <1>1, <1>3, <1>4, <1>6 DEF Build, LineOf, Line

LEMMA TypedLine ==
  ASSUME NEW e \in Entities, PlainText(e), NEW gap \in Gaps
  PROVE  Typed(e, gap) = LineOf(User, gap, e)
<1>1. e.command \in Bare /\ e.options \in Seq(Bare) /\ e.params \in Seq(Bare)
  BY PlainWords
<1>2. /\ \A i \in DOMAIN e.options : e.options[i] \in Bare
      /\ \A i \in DOMAIN e.params : e.params[i] \in Bare
  BY <1>1, Indices
<1>3. \A w \in Bare : User[w] = Bracketed(w) /\ User[w] \in Text
  BY UserWraps DEF User, Units
<1> HIDE DEF User
<1>4. [i \in DOMAIN e.params |-> gap \o Bracketed(e.params[i])] = Spaced(gap, Pars(User, e))
  BY <1>2, <1>3 DEF Spaced, Pars
<1>5. ASSUME NEW w \in Text PROVE gap \o <<Dash>> \o w = gap \o (<<Dash>> \o w)
  OBVIOUS
<1>6. [i \in DOMAIN e.options |-> gap \o <<Dash>> \o Bracketed(e.options[i])] = Spaced(gap, Opts(User, e))
  <2>1. \A i \in DOMAIN e.options :
          gap \o <<Dash>> \o Bracketed(e.options[i]) = gap \o Opts(User, e)[i]
    BY <1>2, <1>3, <1>5 DEF Opts
  <2>2. DOMAIN Opts(User, e) = DOMAIN e.options
    BY DEF Opts
  <2> HIDE DEF Opts
  <2> QED BY <2>1, <2>2 DEF Spaced
<1> QED BY <1>1, <1>3, <1>4, <1>6 DEF Typed, LineOf, Line

LEMMA PartsOf ==
  ASSUME NEW f, Wraps(f), NEW e \in Entities, PlainText(e)
  PROVE  /\ f[e.command] \in Text
         /\ Opts(f, e) \in Seq(Units) /\ Len(Opts(f, e)) = Len(e.options)
         /\ \A i \in 1 .. Len(e.options) :
              IsOption(Opts(f, e)[i]) /\ FreeFromComposite(Tail(Opts(f, e)[i])) = e.options[i]
         /\ Pars(f, e) \in Seq(Text) /\ Len(Pars(f, e)) = Len(e.params)
         /\ \A i \in 1 .. Len(e.params) : Pars(f, e)[i] = f[e.params[i]]
         /\ \A i \in 1 .. Len(e.params) : FreeFromComposite(Pars(f, e)[i]) = e.params[i]
<1>1. e.command \in Bare /\ e.options \in Seq(Bare) /\ e.params \in Seq(Bare)
  BY PlainWords
<1>2. /\ Len(e.options) \in Nat /\ DOMAIN e.options = 1 .. Len(e.options)
      /\ Len(e.params) \in Nat /\ DOMAIN e.params = 1 .. Len(e.params)
      /\ \A i \in 1 .. Len(e.options) : e.options[i] \in Bare
      /\ \A i \in 1 .. Len(e.params) : e.params[i] \in Bare
  BY <1>1, LenProperties, ElementOfSeq
<1>3. /\ f[e.command] \in Text
      /\ \A w \in Bare : f[w] \in Text /\ Solid(f[w]) /\ FreeFromComposite(f[w]) = w
  BY <1>1 DEF Wraps
<1>4. ASSUME NEW w \in Bare
      PROVE  /\ <<Dash>> \o f[w] \in Units /\ IsOption(<<Dash>> \o f[w])
             /\ FreeFromComposite(Tail(<<Dash>> \o f[w])) = w
  <2>1. <<Dash>> \o f[w] \in Units /\ IsOption(<<Dash>> \o f[w]) /\ Tail(<<Dash>> \o f[w]) = f[w]
    BY <1>3, DashedIsUnit
  <2> QED BY <1>3, <2>1
<1> DEFINE os == Opts(f, e)
           ps == Pars(f, e)
           dashed == [w \in Bare |-> <<Dash>> \o f[w]]
<1>5. \A w \in Bare : /\ dashed[w] \in Units /\ IsOption(dashed[w])
                      /\ FreeFromComposite(Tail(dashed[w])) = w
  BY <1>4
<1>6. os = [i \in 1 .. Len(e.options) |-> dashed[e.options[i]]]
  BY <1>2 DEF Opts
<1>7. ps = [i \in 1 .. Len(e.params) |-> f[e.params[i]]]
  BY <1>2 DEF Pars
<1> HIDE DEF os, ps, dashed
<1>8. os \in Seq(Units) /\ Len(os) = Len(e.options)
  <2>1. \A i \in 1 .. Len(e.options) : dashed[e.options[i]] \in Units
    BY <1>2, <1>5
  <2>2. os \in [1 .. Len(e.options) -> Units]
    BY <1>6, <2>1
  <2>3. os \in Seq(Units) /\ DOMAIN os = 1 .. Len(e.options)
    BY <1>2, <2>2
  <2> QED BY <1>2, <2>3, LenProperties
<1>9. ps \in Seq(Text) /\ Len(ps) = Len(e.params)
  <2>1. \A i \in 1 .. Len(e.params) : f[e.params[i]] \in Text
    BY <1>2, <1>3
  <2>2. ps \in [1 .. Len(e.params) -> Text]
    BY <1>7, <2>1
  <2>3. ps \in Seq(Text) /\ DOMAIN ps = 1 .. Len(e.params)
    BY <1>2, <2>2
  <2> QED BY <1>2, <2>3, LenProperties
<1>10. \A i \in 1 .. Len(e.options) : IsOption(os[i]) /\ FreeFromComposite(Tail(os[i])) = e.options[i]
  BY <1>2, <1>5, <1>6
<1>11. \A i \in 1 .. Len(e.params) : ps[i] = f[e.params[i]] /\ FreeFromComposite(ps[i]) = e.params[i]
  BY <1>2, <1>3, <1>7
<1> QED BY <1>3, <1>8, <1>9, <1>10, <1>11 DEF os, ps

(* What the splitter makes of a line of words. *)
WordsIn(f, e) == (<<f[e.command]>> \o Opts(f, e)) \o Pars(f, e)

LEMMA LineIsSplit ==
  ASSUME NEW f, Wraps(f), NEW e \in Entities, PlainText(e), NEW gap \in Gaps,
         f[e.command] \in Units, Pars(f, e) \in Seq(Units)
  PROVE  SplitQuery(LineOf(f, gap, e)) = WordsIn(f, e)
<1> DEFINE c  == f[e.command]
           os == Opts(f, e)
           ps == Pars(f, e)
           a  == Line(gap, os)
           b  == Line(gap, ps)
<1>1. os \in Seq(Units) /\ Units \subseteq Text /\ gap \in Text
  BY PartsOf, GapsAreTexts DEF Units
<1> HIDE DEF c, os, ps
<1>2. c \in Units /\ ps \in Seq(Units) /\ c \in Text /\ os \in Seq(Text) /\ ps \in Seq(Text)
  <2>1. c \in Units /\ ps \in Seq(Units)
    BY DEF c, ps
  <2> QED BY <1>1, <2>1, SeqMonotonic
<1>3. a \in Text /\ b \in Text /\ c \o a \in Text
  BY <1>1, <1>2, LineIsText, ConcatProperties DEF Text
<1>4. Before \in Reading
  <2>1. Before = Gap(<<>>, FALSE) /\ <<>> \in Seq(Text)
    BY EmptySeq DEF Before, Gap
  <2> QED BY <2>1, StatesAreReadings
<1>5. Done(Read(Before, c), <<c>>)
  BY <1>2, FirstWord
<1>6. Done(Read(Read(Before, c), a), <<c>> \o os)
  BY <1>1, <1>5, DoneWords
<1>7. Done(Read(Read(Read(Before, c), a), b), (<<c>> \o os) \o ps)
  BY <1>2, <1>6, DoneWords
<1> HIDE DEF a, b
<1>8. Read(Before, (c \o a) \o b) = Read(Read(Read(Before, c), a), b)
  BY <1>2, <1>3, <1>4, ReadBoth
<1>9. SplitQuery((c \o a) \o b) = (<<c>> \o os) \o ps
  BY <1>7, <1>8, SplitOfDone
<1> QED BY <1>9 DEF LineOf, WordsIn, c, os, ps, a, b

LEMMA WordsAreMeant ==
  ASSUME NEW f, Wraps(f), NEW e \in Entities, PlainText(e)
  PROVE  /\ WordsIn(f, e) \in Seq(Text) /\ MeantBy(WordsIn(f, e), e)
         /\ Len(e.options) \in Nat /\ Len(e.params) \in Nat
         /\ e.params # <<>> => /\ Len(e.params) # 0
                               /\ WordsIn(f, e)[Len(e.options) + 2] = f[e.params[1]] /\ e.params[1] \in Bare
<1> DEFINE c  == f[e.command]
           os == Opts(f, e)
           ps == Pars(f, e)
           ws == WordsIn(f, e)
           n  == Len(e.options)
           m  == Len(e.params)
<1>1. c \in Text /\ os \in Seq(Text) /\ ps \in Seq(Text) /\ Len(os) = n /\ Len(ps) = m
  <2>1. c \in Text /\ os \in Seq(Units) /\ ps \in Seq(Text) /\ Len(os) = n /\ Len(ps) = m /\ Units \subseteq Text
    BY PartsOf DEF Units
  <2> QED BY <2>1, SeqMonotonic
<1>2. /\ \A i \in 1 .. n : IsOption(os[i]) /\ FreeFromComposite(Tail(os[i])) = e.options[i]
      /\ \A i \in 1 .. m : ps[i] = f[e.params[i]] /\ FreeFromComposite(ps[i]) = e.params[i]
  BY PartsOf
<1>3. FreeFromComposite(c) = e.command
  BY PlainWords DEF Wraps
<1>4. Joined(Text, ws, c, os, ps)
  <2> HIDE DEF c, os, ps
  <2>1. Joined(Text, (<<c>> \o os) \o ps, c, os, ps)
    BY <1>1, ConcatIsJoined
  <2> QED BY <2>1 DEF WordsIn, c, os, ps
<1> HIDE DEF c, os, ps, ws
<1>5. /\ ws \in Seq(Text) /\ Len(ws) = 1 + n + m /\ n \in Nat /\ m \in Nat /\ ws[1] = c
      /\ \A i \in 1 .. n : ws[i + 1] = os[i]
      /\ \A i \in 1 .. m : ws[1 + n + i] = ps[i]
  BY <1>1, <1>4 DEF Joined
<1>6. MeantBy(ws, e)
  BY <1>2, <1>3, <1>5 DEF MeantBy
<1>7. ASSUME e.params # <<>> PROVE m # 0 /\ ws[n + 2] = f[e.params[1]] /\ e.params[1] \in Bare
  <2>1. e.params \in Seq(Bare)
    BY PlainWords
  <2>2. m # 0
    BY <1>7, <2>1, EmptySeq
  <2>3. 1 \in 1 .. m /\ 1 + n + 1 = n + 2
    BY <1>5, <2>2
  <2>4. e.params[1] \in Bare
    BY <2>1, <2>3, ElementOfSeq
  <2> HIDE DEF n, m
  <2>5. ws[1 + n + 1] = ps[1] /\ ps[1] = f[e.params[1]]
    BY <1>2, <1>5, <2>3
  <2> QED BY <2>2, <2>3, <2>4, <2>5
<1> QED BY <1>5, <1>6, <1>7 DEF ws

(* Words that are all there, and no parameter like an option. *)
LEMMA GoodLine ==
  ASSUME NEW f, Wraps(f), NEW e \in Entities, PlainText(e), NEW gap \in Gaps,
         f[e.command] \in Units, Pars(f, e) \in Seq(Units),
         e.params # <<>> => ~IsOption(e.params[1]) \/ Has(e.params[1], Space)
  PROVE  Interpret(LineOf(f, gap, e)) = e
<1>1. WordsIn(f, e) \in Seq(Text) /\ MeantBy(WordsIn(f, e), e) /\ WordsIn(f, e) = SplitQuery(LineOf(f, gap, e))
  BY WordsAreMeant, LineIsSplit
<1>2. e.params # <<>> => ~IsOption(WordsIn(f, e)[Len(e.options) + 2])
  BY WordsAreMeant DEF Wraps
<1> QED BY <1>1, <1>2, ReadsAs

LEMMA Sizes ==
  ASSUME NEW text, NEW args \in Seq(Text), args = SplitQuery(text), args # <<>>
  PROVE  /\ Rest(args) \in 2 .. Len(args) + 1 /\ Len(args) \in Nat
         /\ Len(Interpret(text).options) = Rest(args) - 2
         /\ Len(Interpret(text).params) = Len(args) - Rest(args) + 1
<1> DEFINE r  == Rest(args)
           os == [i \in 1 .. r - 2 |-> Tail(args[i + 1])]
           ps == SubSeq(args, r, Len(args))
<1>1. Len(args) \in Nat /\ Len(args) # 0
  BY EmptySeq, LenProperties
<1>2. r \in 2 .. Len(args) + 1
  <2>1. 2 \in Nat /\ 2 <= 2 /\ 2 <= Len(args) + 1 /\ 2 .. 2 - 1 = {}
    BY <1>1
  <2> QED BY <2>1, RestBehind
<1>3. Interpret(text) = Entity(FreeFromComposite(args[1]), Freed(os), Freed(ps))
  BY InterpretWords
<1> HIDE DEF r
<1>4. Len(Freed(os)) = r - 2
  <2>1. r - 2 \in Nat
    BY <1>1, <1>2
  <2>2. Freed(os) = [i \in 1 .. r - 2 |-> FreeFromComposite(os[i])]
    BY DEF Freed
  <2> HIDE DEF os
  <2> QED BY <2>1, <2>2
<1>5. Len(Freed(ps)) = Len(args) - r + 1
  <2>1. Len(args) - r + 1 \in Nat
    BY <1>1, <1>2
  <2>2. DOMAIN ps = 1 .. Len(args) - r + 1
    BY <1>1, <1>2
  <2>3. Freed(ps) = [i \in 1 .. Len(args) - r + 1 |-> FreeFromComposite(ps[i])]
    BY <2>2 DEF Freed
  <2> HIDE DEF ps
  <2> QED BY <2>1, <2>3
<1> HIDE DEF os, ps
<1>6. Interpret(text).options = Freed(os) /\ Interpret(text).params = Freed(ps)
  BY <1>3 DEF Entity
<1> QED BY <1>1, <1>2, <1>4, <1>5, <1>6 DEF r

(* A first parameter that looks like an option is read as one. *)
LEMMA OptionLine ==
  ASSUME NEW f, Wraps(f), NEW e \in Entities, PlainText(e), NEW gap \in Gaps,
         f[e.command] \in Units, Pars(f, e) \in Seq(Units),
         e.params # <<>>, IsOption(e.params[1]), ~Has(e.params[1], Space)
  PROVE  Interpret(LineOf(f, gap, e)) # e
<1> DEFINE args == WordsIn(f, e)
           n    == Len(e.options)
           m    == Len(e.params)
<1>1. args \in Seq(Text) /\ MeantBy(args, e) /\ args = SplitQuery(LineOf(f, gap, e))
  BY WordsAreMeant, LineIsSplit
<1>2. n \in Nat /\ m \in Nat /\ m # 0 /\ IsOption(args[n + 2])
  BY WordsAreMeant DEF Wraps
<1> HIDE DEF args
<1>3. Len(args) = 1 + n + m /\ \A i \in 1 .. n : IsOption(args[i + 1])
  BY <1>1 DEF MeantBy
<1> HIDE DEF n, m
<1>4. args # <<>>
  <2>1. Len(args) # 0
    BY <1>2, <1>3
  <2> QED BY <2>1, EmptySeq
<1>5. \A i \in 2 .. (n + 3) - 1 : IsOption(args[i])
  <2> SUFFICES ASSUME NEW i \in 2 .. (n + 3) - 1 PROVE IsOption(args[i])
    OBVIOUS
  <2>1. CASE i = n + 2
    BY <1>2, <2>1
  <2>2. CASE i # n + 2
    <3>1. i - 1 \in 1 .. n /\ (i - 1) + 1 = i
      BY <1>2, <2>2
    <3> QED BY <1>3, <3>1
  <2> QED BY <2>1, <2>2
<1>6. n + 3 \in Nat /\ 2 <= n + 3 /\ n + 3 <= Len(args) + 1
  BY <1>2, <1>3
<1>7. Rest(args) \in n + 3 .. Len(args) + 1
  BY <1>1, <1>4, <1>5, <1>6, RestBehind
<1>8. Len(Interpret(LineOf(f, gap, e)).options) = Rest(args) - 2
  BY <1>1, <1>4, Sizes
<1>9. Rest(args) - 2 # n
  BY <1>2, <1>6, <1>7
<1> QED BY <1>8, <1>9 DEF n

-----------------------------------------------------------------------------
(* A line of j words, of which one is empty, has less than j words.        *)

Short(st, j) ==
  \E A \in Seq(Text) :
    \/ \E x \in Text : st = In(x, 0, A) /\ Len(A) + 1 < j
    \/ st = Gap(A, FALSE) /\ Len(A) < j
    \/ st = Gap(A, TRUE) /\ Len(A) + 1 < j

LEMMA ShortIsReading ==
  ASSUME NEW st, NEW j, Short(st, j) PROVE st \in Reading
<1>1. PICK A \in Seq(Text) : (\E x \in Text : st = In(x, 0, A)) \/ st = Gap(A, FALSE) \/ st = Gap(A, TRUE)
  BY DEF Short
<1>2. 0 \in Int
  OBVIOUS
<1> QED BY <1>1, <1>2, StatesAreReadings

LEMMA ShortSpace ==
  ASSUME NEW st, NEW j \in Nat, Short(st, j)
  PROVE  \E A \in Seq(Text), b \in BOOLEAN : Read(st, <<Space>>) = Gap(A, b) /\ Len(A) < j
<1>0. st \in Reading /\ Space \in Chars
  BY ShortIsReading, WireConstants
<1>1. Read(st, <<Space>>) = ReadChar(st, Space)
  BY <1>0, ReadOne
<1>2. PICK A \in Seq(Text) :
        \/ \E x \in Text : st = In(x, 0, A) /\ Len(A) + 1 < j
        \/ st = Gap(A, FALSE) /\ Len(A) < j
        \/ st = Gap(A, TRUE) /\ Len(A) + 1 < j
  BY DEF Short
<1>3. Len(A) \in Nat
  BY LenProperties
<1>4. CASE \E x \in Text : st = In(x, 0, A) /\ Len(A) + 1 < j
  <2>1. PICK x \in Text : st = In(x, 0, A) /\ Len(A) + 1 < j
    BY <1>4
  <2>2. Append(A, x) \in Seq(Text) /\ Len(Append(A, x)) = Len(A) + 1
    BY AppendProperties
  <2>3. Read(st, <<Space>>) = Gap(Append(A, x), FALSE)
    BY <1>1, <2>1, ReadCharSpace
  <2> QED BY <2>1, <2>2, <2>3
<1>5. CASE st = Gap(A, FALSE) /\ Len(A) < j
  BY <1>1, <1>5, ReadCharSpace
<1>6. CASE st = Gap(A, TRUE) /\ Len(A) + 1 < j
  <2>1. Len(A) < j
    BY <1>3, <1>6
  <2> QED BY <1>1, <1>6, <2>1, ReadCharSpace
<1> QED BY <1>2, <1>4, <1>5, <1>6

LEMMA ShortStep ==
  ASSUME NEW st, NEW j \in Nat, Short(st, j), NEW u \in Units \cup {<<>>}
  PROVE  Short(Read(st, <<Space>> \o u), j + 1)
<1> DEFINE s == <<Space>>
<1>0. st \in Reading /\ s \in Text /\ u \in Text /\ <<>> \in Text
  <2>1. s \in Text
    BY GapsAreTexts DEF Gaps
  <2> QED BY <2>1, ShortIsReading, EmptySeq DEF Units, Text
<1>1. PICK A \in Seq(Text), b \in BOOLEAN : Read(st, s) = Gap(A, b) /\ Len(A) < j
  BY ShortSpace
<1> HIDE DEF s
<1>2. Read(st, s \o u) = Read(Gap(A, b), u)
  BY <1>0, <1>1, ReadBoth
<1>3. Len(A) \in Nat /\ Len(A) + 1 < j + 1 /\ Len(A) < j + 1
  BY <1>1, LenProperties
<1>4. CASE u = <<>>
  <2>1. Gap(A, b) \in Reading
    BY StatesAreReadings
  <2>2. Read(st, s \o u) = Gap(A, b)
    BY <1>2, <1>4, <2>1, ReadNothing
  <2>3. b = TRUE \/ b = FALSE
    OBVIOUS
  <2>4. Short(Gap(A, b), j + 1)
    BY <1>3, <2>3 DEF Short
  <2> QED BY <2>2, <2>4 DEF s
<1>5. CASE u \in Units
  <2>1. Read(st, s \o u) = In(u, 0, A)
    BY <1>2, <1>5, UnitStarts
  <2>2. Short(In(u, 0, A), j + 1)
    BY <1>0, <1>3 DEF Short
  <2> QED BY <2>1, <2>2 DEF s
<1> QED BY <1>4, <1>5

LEMMA EmptyWord ==
  ASSUME NEW st, NEW ws, Done(st, ws)
  PROVE  Short(Read(st, <<Space>> \o <<>>), Len(ws) + 1)
<1> DEFINE s == <<Space>>
<1>0. st \in Reading /\ ws \in Seq(Text) /\ s \in Text /\ Space \in Chars
  <2>1. s \in Text
    BY GapsAreTexts DEF Gaps
  <2> QED BY <2>1, DoneType, WireConstants
<1>1. PICK A \in Seq(Text), x \in Text : st = In(x, 0, A) /\ ws = Append(A, x)
  BY DEF Done
<1>2. Read(st, s) = Gap(ws, FALSE)
  <2>1. Read(st, s) = ReadChar(st, Space)
    BY <1>0, ReadOne
  <2> QED BY <1>1, <2>1, ReadCharSpace
<1> HIDE DEF s
<1>3. s \o <<>> = s
  BY <1>0, ConcatEmptySeq DEF Text
<1>4. Len(ws) \in Nat /\ Len(ws) < Len(ws) + 1
  BY <1>0, LenProperties
<1>5. Short(Gap(ws, FALSE), Len(ws) + 1)
  BY <1>0, <1>4 DEF Short
<1> QED BY <1>2, <1>3, <1>5 DEF s

Blanks == Units \cup {<<>>}

LEMMA BlanksAreTexts == Blanks \subseteq Text /\ <<Space>> \in Text /\ <<Space>> \in Gaps
  BY GapsAreTexts, EmptySeq DEF Blanks, Units, Text, Gaps

LEMMA ReadLonger ==
  ASSUME NEW st \in Reading, NEW gap \in Text, NEW vs \in Seq(Text), NEW u \in Text
  PROVE  Read(st, Line(gap, Append(vs, u))) = Read(Read(st, Line(gap, vs)), gap \o u)
<1>1. Line(gap, vs) \in Text /\ Line(gap, Append(vs, u)) = Line(gap, vs) \o (gap \o u)
  BY LineAppend
<1>2. gap \o u \in Text
  BY ConcatProperties DEF Text
<1> QED BY <1>1, <1>2, ReadBoth

LEMMA ShortWords ==
  ASSUME NEW st, NEW j \in Nat, Short(st, j), NEW us \in Seq(Blanks)
  PROVE  Short(Read(st, Line(<<Space>>, us)), j + Len(us))
<1> DEFINE T == {vs \in Seq(Blanks) : Short(Read(st, Line(<<Space>>, vs)), j + Len(vs))}
<1>0. st \in Reading /\ <<Space>> \in Text
  BY ShortIsReading, BlanksAreTexts
<1>1. <<>> \in T
  <2>1. <<>> \in Seq(Blanks) /\ Len(<<>>) = 0 /\ j + 0 = j
    BY EmptySeq
  <2>2. Read(st, Line(<<Space>>, <<>>)) = st
    BY <1>0, LineEmpty, ReadNothing
  <2> QED BY <2>1, <2>2
<1>2. ASSUME NEW vs \in Seq(Blanks), NEW u \in Blanks, vs \in T PROVE Append(vs, u) \in T
  <2>1. vs \in Seq(Text) /\ u \in Text
    BY BlanksAreTexts, SeqMonotonic
  <2>2. Append(vs, u) \in Seq(Blanks) /\ Len(Append(vs, u)) = Len(vs) + 1 /\ Len(vs) \in Nat
    BY AppendProperties, LenProperties
  <2>5. Read(st, Line(<<Space>>, Append(vs, u))) = Read(Read(st, Line(<<Space>>, vs)), <<Space>> \o u)
    BY <1>0, <2>1, ReadLonger
  <2>6. j + Len(vs) \in Nat /\ (j + Len(vs)) + 1 = j + (Len(vs) + 1)
    BY <2>2
  <2>7. Short(Read(Read(st, Line(<<Space>>, vs)), <<Space>> \o u), (j + Len(vs)) + 1)
    BY <1>2, <2>6, ShortStep DEF Blanks
  <2> QED BY <2>2, <2>5, <2>6, <2>7
<1> HIDE DEF T
<1>3. us \in T
  BY <1>1, <1>2, SeqInduction
<1> QED BY <1>3 DEF T

(* Either all words are there or one is missing. *)
LEMMA AllOrShort ==
  ASSUME NEW st, NEW ws, Done(st, ws), NEW us \in Seq(Blanks)
  PROVE  \/ us \in Seq(Units)
         \/ Short(Read(st, Line(<<Space>>, us)), Len(ws) + Len(us))
<1> DEFINE T == {vs \in Seq(Blanks) : \/ vs \in Seq(Units)
                                      \/ Short(Read(st, Line(<<Space>>, vs)), Len(ws) + Len(vs))}
<1>0. st \in Reading /\ ws \in Seq(Text) /\ Len(ws) \in Nat /\ <<Space>> \in Text /\ <<Space>> \in Gaps
  BY DoneType, BlanksAreTexts, LenProperties
<1>1. <<>> \in T
  BY EmptySeq
<1>2. ASSUME NEW vs \in Seq(Blanks), NEW u \in Blanks, vs \in T PROVE Append(vs, u) \in T
  <2>1. vs \in Seq(Text) /\ u \in Text
    BY BlanksAreTexts, SeqMonotonic
  <2>2. Append(vs, u) \in Seq(Blanks) /\ Len(Append(vs, u)) = Len(vs) + 1 /\ Len(vs) \in Nat
    BY AppendProperties, LenProperties
  <2>5. Read(st, Line(<<Space>>, Append(vs, u))) = Read(Read(st, Line(<<Space>>, vs)), <<Space>> \o u)
    BY <1>0, <2>1, ReadLonger
  <2>6. Len(ws) + Len(vs) \in Nat /\ (Len(ws) + Len(vs)) + 1 = Len(ws) + (Len(vs) + 1)
    BY <1>0, <2>2
  <2>7. CASE Short(Read(st, Line(<<Space>>, vs)), Len(ws) + Len(vs))
    <3>1. Short(Read(Read(st, Line(<<Space>>, vs)), <<Space>> \o u), (Len(ws) + Len(vs)) + 1)
      BY <2>6, <2>7, ShortStep DEF Blanks
    <3> QED BY <2>2, <2>5, <2>6, <3>1
  <2>8. CASE vs \in Seq(Units) /\ u \in Units
    <3>1. Append(vs, u) \in Seq(Units)
      BY <2>8, AppendProperties
    <3> QED BY <2>2, <3>1
  <2>9. CASE vs \in Seq(Units) /\ u = <<>>
    <3>1. Done(Read(st, Line(<<Space>>, vs)), ws \o vs)
      BY <1>0, <2>9, DoneWords
    <3>2. Len(ws \o vs) = Len(ws) + Len(vs)
      BY <1>0, <2>1, ConcatProperties
    <3>3. Short(Read(Read(st, Line(<<Space>>, vs)), <<Space>> \o u), Len(ws \o vs) + 1)
      BY <2>9, <3>1, EmptyWord
    <3> QED BY <2>2, <2>5, <2>6, <3>2, <3>3
  <2>10. u \in Units \/ u = <<>>
    BY DEF Blanks
  <2> QED BY <1>2, <2>7, <2>8, <2>9, <2>10
<1> HIDE DEF T
<1>3. us \in T
  BY <1>1, <1>2, SeqInduction
<1> QED BY <1>3 DEF T

LEMMA SplitOfShort ==
  ASSUME NEW text, NEW j \in Nat, Short(Read(Before, text), j)
  PROVE  SplitQuery(text) \in Seq(Text) /\ Len(SplitQuery(text)) < j
<1>1. PICK A \in Seq(Text) :
        \/ \E x \in Text : Read(Before, text) = In(x, 0, A) /\ Len(A) + 1 < j
        \/ Read(Before, text) = Gap(A, FALSE) /\ Len(A) < j
        \/ Read(Before, text) = Gap(A, TRUE) /\ Len(A) + 1 < j
  BY DEF Short
<1>2. SplitQuery(text) = IF Read(Before, text).isWord THEN Append(Read(Before, text).args, Read(Before, text).word)
                         ELSE Read(Before, text).args
  BY DEF SplitQuery
<1>3. \A x \in Text : Append(A, x) \in Seq(Text) /\ Len(Append(A, x)) = Len(A) + 1
  BY AppendProperties
<1>4. CASE \E x \in Text : Read(Before, text) = In(x, 0, A) /\ Len(A) + 1 < j
  <2>1. PICK x \in Text : Read(Before, text) = In(x, 0, A) /\ Len(A) + 1 < j
    BY <1>4
  <2>2. In(x, 0, A).isWord /\ In(x, 0, A).args = A /\ In(x, 0, A).word = x
    BY DEF In
  <2>3. SplitQuery(text) = Append(A, x)
    BY <1>2, <2>1, <2>2
  <2> QED BY <1>3, <2>1, <2>3
<1>5. CASE Read(Before, text) = Gap(A, FALSE) /\ Len(A) < j
  <2>1. Gap(A, FALSE).isWord = FALSE /\ Gap(A, FALSE).args = A
    BY DEF Gap
  <2> QED BY <1>2, <1>5, <2>1
<1>6. CASE Read(Before, text) = Gap(A, TRUE) /\ Len(A) + 1 < j
  <2>1. Gap(A, TRUE).isWord = TRUE /\ Gap(A, TRUE).args = A /\ Gap(A, TRUE).word = <<>>
    BY DEF Gap
  <2>2. <<>> \in Text
    BY EmptySeq DEF Text
  <2>3. SplitQuery(text) = Append(A, <<>>)
    BY <1>2, <1>6, <2>1
  <2> QED BY <1>3, <1>6, <2>2, <2>3
<1> QED BY <1>1, <1>4, <1>5, <1>6

(* An entity without brackets is not read from a line with too few words. *)
LEMMA ShortLineIsLost ==
  ASSUME NEW e \in Entities, PlainText(e), NEW text, NEW j \in Nat, Short(Read(Before, text), j),
         j = 1 + Len(e.options) + Len(e.params)
  PROVE  Interpret(text) # e
<1> DEFINE args == SplitQuery(text)
           n    == Len(e.options)
           m    == Len(e.params)
<1>1. args \in Seq(Text) /\ Len(args) < j
  BY SplitOfShort
<1>2. e.options \in Seq(Bare) /\ e.params \in Seq(Bare) /\ n \in Nat /\ m \in Nat
  BY PlainWords, LenProperties
<1>3. CASE args = <<>>
  <2> SUFFICES ASSUME e = Unreadable PROVE FALSE
    BY <1>3 DEF Interpret
  <2> DEFINE b == <<Opened, Closed>>
  <2>1. e.params = <<b>>
    BY DEF Unreadable, Entity
  <2>2. Has(b, Opened)
    <3>1. 1 \in DOMAIN b /\ b[1] = Opened
      OBVIOUS
    <3> QED BY <3>1 DEF Has
  <2> HIDE DEF b
  <2>3. Len(<<b>>) = 1 /\ <<b>>[1] = b
    OBVIOUS
  <2>4. e.params[1] \in Bare
    <3>1. Len(e.params) = 1 /\ 1 \in 1 .. 1
      BY <2>1, <2>3
    <3> QED BY <1>2, <3>1, ElementOfSeq
  <2> QED BY <2>1, <2>2, <2>3, <2>4 DEF Bare
<1>4. CASE args # <<>>
  <2>1. /\ Rest(args) \in 2 .. Len(args) + 1 /\ Len(args) \in Nat
        /\ Len(Interpret(text).options) = Rest(args) - 2
        /\ Len(Interpret(text).params) = Len(args) - Rest(args) + 1
    <3> DEFINE a == args
    <3>1. a \in Seq(Text) /\ a = SplitQuery(text) /\ a # <<>>
      BY <1>1, <1>4
    <3> HIDE DEF a
    <3> QED BY <3>1, Sizes
  <2> SUFFICES ASSUME Interpret(text) = e PROVE FALSE
    OBVIOUS
  <2>2. n = Rest(args) - 2 /\ m = Len(args) - Rest(args) + 1
    BY <2>1
  <2>3. j = 1 + n + m
    OBVIOUS
  <2> DEFINE r == Rest(args)
             k == Len(args)
  <2>4. r \in 2 .. k + 1 /\ k \in Nat /\ n = r - 2 /\ m = k - r + 1 /\ k < j
    BY <1>1, <2>1, <2>2
  <2> HIDE DEF args, n, m, r, k
  <2>5. r \in Int /\ n + m = k - 1
    BY <2>4
  <2>6. n \in Nat /\ m \in Nat /\ k < 1 + n + m
    BY <1>2, <2>3, <2>4
  <2> QED BY <2>4, <2>5, <2>6
<1> QED BY <1>3, <1>4

(* A command that leaves no word. *)
LEMMA NoCommand ==
  ASSUME NEW us \in Seq(Blanks), NEW vs \in Seq(Units)
  PROVE  Short(Read(Before, (<<>> \o Line(<<Space>>, vs)) \o Line(<<Space>>, us)), 1 + Len(vs) + Len(us))
<1> DEFINE a == Line(<<Space>>, vs)
           b == Line(<<Space>>, us)
<1>1. Before = Gap(<<>>, FALSE) /\ <<>> \in Seq(Text) /\ Len(<<>>) < 1
  BY EmptySeq DEF Before, Gap
<1>2. Short(Before, 1) /\ Before \in Reading
  BY <1>1, StatesAreReadings DEF Short
<1>3. vs \in Seq(Blanks) /\ us \in Seq(Text) /\ vs \in Seq(Text) /\ Len(vs) \in Nat
  <2>1. Units \subseteq Blanks
    BY DEF Blanks
  <2> QED BY <2>1, BlanksAreTexts, SeqMonotonic, LenProperties
<1>4. a \in Text /\ b \in Text /\ <<>> \o a = a
  <2>1. a \in Text /\ b \in Text
    BY <1>3, BlanksAreTexts, LineIsText
  <2> QED BY <2>1, ConcatEmptySeq DEF Text
<1>5. Short(Read(Before, a), 1 + Len(vs))
  BY <1>2, <1>3, ShortWords
<1>6. Short(Read(Read(Before, a), b), (1 + Len(vs)) + Len(us))
  <2>1. 1 + Len(vs) \in Nat
    BY <1>3
  <2> QED BY <1>5, <2>1, ShortWords
<1> HIDE DEF a, b
<1>7. Read(Before, (<<>> \o a) \o b) = Read(Read(Before, a), b)
  BY <1>2, <1>4, ReadBoth
<1> QED BY <1>6, <1>7 DEF a, b

(* What the builder wrote is read back just of a reversible entity. *)
LEMMA BuilderLine ==
  ASSUME NEW e \in Entities, PlainText(e)
  PROVE  Interpret(Build(e)) = e <=> Reversible(e)
<1> DEFINE f  == Builder
           n  == Len(e.options)
           m  == Len(e.params)
           ps == Pars(f, e)
           os == Opts(f, e)
<1>1. Build(e) = LineOf(f, <<Space>>, e) /\ <<Space>> \in Gaps
  BY BuiltLine DEF Gaps
<1>2. /\ e.command \in Bare /\ e.params \in Seq(Bare) /\ n \in Nat /\ m \in Nat
      /\ DOMAIN e.params = 1 .. m /\ \A i \in 1 .. m : e.params[i] \in Bare
  BY PlainWords, LenProperties, ElementOfSeq
<1>11. 1 + n + m \in Nat
  <2>1. n \in Nat /\ m \in Nat
    BY <1>2
  <2> HIDE DEF n, m
  <2> QED BY <2>1
<1>3. Wraps(f) /\ f[<<>>] = <<>> /\ \A w \in Bare : w # <<>> => f[w] \in Units
  BY BuilderWraps DEF Wraps
<1>4. /\ os \in Seq(Units) /\ Len(os) = n /\ ps \in Seq(Text) /\ Len(ps) = m
      /\ \A i \in 1 .. m : ps[i] = f[e.params[i]]
  BY <1>3, PartsOf
<1> HIDE DEF f
<1>5. \A w \in Bare : f[w] \in Units <=> w # <<>>
  BY <1>3 DEF Units
<1> HIDE DEF ps, os
<1>6. ps \in Seq(Blanks)
  <2>1. \A i \in 1 .. Len(ps) : ps[i] \in Blanks
    BY <1>2, <1>3, <1>4 DEF Blanks
  <2> QED BY <1>4, <2>1, SeqIn
<1>7. ps \in Seq(Units) <=> \A i \in DOMAIN e.params : e.params[i] # <<>>
  <2>1. ASSUME ps \in Seq(Units), NEW i \in 1 .. m PROVE e.params[i] # <<>>
    <3>1. ps[i] \in Units
      BY <1>4, <2>1, ElementOfSeq
    <3> QED BY <1>2, <1>4, <1>5, <3>1
  <2>2. ASSUME \A i \in 1 .. m : e.params[i] # <<>> PROVE ps \in Seq(Units)
    <3>1. \A i \in 1 .. Len(ps) : ps[i] \in Units
      BY <1>2, <1>4, <1>5, <2>2
    <3> QED BY <1>4, <3>1, SeqIn
  <2> QED BY <1>2, <2>1, <2>2
<1>8. CASE e.command = <<>>
  <2>1. Short(Read(Before, (<<>> \o Line(<<Space>>, os)) \o Line(<<Space>>, ps)), 1 + n + m)
    BY <1>4, <1>6, NoCommand
  <2>2. Build(e) = (<<>> \o Line(<<Space>>, os)) \o Line(<<Space>>, ps)
    BY <1>1, <1>3, <1>8 DEF LineOf, os, ps
  <2>3. Interpret(Build(e)) # e
    BY <1>11, <2>1, <2>2, ShortLineIsLost
  <2> QED BY <1>8, <2>3 DEF Reversible
<1>9. CASE e.command # <<>> /\ ps \notin Seq(Units)
  <2> DEFINE c == f[e.command]
             a == Line(<<Space>>, os)
             b == Line(<<Space>>, ps)
  <2>1. c \in Units /\ c \in Text /\ Before \in Reading /\ <<c>> \in Seq(Text) /\ Len(<<c>>) = 1
    <3>1. c \in Units /\ c \in Text
      BY <1>2, <1>5, <1>9 DEF Units
    <3>2. Before = Gap(<<>>, FALSE) /\ <<>> \in Seq(Text)
      BY EmptySeq DEF Before, Gap
    <3>3. Before \in Reading
      BY <3>2, StatesAreReadings
    <3> HIDE DEF c
    <3>4. <<c>> \in Seq(Text)
      BY <3>1, ShortTexts
    <3>5. Len(<<c>>) = 1
      OBVIOUS
    <3> QED BY <3>1, <3>3, <3>4, <3>5
  <2> HIDE DEF c
  <2>2. Done(Read(Before, c), <<c>>)
    BY <2>1, FirstWord
  <2>3. Done(Read(Read(Before, c), a), <<c>> \o os)
    BY <1>1, <1>4, <2>2, DoneWords
  <2>4. os \in Seq(Text) /\ Len(<<c>> \o os) = 1 + n
    <3>1. os \in Seq(Text)
      BY <1>4, SeqMonotonic DEF Units
    <3> QED BY <1>4, <2>1, <3>1, ConcatProperties
  <2>5. Short(Read(Read(Read(Before, c), a), b), (1 + n) + m)
    BY <1>4, <1>6, <1>9, <2>3, <2>4, AllOrShort
  <2>6. a \in Text /\ b \in Text /\ c \o a \in Text
    <3>1. a \in Text /\ b \in Text
      BY <1>4, <2>4, BlanksAreTexts, LineIsText
    <3> QED BY <2>1, <3>1, ConcatProperties DEF Text
  <2>7. Build(e) = (c \o a) \o b
    BY <1>1 DEF LineOf, os, ps, c
  <2> HIDE DEF a, b
  <2>8. Read(Before, (c \o a) \o b) = Read(Read(Read(Before, c), a), b)
    BY <2>1, <2>6, ReadBoth
  <2>9. Interpret(Build(e)) # e
    BY <1>11, <2>5, <2>7, <2>8, ShortLineIsLost
  <2> QED BY <1>7, <1>9, <2>9 DEF Reversible
<1>10. CASE e.command # <<>> /\ ps \in Seq(Units)
  <2>1. f[e.command] \in Units
    BY <1>2, <1>5, <1>10
  <2>2. ASSUME e.params # <<>> => ~IsOption(e.params[1]) \/ Has(e.params[1], Space)
        PROVE  Interpret(Build(e)) = e
    BY <1>1, <1>3, <1>10, <2>1, <2>2, GoodLine DEF ps
  <2>3. ASSUME e.params # <<>>, IsOption(e.params[1]), ~Has(e.params[1], Space)
        PROVE  Interpret(Build(e)) # e
    BY <1>1, <1>3, <1>10, <2>1, <2>3, OptionLine DEF ps
  <2> QED BY <1>7, <1>10, <2>2, <2>3 DEF Reversible
<1> QED BY <1>8, <1>9, <1>10

(* What a user typed is read as it was meant. *)
LEMMA UserLine ==
  ASSUME NEW e \in Entities, PlainText(e), NEW gap \in Gaps,
         e.params # <<>> => ~IsOption(e.params[1]) \/ Has(e.params[1], Space)
  PROVE  Interpret(Typed(e, gap)) = e
<1> DEFINE f  == User
           ps == Pars(f, e)
<1>1. Typed(e, gap) = LineOf(f, gap, e)
  BY TypedLine
<1>2. Wraps(f) /\ \A w \in Bare : f[w] \in Units
  BY UserWraps
<1>3. e.command \in Bare /\ e.params \in Seq(Bare) /\ \A i \in 1 .. Len(e.params) : e.params[i] \in Bare
  BY PlainWords, ElementOfSeq
<1> HIDE DEF f
<1>4. ps \in Seq(Text) /\ \A i \in 1 .. Len(ps) : ps[i] \in Units
  <2>1. ps \in Seq(Text) /\ Len(ps) = Len(e.params) /\ \A i \in 1 .. Len(e.params) : ps[i] = f[e.params[i]]
    BY <1>2, PartsOf
  <2> HIDE DEF ps
  <2> QED BY <1>2, <1>3, <2>1
<1>5. ps \in Seq(Units)
  <2> HIDE DEF ps
  <2> QED BY <1>4, SeqIn
<1> QED BY <1>1, <1>2, <1>3, <1>5, GoodLine

(* Every entity is read back, from what the builder wrote and from what a  *)
(* user typed, just when it can be (protocol_interpreter.cpp:5-118,        *)
(* command_builder.cpp:48-69): whatever the characters and however long    *)
(* the words.                                                              *)
THEOREM LinesAreReadBackAlways == Spec => []LinesAreReadBack
<1>1. WInv => LinesAreReadBack
  <2> SUFFICES ASSUME WInv PROVE LinesAreReadBack
    OBVIOUS
  <2>1. entity \in Entities
    BY DEF WInv, ReceptionInv, WireTypeOK
  <2>2. BuilderIsReversed
    BY <2>1, BuilderLine DEF BuilderIsReversed
  <2>3. TypedLinesAreRead
    BY <2>1, UserLine DEF TypedLinesAreRead, Gaps
  <2> QED BY <2>2, <2>3 DEF LinesAreReadBack
<1>2. Spec => []WInv
  BY WireInvariant
<1> QED BY <1>1, <1>2, PTL
=============================================================================
