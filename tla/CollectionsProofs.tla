------------------------- MODULE CollectionsProofs -------------------------
(***************************************************************************)
(* Lemmas about sequences, dictionaries, sorted() and sums, for the proofs *)
(* about the offline scripts.                                              *)
(*                                                                         *)
(* FlattenSeq is defined by recursion, InOrder by CHOOSE.  What holds of   *)
(* them for every length is shown by looking at the shortest sequence, or  *)
(* the smallest set, for which it would fail (SmallestOf).                 *)
(***************************************************************************)
EXTENDS Collections, Sequences, SequencesExt, FiniteSetTheorems, SequenceTheorems,
        WellFoundedInduction, TLAPS

\* A set of numbers that is not empty has a smallest one: what the proofs use
\* for induction.
LEMMA SmallestOf ==
  ASSUME NEW T, T \subseteq Nat, T # {}
  PROVE  \E x \in T : \A y \in T : x <= y
<1>1. IsWellFoundedOn(OpToRel(<, Nat), Nat)
  BY NatLessThanWellFounded
<1>2. PICK x \in T : \A y \in T : <<y, x>> \notin OpToRel(<, Nat)
  BY <1>1, WFMin
<1>3. \A y \in T : ~(y < x)
  BY <1>2 DEF OpToRel
<1> QED BY <1>3

LEMMA MinIs ==
  ASSUME NEW T, T \subseteq Nat, T # {}
  PROVE  Min(T) \in T /\ \A y \in T : Min(T) <= y
<1>1. \E x \in T : \A y \in T : x <= y
  BY SmallestOf
<1> QED BY <1>1, Zenon DEF Min

LEMMA MaxIs ==
  ASSUME NEW n \in Nat, NEW T, T \subseteq 1 .. n, T # {}
  PROVE  Max(T) \in T /\ \A y \in T : Max(T) >= y
<1> DEFINE D == {n - x : x \in T}
<1>a. \A x \in T : n - x \in Nat
  OBVIOUS
<1>1. D \subseteq Nat /\ D # {}
  BY <1>a, Zenon
<1> HIDE DEF D
<1>2. PICK d \in D : \A y \in D : d <= y
  BY <1>1, SmallestOf
<1>3. PICK x \in T : d = n - x
  BY DEF D
<1>4. \A y \in T : x >= y
  <2> SUFFICES ASSUME NEW y \in T PROVE x >= y
    OBVIOUS
  <2>1. n - x <= n - y
    BY <1>2, <1>3 DEF D
  <2> QED BY <2>1
<1>5. \E z \in T : \A y \in T : z >= y
  BY <1>4
<1> QED BY <1>5, Zenon DEF Max

-----------------------------------------------------------------------------
\* FlattenSeq.

\* g is what FlattenSeq calls flatten, for the first n sequences of ss.
IsFlat(g, ss, n) == g = [i \in 1 .. n |-> IF i = 1 THEN ss[i] ELSE g[i - 1] \o ss[i]]

Flat(ss) == CHOOSE g : IsFlat(g, ss, Len(ss))

LEMMA FlatOf ==
  ASSUME NEW ss
  PROVE  FlattenSeq(ss) = IF Len(ss) = 0 THEN ss ELSE Flat(ss)[Len(ss)]
BY Zenon DEF FlattenSeq, Flat, IsFlat

LEMMA FlatExists ==
  ASSUME NEW ss, NEW n \in Nat
  PROVE  \E g : IsFlat(g, ss, n)
<1> DEFINE T == {k \in Nat : ~ \E g : IsFlat(g, ss, k)}
<1>1. CASE T = {}
  BY <1>1
<1>2. CASE T # {}
  <2>1. PICK x \in T : \A y \in T : x <= y
    BY <1>2, SmallestOf
  <2>2. CASE x = 0
    <3>1. IsFlat([k \in 1 .. 0 |-> <<>>], ss, 0)
      BY DEF IsFlat
    <3> QED BY <2>1, <2>2, <3>1
  <2>3. CASE x # 0
    <3>1. x - 1 \in Nat /\ x - 1 \notin T /\ x \in Nat
      BY <2>1, <2>3
    <3>2. PICK g : IsFlat(g, ss, x - 1)
      BY <3>1
    <3> DEFINE last == IF x = 1 THEN ss[x] ELSE g[x - 1] \o ss[x]
               h == [k \in 1 .. x |-> IF k = x THEN last ELSE g[k]]
    <3> HIDE DEF last
    <3>3. \A k \in 1 .. x : h[k] = IF k = 1 THEN ss[k] ELSE h[k - 1] \o ss[k]
      <4> SUFFICES ASSUME NEW k \in 1 .. x
                   PROVE  h[k] = IF k = 1 THEN ss[k] ELSE h[k - 1] \o ss[k]
        OBVIOUS
      <4>1. CASE k = x
        <5>1. h[x] = last
          BY <3>1, <2>3
        <5>2. x # 1 => h[x - 1] = g[x - 1]
          BY <3>1, <2>3
        <5> HIDE DEF h
        <5> QED BY <4>1, <5>1, <5>2 DEF last
      <4>2. CASE k # x
        <5>1. k \in 1 .. x - 1 /\ h[k] = g[k]
          BY <3>1, <4>2
        <5>2. g[k] = IF k = 1 THEN ss[k] ELSE g[k - 1] \o ss[k]
          BY <3>2, <5>1 DEF IsFlat
        <5>3. k # 1 => k - 1 \in 1 .. x /\ k - 1 # x
          BY <5>1, <3>1
        <5> QED BY <5>1, <5>2, <5>3
      <4> QED BY <4>1, <4>2
    <3>4. IsFlat(h, ss, x)
      <4>1. DOMAIN h = 1 .. x /\ h = [k \in DOMAIN h |-> h[k]]
        OBVIOUS
      <4> HIDE DEF h
      <4> QED BY <4>1, <3>3 DEF IsFlat
    <3> QED BY <2>1, <3>4
  <2> QED BY <2>2, <2>3
<1> QED BY <1>1, <1>2

LEMMA FlatIs == ASSUME NEW ss, Len(ss) \in Nat PROVE IsFlat(Flat(ss), ss, Len(ss))
<1>1. \E g : IsFlat(g, ss, Len(ss))
  BY FlatExists
<1> QED BY <1>1, Zenon DEF Flat

SameUpTo(s, t, n) == \A k \in 1 .. n : s[k] = t[k]

LEMMA FlatsAgree ==
  ASSUME NEW f, NEW g, NEW s, NEW t, NEW m \in Nat \ {0}, NEW n \in Nat,
         IsFlat(f, s, m), IsFlat(g, t, n), m <= n, SameUpTo(s, t, m)
  PROVE  f[m] = g[m]
<1> DEFINE T == {k \in 1 .. m : f[k] # g[k]}
<1>1. CASE T = {}
  BY <1>1
<1>2. CASE T # {}
  <2>1. PICK x \in T : \A y \in T : x <= y
    <3>1. T \subseteq Nat
      OBVIOUS
    <3> HIDE DEF T
    <3> QED BY <1>2, <3>1, SmallestOf
  <2>2. \A k \in 1 .. m : /\ f[k] = IF k = 1 THEN s[k] ELSE f[k - 1] \o s[k]
                          /\ g[k] = IF k = 1 THEN t[k] ELSE g[k - 1] \o t[k]
    <3>1. \A k \in 1 .. m : k \in 1 .. n
      OBVIOUS
    <3>2. \A k \in 1 .. n : g[k] = IF k = 1 THEN t[k] ELSE g[k - 1] \o t[k]
      BY DEF IsFlat
    <3>3. \A k \in 1 .. m : f[k] = IF k = 1 THEN s[k] ELSE f[k - 1] \o s[k]
      BY DEF IsFlat
    <3> QED BY <3>1, <3>2, <3>3
  <2>3. x \in 1 .. m /\ s[x] = t[x]
    BY <2>1 DEF SameUpTo
  <2>4. x # 1
    BY <2>1, <2>2, <2>3
  <2>5. x - 1 \in 1 .. m /\ x - 1 \notin T
    BY <2>1, <2>3, <2>4
  <2>6. f[x - 1] = g[x - 1]
    BY <2>5
  <2> QED BY <2>1, <2>2, <2>3, <2>4, <2>6
<1> QED BY <1>1, <1>2

LEMMA FlattenEmpty == FlattenSeq(<<>>) = <<>>
BY FlatOf, Len(<<>>) = 0, Zenon

\* One sequence more.
LEMMA FlattenAppend ==
  ASSUME NEW S, NEW ss \in Seq(Seq(S)), NEW e \in Seq(S)
  PROVE  FlattenSeq(Append(ss, e)) = FlattenSeq(ss) \o e
<1> DEFINE tt == Append(ss, e)
           n == Len(ss)
<1>1. /\ n \in Nat /\ Len(tt) = n + 1 /\ Len(tt) \in Nat /\ tt[n + 1] = e
      /\ \A k \in 1 .. n : tt[k] = ss[k]
  OBVIOUS
<1>2. FlattenSeq(tt) = Flat(tt)[n + 1]
  <2>1. Len(tt) # 0
    BY <1>1
  <2> QED BY <1>1, <2>1, FlatOf
<1>3. IsFlat(Flat(tt), tt, n + 1) /\ IsFlat(Flat(ss), ss, n)
  BY <1>1, FlatIs
<1> HIDE DEF tt
<1>4. CASE n = 0
  <2>1. ss = <<>>
    BY <1>4
  <2>2. FlattenSeq(ss) \o e = e
    BY <2>1, FlattenEmpty, ConcatEmptySeq
  <2>3. Flat(tt)[1] = tt[1]
    BY <1>3, <1>4 DEF IsFlat
  <2> QED BY <1>1, <1>2, <1>4, <2>2, <2>3 DEF tt
<1>5. CASE n # 0
  <2>1. Flat(tt)[n + 1] = Flat(tt)[n] \o e
    <3>1. n + 1 \in 1 .. n + 1 /\ n + 1 # 1 /\ (n + 1) - 1 = n
      BY <1>1, <1>5
    <3> QED BY <1>1, <1>3, <3>1, ZenonT(60) DEF IsFlat
  <2>2. Flat(ss)[n] = Flat(tt)[n]
    <3>1. SameUpTo(ss, tt, n) /\ n + 1 \in Nat /\ n <= n + 1 /\ n \in Nat \ {0}
      BY <1>1, <1>5 DEF SameUpTo
    <3> HIDE DEF n
    <3> QED BY <1>3, <3>1, FlatsAgree
  <2>3. FlattenSeq(ss) = Flat(ss)[n]
    BY <1>5, FlatOf
  <2> QED BY <1>2, <2>1, <2>2, <2>3 DEF tt
<1> QED BY <1>4, <1>5

\* A sequence is its beginning and its last element.
LEMMA Split ==
  ASSUME NEW S, NEW s \in Seq(S), NEW n \in Nat, Len(s) = n + 1
  PROVE  /\ SubSeq(s, 1, n) \in Seq(S) /\ Len(SubSeq(s, 1, n)) = n /\ s[n + 1] \in S
         /\ s = Append(SubSeq(s, 1, n), s[n + 1])
         /\ \A i \in 1 .. n : SubSeq(s, 1, n)[i] = s[i]
<1> DEFINE front == SubSeq(s, 1, n)
           e == s[n + 1]
<1>1. /\ front \in Seq(S) /\ Len(front) = n /\ e \in S
      /\ \A i \in 1 .. n : front[i] = s[i]
  OBVIOUS
<1>2. e = s[n + 1]
  OBVIOUS
<1> HIDE DEF front, e
<1>3. /\ Append(front, e) \in Seq(S) /\ Len(Append(front, e)) = n + 1
      /\ \A i \in 1 .. n : Append(front, e)[i] = front[i]
      /\ Append(front, e)[n + 1] = e
  BY <1>1
<1>4. \A i \in 1 .. n + 1 : Append(front, e)[i] = s[i]
  BY <1>1, <1>2, <1>3
<1>5. s = Append(front, e)
  BY <1>3, <1>4, SeqEqual
<1> QED BY <1>1, <1>5 DEF front, e

\* What holds of the sequences and of the concatenation of any two such sequences
\* holds of the whole.
LEMMA FlattenIn ==
  ASSUME NEW S, NEW W, W \subseteq Seq(S), <<>> \in W, \A x, y \in W : x \o y \in W,
         NEW ss \in Seq(W)
  PROVE  FlattenSeq(ss) \in W
<1> DEFINE T == {n \in Nat : \E tt \in Seq(W) : Len(tt) = n /\ FlattenSeq(tt) \notin W}
<1>1. CASE T = {}
  <2>1. Len(ss) \in Nat
    OBVIOUS
  <2> QED BY <1>1, <2>1
<1>2. CASE T # {}
  <2>1. PICK n \in T : \A m \in T : n <= m
    <3>1. T \subseteq Nat
      OBVIOUS
    <3> HIDE DEF T
    <3> QED BY <1>2, <3>1, SmallestOf
  <2>2. PICK tt \in Seq(W) : Len(tt) = n /\ FlattenSeq(tt) \notin W
    BY <2>1
  <2>3. tt # <<>> /\ n \in Nat \ {0}
    <3>1. tt # <<>>
      BY <2>2, FlattenEmpty
    <3> QED BY <2>1, <2>2, <3>1
  <2> DEFINE front == SubSeq(tt, 1, n - 1)
  <2>4. front \in Seq(W) /\ Len(front) = n - 1 /\ tt[n] \in W /\ tt = Append(front, tt[n])
    <3>1. n - 1 \in Nat /\ (n - 1) + 1 = n
      BY <2>3
    <3> QED BY <2>2, <3>1, Split, SMTT(30)
  <2> HIDE DEF front
  <2>5. FlattenSeq(front) \in W
    <3>1. n - 1 \in Nat /\ ~(n <= n - 1)
      BY <2>3
    <3>2. n - 1 \notin T
      BY <2>1, <3>1
    <3> QED BY <2>4, <3>1, <3>2
  <2>6. front \in Seq(Seq(S)) /\ tt[n] \in Seq(S)
    <3>1. front \in Seq(Seq(S))
      BY <2>4, SeqMonotonic
    <3> QED BY <2>4, <3>1
  <2>7. FlattenSeq(Append(front, tt[n])) = FlattenSeq(front) \o tt[n]
    BY <2>6, FlattenAppend
  <2> QED BY <2>2, <2>4, <2>5, <2>7
<1> QED BY <1>1, <1>2

\* The first sequence comes off at the front.
LEMMA FlattenTail ==
  ASSUME NEW S, NEW ss \in Seq(Seq(S)), ss # <<>>
  PROVE  FlattenSeq(ss) = Head(ss) \o FlattenSeq(Tail(ss))
<1> DEFINE Splits(tt) == FlattenSeq(tt) = Head(tt) \o FlattenSeq(Tail(tt))
           T == {n \in Nat : \E tt \in Seq(Seq(S)) : Len(tt) = n + 1 /\ ~Splits(tt)}
<1>a. \A x \in Seq(S) : \A y \in Seq(S) : \A z \in Seq(S) : (x \o y) \o z = x \o (y \o z)
  <2> SUFFICES ASSUME NEW x \in Seq(S), NEW y \in Seq(S), NEW z \in Seq(S)
               PROVE  (x \o y) \o z = x \o (y \o z)
    OBVIOUS
  <2> HIDE DEF T, Splits
  <2> QED BY ConcatAssociative, SMTT(30)
<1>1. CASE T = {}
  <2>1. Len(ss) - 1 \in Nat /\ Len(ss) = (Len(ss) - 1) + 1
    OBVIOUS
  <2>2. Len(ss) - 1 \notin T
    BY <1>1
  <2> QED BY <2>1, <2>2
<1>2. CASE T # {}
  <2>1. PICK n \in T : \A m \in T : n <= m
    <3>1. T \subseteq Nat
      OBVIOUS
    <3> HIDE DEF T
    <3> QED BY <1>2, <3>1, SmallestOf
  <2>2. PICK tt \in Seq(Seq(S)) : Len(tt) = n + 1 /\ ~Splits(tt)
    BY <2>1
  <2> DEFINE front == SubSeq(tt, 1, n)
             e == tt[n + 1]
  <2>3. n \in Nat
    BY <2>1
  <2>4. front \in Seq(Seq(S)) /\ Len(front) = n /\ e \in Seq(S) /\ tt = Append(front, e)
    BY <2>2, <2>3, Split
  <2>a. \A i \in 1 .. n : front[i] = tt[i]
    BY <2>2, <2>3, Split
  <2> HIDE DEF front, e
  <2>5. FlattenSeq(tt) = FlattenSeq(front) \o e
    BY <2>4, FlattenAppend
  <2>6. CASE n = 0
    <3>1. front = <<>> /\ Tail(tt) = <<>> /\ Head(tt) = e
      BY <2>4, <2>6
    <3>2. <<>> \o e = e /\ e \o <<>> = e
      BY <2>4, ConcatEmptySeq
    <3>3. Splits(tt)
      BY <2>5, <3>1, <3>2, FlattenEmpty
    <3> QED BY <2>2, <3>3
  <2>7. CASE n # 0
    <3>1. n - 1 \in Nat /\ ~(n <= n - 1) /\ (n - 1) + 1 = n
      BY <2>3, <2>7
    <3>2. Splits(front)
      BY <2>1, <2>4, <3>1
    <3>3. /\ Head(front) \in Seq(S) /\ Tail(front) \in Seq(Seq(S))
          /\ Head(tt) = Head(front) /\ Tail(tt) = Append(Tail(front), e)
      <4>1. front # <<>>
        BY <2>4, <2>7
      <4>2. /\ Head(front) \in Seq(S) /\ Tail(front) \in Seq(Seq(S)) /\ Len(Tail(front)) = n - 1
            /\ \A i \in 1 .. n - 1 : Tail(front)[i] = front[i + 1]
        BY <2>4, <4>1, <3>1
      <4>3. Head(tt) = Head(front)
        BY <2>4, <4>1, <3>1
      <4>4. /\ Tail(tt) \in Seq(Seq(S)) /\ Len(Tail(tt)) = n
            /\ \A i \in 1 .. n : Tail(tt)[i] = tt[i + 1]
        BY <2>2, <3>1
      <4>5. /\ Append(Tail(front), e) \in Seq(Seq(S)) /\ Len(Append(Tail(front), e)) = n
            /\ \A i \in 1 .. n - 1 : Append(Tail(front), e)[i] = front[i + 1]
            /\ Append(Tail(front), e)[n] = e
        BY <2>4, <4>2, <3>1, SMTT(30)
      <4>6. \A i \in 1 .. n : Tail(tt)[i] = Append(Tail(front), e)[i]
        <5> SUFFICES ASSUME NEW i \in 1 .. n PROVE tt[i + 1] = Append(Tail(front), e)[i]
          BY <4>4
        <5>1. CASE i = n
          BY <4>5, <5>1 DEF e
        <5>2. CASE i # n
          <6>1. i \in 1 .. n - 1 /\ i + 1 \in 1 .. n
            BY <2>2, <3>1, <5>2
          <6> QED BY <2>4, <2>a, <4>5, <6>1
        <5> QED BY <5>1, <5>2
      <4> QED BY <4>2, <4>3, <4>4, <4>5, <4>6, SeqEqual
    <3>4. FlattenSeq(Append(Tail(front), e)) = FlattenSeq(Tail(front)) \o e
      BY <2>4, <3>3, FlattenAppend
    <3>5. FlattenSeq(Tail(front)) \in Seq(S)
      <4>1. <<>> \in Seq(S) /\ \A x, y \in Seq(S) : x \o y \in Seq(S)
        OBVIOUS
      <4> QED BY <3>3, <4>1, FlattenIn
    <3>6. (Head(front) \o FlattenSeq(Tail(front))) \o e
             = Head(front) \o (FlattenSeq(Tail(front)) \o e)
      <4> DEFINE x == Head(front)
                 y == FlattenSeq(Tail(front))
      <4>1. x \in Seq(S) /\ y \in Seq(S) /\ e \in Seq(S)
        BY <2>4, <3>3, <3>5
      <4> HIDE DEF x, y, T, Splits
      <4>2. (x \o y) \o e = x \o (y \o e)
        BY <1>a, <4>1, Zenon
      <4> QED BY <4>2 DEF x, y
    <3>7. Splits(tt)
      BY <2>5, <3>2, <3>3, <3>4, <3>6
    <3> QED BY <2>2, <3>7
  <2> QED BY <2>6, <2>7
<1> QED BY <1>1, <1>2

\* Where each element of the whole comes from: from sequence a[k], place b[k].
ComesFrom(a, b, ss) ==
  LET whole == FlattenSeq(ss) IN
  /\ a \in [1 .. Len(whole) -> 1 .. Len(ss)] /\ b \in [1 .. Len(whole) -> Nat]
  /\ \A k \in 1 .. Len(whole) : b[k] \in 1 .. Len(ss[a[k]]) /\ whole[k] = ss[a[k]][b[k]]
  /\ \A k, l \in 1 .. Len(whole) : a[k] = a[l] /\ b[k] = b[l] => k = l
  /\ \A k, l \in 1 .. Len(whole) : k < l => a[k] <= a[l]
  /\ \A i \in 1 .. Len(ss) : \A j \in 1 .. Len(ss[i]) :
       \E k \in 1 .. Len(whole) : a[k] = i /\ b[k] = j

LEMMA ComesFromOneMore ==
  ASSUME NEW S, NEW ss \in Seq(Seq(S)), NEW e \in Seq(S), NEW a, NEW b, ComesFrom(a, b, ss),
         FlattenSeq(ss) \in Seq(S)
  PROVE  \E c, d : ComesFrom(c, d, Append(ss, e))
<1> DEFINE w == FlattenSeq(ss)
           m == Len(w)
           n == Len(ss)
           tt == Append(ss, e)
           v == FlattenSeq(tt)
           c == [k \in 1 .. m + Len(e) |-> IF k <= m THEN a[k] ELSE n + 1]
           d == [k \in 1 .. m + Len(e) |-> IF k <= m THEN b[k] ELSE k - m]
<1>1. v = w \o e
  BY FlattenAppend
<1>2. /\ m \in Nat /\ n \in Nat /\ Len(e) \in Nat /\ Len(v) = m + Len(e) /\ Len(tt) = n + 1
      /\ \A k \in 1 .. m : v[k] = w[k]
      /\ \A j \in 1 .. Len(e) : v[m + j] = e[j]
      /\ tt[n + 1] = e /\ \A i \in 1 .. n : tt[i] = ss[i]
  BY <1>1
<1>3. /\ a \in [1 .. m -> 1 .. n] /\ b \in [1 .. m -> Nat]
      /\ \A k \in 1 .. m : b[k] \in 1 .. Len(ss[a[k]]) /\ w[k] = ss[a[k]][b[k]]
      /\ \A k, l \in 1 .. m : a[k] = a[l] /\ b[k] = b[l] => k = l
      /\ \A k, l \in 1 .. m : k < l => a[k] <= a[l]
      /\ \A i \in 1 .. n : \A j \in 1 .. Len(ss[i]) : \E k \in 1 .. m : a[k] = i /\ b[k] = j
  BY DEF ComesFrom
<1> HIDE DEF w, n, tt, v
<1>4. /\ \A k \in 1 .. m : c[k] = a[k] /\ d[k] = b[k]
      /\ \A j \in 1 .. Len(e) : c[m + j] = n + 1 /\ d[m + j] = j
      /\ c \in [1 .. m + Len(e) -> 1 .. n + 1] /\ d \in [1 .. m + Len(e) -> Nat]
  <2>1. ASSUME NEW k \in 1 .. m PROVE k \in 1 .. m + Len(e) /\ k <= m
    BY <1>2
  <2>2. ASSUME NEW j \in 1 .. Len(e)
        PROVE  m + j \in 1 .. m + Len(e) /\ ~(m + j <= m) /\ (m + j) - m = j
    BY <1>2
  <2>3. ASSUME NEW k \in 1 .. m + Len(e), ~(k <= m) PROVE k - m \in Nat
    BY <1>2, <2>3
  <2>4. ASSUME NEW k \in 1 .. m + Len(e), k <= m
        PROVE  a[k] \in 1 .. n + 1 /\ b[k] \in Nat
    <3>1. k \in 1 .. m
      BY <1>2, <2>4
    <3>2. a[k] \in 1 .. n /\ b[k] \in Nat
      BY <1>3, <3>1
    <3> QED BY <1>2, <3>2
  <2>5. n + 1 \in 1 .. n + 1
    BY <1>2
  <2> HIDE DEF m
  <2> QED BY <2>1, <2>2, <2>3, <2>4, <2>5
<1> HIDE DEF c, d, m
<1>5. \A k \in 1 .. m + Len(e) : k \in 1 .. m \/ \E j \in 1 .. Len(e) : k = m + j
  <2> SUFFICES ASSUME NEW k \in 1 .. m + Len(e), k \notin 1 .. m
               PROVE  \E j \in 1 .. Len(e) : k = m + j
    OBVIOUS
  <2>1. k - m \in 1 .. Len(e) /\ k = m + (k - m)
    BY <1>2
  <2> QED BY <2>1
<1>6. ASSUME NEW k \in 1 .. m + Len(e)
      PROVE  d[k] \in 1 .. Len(tt[c[k]]) /\ v[k] = tt[c[k]][d[k]]
  <2>1. CASE k \in 1 .. m
    <3>1. a[k] \in 1 .. n /\ tt[a[k]] = ss[a[k]] /\ c[k] = a[k] /\ d[k] = b[k]
      BY <1>2, <1>3, <1>4, <2>1
    <3>2. b[k] \in 1 .. Len(ss[a[k]]) /\ v[k] = ss[a[k]][b[k]]
      BY <1>2, <1>3, <2>1
    <3> QED BY <3>1, <3>2
  <2>2. ASSUME NEW j \in 1 .. Len(e), k = m + j
        PROVE  d[k] \in 1 .. Len(tt[c[k]]) /\ v[k] = tt[c[k]][d[k]]
    <3>1. c[k] = n + 1 /\ d[k] = j
      BY <1>4, <2>2
    <3>2. tt[n + 1] = e /\ v[k] = e[j]
      BY <1>2, <2>2
    <3> QED BY <2>2, <3>1, <3>2
  <2> QED BY <1>5, <2>1, <2>2
<1>7. ASSUME NEW k \in 1 .. m + Len(e), NEW l \in 1 .. m + Len(e), c[k] = c[l], d[k] = d[l]
      PROVE  k = l
  <2>1. \A i \in 1 .. m : a[i] \in 1 .. n /\ a[i] # n + 1
    BY <1>2, <1>3
  <2>2. CASE k \in 1 .. m
    <3>1. l \in 1 .. m
      BY <1>4, <1>5, <1>7, <2>1, <2>2
    <3> QED BY <1>3, <1>4, <1>7, <2>2, <3>1
  <2>3. ASSUME NEW j \in 1 .. Len(e), k = m + j PROVE k = l
    <3>1. l \notin 1 .. m
      BY <1>4, <1>7, <2>1, <2>3
    <3>2. PICK i \in 1 .. Len(e) : l = m + i
      BY <1>5, <3>1
    <3> QED BY <1>4, <1>7, <2>3, <3>2
  <2> QED BY <1>5, <2>2, <2>3
<1>8. ASSUME NEW i \in 1 .. n + 1, NEW j \in 1 .. Len(tt[i])
      PROVE  \E k \in 1 .. m + Len(e) : c[k] = i /\ d[k] = j
  <2>1. CASE i \in 1 .. n
    <3>1. PICK k \in 1 .. m : a[k] = i /\ b[k] = j
      <4>1. j \in 1 .. Len(ss[i])
        BY <1>2, <2>1
      <4> QED BY <1>3, <2>1, <4>1, Zenon
    <3>2. k \in 1 .. m + Len(e)
      BY <1>2
    <3> QED BY <1>4, <3>1, <3>2
  <2>2. CASE i = n + 1
    <3>1. j \in 1 .. Len(e) /\ m + j \in 1 .. m + Len(e)
      BY <1>2, <2>2
    <3> QED BY <1>4, <2>2, <3>1
  <2>3. i \in 1 .. n \/ i = n + 1
    BY <1>2
  <2> QED BY <2>1, <2>2, <2>3, Zenon
<1>9. ASSUME NEW k \in 1 .. m + Len(e), NEW l \in 1 .. m + Len(e), k < l
      PROVE  c[k] <= c[l]
  <2>1. c[k] \in 1 .. n + 1 /\ c[l] \in 1 .. n + 1
    BY <1>4
  <2>2. CASE l \in 1 .. m
    <3>1. k \in 1 .. m
      BY <1>2, <1>9, <2>2
    <3>2. a[k] <= a[l]
      BY <1>3, <1>9, <2>2, <3>1
    <3> QED BY <1>4, <2>2, <3>1, <3>2
  <2>3. CASE \E j \in 1 .. Len(e) : l = m + j
    <3>1. c[l] = n + 1
      BY <1>4, <2>3
    <3> QED BY <1>2, <2>1, <3>1
  <2> QED BY <1>5, <2>2, <2>3
<1>10. ComesFrom(c, d, tt)
  BY <1>2, <1>4, <1>6, <1>7, <1>8, <1>9 DEF ComesFrom, v
<1> QED BY <1>10 DEF tt

LEMMA FlattenPlaces ==
  ASSUME NEW S, NEW ss \in Seq(Seq(S))
  PROVE  \E a, b : ComesFrom(a, b, ss)
<1> DEFINE Fails(tt) == ~ \E a, b : ComesFrom(a, b, tt)
           T == {n \in Nat : \E tt \in Seq(Seq(S)) : Len(tt) = n /\ Fails(tt)}
<1>1. CASE T = {}
  <2>1. Len(ss) \in Nat
    OBVIOUS
  <2> HIDE DEF Fails
  <2>2. ~Fails(ss)
    BY <1>1, <2>1
  <2> QED BY <2>2 DEF Fails
<1>2. CASE T # {}
  <2>1. PICK n \in T : \A m \in T : n <= m
    <3>1. T \subseteq Nat
      OBVIOUS
    <3> HIDE DEF T
    <3> QED BY <1>2, <3>1, SmallestOf
  <2>2. PICK tt \in Seq(Seq(S)) : Len(tt) = n /\ Fails(tt)
    BY <2>1
  <2>3. n \in Nat \ {0}
    <3>1. CASE n = 0
      <4>1. tt = <<>> /\ FlattenSeq(tt) = <<>>
        BY <2>2, <3>1, FlattenEmpty
      <4>2. ComesFrom(<<>>, <<>>, tt)
        BY <4>1 DEF ComesFrom
      <4> QED BY <2>2, <4>2
    <3> QED BY <2>1, <3>1
  <2> DEFINE front == SubSeq(tt, 1, n - 1)
  <2>4. front \in Seq(Seq(S)) /\ Len(front) = n - 1 /\ tt[n] \in Seq(S) /\ tt = Append(front, tt[n])
    <3>1. n - 1 \in Nat /\ (n - 1) + 1 = n
      BY <2>3
    <3> QED BY <2>2, <3>1, Split, SMTT(30)
  <2> HIDE DEF front, Fails
  <2>5. ~Fails(front)
    <3>1. n - 1 \in Nat /\ ~(n <= n - 1)
      BY <2>3
    <3>2. n - 1 \notin T
      BY <2>1, <3>1
    <3> QED BY <2>4, <3>1, <3>2
  <2>6. PICK a, b : ComesFrom(a, b, front)
    BY <2>5 DEF Fails
  <2>7. FlattenSeq(front) \in Seq(S)
    <3>1. <<>> \in Seq(S) /\ \A x, y \in Seq(S) : x \o y \in Seq(S)
      OBVIOUS
    <3> QED BY <2>4, <3>1, FlattenIn
  <2>8. \E c, d : ComesFrom(c, d, Append(front, tt[n]))
    BY <2>4, <2>6, <2>7, ComesFromOneMore
  <2>9. ~Fails(tt)
    BY <2>4, <2>8 DEF Fails
  <2> QED BY <2>2, <2>9
<1> QED BY <1>1, <1>2

-----------------------------------------------------------------------------
\* InOrder.

Lower(S, x) == {y \in S : y < x}

LEMMA LowerIs ==
  ASSUME NEW S, S \subseteq Nat, IsFiniteSet(S), NEW x \in S
  PROVE  /\ IsFiniteSet(Lower(S, x)) /\ Cardinality(Lower(S, x)) \in Nat
         /\ IsFiniteSet(Lower(S, x) \cup {x})
         /\ Cardinality(Lower(S, x) \cup {x}) = Cardinality(Lower(S, x)) + 1
<1>1. Lower(S, x) \in SUBSET S /\ x \notin Lower(S, x)
  BY DEF Lower
<1>2. IsFiniteSet(Lower(S, x))
  BY <1>1, FS_Subset
<1> QED BY <1>1, <1>2, FS_AddElement, FS_CardinalityType

\* For each number below its size, a set has a member with so many below it.
LEMMA PlaceExists ==
  ASSUME NEW S, S \subseteq Nat, IsFiniteSet(S), NEW i \in 1 .. Cardinality(S)
  PROVE  \E x \in S : Cardinality(Lower(S, x)) = i - 1
<1> DEFINE Fails(R, j) == j \in 1 .. Cardinality(R)
                          /\ ~ \E x \in R : Cardinality(Lower(R, x)) = j - 1
           T == {n \in Nat : \E R \in SUBSET Nat : /\ IsFiniteSet(R) /\ Cardinality(R) = n
                                                   /\ \E j \in Nat : Fails(R, j)}
<1>1. CASE T = {}
  <2>1. Cardinality(S) \in Nat /\ i \in Nat
    BY FS_CardinalityType
  <2>2. ~Fails(S, i)
    BY <1>1, <2>1
  <2> QED BY <2>2
<1>2. CASE T # {}
  <2>1. PICK n \in T : \A m \in T : n <= m
    <3>1. T \subseteq Nat
      OBVIOUS
    <3> HIDE DEF T
    <3> QED BY <1>2, <3>1, SmallestOf
  <2>2. PICK R \in SUBSET Nat : /\ IsFiniteSet(R) /\ Cardinality(R) = n
                                /\ \E j \in Nat : Fails(R, j)
    BY <2>1
  <2>3. PICK j \in Nat : Fails(R, j)
    BY <2>2
  <2>4. n \in Nat /\ n # 0 /\ j \in 1 .. n /\ R # {}
    BY <2>1, <2>2, <2>3, FS_EmptySet
  <2>5. PICK least \in R : \A y \in R : least <= y
    BY <2>2, <2>4, SmallestOf
  <2>6. CASE j = 1
    <3>1. \A y \in R : ~(y < least)
      BY <2>2, <2>5
    <3>2. Lower(R, least) = {}
      BY <3>1, Zenon DEF Lower
    <3>3. Cardinality(Lower(R, least)) = j - 1
      BY <2>6, <3>2, FS_EmptySet
    <3> QED BY <2>3, <2>5, <3>3
  <2>7. CASE j # 1
    <3> DEFINE Q == R \ {least}
    <3>1. IsFiniteSet(Q) /\ Cardinality(Q) = n - 1 /\ Q \in SUBSET Nat
      BY <2>2, <2>5, FS_RemoveElement
    <3>2. n - 1 \in Nat /\ ~(n <= n - 1) /\ j - 1 \in Nat /\ j - 1 \in 1 .. n - 1
      BY <2>4, <2>7
    <3>3. n - 1 \notin T
      BY <2>1, <3>2
    <3>4. ~Fails(Q, j - 1)
      BY <3>1, <3>2, <3>3
    <3>5. PICK x \in Q : Cardinality(Lower(Q, x)) = (j - 1) - 1
      BY <3>1, <3>2, <3>4
    <3>6. Lower(R, x) = Lower(Q, x) \cup {least} /\ least \notin Lower(Q, x)
      BY <2>2, <2>5 DEF Lower
    <3>7. IsFiniteSet(Lower(Q, x))
      BY <3>1, LowerIs
    <3>8. Cardinality(Lower(R, x)) = Cardinality(Lower(Q, x)) + 1
      BY <3>6, <3>7, FS_AddElement
    <3>9. Cardinality(Lower(R, x)) = j - 1 /\ x \in R
      BY <2>4, <3>5, <3>8
    <3> QED BY <2>3, <3>9
  <2> QED BY <2>6, <2>7
<1> QED BY <1>1, <1>2

LEMMA InOrderIs ==
  ASSUME NEW S, S \subseteq Nat, IsFiniteSet(S)
  PROVE  /\ Cardinality(S) \in Nat /\ InOrder(S) \in Seq(S) /\ Len(InOrder(S)) = Cardinality(S)
         /\ DOMAIN InOrder(S) = 1 .. Cardinality(S)
         /\ \A i \in 1 .. Cardinality(S) :
              InOrder(S)[i] \in S /\ Cardinality(Lower(S, InOrder(S)[i])) = i - 1
<1> DEFINE n == Cardinality(S)
           Pick(i) == CHOOSE x \in S : Cardinality({y \in S : y < x}) = i - 1
<1>1. n \in Nat
  BY FS_CardinalityType
<1>2. InOrder(S) = [i \in 1 .. n |-> Pick(i)]
  BY DEF InOrder
<1>3. ASSUME NEW i \in 1 .. n PROVE Pick(i) \in S /\ Cardinality(Lower(S, Pick(i))) = i - 1
  <2>1. \E x \in S : Cardinality({y \in S : y < x}) = i - 1
    BY PlaceExists DEF Lower
  <2>2. Pick(i) \in S /\ Cardinality({y \in S : y < Pick(i)}) = i - 1
    BY <2>1
  <2> QED BY <2>2 DEF Lower
<1> HIDE DEF Pick
<1>4. \A i \in 1 .. n : InOrder(S)[i] \in S /\ Cardinality(Lower(S, InOrder(S)[i])) = i - 1
  BY <1>2, <1>3
<1>5. InOrder(S) \in [1 .. n -> S]
  BY <1>2, <1>3
<1>6. InOrder(S) \in Seq(S) /\ Len(InOrder(S)) = n /\ DOMAIN InOrder(S) = 1 .. n
  BY <1>1, <1>5
<1> QED BY <1>1, <1>4, <1>6

\* Nothing is below the first, what is below the next is below or at this one, and
\* what is below or at the last is everything.
LEMMA Neighbours ==
  ASSUME NEW S, S \subseteq Nat, IsFiniteSet(S), NEW i \in 1 .. Cardinality(S)
  PROVE  /\ Lower(S, InOrder(S)[1]) = {}
         /\ i + 1 \in 1 .. Cardinality(S) =>
              Lower(S, InOrder(S)[i + 1]) = Lower(S, InOrder(S)[i]) \cup {InOrder(S)[i]}
         /\ Lower(S, InOrder(S)[Cardinality(S)]) \cup {InOrder(S)[Cardinality(S)]} = S
<1> DEFINE n == Cardinality(S)
           at(j) == InOrder(S)[j]
<1>1. n \in Nat /\ \A j \in 1 .. n : at(j) \in S /\ Cardinality(Lower(S, at(j))) = j - 1
  BY InOrderIs
<1> HIDE DEF n, at
<1>2. 1 \in 1 .. n /\ n \in 1 .. n /\ i \in 1 .. n
  BY <1>1 DEF n
<1>3. Lower(S, at(1)) = {}
  <2>1. at(1) \in S /\ Cardinality(Lower(S, at(1))) = 0
    BY <1>1, <1>2
  <2>2. IsFiniteSet(Lower(S, at(1)))
    BY <2>1, LowerIs
  <2> QED BY <2>1, <2>2, FS_EmptySet
<1>4. Lower(S, at(n)) \cup {at(n)} = S
  <2>1. at(n) \in S /\ Cardinality(Lower(S, at(n))) = n - 1
    BY <1>1, <1>2
  <2>2. Cardinality(Lower(S, at(n)) \cup {at(n)}) = Cardinality(Lower(S, at(n))) + 1
    BY <2>1, LowerIs
  <2>3. Cardinality(Lower(S, at(n)) \cup {at(n)}) = Cardinality(S)
    BY <1>1, <2>1, <2>2 DEF n
  <2>4. Lower(S, at(n)) \cup {at(n)} \in SUBSET S
    BY <2>1 DEF Lower
  <2> QED BY <2>3, <2>4, FS_Subset
<1>5. ASSUME i + 1 \in 1 .. n PROVE Lower(S, at(i + 1)) = Lower(S, at(i)) \cup {at(i)}
  <2> DEFINE x == at(i)
             z == at(i + 1)
  <2>1. x \in S /\ z \in S /\ Cardinality(Lower(S, x)) = i - 1 /\ Cardinality(Lower(S, z)) = i
    <3>1. (i + 1) - 1 = i
      BY <1>2
    <3> QED BY <1>1, <1>2, <1>5, <3>1
  <2> HIDE DEF x, z
  <2>2. /\ IsFiniteSet(Lower(S, x)) /\ IsFiniteSet(Lower(S, z))
        /\ Cardinality(Lower(S, x) \cup {x}) = i /\ Cardinality(Lower(S, z) \cup {z}) = i + 1
    <3>1. /\ Cardinality(Lower(S, x) \cup {x}) = Cardinality(Lower(S, x)) + 1
          /\ Cardinality(Lower(S, z) \cup {z}) = Cardinality(Lower(S, z)) + 1
          /\ IsFiniteSet(Lower(S, x)) /\ IsFiniteSet(Lower(S, z))
      BY <2>1, LowerIs
    <3> QED BY <1>2, <2>1, <3>1
  <2>3. x # z
    BY <1>2, <2>1
  <2>4. ~(z < x)
    <3> SUFFICES ASSUME z < x PROVE FALSE
      OBVIOUS
    <3>a. \A y \in S : y < z => y < x
      <4>1. \A y, u, v \in Nat : y < u /\ u < v => y < v
        OBVIOUS
      <4> QED BY <2>1, <4>1
    <3>1. Lower(S, z) \cup {z} \in SUBSET Lower(S, x)
      BY <2>1, <3>a, Zenon DEF Lower
    <3>2. i + 1 <= i - 1
      BY <2>1, <2>2, <3>1, FS_Subset
    <3> QED BY <1>2, <3>2
  <2>5. x < z
    BY <2>1, <2>3, <2>4
  <2>6. Lower(S, x) \cup {x} \in SUBSET Lower(S, z)
    <3>a. \A y \in S : y < x => y < z
      <4>1. \A y, u, v \in Nat : y < u /\ u < v => y < v
        OBVIOUS
      <4> QED BY <2>1, <2>5, <4>1
    <3> QED BY <2>1, <2>5, <3>a, Zenon DEF Lower
  <2>7. Lower(S, x) \cup {x} = Lower(S, z)
    <3>1. Cardinality(Lower(S, z)) = Cardinality(Lower(S, x) \cup {x})
      BY <2>1, <2>2
    <3> QED BY <2>2, <2>6, <3>1, FS_Subset
  <2> QED BY <2>7 DEF x, z
<1> QED BY <1>3, <1>4, <1>5 DEF n, at

-----------------------------------------------------------------------------
\* Sequences without repetition, and their elements.

LEMMA AppendNew ==
  ASSUME NEW S, NEW s \in Seq(S), IsInjective(s), NEW e \in S, e \notin ToSet(s)
  PROVE  /\ Append(s, e) \in Seq(S) /\ IsInjective(Append(s, e))
         /\ ToSet(Append(s, e)) = ToSet(s) \cup {e}
<1> DEFINE t == Append(s, e)
           n == Len(s)
<1>1. /\ n \in Nat /\ DOMAIN s = 1 .. n /\ t \in Seq(S) /\ DOMAIN t = 1 .. n + 1
      /\ t[n + 1] = e /\ \A i \in 1 .. n : t[i] = s[i]
  OBVIOUS
<1>2. \A i \in 1 .. n + 1 : i \in 1 .. n \/ i = n + 1
  BY <1>1
<1>3. n + 1 \in 1 .. n + 1 /\ \A i \in 1 .. n : i \in 1 .. n + 1
  BY <1>1
<1> HIDE DEF t, n
<1>4. ToSet(t) = ToSet(s) \cup {e}
  BY <1>1, <1>2, <1>3 DEF ToSet
<1>5. \A i \in 1 .. n : s[i] # e
  BY <1>1 DEF ToSet
<1>6. IsInjective(t)
  BY <1>1, <1>2, <1>5 DEF IsInjective
<1> QED BY <1>1, <1>4, <1>6 DEF t

\* w numbers the members of X from 1 to n.
Numbers(w, n, X) ==
  /\ w \in [1 .. n -> X]
  /\ \A i, j \in 1 .. n : w[i] = w[j] => i = j
  /\ \A x \in X : \E i \in 1 .. n : w[i] = x

LEMMA NumberOneMore ==
  ASSUME NEW n \in Nat, NEW X, NEW w, Numbers(w, n, X), NEW x, x \notin X
  PROVE  \E v : Numbers(v, n + 1, X \cup {x}) /\ v[n + 1] = x /\ \A i \in 1 .. n : v[i] = w[i]
<1> DEFINE v == [i \in 1 .. n + 1 |-> IF i = n + 1 THEN x ELSE w[i]]
<1>1. /\ \A i \in 1 .. n : i \in 1 .. n + 1 /\ i # n + 1 /\ w[i] \in X
      /\ n + 1 \in 1 .. n + 1 /\ \A i \in 1 .. n + 1 : i = n + 1 \/ i \in 1 .. n
  BY DEF Numbers
<1>2. v[n + 1] = x /\ \A i \in 1 .. n : v[i] = w[i]
  BY <1>1
<1>3. v \in [1 .. n + 1 -> X \cup {x}]
  BY <1>1
<1> HIDE DEF v
<1>4. \A i, j \in 1 .. n + 1 : v[i] = v[j] => i = j
  BY <1>1, <1>2 DEF Numbers
<1>5. \A y \in X \cup {x} : \E i \in 1 .. n + 1 : v[i] = y
  BY <1>1, <1>2 DEF Numbers
<1> QED BY <1>2, <1>3, <1>4, <1>5 DEF Numbers

\* sorted() has every element once.
LEMMA InOrderNumbers ==
  ASSUME NEW S, S \subseteq Nat, IsFiniteSet(S)
  PROVE  Numbers(InOrder(S), Cardinality(S), S)
<1> DEFINE n == Cardinality(S)
           w == InOrder(S)
<1>1. /\ n \in Nat /\ w \in Seq(S) /\ Len(w) = n
      /\ \A i \in 1 .. n : w[i] \in S /\ Cardinality(Lower(S, w[i])) = i - 1
  BY InOrderIs
<1> HIDE DEF w
<1>2. w \in [1 .. Len(w) -> S]
  BY <1>1
<1>3. w \in [1 .. n -> S]
  BY <1>1, <1>2
<1>4. \A i, j \in 1 .. n : w[i] = w[j] => i = j
  <2> SUFFICES ASSUME NEW i \in 1 .. n, NEW j \in 1 .. n, w[i] = w[j] PROVE i = j
    OBVIOUS
  <2>1. i - 1 = j - 1
    BY <1>1
  <2> QED BY <2>1
<1>5. w \in Injection(1 .. n, S)
  BY <1>3, <1>4 DEF Injection, IsInjective
<1>6. Cardinality(1 .. n) = Cardinality(S)
  <2>1. n \in Nat
    BY <1>1
  <2> QED BY <2>1, FS_Interval
<1> HIDE DEF n
<1>7. w \in Surjection(1 .. n, S)
  BY <1>5, <1>6, FS_Injection
<1>8. \A x \in S : \E i \in 1 .. n : w[i] = x
  BY <1>7 DEF Surjection
<1>9. Numbers(w, n, S)
  BY <1>3, <1>4, <1>8 DEF Numbers
<1> QED BY <1>9 DEF w, n

\* What is numbered, numbered by some of the numbers.
LEMMA NumbersCompose ==
  ASSUME NEW n, NEW X, NEW w, Numbers(w, n, X), NEW B, B \subseteq 1 .. n,
         NEW m, NEW o, Numbers(o, m, B)
  PROVE  Numbers([i \in 1 .. m |-> w[o[i]]], m, {w[b] : b \in B})
<1> DEFINE s == [i \in 1 .. m |-> w[o[i]]]
           Y == {w[b] : b \in B}
<1>1. \A i \in 1 .. m : o[i] \in B /\ o[i] \in 1 .. n /\ s[i] = w[o[i]] /\ s[i] \in Y
  BY DEF Numbers
<1>2. s \in [1 .. m -> Y]
  BY <1>1
<1>3. \A i, j \in 1 .. m : s[i] = s[j] => i = j
  BY <1>1 DEF Numbers
<1>4. \A y \in Y : \E i \in 1 .. m : s[i] = y
  BY <1>1 DEF Numbers
<1> HIDE DEF s, Y
<1>5. Numbers(s, m, Y)
  BY <1>2, <1>3, <1>4 DEF Numbers
<1> QED BY <1>5 DEF s, Y

LEMMA OwnElements == ASSUME NEW S, NEW s \in Seq(S) PROVE s \in Seq(ToSet(s))
<1>1. Len(s) \in Nat /\ s \in [1 .. Len(s) -> S] /\ DOMAIN s = 1 .. Len(s)
  OBVIOUS
<1>2. \A i \in 1 .. Len(s) : s[i] \in ToSet(s)
  BY <1>1 DEF ToSet
<1>3. s \in [1 .. Len(s) -> ToSet(s)]
  BY <1>1, <1>2
<1> QED BY <1>1, <1>3

-----------------------------------------------------------------------------
\* Sums.

Chosen(s) == CHOOSE x \in s : TRUE

\* g is what MapThenFoldSet calls iter, for the sets of D.
IsFold(g, f, D) ==
  g = [s \in D |-> IF s = {} THEN 0 ELSE f[Chosen(s)] + g[s \ {Chosen(s)}]]

Fold(f, S) == CHOOSE g : IsFold(g, f, SUBSET S)

UpTo(S, n) == {s \in SUBSET S : Cardinality(s) <= n}

LEMMA SumIs == ASSUME NEW f, NEW S PROVE SumOver(f, S) = Fold(f, S)[S]
BY Zenon DEF SumOver, MapThenSumSet, MapThenFoldSet, Fold, IsFold, Chosen

\* Taking the chosen member out leaves a smaller set.
LEMMA ChosenOut ==
  ASSUME NEW S, IsFiniteSet(S), NEW s \in SUBSET S, s # {}
  PROVE  /\ IsFiniteSet(s) /\ Cardinality(s) \in Nat \ {0}
         /\ Chosen(s) \in s /\ s \ {Chosen(s)} \in SUBSET S
         /\ Cardinality(s \ {Chosen(s)}) = Cardinality(s) - 1
<1>1. IsFiniteSet(s)
  BY FS_Subset
<1>2. Chosen(s) \in s
  BY DEF Chosen
<1>3. Cardinality(s) \in Nat /\ Cardinality(s) # 0
  BY <1>1, FS_CardinalityType, FS_EmptySet
<1>4. Cardinality(s \ {Chosen(s)}) = Cardinality(s) - 1
  BY <1>1, <1>2, FS_RemoveElement
<1> QED BY <1>1, <1>2, <1>3, <1>4

LEMMA FoldUpTo ==
  ASSUME NEW f, NEW S, IsFiniteSet(S), NEW n \in Nat
  PROVE  \E g : IsFold(g, f, UpTo(S, n))
<1> DEFINE T == {k \in Nat : ~ \E g : IsFold(g, f, UpTo(S, k))}
<1>1. CASE T = {}
  BY <1>1
<1>2. CASE T # {}
  <2>1. PICK k \in T : \A m \in T : k <= m
    <3>1. T \subseteq Nat
      OBVIOUS
    <3> HIDE DEF T
    <3> QED BY <1>2, <3>1, SmallestOf
  <2>2. CASE k = 0
    <3>1. ASSUME NEW s \in UpTo(S, 0), s # {} PROVE FALSE
      <4>1. s \in SUBSET S /\ Cardinality(s) <= 0
        BY DEF UpTo
      <4>2. Cardinality(s) \in Nat \ {0}
        BY <3>1, <4>1, ChosenOut
      <4> QED BY <4>1, <4>2
    <3>2. IsFold([s \in UpTo(S, 0) |-> 0], f, UpTo(S, 0))
      BY <3>1 DEF IsFold
    <3> QED BY <2>1, <2>2, <3>2
  <2>3. CASE k # 0
    <3>1. k \in Nat /\ k - 1 \in Nat /\ ~(k <= k - 1)
      BY <2>1, <2>3
    <3>2. PICK g : IsFold(g, f, UpTo(S, k - 1))
      BY <2>1, <3>1
    <3> DEFINE Value(s) == IF s = {} THEN 0 ELSE f[Chosen(s)] + g[s \ {Chosen(s)}]
               h == [s \in UpTo(S, k) |-> Value(s)]
    <3>3. \A s \in UpTo(S, k - 1) : s \in UpTo(S, k) /\ g[s] = Value(s)
      <4>1. \A s \in UpTo(S, k - 1) : g[s] = Value(s)
        BY <3>2 DEF IsFold
      <4>2. ASSUME NEW s \in UpTo(S, k - 1) PROVE s \in UpTo(S, k)
        <5>1. Cardinality(s) \in Nat /\ Cardinality(s) <= k - 1 /\ s \in SUBSET S
          BY FS_Subset, FS_CardinalityType DEF UpTo
        <5> QED BY <3>1, <5>1 DEF UpTo
      <4> QED BY <4>1, <4>2
    <3>4. \A s \in UpTo(S, k) : s # {} => s \ {Chosen(s)} \in UpTo(S, k - 1)
      <4> SUFFICES ASSUME NEW s \in UpTo(S, k), s # {}
                   PROVE  s \ {Chosen(s)} \in UpTo(S, k - 1)
        OBVIOUS
      <4>1. s \in SUBSET S /\ Cardinality(s) <= k
        BY DEF UpTo
      <4>2. /\ s \ {Chosen(s)} \in SUBSET S /\ Cardinality(s) \in Nat
            /\ Cardinality(s \ {Chosen(s)}) = Cardinality(s) - 1
        BY <4>1, ChosenOut
      <4> QED BY <3>1, <4>1, <4>2 DEF UpTo
    <3> HIDE DEF Value
    <3>5. \A s \in UpTo(S, k - 1) : h[s] = g[s]
      BY <3>3
    <3> HIDE DEF h
    <3>6. \A s \in UpTo(S, k) : Value(s) = IF s = {} THEN 0 ELSE f[Chosen(s)] + h[s \ {Chosen(s)}]
      BY <3>4, <3>5 DEF Value
    <3>7. IsFold(h, f, UpTo(S, k))
      BY <3>6 DEF h, IsFold
    <3> QED BY <2>1, <3>7
  <2> QED BY <2>2, <2>3
<1> QED BY <1>1, <1>2

LEMMA FoldIs == ASSUME NEW f, NEW S, IsFiniteSet(S) PROVE IsFold(Fold(f, S), f, SUBSET S)
<1>1. Cardinality(S) \in Nat
  BY FS_CardinalityType
<1>2. UpTo(S, Cardinality(S)) = SUBSET S
  BY FS_Subset DEF UpTo
<1>a. \E g : IsFold(g, f, UpTo(S, Cardinality(S)))
  BY <1>1, FoldUpTo
<1>3. \E g : IsFold(g, f, SUBSET S)
  BY <1>2, <1>a
<1> QED BY <1>3, Zenon DEF Fold

LEMMA FoldsAgree ==
  ASSUME NEW R, NEW S, IsFiniteSet(S), S \subseteq R, NEW f, NEW e, \A x \in S : f[x] = e[x],
         NEW g, NEW h, IsFold(g, f, SUBSET S), IsFold(h, e, SUBSET R), NEW s \in SUBSET S
  PROVE  g[s] = h[s]
<1> DEFINE T == {k \in Nat : \E r \in SUBSET S : Cardinality(r) = k /\ g[r] # h[r]}
<1>1. CASE T = {}
  BY <1>1, FS_Subset, FS_CardinalityType
<1>2. CASE T # {}
  <2>1. PICK k \in T : \A m \in T : k <= m
    <3>1. T \subseteq Nat
      OBVIOUS
    <3> HIDE DEF T
    <3> QED BY <1>2, <3>1, SmallestOf
  <2>2. PICK r \in SUBSET S : Cardinality(r) = k /\ g[r] # h[r]
    BY <2>1
  <2> DEFINE x == Chosen(r)
  <2>3. /\ g[r] = IF r = {} THEN 0 ELSE f[x] + g[r \ {x}]
        /\ h[r] = IF r = {} THEN 0 ELSE e[x] + h[r \ {x}]
    BY <2>2 DEF IsFold
  <2>4. r # {}
    BY <2>2, <2>3
  <2>5. x \in r /\ r \ {x} \in SUBSET S /\ Cardinality(r \ {x}) = k - 1 /\ k \in Nat \ {0}
    BY <2>2, <2>4, ChosenOut
  <2>6. k - 1 \in Nat /\ k - 1 \notin T
    BY <2>1, <2>5
  <2>7. g[r \ {x}] = h[r \ {x}]
    BY <2>5, <2>6
  <2>8. f[x] = e[x]
    BY <2>5
  <2> QED BY <2>2, <2>3, <2>4, <2>7, <2>8
<1> QED BY <1>1, <1>2

\* A sum is a sum of the values on its set.
LEMMA SumAgrees ==
  ASSUME NEW S, IsFiniteSet(S), NEW f, NEW e, \A x \in S : f[x] = e[x]
  PROVE  SumOver(f, S) = SumOver(e, S)
<1>1. IsFold(Fold(f, S), f, SUBSET S) /\ IsFold(Fold(e, S), e, SUBSET S) /\ S \in SUBSET S
  BY FoldIs
<1>2. Fold(f, S)[S] = Fold(e, S)[S]
  BY <1>1, FoldsAgree
<1> QED BY <1>2, SumIs

LEMMA SumEmpty == ASSUME NEW f PROVE SumOver(f, {}) = 0
<1>1. IsFold(Fold(f, {}), f, SUBSET {})
  BY FS_EmptySet, FoldIs
<1>2. Fold(f, {})[{}] = 0
  BY <1>1 DEF IsFold
<1> QED BY <1>2, SumIs

LEMMA SumChosen ==
  ASSUME NEW f, NEW S, IsFiniteSet(S), S # {}
  PROVE  SumOver(f, S) = f[Chosen(S)] + SumOver(f, S \ {Chosen(S)})
<1> DEFINE Q == S \ {Chosen(S)}
<1>1. Q \in SUBSET S /\ IsFiniteSet(Q)
  BY FS_Subset
<1>2. IsFold(Fold(f, S), f, SUBSET S) /\ IsFold(Fold(f, Q), f, SUBSET Q)
  BY <1>1, FoldIs
<1>3. Fold(f, S)[S] = f[Chosen(S)] + Fold(f, S)[Q]
  BY <1>2 DEF IsFold
<1> HIDE DEF Q
<1>4. Fold(f, Q)[Q] = Fold(f, S)[Q]
  BY <1>1, <1>2, FoldsAgree
<1>5. SumOver(f, S) = f[Chosen(S)] + SumOver(f, Q)
  BY <1>3, <1>4, SumIs
<1> QED BY <1>5 DEF Q

LEMMA SumIsNat ==
  ASSUME NEW f, NEW S, IsFiniteSet(S), \A x \in S : f[x] \in Nat
  PROVE  SumOver(f, S) \in Nat
<1> DEFINE T == {k \in Nat : \E R \in SUBSET S : Cardinality(R) = k /\ SumOver(f, R) \notin Nat}
<1>1. CASE T = {}
  BY <1>1, FS_CardinalityType
<1>2. CASE T # {}
  <2>1. PICK k \in T : \A m \in T : k <= m
    <3>1. T \subseteq Nat
      OBVIOUS
    <3> HIDE DEF T
    <3> QED BY <1>2, <3>1, SmallestOf
  <2>2. PICK R \in SUBSET S : Cardinality(R) = k /\ SumOver(f, R) \notin Nat
    BY <2>1
  <2>3. R # {}
    BY <2>2, SumEmpty
  <2> DEFINE x == Chosen(R)
  <2>4. /\ x \in R /\ R \ {x} \in SUBSET S /\ Cardinality(R \ {x}) = k - 1 /\ k \in Nat \ {0}
        /\ IsFiniteSet(R)
    BY <2>2, <2>3, ChosenOut
  <2>5. k - 1 \in Nat /\ k - 1 \notin T
    BY <2>1, <2>4
  <2>6. SumOver(f, R \ {x}) \in Nat
    BY <2>4, <2>5
  <2>7. SumOver(f, R) = f[x] + SumOver(f, R \ {x})
    BY <2>3, <2>4, SumChosen
  <2>8. f[x] \in Nat
    BY <2>4
  <2> QED BY <2>2, <2>6, <2>7, <2>8
<1> QED BY <1>1, <1>2

\* Any member may be taken out.
LEMMA SumWithout ==
  ASSUME NEW f, NEW S, IsFiniteSet(S), \A x \in S : f[x] \in Nat, NEW y \in S
  PROVE  SumOver(f, S) = f[y] + SumOver(f, S \ {y})
<1> DEFINE Fails(R) == \E z \in R : SumOver(f, R) # f[z] + SumOver(f, R \ {z})
           T == {k \in Nat : \E R \in SUBSET S : Cardinality(R) = k /\ Fails(R)}
<1>1. CASE T = {}
  <2>1. Cardinality(S) \in Nat
    BY FS_CardinalityType
  <2>2. ~Fails(S)
    BY <1>1, <2>1
  <2> QED BY <2>2
<1>2. CASE T # {}
  <2>1. PICK k \in T : \A m \in T : k <= m
    <3>1. T \subseteq Nat
      OBVIOUS
    <3> HIDE DEF T
    <3> QED BY <1>2, <3>1, SmallestOf
  <2>2. PICK R \in SUBSET S : Cardinality(R) = k /\ Fails(R)
    BY <2>1
  <2>3. PICK z \in R : SumOver(f, R) # f[z] + SumOver(f, R \ {z})
    BY <2>2
  <2> DEFINE x == Chosen(R)
  <2>4. x \in R /\ k \in Nat \ {0} /\ IsFiniteSet(R)
    BY <2>2, <2>3, ChosenOut
  <2>5. SumOver(f, R) = f[x] + SumOver(f, R \ {x})
    BY <2>3, <2>4, SumChosen
  <2> HIDE DEF x
  <2>6. x # z
    BY <2>3, <2>5
  <2>7. ASSUME NEW w \in R
        PROVE  /\ IsFiniteSet(R \ {w}) /\ Cardinality(R \ {w}) = k - 1 /\ R \ {w} \in SUBSET S
               /\ ~Fails(R \ {w})
    <3>1. IsFiniteSet(R \ {w}) /\ Cardinality(R \ {w}) = k - 1
      BY <2>2, <2>4, FS_RemoveElement
    <3>2. k - 1 \in Nat /\ k - 1 \notin T
      BY <2>1, <2>4
    <3> QED BY <3>1, <3>2
  <2> DEFINE Q == R \ {x, z}
  <2>8. Q = (R \ {x}) \ {z} /\ Q = (R \ {z}) \ {x} /\ z \in R \ {x} /\ x \in R \ {z}
    BY <2>4, <2>6
  <2> HIDE DEF Q
  <2>9. SumOver(f, R \ {x}) = f[z] + SumOver(f, Q)
    <3>1. \A v \in R \ {x} : SumOver(f, R \ {x}) = f[v] + SumOver(f, (R \ {x}) \ {v})
      BY <2>4, <2>7
    <3> QED BY <2>8, <3>1
  <2>10. SumOver(f, R \ {z}) = f[x] + SumOver(f, Q)
    <3>1. \A v \in R \ {z} : SumOver(f, R \ {z}) = f[v] + SumOver(f, (R \ {z}) \ {v})
      BY <2>7
    <3> QED BY <2>8, <3>1
  <2>11. SumOver(f, Q) \in Nat /\ f[x] \in Nat /\ f[z] \in Nat
    <3>1. IsFiniteSet(Q) /\ Q \in SUBSET S
      BY <2>4, FS_Subset DEF Q
    <3> QED BY <2>4, <3>1, SumIsNat
  <2> QED BY <2>3, <2>5, <2>9, <2>10, <2>11
<1> QED BY <1>1, <1>2

\* The sum over two sets that share nothing.
LEMMA SumDisjoint ==
  ASSUME NEW f, NEW X, NEW Y, IsFiniteSet(X), IsFiniteSet(Y), X \cap Y = {},
         \A x \in X \cup Y : f[x] \in Nat
  PROVE  SumOver(f, X \cup Y) = SumOver(f, X) + SumOver(f, Y)
<1> DEFINE Fails(R) == SumOver(f, R \cup Y) # SumOver(f, R) + SumOver(f, Y)
           T == {k \in Nat : \E R \in SUBSET X : Cardinality(R) = k /\ Fails(R)}
<1>1. CASE T = {}
  <2>1. Cardinality(X) \in Nat
    BY FS_CardinalityType
  <2>2. ~Fails(X)
    BY <1>1, <2>1
  <2> QED BY <2>2
<1>2. CASE T # {}
  <2>1. PICK k \in T : \A m \in T : k <= m
    <3>1. T \subseteq Nat
      OBVIOUS
    <3> HIDE DEF T
    <3> QED BY <1>2, <3>1, SmallestOf
  <2>2. PICK R \in SUBSET X : Cardinality(R) = k /\ Fails(R)
    BY <2>1
  <2>3. SumOver(f, Y) \in Nat
    BY SumIsNat
  <2>4. R # {}
    <3>1. CASE R = {}
      <4>1. R \cup Y = Y
        BY <3>1
      <4>2. SumOver(f, R) = 0 /\ SumOver(f, R \cup Y) = SumOver(f, Y)
        BY <3>1, <4>1, SumEmpty
      <4> QED BY <2>2, <2>3, <4>2
    <3> QED BY <3>1
  <2> DEFINE x == Chosen(R)
             Q == R \ {x}
  <2>5. x \in R /\ Q \in SUBSET X /\ Cardinality(Q) = k - 1 /\ k \in Nat \ {0} /\ IsFiniteSet(R)
    BY <2>2, <2>4, ChosenOut
  <2>6. k - 1 \in Nat /\ k - 1 \notin T
    BY <2>1, <2>5
  <2>7. SumOver(f, Q \cup Y) = SumOver(f, Q) + SumOver(f, Y)
    BY <2>5, <2>6
  <2>8. SumOver(f, R) = f[x] + SumOver(f, Q)
    BY <2>5, SumWithout
  <2>9. (R \cup Y) \ {x} = Q \cup Y /\ x \in R \cup Y /\ IsFiniteSet(R \cup Y)
    BY <2>5, FS_Union
  <2>10. SumOver(f, R \cup Y) = f[x] + SumOver(f, Q \cup Y)
    <3>1. \A y \in R \cup Y : SumOver(f, R \cup Y) = f[y] + SumOver(f, (R \cup Y) \ {y})
      BY <2>9, SumWithout
    <3> HIDE DEF x, Q
    <3> QED BY <2>9, <3>1
  <2>11. f[x] \in Nat /\ SumOver(f, Q) \in Nat
    <3>1. IsFiniteSet(Q) /\ \A y \in Q : f[y] \in Nat
      BY <2>5, FS_Subset
    <3> QED BY <2>5, <3>1, SumIsNat
  <2> HIDE DEF x, Q
  <2> QED BY <2>2, <2>3, <2>7, <2>8, <2>10, <2>11
<1> QED BY <1>1, <1>2

\* W is split into the sets A, and g has what f sums up to on each.
SplitsSum(g, f, Q, A, W) ==
  /\ IsFiniteSet(Q) /\ W = UNION {A[q] : q \in Q}
  /\ \A q \in Q : IsFiniteSet(A[q]) /\ g[q] = SumOver(f, A[q]) /\ \A x \in A[q] : f[x] \in Nat
  /\ \A p, q \in Q : p # q => A[p] \cap A[q] = {}

LEMMA SumOfSums ==
  ASSUME NEW f, NEW Q, NEW A, NEW g, NEW W, SplitsSum(g, f, Q, A, W)
  PROVE  SumOver(g, Q) = SumOver(f, W)
<1> USE DEF SplitsSum
<1> DEFINE U(P) == UNION {A[q] : q \in P}
           Fails(P) == ~(IsFiniteSet(U(P)) /\ SumOver(g, P) = SumOver(f, U(P)))
           T == {k \in Nat : \E P \in SUBSET Q : Cardinality(P) = k /\ Fails(P)}
<1>1. CASE T = {}
  <2>1. Cardinality(Q) \in Nat
    BY FS_CardinalityType
  <2>2. ~Fails(Q)
    BY <1>1, <2>1
  <2> QED BY <2>2
<1>2. CASE T # {}
  <2>1. PICK k \in T : \A m \in T : k <= m
    <3>1. T \subseteq Nat
      OBVIOUS
    <3> HIDE DEF T
    <3> QED BY <1>2, <3>1, SmallestOf
  <2>2. PICK P \in SUBSET Q : Cardinality(P) = k /\ Fails(P)
    BY <2>1
  <2>3. P # {}
    <3>1. CASE P = {}
      <4>1. U(P) = {}
        BY <3>1
      <4> HIDE DEF U
      <4>2. SumOver(g, P) = 0 /\ SumOver(f, U(P)) = 0 /\ IsFiniteSet(U(P))
        BY <3>1, <4>1, SumEmpty, FS_EmptySet
      <4> QED BY <2>2, <4>2
    <3> QED BY <3>1
  <2> DEFINE p == Chosen(P)
             R == P \ {p}
  <2>4. p \in P /\ R \in SUBSET Q /\ Cardinality(R) = k - 1 /\ k \in Nat \ {0} /\ IsFiniteSet(P)
    BY <2>2, <2>3, ChosenOut
  <2>5. k - 1 \in Nat /\ k - 1 \notin T
    <3>1. k - 1 \in Nat /\ ~(k <= k - 1)
      BY <2>4
    <3> HIDE DEF T
    <3> QED BY <2>1, <3>1
  <2>6. IsFiniteSet(U(R)) /\ SumOver(g, R) = SumOver(f, U(R))
    <3> HIDE DEF U
    <3> QED BY <2>4, <2>5
  <2>7. \A q \in Q : g[q] \in Nat /\ g[q] = SumOver(f, A[q])
    BY SumIsNat
  <2>8. U(P) = A[p] \cup U(R) /\ A[p] \cap U(R) = {} /\ \A x \in A[p] \cup U(R) : f[x] \in Nat
    <3>1. U(P) = A[p] \cup U(R)
      BY <2>4
    <3>2. A[p] \cap U(R) = {}
      BY <2>4
    <3>3. \A x \in A[p] \cup U(R) : f[x] \in Nat
      BY <2>4
    <3> QED BY <3>1, <3>2, <3>3
  <2> HIDE DEF U
  <2>9. SumOver(g, P) = g[p] + SumOver(g, R)
    BY <2>4, <2>7, SumWithout
  <2> HIDE DEF R, p
  <2>10. IsFiniteSet(A[p]) /\ IsFiniteSet(U(P))
    <3>1. IsFiniteSet(A[p])
      BY <2>4
    <3>2. IsFiniteSet(A[p] \cup U(R))
      BY <2>6, <3>1, FS_Union, Zenon
    <3> QED BY <2>8, <3>1, <3>2
  <2>11. SumOver(f, U(P)) = SumOver(f, A[p]) + SumOver(f, U(R))
    BY <2>6, <2>8, <2>10, SumDisjoint
  <2> QED BY <2>2, <2>4, <2>6, <2>7, <2>9, <2>10, <2>11
<1> QED BY <1>1, <1>2

\* The sum of f and g, term by term.
LEMMA SumPlus ==
  ASSUME NEW S, IsFiniteSet(S), NEW f, NEW g, NEW h,
         \A x \in S : f[x] \in Nat /\ g[x] \in Nat /\ h[x] = f[x] + g[x]
  PROVE  SumOver(h, S) = SumOver(f, S) + SumOver(g, S)
<1> DEFINE Fails(R) == SumOver(h, R) # SumOver(f, R) + SumOver(g, R)
           T == {k \in Nat : \E R \in SUBSET S : Cardinality(R) = k /\ Fails(R)}
<1>1. CASE T = {}
  <2>1. Cardinality(S) \in Nat
    BY FS_CardinalityType
  <2>2. ~Fails(S)
    BY <1>1, <2>1
  <2> QED BY <2>2
<1>2. CASE T # {}
  <2>1. PICK k \in T : \A m \in T : k <= m
    <3>1. T \subseteq Nat
      OBVIOUS
    <3> HIDE DEF T
    <3> QED BY <1>2, <3>1, SmallestOf
  <2>2. PICK R \in SUBSET S : Cardinality(R) = k /\ Fails(R)
    BY <2>1
  <2>3. R # {}
    <3>1. SumOver(f, {}) = 0 /\ SumOver(g, {}) = 0 /\ SumOver(h, {}) = 0
      BY SumEmpty
    <3> QED BY <2>2, <3>1
  <2> DEFINE x == Chosen(R)
             Q == R \ {x}
  <2>4. x \in R /\ Q \in SUBSET S /\ Cardinality(Q) = k - 1 /\ k \in Nat \ {0} /\ IsFiniteSet(R)
    BY <2>2, <2>3, ChosenOut
  <2>5. k - 1 \in Nat /\ k - 1 \notin T
    BY <2>1, <2>4
  <2>6. SumOver(h, Q) = SumOver(f, Q) + SumOver(g, Q)
    BY <2>4, <2>5
  <2>7. /\ SumOver(f, R) = f[x] + SumOver(f, Q) /\ SumOver(g, R) = g[x] + SumOver(g, Q)
        /\ SumOver(h, R) = h[x] + SumOver(h, Q)
    BY <2>3, <2>4, SumChosen
  <2>8. IsFiniteSet(Q)
    BY <2>4, FS_Subset
  <2>9. SumOver(f, Q) \in Nat /\ SumOver(g, Q) \in Nat
    BY <2>4, <2>8, SumIsNat
  <2>10. f[x] \in Nat /\ g[x] \in Nat /\ h[x] = f[x] + g[x]
    BY <2>4
  <2> HIDE DEF x, Q
  <2> QED BY <2>2, <2>6, <2>7, <2>9, <2>10
<1> QED BY <1>1, <1>2

LEMMA SumSingle == ASSUME NEW f, NEW x, f[x] \in Nat PROVE SumOver(f, {x}) = f[x]
<1>1. IsFiniteSet({x}) /\ {x} \ {x} = {}
  BY FS_Singleton
<1>2. SumOver(f, {x}) = f[x] + SumOver(f, {x} \ {x})
  BY <1>1, SumWithout
<1> QED BY <1>1, <1>2, SumEmpty

LEMMA SumOfZeros ==
  ASSUME NEW S, IsFiniteSet(S), NEW f, \A x \in S : f[x] = 0
  PROVE  SumOver(f, S) = 0
<1>1. SumOver(f, S) = SumOver(f, S) + SumOver(f, S)
  BY SumPlus
<1>2. SumOver(f, S) \in Nat
  BY SumIsNat
<1>3. \A n \in Nat : n = n + n => n = 0
  OBVIOUS
<1> QED BY <1>1, <1>2, <1>3, Zenon

\* Summing over places is summing over what is placed there.
LEMMA SumMoved ==
  ASSUME NEW Q, IsFiniteSet(Q), NEW s, \A p, q \in Q : s[p] = s[q] => p = q,
         NEW f, NEW g, \A q \in Q : g[q] = f[s[q]] /\ f[s[q]] \in Nat
  PROVE  SumOver(g, Q) = SumOver(f, {s[q] : q \in Q})
<1> DEFINE A == [q \in Q |-> {s[q]}]
           W == {s[q] : q \in Q}
<1>1. ASSUME NEW q \in Q
      PROVE  IsFiniteSet(A[q]) /\ g[q] = SumOver(f, A[q]) /\ \A x \in A[q] : f[x] \in Nat
  <2>1. f[s[q]] \in Nat /\ A[q] = {s[q]}
    OBVIOUS
  <2>2. SumOver(f, {s[q]}) = f[s[q]]
    BY <2>1, SumSingle
  <2>3. IsFiniteSet({s[q]})
    BY FS_Singleton
  <2> HIDE DEF A
  <2> QED BY <2>1, <2>2, <2>3
<1>2. \A p, q \in Q : p # q => A[p] \cap A[q] = {}
  OBVIOUS
<1>3. W = UNION {A[q] : q \in Q}
  OBVIOUS
<1> HIDE DEF A, W
<1>4. SplitsSum(g, f, Q, A, W)
  BY <1>1, <1>2, <1>3 DEF SplitsSum
<1>5. SumOver(g, Q) = SumOver(f, W)
  BY <1>4, SumOfSums
<1> QED BY <1>5 DEF W
-----------------------------------------------------------------------------
\* Places in an order given by its pairs.

\* R orders the members of S.
Orders(R, S) ==
  /\ \A x \in S : <<x, x>> \notin R
  /\ \A x, y \in S : x # y => <<x, y>> \in R \/ <<y, x>> \in R
  /\ \A x, y, z \in S : <<x, y>> \in R /\ <<y, z>> \in R => <<x, z>> \in R

Before(S, R, x) == {y \in S : <<y, x>> \in R}

\* A finite set that is not empty has a first member.
LEMMA FirstOf ==
  ASSUME NEW S, IsFiniteSet(S), S # {}, NEW R, Orders(R, S)
  PROVE  \E x \in S : \A y \in S : y # x => <<x, y>> \in R
<1> DEFINE T == {Cardinality(Before(S, R, x)) : x \in S}
<1>1. ASSUME NEW x \in S
      PROVE  IsFiniteSet(Before(S, R, x)) /\ Cardinality(Before(S, R, x)) \in Nat
  <2>1. Before(S, R, x) \in SUBSET S
    BY DEF Before
  <2> QED BY <2>1, FS_Subset, FS_CardinalityType
<1>2. PICK x \in S : \A y \in S : Cardinality(Before(S, R, x)) <= Cardinality(Before(S, R, y))
  <2>1. T \subseteq Nat /\ T # {}
    BY <1>1
  <2>2. \E k \in T : \A m \in T : k <= m
    <3> HIDE DEF T
    <3> QED BY <2>1, SmallestOf
  <2> QED BY <2>2
<1>3. ASSUME NEW y \in S, y # x, <<x, y>> \notin R PROVE FALSE
  <2>1. <<y, x>> \in R
    BY <1>3 DEF Orders
  <2>2. Before(S, R, y) \in SUBSET Before(S, R, x) /\ y \in Before(S, R, x) /\ y \notin Before(S, R, y)
    BY <2>1 DEF Orders, Before
  <2>3. Cardinality(Before(S, R, x)) = Cardinality(Before(S, R, y))
    <3>1. /\ Cardinality(Before(S, R, y)) <= Cardinality(Before(S, R, x))
          /\ Cardinality(Before(S, R, x)) <= Cardinality(Before(S, R, y))
      BY <1>1, <1>2, <2>2, FS_Subset
    <3> QED BY <1>1, <3>1
  <2>4. Before(S, R, y) = Before(S, R, x)
    BY <1>1, <2>2, <2>3, FS_Subset
  <2> QED BY <2>2, <2>4
<1> QED BY <1>3

\* For each number below its size, a set has a member with so many before it.
LEMMA RankExists ==
  ASSUME NEW S, IsFiniteSet(S), NEW R, Orders(R, S), NEW i \in 1 .. Cardinality(S)
  PROVE  \E x \in S : Cardinality(Before(S, R, x)) = i - 1
<1> DEFINE Fails(Q, j) == j \in 1 .. Cardinality(Q)
                          /\ ~ \E x \in Q : Cardinality(Before(Q, R, x)) = j - 1
           T == {n \in Nat : \E Q \in SUBSET S : Cardinality(Q) = n /\ \E j \in Nat : Fails(Q, j)}
<1>1. CASE T = {}
  <2>1. Cardinality(S) \in Nat /\ i \in Nat
    BY FS_CardinalityType
  <2>2. ~Fails(S, i)
    BY <1>1, <2>1
  <2> QED BY <2>2
<1>2. CASE T # {}
  <2>1. PICK n \in T : \A m \in T : n <= m
    <3>1. T \subseteq Nat
      OBVIOUS
    <3> HIDE DEF T
    <3> QED BY <1>2, <3>1, SmallestOf
  <2>2. PICK Q \in SUBSET S : Cardinality(Q) = n /\ \E j \in Nat : Fails(Q, j)
    BY <2>1
  <2>3. PICK j \in Nat : Fails(Q, j)
    BY <2>2
  <2>4. n \in Nat /\ n # 0 /\ j \in 1 .. n /\ Q # {} /\ IsFiniteSet(Q) /\ Orders(R, Q)
    <3>1. Orders(R, Q)
      BY DEF Orders
    <3> QED BY <2>1, <2>2, <2>3, <3>1, FS_EmptySet, FS_Subset
  <2>5. PICK first \in Q : \A y \in Q : y # first => <<first, y>> \in R
    BY <2>4, FirstOf
  <2>6. CASE j = 1
    <3>1. Before(Q, R, first) = {}
      BY <2>4, <2>5 DEF Before, Orders
    <3>2. Cardinality(Before(Q, R, first)) = j - 1
      BY <2>6, <3>1, FS_EmptySet
    <3> QED BY <2>3, <2>5, <3>2
  <2>7. CASE j # 1
    <3> DEFINE P == Q \ {first}
    <3>1. IsFiniteSet(P) /\ Cardinality(P) = n - 1 /\ P \in SUBSET S
      BY <2>2, <2>4, <2>5, FS_RemoveElement
    <3>2. n - 1 \in Nat /\ ~(n <= n - 1) /\ j - 1 \in Nat /\ j - 1 \in 1 .. n - 1
      BY <2>4, <2>7
    <3>3. n - 1 \notin T
      BY <2>1, <3>2
    <3>4. ~Fails(P, j - 1)
      BY <3>1, <3>2, <3>3
    <3>5. PICK x \in P : Cardinality(Before(P, R, x)) = (j - 1) - 1
      BY <3>1, <3>2, <3>4
    <3>6. Before(Q, R, x) = Before(P, R, x) \cup {first} /\ first \notin Before(P, R, x)
      BY <2>5 DEF Before
    <3>7. IsFiniteSet(Before(P, R, x))
      <4>1. Before(P, R, x) \in SUBSET P
        BY DEF Before
      <4> QED BY <3>1, <4>1, FS_Subset
    <3>8. Cardinality(Before(Q, R, x)) = Cardinality(Before(P, R, x)) + 1
      BY <3>6, <3>7, FS_AddElement
    <3>9. Cardinality(Before(Q, R, x)) = j - 1 /\ x \in Q
      BY <2>4, <3>5, <3>8
    <3> QED BY <2>3, <3>9
  <2> QED BY <2>6, <2>7
<1> QED BY <1>1, <1>2
=============================================================================
