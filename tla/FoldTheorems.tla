---------------------------- MODULE FoldTheorems ----------------------------
(***************************************************************************)
(* Facts about the folds of the community modules that the proofs need:    *)
(* where the elements of FlattenSeq(s) come from, what SetToSeq(S) lists,  *)
(* and how SumFunctionOnSet(w, S) depends on w and on S.                   *)
(***************************************************************************)
EXTENDS Integers, Sequences, FiniteSets, SequencesExt, Functions, FiniteSetTheorems,
        NaturalsInduction, WellFoundedInduction, TLAPS
-----------------------------------------------------------------------------
(* Induction. *)

\* Induction over the natural numbers, for a set.
LEMMA AllNumbers ==
  ASSUME NEW S, 0 \in S, \A n \in Nat : n \in S => n + 1 \in S
  PROVE  Nat \subseteq S
<1> DEFINE R == {ss \in Nat \X Nat : ss[1] < ss[2]}
           T == Nat \ S
<1>1. IsWellFoundedOn(R, Nat)
  BY NatLessThanWellFounded DEF OpToRel
<1>2. SUFFICES ASSUME T # {} PROVE FALSE
  OBVIOUS
<1>3. PICK x \in T : \A y \in T : ~ (<<y, x>> \in R)
  <2> HIDE DEF R
  <2>1. T \subseteq Nat
    OBVIOUS
  <2> HIDE DEF T
  <2>2. QED
    BY <1>1, <1>2, <2>1, WFMin
<1>4. x \in Nat /\ x # 0 /\ x \notin S
  OBVIOUS
<1>5. x - 1 \in Nat /\ (x - 1) + 1 = x /\ <<x - 1, x>> \in R
  BY <1>4
<1>6. x - 1 \in S
  BY <1>3, <1>5
<1>7. QED
  BY <1>4, <1>5, <1>6

\* The pieces of a sequence of sequences up to each, as FlattenSeq joins them.
Joins(f, s) ==
  f = [i \in 1 .. Len(s) |-> IF i = 1 THEN s[i] ELSE f[i - 1] \o s[i]]

LEMMA JoinsExist ==
  ASSUME NEW T, NEW s \in Seq(Seq(T))
  PROVE  \E f : Joins(f, s)
<1> DEFINE G(n, f) == f = [i \in 1 .. n |-> IF i = 1 THEN s[i] ELSE f[i - 1] \o s[i]]
           S == {n \in Nat : \E f : G(n, f)}
<1>1. 0 \in S
  <2>1. G(0, [i \in 1 .. 0 |-> <<>>])
    OBVIOUS
  <2>2. QED
    BY <2>1
<1>2. ASSUME NEW n \in Nat, n \in S PROVE n + 1 \in S
  <2>1. PICK f : G(n, f)
    BY <1>2
  <2> DEFINE g == [i \in 1 .. (n + 1) |->
                     IF i = 1 THEN s[i] ELSE f[i - 1] \o s[i]]
  <2>2. \A i \in 1 .. n : f[i] = IF i = 1 THEN s[i] ELSE f[i - 1] \o s[i]
    BY <2>1
  <2>3. \A i \in 1 .. n : g[i] = f[i]
    BY <2>2
  <2>4. g = [i \in 1 .. (n + 1) |-> IF i = 1 THEN s[i] ELSE g[i - 1] \o s[i]]
    <3>1. \A i \in 1 .. (n + 1) : i # 1 => i - 1 \in 1 .. n
      OBVIOUS
    <3>2. \A i \in 1 .. (n + 1) : i # 1 => g[i - 1] = f[i - 1]
      BY <2>3, <3>1
    <3>3. QED
      BY <3>2
  <2>5. G(n + 1, g)
    BY <2>4
  <2> HIDE DEF g, G
  <2>6. QED
    BY <2>5
<1> HIDE DEF S
<1>3. Nat \subseteq S
  BY <1>1, <1>2, AllNumbers
<1>4. Len(s) \in S
  BY <1>3
<1>5. QED
  BY <1>4 DEF S, Joins

LEMMA FlattenJoins ==
  ASSUME NEW T, NEW s \in Seq(Seq(T)), s # <<>>
  PROVE  \E f : Joins(f, s) /\ FlattenSeq(s) = f[Len(s)]
<1> DEFINE f[i \in 1 .. Len(s)] == IF i = 1 THEN s[i] ELSE f[i - 1] \o s[i]
<1>1. Joins(f, s)
  BY JoinsExist DEF Joins
<1>2. Len(s) # 0
  OBVIOUS
<1>3. FlattenSeq(s) = f[Len(s)]
  BY <1>2 DEF FlattenSeq
<1>4. QED
  BY <1>1, <1>3

LEMMA AllPositions ==
  ASSUME NEW n \in Nat, NEW S, 1 \in S, \A i \in 1 .. n : i # n /\ i \in S => i + 1 \in S
  PROVE  1 .. n \subseteq S
<1> DEFINE P == {i \in Nat : i \in 1 .. n => i \in S}
<1>1. 0 \in P
  OBVIOUS
<1>2. ASSUME NEW i \in Nat, i \in P PROVE i + 1 \in P
  <2>1. CASE i \in 1 .. n /\ i # n
    BY <1>2, <2>1
  <2>2. CASE ~ (i \in 1 .. n /\ i # n)
    <3>1. i + 1 \in 1 .. n => i = 0
      BY <2>2
    <3>2. QED
      BY <3>1
  <2>3. QED
    BY <2>1, <2>2
<1> HIDE DEF P
<1>3. Nat \subseteq P
  BY <1>1, <1>2, AllNumbers
<1>4. QED
  BY <1>3 DEF P

\* Where the elements of a concatenation are.
LEMMA ConcatAt ==
  ASSUME NEW T, NEW a \in Seq(T), NEW b \in Seq(T)
  PROVE  /\ a \o b \in Seq(T) /\ Len(a) \in Nat /\ Len(b) \in Nat
         /\ DOMAIN a = 1 .. Len(a) /\ DOMAIN b = 1 .. Len(b)
         /\ Len(a \o b) = Len(a) + Len(b) /\ DOMAIN (a \o b) = 1 .. (Len(a) + Len(b))
         /\ \A p \in DOMAIN a : p \in DOMAIN (a \o b) /\ (a \o b)[p] = a[p]
         /\ \A p \in DOMAIN b : Len(a) + p \in DOMAIN (a \o b) /\ (a \o b)[Len(a) + p] = b[p]
         /\ \A p \in DOMAIN (a \o b) :
              \/ p \in DOMAIN a
              \/ p > Len(a) /\ p - Len(a) \in DOMAIN b /\ (a \o b)[p] = b[p - Len(a)]
OBVIOUS

LEMMA ConcatAssociates ==
  ASSUME NEW T, NEW p \in Seq(T), NEW q \in Seq(T), NEW r \in Seq(T)
  PROVE  p \o (q \o r) = (p \o q) \o r
OBVIOUS

\* What stands in the middle of three sequences is at its place after the first.
LEMMA ConcatWithin ==
  ASSUME NEW T, NEW a \in Seq(T), NEW w \in Seq(T), NEW b \in Seq(T), NEW i \in DOMAIN w
  PROVE  /\ Len(a) + i \in DOMAIN ((a \o w) \o b)
         /\ ((a \o w) \o b)[Len(a) + i] = w[i]
<1>1. a \o w \in Seq(T) /\ Len(a) + i \in DOMAIN (a \o w) /\ (a \o w)[Len(a) + i] = w[i]
  BY ConcatAt
<1>2. Len(a) + i \in DOMAIN ((a \o w) \o b)
  BY <1>1, ConcatAt
<1>3. ((a \o w) \o b)[Len(a) + i] = (a \o w)[Len(a) + i]
  BY <1>1, ConcatAt
<1>4. QED
  BY <1>1, <1>2, <1>3

\* s is n pieces, and f joins them.
Pieces(s, n, T) == DOMAIN s = 1 .. n /\ \A i \in 1 .. n : s[i] \in Seq(T)
Joining(f, s, n) ==
  /\ f[1] = s[1]
  /\ \A i \in 1 .. n : i # n => f[i + 1] = f[i] \o s[i + 1]

LEMMA Joined ==
  ASSUME NEW s, NEW n \in Nat, Len(s) = n, n >= 1, NEW f, Joins(f, s)
  PROVE  Joining(f, s, n)
<1>1. \A i \in 1 .. n : f[i] = IF i = 1 THEN s[i] ELSE f[i - 1] \o s[i]
  BY DEF Joins
<1>2. ASSUME NEW i \in 1 .. n, i # n PROVE f[i + 1] = f[i] \o s[i + 1]
  <2>1. i + 1 \in 1 .. n /\ i + 1 # 1 /\ (i + 1) - 1 = i
    BY <1>2
  <2>2. f[i + 1] = f[(i + 1) - 1] \o s[i + 1]
    BY <1>1, <2>1
  <2>3. QED
    BY <2>1, <2>2
<1>3. 1 \in 1 .. n
  OBVIOUS
<1>4. QED
  BY <1>1, <1>2, <1>3 DEF Joining

LEMMA FlattenPieces ==
  ASSUME NEW T, NEW s \in Seq(Seq(T)), s # <<>>
  PROVE  /\ Len(s) \in Nat /\ Len(s) >= 1 /\ Pieces(s, Len(s), T)
         /\ \E f : Joining(f, s, Len(s)) /\ FlattenSeq(s) = f[Len(s)]
<1>1. Len(s) \in Nat /\ Len(s) >= 1 /\ Pieces(s, Len(s), T)
  BY DEF Pieces
<1>2. PICK f : Joins(f, s) /\ FlattenSeq(s) = f[Len(s)]
  BY FlattenJoins
<1>3. Joining(f, s, Len(s))
  BY <1>1, <1>2, Joined
<1>4. QED
  BY <1>1, <1>2, <1>3

\* The elements of a and b stand side by side as they do in the pieces s and r.
Aligned(a, b, s, r) ==
  Len(a) = Len(b) /\ \A p \in DOMAIN a :
    \E i \in DOMAIN s : \E q \in DOMAIN s[i] : a[p] = s[i][q] /\ b[p] = r[i][q]

\* x and y are a and b, and after them c and d.
SideBySide(x, y, a, b, c, d) ==
  /\ Len(x) = Len(y)
  /\ \A p \in DOMAIN x :
       \/ p \in DOMAIN a /\ x[p] = a[p] /\ y[p] = b[p]
       \/ \E q \in DOMAIN c : x[p] = c[q] /\ y[p] = d[q]

LEMMA ConcatPairs ==
  ASSUME NEW T, NEW a \in Seq(T), NEW b \in Seq(T), NEW c \in Seq(T), NEW d \in Seq(T),
         Len(a) = Len(b), Len(c) = Len(d)
  PROVE  SideBySide(a \o c, b \o d, a, b, c, d)
<1>1. DOMAIN a = DOMAIN b /\ DOMAIN c = DOMAIN d
  OBVIOUS
<1>2. Len(a \o c) = Len(b \o d)
  OBVIOUS
<1>3. ASSUME NEW p \in DOMAIN (a \o c)
      PROVE  \/ p \in DOMAIN a /\ (a \o c)[p] = a[p] /\ (b \o d)[p] = b[p]
             \/ \E q \in DOMAIN c : (a \o c)[p] = c[q] /\ (b \o d)[p] = d[q]
  <2>1. CASE p \in DOMAIN a
    BY <1>1, <2>1
  <2>2. CASE p \notin DOMAIN a
    <3>1. p - Len(a) \in DOMAIN c /\ (a \o c)[p] = c[p - Len(a)]
      BY <2>2
    <3>2. (b \o d)[p] = d[p - Len(a)]
      BY <1>1, <2>2, <3>1
    <3>3. QED
      BY <3>1, <3>2
  <2>3. QED
    BY <2>1, <2>2
<1>4. QED
  BY <1>2, <1>3 DEF SideBySide

LEMMA AlignedNext ==
  ASSUME NEW T, NEW a \in Seq(T), NEW b \in Seq(T), NEW s, NEW r, Aligned(a, b, s, r),
         NEW i \in DOMAIN s, s[i] \in Seq(T), r[i] \in Seq(T), Len(s[i]) = Len(r[i])
  PROVE  Aligned(a \o s[i], b \o r[i], s, r)
<1> DEFINE x == a \o s[i]  y == b \o r[i]
<1>1. Len(a) = Len(b)
  BY DEF Aligned
<1>2. SideBySide(x, y, a, b, s[i], r[i])
  BY <1>1, ConcatPairs, Zenon
<1>3. \A p \in DOMAIN a :
        \E j \in DOMAIN s : \E q \in DOMAIN s[j] : a[p] = s[j][q] /\ b[p] = r[j][q]
  BY DEF Aligned
<1> HIDE DEF x, y
<1>4. Aligned(x, y, s, r)
  BY <1>2, <1>3 DEF Aligned, SideBySide
<1>5. QED
  BY <1>4 DEF x, y

LEMMA JoinedAligned ==
  ASSUME NEW T, NEW n \in Nat, n >= 1, NEW s, Pieces(s, n, T), NEW r, Pieces(r, n, T),
         \A i \in 1 .. n : Len(s[i]) = Len(r[i]),
         NEW f, Joining(f, s, n), NEW g, Joining(g, r, n)
  PROVE  f[n] \in Seq(T) /\ g[n] \in Seq(T) /\ Aligned(f[n], g[n], s, r)
<1> DEFINE S == {i \in Nat : /\ f[i] \in Seq(T) /\ g[i] \in Seq(T)
                             /\ Aligned(f[i], g[i], s, r)}
<1>1. \A i \in 1 .. n : i \in DOMAIN s /\ s[i] \in Seq(T) /\ r[i] \in Seq(T)
  BY DEF Pieces
<1>2. 1 \in S
  <2>1. 1 \in 1 .. n
    OBVIOUS
  <2>2. 1 \in DOMAIN s /\ s[1] \in Seq(T) /\ r[1] \in Seq(T) /\ Len(s[1]) = Len(r[1])
    BY <1>1, <2>1
  <2>3. Aligned(s[1], r[1], s, r)
    BY <2>2 DEF Aligned
  <2>4. QED
    BY <2>2, <2>3 DEF Joining
<1>3. ASSUME NEW i \in 1 .. n, i # n, i \in S PROVE i + 1 \in S
  <2>1. i + 1 \in 1 .. n
    BY <1>3
  <2>2. /\ i + 1 \in DOMAIN s /\ s[i + 1] \in Seq(T) /\ r[i + 1] \in Seq(T)
        /\ Len(s[i + 1]) = Len(r[i + 1])
    BY <1>1, <2>1
  <2>3. f[i + 1] = f[i] \o s[i + 1] /\ g[i + 1] = g[i] \o r[i + 1]
    BY <1>3 DEF Joining
  <2>4. Aligned(f[i + 1], g[i + 1], s, r)
    BY <1>3, <2>2, <2>3, AlignedNext
  <2>5. f[i + 1] \in Seq(T) /\ g[i + 1] \in Seq(T)
    BY <1>3, <2>2, <2>3, ConcatAt
  <2>6. QED
    BY <2>1, <2>4, <2>5
<1> HIDE DEF S
<1>4. 1 .. n \subseteq S
  BY <1>2, <1>3, AllPositions
<1>5. n \in S
  BY <1>4
<1>6. QED
  BY <1>5 DEF S

\* Two sequences of pieces of the same lengths flatten to sequences whose elements stand
\* side by side as they do in the pieces.
LEMMA FlattenAligned ==
  ASSUME NEW T, NEW s \in Seq(Seq(T)), NEW r \in Seq(Seq(T)), Len(s) = Len(r),
         \A i \in 1 .. Len(s) : Len(s[i]) = Len(r[i])
  PROVE  /\ FlattenSeq(s) \in Seq(T) /\ FlattenSeq(r) \in Seq(T)
         /\ Aligned(FlattenSeq(s), FlattenSeq(r), s, r)
<1>1. CASE s = <<>>
  <2>1. r = <<>> /\ FlattenSeq(s) = <<>> /\ FlattenSeq(r) = <<>>
    BY <1>1 DEF FlattenSeq
  <2>2. Aligned(<<>>, <<>>, s, r) /\ <<>> \in Seq(T)
    BY DEF Aligned
  <2>3. QED
    BY <2>1, <2>2
<1>2. CASE s # <<>>
  <2>1. r # <<>>
    BY <1>2
  <2>2. Len(s) \in Nat /\ Len(s) >= 1 /\ Pieces(s, Len(s), T)
    BY <1>2, FlattenPieces
  <2>3. PICK f : Joining(f, s, Len(s)) /\ FlattenSeq(s) = f[Len(s)]
    BY <1>2, FlattenPieces
  <2>4. PICK g : Joining(g, r, Len(s)) /\ FlattenSeq(r) = g[Len(s)]
    BY <2>1, FlattenPieces
  <2>5. Pieces(r, Len(s), T)
    BY <2>1, FlattenPieces
  <2>6. f[Len(s)] \in Seq(T) /\ g[Len(s)] \in Seq(T) /\ Aligned(f[Len(s)], g[Len(s)], s, r)
    BY <2>2, <2>3, <2>4, <2>5, JoinedAligned, Zenon
  <2>7. QED
    BY <2>3, <2>4, <2>6, Zenon
<1>3. QED
  BY <1>1, <1>2

\* The elements of a are those of pieces other than k.
Around(a, s, k) ==
  \A p \in DOMAIN a : \E i \in DOMAIN s : \E q \in DOMAIN s[i] : i # k /\ a[p] = s[i][q]

LEMMA AroundNext ==
  ASSUME NEW T, NEW a \in Seq(T), NEW s, NEW k, Around(a, s, k),
         NEW i \in DOMAIN s, i # k, s[i] \in Seq(T)
  PROVE  a \o s[i] \in Seq(T) /\ Around(a \o s[i], s, k)
<1>1. ASSUME NEW p \in DOMAIN (a \o s[i])
      PROVE  \E j \in DOMAIN s : \E q \in DOMAIN s[j] : j # k /\ (a \o s[i])[p] = s[j][q]
  <2>1. CASE p \in DOMAIN a
    <3>1. (a \o s[i])[p] = a[p]
      BY <2>1, ConcatAt
    <3>2. QED
      BY <2>1, <3>1 DEF Around
  <2>2. CASE p - Len(a) \in DOMAIN s[i] /\ (a \o s[i])[p] = s[i][p - Len(a)]
    BY <2>2
  <2>3. QED
    BY <2>1, <2>2, ConcatAt
<1>2. QED
  BY <1>1, ConcatAt DEF Around

\* Piece k stands in x as it is, the others before and after it.
Surrounded(x, s, k, T) ==
  \E a, b \in Seq(T) : x = (a \o s[k]) \o b /\ Around(a, s, k) /\ Around(b, s, k)

LEMMA JoinedAround ==
  ASSUME NEW T, NEW n \in Nat, NEW s, Pieces(s, n, T), NEW k \in 1 .. n,
         NEW f, Joining(f, s, n)
  PROVE  Surrounded(f[n], s, k, T)
<1> DEFINE Found(i) == \E a, b \in Seq(T) :
             f[i] = (a \o s[k]) \o b /\ Around(a, s, k) /\ Around(b, s, k)
           Before == {i \in Nat : i < k => f[i] \in Seq(T) /\ Around(f[i], s, k)}
           After == {i \in Nat : ~ (i < k) => Found(i)}
<1>1. /\ \A i \in 1 .. n : i \in DOMAIN s /\ s[i] \in Seq(T)
      /\ f[1] = s[1]
      /\ \A i \in 1 .. n : i # n => f[i + 1] = f[i] \o s[i + 1]
  BY DEF Pieces, Joining
<1>2. <<>> \in Seq(T) /\ Around(<<>>, s, k)
  BY DEF Around
<1>3. k \in Nat /\ k >= 1 /\ k <= n /\ s[k] \in Seq(T)
  BY <1>1
<1>4. ASSUME NEW x \in Seq(T) PROVE x \o <<>> = x /\ <<>> \o x = x
  OBVIOUS
<1>5. 1 .. n \subseteq Before
  <2>1. 1 \in Before
    <3> SUFFICES ASSUME 1 < k PROVE f[1] \in Seq(T) /\ Around(f[1], s, k)
      OBVIOUS
    <3>1. 1 \in 1 .. n /\ 1 # k
      BY <1>3
    <3>2. 1 \in DOMAIN s /\ s[1] \in Seq(T)
      BY <1>1, <3>1
    <3>3. <<>> \o s[1] \in Seq(T) /\ Around(<<>> \o s[1], s, k)
      BY <1>2, <3>1, <3>2, AroundNext
    <3>4. QED
      BY <1>1, <1>4, <3>2, <3>3
  <2>2. ASSUME NEW i \in 1 .. n, i # n, i \in Before PROVE i + 1 \in Before
    <3>1. i + 1 \in 1 .. n /\ i + 1 \in Nat /\ i \in Nat
      BY <2>2
    <3> SUFFICES ASSUME i + 1 < k PROVE f[i + 1] \in Seq(T) /\ Around(f[i + 1], s, k)
      BY <3>1
    <3>2. i < k /\ i + 1 # k
      BY <1>3, <3>1
    <3>3. i + 1 \in DOMAIN s /\ s[i + 1] \in Seq(T) /\ f[i + 1] = f[i] \o s[i + 1]
      BY <1>1, <2>2, <3>1
    <3>4. f[i] \in Seq(T) /\ Around(f[i], s, k)
      BY <2>2, <3>2
    <3>5. QED
      BY <3>2, <3>3, <3>4, AroundNext
  <2> HIDE DEF Before
  <2>3. QED
    BY <2>1, <2>2, AllPositions
<1>6. Found(k)
  <2>1. CASE k = 1
    <3>1. f[k] = (<<>> \o s[k]) \o <<>>
      BY <1>1, <1>3, <1>4, <2>1
    <3>2. QED
      BY <1>2, <3>1
  <2>2. CASE k # 1
    <3>1. k - 1 \in 1 .. n /\ k - 1 # n /\ (k - 1) + 1 = k /\ k - 1 < k
      BY <1>3, <2>2
    <3>2. f[k] = f[k - 1] \o s[k]
      BY <1>1, <3>1
    <3>3. f[k - 1] \in Seq(T) /\ Around(f[k - 1], s, k)
      BY <1>5, <3>1
    <3>4. f[k - 1] \o s[k] \in Seq(T)
      BY <1>3, <3>3, ConcatAt
    <3>5. f[k] = (f[k - 1] \o s[k]) \o <<>>
      BY <1>4, <3>2, <3>4
    <3>6. QED
      BY <1>2, <3>3, <3>5
  <2>3. QED
    BY <2>1, <2>2
<1>7. ASSUME NEW i \in 1 .. n, i # n, ~ (i < k), Found(i) PROVE Found(i + 1)
  <2>1. i + 1 \in 1 .. n /\ i + 1 # k
    BY <1>3, <1>7
  <2>2. i + 1 \in DOMAIN s /\ s[i + 1] \in Seq(T) /\ f[i + 1] = f[i] \o s[i + 1]
    BY <1>1, <1>7, <2>1
  <2>3. PICK a \in Seq(T), b \in Seq(T) :
          f[i] = (a \o s[k]) \o b /\ Around(a, s, k) /\ Around(b, s, k)
    BY <1>7
  <2>4. b \o s[i + 1] \in Seq(T) /\ Around(b \o s[i + 1], s, k)
    BY <2>1, <2>2, <2>3, AroundNext
  <2>5. a \o s[k] \in Seq(T)
    BY <1>3, ConcatAt
  <2>6. \A x, y, z \in Seq(T) : (x \o y) \o z = x \o (y \o z)
    OBVIOUS
  <2>7. ((a \o s[k]) \o b) \o s[i + 1] = (a \o s[k]) \o (b \o s[i + 1])
    BY <2>2, <2>5, <2>6
  <2>8. QED
    BY <2>2, <2>3, <2>4, <2>7
<1>8. 1 .. n \subseteq After
  <2>1. 1 \in After
    <3>1. ~ (1 < k) => k = 1
      BY <1>3
    <3> HIDE DEF Found
    <3>2. QED
      BY <1>6, <3>1
  <2>2. ASSUME NEW i \in 1 .. n, i # n, i \in After PROVE i + 1 \in After
    <3>1. i \in Nat /\ i + 1 \in Nat
      OBVIOUS
    <3>2. i + 1 < k \/ i + 1 = k \/ ~ (i < k)
      BY <1>3, <3>1
    <3> HIDE DEF Found
    <3>3. QED
      BY <1>6, <1>7, <2>2, <3>1, <3>2
  <2> HIDE DEF After
  <2>3. QED
    BY <2>1, <2>2, AllPositions
<1>9. n \in 1 .. n /\ ~ (n < k)
  BY <1>3
<1>10. QED
  BY <1>8, <1>9 DEF Surrounded

LEMMA FlattenAround ==
  ASSUME NEW T, NEW s \in Seq(Seq(T)), NEW k \in 1 .. Len(s)
  PROVE  Surrounded(FlattenSeq(s), s, k, T)
<1>1. s # <<>>
  OBVIOUS
<1>2. Len(s) \in Nat /\ Pieces(s, Len(s), T)
  BY <1>1, FlattenPieces
<1>3. PICK f : Joining(f, s, Len(s)) /\ FlattenSeq(s) = f[Len(s)]
  BY <1>1, FlattenPieces
<1>4. Surrounded(f[Len(s)], s, k, T)
  BY <1>2, <1>3, JoinedAround, Zenon
<1>5. QED
  BY <1>3, <1>4, Zenon
-----------------------------------------------------------------------------
(* Sets listed as sequences. *)

\* SetToSeq lists each element of a finite set once.
LEMMA Listing ==
  ASSUME NEW S, IsFiniteSet(S)
  PROVE  /\ SetToSeq(S) \in Seq(S) /\ IsInjective(SetToSeq(S))
         /\ \A x \in S : \E i \in DOMAIN SetToSeq(S) : SetToSeq(S)[i] = x
<1> DEFINE n == Cardinality(S)
           f == SetToSeq(S)
<1>1. n \in Nat /\ ExistsBijection(1 .. n, S)
  BY FS_CardinalityType
<1>2. IsFiniteSet(1 .. n) /\ Cardinality(1 .. n) = n
  BY <1>1, FS_Interval
<1>3. \E g : g \in [1 .. n -> S] /\ IsInjective(g)
  BY <1>1 DEF ExistsBijection, Bijection, Injection
<1>4. f \in [1 .. n -> S] /\ IsInjective(f)
  BY <1>3 DEF SetToSeq
<1> HIDE DEF f
<1>5. f \in Injection(1 .. n, S)
  BY <1>4 DEF Injection
<1>6. f \in Surjection(1 .. n, S)
  BY <1>2, <1>5, FS_Injection
<1>7. \A x \in S : \E i \in DOMAIN f : f[i] = x
  BY <1>4, <1>6 DEF Surjection
<1>8. f \in Seq(S)
  BY <1>1, <1>4
<1>9. QED
  BY <1>4, <1>7, <1>8 DEF f

\* The values of a function on a finite set are finitely many.
LEMMA FiniteValues ==
  ASSUME NEW S, IsFiniteSet(S), NEW f, DOMAIN f = S
  PROVE  /\ IsFiniteSet({f[x] : x \in S})
         /\ Cardinality({f[x] : x \in S}) <= Cardinality(S)
<1> DEFINE T == {f[x] : x \in S}
           g == [x \in S |-> f[x]]
<1>1. g \in Surjection(S, T)
  <2>1. g \in [S -> T]
    OBVIOUS
  <2>2. \A t \in T : \E x \in S : g[x] = t
    OBVIOUS
  <2> HIDE DEF g, T
  <2>3. QED
    BY <2>1, <2>2 DEF Surjection
<1> HIDE DEF g, T
<1>2. IsFiniteSet(T) /\ Cardinality(T) <= Cardinality(S)
  BY <1>1, FS_Surjection
<1>3. QED
  BY <1>2 DEF T

\* The elements of a are those of sequences of S.
Over(a, S) == \A p \in DOMAIN a : \E x \in S : \E q \in DOMAIN x : a[p] = x[q]

\* The elements of a listing of a finite set of sequences, flattened, are theirs.
LEMMA FlattenListing ==
  ASSUME NEW T, NEW S \in SUBSET Seq(T), IsFiniteSet(S)
  PROVE  FlattenSeq(SetToSeq(S)) \in Seq(T) /\ Over(FlattenSeq(SetToSeq(S)), S)
<1> DEFINE s == SetToSeq(S)
<1>1. s \in Seq(S)
  BY Listing
<1> HIDE DEF s
<1>2. s \in Seq(Seq(T)) /\ \A i \in DOMAIN s : s[i] \in S
  BY <1>1
<1>3. Aligned(FlattenSeq(s), FlattenSeq(s), s, s) /\ FlattenSeq(s) \in Seq(T)
  BY <1>2, FlattenAligned
<1>4. QED
  BY <1>2, <1>3 DEF Aligned, Over, s

\* w stands in x as it is, elements of the sequences of S before and after it.
Amidst(x, w, S, T) ==
  \E a, b \in Seq(T) : x = (a \o w) \o b /\ Over(a, S) /\ Over(b, S)

\* Each of them stands in it as it is, elements of the others before and after it.
LEMMA ListingAround ==
  ASSUME NEW T, NEW S \in SUBSET Seq(T), IsFiniteSet(S), NEW w \in S
  PROVE  Amidst(FlattenSeq(SetToSeq(S)), w, S \ {w}, T)
<1> DEFINE s == SetToSeq(S)
<1>1. /\ s \in Seq(S) /\ IsInjective(s)
      /\ \E i \in DOMAIN s : s[i] = w
  BY Listing
<1> HIDE DEF s
<1>2. s \in Seq(Seq(T)) /\ \A i \in DOMAIN s : s[i] \in S
  BY <1>1
<1>3. PICK k \in DOMAIN s : s[k] = w
  BY <1>1
<1>4. k \in 1 .. Len(s)
  BY <1>1
<1>5. Surrounded(FlattenSeq(s), s, k, T)
  BY <1>2, <1>4, FlattenAround
<1>6. \A i \in DOMAIN s : i # k => s[i] \in S \ {w}
  BY <1>1, <1>2, <1>3 DEF IsInjective
<1>7. \A a : Around(a, s, k) => Over(a, S \ {w})
  BY <1>6 DEF Around, Over
<1>8. Amidst(FlattenSeq(s), w, S \ {w}, T)
  BY <1>3, <1>5, <1>7 DEF Surrounded, Amidst
<1>9. QED
  BY <1>8 DEF s
-----------------------------------------------------------------------------
(* Sums over finite sets. *)

\* The sums of w over the subsets of S, as the fold chooses the elements.
Chosen(s) == CHOOSE x \in s : TRUE
Adds(g, w, S) == g = [s \in SUBSET S |-> IF s = {} THEN 0 ELSE w[Chosen(s)] + g[s \ {Chosen(s)}]]

LEMMA AddsExist ==
  ASSUME NEW w, NEW S, IsFiniteSet(S)
  PROVE  \E g : Adds(g, w, S)
<1> DEFINE Few(n) == {s \in SUBSET S : Cardinality(s) <= n}
           G(n, g) == g = [s \in Few(n) |-> IF s = {} THEN 0 ELSE w[Chosen(s)] + g[s \ {Chosen(s)}]]
           N == {n \in Nat : \E g : G(n, g)}
<1>1. \A s \in SUBSET S : IsFiniteSet(s) /\ Cardinality(s) \in Nat
  BY FS_Subset, FS_CardinalityType
<1>2. \A s \in SUBSET S : s # {} => Chosen(s) \in s
  BY DEF Chosen
<1>3. \A s \in SUBSET S : s # {} =>
         /\ s \ {Chosen(s)} \in SUBSET S
         /\ Cardinality(s \ {Chosen(s)}) = Cardinality(s) - 1
  BY <1>1, <1>2, FS_RemoveElement
<1>4. 0 \in N
  <2>1. \A s \in Few(0) : s = {}
    <3>1. \A s \in Few(0) : IsFiniteSet(s) /\ Cardinality(s) = 0
      BY <1>1
    <3>2. QED
      BY <3>1, FS_EmptySet
  <2>2. G(0, [s \in Few(0) |-> 0])
    BY <2>1
  <2>3. QED
    BY <2>2
<1>5. ASSUME NEW n \in Nat, n \in N PROVE n + 1 \in N
  <2>1. PICK g : G(n, g)
    BY <1>5
  <2> DEFINE h == [s \in Few(n + 1) |-> IF s = {} THEN 0 ELSE w[Chosen(s)] + g[s \ {Chosen(s)}]]
  <2>2. \A s \in Few(n) : s \in Few(n + 1) /\ h[s] = g[s]
    <3>1. \A s \in Few(n) : s \in Few(n + 1)
      BY <1>1
    <3>2. \A s \in Few(n) : g[s] = IF s = {} THEN 0 ELSE w[Chosen(s)] + g[s \ {Chosen(s)}]
      BY <2>1
    <3>3. QED
      BY <3>1, <3>2
  <2>3. \A s \in Few(n + 1) : s # {} => s \ {Chosen(s)} \in Few(n)
    BY <1>1, <1>3
  <2>4. \A s \in Few(n + 1) : s # {} => h[s \ {Chosen(s)}] = g[s \ {Chosen(s)}]
    BY <2>2, <2>3
  <2>5. h = [s \in Few(n + 1) |-> IF s = {} THEN 0 ELSE w[Chosen(s)] + h[s \ {Chosen(s)}]]
    BY <2>4
  <2>6. G(n + 1, h)
    BY <2>5
  <2> HIDE DEF h, G
  <2>7. QED
    BY <2>6
<1>6. Cardinality(S) \in N
  <2> HIDE DEF N
  <2>1. Nat \subseteq N
    BY <1>4, <1>5, AllNumbers
  <2>2. QED
    BY <1>1, <2>1
<1>7. Few(Cardinality(S)) = SUBSET S
  BY FS_Subset
<1>8. PICK g : G(Cardinality(S), g)
  BY <1>6
<1>9. g = [s \in SUBSET S |-> IF s = {} THEN 0 ELSE w[Chosen(s)] + g[s \ {Chosen(s)}]]
  <2> HIDE DEF Few
  <2>1. QED
    BY <1>7, <1>8
<1>10. Adds(g, w, S)
  BY <1>9 DEF Adds
<1>11. QED
  BY <1>10

LEMMA SumAdds ==
  ASSUME NEW w, NEW S, IsFiniteSet(S)
  PROVE  \E g : Adds(g, w, S) /\ SumFunctionOnSet(w, S) = g[S]
<1> DEFINE g[s \in SUBSET S] == IF s = {} THEN 0 ELSE w[Chosen(s)] + g[s \ {Chosen(s)}]
<1>1. Adds(g, w, S)
  <2>1. \E h : h = [s \in SUBSET S |-> IF s = {} THEN 0 ELSE w[Chosen(s)] + h[s \ {Chosen(s)}]]
    <3>1. PICK h : Adds(h, w, S)
      BY AddsExist
    <3>2. h = [s \in SUBSET S |-> IF s = {} THEN 0 ELSE w[Chosen(s)] + h[s \ {Chosen(s)}]]
      BY <3>1 DEF Adds
    <3>3. QED
      BY <3>2
  <2>2. g = [s \in SUBSET S |-> IF s = {} THEN 0 ELSE w[Chosen(s)] + g[s \ {Chosen(s)}]]
    BY <2>1
  <2>3. QED
    BY <2>2 DEF Adds
<1>2. SumFunctionOnSet(w, S) = g[S]
  BY DEF Chosen, SumFunctionOnSet, FoldFunctionOnSet, MapThenFoldSet
<1>3. QED
  BY <1>1, <1>2

LEMMA SmallerSubsets ==
  ASSUME NEW S, IsFiniteSet(S), NEW P,
         \A t \in SUBSET S : (\A r \in SUBSET t : r # t => r \in P) => t \in P
  PROVE  \A t \in SUBSET S : t \in P
<1> DEFINE N == {n \in Nat : \A t \in SUBSET S : Cardinality(t) <= n => t \in P}
<1>1. \A t \in SUBSET S : IsFiniteSet(t) /\ Cardinality(t) \in Nat
  BY FS_Subset, FS_CardinalityType
<1>2. ASSUME NEW t \in SUBSET S, NEW r \in SUBSET t, r # t
      PROVE  r \in SUBSET S /\ Cardinality(r) < Cardinality(t)
  <2>1. Cardinality(r) <= Cardinality(t) /\ Cardinality(r) # Cardinality(t)
    BY <1>1, <1>2, FS_Subset
  <2>2. r \in SUBSET S
    OBVIOUS
  <2>3. QED
    BY <1>1, <2>1, <2>2
<1>3. 0 \in N
  <2> SUFFICES ASSUME NEW t \in SUBSET S, Cardinality(t) <= 0 PROVE t \in P
    OBVIOUS
  <2>1. ASSUME NEW r \in SUBSET t, r # t PROVE FALSE
    <3>1. r \in SUBSET S /\ Cardinality(r) < Cardinality(t)
      BY <1>2, <2>1
    <3>2. Cardinality(r) \in Nat /\ Cardinality(t) \in Nat
      BY <1>1, <3>1
    <3>3. QED
      BY <3>1, <3>2
  <2>2. QED
    BY <2>1
<1>4. ASSUME NEW n \in Nat, n \in N PROVE n + 1 \in N
  <2> SUFFICES ASSUME NEW t \in SUBSET S, Cardinality(t) <= n + 1 PROVE t \in P
    OBVIOUS
  <2>1. \A r \in SUBSET t : r # t => r \in SUBSET S /\ Cardinality(r) <= n
    BY <1>1, <1>2
  <2>2. \A r \in SUBSET t : r # t => r \in P
    BY <1>4, <2>1
  <2>3. QED
    BY <2>2
<1> HIDE DEF N
<1>5. Nat \subseteq N
  BY <1>3, <1>4, AllNumbers
<1>6. ASSUME NEW t \in SUBSET S PROVE t \in P
  <2>1. Cardinality(t) \in N
    BY <1>1, <1>5
  <2>2. QED
    BY <1>1, <2>1 DEF N
<1>7. QED
  BY <1>6

LEMMA AddsAt ==
  ASSUME NEW w, NEW S, NEW g, Adds(g, w, S)
  PROVE  /\ g[{}] = 0
         /\ \A s \in SUBSET S : s # {} => Chosen(s) \in s /\ g[s] = w[Chosen(s)] + g[s \ {Chosen(s)}]
<1>1. \A s : s # {} => Chosen(s) \in s
  BY DEF Chosen
<1>2. \A s \in SUBSET S : g[s] = IF s = {} THEN 0 ELSE w[Chosen(s)] + g[s \ {Chosen(s)}]
  BY DEF Adds
<1>3. QED
  BY <1>1, <1>2

\* The order of the elements makes no difference.
LEMMA AddsTake ==
  ASSUME NEW S, IsFiniteSet(S), NEW w, \A x \in S : w[x] \in Nat, NEW g, Adds(g, w, S)
  PROVE  \A s \in SUBSET S : g[s] \in Nat /\ \A x \in s : g[s] = w[x] + g[s \ {x}]
<1> DEFINE P == {s \in SUBSET S : g[s] \in Nat /\ \A x \in s : g[s] = w[x] + g[s \ {x}]}
<1>1. ASSUME NEW s \in SUBSET S, \A r \in SUBSET s : r # s => r \in P
      PROVE  s \in P
  <2>1. CASE s = {}
    BY <2>1, AddsAt
  <2>2. CASE s # {}
    <3>1. PICK y \in s : g[s] = w[y] + g[s \ {y}]
      <4>1. Chosen(s) \in s /\ g[s] = w[Chosen(s)] + g[s \ {Chosen(s)}]
        BY <2>2, AddsAt
      <4>2. QED
        BY <4>1
    <3>2. s \ {y} \in P /\ w[y] \in Nat
      BY <1>1, <3>1
    <3>3. g[s] \in Nat
      BY <3>1, <3>2
    <3>4. ASSUME NEW x \in s, x # y PROVE g[s] = w[x] + g[s \ {x}]
      <4>1. x \in s \ {y} /\ y \in s \ {x} /\ (s \ {y}) \ {x} = (s \ {x}) \ {y}
        BY <3>4
      <4>2. g[s \ {y}] = w[x] + g[(s \ {y}) \ {x}]
        BY <3>2, <4>1
      <4>3. s \ {x} \in P /\ (s \ {x}) \ {y} \in P /\ w[x] \in Nat
        BY <1>1
      <4>4. g[s \ {x}] = w[y] + g[(s \ {x}) \ {y}]
        BY <4>1, <4>3
      <4>5. PICK q \in Nat : q = g[(s \ {x}) \ {y}]
        BY <4>3
      <4>6. g[s] = w[y] + (w[x] + q) /\ g[s \ {x}] = w[y] + q
        BY <3>1, <4>1, <4>2, <4>4, <4>5
      <4>7. QED
        BY <3>2, <4>3, <4>6
    <3>5. QED
      BY <3>1, <3>3, <3>4
  <2>3. QED
    BY <2>1, <2>2
<1> HIDE DEF P
<1>2. \A s \in SUBSET S : s \in P
  BY <1>1, SmallerSubsets
<1>3. QED
  BY <1>2 DEF P

LEMMA AddsSame ==
  ASSUME NEW S, NEW T \in SUBSET S, IsFiniteSet(S), NEW w, NEW g, Adds(g, w, S),
         NEW h, Adds(h, w, T)
  PROVE  h[T] = g[T]
<1>0. /\ g[{}] = 0
      /\ \A s \in SUBSET S : s # {} => Chosen(s) \in s /\ g[s] = w[Chosen(s)] + g[s \ {Chosen(s)}]
  BY AddsAt
<1> DEFINE P == {s \in SUBSET T : h[s] = g[s]}
<1>1. ASSUME NEW s \in SUBSET T, \A r \in SUBSET s : r # s => r \in P
      PROVE  s \in P
  <2>1. CASE s = {}
    BY <2>1, AddsAt
  <2>2. CASE s # {}
    <3>1. Chosen(s) \in s /\ h[s] = w[Chosen(s)] + h[s \ {Chosen(s)}]
      BY <2>2, AddsAt
    <3>2. g[s] = w[Chosen(s)] + g[s \ {Chosen(s)}]
      <4>1. s \in SUBSET S
        OBVIOUS
      <4>2. QED
        BY <1>0, <2>2, <4>1
    <3>3. s \ {Chosen(s)} \in P
      BY <1>1, <3>1
    <3>4. QED
      BY <3>1, <3>2, <3>3
  <2>3. QED
    BY <2>1, <2>2
<1>2. IsFiniteSet(T)
  BY FS_Subset
<1> HIDE DEF P
<1>3. T \in P
  BY <1>1, <1>2, SmallerSubsets
<1>4. QED
  BY <1>3 DEF P

\* The sum of w over S, one element apart from the others.
LEMMA SumTake ==
  ASSUME NEW S, IsFiniteSet(S), NEW w, \A x \in S : w[x] \in Nat
  PROVE  /\ SumFunctionOnSet(w, S) \in Nat
         /\ S = {} => SumFunctionOnSet(w, S) = 0
         /\ \A x \in S : /\ IsFiniteSet(S \ {x})
                         /\ SumFunctionOnSet(w, S \ {x}) \in Nat
                         /\ SumFunctionOnSet(w, S) = w[x] + SumFunctionOnSet(w, S \ {x})
<1>1. PICK g : Adds(g, w, S) /\ SumFunctionOnSet(w, S) = g[S]
  BY SumAdds
<1>2. g[S] \in Nat /\ \A x \in S : g[S] = w[x] + g[S \ {x}] /\ g[S \ {x}] \in Nat
  BY <1>1, AddsTake, SMTT(40)
<1>3. S = {} => g[S] = 0
  BY <1>1, AddsAt
<1>4. ASSUME NEW x \in S
      PROVE  IsFiniteSet(S \ {x}) /\ SumFunctionOnSet(w, S \ {x}) = g[S \ {x}]
  <2>1. IsFiniteSet(S \ {x})
    BY FS_RemoveElement
  <2>2. PICK h : Adds(h, w, S \ {x}) /\ SumFunctionOnSet(w, S \ {x}) = h[S \ {x}]
    BY <2>1, SumAdds
  <2> DEFINE T == S \ {x}
  <2>3. T \in SUBSET S /\ Adds(h, w, T)
    BY <2>2
  <2> HIDE DEF T
  <2>4. h[T] = g[T]
    BY <1>1, <2>3, AddsSame
  <2>5. QED
    BY <2>1, <2>2, <2>4 DEF T
<1>5. QED
  BY <1>1, <1>2, <1>3, <1>4

LEMMA SumMember ==
  ASSUME NEW S, IsFiniteSet(S), NEW w, \A x \in S : w[x] \in Nat, NEW x \in S
  PROVE  w[x] <= SumFunctionOnSet(w, S)
<1>1. /\ SumFunctionOnSet(w, S) = w[x] + SumFunctionOnSet(w, S \ {x})
      /\ SumFunctionOnSet(w, S \ {x}) \in Nat
  BY SumTake
<1>2. w[x] \in Nat
  OBVIOUS
<1>3. QED
  BY <1>1, <1>2

\* A sum of smaller values, over fewer elements.
LEMMA SumSmaller ==
  ASSUME NEW S, IsFiniteSet(S), NEW T \in SUBSET S, NEW v, NEW w,
         \A x \in S : v[x] \in Nat /\ w[x] \in Nat /\ (x \in T => v[x] <= w[x])
  PROVE  SumFunctionOnSet(v, T) <= SumFunctionOnSet(w, S)
<1> DEFINE P == {s \in SUBSET S : SumFunctionOnSet(v, s \cap T) <= SumFunctionOnSet(w, s)}
<1>1. \A s \in SUBSET S : /\ IsFiniteSet(s) /\ IsFiniteSet(s \cap T)
                          /\ \A x \in s : w[x] \in Nat
                          /\ \A x \in s \cap T : v[x] \in Nat
  <2>1. \A s \in SUBSET S : s \cap T \in SUBSET S
    OBVIOUS
  <2>2. QED
    BY <2>1, FS_Subset
<1>2. ASSUME NEW s \in SUBSET S, \A r \in SUBSET s : r # s => r \in P
      PROVE  s \in P
  <2>1. CASE s = {}
    <3>1. s \cap T = {}
      BY <2>1
    <3>2. SumFunctionOnSet(v, s \cap T) = 0 /\ SumFunctionOnSet(w, s) = 0
      BY <1>1, <2>1, <3>1, SumTake
    <3>3. QED
      BY <3>2
  <2>2. ASSUME NEW x \in s PROVE s \in P
    <3>1. s \ {x} \in P
      BY <1>2
    <3>2. /\ SumFunctionOnSet(w, s) = w[x] + SumFunctionOnSet(w, s \ {x})
          /\ SumFunctionOnSet(w, s \ {x}) \in Nat
      BY <1>1, SumTake
    <3>3. w[x] \in Nat /\ v[x] \in Nat
      OBVIOUS
    <3>4. CASE x \notin T
      <4>1. (s \ {x}) \cap T = s \cap T
        BY <3>4
      <4>2. SumFunctionOnSet(v, s \cap T) \in Nat
        BY <1>1, SumTake
      <4>3. SumFunctionOnSet(v, s \cap T) <= SumFunctionOnSet(w, s \ {x})
        BY <3>1, <4>1
      <4>4. SumFunctionOnSet(v, s \cap T) <= SumFunctionOnSet(w, s)
        BY <3>2, <3>3, <4>2, <4>3
      <4>5. QED
        BY <4>4
    <3>5. CASE x \in T
      <4>1. (s \ {x}) \cap T = (s \cap T) \ {x} /\ x \in s \cap T
        BY <3>5
      <4>2. /\ SumFunctionOnSet(v, s \cap T) = v[x] + SumFunctionOnSet(v, (s \cap T) \ {x})
            /\ SumFunctionOnSet(v, (s \cap T) \ {x}) \in Nat
        BY <1>1, <4>1, SumTake
      <4>3. SumFunctionOnSet(v, (s \cap T) \ {x}) <= SumFunctionOnSet(w, s \ {x})
        BY <3>1, <4>1
      <4>4. v[x] <= w[x]
        BY <3>5
      <4>5. SumFunctionOnSet(v, s \cap T) <= SumFunctionOnSet(w, s)
        BY <3>2, <3>3, <4>2, <4>3, <4>4
      <4>6. QED
        BY <4>5
    <3>6. QED
      BY <3>4, <3>5
  <2>3. QED
    BY <2>1, <2>2
<1>3. SumFunctionOnSet(v, S \cap T) <= SumFunctionOnSet(w, S)
  <2> HIDE DEF P
  <2>1. S \in P
    BY <1>2, SmallerSubsets
  <2>2. QED
    BY <2>1 DEF P
<1>4. S \cap T = T
  OBVIOUS
<1>5. QED
  BY <1>3, <1>4

LEMMA SumOfZeros ==
  ASSUME NEW S, IsFiniteSet(S), NEW w, \A x \in S : w[x] = 0
  PROVE  SumFunctionOnSet(w, S) = 0
<1> DEFINE P == {s \in SUBSET S : SumFunctionOnSet(w, s) = 0}
<1>1. ASSUME NEW s \in SUBSET S, \A r \in SUBSET s : r # s => r \in P
      PROVE  s \in P
  <2>1. IsFiniteSet(s) /\ \A x \in s : w[x] \in Nat
    BY FS_Subset
  <2>2. CASE s = {}
    BY <2>1, <2>2, SumTake
  <2>3. ASSUME NEW x \in s PROVE s \in P
    <3>1. SumFunctionOnSet(w, s) = w[x] + SumFunctionOnSet(w, s \ {x})
      BY <2>1, SumTake
    <3>2. s \ {x} \in P
      BY <1>1
    <3>3. QED
      BY <3>1, <3>2
  <2>4. QED
    BY <2>2, <2>3
<1>2. S \in P
  <2> HIDE DEF P
  <2>1. QED
    BY <1>1, SmallerSubsets
<1>3. QED
  BY <1>2

\* As many elements as have a value add up to more, each being one at least.
LEMMA KindsSummed ==
  ASSUME NEW S, IsFiniteSet(S), NEW w, \A x \in S : w[x] \in Nat
  PROVE  Cardinality({x \in S : w[x] > 0}) <= SumFunctionOnSet(w, S)
<1> DEFINE K(s) == {x \in s : w[x] > 0}
           P == {s \in SUBSET S : Cardinality(K(s)) <= SumFunctionOnSet(w, s)}
<1>1. \A s \in SUBSET S : /\ IsFiniteSet(s) /\ \A x \in s : w[x] \in Nat
                          /\ IsFiniteSet(K(s)) /\ Cardinality(K(s)) \in Nat
  <2>1. \A s \in SUBSET S : K(s) \in SUBSET S
    OBVIOUS
  <2> HIDE DEF K
  <2>2. QED
    BY <2>1, FS_Subset, FS_CardinalityType
<1>2. ASSUME NEW s \in SUBSET S, \A r \in SUBSET s : r # s => r \in P
      PROVE  s \in P
  <2>1. CASE s = {}
    <3>1. K(s) = {}
      BY <2>1
    <3>2. Cardinality(K(s)) = 0
      BY <3>1, FS_EmptySet
    <3>3. SumFunctionOnSet(w, s) = 0
      BY <1>1, <2>1, SumTake
    <3>4. QED
      BY <3>2, <3>3
  <2>2. ASSUME NEW x \in s PROVE s \in P
    <3> DEFINE r == s \ {x}
    <3>1. r \in P
      BY <1>2
    <3>2. SumFunctionOnSet(w, s) = w[x] + SumFunctionOnSet(w, r) /\ SumFunctionOnSet(w, r) \in Nat
      BY <1>1, SumTake
    <3>3. w[x] \in Nat
      OBVIOUS
    <3>4. Cardinality(K(s)) <= Cardinality(K(r)) + (IF w[x] > 0 THEN 1 ELSE 0)
      <4>1. K(s) = IF w[x] > 0 THEN K(r) \cup {x} ELSE K(r)
        OBVIOUS
      <4>2. r \in SUBSET S /\ x \notin K(r)
        OBVIOUS
      <4> HIDE DEF K, r
      <4>3. IsFiniteSet(K(r)) /\ Cardinality(K(r)) \in Nat
        BY <1>1, <4>2
      <4>4. Cardinality(K(r) \cup {x}) = Cardinality(K(r)) + 1
        BY <4>2, <4>3, FS_AddElement
      <4>5. QED
        BY <4>1, <4>3, <4>4
    <3>5. Cardinality(K(r)) <= SumFunctionOnSet(w, r) /\ Cardinality(K(r)) \in Nat
      <4>1. r \in SUBSET S /\ Cardinality(K(r)) <= SumFunctionOnSet(w, r)
        BY <3>1
      <4> HIDE DEF K, r
      <4>2. QED
        BY <1>1, <4>1
    <3>6. Cardinality(K(s)) \in Nat
      BY <1>1
    <3> HIDE DEF K, r
    <3>7. Cardinality(K(s)) <= SumFunctionOnSet(w, s)
      BY <3>2, <3>3, <3>4, <3>5, <3>6
    <3>8. QED
      BY <3>7
  <2>3. QED
    BY <2>1, <2>2
<1>3. S \in P
  <2> HIDE DEF P
  <2>1. QED
    BY <1>2, SmallerSubsets
<1>4. QED
  BY <1>3

\* A union has at most as many elements as its sets together.
LEMMA UnionSummed ==
  ASSUME NEW S, IsFiniteSet(S), NEW f, NEW w,
         \A x \in S : IsFiniteSet(f[x]) /\ w[x] \in Nat /\ Cardinality(f[x]) <= w[x]
  PROVE  /\ IsFiniteSet(UNION {f[x] : x \in S})
         /\ Cardinality(UNION {f[x] : x \in S}) <= SumFunctionOnSet(w, S)
<1> DEFINE U(s) == UNION {f[x] : x \in s}
           P == {s \in SUBSET S :
                   IsFiniteSet(U(s)) /\ Cardinality(U(s)) <= SumFunctionOnSet(w, s)}
<1>1. \A s \in SUBSET S : IsFiniteSet(s) /\ \A x \in s : w[x] \in Nat
  BY FS_Subset
<1>2. ASSUME NEW s \in SUBSET S, \A r \in SUBSET s : r # s => r \in P
      PROVE  s \in P
  <2>1. CASE s = {}
    <3>1. U(s) = {}
      BY <2>1
    <3>2. IsFiniteSet(U(s)) /\ Cardinality(U(s)) = 0
      BY <3>1, FS_EmptySet
    <3>3. SumFunctionOnSet(w, s) = 0
      BY <1>1, <2>1, SumTake
    <3>4. QED
      BY <3>2, <3>3
  <2>2. ASSUME NEW x \in s PROVE s \in P
    <3> DEFINE r == s \ {x}
    <3>1. r \in P
      BY <1>2
    <3>2. SumFunctionOnSet(w, s) = w[x] + SumFunctionOnSet(w, r) /\ SumFunctionOnSet(w, r) \in Nat
      BY <1>1, SumTake
    <3>3. IsFiniteSet(f[x]) /\ w[x] \in Nat /\ Cardinality(f[x]) <= w[x]
      OBVIOUS
    <3>4. U(s) = U(r) \cup f[x]
      OBVIOUS
    <3>5. IsFiniteSet(U(r)) /\ Cardinality(U(r)) <= SumFunctionOnSet(w, r)
      BY <3>1
    <3> HIDE DEF U, r
    <3>6. /\ IsFiniteSet(U(r) \cup f[x])
          /\ Cardinality(U(r) \cup f[x]) <= Cardinality(U(r)) + Cardinality(f[x])
      <4>1. IsFiniteSet(U(r) \cap f[x]) /\ Cardinality(U(r) \cap f[x]) \in Nat
        BY <3>5, FS_Intersection, FS_CardinalityType
      <4>2. /\ IsFiniteSet(U(r) \cup f[x])
            /\ Cardinality(U(r) \cup f[x])
                 = Cardinality(U(r)) + Cardinality(f[x]) - Cardinality(U(r) \cap f[x])
        BY <3>3, <3>5, FS_Union
      <4>3. Cardinality(U(r)) \in Nat /\ Cardinality(f[x]) \in Nat
        BY <3>3, <3>5, FS_CardinalityType
      <4>4. QED
        BY <4>1, <4>2, <4>3
    <3>7. /\ Cardinality(U(r)) \in Nat /\ Cardinality(f[x]) \in Nat
          /\ Cardinality(U(r) \cup f[x]) \in Nat
      BY <3>3, <3>5, <3>6, FS_CardinalityType
    <3>8. Cardinality(U(s)) <= SumFunctionOnSet(w, s)
      BY <3>2, <3>3, <3>4, <3>5, <3>6, <3>7
    <3>9. QED
      BY <3>4, <3>6, <3>8
  <2>3. QED
    BY <2>1, <2>2
<1>3. S \in P
  <2> HIDE DEF P
  <2>1. QED
    BY <1>2, SmallerSubsets
<1>4. QED
  BY <1>3
=============================================================================
