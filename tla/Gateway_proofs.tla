--------------------------- MODULE Gateway_proofs ---------------------------
(***************************************************************************)
(* Proofs about Gateway, for any requests, stacks, callers and sizes: two  *)
(* requests have one cache key only if tenant and prefix are the same, and *)
(* what is kept under a key is served to nobody else; an answer fits its   *)
(* request; what is retried may pass; and the shard of the response cache  *)
(* evicts what was used longest ago.                                       *)
(***************************************************************************)
EXTENDS Gateway, FiniteSetTheorems, FunctionTheorems, SequenceTheorems, TLAPS

(***************************************************************************)
(* Natural numbers, and sequences that are put together from pieces.       *)
(***************************************************************************)
\* A set of natural numbers that is not empty has a least one.
LEMMA Least ==
  ASSUME NEW S, S \subseteq Nat, S # {}
  PROVE  \E x \in S : \A y \in S : x <= y
<1>1. \E x \in S : \A y \in S : ~ (<<y, x>> \in OpToRel(<, Nat))
  BY NatLessThanWellFounded, WFMin
<1>2. PICK x \in S : \A y \in S : ~ (<<y, x>> \in OpToRel(<, Nat))
  BY <1>1
<1>3. ASSUME NEW y \in S PROVE x <= y
  <2>1. ~ (<<y, x>> \in OpToRel(<, Nat))
    BY <1>2
  <2>2. ~ (y < x)
    BY <2>1 DEF OpToRel
  <2> QED
    BY <2>2
<1> QED
  BY <1>3

\* A set that has 0, and the successor of each number it has, has them all.
LEMMA Induction ==
  ASSUME NEW S, 0 \in S, \A n \in Nat : n \in S => n + 1 \in S
  PROVE  \A n \in Nat : n \in S
<1> SUFFICES ASSUME Nat \ S # {} PROVE FALSE
  OBVIOUS
<1>1. PICK x \in Nat \ S : \A y \in Nat \ S : x <= y
  BY Least
<1>2. x # 0 /\ x - 1 \in Nat
  BY <1>1
<1>3. x - 1 \in S
  BY <1>1, <1>2
<1> QED
  BY <1>1, <1>2, <1>3

\* f holds what the first n pieces of s make together.
Flat(f, n, s) == f = [i \in 1 .. n |-> IF i = 1 THEN s[i] ELSE f[i - 1] \o s[i]]

LEMMA FlatAt ==
  ASSUME NEW f, NEW n \in Nat, NEW s, Flat(f, n, s)
  PROVE  \A i \in 1 .. n : f[i] = IF i = 1 THEN s[i] ELSE f[i - 1] \o s[i]
BY DEF Flat

\* Functions on one domain with the same values are the same.
LEMMA SameFunction ==
  ASSUME NEW D, NEW f, NEW g, f = [i \in D |-> f[i]], g = [i \in D |-> g[i]], \A i \in D : f[i] = g[i]
  PROVE  f = g
OBVIOUS

\* One more piece.
LEMMA FlatMore ==
  ASSUME NEW s, NEW n \in Nat, NEW f, Flat(f, n, s)
  PROVE  \E g : Flat(g, n + 1, s)
<1> DEFINE g == [i \in 1 .. n + 1 |-> IF i = 1 THEN s[1] ELSE IF i = n + 1 THEN f[n] \o s[n + 1] ELSE f[i]]
<1> DEFINE r == [i \in 1 .. n + 1 |-> IF i = 1 THEN s[i] ELSE g[i - 1] \o s[i]]
<1>1. \A i \in 1 .. n : f[i] = IF i = 1 THEN s[i] ELSE f[i - 1] \o s[i]
  BY FlatAt
<1>2. ASSUME NEW i \in 1 .. n + 1 PROVE g[i] = IF i = 1 THEN s[1] ELSE IF i = n + 1 THEN f[n] \o s[n + 1] ELSE f[i]
  OBVIOUS
<1>3. g = [i \in 1 .. n + 1 |-> g[i]] /\ r = [i \in 1 .. n + 1 |-> r[i]]
  OBVIOUS
<1>4. ASSUME NEW i \in 1 .. n + 1 PROVE r[i] = IF i = 1 THEN s[i] ELSE g[i - 1] \o s[i]
  OBVIOUS
<1> HIDE DEF g, r
<1>5. \A i \in 1 .. n : g[i] = f[i]
  <2> TAKE i \in 1 .. n
  <2>1. i \in 1 .. n + 1 /\ i # n + 1
    OBVIOUS
  <2>2. i = 1 => f[i] = s[1]
    BY <1>1
  <2> QED
    BY <1>2, <2>1, <2>2
<1>6. ASSUME NEW i \in 1 .. n + 1 PROVE g[i] = r[i]
  <2>1. CASE i = 1
    BY <1>2, <1>4, <2>1
  <2>2. CASE i = n + 1 /\ i # 1
    <3>1. n \in 1 .. n /\ i - 1 = n
      BY <2>2
    <3>2. g[i - 1] = f[n]
      BY <1>5, <3>1
    <3>3. g[i] = f[n] \o s[n + 1]
      BY <1>2, <2>2
    <3>4. r[i] = g[i - 1] \o s[i]
      BY <1>4, <2>2
    <3> QED
      BY <3>2, <3>3, <3>4, <2>2
  <2>3. CASE i # 1 /\ i # n + 1
    <3>1. i \in 1 .. n /\ i - 1 \in 1 .. n
      BY <2>3
    <3>2. g[i] = f[i] /\ g[i - 1] = f[i - 1]
      BY <1>5, <3>1
    <3>3. f[i] = f[i - 1] \o s[i]
      BY <1>1, <3>1, <2>3
    <3>4. r[i] = g[i - 1] \o s[i]
      BY <1>4, <2>3
    <3> QED
      BY <3>2, <3>3, <3>4
  <2> QED
    BY <2>1, <2>2, <2>3
<1>7. g = r
  BY <1>3, <1>6, SameFunction
<1>8. g = [i \in 1 .. n + 1 |-> IF i = 1 THEN s[i] ELSE g[i - 1] \o s[i]]
  BY <1>7 DEF r
<1> QED
  BY <1>8 DEF Flat

LEMMA FlatExists ==
  ASSUME NEW s
  PROVE  \A n \in Nat : \E f : Flat(f, n, s)
<1> DEFINE S == {n \in Nat : \E f : Flat(f, n, s)}
<1>1. 0 \in S
  <2> DEFINE g == [i \in 1 .. 0 |-> <<>>]
  <2>1. g = [i \in 1 .. 0 |-> IF i = 1 THEN s[i] ELSE g[i - 1] \o s[i]]
    <3>1. 1 .. 0 = {}
      OBVIOUS
    <3> QED
      BY <3>1
  <2> HIDE DEF g
  <2> QED
    BY <2>1 DEF Flat
<1>2. ASSUME NEW n \in Nat, n \in S PROVE n + 1 \in S
  <2>1. PICK f : Flat(f, n, s)
    BY <1>2
  <2>2. \E g : Flat(g, n + 1, s)
    BY <2>1, FlatMore
  <2> QED
    BY <2>2
<1>3. \A n \in Nat : n \in S
  <2> HIDE DEF S
  <2> QED
    BY <1>1, <1>2, Induction
<1> QED
  BY <1>3

\* What the first pieces make does not depend on those after them.
LEMMA FlatAgree ==
  ASSUME NEW s, NEW t, NEW n \in Nat, NEW m \in Nat, n <= m, \A i \in 1 .. n : s[i] = t[i],
         NEW f, NEW g, Flat(f, n, s), Flat(g, m, t)
  PROVE  \A i \in 1 .. n : f[i] = g[i]
<1> DEFINE S == {k \in Nat : k \in 1 .. n => f[k] = g[k]}
<1>1. 0 \in S
  OBVIOUS
<1>2. ASSUME NEW k \in Nat, k \in S PROVE k + 1 \in S
  <2> SUFFICES ASSUME k + 1 \in 1 .. n PROVE f[k + 1] = g[k + 1]
    OBVIOUS
  <2>1. k + 1 \in 1 .. m /\ s[k + 1] = t[k + 1]
    OBVIOUS
  <2>2. f[k + 1] = IF k + 1 = 1 THEN s[k + 1] ELSE f[k + 1 - 1] \o s[k + 1]
    BY FlatAt
  <2>3. g[k + 1] = IF k + 1 = 1 THEN t[k + 1] ELSE g[k + 1 - 1] \o t[k + 1]
    BY FlatAt, <2>1
  <2>4. CASE k = 0
    BY <2>1, <2>2, <2>3, <2>4
  <2>5. CASE k # 0
    <3>1. k \in 1 .. n /\ k + 1 - 1 = k /\ k + 1 # 1
      BY <2>5
    <3>2. f[k] = g[k]
      BY <1>2, <3>1
    <3> QED
      BY <2>1, <2>2, <2>3, <3>1, <3>2
  <2> QED
    BY <2>4, <2>5
<1>3. \A k \in Nat : k \in S
  <2> HIDE DEF S
  <2> QED
    BY <1>1, <1>2, Induction
<1> QED
  BY <1>3

LEMMA FlattenIs ==
  ASSUME NEW T, NEW s \in Seq(T), Len(s) # 0
  PROVE  \E f : Flat(f, Len(s), s) /\ FlattenSeq(s) = f[Len(s)]
<1> DEFINE Fun(f) == f = [i \in 1 .. Len(s) |-> IF i = 1 THEN s[i] ELSE f[i - 1] \o s[i]]
<1> DEFINE c == CHOOSE f : Fun(f)
<1>1. Len(s) \in Nat
  OBVIOUS
<1>2. \E f : Fun(f)
  <2>1. \E f : Flat(f, Len(s), s)
    BY FlatExists, <1>1
  <2> QED
    BY <2>1 DEF Flat
<1>3. Fun(c)
  BY <1>2
<1>4. FlattenSeq(s) = c[Len(s)]
  BY DEF FlattenSeq
<1>5. Flat(c, Len(s), s)
  BY <1>3 DEF Flat
<1> QED
  BY <1>4, <1>5

\* What a sequence of sequences makes together is a sequence.
LEMMA FlattenType ==
  ASSUME NEW T, NEW s \in Seq(Seq(T)), NEW m \in Nat, Len(s) = m, m # 0, NEW f, Flat(f, m, s)
  PROVE  f[m] \in Seq(T)
<1> DEFINE S == {k \in Nat : k \in 1 .. m => f[k] \in Seq(T)}
<1>1. 0 \in S
  OBVIOUS
<1>2. ASSUME NEW k \in Nat, k \in S PROVE k + 1 \in S
  <2> SUFFICES ASSUME k + 1 \in 1 .. m PROVE f[k + 1] \in Seq(T)
    OBVIOUS
  <2>1. s[k + 1] \in Seq(T)
    OBVIOUS
  <2>2. f[k + 1] = IF k + 1 = 1 THEN s[k + 1] ELSE f[k + 1 - 1] \o s[k + 1]
    BY FlatAt
  <2>3. CASE k = 0
    BY <2>1, <2>2, <2>3
  <2>4. CASE k # 0
    <3>1. k \in 1 .. m /\ k + 1 - 1 = k /\ k + 1 # 1
      BY <2>4
    <3>2. f[k] \in Seq(T)
      BY <1>2, <3>1
    <3>3. f[k + 1] = f[k] \o s[k + 1]
      BY <2>2, <3>1
    <3> QED
      BY ONLY <3>2, <3>3, <2>1
  <2> QED
    BY <2>3, <2>4
<1>3. \A k \in Nat : k \in S
  <2> HIDE DEF S
  <2> QED
    BY <1>1, <1>2, Induction
<1> QED
  BY <1>3

\* One more of them.
LEMMA FlattenStep ==
  ASSUME NEW T, NEW s \in Seq(Seq(T)), NEW t \in Seq(Seq(T)), NEW m \in Nat, Len(s) = m, Len(t) = m + 1,
         \A i \in 1 .. m : s[i] = t[i]
  PROVE  FlattenSeq(s) \in Seq(T) /\ FlattenSeq(t) = FlattenSeq(s) \o t[m + 1]
<1>1. t[m + 1] \in Seq(T)
  OBVIOUS
<1>2. PICK g : Flat(g, m + 1, t) /\ FlattenSeq(t) = g[m + 1]
  <2>1. Len(t) # 0
    OBVIOUS
  <2>2. \E g : Flat(g, Len(t), t) /\ FlattenSeq(t) = g[Len(t)]
    BY <2>1, FlattenIs
  <2> QED
    BY <2>2
<1>3. \A i \in 1 .. m + 1 : g[i] = IF i = 1 THEN t[i] ELSE g[i - 1] \o t[i]
  <2>1. m + 1 \in Nat
    OBVIOUS
  <2> QED
    BY ONLY <1>2, <2>1, FlatAt
<1>4. CASE m = 0
  <2>1. s = <<>> /\ FlattenSeq(s) = s
    BY <1>4 DEF FlattenSeq
  <2>2. g[1] = t[1]
    BY <1>3, <1>4
  <2>3. <<>> \o t[1] = t[1] /\ <<>> \in Seq(T)
    BY <1>1, <1>4
  <2>4. m + 1 = 1
    BY <1>4
  <2> QED
    BY ONLY <2>1, <2>2, <2>3, <2>4, <1>2
<1>5. CASE m # 0
  <2>1. PICK f : Flat(f, m, s) /\ FlattenSeq(s) = f[m]
    BY <1>5, FlattenIs
  <2>2. \A i \in 1 .. m : f[i] = g[i]
    <3>1. m <= m + 1 /\ m + 1 \in Nat
      OBVIOUS
    <3> QED
      BY ONLY <3>1, <1>2, <2>1, FlatAgree, m \in Nat, \A i \in 1 .. m : s[i] = t[i]
  <2>3. f[m] \in Seq(T)
    BY <2>1, <1>5, FlattenType
  <2>4. g[m + 1] = g[m] \o t[m + 1]
    <3> DEFINE n == m + 1
    <3>1. n \in 1 .. n /\ n # 1 /\ n - 1 = m
      BY <1>5
    <3>2. \A i \in 1 .. n : g[i] = IF i = 1 THEN t[i] ELSE g[i - 1] \o t[i]
      BY <1>3
    <3>3. g[n] = g[m] \o t[n]
      <4> HIDE DEF n
      <4>1. g[n] = g[n - 1] \o t[n]
        BY ONLY <3>1, <3>2
      <4> QED
        BY <4>1, <3>1
    <3> QED
      BY <3>3
  <2>5. g[m] = f[m]
    BY <2>2, <1>5
  <2> QED
    BY ONLY <2>1, <2>3, <2>4, <2>5, <1>2
<1> QED
  BY <1>4, <1>5

LEMMA FlattenAppend ==
  ASSUME NEW T, NEW s \in Seq(Seq(T)), NEW x \in Seq(T)
  PROVE  FlattenSeq(s) \in Seq(T) /\ FlattenSeq(Append(s, x)) = FlattenSeq(s) \o x
<1> DEFINE t == Append(s, x)
<1> DEFINE m == Len(s)
<1>1. t \in Seq(Seq(T)) /\ m \in Nat /\ Len(t) = m + 1 /\ t[m + 1] = x
  OBVIOUS
<1>2. \A i \in 1 .. m : s[i] = t[i]
  OBVIOUS
<1>3. Len(s) = m
  OBVIOUS
<1> HIDE DEF t, m
<1>4. FlattenSeq(s) \in Seq(T) /\ FlattenSeq(t) = FlattenSeq(s) \o t[m + 1]
  BY <1>1, <1>2, <1>3, FlattenStep
<1> QED
  BY <1>1, <1>4 DEF t

LEMMA FlattenEmpty == FlattenSeq(<<>>) = <<>>
<1>1. Len(<<>>) = 0
  OBVIOUS
<1> QED
  BY <1>1 DEF FlattenSeq

(***************************************************************************)
(* What is left of a text.                                                 *)
(***************************************************************************)
\* A sequence is its beginnings, each with one more element than the last.
LEMMA Beginnings ==
  ASSUME NEW T, NEW s \in Seq(T)
  PROVE  /\ SubSeq(s, 1, 0) = <<>> /\ SubSeq(s, 1, Len(s)) = s
         /\ \A n \in 0 .. Len(s) : SubSeq(s, 1, n) \in Seq(T) /\ Len(SubSeq(s, 1, n)) = n /\ \A i \in 1 .. n : SubSeq(s, 1, n)[i] = s[i]
         /\ \A n \in 0 .. Len(s) - 1 : s[n + 1] \in T /\ SubSeq(s, 1, n + 1) = Append(SubSeq(s, 1, n), s[n + 1])
<1>1. ASSUME NEW n \in 0 .. Len(s) - 1
      PROVE  s[n + 1] \in T /\ SubSeq(s, 1, n + 1) = Append(SubSeq(s, 1, n), s[n + 1])
  OBVIOUS
<1>2. SubSeq(s, 1, 0) = <<>> /\ SubSeq(s, 1, Len(s)) = s
  OBVIOUS
<1>3. ASSUME NEW n \in 0 .. Len(s)
      PROVE  SubSeq(s, 1, n) \in Seq(T) /\ Len(SubSeq(s, 1, n)) = n /\ \A i \in 1 .. n : SubSeq(s, 1, n)[i] = s[i]
  OBVIOUS
<1> QED
  BY <1>1, <1>2, <1>3

Piece(c) == IF c \in Blank THEN <<>> ELSE <<c>>

LEMMA LettersAppend ==
  ASSUME NEW T, NEW s \in Seq(T), NEW c \in T
  PROVE  Letters(s) \in Seq(T) /\ Letters(Append(s, c)) = Letters(s) \o Piece(c)
<1> DEFINE t == Append(s, c)
<1> DEFINE m == Len(s)
<1> DEFINE a == [i \in 1 .. m |-> Piece(s[i])]
<1> DEFINE b == [i \in 1 .. m + 1 |-> Piece(t[i])]
<1>1. /\ m \in Nat /\ DOMAIN s = 1 .. m /\ DOMAIN t = 1 .. m + 1 /\ t[m + 1] = c
      /\ \A i \in 1 .. m : s[i] \in T /\ t[i] = s[i]
  OBVIOUS
<1> HIDE DEF t, m
<1>2. ASSUME NEW d \in T PROVE Piece(d) \in Seq(T)
  <2>1. <<>> \in Seq(T) /\ <<d>> \in Seq(T)
    OBVIOUS
  <2> QED
    BY <2>1 DEF Piece
<1>3. a \in Seq(Seq(T)) /\ Len(a) = m /\ \A i \in 1 .. m : a[i] = Piece(s[i])
  <2>1. \A i \in 1 .. m : Piece(s[i]) \in Seq(T)
    BY <1>1, <1>2
  <2> QED
    BY <1>1, <2>1
<1>4. /\ b \in Seq(Seq(T)) /\ Len(b) = m + 1 /\ \A i \in 1 .. m : b[i] = Piece(s[i])
      /\ b[m + 1] = Piece(c)
  <2>1. \A i \in 1 .. m + 1 : t[i] \in T
    BY <1>1
  <2>2. \A i \in 1 .. m + 1 : Piece(t[i]) \in Seq(T)
    BY <2>1, <1>2
  <2>3. b \in Seq(Seq(T)) /\ Len(b) = m + 1
    BY <1>1, <2>2
  <2> QED
    BY <2>3, <1>1
<1>5. Letters(s) = FlattenSeq(a) /\ Letters(t) = FlattenSeq(b)
  BY <1>1 DEF Letters, Piece
<1> HIDE DEF a, b
<1>6. \A i \in 1 .. m : a[i] = b[i]
  BY <1>3, <1>4
<1>7. FlattenSeq(a) \in Seq(T) /\ FlattenSeq(b) = FlattenSeq(a) \o b[m + 1]
  BY ONLY <1>1, <1>3, <1>4, <1>6, FlattenStep
<1> QED
  BY <1>4, <1>5, <1>7 DEF t

LEMMA LettersEmpty == Letters(<<>>) = <<>>
<1>1. [i \in DOMAIN <<>> |-> IF <<>>[i] \in Blank THEN <<>> ELSE <<<<>>[i]>>] = <<>>
  OBVIOUS
<1> QED
  BY <1>1, FlattenEmpty DEF Letters
LEMMA LettersType ==
  ASSUME NEW T, NEW s \in Seq(T)
  PROVE  Letters(s) \in Seq(T)
<1>1. CASE s = <<>>
  BY <1>1, LettersEmpty
<1>2. CASE s # <<>>
  <2>1. s[1] \in T
    BY <1>2
  <2> QED
    BY <2>1, LettersAppend
<1> QED
  BY <1>1, <1>2

\* The letters of a beginning: what holds with one more character and then
\* with one more, holds for the whole.
LEMMA LettersConcat ==
  ASSUME NEW T, NEW s \in Seq(T), NEW t \in Seq(T)
  PROVE  Letters(s \o t) = Letters(s) \o Letters(t)
<1> DEFINE B(n) == SubSeq(t, 1, n)
<1> DEFINE S == {n \in Nat : n \in 0 .. Len(t) => Letters(s \o B(n)) = Letters(s) \o Letters(B(n))}
<1>1. Len(t) \in Nat /\ Len(t) \in 0 .. Len(t) /\ B(0) = <<>> /\ B(Len(t)) = t
  BY Beginnings
<1>2. ASSUME NEW u \in Seq(T) PROVE Letters(u) \in Seq(T)
  BY LettersType
<1>3. 0 \in S
  <2>1. s \o <<>> = s /\ Letters(s) \o <<>> = Letters(s)
    BY <1>2
  <2> QED
    BY <1>1, <2>1, LettersEmpty
<1>4. ASSUME NEW n \in Nat, n \in S PROVE n + 1 \in S
  <2> SUFFICES ASSUME n + 1 \in 0 .. Len(t) PROVE Letters(s \o B(n + 1)) = Letters(s) \o Letters(B(n + 1))
    OBVIOUS
  <2> DEFINE b == B(n)
  <2> DEFINE c == t[n + 1]
  <2>1. n \in 0 .. Len(t) /\ n \in 0 .. Len(t) - 1
    BY <1>1
  <2>2. c \in T /\ b \in Seq(T) /\ B(n + 1) = Append(b, c)
    BY <2>1, Beginnings
  <2>3. Letters(s \o b) = Letters(s) \o Letters(b)
    BY <1>4, <2>1
  <2> HIDE DEF b, c, B, S
  <2>4. s \o Append(b, c) = Append(s \o b, c) /\ s \o b \in Seq(T)
    BY <2>2
  <2>5. Letters(Append(s \o b, c)) = Letters(s \o b) \o Piece(c) /\ Letters(Append(b, c)) = Letters(b) \o Piece(c)
    BY <2>2, <2>4, LettersAppend
  <2>6. Letters(s) \in Seq(T) /\ Letters(b) \in Seq(T) /\ Piece(c) \in Seq(T)
    <3>1. <<>> \in Seq(T) /\ <<c>> \in Seq(T)
      BY <2>2
    <3> QED
      BY <1>2, <2>2, <3>1 DEF Piece
  <2>7. (Letters(s) \o Letters(b)) \o Piece(c) = Letters(s) \o (Letters(b) \o Piece(c))
    <3> DEFINE x == Letters(s)
    <3> DEFINE y == Letters(b)
    <3> DEFINE z == Piece(c)
    <3>1. x \in Seq(T) /\ y \in Seq(T) /\ z \in Seq(T)
      BY <2>6
    <3> HIDE DEF x, y, z
    <3>2. (x \o y) \o z = x \o (y \o z)
      BY ONLY <3>1, ConcatAssociative
    <3> QED
      BY <3>2 DEF x, y, z
  <2> QED
    BY <2>2, <2>3, <2>4, <2>5, <2>7
<1>5. \A n \in Nat : n \in S
  <2> HIDE DEF S
  <2> QED
    BY <1>3, <1>4, Induction
<1> QED
  BY <1>1, <1>5

\* White space has no letters; what is not white space has some.
LEMMA NoLetters ==
  ASSUME NEW T, NEW s \in Seq(T), \A i \in 1 .. Len(s) : s[i] \in Blank
  PROVE  Letters(s) = <<>>
<1> DEFINE a == [i \in DOMAIN s |-> IF s[i] \in Blank THEN <<>> ELSE <<s[i]>>]
<1> DEFINE S == {n \in Nat : n \in 0 .. Len(s) => Letters(SubSeq(s, 1, n)) = <<>>}
<1>1. Len(s) \in Nat /\ Len(s) \in 0 .. Len(s) /\ SubSeq(s, 1, 0) = <<>> /\ SubSeq(s, 1, Len(s)) = s
  BY Beginnings
<1>2. 0 \in S
  BY <1>1, LettersEmpty
<1>3. ASSUME NEW n \in Nat, n \in S PROVE n + 1 \in S
  <2> SUFFICES ASSUME n + 1 \in 0 .. Len(s) PROVE Letters(SubSeq(s, 1, n + 1)) = <<>>
    OBVIOUS
  <2> DEFINE b == SubSeq(s, 1, n)
  <2> DEFINE c == s[n + 1]
  <2>1. n \in 0 .. Len(s) /\ n \in 0 .. Len(s) - 1 /\ n + 1 \in 1 .. Len(s)
    BY <1>1
  <2>2. c \in T /\ b \in Seq(T) /\ SubSeq(s, 1, n + 1) = Append(b, c)
    BY <2>1, Beginnings
  <2>3. Letters(b) = <<>> /\ c \in Blank
    BY <1>3, <2>1
  <2> HIDE DEF b, c
  <2>4. Letters(Append(b, c)) = Letters(b) \o Piece(c) /\ Piece(c) = <<>>
    BY <2>2, <2>3, LettersAppend DEF Piece
  <2>5. <<>> \o <<>> = <<>>
    OBVIOUS
  <2> QED
    BY <2>2, <2>3, <2>4, <2>5
<1>4. \A n \in Nat : n \in S
  <2> HIDE DEF S
  <2> QED
    BY <1>2, <1>3, Induction
<1> QED
  BY <1>1, <1>4
LEMMA Greatest ==
  ASSUME NEW n \in Nat, NEW S, S \subseteq 1 .. n, S # {}
  PROVE  \E x \in S : \A y \in S : y <= x
<1> DEFINE R == {n - x : x \in S}
<1>1. R \subseteq Nat /\ R # {}
  <2>1. \A x \in S : x \in 1 .. n
    OBVIOUS
  <2>2. \A x \in S : n - x \in Nat
    BY <2>1
  <2>3. R # {}
    OBVIOUS
  <2> QED
    BY <2>2, <2>3
<1>2. PICK r \in R : \A q \in R : r <= q
  <2> HIDE DEF R
  <2> QED
    BY <1>1, Least
<1>3. PICK x \in S : r = n - x
  BY <1>2
<1>4. ASSUME NEW y \in S PROVE y <= x
  <2>1. n - y \in R
    OBVIOUS
  <2>2. n - x <= n - y /\ x \in 1 .. n /\ y \in 1 .. n
    BY <1>2, <1>3, <2>1
  <2> QED
    BY <2>2
<1> QED
  BY <1>3, <1>4

\* What strings.TrimSpace leaves begins and ends with the first and the last
\* character that is not white space.
Trims(s, i, j) ==
  /\ 1 <= i /\ i <= j /\ j <= Len(s) /\ s[i] \notin Blank /\ s[j] \notin Blank
  /\ \A k \in 1 .. Len(s) : (k < i \/ k > j) => s[k] \in Blank
  /\ TrimSpace(s) = SubSeq(s, i, j)

LEMMA TrimIs ==
  ASSUME NEW T, NEW s \in Seq(T)
  PROVE  \/ (\A k \in 1 .. Len(s) : s[k] \in Blank) /\ TrimSpace(s) = <<>>
         \/ \E i, j \in Nat : Trims(s, i, j)
<1> DEFINE kept == {i \in DOMAIN s : s[i] \notin Blank}
<1>1. Len(s) \in Nat /\ DOMAIN s = 1 .. Len(s)
  OBVIOUS
<1>2. CASE kept = {}
  <2>1. TrimSpace(s) = <<>>
    BY <1>2 DEF TrimSpace
  <2> QED
    BY <1>1, <1>2, <2>1
<1>3. CASE kept # {}
  <2>1. kept \subseteq 1 .. Len(s) /\ kept \subseteq Nat
    BY <1>1
  <2> DEFINE i == CHOOSE a \in kept : \A b \in kept : a <= b
  <2> DEFINE j == CHOOSE a \in kept : \A b \in kept : b <= a
  <2>2. TrimSpace(s) = SubSeq(s, i, j)
    BY <1>3 DEF TrimSpace
  <2>3. i \in kept /\ \A k \in kept : i <= k
    <3>1. \E x \in kept : \A y \in kept : x <= y
      <4> HIDE DEF kept
      <4> QED
        BY <2>1, <1>3, Least
    <3> HIDE DEF kept
    <3> QED
      BY <3>1
  <2>4. j \in kept /\ \A k \in kept : k <= j
    <3>1. \E x \in kept : \A y \in kept : y <= x
      <4> HIDE DEF kept
      <4> QED
        BY <2>1, <1>1, <1>3, Greatest
    <3> HIDE DEF kept
    <3> QED
      BY <3>1
  <2> HIDE DEF i, j
  <2>5. i \in 1 .. Len(s) /\ j \in 1 .. Len(s) /\ s[i] \notin Blank /\ s[j] \notin Blank /\ i <= j
    BY <2>1, <2>3, <2>4, <1>1
  <2>6. ASSUME NEW k \in 1 .. Len(s), k < i \/ k > j PROVE s[k] \in Blank
    <3> SUFFICES ASSUME s[k] \notin Blank PROVE FALSE
      OBVIOUS
    <3>1. k \in kept
      BY <1>1
    <3>2. i <= k /\ k <= j
      BY <2>3, <2>4, <3>1
    <3> QED
      BY <2>5, <2>6, <3>2
  <2>7. i \in Nat /\ j \in Nat /\ Trims(s, i, j)
    BY <2>2, <2>5, <2>6, <1>1 DEF Trims
  <2> QED
    BY <2>7
<1> QED
  BY <1>2, <1>3

\* A text is the white space before, what TrimSpace leaves, and that after.
LEMMA TrimSplits ==
  ASSUME NEW T, NEW s \in Seq(T), NEW i \in Nat, NEW j \in Nat, Trims(s, i, j)
  PROVE  /\ SubSeq(s, 1, i - 1) \in Seq(T) /\ TrimSpace(s) \in Seq(T) /\ SubSeq(s, j + 1, Len(s)) \in Seq(T)
         /\ s = (SubSeq(s, 1, i - 1) \o TrimSpace(s)) \o SubSeq(s, j + 1, Len(s))
         /\ \A k \in 1 .. Len(SubSeq(s, 1, i - 1)) : SubSeq(s, 1, i - 1)[k] \in Blank
         /\ \A k \in 1 .. Len(SubSeq(s, j + 1, Len(s))) : SubSeq(s, j + 1, Len(s))[k] \in Blank
         /\ Len(TrimSpace(s)) = j - i + 1
         /\ \A k \in 1 .. j - i + 1 : TrimSpace(s)[k] = s[i + k - 1] /\ TrimSpace(s)[k] \in T
<1> DEFINE a == SubSeq(s, 1, i - 1)
<1> DEFINE b == SubSeq(s, i, j)
<1> DEFINE c == SubSeq(s, j + 1, Len(s))
<1>1. /\ Len(s) \in Nat /\ 1 <= i /\ i <= j /\ j <= Len(s) /\ TrimSpace(s) = b
      /\ \A k \in 1 .. Len(s) : s[k] \in T
      /\ \A k \in 1 .. Len(s) : (k < i \/ k > j) => s[k] \in Blank
  BY DEF Trims
<1>2. a \in Seq(T) /\ Len(a) = i - 1 /\ \A k \in 1 .. i - 1 : a[k] = s[k]
  BY <1>1
<1>3. b \in Seq(T) /\ Len(b) = j - i + 1 /\ \A k \in 1 .. j - i + 1 : b[k] = s[i + k - 1]
  BY <1>1
<1>4. c \in Seq(T) /\ Len(c) = Len(s) - j /\ \A k \in 1 .. Len(s) - j : c[k] = s[j + k]
  BY <1>1
<1>5. s = (a \o b) \o c
  <2>1. a \o b = SubSeq(s, 1, j)
    <3>1. 1 \in 1 .. Len(s) + 1 /\ i - 1 \in 1 - 1 .. Len(s) /\ j \in i - 1 .. Len(s) /\ i - 1 + 1 = i
      BY <1>1
    <3> QED
      BY <3>1, ConcatAdjacentSubSeq
  <2>2. SubSeq(s, 1, j) \o c = SubSeq(s, 1, Len(s))
    <3>1. 1 \in 1 .. Len(s) + 1 /\ j \in 1 - 1 .. Len(s) /\ Len(s) \in j .. Len(s)
      BY <1>1
    <3> QED
      BY <3>1, ConcatAdjacentSubSeq
  <2>3. SubSeq(s, 1, Len(s)) = s
    BY Beginnings
  <2> HIDE DEF a, b, c
  <2> QED
    BY <2>1, <2>2, <2>3
<1>6. \A k \in 1 .. Len(a) : a[k] \in Blank
  BY <1>1, <1>2
<1>7. \A k \in 1 .. Len(c) : c[k] \in Blank
  <2> TAKE k \in 1 .. Len(c)
  <2>1. k \in 1 .. Len(s) - j
    BY <1>4
  <2>2. j + k \in 1 .. Len(s) /\ j + k > j
    BY <2>1, <1>1
  <2> QED
    BY <1>4, <2>1, <2>2, <1>1
<1>8. \A k \in 1 .. j - i + 1 : b[k] \in T
  <2> TAKE k \in 1 .. j - i + 1
  <2>1. i + k - 1 \in 1 .. Len(s)
    BY <1>1
  <2> QED
    BY <2>1, <1>1, <1>3
<1> QED
  BY <1>1, <1>2, <1>3, <1>4, <1>5, <1>6, <1>7, <1>8

LEMMA FirstAndRest ==
  ASSUME NEW T, NEW b \in Seq(T), Len(b) >= 1
  PROVE  SubSeq(b, 2, Len(b)) \in Seq(T) /\ <<b[1]>> \in Seq(T) /\ b = <<b[1]>> \o SubSeq(b, 2, Len(b))
<1>1. b[1] \in T /\ Len(b) \in Nat
  OBVIOUS
<1>2. <<b[1]>> \in Seq(T)
  BY <1>1
<1>3. SubSeq(b, 2, Len(b)) \in Seq(T)
  BY <1>1
<1>4. b = <<b[1]>> \o SubSeq(b, 2, Len(b))
  BY <1>1
<1> QED
  BY <1>2, <1>3, <1>4

\* TrimSpace takes white space alone, and what it leaves is part of the text.
LEMMA TrimKeepsLetters ==
  ASSUME NEW T, NEW s \in Seq(T)
  PROVE  /\ TrimSpace(s) \in Seq(T) /\ Letters(TrimSpace(s)) = Letters(s)
         /\ TrimSpace(s) = <<>> <=> Letters(s) = <<>>
         /\ \A k \in 1 .. Len(TrimSpace(s)) : \E n \in 1 .. Len(s) : TrimSpace(s)[k] = s[n]
<1>1. CASE (\A k \in 1 .. Len(s) : s[k] \in Blank) /\ TrimSpace(s) = <<>>
  <2>1. Letters(s) = <<>>
    BY <1>1, NoLetters
  <2>2. <<>> \in Seq(T) /\ Len(<<>>) = 0
    OBVIOUS
  <2> QED
    BY <1>1, <2>1, <2>2, LettersEmpty
<1>2. CASE \E i, j \in Nat : Trims(s, i, j)
  <2>1. PICK i \in Nat, j \in Nat : Trims(s, i, j)
    BY <1>2
  <2> DEFINE a == SubSeq(s, 1, i - 1)
  <2> DEFINE b == TrimSpace(s)
  <2> DEFINE c == SubSeq(s, j + 1, Len(s))
  <2>2. /\ a \in Seq(T) /\ b \in Seq(T) /\ c \in Seq(T) /\ s = (a \o b) \o c
        /\ (\A k \in 1 .. Len(a) : a[k] \in Blank) /\ (\A k \in 1 .. Len(c) : c[k] \in Blank)
        /\ Len(b) = j - i + 1 /\ \A k \in 1 .. j - i + 1 : b[k] = s[i + k - 1] /\ b[k] \in T
    <3>1. /\ SubSeq(s, 1, i - 1) \in Seq(T) /\ TrimSpace(s) \in Seq(T) /\ SubSeq(s, j + 1, Len(s)) \in Seq(T)
          /\ s = (SubSeq(s, 1, i - 1) \o TrimSpace(s)) \o SubSeq(s, j + 1, Len(s))
          /\ \A k \in 1 .. Len(SubSeq(s, 1, i - 1)) : SubSeq(s, 1, i - 1)[k] \in Blank
          /\ \A k \in 1 .. Len(SubSeq(s, j + 1, Len(s))) : SubSeq(s, j + 1, Len(s))[k] \in Blank
          /\ Len(TrimSpace(s)) = j - i + 1
          /\ \A k \in 1 .. j - i + 1 : TrimSpace(s)[k] = s[i + k - 1] /\ TrimSpace(s)[k] \in T
      BY <2>1, TrimSplits
    <3> QED
      BY <3>1
  <2>3. 1 <= i /\ i <= j /\ j <= Len(s) /\ Len(s) \in Nat /\ s[i] \notin Blank
    BY <2>1 DEF Trims
  <2>4. \A k \in 1 .. Len(b) : \E n \in 1 .. Len(s) : b[k] = s[n]
    <3> TAKE k \in 1 .. Len(b)
    <3>1. k \in 1 .. j - i + 1 /\ i + k - 1 \in 1 .. Len(s)
      BY <2>2, <2>3
    <3> QED
      BY <2>2, <3>1
  <2> HIDE DEF a, b, c
  <2>5. Letters(a) = <<>> /\ Letters(c) = <<>>
    BY <2>2, NoLetters
  <2>6. ASSUME NEW u \in Seq(T), NEW v \in Seq(T) PROVE u \o v \in Seq(T) /\ Letters(u \o v) = Letters(u) \o Letters(v)
    BY LettersConcat
  <2>7. ASSUME NEW u \in Seq(T) PROVE Letters(u) \in Seq(T)
    BY LettersType
  <2>8. Letters(s) = (<<>> \o Letters(b)) \o <<>>
    <3>1. Letters(a \o b) = Letters(a) \o Letters(b) /\ a \o b \in Seq(T)
      BY <2>2, <2>6
    <3>2. Letters((a \o b) \o c) = Letters(a \o b) \o Letters(c)
      BY <2>2, <2>6, <3>1
    <3> QED
      BY ONLY <3>1, <3>2, <2>2, <2>5
  <2>9. Letters(s) = Letters(b)
    <3>1. Letters(b) \in Seq(T)
      BY <2>2, <2>7
    <3> QED
      BY <2>8, <3>1
  <2>10. b # <<>> /\ Letters(b) # <<>>
    <3> DEFINE d == SubSeq(b, 2, Len(b))
    <3> DEFINE x == b[1]
    <3>1. 1 \in 1 .. j - i + 1 /\ i + 1 - 1 = i /\ Len(b) \in Nat /\ Len(b) >= 1
      BY <2>2, <2>3
    <3>2. x = s[i] /\ x \in T /\ x \notin Blank
      BY <2>2, <2>3, <3>1
    <3>3. d \in Seq(T) /\ <<x>> \in Seq(T) /\ b = <<x>> \o d
      BY ONLY <2>2, <3>1, FirstAndRest
    <3> HIDE DEF d, x
    <3>4. Letters(<<x>>) = <<x>>
      <4>1. <<>> \in Seq(T) /\ Append(<<>>, x) = <<x>> /\ <<>> \o <<x>> = <<x>>
        BY <3>2
      <4>2. Letters(Append(<<>>, x)) = Letters(<<>>) \o Piece(x)
        BY <3>2, <4>1, LettersAppend
      <4> QED
        BY <3>2, <4>1, <4>2, LettersEmpty DEF Piece
    <3>5. Letters(b) = <<x>> \o Letters(d) /\ Letters(d) \in Seq(T)
      BY <3>3, <3>4, <2>6, <2>7
    <3>6. Len(<<x>> \o Letters(d)) >= 1 /\ Len(<<>>) = 0
      BY <3>3, <3>5
    <3> QED
      BY <3>1, <3>5, <3>6
  <2> QED
    BY <2>2, <2>4, <2>9, <2>10 DEF b
<1> QED
  BY <1>1, <1>2, TrimIs
\* A carriage return is white space, and so is what becomes of it.
LEMMA NewlinesKeepLetters ==
  ASSUME NEW T, "\n" \in T, NEW s \in Seq(T)
  PROVE  Newlines(s) \in Seq(T) /\ Letters(Newlines(s)) = Letters(s)
<1> DEFINE piece(u, i) == IF i > 1 /\ u[i - 1] = "\r" /\ u[i] = "\n" THEN <<>> ELSE IF u[i] = "\r" THEN <<"\n">> ELSE <<u[i]>>
<1> DEFINE pieces(n) == [i \in 1 .. n |-> piece(s, i)]
<1> DEFINE B(n) == SubSeq(s, 1, n)
<1> DEFINE S == {n \in Nat : n \in 0 .. Len(s) => FlattenSeq(pieces(n)) \in Seq(T) /\ Letters(FlattenSeq(pieces(n))) = Letters(B(n))}
<1>1. /\ Len(s) \in Nat /\ Len(s) \in 0 .. Len(s) /\ B(0) = <<>> /\ B(Len(s)) = s /\ DOMAIN s = 1 .. Len(s)
      /\ \A i \in 1 .. Len(s) : s[i] \in T
  BY Beginnings
<1>2. Newlines(s) = FlattenSeq(pieces(Len(s)))
  BY <1>1 DEF Newlines
<1>3. ASSUME NEW i \in 1 .. Len(s) PROVE piece(s, i) \in Seq(T) /\ Letters(piece(s, i)) = Piece(s[i])
  <2> DEFINE c == s[i]
  <2>1. c \in T /\ "\n" \in Blank /\ "\r" \in Blank
    BY <1>1 DEF Blank
  <2>2. ASSUME NEW d \in T PROVE <<d>> \in Seq(T) /\ Letters(<<d>>) = Piece(d)
    <3>1. <<>> \in Seq(T) /\ Append(<<>>, d) = <<d>> /\ <<d>> \in Seq(T)
      OBVIOUS
    <3>2. Letters(Append(<<>>, d)) = <<>> \o Piece(d)
      BY <3>1, LettersAppend, LettersEmpty
    <3>3. <<>> \o Piece(d) = Piece(d)
      <4>1. Piece(d) \in Seq(T)
        BY <3>1 DEF Piece
      <4> QED
        BY <4>1
    <3> QED
      BY <3>1, <3>2, <3>3
  <2>3. CASE i > 1 /\ s[i - 1] = "\r" /\ s[i] = "\n"
    <3>1. piece(s, i) = <<>> /\ c = "\n"
      BY <2>3
    <3>2. <<>> \in Seq(T) /\ Piece(c) = <<>>
      BY <2>1, <3>1 DEF Piece
    <3> QED
      BY <3>1, <3>2, LettersEmpty
  <2>4. CASE ~(i > 1 /\ s[i - 1] = "\r" /\ s[i] = "\n") /\ c = "\r"
    <3>1. piece(s, i) = <<"\n">>
      BY <2>4
    <3>2. Piece("\n") = <<>> /\ Piece(c) = <<>>
      BY <2>1, <2>4 DEF Piece
    <3>3. <<"\n">> \in Seq(T) /\ Letters(<<"\n">>) = Piece("\n")
      BY <2>2
    <3> QED
      BY <3>1, <3>2, <3>3
  <2>5. CASE ~(i > 1 /\ s[i - 1] = "\r" /\ s[i] = "\n") /\ c # "\r"
    <3>1. piece(s, i) = <<c>>
      BY <2>5
    <3> HIDE DEF c, piece
    <3>2. <<c>> \in Seq(T) /\ Letters(<<c>>) = Piece(c)
      BY <2>1, <2>2
    <3> QED
      BY <3>1, <3>2 DEF c
  <2> QED
    BY <2>3, <2>4, <2>5
<1> HIDE DEF piece
<1>4. 0 \in S
  <2>1. pieces(0) = <<>>
    OBVIOUS
  <2>2. <<>> \in Seq(T)
    OBVIOUS
  <2> QED
    BY <2>1, <2>2, <1>1, FlattenEmpty, LettersEmpty
<1>5. ASSUME NEW n \in Nat, n \in S PROVE n + 1 \in S
  <2> SUFFICES ASSUME n + 1 \in 0 .. Len(s)
               PROVE  FlattenSeq(pieces(n + 1)) \in Seq(T) /\ Letters(FlattenSeq(pieces(n + 1))) = Letters(B(n + 1))
    OBVIOUS
  <2> DEFINE a == pieces(n)
  <2> DEFINE b == pieces(n + 1)
  <2> DEFINE x == piece(s, n + 1)
  <2>1. n \in 0 .. Len(s) /\ n \in 0 .. Len(s) - 1 /\ n + 1 \in 1 .. Len(s) /\ \A i \in 1 .. n + 1 : i \in 1 .. Len(s)
    BY <1>1
  <2>2. a \in Seq(Seq(T)) /\ Len(a) = n /\ \A i \in 1 .. n : a[i] = piece(s, i)
    BY <1>3, <2>1
  <2>3. b \in Seq(Seq(T)) /\ Len(b) = n + 1 /\ b[n + 1] = x /\ \A i \in 1 .. n : b[i] = piece(s, i)
    BY <1>3, <2>1
  <2>4. x \in Seq(T) /\ Letters(x) = Piece(s[n + 1])
    BY <1>3, <2>1
  <2>5. FlattenSeq(a) \in Seq(T) /\ Letters(FlattenSeq(a)) = Letters(B(n))
    BY <1>5, <2>1
  <2>6. s[n + 1] \in T /\ B(n) \in Seq(T) /\ B(n + 1) = Append(B(n), s[n + 1])
    BY <2>1, Beginnings
  <2> HIDE DEF a, b, x, S, B, pieces
  <2>7. FlattenSeq(b) = FlattenSeq(a) \o x
    <3>1. \A i \in 1 .. n : a[i] = b[i]
      BY <2>2, <2>3
    <3>2. FlattenSeq(b) = FlattenSeq(a) \o b[n + 1]
      BY ONLY <3>1, <2>2, <2>3, n \in Nat, FlattenStep
    <3> QED
      BY <2>3, <3>2
  <2>8. Letters(FlattenSeq(a) \o x) = Letters(FlattenSeq(a)) \o Letters(x)
    BY <2>4, <2>5, LettersConcat
  <2>9. Letters(Append(B(n), s[n + 1])) = Letters(B(n)) \o Piece(s[n + 1])
    BY <2>6, LettersAppend
  <2>10. FlattenSeq(b) \in Seq(T)
    BY <2>4, <2>5, <2>7
  <2> QED
    BY <2>4, <2>5, <2>6, <2>7, <2>8, <2>9, <2>10 DEF b
<1>6. \A n \in Nat : n \in S
  <2> HIDE DEF S
  <2> QED
    BY <1>4, <1>5, Induction
<1> QED
  BY <1>1, <1>2, <1>6

\* The text that goes into a hash has the letters of the text that came.
LEMMA NormalizedLetters ==
  ASSUME NEW T, "\n" \in T, NEW s \in Seq(T)
  PROVE  Letters(normalizeTextWhitespace(s)) = Letters(s)
<1> DEFINE u == Newlines(s)
<1>1. u \in Seq(T) /\ Letters(u) = Letters(s)
  BY NewlinesKeepLetters
<1> HIDE DEF u
<1>2. Letters(TrimSpace(u)) = Letters(u)
  BY <1>1, TrimKeepsLetters
<1> QED
  BY <1>1, <1>2 DEF normalizeTextWhitespace, u
(***************************************************************************)
(* The key of a request.                                                   *)
(***************************************************************************)
Plain(s) == \A i \in 1 .. Len(s) : s[i] # ":"

\* A text that has no separator stands after the last one.
LEMMA LastSeparator ==
  ASSUME NEW T, ":" \in T, NEW x \in Seq(T), NEW y \in Seq(T), NEW u \in Seq(T), NEW v \in Seq(T),
         Plain(u), Plain(v),
         (x \o <<":">>) \o u = (y \o <<":">>) \o v
  PROVE  x = y /\ u = v
<1> DEFINE w == (x \o <<":">>) \o u
<1> DEFINE z == (y \o <<":">>) \o v
<1>1. ASSUME NEW a \in Seq(T), NEW b \in Seq(T)
      PROVE  /\ (a \o <<":">>) \o b \in Seq(T) /\ Len((a \o <<":">>) \o b) = Len(a) + 1 + Len(b)
             /\ \A i \in 1 .. Len(a) : ((a \o <<":">>) \o b)[i] = a[i]
             /\ ((a \o <<":">>) \o b)[Len(a) + 1] = ":"
             /\ \A i \in 1 .. Len(b) : ((a \o <<":">>) \o b)[Len(a) + 1 + i] = b[i]
  <2>1. <<":">> \in Seq(T) /\ Len(<<":">>) = 1 /\ <<":">>[1] = ":"
    OBVIOUS
  <2> DEFINE c == a \o <<":">>
  <2>2. c \in Seq(T) /\ Len(c) = Len(a) + 1 /\ (\A i \in 1 .. Len(a) : c[i] = a[i]) /\ c[Len(a) + 1] = ":"
    BY <2>1
  <2> HIDE DEF c
  <2>3. /\ c \o b \in Seq(T) /\ Len(c \o b) = Len(c) + Len(b)
        /\ \A i \in 1 .. Len(c) : (c \o b)[i] = c[i]
        /\ \A i \in 1 .. Len(b) : (c \o b)[Len(c) + i] = b[i]
    <3>1. /\ c \o b \in Seq(T) /\ Len(c \o b) = Len(c) + Len(b)
          /\ \A i \in 1 .. Len(c) + Len(b) : (c \o b)[i] = IF i <= Len(c) THEN c[i] ELSE b[i - Len(c)]
      BY <2>2, ConcatProperties
    <3>2. Len(c) \in Nat /\ Len(b) \in Nat
      BY <2>2
    <3>3. ASSUME NEW i \in 1 .. Len(b) PROVE (c \o b)[Len(c) + i] = b[i]
      <4>1. Len(c) + i \in 1 .. Len(c) + Len(b) /\ ~(Len(c) + i <= Len(c)) /\ Len(c) + i - Len(c) = i
        BY <3>2
      <4> QED
        BY <3>1, <4>1
    <3>4. \A i \in 1 .. Len(c) : (c \o b)[i] = c[i]
      BY <3>1, <3>2
    <3> QED
      BY <3>1, <3>3, <3>4
  <2>4. Len(a) \in Nat /\ Len(b) \in Nat
    OBVIOUS
  <2>5. \A i \in 1 .. Len(a) : (c \o b)[i] = a[i]
    BY <2>2, <2>3, <2>4
  <2>6. (c \o b)[Len(a) + 1] = ":"
    BY <2>2, <2>3, <2>4
  <2> QED
    BY <2>2, <2>3, <2>5, <2>6 DEF c
<1>2. /\ Len(w) = Len(x) + 1 + Len(u) /\ w[Len(x) + 1] = ":"
      /\ \A i \in 1 .. Len(x) : w[i] = x[i]
      /\ \A i \in 1 .. Len(u) : w[Len(x) + 1 + i] = u[i]
  BY <1>1
<1>3. /\ Len(z) = Len(y) + 1 + Len(v) /\ z[Len(y) + 1] = ":"
      /\ \A i \in 1 .. Len(y) : z[i] = y[i]
      /\ \A i \in 1 .. Len(v) : z[Len(y) + 1 + i] = v[i]
  BY <1>1
<1>4. w = z
  OBVIOUS
<1>5. Len(x) \in Nat /\ Len(y) \in Nat /\ Len(u) \in Nat /\ Len(v) \in Nat
  OBVIOUS
<1> HIDE DEF w, z
<1>6. Len(x) = Len(y)
  <2>1. ASSUME Len(x) < Len(y) PROVE FALSE
    <3> DEFINE k == Len(y) - Len(x)
    <3>1. k \in 1 .. Len(u) /\ Len(x) + 1 + k = Len(y) + 1
      BY <1>2, <1>3, <1>4, <1>5, <2>1
    <3>2. u[k] = ":"
      BY <3>1, <1>2, <1>3, <1>4
    <3> QED
      BY <3>1, <3>2 DEF Plain
  <2>2. ASSUME Len(y) < Len(x) PROVE FALSE
    <3> DEFINE k == Len(x) - Len(y)
    <3>1. k \in 1 .. Len(v) /\ Len(y) + 1 + k = Len(x) + 1
      BY <1>2, <1>3, <1>4, <1>5, <2>2
    <3>2. v[k] = ":"
      BY <3>1, <1>2, <1>3, <1>4
    <3> QED
      BY <3>1, <3>2 DEF Plain
  <2> QED
    BY <2>1, <2>2, <1>5
<1>7. Len(u) = Len(v)
  BY <1>2, <1>3, <1>4, <1>5, <1>6
<1>8. \A i \in 1 .. Len(x) : x[i] = y[i]
  BY <1>2, <1>3, <1>4, <1>6
<1>9. \A i \in 1 .. Len(u) : u[i] = v[i]
  BY <1>2, <1>3, <1>4, <1>6, <1>7
<1> QED
  BY <1>6, <1>7, <1>8, <1>9, SeqEqual

\* What the key of a request is, if it has one.
Tenant(r) == TrimSpace(r.client)
UserKey(r) == TrimSpace(r.cache.key)
Hash(r, normalizer) ==
  IF normalizer = "default" THEN WritePrefixHash(r) ELSE NormalizePrefix(r)

LEMMA KeyIs ==
  ASSUME NEW r, NEW normalizer \in {"default", "func", "empty", "failing"}, NormalizeCacheOptions(r, normalizer).key # NoKey
  PROVE  /\ validateCacheOptions(r.cache)
         /\ \/ UserKey(r) # <<>> /\ NormalizeCacheOptions(r, normalizer).key = <<Tenant(r) \o <<":">> \o UserKey(r), <<>>>>
            \/ /\ UserKey(r) = <<>> /\ normalizer \in {"default", "func"}
               /\ \E x : NormalizeCacheOptions(r, normalizer).key = <<Tenant(r) \o <<":">>, <<x, Hash(r, normalizer)>>>>
<1> DEFINE model == IF TrimSpace(r.model) = <<>> THEN <<"(default)">> ELSE TrimSpace(r.model)
<1> DEFINE h == NormalizeCacheOptions(r, normalizer)
<1> DEFINE hash == derivePrefixHash(r, normalizer, Tenant(r), model)
<1>1. Refused.key = NoKey /\ \A mode, ttl, key : Hint(mode, ttl, key).key = key
  BY DEF Refused, Hint
<1>2. h = IF ~validateCacheOptions(r.cache) THEN Refused
          ELSE IF r.cache.mode = "bypass" THEN Hint("bypass", r.cache.ttl, NoKey)
          ELSE IF Tenant(r) = <<>> THEN Refused
          ELSE IF UserKey(r) # <<>> THEN Hint(r.cache.mode, r.cache.ttl, <<Tenant(r) \o <<":">> \o UserKey(r), <<>>>>)
          ELSE IF Fails(r, normalizer) THEN IF r.cache.mode = "require" THEN Refused ELSE Hint(r.cache.mode, r.cache.ttl, NoKey)
          ELSE Hint(r.cache.mode, r.cache.ttl, IF hash = <<>> THEN NoKey ELSE <<Tenant(r) \o <<":">>, hash>>)
  BY Zenon DEF NormalizeCacheOptions, Tenant, UserKey
<1>3. validateCacheOptions(r.cache) /\ r.cache.mode # "bypass" /\ Tenant(r) # <<>> /\ (UserKey(r) = <<>> => ~Fails(r, normalizer))
  <2> HIDE DEF h, hash
  <2>1. h.key # NoKey
    BY DEF h
  <2> QED
    BY <1>1, <1>2, <2>1
<1>4. CASE UserKey(r) # <<>>
  <2>1. h.key = <<Tenant(r) \o <<":">> \o UserKey(r), <<>>>>
    <3> HIDE DEF h, hash
    <3> QED
      BY <1>1, <1>2, <1>3, <1>4
  <2> QED
    BY <1>3, <1>4, <2>1
<1>5. CASE UserKey(r) = <<>>
  <2>1. h.key = IF hash = <<>> THEN NoKey ELSE <<Tenant(r) \o <<":">>, hash>>
    <3> HIDE DEF h, hash
    <3> QED
      BY <1>1, <1>2, <1>3, <1>5
  <2>2. h.key = <<Tenant(r) \o <<":">>, hash>> /\ hash # <<>>
    <3>1. h.key # NoKey
      OBVIOUS
    <3> HIDE DEF h, hash
    <3> QED
      BY <2>1, <3>1
  <2>3. normalizer # "failing"
    BY <1>3, <1>5 DEF Fails
  <2>4. normalizer # "empty"
    <3>1. normalizer = "empty" => hash = <<>>
      BY DEF derivePrefixHash
    <3> QED
      BY <3>1, <2>2
  <2>5. normalizer \in {"default", "func"}
    BY <2>3, <2>4
  <2>6. hash = <<Tenant(r) \o <<":">> \o model \o <<":">>, Hash(r, normalizer)>>
    BY <2>5 DEF derivePrefixHash, Hash
  <2> HIDE DEF h, hash, model
  <2>7. \E x : h.key = <<Tenant(r) \o <<":">>, <<x, Hash(r, normalizer)>>>>
    BY <2>2, <2>6
  <2> QED
    BY <1>3, <1>5, <2>5, <2>7 DEF h
<1> QED
  BY <1>4, <1>5

\* The prover is not told that a literal is a string.
Char == STRING \cup {"\n", ":"}
LEMMA CharsType ==
  ASSUME NEW s \in Chars
  PROVE  s \in Seq(Char) /\ Letters(normalizeTextWhitespace(s)) = Letters(s)
<1>1. s \in Seq(Char)
  BY DEF Chars, Char
<1>2. "\n" \in Char
  BY DEF Char
<1> QED
  BY <1>1, <1>2, NormalizedLetters

\* What the hash of a part needs of it.
PartOK(p) ==
  /\ p.text \in Chars
  /\ \A i \in DOMAIN p.result : p.result[i].content \in Chars
\* What a hash is made of a message tells its parts apart.
LEMMA PartTells ==
  ASSUME NEW p, NEW q, PartOK(p), PartOK(q), HashPart(p) = HashPart(q) \/ CanonicalPart(p) = CanonicalPart(q)
  PROVE  SamePart(p, q)
<1> DEFINE results(x) == [i \in DOMAIN x.result |-> <<x.result[i].call, normalizeTextWhitespace(x.result[i].content), x.result[i].failed>>]
<1>1. /\ p.kind = q.kind /\ p.mime = q.mime /\ p.url = q.url /\ p.data = q.data /\ results(p) = results(q)
      /\ \/ normalizeTextWhitespace(p.text) = normalizeTextWhitespace(q.text)
         \/ p.text = <<>> /\ q.text = <<>>
  <2>1. CASE HashPart(p) = HashPart(q)
    BY <2>1 DEF HashPart
  <2>2. CASE CanonicalPart(p) = CanonicalPart(q)
    <3> DEFINE text(x) == IF x.text = <<>> THEN <<>> ELSE <<normalizeTextWhitespace(x.text)>>
    <3>1. /\ p.kind = q.kind /\ p.mime = q.mime /\ p.url = q.url /\ p.data = q.data /\ results(p) = results(q)
          /\ text(p) = text(q)
      BY <2>2 DEF CanonicalPart
    <3>2. \A n : <<n>> # <<>>
      OBVIOUS
    <3>3. \/ normalizeTextWhitespace(p.text) = normalizeTextWhitespace(q.text)
          \/ p.text = <<>> /\ q.text = <<>>
      BY <3>1, <3>2
    <3> HIDE DEF text, results
    <3> QED
      BY <3>1, <3>3
  <2> QED
    BY <2>1, <2>2
<1>2. [i \in DOMAIN p.tool |-> <<p.tool[i].id, p.tool[i].name>>] = [i \in DOMAIN q.tool |-> <<q.tool[i].id, q.tool[i].name>>]
  <2> DEFINE H(x) == [i \in DOMAIN x.tool |-> <<x.tool[i].id, x.tool[i].name, HashArgs(x.tool[i].args)>>]
  <2> DEFINE C(x) == [i \in DOMAIN x.tool |-> <<x.tool[i].id, x.tool[i].name, CanonicalArgs(x.tool[i].args)>>]
  <2>1. CASE HashPart(p) = HashPart(q)
    <3>1. H(p) = H(q)
      BY <2>1 DEF HashPart
    <3>2. DOMAIN p.tool = DOMAIN q.tool /\ \A i \in DOMAIN p.tool : H(p)[i] = H(q)[i]
      BY <3>1
    <3>3. \A i \in DOMAIN p.tool : p.tool[i].id = q.tool[i].id /\ p.tool[i].name = q.tool[i].name
      BY <3>2
    <3> QED
      BY <3>2, <3>3
  <2>2. CASE CanonicalPart(p) = CanonicalPart(q)
    <3>1. C(p) = C(q)
      BY <2>2 DEF CanonicalPart
    <3>2. DOMAIN p.tool = DOMAIN q.tool /\ \A i \in DOMAIN p.tool : C(p)[i] = C(q)[i]
      BY <3>1
    <3>3. \A i \in DOMAIN p.tool : p.tool[i].id = q.tool[i].id /\ p.tool[i].name = q.tool[i].name
      BY <3>2
    <3> QED
      BY <3>2, <3>3
  <2> QED
    BY <2>1, <2>2
<1>3. p.text \in Chars /\ q.text \in Chars
  BY DEF PartOK
<1>4. Letters(p.text) = Letters(q.text)
  <2>1. \A s \in Chars : Letters(normalizeTextWhitespace(s)) = Letters(s)
    BY CharsType
  <2> HIDE DEF results
  <2> QED
    BY <1>1, <1>3, <2>1
<1>5. {<<t.id, t.name>> : t \in ToSet(p.tool)} = {<<t.id, t.name>> : t \in ToSet(q.tool)}
  <2> DEFINE f == [i \in DOMAIN p.tool |-> <<p.tool[i].id, p.tool[i].name>>]
  <2> DEFINE g == [i \in DOMAIN q.tool |-> <<q.tool[i].id, q.tool[i].name>>]
  <2>1. {<<t.id, t.name>> : t \in ToSet(p.tool)} = {f[i] : i \in DOMAIN p.tool}
    BY DEF ToSet
  <2>2. {<<t.id, t.name>> : t \in ToSet(q.tool)} = {g[i] : i \in DOMAIN q.tool}
    BY DEF ToSet
  <2>3. DOMAIN f = DOMAIN p.tool /\ DOMAIN g = DOMAIN q.tool /\ f = g
    BY <1>2
  <2> HIDE DEF f, g
  <2> QED
    BY <2>1, <2>2, <2>3
<1>6. {<<r.call, Letters(r.content), r.failed>> : r \in ToSet(p.result)} = {<<r.call, Letters(r.content), r.failed>> : r \in ToSet(q.result)}
  <2> DEFINE f == [i \in DOMAIN p.result |-> <<p.result[i].call, Letters(p.result[i].content), p.result[i].failed>>]
  <2> DEFINE g == [i \in DOMAIN q.result |-> <<q.result[i].call, Letters(q.result[i].content), q.result[i].failed>>]
  <2>1. {<<r.call, Letters(r.content), r.failed>> : r \in ToSet(p.result)} = {f[i] : i \in DOMAIN p.result}
    BY DEF ToSet
  <2>2. {<<r.call, Letters(r.content), r.failed>> : r \in ToSet(q.result)} = {g[i] : i \in DOMAIN q.result}
    BY DEF ToSet
  <2>3. DOMAIN p.result = DOMAIN q.result /\ \A i \in DOMAIN p.result : results(p)[i] = results(q)[i]
    BY <1>1
  <2>4. ASSUME NEW i \in DOMAIN p.result
        PROVE  /\ p.result[i].call = q.result[i].call /\ p.result[i].failed = q.result[i].failed
               /\ normalizeTextWhitespace(p.result[i].content) = normalizeTextWhitespace(q.result[i].content)
               /\ p.result[i].content \in Chars /\ q.result[i].content \in Chars
    <3>1. results(p)[i] = results(q)[i] /\ i \in DOMAIN q.result
      BY <2>3
    <3>2. p.result[i].content \in Chars /\ q.result[i].content \in Chars
      BY <3>1 DEF PartOK
    <3> QED
      BY <3>1, <3>2
  <2>5. ASSUME NEW s \in Chars PROVE Letters(normalizeTextWhitespace(s)) = Letters(s)
    BY CharsType
  <2>6. ASSUME NEW i \in DOMAIN p.result PROVE f[i] = g[i]
    <3>1. Letters(p.result[i].content) = Letters(q.result[i].content)
      BY <2>4, <2>5
    <3> QED
      BY <2>3, <2>4, <3>1
  <2>7. f = g
    <3>1. f = [i \in DOMAIN p.result |-> f[i]] /\ g = [i \in DOMAIN p.result |-> g[i]]
      BY <2>3
    <3> HIDE DEF f, g
    <3> QED
      BY <2>6, <3>1, SameFunction
  <2>8. DOMAIN f = DOMAIN p.result /\ DOMAIN g = DOMAIN q.result
    OBVIOUS
  <2> HIDE DEF f, g
  <2> QED
    BY <2>1, <2>2, <2>7, <2>8
<1> HIDE DEF results
<1> QED
  BY <1>1, <1>4, <1>5, <1>6 DEF SamePart

\* The parts of the messages of a request, and of its system prompt.
MessagesOK(s) ==
  /\ \E n \in Nat : DOMAIN s = 1 .. n /\ Len(s) = n
  /\ \A i \in DOMAIN s :
       /\ \E n \in Nat : DOMAIN s[i].parts = 1 .. n /\ Len(s[i].parts) = n
       /\ \A j \in DOMAIN s[i].parts : PartOK(s[i].parts[j])

LEMMA PartType ==
  ASSUME NEW p \in Part
  PROVE  PartOK(p)
<1> DEFINE R == [call : STRING, content : Chars, failed : BOOLEAN]
<1>1. p.text \in Chars /\ p.result \in Seq(R)
  BY DEF Part
<1>2. \A x \in R : x.content \in Chars
  OBVIOUS
<1> HIDE DEF R
<1>3. \A i \in DOMAIN p.result : p.result[i] \in R
  BY <1>1
<1> QED
  BY <1>1, <1>2, <1>3 DEF PartOK

LEMMA PromptType ==
  ASSUME NEW r \in Request
  PROVE  MessagesOK(EffectiveMessages(r))
<1> DEFINE e == EffectiveMessages(r)
<1> DEFINE s == SystemText(r.system)
<1>1. r.msgs \in Seq(Message) /\ r.system \in Chars
  BY DEF Request
<1>2. ASSUME NEW i \in DOMAIN r.msgs
      PROVE  /\ \E n \in Nat : DOMAIN r.msgs[i].parts = 1 .. n /\ Len(r.msgs[i].parts) = n
             /\ \A j \in DOMAIN r.msgs[i].parts : PartOK(r.msgs[i].parts[j])
  <2>1. r.msgs[i] \in Message
    BY <1>1
  <2>2. r.msgs[i].parts \in Seq(Part)
    BY <2>1 DEF Message
  <2> DEFINE ps == r.msgs[i].parts
  <2> HIDE DEF ps
  <2>3. ps \in Seq(Part)
    BY <2>2 DEF ps
  <2>4. DOMAIN ps = 1 .. Len(ps) /\ Len(ps) \in Nat /\ \A j \in DOMAIN ps : ps[j] \in Part
    BY <2>3
  <2>5. \A j \in DOMAIN ps : PartOK(ps[j])
    BY <2>4, PartType
  <2> QED
    BY <2>4, <2>5 DEF ps
<1>3. /\ \E n \in Nat : DOMAIN s.parts = 1 .. n /\ Len(s.parts) = n
      /\ \A j \in DOMAIN s.parts : PartOK(s.parts[j])
  <2> DEFINE part == [kind |-> "text", text |-> r.system, mime |-> "", url |-> "", data |-> <<>>, tool |-> <<>>, result |-> <<>>]
  <2>1. part.text = r.system /\ part.result = <<>> /\ DOMAIN <<>> = {}
    OBVIOUS
  <2>2. PartOK(part)
    BY <1>1, <2>1 DEF PartOK
  <2>3. s.parts = <<part>>
    BY DEF SystemText
  <2> HIDE DEF part, s
  <2>4. DOMAIN <<part>> = 1 .. 1 /\ Len(<<part>>) = 1 /\ \A j \in 1 .. 1 : <<part>>[j] = part
    OBVIOUS
  <2> QED
    BY <2>2, <2>3, <2>4
<1> HIDE DEF s
<1>4. r.msgs \in Seq(Message) /\ Len(r.msgs) \in Nat /\ DOMAIN r.msgs = 1 .. Len(r.msgs)
  BY <1>1
<1>5. CASE r.system = <<>>
  <2>1. e = r.msgs
    BY <1>5 DEF EffectiveMessages
  <2> HIDE DEF e
  <2>2. MessagesOK(r.msgs)
    BY <1>2, <1>4 DEF MessagesOK
  <2> QED
    BY <2>1, <2>2 DEF e
<1>6. CASE r.system # <<>>
  <2>1. e = <<s>> \o r.msgs
    BY <1>6 DEF EffectiveMessages, s
  <2> DEFINE M == Message \cup {s}
  <2>2. <<s>> \in Seq(M) /\ r.msgs \in Seq(M) /\ Len(<<s>>) = 1
    BY <1>4
  <2>3. e \in Seq(M) /\ Len(e) = 1 + Len(r.msgs) /\ e[1] = s
    BY <2>1, <2>2
  <2>4. \A i \in 2 .. Len(e) : e[i] = r.msgs[i - 1] /\ i - 1 \in DOMAIN r.msgs
    BY <2>1, <2>2, <2>3, <1>4
  <2> HIDE DEF e, M
  <2>5. DOMAIN e = 1 .. Len(e) /\ Len(e) \in Nat
    BY <2>3
  <2>6. \A i \in DOMAIN e : i = 1 \/ i \in 2 .. Len(e)
    BY <2>5
  <2>7. \A i \in DOMAIN e : e[i] = s \/ \E j \in DOMAIN r.msgs : e[i] = r.msgs[j]
    BY <2>3, <2>4, <2>6
  <2>8. MessagesOK(e)
    BY <1>2, <1>3, <2>5, <2>7 DEF MessagesOK
  <2> QED
    BY <2>8 DEF e
<1> QED
  BY <1>5, <1>6

\* The hash of a prefix tells prefixes apart.
LEMMA HashTells ==
  ASSUME NEW a \in Request, NEW b \in Request,
         WritePrefixHash(a) = WritePrefixHash(b) \/ NormalizePrefix(a) = NormalizePrefix(b)
  PROVE  SamePrefix(a, b)
<1> DEFINE x == EffectiveMessages(a)
<1> DEFINE y == EffectiveMessages(b)
<1> DEFINE H(s) == [i \in DOMAIN s |-> <<s[i].role, [j \in DOMAIN s[i].parts |-> HashPart(s[i].parts[j])]>>]
<1> DEFINE C(s) == [i \in DOMAIN s |-> <<s[i].role, [j \in DOMAIN s[i].parts |-> CanonicalPart(s[i].parts[j])]>>]
<1>1. a.model = b.model /\ (H(x) = H(y) \/ C(x) = C(y))
  <2>1. WritePrefixHash(a) = <<a.model, H(x)>> /\ WritePrefixHash(b) = <<b.model, H(y)>>
    BY DEF WritePrefixHash
  <2>2. NormalizePrefix(a) = <<a.model, C(x)>> /\ NormalizePrefix(b) = <<b.model, C(y)>>
    BY DEF NormalizePrefix
  <2> HIDE DEF H, C, x, y
  <2> QED
    BY <2>1, <2>2
<1>2. MessagesOK(x) /\ MessagesOK(y)
  BY PromptType
<1> HIDE DEF x, y
<1>3. /\ DOMAIN x = DOMAIN y
      /\ \A i \in DOMAIN x :
           /\ x[i].role = y[i].role /\ DOMAIN x[i].parts = DOMAIN y[i].parts
           /\ \A j \in DOMAIN x[i].parts :
                \/ HashPart(x[i].parts[j]) = HashPart(y[i].parts[j])
                \/ CanonicalPart(x[i].parts[j]) = CanonicalPart(y[i].parts[j])
  <2>1. CASE H(x) = H(y)
    <3>1. DOMAIN x = DOMAIN y /\ \A i \in DOMAIN x : H(x)[i] = H(y)[i]
      BY <2>1
    <3>2. ASSUME NEW i \in DOMAIN x
          PROVE  x[i].role = y[i].role /\ DOMAIN x[i].parts = DOMAIN y[i].parts
                 /\ \A j \in DOMAIN x[i].parts : HashPart(x[i].parts[j]) = HashPart(y[i].parts[j])
      <4> DEFINE f == [j \in DOMAIN x[i].parts |-> HashPart(x[i].parts[j])]
      <4> DEFINE g == [j \in DOMAIN y[i].parts |-> HashPart(y[i].parts[j])]
      <4>1. x[i].role = y[i].role /\ f = g
        BY <3>1
      <4>2. DOMAIN f = DOMAIN g /\ \A j \in DOMAIN f : f[j] = g[j]
        BY <4>1
      <4> QED
        BY <4>1, <4>2
    <3> QED
      BY <3>1, <3>2
  <2>2. CASE C(x) = C(y)
    <3>1. DOMAIN x = DOMAIN y /\ \A i \in DOMAIN x : C(x)[i] = C(y)[i]
      BY <2>2
    <3>2. ASSUME NEW i \in DOMAIN x
          PROVE  x[i].role = y[i].role /\ DOMAIN x[i].parts = DOMAIN y[i].parts
                 /\ \A j \in DOMAIN x[i].parts : CanonicalPart(x[i].parts[j]) = CanonicalPart(y[i].parts[j])
      <4> DEFINE f == [j \in DOMAIN x[i].parts |-> CanonicalPart(x[i].parts[j])]
      <4> DEFINE g == [j \in DOMAIN y[i].parts |-> CanonicalPart(y[i].parts[j])]
      <4>1. x[i].role = y[i].role /\ f = g
        BY <3>1
      <4>2. DOMAIN f = DOMAIN g /\ \A j \in DOMAIN f : f[j] = g[j]
        BY <4>1
      <4> QED
        BY <4>1, <4>2
    <3> QED
      BY <3>1, <3>2
  <2> QED
    BY <1>1, <2>1, <2>2
<1>4. Len(x) = Len(y)
  <2>1. PICK n \in Nat : DOMAIN x = 1 .. n /\ Len(x) = n
    BY <1>2 DEF MessagesOK
  <2>2. PICK m \in Nat : DOMAIN y = 1 .. m /\ Len(y) = m
    BY <1>2 DEF MessagesOK
  <2>3. 1 .. n = 1 .. m
    BY <1>3, <2>1, <2>2
  <2>4. n = m
    BY <2>3
  <2> QED
    BY <2>1, <2>2, <2>4
<1>5. ASSUME NEW i \in DOMAIN x PROVE SameParts(x[i].parts, y[i].parts)
  <2> DEFINE p == x[i].parts
  <2> DEFINE q == y[i].parts
  <2>1. i \in DOMAIN y /\ DOMAIN p = DOMAIN q
    BY <1>3
  <2>2. PICK n \in Nat : DOMAIN p = 1 .. n /\ Len(p) = n
    BY <1>2 DEF MessagesOK
  <2>3. PICK m \in Nat : DOMAIN q = 1 .. m /\ Len(q) = m
    BY <1>2, <2>1 DEF MessagesOK
  <2>4. 1 .. n = 1 .. m
    BY <2>1, <2>2, <2>3
  <2>5. n = m
    BY <2>4
  <2>6. \A j \in DOMAIN p : PartOK(p[j]) /\ PartOK(q[j]) /\ (HashPart(p[j]) = HashPart(q[j]) \/ CanonicalPart(p[j]) = CanonicalPart(q[j]))
    BY <1>2, <1>3, <2>1 DEF MessagesOK
  <2> HIDE DEF p, q
  <2>7. \A j \in DOMAIN p : SamePart(p[j], q[j])
    BY <2>6, PartTells
  <2>8. Len(p) = Len(q)
    BY <2>2, <2>3, <2>5
  <2> QED
    BY <2>7, <2>8 DEF SameParts, p, q
<1> QED
  BY <1>1, <1>3, <1>4, <1>5 DEF SamePrefix, x, y

LEMMA ValidKey ==
  ASSUME NEW r \in Request, validateCacheOptions(r.cache)
  PROVE  UserKey(r) \in Seq(Char) /\ Plain(UserKey(r))
<1>1. r.cache.key \in Chars
  BY DEF Request, CacheOptions
<1>2. r.cache.key \in Seq(Char) /\ \A i \in DOMAIN r.cache.key : r.cache.key[i] # ":"
  BY <1>1, CharsType DEF validateCacheOptions
<1> DEFINE s == r.cache.key
<1>3. DOMAIN s = 1 .. Len(s)
  BY <1>2
<1> HIDE DEF s
<1>4. TrimSpace(s) \in Seq(Char) /\ \A k \in 1 .. Len(TrimSpace(s)) : \E n \in 1 .. Len(s) : TrimSpace(s)[k] = s[n]
  BY <1>2, TrimKeepsLetters DEF s
<1> QED
  BY <1>2, <1>3, <1>4 DEF s, UserKey, Plain

LEMMA Pairs ==
  ASSUME NEW a, NEW b, NEW c, NEW d, <<a, b>> = <<c, d>>
  PROVE  a = c /\ b = d
OBVIOUS

\* Two requests have one cache key only if one tenant may have for the one what
\* it has for the other: their tenants are the same and so are their keys, or
\* neither has a key and their prefixes are the same.
LEMMA KeyTells ==
  ASSUME NEW a \in Request, NEW b \in Request, NEW normalizer \in {"default", "func", "empty", "failing"},
         NormalizeCacheOptions(a, normalizer).key = NormalizeCacheOptions(b, normalizer).key,
         NormalizeCacheOptions(a, normalizer).key # NoKey
  PROVE  MayShare(a, b)
<1> DEFINE ka == NormalizeCacheOptions(a, normalizer).key
<1> DEFINE kb == NormalizeCacheOptions(b, normalizer).key
<1>1. ka = kb /\ ka # NoKey /\ kb # NoKey
  OBVIOUS
<1> DEFINE named(r) == Tenant(r) \o <<":">> \o UserKey(r)
<1> DEFINE before(r) == Tenant(r) \o <<":">>
<1> DEFINE hash(r) == Hash(r, normalizer)
<1>2. ASSUME NEW r \in Request, NormalizeCacheOptions(r, normalizer).key # NoKey
      PROVE  /\ validateCacheOptions(r.cache)
             /\ UserKey(r) # <<>> => NormalizeCacheOptions(r, normalizer).key = <<named(r), <<>>>>
             /\ UserKey(r) = <<>> => /\ normalizer \in {"default", "func"}
                                    /\ \E x : NormalizeCacheOptions(r, normalizer).key = <<before(r), <<x, hash(r)>>>>
  BY <1>2, KeyIs
<1>3. /\ validateCacheOptions(a.cache) /\ validateCacheOptions(b.cache)
      /\ UserKey(a) # <<>> => ka = <<named(a), <<>>>>
      /\ UserKey(b) # <<>> => kb = <<named(b), <<>>>>
      /\ UserKey(a) = <<>> => normalizer \in {"default", "func"} /\ \E x : ka = <<before(a), <<x, hash(a)>>>>
      /\ UserKey(b) = <<>> => normalizer \in {"default", "func"} /\ \E x : kb = <<before(b), <<x, hash(b)>>>>
  <2> HIDE DEF named, before, hash
  <2> QED
    BY <1>1, <1>2
<1> HIDE DEF ka, kb
<1>4. ASSUME NEW r \in Request
      PROVE  Tenant(r) \in Seq(Char) /\ UserKey(r) \in Seq(Char)
  <2>1. r.client \in Seq(Char) /\ r.cache.key \in Seq(Char)
    <3>1. r.client \in Chars /\ r.cache.key \in Chars
      BY DEF Request, CacheOptions
    <3> QED
      BY <3>1, CharsType
  <2> QED
    BY <2>1, TrimKeepsLetters DEF Tenant, UserKey
<1>5. ":" \in Char /\ <<>> \in Seq(Char)
  BY DEF Char
<1>6. CASE UserKey(a) # <<>> /\ UserKey(b) # <<>>
  <2>1. named(a) = named(b)
    <3> HIDE DEF named
    <3> QED
      BY <1>1, <1>3, <1>6
  <2>2. Tenant(a) = Tenant(b) /\ UserKey(a) = UserKey(b)
    <3> DEFINE x == Tenant(a)
    <3> DEFINE y == Tenant(b)
    <3> DEFINE u == UserKey(a)
    <3> DEFINE v == UserKey(b)
    <3>1. /\ x \in Seq(Char) /\ y \in Seq(Char) /\ u \in Seq(Char) /\ v \in Seq(Char)
          /\ Plain(u) /\ Plain(v)
      BY <1>3, <1>4, ValidKey
    <3>2. (x \o <<":">>) \o u = (y \o <<":">>) \o v
      BY <2>1
    <3> HIDE DEF x, y, u, v
    <3>3. x = y /\ u = v
      BY ONLY <1>5, <3>1, <3>2, LastSeparator
    <3> QED
      BY <3>3 DEF x, y, u, v
  <2> QED
    BY <1>6, <2>2, Zenon DEF MayShare, Tenant, UserKey
<1>7. CASE UserKey(a) = <<>> /\ UserKey(b) = <<>>
  <2>3. before(a) = before(b) /\ hash(a) = hash(b)
    <3> HIDE DEF before, hash
    <3>1. PICK x : ka = <<before(a), <<x, hash(a)>>>>
      BY <1>3, <1>7
    <3>2. PICK y : kb = <<before(b), <<y, hash(b)>>>>
      BY <1>3, <1>7
    <3>3. <<before(a), <<x, hash(a)>>>> = <<before(b), <<y, hash(b)>>>>
      BY ONLY <1>1, <3>1, <3>2, Zenon
    <3>4. before(a) = before(b) /\ <<x, hash(a)>> = <<y, hash(b)>>
      BY ONLY <3>3, Pairs
    <3>5. hash(a) = hash(b)
      BY ONLY <3>4, Pairs
    <3> QED
      BY ONLY <3>4, <3>5
  <2>4. Tenant(a) = Tenant(b)
    <3> DEFINE s == Tenant(a)
    <3> DEFINE t == Tenant(b)
    <3>1. s \in Seq(Char) /\ t \in Seq(Char) /\ s \o <<":">> = t \o <<":">>
      BY <1>4, <2>3
    <3> HIDE DEF s, t
    <3>2. /\ (s \o <<":">>) \o <<>> = (t \o <<":">>) \o <<>>
          /\ Plain(<<>>)
      BY <3>1 DEF Plain
    <3>3. s = t
      BY <1>5, <3>1, <3>2, LastSeparator
    <3> QED
      BY <3>3 DEF s, t
  <2>5. SamePrefix(a, b)
    <3>1. WritePrefixHash(a) = WritePrefixHash(b) \/ NormalizePrefix(a) = NormalizePrefix(b)
      BY <2>3 DEF Hash
    <3> QED
      BY <3>1, HashTells
  <2> QED
    BY <1>7, <2>4, <2>5, Zenon DEF MayShare, Tenant, UserKey
<1>8. CASE ~(UserKey(a) # <<>> /\ UserKey(b) # <<>>) /\ ~(UserKey(a) = <<>> /\ UserKey(b) = <<>>)
  <2>1. \A x, y : <<x, y>> # <<>>
    OBVIOUS
  <2> HIDE DEF named, before, hash
  <2>2. ASSUME UserKey(a) # <<>>, UserKey(b) = <<>> PROVE FALSE
    <3>1. PICK y : kb = <<before(b), <<y, hash(b)>>>>
      BY <1>3, <2>2
    <3>2. <<named(a), <<>>>> = <<before(b), <<y, hash(b)>>>>
      BY ONLY <1>1, <1>3, <2>2, <3>1, Zenon
    <3>3. <<>> = <<y, hash(b)>>
      BY ONLY <3>2, Pairs
    <3> QED
      BY ONLY <3>3, <2>1
  <2>3. ASSUME UserKey(b) # <<>>, UserKey(a) = <<>> PROVE FALSE
    <3>1. PICK y : ka = <<before(a), <<y, hash(a)>>>>
      BY <1>3, <2>3
    <3>2. <<named(b), <<>>>> = <<before(a), <<y, hash(a)>>>>
      BY ONLY <1>1, <1>3, <2>3, <3>1, Zenon
    <3>3. <<>> = <<y, hash(a)>>
      BY ONLY <3>2, Pairs
    <3> QED
      BY ONLY <3>3, <2>1
  <2> QED
    BY <1>8, <2>2, <2>3
<1> QED
  BY <1>6, <1>7, <1>8

(***************************************************************************)
(* The call of a caller.  What holds of it depends on the setup alone.     *)
(***************************************************************************)
Code == {"", "limited", "unavailable", "timeout", "stream", "auth", "missing", "invalid", "provider", "internal", "cancelled", "select"}
Passing == {"limited", "unavailable", "timeout", "stream"}
By == STRING \cup {"", "compat", "bedrock"}
Client == Chars \cup {<<>>, <<"a">>, <<"b">>}
Normalizers == {"default", "func", "empty", "failing"}
KeyOf(s, r) == NormalizeCacheOptions(r, s.normalizer).key
Keys == {NormalizeCacheOptions(r, n).key : r \in Request, n \in Normalizers} \cup {NoKey}
HintType == [ok : BOOLEAN, mode : STRING \cup {"auto", "bypass"}, ttl : Int, key : Keys]
OutType == [k : {"none", "ok", "error"}, code : Code, req : Request \cup {<<>>}, by : By, at : Nat, hit : BOOLEAN, content : Seq(Request)]
CallType ==
  [pc : Pcs, n : Nat, hint : HintType, attempt : 0 .. MaxAttempts - 1, client : Client, by : By, codes : Seq(Code),
   content : Seq(Request), out : OutType]

\* Setup s has retries.
Retries(s) == "retry" \in ToSet(Through(Made(s.components).layers))

\* The request that the call answers.
Asked(s, p, c) == s.reqs[p][c.n]

\* It has been asked; no answer is there while it is under way.
Begun(s, p, c) ==
  /\ c.n \in 0 .. Len(s.reqs[p])
  /\ c.pc # "idle" => c.n >= 1 /\ c.out.k = "none"

\* Its key is that of its request, and what of the prefix cache it uses too.
Keyed(s, p, c) ==
  /\ c.hint.key # NoKey => c.n >= 1 /\ c.hint.key = KeyOf(s, Asked(s, p, c))
  /\ c.pc \in {"prefix", "create", "store"} => c.hint.key # NoKey
  /\ \A i \in 1 .. Len(c.content) : c.hint.key # NoKey /\ KeyOf(s, c.content[i]) = c.hint.key
  /\ c.pc = "store" => Len(c.content) = 1

\* Every attempt before this one failed in a way that may pass.
Counted(s, c) ==
  /\ c.pc \notin {"idle", "wait"} => Len(c.codes) = c.attempt
  /\ c.pc = "wait" => Len(c.codes) = c.attempt + 1 /\ c.attempt + 1 <= MaxAttempts - 1
  /\ c.pc # "idle" => \A i \in 1 .. Len(c.codes) : c.codes[i] \in Passing
  /\ c.pc \in {"prefix", "create", "store", "generate"} => c.codes = <<>>
  /\ c.codes # <<>> => Retries(s)

CallOK(s, p, c) == c \in CallType /\ Begun(s, p, c) /\ Keyed(s, p, c) /\ Counted(s, c)

\* The steps of an agent's layers, in which nothing but codes is gathered.
Steps == {"lookup", "attempt", "route", "pick", "get", "call", "stream", "put"}

LEMMA CallFields ==
  ASSUME NEW c \in CallType
  PROVE  /\ c.pc \in Pcs /\ c.n \in Nat /\ c.hint \in HintType /\ c.attempt \in 0 .. MaxAttempts - 1 /\ c.client \in Client
         /\ c.by \in By /\ c.codes \in Seq(Code) /\ c.content \in Seq(Request) /\ c.out \in OutType
BY DEF CallType

\* Call d is call c at step pc, with what the step has written.
Moved(c, d, pc, attempt, client, by, codes, content, out) ==
  /\ d \in CallType /\ d.n = c.n /\ d.hint = c.hint
  /\ d.pc = pc /\ d.attempt = attempt /\ d.client = client /\ d.by = by /\ d.codes = codes /\ d.content = content /\ d.out = out

\* What a record is after some of its fields were written.
LEMMA Written ==
  ASSUME NEW A, NEW B, NEW C, NEW D, NEW E, NEW F, NEW G, NEW H, NEW I,
         NEW c \in [pc : A, n : B, hint : C, attempt : D, client : E, by : F, codes : G, content : H, out : I],
         NEW pc \in A, NEW attempt \in D, NEW client \in E, NEW by \in F, NEW codes \in G, NEW content \in H, NEW out \in I,
         NEW d, d = [c EXCEPT !.pc = pc, !.attempt = attempt, !.client = client, !.by = by, !.codes = codes, !.content = content, !.out = out]
  PROVE  /\ d \in [pc : A, n : B, hint : C, attempt : D, client : E, by : F, codes : G, content : H, out : I]
         /\ d.n = c.n /\ d.hint = c.hint /\ d.pc = pc /\ d.attempt = attempt /\ d.client = client /\ d.by = by
         /\ d.codes = codes /\ d.content = content /\ d.out = out
OBVIOUS

LEMMA Unwritten ==
  ASSUME NEW A, NEW B, NEW C, NEW D, NEW E, NEW F, NEW G, NEW H, NEW I,
         NEW c \in [pc : A, n : B, hint : C, attempt : D, client : E, by : F, codes : G, content : H, out : I],
         NEW pc, NEW attempt, NEW client, NEW by, NEW codes, NEW content, NEW out
  PROVE  /\ [c EXCEPT !.pc = pc]
               = [c EXCEPT !.pc = pc, !.attempt = c.attempt, !.client = c.client, !.by = c.by, !.codes = c.codes,
                           !.content = c.content, !.out = c.out]
         /\ [[c EXCEPT !.pc = pc] EXCEPT !.client = client]
               = [c EXCEPT !.pc = pc, !.attempt = c.attempt, !.client = client, !.by = c.by, !.codes = c.codes,
                           !.content = c.content, !.out = c.out]
         /\ [[c EXCEPT !.pc = pc] EXCEPT !.by = by]
               = [c EXCEPT !.pc = pc, !.attempt = c.attempt, !.client = c.client, !.by = by, !.codes = c.codes,
                           !.content = c.content, !.out = c.out]
         /\ [[c EXCEPT !.pc = pc] EXCEPT !.content = content]
               = [c EXCEPT !.pc = pc, !.attempt = c.attempt, !.client = c.client, !.by = c.by, !.codes = c.codes,
                           !.content = content, !.out = c.out]
         /\ [[c EXCEPT !.pc = pc] EXCEPT !.attempt = @ + 1]
               = [c EXCEPT !.pc = pc, !.attempt = c.attempt + 1, !.client = c.client, !.by = c.by, !.codes = c.codes,
                           !.content = c.content, !.out = c.out]
         /\ [[c EXCEPT !.codes = codes] EXCEPT !.pc = pc]
               = [c EXCEPT !.pc = pc, !.attempt = c.attempt, !.client = c.client, !.by = c.by, !.codes = codes,
                           !.content = c.content, !.out = c.out]
         /\ [c EXCEPT !.pc = pc, !.out = out]
               = [c EXCEPT !.pc = pc, !.attempt = c.attempt, !.client = c.client, !.by = c.by, !.codes = c.codes,
                           !.content = c.content, !.out = out]
         /\ [[c EXCEPT !.pc = pc, !.out = out] EXCEPT !.codes = codes]
               = [c EXCEPT !.pc = pc, !.attempt = c.attempt, !.client = c.client, !.by = c.by, !.codes = codes,
                           !.content = c.content, !.out = out]
<1>1. [c EXCEPT !.pc = pc]
        = [c EXCEPT !.pc = pc, !.attempt = c.attempt, !.client = c.client, !.by = c.by, !.codes = c.codes,
                    !.content = c.content, !.out = c.out]
  OBVIOUS
<1>2. [[c EXCEPT !.pc = pc] EXCEPT !.client = client]
        = [c EXCEPT !.pc = pc, !.attempt = c.attempt, !.client = client, !.by = c.by, !.codes = c.codes,
                    !.content = c.content, !.out = c.out]
  OBVIOUS
<1>3. [[c EXCEPT !.pc = pc] EXCEPT !.by = by]
        = [c EXCEPT !.pc = pc, !.attempt = c.attempt, !.client = c.client, !.by = by, !.codes = c.codes,
                    !.content = c.content, !.out = c.out]
  OBVIOUS
<1>4. [[c EXCEPT !.pc = pc] EXCEPT !.content = content]
        = [c EXCEPT !.pc = pc, !.attempt = c.attempt, !.client = c.client, !.by = c.by, !.codes = c.codes,
                    !.content = content, !.out = c.out]
  OBVIOUS
<1>5. [[c EXCEPT !.pc = pc] EXCEPT !.attempt = @ + 1]
        = [c EXCEPT !.pc = pc, !.attempt = c.attempt + 1, !.client = c.client, !.by = c.by, !.codes = c.codes,
                    !.content = c.content, !.out = c.out]
  OBVIOUS
<1>6. [[c EXCEPT !.codes = codes] EXCEPT !.pc = pc]
        = [c EXCEPT !.pc = pc, !.attempt = c.attempt, !.client = c.client, !.by = c.by, !.codes = codes,
                    !.content = c.content, !.out = c.out]
  OBVIOUS
<1>7. [c EXCEPT !.pc = pc, !.out = out]
        = [c EXCEPT !.pc = pc, !.attempt = c.attempt, !.client = c.client, !.by = c.by, !.codes = c.codes,
                    !.content = c.content, !.out = out]
  OBVIOUS
<1>8. [[c EXCEPT !.pc = pc, !.out = out] EXCEPT !.codes = codes]
        = [c EXCEPT !.pc = pc, !.attempt = c.attempt, !.client = c.client, !.by = c.by, !.codes = codes,
                    !.content = c.content, !.out = out]
  OBVIOUS
<1> QED
  BY <1>1, <1>2, <1>3, <1>4, <1>5, <1>6, <1>7, <1>8

LEMMA CallMoves ==
  ASSUME NEW c \in CallType, NEW pc \in Pcs, NEW attempt \in 0 .. MaxAttempts - 1, NEW client \in Client, NEW by \in By,
         NEW codes \in Seq(Code), NEW content \in Seq(Request), NEW out \in OutType
  PROVE  /\ Moved(c, [c EXCEPT !.pc = pc], pc, c.attempt, c.client, c.by, c.codes, c.content, c.out)
         /\ Moved(c, [[c EXCEPT !.pc = pc] EXCEPT !.client = client], pc, c.attempt, client, c.by, c.codes, c.content, c.out)
         /\ Moved(c, [[c EXCEPT !.pc = pc] EXCEPT !.by = by], pc, c.attempt, c.client, by, c.codes, c.content, c.out)
         /\ Moved(c, [[c EXCEPT !.pc = pc] EXCEPT !.content = content], pc, c.attempt, c.client, c.by, c.codes, content, c.out)
         /\ attempt = c.attempt + 1
              => Moved(c, [[c EXCEPT !.pc = pc] EXCEPT !.attempt = @ + 1], pc, attempt, c.client, c.by, c.codes, c.content, c.out)
         /\ Moved(c, [[c EXCEPT !.codes = codes] EXCEPT !.pc = pc], pc, c.attempt, c.client, c.by, codes, c.content, c.out)
         /\ Moved(c, [c EXCEPT !.pc = pc, !.out = out], pc, c.attempt, c.client, c.by, c.codes, c.content, out)
         /\ Moved(c, [[c EXCEPT !.pc = pc, !.out = out] EXCEPT !.codes = codes], pc, c.attempt, c.client, c.by, codes, c.content, out)
<1>1. /\ c.pc \in Pcs /\ c.attempt \in 0 .. MaxAttempts - 1 /\ c.client \in Client /\ c.by \in By /\ c.codes \in Seq(Code)
      /\ c.content \in Seq(Request) /\ c.out \in OutType
  BY CallFields
<1>2. ASSUME NEW a \in 0 .. MaxAttempts - 1, NEW cl \in Client, NEW b \in By, NEW cs \in Seq(Code), NEW ct \in Seq(Request), NEW o \in OutType
      PROVE  Moved(c, [c EXCEPT !.pc = pc, !.attempt = a, !.client = cl, !.by = b, !.codes = cs, !.content = ct, !.out = o],
                   pc, a, cl, b, cs, ct, o)
  <2> DEFINE d == [c EXCEPT !.pc = pc, !.attempt = a, !.client = cl, !.by = b, !.codes = cs, !.content = ct, !.out = o]
  <2>1. /\ d \in CallType
        /\ d.n = c.n /\ d.hint = c.hint /\ d.pc = pc /\ d.attempt = a /\ d.client = cl /\ d.by = b
        /\ d.codes = cs /\ d.content = ct /\ d.out = o
    BY Written, Zenon DEF CallType
  <2> HIDE DEF d
  <2>2. Moved(c, d, pc, a, cl, b, cs, ct, o)
    BY <2>1 DEF Moved
  <2> QED
    BY <2>2 DEF d
<1>3. Moved(c, [c EXCEPT !.pc = pc], pc, c.attempt, c.client, c.by, c.codes, c.content, c.out)
  <2>1. [c EXCEPT !.pc = pc] = [c EXCEPT !.pc = pc, !.attempt = c.attempt, !.client = c.client, !.by = c.by, !.codes = c.codes, !.content = c.content, !.out = c.out]
    BY Unwritten, Zenon DEF CallType
  <2>2. Moved(c, [c EXCEPT !.pc = pc, !.attempt = c.attempt, !.client = c.client, !.by = c.by, !.codes = c.codes, !.content = c.content, !.out = c.out], pc, c.attempt, c.client, c.by, c.codes, c.content, c.out)
    BY <1>1, <1>2
  <2> QED
    BY <2>1, <2>2, Zenon
<1>4. Moved(c, [[c EXCEPT !.pc = pc] EXCEPT !.client = client], pc, c.attempt, client, c.by, c.codes, c.content, c.out)
  <2>1. [[c EXCEPT !.pc = pc] EXCEPT !.client = client] = [c EXCEPT !.pc = pc, !.attempt = c.attempt, !.client = client, !.by = c.by, !.codes = c.codes, !.content = c.content, !.out = c.out]
    BY Unwritten, Zenon DEF CallType
  <2>2. Moved(c, [c EXCEPT !.pc = pc, !.attempt = c.attempt, !.client = client, !.by = c.by, !.codes = c.codes, !.content = c.content, !.out = c.out], pc, c.attempt, client, c.by, c.codes, c.content, c.out)
    BY <1>1, <1>2
  <2> QED
    BY <2>1, <2>2, Zenon
<1>5. Moved(c, [[c EXCEPT !.pc = pc] EXCEPT !.by = by], pc, c.attempt, c.client, by, c.codes, c.content, c.out)
  <2>1. [[c EXCEPT !.pc = pc] EXCEPT !.by = by] = [c EXCEPT !.pc = pc, !.attempt = c.attempt, !.client = c.client, !.by = by, !.codes = c.codes, !.content = c.content, !.out = c.out]
    BY Unwritten, Zenon DEF CallType
  <2>2. Moved(c, [c EXCEPT !.pc = pc, !.attempt = c.attempt, !.client = c.client, !.by = by, !.codes = c.codes, !.content = c.content, !.out = c.out], pc, c.attempt, c.client, by, c.codes, c.content, c.out)
    BY <1>1, <1>2
  <2> QED
    BY <2>1, <2>2, Zenon
<1>6. Moved(c, [[c EXCEPT !.pc = pc] EXCEPT !.content = content], pc, c.attempt, c.client, c.by, c.codes, content, c.out)
  <2>1. [[c EXCEPT !.pc = pc] EXCEPT !.content = content] = [c EXCEPT !.pc = pc, !.attempt = c.attempt, !.client = c.client, !.by = c.by, !.codes = c.codes, !.content = content, !.out = c.out]
    BY Unwritten, Zenon DEF CallType
  <2>2. Moved(c, [c EXCEPT !.pc = pc, !.attempt = c.attempt, !.client = c.client, !.by = c.by, !.codes = c.codes, !.content = content, !.out = c.out], pc, c.attempt, c.client, c.by, c.codes, content, c.out)
    BY <1>1, <1>2
  <2> QED
    BY <2>1, <2>2, Zenon
<1>7. attempt = c.attempt + 1 => Moved(c, [[c EXCEPT !.pc = pc] EXCEPT !.attempt = @ + 1], pc, attempt, c.client, c.by, c.codes, c.content, c.out)
  <2>1. [[c EXCEPT !.pc = pc] EXCEPT !.attempt = @ + 1] = [c EXCEPT !.pc = pc, !.attempt = c.attempt + 1, !.client = c.client, !.by = c.by, !.codes = c.codes, !.content = c.content, !.out = c.out]
    BY Unwritten, Zenon DEF CallType
  <2>2. Moved(c, [c EXCEPT !.pc = pc, !.attempt = attempt, !.client = c.client, !.by = c.by, !.codes = c.codes, !.content = c.content, !.out = c.out], pc, attempt, c.client, c.by, c.codes, c.content, c.out)
    BY <1>1, <1>2
  <2> QED
    BY <2>1, <2>2, Zenon
<1>8. Moved(c, [[c EXCEPT !.codes = codes] EXCEPT !.pc = pc], pc, c.attempt, c.client, c.by, codes, c.content, c.out)
  <2>1. [[c EXCEPT !.codes = codes] EXCEPT !.pc = pc] = [c EXCEPT !.pc = pc, !.attempt = c.attempt, !.client = c.client, !.by = c.by, !.codes = codes, !.content = c.content, !.out = c.out]
    BY Unwritten, Zenon DEF CallType
  <2>2. Moved(c, [c EXCEPT !.pc = pc, !.attempt = c.attempt, !.client = c.client, !.by = c.by, !.codes = codes, !.content = c.content, !.out = c.out], pc, c.attempt, c.client, c.by, codes, c.content, c.out)
    BY <1>1, <1>2
  <2> QED
    BY <2>1, <2>2, Zenon
<1>9. Moved(c, [c EXCEPT !.pc = pc, !.out = out], pc, c.attempt, c.client, c.by, c.codes, c.content, out)
  <2>1. [c EXCEPT !.pc = pc, !.out = out] = [c EXCEPT !.pc = pc, !.attempt = c.attempt, !.client = c.client, !.by = c.by, !.codes = c.codes, !.content = c.content, !.out = out]
    BY Unwritten, Zenon DEF CallType
  <2>2. Moved(c, [c EXCEPT !.pc = pc, !.attempt = c.attempt, !.client = c.client, !.by = c.by, !.codes = c.codes, !.content = c.content, !.out = out], pc, c.attempt, c.client, c.by, c.codes, c.content, out)
    BY <1>1, <1>2
  <2> QED
    BY <2>1, <2>2, Zenon
<1>10. Moved(c, [[c EXCEPT !.pc = pc, !.out = out] EXCEPT !.codes = codes], pc, c.attempt, c.client, c.by, codes, c.content, out)
  <2>1. [[c EXCEPT !.pc = pc, !.out = out] EXCEPT !.codes = codes] = [c EXCEPT !.pc = pc, !.attempt = c.attempt, !.client = c.client, !.by = c.by, !.codes = codes, !.content = c.content, !.out = out]
    BY Unwritten, Zenon DEF CallType
  <2>2. Moved(c, [c EXCEPT !.pc = pc, !.attempt = c.attempt, !.client = c.client, !.by = c.by, !.codes = codes, !.content = c.content, !.out = out], pc, c.attempt, c.client, c.by, codes, c.content, out)
    BY <1>1, <1>2
  <2> QED
    BY <2>1, <2>2, Zenon
<1> QED
  BY <1>3, <1>4, <1>5, <1>6, <1>7, <1>8, <1>9, <1>10

\* From one step to another.
LEMMA GoesOK ==
  ASSUME NEW s, NEW p, NEW c, CallOK(s, p, c), c.pc \notin {"idle", "wait"}, NEW pc \in Steps, NEW client, NEW by,
         NEW d, Moved(c, d, pc, c.attempt, client, by, c.codes, c.content, c.out)
  PROVE  CallOK(s, p, d)
<1>1. c \in CallType /\ Begun(s, p, c) /\ Keyed(s, p, c) /\ Counted(s, c)
  BY DEF CallOK
<1>2. /\ d \in CallType /\ d.pc = pc /\ d.n = c.n /\ d.hint = c.hint /\ d.attempt = c.attempt /\ d.codes = c.codes
      /\ d.content = c.content /\ d.out = c.out
  BY DEF Moved
<1>3. pc \in Pcs /\ pc \notin {"idle", "wait", "prefix", "create", "store", "generate"}
  BY DEF Steps, Pcs
<1>4. Begun(s, p, d)
  BY <1>1, <1>2 DEF Begun
<1>5. Keyed(s, p, d)
  BY <1>1, <1>2, <1>3 DEF Keyed, Asked
<1>6. Counted(s, d)
  BY <1>1, <1>2, <1>3 DEF Counted
<1> QED
  BY <1>2, <1>4, <1>5, <1>6 DEF CallOK

\* An answer that is an error.
Error(code) == [None EXCEPT !.k = "error", !.code = code]
LEMMA Erred ==
  ASSUME NEW A, NEW B, NEW C, NEW D, NEW E, NEW F, NEW G,
         NEW o \in [k : A, code : B, req : C, by : D, at : E, hit : F, content : G], NEW k \in A, NEW code \in B
  PROVE  /\ [o EXCEPT !.k = k, !.code = code] \in [k : A, code : B, req : C, by : D, at : E, hit : F, content : G]
         /\ [o EXCEPT !.k = k, !.code = code].k = k /\ [o EXCEPT !.k = k, !.code = code].code = code
         /\ [o EXCEPT !.k = k, !.code = code].hit = o.hit
OBVIOUS

LEMMA ErrorType ==
  ASSUME NEW code \in Code
  PROVE  /\ None \in OutType /\ None.k = "none" /\ ~None.hit
         /\ Error(code) \in OutType /\ Error(code).k = "error" /\ Error(code).code = code /\ ~Error(code).hit
<1>1. None \in OutType /\ None.k = "none" /\ None.hit = FALSE
  <2>1. "" \in By /\ "" \in Code
    BY DEF By, Code
  <2>2. <<>> \in Seq(Request)
    OBVIOUS
  <2>3. <<>> \in Request \cup {<<>>}
    OBVIOUS
  <2> DEFINE e == <<>>
  <2> DEFINE x == ""
  <2>4. None = [k |-> "none", code |-> x, req |-> e, by |-> x, at |-> 0, hit |-> FALSE, content |-> e]
    BY DEF None
  <2>5. e \in Seq(Request) /\ e \in Request \cup {<<>>} /\ x \in By /\ x \in Code
    BY <2>1, <2>2, <2>3
  <2> HIDE DEF e, x
  <2> QED
    BY <2>4, <2>5 DEF OutType
<1>2. "error" \in {"none", "ok", "error"}
  OBVIOUS
<1> QED
  BY <1>1, <1>2, Erred, Zenon DEF Error, OutType

LEMMA FailOK ==
  ASSUME NEW s, NEW p, NEW c, CallOK(s, p, c), NEW code \in Code, NEW codes \in Seq(Code),
         codes # <<>> => Retries(s),
         NEW d, Moved(c, d, "idle", c.attempt, c.client, c.by, codes, c.content, Error(code))
  PROVE  CallOK(s, p, d)
<1> DEFINE out == Error(code)
<1>1. c \in CallType /\ Begun(s, p, c) /\ Keyed(s, p, c) /\ Counted(s, c)
  BY DEF CallOK
<1>2. out \in OutType /\ out.k = "error" /\ out.code = code
  BY ErrorType
<1>3. /\ d \in CallType /\ d.pc = "idle" /\ d.n = c.n /\ d.hint = c.hint /\ d.codes = codes
      /\ d.content = c.content /\ d.out = out
  BY DEF Moved
<1> HIDE DEF out
<1>4. Begun(s, p, d)
  BY <1>1, <1>3 DEF Begun
<1>5. Keyed(s, p, d)
  BY <1>1, <1>3 DEF Keyed, Asked
<1>6. Counted(s, d)
  BY <1>2, <1>3 DEF Counted
<1> QED
  BY <1>3, <1>4, <1>5, <1>6 DEF CallOK

\* A failure after which the codes stay what they were.
LEMMA EndsOK ==
  ASSUME NEW s, NEW p, NEW c, CallOK(s, p, c), c.pc # "idle", NEW code \in Code,
         NEW d, Moved(c, d, "idle", c.attempt, c.client, c.by, c.codes, c.content, Error(code))
  PROVE  CallOK(s, p, d)
<1> DEFINE codes == c.codes
<1>1. c \in CallType /\ Counted(s, c)
  BY DEF CallOK
<1>2. codes \in Seq(Code) /\ c.attempt \in 0 .. MaxAttempts - 1 /\ MaxAttempts \in Nat \ {0}
  BY <1>1, CallFields, GatewayAssumption
<1>3. codes # <<>> => Retries(s)
  BY <1>1, <1>2 DEF Counted
<1>4. Moved(c, d, "idle", c.attempt, c.client, c.by, codes, c.content, Error(code))
  OBVIOUS
<1> HIDE DEF codes
<1> QED
  BY <1>2, <1>3, <1>4, FailOK

\* An answer.
OK(c, req, at, hit) == [k |-> "ok", code |-> "", req |-> req, by |-> c.by, at |-> at, hit |-> hit, content |-> c.content]
LEMMA OKType ==
  ASSUME NEW c \in CallType, NEW req \in Request, NEW at \in Nat, NEW hit \in BOOLEAN
  PROVE  /\ OK(c, req, at, hit) \in OutType /\ OK(c, req, at, hit).k = "ok" /\ OK(c, req, at, hit).req = req
         /\ OK(c, req, at, hit).hit = hit /\ OK(c, req, at, hit).at = at
<1>1. c.by \in By /\ c.content \in Seq(Request) /\ "" \in Code
  BY CallFields DEF Code
<1> QED
  BY <1>1 DEF OutType, OK

LEMMA AnswersOK ==
  ASSUME NEW s, NEW p, NEW c, CallOK(s, p, c), c.pc # "idle", NEW req \in Request, NEW at \in Nat, NEW hit \in BOOLEAN,
         NEW d, Moved(c, d, "idle", c.attempt, c.client, c.by, c.codes, c.content, OK(c, req, at, hit))
  PROVE  CallOK(s, p, d) /\ d.out.at = at /\ d.out.hit = hit
<1> DEFINE out == OK(c, req, at, hit)
<1>1. c \in CallType /\ Begun(s, p, c) /\ Keyed(s, p, c) /\ Counted(s, c)
  BY DEF CallOK
<1>2. out \in OutType /\ out.k = "ok" /\ out.req = req /\ out.hit = hit /\ out.at = at
  BY <1>1, OKType
<1> HIDE DEF out
<1>3. Moved(c, d, "idle", c.attempt, c.client, c.by, c.codes, c.content, out)
  BY DEF out
<1>4. /\ d \in CallType /\ d.pc = "idle" /\ d.n = c.n /\ d.hint = c.hint /\ d.codes = c.codes
      /\ d.content = c.content /\ d.out = out
  BY <1>3 DEF Moved
<1>7. c.codes \in Seq(Code) /\ c.attempt \in 0 .. MaxAttempts - 1 /\ MaxAttempts \in Nat \ {0}
  BY <1>1, CallFields, GatewayAssumption
<1>8. Begun(s, p, d)
  BY <1>1, <1>4 DEF Begun
<1>9. Keyed(s, p, d)
  BY <1>1, <1>4 DEF Keyed, Asked
<1>10. Counted(s, d)
  BY <1>1, <1>2, <1>4, <1>7 DEF Counted
<1> QED
  BY <1>2, <1>4, <1>8, <1>9, <1>10 DEF CallOK

(***************************************************************************)
(* The steps of a call.                                                    *)
(***************************************************************************)
LEMMA SetupType ==
  ASSUME setup \in Setups
  PROVE  /\ setup.reqs \in [Caller -> Seq(Request)] /\ setup.changes \in Nat
         /\ setup.adapter \in By /\ setup.normalizer \in Normalizers
         /\ setup.selector \in Chars /\ setup.default \in Chars /\ setup.mutates \subseteq Pointers
         /\ setup.registry \in [DOMAIN setup.registry -> STRING] /\ DOMAIN setup.registry \subseteq Chars
BY SetupsAssumption DEF By, Normalizers

LEMMA ReqType ==
  ASSUME setup \in Setups, NEW p \in Caller, NEW n \in 1 .. Len(setup.reqs[p])
  PROVE  setup.reqs[p][n] \in Request
<1>1. setup.reqs[p] \in Seq(Request)
  BY SetupType
<1> QED
  BY <1>1

\* What a normalized hint is.
LEMMA HintOK ==
  ASSUME NEW r \in Request, NEW normalizer \in Normalizers
  PROVE  NormalizeCacheOptions(r, normalizer) \in HintType
<1> DEFINE h == NormalizeCacheOptions(r, normalizer)
<1> DEFINE Modes == STRING \cup {"auto", "bypass"}
<1>1. h.key \in Keys
  BY DEF Keys
<1>2. r.cache.mode \in Modes /\ r.cache.ttl \in Int
  BY DEF Request, CacheOptions
<1>3. \E ok \in BOOLEAN, mode \in Modes, ttl \in Int : \E key : h = [ok |-> ok, mode |-> mode, ttl |-> ttl, key |-> key]
  <2> DEFINE Plausible(x) == \E ok \in BOOLEAN, mode \in Modes, ttl \in Int : \E key : x = [ok |-> ok, mode |-> mode, ttl |-> ttl, key |-> key]
  <2>1. Plausible(Refused)
    <3>1. FALSE \in BOOLEAN /\ "auto" \in Modes /\ 0 \in Int
      OBVIOUS
    <3> HIDE DEF Modes
    <3> QED
      BY <3>1, Zenon DEF Refused
  <2>2. \A key : Plausible(Hint("bypass", r.cache.ttl, key)) /\ Plausible(Hint(r.cache.mode, r.cache.ttl, key))
    BY <1>2 DEF Hint
  <2> HIDE DEF Plausible
  <2>3. Plausible(h)
    BY <2>1, <2>2, Zenon DEF NormalizeCacheOptions
  <2> QED
    BY <2>3 DEF Plausible
<1>4. PICK ok \in BOOLEAN, mode \in Modes, ttl \in Int, key \in Keys : h = [ok |-> ok, mode |-> mode, ttl |-> ttl, key |-> key]
  <2>1. PICK ok \in BOOLEAN, mode \in Modes, ttl \in Int : \E key : h = [ok |-> ok, mode |-> mode, ttl |-> ttl, key |-> key]
    BY <1>3
  <2>2. PICK key : h = [ok |-> ok, mode |-> mode, ttl |-> ttl, key |-> key]
    BY <2>1
  <2>3. key \in Keys
    BY <1>1, <2>2
  <2> HIDE DEF h
  <2> QED
    BY <2>2, <2>3
<1> HIDE DEF h
<1>5. h \in HintType
  BY <1>4 DEF HintType
<1> QED
  BY <1>5 DEF h

\* What a call begins as.
LEMMA IdleType == Idle \in CallType /\ Refused \in HintType /\ Refused.key = NoKey /\ Idle.pc = "idle" /\ Idle.n = 0 /\ Idle.hint = Refused
                  /\ Idle.attempt = 0 /\ Idle.codes = <<>> /\ Idle.content = <<>> /\ Idle.out = None
<1>1. "" \in By /\ "" \in Code /\ "idle" \in Pcs /\ <<>> \in Client
  BY DEF By, Code, Pcs, Client
<1>2. <<>> \in Seq(Request) /\ <<>> \in Seq(Code)
  OBVIOUS
<1>3. Refused \in HintType /\ Refused.key = NoKey
  <2>1. NoKey \in Keys
    BY DEF Keys
  <2> HIDE DEF NoKey
  <2> QED
    BY <2>1 DEF Refused, HintType
<1>4. None \in OutType /\ MaxAttempts \in Nat \ {0}
  BY <1>1, ErrorType, GatewayAssumption
<1>5. 0 \in 0 .. MaxAttempts - 1
  BY <1>4
<1> DEFINE e == <<>>
<1> DEFINE x == ""
<1> DEFINE z == 0
<1>6. Idle = [pc |-> "idle", n |-> z, hint |-> Refused, attempt |-> z, client |-> e, by |-> x, codes |-> e, content |-> e, out |-> None]
  BY DEF Idle
<1>7. /\ e \in Seq(Request) /\ e \in Seq(Code) /\ x \in By /\ e \in Client /\ z \in 0 .. MaxAttempts - 1
      /\ z = 0 /\ e = <<>> /\ z \in Nat
  BY <1>1, <1>2, <1>5
<1> HIDE DEF e, x, z, None, Refused
<1> QED
  BY <1>1, <1>3, <1>4, <1>6, <1>7 DEF CallType

LEMMA BeginningOf ==
  ASSUME NEW A, NEW B, NEW C, NEW D, NEW E, NEW F, NEW G, NEW H, NEW I,
         NEW c \in [pc : A, n : B, hint : C, attempt : D, client : E, by : F, codes : G, content : H, out : I],
         NEW pc \in A, NEW n \in B, NEW hint \in C, NEW by \in F, NEW out \in I, NEW d, NEW o,
         d = [c EXCEPT !.n = n, !.pc = pc, !.hint = hint, !.by = by], o = [c EXCEPT !.n = n, !.out = out]
  PROVE  /\ d \in [pc : A, n : B, hint : C, attempt : D, client : E, by : F, codes : G, content : H, out : I]
         /\ d.n = n /\ d.hint = hint /\ d.pc = pc /\ d.attempt = c.attempt /\ d.codes = c.codes /\ d.content = c.content /\ d.out = c.out
         /\ o \in [pc : A, n : B, hint : C, attempt : D, client : E, by : F, codes : G, content : H, out : I]
         /\ o.n = n /\ o.hint = c.hint /\ o.pc = c.pc /\ o.attempt = c.attempt /\ o.codes = c.codes /\ o.content = c.content /\ o.out = out
OBVIOUS

\* The call of p goes on to one that is as it should be.
Fresh(c, d) == d.out = c.out \/ ~d.out.hit \/ TTL = 0 \/ now <= d.out.at + TTL
Advances(p) == \E d : Goes(p, d) /\ CallOK(setup, p, d) /\ Fresh(calls[p], d)

LEMMA EntryOK ==
  /\ \A i : Entry(i) \in {"call", "lookup", "attempt", "route"}
  /\ \A k : Below(k) \in {"call", "lookup", "attempt", "route"}
<1>1. \A i : Entry(i) \in {"call", "lookup", "attempt", "route"}
  <2> TAKE i
  <2>1. (CASE Layers[i] = "cache" -> "lookup" [] Layers[i] = "retry" -> "attempt" [] OTHER -> "route") \in {"call", "lookup", "attempt", "route"}
    <3> DEFINE x == Layers[i]
    <3>1. (CASE x = "cache" -> "lookup" [] x = "retry" -> "attempt" [] OTHER -> "route") \in {"call", "lookup", "attempt", "route"}
      <4> HIDE DEF x
      <4> QED
        OBVIOUS
    <3> QED
      BY <3>1
  <2> QED
    BY <2>1, Zenon DEF Entry
<1> QED
  BY <1>1 DEF Below

LEMMA GenerateOK ==
  ASSUME setup \in Setups, NEW p \in Caller, CallOK(setup, p, calls[p]), Generate(p)
  PROVE  Advances(p)
<1> DEFINE n == calls[p].n + 1
<1> DEFINE r == setup.reqs[p][n]
<1> DEFINE direct == setup.stack = "direct"
<1> DEFINE hint == IF direct /\ r.cache.mode # "none" THEN NormalizeCacheOptions(r, setup.normalizer) ELSE Hint("bypass", 0, NoKey)
<1> DEFINE refuses == direct /\ (~Validate(r) \/ ~hint.ok \/ (hint.mode = "require" /\ ~SupportsHint(Caps, hint)))
<1> DEFINE attached == hint.mode # "bypass" /\ Caps.prefix
<1> DEFINE next == IF ~direct THEN Entry(1)
                   ELSE IF setup.adapter = "google" /\ attached /\ hint.key # NoKey THEN "prefix" ELSE "generate"
<1> DEFINE refused == [Idle EXCEPT !.n = n, !.out = Error("invalid")]
<1> DEFINE begun == [Idle EXCEPT !.n = n, !.pc = next, !.hint = hint, !.by = setup.adapter]
<1>1. /\ calls[p].pc = "idle" /\ calls[p].n < Len(setup.reqs[p])
      /\ Goes(p, IF refuses THEN refused ELSE begun)
  BY DEF Generate, At, Error
<1>2. calls[p].n \in Nat /\ setup.reqs[p] \in Seq(Request)
  BY SetupType, CallFields DEF CallOK
<1>3. n \in 1 .. Len(setup.reqs[p]) /\ n \in Nat
  <2> DEFINE m == calls[p].n
  <2> DEFINE l == Len(setup.reqs[p])
  <2>1. m \in Nat /\ l \in Nat /\ m < l
    <3>1. m < l
      BY ONLY <1>1, Zenon
    <3>2. m \in Nat
      BY ONLY <1>2, Zenon
    <3>3. l \in Nat
      BY ONLY <1>2
    <3> QED
      BY ONLY <3>1, <3>2, <3>3
  <2> HIDE DEF m, l
  <2>2. m + 1 \in 1 .. l /\ m + 1 \in Nat
    BY ONLY <2>1
  <2> QED
    BY ONLY <2>2 DEF m, l
<1>4. r \in Request
  BY <1>3, ReqType
<1>5. hint \in HintType /\ (hint.key # NoKey => hint.key = KeyOf(setup, r))
  <2>1. NormalizeCacheOptions(r, setup.normalizer) \in HintType
    BY <1>4, HintOK, SetupType
  <2>2. Hint("bypass", 0, NoKey) \in HintType /\ Hint("bypass", 0, NoKey).key = NoKey
    <3>1. TRUE \in BOOLEAN /\ "bypass" \in STRING \cup {"auto", "bypass"} /\ 0 \in Int /\ NoKey \in Keys
      BY DEF Keys
    <3> HIDE DEF NoKey
    <3> QED
      BY <3>1 DEF Hint, HintType
  <2> HIDE DEF r
  <2> QED
    BY <2>1, <2>2 DEF KeyOf
<1>6. next \in {"call", "lookup", "attempt", "route", "prefix", "generate"} /\ (next = "prefix" => hint.key # NoKey)
  <2> DEFINE x == Entry(1)
  <2>1. x \in {"call", "lookup", "attempt", "route"}
    BY EntryOK
  <2> HIDE DEF hint, attached, x
  <2>2. next = IF ~direct THEN x
               ELSE IF setup.adapter = "google" /\ attached /\ hint.key # NoKey THEN "prefix" ELSE "generate"
    BY DEF x
  <2> HIDE DEF next
  <2> QED
    BY <2>1, <2>2
<1>7. next \in Pcs /\ next \notin {"idle", "wait", "create", "store"}
  <2> HIDE DEF next
  <2> QED
    BY <1>6 DEF Pcs
<1>8. setup.adapter \in By /\ Error("invalid") \in OutType /\ Error("invalid").k = "error" /\ Error("invalid").code = "invalid" /\ ~Error("invalid").hit
      /\ None.k = "none" /\ ~None.hit
  <2>1. "invalid" \in Code
    BY DEF Code
  <2> QED
    BY <2>1, SetupType, ErrorType
<1> DEFINE out == Error("invalid")
<1>9. /\ begun \in CallType /\ begun.n = n /\ begun.hint = hint /\ begun.pc = next /\ begun.attempt = 0 /\ begun.codes = <<>>
      /\ begun.content = <<>> /\ begun.out = None
      /\ refused \in CallType /\ refused.n = n /\ refused.hint.key = NoKey /\ refused.pc = "idle" /\ refused.attempt = 0 /\ refused.codes = <<>>
      /\ refused.content = <<>> /\ refused.out = out
  <2> DEFINE b == begun
  <2> DEFINE f == refused
  <2> DEFINE a == setup.adapter
  <2>1. b = [Idle EXCEPT !.n = n, !.pc = next, !.hint = hint, !.by = a] /\ f = [Idle EXCEPT !.n = n, !.out = out]
    OBVIOUS
  <2>2. Idle \in CallType /\ n \in Nat /\ next \in Pcs /\ hint \in HintType /\ a \in By /\ out \in OutType
    BY <1>3, <1>5, <1>7, <1>8, IdleType
  <2> HIDE DEF b, f, n, next, hint, a, out
  <2>3. /\ b \in CallType /\ b.n = n /\ b.hint = hint /\ b.pc = next /\ b.attempt = Idle.attempt /\ b.codes = Idle.codes
        /\ b.content = Idle.content /\ b.out = Idle.out
        /\ f \in CallType /\ f.n = n /\ f.hint = Idle.hint /\ f.pc = Idle.pc /\ f.attempt = Idle.attempt /\ f.codes = Idle.codes
        /\ f.content = Idle.content /\ f.out = out
    BY <2>1, <2>2, BeginningOf, Zenon DEF CallType
  <2> QED
    BY <2>3, IdleType DEF b, f
<1>10. CallOK(setup, p, begun) /\ Fresh(calls[p], begun)
  <2> DEFINE d == begun
  <2>1. /\ d \in CallType /\ d.n = n /\ d.hint = hint /\ d.pc = next /\ d.attempt = 0 /\ d.codes = <<>>
        /\ d.content = <<>> /\ d.out = None
    BY <1>9
  <2>2. Asked(setup, p, d) = r
    BY <2>1 DEF Asked
  <2>3. n \in 0 .. Len(setup.reqs[p]) /\ n >= 1
    BY <1>3
  <2> HIDE DEF d, n, r, hint, next
  <2>4. Begun(setup, p, d)
    BY <1>8, <2>1, <2>3 DEF Begun
  <2>5. Keyed(setup, p, d)
    BY <1>5, <1>6, <1>7, <2>1, <2>2, <2>3 DEF Keyed
  <2>6. Counted(setup, d)
    BY <1>7, <2>1 DEF Counted
  <2>8. Fresh(calls[p], d)
    BY <1>8, <2>1 DEF Fresh
  <2> QED
    BY <2>1, <2>4, <2>5, <2>6, <2>8 DEF CallOK, d
<1>11. CallOK(setup, p, refused) /\ Fresh(calls[p], refused)
  <2> DEFINE d == refused
  <2>1. /\ d \in CallType /\ d.n = n /\ d.hint.key = NoKey /\ d.pc = "idle" /\ d.attempt = 0 /\ d.codes = <<>>
        /\ d.content = <<>> /\ d.out = out
    BY <1>9
  <2>2. out.k = "error" /\ ~out.hit
    BY <1>8
  <2>3. n \in 0 .. Len(setup.reqs[p]) /\ n >= 1 /\ MaxAttempts \in Nat
    BY <1>3, GatewayAssumption
  <2> HIDE DEF d, n, out
  <2>4. Begun(setup, p, d)
    BY <2>1, <2>3 DEF Begun
  <2>5. Keyed(setup, p, d)
    BY <2>1 DEF Keyed
  <2>6. Counted(setup, d)
    BY <2>1, <2>3 DEF Counted
  <2>8. Fresh(calls[p], d)
    BY <2>1, <2>2 DEF Fresh
  <2> QED
    BY <2>1, <2>4, <2>5, <2>6, <2>8 DEF CallOK, d
<1>12. CASE refuses
  <2> HIDE DEF refuses, refused, begun
  <2> QED
    BY <1>1, <1>11, <1>12 DEF Advances
<1>13. CASE ~refuses
  <2> HIDE DEF refuses, refused, begun
  <2> QED
    BY <1>1, <1>10, <1>13 DEF Advances
<1> QED
  BY <1>12, <1>13

LEMMA ToOK ==
  ASSUME NEW p \in Caller, CallOK(setup, p, calls[p]), calls[p].pc \notin {"idle", "wait"}, NEW pc \in Steps,
         NEW client \in Client, NEW by \in By,
         \/ Goes(p, To(p, pc)) \/ Goes(p, [To(p, pc) EXCEPT !.client = client]) \/ Goes(p, [To(p, pc) EXCEPT !.by = by])
  PROVE  Advances(p)
<1> DEFINE c == calls[p]
<1>1. c \in CallType /\ CallOK(setup, p, c) /\ c.pc \notin {"idle", "wait"}
  BY DEF CallOK
<1>2. pc \in Pcs
  BY DEF Steps, Pcs
<1>3. \/ Goes(p, [c EXCEPT !.pc = pc]) \/ Goes(p, [[c EXCEPT !.pc = pc] EXCEPT !.client = client])
      \/ Goes(p, [[c EXCEPT !.pc = pc] EXCEPT !.by = by])
  BY Zenon DEF To
<1> HIDE DEF c
<1>4. /\ c.attempt \in 0 .. MaxAttempts - 1 /\ c.client \in Client /\ c.by \in By /\ c.codes \in Seq(Code)
      /\ c.content \in Seq(Request) /\ c.out \in OutType
  BY <1>1, CallFields
<1>5. /\ Moved(c, [c EXCEPT !.pc = pc], pc, c.attempt, c.client, c.by, c.codes, c.content, c.out)
      /\ Moved(c, [[c EXCEPT !.pc = pc] EXCEPT !.client = client], pc, c.attempt, client, c.by, c.codes, c.content, c.out)
      /\ Moved(c, [[c EXCEPT !.pc = pc] EXCEPT !.by = by], pc, c.attempt, c.client, by, c.codes, c.content, c.out)
  BY <1>1, <1>2, <1>4, CallMoves, Zenon
<1>6. \E d, cl, b : Goes(p, d) /\ Moved(c, d, pc, c.attempt, cl, b, c.codes, c.content, c.out)
  BY <1>3, <1>5, Zenon
<1>7. PICK d, cl, b : Goes(p, d) /\ Moved(c, d, pc, c.attempt, cl, b, c.codes, c.content, c.out)
  BY <1>6
<1>8. CallOK(setup, p, d) /\ Fresh(c, d)
  BY <1>1, <1>7, GoesOK DEF Moved, Fresh
<1> QED
  BY <1>7, <1>8 DEF Advances, c

LEMMA FailsOK ==
  ASSUME NEW p \in Caller, CallOK(setup, p, calls[p]), calls[p].pc # "idle", NEW code \in Code, Goes(p, Fail(p, code))
  PROVE  Advances(p)
<1> DEFINE c == calls[p]
<1> DEFINE d == [c EXCEPT !.pc = "idle", !.out = Error(code)]
<1>1. c \in CallType /\ CallOK(setup, p, c) /\ c.pc # "idle"
  BY DEF CallOK
<1>2. Goes(p, d)
  BY DEF Fail, Error
<1>3. "idle" \in Pcs
  BY DEF Pcs
<1> HIDE DEF c
<1>4. /\ c.attempt \in 0 .. MaxAttempts - 1 /\ c.client \in Client /\ c.by \in By /\ c.codes \in Seq(Code)
      /\ c.content \in Seq(Request) /\ Error(code) \in OutType /\ ~Error(code).hit
  BY <1>1, CallFields, ErrorType
<1>5. Moved(c, d, "idle", c.attempt, c.client, c.by, c.codes, c.content, Error(code))
  BY <1>1, <1>3, <1>4, CallMoves, Zenon
<1> HIDE DEF d
<1>6. CallOK(setup, p, d)
  BY <1>1, <1>5, EndsOK
<1>7. Fresh(c, d)
  BY <1>4, <1>5 DEF Moved, Fresh
<1> QED
  BY <1>2, <1>6, <1>7 DEF Advances, c

LEMMA AnswerOK ==
  ASSUME setup \in Setups, NEW p \in Caller, CallOK(setup, p, calls[p]), calls[p].pc # "idle", NEW req \in Request, NEW at \in Nat, NEW hit \in BOOLEAN,
         hit => TTL = 0 \/ now <= at + TTL,
         Goes(p, Answer(p, req, at, hit))
  PROVE  Advances(p)
<1> DEFINE c == calls[p]
<1> DEFINE out == OK(c, req, at, hit)
<1> DEFINE d == [c EXCEPT !.pc = "idle", !.out = out]
<1>1. CallOK(setup, p, c) /\ c.pc # "idle" /\ Asked(setup, p, c) = Req(p)
  BY DEF Asked, Req
<1>2. Goes(p, d)
  BY DEF Answer, OK
<1> HIDE DEF c
<1>3. Moved(c, d, "idle", c.attempt, c.client, c.by, c.codes, c.content, out)
  <2>1. /\ c.attempt \in 0 .. MaxAttempts - 1 /\ c.client \in Client /\ c.by \in By /\ c.codes \in Seq(Code)
        /\ c.content \in Seq(Request) /\ c \in CallType
    BY <1>1, CallFields DEF CallOK
  <2>2. out \in OutType
    BY <2>1, OKType
  <2>3. "idle" \in Pcs
    BY DEF Pcs
  <2> HIDE DEF out
  <2> QED
    BY <2>1, <2>2, <2>3, CallMoves, Zenon
<1> HIDE DEF d
<1>4. CallOK(setup, p, d) /\ d.out.at = at /\ d.out.hit = hit
  BY <1>1, <1>3, AnswersOK
<1>5. Fresh(c, d)
  BY <1>4 DEF Fresh
<1> QED
  BY <1>2, <1>4, <1>5 DEF Advances, c

\* A step of the use of the prefix cache.
LEMMA PrefixOK ==
  ASSUME NEW p \in Caller, CallOK(setup, p, calls[p]), calls[p].pc \in {"prefix", "create", "store"},
         NEW pc \in {"create", "store", "generate"}, NEW r \in Request, KeyOf(setup, r) = calls[p].hint.key,
         \/ pc # "store" /\ Goes(p, To(p, pc)) 
         \/ Goes(p, [To(p, pc) EXCEPT !.content = <<r>>])
  PROVE  Advances(p)
<1> DEFINE c == calls[p]
<1> DEFINE content == <<r>>
<1>1. /\ c \in CallType /\ CallOK(setup, p, c) /\ c.pc \in {"prefix", "create", "store"} /\ KeyOf(setup, r) = c.hint.key
      /\ Begun(setup, p, c) /\ Keyed(setup, p, c) /\ Counted(setup, c)
  BY DEF CallOK
<1>2. pc \in Pcs
  BY DEF Pcs
<1>3. (pc # "store" /\ Goes(p, [c EXCEPT !.pc = pc])) \/ Goes(p, [[c EXCEPT !.pc = pc] EXCEPT !.content = content])
  BY Zenon DEF To
<1>4. content \in Seq(Request) /\ Len(content) = 1 /\ content[1] = r
  OBVIOUS
<1> HIDE DEF c, content
<1>5. /\ c.attempt \in 0 .. MaxAttempts - 1 /\ c.client \in Client /\ c.by \in By /\ c.codes \in Seq(Code)
      /\ c.content \in Seq(Request) /\ c.out \in OutType
  BY <1>1, CallFields
<1>6. /\ Moved(c, [c EXCEPT !.pc = pc], pc, c.attempt, c.client, c.by, c.codes, c.content, c.out)
      /\ Moved(c, [[c EXCEPT !.pc = pc] EXCEPT !.content = content], pc, c.attempt, c.client, c.by, c.codes, content, c.out)
  BY <1>1, <1>2, <1>4, <1>5, CallMoves, Zenon
<1>7. \E d, ct : Goes(p, d) /\ Moved(c, d, pc, c.attempt, c.client, c.by, c.codes, ct, c.out) /\ (ct = content \/ (ct = c.content /\ pc # "store"))
  <2>1. CASE pc # "store" /\ Goes(p, [c EXCEPT !.pc = pc])
    BY <1>6, <2>1, Zenon
  <2>2. CASE Goes(p, [[c EXCEPT !.pc = pc] EXCEPT !.content = content])
    BY <1>6, <2>2, Zenon
  <2> QED
    BY <1>3, <2>1, <2>2
<1>8. PICK d, ct : Goes(p, d) /\ Moved(c, d, pc, c.attempt, c.client, c.by, c.codes, ct, c.out) /\ (ct = content \/ (ct = c.content /\ pc # "store"))
  BY <1>7
<1>9. /\ d \in CallType /\ d.pc = pc /\ d.n = c.n /\ d.hint = c.hint /\ d.attempt = c.attempt /\ d.codes = c.codes
      /\ d.content = ct /\ d.out = c.out
  BY <1>8 DEF Moved
<1>10. Begun(setup, p, d)
  BY <1>1, <1>9 DEF Begun
<1>11. Keyed(setup, p, d)
  <2>1. d.hint.key # NoKey /\ c.n >= 1 /\ d.hint.key = KeyOf(setup, Asked(setup, p, d))
    BY <1>1, <1>9 DEF Keyed, Asked
  <2>2. \A i \in 1 .. Len(ct) : KeyOf(setup, ct[i]) = d.hint.key
    BY <1>1, <1>4, <1>8, <1>9 DEF Keyed
  <2> QED
    BY <1>4, <1>8, <1>9, <2>1, <2>2 DEF Keyed
<1>12. Counted(setup, d)
  BY <1>1, <1>9 DEF Counted
<1>14. CallOK(setup, p, d) /\ Fresh(c, d)
  BY <1>9, <1>10, <1>11, <1>12 DEF CallOK, Fresh
<1> QED
  BY <1>8, <1>14 DEF Advances, c

\* The classes of errors are codes.
LEMMA ClassType == \A by, cause : Class(by, cause) \in Code /\ InStream(by, cause) \in Code
<1> TAKE by, cause
<1> DEFINE Known == {0, 400, 401, 404, 429, 500, 503, 504}
<1>1. StatusOf(cause) \in Known
  BY DEF StatusOf
<1>2. \A status \in Known : ConvertHTTPStatusToCode(status) \in Code
  BY DEF ConvertHTTPStatusToCode, Code
<1>3. ConvertHTTPStatusToCode(StatusOf(cause)) \in Code
  BY <1>1, <1>2
<1>4. BedrockClass(cause) \in Code
  BY DEF BedrockClass, Code
<1>5. GoogleClass(cause) \in Code
  <2> DEFINE x == ConvertHTTPStatusToCode(StatusOf(cause))
  <2> DEFINE y == StatusOf(cause)
  <2>1. x \in Code
    BY <1>3
  <2>2. GoogleClass(cause) = CASE y # 0 -> x [] cause = "deadline" -> "timeout" [] cause = "cancelled" -> "cancelled" [] OTHER -> "stream"
    BY DEF GoogleClass
  <2> HIDE DEF x, y
  <2> QED
    BY <2>1, <2>2 DEF Code
<1>6. CompatClass(cause) \in Code
  BY <1>3 DEF CompatClass, Code
<1>7. Class(by, cause) \in Code
  BY <1>4, <1>5, <1>6 DEF Class
<1>8. "stream" \in Code
  BY DEF Code
<1>9. InStream(by, cause) \in Code
  BY <1>4, <1>5, <1>8 DEF InStream
<1> QED
  BY <1>7, <1>9

\* What the rest of the state has to be for a call to go on.
EngineOK == \A k \in DOMAIN engine : k # NoKey /\ engine[k] \in Request /\ KeyOf(setup, engine[k]) = k
RegistryOK == registry \in [DOMAIN registry -> By] /\ DOMAIN registry \subseteq Client
EntriesOK ==
  \A k \in DOMAIN entries :
    entries[k].req \in Request /\ entries[k].at \in Nat /\ entries[k].expires = entries[k].at + TTL

\* A call under way has a request.
LEMMA UnderWay ==
  ASSUME setup \in Setups, NEW p \in Caller, CallOK(setup, p, calls[p]), calls[p].n >= 1
  PROVE  Req(p) \in Request /\ Req(p) = Asked(setup, p, calls[p])
<1>1. calls[p].n \in 0 .. Len(setup.reqs[p]) /\ calls[p].n \in Nat
  BY CallFields DEF CallOK, Begun
<1>2. calls[p].n \in 1 .. Len(setup.reqs[p])
  BY <1>1
<1>3. setup.reqs[p][calls[p].n] \in Request
  BY <1>2, ReqType
<1> QED
  BY <1>3 DEF Req, Asked

LEMMA LookupPrefixOK ==
  ASSUME setup \in Setups, EngineOK, NEW p \in Caller, CallOK(setup, p, calls[p]), LookupPrefix(p)
  PROVE  Advances(p)
<1>1. calls[p].pc = "prefix" /\ calls[p].hint.key # NoKey /\ calls[p].codes = <<>>
  BY DEF LookupPrefix, At, CallOK, Keyed, Counted
<1>2. calls[p].n >= 1 /\ calls[p].hint.key = KeyOf(setup, Asked(setup, p, calls[p]))
  BY <1>1 DEF CallOK, Begun, Keyed
<1>3. Req(p) \in Request /\ KeyOf(setup, Req(p)) = calls[p].hint.key
  BY <1>2, UnderWay
<1>4. "provider" \in Code
  BY DEF Code
<1>5. ASSUME calls[p].hint.key \in DOMAIN engine, Goes(p, [To(p, "generate") EXCEPT !.content = <<engine[calls[p].hint.key]>>])
      PROVE  Advances(p)
  <2> DEFINE r == engine[calls[p].hint.key]
  <2>1. r \in Request /\ KeyOf(setup, r) = calls[p].hint.key
    BY <1>5 DEF EngineOK
  <2>2. Goes(p, [To(p, "generate") EXCEPT !.content = <<r>>])
    BY <1>5
  <2> HIDE DEF r
  <2> QED
    BY <1>1, <2>1, <2>2, PrefixOK
<1>6. ASSUME Goes(p, To(p, "create")) PROVE Advances(p)
  BY <1>1, <1>3, <1>6, PrefixOK
<1>7. ASSUME Goes(p, Fail(p, "provider")) PROVE Advances(p)
  BY <1>1, <1>4, <1>7, FailsOK
<1>8. \/ calls[p].hint.key \in DOMAIN engine /\ Goes(p, [To(p, "generate") EXCEPT !.content = <<engine[calls[p].hint.key]>>])
      \/ Goes(p, To(p, "create"))
      \/ Goes(p, Fail(p, "provider"))
  BY Zenon DEF LookupPrefix
<1> QED
  BY <1>5, <1>6, <1>7, <1>8

LEMMA CreateCachedContentOK ==
  ASSUME setup \in Setups, NEW p \in Caller, CallOK(setup, p, calls[p]), CreateCachedContent(p)
  PROVE  Advances(p)
<1>1. calls[p].pc = "create" /\ calls[p].hint.key # NoKey /\ calls[p].codes = <<>>
  BY DEF CreateCachedContent, At, CallOK, Keyed, Counted
<1>2. calls[p].n >= 1 /\ calls[p].hint.key = KeyOf(setup, Asked(setup, p, calls[p]))
  BY <1>1 DEF CallOK, Begun, Keyed
<1>3. Req(p) \in Request /\ KeyOf(setup, Req(p)) = calls[p].hint.key
  BY <1>2, UnderWay
<1>4. "provider" \in Code
  BY DEF Code
<1>5. ASSUME Goes(p, [To(p, "store") EXCEPT !.content = <<Req(p)>>]) PROVE Advances(p)
  BY <1>1, <1>3, <1>5, PrefixOK
<1>6. ASSUME Goes(p, To(p, "generate")) PROVE Advances(p)
  BY <1>1, <1>3, <1>6, PrefixOK
<1>7. ASSUME Goes(p, Fail(p, "provider")) PROVE Advances(p)
  BY <1>1, <1>4, <1>7, FailsOK
<1>8. Goes(p, [To(p, "store") EXCEPT !.content = <<Req(p)>>]) \/ Goes(p, To(p, "generate")) \/ Goes(p, Fail(p, "provider"))
  BY Zenon DEF CreateCachedContent
<1> QED
  BY <1>5, <1>6, <1>7, <1>8

LEMMA StorePrefixOK ==
  ASSUME setup \in Setups, NEW p \in Caller, CallOK(setup, p, calls[p]), StorePrefix(p)
  PROVE  /\ Advances(p) /\ calls[p].hint.key # NoKey
         /\ calls[p].content[1] \in Request /\ KeyOf(setup, calls[p].content[1]) = calls[p].hint.key
<1>1. calls[p].pc = "store" /\ calls[p].hint.key # NoKey /\ Len(calls[p].content) = 1 /\ Keyed(setup, p, calls[p])
  BY DEF StorePrefix, At, CallOK, Keyed
<1>2. calls[p].n >= 1 /\ calls[p].hint.key = KeyOf(setup, Asked(setup, p, calls[p]))
  BY <1>1 DEF CallOK, Begun, Keyed
<1>3. Req(p) \in Request /\ KeyOf(setup, Req(p)) = calls[p].hint.key
  BY <1>2, UnderWay
<1>4. Goes(p, To(p, "generate"))
  BY DEF StorePrefix
<1>5. Advances(p)
  BY <1>1, <1>3, <1>4, PrefixOK
<1>6. calls[p].content \in Seq(Request)
  BY CallFields DEF CallOK
<1>7. 1 \in 1 .. Len(calls[p].content)
  BY <1>1
<1>8. calls[p].content[1] \in Request
  BY <1>6, <1>7
<1>9. KeyOf(setup, calls[p].content[1]) = calls[p].hint.key
  BY <1>1, <1>7 DEF Keyed
<1> QED
  BY <1>1, <1>5, <1>8, <1>9

LEMMA RepliesOK ==
  ASSUME setup \in Setups, now \in Nat, NEW p \in Caller, CallOK(setup, p, calls[p]), Replies(p)
  PROVE  Advances(p)
<1>1. calls[p].pc = "generate" /\ calls[p].codes = <<>> /\ calls[p].n >= 1
  BY DEF Replies, At, CallOK, Begun, Counted
<1>2. Req(p) \in Request
  BY <1>1, UnderWay
<1>3. ASSUME Goes(p, Answer(p, Req(p), now, FALSE)) PROVE Advances(p)
  <2>1. FALSE \in BOOLEAN
    OBVIOUS
  <2> QED
    BY <1>1, <1>2, <1>3, <2>1, AnswerOK
<1>4. ASSUME NEW code \in Code, Goes(p, Fail(p, code)) PROVE Advances(p)
  BY <1>1, <1>4, FailsOK
<1>5. \/ Goes(p, Answer(p, Req(p), now, FALSE))
      \/ \E cause : Goes(p, Fail(p, Class(setup.adapter, cause))) \/ Goes(p, Fail(p, InStream(setup.adapter, cause)))
  BY Zenon DEF Replies
<1> QED
  BY <1>3, <1>4, <1>5, ClassType, Zenon

LEMMA HitOK ==
  ASSUME setup \in Setups, EntriesOK, now \in Nat, NEW p \in Caller, CallOK(setup, p, calls[p]), Hit(p)
  PROVE  Advances(p)
<1> DEFINE k == defaultCacheKey(Req(p))
<1> DEFINE e == entries[k]
<1>1. calls[p].pc = "lookup" /\ k \in DOMAIN entries /\ ~expired(k) /\ Goes(p, Answer(p, e.req, e.at, TRUE))
  BY Zenon DEF Hit, At
<1>2. e.req \in Request /\ e.at \in Nat /\ e.expires = e.at + TTL
  BY <1>1 DEF EntriesOK
<1>3. TTL = 0 \/ now <= e.at + TTL
  <2>1. TTL \in Nat /\ ~(TTL > 0 /\ now > e.expires)
    BY <1>1, GatewayAssumption DEF expired
  <2> DEFINE x == e.expires
  <2> DEFINE y == e.at
  <2>2. TTL \in Nat /\ ~(TTL > 0 /\ now > x) /\ x = y + TTL /\ y \in Nat
    BY <1>2, <2>1
  <2> HIDE DEF x, y, e
  <2> QED
    BY <2>2 DEF y
<1>4. TRUE \in BOOLEAN /\ calls[p].pc # "idle"
  BY <1>1
<1> HIDE DEF e, k
<1> QED
  BY <1>1, <1>2, <1>3, <1>4, AnswerOK

LEMMA MissOK ==
  ASSUME NEW p \in Caller, CallOK(setup, p, calls[p]), Miss(p)
  PROVE  Advances(p)
<1>1. calls[p].pc = "lookup" /\ Goes(p, To(p, Below("cache")))
  BY Zenon DEF Miss, At
<1>2. Below("cache") \in Steps /\ <<>> \in Client /\ "" \in By
  <2>1. Below("cache") \in {"call", "lookup", "attempt", "route"}
    BY EntryOK
  <2> HIDE DEF Below
  <2> QED
    BY <2>1 DEF Steps, Client, By
<1> QED
  BY <1>1, <1>2, ToOK

LEMMA putOK ==
  ASSUME setup \in Setups, now \in Nat, NEW p \in Caller, CallOK(setup, p, calls[p]), put(p)
  PROVE  Advances(p)
<1>1. calls[p].pc = "put" /\ Goes(p, Answer(p, Req(p), now, FALSE))
  BY Zenon DEF put, At
<1>2. calls[p].n >= 1
  BY <1>1 DEF CallOK, Begun
<1>3. Req(p) \in Request /\ FALSE \in BOOLEAN /\ calls[p].pc # "idle"
  BY <1>1, <1>2, UnderWay
<1> QED
  BY <1>1, <1>3, AnswerOK

LEMMA AttemptOK ==
  ASSUME NEW p \in Caller, CallOK(setup, p, calls[p]), Attempt(p)
  PROVE  Advances(p)
<1>1. calls[p].pc = "attempt" /\ (Goes(p, Fail(p, "cancelled")) \/ Goes(p, To(p, Below("retry"))))
  BY DEF Attempt, At
<1>2. Below("retry") \in Steps /\ <<>> \in Client /\ "" \in By /\ "cancelled" \in Code
  <2>1. Below("retry") \in {"call", "lookup", "attempt", "route"}
    BY EntryOK
  <2> HIDE DEF Below
  <2> QED
    BY <2>1 DEF Steps, Client, By, Code
<1>3. ASSUME Goes(p, Fail(p, "cancelled")) PROVE Advances(p)
  BY <1>1, <1>2, <1>3, FailsOK
<1>4. ASSUME Goes(p, To(p, Below("retry"))) PROVE Advances(p)
  BY <1>1, <1>2, <1>4, ToOK
<1> QED
  BY <1>1, <1>3, <1>4

\* The client is that of the configuration, the request or the context.
LEMMA ClientType ==
  ASSUME setup \in Setups, NEW r \in Request
  PROVE  resolveClient(r) \in Client
<1>1. setup.selector \in Chars /\ setup.default \in Chars /\ r.client \in Chars /\ r.ctx \in Chars
  BY SetupType DEF Request
<1> QED
  BY <1>1 DEF resolveClient, Client

LEMMA RouteOK ==
  ASSUME setup \in Setups, NEW p \in Caller, CallOK(setup, p, calls[p]), Route(p)
  PROVE  Advances(p)
<1> DEFINE client == resolveClient(Req(p))
<1>1. /\ calls[p].pc = "route"
      /\ \/ Goes(p, Fail(p, "select")) \/ Goes(p, [To(p, "get") EXCEPT !.client = client]) \/ Goes(p, To(p, "pick"))
  BY DEF Route, At
<1>2. calls[p].n >= 1
  BY <1>1 DEF CallOK, Begun
<1>3. client \in Client
  BY <1>2, UnderWay, ClientType
<1>4. "get" \in Steps /\ "pick" \in Steps /\ "" \in By /\ "select" \in Code
  BY DEF Steps, By, Code
<1> HIDE DEF client
<1>5. ASSUME Goes(p, Fail(p, "select")) PROVE Advances(p)
  BY <1>1, <1>4, <1>5, FailsOK
<1>6. ASSUME Goes(p, [To(p, "get") EXCEPT !.client = client]) PROVE Advances(p)
  BY <1>1, <1>3, <1>4, <1>6, ToOK
<1>7. ASSUME Goes(p, To(p, "pick")) PROVE Advances(p)
  BY <1>1, <1>3, <1>4, <1>7, ToOK
<1> QED
  BY <1>1, <1>5, <1>6, <1>7

LEMMA PickOK ==
  ASSUME RegistryOK, NEW p \in Caller, CallOK(setup, p, calls[p]), Pick(p)
  PROVE  Advances(p)
<1>1. /\ calls[p].pc = "pick"
      /\ Goes(p, Fail(p, "select")) \/ (\E name \in DOMAIN registry : Goes(p, [To(p, "get") EXCEPT !.client = name]))
  BY Zenon DEF Pick, At
<1>2. "get" \in Steps /\ "" \in By /\ "select" \in Code
  BY DEF Steps, By, Code
<1>3. ASSUME Goes(p, Fail(p, "select")) PROVE Advances(p)
  BY <1>1, <1>2, <1>3, FailsOK
<1>4. ASSUME NEW name \in DOMAIN registry, Goes(p, [To(p, "get") EXCEPT !.client = name]) PROVE Advances(p)
  <2>1. name \in Client
    BY DEF RegistryOK
  <2> QED
    BY <1>1, <1>2, <1>4, <2>1, ToOK
<1> QED
  BY <1>1, <1>3, <1>4

LEMMA GetOK ==
  ASSUME RegistryOK, NEW p \in Caller, CallOK(setup, p, calls[p]), Get(p)
  PROVE  Advances(p)
<1> DEFINE by == registry[calls[p].client]
<1>1. /\ calls[p].pc = "get"
      /\ \/ Goes(p, Fail(p, "select"))
         \/ calls[p].client \in DOMAIN registry /\ Goes(p, [To(p, "call") EXCEPT !.by = by])
  BY DEF Get, At
<1>2. "call" \in Steps /\ <<>> \in Client /\ "select" \in Code
  BY DEF Steps, Client, Code
<1>3. ASSUME Goes(p, Fail(p, "select")) PROVE Advances(p)
  BY <1>1, <1>2, <1>3, FailsOK
<1>4. ASSUME calls[p].client \in DOMAIN registry, Goes(p, [To(p, "call") EXCEPT !.by = by]) PROVE Advances(p)
  <2>1. by \in By
    BY <1>4 DEF RegistryOK
  <2> HIDE DEF by
  <2> QED
    BY <1>1, <1>2, <1>4, <2>1, ToOK
<1> QED
  BY <1>1, <1>3, <1>4

\* One more code.
LEMMA OneMore ==
  ASSUME NEW codes \in Seq(Code), NEW code \in Code, \A i \in 1 .. Len(codes) : codes[i] \in Passing
  PROVE  /\ Append(codes, code) \in Seq(Code) /\ Append(codes, code) # <<>> /\ Len(Append(codes, code)) = Len(codes) + 1
         /\ Append(codes, code)[Len(Append(codes, code))] = code
         /\ \A i \in 1 .. Len(Append(codes, code)) : i < Len(Append(codes, code)) => Append(codes, code)[i] \in Passing
         /\ code \in Passing => \A i \in 1 .. Len(Append(codes, code)) : Append(codes, code)[i] \in Passing
<1> DEFINE l == Append(codes, code)
<1> DEFINE n == Len(codes)
<1>1. n \in Nat /\ l \in Seq(Code) /\ Len(l) = n + 1 /\ l[n + 1] = code
  OBVIOUS
<1>2. \A i \in 1 .. n : l[i] = codes[i]
  OBVIOUS
<1> HIDE DEF l, n
<1>3. l # <<>>
  BY <1>1
<1>4. \A i \in 1 .. n + 1 : i < n + 1 => l[i] \in Passing
  BY <1>1, <1>2 DEF n
<1>5. code \in Passing => \A i \in 1 .. n + 1 : l[i] \in Passing
  BY <1>1, <1>4
<1> QED
  BY <1>1, <1>3, <1>4, <1>5 DEF l, n

LEMMA Appended ==
  ASSUME NEW A, NEW B, NEW C, NEW D, NEW E, NEW F, NEW G, NEW H, NEW I,
         NEW c \in [pc : A, n : B, hint : C, attempt : D, client : E, by : F, codes : G, content : H, out : I], NEW code
  PROVE  /\ [c EXCEPT !.codes = Append(@, code)] = [c EXCEPT !.codes = Append(c.codes, code)]
         /\ [c EXCEPT !.codes = Append(@, code)].codes = Append(c.codes, code)
OBVIOUS

\* A call that failed in a way that may pass waits for its next attempt.
LEMMA WaitsOK ==
  ASSUME NEW s, NEW p, NEW c, CallOK(s, p, c), c.pc = "call", NEW codes \in Seq(Code), Retries(s), Len(codes) = c.attempt + 1,
         c.attempt # MaxAttempts - 1, \A i \in 1 .. Len(codes) : codes[i] \in Passing,
         NEW d, Moved(c, d, "wait", c.attempt, c.client, c.by, codes, c.content, c.out)
  PROVE  CallOK(s, p, d)
<1>1. c \in CallType /\ Begun(s, p, c) /\ Keyed(s, p, c) /\ Counted(s, c)
  BY DEF CallOK
<1>2. /\ d \in CallType /\ d.pc = "wait" /\ d.n = c.n /\ d.hint = c.hint /\ d.attempt = c.attempt /\ d.codes = codes
      /\ d.content = c.content /\ d.out = c.out
  BY DEF Moved
<1>3. c.attempt \in 0 .. MaxAttempts - 1 /\ MaxAttempts \in Nat
  BY <1>1, CallFields, GatewayAssumption
<1>4. Begun(s, p, d)
  BY <1>1, <1>2 DEF Begun
<1>5. Keyed(s, p, d)
  BY <1>1, <1>2 DEF Keyed, Asked
<1>6. Counted(s, d)
  <2>1. d.attempt + 1 <= MaxAttempts - 1
    BY <1>2, <1>3
  <2> QED
    BY <1>2, <2>1 DEF Counted
<1> QED
  BY <1>2, <1>4, <1>5, <1>6 DEF CallOK

LEMMA CallStepOK ==
  ASSUME setup \in Setups, NEW p \in Caller, CallOK(setup, p, calls[p]), Call(p)
  PROVE  Advances(p)
<1> DEFINE c == calls[p]
<1>1. c \in CallType /\ c.pc = "call" /\ Counted(setup, c) /\ CallOK(setup, p, c)
  BY DEF Call, At, CallOK
<1>2. /\ c.attempt \in 0 .. MaxAttempts - 1 /\ c.client \in Client /\ c.by \in By /\ c.codes \in Seq(Code)
      /\ c.content \in Seq(Request) /\ c.out \in OutType /\ MaxAttempts \in Nat
  BY <1>1, CallFields, GatewayAssumption
<1>3. Len(c.codes) = c.attempt /\ (c.codes # <<>> => Retries(setup)) /\ \A i \in 1 .. Len(c.codes) : c.codes[i] \in Passing
  BY <1>1 DEF Counted
<1>4. "stream" \in Steps /\ "wait" \in Pcs /\ "idle" \in Pcs /\ <<>> \in Client /\ "" \in By /\ "provider" \in Code
  BY DEF Steps, Pcs, Client, By, Code
<1>5. ASSUME Goes(p, To(p, "stream")) PROVE Advances(p)
  BY <1>1, <1>4, <1>5, ToOK
<1>6. ASSUME NEW code \in Code, ~Has("retry"), Goes(p, Fail(p, code)) PROVE Advances(p)
  <2>1. c.codes = <<>>
    BY <1>3, <1>6 DEF Retries, Has, Layers, Agent
  <2> QED
    BY <1>1, <1>6, <2>1, FailsOK
<1>7. ASSUME NEW code \in Code, NEW told \in Code,
             Has("retry"), told = code \/ (told = "provider" /\ c.attempt = MaxAttempts - 1),
             Goes(p, [Fail(p, told) EXCEPT !.codes = [c EXCEPT !.codes = Append(@, code)].codes])
      PROVE  Advances(p)
  <2> DEFINE codes == Append(c.codes, code)
  <2> DEFINE d == [[c EXCEPT !.pc = "idle", !.out = Error(told)] EXCEPT !.codes = codes]
  <2>1. [c EXCEPT !.codes = Append(@, code)].codes = codes
    BY <1>1, Appended, Zenon DEF CallType
  <2>2. Goes(p, d)
    BY <1>7, <2>1 DEF Fail, Error
  <2>3. Retries(setup)
    BY <1>7 DEF Retries, Has, Layers, Agent
  <2>4. codes \in Seq(Code)
    BY <1>2, <1>3, OneMore
  <2> HIDE DEF c, codes
  <2>7. Error(told) \in OutType /\ ~Error(told).hit
    BY ErrorType
  <2>8. Moved(c, d, "idle", c.attempt, c.client, c.by, codes, c.content, Error(told))
    BY <1>1, <1>2, <1>4, <2>4, <2>7, CallMoves, Zenon
  <2> HIDE DEF d
  <2>9. CallOK(setup, p, d)
    BY <1>1, <2>3, <2>4, <2>8, FailOK
  <2>10. Fresh(c, d)
    BY <2>7, <2>8 DEF Moved, Fresh
  <2> QED
    BY <2>2, <2>9, <2>10 DEF Advances, c
<1>8. ASSUME NEW code \in Code, Has("retry"), isRetryable(code), c.attempt # MaxAttempts - 1,
             Goes(p, [[c EXCEPT !.codes = Append(@, code)] EXCEPT !.pc = "wait"])
      PROVE  Advances(p)
  <2> DEFINE codes == Append(c.codes, code)
  <2> DEFINE d == [[c EXCEPT !.codes = codes] EXCEPT !.pc = "wait"]
  <2>1. [c EXCEPT !.codes = Append(@, code)] = [c EXCEPT !.codes = codes]
    BY <1>1, Appended, Zenon DEF CallType
  <2>2. Goes(p, d)
    BY <1>8, <2>1
  <2>3. Retries(setup) /\ code \in Passing
    BY <1>8 DEF Retries, Has, Layers, Agent, isRetryable, Passing
  <2>4. /\ codes \in Seq(Code) /\ Len(codes) = c.attempt + 1
        /\ \A i \in 1 .. Len(codes) : codes[i] \in Passing
    BY <1>2, <1>3, <2>3, OneMore
  <2> HIDE DEF c, codes
  <2>5. Moved(c, d, "wait", c.attempt, c.client, c.by, codes, c.content, c.out)
    BY <1>1, <1>2, <1>4, <2>4, CallMoves, Zenon
  <2> HIDE DEF d
  <2>6. CallOK(setup, p, d)
    BY <1>1, <1>8, <2>3, <2>4, <2>5, WaitsOK
  <2>7. Fresh(c, d)
    BY <2>5 DEF Moved, Fresh
  <2> QED
    BY <2>2, <2>6, <2>7 DEF Advances, c
<1>9. ASSUME NEW cause, ~Goes(p, To(p, "stream")),
             LET code == Class(calls[p].by, cause) failed == [calls[p] EXCEPT !.codes = Append(@, code)]
             IN Goes(p, CASE ~Has("retry") -> Fail(p, code)
                          [] Has("retry") /\ ~isRetryable(code) -> [Fail(p, code) EXCEPT !.codes = failed.codes]
                          [] Has("retry") /\ isRetryable(code) /\ calls[p].attempt = MaxAttempts - 1 -> [Fail(p, "provider") EXCEPT !.codes = failed.codes]
                          [] OTHER -> [failed EXCEPT !.pc = "wait"])
      PROVE  Advances(p)
  <2> DEFINE code == Class(calls[p].by, cause)
  <2> DEFINE failed == [c EXCEPT !.codes = Append(@, code)]
  <2>1. code \in Code
    BY ClassType
  <2>2. \/ ~Has("retry") /\ Goes(p, Fail(p, code))
        \/ Has("retry") /\ Goes(p, [Fail(p, code) EXCEPT !.codes = failed.codes])
        \/ Has("retry") /\ c.attempt = MaxAttempts - 1 /\ Goes(p, [Fail(p, "provider") EXCEPT !.codes = failed.codes])
        \/ Has("retry") /\ isRetryable(code) /\ c.attempt # MaxAttempts - 1 /\ Goes(p, [failed EXCEPT !.pc = "wait"])
    <3> DEFINE x1 == Fail(p, code)
    <3> DEFINE x2 == [Fail(p, code) EXCEPT !.codes = failed.codes]
    <3> DEFINE x3 == [Fail(p, "provider") EXCEPT !.codes = failed.codes]
    <3> DEFINE x4 == [failed EXCEPT !.pc = "wait"]
    <3> DEFINE h == Has("retry")
    <3> DEFINE t == isRetryable(code)
    <3> DEFINE l == c.attempt = MaxAttempts - 1
    <3>1. Goes(p, CASE ~h -> x1 [] h /\ ~t -> x2 [] h /\ t /\ l -> x3 [] OTHER -> x4)
      BY <1>9
    <3> HIDE DEF x1, x2, x3, x4, h, t, l
    <3>2. (~h /\ Goes(p, x1)) \/ (h /\ Goes(p, x2)) \/ (h /\ l /\ Goes(p, x3)) \/ (h /\ t /\ ~l /\ Goes(p, x4))
      BY <3>1
    <3> QED
      BY <3>2, Zenon DEF x1, x2, x3, x4, h, t, l
  <2> HIDE DEF code
  <2>3. ASSUME ~Has("retry"), Goes(p, Fail(p, code)) PROVE Advances(p)
    BY <1>6, <2>1, <2>3
  <2>4. ASSUME Has("retry"), Goes(p, [Fail(p, code) EXCEPT !.codes = failed.codes]) PROVE Advances(p)
    BY <1>7, <2>1, <2>4
  <2>5. ASSUME Has("retry"), c.attempt = MaxAttempts - 1, Goes(p, [Fail(p, "provider") EXCEPT !.codes = failed.codes]) PROVE Advances(p)
    BY <1>4, <1>7, <2>1, <2>5
  <2>6. ASSUME Has("retry"), isRetryable(code), c.attempt # MaxAttempts - 1, Goes(p, [failed EXCEPT !.pc = "wait"]) PROVE Advances(p)
    BY <1>8, <2>1, <2>6
  <2> HIDE DEF failed
  <2> QED
    BY <2>2, <2>3, <2>4, <2>5, <2>6
<1>10. Goes(p, To(p, "stream")) \/ ~Goes(p, To(p, "stream"))
  OBVIOUS
<1> HIDE DEF c
<1> QED
  BY <1>5, <1>9, <1>10, Zenon DEF Call

LEMMA WaitOK ==
  ASSUME NEW p \in Caller, CallOK(setup, p, calls[p]), Wait(p)
  PROVE  Advances(p)
<1> DEFINE c == calls[p]
<1>1. /\ c \in CallType /\ c.pc = "wait" /\ CallOK(setup, p, c)
      /\ Begun(setup, p, c) /\ Keyed(setup, p, c) /\ Counted(setup, c)
  BY DEF Wait, At, CallOK
<1>2. Goes(p, [To(p, "attempt") EXCEPT !.attempt = @ + 1]) \/ Goes(p, Fail(p, "cancelled"))
  BY Zenon DEF Wait
<1>3. "attempt" \in Pcs /\ "cancelled" \in Code
  BY DEF Pcs, Code
<1>4. ASSUME Goes(p, Fail(p, "cancelled")) PROVE Advances(p)
  BY <1>1, <1>3, <1>4, FailsOK
<1>5. ASSUME Goes(p, [To(p, "attempt") EXCEPT !.attempt = @ + 1]) PROVE Advances(p)
  <2> DEFINE d == [[c EXCEPT !.pc = "attempt"] EXCEPT !.attempt = @ + 1]
  <2> DEFINE attempt == c.attempt + 1
  <2>1. Goes(p, d)
    BY <1>5 DEF To
  <2> HIDE DEF c
  <2>2. /\ c.attempt \in 0 .. MaxAttempts - 1 /\ c.client \in Client /\ c.by \in By /\ c.codes \in Seq(Code)
        /\ c.content \in Seq(Request) /\ c.out \in OutType /\ MaxAttempts \in Nat
    BY <1>1, CallFields, GatewayAssumption
  <2>3. attempt \in 0 .. MaxAttempts - 1 /\ attempt = c.attempt + 1
    BY <1>1, <2>2 DEF Counted
  <2> HIDE DEF attempt
  <2>4. Moved(c, d, "attempt", attempt, c.client, c.by, c.codes, c.content, c.out)
    BY <1>1, <1>3, <2>2, <2>3, CallMoves, Zenon
  <2> HIDE DEF d
  <2>5. /\ d \in CallType /\ d.pc = "attempt" /\ d.n = c.n /\ d.hint = c.hint /\ d.attempt = attempt /\ d.codes = c.codes
        /\ d.content = c.content /\ d.out = c.out
    BY <2>4 DEF Moved
  <2>6. Begun(setup, p, d)
    BY <1>1, <2>5 DEF Begun
  <2>7. Keyed(setup, p, d)
    BY <1>1, <2>5 DEF Keyed, Asked
  <2>8. Counted(setup, d)
    BY <1>1, <2>3, <2>5 DEF Counted
  <2>10. CallOK(setup, p, d) /\ Fresh(c, d)
    BY <2>5, <2>6, <2>7, <2>8 DEF CallOK, Fresh
  <2> QED
    BY <2>1, <2>10 DEF Advances, c
<1> QED
  BY <1>2, <1>4, <1>5

LEMMA CollectedOK ==
  ASSUME setup \in Setups, now \in Nat, NEW p \in Caller, CallOK(setup, p, calls[p]), Collected(p)
  PROVE  Advances(p)
<1>1. /\ calls[p].pc = "stream"
      /\ \/ Goes(p, To(p, "put")) \/ Goes(p, Answer(p, Req(p), now, FALSE))
         \/ (\E cause : Goes(p, Fail(p, InStream(calls[p].by, cause)))) \/ Goes(p, Fail(p, "cancelled"))
  BY Zenon DEF Collected, At
<1>2. calls[p].n >= 1
  BY <1>1 DEF CallOK, Begun
<1>3. Req(p) \in Request /\ FALSE \in BOOLEAN
  BY <1>2, UnderWay
<1>4. "put" \in Steps /\ <<>> \in Client /\ "" \in By /\ "cancelled" \in Code
  BY DEF Steps, Client, By, Code
<1>5. ASSUME Goes(p, To(p, "put")) PROVE Advances(p)
  BY <1>1, <1>4, <1>5, ToOK
<1>6. ASSUME Goes(p, Answer(p, Req(p), now, FALSE)) PROVE Advances(p)
  BY <1>1, <1>3, <1>6, AnswerOK
<1>7. ASSUME NEW code \in Code, Goes(p, Fail(p, code)) PROVE Advances(p)
  BY <1>1, <1>7, FailsOK
<1>8. ASSUME Goes(p, Fail(p, "cancelled")) PROVE Advances(p)
  BY <1>1, <1>4, <1>8, FailsOK
<1> QED
  BY <1>1, <1>5, <1>6, <1>7, <1>8, ClassType, Zenon

(***************************************************************************)
(* The shard of the response cache: a list without repetitions, the keys   *)
(* used last first.                                                        *)
(***************************************************************************)
\* One more than a bounded set of numbers has.
LEMMA MaxIsAbove ==
  ASSUME NEW S, S \subseteq Nat, 0 \in S, NEW m \in Nat, \A x \in S : x <= m
  PROVE  Max(S) \in Nat /\ \A x \in S : x <= Max(S)
<1> DEFINE R == {x + 1 : x \in S}
<1>1. R \subseteq 1 .. m + 1 /\ R # {}
  <2>1. \A x \in S : x + 1 \in 1 .. m + 1
    OBVIOUS
  <2> QED
    BY <2>1
<1>2. m + 1 \in Nat
  OBVIOUS
<1>3. PICK r \in R : \A q \in R : q <= r
  <2> HIDE DEF R
  <2> QED
    BY <1>1, <1>2, Greatest
<1>4. PICK g \in S : r = g + 1
  OBVIOUS
<1>5. \A x \in S : x <= g
  <2> TAKE x \in S
  <2>1. x + 1 \in R
    OBVIOUS
  <2>2. x + 1 <= g + 1 /\ x \in Nat /\ g \in Nat
    BY <1>3, <1>4, <2>1
  <2> QED
    BY <2>2
<1>6. \E x \in S : \A y \in S : x >= y
  BY <1>5
<1>7. Max(S) \in S /\ \A y \in S : Max(S) >= y
  BY <1>6 DEF Max
<1> QED
  BY <1>7

NoTwice(s) == \A i, j \in 1 .. Len(s) : s[i] = s[j] => i = j
LEMMA DomainOf ==
  ASSUME NEW T, NEW s \in Seq(T)
  PROVE  DOMAIN s = 1 .. Len(s) /\ ToSet(s) = {s[i] : i \in 1 .. Len(s)} /\ Len(s) \in Nat /\ \A i \in 1 .. Len(s) : s[i] \in T
BY DEF ToSet

\* What is left of a list from which k was taken: the others, in their order.
LEMMA Removed ==
  ASSUME NEW T, NEW s \in Seq(T), NoTwice(s), NEW k
  PROVE  /\ remove(s, k) \in Seq(T)
         /\ k \notin ToSet(s) => remove(s, k) = s
         /\ k \in ToSet(s) => Len(remove(s, k)) = Len(s) - 1
         /\ ToSet(remove(s, k)) = ToSet(s) \ {k}
         /\ \A a, b \in 1 .. Len(remove(s, k)) : a < b =>
              \E c, d \in 1 .. Len(s) : c < d /\ remove(s, k)[a] = s[c] /\ remove(s, k)[b] = s[d]
<1> DEFINE r == remove(s, k)
<1> DEFINE n == Len(s)
<1>1. DOMAIN s = 1 .. n /\ ToSet(s) = {s[i] : i \in 1 .. n} /\ n \in Nat /\ \A i \in 1 .. n : s[i] \in T
  BY DomainOf
<1>2. CASE k \notin ToSet(s)
  <2>1. r = s
    BY <1>2 DEF remove
  <2> QED
    BY <1>1, <1>2, <2>1
<1>3. CASE k \in ToSet(s)
  <2> DEFINE i == CHOOSE x \in DOMAIN s : s[x] = k
  <2>1. i \in 1 .. n /\ s[i] = k
    <3>1. \E x \in DOMAIN s : s[x] = k
      BY <1>1, <1>3
    <3>2. i \in DOMAIN s /\ s[i] = k
      BY <3>1
    <3> QED
      BY <1>1, <3>2
  <2>2. r = SubSeq(s, 1, i - 1) \o SubSeq(s, i + 1, n)
    BY <1>3 DEF remove, RemoveAt
  <2> HIDE DEF i, r
  <2> DEFINE u == SubSeq(s, 1, i - 1)
  <2> DEFINE v == SubSeq(s, i + 1, n)
  <2>3. u \in Seq(T) /\ Len(u) = i - 1 /\ \A x \in 1 .. i - 1 : u[x] = s[x]
    BY <1>1, <2>1
  <2>4. v \in Seq(T) /\ Len(v) = n - i /\ \A x \in 1 .. n - i : v[x] = s[i + x]
    <3> HIDE DEF n
    <3>1. i + 1 \in Int /\ n \in Int /\ \A x \in i + 1 .. n : s[x] \in T
      BY <1>1, <2>1
    <3>2. /\ v \in Seq(T) /\ Len(v) = IF i + 1 <= n THEN n - (i + 1) + 1 ELSE 0
          /\ \A x \in 1 .. n - (i + 1) + 1 : v[x] = s[(i + 1) + x - 1]
      BY <3>1, SubSeqProperties
    <3> HIDE DEF v
    <3>3. Len(v) = n - i
      BY <1>1, <2>1, <3>2
    <3>4. \A x \in 1 .. n - i : v[x] = s[i + x]
      <4> TAKE x \in 1 .. n - i
      <4>1. x \in 1 .. n - (i + 1) + 1 /\ (i + 1) + x - 1 = i + x
        BY <1>1, <2>1
      <4> QED
        BY <3>2, <4>1
    <3> QED
      BY <3>2, <3>3, <3>4
  <2> HIDE DEF u, v, n
  <2>5. /\ u \o v \in Seq(T) /\ Len(u \o v) = n - 1
        /\ \A x \in 1 .. n - 1 : (u \o v)[x] = IF x <= i - 1 THEN u[x] ELSE v[x - (i - 1)]
    <3>1. /\ u \o v \in Seq(T) /\ Len(u \o v) = Len(u) + Len(v)
          /\ \A x \in 1 .. Len(u) + Len(v) : (u \o v)[x] = IF x <= Len(u) THEN u[x] ELSE v[x - Len(u)]
      BY <2>3, <2>4, ConcatProperties
    <3>2. Len(u) + Len(v) = n - 1
      BY <1>1, <2>1, <2>3, <2>4
    <3> QED
      BY <2>3, <3>1, <3>2
  <2>6. r \in Seq(T) /\ Len(r) = n - 1
    BY <2>2, <2>5 DEF u, v
  <2>7. \A x \in 1 .. n - 1 : r[x] = IF x < i THEN s[x] ELSE s[x + 1]
    <3> TAKE x \in 1 .. n - 1
    <3>1. r[x] = IF x <= i - 1 THEN u[x] ELSE v[x - (i - 1)]
      BY <2>2, <2>5 DEF u, v
    <3> HIDE DEF r
    <3>2. CASE x < i
      <4>1. x <= i - 1 /\ x \in 1 .. i - 1
        BY <1>1, <2>1, <3>2
      <4> QED
        BY <2>3, <3>1, <3>2, <4>1
    <3>3. CASE x >= i
      <4>1. ~(x <= i - 1) /\ x - (i - 1) \in 1 .. n - i /\ i + (x - (i - 1)) = x + 1
        BY <1>1, <2>1, <3>3
      <4>2. r[x] = s[x + 1]
        BY <2>4, <3>1, <4>1
      <4> QED
        BY <2>1, <3>3, <4>2
    <3> QED
      BY <1>1, <2>1, <3>2, <3>3
  <2> HIDE DEF r, n
  <2>8. \A x \in 1 .. n - 1 : \E y \in 1 .. n : y # i /\ r[x] = s[y]
    BY <1>1, <2>1, <2>7
  <2>9. \A y \in 1 .. n : y # i => \E x \in 1 .. n - 1 : r[x] = s[y]
    <3> TAKE y \in 1 .. n
    <3>1. CASE y < i
      <4>1. y \in 1 .. n - 1 /\ r[y] = s[y]
        BY <1>1, <2>1, <2>7, <3>1
      <4> QED
        BY <4>1
    <3>2. CASE y > i
      <4>1. y - 1 \in 1 .. n - 1 /\ ~(y - 1 < i) /\ (y - 1) + 1 = y
        BY <1>1, <2>1, <3>2
      <4>2. r[y - 1] = s[y]
        BY <2>7, <4>1
      <4> QED
        BY <4>1, <4>2
    <3> QED
      BY <2>1, <3>1, <3>2
  <2>10. ToSet(r) = {r[x] : x \in 1 .. n - 1}
    BY <2>6, DomainOf
  <2>11. ToSet(r) = ToSet(s) \ {k}
    <3>1. ASSUME NEW x \in ToSet(r) PROVE x \in ToSet(s) /\ x # k
      <4>1. PICK a \in 1 .. n - 1 : x = r[a]
        BY <2>10
      <4>2. PICK y \in 1 .. n : y # i /\ r[a] = s[y]
        BY <2>8
      <4>3. s[y] # s[i]
        BY <2>1, <4>2 DEF NoTwice, n
      <4> QED
        BY <1>1, <2>1, <4>1, <4>2, <4>3
    <3>2. ASSUME NEW x \in ToSet(s), x # k PROVE x \in ToSet(r)
      <4>1. PICK y \in 1 .. n : x = s[y]
        BY <1>1
      <4>2. y # i
        BY <2>1, <3>2, <4>1
      <4> QED
        BY <2>9, <2>10, <4>1, <4>2
    <3> QED
      BY <3>1, <3>2
  <2>12. ASSUME NEW a \in 1 .. n - 1, NEW b \in 1 .. n - 1, a < b
         PROVE  \E c, d \in 1 .. n : c < d /\ r[a] = s[c] /\ r[b] = s[d]
    <3> DEFINE c == IF a < i THEN a ELSE a + 1
    <3> DEFINE d == IF b < i THEN b ELSE b + 1
    <3>1. c \in 1 .. n /\ d \in 1 .. n /\ c < d
      BY <1>1, <2>1, <2>12
    <3>2. r[a] = s[c] /\ r[b] = s[d]
      BY <2>7
    <3> HIDE DEF c, d
    <3> QED
      BY <3>1, <3>2
  <2> QED
    BY <1>3, <2>6, <2>11, <2>12 DEF r, n
<1> QED
  BY <1>2, <1>3

Decreasing(s, u) == \A i, j \in 1 .. Len(s) : i < j => u[s[i]] > u[s[j]]

LEMMA CountList ==
  ASSUME NEW T, NEW s \in Seq(T), NoTwice(s)
  PROVE  Cardinality(ToSet(s)) = Len(s)
<1> DEFINE f == [i \in 1 .. Len(s) |-> s[i]]
<1>1. Len(s) \in Nat /\ ToSet(s) = {s[i] : i \in 1 .. Len(s)}
  BY DomainOf
<1>2. f \in [1 .. Len(s) -> ToSet(s)]
  BY <1>1
<1>3. \A x, y \in 1 .. Len(s) : f[x] = f[y] => x = y
  BY DEF NoTwice
<1>4. \A t \in ToSet(s) : \E x \in 1 .. Len(s) : f[x] = t
  BY <1>1
<1> HIDE DEF f
<1>5. f \in Bijection(1 .. Len(s), ToSet(s))
  BY <1>2, <1>3, <1>4, Fun_IsBij
<1> QED
  BY <1>1, <1>5, FS_CountingElements, Zenon DEF ExistsBijection

LEMMA ShardRoom == ShardMax \in Nat \ {0}
<1>1. MaxEntries \in Nat \ {0} /\ cacheShards = 64
  BY GatewayAssumption DEF cacheShards
<1>2. MaxEntries \div 64 \in Nat
  BY <1>1
<1> QED
  BY <1>1, <1>2 DEF ShardMax

\* Entries e, list l and uses u of a shard agree.
UsesOK(u) == u \in [DOMAIN u -> Nat] /\ \E m \in Nat : \A x \in DOMAIN u : u[x] <= m
ShardOK(e, l, u) == UsesOK(u) /\ l \in Seq(DOMAIN u) /\ Len(l) <= ShardMax /\ ToSet(l) = DOMAIN e /\ Decreasing(l, u)

LEMMA DecreasingNoTwice ==
  ASSUME NEW u, UsesOK(u), NEW s \in Seq(DOMAIN u), Decreasing(s, u)
  PROVE  NoTwice(s)
<1> SUFFICES ASSUME NEW i \in 1 .. Len(s), NEW j \in 1 .. Len(s), s[i] = s[j], i # j PROVE FALSE
  BY DEF NoTwice
<1>1. s[i] \in DOMAIN u /\ s[j] \in DOMAIN u /\ i \in Nat /\ j \in Nat
  BY DomainOf
<1>2. u[s[i]] \in Nat
  BY <1>1 DEF UsesOK
<1>3. i < j \/ j < i
  BY <1>1
<1>4. u[s[i]] > u[s[j]] \/ u[s[j]] > u[s[i]]
  BY <1>3 DEF Decreasing
<1> QED
  BY <1>2, <1>4

\* A key that is used comes to the front.
Later(u, k) == Put(u, k, 1 + Max({0} \cup {u[x] : x \in DOMAIN u}))
LEMMA Stamped ==
  ASSUME NEW u, UsesOK(u), NEW k
  PROVE  /\ DOMAIN Later(u, k) = DOMAIN u \cup {k} /\ UsesOK(Later(u, k))
         /\ \A x \in DOMAIN u : x # k => Later(u, k)[x] = u[x] /\ Later(u, k)[k] > u[x]
<1> DEFINE S == {0} \cup {u[x] : x \in DOMAIN u}
<1> DEFINE g == Max(S)
<1>1. S \subseteq Nat /\ 0 \in S /\ \E m \in Nat : \A x \in S : x <= m
  <2>1. \A x \in DOMAIN u : u[x] \in Nat
    BY DEF UsesOK
  <2>2. PICK m \in Nat : \A x \in DOMAIN u : u[x] <= m
    BY DEF UsesOK
  <2>3. \A x \in S : x <= m
    BY <2>1, <2>2
  <2> QED
    BY <2>1, <2>3
<1>2. g \in Nat /\ \A x \in S : x <= g
  <2> HIDE DEF S
  <2> QED
    BY <1>1, MaxIsAbove
<1>3. \A x \in DOMAIN u : u[x] \in Nat /\ u[x] <= g
  <2> TAKE x \in DOMAIN u
  <2>1. u[x] \in S
    OBVIOUS
  <2> HIDE DEF S
  <2> QED
    BY <1>1, <1>2, <2>1
<1> HIDE DEF g
<1> DEFINE v == [x \in DOMAIN u \cup {k} |-> IF x = k THEN 1 + g ELSE u[x]]
<1>4. Later(u, k) = v
  BY DEF Later, Put, g
<1>5. DOMAIN v = DOMAIN u \cup {k} /\ v[k] = 1 + g /\ \A x \in DOMAIN u : x # k => v[x] = u[x]
  OBVIOUS
<1>6. v \in [DOMAIN v -> Nat]
  BY <1>2, <1>3
<1> HIDE DEF v
<1>7. \A x \in DOMAIN v : v[x] <= 1 + g
  BY <1>2, <1>3, <1>5
<1>8. 1 + g \in Nat
  BY <1>2
<1>9. UsesOK(v)
  BY <1>6, <1>7, <1>8 DEF UsesOK
<1>10. \A x \in DOMAIN u : v[k] > u[x]
  BY <1>2, <1>3, <1>5
<1> QED
  BY <1>4, <1>5, <1>9, <1>10

LEMMA Fronted ==
  ASSUME NEW u, UsesOK(u), NEW l \in Seq(DOMAIN u), Decreasing(l, u), NEW k
  PROVE  /\ moveToFront(l, k) \in Seq(DOMAIN Later(u, k)) /\ Decreasing(moveToFront(l, k), Later(u, k))
         /\ ToSet(moveToFront(l, k)) = ToSet(l) \cup {k} /\ moveToFront(l, k)[1] = k
         /\ k \in ToSet(l) => Len(moveToFront(l, k)) = Len(l)
         /\ k \notin ToSet(l) => Len(moveToFront(l, k)) = Len(l) + 1 /\ \A i \in 1 .. Len(l) : moveToFront(l, k)[i + 1] = l[i]
<1> DEFINE r == remove(l, k)
<1> DEFINE w == Later(u, k)
<1> DEFINE T == DOMAIN u
<1>1. NoTwice(l)
  BY DecreasingNoTwice
<1>2. /\ r \in Seq(T)
      /\ k \notin ToSet(l) => r = l
      /\ k \in ToSet(l) => Len(r) = Len(l) - 1
      /\ ToSet(r) = ToSet(l) \ {k}
      /\ \A a, b \in 1 .. Len(r) : a < b => \E c, d \in 1 .. Len(l) : c < d /\ r[a] = l[c] /\ r[b] = l[d]
  BY <1>1, Removed
<1>3. DOMAIN w = T \cup {k} /\ \A x \in T : x # k => w[x] = u[x] /\ w[k] > u[x]
  BY Stamped
<1> DEFINE o == <<k>> \o r
<1>4. o = moveToFront(l, k)
  BY DEF moveToFront
<1> HIDE DEF r, w, T
<1>5. r \in Seq(T \cup {k}) /\ <<k>> \in Seq(T \cup {k})
  BY <1>2
<1>6. /\ o \in Seq(T \cup {k}) /\ Len(o) = 1 + Len(r) /\ o[1] = k /\ \A i \in 1 .. Len(r) : o[i + 1] = r[i]
  <2>1. /\ o \in Seq(T \cup {k}) /\ Len(o) = Len(<<k>>) + Len(r)
        /\ \A i \in 1 .. Len(<<k>>) + Len(r) : o[i] = IF i <= Len(<<k>>) THEN <<k>>[i] ELSE r[i - Len(<<k>>)]
    BY <1>5, ConcatProperties
  <2>2. Len(<<k>>) = 1 /\ <<k>>[1] = k /\ Len(r) \in Nat
    BY <1>2
  <2> HIDE DEF o
  <2>3. o[1] = k
    BY <2>1, <2>2
  <2>4. \A i \in 1 .. Len(r) : o[i + 1] = r[i]
    BY <2>1, <2>2
  <2> QED
    BY <2>1, <2>2, <2>3, <2>4
<1>7. /\ Len(r) \in Nat /\ ToSet(r) = {r[i] : i \in 1 .. Len(r)} /\ (\A i \in 1 .. Len(r) : r[i] \in T)
      /\ ToSet(o) = {o[i] : i \in 1 .. Len(o)} /\ Len(l) \in Nat
  <2> HIDE DEF o
  <2> QED
    BY <1>2, <1>6, DomainOf DEF T
<1> HIDE DEF o
<1>8. \A i \in 1 .. Len(o) : i = 1 \/ \E j \in 1 .. Len(r) : i = j + 1 /\ o[i] = r[j]
  <2> TAKE i \in 1 .. Len(o)
  <2>1. CASE i # 1
    <3>1. i - 1 \in 1 .. Len(r) /\ i = (i - 1) + 1
      BY <1>6, <1>7, <2>1
    <3>2. o[i] = r[i - 1]
      BY <1>6, <3>1
    <3> QED
      BY <3>1, <3>2
  <2> QED
    BY <2>1
<1>9. ToSet(o) = ToSet(l) \cup {k}
  <2>1. ASSUME NEW x \in ToSet(o) PROVE x = k \/ x \in ToSet(r)
    <3>1. PICK i \in 1 .. Len(o) : x = o[i]
      BY <1>7
    <3>2. CASE i = 1
      BY <1>6, <3>1, <3>2
    <3>3. CASE \E j \in 1 .. Len(r) : i = j + 1 /\ o[i] = r[j]
      BY <1>7, <3>1, <3>3
    <3> QED
      BY <1>8, <3>2, <3>3
  <2>2. ASSUME NEW x \in ToSet(r) PROVE x \in ToSet(o)
    <3>1. PICK i \in 1 .. Len(r) : x = r[i]
      BY <1>7
    <3>2. i + 1 \in 1 .. Len(o) /\ o[i + 1] = x
      BY <1>6, <1>7, <3>1
    <3> QED
      BY <1>7, <3>2
  <2>3. k \in ToSet(o)
    <3>1. 1 \in 1 .. Len(o)
      BY <1>6, <1>7
    <3> QED
      BY <1>6, <1>7, <3>1
  <2> QED
    BY <1>2, <2>1, <2>2, <2>3
<1>10. \A i \in 1 .. Len(r) : r[i] # k /\ w[r[i]] = u[r[i]] /\ w[k] > u[r[i]]
  <2> TAKE i \in 1 .. Len(r)
  <2>1. r[i] \in ToSet(r) /\ r[i] \in T
    BY <1>7
  <2> QED
    BY <1>2, <1>3, <2>1
<1>11. Decreasing(o, w)
  <2> SUFFICES ASSUME NEW a \in 1 .. Len(o), NEW b \in 1 .. Len(o), a < b PROVE w[o[a]] > w[o[b]]
    BY DEF Decreasing
  <2>1. PICK j \in 1 .. Len(r) : b = j + 1 /\ o[b] = r[j]
    <3>1. b # 1
      OBVIOUS
    <3> QED
      BY <1>8, <3>1
  <2>2. CASE a = 1
    BY <1>6, <1>10, <2>1, <2>2
  <2>3. CASE a # 1
    <3>1. PICK i \in 1 .. Len(r) : a = i + 1 /\ o[a] = r[i]
      BY <1>8, <2>3
    <3>2. i < j
      BY <2>1, <3>1
    <3>3. PICK c \in 1 .. Len(l), d \in 1 .. Len(l) : c < d /\ r[i] = l[c] /\ r[j] = l[d]
      BY <1>2, <3>2
    <3>4. u[l[c]] > u[l[d]]
      BY <3>3 DEF Decreasing
    <3> QED
      BY <1>10, <2>1, <3>1, <3>3, <3>4
  <2> QED
    BY <2>2, <2>3
<1>12. k \in ToSet(l) => Len(o) = Len(l)
  BY <1>2, <1>6, <1>7
<1>13. k \notin ToSet(l) => Len(o) = Len(l) + 1 /\ \A i \in 1 .. Len(l) : o[i + 1] = l[i]
  BY <1>2, <1>6, <1>7
<1> QED
  BY <1>3, <1>4, <1>6, <1>9, <1>11, <1>12, <1>13 DEF w

LEMMA EmptyShard == ShardOK(<<>>, <<>>, <<>>)
<1>1. ShardMax \in Nat
  BY ShardRoom
<1>2. UsesOK(<<>>)
  <2>1. <<>> \in [DOMAIN <<>> -> Nat] /\ DOMAIN <<>> = {}
    OBVIOUS
  <2>2. 0 \in Nat /\ \A x \in DOMAIN <<>> : <<>>[x] <= 0
    BY <2>1
  <2> QED
    BY <2>1, <2>2 DEF UsesOK
<1>3. <<>> \in Seq(DOMAIN <<>>) /\ Len(<<>>) = 0
  OBVIOUS
<1>4. ToSet(<<>>) = DOMAIN <<>> /\ Decreasing(<<>>, <<>>)
  BY DEF ToSet, Decreasing
<1> QED
  BY <1>1, <1>2, <1>3, <1>4 DEF ShardOK

\* A hit brings its entry to the front.
LEMMA HitShard ==
  ASSUME ShardOK(entries, list, used), EntriesOK, NEW p, Hit(p)
  PROVE  ShardOK(entries', list', used') /\ EntriesOK' /\ entries' = entries
<1> DEFINE k == defaultCacheKey(Req(p))
<1>1. k \in DOMAIN entries /\ get(k) /\ Stamp(k) /\ UNCHANGED entries
  BY Zenon DEF Hit
<1>2. list' = moveToFront(list, k) /\ used' = Later(used, k) /\ entries' = entries
  BY <1>1 DEF get, Stamp, Later
<1> HIDE DEF k
<1>3. UsesOK(used) /\ list \in Seq(DOMAIN used) /\ Len(list) <= ShardMax /\ ToSet(list) = DOMAIN entries /\ Decreasing(list, used)
  BY DEF ShardOK
<1>4. UsesOK(Later(used, k))
  BY <1>3, Stamped
<1>5. /\ moveToFront(list, k) \in Seq(DOMAIN Later(used, k)) /\ Decreasing(moveToFront(list, k), Later(used, k))
      /\ ToSet(moveToFront(list, k)) = ToSet(list) \cup {k} /\ Len(moveToFront(list, k)) = Len(list)
  BY <1>1, <1>3, Fronted
<1>6. ToSet(list') = DOMAIN entries'
  BY <1>1, <1>2, <1>3, <1>5
<1>7. ShardOK(entries', list', used')
  BY <1>2, <1>3, <1>4, <1>5, <1>6 DEF ShardOK
<1>8. EntriesOK'
  BY <1>2 DEF EntriesOK
<1> QED
  BY <1>2, <1>7, <1>8

\* A miss takes out an entry that is too old, if there is one.
LEMMA MissShard ==
  ASSUME ShardOK(entries, list, used), EntriesOK, NEW p, Miss(p)
  PROVE  /\ ShardOK(entries', list', used') /\ EntriesOK'
         /\ \A k \in DOMAIN entries \ DOMAIN entries' : TTL > 0 /\ now > entries[k].at + TTL
<1> DEFINE k == defaultCacheKey(Req(p))
<1>1. \/ entries' = entries /\ list' = list
      \/ k \in DOMAIN entries /\ expired(k) /\ entries' = Without(entries, k) /\ list' = remove(list, k)
  BY Zenon DEF Miss
<1>2. used' = used
  BY Zenon DEF Miss
<1> HIDE DEF k
<1>3. UsesOK(used) /\ list \in Seq(DOMAIN used) /\ Len(list) <= ShardMax /\ ToSet(list) = DOMAIN entries /\ Decreasing(list, used)
  BY DEF ShardOK
<1>4. CASE entries' = entries /\ list' = list
  <2>1. ShardOK(entries', list', used')
    BY <1>2, <1>4
  <2>2. EntriesOK'
    BY <1>4 DEF EntriesOK
  <2> QED
    BY <1>4, <2>1, <2>2
<1>5. CASE k \in DOMAIN entries /\ expired(k) /\ entries' = Without(entries, k) /\ list' = remove(list, k)
  <2> DEFINE r == remove(list, k)
  <2>1. NoTwice(list)
    BY <1>3, DecreasingNoTwice
  <2>2. /\ r \in Seq(DOMAIN used) /\ (k \in ToSet(list) => Len(r) = Len(list) - 1) /\ ToSet(r) = ToSet(list) \ {k}
        /\ \A a, b \in 1 .. Len(r) : a < b => \E c, d \in 1 .. Len(list) : c < d /\ r[a] = list[c] /\ r[b] = list[d]
    BY ONLY <1>3, <2>1, Removed
  <2> HIDE DEF r
  <2>3. DOMAIN Without(entries, k) = DOMAIN entries \ {k} /\ \A x \in DOMAIN entries \ {k} : Without(entries, k)[x] = entries[x]
    BY DEF Without
  <2>4. Decreasing(r, used)
    <3> SUFFICES ASSUME NEW a \in 1 .. Len(r), NEW b \in 1 .. Len(r), a < b PROVE used[r[a]] > used[r[b]]
      BY DEF Decreasing
    <3>1. PICK c \in 1 .. Len(list), d \in 1 .. Len(list) : c < d /\ r[a] = list[c] /\ r[b] = list[d]
      BY <2>2
    <3> QED
      BY <1>3, <3>1 DEF Decreasing
  <2>5. Len(r) <= ShardMax
    <3>1. Len(list) \in Nat
      BY <1>3, DomainOf
    <3> QED
      BY <1>3, <1>5, <2>2, <3>1, ShardRoom
  <2>6. ShardOK(Without(entries, k), r, used)
    BY <1>3, <2>2, <2>3, <2>4, <2>5 DEF ShardOK
  <2>7. ShardOK(entries', list', used')
    BY <1>2, <1>5, <2>6 DEF r
  <2>8. EntriesOK'
    BY <1>5, <2>3 DEF EntriesOK
  <2>9. TTL > 0 /\ now > entries[k].at + TTL
    BY <1>5 DEF EntriesOK, expired
  <2> QED
    BY <1>5, <2>3, <2>7, <2>8, <2>9
<1> QED
  BY <1>1, <1>4, <1>5

\* A response that is put drops the entry that was used longest ago, if there
\* is no room.
LEMMA putShard ==
  ASSUME ShardOK(entries, list, used), EntriesOK, NEW p, Req(p) \in Request, now \in Nat, put(p)
  PROVE  /\ ShardOK(entries', list', used') /\ EntriesOK'
         /\ \A k \in DOMAIN entries \ DOMAIN entries' :
              Cardinality(DOMAIN entries) = ShardMax /\ \A x \in DOMAIN entries : used[k] <= used[x]
<1> DEFINE k == defaultCacheKey(Req(p))
<1> DEFINE o == moveToFront(list, k)
<1> DEFINE m == IF Len(o) > ShardMax THEN ShardMax ELSE Len(o)
<1> DEFINE kept == SubSeq(o, 1, m)
<1> DEFINE stored == Put(entries, k, [req |-> Req(p), at |-> now, expires |-> now + TTL])
<1>1. list' = kept /\ entries' = [x \in ToSet(kept) |-> stored[x]] /\ Stamp(k)
  BY Zenon DEF put
<1>2. used' = Later(used, k)
  BY <1>1 DEF Stamp, Later
<1>3. UsesOK(used) /\ list \in Seq(DOMAIN used) /\ Len(list) <= ShardMax /\ ToSet(list) = DOMAIN entries /\ Decreasing(list, used)
  BY DEF ShardOK
<1> DEFINE w == Later(used, k)
<1>4. UsesOK(w) /\ DOMAIN w = DOMAIN used \cup {k}
  BY <1>3, Stamped
<1>5. /\ o \in Seq(DOMAIN w) /\ Decreasing(o, w) /\ ToSet(o) = ToSet(list) \cup {k} /\ o[1] = k
      /\ k \in ToSet(list) => Len(o) = Len(list)
      /\ k \notin ToSet(list) => Len(o) = Len(list) + 1 /\ \A i \in 1 .. Len(list) : o[i + 1] = list[i]
  BY <1>3, Fronted
<1>6. Len(list) \in Nat /\ Len(o) \in Nat /\ ShardMax \in Nat \ {0}
  BY <1>3, <1>5, DomainOf, ShardRoom
<1>7. stored[k] = [req |-> Req(p), at |-> now, expires |-> now + TTL] /\ \A x \in DOMAIN entries : x # k => stored[x] = entries[x]
  BY DEF Put
<1> HIDE DEF o, w, stored
<1>8. m \in Nat /\ m <= Len(o) /\ m <= ShardMax
  BY <1>6
<1>9. m < Len(o) => k \notin ToSet(list) /\ m = ShardMax /\ Len(list) = m
  BY <1>3, <1>5, <1>6
<1> HIDE DEF m
<1>10. /\ kept \in Seq(DOMAIN w) /\ Len(kept) = m /\ \A i \in 1 .. m : kept[i] = o[i]
  BY <1>5, <1>6, <1>8
<1> HIDE DEF kept
<1>11. Decreasing(kept, w)
  BY <1>5, <1>6, <1>8, <1>10 DEF Decreasing
<1>12. ToSet(kept) = {o[i] : i \in 1 .. m} /\ ToSet(o) = {o[i] : i \in 1 .. Len(o)} /\ ToSet(list) = {list[i] : i \in 1 .. Len(list)}
  <2>1. ToSet(kept) = {kept[i] : i \in 1 .. m}
    BY <1>10, DomainOf
  <2>2. ToSet(kept) = {o[i] : i \in 1 .. m}
    BY <1>10, <2>1
  <2> QED
    BY <1>3, <1>5, <2>2, DomainOf
<1>13. DOMAIN entries' = ToSet(kept) /\ \A x \in ToSet(kept) : entries'[x] = stored[x]
  BY <1>1
<1>14. ShardOK(entries', kept, w)
  BY <1>4, <1>8, <1>10, <1>11, <1>13 DEF ShardOK
<1>15. \A x \in ToSet(kept) : x = k \/ x \in DOMAIN entries
  <2> TAKE x \in ToSet(kept)
  <2>1. PICK i \in 1 .. m : x = o[i]
    BY <1>12
  <2>2. i \in 1 .. Len(o)
    BY <1>6, <1>8
  <2>3. x \in ToSet(o)
    BY <1>12, <2>1, <2>2
  <2> QED
    BY <1>3, <1>5, <2>3
<1>16. EntriesOK'
  <2> DEFINE e == entries'
  <2>1. ASSUME NEW x \in DOMAIN e
        PROVE  e[x].req \in Request /\ e[x].at \in Nat /\ e[x].expires = e[x].at + TTL
    <3>1. e[x] = stored[x] /\ x \in ToSet(kept)
      BY <1>13
    <3> HIDE DEF e
    <3>2. CASE x = k
      <4>1. e[x].req = Req(p) /\ e[x].at = now /\ e[x].expires = now + TTL
        BY <1>7, <3>1, <3>2
      <4> QED
        BY <3>2, <4>1
    <3>3. CASE x # k
      <4>1. e[x] = entries[x] /\ x \in DOMAIN entries
        BY <1>7, <1>15, <3>1, <3>3
      <4> QED
        BY <4>1 DEF EntriesOK
    <3> QED
      BY <3>2, <3>3
  <2> QED
    BY <2>1 DEF EntriesOK
<1>17. ASSUME NEW x \in DOMAIN entries \ DOMAIN entries'
       PROVE  Cardinality(DOMAIN entries) = ShardMax /\ \A y \in DOMAIN entries : used[x] <= used[y]
  <2>1. x \in ToSet(o) /\ x \notin ToSet(kept)
    BY <1>3, <1>5, <1>13
  <2>2. PICK i \in 1 .. Len(o) : x = o[i] /\ ~(i <= m)
    BY <1>6, <1>8, <1>12, <2>1
  <2>3. k \notin ToSet(list) /\ m = ShardMax /\ Len(list) = m
    BY <1>6, <1>8, <1>9, <2>2
  <2>4. i = Len(list) + 1 /\ Len(list) \in 1 .. Len(list)
    BY <1>5, <1>6, <2>2, <2>3
  <2>5. x = list[Len(list)]
    BY <1>5, <2>2, <2>3, <2>4
  <2>6. Cardinality(DOMAIN entries) = ShardMax
    <3>1. NoTwice(list)
      BY <1>3, DecreasingNoTwice
    <3>2. Cardinality(ToSet(list)) = Len(list)
      BY <1>3, <3>1, CountList
    <3> QED
      BY <1>3, <2>3, <3>2
  <2>7. ASSUME NEW y \in DOMAIN entries PROVE used[x] <= used[y]
    <3>1. PICK j \in 1 .. Len(list) : y = list[j]
      BY <1>3, <1>12
    <3>2. used[x] \in Nat /\ used[y] \in Nat
      <4>1. x \in DOMAIN used /\ y \in DOMAIN used
        BY <1>3, <2>4, <2>5, <3>1, DomainOf
      <4> QED
        BY <1>3, <4>1 DEF UsesOK
    <3>3. CASE j = Len(list)
      BY <2>5, <3>1, <3>2, <3>3
    <3>4. CASE j # Len(list)
      <4>1. j < Len(list)
        BY <1>6, <3>4
      <4>2. used[list[j]] > used[list[Len(list)]]
        BY <1>3, <2>4, <4>1 DEF Decreasing
      <4> QED
        BY <2>5, <3>1, <3>2, <4>2
    <3> QED
      BY <3>3, <3>4
  <2> QED
    BY <2>6, <2>7
<1> QED
  BY <1>1, <1>2, <1>14, <1>16, <1>17 DEF w

LEMMA ClearShard ==
  ASSUME ShardOK(entries, list, used), Clear
  PROVE  ShardOK(entries', list', used') /\ EntriesOK' /\ entries' = <<>> /\ calls' = calls
<1>1. entries' = <<>> /\ list' = <<>> /\ used' = <<>> /\ calls' = calls
  BY DEF Clear
<1>2. ShardOK(<<>>, <<>>, <<>>)
  BY EmptyShard
<1>3. EntriesOK'
  BY <1>1 DEF EntriesOK
<1> QED
  BY <1>1, <1>2, <1>3

(***************************************************************************)
(* The Host of the components.                                             *)
(***************************************************************************)
Starts == {"idle", "running", "ok", "failed"}
Closes == {"idle", "running", "done"}
Lates == BOOLEAN
Some(N) == SUBSET N
HostType(N) == [start : Starts, close : Closes, toStart : Some(N), toClose : Some(N), up : Some(N), late : Lates]

\* What Close has still to do reaches all that Start has done before it.
HostOK(N, h) ==
  /\ h \in HostType(N)
  /\ h.start = "running" /\ h.close = "idle" => h.up \cup h.toStart = N
  /\ h.start = "ok" /\ h.close = "idle" => h.up = N
  /\ h.close = "idle" => h.late = FALSE
  /\ h.late = TRUE => h.start \in {"ok", "failed"} /\ h.up \subseteq h.toClose
  /\ h.late = TRUE /\ h.close = "done" => h.up = {}

LEMMA HostFields ==
  ASSUME NEW N, NEW h \in HostType(N)
  PROVE  /\ h.start \in Starts /\ h.close \in Closes
         /\ h.toStart \in Some(N) /\ h.toClose \in Some(N) /\ h.up \in Some(N) /\ h.late \in Lates
BY DEF HostType

\* Where the host is after a step, and after each kind of write.
HostIs(N, g, start, close, toStart, toClose, up, late) ==
  /\ g \in HostType(N) /\ g.start = start /\ g.close = close /\ g.toStart = toStart
  /\ g.toClose = toClose /\ g.up = up /\ g.late = late

LEMMA HostStart ==
  ASSUME NEW N, NEW h \in HostType(N), NEW start \in Starts
  PROVE  HostIs(N, [h EXCEPT !.start = start], start, h.close, h.toStart, h.toClose, h.up, h.late)
<1>1. ASSUME NEW A, NEW B, NEW C, NEW D, NEW E, NEW F, NEW k \in [start : A, close : B, toStart : C, toClose : D, up : E, late : F],
             NEW a \in A
      PROVE  /\ [k EXCEPT !.start = a] \in [start : A, close : B, toStart : C, toClose : D, up : E, late : F]
             /\ [k EXCEPT !.start = a].start = a /\ [k EXCEPT !.start = a].close = k.close
             /\ [k EXCEPT !.start = a].toStart = k.toStart /\ [k EXCEPT !.start = a].toClose = k.toClose
             /\ [k EXCEPT !.start = a].up = k.up /\ [k EXCEPT !.start = a].late = k.late
  OBVIOUS
<1> QED
  BY <1>1, Zenon DEF HostIs, HostType

LEMMA HostClose ==
  ASSUME NEW N, NEW h \in HostType(N), NEW close \in Closes
  PROVE  HostIs(N, [h EXCEPT !.close = close], h.start, close, h.toStart, h.toClose, h.up, h.late)
<1>1. ASSUME NEW A, NEW B, NEW C, NEW D, NEW E, NEW F, NEW k \in [start : A, close : B, toStart : C, toClose : D, up : E, late : F],
             NEW b \in B
      PROVE  /\ [k EXCEPT !.close = b] \in [start : A, close : B, toStart : C, toClose : D, up : E, late : F]
             /\ [k EXCEPT !.close = b].start = k.start /\ [k EXCEPT !.close = b].close = b
             /\ [k EXCEPT !.close = b].toStart = k.toStart /\ [k EXCEPT !.close = b].toClose = k.toClose
             /\ [k EXCEPT !.close = b].up = k.up /\ [k EXCEPT !.close = b].late = k.late
  OBVIOUS
<1> QED
  BY <1>1, Zenon DEF HostIs, HostType

LEMMA HostStartAll ==
  ASSUME NEW N, NEW h \in HostType(N), NEW start \in Starts, NEW toStart \in Some(N)
  PROVE  HostIs(N, [h EXCEPT !.start = start, !.toStart = toStart], start, h.close, toStart, h.toClose, h.up, h.late)
<1>1. ASSUME NEW A, NEW B, NEW C, NEW D, NEW E, NEW F, NEW k \in [start : A, close : B, toStart : C, toClose : D, up : E, late : F],
             NEW a \in A, NEW c \in C
      PROVE  /\ [k EXCEPT !.start = a, !.toStart = c] \in [start : A, close : B, toStart : C, toClose : D, up : E, late : F]
             /\ [k EXCEPT !.start = a, !.toStart = c].start = a /\ [k EXCEPT !.start = a, !.toStart = c].close = k.close
             /\ [k EXCEPT !.start = a, !.toStart = c].toStart = c /\ [k EXCEPT !.start = a, !.toStart = c].toClose = k.toClose
             /\ [k EXCEPT !.start = a, !.toStart = c].up = k.up /\ [k EXCEPT !.start = a, !.toStart = c].late = k.late
  OBVIOUS
<1> QED
  BY <1>1, Zenon DEF HostIs, HostType

LEMMA HostCloseAll ==
  ASSUME NEW N, NEW h \in HostType(N), NEW close \in Closes, NEW toClose \in Some(N), NEW late \in Lates
  PROVE  HostIs(N, [h EXCEPT !.close = close, !.toClose = toClose, !.late = late], h.start, close, h.toStart, toClose, h.up, late)
<1>1. ASSUME NEW A, NEW B, NEW C, NEW D, NEW E, NEW F, NEW k \in [start : A, close : B, toStart : C, toClose : D, up : E, late : F],
             NEW b \in B, NEW d \in D, NEW f \in F
      PROVE  /\ [k EXCEPT !.close = b, !.toClose = d, !.late = f] \in [start : A, close : B, toStart : C, toClose : D, up : E, late : F]
             /\ [k EXCEPT !.close = b, !.toClose = d, !.late = f].start = k.start /\ [k EXCEPT !.close = b, !.toClose = d, !.late = f].close = b
             /\ [k EXCEPT !.close = b, !.toClose = d, !.late = f].toStart = k.toStart /\ [k EXCEPT !.close = b, !.toClose = d, !.late = f].toClose = d
             /\ [k EXCEPT !.close = b, !.toClose = d, !.late = f].up = k.up /\ [k EXCEPT !.close = b, !.toClose = d, !.late = f].late = f
  OBVIOUS
<1> QED
  BY <1>1, Zenon DEF HostIs, HostType

LEMMA HostStartOne ==
  ASSUME NEW N, NEW h \in HostType(N), NEW toStart \in Some(N), NEW up \in Some(N)
  PROVE  HostIs(N, [h EXCEPT !.toStart = toStart, !.up = up], h.start, h.close, toStart, h.toClose, up, h.late)
<1>1. ASSUME NEW A, NEW B, NEW C, NEW D, NEW E, NEW F, NEW k \in [start : A, close : B, toStart : C, toClose : D, up : E, late : F],
             NEW c \in C, NEW e \in E
      PROVE  /\ [k EXCEPT !.toStart = c, !.up = e] \in [start : A, close : B, toStart : C, toClose : D, up : E, late : F]
             /\ [k EXCEPT !.toStart = c, !.up = e].start = k.start /\ [k EXCEPT !.toStart = c, !.up = e].close = k.close
             /\ [k EXCEPT !.toStart = c, !.up = e].toStart = c /\ [k EXCEPT !.toStart = c, !.up = e].toClose = k.toClose
             /\ [k EXCEPT !.toStart = c, !.up = e].up = e /\ [k EXCEPT !.toStart = c, !.up = e].late = k.late
  OBVIOUS
<1> QED
  BY <1>1, Zenon DEF HostIs, HostType

LEMMA HostCloseOne ==
  ASSUME NEW N, NEW h \in HostType(N), NEW toClose \in Some(N), NEW up \in Some(N)
  PROVE  HostIs(N, [h EXCEPT !.toClose = toClose, !.up = up], h.start, h.close, h.toStart, toClose, up, h.late)
<1>1. ASSUME NEW A, NEW B, NEW C, NEW D, NEW E, NEW F, NEW k \in [start : A, close : B, toStart : C, toClose : D, up : E, late : F],
             NEW d \in D, NEW e \in E
      PROVE  /\ [k EXCEPT !.toClose = d, !.up = e] \in [start : A, close : B, toStart : C, toClose : D, up : E, late : F]
             /\ [k EXCEPT !.toClose = d, !.up = e].start = k.start /\ [k EXCEPT !.toClose = d, !.up = e].close = k.close
             /\ [k EXCEPT !.toClose = d, !.up = e].toStart = k.toStart /\ [k EXCEPT !.toClose = d, !.up = e].toClose = d
             /\ [k EXCEPT !.toClose = d, !.up = e].up = e /\ [k EXCEPT !.toClose = d, !.up = e].late = k.late
  OBVIOUS
<1> QED
  BY <1>1, Zenon DEF HostIs, HostType

LEMMA HostSteps ==
  ASSUME NEW N, NEW h, HostOK(N, h), NEW g,
         \/ h.start = "idle" /\ g = [h EXCEPT !.start = "running", !.toStart = N]
         \/ h.close = "idle" /\ g = [h EXCEPT !.close = "running", !.toClose = N, !.late = h.start \in {"ok", "failed"}]
         \/ h.start = "running" /\ \E c \in h.toStart : g = [h EXCEPT !.toStart = @ \ {c}, !.up = @ \cup {c}]
         \/ h.start = "running" /\ g = [h EXCEPT !.start = "failed", !.toStart = {}]
         \/ h.start = "running" /\ h.toStart = {} /\ g = [h EXCEPT !.start = "ok"]
         \/ h.close = "running" /\ \E c \in h.toClose : g = [h EXCEPT !.toClose = @ \ {c}, !.up = @ \ {c}]
         \/ h.close = "running" /\ h.toClose = {} /\ g = [h EXCEPT !.close = "done"]
  PROVE  HostOK(N, g)
<1>1. /\ h \in HostType(N)
      /\ h.start \in Starts /\ h.close \in Closes
      /\ h.toStart \in Some(N) /\ h.toClose \in Some(N) /\ h.up \in Some(N) /\ h.late \in Lates
  BY HostFields DEF HostOK
<1>2. /\ "running" \in Starts /\ "ok" \in Starts /\ "failed" \in Starts /\ "running" \in Closes /\ "done" \in Closes
      /\ {} \in Some(N) /\ N \in Some(N)
  BY DEF Starts, Closes, Some, Lates
<1>3. /\ h.up \subseteq N /\ h.toStart \subseteq N /\ h.toClose \subseteq N
      /\ h.start = "running" /\ h.close = "idle" => h.up \cup h.toStart = N
      /\ h.start = "ok" /\ h.close = "idle" => h.up = N
      /\ h.close = "idle" => h.late = FALSE
      /\ h.late = TRUE => h.start \in {"ok", "failed"} /\ h.up \subseteq h.toClose
      /\ h.late = TRUE /\ h.close = "done" => h.up = {}
  BY <1>1 DEF HostOK, Some
<1>5. ASSUME h.start = "idle", g = [h EXCEPT !.start = "running", !.toStart = N] PROVE HostOK(N, g)
  <2>1. HostIs(N, g, "running", h.close, N, h.toClose, h.up, h.late)
    BY <1>1, <1>2, <1>5, HostStartAll, Zenon
  <2> QED
    BY <1>3, <1>5, <2>1 DEF HostOK, HostIs
<1>6. ASSUME h.close = "idle", g = [h EXCEPT !.close = "running", !.toClose = N, !.late = h.start \in {"ok", "failed"}] PROVE HostOK(N, g)
  <2> DEFINE tardy == h.start \in {"ok", "failed"}
  <2>1. tardy \in Lates
    <3>1. tardy \in BOOLEAN
      BY ONLY TRUE
    <3> QED
      BY ONLY <3>1 DEF Lates
  <2>5. tardy = TRUE => h.start \in {"ok", "failed"}
    BY ONLY TRUE
  <2>2. g = [h EXCEPT !.close = "running", !.toClose = N, !.late = tardy]
    BY <1>6, Zenon
  <2> HIDE DEF tardy
  <2>3. HostIs(N, [h EXCEPT !.close = "running", !.toClose = N, !.late = tardy], h.start, "running", h.toStart, N, h.up, tardy)
    BY ONLY <1>1, <1>2, <2>1, HostCloseAll, Zenon
  <2>4. HostIs(N, g, h.start, "running", h.toStart, N, h.up, tardy)
    BY ONLY <2>2, <2>3, Zenon
  <2> QED
    BY <1>3, <1>6, <2>5, <2>4 DEF HostOK, HostIs
<1>7. ASSUME h.start = "running", NEW c \in h.toStart, g = [h EXCEPT !.toStart = @ \ {c}, !.up = @ \cup {c}] PROVE HostOK(N, g)
  <2> DEFINE waiting == h.toStart \ {c}
  <2> DEFINE running == h.up \cup {c}
  <2>1. waiting \in Some(N) /\ running \in Some(N) /\ running \cup waiting = h.up \cup h.toStart
    BY <1>3 DEF Some
  <2>2. g = [h EXCEPT !.toStart = waiting, !.up = running]
    BY <1>7, Zenon
  <2> HIDE DEF waiting, running
  <2>3. HostIs(N, g, h.start, h.close, waiting, h.toClose, running, h.late)
    BY <1>1, <2>1, <2>2, HostStartOne, Zenon
  <2> QED
    BY <1>3, <1>7, <2>1, <2>3 DEF HostOK, HostIs
<1>8. ASSUME h.start = "running", g = [h EXCEPT !.start = "failed", !.toStart = {}] PROVE HostOK(N, g)
  <2>1. HostIs(N, g, "failed", h.close, {}, h.toClose, h.up, h.late)
    BY <1>1, <1>2, <1>8, HostStartAll, Zenon
  <2> QED
    BY <1>3, <1>8, <2>1 DEF HostOK, HostIs
<1>9. ASSUME h.start = "running", h.toStart = {}, g = [h EXCEPT !.start = "ok"] PROVE HostOK(N, g)
  <2>1. HostIs(N, g, "ok", h.close, h.toStart, h.toClose, h.up, h.late)
    BY <1>1, <1>2, <1>9, HostStart, Zenon
  <2> QED
    BY <1>3, <1>9, <2>1 DEF HostOK, HostIs
<1>10. ASSUME h.close = "running", NEW c \in h.toClose, g = [h EXCEPT !.toClose = @ \ {c}, !.up = @ \ {c}] PROVE HostOK(N, g)
  <2> DEFINE waiting == h.toClose \ {c}
  <2> DEFINE running == h.up \ {c}
  <2>1. waiting \in Some(N) /\ running \in Some(N) /\ (h.up \subseteq h.toClose => running \subseteq waiting)
    BY <1>3 DEF Some
  <2>2. g = [h EXCEPT !.toClose = waiting, !.up = running]
    BY <1>10, Zenon
  <2> HIDE DEF waiting, running
  <2>3. HostIs(N, g, h.start, h.close, h.toStart, waiting, running, h.late)
    BY <1>1, <2>1, <2>2, HostCloseOne, Zenon
  <2> QED
    BY <1>3, <1>10, <2>1, <2>3 DEF HostOK, HostIs
<1>11. ASSUME h.close = "running", h.toClose = {}, g = [h EXCEPT !.close = "done"] PROVE HostOK(N, g)
  <2>1. HostIs(N, g, h.start, "done", h.toStart, h.toClose, h.up, h.late)
    BY <1>1, <1>2, <1>11, HostClose, Zenon
  <2> QED
    BY <1>3, <1>11, <2>1 DEF HostOK, HostIs
<1> QED
  BY <1>5, <1>6, <1>7, <1>8, <1>9, <1>10, <1>11

LEMMA LifecycleOK ==
  ASSUME HostOK(Agent.names, host), Lifecycle
  PROVE  HostOK(Agent.names, host')
<1>1. \/ host.start = "idle" /\ host' = [host EXCEPT !.start = "running", !.toStart = Agent.names]
      \/ host.close = "idle" /\ host' = [host EXCEPT !.close = "running", !.toClose = Agent.names, !.late = host.start \in {"ok", "failed"}]
      \/ host.start = "running" /\ \E c \in host.toStart : host' = [host EXCEPT !.toStart = @ \ {c}, !.up = @ \cup {c}]
      \/ host.start = "running" /\ host' = [host EXCEPT !.start = "failed", !.toStart = {}]
      \/ host.start = "running" /\ host.toStart = {} /\ host' = [host EXCEPT !.start = "ok"]
      \/ host.close = "running" /\ \E c \in host.toClose : host' = [host EXCEPT !.toClose = @ \ {c}, !.up = @ \ {c}]
      \/ host.close = "running" /\ host.toClose = {} /\ host' = [host EXCEPT !.close = "done"]
  BY Zenon DEF Lifecycle, Begins, StartsOne, ClosesOne, Remaining
<1> QED
  BY <1>1, HostSteps, Zenon

(***************************************************************************)
(* The inductive invariant.                                                *)
(***************************************************************************)
CallsOK == calls \in [Caller -> CallType] /\ \A p \in Caller : CallOK(setup, p, calls[p])
Spared == {"budget", "cache"}
GivenOK == given \in [Caller -> SUBSET Spared]
BoundsOK == cancelled \subseteq Caller /\ now \in 0 .. MaxTime /\ changes \in Nat
CacheOK == EntriesOK /\ ShardOK(entries, list, used)
HostFine == HostOK(Agent.names, host)

IInv == setup \in Setups /\ CallsOK /\ GivenOK /\ EngineOK /\ RegistryOK /\ CacheOK /\ HostFine /\ BoundsOK

\* What a step does to entries and answers.
Kept == entries' = entries
Young == \A p \in Caller : Fresh(calls[p], calls'[p])
Evicted ==
  \A k \in DOMAIN entries \ DOMAIN entries' :
    \/ entries' = <<>> /\ calls' = calls
    \/ TTL > 0 /\ now > entries[k].at + TTL
    \/ Cardinality(DOMAIN entries) = ShardMax /\ \A x \in DOMAIN entries : used[k] <= used[x]

LEMMA EvictsIs ==
  ASSUME Evicted, Young
  PROVE  Evicts
<1>1. TTL \in Nat
  BY GatewayAssumption
<1>2. ASSUME NEW p \in Caller, calls'[p].out # calls[p].out, calls'[p].out.hit, TTL > 0
      PROVE  now <= calls'[p].out.at + TTL
  BY <1>1, <1>2 DEF Young, Fresh
<1> QED
  BY <1>2 DEF Evicts, Evicted

LEMMA NothingEvicted ==
  ASSUME Kept
  PROVE  Evicted
BY DEF Kept, Evicted

LEMMA CallsSame ==
  ASSUME CallsOK, UNCHANGED <<setup, calls>>
  PROVE  CallsOK' /\ Young
<1>1. CallsOK'
  BY Zenon DEF CallsOK
<1>2. Young
  BY Zenon DEF Young, Fresh
<1> QED
  BY <1>1, <1>2

LEMMA Advanced ==
  ASSUME CallsOK, NEW p \in Caller, Advances(p), setup' = setup
  PROVE  CallsOK' /\ Young
<1>1. PICK d : calls' = [calls EXCEPT ![p] = d] /\ CallOK(setup, p, d) /\ Fresh(calls[p], d)
  BY Zenon DEF Advances, Goes
<1>2. d \in CallType
  BY <1>1, Zenon DEF CallOK
<1>3. /\ calls' \in [Caller -> CallType] /\ calls'[p] = d
      /\ \A q \in Caller : q # p => calls'[q] = calls[q]
  <2>1. ASSUME NEW T, NEW f \in [Caller -> T], NEW e \in T
        PROVE  /\ [f EXCEPT ![p] = e] \in [Caller -> T] /\ [f EXCEPT ![p] = e][p] = e
               /\ \A q \in Caller : q # p => [f EXCEPT ![p] = e][q] = f[q]
    OBVIOUS
  <2> QED
    BY <1>1, <1>2, <2>1, Zenon DEF CallsOK
<1>4. \A q \in Caller : CallOK(setup, q, calls'[q])
  BY <1>1, <1>3, Zenon DEF CallsOK
<1>5. \A q \in Caller : Fresh(calls[q], calls'[q])
  <2> TAKE q \in Caller
  <2>1. Fresh(calls[q], calls[q])
    BY Zenon DEF Fresh
  <2> QED
    BY <1>1, <1>3, <2>1, Zenon
<1> QED
  BY <1>3, <1>4, <1>5, Zenon DEF CallsOK, Young

LEMMA EngineSame ==
  ASSUME EngineOK, UNCHANGED <<setup, engine>>
  PROVE  EngineOK'
BY Zenon DEF EngineOK

LEMMA RegistrySame ==
  ASSUME RegistryOK, UNCHANGED registry
  PROVE  RegistryOK'
BY Zenon DEF RegistryOK

LEMMA CacheSame ==
  ASSUME CacheOK, UNCHANGED <<entries, list, used>>
  PROVE  CacheOK' /\ Evicted
<1>1. CacheOK'
  BY Zenon DEF CacheOK, EntriesOK
<1> QED
  BY <1>1, NothingEvicted DEF Kept

LEMMA HostSame ==
  ASSUME HostFine, UNCHANGED <<setup, host>>
  PROVE  HostFine'
BY Zenon DEF HostFine, Agent

LEMMA GivenSame ==
  ASSUME GivenOK, UNCHANGED given
  PROVE  GivenOK'
BY Zenon DEF GivenOK

LEMMA BoundsSame ==
  ASSUME BoundsOK, UNCHANGED <<cancelled, now, changes>>
  PROVE  BoundsOK'
BY Zenon DEF BoundsOK

\* A step of a call that touches nothing that is shared.
LEMMA OnlyCall ==
  ASSUME IInv, NEW p \in Caller, Advances(p), UNCHANGED <<setup, shared, outside>>
  PROVE  IInv' /\ Evicts
<1>1. /\ UNCHANGED <<setup, engine>> /\ UNCHANGED registry /\ UNCHANGED <<entries, list, used>> /\ UNCHANGED <<setup, host>>
      /\ UNCHANGED given /\ UNCHANGED <<cancelled, now, changes>> /\ setup' = setup
  BY DEF shared, outside
<1>2. setup \in Setups /\ CallsOK /\ GivenOK /\ EngineOK /\ RegistryOK /\ CacheOK /\ HostFine /\ BoundsOK
  BY DEF IInv
<1>3. CallsOK' /\ Young
  BY <1>1, <1>2, Advanced
<1>4. EngineOK' /\ RegistryOK' /\ CacheOK' /\ Evicted /\ HostFine' /\ GivenOK' /\ BoundsOK'
  BY <1>1, <1>2, EngineSame, RegistrySame, CacheSame, HostSame, GivenSame, BoundsSame
<1> QED
  BY <1>1, <1>2, <1>3, <1>4, EvictsIs DEF IInv

LEMMA IInvParts ==
  ASSUME IInv
  PROVE  /\ setup \in Setups /\ CallsOK /\ GivenOK /\ EngineOK /\ RegistryOK /\ CacheOK /\ HostFine /\ BoundsOK
         /\ EntriesOK /\ ShardOK(entries, list, used) /\ now \in Nat /\ \A p \in Caller : CallOK(setup, p, calls[p])
<1>1. setup \in Setups /\ CallsOK /\ GivenOK /\ EngineOK /\ RegistryOK /\ CacheOK /\ HostFine /\ BoundsOK
  BY DEF IInv
<1>2. now \in Nat
  BY <1>1, GatewayAssumption DEF BoundsOK
<1> QED
  BY <1>1, <1>2, Zenon DEF CacheOK, CallsOK

LEMMA PutEngine ==
  ASSUME EngineOK, NEW k, k # NoKey, NEW r \in Request, KeyOf(setup, r) = k, engine' = Put(engine, k, r), setup' = setup
  PROVE  EngineOK'
<1>1. DOMAIN engine' = DOMAIN engine \cup {k} /\ \A x \in DOMAIN engine \cup {k} : engine'[x] = IF x = k THEN r ELSE engine[x]
  BY DEF Put
<1>2. ASSUME NEW x \in DOMAIN engine' PROVE x # NoKey /\ engine'[x] \in Request /\ KeyOf(setup', engine'[x]) = x
  BY <1>1, <1>2 DEF EngineOK
<1> QED
  BY <1>2, Zenon DEF EngineOK

LEMMA WithoutEngine ==
  ASSUME EngineOK, NEW k, engine' = Without(engine, k), setup' = setup
  PROVE  EngineOK'
<1>1. DOMAIN engine' = DOMAIN engine \ {k} /\ \A x \in DOMAIN engine \ {k} : engine'[x] = engine[x]
  BY DEF Without
<1>2. ASSUME NEW x \in DOMAIN engine' PROVE x # NoKey /\ engine'[x] \in Request /\ KeyOf(setup', engine'[x]) = x
  BY <1>1, <1>2 DEF EngineOK
<1> QED
  BY <1>2, Zenon DEF EngineOK

LEMMA Stores ==
  ASSUME IInv, NEW p \in Caller, StorePrefix(p)
  PROVE  IInv' /\ Evicts
<1>1. UNCHANGED <<setup, shared, registry, changes, host, cancelled, given, now>> /\ setup' = setup
  BY Zenon DEF StorePrefix
<1>2. /\ Advances(p) /\ calls[p].hint.key # NoKey /\ calls[p].content[1] \in Request
      /\ KeyOf(setup, calls[p].content[1]) = calls[p].hint.key
  BY IInvParts, StorePrefixOK, Zenon
<1>3. engine' = Put(engine, calls[p].hint.key, calls[p].content[1]) \/ engine' = engine
  BY Zenon DEF StorePrefix
<1>4. EngineOK'
  BY <1>1, <1>2, <1>3, IInvParts, PutEngine, EngineSame
<1>5. CallsOK' /\ Young
  BY <1>1, <1>2, IInvParts, Advanced
<1>6. RegistryOK' /\ CacheOK' /\ Evicted /\ HostFine' /\ GivenOK' /\ BoundsOK'
  BY <1>1, IInvParts, RegistrySame, CacheSame, HostSame, GivenSame, BoundsSame DEF shared
<1> QED
  BY <1>1, <1>4, <1>5, <1>6, IInvParts, EvictsIs DEF IInv

\* A step of a call that uses the response cache.
LEMMA Shares ==
  ASSUME IInv, NEW p \in Caller, Advances(p), UNCHANGED <<setup, outside>>, CacheOK', Evicted
  PROVE  IInv' /\ Evicts
<1>1. /\ UNCHANGED <<setup, engine>> /\ UNCHANGED registry /\ UNCHANGED <<setup, host>>
      /\ UNCHANGED given /\ UNCHANGED <<cancelled, now, changes>> /\ setup' = setup
  BY DEF outside
<1>2. CallsOK' /\ Young
  BY <1>1, IInvParts, Advanced
<1>3. EngineOK' /\ RegistryOK' /\ HostFine' /\ GivenOK' /\ BoundsOK'
  BY <1>1, IInvParts, EngineSame, RegistrySame, HostSame, GivenSame, BoundsSame
<1> QED
  BY <1>1, <1>2, <1>3, IInvParts, EvictsIs DEF IInv

LEMMA Hits ==
  ASSUME IInv, NEW p \in Caller, Hit(p)
  PROVE  IInv' /\ Evicts
<1>1. UNCHANGED <<setup, outside>>
  BY Zenon DEF Hit
<1>2. Advances(p)
  BY IInvParts, HitOK, Zenon
<1>3. ShardOK(entries', list', used') /\ EntriesOK' /\ entries' = entries
  BY IInvParts, HitShard, Zenon
<1>4. CacheOK' /\ Evicted
  BY <1>3, NothingEvicted DEF CacheOK, Kept
<1> QED
  BY <1>1, <1>2, <1>4, Shares

LEMMA Misses ==
  ASSUME IInv, NEW p \in Caller, Miss(p)
  PROVE  IInv' /\ Evicts
<1>1. UNCHANGED <<setup, outside>>
  BY Zenon DEF Miss
<1>2. Advances(p)
  BY IInvParts, MissOK, Zenon
<1>3. /\ ShardOK(entries', list', used') /\ EntriesOK'
      /\ \A k \in DOMAIN entries \ DOMAIN entries' : TTL > 0 /\ now > entries[k].at + TTL
  BY IInvParts, MissShard, Zenon
<1>4. CacheOK' /\ Evicted
  BY <1>3, Zenon DEF CacheOK, Evicted
<1> QED
  BY <1>1, <1>2, <1>4, Shares

LEMMA puts ==
  ASSUME IInv, NEW p \in Caller, put(p)
  PROVE  IInv' /\ Evicts
<1>1. UNCHANGED <<setup, outside>>
  BY Zenon DEF put
<1>2. Advances(p)
  BY IInvParts, putOK, Zenon
<1>3. Req(p) \in Request
  <2>1. calls[p].pc = "put" /\ Begun(setup, p, calls[p])
    BY IInvParts, Zenon DEF put, At, CallOK
  <2>2. calls[p].n >= 1
    BY <2>1 DEF Begun
  <2> QED
    BY <2>2, IInvParts, UnderWay
<1>4. /\ ShardOK(entries', list', used') /\ EntriesOK'
      /\ \A k \in DOMAIN entries \ DOMAIN entries' :
           Cardinality(DOMAIN entries) = ShardMax /\ \A x \in DOMAIN entries : used[k] <= used[x]
  BY <1>3, IInvParts, putShard, Zenon
<1>5. CacheOK' /\ Evicted
  BY <1>4, Zenon DEF CacheOK, Evicted
<1> QED
  BY <1>1, <1>2, <1>5, Shares

LEMMA Gets ==
  ASSUME IInv, NEW p \in Caller, Get(p)
  PROVE  IInv' /\ Evicts
<1>1. UNCHANGED <<setup, shared, registry, changes, engine, host, cancelled, now>> /\ setup' = setup
  BY Zenon DEF Get
<1>2. Advances(p)
  BY IInvParts, GetOK, Zenon
<1>3. GivenOK'
  <2> DEFINE more == IF calls[p].client \in DOMAIN registry THEN setup.mutates \ cloneRequest ELSE {}
  <2>1. given' = [given EXCEPT ![p] = @ \cup more]
    BY Zenon DEF Get
  <2>2. more \subseteq Spared
    BY IInvParts, SetupType DEF cloneRequest, Spared
  <2> HIDE DEF more
  <2> QED
    BY <2>1, <2>2, IInvParts DEF GivenOK
<1>4. CallsOK' /\ Young
  BY <1>1, <1>2, IInvParts, Advanced
<1>5. EngineOK' /\ RegistryOK' /\ CacheOK' /\ Evicted /\ HostFine' /\ BoundsOK'
  BY <1>1, IInvParts, EngineSame, RegistrySame, CacheSame, HostSame, BoundsSame DEF shared
<1> QED
  BY <1>1, <1>3, <1>4, <1>5, IInvParts, EvictsIs DEF IInv

LEMMA Cancels ==
  ASSUME IInv, NEW p \in Caller, Cancel(p)
  PROVE  IInv' /\ Evicts
<1>1. UNCHANGED <<setup, calls, given, shared, registry, changes, engine, host, now>> /\ cancelled' = cancelled \cup {p}
  BY Zenon DEF Cancel
<1>2. BoundsOK'
  BY <1>1, IInvParts DEF BoundsOK
<1>3. CallsOK' /\ Young /\ GivenOK' /\ EngineOK' /\ RegistryOK' /\ CacheOK' /\ Evicted /\ HostFine'
  BY <1>1, IInvParts, CallsSame, GivenSame, EngineSame, RegistrySame, CacheSame, HostSame DEF shared
<1> QED
  BY <1>1, <1>2, <1>3, IInvParts, EvictsIs DEF IInv

LEMMA Stepping ==
  ASSUME IInv, NEW p \in Caller, Step(p)
  PROVE  IInv' /\ Evicts
<1>1. CASE Generate(p)
  <2>1. UNCHANGED <<setup, shared, outside>>
    BY <1>1, Zenon DEF Generate
  <2> QED
    BY <1>1, <2>1, IInvParts, GenerateOK, OnlyCall
<1>2. CASE LookupPrefix(p)
  <2>1. UNCHANGED <<setup, shared, outside>>
    BY <1>2, Zenon DEF LookupPrefix
  <2> QED
    BY <1>2, <2>1, IInvParts, LookupPrefixOK, OnlyCall
<1>3. CASE CreateCachedContent(p)
  <2>1. UNCHANGED <<setup, shared, outside>>
    BY <1>3, Zenon DEF CreateCachedContent
  <2> QED
    BY <1>3, <2>1, IInvParts, CreateCachedContentOK, OnlyCall
<1>4. CASE Replies(p)
  <2>1. UNCHANGED <<setup, shared, outside>>
    BY <1>4, Zenon DEF Replies
  <2> QED
    BY <1>4, <2>1, IInvParts, RepliesOK, OnlyCall
<1>5. CASE Attempt(p)
  <2>1. UNCHANGED <<setup, shared, outside>>
    BY <1>5, Zenon DEF Attempt
  <2> QED
    BY <1>5, <2>1, IInvParts, AttemptOK, OnlyCall
<1>6. CASE Route(p)
  <2>1. UNCHANGED <<setup, shared, outside>>
    BY <1>6, Zenon DEF Route
  <2> QED
    BY <1>6, <2>1, IInvParts, RouteOK, OnlyCall
<1>7. CASE Pick(p)
  <2>1. UNCHANGED <<setup, shared, outside>>
    BY <1>7, Zenon DEF Pick
  <2> QED
    BY <1>7, <2>1, IInvParts, PickOK, OnlyCall
<1>8. CASE Call(p)
  <2>1. UNCHANGED <<setup, shared, outside>>
    BY <1>8, Zenon DEF Call
  <2> QED
    BY <1>8, <2>1, IInvParts, CallStepOK, OnlyCall
<1>9. CASE Wait(p)
  <2>1. UNCHANGED <<setup, shared, outside>>
    BY <1>9, Zenon DEF Wait
  <2> QED
    BY <1>9, <2>1, IInvParts, WaitOK, OnlyCall
<1>10. CASE Collected(p)
  <2>1. UNCHANGED <<setup, shared, outside>>
    BY <1>10, Zenon DEF Collected
  <2> QED
    BY <1>10, <2>1, IInvParts, CollectedOK, OnlyCall
<1>11. CASE StorePrefix(p) \/ Hit(p) \/ Miss(p) \/ put(p) \/ Get(p) \/ Cancel(p)
  BY <1>11, Stores, Hits, Misses, puts, Gets, Cancels
<1> QED
  BY <1>1, <1>2, <1>3, <1>4, <1>5, <1>6, <1>7, <1>8, <1>9, <1>10, <1>11, Zenon DEF Step

LEMMA Clears ==
  ASSUME IInv, Clear
  PROVE  IInv' /\ Evicts
<1>1. UNCHANGED <<setup, calls, outside>>
  BY Zenon DEF Clear
<1>2. ShardOK(entries', list', used') /\ EntriesOK' /\ entries' = <<>> /\ calls' = calls
  BY IInvParts, ClearShard, Zenon
<1>3. CacheOK' /\ Evicted
  BY <1>2, Zenon DEF CacheOK, Evicted
<1>4. CallsOK' /\ Young /\ GivenOK' /\ EngineOK' /\ RegistryOK' /\ HostFine' /\ BoundsOK'
  BY <1>1, IInvParts, CallsSame, GivenSame, EngineSame, RegistrySame, HostSame, BoundsSame DEF outside
<1> QED
  BY <1>1, <1>3, <1>4, IInvParts, EvictsIs DEF IInv

LEMMA Registers ==
  ASSUME RegistryOK, NEW name \in Client, NEW by \in By,
         registry' = Put(registry, name, by) \/ registry' = Without(registry, name)
  PROVE  RegistryOK'
<1>1. /\ DOMAIN registry \subseteq Client
      /\ \A x \in DOMAIN registry : registry[x] \in By
  BY DEF RegistryOK
<1>2. ASSUME NEW D, NEW f, f = [x \in D |-> f[x]], D \subseteq Client, \A x \in D : f[x] \in By
      PROVE  f \in [DOMAIN f -> By] /\ DOMAIN f \subseteq Client
  BY <1>2
<1>3. CASE registry' = Put(registry, name, by)
  <2> DEFINE f == [x \in DOMAIN registry \cup {name} |-> IF x = name THEN by ELSE registry[x]]
  <2>1. registry' = f
    BY <1>3, Zenon DEF Put
  <2>2. f \in [DOMAIN f -> By] /\ DOMAIN f \subseteq Client
    BY <1>1
  <2> HIDE DEF f
  <2> QED
    BY <2>1, <2>2, Zenon DEF RegistryOK
<1>4. CASE registry' = Without(registry, name)
  <2> DEFINE f == [x \in DOMAIN registry \ {name} |-> registry[x]]
  <2>1. registry' = f
    BY <1>4, Zenon DEF Without
  <2>2. f \in [DOMAIN f -> By] /\ DOMAIN f \subseteq Client
    BY <1>1
  <2> HIDE DEF f
  <2> QED
    BY <2>1, <2>2, Zenon DEF RegistryOK
<1> QED
  BY <1>3, <1>4

LEMMA Changing ==
  ASSUME IInv, Changes
  PROVE  IInv' /\ Evicts
<1>1. UNCHANGED <<setup, calls, given, cancelled, shared, engine, host, now>> /\ changes > 0 /\ changes' = changes - 1
  BY Zenon DEF Changes
<1>2. RegistryOK'
  <2>1. PICK name \in {<<"a">>, <<"b">>} : SetProvider(name, "compat") \/ SetProvider(name, "bedrock") \/ Unregister(name)
    BY Zenon DEF Changes
  <2>2. name \in Client
    BY DEF Client
  <2>3. "compat" \in By /\ "bedrock" \in By
    BY DEF By
  <2>4. registry' = Put(registry, name, "compat") \/ registry' = Put(registry, name, "bedrock") \/ registry' = Without(registry, name)
    BY <2>1, Zenon DEF SetProvider, Unregister
  <2> QED
    BY <2>2, <2>3, <2>4, IInvParts, Registers
<1>3. BoundsOK'
  BY <1>1, IInvParts DEF BoundsOK
<1>4. CallsOK' /\ Young /\ GivenOK' /\ EngineOK' /\ CacheOK' /\ Evicted /\ HostFine'
  BY <1>1, IInvParts, CallsSame, GivenSame, EngineSame, CacheSame, HostSame DEF shared
<1> QED
  BY <1>1, <1>2, <1>3, <1>4, IInvParts, EvictsIs DEF IInv

LEMMA Forgetting ==
  ASSUME IInv, Forgets
  PROVE  IInv' /\ Evicts
<1>1. UNCHANGED <<setup, calls, given, cancelled, shared, registry, changes, host, now>> /\ setup' = setup
  BY Zenon DEF Forgets
<1>2. EngineOK'
  BY <1>1, IInvParts, WithoutEngine, Zenon DEF Forgets
<1>3. CallsOK' /\ Young /\ GivenOK' /\ RegistryOK' /\ CacheOK' /\ Evicted /\ HostFine' /\ BoundsOK'
  BY <1>1, IInvParts, CallsSame, GivenSame, RegistrySame, CacheSame, HostSame, BoundsSame DEF shared
<1> QED
  BY <1>1, <1>2, <1>3, IInvParts, EvictsIs DEF IInv

LEMMA Ticks ==
  ASSUME IInv, Tick
  PROVE  IInv' /\ Evicts
<1>1. /\ UNCHANGED <<setup, calls, given, cancelled, shared, registry, changes, engine, host>>
      /\ now < MaxTime /\ now' = now + 1
  BY Zenon DEF Tick
<1>2. BoundsOK'
  BY <1>1, IInvParts, GatewayAssumption DEF BoundsOK
<1>3. CallsOK' /\ Young /\ GivenOK' /\ EngineOK' /\ RegistryOK' /\ CacheOK' /\ Evicted /\ HostFine'
  BY <1>1, IInvParts, CallsSame, GivenSame, EngineSame, RegistrySame, CacheSame, HostSame DEF shared
<1> QED
  BY <1>1, <1>2, <1>3, IInvParts, EvictsIs DEF IInv

LEMMA Living ==
  ASSUME IInv, Lifecycle
  PROVE  IInv' /\ Evicts
<1>1. UNCHANGED <<setup, calls, shared, registry, changes, engine, cancelled, given, now>>
  BY Zenon DEF Lifecycle
<1>2. HostFine'
  <2>1. HostOK(Agent.names, host')
    BY IInvParts, LifecycleOK, Zenon DEF HostFine
  <2> QED
    BY <1>1, <2>1, Zenon DEF HostFine, Agent
<1>3. CallsOK' /\ Young /\ GivenOK' /\ EngineOK' /\ RegistryOK' /\ CacheOK' /\ Evicted /\ BoundsOK'
  BY <1>1, IInvParts, CallsSame, GivenSame, EngineSame, RegistrySame, CacheSame, BoundsSame DEF shared
<1> QED
  BY <1>1, <1>2, <1>3, IInvParts, EvictsIs DEF IInv

LEMMA Stutters ==
  ASSUME IInv, UNCHANGED vars
  PROVE  IInv' /\ Evicts
<1>1. UNCHANGED <<setup, calls, given, cancelled, entries, list, used, registry, changes, engine, host, now>>
  BY DEF vars
<1>2. CallsOK' /\ Young /\ GivenOK' /\ EngineOK' /\ RegistryOK' /\ CacheOK' /\ Evicted /\ HostFine' /\ BoundsOK'
  BY <1>1, IInvParts, CallsSame, GivenSame, EngineSame, RegistrySame, CacheSame, HostSame, BoundsSame
<1> QED
  BY <1>1, <1>2, IInvParts, EvictsIs DEF IInv

LEMMA Inductive ==
  ASSUME IInv, [Next]_vars
  PROVE  IInv' /\ Evicts
<1>1. CASE \E p \in Caller : Step(p)
  BY <1>1, Stepping
<1>2. CASE Clear \/ Changes \/ Forgets \/ Tick \/ Lifecycle
  BY <1>2, Clears, Changing, Forgetting, Ticks, Living
<1>3. CASE Done \/ UNCHANGED vars
  BY <1>3, Stutters, Zenon DEF Done
<1> QED
  BY <1>1, <1>2, <1>3, Zenon DEF Next

LEMMA Initially ==
  ASSUME Init
  PROVE  IInv
<1>1. /\ setup \in Setups /\ calls = [p \in Caller |-> Idle] /\ given = [p \in Caller |-> {}]
      /\ cancelled = {} /\ entries = <<>> /\ list = <<>> /\ registry = setup.registry /\ changes = setup.changes
      /\ engine = <<>> /\ now = 0 /\ used = <<>>
      /\ host = [start |-> "idle", close |-> "idle", toStart |-> {}, toClose |-> {}, up |-> {}, late |-> FALSE]
  BY Zenon DEF Init
<1>2. DOMAIN <<>> = {}
  OBVIOUS
<1>3. ASSUME NEW p \in Caller PROVE CallOK(setup, p, Idle)
  <2>1. /\ Idle \in CallType /\ Idle.pc = "idle" /\ Idle.n = 0 /\ Idle.hint.key = NoKey
        /\ Idle.content = <<>> /\ Idle.codes = <<>> /\ Idle.out = None
    BY IdleType, Zenon DEF Idle
  <2>2. Begun(setup, p, Idle)
    <3>1. setup.reqs[p] \in Seq(Request)
      BY <1>1, SetupType
    <3> QED
      BY <2>1, <3>1 DEF Begun
  <2>3. Keyed(setup, p, Idle)
    BY <2>1 DEF Keyed
  <2>4. Counted(setup, Idle)
    BY <2>1, GatewayAssumption DEF Counted
  <2> QED
    BY <2>1, <2>2, <2>3, <2>4, Zenon DEF CallOK
<1>4. CallsOK
  <2>1. Idle \in CallType
    BY IdleType
  <2>2. calls \in [Caller -> CallType]
    BY <1>1, <2>1
  <2>3. \A p \in Caller : calls[p] = Idle
    BY <1>1
  <2> QED
    BY <1>3, <2>2, <2>3, Zenon DEF CallsOK
<1>5. GivenOK
  BY <1>1 DEF GivenOK
<1>6. EngineOK
  BY <1>1, <1>2 DEF EngineOK
<1>7. RegistryOK
  <2>1. \A x : x \in STRING => x \in By
    BY DEF By
  <2>2. \A x : x \in Chars => x \in Client
    BY DEF Client
  <2>3. ASSUME NEW A, NEW B, \A x : x \in A => x \in B, NEW r, r \in [DOMAIN r -> A] PROVE r \in [DOMAIN r -> B]
    BY <2>3
  <2>4. setup.registry \in [DOMAIN setup.registry -> STRING] /\ DOMAIN setup.registry \subseteq Chars
    BY <1>1, SetupType
  <2>5. setup.registry \in [DOMAIN setup.registry -> By]
    BY <2>1, <2>3, <2>4, Zenon
  <2>6. DOMAIN setup.registry \subseteq Client
    BY <2>2, <2>4, Zenon
  <2> QED
    BY <1>1, <2>5, <2>6, Zenon DEF RegistryOK
<1>8. CacheOK
  <2>1. EntriesOK
    BY <1>1, <1>2 DEF EntriesOK
  <2> QED
    BY <1>1, <2>1, EmptyShard, Zenon DEF CacheOK
<1>9. HostFine
  <2> DEFINE N == Agent.names
  <2>1. /\ host.start = "idle" /\ host.close = "idle" /\ host.toStart = {} /\ host.toClose = {} /\ host.up = {} /\ host.late = FALSE
    BY <1>1
  <2>2. host \in HostType(N)
    BY <1>1 DEF HostType, Starts, Closes, Some, Lates
  <2> HIDE DEF N
  <2>3. HostOK(N, host)
    BY <2>1, <2>2 DEF HostOK
  <2> QED
    BY <2>3 DEF HostFine, N
<1>10. BoundsOK
  <2>1. setup.changes \in Nat
    BY <1>1, SetupType
  <2> QED
    BY <1>1, <2>1, GatewayAssumption DEF BoundsOK
<1> QED
  BY <1>1, <1>4, <1>5, <1>6, <1>7, <1>8, <1>9, <1>10 DEF IInv

(***************************************************************************)
(* What the invariant says of the properties.                              *)
(***************************************************************************)
LEMMA CallParts ==
  ASSUME IInv, NEW p \in Caller
  PROVE  /\ calls[p] \in CallType /\ Begun(setup, p, calls[p]) /\ Keyed(setup, p, calls[p])
         /\ Counted(setup, calls[p])
BY IInvParts, Zenon DEF CallOK

LEMMA HasKey ==
  ASSUME IInv, NEW p \in Caller, calls[p].hint.key # NoKey
  PROVE  /\ Req(p) \in Request /\ NormalizeCacheOptions(Req(p), setup.normalizer).key = calls[p].hint.key
         /\ setup.normalizer \in Normalizers
<1>1. calls[p].n >= 1 /\ calls[p].hint.key = KeyOf(setup, Asked(setup, p, calls[p]))
  BY CallParts DEF Keyed
<1>2. Req(p) \in Request /\ Req(p) = Asked(setup, p, calls[p])
  BY <1>1, IInvParts, UnderWay
<1> QED
  BY <1>1, <1>2, IInvParts, SetupType, Zenon DEF KeyOf

LEMMA Apart ==
  ASSUME IInv
  PROVE  KeysApart
<1>1. ASSUME NEW p \in Caller, NEW q \in Caller, calls[p].hint.key = calls[q].hint.key, calls[p].hint.key # NoKey
      PROVE  MayShare(Req(p), Req(q))
  <2>1. /\ Req(p) \in Request /\ NormalizeCacheOptions(Req(p), setup.normalizer).key = calls[p].hint.key
        /\ Req(q) \in Request /\ NormalizeCacheOptions(Req(q), setup.normalizer).key = calls[p].hint.key
        /\ setup.normalizer \in Normalizers
    BY <1>1, HasKey
  <2> QED
    BY <1>1, <2>1, KeyTells, Zenon DEF Normalizers
<1> QED
  BY <1>1, Zenon DEF KeysApart

LEMMA Tenants ==
  ASSUME IInv
  PROVE  PrefixOfTenant
<1>1. ASSUME NEW p \in Caller, NEW r \in ToSet(calls[p].content)
      PROVE  MayShare(r, Req(p))
  <2>1. calls[p].content \in Seq(Request)
    BY CallParts, CallFields, Zenon
  <2>2. PICK i \in 1 .. Len(calls[p].content) : r = calls[p].content[i]
    BY <1>1, <2>1 DEF ToSet
  <2>3. r \in Request
    BY <2>1, <2>2
  <2>4. calls[p].hint.key # NoKey /\ KeyOf(setup, r) = calls[p].hint.key
    BY <2>2, CallParts, Zenon DEF Keyed
  <2>5. /\ Req(p) \in Request /\ NormalizeCacheOptions(Req(p), setup.normalizer).key = calls[p].hint.key
        /\ setup.normalizer \in Normalizers
    BY <2>4, HasKey
  <2>6. NormalizeCacheOptions(r, setup.normalizer).key = calls[p].hint.key
    BY <2>4, Zenon DEF KeyOf
  <2> QED
    BY <2>3, <2>4, <2>5, <2>6, KeyTells, Zenon DEF Normalizers
<1> QED
  BY <1>1, Zenon DEF PrefixOfTenant

LEMMA ShardFits ==
  ASSUME IInv
  PROVE  ShardSound
<1>1. UsesOK(used) /\ list \in Seq(DOMAIN used) /\ Len(list) <= ShardMax /\ ToSet(list) = DOMAIN entries /\ Decreasing(list, used)
  BY IInvParts, Zenon DEF ShardOK
<1>2. Cardinality(ToSet(list)) = Len(list)
  BY <1>1, DecreasingNoTwice, CountList
<1>3. DOMAIN list = 1 .. Len(list)
  BY <1>1
<1> QED
  BY <1>1, <1>2, <1>3, Zenon DEF ShardSound, Decreasing

LEMMA Typed ==
  ASSUME IInv
  PROVE  TypeOK /\ HostCloses
<1>1. \A p \in Caller : calls[p].pc \in Pcs /\ calls[p].n \in 0 .. Len(setup.reqs[p]) /\ calls[p].attempt \in 0 .. MaxAttempts - 1
  BY CallParts, CallFields, Zenon DEF Begun
<1>2. cancelled \subseteq Caller /\ given \in [Caller -> SUBSET Pointers] /\ now \in 0 .. MaxTime /\ changes \in Nat
  <2>1. Spared \subseteq Pointers
    BY DEF Spared, Pointers
  <2>2. given \in [Caller -> SUBSET Pointers]
    BY <2>1, IInvParts DEF GivenOK
  <2> QED
    BY <2>2, IInvParts DEF BoundsOK
<1>3. ASSUME NEW N, HostOK(N, host)
      PROVE  /\ host.up \subseteq N /\ host.toStart \subseteq N /\ host.toClose \subseteq N
             /\ host.close = "done" /\ host.late => host.up = {}
             /\ host.start = "ok" /\ host.close = "idle" => host.up = N
  <2>1. host \in HostType(N)
    BY <1>3, Zenon DEF HostOK
  <2>2. host.up \subseteq N /\ host.toStart \subseteq N /\ host.toClose \subseteq N /\ host.late \in BOOLEAN
    BY <2>1, HostFields DEF Some, Lates
  <2> QED
    BY <1>3, <2>2 DEF HostOK
<1>4. HostOK(Agent.names, host)
  BY IInvParts DEF HostFine
<1>5. /\ host.up \subseteq Agent.names /\ host.toStart \subseteq Agent.names /\ host.toClose \subseteq Agent.names
      /\ HostCloses
  BY <1>3, <1>4, Zenon DEF HostCloses
<1> QED
  BY <1>1, <1>2, <1>5, Zenon DEF TypeOK

(***************************************************************************)
(* The theorems.                                                           *)
(***************************************************************************)
LEMMA Always == Spec => []IInv
<1>1. Init => IInv
  BY Initially
<1>2. IInv /\ [Next]_vars => IInv'
  BY Inductive
<1> QED
  BY <1>1, <1>2, PTL DEF Spec

\* Every call, the clock and the host are of their types.
THEOREM TypeCorrect == Spec => []TypeOK
<1>1. IInv => TypeOK
  BY Typed
<1> QED
  BY <1>1, Always, PTL

\* For any requests, callers, normalizers and faults, two requests whose hints
\* have one key are of one tenant, and have one caller's key or, with none, one
\* model and prefix (NormalizeCacheOptions, DefaultCacheKeyBuilder,
\* WritePrefixHash, NormalizePrefix); and what the service keeps under a key is
\* used for the tenant it was made for.
THEOREM PrefixesApartAlways == Spec => []PrefixesApart
<1>1. IInv => PrefixesApart
  BY Apart, Tenants DEF PrefixesApart
<1> QED
  BY <1>1, Always, PTL

\* For any sizes and components, map and list of a shard agree and keep to their
\* room, in the order of use (Cache.get, put), and a Close that follows Start
\* leaves no component running (Host.StartAll, CloseAll).
THEOREM SoundAlways == Spec => []Sound
<1>1. IInv => Sound
  BY Typed, ShardFits DEF Sound
<1> QED
  BY <1>1, Always, PTL

\* What leaves the response cache was cleared, had expired, or was used longest
\* ago in a full shard; and no hit is older than the TTL.
THEOREM LeastRecentAlways == Spec => LeastRecent
<1>1. IInv /\ [Next]_vars => Evicts
  BY Inductive
<1>2. IInv /\ [Next]_vars => [Evicts]_vars
  BY <1>1
<1> QED
  BY <1>2, Always, PTL DEF Spec, LeastRecent
=============================================================================
