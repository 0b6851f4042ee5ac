------------------------- MODULE AgentMemory_proofs -------------------------
(***************************************************************************)
(* Proofs about AgentMemory, for any agents, chains of policies, number of *)
(* turns and of attempts, and any size of the caller's stream: a turn is   *)
(* stored once and whole or not at all, and a turn that nobody interrupts  *)
(* is asked with what the policies make of everything that was said.       *)
(***************************************************************************)
EXTENDS AgentMemory, FiniteSetTheorems, SequenceTheorems, TLAPS

(***************************************************************************)
(* What the agent's policies make of a history is a recursive function:    *)
(* it has the value its definition gives it.  The induction is over sets   *)
(* of natural numbers, from the library's least elements of well-founded   *)
(* relations.                                                              *)
(***************************************************************************)
\* A set of natural numbers that is not empty has a least one.
LEMMA Least ==
  ASSUME NEW S, S \subseteq Nat, S # {}
  PROVE  \E x \in S : \A y \in S : x <= y
<1>1. \E x \in S : \A y \in S : ~ (<<y, x>> \in OpToRel(<, Nat))
  BY NatLessThanWellFounded, WFMin
<1>2. PICK x \in S : \A y \in S : ~ (<<y, x>> \in OpToRel(<, Nat))
  BY <1>1
<1>3. ASSUME NEW y \in S PROVE x <= y
  <2>1. ~ (<<y, x>> \in OpToRel(<, Nat))
    BY <1>2
  <2>2. ~ (y < x)
    BY <2>1 DEF OpToRel
  <2> QED
    BY <2>2
<1> QED
  BY <1>3

\* A set that has 0, and the successor of each number it has, has them all.
LEMMA Induction ==
  ASSUME NEW S, 0 \in S, \A n \in Nat : n \in S => n + 1 \in S
  PROVE  \A n \in Nat : n \in S
<1> SUFFICES ASSUME Nat \ S # {} PROVE FALSE
  OBVIOUS
<1>1. PICK x \in Nat \ S : \A y \in Nat \ S : x <= y
  BY Least
<1>2. x # 0 /\ x - 1 \in Nat
  BY <1>1
<1>3. x - 1 \in S
  BY <1>1, <1>2
<1> QED
  BY <1>1, <1>2, <1>3

\* f holds what is left of h after each of the first n policies.
Stages(f, n, h) ==
  f = [i \in 0 .. n |-> IF i = 0 THEN h ELSE Trimmed(f[i - 1], setup.policies[i])]

LEMMA StagesAt ==
  ASSUME NEW f, NEW n \in Nat, NEW h, Stages(f, n, h)
  PROVE  /\ f[0] = h
         /\ \A i \in 1 .. n : f[i] = Trimmed(f[i - 1], setup.policies[i])
<1>1. \A i \in 0 .. n : f[i] = IF i = 0 THEN h ELSE Trimmed(f[i - 1], setup.policies[i])
  BY DEF Stages
<1>2. 0 \in 0 .. n /\ \A i \in 1 .. n : i \in 0 .. n /\ i # 0
  OBVIOUS
<1> QED
  BY <1>1, <1>2

\* One more policy.
LEMMA OneMoreStage ==
  ASSUME NEW h, NEW n \in Nat, NEW f, Stages(f, n, h)
  PROVE  \E g : Stages(g, n + 1, h)
<1> DEFINE g == [i \in 0 .. n + 1 |-> IF i = n + 1 THEN Trimmed(f[n], setup.policies[n + 1]) ELSE f[i]]
<1>1. g[n + 1] = Trimmed(f[n], setup.policies[n + 1]) /\ \A i \in 0 .. n : g[i] = f[i]
  OBVIOUS
<1>2. ASSUME NEW i \in 0 .. n + 1
      PROVE  g[i] = IF i = 0 THEN h ELSE Trimmed(g[i - 1], setup.policies[i])
  <2>1. CASE i = 0
    <3>1. 0 \in 0 .. n
      OBVIOUS
    <3> QED
      BY <1>1, <2>1, <3>1, StagesAt
  <2>2. CASE i \in 1 .. n
    <3>1. i \in 0 .. n /\ i - 1 \in 0 .. n /\ i # 0
      BY <2>2
    <3>2. g[i] = f[i] /\ g[i - 1] = f[i - 1]
      BY <3>1, <1>1
    <3>3. f[i] = Trimmed(f[i - 1], setup.policies[i])
      BY <2>2, StagesAt
    <3> QED
      BY <3>1, <3>2, <3>3
  <2>3. CASE i = n + 1
    <3>1. i # 0 /\ i - 1 = n /\ n \in 0 .. n
      BY <2>3
    <3> QED
      BY <3>1, <1>1, <2>3
  <2> QED
    BY <2>1, <2>2, <2>3
<1>3. g = [i \in 0 .. n + 1 |-> IF i = 0 THEN h ELSE Trimmed(g[i - 1], setup.policies[i])]
  <2> DEFINE r == [i \in 0 .. n + 1 |-> IF i = 0 THEN h ELSE Trimmed(g[i - 1], setup.policies[i])]
  <2>1. \A i \in 0 .. n + 1 : g[i] = r[i]
    BY <1>2
  <2>2. g = [i \in 0 .. n + 1 |-> g[i]] /\ r = [i \in 0 .. n + 1 |-> r[i]]
    OBVIOUS
  <2> HIDE DEF g, r
  <2>3. g = r
    BY <2>1, <2>2
  <2> QED
    BY <2>3 DEF r
<1> HIDE DEF g
<1> QED
  BY <1>3 DEF Stages

LEMMA StagesExist ==
  ASSUME NEW h
  PROVE  \A n \in Nat : \E f : Stages(f, n, h)
<1> DEFINE S == {n \in Nat : \E f : Stages(f, n, h)}
<1>1. 0 \in S
  <2> DEFINE g == [i \in 0 .. 0 |-> h]
  <2>1. g = [i \in 0 .. 0 |-> IF i = 0 THEN h ELSE Trimmed(g[i - 1], setup.policies[i])]
    <3>1. \A i \in 0 .. 0 : i = 0
      OBVIOUS
    <3> QED
      BY <3>1
  <2> HIDE DEF g
  <2> QED
    BY <2>1 DEF Stages
<1>2. ASSUME NEW n \in Nat, n \in S PROVE n + 1 \in S
  <2>1. PICK f : Stages(f, n, h)
    BY <1>2
  <2>2. \E g : Stages(g, n + 1, h)
    BY <2>1, OneMoreStage
  <2> QED
    BY <2>2
<1>3. \A n \in Nat : n \in S
  <2> HIDE DEF S
  <2> QED
    BY <1>1, <1>2, Induction
<1> QED
  BY <1>3

LEMMA PoliciesType ==
  ASSUME setup \in Setups
  PROVE  /\ setup.policies \in Seq(Policy) /\ Len(setup.policies) \in Nat
         /\ \A i \in 1 .. Len(setup.policies) : setup.policies[i] \in Policy
         /\ DOMAIN setup.policies = 1 .. Len(setup.policies)
         /\ setup.bounded \in BOOLEAN /\ setup.attempts \in Nat /\ setup.attempts >= 1
         /\ setup.turns \in Nat
<1>1. setup \in Setup
  BY SetupAssumption
<1> QED
  BY <1>1, ElementOfSeq, LenProperties DEF Setup

\* What a request is asked with is the last of the stages.
LEMMA TrimUnfolds ==
  ASSUME NEW h, setup \in Setups
  PROVE  \E f : Stages(f, Len(setup.policies), h) /\ TrimForRequest(h) = f[Len(setup.policies)]
<1> DEFINE L == Len(setup.policies)
           f == CHOOSE g : g = [i \in 0 .. L |-> IF i = 0 THEN h ELSE Trimmed(g[i - 1], setup.policies[i])]
<1>1. TrimForRequest(h) = f[L]
  BY DEF TrimForRequest
<1>2. \E g : g = [i \in 0 .. L |-> IF i = 0 THEN h ELSE Trimmed(g[i - 1], setup.policies[i])]
  <2> HIDE DEF f
  <2>1. L \in Nat
    BY PoliciesType
  <2>2. PICK g : Stages(g, L, h)
    BY <2>1, StagesExist
  <2> HIDE DEF L
  <2> QED
    BY <2>2 DEF Stages
<1>3. f = [i \in 0 .. L |-> IF i = 0 THEN h ELSE Trimmed(f[i - 1], setup.policies[i])]
  BY <1>2
<1> HIDE DEF f
<1> QED
  BY <1>1, <1>3 DEF Stages

(***************************************************************************)
(* What a policy leaves of a history is made of messages of that history:  *)
(* whatever holds for each of them still does.                             *)
(***************************************************************************)
LEMMA PolicyFields ==
  ASSUME NEW p \in Policy
  PROVE  p.kind \in {"window", "ends", "tokens", "nothing"} /\ p.first \in Nat /\ p.last \in Nat
BY DEF Policy

LEMMA PartOf ==
  ASSUME NEW S, NEW h \in Seq(S), NEW m \in Nat, NEW n \in Nat, m >= 1, n <= Len(h)
  PROVE  SubSeq(h, m, n) \in Seq(S)
<1>1. \A i \in m .. n : i \in 1 .. Len(h)
  BY LenProperties
<1>2. \A i \in m .. n : h[i] \in S
  BY <1>1, ElementOfSeq
<1> QED
  BY <1>2, SubSeqProperties

LEMMA PrefixOf ==
  ASSUME NEW S, NEW h \in Seq(S), NEW n \in Nat, n <= Len(h)
  PROVE  SubSeq(h, 1, n) \in Seq(S)
<1>1. 1 \in Nat /\ 1 >= 1
  OBVIOUS
<1> QED
  BY <1>1, PartOf

LEMMA LatestPart ==
  ASSUME NEW S, NEW h \in Seq(S), NEW n \in Nat
  PROVE  Latest(h, n) \in Seq(S)
<1>1. Len(h) \in Nat
  BY LenProperties
<1>2. CASE n = 0 \/ Len(h) <= n
  BY <1>2 DEF Latest
<1>3. CASE n # 0 /\ n < Len(h)
  <2>1. Latest(h, n) = SubSeq(h, Len(h) - n + 1, Len(h))
    BY <1>1, <1>3 DEF Latest
  <2>2. Len(h) - n + 1 \in Nat /\ Len(h) - n + 1 >= 1
    BY <1>1, <1>3
  <2> QED
    BY <1>1, <2>1, <2>2, PartOf
<1> QED
  BY <1>1, <1>2, <1>3

\* The smaller of two numbers.
LEMMA MinOfTwo ==
  ASSUME NEW a \in Nat, NEW b \in Nat
  PROVE  Min({a, b}) \in Nat /\ Min({a, b}) <= a /\ Min({a, b}) <= b
<1>1. \E x \in {a, b} : \A y \in {a, b} : x <= y
  <2>1. CASE a <= b
    BY <2>1
  <2>2. CASE b <= a
    BY <2>2
  <2> QED
    BY <2>1, <2>2
<1>2. Min({a, b}) \in {a, b} /\ \A y \in {a, b} : Min({a, b}) <= y
  BY <1>1 DEF Min
<1> QED
  BY <1>2

LEMMA EndsPart ==
  ASSUME NEW S, NEW h \in Seq(S), NEW p \in Policy
  PROVE  Ends(h, p) \in Seq(S)
<1>1. Len(h) \in Nat /\ p.first \in Nat /\ p.last \in Nat
  BY LenProperties, PolicyFields
<1>2. CASE p.first = 0
  BY <1>1, <1>2, LatestPart DEF Ends
<1>3. CASE p.first > 0 /\ p.last = 0
  <2> DEFINE m == Min({p.first, Len(h)})
  <2>1. ~ (p.first = 0) /\ (p.first > 0 /\ p.last = 0)
    BY <1>1, <1>3
  <2>2. Ends(h, p) = SubSeq(h, 1, m)
    BY ONLY <2>1, Zenon DEF Ends
  <2>3. m \in Nat /\ m <= Len(h)
    BY <1>1, MinOfTwo
  <2> HIDE DEF m
  <2>4. SubSeq(h, 1, m) \in Seq(S)
    BY <2>3, PrefixOf
  <2> QED
    BY <2>2, <2>4
<1>4. CASE p.first > 0 /\ p.last # 0
  <2>1. CASE Len(h) <= p.first + p.last
    BY <1>1, <1>4, <2>1 DEF Ends
  <2>2. CASE Len(h) > p.first + p.last
    <3>1. ~ (p.first = 0) /\ ~ (p.first > 0 /\ p.last = 0) /\ ~ (Len(h) <= p.first + p.last)
      BY <1>1, <1>4, <2>2
    <3>2. Ends(h, p) = SubSeq(h, 1, p.first) \o Latest(h, p.last)
      BY ONLY <3>1, Zenon DEF Ends
    <3>3. p.first <= Len(h)
      BY <1>1, <2>2
    <3>4. SubSeq(h, 1, p.first) \in Seq(S)
      BY <1>1, <3>3, PrefixOf
    <3>5. Latest(h, p.last) \in Seq(S)
      BY <1>1, LatestPart
    <3> QED
      BY <3>2, <3>4, <3>5, ConcatProperties
  <2> QED
    BY <1>1, <2>1, <2>2
<1> QED
  BY <1>1, <1>2, <1>3, <1>4

LEMMA TrimmedPart ==
  ASSUME NEW S, NEW h \in Seq(S), NEW p \in Policy
  PROVE  Trimmed(h, p) \in Seq(S)
<1>1. p.kind \in {"window", "ends", "tokens", "nothing"} /\ p.last \in Nat
  BY PolicyFields
<1>2. CASE p.kind \in {"window", "tokens"}
  BY <1>1, <1>2, LatestPart DEF Trimmed
<1>3. CASE p.kind = "ends"
  BY <1>3, EndsPart DEF Trimmed
<1>4. CASE p.kind = "nothing"
  BY <1>4, EmptySeq DEF Trimmed
<1> QED
  BY <1>1, <1>2, <1>3, <1>4

LEMMA TrimPart ==
  ASSUME NEW S, NEW h \in Seq(S), setup \in Setups
  PROVE  TrimForRequest(h) \in Seq(S)
<1> DEFINE L == Len(setup.policies)
<1>1. PICK f : Stages(f, L, h) /\ TrimForRequest(h) = f[L]
  BY TrimUnfolds
<1>2. L \in Nat
  BY PoliciesType
<1> DEFINE I == {n \in Nat : n <= L => f[n] \in Seq(S)}
<1>3. 0 \in I
  BY <1>1, <1>2, StagesAt
<1>4. ASSUME NEW n \in Nat, n \in I PROVE n + 1 \in I
  <2> SUFFICES ASSUME n + 1 <= L PROVE f[n + 1] \in Seq(S)
    OBVIOUS
  <2>1. f[n] \in Seq(S) /\ n + 1 \in 1 .. L /\ (n + 1) - 1 = n
    BY <1>2, <1>4
  <2>2. f[n + 1] = Trimmed(f[n], setup.policies[n + 1])
    BY <1>1, <1>2, <2>1, StagesAt
  <2>3. setup.policies[n + 1] \in Policy
    BY <2>1, PoliciesType
  <2> QED
    BY <2>1, <2>2, <2>3, TrimmedPart
<1>5. \A n \in Nat : n \in I
  <2> HIDE DEF I
  <2> QED
    BY <1>3, <1>4, Induction
<1> QED
  BY <1>1, <1>2, <1>5

LEMMA SavePart ==
  ASSUME NEW S, NEW h \in Seq(S), setup \in Setups
  PROVE  TrimForSave(h) \in Seq(S)
BY TrimPart DEF TrimForSave

(***************************************************************************)
(* Without a policy that keeps the first messages, what is left is the end *)
(* of the history: all of it, or the last k.                               *)
(***************************************************************************)
All == -1

Limit == Nat \cup {All}

\* The last k messages.
Keep(h, k) == IF k = All \/ Len(h) <= k THEN h ELSE SubSeq(h, Len(h) - k + 1, Len(h))

\* How many of them one policy keeps.
LimitOf(p) == IF p.kind = "nothing" THEN 0 ELSE IF p.last = 0 THEN All ELSE p.last

\* The stronger of two limits.
Both(j, k) == IF j = All THEN k ELSE IF k = All THEN j ELSE IF j <= k THEN j ELSE k

AtMost(k, j) == j # All => k # All /\ k <= j

LEMMA LimitTypes ==
  ASSUME NEW j \in Limit, NEW k \in Limit
  PROVE  /\ Both(j, k) \in Limit /\ AtMost(Both(j, k), j) /\ AtMost(Both(j, k), k)
         /\ (k # All => k \in Nat) /\ k \in Int
<1>1. j \in Int /\ k \in Int
  BY DEF Limit, All
<1> QED
  BY <1>1 DEF Limit, All, Both, AtMost

LEMMA LimitOfPolicy ==
  ASSUME NEW p \in Policy
  PROVE  LimitOf(p) \in Limit
BY PolicyFields DEF LimitOf, Limit

LEMMA KeepIs ==
  ASSUME NEW S, NEW h \in Seq(S), NEW k \in Limit
  PROVE  /\ Keep(h, k) \in Seq(S)
         /\ Len(h) \in Nat
         /\ k = All \/ Len(h) <= k => Keep(h, k) = h
         /\ k # All /\ k < Len(h) =>
              /\ k \in Nat
              /\ Len(Keep(h, k)) = k
              /\ \A i \in 1 .. k : Keep(h, k)[i] = h[Len(h) - k + i]
<1>1. Len(h) \in Nat /\ k \in Int /\ (k # All => k \in Nat)
  BY LenProperties, LimitTypes
<1>2. k = All \/ Len(h) <= k => Keep(h, k) = h
  BY DEF Keep
<1>3. ASSUME k # All, k < Len(h)
      PROVE  /\ k \in Nat
             /\ Keep(h, k) \in Seq(S)
             /\ Len(Keep(h, k)) = k
             /\ \A i \in 1 .. k : Keep(h, k)[i] = h[Len(h) - k + i]
  <2> DEFINE m == Len(h) - k + 1
             n == Len(h)
  <2>1. k \in Nat /\ m \in Int /\ n \in Int /\ m >= 1
    BY <1>1, <1>3
  <2>2. Keep(h, k) = SubSeq(h, m, n)
    BY <1>1, <1>3 DEF Keep
  <2>3. \A i \in m .. n : h[i] \in S
    <3>1. \A i \in m .. n : i \in 1 .. Len(h)
      BY <1>1, <2>1
    <3> QED
      BY <3>1, ElementOfSeq
  <2>4. n - m + 1 = k /\ \A i \in 1 .. k : m + i - 1 = Len(h) - k + i
    BY <1>1, <2>1
  <2>5. IF m <= n THEN n - m + 1 = k ELSE k = 0
    BY <1>1, <2>1
  <2>6. /\ SubSeq(h, m, n) \in Seq(S)
        /\ Len(SubSeq(h, m, n)) = IF m <= n THEN n - m + 1 ELSE 0
        /\ \A i \in 1 .. n - m + 1 : SubSeq(h, m, n)[i] = h[m + i - 1]
    <3> HIDE DEF m, n
    <3> QED
      BY <2>1, <2>3, SubSeqProperties
  <2> HIDE DEF m, n
  <2> QED
    BY <2>1, <2>2, <2>4, <2>5, <2>6
<1>4. CASE k = All \/ Len(h) <= k
  BY <1>1, <1>2, <1>4
<1>5. CASE k # All /\ k < Len(h)
  BY <1>1, <1>2, <1>3, <1>5
<1> QED
  BY <1>1, <1>4, <1>5

\* One limit after another.
LEMMA KeepTwice ==
  ASSUME NEW S, NEW h \in Seq(S), NEW j \in Limit, NEW k \in Limit
  PROVE  Keep(Keep(h, j), k) = Keep(h, Both(j, k))
<1> DEFINE g == Keep(h, j)
           b == Both(j, k)
<1>1. /\ g \in Seq(S) /\ Len(h) \in Nat /\ Len(g) \in Nat /\ b \in Limit
      /\ j \in Int /\ k \in Int /\ (j # All => j \in Nat) /\ (k # All => k \in Nat)
  BY KeepIs, LimitTypes, LenProperties
<1>2. CASE j = All \/ Len(h) <= j
  <2>1. g = h
    BY <1>2, KeepIs
  <2>2. CASE k = All \/ Len(h) <= k
    <3>1. b = All \/ Len(h) <= b
      BY <1>1, <1>2, <2>2 DEF Both
    <3> QED
      BY <1>1, <2>1, <2>2, <3>1, KeepIs
  <2>3. CASE k # All /\ k < Len(h)
    <3>1. b = k
      BY <1>1, <1>2, <2>3 DEF Both
    <3> QED
      BY <2>1, <3>1
  <2> QED
    BY <1>1, <2>2, <2>3
<1>3. CASE j # All /\ j < Len(h)
  <2>1. Len(g) = j /\ j \in Nat /\ \A i \in 1 .. j : g[i] = h[Len(h) - j + i]
    BY <1>3, KeepIs
  <2>2. CASE k = All \/ j <= k
    <3>1. b = j
      BY <1>1, <1>3, <2>2 DEF Both
    <3>2. Keep(g, k) = g
      BY <1>1, <2>1, <2>2, KeepIs
    <3> QED
      BY <3>1, <3>2
  <2>3. CASE k # All /\ k < j
    <3>1. b = k /\ k \in Nat /\ k < Len(h)
      BY <1>1, <1>3, <2>3 DEF Both
    <3>2. Len(Keep(g, k)) = k /\ Keep(g, k) \in Seq(S) /\ \A i \in 1 .. k : Keep(g, k)[i] = g[Len(g) - k + i]
      BY <1>1, <2>1, <2>3, KeepIs
    <3>3. Len(Keep(h, k)) = k /\ Keep(h, k) \in Seq(S) /\ \A i \in 1 .. k : Keep(h, k)[i] = h[Len(h) - k + i]
      BY <1>1, <2>3, <3>1, KeepIs
    <3>4. ASSUME NEW i \in 1 .. k PROVE Keep(g, k)[i] = Keep(h, k)[i]
      <4>1. j - k + i \in 1 .. j /\ Len(h) - j + (j - k + i) = Len(h) - k + i
        BY <1>1, <2>1, <2>3, <3>1
      <4>2. Keep(g, k)[i] = g[j - k + i]
        BY <2>1, <3>2
      <4>3. g[j - k + i] = h[Len(h) - k + i]
        BY <2>1, <4>1
      <4> QED
        BY <3>3, <4>2, <4>3
    <3>5. Keep(g, k) = Keep(h, k)
      <4> HIDE DEF g, b
      <4> QED
        BY <3>2, <3>3, <3>4, SeqEqual
    <3>6. Keep(h, b) = Keep(h, k)
      BY ONLY <3>1
    <3> QED
      BY ONLY <3>5, <3>6
  <2> QED
    BY <1>1, <2>2, <2>3
<1> QED
  BY <1>1, <1>2, <1>3

\* Two messages more, before the limit or after it.
LEMMA TwoMore ==
  ASSUME NEW S, NEW g \in Seq(S), NEW a \in S, NEW b \in S
  PROVE  /\ Append(Append(g, a), b) = g \o <<a, b>>
         /\ g \o <<a, b>> \in Seq(S)
         /\ Len(g) \in Nat
         /\ Len(g \o <<a, b>>) = Len(g) + 2
         /\ \A i \in 1 .. Len(g) : (g \o <<a, b>>)[i] = g[i]
         /\ (g \o <<a, b>>)[Len(g) + 1] = a
         /\ (g \o <<a, b>>)[Len(g) + 2] = b
<1> DEFINE x == Append(g, a)
           y == Append(x, b)
           p == <<a, b>>
           z == g \o p
<1>1. p \in Seq(S) /\ Len(p) = 2 /\ p[1] = a /\ p[2] = b
  OBVIOUS
<1>2. Len(g) \in Nat
  BY LenProperties
<1>3. x \in Seq(S) /\ Len(x) = Len(g) + 1 /\ (\A i \in 1 .. Len(g) : x[i] = g[i]) /\ x[Len(g) + 1] = a
  BY AppendProperties
<1>4. y \in Seq(S) /\ Len(y) = Len(x) + 1 /\ (\A i \in 1 .. Len(x) : y[i] = x[i]) /\ y[Len(x) + 1] = b
  <2> HIDE DEF x
  <2> QED
    BY <1>3, AppendProperties
<1>5. /\ z \in Seq(S) /\ Len(z) = Len(g) + Len(p)
      /\ \A i \in 1 .. Len(g) + Len(p) : z[i] = IF i <= Len(g) THEN g[i] ELSE p[i - Len(g)]
  <2> HIDE DEF p
  <2> QED
    BY <1>1, ConcatProperties
<1>6. \A i \in 1 .. Len(g) : z[i] = g[i]
  <2> HIDE DEF p, z
  <2> QED
    BY <1>1, <1>2, <1>5
<1>7. z[Len(g) + 1] = a /\ z[Len(g) + 2] = b
  <2> HIDE DEF p, z
  <2>1. Len(g) + 1 \in 1 .. Len(g) + Len(p) /\ Len(g) + 2 \in 1 .. Len(g) + Len(p)
    BY <1>1, <1>2
  <2>2. z[Len(g) + 1] = p[(Len(g) + 1) - Len(g)] /\ z[Len(g) + 2] = p[(Len(g) + 2) - Len(g)]
    BY <1>2, <1>5, <2>1
  <2>3. (Len(g) + 1) - Len(g) = 1 /\ (Len(g) + 2) - Len(g) = 2
    BY <1>2
  <2> QED
    BY <1>1, <2>2, <2>3
<1>8. y = z
  <2> HIDE DEF p, x, y, z
  <2>1. ASSUME NEW i \in 1 .. Len(y) PROVE y[i] = z[i]
    <3>1. CASE i \in 1 .. Len(g)
      <4>1. i \in 1 .. Len(x)
        BY <1>2, <1>3, <3>1
      <4> QED
        BY <1>3, <1>4, <1>6, <3>1, <4>1
    <3>2. CASE i = Len(g) + 1
      <4>1. i \in 1 .. Len(x) /\ i = Len(g) + 1
        BY <1>2, <1>3, <3>2
      <4> QED
        BY <1>3, <1>4, <1>7, <4>1
    <3>3. CASE i = Len(g) + 2
      <4>1. i = Len(x) + 1
        BY <1>2, <1>3, <3>3
      <4> QED
        BY <1>4, <1>7, <4>1, <3>3
    <3> QED
      BY <1>2, <1>3, <1>4, <3>1, <3>2, <3>3
  <2>2. Len(y) = Len(z)
    BY <1>1, <1>2, <1>3, <1>4, <1>5
  <2> QED
    BY <1>4, <1>5, <2>1, <2>2, SeqEqual
<1>9. Len(z) = Len(g) + 2
  <2> HIDE DEF p, z
  <2> QED
    BY <1>1, <1>5
<1> QED
  BY ONLY <1>2, <1>5, <1>6, <1>7, <1>8, <1>9

LEMMA KeepThenAppend ==
  ASSUME NEW S, NEW h \in Seq(S), NEW k \in Limit, NEW a \in S, NEW b \in S
  PROVE  Keep(Append(Append(Keep(h, k), a), b), k) = Keep(h \o <<a, b>>, k)
<1> DEFINE g == Keep(h, k)
           x == g \o <<a, b>>
           y == h \o <<a, b>>
<1>1. g \in Seq(S) /\ Len(h) \in Nat /\ k \in Int /\ (k # All => k \in Nat)
  BY KeepIs, LimitTypes
<1>2. Append(Append(g, a), b) = x
  BY <1>1, TwoMore
<1>3. CASE k = All \/ Len(h) <= k
  <2>1. g = h
    BY <1>3, KeepIs
  <2> QED
    BY <1>2, <2>1
<1>4. CASE k # All /\ k < Len(h)
  <2>1. k \in Nat /\ Len(g) = k /\ \A i \in 1 .. k : g[i] = h[Len(h) - k + i]
    BY <1>4, KeepIs
  <2>2. /\ x \in Seq(S) /\ Len(x) = k + 2 /\ \A i \in 1 .. k : x[i] = g[i]
        /\ x[k + 1] = a /\ x[k + 2] = b
    <3> HIDE DEF g
    <3> QED
      BY <1>1, <2>1, TwoMore
  <2>3. /\ y \in Seq(S) /\ Len(y) = Len(h) + 2 /\ \A i \in 1 .. Len(h) : y[i] = h[i]
        /\ y[Len(h) + 1] = a /\ y[Len(h) + 2] = b
    BY TwoMore
  <2> HIDE DEF g, x, y
  <2>4. Keep(x, k) \in Seq(S) /\ Len(Keep(x, k)) = k /\ \A i \in 1 .. k : Keep(x, k)[i] = x[Len(x) - k + i]
    <3>1. k # All /\ k < Len(x)
      BY <1>4, <2>1, <2>2
    <3>2. x \in Seq(S)
      BY <2>2
    <3> QED
      BY <3>1, <3>2, KeepIs
  <2>5. Keep(y, k) \in Seq(S) /\ Len(Keep(y, k)) = k /\ \A i \in 1 .. k : Keep(y, k)[i] = y[Len(y) - k + i]
    <3>1. k # All /\ k < Len(y)
      BY <1>1, <1>4, <2>1, <2>3
    <3>2. y \in Seq(S)
      BY <2>3
    <3> QED
      BY <3>1, <3>2, KeepIs
  <2>6. ASSUME NEW i \in 1 .. k PROVE Keep(x, k)[i] = Keep(y, k)[i]
    <3>1. /\ Len(x) - k + i = i + 2 /\ Len(y) - k + i = Len(h) - k + i + 2
          /\ i \in Nat /\ i >= 1 /\ i <= k
      BY <1>1, <2>1, <2>2, <2>3
    <3>2. Keep(x, k)[i] = x[i + 2] /\ Keep(y, k)[i] = y[Len(h) - k + i + 2]
      BY <2>4, <2>5, <3>1
    <3>3. CASE i + 2 <= k
      <4>1. i + 2 \in 1 .. k /\ Len(h) - k + (i + 2) = Len(h) - k + i + 2 /\ Len(h) - k + i + 2 \in 1 .. Len(h)
        BY <1>1, <1>4, <2>1, <3>1, <3>3
      <4>2. x[i + 2] = h[Len(h) - k + (i + 2)]
        BY <2>1, <2>2, <4>1
      <4>3. y[Len(h) - k + i + 2] = h[Len(h) - k + i + 2]
        BY <2>3, <4>1
      <4> QED
        BY <3>2, <4>1, <4>2, <4>3
    <3>4. CASE i + 1 = k
      <4>1. i + 2 = k + 1 /\ Len(h) - k + i + 2 = Len(h) + 1
        BY <1>1, <2>1, <3>1, <3>4
      <4> QED
        BY <2>2, <2>3, <3>2, <4>1
    <3>5. CASE i = k
      <4>1. i + 2 = k + 2 /\ Len(h) - k + i + 2 = Len(h) + 2
        BY <1>1, <2>1, <3>1, <3>5
      <4> QED
        BY <2>2, <2>3, <3>2, <4>1
    <3> QED
      BY <2>1, <3>1, <3>3, <3>4, <3>5
  <2>7. Keep(x, k) = Keep(y, k)
    BY <2>4, <2>5, <2>6, SeqEqual
  <2> QED
    BY <1>2, <2>7 DEF g, x, y
<1> QED
  BY <1>1, <1>3, <1>4

\* None of the policies is to keep the first messages.
NoEnds == \A i \in DOMAIN setup.policies : setup.policies[i].kind # "ends"

LEMMA TrimmedKeeps ==
  ASSUME NEW h \in Seq(Message), NEW p \in Policy, p.kind # "ends"
  PROVE  Trimmed(h, p) = Keep(h, LimitOf(p))
<1>1. p.kind \in {"window", "tokens", "nothing"} /\ p.last \in Nat /\ Len(h) \in Nat
  BY PolicyFields, LenProperties
<1>2. CASE p.kind \in {"window", "tokens"}
  <2>1. Trimmed(h, p) = Latest(h, p.last)
    BY <1>2 DEF Trimmed
  <2>2. CASE p.last = 0
    BY <1>2, <2>1, <2>2 DEF Latest, Keep, LimitOf
  <2>3. CASE p.last # 0
    <3>1. LimitOf(p) = p.last /\ p.last # All
      BY <1>1, <1>2, <2>3 DEF LimitOf, All
    <3> QED
      BY <2>1, <2>3, <3>1 DEF Latest, Keep
  <2> QED
    BY <2>2, <2>3
<1>3. CASE p.kind = "nothing"
  <2>1. Trimmed(h, p) = <<>> /\ LimitOf(p) = 0 /\ 0 \in Limit
    BY <1>3 DEF Trimmed, LimitOf, Limit
  <2>2. CASE Len(h) = 0
    <3>1. h = <<>>
      BY <2>2, EmptySeq
    <3>2. Keep(h, 0) = h
      BY <1>1, <2>2 DEF Keep
    <3> QED
      BY <2>1, <3>1, <3>2
  <2>3. CASE Len(h) # 0
    <3>1. Len(Keep(h, 0)) = 0 /\ Keep(h, 0) \in Seq(Message)
      BY <1>1, <2>1, <2>3, KeepIs DEF All
    <3>2. Keep(h, 0) = <<>>
      BY <3>1, EmptySeq
    <3> QED
      BY <2>1, <3>2
  <2> QED
    BY <2>2, <2>3
<1> QED
  BY <1>1, <1>2, <1>3

\* k is what the first n policies come to.
Limited(n, k) ==
  /\ \A h \in Seq(Message) : \A f : Stages(f, Len(setup.policies), h) => f[n] = Keep(h, k)
  /\ \A i \in 1 .. n : AtMost(k, LimitOf(setup.policies[i]))

LEMMA OneMoreLimit ==
  ASSUME setup \in Setups, NoEnds, NEW n \in Nat, n + 1 <= Len(setup.policies),
         NEW k \in Limit, Limited(n, k)
  PROVE  Limited(n + 1, Both(k, LimitOf(setup.policies[n + 1])))
<1> DEFINE p == setup.policies[n + 1]
           L == Len(setup.policies)
           b == Both(k, LimitOf(p))
<1>1. L \in Nat /\ n + 1 \in 1 .. L /\ (n + 1) - 1 = n
  BY PoliciesType
<1>2. p \in Policy /\ p.kind # "ends" /\ LimitOf(p) \in Limit
  BY <1>1, PoliciesType, LimitOfPolicy DEF NoEnds
<1>3. ASSUME NEW h \in Seq(Message), NEW f, Stages(f, L, h) PROVE f[n + 1] = Keep(h, b)
  <2>1. f[n + 1] = Trimmed(f[n], p)
    BY <1>1, <1>3, StagesAt
  <2>2. f[n] = Keep(h, k)
    BY <1>3 DEF Limited
  <2>3. Keep(h, k) \in Seq(Message)
    BY KeepIs
  <2> HIDE DEF p, b
  <2>4. Trimmed(f[n], p) = Keep(Keep(h, k), LimitOf(p))
    BY <1>2, <2>2, <2>3, TrimmedKeeps
  <2>5. Keep(Keep(h, k), LimitOf(p)) = Keep(h, b)
    BY <1>2, KeepTwice DEF b
  <2> QED
    BY <2>1, <2>4, <2>5
<1>4. ASSUME NEW i \in 1 .. n + 1 PROVE AtMost(b, LimitOf(setup.policies[i]))
  <2>1. /\ b \in Limit /\ AtMost(b, k) /\ AtMost(b, LimitOf(p))
    BY <1>2, LimitTypes
  <2>2. CASE i = n + 1
    BY <2>1, <2>2
  <2>3. CASE i \in 1 .. n
    <3>1. AtMost(k, LimitOf(setup.policies[i]))
      BY <2>3 DEF Limited
    <3>2. LimitOf(setup.policies[i]) \in Limit
      <4>1. i \in 1 .. L
        BY <1>1, <2>3
      <4> QED
        BY <4>1, PoliciesType, LimitOfPolicy
    <3> DEFINE l == LimitOf(setup.policies[i])
    <3>3. b \in Int /\ k \in Int /\ l \in Int
      BY <2>1, <3>2, LimitTypes
    <3> HIDE DEF b, l
    <3>4. AtMost(k, l)
      BY <3>1 DEF l
    <3>5. AtMost(b, l)
      BY <2>1, <3>3, <3>4 DEF AtMost
    <3> QED
      BY <3>5 DEF l, b
  <2> QED
    BY <2>2, <2>3
<1> QED
  BY <1>3, <1>4 DEF Limited

\* What a request is asked with is the end of the history, and no longer than any of
\* the policies allows.
LEMMA TrimKeeps ==
  ASSUME setup \in Setups, NoEnds
  PROVE  \E k \in Limit :
           /\ \A h \in Seq(Message) : TrimForRequest(h) = Keep(h, k)
           /\ \A i \in DOMAIN setup.policies : AtMost(k, LimitOf(setup.policies[i]))
<1> DEFINE L == Len(setup.policies)
           I == {n \in Nat : n <= L => \E k \in Limit : Limited(n, k)}
<1>1. L \in Nat /\ DOMAIN setup.policies = 1 .. L
  BY PoliciesType
<1>2. 0 \in I
  <2>1. ASSUME NEW h \in Seq(Message), NEW f, Stages(f, L, h) PROVE f[0] = Keep(h, All)
    BY <1>1, <2>1, StagesAt DEF Keep
  <2>2. Limited(0, All) /\ All \in Limit
    BY <2>1 DEF Limited, Limit
  <2> QED
    BY <2>2
<1>3. ASSUME NEW n \in Nat, n \in I PROVE n + 1 \in I
  <2> SUFFICES ASSUME n + 1 <= L PROVE \E k \in Limit : Limited(n + 1, k)
    OBVIOUS
  <2>1. n <= L
    BY <1>1
  <2>2. PICK k \in Limit : Limited(n, k)
    BY <1>3, <2>1
  <2>3. n + 1 \in 1 .. L
    BY <1>1
  <2>4. LimitOf(setup.policies[n + 1]) \in Limit
    BY <2>3, PoliciesType, LimitOfPolicy
  <2>5. Limited(n + 1, Both(k, LimitOf(setup.policies[n + 1])))
    BY <2>2, OneMoreLimit
  <2>6. Both(k, LimitOf(setup.policies[n + 1])) \in Limit
    BY <2>4, LimitTypes
  <2> QED
    BY <2>5, <2>6
<1>4. \A n \in Nat : n \in I
  <2> HIDE DEF I
  <2> QED
    BY <1>2, <1>3, Induction
<1>5. PICK k \in Limit : Limited(L, k)
  BY <1>1, <1>4
<1>6. ASSUME NEW h \in Seq(Message) PROVE TrimForRequest(h) = Keep(h, k)
  <2>1. PICK f : Stages(f, L, h) /\ TrimForRequest(h) = f[L]
    BY TrimUnfolds
  <2>2. f[L] = Keep(h, k)
    BY <1>5, <2>1 DEF Limited
  <2> QED
    BY <2>1, <2>2
<1>7. \A i \in DOMAIN setup.policies : AtMost(k, LimitOf(setup.policies[i]))
  BY <1>1, <1>5 DEF Limited
<1> QED
  BY <1>6, <1>7

\* Trimming what was trimmed, or what was trimmed to be stored, changes nothing.
LEMMA TrimTwice ==
  ASSUME setup \in Setups, NoEnds, NEW h \in Seq(Message)
  PROVE  TrimForRequest(TrimForRequest(h)) = TrimForRequest(h)
<1>1. PICK k \in Limit : \A g \in Seq(Message) : TrimForRequest(g) = Keep(g, k)
  BY TrimKeeps
<1>2. TrimForRequest(h) = Keep(h, k) /\ Keep(h, k) \in Seq(Message)
  BY <1>1, KeepIs
<1>3. TrimForRequest(Keep(h, k)) = Keep(Keep(h, k), k)
  BY <1>1, <1>2
<1>4. Keep(Keep(h, k), k) = Keep(h, Both(k, k))
  BY KeepTwice
<1>5. Both(k, k) = k
  BY LimitTypes DEF Both
<1> QED
  BY <1>2, <1>3, <1>4, <1>5

LEMMA SaveKeeps ==
  ASSUME setup \in Setups, NoEnds, NEW h \in Seq(Message)
  PROVE  TrimForRequest(TrimForSave(h)) = TrimForRequest(h)
BY TrimTwice DEF TrimForSave

\* A turn more, before or after trimming.
LEMMA TurnMore ==
  ASSUME setup \in Setups, NoEnds, NEW h \in Seq(Message), NEW a \in Message, NEW b \in Message
  PROVE  TrimForRequest(Append(Append(TrimForRequest(h), a), b)) = TrimForRequest(h \o <<a, b>>)
<1>1. PICK k \in Limit : \A g \in Seq(Message) : TrimForRequest(g) = Keep(g, k)
  BY TrimKeeps
<1>2. TrimForRequest(h) = Keep(h, k) /\ Keep(h, k) \in Seq(Message)
  BY <1>1, KeepIs
<1> DEFINE x == Append(Append(Keep(h, k), a), b)
           y == h \o <<a, b>>
<1>3. x \in Seq(Message) /\ y \in Seq(Message)
  BY <1>2, TwoMore
<1>4. Keep(x, k) = Keep(y, k)
  BY KeepThenAppend
<1>5. TrimForRequest(x) = Keep(x, k) /\ TrimForRequest(y) = Keep(y, k)
  <2> HIDE DEF x, y
  <2> QED
    BY <1>1, <1>3
<1> QED
  BY <1>2, <1>4, <1>5

\* The bound, if there is one, is a number of messages that one of the policies keeps.
LEMMA BoundIs ==
  ASSUME setup \in Setups, NoEnds
  PROVE  /\ Bound \in Nat
         /\ Bound # 0 => \E i \in DOMAIN setup.policies : LimitOf(setup.policies[i]) = Bound
<1> DEFINE D == DOMAIN setup.policies
           S == {MaxMessages(setup.policies[i]) : i \in D}
<1>1. CASE setup.policies = <<>>
  BY <1>1 DEF Bound
<1>2. CASE setup.policies # <<>>
  <2>1. D # {} /\ \A i \in D : setup.policies[i] \in Policy
    <3>1. D = 1 .. Len(setup.policies) /\ Len(setup.policies) \in Nat \ {0}
      BY <1>2, PoliciesType, EmptySeq
    <3> QED
      BY <3>1, PoliciesType
  <2>2. ASSUME NEW i \in D
        PROVE  /\ MaxMessages(setup.policies[i]) \in Nat
               /\ MaxMessages(setup.policies[i]) # 0 =>
                    LimitOf(setup.policies[i]) = MaxMessages(setup.policies[i])
    <3> DEFINE p == setup.policies[i]
    <3>1. p \in Policy /\ p.kind # "ends"
      BY <2>1 DEF NoEnds
    <3> HIDE DEF p
    <3>2. p.kind \in {"window", "tokens", "nothing"} /\ p.last \in Nat
      BY <3>1, PolicyFields
    <3>3. MaxMessages(p) = IF p.kind = "window" THEN p.last ELSE 0
      BY <3>2 DEF MaxMessages
    <3>4. /\ MaxMessages(p) \in Nat
          /\ MaxMessages(p) # 0 => LimitOf(p) = MaxMessages(p)
      BY <3>2, <3>3 DEF LimitOf
    <3> QED
      BY <3>4 DEF p
  <2>3. S \subseteq Nat /\ S # {}
    BY <2>1, <2>2
  <2>4. Min(S) \in S
    <3> HIDE DEF S
    <3>1. \E x \in S : \A y \in S : x <= y
      BY <2>3, Least
    <3> QED
      BY <3>1 DEF Min
  <2>5. Bound = Min(S)
    BY <1>2 DEF Bound
  <2>6. PICK i \in D : Bound = MaxMessages(setup.policies[i])
    BY <2>4, <2>5
  <2> QED
    BY <2>2, <2>6
<1> QED
  BY <1>1, <1>2

LEMMA BoundNat ==
  ASSUME setup \in Setups
  PROVE  Bound \in Nat
<1> DEFINE D == DOMAIN setup.policies
           S == {MaxMessages(setup.policies[i]) : i \in D}
<1>1. CASE setup.policies = <<>>
  BY <1>1 DEF Bound
<1>2. CASE setup.policies # <<>>
  <2>1. D # {} /\ \A i \in D : setup.policies[i] \in Policy
    <3>1. D = 1 .. Len(setup.policies) /\ Len(setup.policies) \in Nat \ {0}
      BY <1>2, PoliciesType, EmptySeq
    <3> QED
      BY <3>1, PoliciesType
  <2>2. ASSUME NEW p \in Policy PROVE MaxMessages(p) \in Nat
    BY PolicyFields DEF MaxMessages
  <2>3. S \subseteq Nat /\ S # {}
    BY <2>1, <2>2
  <2>4. Min(S) \in S
    <3> HIDE DEF S
    <3>1. \E x \in S : \A y \in S : x <= y
      BY <2>3, Least
    <3> QED
      BY <3>1 DEF Min
  <2>5. Bound = Min(S)
    BY <1>2 DEF Bound
  <2> QED
    BY <2>3, <2>4, <2>5
<1> QED
  BY <1>1, <1>2

\* What is loaded is enough for what the policies keep.
LEMMA LoadKeeps ==
  ASSUME setup \in Setups, NoEnds, memory \in Seq(Message)
  PROVE  TrimForRequest(Loaded(IF setup.bounded THEN Bound ELSE 0)) = TrimForRequest(memory)
<1> DEFINE n == IF setup.bounded THEN Bound ELSE 0
<1>1. n \in Nat
  BY BoundIs
<1>2. CASE n = 0
  BY <1>2 DEF Loaded, Latest
<1>3. CASE n # 0
  <2>1. setup.bounded /\ n = Bound /\ Bound # 0
    BY <1>3
  <2>2. PICK i \in DOMAIN setup.policies : LimitOf(setup.policies[i]) = n
    BY <2>1, BoundIs
  <2>3. PICK k \in Limit : /\ \A g \in Seq(Message) : TrimForRequest(g) = Keep(g, k)
                           /\ AtMost(k, LimitOf(setup.policies[i]))
    BY TrimKeeps
  <2> HIDE DEF n
  <2>4. n \in Limit /\ n # All
    BY <1>1 DEF Limit, All
  <2>5. Loaded(n) = Keep(memory, n)
    BY <1>3, <2>4 DEF Loaded, Latest, Keep
  <2>6. Keep(memory, n) \in Seq(Message)
    BY <2>4, KeepIs
  <2>7. Both(n, k) = k
    <3>1. k # All /\ k <= n /\ k \in Int
      BY <2>2, <2>3, <2>4, LimitTypes DEF AtMost
    <3> QED
      BY <1>1, <2>4, <3>1 DEF Both
  <2>8. Keep(Keep(memory, n), k) = Keep(memory, k)
    BY <2>4, <2>7, KeepTwice
  <2>9. TrimForRequest(Loaded(n)) = TrimForRequest(memory)
    BY <2>3, <2>5, <2>6, <2>8
  <2> QED
    BY <2>9 DEF n
<1> QED
  BY <1>1, <1>2, <1>3

\* Without a policy everything is kept.
LEMMA NoPolicy ==
  ASSUME setup \in Setups, setup.policies = <<>>, NEW h
  PROVE  NoEnds /\ TrimForRequest(h) = h
<1>1. Len(setup.policies) = 0 /\ DOMAIN setup.policies = 1 .. 0
  BY PoliciesType, EmptySeq
<1>2. PICK f : Stages(f, 0, h) /\ TrimForRequest(h) = f[0]
  BY <1>1, TrimUnfolds
<1>3. f[0] = h
  BY <1>2, StagesAt
<1> QED
  BY <1>1, <1>2, <1>3 DEF NoEnds

(***************************************************************************)
(* The invariant: who has been saved and what they were asked with.        *)
(***************************************************************************)
\* A turn that has saved nothing yet, one that holds what it asks, one that saves.
Before == {"idle", "load", "loadWait", "generate", "reading", "emit", "usage"}
Asking == {"generate", "reading", "emit", "usage"}
Saving == {"save", "saveWait"}
Resting == {"idle", "done"}

\* What is kept of a response is whole, unless its turn was cancelled.
Sound == {m \in Message : m.whole \/ turn[m.turn].cancelled}

Wholes ==
  /\ memory \in Seq(Sound)
  /\ \A t \in Turns : turn[t].msgs \in Seq(Sound) /\ (turn[t].cut => turn[t].cancelled)

\* What each turn says of itself is true of the memory.
Stored ==
  \A t \in Turns :
    /\ turn[t].pc \in Before => t \notin saved
    /\ turn[t].pc = "done" =>
         /\ turn[t].err \in {"load", "source", "dropped"} => t \notin saved
         /\ turn[t].err = "nil" => t \in saved

\* As long as no two turns have been active at the same time:
Single == alone => \A t, u \in Turns : turn[t].pc \notin Resting /\ turn[u].pc \notin Resting => t = u

\* the policy makes the same of what is stored as of all that was said,
Told == alone /\ NoEnds => TrimForRequest(memory) = TrimForRequest(log)

\* a turn that is not yet saved holds what the policy makes of that, and its own,
Prompts ==
  alone /\ NoEnds =>
    \A t \in Turns : turn[t].pc \in Asking \cup Saving /\ t \notin saved => turn[t].msgs = Promised(t)

\* and one that is saved, but does not know it, finds its own history in the memory.
Again == alone => \A t \in Turns : turn[t].pc \in Saving /\ t \in saved => memory = TrimForSave(NextHistory(t))

IInv == TypeOK /\ Wholes /\ Stored /\ Single /\ Told /\ Prompts /\ Again

(***************************************************************************)
(* The types.                                                              *)
(***************************************************************************)
LEMMA TurnFields ==
  ASSUME NEW r \in Turn
  PROVE  /\ r.pc \in Before \cup Saving \cup {"done"}
         /\ r.stream \in BOOLEAN /\ r.cancelled \in BOOLEAN /\ r.cut \in BOOLEAN
         /\ r.msgs \in Seq(Message) /\ r.tries \in Nat
         /\ r.got \in 0 .. MaxText /\ r.room \in 0 .. OutSize
         /\ r.err \in {"nil", "ctx", "load", "source", "save", "dropped"}
BY DEF Turn, Before, Saving

LEMMA TurnOf ==
  ASSUME TypeOK, NEW t \in Turns
  PROVE  turn[t] \in Turn /\ turn[t].tries < setup.attempts
BY DEF TypeOK

LEMMA UserType ==
  ASSUME NEW t \in Turns
  PROVE  User(t) \in Message /\ User(t).whole = TRUE /\ User(t).turn = t
BY DEF User, Message

LEMMA ResponseType ==
  ASSUME TypeOK, NEW t \in Turns
  PROVE  Response(t) \in Message /\ Response(t).whole = ~turn[t].cut /\ Response(t).turn = t
<1>1. turn[t].cut \in BOOLEAN
  BY TurnOf, TurnFields
<1>2. (~turn[t].cut) \in BOOLEAN
  BY <1>1
<1> DEFINE w == ~turn[t].cut
<1>3. [by |-> "assistant", turn |-> t, whole |-> w] \in Message
  <2> HIDE DEF w
  <2>1. w \in BOOLEAN
    BY <1>2 DEF w
  <2> QED
    BY <2>1 DEF Message
<1> QED
  BY <1>3 DEF Response

LEMMA NewTurnType ==
  /\ NewTurn \in Turn /\ NewTurn.pc = "idle" /\ NewTurn.cut = FALSE /\ NewTurn.msgs = <<>>
  /\ NewTurn.tries = 0 /\ NewTurn.cancelled = FALSE /\ NewTurn.err = "nil"
<1>1. <<>> \in Seq(Message) /\ 0 \in Nat /\ 0 \in 0 .. MaxText /\ OutSize \in 0 .. OutSize
  BY EmptySeq, AgentBounds
<1> QED
  BY <1>1 DEF NewTurn, Turn

\* A turn that has come to its end.
Ended(c, e) == [NewTurn EXCEPT !.pc = "done", !.err = e, !.cancelled = c]

LEMMA EndedType ==
  ASSUME NEW c \in BOOLEAN, NEW e \in {"nil", "ctx", "load", "source", "save", "dropped"}
  PROVE  /\ Ended(c, e) \in Turn /\ Ended(c, e).pc = "done" /\ Ended(c, e).cut = FALSE
         /\ Ended(c, e).msgs = <<>> /\ Ended(c, e).tries = 0 /\ Ended(c, e).cancelled = c
         /\ Ended(c, e).err = e
BY NewTurnType DEF Ended, Turn

LEMMA FinishIs ==
  ASSUME NEW t, NEW e, Finish(t, e)
  PROVE  turn' = [turn EXCEPT ![t] = Ended(turn[t].cancelled, e)]
BY DEF Finish, Ended

(***************************************************************************)
(* How a turn goes on, from r to e, when it does not store anything.       *)
(***************************************************************************)
Goes(r, e) ==
  /\ e \in Turn
  /\ r.cancelled => e.cancelled
  /\ e.cut => e.cancelled
  /\ e.msgs \in {r.msgs, <<>>}
  /\ e.pc \in Before => r.pc \in Before
  /\ e.pc = "done" =>
       \/ r.pc = "done" /\ e.err = r.err
       \/ e.err # "nil" /\ (e.err \in {"load", "source", "dropped"} => r.pc \in Before)
  /\ e.pc \notin Resting => r.pc \notin Resting
  /\ e.pc \in Asking => r.pc \in Asking /\ e.msgs = r.msgs
  /\ e.pc \in Saving => r.pc \in Asking \cup Saving /\ e.msgs = r.msgs /\ (r.pc \in Saving => e.cut = r.cut)

Quiet(t, e) ==
  /\ OnlyTurn /\ turn' = [turn EXCEPT ![t] = e]
  /\ Goes(turn[t], e) /\ e.tries < setup.attempts

\* A turn ends.
LEMMA GoesToEnd ==
  ASSUME NEW r \in Turn, NEW x \in {"nil", "ctx", "load", "source", "save", "dropped"},
         x # "nil", x \in {"load", "source", "dropped"} => r.pc \in Before
  PROVE  Goes(r, Ended(r.cancelled, x))
<1>1. r.cancelled \in BOOLEAN
  BY TurnFields
<1> DEFINE c == r.cancelled
           e == Ended(c, x)
<1>2. c \in BOOLEAN
  BY <1>1
<1>3. /\ e \in Turn /\ e.pc = "done" /\ e.cut = FALSE
      /\ e.msgs = <<>> /\ e.cancelled = c /\ e.err = x
  <2> HIDE DEF c
  <2>1. x \in {"nil", "ctx", "load", "source", "save", "dropped"}
    OBVIOUS
  <2> QED
    BY ONLY <1>2, <2>1, EndedType, Zenon
<1> HIDE DEF e
<1>4. Goes(r, e)
  BY <1>3 DEF Goes, Before, Asking, Saving, Resting
<1> QED
  BY <1>4 DEF e

\* A turn moves on, and what it holds stays the same.
LEMMA GoesOn ==
  ASSUME NEW r \in Turn, NEW e \in Turn,
         e.cancelled = r.cancelled, e.cut = r.cut, r.cut => r.cancelled, e.msgs = r.msgs,
         \/ e.pc = r.pc /\ e.err = r.err
         \/ e.pc \in {"load", "loadWait"} /\ r.pc \in {"load", "loadWait"}
         \/ e.pc \in Asking \cup Saving /\ r.pc \in Asking
         \/ e.pc \in Saving /\ r.pc \in Saving
  PROVE  Goes(r, e)
<1>1. r.pc \in Before \cup Saving \cup {"done"} /\ e.pc \in Before \cup Saving \cup {"done"}
  BY TurnFields
<1> QED
  BY <1>1 DEF Goes, Before, Asking, Saving, Resting

(***************************************************************************)
(* Every action but Begin, LoadMessages and a Save that takes effect is    *)
(* such a step.                                                            *)
(***************************************************************************)
LEMMA CutCancelled ==
  ASSUME Wholes, NEW t \in Turns
  PROVE  turn[t].cut => turn[t].cancelled
BY DEF Wholes

LEMMA EndsQuietly ==
  ASSUME TypeOK, setup \in Setups, NEW t \in Turns, NEW x \in {"nil", "ctx", "load", "source", "save", "dropped"},
         Finish(t, x), OnlyTurn,
         x # "nil", x \in {"load", "source", "dropped"} => turn[t].pc \in Before
  PROVE  \E e : Quiet(t, e)
<1> DEFINE e == Ended(turn[t].cancelled, x)
<1>1. turn[t] \in Turn /\ turn[t].cancelled \in BOOLEAN
  BY TurnOf, TurnFields
<1>2. turn' = [turn EXCEPT ![t] = e]
  BY FinishIs
<1>3. Goes(turn[t], e)
  BY <1>1, GoesToEnd
<1>4. e.tries = 0
  BY <1>1, EndedType
<1>5. 0 < setup.attempts
  BY PoliciesType
<1> HIDE DEF e
<1> QED
  BY <1>2, <1>3, <1>4, <1>5 DEF Quiet

LEMMA MovesQuietly ==
  ASSUME TypeOK, Wholes, NEW t \in Turns, NEW e \in Turn, OnlyTurn, turn' = [turn EXCEPT ![t] = e],
         e.tries < setup.attempts,
         e.cancelled = turn[t].cancelled, e.cut = turn[t].cut, e.msgs = turn[t].msgs,
         \/ e.pc = turn[t].pc /\ e.err = turn[t].err
         \/ e.pc \in {"load", "loadWait"} /\ turn[t].pc \in {"load", "loadWait"}
         \/ e.pc \in Asking \cup Saving /\ turn[t].pc \in Asking
         \/ e.pc \in Saving /\ turn[t].pc \in Saving
  PROVE  \E x : Quiet(t, x)
<1>1. turn[t] \in Turn
  BY TurnOf
<1>2. turn[t].cut => turn[t].cancelled
  BY CutCancelled
<1>3. Goes(turn[t], e)
  BY <1>1, <1>2, GoesOn
<1> QED
  BY <1>3 DEF Quiet

\* The places a turn can be at.
Places == {"idle", "load", "loadWait", "generate", "reading", "emit", "usage", "save", "saveWait", "done"}

\* Each attempt.
LEMMA RetryQuietly ==
  ASSUME TypeOK, Wholes, NEW t \in Turns, OnlyTurn,
         NEW wait, NEW x,
         \/ wait = "loadWait" /\ x = "load" /\ turn[t].pc = "load"
         \/ wait = "saveWait" /\ x = "save" /\ turn[t].pc = "save",
         Retries(t, wait, x)
  PROVE  \E e : Quiet(t, e)
<1>1. turn[t] \in Turn /\ turn[t].tries \in Nat /\ setup \in Setups
  BY TurnOf, TurnFields DEF TypeOK
<1>2. CASE turn[t].tries + 1 < setup.attempts
  <2> DEFINE n == turn[t].tries + 1
             r == turn[t]
             e == [r EXCEPT !.pc = wait, !.tries = n]
  <2>1. n \in Nat /\ wait \in Places
    BY <1>1 DEF Places
  <2>2. turn' = [turn EXCEPT ![t] = e]
    BY <1>2 DEF Retries
  <2>3. /\ e \in Turn /\ e.pc = wait /\ e.cancelled = r.cancelled /\ e.cut = r.cut
        /\ e.msgs = r.msgs /\ e.tries = n
    <3>1. r \in Turn
      BY <1>1
    <3> HIDE DEF n, r
    <3> QED
      BY ONLY <2>1, <3>1 DEF Turn, Places
  <2>4. e.tries < setup.attempts
    BY <1>2, <2>3
  <2> HIDE DEF e, n
  <2>5. \/ e.pc \in {"load", "loadWait"} /\ turn[t].pc \in {"load", "loadWait"}
        \/ e.pc \in Saving /\ turn[t].pc \in Saving
    BY <2>3 DEF Saving
  <2> QED
    BY <2>2, <2>3, <2>4, <2>5, MovesQuietly
<1>3. CASE ~ (turn[t].tries + 1 < setup.attempts)
  <2>1. Finish(t, x)
    BY <1>3 DEF Retries
  <2>2. x \in {"load", "source", "dropped"} => turn[t].pc \in Before
    BY DEF Before
  <2>3. x \in {"nil", "ctx", "load", "source", "save", "dropped"} /\ x # "nil"
    OBVIOUS
  <2> QED
    BY <1>1, <2>1, <2>2, <2>3, EndsQuietly
<1> QED
  BY <1>2, <1>3

LEMMA GenerateQuiet ==
  ASSUME TypeOK, Wholes, NEW t \in Turns, Generate(t)
  PROVE  \E e : Quiet(t, e)
<1> DEFINE r == turn[t]
           e == [r EXCEPT !.pc = "reading"]
<1>1. r \in Turn /\ r.tries < setup.attempts
  BY TurnOf
<1>2. turn' = [turn EXCEPT ![t] = e]
  BY DEF Generate
<1>3. OnlyTurn /\ r.pc = "generate"
  BY DEF Generate
<1>4. /\ e \in Turn /\ e.cancelled = r.cancelled /\ e.cut = r.cut /\ e.msgs = r.msgs
      /\ e.tries = r.tries /\ e.err = r.err /\ e.pc = "reading"
  <2> HIDE DEF r
  <2> QED
    BY ONLY <1>1, <1>3, AgentBounds DEF Turn, Saving, Asking
<1> HIDE DEF e
<1>5. \/ e.pc = r.pc /\ e.err = r.err
      \/ e.pc \in {"load", "loadWait"} /\ r.pc \in {"load", "loadWait"}
      \/ e.pc \in Asking \cup Saving /\ r.pc \in Asking
      \/ e.pc \in Saving /\ r.pc \in Saving
  BY <1>3, <1>4 DEF Asking, Saving, Generate
<1> QED
  BY <1>1, <1>2, <1>3, <1>4, <1>5, MovesQuietly

LEMMA ReadTextQuiet ==
  ASSUME TypeOK, Wholes, NEW t \in Turns, ReadText(t)
  PROVE  \E e : Quiet(t, e)
<1> DEFINE r == turn[t]
           n == r.got + 1
           p == IF r.stream THEN "emit" ELSE r.pc
           e == [r EXCEPT !.got = n, !.pc = p]
<1>1. r \in Turn /\ r.tries < setup.attempts
  BY TurnOf
<1>2. turn' = [turn EXCEPT ![t] = e]
  BY DEF ReadText
<1>3. OnlyTurn /\ r.pc = "reading" /\ r.got < MaxText
  BY <1>1, TurnFields DEF ReadText
<1>4. /\ e \in Turn /\ e.cancelled = r.cancelled /\ e.cut = r.cut /\ e.msgs = r.msgs
      /\ e.tries = r.tries /\ e.err = r.err /\ e.pc = p
  <2>1. n \in 0 .. MaxText
    <3>1. r.got \in 0 .. MaxText
      BY <1>1, TurnFields
    <3> HIDE DEF r
    <3> QED
      BY <1>3, <3>1, AgentBounds
  <2>2. p \in {"reading", "emit"}
    BY <1>3
  <2> HIDE DEF r, n, p
  <2> QED
    BY ONLY <1>1, <2>1, <2>2 DEF Turn
<1> HIDE DEF e
<1>5. \/ e.pc = r.pc /\ e.err = r.err
      \/ e.pc \in {"load", "loadWait"} /\ r.pc \in {"load", "loadWait"}
      \/ e.pc \in Asking \cup Saving /\ r.pc \in Asking
      \/ e.pc \in Saving /\ r.pc \in Saving
  BY <1>3, <1>4 DEF Asking, Saving, ReadText
<1> QED
  BY <1>1, <1>2, <1>3, <1>4, <1>5, MovesQuietly

LEMMA EmitQuiet ==
  ASSUME TypeOK, Wholes, NEW t \in Turns, Emit(t)
  PROVE  \E e : Quiet(t, e)
<1> DEFINE r == turn[t]
           n == r.room - 1
           e == [r EXCEPT !.pc = "reading", !.room = n]
<1>1. r \in Turn /\ r.tries < setup.attempts
  BY TurnOf
<1>2. turn' = [turn EXCEPT ![t] = e]
  BY DEF Emit, HasRoom
<1>3. OnlyTurn /\ r.pc = "emit" /\ r.room > 0
  BY DEF Emit, HasRoom
<1>4. /\ e \in Turn /\ e.cancelled = r.cancelled /\ e.cut = r.cut /\ e.msgs = r.msgs
      /\ e.tries = r.tries /\ e.err = r.err /\ e.pc = "reading"
  <2>1. n \in 0 .. OutSize
    <3>1. r.room \in 0 .. OutSize
      BY <1>1, TurnFields
    <3> HIDE DEF r
    <3> QED
      BY <1>3, <3>1, AgentBounds
  <2> HIDE DEF r, n
  <2> QED
    BY ONLY <1>1, <2>1 DEF Turn
<1> HIDE DEF e
<1>5. \/ e.pc = r.pc /\ e.err = r.err
      \/ e.pc \in {"load", "loadWait"} /\ r.pc \in {"load", "loadWait"}
      \/ e.pc \in Asking \cup Saving /\ r.pc \in Asking
      \/ e.pc \in Saving /\ r.pc \in Saving
  BY <1>3, <1>4 DEF Asking, Saving, Emit
<1> QED
  BY <1>1, <1>2, <1>3, <1>4, <1>5, MovesQuietly

LEMMA ReceiveQuiet ==
  ASSUME TypeOK, Wholes, NEW t \in Turns, Receive(t)
  PROVE  \E e : Quiet(t, e)
<1> DEFINE r == turn[t]
           e == [r EXCEPT !.room = r.room + 1]
<1>1. r \in Turn /\ r.tries < setup.attempts
  BY TurnOf
<1>2. turn' = [turn EXCEPT ![t] = e]
  BY DEF Receive
<1>3. OnlyTurn /\ r.room < OutSize
  BY <1>1, TurnFields DEF Receive
<1>4. /\ e \in Turn /\ e.cancelled = r.cancelled /\ e.cut = r.cut /\ e.msgs = r.msgs
      /\ e.tries = r.tries /\ e.err = r.err /\ e.pc = r.pc
  <2> HIDE DEF r
  <2> QED
    BY ONLY <1>1, <1>3, AgentBounds DEF Turn, Saving, Asking
<1> HIDE DEF e
<1>5. \/ e.pc = r.pc /\ e.err = r.err
      \/ e.pc \in {"load", "loadWait"} /\ r.pc \in {"load", "loadWait"}
      \/ e.pc \in Asking \cup Saving /\ r.pc \in Asking
      \/ e.pc \in Saving /\ r.pc \in Saving
  BY <1>3, <1>4 DEF Asking, Saving, Receive
<1> QED
  BY <1>1, <1>2, <1>3, <1>4, <1>5, MovesQuietly

LEMMA EmitUsageQuiet ==
  ASSUME TypeOK, Wholes, NEW t \in Turns, EmitUsage(t)
  PROVE  \E e : Quiet(t, e)
<1> DEFINE r == turn[t]
<1>1. r \in Turn /\ r.tries < setup.attempts
  BY TurnOf
<1>2. PICK n \in {r.room, r.room - 1} :
        /\ n = r.room - 1 => r.room > 0
        /\ turn' = [turn EXCEPT ![t] = [r EXCEPT !.pc = "save", !.room = n]]
  <2>1. r.room \in 0 .. OutSize /\ [r EXCEPT !.pc = "save", !.room = r.room] = [r EXCEPT !.pc = "save"]
    <3> HIDE DEF r
    <3> QED
      BY ONLY <1>1 DEF Turn
  <2>2. CASE HasRoom(t) /\ turn' = [turn EXCEPT ![t].pc = "save", ![t].room = @ - 1]
    BY <2>2 DEF HasRoom
  <2>3. CASE turn' = [turn EXCEPT ![t].pc = "save"]
    <3>1. turn' = [turn EXCEPT ![t] = [r EXCEPT !.pc = "save", !.room = r.room]]
      BY <2>1, <2>3
    <3>2. r.room = r.room - 1 => r.room > 0
      BY <2>1
    <3> QED
      BY <3>1, <3>2
  <2> QED
    BY <2>2, <2>3 DEF EmitUsage
<1> DEFINE e == [r EXCEPT !.pc = "save", !.room = n]
<1>3. OnlyTurn /\ r.pc = "usage"
  BY DEF EmitUsage
<1>4. /\ e \in Turn /\ e.cancelled = r.cancelled /\ e.cut = r.cut /\ e.msgs = r.msgs
      /\ e.tries = r.tries /\ e.pc = "save"
  <2>1. n \in 0 .. OutSize
    <3>1. r.room \in 0 .. OutSize
      BY <1>1, TurnFields
    <3> HIDE DEF r
    <3> QED
      BY <1>2, <3>1, AgentBounds
  <2> HIDE DEF r
  <2> QED
    BY ONLY <1>1, <2>1 DEF Turn
<1>5. e.pc \in Saving /\ r.pc \in Asking
  BY <1>3, <1>4 DEF Asking, Saving
<1> HIDE DEF e
<1>6. turn' = [turn EXCEPT ![t] = e]
  BY <1>2 DEF e
<1> QED
  BY <1>1, <1>3, <1>4, <1>5, <1>6, MovesQuietly

LEMMA BackoffQuiet ==
  ASSUME TypeOK, Wholes, NEW t \in Turns, Backoff(t)
  PROVE  \E e : Quiet(t, e)
<1> DEFINE r == turn[t]
<1>1. r \in Turn /\ r.tries < setup.attempts /\ setup \in Setups
  BY TurnOf DEF TypeOK
<1>2. OnlyTurn /\ r.pc \in {"loadWait", "saveWait"}
  BY DEF Backoff
<1>3. CASE turn' = [turn EXCEPT ![t].pc = IF @ = "loadWait" THEN "load" ELSE "save"]
  <2> DEFINE p == IF r.pc = "loadWait" THEN "load" ELSE "save"
             e == [r EXCEPT !.pc = p]
  <2>1. turn' = [turn EXCEPT ![t] = e]
    BY <1>3
  <2>2. p \in {"load", "save"}
    OBVIOUS
  <2>3. /\ e \in Turn /\ e.cancelled = r.cancelled /\ e.cut = r.cut /\ e.msgs = r.msgs
        /\ e.tries = r.tries /\ e.pc = p
    <3> HIDE DEF r, p
    <3> QED
      BY ONLY <1>1, <2>2 DEF Turn
  <2> HIDE DEF e
  <2>4. \/ e.pc \in {"load", "loadWait"} /\ r.pc \in {"load", "loadWait"}
        \/ e.pc \in Saving /\ r.pc \in Saving
    BY <1>2, <2>3 DEF Saving
  <2> QED
    BY <1>1, <1>2, <2>1, <2>3, <2>4, MovesQuietly
<1>4. CASE turn[t].cancelled /\ Finish(t, "ctx")
  <2>1. \E e : Quiet(t, e)
    BY <1>1, <1>2, <1>4, EndsQuietly
  <2> QED
    BY <2>1
<1> QED
  BY <1>3, <1>4 DEF Backoff

LEMMA CancelQuiet ==
  ASSUME TypeOK, Wholes, NEW t \in Turns, Cancel(t)
  PROVE  \E e : Quiet(t, e)
<1> DEFINE r == turn[t]
           e == [r EXCEPT !.cancelled = TRUE]
<1>1. r \in Turn /\ r.tries < setup.attempts
  BY TurnOf
<1>2. turn' = [turn EXCEPT ![t] = e] /\ OnlyTurn
  BY DEF Cancel
<1>3. /\ e \in Turn /\ e.cancelled = TRUE /\ e.cut = r.cut /\ e.msgs = r.msgs
      /\ e.tries = r.tries /\ e.pc = r.pc /\ e.err = r.err
  <2> HIDE DEF r
  <2> QED
    BY ONLY <1>1 DEF Turn
<1> HIDE DEF e
<1>4. r.pc \in Before \cup Saving \cup {"done"}
  BY <1>1, TurnFields
<1>5. r.pc \in Asking => r.pc \in Before
  BY DEF Asking, Before
<1>6. Goes(r, e)
  BY <1>3, <1>4, <1>5 DEF Goes
<1> QED
  BY <1>1, <1>2, <1>3, <1>6 DEF Quiet

LEMMA ReadEndQuiet ==
  ASSUME TypeOK, Wholes, NEW t \in Turns, ReadEnd(t)
  PROVE  \E e : Quiet(t, e)
<1> DEFINE r == turn[t]
           p == AfterText(t)
<1>1. r \in Turn /\ r.tries < setup.attempts /\ r.cancelled \in BOOLEAN
  BY TurnOf, TurnFields
<1>2. OnlyTurn /\ r.pc = "reading"
  BY DEF ReadEnd
<1>3. PICK c \in {FALSE, r.cancelled} : turn' = [turn EXCEPT ![t] = [r EXCEPT !.pc = p, !.cut = c]]
  BY DEF ReadEnd
<1> DEFINE e == [r EXCEPT !.pc = p, !.cut = c]
<1>4. p \in {"usage", "save"} /\ c \in BOOLEAN /\ (c => r.cancelled)
  BY <1>1 DEF AfterText
<1>5. /\ e \in Turn /\ e.cancelled = r.cancelled /\ e.cut = c /\ e.msgs = r.msgs
      /\ e.tries = r.tries /\ e.pc = p
  <2> HIDE DEF r, p
  <2> QED
    BY ONLY <1>1, <1>4 DEF Turn
<1> HIDE DEF e
<1>6. turn' = [turn EXCEPT ![t] = e]
  BY <1>3 DEF e
<1>7. Goes(r, e)
  <2> HIDE DEF r, p
  <2> QED
    BY <1>2, <1>4, <1>5 DEF Goes, Before, Asking, Saving, Resting
<1> QED
  BY <1>1, <1>2, <1>5, <1>6, <1>7 DEF Quiet

\* The ends.
LEMMA LoadFailsQuiet ==
  ASSUME TypeOK, Wholes, NEW t \in Turns, LoadFails(t)
  PROVE  \E e : Quiet(t, e)
BY RetryQuietly DEF LoadFails

LEMMA SaveFailsQuiet ==
  ASSUME TypeOK, Wholes, NEW t \in Turns, turn[t].pc = "save", SaveError(t), OnlyTurn
  PROVE  \E e : Quiet(t, e)
BY RetryQuietly DEF SaveError

LEMMA EndQuiet ==
  ASSUME TypeOK, NEW t \in Turns, GenerateFails(t) \/ ReadFails(t) \/ ReadCancelled(t) \/ EmitFails(t)
  PROVE  \E e : Quiet(t, e)
<1>1. setup \in Setups
  BY DEF TypeOK
<1>2. CASE GenerateFails(t)
  <2>1. turn[t].pc \in Before /\ Finish(t, "source") /\ OnlyTurn
    BY <1>2 DEF GenerateFails, Before
  <2> QED
    BY <1>1, <2>1, EndsQuietly
<1>3. CASE ReadFails(t)
  <2>1. turn[t].pc \in Before /\ Finish(t, "source") /\ OnlyTurn
    BY <1>3 DEF ReadFails, Broken, Before
  <2> QED
    BY <1>1, <2>1, EndsQuietly
<1>4. CASE ReadCancelled(t)
  <2>1. Finish(t, "ctx") /\ OnlyTurn
    BY <1>4 DEF ReadCancelled
  <2> QED
    BY <1>1, <2>1, EndsQuietly
<1>5. CASE EmitFails(t)
  <2>1. turn[t].pc \in Before /\ Finish(t, "dropped") /\ OnlyTurn
    BY <1>5 DEF EmitFails, Before
  <2> QED
    BY <1>1, <2>1, EndsQuietly
<1> QED
  BY <1>2, <1>3, <1>4, <1>5

(***************************************************************************)
(* The invariant holds after each step.  First the parts that every step   *)
(* keeps in the same way.                                                  *)
(***************************************************************************)
LEMMA TypeStep ==
  ASSUME TypeOK, NEW t \in Turns, NEW e \in Turn, turn' = [turn EXCEPT ![t] = e],
         e.tries < setup.attempts, setup' = setup,
         memory' \in Seq(Message), log' \in Seq(Message), saved' \subseteq Turns, alone' \in BOOLEAN
  PROVE  TypeOK'
<1>1. turn \in [Turns -> Turn] /\ setup \in Setups
  BY DEF TypeOK
<1>2. turn' \in [Turns -> Turn]
  BY <1>1
<1>3. ASSUME NEW u \in Turns PROVE turn'[u].tries < setup'.attempts
  <2>1. CASE u = t
    BY <1>1, <2>1
  <2>2. CASE u # t
    <3>1. turn'[u] = turn[u] /\ turn[u].tries < setup.attempts
      BY <1>1, <2>2, TurnOf
    <3> QED
      BY <3>1
  <2> QED
    BY <2>1, <2>2
<1> QED
  BY <1>1, <1>2, <1>3 DEF TypeOK

LEMMA OneTurn ==
  ASSUME TypeOK, NEW t \in Turns, NEW e, turn' = [turn EXCEPT ![t] = e]
  PROVE  turn'[t] = e /\ \A u \in Turns : u # t => turn'[u] = turn[u]
BY DEF TypeOK

\* What is sound stays sound.
LEMMA SoundGrows ==
  ASSUME TypeOK, NEW t \in Turns, NEW e, turn' = [turn EXCEPT ![t] = e],
         turn[t].cancelled => e.cancelled
  PROVE  Sound \subseteq Sound'
<1>1. ASSUME NEW m \in Message, m.whole \/ turn[m.turn].cancelled
      PROVE  m.whole \/ turn'[m.turn].cancelled
  <2>1. m.turn \in Turns
    BY DEF Message
  <2>2. CASE m.turn = t
    BY <1>1, <2>2, OneTurn
  <2>3. CASE m.turn # t
    BY <1>1, <2>1, <2>3, OneTurn
  <2> QED
    BY <2>2, <2>3
<1> QED
  BY <1>1 DEF Sound

LEMMA SoundMessages == Sound \subseteq Message /\ Sound' \subseteq Message
BY DEF Sound

LEMMA WholesStep ==
  ASSUME TypeOK, Wholes, NEW t \in Turns, NEW e, turn' = [turn EXCEPT ![t] = e],
         turn[t].cancelled => e.cancelled, e.cut => e.cancelled,
         memory' \in Seq(Sound'), e.msgs \in Seq(Sound')
  PROVE  Wholes'
<1>1. Sound \subseteq Sound'
  BY SoundGrows
<1>2. ASSUME NEW u \in Turns
      PROVE  turn'[u].msgs \in Seq(Sound') /\ (turn'[u].cut => turn'[u].cancelled)
  <2>1. CASE u = t
    BY <2>1, OneTurn
  <2>2. CASE u # t
    <3>1. turn'[u] = turn[u]
      BY <2>2, OneTurn
    <3>2. turn[u].msgs \in Seq(Sound) /\ (turn[u].cut => turn[u].cancelled)
      BY DEF Wholes
    <3>3. turn[u].msgs \in Seq(Sound')
      BY <1>1, <3>2, SeqMonotonic
    <3> QED
      BY <3>1, <3>2, <3>3
  <2> QED
    BY <2>1, <2>2
<1> QED
  BY <1>2 DEF Wholes

LEMMA SingleStep ==
  ASSUME TypeOK, Single, NEW t \in Turns, NEW e, turn' = [turn EXCEPT ![t] = e],
         e.pc \notin Resting => turn[t].pc \notin Resting, alone' = alone
  PROVE  Single'
<1> SUFFICES ASSUME alone', NEW u \in Turns, NEW v \in Turns, turn'[u].pc \notin Resting, turn'[v].pc \notin Resting
             PROVE  u = v
  BY DEF Single
<1>1. \A w \in Turns : turn'[w].pc \notin Resting => turn[w].pc \notin Resting
  <2> TAKE w \in Turns
  <2>1. CASE w = t
    BY <2>1, OneTurn
  <2>2. CASE w # t
    BY <2>2, OneTurn
  <2> QED
    BY <2>1, <2>2
<1> QED
  BY <1>1 DEF Single

\* The policies do not change.
LEMMA SameTrim ==
  ASSUME setup' = setup
  PROVE  /\ NoEnds' = NoEnds
         /\ \A h : TrimForRequest(h)' = TrimForRequest(h)
BY DEF NoEnds, TrimForRequest

(***************************************************************************)
(* A step that stores nothing.                                             *)
(***************************************************************************)
LEMMA QuietTypes ==
  ASSUME TypeOK, NEW t \in Turns, NEW e, Quiet(t, e)
  PROVE  TypeOK'
<1>1. OnlyTurn /\ turn' = [turn EXCEPT ![t] = e] /\ Goes(turn[t], e) /\ e.tries < setup.attempts
  BY DEF Quiet
<1>2. e \in Turn
  BY <1>1 DEF Goes
<1>3. setup' = setup /\ memory' = memory /\ log' = log /\ saved' = saved /\ alone' = alone
  BY <1>1 DEF OnlyTurn
<1>4. memory \in Seq(Message) /\ log \in Seq(Message) /\ saved \subseteq Turns /\ alone \in BOOLEAN
  BY DEF TypeOK
<1> QED
  BY <1>1, <1>2, <1>3, <1>4, TypeStep

LEMMA QuietWholes ==
  ASSUME TypeOK, Wholes, NEW t \in Turns, NEW e, Quiet(t, e)
  PROVE  Wholes'
<1>1. OnlyTurn /\ turn' = [turn EXCEPT ![t] = e] /\ Goes(turn[t], e)
  BY DEF Quiet
<1>2. /\ turn[t].cancelled => e.cancelled
      /\ e.cut => e.cancelled
      /\ e.msgs \in {turn[t].msgs, <<>>}
  BY <1>1 DEF Goes
<1>3. Sound \subseteq Sound'
  BY <1>1, <1>2, SoundGrows
<1>4. memory \in Seq(Sound) /\ turn[t].msgs \in Seq(Sound)
  BY DEF Wholes
<1>5. memory \in Seq(Sound') /\ turn[t].msgs \in Seq(Sound')
  BY <1>3, <1>4, SeqMonotonic
<1>6. <<>> \in Seq(Sound')
  BY EmptySeq
<1>7. memory' = memory
  BY <1>1 DEF OnlyTurn
<1>8. memory' \in Seq(Sound') /\ e.msgs \in Seq(Sound')
  BY <1>2, <1>5, <1>6, <1>7
<1> QED
  BY <1>1, <1>2, <1>8, WholesStep

LEMMA QuietStored ==
  ASSUME TypeOK, Stored, NEW t \in Turns, NEW e, Quiet(t, e)
  PROVE  Stored'
<1>1. OnlyTurn /\ turn' = [turn EXCEPT ![t] = e] /\ Goes(turn[t], e)
  BY DEF Quiet
<1>2. saved' = saved
  BY <1>1 DEF OnlyTurn
<1>3. ASSUME NEW u \in Turns
      PROVE  /\ turn'[u].pc \in Before => u \notin saved
             /\ turn'[u].pc = "done" =>
                  /\ turn'[u].err \in {"load", "source", "dropped"} => u \notin saved
                  /\ turn'[u].err = "nil" => u \in saved
  <2>1. /\ turn[u].pc \in Before => u \notin saved
        /\ turn[u].pc = "done" =>
             /\ turn[u].err \in {"load", "source", "dropped"} => u \notin saved
             /\ turn[u].err = "nil" => u \in saved
    BY DEF Stored
  <2>2. CASE u # t
    <3>1. turn'[u] = turn[u]
      BY <1>1, <2>2, OneTurn
    <3> QED
      BY <2>1, <3>1
  <2>3. CASE u = t
    <3>1. turn'[u] = e
      BY <1>1, <2>3, OneTurn
    <3>2. /\ e.pc \in Before => turn[u].pc \in Before
          /\ turn[u].cancelled => e.cancelled
          /\ e.pc = "done" =>
               \/ turn[u].pc = "done" /\ e.err = turn[u].err
               \/ e.err # "nil" /\ (e.err \in {"load", "source", "dropped"} => turn[u].pc \in Before)
      BY <1>1, <2>3 DEF Goes
    <3> QED
      BY <2>1, <3>1, <3>2
  <2> QED
    BY <2>2, <2>3
<1> QED
  BY <1>2, <1>3 DEF Stored

LEMMA QuietSingle ==
  ASSUME TypeOK, Single, NEW t \in Turns, NEW e, Quiet(t, e)
  PROVE  Single'
<1>1. OnlyTurn /\ turn' = [turn EXCEPT ![t] = e] /\ Goes(turn[t], e)
  BY DEF Quiet
<1>2. alone' = alone /\ (e.pc \notin Resting => turn[t].pc \notin Resting)
  BY <1>1 DEF OnlyTurn, Goes
<1> QED
  BY <1>1, <1>2, SingleStep

LEMMA TrimNext ==
  ASSUME setup' = setup
  PROVE  /\ NoEnds' = NoEnds
         /\ TrimForRequest(memory)' = TrimForRequest(memory')
         /\ TrimForRequest(log)' = TrimForRequest(log')
         /\ \A t \in Turns : Promised(t)' = Append(TrimForRequest(log'), User(t))
         /\ \A t \in Turns : TrimForSave(NextHistory(t))' = TrimForSave(NextHistory(t)')
<1>1. NoEnds' = NoEnds
  BY DEF NoEnds
<1>2. TrimForRequest(memory)' = TrimForRequest(memory')
  BY DEF TrimForRequest
<1>3. TrimForRequest(log)' = TrimForRequest(log')
  BY DEF TrimForRequest
<1>4. ASSUME NEW t \in Turns PROVE Promised(t)' = Append(TrimForRequest(log'), User(t))
  BY <1>3 DEF Promised, User
<1>5. ASSUME NEW t \in Turns PROVE TrimForSave(NextHistory(t))' = TrimForSave(NextHistory(t)')
  BY DEF TrimForSave, TrimForRequest
<1> QED
  BY <1>1, <1>2, <1>3, <1>4, <1>5

LEMMA SameNext ==
  ASSUME TypeOK, NEW u \in Turns, turn'[u].msgs = turn[u].msgs, turn'[u].cut = turn[u].cut
  PROVE  NextHistory(u)' = NextHistory(u)
BY DEF NextHistory, Response

LEMMA QuietTold ==
  ASSUME TypeOK, Told, NEW t \in Turns, NEW e, Quiet(t, e)
  PROVE  Told'
<1>1. setup' = setup /\ memory' = memory /\ log' = log /\ alone' = alone
  BY DEF Quiet, OnlyTurn
<1>2. NoEnds' = NoEnds /\ TrimForRequest(memory)' = TrimForRequest(memory) /\ TrimForRequest(log)' = TrimForRequest(log)
  BY <1>1, TrimNext
<1> QED
  BY <1>1, <1>2 DEF Told

LEMMA QuietPrompts ==
  ASSUME TypeOK, Prompts, Stored, NEW t \in Turns, NEW e, Quiet(t, e)
  PROVE  Prompts'
<1>1. setup' = setup /\ memory' = memory /\ log' = log /\ alone' = alone /\ saved' = saved
  BY DEF Quiet, OnlyTurn
<1>2. turn' = [turn EXCEPT ![t] = e] /\ Goes(turn[t], e)
  BY DEF Quiet
<1>3. NoEnds' = NoEnds /\ \A u \in Turns : Promised(u)' = Promised(u)
  BY <1>1, TrimNext DEF Promised
<1>4. SUFFICES ASSUME alone, NoEnds, NEW u \in Turns, turn'[u].pc \in Asking \cup Saving, u \notin saved
               PROVE  turn'[u].msgs = Promised(u)
  BY <1>1, <1>3 DEF Prompts
<1>5. turn[u].pc \in Asking \cup Saving => turn[u].msgs = Promised(u)
  BY <1>4 DEF Prompts
<1>6. CASE u # t
  <2>1. turn'[u] = turn[u]
    BY <1>2, <1>6, OneTurn
  <2> QED
    BY <1>4, <1>5, <2>1
<1>7. CASE u = t
  <2>1. turn'[u] = e
    BY <1>2, <1>7, OneTurn
  <2>2. turn[u].pc \in Asking \cup Saving /\ e.msgs = turn[u].msgs
    BY <1>2, <1>4, <1>7, <2>1 DEF Goes
  <2> QED
    BY <1>5, <2>1, <2>2
<1> QED
  BY <1>6, <1>7

LEMMA QuietAgain ==
  ASSUME TypeOK, Again, Stored, NEW t \in Turns, NEW e, Quiet(t, e)
  PROVE  Again'
<1>1. setup' = setup /\ memory' = memory /\ log' = log /\ alone' = alone /\ saved' = saved
  BY DEF Quiet, OnlyTurn
<1>2. turn' = [turn EXCEPT ![t] = e] /\ Goes(turn[t], e)
  BY DEF Quiet
<1>3. SUFFICES ASSUME alone, NEW u \in Turns, turn'[u].pc \in Saving, u \in saved
               PROVE  memory = TrimForSave(NextHistory(u))'
  BY <1>1 DEF Again
<1>4. TrimForSave(NextHistory(u))' = TrimForSave(NextHistory(u)')
  BY <1>1, TrimNext
<1>5. turn[u].pc \in Saving /\ turn'[u].msgs = turn[u].msgs /\ turn'[u].cut = turn[u].cut
  <2>1. CASE u # t
    <3>1. turn'[u] = turn[u]
      BY <1>2, <2>1, OneTurn
    <3> QED
      BY <1>3, <3>1
  <2>2. CASE u = t
    <3>1. turn'[u] = e
      BY <1>2, <2>2, OneTurn
    <3>2. turn[u].pc \in Asking \cup Saving /\ e.msgs = turn[u].msgs /\ (turn[u].pc \in Saving => e.cut = turn[u].cut)
      BY <1>2, <1>3, <2>2, <3>1 DEF Goes
    <3>3. turn[u].pc \notin Asking
      BY <1>3 DEF Stored, Asking, Before
    <3> QED
      BY <3>1, <3>2, <3>3
  <2> QED
    BY <2>1, <2>2
<1>6. NextHistory(u)' = NextHistory(u)
  BY <1>5, SameNext
<1>7. memory = TrimForSave(NextHistory(u))
  BY <1>3, <1>5 DEF Again
<1> QED
  BY <1>4, <1>6, <1>7

LEMMA QuietStep ==
  ASSUME IInv, NEW t \in Turns, NEW e, Quiet(t, e)
  PROVE  IInv'
BY QuietTypes, QuietWholes, QuietStored, QuietSingle, QuietTold, QuietPrompts, QuietAgain DEF IInv

(***************************************************************************)
(* A turn begins.                                                          *)
(***************************************************************************)
LEMMA BeginStep ==
  ASSUME IInv, NEW t \in Turns, Begin(t)
  PROVE  IInv'
<1> DEFINE r == turn[t]
<1>1. TypeOK /\ Wholes /\ Stored /\ Single /\ Told /\ Prompts /\ Again
  BY DEF IInv
<1>2. r \in Turn /\ r.tries < setup.attempts /\ r.pc = "idle"
  BY <1>1, TurnOf DEF Begin
<1>3. PICK s \in BOOLEAN : turn' = [turn EXCEPT ![t] = [r EXCEPT !.pc = "load", !.stream = s]]
  BY DEF Begin
<1> DEFINE e == [r EXCEPT !.pc = "load", !.stream = s]
<1>4. /\ e \in Turn /\ e.pc = "load" /\ e.cancelled = r.cancelled /\ e.cut = r.cut
      /\ e.msgs = r.msgs /\ e.tries = r.tries
  <2> HIDE DEF r
  <2> QED
    BY ONLY <1>2, <1>3 DEF Turn
<1> HIDE DEF e
<1>5. turn' = [turn EXCEPT ![t] = e]
  BY <1>3 DEF e
<1>6. /\ setup' = setup /\ memory' = memory /\ log' = log /\ saved' = saved
      /\ alone' = (alone /\ Active = {})
  BY DEF Begin
<1>7. alone' \in BOOLEAN /\ (alone' => alone /\ Active = {})
  BY <1>6
<1>8. turn'[t] = e /\ \A u \in Turns : u # t => turn'[u] = turn[u]
  BY <1>1, <1>5, OneTurn
<1>9. TypeOK'
  <2>1. memory \in Seq(Message) /\ log \in Seq(Message) /\ saved \subseteq Turns
    BY <1>1 DEF TypeOK
  <2>2. e.tries < setup.attempts
    BY <1>2, <1>4
  <2> QED
    BY <1>1, <1>4, <1>5, <1>6, <1>7, <2>1, <2>2, TypeStep
<1>10. Wholes'
  <2>1. memory \in Seq(Sound) /\ r.msgs \in Seq(Sound) /\ (r.cut => r.cancelled)
    BY <1>1 DEF Wholes
  <2>2. Sound \subseteq Sound'
    BY <1>1, <1>4, <1>5, SoundGrows
  <2>3. memory' \in Seq(Sound') /\ e.msgs \in Seq(Sound')
    BY <1>4, <1>6, <2>1, <2>2, SeqMonotonic
  <2> QED
    BY <1>1, <1>4, <1>5, <2>1, <2>3, WholesStep
<1>11. Stored'
  <2>1. t \notin saved
    BY <1>1, <1>2 DEF Stored, Before
  <2>2. ASSUME NEW u \in Turns
        PROVE  /\ turn'[u].pc \in Before => u \notin saved
               /\ turn'[u].pc = "done" =>
                    /\ turn'[u].err \in {"load", "source", "dropped"} => u \notin saved
                    /\ turn'[u].err = "nil" => u \in saved
    <3>1. CASE u = t
      BY <1>4, <1>8, <2>1, <3>1
    <3>2. CASE u # t
      BY <1>1, <1>8, <3>2 DEF Stored
    <3> QED
      BY <3>1, <3>2
  <2> QED
    BY <1>6, <2>2 DEF Stored
<1>12. Single'
  <2> SUFFICES ASSUME alone', NEW u \in Turns, NEW v \in Turns, turn'[u].pc \notin Resting, turn'[v].pc \notin Resting
               PROVE  u = v
    BY DEF Single
  <2>1. \A w \in Turns : turn[w].pc \in Resting
    BY <1>7 DEF Active, Resting
  <2>2. \A w \in Turns : turn'[w].pc \notin Resting => w = t
    BY <1>8, <2>1
  <2> QED
    BY <2>2
<1>13. Told'
  <2>1. NoEnds' = NoEnds /\ TrimForRequest(memory)' = TrimForRequest(memory) /\ TrimForRequest(log)' = TrimForRequest(log)
    BY <1>6, TrimNext
  <2> QED
    BY <1>1, <1>7, <2>1 DEF Told
<1>14. ASSUME NEW u \in Turns, turn'[u].pc \in Asking \cup Saving
       PROVE  turn'[u] = turn[u]
  <2>1. u # t
    BY <1>4, <1>8, <1>14 DEF Asking, Saving
  <2> QED
    BY <1>8, <2>1
<1>15. Prompts'
  <2>1. NoEnds' = NoEnds /\ \A u \in Turns : Promised(u)' = Promised(u)
    BY <1>6, TrimNext DEF Promised
  <2> SUFFICES ASSUME alone', NoEnds, NEW u \in Turns, turn'[u].pc \in Asking \cup Saving, u \notin saved
               PROVE  turn'[u].msgs = Promised(u)
    BY <1>6, <2>1 DEF Prompts
  <2>2. turn'[u] = turn[u]
    BY <1>14
  <2> QED
    BY <1>1, <1>7, <2>2 DEF Prompts
<1>16. Again'
  <2> SUFFICES ASSUME alone', NEW u \in Turns, turn'[u].pc \in Saving, u \in saved
               PROVE  memory = TrimForSave(NextHistory(u))'
    BY <1>6 DEF Again
  <2>1. turn'[u] = turn[u]
    BY <1>14
  <2>2. TrimForSave(NextHistory(u))' = TrimForSave(NextHistory(u)')
    BY <1>6, TrimNext
  <2>3. NextHistory(u)' = NextHistory(u)
    BY <1>1, <2>1, SameNext
  <2>4. memory = TrimForSave(NextHistory(u))
    BY <1>1, <1>7, <2>1 DEF Again
  <2> QED
    BY <2>2, <2>3, <2>4
<1> QED
  BY <1>9, <1>10, <1>11, <1>12, <1>13, <1>15, <1>16 DEF IInv

(***************************************************************************)
(* A turn loads the history.                                               *)
(***************************************************************************)
LEMMA LoadStep ==
  ASSUME IInv, NEW t \in Turns, LoadMessages(t)
  PROVE  IInv'
<1> DEFINE r == turn[t]
           g == Loaded(IF setup.bounded THEN Bound ELSE 0)
           m == Append(TrimForRequest(g), User(t))
           e == [r EXCEPT !.pc = "generate", !.tries = 0, !.msgs = m]
<1>1. TypeOK /\ Wholes /\ Stored /\ Single /\ Told /\ Prompts /\ Again /\ setup \in Setups
  BY DEF IInv, TypeOK
<1>2. r \in Turn /\ r.pc = "load"
  BY <1>1, TurnOf DEF LoadMessages
<1>3. turn' = [turn EXCEPT ![t] = e]
  BY DEF LoadMessages
<1>4. setup' = setup /\ memory' = memory /\ log' = log /\ saved' = saved /\ alone' = alone
  BY DEF LoadMessages, OnlyTurn
<1>5. memory \in Seq(Sound) /\ r.msgs \in Seq(Sound) /\ (r.cut => r.cancelled) /\ Sound \subseteq Message
  BY <1>1, SoundMessages DEF Wholes
<1>6. m \in Seq(Sound)
  <2>1. g \in Seq(Sound)
    <3>1. \E n \in Nat : g = Latest(memory, n)
      BY <1>1, BoundNat DEF Loaded
    <3> HIDE DEF g
    <3> QED
      BY <1>5, <3>1, LatestPart
  <2> HIDE DEF g
  <2>2. TrimForRequest(g) \in Seq(Sound)
    BY <1>1, <2>1, TrimPart
  <2>3. User(t) \in Sound
    BY UserType DEF Sound
  <2> QED
    BY <2>2, <2>3, AppendProperties
<1>7. m \in Seq(Message)
  <2> HIDE DEF m
  <2> QED
    BY <1>5, <1>6, SeqMonotonic
<1>8. /\ e \in Turn /\ e.pc = "generate" /\ e.cancelled = r.cancelled /\ e.cut = r.cut
      /\ e.msgs = m /\ e.tries = 0
  <2> HIDE DEF r, m
  <2> QED
    BY ONLY <1>2, <1>7 DEF Turn
<1> HIDE DEF e
<1>9. turn'[t] = e /\ \A u \in Turns : u # t => turn'[u] = turn[u]
  BY <1>1, <1>3, OneTurn
<1>10. TypeOK'
  <2>1. memory \in Seq(Message) /\ log \in Seq(Message) /\ saved \subseteq Turns /\ alone \in BOOLEAN
    BY <1>1 DEF TypeOK
  <2>2. e.tries < setup.attempts
    BY <1>1, <1>8, PoliciesType
  <2> QED
    BY <1>1, <1>3, <1>4, <1>8, <2>1, <2>2, TypeStep
<1>11. Wholes'
  <2>1. Sound \subseteq Sound'
    BY <1>1, <1>3, <1>8, SoundGrows
  <2>2. memory' \in Seq(Sound') /\ e.msgs \in Seq(Sound')
    <3> HIDE DEF m
    <3> QED
      BY <1>4, <1>5, <1>6, <1>8, <2>1, SeqMonotonic
  <2> QED
    BY <1>1, <1>3, <1>5, <1>8, <2>2, WholesStep
<1>12. t \notin saved
  BY <1>1, <1>2 DEF Stored, Before
<1>13. Stored'
  <2> SUFFICES ASSUME NEW u \in Turns
               PROVE  /\ turn'[u].pc \in Before => u \notin saved
                      /\ turn'[u].pc = "done" =>
                           /\ turn'[u].err \in {"load", "source", "dropped"} => u \notin saved
                           /\ turn'[u].err = "nil" => u \in saved
    BY <1>4 DEF Stored
  <2>1. CASE u = t
    BY <1>8, <1>9, <1>12, <2>1
  <2>2. CASE u # t
    BY <1>1, <1>9, <2>2 DEF Stored
  <2> QED
    BY <2>1, <2>2
<1>14. Single'
  <2>1. turn[t].pc \notin Resting
    BY <1>2 DEF Resting
  <2> QED
    BY <1>1, <1>3, <1>4, <2>1, SingleStep
<1>15. Told'
  <2>1. NoEnds' = NoEnds /\ TrimForRequest(memory)' = TrimForRequest(memory) /\ TrimForRequest(log)' = TrimForRequest(log)
    BY <1>4, TrimNext
  <2> QED
    BY <1>1, <1>4, <2>1 DEF Told
<1>16. Prompts'
  <2>1. NoEnds' = NoEnds /\ \A u \in Turns : Promised(u)' = Promised(u)
    BY <1>4, TrimNext DEF Promised
  <2> SUFFICES ASSUME alone, NoEnds, NEW u \in Turns, turn'[u].pc \in Asking \cup Saving, u \notin saved
               PROVE  turn'[u].msgs = Promised(u)
    BY <1>4, <2>1 DEF Prompts
  <2>2. CASE u = t
    <3>1. memory \in Seq(Message)
      BY <1>1 DEF TypeOK
    <3>2. TrimForRequest(g) = TrimForRequest(memory)
      BY <1>1, <3>1, LoadKeeps
    <3>3. TrimForRequest(memory) = TrimForRequest(log)
      BY <1>1 DEF Told
    <3>4. m = Promised(t)
      BY <3>2, <3>3 DEF Promised
    <3> QED
      BY <1>8, <1>9, <2>2, <3>4
  <2>3. CASE u # t
    BY <1>1, <1>9, <2>3 DEF Prompts
  <2> QED
    BY <2>2, <2>3
<1>17. Again'
  <2> SUFFICES ASSUME alone, NEW u \in Turns, turn'[u].pc \in Saving, u \in saved
               PROVE  memory = TrimForSave(NextHistory(u))'
    BY <1>4 DEF Again
  <2>1. turn'[u] = turn[u]
    BY <1>9, <1>12
  <2>2. TrimForSave(NextHistory(u))' = TrimForSave(NextHistory(u)')
    BY <1>4, TrimNext
  <2>3. NextHistory(u)' = NextHistory(u)
    BY <1>1, <2>1, SameNext
  <2>4. memory = TrimForSave(NextHistory(u))
    BY <1>1, <2>1 DEF Again
  <2> QED
    BY <2>2, <2>3, <2>4
<1> QED
  BY <1>10, <1>11, <1>13, <1>14, <1>15, <1>16, <1>17 DEF IInv

(***************************************************************************)
(* A Save takes effect, and the turn knows it, or tries again, or gives up.*)
(***************************************************************************)
Storing(r, e) ==
  /\ e \in Turn /\ e.tries < setup.attempts
  /\ e.cancelled = r.cancelled
  /\ e.cut => e.cancelled
  /\ e.msgs \in {r.msgs, <<>>}
  /\ e.pc \in {"saveWait", "done"}
  /\ e.pc = "done" => e.err \notin {"load", "source", "dropped"}
  /\ e.pc = "saveWait" => e.msgs = r.msgs /\ e.cut = r.cut

LEMMA NextHistoryType ==
  ASSUME IInv, NEW t \in Turns
  PROVE  /\ NextHistory(t) \in Seq(Sound) /\ NextHistory(t) \in Seq(Message)
         /\ TrimForSave(NextHistory(t)) \in Seq(Sound) /\ TrimForSave(NextHistory(t)) \in Seq(Message)
<1>1. TypeOK /\ setup \in Setups /\ turn[t].msgs \in Seq(Sound) /\ (turn[t].cut => turn[t].cancelled)
  BY DEF IInv, TypeOK, Wholes
<1>2. turn[t].cut \in BOOLEAN
  BY <1>1, TurnOf, TurnFields
<1>3. Response(t) \in Sound
  <2>1. Response(t) \in Message /\ Response(t).whole = ~turn[t].cut /\ Response(t).turn = t
    BY <1>1, ResponseType
  <2>2. Response(t).whole \/ turn[Response(t).turn].cancelled
    BY <1>1, <2>1
  <2> QED
    BY <2>1, <2>2 DEF Sound
<1>4. NextHistory(t) \in Seq(Sound)
  BY <1>1, <1>3, AppendProperties DEF NextHistory
<1>5. TrimForSave(NextHistory(t)) \in Seq(Sound)
  BY <1>1, <1>4, SavePart
<1> QED
  BY <1>4, <1>5, SoundMessages, SeqMonotonic

LEMMA StoreStep ==
  ASSUME IInv, NEW t \in Turns, turn[t].pc = "save", Stores(t),
         NEW e, turn' = [turn EXCEPT ![t] = e], Storing(turn[t], e)
  PROVE  IInv'
<1> DEFINE r == turn[t]
           n == NextHistory(t)
<1>1. TypeOK /\ Wholes /\ Stored /\ Single /\ Told /\ Prompts /\ Again /\ setup \in Setups
  BY DEF IInv, TypeOK
<1>2. /\ e \in Turn /\ e.tries < setup.attempts /\ e.cancelled = r.cancelled /\ (e.cut => e.cancelled)
      /\ e.msgs \in {r.msgs, <<>>} /\ e.pc \in {"saveWait", "done"}
      /\ (e.pc = "done" => e.err \notin {"load", "source", "dropped"})
      /\ (e.pc = "saveWait" => e.msgs = r.msgs /\ e.cut = r.cut)
  BY DEF Storing
<1>3. /\ memory' = TrimForSave(n)
      /\ log' = IF t \in saved THEN log ELSE log \o <<User(t), Response(t)>>
      /\ saved' = saved \cup {t}
      /\ setup' = setup /\ alone' = alone
  BY DEF Stores
<1>4. n \in Seq(Message) /\ memory' \in Seq(Sound) /\ memory' \in Seq(Message)
  BY <1>3, NextHistoryType
<1>5. User(t) \in Message /\ Response(t) \in Message
  BY <1>1, UserType, ResponseType
<1>6. log \in Seq(Message) /\ log' \in Seq(Message)
  <2>1. log \in Seq(Message)
    BY <1>1 DEF TypeOK
  <2>2. log \o <<User(t), Response(t)>> \in Seq(Message)
    BY <1>5, <2>1, TwoMore
  <2> QED
    BY <1>3, <2>1, <2>2
<1>7. turn'[t] = e /\ \A u \in Turns : u # t => turn'[u] = turn[u]
  BY <1>1, OneTurn
<1>8. TypeOK'
  <2>1. saved \subseteq Turns /\ alone \in BOOLEAN
    BY <1>1 DEF TypeOK
  <2>2. saved' \subseteq Turns /\ alone' \in BOOLEAN
    BY <1>3, <2>1
  <2> QED
    BY <1>1, <1>2, <1>3, <1>4, <1>6, <2>2, TypeStep
<1>9. Wholes'
  <2>1. Sound \subseteq Sound'
    BY <1>1, <1>2, SoundGrows
  <2>2. r.msgs \in Seq(Sound) /\ <<>> \in Seq(Sound)
    BY <1>1, EmptySeq DEF Wholes
  <2>3. memory' \in Seq(Sound') /\ e.msgs \in Seq(Sound')
    BY <1>2, <1>4, <2>1, <2>2, SeqMonotonic
  <2> QED
    BY <1>1, <1>2, <2>3, WholesStep
<1>10. Stored'
  <2> SUFFICES ASSUME NEW u \in Turns
               PROVE  /\ turn'[u].pc \in Before => u \notin saved'
                      /\ turn'[u].pc = "done" =>
                           /\ turn'[u].err \in {"load", "source", "dropped"} => u \notin saved'
                           /\ turn'[u].err = "nil" => u \in saved'
    BY DEF Stored
  <2>1. CASE u = t
    BY <1>2, <1>3, <1>7, <2>1 DEF Before
  <2>2. CASE u # t
    BY <1>1, <1>3, <1>7, <2>2 DEF Stored
  <2> QED
    BY <2>1, <2>2
<1>11. Single'
  <2>1. turn[t].pc \notin Resting
    BY DEF Resting
  <2> QED
    BY <1>1, <1>3, <2>1, SingleStep
<1>12. Told'
  <2>1. NoEnds' = NoEnds /\ TrimForRequest(memory)' = TrimForRequest(memory') /\ TrimForRequest(log)' = TrimForRequest(log')
    BY <1>3, TrimNext
  <2> SUFFICES ASSUME alone, NoEnds PROVE TrimForRequest(memory') = TrimForRequest(log')
    BY <1>3, <2>1 DEF Told
  <2>2. CASE t \in saved
    <3>1. memory = TrimForSave(n)
      BY <1>1, <2>2 DEF Again, Saving
    <3>2. TrimForRequest(memory) = TrimForRequest(log)
      BY <1>1 DEF Told
    <3>3. memory' = memory /\ log' = log
      BY <1>3, <2>2, <3>1
    <3> QED
      BY <3>2, <3>3
  <2>3. CASE t \notin saved
    <3>1. r.msgs = Promised(t)
      BY <1>1, <2>3 DEF Prompts, Saving
    <3>2. n = Append(Append(TrimForRequest(log), User(t)), Response(t))
      BY <3>1 DEF NextHistory, Promised
    <3>3. TrimForRequest(n) = TrimForRequest(log \o <<User(t), Response(t)>>)
      BY <1>1, <1>5, <1>6, <3>2, TurnMore
    <3>4. TrimForRequest(TrimForSave(n)) = TrimForRequest(n)
      BY <1>1, <1>4, SaveKeeps
    <3>5. memory' = TrimForSave(n) /\ log' = log \o <<User(t), Response(t)>>
      BY <1>3, <2>3
    <3> QED
      BY <3>3, <3>4, <3>5
  <2> QED
    BY <2>2, <2>3
<1>13. ASSUME alone, NEW u \in Turns, turn'[u].pc \in Asking \cup Saving PROVE u = t
  <2> SUFFICES ASSUME u # t PROVE FALSE
    OBVIOUS
  <2>1. turn[u].pc \notin Resting /\ turn[t].pc \notin Resting
    BY <1>7, <1>13 DEF Asking, Saving, Resting
  <2> QED
    BY <1>1, <1>13, <2>1 DEF Single
<1>14. Prompts'
  <2>1. \A u \in Turns : alone /\ turn'[u].pc \in Asking \cup Saving => u \in saved'
    BY <1>3, <1>13
  <2> QED
    BY <1>3, <2>1 DEF Prompts
<1>15. Again'
  <2> SUFFICES ASSUME alone, NEW u \in Turns, turn'[u].pc \in Saving
               PROVE  memory' = TrimForSave(NextHistory(u))'
    BY <1>3 DEF Again
  <2>1. u = t
    BY <1>13
  <2>2. TrimForSave(NextHistory(t))' = TrimForSave(NextHistory(t)')
    BY <1>3, TrimNext
  <2>3. e.msgs = r.msgs /\ e.cut = r.cut
    BY <1>2, <1>7, <2>1 DEF Saving
  <2>4. NextHistory(t)' = n
    BY <1>1, <1>7, <2>3, SameNext
  <2> QED
    BY <1>3, <2>1, <2>2, <2>4
<1> QED
  BY <1>8, <1>9, <1>10, <1>11, <1>12, <1>14, <1>15 DEF IInv

LEMMA StoresAndEnds ==
  ASSUME IInv, NEW t \in Turns, turn[t].pc = "save", Stores(t),
         NEW x \in {"nil", "save"}, Finish(t, x)
  PROVE  IInv'
<1> DEFINE r == turn[t]
           c == r.cancelled
           e == Ended(c, x)
<1>1. TypeOK /\ setup \in Setups
  BY DEF IInv, TypeOK
<1>2. c \in BOOLEAN
  BY <1>1, TurnOf, TurnFields
<1>3. turn' = [turn EXCEPT ![t] = e]
  BY FinishIs
<1>4. /\ e \in Turn /\ e.pc = "done" /\ e.cut = FALSE /\ e.msgs = <<>> /\ e.tries = 0
      /\ e.cancelled = c /\ e.err = x
  <2> HIDE DEF c
  <2>1. x \in {"nil", "ctx", "load", "source", "save", "dropped"}
    OBVIOUS
  <2> QED
    BY ONLY <1>2, <2>1, EndedType, Zenon
<1>5. 0 < setup.attempts
  BY <1>1, PoliciesType
<1> HIDE DEF e
<1>6. Storing(r, e)
  BY <1>4, <1>5 DEF Storing
<1> QED
  BY <1>3, <1>4, <1>6, StoreStep

LEMMA StoresAndRetries ==
  ASSUME IInv, NEW t \in Turns, turn[t].pc = "save", Stores(t), SaveError(t)
  PROVE  IInv'
<1>1. TypeOK /\ Wholes
  BY DEF IInv
<1>2. CASE turn[t].tries + 1 < setup.attempts
  <2> DEFINE r == turn[t]
             n == r.tries + 1
             e == [r EXCEPT !.pc = "saveWait", !.tries = n]
  <2>1. r \in Turn /\ (r.cut => r.cancelled)
    BY <1>1, TurnOf, CutCancelled
  <2>2. n \in Nat
    BY <2>1, TurnFields
  <2>3. turn' = [turn EXCEPT ![t] = e]
    BY <1>2 DEF SaveError, Retries
  <2>4. /\ e \in Turn /\ e.pc = "saveWait" /\ e.cancelled = r.cancelled /\ e.cut = r.cut
        /\ e.msgs = r.msgs /\ e.tries = n
    <3> HIDE DEF n, r
    <3> QED
      BY ONLY <2>1, <2>2 DEF Turn
  <2>5. e.tries < setup.attempts
    BY <1>2, <2>4
  <2> HIDE DEF e, n
  <2>6. Storing(r, e)
    BY <2>1, <2>4, <2>5 DEF Storing
  <2> QED
    BY <2>3, <2>4, <2>6, StoreStep
<1>3. CASE ~ (turn[t].tries + 1 < setup.attempts)
  <2>1. Finish(t, "save")
    BY <1>3 DEF SaveError, Retries
  <2> QED
    BY <2>1, StoresAndEnds
<1> QED
  BY <1>2, <1>3

(***************************************************************************)
(* The theorems.                                                           *)
(***************************************************************************)
LEMMA Initially == Init => IInv
<1> SUFFICES ASSUME Init PROVE IInv
  OBVIOUS
<1>1. /\ setup \in Setups /\ memory = <<>> /\ log = <<>> /\ saved = {} /\ alone = TRUE
      /\ turn = [t \in Turns |-> NewTurn]
  BY DEF Init
<1>2. \A t \in Turns : turn[t] = NewTurn
  BY <1>1
<1>3. TypeOK
  <2>1. turn \in [Turns -> Turn]
    BY <1>1, NewTurnType
  <2>2. memory \in Seq(Message) /\ log \in Seq(Message)
    BY <1>1, EmptySeq
  <2>3. \A t \in Turns : turn[t].tries < setup.attempts
    BY <1>1, <1>2, NewTurnType, PoliciesType
  <2> QED
    BY <1>1, <2>1, <2>2, <2>3 DEF TypeOK
<1>4. Wholes
  <2>1. <<>> \in Seq(Sound)
    BY EmptySeq
  <2> QED
    BY <1>1, <1>2, <2>1, NewTurnType DEF Wholes
<1>5. Stored
  BY <1>1, <1>2, NewTurnType DEF Stored
<1>6. Single
  BY <1>2, NewTurnType DEF Single, Resting
<1>7. Told
  BY <1>1 DEF Told
<1>8. Prompts
  BY <1>2, NewTurnType DEF Prompts, Asking, Saving
<1>9. Again
  BY <1>1 DEF Again
<1> QED
  BY <1>3, <1>4, <1>5, <1>6, <1>7, <1>8, <1>9 DEF IInv

LEMMA TurningStep ==
  ASSUME IInv, NEW t \in Turns, Turning(t)
  PROVE  IInv'
<1>1. TypeOK /\ Wholes
  BY DEF IInv
<1>2. CASE LoadMessages(t)
  BY <1>2, LoadStep
<1>3. CASE LoadFails(t)
  BY <1>1, <1>3, LoadFailsQuiet, QuietStep
<1>4. CASE Backoff(t)
  BY <1>1, <1>4, BackoffQuiet, QuietStep
<1>5. CASE Generate(t)
  BY <1>1, <1>5, GenerateQuiet, QuietStep
<1>6. CASE GenerateFails(t) \/ ReadFails(t) \/ ReadCancelled(t) \/ EmitFails(t)
  BY <1>1, <1>6, EndQuiet, QuietStep
<1>7. CASE ReadText(t)
  BY <1>1, <1>7, ReadTextQuiet, QuietStep
<1>8. CASE ReadEnd(t)
  BY <1>1, <1>8, ReadEndQuiet, QuietStep
<1>9. CASE Emit(t)
  BY <1>1, <1>9, EmitQuiet, QuietStep
<1>10. CASE EmitUsage(t)
  BY <1>1, <1>10, EmitUsageQuiet, QuietStep
<1>11. CASE Save(t)
  <2>1. turn[t].pc = "save" /\ Stores(t) /\ Finish(t, "nil")
    BY <1>11 DEF Save
  <2> QED
    BY <2>1, StoresAndEnds
<1>12. CASE SaveFails(t)
  <2>1. turn[t].pc = "save" /\ SaveError(t) /\ (Stores(t) \/ OnlyTurn)
    BY <1>12 DEF SaveFails
  <2>2. CASE Stores(t)
    BY <2>1, <2>2, StoresAndRetries
  <2>3. CASE OnlyTurn
    BY <1>1, <2>1, <2>3, SaveFailsQuiet, QuietStep
  <2> QED
    BY <2>1, <2>2, <2>3
<1> QED
  BY <1>2, <1>3, <1>4, <1>5, <1>6, <1>7, <1>8, <1>9, <1>10, <1>11, <1>12 DEF Turning

LEMMA Stutters == IInv /\ UNCHANGED vars => IInv'
<1> SUFFICES ASSUME IInv, UNCHANGED vars PROVE IInv'
  OBVIOUS
<1>1. TypeOK' = TypeOK
  BY DEF vars, TypeOK
<1>2. Wholes' = Wholes
  BY DEF vars, Wholes, Sound
<1>3. Stored' = Stored
  BY DEF vars, Stored
<1>4. Single' = Single
  BY DEF vars, Single
<1>5. setup' = setup /\ memory' = memory /\ log' = log /\ alone' = alone /\ saved' = saved /\ turn' = turn
  BY DEF vars
<1>6. Told' = Told
  BY <1>5, TrimNext DEF Told
<1>7. Prompts' = Prompts
  <2>1. NoEnds' = NoEnds /\ \A u \in Turns : Promised(u)' = Promised(u)
    BY <1>5, TrimNext DEF Promised
  <2> QED
    BY <1>5, <2>1 DEF Prompts
<1>8. Again' = Again
  <2>1. \A u \in Turns : NextHistory(u)' = NextHistory(u)
    BY <1>5 DEF NextHistory, Response
  <2>2. \A u \in Turns : TrimForSave(NextHistory(u))' = TrimForSave(NextHistory(u))
    BY <1>5, <2>1, TrimNext
  <2> QED
    BY <1>5, <2>2 DEF Again
<1> QED
  BY <1>1, <1>2, <1>3, <1>4, <1>6, <1>7, <1>8 DEF IInv

LEMMA Inductive == IInv /\ [Next]_vars => IInv'
<1> SUFFICES ASSUME IInv, [Next]_vars PROVE IInv'
  OBVIOUS
<1>1. CASE UNCHANGED vars
  BY <1>1, Stutters
<1>2. ASSUME NEW t \in Turns, Begin(t) \/ Cancel(t) \/ Turning(t) \/ Receive(t) PROVE IInv'
  <2>1. TypeOK /\ Wholes
    BY DEF IInv
  <2>2. CASE Begin(t)
    BY <2>2, BeginStep
  <2>3. CASE Cancel(t)
    BY <2>1, <2>3, CancelQuiet, QuietStep
  <2>4. CASE Turning(t)
    BY <2>4, TurningStep
  <2>5. CASE Receive(t)
    BY <2>1, <2>5, ReceiveQuiet, QuietStep
  <2> QED
    BY <1>2, <2>2, <2>3, <2>4, <2>5
<1> QED
  BY <1>1, <1>2 DEF Next

\* The invariant, and with it the types.
THEOREM Invariant == Spec => []IInv
BY Initially, Inductive, PTL DEF Spec

\* Every variable keeps its type, and no turn tries more often than the agent is set
\* to (memoryRetryAttempts).
THEOREM TypeCorrect == Spec => []TypeOK
<1>1. IInv => TypeOK
  BY DEF IInv
<1> QED
  BY <1>1, Invariant, PTL

LEMMA AtomicFromInv == IInv => TurnAtomic
<1> SUFFICES ASSUME IInv PROVE TurnAtomic
  OBVIOUS
<1>1. TypeOK /\ setup \in Setups /\ Wholes /\ Stored /\ Told
  BY DEF IInv, TypeOK
<1>2. WholeInMemory
  <2>1. ASSUME NEW i \in DOMAIN memory PROVE memory[i].whole \/ turn[memory[i].turn].cancelled
    <3>1. memory \in Seq(Sound)
      BY <1>1 DEF Wholes
    <3>2. i \in 1 .. Len(memory)
      BY <3>1, LenProperties
    <3>3. memory[i] \in Sound
      BY <3>1, <3>2, ElementOfSeq
    <3> QED
      BY <3>3 DEF Sound
  <2> QED
    BY <2>1 DEF WholeInMemory
<1>3. \A t \in Turns : turn[t].pc = "done" =>
        /\ turn[t].err \in {"load", "source", "dropped"} => t \notin saved
        /\ turn[t].err = "nil" => t \in saved
  BY <1>1 DEF Stored
<1>4. alone /\ setup.policies = <<>> => memory = log
  <2> SUFFICES ASSUME alone, setup.policies = <<>> PROVE memory = log
    OBVIOUS
  <2>1. NoEnds /\ TrimForRequest(memory) = memory /\ TrimForRequest(log) = log
    BY <1>1, NoPolicy
  <2> QED
    BY <1>1, <2>1 DEF Told
<1> QED
  BY <1>1, <1>2, <1>3, <1>4 DEF TurnAtomic

LEMMA ExactFromInv == IInv => ContextExact
<1> SUFFICES ASSUME IInv, NoEnds, NEW t \in Turns, turn[t].pc = "generate", alone
             PROVE  turn[t].msgs = Promised(t)
  BY DEF ContextExact, NoEnds
<1>1. Stored /\ Prompts
  BY DEF IInv
<1>2. t \notin saved
  BY <1>1 DEF Stored, Before
<1> QED
  BY <1>1, <1>2 DEF Prompts, Asking

\* A turn that failed before it had a response leaves no trace, one that succeeded is
\* stored once, whole unless it was cancelled, however often its Save was tried; and
\* without a policy the memory is all that was said, if no two turns were active at
\* the same time (Run, RunStream, saveHistory).
THEOREM TurnAtomicAlways == Spec => []TurnAtomic
BY AtomicFromInv, Invariant, PTL

\* A turn that nobody interrupts is asked with what the agent's policies make of
\* everything that was said, though what is stored was trimmed and what is loaded is
\* bounded (loadMessages, TrimForRequest, TrimForSave), for any chain of policies
\* without one that keeps the first messages.
THEOREM ContextExactAlways == Spec => []ContextExact
BY ExactFromInv, Invariant, PTL

=============================================================================
