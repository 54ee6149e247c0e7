-------------------------- MODULE InductionLemmas --------------------------
(***************************************************************************)
(* Induction and recursion over the natural numbers as statements about    *)
(* sets and functions, from the well-foundedness of <, and what they give  *)
(* for the operators of the community modules the project uses.            *)
(***************************************************************************)
EXTENDS Integers, SequencesExt, FiniteSetsExt, SequenceTheorems, WellFoundedInduction, TLAPS

\* A set of numbers that is not empty has a least element.
LEMMA LeastElement ==
  ASSUME NEW T \in SUBSET Nat, T # {}
  PROVE  \E m \in T : \A n \in T : m <= n
<1> DEFINE R == {ss \in Nat \X Nat : ss[1] < ss[2]}
<1>1. IsWellFoundedOn(R, Nat)
  BY NatLessThanWellFounded DEF OpToRel
<1>2. PICK m \in T : \A n \in T : ~(<<n, m>> \in R)
  <2> HIDE DEF R
  <2> QED
    BY <1>1, WFMin
<1>3. \A n \in T : ~(n < m)
  BY <1>2
<1> QED
  BY <1>3

\* Induction: a set of numbers that holds 0 and the successors of its
\* members holds them all.
LEMMA Induction ==
  ASSUME NEW S, 0 \in S, \A n \in Nat : n \in S => n + 1 \in S
  PROVE  Nat \subseteq S
<1> SUFFICES ASSUME Nat \ S # {} PROVE FALSE
  OBVIOUS
<1>1. PICK m \in Nat \ S : \A n \in Nat \ S : m <= n
  BY LeastElement
<1>2. m # 0
  OBVIOUS
<1>3. m - 1 \in Nat /\ ~(m <= m - 1)
  BY <1>2
<1>4. m - 1 \in S
  BY <1>1, <1>3
<1>5. (m - 1) + 1 \in S
  BY <1>3, <1>4
<1> QED
  BY <1>5

\* f is the function that starts with base and goes on with F.
Unfolds(f, V, base, F) ==
  f \in [Nat -> V] /\ f[0] = base /\ \A n \in Nat : f[n + 1] = F[n][f[n]]

\* Every recursion over the numbers has a solution.
LEMMA Recursion ==
  ASSUME NEW V, NEW base \in V, NEW F \in [Nat -> [V -> V]]
  PROVE  \E f : Unfolds(f, V, base, F)
<1> DEFINE Up(f, n) == f[0] = base /\ \A i \in Nat : i < n => f[i + 1] = F[i][f[i]]
           S == {n \in Nat : \E f \in [Nat -> V] : Up(f, n)}
<1>1. Nat \subseteq S
  <2>1. 0 \in S
    <3> DEFINE g == [n \in Nat |-> base]
    <3>1. g \in [Nat -> V] /\ Up(g, 0)
      OBVIOUS
    <3> HIDE DEF g
    <3> QED
      BY <3>1
  <2>2. ASSUME NEW n \in Nat, n \in S PROVE n + 1 \in S
    <3>1. PICK f \in [Nat -> V] : Up(f, n)
      BY <2>2
    <3> DEFINE g == [f EXCEPT ![n + 1] = F[n][f[n]]]
    <3>2. g \in [Nat -> V]
      OBVIOUS
    <3>3. Up(g, n + 1)
      <4>1. g[0] = base
        BY <3>1
      <4>2. ASSUME NEW i \in Nat, i < n + 1 PROVE g[i + 1] = F[i][g[i]]
        <5>1. CASE i = n
          BY <5>1
        <5>2. CASE i < n
          BY <5>2, <3>1
        <5> QED
          BY <4>2, <5>1, <5>2
      <4> QED
        BY <4>1, <4>2
    <3> HIDE DEF g
    <3> QED
      BY <3>2, <3>3
  <2> HIDE DEF S
  <2> QED
    BY <2>1, <2>2, Induction
<1> DEFINE approx == [n \in Nat |-> CHOOSE f \in [Nat -> V] : Up(f, n)]
           r == [n \in Nat |-> approx[n][n]]
<1>2. \A n \in Nat : approx[n] \in [Nat -> V] /\ Up(approx[n], n)
  <2> SUFFICES ASSUME NEW n \in Nat PROVE approx[n] \in [Nat -> V] /\ Up(approx[n], n)
    OBVIOUS
  <2>1. \E f \in [Nat -> V] : Up(f, n)
    BY <1>1
  <2>2. approx[n] = CHOOSE f \in [Nat -> V] : Up(f, n)
    OBVIOUS
  <2> HIDE DEF Up, approx
  <2> QED
    BY <2>1, <2>2
<1> HIDE DEF approx
<1>3. ASSUME NEW n \in Nat PROVE approx[n + 1][n] = approx[n][n]
  <2> DEFINE Q == {i \in Nat : i <= n => approx[n + 1][i] = approx[n][i]}
  <2>1. 0 \in Q
    BY <1>2
  <2>2. ASSUME NEW i \in Nat, i \in Q PROVE i + 1 \in Q
    <3> SUFFICES ASSUME i + 1 <= n PROVE approx[n + 1][i + 1] = approx[n][i + 1]
      OBVIOUS
    <3>1. approx[n + 1][i] = approx[n][i]
      BY <2>2
    <3>2. approx[n + 1][i + 1] = F[i][approx[n + 1][i]]
      BY <1>2
    <3>3. approx[n][i + 1] = F[i][approx[n][i]]
      BY <1>2
    <3> QED
      BY <3>1, <3>2, <3>3
  <2>3. n \in Q
    <3> HIDE DEF Q
    <3> QED
      BY <2>1, <2>2, Induction
  <2> QED
    BY <2>3
<1>4. r \in [Nat -> V]
  BY <1>2
<1>5. r[0] = base
  BY <1>2
<1>6. ASSUME NEW n \in Nat PROVE r[n + 1] = F[n][r[n]]
  <2>1. r[n + 1] = approx[n + 1][n + 1] /\ r[n] = approx[n][n]
    OBVIOUS
  <2>2. approx[n + 1][n + 1] = F[n][approx[n + 1][n]]
    BY <1>2
  <2> QED
    BY <2>1, <2>2, <1>3
<1> HIDE DEF r
<1> QED
  BY <1>4, <1>5, <1>6 DEF Unfolds
-----------------------------------------------------------------------------
\* Min and Max of FiniteSetsExt choose what they promise.
LEMMA MinNat ==
  ASSUME NEW T \in SUBSET Nat, T # {}
  PROVE  Min(T) \in T /\ \A n \in T : Min(T) <= n
<1>1. \E m \in T : \A n \in T : m <= n
  BY LeastElement
<1> QED
  BY <1>1 DEF Min

LEMMA MinOfTwo ==
  ASSUME NEW a \in Int, NEW b \in Int
  PROVE  Min({a, b}) = IF a <= b THEN a ELSE b
<1>1. \E m \in {a, b} : \A n \in {a, b} : m <= n
  OBVIOUS
<1>2. Min({a, b}) \in {a, b} /\ \A n \in {a, b} : Min({a, b}) <= n
  BY <1>1 DEF Min
<1> QED
  BY <1>2

LEMMA MaxOfTwo ==
  ASSUME NEW a \in Int, NEW b \in Int
  PROVE  Max({a, b}) = IF a >= b THEN a ELSE b
<1>1. \E m \in {a, b} : \A n \in {a, b} : m >= n
  OBVIOUS
<1>2. Max({a, b}) \in {a, b} /\ \A n \in {a, b} : Max({a, b}) >= n
  BY <1>1 DEF Max
<1> QED
  BY <1>2
\* The greatest element of a sequence is one of them.
LEMMA MaxOfSeq ==
  ASSUME NEW s \in Seq(Nat), NEW i \in DOMAIN s
  PROVE  LET m == Max({s[j] : j \in DOMAIN s})
         IN  m \in Nat /\ \A j \in DOMAIN s : s[j] <= m
<1> DEFINE Q == {n \in Nat : n + 1 \in 1 .. Len(s) =>
                               \E j \in 1 .. n + 1 : \A k \in 1 .. n + 1 : s[k] <= s[j]}
<1>1. \A j \in DOMAIN s : s[j] \in Nat
  OBVIOUS
<1>2. 0 \in Q
  <2> SUFFICES ASSUME 1 \in 1 .. Len(s) PROVE \E j \in 1 .. 1 : \A k \in 1 .. 1 : s[k] <= s[j]
    OBVIOUS
  <2> WITNESS 1 \in 1 .. 1
  <2> QED
    BY <1>1
<1>3. ASSUME NEW n \in Nat, n \in Q PROVE n + 1 \in Q
  <2> SUFFICES ASSUME n + 2 \in 1 .. Len(s)
               PROVE  \E j \in 1 .. n + 2 : \A k \in 1 .. n + 2 : s[k] <= s[j]
    OBVIOUS
  <2>1. n + 1 \in 1 .. Len(s)
    OBVIOUS
  <2>2. PICK j \in 1 .. n + 1 : \A k \in 1 .. n + 1 : s[k] <= s[j]
    BY <1>3, <2>1
  <2>3. s[j] \in Nat /\ s[n + 2] \in Nat /\ j \in 1 .. n + 2
    BY <1>1, <2>1
  <2>4. \A k \in 1 .. n + 2 : k \in 1 .. n + 1 \/ k = n + 2
    OBVIOUS
  <2>5. \A k \in 1 .. n + 2 : s[k] \in Nat
    BY <1>1
  <2>6. CASE s[n + 2] <= s[j]
    BY <2>2, <2>3, <2>4, <2>6
  <2>7. CASE s[j] < s[n + 2]
    <3>1. ASSUME NEW k \in 1 .. n + 2 PROVE s[k] <= s[n + 2]
      <4>1. CASE k = n + 2
        BY <2>3, <4>1
      <4>2. CASE k \in 1 .. n + 1
        <5>1. s[k] <= s[j] /\ s[k] \in Nat
          BY <2>2, <2>5, <4>2
        <5> QED
          BY <2>3, <2>7, <5>1
      <4> QED
        BY <2>4, <4>1, <4>2
    <3> QED
      BY <3>1
  <2>8. s[n + 2] <= s[j] \/ s[j] < s[n + 2]
    BY <2>3
  <2> QED
    BY <2>6, <2>7, <2>8
<1>4. Len(s) - 1 \in Q
  <2>1. Len(s) - 1 \in Nat
    OBVIOUS
  <2> HIDE DEF Q
  <2> QED
    BY <1>2, <1>3, <2>1, Induction
<1>5. PICK j \in DOMAIN s : \A k \in DOMAIN s : s[k] <= s[j]
  <2>1. (Len(s) - 1) + 1 = Len(s) /\ Len(s) \in 1 .. Len(s) /\ DOMAIN s = 1 .. Len(s)
    OBVIOUS
  <2>2. \E j \in 1 .. Len(s) : \A k \in 1 .. Len(s) : s[k] <= s[j]
    BY <1>4, <2>1
  <2> QED
    BY <2>1, <2>2
<1> DEFINE T == {s[k] : k \in DOMAIN s}
<1>6. s[j] \in T /\ \A y \in T : s[j] >= y
  BY <1>1, <1>5
<1>7. Max(T) \in T /\ \A y \in T : Max(T) >= y
  BY <1>6 DEF Max
<1> QED
  BY <1>1, <1>7
-----------------------------------------------------------------------------
\* What FlattenSeq has put together of the first i sequences.
Flattening(g, s) == \A i \in 1 .. Len(s) : g[i] = g[i - 1] \o s[i]

LEMMA FlattenSeqIsLast ==
  ASSUME NEW S, NEW s \in Seq(Seq(S))
  PROVE  \E g \in [Nat -> Seq(S)] : g[0] = <<>> /\ Flattening(g, s) /\ FlattenSeq(s) = g[Len(s)]
<1> DEFINE V == Seq(S)
           F == [n \in Nat |-> [x \in V |-> IF n + 1 \in 1 .. Len(s) THEN x \o s[n + 1] ELSE x]]
<1>1. F \in [Nat -> [V -> V]]
  <2> SUFFICES ASSUME NEW n \in Nat, NEW x \in V, n + 1 \in 1 .. Len(s)
               PROVE  x \o s[n + 1] \in V
    OBVIOUS
  <2>1. s[n + 1] \in Seq(S)
    OBVIOUS
  <2> QED
    BY <2>1, ConcatProperties
<1> DEFINE none == <<>>
<1>2. none \in V
  OBVIOUS
<1>3. PICK g \in [Nat -> V] : g[0] = none /\ \A n \in Nat : g[n + 1] = F[n][g[n]]
  <2> HIDE DEF F, V, none
  <2>1. \E g : Unfolds(g, V, none, F)
    BY <1>1, <1>2, Recursion
  <2> QED
    BY <2>1 DEF Unfolds
<1>4. ASSUME NEW i \in 1 .. Len(s) PROVE g[i] = g[i - 1] \o s[i]
  <2>1. i - 1 \in Nat /\ g[i - 1] \in Seq(S)
    OBVIOUS
  <2>2. g[(i - 1) + 1] = F[i - 1][g[i - 1]]
    BY <1>3, <2>1
  <2>4. (i - 1) + 1 = i
    OBVIOUS
  <2>5. F[i - 1][g[i - 1]] = g[i - 1] \o s[i]
    BY <2>1, <2>4
  <2> QED
    BY <2>2, <2>4, <2>5
<1>5. FlattenSeq(s) = g[Len(s)]
  <2>1. CASE Len(s) = 0
    BY <2>1, <1>3 DEF FlattenSeq
  <2>2. CASE Len(s) # 0
    <3> DEFINE Next(f) == [i \in 1 .. Len(s) |-> IF i = 1 THEN s[i] ELSE f[i - 1] \o s[i]]
               h == [i \in 1 .. Len(s) |-> g[i]]
               flatten == CHOOSE f : f = Next(f)
    <3>1. h = Next(h)
      <4>1. ASSUME NEW i \in 1 .. Len(s) PROVE g[i] = IF i = 1 THEN s[i] ELSE h[i - 1] \o s[i]
        <5>1. CASE i = 1
          <6>1. g[1] = g[0] \o s[1]
            <7>1. 1 \in 1 .. Len(s) /\ 1 - 1 = 0
              BY <5>1
            <7>2. g[1] = g[1 - 1] \o s[1]
              BY <7>1, <1>4
            <7> QED
              BY <7>1, <7>2
          <6>2. s[1] \in Seq(S)
            BY <5>1
          <6>3. <<>> \o s[1] = s[1]
            BY <6>2
          <6> QED
            BY <6>1, <6>3, <5>1, <1>3
        <5>2. CASE i # 1
          <6>1. i - 1 \in 1 .. Len(s)
            BY <5>2
          <6>2. h[i - 1] = g[i - 1]
            BY <6>1
          <6> QED
            BY <1>4, <5>2, <6>2
        <5> QED
          BY <5>1, <5>2
      <4> QED
        BY <4>1
    <3>2. flatten = Next(flatten)
      <4> HIDE DEF Next, h
      <4> QED
        BY <3>1
    <3> HIDE DEF flatten
    <3> DEFINE Q == {n \in Nat : n + 1 \in 1 .. Len(s) => flatten[n + 1] = g[n + 1]}
    <3>3. 0 \in Q
      <4> SUFFICES ASSUME 1 \in 1 .. Len(s) PROVE flatten[1] = g[1]
        OBVIOUS
      <4>1. flatten[1] = s[1] /\ h[1] = s[1]
        BY <3>1, <3>2
      <4> QED
        BY <4>1
    <3>4. ASSUME NEW n \in Nat, n \in Q PROVE n + 1 \in Q
      <4> SUFFICES ASSUME n + 2 \in 1 .. Len(s) PROVE flatten[n + 2] = g[n + 2]
        BY DEF Q
      <4>1. flatten[n + 2] = flatten[(n + 2) - 1] \o s[n + 2]
        <5>1. n + 2 # 1
          OBVIOUS
        <5> QED
          BY <3>2, <5>1
      <4>2. g[n + 2] = g[(n + 2) - 1] \o s[n + 2]
        BY <1>4
      <4>3. (n + 2) - 1 = n + 1 /\ n + 1 \in 1 .. Len(s)
        OBVIOUS
      <4> QED
        BY <4>1, <4>2, <4>3, <3>4
    <3>5. Len(s) - 1 \in Q
      <4>1. Len(s) - 1 \in Nat
        BY <2>2
      <4> HIDE DEF Q
      <4> QED
        BY <3>3, <3>4, <4>1, Induction
    <3>6. flatten[Len(s)] = g[Len(s)]
      BY <3>5, <2>2
    <3>7. FlattenSeq(s) = flatten[Len(s)]
      BY <2>2 DEF FlattenSeq, flatten
    <3> QED
      BY <3>6, <3>7
  <2> QED
    BY <2>1, <2>2
<1> QED
  BY <1>3, <1>4, <1>5 DEF Flattening

LEMMA FlattenSeqEmpty == FlattenSeq(<<>>) = <<>>
BY DEF FlattenSeq

\* FlattenSeq goes on where it stopped when a sequence is appended.
LEMMA FlattenSeqAppend ==
  ASSUME NEW S, NEW s \in Seq(Seq(S)), NEW x \in Seq(S)
  PROVE  /\ FlattenSeq(s) \in Seq(S)
         /\ FlattenSeq(Append(s, x)) = FlattenSeq(s) \o x
<1> DEFINE t == Append(s, x)
<1>1. t \in Seq(Seq(S)) /\ Len(t) = Len(s) + 1 /\ t[Len(t)] = x /\ \A i \in 1 .. Len(s) : t[i] = s[i]
  BY AppendProperties
<1>2. PICK g \in [Nat -> Seq(S)] : g[0] = <<>> /\ Flattening(g, s) /\ FlattenSeq(s) = g[Len(s)]
  BY FlattenSeqIsLast
<1>3. PICK h \in [Nat -> Seq(S)] : h[0] = <<>> /\ Flattening(h, t) /\ FlattenSeq(t) = h[Len(t)]
  <2> HIDE DEF t
  <2> QED
    BY <1>1, FlattenSeqIsLast
<1> HIDE DEF t
<1> DEFINE Q == {n \in Nat : n <= Len(s) => g[n] = h[n]}
<1>4. 0 \in Q
  BY <1>2, <1>3
<1>5. ASSUME NEW n \in Nat, n \in Q PROVE n + 1 \in Q
  <2> SUFFICES ASSUME n + 1 <= Len(s) PROVE g[n + 1] = h[n + 1]
    BY DEF Q
  <2>1. n + 1 \in 1 .. Len(s) /\ n + 1 \in 1 .. Len(t) /\ (n + 1) - 1 = n
    BY <1>1
  <2>2. g[n + 1] = g[n] \o s[n + 1]
    BY <1>2, <2>1 DEF Flattening
  <2>3. h[n + 1] = h[n] \o t[n + 1]
    BY <1>3, <2>1 DEF Flattening
  <2> QED
    <3>1. n <= Len(s)
      BY <2>1
    <3>2. g[n] = h[n]
      BY <3>1, <1>5 DEF Q
    <3> QED
      BY <2>1, <2>2, <2>3, <3>2, <1>1
<1>6. Len(s) \in Q
  <2> HIDE DEF Q
  <2>1. Nat \subseteq Q
    BY <1>4, <1>5, Induction
  <2> QED
    BY <2>1
<1>7. h[Len(t)] = h[Len(s)] \o x
  <2>1. Len(t) \in 1 .. Len(t) /\ Len(t) - 1 = Len(s)
    BY <1>1
  <2> QED
    BY <1>1, <1>3, <2>1 DEF Flattening
<1> QED
  <2>1. g[Len(s)] = h[Len(s)] /\ g[Len(s)] \in Seq(S)
    BY <1>6
  <2> QED
    BY <1>2, <1>3, <1>7, <2>1 DEF t
=============================================================================
